-------------------------- MODULE StreamIsolation --------------------------
(* How application streams wait for circuits, get attached, fail and retry,   *)
(* and which of them may share a circuit (core/or/circuituse.c,               *)
(* connection_edge.c).                                                        *)
(*                                                                            *)
(* A carrier is what a stream attaches to: a plain circuit, launched because  *)
(* a stream wants one, or a conflux set. Its legs each hold the isolation     *)
(* record of an origin circuit; a plain circuit has one leg. Tor checks and   *)
(* updates the record of the first leg only.                                  *)
(*                                                                            *)
(* The walk over the pending list is taken stream by stream; nothing else     *)
(* happens while it runs, as in the single-threaded program.                  *)
EXTENDS Naturals, Sequences, FiniteSets, SequencesExt

CONSTANTS
  Streams,      \* application connections
  Plain,        \* identities of plain circuits
  Sets,         \* identities of conflux sets
  Kind,         \* what the listener and the client say of a stream: flags,
                \* the fields it is isolated by, and vals, their values
  Timed,        \* the streams whose time may run out in the instance
  None,
  MaxNym,       \* how often NEWNYM is signalled
  MaxLegs,      \* legs of a conflux set
  MaxPending    \* MaxClientCircuitsPending

Fields == {"auth", "group"}
Carriers == Plain \cup Sets

StreamIsolationAssumption ==
  /\ MaxNym \in Nat /\ MaxLegs \in Nat \ {0} /\ MaxPending \in Nat \ {0}
  /\ IsFiniteSet(Streams) /\ Timed \subseteq Streams
  /\ Plain \cap Sets = {} /\ None \notin Carriers
  /\ Kind \in [Streams -> [flags : SUBSET Fields, vals : [Fields -> Nat]]]

\* A stream's carrier is a circuit, or a set that never gets a second leg.
OneLeg == Sets = {} \/ MaxLegs = 1

VARIABLES
  strm,       \* stream -> state, carrier, nym_epoch, age
  circ,       \* carrier -> phase, legs, flags
  pending,    \* pending_entry_connections
  untried,    \* untried_pending_connections; its event is active with it
  todo,       \* what a running walk has still to visit
  walking,
  opening,    \* the circuit circuit_try_attaching_streams is called for
  nym,        \* newnym_epoch
  used,       \* ghost: the streams that a carrier has ever carried
  shared      \* ghost: <<t, s>> where s last joined a carrier that t had used

vars == <<strm, circ, pending, untried, todo, walking, opening, nym, used,
          shared>>

----------------------------------------------------------------------------
(* Isolation records.                                                         *)

\* ISO_NYM_EPOCH is in the flags of every application stream.
Flags(s) == Kind[s].flags \cup {"nym"}
Value(s, f) == IF f = "nym" THEN strm[s].epoch ELSE Kind[s].vals[f]
AllFields == Fields \cup {"nym"}

\* A circuit that no stream, real or hypothetical, has marked.
Fresh == [set |-> FALSE, any |-> FALSE, mixed |-> {},
          vals |-> [f \in AllFields |-> 0]]

\* Mutant: the values of the first stream only.
CompatibleFirst(s, iso) ==
  iso.set => \A f \in Flags(s) : Value(s, f) = iso.vals[f]

\* connection_edge_compatible_with_circuit.
Compatible(s, iso) ==
  iso.set => /\ Flags(s) \cap iso.mixed = {}
             /\ \A f \in Flags(s) : Value(s, f) = iso.vals[f]

\* connection_edge_update_circuit_isolation.
Marked(s, iso) ==
  IF iso.set
  THEN [iso EXCEPT !.mixed =
          @ \cup {f \in AllFields : Value(s, f) # iso.vals[f]}]
  ELSE [iso EXCEPT !.set = TRUE,
                   !.vals = [f \in AllFields |-> Value(s, f)]]

----------------------------------------------------------------------------
Unused == [phase |-> "none", legs |-> <<>>, unusable |-> FALSE,
           dirty |-> FALSE, refuses |-> {}]
Launched == [Unused EXCEPT !.phase = "building", !.legs = <<Fresh>>]

NoStream == [state |-> "none", on |-> None, epoch |-> 0,
             old |-> FALSE, idle |-> FALSE]

Init ==
  /\ strm = [s \in Streams |-> NoStream]
  /\ circ = [c \in Carriers |-> Unused]
  /\ pending = <<>> /\ untried = FALSE
  /\ todo = <<>> /\ walking = FALSE /\ opening = None
  /\ nym = 0
  /\ used = [c \in Carriers |-> {}]
  /\ shared = {}

In(state) == {s \in Streams : strm[s].state = state}
On(c) == {s \in Streams : strm[s].on = c}
Building == {c \in Plain : circ[c].phase = "building"}

\* smartlist_remove puts the last element in the place of the one removed.
Without(list, i) ==
  SubSeq([list EXCEPT ![i] = Last(list)], 1, Len(list) - 1)

\* connection_ap_mark_as_pending_circuit_ for the streams of a list.
MarkPending(list) ==
  /\ pending' = pending \o list
  /\ untried' = (untried \/ list # <<>>)

\* A new connection asks for an address and waits for a circuit.
NewStream(s) ==
  /\ strm[s].state = "none"
  /\ strm' = [strm EXCEPT ![s].state = "wait", ![s].epoch = nym]
  /\ MarkPending(<<s>>)
  /\ UNCHANGED <<circ, todo, walking, opening, nym, used, shared>>

----------------------------------------------------------------------------
(* The walk: connection_ap_attach_pending.                                    *)

\* The list is taken away; what cannot be attached is put back.
Walk(c) ==
  /\ walking' = TRUE /\ opening' = c
  /\ todo' = pending /\ pending' = <<>>
  /\ shared' = {}
  /\ UNCHANGED <<strm, nym, used>>

\* circuit_is_acceptable.
Acceptable(s, c) ==
  /\ ~circ[c].unusable
  /\ s \notin circ[c].refuses
  /\ Compatible(s, circ[c].legs[1])

OpenFor(s, cs) == {c \in cs : circ[c].phase = "open" /\ Acceptable(s, c)}

\* circuit_get_best: the linked conflux sets come first.
Best(s) == IF OpenFor(s, Sets) # {} THEN OpenFor(s, Sets) ELSE OpenFor(s, Plain)

OnTheWay(s) == {c \in Building : Acceptable(s, c)}

PutBack(s) == pending' = IF Contains(pending, s) THEN pending
                         ELSE Append(pending, s)

\* link_apconn_to_circ and the BEGIN cell.
Linked(s, c) == [circ EXCEPT ![c].dirty = TRUE,
                             ![c].legs[1] = [Marked(s, @) EXCEPT !.any = TRUE]]
Joins(s, c) ==
  /\ used' = [used EXCEPT ![c] = @ \cup {s}]
  /\ shared' = {<<t, s>> : t \in used[c] \ {s}}

Attach(s, c) ==
  /\ circ' = Linked(s, c)
  /\ Joins(s, c)
  /\ strm' = [strm EXCEPT ![s].state = "conn", ![s].on = c, ![s].idle = FALSE]
  /\ UNCHANGED pending

\* The circuit has no free stream id: the stream is closed and the circuit
\* takes no other one.
NoStreamId(s, c) ==
  /\ circ' = [Linked(s, c) EXCEPT ![c].unusable = TRUE]
  /\ Joins(s, c)
  /\ strm' = [strm EXCEPT ![s].state = "closed"]
  /\ UNCHANGED pending

\* One is on the way: it is marked with this stream's values too.
AwaitCircuit(s, c) ==
  /\ circ' = [circ EXCEPT ![c].legs[1] = Marked(s, @)]
  /\ PutBack(s)
  /\ UNCHANGED <<strm, used, shared>>

\* A circuit is launched for the stream.
Launch(s, c) ==
  /\ circ[c].phase = "none"
  /\ Cardinality(Building) < MaxPending
  /\ circ' = [circ EXCEPT ![c] =
                [Launched EXCEPT !.legs = <<Marked(s, Fresh)>>]]
  /\ PutBack(s)
  /\ UNCHANGED <<strm, used, shared>>

\* Too many are being built, or the launch failed.
Delay(s) == PutBack(s) /\ UNCHANGED <<strm, circ, used, shared>>

GiveUp(s) ==
  /\ strm' = [strm EXCEPT ![s].state = "closed"]
  /\ UNCHANGED <<circ, pending, used, shared>>

Skip == UNCHANGED <<strm, circ, pending, used, shared>>

\* connection_ap_handshake_attach_circuit for one stream.
Visit(s) ==
  IF strm[s].state # "wait" THEN Skip
  ELSE IF strm[s].old THEN GiveUp(s)
  ELSE IF Best(s) # {}
  THEN \E c \in Best(s) : Attach(s, c) \/ NoStreamId(s, c)
  ELSE IF OnTheWay(s) # {}
  THEN \E c \in OnTheWay(s) : AwaitCircuit(s, c)
  ELSE (\E c \in Plain : Launch(s, c)) \/ Delay(s)

WalkStep ==
  /\ walking /\ todo # <<>>
  /\ Visit(Head(todo))
  /\ todo' = Tail(todo)
  /\ UNCHANGED <<untried, walking, opening, nym>>

\* circuit_try_clearing_isolation_state: the marks are hypothetical.
Clearable(iso) == iso.set /\ ~iso.any

\* The walk ends; circuit_try_attaching_streams walks once more when it could
\* clear the marks of the circuit that opened.
WalkEnd ==
  /\ walking /\ todo = <<>>
  /\ untried' = FALSE
  /\ IF opening # None /\ circ[opening].phase = "open"
        /\ Clearable(circ[opening].legs[1])
     THEN /\ circ' = [circ EXCEPT ![opening].legs[1] = Fresh]
          /\ Walk(None)
     ELSE /\ walking' = FALSE /\ opening' = None /\ shared' = {}
          /\ UNCHANGED <<strm, circ, pending, todo, nym, used>>

\* The event that a new pending stream activated.
AttachEvent ==
  /\ untried
  /\ Walk(None)
  /\ UNCHANGED <<circ, untried>>

\* connection_ap_rescan_and_attach_pending, once a second.
Rescan ==
  /\ pending # <<>> \/ In("wait") # {}
  /\ \E lost \in SetToSeqs(In("wait") \ ToSet(pending)) :
       /\ todo' = pending \o lost
       /\ untried' = (untried \/ lost # <<>>)
  /\ walking' = TRUE /\ opening' = None /\ pending' = <<>>
  /\ UNCHANGED <<strm, circ, nym, used, shared>>

----------------------------------------------------------------------------
(* Circuits.                                                                  *)

\* circuit_predict_and_launch_new: a circuit that no stream has asked for.
Predict(c) ==
  /\ circ[c].phase = "none"
  /\ circ' = [circ EXCEPT ![c] = Launched]
  /\ UNCHANGED <<strm, pending, untried, todo, walking, opening, nym, used,
                 shared>>

\* A plain circuit is built.
CircOpens(c) ==
  /\ circ[c].phase = "building"
  /\ circ' = [circ EXCEPT ![c].phase = "open"]
  /\ Walk(c)
  /\ UNCHANGED untried

\* A conflux set has its first legs; no stream has marked them.
SetLinks(c) ==
  /\ circ[c].phase = "none"
  /\ circ' = [circ EXCEPT ![c] = [Unused EXCEPT
                !.phase = "open", !.legs = [i \in 1..MaxLegs |-> Fresh]]]
  /\ Walk(None)
  /\ UNCHANGED untried

\* A replacement leg joins. The streams, the stream ids and the dirtiness of the
\* first leg are copied to it, the isolation record is not.
LegLinks(c) ==
  /\ circ[c].phase = "open"
  /\ Len(circ[c].legs) < MaxLegs
  /\ circ' = [circ EXCEPT ![c].legs = Append(@, Fresh)]
  /\ Walk(None)
  /\ UNCHANGED untried

\* The carrier is gone, with every stream on it.
Gone(c) ==
  /\ circ' = [circ EXCEPT ![c] = Unused]
  /\ strm' = [s \in Streams |->
                IF strm[s].on = c
                THEN [strm[s] EXCEPT !.state = "closed", !.on = None]
                ELSE strm[s]]
  /\ used' = [used EXCEPT ![c] = {}]

\* A leg closes: it was idle and the set goes on, or the set goes down with it.
LegCloses(c) ==
  /\ circ[c].phase = "open"
  /\ \/ /\ Len(circ[c].legs) > 1
        /\ \E i \in DOMAIN circ[c].legs :
             circ' = [circ EXCEPT ![c].legs = Without(@, i)]
        /\ UNCHANGED <<strm, used>>
     \/ Gone(c)
  /\ UNCHANGED <<pending, untried, todo, walking, opening, nym, shared>>

BuildFails(c) ==
  /\ c \in Building
  /\ Gone(c)
  /\ UNCHANGED <<pending, untried, todo, walking, opening, nym, shared>>

\* circuit_expire_old_circuits_clientside; and a circuit that has been dirty
\* for MaxCircuitDirtiness is no longer acceptable.
CircExpires(c) ==
  /\ circ[c].phase = "open"
  /\ \/ On(c) = {} /\ Gone(c)
     \/ /\ circ[c].dirty /\ ~circ[c].unusable
        /\ circ' = [circ EXCEPT ![c].unusable = TRUE]
        /\ UNCHANGED <<strm, used>>
  /\ UNCHANGED <<pending, untried, todo, walking, opening, nym, shared>>

\* signewnym_impl: dirty circuits take no new stream, and later streams belong
\* to a new epoch.
NewNym ==
  /\ nym < MaxNym
  /\ nym' = nym + 1
  /\ circ' = [c \in Carriers |->
                [circ[c] EXCEPT !.unusable = @ \/ circ[c].dirty]]
  /\ UNCHANGED <<strm, pending, untried, todo, walking, opening, used, shared>>

----------------------------------------------------------------------------
(* Attached streams.                                                          *)

Connected(s) ==
  /\ strm[s].state = "conn"
  /\ strm' = [strm EXCEPT ![s].state = "open"]
  /\ UNCHANGED <<circ, pending, untried, todo, walking, opening, nym, used,
                 shared>>

\* connection_ap_detach_retriable for a set of streams.
Detached(ss) ==
  [s \in Streams |->
     IF s \in ss THEN [strm[s] EXCEPT !.state = "wait", !.on = None,
                                      !.idle = FALSE]
     ELSE strm[s]]

\* connection_ap_process_end_not_open: an END cell before the stream is open.
\* It is final, or the exit refuses the address or everything, or the circuit
\* is given up for new streams, and the stream tries again.
EndNotOpen(s) ==
  LET c == strm[s].on IN
  /\ strm[s].state = "conn"
  /\ \/ /\ strm' = [strm EXCEPT ![s].state = "closed", ![s].on = None]
        /\ UNCHANGED <<circ, pending, untried>>
     \/ /\ \/ \E r \in {{s}, Streams} :
                circ' = [circ EXCEPT ![c].refuses = @ \cup r]
           \/ circ' = [circ EXCEPT ![c].unusable = TRUE, ![c].dirty = TRUE]
        /\ strm' = Detached({s})
        /\ MarkPending(<<s>>)
  /\ UNCHANGED <<todo, walking, opening, nym, used, shared>>

\* Mutant: the pending list keeps a stream that is closed.
CloseKeeps(s) ==
  /\ strm[s].state \in {"wait", "conn", "open"}
  /\ strm' = [strm EXCEPT ![s].state = "closed", ![s].on = None]
  /\ UNCHANGED <<circ, pending, untried, todo, walking, opening, nym, used,
                 shared>>

\* Either side ends an open or a waiting stream. A waiting stream that is closed
\* is taken off the pending list.
Close(s) ==
  /\ strm[s].state \in {"wait", "conn", "open"}
  /\ strm' = [strm EXCEPT ![s].state = "closed", ![s].on = None]
  /\ pending' = IF Contains(pending, s)
                THEN Without(pending, CHOOSE i \in DOMAIN pending :
                                        pending[i] = s)
                ELSE pending
  /\ UNCHANGED <<circ, untried, todo, walking, opening, nym, used, shared>>

----------------------------------------------------------------------------
(* Time.                                                                      *)

\* SocksTimeout has passed since the stream was created.
Age(s) ==
  /\ strm[s].state \in {"wait", "conn"} /\ ~strm[s].old
  /\ strm' = [strm EXCEPT ![s].old = TRUE]
  /\ UNCHANGED <<circ, pending, untried, todo, walking, opening, nym, used,
                 shared>>

\* The retry timeout has passed since BEGIN was sent.
NoAnswer(s) ==
  /\ strm[s].state = "conn" /\ ~strm[s].idle
  /\ strm' = [strm EXCEPT ![s].idle = TRUE]
  /\ UNCHANGED <<circ, pending, untried, todo, walking, opening, nym, used,
                 shared>>

\* Mutant: only attached streams are looked at.
DeadNone == {}

\* Unattached streams that have waited for SocksTimeout.
Dead == {s \in In("wait") : strm[s].old}

\* connection_ap_expire_beginning: old unattached streams are closed, attached
\* ones without an answer go back to the list and their circuits take no other
\* stream.  The order of the list is left open: every removal moves the last one.
Expire ==
  LET stale == {s \in In("conn") : strm[s].idle}
  IN  /\ stale \cup Dead # {}
      /\ strm' = [s \in Streams |->
                    IF s \in Dead THEN [strm[s] EXCEPT !.state = "closed"]
                    ELSE Detached(stale)[s]]
      /\ circ' = [c \in Carriers |->
                    IF \E s \in stale : strm[s].on = c
                    THEN [circ[c] EXCEPT !.unusable = TRUE, !.dirty = TRUE]
                    ELSE circ[c]]
      /\ \E left \in SetToSeqs(ToSet(pending) \ Dead),
            more \in SetToSeqs(stale) : pending' = left \o more
      /\ untried' = (untried \/ stale # {})
      /\ UNCHANGED <<todo, walking, opening, nym, used, shared>>

----------------------------------------------------------------------------
Event ==
  \/ AttachEvent \/ Rescan \/ NewNym \/ Expire
  \/ \E s \in Streams : \/ NewStream(s) \/ Connected(s)
                        \/ EndNotOpen(s) \/ Close(s)
  \/ \E c \in Plain : Predict(c) \/ CircOpens(c) \/ BuildFails(c)
  \/ \E c \in Sets : SetLinks(c) \/ LegLinks(c)
  \/ \E c \in Carriers : LegCloses(c) \/ CircExpires(c)

Time == \E s \in Timed : Age(s) \/ NoAnswer(s)

Next == WalkStep \/ WalkEnd \/ (~walking /\ Event) \/ Time

Attaching == WalkStep \/ WalkEnd \/ (~walking /\ AttachEvent)

\* The walk and the event that starts it run, time passes, and the timer of
\* connection_ap_expire_beginning fires between walks (a walk is one call, so
\* the timer is not kept waiting by it). Nothing is assumed of the network.
Fairness ==
  /\ WF_vars(Attaching)
  /\ SF_vars(~walking /\ Expire)
  /\ \A s \in Timed : WF_vars(Age(s)) /\ WF_vars(NoAnswer(s))

Spec == Init /\ [][Next]_vars
FairSpec == Spec /\ Fairness

----------------------------------------------------------------------------
(* Properties.                                                                *)

\* A stream joins a carrier only if it is isolated from none of the streams that
\* used the carrier before: by SOCKS credentials, by session group, by NEWNYM
\* epoch (connection_edge_compatible_with_circuit over any history of marks,
\* mixed values, clearing and retries).
Respected ==
  \A p \in shared : \A f \in Flags(p[2]) : Value(p[1], f) = Value(p[2], f)

\* Every stream that waits for a circuit is listed exactly once, so that the
\* warnings of connection_ap_rescan_and_attach_pending and of
\* connection_ap_mark_as_pending_circuit_ are never printed.
ListedOnce ==
  \A s \in Streams :
    Cardinality({i \in DOMAIN (pending \o todo) : (pending \o todo)[i] = s})
      = IF strm[s].state = "wait" THEN 1 ELSE 0

\* The marks an open circuit keeps are those of streams that really used it:
\* the hypothetical ones made while it was built do not turn streams away.
MarksAreReal ==
  ~walking => \A c \in Carriers :
    circ[c].phase = "open" /\ circ[c].legs[1].set => circ[c].legs[1].any

\* Isolation is kept, and no more than asked for.  A stream joins a carrier only
\* if it is isolated from none of the streams that used it before: by SOCKS
\* credentials, session group or NEWNYM epoch
\* (connection_edge_compatible_with_circuit over any history of marks, mixed
\* values, clearing and retries); and the marks an open circuit keeps are those
\* of streams that really used it, not the hypothetical ones of its launch.
IsolationKept == Respected /\ MarksAreReal

Unsettled(s) == strm[s].state \in {"wait", "conn"}

\* Whatever circuits and exits do, no application waits for ever: every stream
\* is opened or closed.
Settles == \A s \in Streams : []<>~Unsettled(s)

-----------------------------------------------------------------------------
\* What a comment, an assertion or a name in the source says and the code does
\* not keep (README, section "Departures"): TLC refutes each of these.

\* Nor is one of the earlier streams isolated from it.
Mutual ==
  \A p \in shared : \A f \in Flags(p[1]) : Value(p[1], f) = Value(p[2], f)
=============================================================================
