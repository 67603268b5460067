----------------------------- MODULE ConfluxPool -----------------------------
(***************************************************************************)
(* Who owns what in conflux_pool.c.  One nonce, on one side (a client or   *)
(* an exit): its circuits, its entry in the unlinked pool, its entry in    *)
(* the linked pool and the conflux_t objects all of them point at.         *)
(*                                                                         *)
(* Closing a circuit calls back into the pool, which closes and launches   *)
(* more circuits.  That recursion is the stack stk of calls still to be    *)
(* made: nothing else happens until it is empty, and each call reads what  *)
(* the calls before it have left.                                          *)
(***************************************************************************)
EXTENDS Naturals, Sequences, FiniteSets

CONSTANTS
  Circs,      \* circuits, each used once
  Objs,       \* conflux_t objects, each allocated once (positive naturals)
  Client,     \* TRUE: origin circuits, FALSE: an exit's circuits
  NumLegs,    \* conflux_params_get_num_legs_set
  MaxLegs,    \* conflux_params_get_max_legs_set
  MaxLaunch,  \* num_legs_set plus max_unlinked_leg_retry
  Events      \* which of "memory", "shutdown", "add" may happen

PoolAssumption ==
  /\ Client \in BOOLEAN
  /\ NumLegs \in Nat \ {0} /\ MaxLegs \in Nat /\ MaxLaunch \in Nat
  /\ Circs \subseteq Nat /\ Objs \subseteq Nat \ {0}

VARIABLES
  circ,   \* circ[c]: st, conflux_pending_nonce set, conflux
  unl,    \* the nonce's unlinked_circuits_t, or NoSet
  lpool,  \* the nonce's conflux_t in the linked pool, or 0
  obj,    \* obj[o]: the conflux_t objects
  stk,    \* calls still to be made, the next one first
  mem,    \* have_been_under_memory_pressure()
  down    \* shutting_down

vars == <<circ, unl, lpool, obj, stk, mem, down>>

NoSet == [obj |-> 0, forLinked |-> FALSE, legs |-> {}, linked |-> {}]
NewObj == [st |-> "live", legs |-> {}, curr |-> {}, launches |-> 0,
           torn |-> FALSE]

\* The circuit built next: they are numbered in that order.
Fresh == {c \in Circs : /\ circ[c].st = "none"
                        /\ \A d \in Circs : circ[d].st = "none" => c <= d}
Open == {c \in Circs : circ[c].st = "open"}
Idle == stk = <<>>
Call(op, s) == [op |-> op, cs |-> s]

Init ==
  /\ circ = [c \in Circs |-> [st |-> "none", pend |-> FALSE, cfx |-> 0]]
  /\ unl = NoSet
  /\ lpool = 0
  /\ obj = [o \in Objs |-> [NewObj EXCEPT !.st = "unused"]]
  /\ stk = <<>>
  /\ mem = FALSE
  /\ down = FALSE

--------------------------------------------------------------------------
(* The pools.                                                              *)

\* An object no pointer has been made to yet (tor_malloc).
Unused == CHOOSE o \in Objs : obj[o].st = "unused"

\* Objs is a bound: a set is looked for only while one could be made.
CanCreate == unl # NoSet \/ lpool # 0 \/ \E o \in Objs : obj[o].st = "unused"

\* unlinked_get_or_create: the nonce's unlinked set, on the linked set's
\* object if there is one, else on a new object.
GetOrCreate ==
  IF unl # NoSet THEN unl
  ELSE IF lpool # 0 THEN [NoSet EXCEPT !.obj = lpool, !.forLinked = TRUE]
  ELSE [NoSet EXCEPT !.obj = Unused]

Allocated(o) == IF obj[o].st = "unused" THEN [obj EXCEPT ![o] = NewObj]
                ELSE obj

\* conflux_free
Freed(os, o) == [os EXCEPT ![o].st = "freed"]

\* unlinked_free of set u, in the heap os
FreedWith(os, u) == IF u.forLinked THEN os ELSE Freed(os, u.obj)

\* launch_leg_is_allowed
Allowed(o) == o.launches < MaxLaunch

\* Mutant: the launch is not counted before the circuit is built.
CountedLate(o) == o

\* num_leg_launch++, before the circuit is built
Counted(o) == [o EXCEPT !.launches = @ + 1]

\* The end of unlinked_circuit_closed, with the leg already out of set u: an
\* empty set goes; else a client relaunches.  "then" is what follows.
LegGone(u, os, then) ==
  IF u.legs = {}
  THEN /\ unl' = NoSet /\ obj' = FreedWith(os, u) /\ stk' = then
  ELSE /\ unl' = u /\ obj' = os
       /\ stk' = IF Client /\ ~mem /\ ~down
                 THEN <<Call("launch", {})>> \o then ELSE then

--------------------------------------------------------------------------
(* conflux_launch_leg.  launch_new_set ("newset"), which no call of the     *)
(* recursion makes, stops at the first leg that cannot be launched.        *)

AfterFailure == IF Head(stk).op = "newset" THEN <<>> ELSE Tail(stk)

Launching == ~Idle /\ Head(stk).op \in {"launch", "newset"} /\ CanCreate

LaunchRefused ==
  /\ Launching
  /\ LET u == GetOrCreate IN
     /\ ~Allowed(Allocated(u.obj)[u.obj])
     /\ unl' = u
     /\ obj' = Allocated(u.obj)
  /\ stk' = AfterFailure
  /\ UNCHANGED <<circ, lpool, mem, down>>

\* circuit_establish_circuit_conflux hands back a circuit.
LaunchLeg ==
  /\ Launching
  /\ LET u == GetOrCreate IN
     /\ Allowed(Allocated(u.obj)[u.obj])
     /\ \E c \in Fresh :
          /\ circ' = [circ EXCEPT ![c].st = "open", ![c].pend = TRUE]
          /\ unl' = [u EXCEPT !.legs = @ \cup {c}]
     /\ obj' = [Allocated(u.obj) EXCEPT ![u.obj] = Counted(@)]
  /\ stk' = Tail(stk)
  /\ UNCHANGED <<lpool, mem, down>>

\* It closes the circuit before it is a leg, for want of a path or of a first
\* hop: unlinked_circuit_closed runs for a circuit the set does not have.
\* That circuit is left out: it ends with no trace.
LaunchFails ==
  /\ Launching
  /\ LET u == GetOrCreate IN
     /\ Allowed(Allocated(u.obj)[u.obj])
     /\ LegGone(u, [Allocated(u.obj) EXCEPT ![u.obj] = Counted(@)],
                AfterFailure)
  /\ UNCHANGED <<circ, lpool, mem, down>>

--------------------------------------------------------------------------
(* circuit_mark_for_close_ and conflux_circuit_has_closed, for the circuits *)
(* of a list one after the other.                                          *)

Closing(c) == ~Idle /\ Head(stk).op = "close" /\ c \in Head(stk).cs

ThenClose(c) ==
  LET more == Head(stk).cs \ {c} IN
  IF more = {} THEN Tail(stk) ELSE <<Call("close", more)>> \o Tail(stk)

\* Marked already, or not a conflux circuit any more.
CloseNothing(c) ==
  /\ Closing(c)
  /\ circ[c].st # "open" \/ (~circ[c].pend /\ circ[c].cfx = 0)
  /\ circ' = [circ EXCEPT ![c].st = IF @ = "open" THEN "marked" ELSE @]
  /\ stk' = ThenClose(c)
  /\ UNCHANGED <<unl, lpool, obj, mem, down>>

\* unlinked_circuit_closed
CloseUnlinked(c) ==
  /\ Closing(c)
  /\ circ[c].st = "open" /\ circ[c].pend
  /\ circ' = [circ EXCEPT ![c].st = "marked", ![c].pend = c \notin unl.legs]
  /\ IF unl = NoSet
     THEN stk' = ThenClose(c) /\ UNCHANGED <<unl, obj>>
     ELSE LegGone([unl EXCEPT !.legs = @ \ {c}, !.linked = @ \ {c}], obj,
                  ThenClose(c))
  /\ UNCHANGED <<lpool, mem, down>>

\* cfx_del_leg: o without leg c.  busy: more than a sendme of data in flight,
\* or the highest sequence number was on c.
Torn(o, c, busy) == c \in o.legs /\ (busy \/ o.curr = {c})

Without(o, c, busy) ==
  [o EXCEPT !.legs = @ \ {c}, !.curr = @ \ {c},
            !.launches = IF c \in o.legs /\ ~Torn(o, c, busy) /\ @ > 0
                         THEN @ - 1 ELSE @]

\* Mutant: the legs are counted before c is out of them.
LastBefore(o, c) == obj[o].legs = {}

\* CONFLUX_NUM_LEGS is 0 once c is out.
Last(o, c) == obj[o].legs \subseteq {c}

\* Mutant: the last leg keeps the object.
KeepsObject(c) == FALSE

\* The last leg hands the object over to an unlinked set that shares it.
HandsOver(c) == unl.obj = circ[c].cfx

\* linked_circuit_closed, up to the teardown it may start
CloseLinked(c) ==
  /\ Closing(c)
  /\ circ[c].st = "open" /\ ~circ[c].pend /\ circ[c].cfx # 0
  /\ \E busy \in BOOLEAN :
       LET o == circ[c].cfx
           last == Last(o, c)
       IN
       /\ obj' = [obj EXCEPT ![o] = Without(@, c, busy)]
       /\ lpool' = IF last THEN 0 ELSE lpool
       /\ unl' = IF last /\ HandsOver(c)
                 THEN [unl EXCEPT !.forLinked = FALSE] ELSE unl
       /\ circ' = [circ EXCEPT ![c].st = "marked",
                     ![c].cfx = IF last /\ ~HandsOver(c) THEN o ELSE 0]
       /\ stk' = (IF Torn(obj[o], c, busy) THEN <<Call("all", {})>> ELSE <<>>)
                 \o (<<Call("refill", {c})>> \o ThenClose(c))
  /\ UNCHANGED <<mem, down>>

\* conflux_mark_all_for_close, the unlinked set
MarkAll ==
  /\ ~Idle /\ Head(stk).op = "all"
  /\ stk' = (IF unl.legs = {} THEN <<>> ELSE <<Call("close", unl.legs)>>)
            \o (<<Call("linked", {})>> \o Tail(stk))
  /\ IF unl # NoSet /\ unl.legs = {}
     THEN unl' = NoSet /\ obj' = FreedWith(obj, unl)
     ELSE UNCHANGED <<unl, obj>>
  /\ UNCHANGED <<circ, lpool, mem, down>>

\* conflux_mark_all_for_close, the linked set
MarkLinked ==
  /\ ~Idle /\ Head(stk).op = "linked"
  /\ IF lpool # 0 /\ ~obj[lpool].torn
     THEN /\ obj' = [obj EXCEPT ![lpool].torn = TRUE]
          /\ stk' = <<Call("close", obj[lpool].legs)>> \o Tail(stk)
     ELSE /\ stk' = Tail(stk)
          /\ UNCHANGED obj
  /\ UNCHANGED <<circ, unl, lpool, mem, down>>

\* The rebuilt set's unlinked set takes over the dying circuit's object o.
Adopt(o) == IF unl # NoSet /\ unl.legs # {} THEN unl
            ELSE [NoSet EXCEPT !.obj = o]

\* The end of linked_circuit_closed: refill the set that survived, or rebuild
\* the one that lost its last leg.
Refill(c) ==
  /\ ~Idle /\ Head(stk).op = "refill" /\ Head(stk).cs = {c}
  /\ LET may == Client /\ ~mem /\ ~down
         o == circ[c].cfx
         survives == lpool # 0 /\ obj[lpool].legs # {} /\ ~obj[lpool].torn
         rebuild == lpool = 0 /\ o # 0 /\ ~obj[o].torn
     IN
     /\ stk' = IF may /\ (survives \/ rebuild)
               THEN <<Call("launch", {})>> \o Tail(stk) ELSE Tail(stk)
     /\ IF may /\ rebuild
        THEN /\ unl' = Adopt(o)
             /\ obj' = IF unl # NoSet /\ unl.legs = {}
                       THEN Freed(obj, unl.obj) ELSE obj
             /\ circ' = [circ EXCEPT ![c].cfx = 0]
        ELSE UNCHANGED <<unl, obj, circ>>
  /\ UNCHANGED <<lpool, mem, down>>

--------------------------------------------------------------------------
(* Linking: link_circuit and try_finalize_set, once leg c of set u is      *)
(* linked.  valid: what validate_unlinked_legs says of the cells.          *)

TooMany(u, os) == Cardinality(u.legs) + Cardinality(os[u.obj].legs) > MaxLegs

Ready(u) == u.linked = u.legs

Finalize(u, os, cs) ==
  /\ circ' = [c \in Circs |->
                IF c \in u.legs
                THEN [cs[c] EXCEPT !.pend = FALSE, !.cfx = u.obj] ELSE cs[c]]
  /\ obj' = [os EXCEPT ![u.obj].legs = @ \cup u.legs,
                       ![u.obj].launches = 0]
  /\ lpool' = u.obj
  /\ unl' = NoSet

LinkCircuit(u, os, cs, valid, failed) ==
  IF ~TooMany(u, os) /\ valid /\ Ready(u)
  THEN Finalize(u, os, cs) /\ stk' = <<>>
  ELSE /\ unl' = u /\ obj' = os /\ circ' = cs
       /\ stk' = IF TooMany(u, os) THEN failed
                 ELSE IF ~valid THEN <<Call("all", {})>> \o failed ELSE <<>>
       /\ UNCHANGED lpool

\* conflux_process_linked: an invalid leg stays, and is acknowledged.  (A bad
\* RTT closes the circuit: CloseCircuit.)
ProcessLinked(c) ==
  /\ Client /\ Idle /\ ~down
  /\ c \in Open \cap unl.legs
  /\ \E valid \in BOOLEAN :
       LinkCircuit([unl EXCEPT !.linked = @ \cup {c}], obj, circ, valid, <<>>)
  /\ UNCHANGED <<mem, down>>

\* conflux_process_link, on a new circuit of the exit: the leg links at once
\* and what does not is closed.
ProcessLink(c) ==
  /\ ~Client /\ Idle /\ ~down /\ CanCreate
  /\ c \in Fresh
  /\ LET u == GetOrCreate IN
     \E valid \in BOOLEAN :
       LinkCircuit([u EXCEPT !.legs = @ \cup {c}, !.linked = @ \cup {c}],
                   Allocated(u.obj),
                   [circ EXCEPT ![c].st = "open", ![c].pend = TRUE],
                   valid, <<Call("close", {c})>>)
  /\ UNCHANGED <<mem, down>>

--------------------------------------------------------------------------
(* What starts a call.                                                     *)

\* launch_new_set, for the nonce's first and only time
LaunchNewSet ==
  /\ Client /\ Idle /\ ~down
  /\ \A o \in Objs : obj[o].st = "unused"
  /\ stk' = [i \in 1 .. NumLegs |-> Call("newset", {})]
  /\ UNCHANGED <<circ, unl, lpool, obj, mem, down>>

\* CONFLUX ADD: the nonce is looked up among the circuits.
ControlAdd ==
  /\ Client /\ Idle /\ ~down /\ "add" \in Events
  /\ \E c \in Open : circ[c].pend \/ circ[c].cfx # 0
  /\ stk' = <<Call("launch", {})>>
  /\ UNCHANGED <<circ, unl, lpool, obj, mem, down>>

\* A timeout, a DESTROY, CLOSECIRCUIT, the OOM handler, a protocol error.
CloseCircuit ==
  /\ Idle /\ ~down
  /\ \E c \in Open : stk' = <<Call("close", {c})>>
  /\ UNCHANGED <<circ, unl, lpool, obj, mem, down>>

\* conflux_decide_next_circ picks a current leg.
UseLeg ==
  /\ Idle /\ ~down /\ lpool # 0
  /\ \E c \in obj[lpool].legs : obj' = [obj EXCEPT ![lpool].curr = {c}]
  /\ UNCHANGED <<circ, unl, lpool, stk, mem, down>>

MemoryPressure ==
  /\ Idle /\ ~down /\ "memory" \in Events
  /\ mem' = ~mem
  /\ UNCHANGED <<circ, unl, lpool, obj, stk, down>>

--------------------------------------------------------------------------
(* circuit_free_: marked circuits at the end of the loop, all of them when *)
(* tor stops (conflux_notify_shutdown, circuit_free_all, and then          *)
(* conflux_pool_free_all).                                                 *)

Shutdown ==
  /\ Idle /\ ~down /\ "shutdown" \in Events
  /\ down' = TRUE
  /\ UNCHANGED <<circ, unl, lpool, obj, stk, mem>>

Gone(c) == [circ EXCEPT ![c] = [st |-> "freed", pend |-> FALSE, cfx |-> 0]]

\* unlinked_circuit_free, or a circuit conflux has let go of
FreeUnlinked(c) ==
  /\ Idle
  /\ circ[c].st = "marked" \/ (down /\ circ[c].st = "open")
  /\ circ[c].cfx = 0
  /\ circ' = Gone(c)
  /\ UNCHANGED <<unl, lpool, obj, stk, mem, down>>

\* A leg freed without a close leaves the set torn, or just smaller.
Dropped(o, c, busy) ==
  [Without(o, c, busy) EXCEPT !.torn = @ \/ Torn(o, c, busy)]

\* linked_circuit_free
FreeLinked(c) ==
  /\ Idle
  /\ circ[c].st = "marked" \/ (down /\ circ[c].st = "open")
  /\ circ[c].cfx # 0
  /\ \E busy \in BOOLEAN :
       LET o == circ[c].cfx
           last == Last(o, c)
           os == [obj EXCEPT ![o] = Dropped(@, c, busy)]
       IN
       /\ lpool' = IF last THEN 0 ELSE lpool
       /\ unl' = IF last /\ unl # NoSet
                 THEN [unl EXCEPT !.forLinked = FALSE] ELSE unl
       /\ obj' = IF last /\ unl = NoSet THEN Freed(os, o) ELSE os
  /\ circ' = Gone(c)
  /\ UNCHANGED <<stk, mem, down>>

\* conflux_pool_free_all
PoolFreeAll ==
  /\ Idle /\ down
  /\ \A c \in Circs : circ[c].st \in {"none", "freed"}
  /\ lpool # 0 \/ unl # NoSet
  /\ LET os == IF lpool = 0 THEN obj ELSE Freed(obj, lpool) IN
     obj' = IF unl = NoSet THEN os ELSE FreedWith(os, unl)
  /\ lpool' = 0 /\ unl' = NoSet
  /\ UNCHANGED <<circ, stk, mem, down>>

--------------------------------------------------------------------------

\* The calls of the recursion.
Calls ==
  \/ LaunchRefused \/ LaunchLeg \/ LaunchFails \/ MarkAll \/ MarkLinked
  \/ \E c \in Circs : \/ CloseNothing(c) \/ CloseUnlinked(c)
                      \/ CloseLinked(c) \/ Refill(c)

Next ==
  \/ Calls
  \/ \E c \in Circs : \/ ProcessLinked(c) \/ ProcessLink(c)
                      \/ FreeUnlinked(c) \/ FreeLinked(c)
  \/ LaunchNewSet \/ ControlAdd \/ CloseCircuit \/ UseLeg
  \/ MemoryPressure \/ Shutdown \/ PoolFreeAll

Spec == Init /\ [][Next]_vars

\* tor is single-threaded: a call that has been made runs to its end.
FairSpec == Spec /\ WF_vars(Calls)

--------------------------------------------------------------------------
(* Properties.                                                             *)

Live(o) == o \in Objs /\ obj[o].st = "live"
Held(o) == \E c \in Circs : circ[c].cfx = o

\* Every pointer to a conflux_t (a circuit's, the unlinked set's, the linked
\* pool's) is to an object that has not been freed, also in the middle of a
\* recursive close.  Nothing is then freed twice.
NoDangling ==
  /\ \A c \in Circs : circ[c].cfx # 0 => Live(circ[c].cfx)
  /\ unl # NoSet => Live(unl.obj)
  /\ lpool # 0 => Live(lpool)

\* Between calls an object that is not freed is held by a circuit or by the
\* unlinked set: after the last of them nothing is leaked.
NoOrphan == Idle => \A o \in Objs : Live(o) => Held(o) \/ unl.obj = o

\* Freeing the last leg of a set finds the nonce's unlinked set, if any, on
\* the same object and flagged as belonging to the linked set: the assertion
\* of linked_circuit_free, and what makes it the object's only owner.
OwnerAgrees ==
  Idle => \A c \in Circs :
            LET o == circ[c].cfx IN
            o # 0 /\ obj[o].legs \subseteq {c} /\ unl # NoSet
              => unl.obj = o /\ unl.forLinked

\* An unlinked set that shares a linked set's object does so only while a
\* circuit still holds it; one that owns its object shares it with none.
SharedIsHeld == Idle /\ unl # NoSet => (unl.forLinked <=> Held(unl.obj))

\* Who owns a conflux_t.  No pointer is to an object that has been freed, also
\* in the middle of a recursive close; none is left without an owner; freeing
\* the last leg of a set finds the nonce's unlinked set, if any, on the same
\* object and flagged so (the assertion of linked_circuit_free); and the flag
\* is_for_linked_set is set exactly while a circuit holds the object too.
Ownership == NoDangling /\ NoOrphan /\ OwnerAgrees /\ SharedIsHeld

\* A linked set in the pool has a leg whenever a leg is launched for it:
\* get_exit_for_nonce takes the exit from the first one.
PoolHasLegs == lpool # 0 => obj[lpool].legs # {}

\* A closed circuit is in no set: neither a leg of the linked set nor of the
\* unlinked one (until tor frees circuits it never closed, at shutdown).
ClosedIsOut ==
  ~down => \A c \in Circs :
             circ[c].st = "marked" /\ Idle
               => /\ c \notin unl.legs
                  /\ \A o \in Objs : c \notin obj[o].legs

\* The pools are in step with the circuits: a linked set in the pool has a leg,
\* also in the middle of a close (get_exit_for_nonce takes the exit of a new leg
\* from the first one), and once conflux_circuit_has_closed has returned the
\* circuit is in no set.
PoolInStep == PoolHasLegs /\ ClosedIsOut

\* A close, a launch or a teardown comes back: failures to launch that call
\* right back into conflux_launch_leg run out of launches.
CallsReturn == []<>Idle

-----------------------------------------------------------------------------
\* What a comment, an assertion or a name in the source says and the code does
\* not keep (README, section "Departures"): TLC refutes each of these.

\* "Return true on success else false which teardowns the entire unlinked
\* set if any" (conflux_launch_leg): no unlinked set is left with no leg.
NoEmptySet == Idle /\ ~down => unl = NoSet \/ unl.legs # {}

\* A set in the linked pool is not one in full teardown, which would never
\* be refilled and whose legs would not be closed together.
PoolNotTorn == Idle /\ lpool # 0 => ~obj[lpool].torn

\* unlinked_circuit_closed "deletes the leg from the set, attempt to finalize
\* it": when all the legs left have linked, the set is finalized.
LinkedIsFinal == Idle /\ unl.legs # {} => unl.linked # unl.legs

\* A leg that cannot be linked because the set has too many is closed
\* (conflux_process_linked: "On error, we close the circuit").
ExcessIsClosed ==
  [][\A c \in Circs :
       c \in unl'.linked \ unl.linked =>
         Cardinality(unl'.legs) + Cardinality(obj'[unl'.obj].legs) <= MaxLegs
         \/ stk' # <<>>]_vars

\* A set that has legs is the one the linked pool knows under its nonce.
SetIsPooled == \A o \in Objs : Live(o) /\ obj[o].legs # {} => lpool = o
=============================================================================
