-------------------------- MODULE ConfluxPoolProofs --------------------------
(***************************************************************************)
(* Proofs about ConfluxPool, for any number of circuits, objects, legs and *)
(* launches, for clients and exits, under memory pressure and at shutdown. *)
(***************************************************************************)
EXTENDS ConfluxPool, SequenceTheorems, TLAPS

Pointers == Objs \cup {0}

CircRecord ==
  [st : {"none", "open", "marked", "freed"}, pend : BOOLEAN, cfx : Pointers]
SetRecord ==
  [obj : Pointers, forLinked : BOOLEAN, legs : SUBSET Circs,
   linked : SUBSET Circs]
ObjRecord ==
  [st : {"unused", "live", "freed"}, legs : SUBSET Circs, curr : SUBSET Circs,
   launches : Nat, torn : BOOLEAN]
CallRecord ==
  [op : {"launch", "newset", "close", "all", "linked", "refill"},
   cs : SUBSET Circs]

TypeOK ==
  /\ circ \in [Circs -> CircRecord]
  /\ unl \in SetRecord
  /\ lpool \in Pointers
  /\ obj \in [Objs -> ObjRecord]
  /\ stk \in Seq(CallRecord)
  /\ mem \in BOOLEAN /\ down \in BOOLEAN

\* A set has an object.
SetHasObject == unl.obj = 0 => unl = NoSet

\* A leg of a linked set is open and points at the set's object.
LegsAreOpen ==
  \A o \in Objs : \A c \in obj[o].legs :
    circ[c].st = "open" /\ ~circ[c].pend /\ circ[c].cfx = o

\* The legs of the unlinked set are the open circuits that have a nonce, and,
\* when tor stops, circuits that were freed and never closed.
LegsArePending ==
  /\ \A c \in unl.legs :
       \/ circ[c].st = "open" /\ circ[c].pend /\ circ[c].cfx = 0
       \/ down /\ circ[c].st = "freed"
  /\ \A c \in Circs :
       circ[c].st = "open" /\ circ[c].pend => c \in unl.legs

\* A circuit that has its object and is no leg of it was the last one: it is
\* closed, and nothing else has the object.
Holder(c) == circ[c].cfx # 0 /\ c \notin obj[circ[c].cfx].legs

HoldersAreLast ==
  \A c \in Circs : Holder(c) =>
    LET o == circ[c].cfx IN
    /\ circ[c].st = "marked"
    /\ obj[o].legs = {} /\ lpool # o /\ unl.obj # o
    /\ \A d \in Circs \ {c} : circ[d].cfx # o

\* What is not freed has an owner, also in the middle of the calls.
Owned == \A o \in Objs : Live(o) => Held(o) \/ unl.obj = o

\* An unlinked set is on the pooled object, and says so, or has one of its own.
Shares ==
  unl # NoSet =>
    IF unl.forLinked THEN unl.obj = lpool
    ELSE lpool # unl.obj /\ ~Held(unl.obj)

\* On a client all pointers are to one object, and its legs are pooled.
OneObject ==
  Client => \A c \in Circs : circ[c].cfx # 0 =>
    /\ unl # NoSet => unl.obj = circ[c].cfx
    /\ \A d \in Circs : circ[d].cfx # 0 => circ[d].cfx = circ[c].cfx
    /\ ~Holder(c) => lpool = circ[c].cfx

\* An exit has an unlinked set only for a leg it is about to close.
ExitSets ==
  ~Client /\ unl # NoSet =>
    /\ \E c \in Circs : unl.legs = {c}
    /\ ~Idle
    /\ Head(stk).op = "all" \/ Head(stk) = Call("close", unl.legs)

\* The calls still to be made launch nothing, but for the next one, which has a
\* set to launch for, or launch_new_set, which starts from nothing.
Quiet(s) == \A i \in 1 .. Len(s) : s[i].op \notin {"launch", "newset"}

LaunchNext ==
  /\ Client /\ ~Idle /\ Head(stk).op = "launch" /\ Quiet(Tail(stk))
  /\ unl # NoSet \/ lpool # 0

NewSetNext ==
  /\ Client /\ \A i \in 1 .. Len(stk) : stk[i].op = "newset"
  /\ lpool = 0 /\ \A c \in Circs : circ[c].cfx = 0

StackShape ==
  /\ Quiet(stk) \/ LaunchNext \/ NewSetNext
  /\ down => Idle

\* A circuit that is not built yet has nothing.
NotYet ==
  \A c \in Circs :
    circ[c].st \in {"none", "freed"} => ~circ[c].pend /\ circ[c].cfx = 0

Safe ==
  /\ NoDangling /\ Owned /\ PoolHasLegs
  /\ SetHasObject /\ LegsAreOpen /\ LegsArePending /\ HoldersAreLast
  /\ Shares /\ OneObject /\ NotYet

\* The inductive invariant.
PoolInv == TypeOK /\ Safe /\ ExitSets /\ StackShape

-----------------------------------------------------------------------------
(* Calls and records                                                        *)

\* A call put before others.
LEMMA Push ==
  ASSUME NEW f \in CallRecord, NEW s \in Seq(CallRecord)
  PROVE  /\ <<f>> \o s \in Seq(CallRecord)
         /\ <<f>> \o s # <<>> /\ Head(<<f>> \o s) = f /\ Tail(<<f>> \o s) = s
         /\ Quiet(s) /\ f.op \notin {"launch", "newset"} => Quiet(<<f>> \o s)
<1>1. <<f>> \in Seq(CallRecord) /\ Len(<<f>>) = 1 /\ <<f>>[1] = f
  OBVIOUS
<1>2. <<f>> \o s \in Seq(CallRecord) /\ Len(<<f>> \o s) = Len(s) + 1
  BY <1>1, ConcatProperties
<1>3. \A i \in 1 .. Len(s) + 1 :
        (<<f>> \o s)[i] = IF i <= 1 THEN <<f>>[i] ELSE s[i - 1]
  BY <1>1, ConcatProperties
<1>4. (<<f>> \o s)[1] = f
  BY <1>1, <1>3
<1>5. Tail(<<f>> \o s) = s
  <2> DEFINE t == Tail(<<f>> \o s)
  <2>1. /\ t \in Seq(CallRecord) /\ Len(t) = Len(s)
        /\ \A i \in 1 .. Len(t) : t[i] = (<<f>> \o s)[i + 1]
    BY <1>2, HeadTailProperties
  <2>2. \A i \in 1 .. Len(s) : t[i] = s[i]
    BY <1>3, <2>1
  <2>3. QED
    BY <2>1, <2>2, SeqEqual
<1>6. ASSUME Quiet(s), f.op \notin {"launch", "newset"}
      PROVE  Quiet(<<f>> \o s)
  BY <1>1, <1>2, <1>3, <1>6 DEF Quiet
<1>7. QED
  BY <1>2, <1>4, <1>5, <1>6

\* A call that is none of the launches stands before none of them.
LEMMA QuietHead ==
  ASSUME TypeOK, StackShape, ~Idle, Head(stk).op \notin {"launch", "newset"}
  PROVE  Quiet(stk) /\ Quiet(Tail(stk)) /\ Tail(stk) \in Seq(CallRecord)
<1>1. stk \in Seq(CallRecord) /\ stk # <<>> /\ Len(stk) >= 1
      /\ Head(stk) = stk[1]
  BY EmptySeq DEF TypeOK, Idle
<1>2. Quiet(stk)
  BY <1>1 DEF StackShape, LaunchNext, NewSetNext
<1>3. QED
  BY <1>1, <1>2, HeadTailProperties DEF Quiet

\* What is left of a list of circuits to close.
LEMMA RestOfList ==
  ASSUME TypeOK, StackShape, NEW c \in Circs, Closing(c)
  PROVE  Quiet(ThenClose(c)) /\ ThenClose(c) \in Seq(CallRecord)
<1>1. Quiet(Tail(stk)) /\ Tail(stk) \in Seq(CallRecord)
  BY QuietHead DEF Closing
<1>2. Call("close", Head(stk).cs \ {c}) \in CallRecord
  BY HeadTailProperties DEF Closing, TypeOK, CallRecord, Call, Idle
<1>3. Call("close", Head(stk).cs \ {c}).op = "close"
  BY DEF Call
<1>4. QED
  BY <1>1, <1>2, <1>3, Push DEF ThenClose

\* The set that is not there.
LEMMA NoSetIs ==
  /\ NoSet \in SetRecord /\ NoSet.obj = 0 /\ ~NoSet.forLinked
  /\ NoSet.legs = {} /\ NoSet.linked = {}
  BY DEF NoSet, SetRecord, Pointers

\* There is no unlinked set exactly when no object belongs to one.
LEMMA SetIs ==
  ASSUME SetHasObject
  PROVE  unl = NoSet <=> unl.obj = 0
  BY NoSetIs DEF SetHasObject

-----------------------------------------------------------------------------
(* The changes of owner.  Each lemma gives what a step may do to circuits,  *)
(* sets and objects in terms of the fields that say who owns what.          *)

\* Nothing that matters changes.
LEMMA SameOwners ==
  ASSUME TypeOK, Safe, UNCHANGED <<circ, lpool>>,
         unl'.obj = unl.obj, unl'.forLinked = unl.forLinked,
         unl'.legs = unl.legs, unl = NoSet => unl' = NoSet,
         \A o \in Objs : /\ obj'[o].st = "live" <=> obj[o].st = "live"
                         /\ obj'[o].legs = obj[o].legs,
         down => down'
  PROVE  Safe'
<1>1. unl # NoSet <=> unl' # NoSet
  BY NoSetIs DEF Safe, SetHasObject
<1>2. \A o : Live(o)' <=> Live(o)
  BY DEF Live
<1>3. \A o : Held(o)' <=> Held(o)
  BY DEF Held
<1>4. \A c \in Circs : Holder(c)' <=> Holder(c)
  BY DEF Holder, TypeOK, CircRecord, Pointers
<1>5. NoDangling' /\ Owned'
  BY <1>1, <1>2, <1>3 DEF Safe, NoDangling, Owned
<1>6. PoolHasLegs' /\ SetHasObject' /\ LegsAreOpen' /\ LegsArePending' /\ NotYet'
  BY <1>1 DEF TypeOK, Pointers, Safe, PoolHasLegs, SetHasObject, LegsAreOpen,
              LegsArePending, NotYet
<1>7. HoldersAreLast'
  BY <1>4 DEF Safe, HoldersAreLast, Holder, TypeOK, CircRecord, Pointers
<1>8. Shares'
  BY <1>1, <1>3 DEF Safe, Shares
<1>9. OneObject'
  BY <1>1, <1>4 DEF Safe, OneObject
<1>10. QED
  BY <1>5, <1>6, <1>7, <1>8, <1>9 DEF Safe

\* An object that is not live is in nobody's hands.
LEMMA UnusedIsFree ==
  ASSUME PoolAssumption, TypeOK, Safe, NEW o \in Objs, obj[o].st # "live"
  PROVE  /\ o # 0 /\ obj[o].legs = {} /\ lpool # o /\ unl.obj # o
         /\ \A c \in Circs : circ[c].cfx # o
<1>1. o # 0
  BY DEF PoolAssumption
<1>2. \A c \in Circs : circ[c].cfx # o
  BY <1>1 DEF Safe, NoDangling, Live
<1>3. lpool # o /\ unl.obj # o
  BY <1>1, NoSetIs DEF Safe, NoDangling, Live
<1>4. obj[o].legs = {}
  BY <1>2 DEF Safe, LegsAreOpen, TypeOK, ObjRecord
<1>5. QED
  BY <1>1, <1>2, <1>3, <1>4

\* What unlinked_get_or_create finds or makes.
LEMMA GetOrCreateIs ==
  ASSUME PoolAssumption, TypeOK, Safe, CanCreate
  PROVE  LET u == GetOrCreate IN
         /\ u \in SetRecord /\ u.obj \in Objs /\ u.obj # 0
         /\ unl # NoSet => u = unl
         /\ unl = NoSet => u.legs = {} /\ u.linked = {}
         /\ unl = NoSet /\ lpool # 0 => u.obj = lpool /\ u.forLinked
         /\ unl = NoSet /\ lpool = 0
              => ~u.forLinked /\ obj[u.obj].st = "unused"
         /\ Allocated(u.obj) \in [Objs -> ObjRecord]
         /\ \A o \in Objs :
              /\ Allocated(u.obj)[o].st = IF o = u.obj THEN "live"
                                          ELSE obj[o].st
              /\ Allocated(u.obj)[o].legs = obj[o].legs
<1> DEFINE u == GetOrCreate
<1>1. CASE unl # NoSet
  <2>1. u = unl /\ unl.obj \in Objs /\ obj[unl.obj].st = "live" /\ unl.obj # 0
    BY <1>1 DEF GetOrCreate, Safe, NoDangling, Live, PoolAssumption
  <2>2. Allocated(u.obj) = obj
    BY <2>1 DEF Allocated
  <2>3. QED
    BY <1>1, <2>1, <2>2 DEF TypeOK
<1>2. CASE unl = NoSet /\ lpool # 0
  <2>1. u = [NoSet EXCEPT !.obj = lpool, !.forLinked = TRUE]
    BY <1>2 DEF GetOrCreate
  <2>2. u.obj = lpool /\ u.forLinked /\ u.legs = {} /\ u.linked = {}
        /\ u \in SetRecord
    BY <2>1 DEF NoSet, SetRecord, TypeOK
  <2>3. lpool \in Objs /\ obj[lpool].st = "live"
    BY <1>2 DEF Safe, NoDangling, Live
  <2>4. Allocated(u.obj) = obj
    BY <2>2, <2>3 DEF Allocated
  <2> HIDE DEF u
  <2>5. QED
    BY <1>2, <2>2, <2>3, <2>4 DEF TypeOK, u
<1>3. CASE unl = NoSet /\ lpool = 0
  <2>1. u = [NoSet EXCEPT !.obj = Unused]
    BY <1>3 DEF GetOrCreate
  <2>2. Unused \in Objs /\ obj[Unused].st = "unused"
    BY <1>3 DEF CanCreate, Unused
  <2>3. Unused # 0 /\ obj[Unused].legs = {}
    BY <2>2, UnusedIsFree
  <2>4. u.obj = Unused /\ ~u.forLinked /\ u.legs = {} /\ u.linked = {}
        /\ u \in SetRecord
    BY <2>1, <2>2 DEF NoSet, SetRecord, Pointers
  <2>5. Allocated(u.obj) = [obj EXCEPT ![Unused] = NewObj]
    BY <2>2, <2>4 DEF Allocated
  <2>6. NewObj \in ObjRecord /\ NewObj.st = "live" /\ NewObj.legs = {}
    BY DEF NewObj, ObjRecord
  <2> HIDE DEF u
  <2>7. QED
    BY <1>3, <2>2, <2>3, <2>4, <2>5, <2>6 DEF TypeOK, u
<1>4. QED
  BY <1>1, <1>2, <1>3

\* The unlinked set is found or made, and gets the legs L, which are new.
LEMMA Joins ==
  ASSUME PoolAssumption, TypeOK, Safe, CanCreate,
         Client /\ unl = NoSet /\ lpool = 0
           => \A c \in Circs : circ[c].cfx = 0,
         NEW L \in SUBSET Circs, \A c \in L : circ[c].st = "none",
         unl'.obj = GetOrCreate.obj, unl'.forLinked = GetOrCreate.forLinked,
         unl'.legs = GetOrCreate.legs \cup L,
         \A c \in Circs :
           IF c \in L THEN /\ circ'[c].st = "open" /\ circ'[c].pend
                           /\ circ'[c].cfx = 0
           ELSE circ'[c] = circ[c],
         \A o \in Objs :
           /\ obj'[o].st = IF o = GetOrCreate.obj THEN "live" ELSE obj[o].st
           /\ obj'[o].legs = obj[o].legs,
         UNCHANGED <<lpool, down>>
  PROVE  Safe'
<1> DEFINE u == GetOrCreate
<1>1. /\ u.obj \in Objs /\ u.obj # 0
      /\ unl # NoSet => u = unl
      /\ unl = NoSet => u.legs = {}
      /\ unl = NoSet /\ lpool # 0 => u.obj = lpool /\ u.forLinked
      /\ unl = NoSet /\ lpool = 0
           => ~u.forLinked /\ obj[u.obj].st = "unused"
  BY GetOrCreateIs
<1> HIDE DEF u
<1>2. /\ unl'.obj = u.obj /\ unl'.forLinked = u.forLinked
      /\ unl'.legs = u.legs \cup L
      /\ \A o \in Objs : obj'[o].st = IF o = u.obj THEN "live" ELSE obj[o].st
  BY DEF u
<1>3. unl' # NoSet /\ (unl # NoSet <=> unl.obj # 0)
  BY <1>1, <1>2, NoSetIs, SetIs DEF Safe
<1>4. \A c \in Circs : circ'[c].cfx = circ[c].cfx /\ (c \in L => circ[c].cfx = 0)
  BY DEF Safe, NotYet
<1>5. \A o : /\ Live(o)' <=> Live(o) \/ o = u.obj
             /\ Held(o)' <=> Held(o)
  BY <1>1, <1>2, <1>4 DEF Live, Held
<1>6. \A c \in Circs : Holder(c)' <=> Holder(c)
  BY <1>4 DEF Holder, TypeOK, CircRecord, Pointers
<1>7. unl = NoSet /\ lpool = 0 => \A c \in Circs : circ[c].cfx # u.obj
  BY <1>1, UnusedIsFree
<1>8. NoDangling' /\ Owned'
  <2>1. NoDangling'
    BY <1>1, <1>2, <1>4, <1>5 DEF Safe, NoDangling
  <2>2. 0 \notin Objs
    BY DEF PoolAssumption
  <2>3. Owned'
    BY <1>1, <1>2, <1>3, <1>5, <2>2 DEF Safe, Owned
  <2>4. QED
    BY <2>1, <2>3
<1>9. PoolHasLegs' /\ SetHasObject'
  BY <1>1, <1>2 DEF TypeOK, Pointers, Safe, PoolHasLegs, SetHasObject
<1>10. LegsAreOpen' /\ NotYet'
  BY <1>4 DEF TypeOK, ObjRecord, Safe, LegsAreOpen, NotYet
<1>11. LegsArePending'
  BY <1>1, <1>2, <1>4, NoSetIs DEF TypeOK, SetRecord, Safe, LegsArePending
<1>12. HoldersAreLast'
  <2> SUFFICES ASSUME NEW c \in Circs, Holder(c)'
               PROVE  /\ circ'[c].st = "marked"
                      /\ obj'[circ'[c].cfx].legs = {}
                      /\ lpool' # circ'[c].cfx /\ unl'.obj # circ'[c].cfx
                      /\ \A d \in Circs \ {c} : circ'[d].cfx # circ'[c].cfx
    BY DEF HoldersAreLast
  <2> DEFINE o == circ[c].cfx
  <2>1. /\ o # 0 /\ c \notin L /\ circ'[c] = circ[c] /\ o \in Objs
        /\ circ[c].st = "marked" /\ obj[o].legs = {}
        /\ lpool # o /\ unl.obj # o
        /\ \A d \in Circs \ {c} : circ[d].cfx # o
    BY <1>4, <1>6
       DEF Safe, HoldersAreLast, Holder, TypeOK, CircRecord, Pointers
  <2>2. u.obj # o
    BY <1>1, <1>3, <1>7, <2>1
  <2>3. QED
    BY <1>2, <1>4, <2>1, <2>2
<1>13. Shares'
  BY <1>1, <1>2, <1>3, <1>5, <1>7, UnusedIsFree DEF Safe, Shares, Held
<1>14. OneObject'
  <2> SUFFICES ASSUME Client, NEW c \in Circs, circ'[c].cfx # 0
               PROVE  /\ unl'.obj = circ'[c].cfx
                      /\ \A d \in Circs :
                           circ'[d].cfx # 0 => circ'[d].cfx = circ'[c].cfx
                      /\ ~Holder(c)' => lpool' = circ'[c].cfx
    BY DEF OneObject
  <2>1. circ[c].cfx # 0 /\ circ'[c].cfx = circ[c].cfx
    BY <1>4
  <2>2. unl # NoSet \/ lpool # 0
    BY <2>1
  <2>3. /\ unl # NoSet => unl.obj = circ[c].cfx
        /\ \A d \in Circs : circ[d].cfx # 0 => circ[d].cfx = circ[c].cfx
        /\ ~Holder(c) => lpool = circ[c].cfx
    BY <2>1 DEF Safe, OneObject
  <2>4. lpool # 0 => lpool = circ[c].cfx
    <3> SUFFICES ASSUME lpool # 0 PROVE lpool = circ[c].cfx
      OBVIOUS
    <3>1. PICK d \in obj[lpool].legs : TRUE
      BY DEF Safe, PoolHasLegs
    <3>2. lpool \in Objs /\ d \in Circs /\ circ[d].cfx = lpool
      BY DEF Safe, LegsAreOpen, NoDangling, Live, TypeOK, ObjRecord
    <3>3. QED
      BY <2>3, <3>2
  <2>5. QED
    BY <1>1, <1>2, <1>4, <1>6, <2>1, <2>2, <2>3, <2>4
<1>15. QED
  BY <1>8, <1>9, <1>10, <1>11, <1>12, <1>13, <1>14 DEF Safe

\* The unlinked set goes, and with it its object, unless that is shared; the
\* circuits L, of its legs, have closed.
LEMMA SetGoes ==
  ASSUME PoolAssumption, TypeOK, Safe, unl # NoSet, unl' = NoSet,
         NEW L \in SUBSET Circs,
         \A c \in L : circ[c].st = "open" /\ circ[c].pend,
         \A c \in unl.legs \ L : circ[c].st = "freed",
         \A c \in Circs :
           IF c \in L THEN /\ circ'[c].st = "marked" /\ ~circ'[c].pend
                           /\ circ'[c].cfx = 0
           ELSE circ'[c] = circ[c],
         \A o \in Objs :
           /\ obj'[o].st = IF o = unl.obj /\ ~unl.forLinked THEN "freed"
                           ELSE obj[o].st
           /\ obj'[o].legs = obj[o].legs,
         UNCHANGED <<lpool, down>>
  PROVE  Safe'
<1>1. /\ unl.obj # 0 /\ unl.obj \in Objs
      /\ unl.forLinked => unl.obj = lpool
      /\ ~unl.forLinked => lpool # unl.obj /\ ~Held(unl.obj)
  BY SetIs DEF Safe, Shares, NoDangling, Live
<1>2. \A c \in Circs : circ'[c].cfx = circ[c].cfx /\ (c \in L => circ[c].cfx = 0)
  BY DEF Safe, LegsArePending
<1>3. \A o : /\ Live(o)' <=> Live(o) /\ (o = unl.obj => unl.forLinked)
             /\ Held(o)' <=> Held(o)
  BY <1>1, <1>2 DEF Live, Held
<1>4. \A c \in Circs : Holder(c)' <=> Holder(c)
  BY <1>2 DEF Holder, TypeOK, CircRecord, Pointers
<1>5. unl'.obj = 0 /\ unl'.legs = {}
  BY NoSetIs
<1>6. NoDangling'
  BY <1>1, <1>2, <1>3 DEF Safe, NoDangling, Held
<1>7. Owned'
  <2> SUFFICES ASSUME NEW o \in Objs, Live(o)' PROVE Held(o)
    BY <1>3 DEF Owned
  <2>1. CASE o # unl.obj
    BY <1>3, <2>1 DEF Safe, Owned
  <2>2. CASE o = unl.obj
    <3>1. o = lpool /\ lpool # 0
      BY <1>1, <1>3, <2>2
    <3>2. QED
      BY <3>1 DEF Safe, PoolHasLegs, LegsAreOpen, Held, TypeOK, ObjRecord
  <2>3. QED
    BY <2>1, <2>2
<1>8. PoolHasLegs' /\ SetHasObject' /\ Shares'
  BY DEF TypeOK, Pointers, Safe, PoolHasLegs, SetHasObject, Shares
<1>9. LegsAreOpen' /\ NotYet'
  BY <1>2 DEF TypeOK, ObjRecord, Safe, LegsAreOpen, NotYet
<1>10. LegsArePending'
  BY <1>5 DEF Safe, LegsArePending
<1>11. HoldersAreLast'
  <2> SUFFICES ASSUME NEW c \in Circs, Holder(c)'
               PROVE  /\ circ'[c].st = "marked"
                      /\ obj'[circ'[c].cfx].legs = {}
                      /\ lpool' # circ'[c].cfx /\ unl'.obj # circ'[c].cfx
                      /\ \A d \in Circs \ {c} : circ'[d].cfx # circ'[c].cfx
    BY DEF HoldersAreLast
  <2> DEFINE o == circ[c].cfx
  <2>1. /\ o # 0 /\ c \notin L /\ circ'[c] = circ[c] /\ o \in Objs
        /\ circ[c].st = "marked" /\ obj[o].legs = {} /\ lpool # o
        /\ \A d \in Circs \ {c} : circ[d].cfx # o
    BY <1>2, <1>4
       DEF Safe, HoldersAreLast, Holder, TypeOK, CircRecord, Pointers
  <2>2. QED
    BY <1>2, <1>5, <2>1
<1>12. OneObject'
  BY <1>2, <1>4 DEF Safe, OneObject
<1>13. QED
  BY <1>6, <1>7, <1>8, <1>9, <1>10, <1>11, <1>12 DEF Safe

\* A leg leaves the unlinked set, which goes on.
LEMMA LegGoes ==
  ASSUME PoolAssumption, TypeOK, Safe, NEW c \in Circs,
         circ[c].st = "open", circ[c].pend,
         circ'[c].st = "marked", ~circ'[c].pend, circ'[c].cfx = 0,
         \A d \in Circs \ {c} : circ'[d] = circ[d],
         unl'.obj = unl.obj, unl'.forLinked = unl.forLinked,
         unl'.legs = unl.legs \ {c}, UNCHANGED <<lpool, obj, down>>
  PROVE  Safe'
<1>1. c \in unl.legs /\ unl.obj # 0 /\ unl # NoSet /\ unl' # NoSet
  BY NoSetIs, SetIs DEF Safe, LegsArePending
<1>2. \A d \in Circs : circ'[d].cfx = circ[d].cfx
  BY <1>1 DEF Safe, LegsArePending
<1>3. \A o : (Live(o)' <=> Live(o)) /\ (Held(o)' <=> Held(o))
  BY <1>2 DEF Live, Held
<1>4. \A d \in Circs : Holder(d)' <=> Holder(d)
  BY <1>2 DEF Holder
<1>5. circ[c].cfx = 0
  BY <1>1 DEF Safe, LegsArePending
<1>6. NoDangling' /\ Owned' /\ PoolHasLegs' /\ SetHasObject' /\ Shares'
  BY <1>1, <1>2, <1>3
     DEF Safe, NoDangling, Owned, PoolHasLegs, SetHasObject, Shares
<1>7. LegsAreOpen' /\ NotYet'
  BY <1>2, <1>5 DEF PoolAssumption, TypeOK, ObjRecord, Safe, LegsAreOpen, NotYet
<1>8. LegsArePending'
  BY <1>1 DEF TypeOK, SetRecord, Safe, LegsArePending
<1>9. HoldersAreLast'
  BY <1>2, <1>4, <1>5 DEF Safe, HoldersAreLast, Holder
<1>10. OneObject'
  BY <1>1, <1>2, <1>4 DEF Safe, OneObject
<1>11. QED
  BY <1>6, <1>7, <1>8, <1>9, <1>10 DEF Safe

\* The last circuit of a set gives its object to the unlinked set of a rebuild.
LEMMA Adopted ==
  ASSUME PoolAssumption, TypeOK, Safe, Client, NEW c \in Circs, lpool = 0,
         circ[c].cfx # 0, unl = NoSet,
         unl'.obj = circ[c].cfx, ~unl'.forLinked, unl'.legs = {},
         circ'[c].st = circ[c].st, circ'[c].pend = circ[c].pend,
         circ'[c].cfx = 0, \A d \in Circs \ {c} : circ'[d] = circ[d],
         UNCHANGED <<lpool, obj, down>>
  PROVE  Safe'
<1> DEFINE o == circ[c].cfx
<1>1. Holder(c) /\ o \in Objs /\ Live(o) /\ unl' # NoSet /\ unl.legs = {}
  BY NoSetIs DEF Safe, OneObject, NoDangling, Live
<1>2. /\ circ[c].st = "marked" /\ obj[o].legs = {}
      /\ \A d \in Circs \ {c} : circ[d].cfx # o
  BY <1>1 DEF Safe, HoldersAreLast
<1>3. \A d \in Circs : circ'[d].cfx = 0
  BY <1>2 DEF Safe, OneObject
<1>4. \A p : Live(p)' <=> Live(p)
  BY DEF Live
<1>5. \A p \in Objs : ~Held(p)' /\ (Held(p) => p = o)
  BY <1>3, <1>2 DEF Held, Safe, OneObject, PoolAssumption
<1>6. NoDangling' /\ Owned'
  <2>1. unl.obj = 0 /\ 0 \notin Objs
    BY NoSetIs DEF PoolAssumption
  <2>2. QED
    BY <1>1, <1>3, <1>4, <1>5, <2>1 DEF Safe, NoDangling, Owned
<1>7. PoolHasLegs' /\ SetHasObject' /\ Shares'
  BY <1>1, <1>5 DEF Safe, PoolHasLegs, SetHasObject, Shares
<1>8. LegsAreOpen'
  <2>1. \A p \in Objs : obj[p].legs = {}
    BY <1>2 DEF Safe, LegsAreOpen, OneObject, TypeOK, ObjRecord, PoolAssumption
  <2>2. QED
    BY <2>1 DEF LegsAreOpen
<1>9. LegsArePending' /\ NotYet'
  BY <1>1, <1>2 DEF Safe, LegsArePending, NotYet
<1>10. HoldersAreLast' /\ OneObject'
  BY <1>3 DEF HoldersAreLast, Holder, OneObject
<1>11. QED
  BY <1>6, <1>7, <1>8, <1>9, <1>10 DEF Safe

\* The legs of the unlinked set, with the new ones L, become legs of the linked
\* set, on the object of the unlinked one.
LEMMA SetLinks ==
  ASSUME PoolAssumption, TypeOK, Safe, CanCreate, ~down,
         NEW L \in SUBSET Circs, \A c \in L : circ[c].st = "none",
         Client => unl # NoSet, GetOrCreate.legs \cup L # {},
         \A c \in Circs :
           IF c \in GetOrCreate.legs \cup L
           THEN /\ circ'[c].st = "open" /\ ~circ'[c].pend
                /\ circ'[c].cfx = GetOrCreate.obj
           ELSE circ'[c] = circ[c],
         unl' = NoSet, lpool' = GetOrCreate.obj,
         \A o \in Objs :
           /\ obj'[o].st = IF o = GetOrCreate.obj THEN "live" ELSE obj[o].st
           /\ obj'[o].legs = IF o = GetOrCreate.obj
                             THEN obj[o].legs \cup (GetOrCreate.legs \cup L)
                             ELSE obj[o].legs,
         UNCHANGED down
  PROVE  Safe'
<1> DEFINE u == GetOrCreate
           S == u.legs \cup L
<1>1. /\ u.obj \in Objs /\ u.obj # 0 /\ u.legs \subseteq Circs
      /\ unl # NoSet => u = unl
      /\ unl = NoSet => u.legs = {}
      /\ unl = NoSet /\ lpool # 0 => u.obj = lpool /\ u.forLinked
      /\ unl = NoSet /\ lpool = 0
           => ~u.forLinked /\ obj[u.obj].st = "unused"
  BY GetOrCreateIs DEF SetRecord
<1>2. /\ S # {} /\ S \subseteq Circs /\ lpool' = u.obj
      /\ \A c \in S : /\ circ'[c].st = "open" /\ ~circ'[c].pend
                      /\ circ'[c].cfx = u.obj
      /\ \A c \in Circs \ S : circ'[c] = circ[c]
      /\ \A o \in Objs :
           /\ obj'[o].st = IF o = u.obj THEN "live" ELSE obj[o].st
           /\ o = u.obj => obj'[o].legs = obj[o].legs \cup S
           /\ o # u.obj => obj'[o].legs = obj[o].legs
  BY <1>1
<1> HIDE DEF u
<1>3. \A c \in S : circ[c].cfx = 0
  BY <1>1, NoSetIs DEF Safe, NotYet, LegsArePending
<1> HIDE DEF S
<1>17. \A o \in Objs : \A c :
        c \in obj'[o].legs <=> c \in obj[o].legs \/ (o = u.obj /\ c \in S)
  <2> SUFFICES ASSUME NEW o \in Objs, NEW c
               PROVE  c \in obj'[o].legs
                        <=> c \in obj[o].legs \/ (o = u.obj /\ c \in S)
    OBVIOUS
  <2>1. CASE o = u.obj
    BY <1>2, <2>1
  <2>2. CASE o # u.obj
    BY <1>2, <2>2
  <2>3. QED
    BY <2>1, <2>2
<1>4. 0 \notin Objs /\ unl'.obj = 0 /\ unl'.legs = {}
  BY NoSetIs DEF PoolAssumption
\* No circuit that closed as the last of its set has the object.
<1>5. \A c \in Circs : Holder(c) => circ[c].cfx # u.obj
  <2> SUFFICES ASSUME NEW c \in Circs, Holder(c), circ[c].cfx = u.obj
               PROVE  FALSE
    OBVIOUS
  <2>1. lpool # u.obj /\ unl.obj # u.obj
    BY DEF Safe, HoldersAreLast
  <2>2. unl = NoSet /\ lpool = 0
    BY <1>1, <2>1
  <2>3. QED
    BY <1>1, <2>2, UnusedIsFree
<1>6. \A c \in Circs \ S : Holder(c)' <=> Holder(c)
  <2> SUFFICES ASSUME NEW c \in Circs \ S, circ[c].cfx # 0
               PROVE  c \notin obj'[circ[c].cfx].legs
                        <=> c \notin obj[circ[c].cfx].legs
    BY <1>2 DEF Holder
  <2>1. circ[c].cfx \in Objs
    BY DEF TypeOK, CircRecord, Pointers
  <2>2. QED
    BY <1>17, <2>1
<1>7. \A c \in S : ~Holder(c)'
  BY <1>1, <1>2, <1>17 DEF Holder
<1>8. NoDangling'
  <2>1. \A c \in Circs : circ'[c].cfx # 0 => Live(circ[c].cfx)'
    <3> SUFFICES ASSUME NEW c \in Circs, circ'[c].cfx # 0
                 PROVE  Live(circ[c].cfx)'
      OBVIOUS
    <3>1. CASE c \in S
      BY <1>1, <1>2, <3>1 DEF Live
    <3>2. CASE c \notin S
      <4>1. circ'[c].cfx = circ[c].cfx /\ Live(circ[c].cfx)
        BY <1>2, <3>2 DEF Safe, NoDangling
      <4>2. QED
        BY <1>2, <4>1 DEF Live
    <3>3. QED
      BY <3>1, <3>2
  <2>2. QED
    BY <1>1, <1>2, <2>1 DEF NoDangling, Live
<1>9. Owned'
  <2> SUFFICES ASSUME NEW o \in Objs, Live(o)' PROVE Held(o)'
    BY DEF Owned
  <2>1. CASE o = u.obj
    BY <1>2, <2>1 DEF Held
  <2>2. CASE o # u.obj
    <3>1. Live(o)
      BY <1>2, <2>2 DEF Live
    <3>2. unl.obj # o
      BY <1>1, <1>4, <2>2, NoSetIs
    <3>3. PICK c \in Circs : circ[c].cfx = o
      BY <3>1, <3>2 DEF Safe, Owned, Held
    <3>4. QED
      BY <1>2, <1>3, <1>4, <3>3 DEF Held
  <2>3. QED
    BY <2>1, <2>2
<1>10. PoolHasLegs' /\ SetHasObject' /\ Shares'
  BY <1>1, <1>2, <1>17 DEF PoolHasLegs, SetHasObject, Shares
<1>11. LegsAreOpen'
  <2> SUFFICES ASSUME NEW o \in Objs, NEW c \in obj'[o].legs
               PROVE  circ'[c].st = "open" /\ ~circ'[c].pend /\ circ'[c].cfx = o
    BY DEF LegsAreOpen
  <2>1. CASE c \in obj[o].legs
    <3>1. /\ c \in Circs /\ circ[c].st = "open" /\ ~circ[c].pend
          /\ circ[c].cfx = o
      BY <2>1 DEF Safe, LegsAreOpen, TypeOK, ObjRecord
    <3>2. c \notin S
      BY <1>3, <1>4, <3>1
    <3>3. QED
      BY <1>2, <3>1, <3>2
  <2>2. CASE c \notin obj[o].legs
    BY <1>2, <2>2
  <2>3. QED
    BY <2>1, <2>2
<1>12. NotYet'
  BY <1>2 DEF Safe, NotYet
<1>13. LegsArePending'
  <2>1. \A c \in Circs : circ[c].st = "open" /\ circ[c].pend => c \in S
    BY <1>1, NoSetIs DEF Safe, LegsArePending, S
  <2>2. QED
    BY <1>2, <1>4, <2>1 DEF LegsArePending
<1>14. HoldersAreLast'
  <2> SUFFICES ASSUME NEW c \in Circs, Holder(c)'
               PROVE  /\ circ'[c].st = "marked"
                      /\ obj'[circ'[c].cfx].legs = {}
                      /\ lpool' # circ'[c].cfx /\ unl'.obj # circ'[c].cfx
                      /\ \A d \in Circs \ {c} : circ'[d].cfx # circ'[c].cfx
    BY DEF HoldersAreLast
  <2> DEFINE o == circ[c].cfx
  <2>1. c \notin S /\ Holder(c) /\ circ'[c] = circ[c] /\ o # u.obj
    BY <1>2, <1>5, <1>6, <1>7
  <2>2. /\ o # 0 /\ o \in Objs /\ circ[c].st = "marked" /\ obj[o].legs = {}
        /\ \A d \in Circs \ {c} : circ[d].cfx # o
    BY <2>1 DEF Safe, HoldersAreLast, Holder, TypeOK, CircRecord, Pointers
  <2>3. QED
    BY <1>2, <1>4, <2>1, <2>2
<1>15. OneObject'
  <2> SUFFICES ASSUME Client PROVE \A c \in Circs : circ'[c].cfx \in {0, u.obj}
    BY <1>2 DEF OneObject
  <2>1. \A c \in Circs : circ[c].cfx \in {0, u.obj}
    BY <1>1 DEF Safe, OneObject
  <2>2. QED
    BY <1>2, <2>1
<1>16. QED
  BY <1>8, <1>9, <1>10, <1>11, <1>12, <1>13, <1>14, <1>15 DEF Safe

\* What is known of a leg of a linked set that closes or is freed.
LEMMA LinkedLeg ==
  ASSUME PoolAssumption, TypeOK, Safe, NEW c \in Circs, circ[c].cfx # 0
  PROVE  LET o == circ[c].cfx IN
         /\ o \in Objs /\ obj[o].st = "live" /\ c \notin unl.legs
         /\ c \notin obj[o].legs => Holder(c)
         /\ obj[o].legs \subseteq {c} => \A d \in Circs \ {c} : circ[d].cfx # o
         /\ Client /\ unl # NoSet => unl.obj = o
         /\ unl.obj = o => /\ c \in obj[o].legs /\ unl.forLinked
                           /\ lpool = o /\ unl # NoSet
<1> DEFINE o == circ[c].cfx
<1>1. o \in Objs /\ obj[o].st = "live" /\ o # 0
  BY DEF Safe, NoDangling, Live
<1>2. c \notin unl.legs
  BY DEF Safe, LegsArePending, NotYet
<1>3. c \notin obj[o].legs => Holder(c)
  BY DEF Holder
<1>4. ASSUME obj[o].legs \subseteq {c}, NEW d \in Circs \ {c}
      PROVE  circ[d].cfx # o
  <2> SUFFICES ASSUME circ[d].cfx = o PROVE FALSE
    OBVIOUS
  <2>1. Holder(d)
    BY <1>1, <1>4 DEF Holder
  <2>2. QED
    BY <2>1 DEF Safe, HoldersAreLast
<1>5. Client /\ unl # NoSet => unl.obj = o
  BY DEF Safe, OneObject
<1>6. unl.obj = o => /\ c \in obj[o].legs /\ unl.forLinked
                     /\ lpool = o /\ unl # NoSet
  <2> SUFFICES ASSUME unl.obj = o
               PROVE  /\ c \in obj[o].legs /\ unl.forLinked
                      /\ lpool = o /\ unl # NoSet
    OBVIOUS
  <2>1. unl # NoSet
    BY <1>1, NoSetIs
  <2>2. Held(o)
    BY DEF Held
  <2>3. unl.forLinked /\ lpool = o
    BY <2>1, <2>2 DEF Safe, Shares
  <2>4. ~Holder(c)
    BY DEF Safe, HoldersAreLast
  <2>5. QED
    BY <1>3, <2>1, <2>3, <2>4
<1>7. QED
  BY <1>1, <1>2, <1>3, <1>4, <1>5, <1>6

\* A leg of the linked set closes.  The last one leaves the object to an unlinked
\* set that shares it, and keeps it if there is none.
LEMMA LinkedCloses ==
  ASSUME PoolAssumption, TypeOK, Safe, NEW c \in Circs, NEW o \in Objs,
         circ[c].st = "open", circ[c].cfx = o, ~Client => unl = NoSet,
         circ'[c].st = "marked", ~circ'[c].pend,
         circ'[c].cfx = IF Last(o, c) /\ unl.obj # o THEN o ELSE 0,
         \A d \in Circs \ {c} : circ'[d] = circ[d],
         unl'.obj = unl.obj, unl'.legs = unl.legs,
         unl'.forLinked = IF Last(o, c) /\ unl.obj = o THEN FALSE
                          ELSE unl.forLinked,
         unl = NoSet => unl' = NoSet,
         lpool' = IF Last(o, c) THEN 0 ELSE lpool,
         obj'[o].st = obj[o].st, obj'[o].legs = obj[o].legs \ {c},
         \A p \in Objs \ {o} :
           obj'[p].st = obj[p].st /\ obj'[p].legs = obj[p].legs,
         UNCHANGED down
  PROVE  Safe'
<1>0. Last(o, c) <=> obj[o].legs \subseteq {c}
  BY DEF Last
<1>1. o # 0 /\ 0 \notin Objs
  BY DEF PoolAssumption
<1>2. /\ obj[o].st = "live" /\ c \notin unl.legs
      /\ Last(o, c) => \A d \in Circs \ {c} : circ[d].cfx # o
      /\ Client /\ unl # NoSet => unl.obj = o
      /\ unl.obj = o => unl.forLinked /\ lpool = o /\ unl # NoSet
  BY <1>0, <1>1, LinkedLeg
<1>3. c \in obj[o].legs /\ ~Holder(c) /\ ~circ[c].pend
  BY <1>1 DEF Safe, HoldersAreLast, Holder, LegsAreOpen
<1>4. unl # NoSet <=> unl' # NoSet
  BY NoSetIs DEF Safe, SetHasObject
<1>5. unl # NoSet => unl.obj = o
  BY <1>2
<1>6. \A p : Live(p)' <=> Live(p)
  BY DEF Live
<1>7. \A d \in Circs \ {c} : Holder(d)' <=> Holder(d)
  <2> SUFFICES ASSUME NEW d \in Circs \ {c}, circ[d].cfx # 0
               PROVE  d \notin obj'[circ[d].cfx].legs
                        <=> d \notin obj[circ[d].cfx].legs
    BY DEF Holder
  <2>1. circ[d].cfx \in Objs
    BY DEF TypeOK, CircRecord, Pointers
  <2>2. QED
    BY <2>1
<1>8. Holder(c)' => Last(o, c) /\ unl.obj # o /\ circ'[c].cfx = o
  BY DEF Holder
<1>9. NoDangling'
  <2>1. \A d \in Circs : circ'[d].cfx # 0 => circ'[d].cfx = circ[d].cfx
    OBVIOUS
  <2>2. QED
    BY <1>4, <2>1 DEF Safe, NoDangling, Live
<1>10. Owned'
  <2> SUFFICES ASSUME NEW p \in Objs, Live(p)', unl.obj # p PROVE Held(p)'
    BY DEF Owned
  <2>1. PICK d \in Circs : circ[d].cfx = p
    BY <1>6 DEF Safe, Owned, Held
  <2>2. CASE p # o
    BY <2>1, <2>2 DEF Held
  <2>3. CASE p = o /\ Last(o, c)
    BY <2>3 DEF Held
  <2>4. CASE p = o /\ ~Last(o, c)
    <3>1. PICK e \in obj[o].legs : e # c
      BY <1>0, <2>4
    <3>2. e \in Circs /\ circ[e].cfx = o
      BY <3>1 DEF Safe, LegsAreOpen, TypeOK, ObjRecord
    <3>3. QED
      BY <2>4, <3>1, <3>2 DEF Held
  <2>5. QED
    BY <2>2, <2>3, <2>4
<1>11. PoolHasLegs'
  BY <1>0 DEF Safe, PoolHasLegs, TypeOK, Pointers
<1>12. SetHasObject'
  BY <1>4, SetIs DEF Safe, SetHasObject
<1>13. LegsAreOpen'
  <2> SUFFICES ASSUME NEW p \in Objs, NEW d \in obj'[p].legs
               PROVE  circ'[d].st = "open" /\ ~circ'[d].pend /\ circ'[d].cfx = p
    BY DEF LegsAreOpen
  <2>1. d \in obj[p].legs /\ d \in Circs
    BY DEF TypeOK, ObjRecord
  <2>2. circ[d].st = "open" /\ ~circ[d].pend /\ circ[d].cfx = p
    BY <2>1 DEF Safe, LegsAreOpen
  <2>3. d # c
    BY <2>2
  <2>4. QED
    BY <2>1, <2>2, <2>3
<1>14. LegsArePending' /\ NotYet'
  BY <1>2, <1>3 DEF TypeOK, SetRecord, Safe, LegsArePending, NotYet
<1>15. HoldersAreLast'
  <2> SUFFICES ASSUME NEW d \in Circs, Holder(d)'
               PROVE  /\ circ'[d].st = "marked"
                      /\ obj'[circ'[d].cfx].legs = {}
                      /\ lpool' # circ'[d].cfx /\ unl'.obj # circ'[d].cfx
                      /\ \A e \in Circs \ {d} : circ'[e].cfx # circ'[d].cfx
    BY DEF HoldersAreLast
  <2>1. CASE d = c
    <3>1. Last(o, c) /\ unl.obj # o /\ circ'[c].cfx = o
      BY <1>8, <2>1
    <3>2. obj'[o].legs = {}
      BY <1>0, <3>1
    <3>3. QED
      BY <1>1, <1>2, <2>1, <3>1, <3>2
  <2>2. CASE d # c
    <3> DEFINE p == circ[d].cfx
    <3>1. Holder(d) /\ circ'[d] = circ[d] /\ p # 0 /\ p \in Objs
      BY <1>7, <2>2 DEF Holder, TypeOK, CircRecord, Pointers
    <3>2. /\ circ[d].st = "marked" /\ obj[p].legs = {} /\ lpool # p
          /\ unl.obj # p /\ \A e \in Circs \ {d} : circ[e].cfx # p
      BY <3>1 DEF Safe, HoldersAreLast
    <3>3. p # o
      BY <1>3, <3>2
    <3>4. QED
      BY <2>2, <3>1, <3>2, <3>3
  <2>3. QED
    BY <2>1, <2>2
<1>16. Shares'
  <2> SUFFICES ASSUME unl # NoSet
               PROVE  IF unl'.forLinked THEN unl'.obj = lpool'
                      ELSE lpool' # unl'.obj /\ ~Held(o)'
    BY <1>4, <1>5 DEF Shares
  <2>1. unl.obj = o /\ unl.forLinked /\ lpool = o
    BY <1>2, <1>5
  <2>2. CASE Last(o, c)
    BY <1>1, <1>2, <2>1, <2>2 DEF Held
  <2>3. CASE ~Last(o, c)
    BY <2>1, <2>3
  <2>4. QED
    BY <2>2, <2>3
<1>17. OneObject'
  <2> SUFFICES ASSUME Client, NEW d \in Circs, circ'[d].cfx # 0
               PROVE  /\ unl' # NoSet => unl'.obj = circ'[d].cfx
                      /\ \A e \in Circs :
                           circ'[e].cfx # 0 => circ'[e].cfx = circ'[d].cfx
                      /\ ~Holder(d)' => lpool' = circ'[d].cfx
    BY DEF OneObject
  <2>1. \A e \in Circs : circ'[e].cfx # 0 => circ'[e].cfx = o /\ circ[e].cfx = o
    BY <1>1 DEF Safe, OneObject
  <2>2. ~Holder(d)' => lpool' = o
    <3>1. CASE Last(o, c)
      <4>1. d = c /\ circ'[c].cfx = o /\ obj'[o].legs = {}
        BY <1>0, <1>2, <2>1, <3>1
      <4>2. QED
        BY <1>1, <4>1 DEF Holder
    <3>2. CASE ~Last(o, c)
      BY <1>3, <2>1, <3>2 DEF Safe, OneObject
    <3>3. QED
      BY <3>1, <3>2
  <2>3. QED
    BY <1>4, <1>5, <2>1, <2>2
<1>18. QED
  BY <1>9, <1>10, <1>11, <1>12, <1>13, <1>14, <1>15, <1>16, <1>17 DEF Safe

\* A circuit that has its conflux_t is freed.  The last one frees the object too,
\* or leaves it to the unlinked set.
LEMMA LinkedFreed ==
  ASSUME PoolAssumption, TypeOK, Safe, NEW c \in Circs, NEW o \in Objs,
         circ[c].cfx = o, ~Client => unl = NoSet,
         circ[c].st = "marked" \/ down,
         circ'[c].st = "freed", ~circ'[c].pend, circ'[c].cfx = 0,
         \A d \in Circs \ {c} : circ'[d] = circ[d],
         unl'.obj = unl.obj, unl'.legs = unl.legs,
         unl'.forLinked = IF Last(o, c) /\ unl # NoSet THEN FALSE
                          ELSE unl.forLinked,
         unl = NoSet => unl' = NoSet,
         lpool' = IF Last(o, c) THEN 0 ELSE lpool,
         obj'[o].st = IF Last(o, c) /\ unl = NoSet THEN "freed" ELSE obj[o].st,
         obj'[o].legs = obj[o].legs \ {c},
         \A p \in Objs \ {o} :
           obj'[p].st = obj[p].st /\ obj'[p].legs = obj[p].legs,
         UNCHANGED down
  PROVE  Safe'
<1>0. Last(o, c) <=> obj[o].legs \subseteq {c}
  BY DEF Last
<1>1. o # 0 /\ 0 \notin Objs
  BY DEF PoolAssumption
<1>2. /\ obj[o].st = "live" /\ c \notin unl.legs
      /\ c \notin obj[o].legs => Holder(c)
      /\ Last(o, c) => \A d \in Circs \ {c} : circ[d].cfx # o
      /\ Client /\ unl # NoSet => unl.obj = o
      /\ unl.obj = o => unl.forLinked /\ lpool = o /\ unl # NoSet
  BY <1>0, <1>1, LinkedLeg
<1>3. ~Last(o, c) => c \in obj[o].legs
  BY <1>0, <1>2 DEF Safe, HoldersAreLast
<1>4. (unl # NoSet <=> unl' # NoSet) /\ (unl # NoSet <=> unl.obj # 0)
  BY NoSetIs, SetIs DEF Safe, SetHasObject
<1>5. unl # NoSet => unl.obj = o
  BY <1>2
<1>6. \A p \in Objs : Live(p)' <=> Live(p) /\ ~(p = o /\ Last(o, c) /\ unl = NoSet)
  BY <1>2 DEF Live
<1>7. \A d \in Circs \ {c} : Holder(d)' <=> Holder(d)
  <2> SUFFICES ASSUME NEW d \in Circs \ {c}, circ[d].cfx # 0
               PROVE  d \notin obj'[circ[d].cfx].legs
                        <=> d \notin obj[circ[d].cfx].legs
    BY DEF Holder
  <2>1. circ[d].cfx \in Objs
    BY DEF TypeOK, CircRecord, Pointers
  <2>2. QED
    BY <2>1
<1>8. ~Holder(c)'
  BY DEF Holder
<1>9. NoDangling'
  <2>1. \A d \in Circs : circ'[d].cfx # 0 =>
          circ'[d].cfx = circ[d].cfx /\ (Last(o, c) => circ[d].cfx # o)
    BY <1>2
  <2>2. \A d \in Circs : circ'[d].cfx # 0 => Live(circ[d].cfx)'
    <3> SUFFICES ASSUME NEW d \in Circs, circ'[d].cfx # 0
                 PROVE  Live(circ[d].cfx)'
      OBVIOUS
    <3> DEFINE p == circ[d].cfx
    <3>1. p \in Objs /\ obj[p].st = "live" /\ circ'[d].cfx = p
      BY <2>1 DEF Safe, NoDangling, Live
    <3>2. CASE p = o
      BY <1>2, <2>1, <3>1, <3>2 DEF Live
    <3>3. CASE p # o
      BY <3>1, <3>3 DEF Live
    <3>4. QED
      BY <3>2, <3>3
  <2>3. unl' # NoSet => Live(unl.obj)'
    BY <1>2, <1>4, <1>5 DEF Live
  <2>4. lpool' # 0 => Live(lpool)'
    BY DEF Safe, NoDangling, Live
  <2>5. QED
    BY <2>2, <2>3, <2>4 DEF NoDangling
<1>10. Owned'
  <2> SUFFICES ASSUME NEW p \in Objs, Live(p)', unl.obj # p PROVE Held(p)'
    BY DEF Owned
  <2>1. PICK d \in Circs : circ[d].cfx = p
    BY <1>6 DEF Safe, Owned, Held
  <2>2. CASE p # o
    BY <2>1, <2>2 DEF Held
  <2>3. CASE p = o /\ Last(o, c)
    BY <1>5, <1>6, <2>3
  <2>4. CASE p = o /\ ~Last(o, c)
    <3>1. PICK e \in obj[o].legs : e # c
      BY <1>0, <2>4
    <3>2. e \in Circs /\ circ[e].cfx = o
      BY <3>1 DEF Safe, LegsAreOpen, TypeOK, ObjRecord
    <3>3. QED
      BY <2>4, <3>1, <3>2 DEF Held
  <2>5. QED
    BY <2>2, <2>3, <2>4
<1>11. PoolHasLegs'
  BY <1>0 DEF Safe, PoolHasLegs, TypeOK, Pointers
<1>12. SetHasObject'
  BY <1>4 DEF SetHasObject
<1>13. LegsAreOpen'
  <2> SUFFICES ASSUME NEW p \in Objs, NEW d \in obj'[p].legs
               PROVE  circ'[d].st = "open" /\ ~circ'[d].pend /\ circ'[d].cfx = p
    BY DEF LegsAreOpen
  <2>1. d \in obj[p].legs /\ d \in Circs /\ (p = o => d # c)
    BY DEF TypeOK, ObjRecord
  <2>2. circ[d].st = "open" /\ ~circ[d].pend /\ circ[d].cfx = p
    BY <2>1 DEF Safe, LegsAreOpen
  <2>3. QED
    BY <2>1, <2>2
<1>14. LegsArePending' /\ NotYet'
  BY <1>2 DEF TypeOK, SetRecord, Safe, LegsArePending, NotYet
<1>15. HoldersAreLast'
  <2> SUFFICES ASSUME NEW d \in Circs, Holder(d)'
               PROVE  /\ circ'[d].st = "marked"
                      /\ obj'[circ'[d].cfx].legs = {}
                      /\ lpool' # circ'[d].cfx /\ unl'.obj # circ'[d].cfx
                      /\ \A e \in Circs \ {d} : circ'[e].cfx # circ'[d].cfx
    BY DEF HoldersAreLast
  <2> DEFINE p == circ[d].cfx
  <2>1. d # c /\ Holder(d) /\ circ'[d] = circ[d] /\ p # 0 /\ p \in Objs
    BY <1>7, <1>8 DEF Holder, TypeOK, CircRecord, Pointers
  <2>2. /\ circ[d].st = "marked" /\ obj[p].legs = {} /\ lpool # p
        /\ unl.obj # p /\ \A e \in Circs \ {d} : circ[e].cfx # p
    BY <2>1 DEF Safe, HoldersAreLast
  <2>3. p # o
    BY <2>1, <2>2
  <2>4. QED
    BY <2>1, <2>2, <2>3
<1>16. Shares'
  <2> SUFFICES ASSUME unl # NoSet
               PROVE  IF unl'.forLinked THEN unl'.obj = lpool'
                      ELSE lpool' # unl'.obj /\ ~Held(o)'
    BY <1>4, <1>5 DEF Shares
  <2>1. unl.obj = o /\ unl.forLinked /\ lpool = o
    BY <1>2, <1>5
  <2>2. CASE Last(o, c)
    BY <1>1, <1>2, <2>1, <2>2 DEF Held
  <2>3. CASE ~Last(o, c)
    BY <2>1, <2>3
  <2>4. QED
    BY <2>2, <2>3
<1>17. OneObject'
  <2> SUFFICES ASSUME Client, NEW d \in Circs, circ'[d].cfx # 0
               PROVE  /\ unl' # NoSet => unl'.obj = circ'[d].cfx
                      /\ \A e \in Circs :
                           circ'[e].cfx # 0 => circ'[e].cfx = circ'[d].cfx
                      /\ ~Holder(d)' => lpool' = circ'[d].cfx
    BY DEF OneObject
  <2>1. \A e \in Circs :
          circ'[e].cfx # 0 => circ'[e].cfx = o /\ circ[e].cfx = o /\ e # c
    BY <1>1 DEF Safe, OneObject
  <2>2. ~Last(o, c)
    BY <1>2, <2>1
  <2>3. ~Holder(d)' => lpool' = o
    BY <1>7, <2>1, <2>2 DEF Safe, OneObject
  <2>4. QED
    BY <1>4, <1>5, <2>1, <2>3
<1>18. QED
  BY <1>9, <1>10, <1>11, <1>12, <1>13, <1>14, <1>15, <1>16, <1>17 DEF Safe

\* A circuit conflux has nothing to do with, or has let go of, is closed or
\* freed; at shutdown also one that waits in the unlinked set.
LEMMA Forgotten ==
  ASSUME PoolAssumption, TypeOK, Safe, NEW c \in Circs,
         circ[c].cfx = 0,
         circ[c].pend /\ circ[c].st = "open" => down /\ circ'[c].st = "freed",
         circ[c].st \in {"open", "marked"},
         circ'[c].st \in {"marked", "freed"}, circ'[c].cfx = 0, ~circ'[c].pend,
         \A d \in Circs \ {c} : circ'[d] = circ[d],
         UNCHANGED <<unl, lpool, obj, down>>
  PROVE  Safe'
<1>1. \A d \in Circs : circ'[d].cfx = circ[d].cfx
  OBVIOUS
<1>2. \A o : (Live(o)' <=> Live(o)) /\ (Held(o)' <=> Held(o))
  BY <1>1 DEF Live, Held
<1>3. \A d \in Circs : Holder(d)' <=> Holder(d)
  BY <1>1 DEF Holder
<1>4. NoDangling' /\ Owned' /\ PoolHasLegs' /\ SetHasObject' /\ Shares'
  BY <1>1, <1>2
     DEF Safe, NoDangling, Owned, PoolHasLegs, SetHasObject, Shares
<1>5. LegsAreOpen' /\ NotYet'
  <2>1. \A o \in Objs : c \notin obj[o].legs
    BY DEF PoolAssumption, Safe, LegsAreOpen
  <2>2. LegsAreOpen'
    BY <2>1 DEF TypeOK, ObjRecord, Safe, LegsAreOpen
  <2>3. NotYet'
    BY DEF Safe, NotYet
  <2>4. QED
    BY <2>2, <2>3
<1>6. LegsArePending'
  BY DEF TypeOK, SetRecord, Safe, LegsArePending
<1>7. HoldersAreLast'
  BY <1>1, <1>3 DEF Safe, HoldersAreLast, Holder
<1>8. OneObject'
  BY <1>1, <1>3 DEF Safe, OneObject
<1>9. QED
  BY <1>4, <1>5, <1>6, <1>7, <1>8 DEF Safe

-----------------------------------------------------------------------------
(* The calls                                                                *)

\* Records that are changed in place.
LEMMA Changed ==
  ASSUME NEW r \in ObjRecord, NEW c \in Circs, NEW busy \in BOOLEAN
  PROVE  /\ Counted(r) \in ObjRecord
         /\ Counted(r).st = r.st /\ Counted(r).legs = r.legs
         /\ Without(r, c, busy) \in ObjRecord
         /\ Without(r, c, busy).st = r.st
         /\ Without(r, c, busy).legs = r.legs \ {c}
<1>1. /\ Counted(r) \in ObjRecord
      /\ Counted(r).st = r.st /\ Counted(r).legs = r.legs
  BY DEF Counted, ObjRecord
<1> DEFINE k == IF c \in r.legs /\ ~Torn(r, c, busy) /\ r.launches > 0
                THEN r.launches - 1 ELSE r.launches
<1>2. k \in Nat
  BY DEF ObjRecord
<1>3. Without(r, c, busy) = [r EXCEPT !.legs = @ \ {c}, !.curr = @ \ {c},
                                      !.launches = k]
  BY DEF Without
<1> HIDE DEF k
<1>4. QED
  BY <1>1, <1>2, <1>3, ZenonT(30) DEF ObjRecord

Ops == {"launch", "newset", "close", "all", "linked", "refill"}

\* A call is pushed on the stack.
LEMMA PushCall ==
  ASSUME NEW op \in Ops, NEW cs \in SUBSET Circs, NEW s \in Seq(CallRecord)
  PROVE  LET t == <<Call(op, cs)>> \o s IN
         /\ t \in Seq(CallRecord) /\ t # <<>>
         /\ Head(t) = Call(op, cs) /\ Tail(t) = s
         /\ Quiet(s) /\ op \notin {"launch", "newset"} => Quiet(t)
<1>1. Call(op, cs) \in CallRecord /\ Call(op, cs).op = op
  BY DEF Call, CallRecord, Ops
<1>2. QED
  BY <1>1, Push

\* A launch is a client's, and has a set or starts from nothing.
LEMMA LaunchingIs ==
  ASSUME PoolInv, Launching
  PROVE  /\ Client /\ ~down /\ CanCreate
         /\ unl = NoSet /\ lpool = 0 => \A c \in Circs : circ[c].cfx = 0
         /\ AfterFailure \in Seq(CallRecord) /\ Quiet(AfterFailure)
         /\ Tail(stk) \in Seq(CallRecord)
         /\ \/ Quiet(Tail(stk))
            \/ /\ \A i \in 1 .. Len(Tail(stk)) : Tail(stk)[i].op = "newset"
               /\ lpool = 0 /\ \A c \in Circs : circ[c].cfx = 0
<1>1. /\ stk \in Seq(CallRecord) /\ stk # <<>> /\ Len(stk) >= 1
      /\ Head(stk) = stk[1] /\ Tail(stk) \in Seq(CallRecord)
      /\ Len(Tail(stk)) = Len(stk) - 1
      /\ \A i \in 1 .. Len(Tail(stk)) : Tail(stk)[i] = stk[i + 1]
  BY EmptySeq, HeadTailProperties DEF PoolInv, TypeOK, Launching, Idle
<1>2. ~Quiet(stk)
  BY <1>1 DEF Quiet, Launching
<1>3. LaunchNext \/ NewSetNext
  BY <1>2 DEF PoolInv, StackShape
<1>4. ~down /\ CanCreate
  BY DEF PoolInv, StackShape, Launching
<1>5. <<>> \in Seq(CallRecord) /\ Quiet(<<>>)
  BY EmptySeq DEF Quiet
<1>6. CASE LaunchNext
  BY <1>1, <1>4, <1>6 DEF LaunchNext, AfterFailure
<1>7. CASE NewSetNext
  <2>1. Head(stk).op = "newset"
    BY <1>1, <1>7 DEF NewSetNext
  <2>2. \A i \in 1 .. Len(Tail(stk)) : Tail(stk)[i].op = "newset"
    BY <1>1, <1>7 DEF NewSetNext
  <2>3. QED
    BY <1>1, <1>4, <1>5, <1>7, <2>1, <2>2 DEF NewSetNext, AfterFailure
<1>8. QED
  BY <1>3, <1>6, <1>7

\* conflux_launch_leg refuses to launch.
LEMMA LaunchRefusedKeeps ==
  ASSUME PoolAssumption, PoolInv, LaunchRefused
  PROVE  PoolInv'
<1>1. /\ Client /\ ~down /\ CanCreate
      /\ unl = NoSet /\ lpool = 0 => \A c \in Circs : circ[c].cfx = 0
      /\ AfterFailure \in Seq(CallRecord) /\ Quiet(AfterFailure)
  BY LaunchingIs DEF LaunchRefused
<1>2. /\ unl' = GetOrCreate /\ obj' = Allocated(GetOrCreate.obj)
      /\ stk' = AfterFailure /\ UNCHANGED <<circ, lpool, mem, down>>
  BY DEF LaunchRefused
<1> DEFINE u == GetOrCreate
<1>3. /\ u \in SetRecord /\ Allocated(u.obj) \in [Objs -> ObjRecord]
      /\ \A o \in Objs :
           /\ Allocated(u.obj)[o].st = IF o = u.obj THEN "live" ELSE obj[o].st
           /\ Allocated(u.obj)[o].legs = obj[o].legs
  BY <1>1, GetOrCreateIs DEF PoolInv
<1>4. TypeOK'
  BY <1>1, <1>2, <1>3 DEF PoolInv, TypeOK
<1>5. Safe'
  <2>1. u.legs = u.legs \cup {}
    OBVIOUS
  <2> HIDE DEF u
  <2>2. /\ unl'.obj = u.obj /\ unl'.forLinked = u.forLinked
        /\ unl'.legs = u.legs \cup {}
        /\ \A o \in Objs :
             /\ obj'[o].st = IF o = u.obj THEN "live" ELSE obj[o].st
             /\ obj'[o].legs = obj[o].legs
    BY <1>2, <1>3, <2>1 DEF u
  <2>3. /\ {} \in SUBSET Circs /\ \A c \in {} : circ[c].st = "none"
        /\ \A c \in Circs :
             IF c \in {} THEN /\ circ'[c].st = "open" /\ circ'[c].pend
                             /\ circ'[c].cfx = 0
             ELSE circ'[c] = circ[c]
    BY <1>2
  <2>4. QED
    BY <1>1, <1>2, <2>2, <2>3, Joins DEF PoolInv, u
<1>6. StackShape'
  BY <1>1, <1>2 DEF StackShape, Idle, Quiet
<1>7. QED
  BY <1>1, <1>4, <1>5, <1>6 DEF PoolInv, ExitSets

\* conflux_launch_leg adds a circuit to its set.
LEMMA LaunchLegKeeps ==
  ASSUME PoolAssumption, PoolInv, LaunchLeg
  PROVE  PoolInv'
<1>1. /\ Client /\ ~down /\ CanCreate
      /\ unl = NoSet /\ lpool = 0 => \A c \in Circs : circ[c].cfx = 0
      /\ Tail(stk) \in Seq(CallRecord)
      /\ \/ Quiet(Tail(stk))
         \/ /\ \A i \in 1 .. Len(Tail(stk)) : Tail(stk)[i].op = "newset"
            /\ lpool = 0 /\ \A c \in Circs : circ[c].cfx = 0
  BY LaunchingIs DEF LaunchLeg
<1> DEFINE u == GetOrCreate
<1>2. PICK c \in Fresh :
        /\ circ' = [circ EXCEPT ![c].st = "open", ![c].pend = TRUE]
        /\ unl' = [u EXCEPT !.legs = @ \cup {c}]
  BY DEF LaunchLeg
<1>3. /\ obj' = [Allocated(u.obj) EXCEPT ![u.obj] = Counted(@)]
      /\ stk' = Tail(stk) /\ UNCHANGED <<lpool, mem, down>>
  BY DEF LaunchLeg
<1>4. /\ u \in SetRecord /\ u.obj \in Objs
      /\ Allocated(u.obj) \in [Objs -> ObjRecord]
      /\ \A o \in Objs :
           /\ Allocated(u.obj)[o].st = IF o = u.obj THEN "live" ELSE obj[o].st
           /\ Allocated(u.obj)[o].legs = obj[o].legs
  BY <1>1, GetOrCreateIs DEF PoolInv
<1> HIDE DEF u
<1>5. c \in Circs /\ circ[c].st = "none" /\ circ[c].cfx = 0
  BY DEF Fresh, PoolInv, Safe, NotYet
<1>6. obj' \in [Objs -> ObjRecord]
      /\ \A o \in Objs :
           /\ obj'[o].st = IF o = u.obj THEN "live" ELSE obj[o].st
           /\ obj'[o].legs = obj[o].legs
  <2>1. \A r \in ObjRecord : /\ Counted(r) \in ObjRecord
                             /\ Counted(r).st = r.st
                             /\ Counted(r).legs = r.legs
    BY <1>5, Changed
  <2>2. QED
    BY <1>3, <1>4, <2>1
<1>7. /\ unl' \in SetRecord /\ unl'.obj = u.obj
      /\ unl'.forLinked = u.forLinked /\ unl'.legs = u.legs \cup {c}
  BY <1>2, <1>4, <1>5 DEF SetRecord
<1>8. /\ circ' \in [Circs -> CircRecord]
      /\ circ'[c].st = "open" /\ circ'[c].pend /\ circ'[c].cfx = 0
      /\ \A d \in Circs \ {c} : circ'[d] = circ[d]
  BY <1>2, <1>5 DEF PoolInv, TypeOK, CircRecord
<1>9. TypeOK'
  BY <1>1, <1>3, <1>6, <1>7, <1>8 DEF PoolInv, TypeOK
<1>10. Safe'
  <2>1. \A d \in {c} : circ[d].st = "none"
    BY <1>5
  <2>2. \A d \in Circs :
          IF d \in {c} THEN /\ circ'[d].st = "open" /\ circ'[d].pend
                            /\ circ'[d].cfx = 0
          ELSE circ'[d] = circ[d]
    BY <1>8
  <2>3. {c} \in SUBSET Circs
    BY <1>5
  <2>4. QED
    BY <1>1, <1>3, <1>6, <1>7, <2>1, <2>2, <2>3, Joins DEF PoolInv, u
<1>11. StackShape'
  <2>1. \A d \in Circs : circ'[d].cfx = circ[d].cfx
    BY <1>5, <1>8
  <2>2. QED
    BY <1>1, <1>3, <2>1 DEF StackShape, NewSetNext, Quiet
<1>12. QED
  BY <1>1, <1>9, <1>10, <1>11 DEF PoolInv, ExitSets

\* The circuit of a launch is not built.
LEMMA LaunchFailsKeeps ==
  ASSUME PoolAssumption, PoolInv, LaunchFails
  PROVE  PoolInv'
<1>1. /\ Client /\ ~down /\ CanCreate
      /\ AfterFailure \in Seq(CallRecord) /\ Quiet(AfterFailure)
  BY LaunchingIs DEF LaunchFails
<1> DEFINE u == GetOrCreate
           os == [Allocated(u.obj) EXCEPT ![u.obj] = Counted(@)]
<1>2. LegGone(u, os, AfterFailure) /\ UNCHANGED <<circ, lpool, mem, down>>
  BY DEF LaunchFails
<1>3. /\ u \in SetRecord /\ u.obj \in Objs /\ u.obj # 0
      /\ unl # NoSet => u = unl
      /\ unl = NoSet => u.legs = {} /\ u.linked = {}
      /\ unl = NoSet /\ lpool # 0 => u.obj = lpool /\ u.forLinked
      /\ unl = NoSet /\ lpool = 0
           => ~u.forLinked /\ obj[u.obj].st = "unused"
      /\ Allocated(u.obj) \in [Objs -> ObjRecord]
      /\ \A o \in Objs :
           /\ Allocated(u.obj)[o].st = IF o = u.obj THEN "live" ELSE obj[o].st
           /\ Allocated(u.obj)[o].legs = obj[o].legs
  BY <1>1, GetOrCreateIs DEF PoolInv
<1> HIDE DEF u
<1>4. /\ os \in [Objs -> ObjRecord]
      /\ \A o \in Objs :
           /\ os[o].st = IF o = u.obj THEN "live" ELSE obj[o].st
           /\ os[o].legs = obj[o].legs
  <2>1. \A r \in ObjRecord : /\ Counted(r) \in ObjRecord
                             /\ Counted(r).st = r.st
                             /\ Counted(r).legs = r.legs
    BY DEF Counted, ObjRecord
  <2>2. QED
    BY <1>3, <2>1
<1> HIDE DEF os
<1>5. lpool # 0 \/ unl # NoSet => obj[u.obj].st = "live"
  BY <1>3 DEF PoolInv, Safe, NoDangling, Live
<1>6. CASE u.legs = {}
  <2>1. unl' = NoSet /\ obj' = FreedWith(os, u) /\ stk' = AfterFailure
    BY <1>2, <1>6 DEF LegGone
  <2>2. /\ obj' \in [Objs -> ObjRecord]
        /\ \A o \in Objs :
             /\ obj'[o].st = IF o = u.obj
                             THEN IF u.forLinked THEN "live" ELSE "freed"
                             ELSE obj[o].st
             /\ obj'[o].legs = obj[o].legs
    <3>1. /\ Freed(os, u.obj) \in [Objs -> ObjRecord]
          /\ \A o \in Objs :
               /\ Freed(os, u.obj)[o].st = IF o = u.obj THEN "freed" ELSE os[o].st
               /\ Freed(os, u.obj)[o].legs = os[o].legs
      BY <1>3, <1>4 DEF Freed, ObjRecord
    <3>2. obj' = IF u.forLinked THEN os ELSE Freed(os, u.obj)
      BY <2>1 DEF FreedWith
    <3>3. QED
      BY <1>3, <1>4, <3>1, <3>2
  <2>3. TypeOK'
    BY <1>1, <1>2, <2>1, <2>2, NoSetIs DEF PoolInv, TypeOK
  <2>4. Safe'
    <3>1. CASE unl = NoSet
      <4>1. \A o \in Objs : obj'[o].st = "live" <=> obj[o].st = "live"
        BY <1>3, <1>5, <2>2, <3>1
      <4>2. QED
        BY <1>2, <2>1, <2>2, <3>1, <4>1, SameOwners DEF PoolInv
    <3>2. CASE unl # NoSet
      <4>1. \A o \in Objs :
              /\ obj'[o].st = IF o = unl.obj /\ ~unl.forLinked THEN "freed"
                              ELSE obj[o].st
              /\ obj'[o].legs = obj[o].legs
        BY <1>3, <1>5, <2>2, <3>2
      <4>2. /\ {} \in SUBSET Circs
            /\ \A c \in {} : circ[c].st = "open" /\ circ[c].pend
            /\ \A c \in unl.legs \ {} : circ[c].st = "freed"
            /\ \A c \in Circs :
                 IF c \in {} THEN /\ circ'[c].st = "marked" /\ ~circ'[c].pend
                                  /\ circ'[c].cfx = 0
                 ELSE circ'[c] = circ[c]
        BY <1>2, <1>3, <1>6, <3>2
      <4>3. QED
        BY <1>2, <2>1, <3>2, <4>1, <4>2, SetGoes DEF PoolInv
    <3>3. QED
      BY <3>1, <3>2
  <2>5. StackShape'
    BY <1>1, <1>2, <2>1 DEF StackShape, Quiet
  <2>6. QED
    BY <1>1, <2>3, <2>4, <2>5 DEF PoolInv, ExitSets
<1>7. CASE u.legs # {}
  <2>1. u = unl /\ unl # NoSet /\ unl' = unl /\ obj' = os
        /\ stk' = IF Client /\ ~mem /\ ~down
                  THEN <<Call("launch", {})>> \o AfterFailure
                  ELSE AfterFailure
    BY <1>2, <1>3, <1>7 DEF LegGone
  <2>2. /\ stk' \in Seq(CallRecord)
        /\ \/ stk' = AfterFailure
           \/ /\ stk' # <<>> /\ Head(stk') = Call("launch", {})
              /\ Tail(stk') = AfterFailure
    BY <1>1, <2>1, PushCall DEF Ops
  <2>3. TypeOK'
    BY <1>2, <1>4, <2>1, <2>2 DEF PoolInv, TypeOK
  <2>4. Safe'
    <3>1. \A o \in Objs : /\ obj'[o].st = "live" <=> obj[o].st = "live"
                          /\ obj'[o].legs = obj[o].legs
      BY <1>4, <1>5, <2>1
    <3>2. QED
      BY <1>2, <2>1, <3>1, SameOwners DEF PoolInv
  <2>5. StackShape'
    <3>1. Call("launch", {}).op = "launch"
      BY DEF Call
    <3>2. QED
      BY <1>1, <1>2, <2>1, <2>2, <3>1
         DEF StackShape, LaunchNext, Idle, Quiet
  <2>6. QED
    BY <1>1, <2>3, <2>4, <2>5 DEF PoolInv, ExitSets
<1>8. QED
  BY <1>6, <1>7

\* conflux_mark_all_for_close, first the unlinked set ...
LEMMA MarkAllKeeps ==
  ASSUME PoolAssumption, PoolInv, MarkAll
  PROVE  PoolInv'
<1> DEFINE rest == <<Call("linked", {})>> \o Tail(stk)
<1>1. /\ ~Idle /\ Head(stk).op = "all" /\ UNCHANGED <<circ, lpool, mem, down>>
      /\ ~down
  BY DEF MarkAll, PoolInv, StackShape
<1>2. Quiet(Tail(stk)) /\ Tail(stk) \in Seq(CallRecord)
  BY <1>1, QuietHead DEF PoolInv
<1>3. rest \in Seq(CallRecord) /\ Quiet(rest) /\ rest # <<>>
  BY <1>2, PushCall DEF Ops
<1>4. stk' = (IF unl.legs = {} THEN <<>> ELSE <<Call("close", unl.legs)>>)
             \o rest
  BY DEF MarkAll
<1> HIDE DEF rest
<1>5. CASE unl.legs = {}
  <2>1. stk' = rest
    BY <1>3, <1>4, <1>5, ConcatEmptySeq
  <2>2. StackShape'
    BY <1>1, <1>3, <2>1 DEF StackShape, Quiet
  <2>3. CASE unl = NoSet
    <3>1. UNCHANGED <<unl, obj>>
      BY <2>3 DEF MarkAll
    <3>2. TypeOK' /\ ExitSets'
      BY <1>1, <1>3, <2>1, <2>3, <3>1 DEF PoolInv, TypeOK, ExitSets
    <3>3. Safe'
      BY <1>1, <3>1, SameOwners DEF PoolInv
    <3>4. QED
      BY <2>2, <3>2, <3>3 DEF PoolInv
  <2>4. CASE unl # NoSet
    <3>1. unl' = NoSet /\ obj' = FreedWith(obj, unl)
      BY <1>5, <2>4 DEF MarkAll
    <3>2. unl.obj \in Objs
      BY <2>4 DEF PoolInv, Safe, NoDangling, Live
    <3>3. /\ obj' \in [Objs -> ObjRecord]
          /\ \A o \in Objs :
               /\ obj'[o].st = IF o = unl.obj /\ ~unl.forLinked THEN "freed"
                               ELSE obj[o].st
               /\ obj'[o].legs = obj[o].legs
      BY <3>1, <3>2, ZenonT(30) DEF PoolInv, TypeOK, FreedWith, Freed, ObjRecord
    <3>4. TypeOK' /\ ExitSets'
      BY <1>1, <1>3, <2>1, <3>1, <3>3, NoSetIs DEF PoolInv, TypeOK, ExitSets
    <3>5. Safe'
      <4>1. /\ {} \in SUBSET Circs
            /\ \A c \in {} : circ[c].st = "open" /\ circ[c].pend
            /\ \A c \in unl.legs \ {} : circ[c].st = "freed"
            /\ \A c \in Circs :
                 IF c \in {} THEN /\ circ'[c].st = "marked" /\ ~circ'[c].pend
                                  /\ circ'[c].cfx = 0
                 ELSE circ'[c] = circ[c]
        BY <1>1, <1>5
      <4>2. QED
        BY <1>1, <2>4, <3>1, <3>3, <4>1, SetGoes DEF PoolInv
    <3>6. QED
      BY <2>2, <3>4, <3>5 DEF PoolInv
  <2>5. QED
    BY <2>3, <2>4
<1>6. CASE unl.legs # {}
  <2>1. stk' = <<Call("close", unl.legs)>> \o rest /\ UNCHANGED <<unl, obj>>
    BY <1>4, <1>6 DEF MarkAll
  <2>2. unl.legs \in SUBSET Circs
    BY DEF PoolInv, TypeOK, SetRecord
  <2>3. stk' \in Seq(CallRecord) /\ stk' # <<>> /\ Quiet(stk')
        /\ Head(stk') = Call("close", unl.legs)
    BY <1>3, <2>1, <2>2, PushCall DEF Ops
  <2>4. TypeOK' /\ StackShape'
    BY <1>1, <2>1, <2>3 DEF PoolInv, TypeOK, StackShape, Quiet
  <2>5. ExitSets'
    BY <2>1, <2>3 DEF PoolInv, ExitSets, Idle, Call
  <2>6. Safe'
    BY <1>1, <2>1, SameOwners DEF PoolInv
  <2>7. QED
    BY <2>4, <2>5, <2>6 DEF PoolInv
<1>7. QED
  BY <1>5, <1>6

\* ... and then the linked one.
LEMMA MarkLinkedKeeps ==
  ASSUME PoolAssumption, PoolInv, MarkLinked
  PROVE  PoolInv'
<1>1. /\ ~Idle /\ Head(stk).op = "linked"
      /\ UNCHANGED <<circ, unl, lpool, mem, down>> /\ ~down
  BY DEF MarkLinked, PoolInv, StackShape
<1>2. Quiet(Tail(stk)) /\ Tail(stk) \in Seq(CallRecord)
  BY <1>1, QuietHead DEF PoolInv
<1>3. ~Client => unl = NoSet
  BY <1>1 DEF PoolInv, ExitSets, Call
<1>4. /\ stk' \in Seq(CallRecord) /\ Quiet(stk')
      /\ obj' \in [Objs -> ObjRecord]
      /\ \A o \in Objs : obj'[o].st = obj[o].st /\ obj'[o].legs = obj[o].legs
  <2>1. CASE lpool # 0 /\ ~obj[lpool].torn
    <3>1. lpool \in Objs /\ obj[lpool].legs \in SUBSET Circs
      BY <2>1 DEF PoolInv, TypeOK, Pointers, ObjRecord
    <3>2. /\ obj' = [obj EXCEPT ![lpool].torn = TRUE]
          /\ stk' = <<Call("close", obj[lpool].legs)>> \o Tail(stk)
      BY <2>1 DEF MarkLinked
    <3>3. stk' \in Seq(CallRecord) /\ Quiet(stk')
      <4>1. "close" \in Ops /\ "close" \notin {"launch", "newset"}
        BY DEF Ops
      <4>2. QED
        BY <1>2, <3>1, <3>2, <4>1, PushCall, ZenonT(30)
    <3>4. QED
      BY <3>1, <3>2, <3>3 DEF PoolInv, TypeOK, ObjRecord
  <2>2. CASE ~(lpool # 0 /\ ~obj[lpool].torn)
    BY <1>2, <2>2 DEF MarkLinked, PoolInv, TypeOK
  <2>3. QED
    BY <2>1, <2>2
<1>5. TypeOK'
  BY <1>1, <1>4 DEF PoolInv, TypeOK
<1>6. Safe'
  BY <1>1, <1>4, SameOwners DEF PoolInv
<1>7. StackShape' /\ ExitSets'
  BY <1>1, <1>3, <1>4 DEF StackShape, ExitSets, Quiet
<1>8. QED
  BY <1>5, <1>6, <1>7 DEF PoolInv

\* conflux_circuit_has_closed, for a circuit that is in no set.
LEMMA CloseNothingKeeps ==
  ASSUME PoolAssumption, PoolInv, NEW c \in Circs, CloseNothing(c)
  PROVE  PoolInv'
<1>1. /\ Closing(c) /\ stk' = ThenClose(c)
      /\ circ' = [circ EXCEPT ![c].st = IF @ = "open" THEN "marked" ELSE @]
      /\ UNCHANGED <<unl, lpool, obj, mem, down>>
      /\ circ[c].st # "open" \/ (~circ[c].pend /\ circ[c].cfx = 0)
      /\ ~down
  BY DEF CloseNothing, Closing, PoolInv, StackShape
<1>2. Quiet(stk') /\ stk' \in Seq(CallRecord)
  BY <1>1, RestOfList DEF PoolInv
<1>3. TypeOK'
  BY <1>1, <1>2 DEF PoolInv, TypeOK, CircRecord
<1>4. CASE circ[c].st = "open"
  <2>1. /\ circ[c].cfx = 0 /\ ~circ[c].pend /\ circ'[c].st = "marked"
        /\ circ'[c].cfx = 0 /\ ~circ'[c].pend
        /\ \A d \in Circs \ {c} : circ'[d] = circ[d]
    BY <1>1, <1>4 DEF PoolInv, TypeOK, CircRecord
  <2>2. QED
    <3>1. Safe'
      BY <1>1, <1>4, <2>1, Forgotten DEF PoolInv
    <3>2. ~Client => unl = NoSet
      BY <1>1, <2>1 DEF PoolInv, ExitSets, Closing, Call, Safe, LegsArePending
    <3>3. QED
      BY <1>1, <1>2, <1>3, <3>1, <3>2 DEF PoolInv, StackShape, ExitSets, Quiet
<1>5. CASE circ[c].st # "open"
  <2>1. circ' = circ
    BY <1>1, <1>5 DEF PoolInv, TypeOK, CircRecord
  <2>2. Safe'
    BY <1>1, <2>1, SameOwners DEF PoolInv
  <2>3. ~Client => unl = NoSet
    BY <1>1, <1>5 DEF PoolInv, ExitSets, Closing, Call, Safe, LegsArePending
  <2>4. QED
    BY <1>1, <1>2, <1>3, <2>2, <2>3 DEF PoolInv, StackShape, ExitSets, Quiet
<1>6. QED
  BY <1>4, <1>5

\* conflux_circuit_has_closed, for a leg of an unlinked set.
LEMMA CloseUnlinkedKeeps ==
  ASSUME PoolAssumption, PoolInv, NEW c \in Circs, CloseUnlinked(c)
  PROVE  PoolInv'
<1> DEFINE u == [unl EXCEPT !.legs = @ \ {c}, !.linked = @ \ {c}]
<1>1. /\ Closing(c) /\ circ[c].st = "open" /\ circ[c].pend
      /\ circ' = [circ EXCEPT ![c].st = "marked", ![c].pend = c \notin unl.legs]
      /\ UNCHANGED <<lpool, mem, down>> /\ ~down
  BY DEF CloseUnlinked, Closing, PoolInv, StackShape
<1>2. c \in unl.legs /\ unl # NoSet /\ circ[c].cfx = 0
  BY <1>1, NoSetIs DEF PoolInv, Safe, LegsArePending
<1>3. LegGone(u, obj, ThenClose(c))
  BY <1>2 DEF CloseUnlinked
<1>4. /\ u \in SetRecord /\ u.obj = unl.obj /\ u.forLinked = unl.forLinked
      /\ u.legs = unl.legs \ {c}
  BY DEF PoolInv, TypeOK, SetRecord
<1>5. /\ circ' \in [Circs -> CircRecord]
      /\ circ'[c].st = "marked" /\ ~circ'[c].pend /\ circ'[c].cfx = 0
      /\ \A d \in Circs \ {c} : circ'[d] = circ[d]
  BY <1>1, <1>2 DEF PoolInv, TypeOK, CircRecord
<1>6. Quiet(ThenClose(c)) /\ ThenClose(c) \in Seq(CallRecord)
  BY <1>1, RestOfList DEF PoolInv
<1> HIDE DEF u
<1>7. CASE u.legs = {}
  <2>1. unl' = NoSet /\ obj' = FreedWith(obj, u) /\ stk' = ThenClose(c)
    BY <1>3, <1>7 DEF LegGone
  <2>2. unl.obj \in Objs
    BY <1>2 DEF PoolInv, Safe, NoDangling, Live
  <2>3. /\ obj' \in [Objs -> ObjRecord]
        /\ \A o \in Objs :
             /\ obj'[o].st = IF o = unl.obj /\ ~unl.forLinked THEN "freed"
                             ELSE obj[o].st
             /\ obj'[o].legs = obj[o].legs
    BY <1>4, <2>1, <2>2, ZenonT(30) DEF PoolInv, TypeOK, FreedWith, Freed, ObjRecord
  <2>4. TypeOK'
    BY <1>1, <1>5, <1>6, <2>1, <2>3, NoSetIs DEF PoolInv, TypeOK
  <2>5. Safe'
    <3>1. /\ {c} \in SUBSET Circs
          /\ \A d \in {c} : circ[d].st = "open" /\ circ[d].pend
          /\ \A d \in unl.legs \ {c} : circ[d].st = "freed"
          /\ \A d \in Circs :
               IF d \in {c} THEN /\ circ'[d].st = "marked" /\ ~circ'[d].pend
                                 /\ circ'[d].cfx = 0
               ELSE circ'[d] = circ[d]
      BY <1>1, <1>4, <1>5, <1>7
    <3>2. QED
      BY <1>1, <1>2, <2>1, <2>3, <3>1, SetGoes DEF PoolInv
  <2>6. StackShape' /\ ExitSets'
    BY <1>1, <1>6, <2>1 DEF StackShape, ExitSets, Quiet
  <2>7. QED
    BY <2>4, <2>5, <2>6 DEF PoolInv
<1>8. CASE u.legs # {}
  <2>1. /\ unl' = u /\ obj' = obj
        /\ stk' = IF Client /\ ~mem /\ ~down
                  THEN <<Call("launch", {})>> \o ThenClose(c)
                  ELSE ThenClose(c)
    BY <1>3, <1>8 DEF LegGone
  <2>2. /\ stk' \in Seq(CallRecord)
        /\ \/ stk' = ThenClose(c)
           \/ /\ stk' # <<>> /\ Head(stk') = Call("launch", {})
              /\ Tail(stk') = ThenClose(c)
    BY <1>6, <2>1, PushCall DEF Ops
  <2>3. Client
    BY <1>2, <1>4, <1>8 DEF PoolInv, ExitSets
  <2>4. TypeOK'
    BY <1>1, <1>4, <1>5, <2>1, <2>2 DEF PoolInv, TypeOK
  <2>5. Safe'
    BY <1>1, <1>4, <1>5, <2>1, LegGoes DEF PoolInv
  <2>6. unl' # NoSet
    BY <1>8, <2>1, NoSetIs
  <2>7. StackShape'
    <3>1. Call("launch", {}).op = "launch"
      BY DEF Call
    <3>2. QED
      BY <1>1, <1>6, <2>2, <2>3, <2>6, <3>1
         DEF StackShape, LaunchNext, Idle, Quiet
  <2>8. QED
    BY <2>3, <2>4, <2>5, <2>7 DEF PoolInv, ExitSets
<1>9. QED
  BY <1>7, <1>8

\* conflux_circuit_has_closed, for a leg of a linked set.
LEMMA CloseLinkedKeeps ==
  ASSUME PoolAssumption, PoolInv, NEW c \in Circs, CloseLinked(c)
  PROVE  PoolInv'
<1> DEFINE o == circ[c].cfx
           last == Last(o, c)
<1>0. circ[c].cfx = o
  OBVIOUS
<1>1. /\ Closing(c) /\ circ[c].st = "open" /\ ~circ[c].pend /\ o # 0
      /\ UNCHANGED <<mem, down>> /\ ~down
  BY DEF CloseLinked, Closing, PoolInv, StackShape
<1>2. PICK busy \in BOOLEAN :
        /\ obj' = [obj EXCEPT ![o] = Without(@, c, busy)]
        /\ lpool' = IF last THEN 0 ELSE lpool
        /\ unl' = IF last /\ HandsOver(c)
                  THEN [unl EXCEPT !.forLinked = FALSE] ELSE unl
        /\ circ' = [circ EXCEPT ![c].st = "marked",
                      ![c].cfx = IF last /\ ~HandsOver(c) THEN o ELSE 0]
        /\ stk' = (IF Torn(obj[o], c, busy) THEN <<Call("all", {})>> ELSE <<>>)
                  \o (<<Call("refill", {c})>> \o ThenClose(c))
  BY DEF CloseLinked
<1>3. o \in Objs
  BY <1>1 DEF PoolInv, TypeOK, CircRecord, Pointers
<1>4. ~Client => unl = NoSet
  BY <1>1 DEF PoolInv, ExitSets, Closing, Call, Safe, LegsArePending
<1>6. HandsOver(c) <=> unl.obj = o
  BY DEF HandsOver
<1> HIDE DEF o
<1> DEFINE held == IF last /\ ~HandsOver(c) THEN o ELSE 0
<1>7. held \in Pointers /\ held = IF last /\ unl.obj # o THEN o ELSE 0
  BY <1>3, <1>6 DEF Pointers
<1>8. circ' = [circ EXCEPT ![c].st = "marked", ![c].cfx = held]
  BY <1>2
<1> HIDE DEF held
<1>9. /\ circ' \in [Circs -> CircRecord]
      /\ circ'[c].st = "marked" /\ ~circ'[c].pend /\ circ'[c].cfx = held
      /\ \A d \in Circs \ {c} : circ'[d] = circ[d]
  BY <1>1, <1>7, <1>8 DEF PoolInv, TypeOK, CircRecord
<1>10. /\ unl' \in SetRecord /\ unl'.obj = unl.obj /\ unl'.legs = unl.legs
       /\ unl'.forLinked = IF last /\ unl.obj = o THEN FALSE
                           ELSE unl.forLinked
  BY <1>2, <1>6 DEF PoolInv, TypeOK, SetRecord
<1>11. unl = NoSet => unl' = NoSet
  BY <1>1, <1>2, <1>6, NoSetIs
<1>12. /\ obj' \in [Objs -> ObjRecord]
       /\ obj'[o].st = obj[o].st /\ obj'[o].legs = obj[o].legs \ {c}
       /\ \A p \in Objs \ {o} :
            obj'[p].st = obj[p].st /\ obj'[p].legs = obj[p].legs
  <2>1. obj[o] \in ObjRecord
    BY <1>3 DEF PoolInv, TypeOK
  <2>2. /\ Without(obj[o], c, busy) \in ObjRecord
        /\ Without(obj[o], c, busy).st = obj[o].st
        /\ Without(obj[o], c, busy).legs = obj[o].legs \ {c}
    BY <2>1, Changed
  <2>3. QED
    BY <1>2, <1>3, <2>2 DEF PoolInv, TypeOK
<1>13. Quiet(stk') /\ stk' \in Seq(CallRecord)
  <2> DEFINE rest == <<Call("refill", {c})>> \o ThenClose(c)
  <2>1. Quiet(ThenClose(c)) /\ ThenClose(c) \in Seq(CallRecord)
    BY <1>1, RestOfList DEF PoolInv
  <2>2. rest \in Seq(CallRecord) /\ Quiet(rest)
    <3>1. {c} \in SUBSET Circs
      OBVIOUS
    <3>2. QED
      BY <2>1, <3>1, PushCall DEF Ops
  <2>3. stk' = <<Call("all", {})>> \o rest \/ stk' = <<>> \o rest
    BY <1>2
  <2> HIDE DEF rest
  <2>4. CASE stk' = <<Call("all", {})>> \o rest
    BY <2>2, <2>4, PushCall DEF Ops
  <2>5. CASE stk' = <<>> \o rest
    BY <2>2, <2>5, ConcatEmptySeq
  <2>6. QED
    BY <2>3, <2>4, <2>5
<1>14. TypeOK'
  <2>1. lpool' \in Pointers
    BY <1>2 DEF PoolInv, TypeOK, Pointers
  <2>2. QED
    BY <1>1, <1>9, <1>10, <1>12, <1>13, <2>1 DEF PoolInv, TypeOK
<1>15. Safe'
  <2>1. lpool' = IF Last(o, c) THEN 0 ELSE lpool
    BY <1>2
  <2>2. circ'[c].cfx = IF Last(o, c) /\ unl.obj # o THEN o ELSE 0
    BY <1>7, <1>9
  <2>3. unl'.forLinked = IF Last(o, c) /\ unl.obj = o THEN FALSE
                         ELSE unl.forLinked
    BY <1>10
  <2>4. TypeOK /\ Safe /\ UNCHANGED down
    BY <1>1 DEF PoolInv
  <2> HIDE DEF last
  <2>5. QED
    BY <1>0, <1>1, <1>3, <1>4, <1>9, <1>10, <1>11, <1>12, <2>1, <2>2, <2>3,
       <2>4, LinkedCloses
<1>16. StackShape' /\ ExitSets'
  BY <1>1, <1>4, <1>11, <1>13 DEF StackShape, ExitSets, Quiet
<1>17. QED
  BY <1>14, <1>15, <1>16 DEF PoolInv

\* The end of linked_circuit_closed: the unlinked set of a rebuilt set takes
\* the object over from the circuit that was the last leg.
LEMMA RefillKeeps ==
  ASSUME PoolAssumption, PoolInv, NEW c \in Circs, Refill(c)
  PROVE  PoolInv'
<1> DEFINE o == circ[c].cfx
           may == Client /\ ~mem /\ ~down
           survives == lpool # 0 /\ obj[lpool].legs # {} /\ ~obj[lpool].torn
           rebuild == lpool = 0 /\ o # 0 /\ ~obj[o].torn
<1>1. /\ ~Idle /\ Head(stk).op = "refill" /\ UNCHANGED <<lpool, mem, down>>
      /\ ~down
  BY DEF Refill, PoolInv, StackShape
<1>2. Quiet(Tail(stk)) /\ Tail(stk) \in Seq(CallRecord)
  BY <1>1, QuietHead DEF PoolInv
<1>3. ~Client => unl = NoSet
  BY <1>1 DEF PoolInv, ExitSets, Call
<1>4. /\ stk' = IF may /\ (survives \/ rebuild)
                THEN <<Call("launch", {})>> \o Tail(stk) ELSE Tail(stk)
      /\ IF may /\ rebuild
         THEN /\ unl' = Adopt(o)
              /\ obj' = IF unl # NoSet /\ unl.legs = {}
                        THEN Freed(obj, unl.obj) ELSE obj
              /\ circ' = [circ EXCEPT ![c].cfx = 0]
         ELSE UNCHANGED <<unl, obj, circ>>
  BY DEF Refill
<1>5. stk' \in Seq(CallRecord)
  BY <1>2, <1>4, PushCall DEF Ops
<1>6. ASSUME may, unl' # NoSet \/ lpool # 0,
             stk' = <<Call("launch", {})>> \o Tail(stk)
      PROVE  StackShape'
  <2>1. /\ stk' # <<>> /\ Head(stk') = Call("launch", {})
        /\ Tail(stk') = Tail(stk)
    BY <1>2, <1>6, PushCall DEF Ops
  <2>2. Call("launch", {}).op = "launch"
    BY DEF Call
  <2>3. Quiet(Tail(stk'))
    BY <1>2, <2>1
  <2>4. QED
    BY <1>1, <1>6, <2>1, <2>2, <2>3 DEF StackShape, LaunchNext, Idle, Quiet
<1>7. CASE may /\ rebuild
  <2>1. Client /\ lpool = 0 /\ circ[c].cfx # 0
    BY <1>7
  <2>2. unl = NoSet
    BY <2>1 DEF PoolInv, Safe, OneObject, HoldersAreLast
  <2>3. /\ unl' = [NoSet EXCEPT !.obj = circ[c].cfx] /\ obj' = obj
        /\ circ' = [circ EXCEPT ![c].cfx = 0]
    BY <1>4, <1>7, <2>2 DEF Adopt
  <2>4. circ[c].cfx \in Pointers
    BY DEF PoolInv, TypeOK, CircRecord
  <2>5. /\ unl' \in SetRecord /\ unl'.obj = circ[c].cfx /\ ~unl'.forLinked
        /\ unl'.legs = {} /\ unl' # NoSet
    BY <2>1, <2>3, <2>4 DEF NoSet, SetRecord
  <2>6. /\ circ' \in [Circs -> CircRecord]
        /\ circ'[c].st = circ[c].st /\ circ'[c].pend = circ[c].pend
        /\ circ'[c].cfx = 0 /\ \A d \in Circs \ {c} : circ'[d] = circ[d]
    BY <2>3 DEF PoolInv, TypeOK, CircRecord, Pointers
  <2>7. TypeOK'
    BY <1>1, <1>5, <2>3, <2>5, <2>6 DEF PoolInv, TypeOK
  <2>8. Safe'
    <3>1. TypeOK /\ Safe /\ UNCHANGED <<lpool, obj, down>>
      BY <1>1, <2>3 DEF PoolInv
    <3>2. QED
      BY <2>1, <2>2, <2>5, <2>6, <3>1, Adopted
  <2>9. StackShape'
    BY <1>4, <1>6, <1>7, <2>5
  <2>10. QED
    BY <2>1, <2>7, <2>8, <2>9 DEF PoolInv, ExitSets
<1>8. CASE ~(may /\ rebuild)
  <2>1. UNCHANGED <<unl, obj, circ>>
    BY <1>4, <1>8
  <2>2. TypeOK'
    BY <1>1, <1>5, <2>1 DEF PoolInv, TypeOK
  <2>3. Safe'
    BY <1>1, <2>1, SameOwners DEF PoolInv
  <2>4. CASE may /\ survives
    BY <1>3, <1>4, <1>6, <2>1, <2>2, <2>3, <2>4 DEF PoolInv, ExitSets
  <2>5. CASE ~(may /\ survives)
    <3>1. stk' = Tail(stk)
      BY <1>4, <1>8, <2>5
    <3>2. StackShape' /\ ExitSets'
      BY <1>1, <1>2, <1>3, <2>1, <3>1 DEF StackShape, ExitSets, Quiet
    <3>3. QED
      BY <2>2, <2>3, <3>2 DEF PoolInv
  <2>6. QED
    BY <2>4, <2>5
<1>9. QED
  BY <1>7, <1>8

\* What try_finalize_set leaves of the set u, in the heap os.
LEMMA FinalizeIs ==
  ASSUME NEW u \in SetRecord, u.obj \in Objs,
         NEW os \in [Objs -> ObjRecord], NEW cs \in [Circs -> CircRecord],
         Finalize(u, os, cs)
  PROVE  /\ circ' \in [Circs -> CircRecord] /\ obj' \in [Objs -> ObjRecord]
         /\ unl' = NoSet /\ lpool' = u.obj
         /\ \A c \in Circs :
              IF c \in u.legs
              THEN /\ circ'[c].st = cs[c].st /\ ~circ'[c].pend
                   /\ circ'[c].cfx = u.obj
              ELSE circ'[c] = cs[c]
         /\ \A o \in Objs :
              /\ obj'[o].st = os[o].st
              /\ obj'[o].legs = IF o = u.obj THEN os[o].legs \cup u.legs
                                ELSE os[o].legs
<1>1. u.legs \in SUBSET Circs
  BY DEF SetRecord
<1>2. /\ circ' = [c \in Circs |->
                    IF c \in u.legs
                    THEN [cs[c] EXCEPT !.pend = FALSE, !.cfx = u.obj]
                    ELSE cs[c]]
      /\ obj' = [os EXCEPT ![u.obj].legs = @ \cup u.legs,
                           ![u.obj].launches = 0]
      /\ unl' = NoSet /\ lpool' = u.obj
  BY DEF Finalize
<1>3. ASSUME NEW c \in Circs
      PROVE  /\ circ'[c] \in CircRecord
             /\ IF c \in u.legs
                THEN /\ circ'[c].st = cs[c].st /\ ~circ'[c].pend
                     /\ circ'[c].cfx = u.obj
                ELSE circ'[c] = cs[c]
  BY <1>2 DEF CircRecord, Pointers
<1>4. circ' \in [Circs -> CircRecord]
  BY <1>2, <1>3
<1>5. /\ obj' \in [Objs -> ObjRecord]
      /\ \A o \in Objs :
           /\ obj'[o].st = os[o].st
           /\ obj'[o].legs = IF o = u.obj THEN os[o].legs \cup u.legs
                             ELSE os[o].legs
  BY <1>1, <1>2, ZenonT(30) DEF ObjRecord
<1>6. QED
  BY <1>2, <1>3, <1>4, <1>5

\* conflux_process_linked: a set moves to the linked pool, or gets a leg there.
LEMMA ProcessLinkedKeeps ==
  ASSUME PoolAssumption, PoolInv, NEW c \in Circs, ProcessLinked(c)
  PROVE  PoolInv'
<1> DEFINE u == [unl EXCEPT !.linked = @ \cup {c}]
<1>1. /\ Client /\ Idle /\ ~down /\ c \in unl.legs /\ UNCHANGED <<mem, down>>
  BY DEF ProcessLinked
<1>2. PICK valid \in BOOLEAN : LinkCircuit(u, obj, circ, valid, <<>>)
  BY DEF ProcessLinked
<1>3. /\ u \in SetRecord /\ u.obj = unl.obj /\ u.forLinked = unl.forLinked
      /\ u.legs = unl.legs
  BY DEF PoolInv, TypeOK, SetRecord
<1>4. unl # NoSet
  BY <1>1, NoSetIs
<1>5. unl.obj \in Objs /\ obj[unl.obj].st = "live"
  BY <1>4 DEF PoolInv, Safe, NoDangling, Live
<1> HIDE DEF u
<1>6. CASE ~TooMany(u, obj) /\ valid /\ Ready(u)
  <2>1. Finalize(u, obj, circ) /\ stk' = <<>>
    BY <1>2, <1>6 DEF LinkCircuit
  <2>2. obj \in [Objs -> ObjRecord] /\ circ \in [Circs -> CircRecord]
    BY DEF PoolInv, TypeOK
  <2>3. /\ circ' \in [Circs -> CircRecord] /\ obj' \in [Objs -> ObjRecord]
        /\ unl' = NoSet /\ lpool' = unl.obj
        /\ \A d \in Circs :
             IF d \in unl.legs
             THEN /\ circ'[d].st = circ[d].st /\ ~circ'[d].pend
                  /\ circ'[d].cfx = unl.obj
             ELSE circ'[d] = circ[d]
        /\ \A o \in Objs :
             /\ obj'[o].st = obj[o].st
             /\ obj'[o].legs = IF o = unl.obj THEN obj[o].legs \cup unl.legs
                               ELSE obj[o].legs
    <3>1. u \in SetRecord /\ u.obj \in Objs
      BY <1>3, <1>5
    <3>2. /\ circ' \in [Circs -> CircRecord] /\ obj' \in [Objs -> ObjRecord]
          /\ unl' = NoSet /\ lpool' = u.obj
          /\ \A d \in Circs :
               IF d \in u.legs
               THEN /\ circ'[d].st = circ[d].st /\ ~circ'[d].pend
                    /\ circ'[d].cfx = u.obj
               ELSE circ'[d] = circ[d]
          /\ \A o \in Objs :
               /\ obj'[o].st = obj[o].st
               /\ obj'[o].legs = IF o = u.obj THEN obj[o].legs \cup u.legs
                                 ELSE obj[o].legs
      BY <2>1, <2>2, <3>1, FinalizeIs
    <3>3. QED
      BY <1>3, <3>2
  <2>4. TypeOK'
    BY <1>1, <1>5, <2>1, <2>3, NoSetIs DEF PoolInv, TypeOK, Pointers
  <2>5. Safe'
    <3>1. GetOrCreate = unl
      BY <1>4 DEF GetOrCreate
    <3>2. unl.legs \cup {} = unl.legs
      OBVIOUS
    <3>3. \A d \in unl.legs : circ[d].st = "open"
      BY <1>1 DEF PoolInv, Safe, LegsArePending
    <3>4. /\ {} \in SUBSET Circs /\ \A d \in {} : circ[d].st = "none"
          /\ Client => unl # NoSet
          /\ GetOrCreate.legs \cup {} # {}
      BY <1>1, <1>4, <3>1
    <3>5. \A d \in Circs :
            IF d \in GetOrCreate.legs \cup {}
            THEN /\ circ'[d].st = "open" /\ ~circ'[d].pend
                 /\ circ'[d].cfx = GetOrCreate.obj
            ELSE circ'[d] = circ[d]
      BY <2>3, <3>1, <3>2, <3>3
    <3>6. unl' = NoSet /\ lpool' = GetOrCreate.obj
      BY <2>3, <3>1
    <3>7. \A o \in Objs :
            /\ obj'[o].st = IF o = GetOrCreate.obj THEN "live" ELSE obj[o].st
            /\ obj'[o].legs = IF o = GetOrCreate.obj
                              THEN obj[o].legs \cup (GetOrCreate.legs \cup {})
                              ELSE obj[o].legs
      BY <1>5, <2>3, <3>1, <3>2
    <3>8. TypeOK /\ Safe /\ CanCreate /\ ~down /\ UNCHANGED down
      BY <1>1, <1>4 DEF PoolInv, CanCreate
    <3>9. QED
      BY <3>4, <3>5, <3>6, <3>7, <3>8, SetLinks
  <2>6. StackShape' /\ ExitSets'
    BY <1>1, <2>1 DEF StackShape, ExitSets, Quiet
  <2>7. QED
    BY <2>4, <2>5, <2>6 DEF PoolInv
<1>7. CASE ~(~TooMany(u, obj) /\ valid /\ Ready(u))
  <2>1. /\ unl' = u /\ obj' = obj /\ circ' = circ /\ lpool' = lpool
        /\ stk' = <<>> \/ stk' = <<Call("all", {})>> \o <<>>
    BY <1>2, <1>7 DEF LinkCircuit
  <2>2. stk' \in Seq(CallRecord) /\ Quiet(stk')
    <3> DEFINE none == <<>>
    <3>1. none \in Seq(CallRecord) /\ Quiet(none)
      BY DEF Quiet
    <3>2. stk' = none \/ stk' = <<Call("all", {})>> \o none
      BY <2>1
    <3> HIDE DEF none
    <3>3. CASE stk' = none
      BY <3>1, <3>3
    <3>4. CASE stk' = <<Call("all", {})>> \o none
      BY <3>1, <3>4, PushCall DEF Ops
    <3>5. QED
      BY <3>2, <3>3, <3>4
  <2>3. TypeOK'
    BY <1>1, <1>3, <2>1, <2>2 DEF PoolInv, TypeOK
  <2>4. Safe'
    BY <1>1, <1>3, <1>4, <2>1, SameOwners DEF PoolInv
  <2>5. StackShape' /\ ExitSets'
    BY <1>1, <2>2 DEF StackShape, ExitSets, Quiet
  <2>6. QED
    BY <2>3, <2>4, <2>5 DEF PoolInv
<1>8. QED
  BY <1>6, <1>7

\* A new leg of an exit links at once, or is closed at once.
LEMMA ProcessLinkKeeps ==
  ASSUME PoolAssumption, PoolInv, NEW c \in Circs, ProcessLink(c)
  PROVE  PoolInv'
<1> DEFINE g == GetOrCreate
           u == [g EXCEPT !.legs = @ \cup {c}, !.linked = @ \cup {c}]
           os == Allocated(g.obj)
           cs == [circ EXCEPT ![c].st = "open", ![c].pend = TRUE]
           failed == <<Call("close", {c})>>
<1>0. os = Allocated(g.obj) /\ g = GetOrCreate /\ failed = <<Call("close", {c})>>
  OBVIOUS
<1>1. /\ ~Client /\ Idle /\ ~down /\ CanCreate /\ circ[c].st = "none"
      /\ UNCHANGED <<mem, down>>
  BY DEF ProcessLink, Fresh
<1>2. PICK valid \in BOOLEAN : LinkCircuit(u, os, cs, valid, failed)
  BY DEF ProcessLink
<1>3. unl = NoSet
  BY <1>1 DEF PoolInv, ExitSets
<1>4. /\ g \in SetRecord /\ g.obj \in Objs /\ g.legs = {} /\ g.linked = {}
      /\ os \in [Objs -> ObjRecord]
      /\ \A o \in Objs :
           /\ os[o].st = IF o = g.obj THEN "live" ELSE obj[o].st
           /\ os[o].legs = obj[o].legs
  BY <1>1, <1>3, GetOrCreateIs DEF PoolInv
<1> HIDE DEF g
<1>5. /\ u \in SetRecord /\ u.obj = g.obj /\ u.forLinked = g.forLinked
      /\ u.legs = {c} /\ u.linked = {c}
  BY <1>4 DEF SetRecord
<1>6. /\ cs \in [Circs -> CircRecord] /\ circ[c].cfx = 0
      /\ cs[c].st = "open" /\ cs[c].pend /\ cs[c].cfx = 0
      /\ \A d \in Circs \ {c} : cs[d] = circ[d]
  BY <1>1 DEF PoolInv, TypeOK, CircRecord, Safe, NotYet
<1>7. TypeOK /\ Safe /\ {c} \in SUBSET Circs /\ UNCHANGED down
      /\ \A d \in {c} : circ[d].st = "none"
  BY <1>1 DEF PoolInv
<1> HIDE DEF u, os, cs, failed
<1>8. CASE ~TooMany(u, os) /\ valid /\ Ready(u)
  <2>1. Finalize(u, os, cs) /\ stk' = <<>>
    BY <1>2, <1>8 DEF LinkCircuit
  <2>2. u \in SetRecord /\ u.obj \in Objs
    BY <1>4, <1>5
  <2>3. /\ circ' \in [Circs -> CircRecord] /\ obj' \in [Objs -> ObjRecord]
        /\ unl' = NoSet /\ lpool' = u.obj
        /\ \A d \in Circs :
             IF d \in u.legs
             THEN /\ circ'[d].st = cs[d].st /\ ~circ'[d].pend
                  /\ circ'[d].cfx = u.obj
             ELSE circ'[d] = cs[d]
        /\ \A o \in Objs :
             /\ obj'[o].st = os[o].st
             /\ obj'[o].legs = IF o = u.obj THEN os[o].legs \cup u.legs
                               ELSE os[o].legs
    BY <1>4, <1>6, <2>1, <2>2, FinalizeIs
  <2>4. TypeOK'
    BY <1>1, <1>4, <1>5, <2>1, <2>3, NoSetIs DEF PoolInv, TypeOK, Pointers
  <2>5. Safe'
    <3>1. GetOrCreate.legs \cup {c} = {c}
      BY <1>0, <1>4
    <3>2. (Client => unl # NoSet) /\ GetOrCreate.legs \cup {c} # {}
      BY <1>1, <3>1
    <3>3. \A d \in Circs :
            IF d \in GetOrCreate.legs \cup {c}
            THEN /\ circ'[d].st = "open" /\ ~circ'[d].pend
                 /\ circ'[d].cfx = GetOrCreate.obj
            ELSE circ'[d] = circ[d]
      BY <1>0, <1>5, <1>6, <2>3, <3>1
    <3>4. unl' = NoSet /\ lpool' = GetOrCreate.obj
      BY <1>0, <1>5, <2>3
    <3>5. \A o \in Objs :
            /\ obj'[o].st = IF o = GetOrCreate.obj THEN "live" ELSE obj[o].st
            /\ obj'[o].legs = IF o = GetOrCreate.obj
                              THEN obj[o].legs \cup (GetOrCreate.legs \cup {c})
                              ELSE obj[o].legs
      <4>1. g.obj = GetOrCreate.obj
        BY <1>0
      <4>2. \A o \in Objs :
              /\ obj'[o].st = IF o = g.obj THEN "live" ELSE obj[o].st
              /\ obj'[o].legs = IF o = g.obj THEN obj[o].legs \cup {c}
                                ELSE obj[o].legs
        <5> TAKE o \in Objs
        <5>1. /\ obj'[o].st = os[o].st
              /\ obj'[o].legs = IF o = u.obj THEN os[o].legs \cup u.legs
                                ELSE os[o].legs
          BY <2>3
        <5>2. /\ os[o].st = IF o = g.obj THEN "live" ELSE obj[o].st
              /\ os[o].legs = obj[o].legs
          BY <1>4
        <5>3. QED
          BY <1>5, <5>1, <5>2
      <4>3. QED
        BY <3>1, <4>1, <4>2
    <3>6. QED
      BY <1>1, <1>7, <3>2, <3>3, <3>4, <3>5, SetLinks
  <2>6. StackShape' /\ ExitSets'
    BY <1>1, <2>1, <2>3 DEF StackShape, ExitSets, Quiet
  <2>7. QED
    BY <2>4, <2>5, <2>6 DEF PoolInv
<1>9. CASE ~(~TooMany(u, os) /\ valid /\ Ready(u))
  <2>1. Ready(u)
    BY <1>5 DEF Ready
  <2>2. /\ unl' = u /\ obj' = os /\ circ' = cs /\ lpool' = lpool
        /\ stk' = failed \/ stk' = <<Call("all", {})>> \o failed
    BY <1>2, <1>9, <2>1 DEF LinkCircuit
  <2>3. /\ failed \in Seq(CallRecord) /\ Quiet(failed) /\ failed # <<>>
        /\ Head(failed) = Call("close", {c})
    <3>1. Call("close", {c}) \in CallRecord /\ Call("close", {c}).op = "close"
      BY DEF Call, CallRecord
    <3>2. QED
      BY <1>0, <3>1 DEF Quiet
  <2>4. /\ stk' \in Seq(CallRecord) /\ Quiet(stk') /\ stk' # <<>>
        /\ Head(stk') = Call("close", {c}) \/ Head(stk').op = "all"
    <3>1. CASE stk' = failed
      BY <2>3, <3>1
    <3>2. CASE stk' = <<Call("all", {})>> \o failed
      <4>1. Call("all", {}).op = "all"
        BY DEF Call
      <4>2. QED
        BY <2>3, <3>2, <4>1, PushCall DEF Ops
    <3>3. QED
      BY <2>2, <3>1, <3>2
  <2>5. TypeOK'
    BY <1>1, <1>4, <1>5, <1>6, <2>2, <2>4 DEF PoolInv, TypeOK
  <2>6. Safe'
    <3>1. /\ Client /\ unl = NoSet /\ lpool = 0
               => \A d \in Circs : circ[d].cfx = 0
          /\ unl'.obj = GetOrCreate.obj
          /\ unl'.forLinked = GetOrCreate.forLinked
          /\ unl'.legs = GetOrCreate.legs \cup {c}
      BY <1>0, <1>1, <1>4, <1>5, <2>2
    <3>2. \A d \in Circs :
            IF d \in {c} THEN /\ circ'[d].st = "open" /\ circ'[d].pend
                              /\ circ'[d].cfx = 0
            ELSE circ'[d] = circ[d]
      BY <1>6, <2>2
    <3>3. \A o \in Objs :
            /\ obj'[o].st = IF o = GetOrCreate.obj THEN "live" ELSE obj[o].st
            /\ obj'[o].legs = obj[o].legs
      BY <1>0, <1>4, <2>2
    <3>4. UNCHANGED <<lpool, down>>
      BY <1>1, <2>2
    <3>5. QED
      BY <1>1, <1>7, <3>1, <3>2, <3>3, <3>4, Joins
  <2>7. StackShape' /\ ExitSets'
    BY <1>1, <1>5, <2>2, <2>4 DEF StackShape, ExitSets, Quiet, Idle
  <2>8. QED
    BY <2>5, <2>6, <2>7 DEF PoolInv
<1>10. QED
  BY <1>8, <1>9

-----------------------------------------------------------------------------
(* Freeing.                                                                 *)

\* The circuit that Gone leaves.
LEMMA GoneIs ==
  ASSUME TypeOK, NEW c \in Circs, circ' = Gone(c)
  PROVE  /\ circ' \in [Circs -> CircRecord]
         /\ circ'[c].st = "freed" /\ ~circ'[c].pend /\ circ'[c].cfx = 0
         /\ \A d \in Circs \ {c} : circ'[d] = circ[d]
  BY DEF TypeOK, Gone, CircRecord, Pointers

\* conflux_circuit_about_to_free, for a leg that was not linked.
LEMMA FreeUnlinkedKeeps ==
  ASSUME PoolAssumption, PoolInv, NEW c \in Circs, FreeUnlinked(c)
  PROVE  PoolInv'
<1>1. /\ Idle
      /\ circ[c].st = "marked" \/ (down /\ circ[c].st = "open")
      /\ circ[c].cfx = 0 /\ circ' = Gone(c)
      /\ UNCHANGED <<unl, lpool, obj, stk, mem, down>>
  BY DEF FreeUnlinked
<1>2. TypeOK /\ Safe
  BY DEF PoolInv
<1>3. /\ circ' \in [Circs -> CircRecord]
      /\ circ'[c].st = "freed" /\ ~circ'[c].pend /\ circ'[c].cfx = 0
      /\ \A d \in Circs \ {c} : circ'[d] = circ[d]
  BY <1>1, <1>2, GoneIs
<1>4. TypeOK'
  BY <1>1, <1>2, <1>3 DEF TypeOK
<1>5. Safe'
  BY <1>1, <1>2, <1>3, Forgotten
<1>6. StackShape' /\ ExitSets'
  BY <1>1 DEF PoolInv, StackShape, ExitSets, Idle, Quiet
<1>7. QED
  BY <1>4, <1>5, <1>6 DEF PoolInv

\* conflux_circuit_about_to_free, for a leg that was linked.
LEMMA FreeLinkedKeeps ==
  ASSUME PoolAssumption, PoolInv, NEW c \in Circs, FreeLinked(c)
  PROVE  PoolInv'
<1> DEFINE o == circ[c].cfx
<1>0. circ[c].cfx = o
  OBVIOUS
<1>1. /\ Idle /\ o # 0 /\ circ' = Gone(c)
      /\ circ[c].st = "marked" \/ down
      /\ UNCHANGED <<stk, mem, down>> /\ TypeOK /\ Safe
  BY DEF FreeLinked, PoolInv
<1>2. PICK busy \in BOOLEAN :
        LET os == [obj EXCEPT ![o] = Dropped(@, c, busy)]
        IN
        /\ lpool' = IF Last(o, c) THEN 0 ELSE lpool
        /\ unl' = IF Last(o, c) /\ unl # NoSet
                  THEN [unl EXCEPT !.forLinked = FALSE] ELSE unl
        /\ obj' = IF Last(o, c) /\ unl = NoSet THEN Freed(os, o) ELSE os
  BY DEF FreeLinked
<1>3. o \in Objs
  BY <1>1 DEF FreeLinked, TypeOK, CircRecord, Pointers
<1> HIDE DEF o
<1> DEFINE t == Dropped(obj[o], c, busy)
           os == [obj EXCEPT ![o] = t]
<1>4. obj' = IF Last(o, c) /\ unl = NoSet THEN Freed(os, o) ELSE os
  BY <1>2
<1>5. t \in ObjRecord /\ t.st = obj[o].st /\ t.legs = obj[o].legs \ {c}
  <2> DEFINE r == Without(obj[o], c, busy)
             torn == r.torn \/ Torn(obj[o], c, busy)
  <2>1. obj[o] \in ObjRecord
    BY <1>1, <1>3 DEF TypeOK
  <2>2. r \in ObjRecord /\ r.st = obj[o].st /\ r.legs = obj[o].legs \ {c}
    BY <2>1, Changed
  <2>3. t = [r EXCEPT !.torn = torn]
    BY DEF Dropped
  <2>4. torn \in BOOLEAN
    OBVIOUS
  <2> HIDE DEF r, torn
  <2>5. QED
    BY <2>2, <2>3, <2>4 DEF ObjRecord
<1> HIDE DEF t
<1>6. /\ os \in [Objs -> ObjRecord] /\ os[o] = t
      /\ \A p \in Objs \ {o} : os[p] = obj[p]
  BY <1>1, <1>3, <1>5 DEF TypeOK
<1> HIDE DEF os
<1>7. /\ obj' \in [Objs -> ObjRecord]
      /\ obj'[o].st = IF Last(o, c) /\ unl = NoSet THEN "freed" ELSE obj[o].st
      /\ obj'[o].legs = obj[o].legs \ {c}
      /\ \A p \in Objs \ {o} :
           obj'[p].st = obj[p].st /\ obj'[p].legs = obj[p].legs
  BY <1>3, <1>4, <1>5, <1>6 DEF Freed, ObjRecord
<1>8. /\ circ' \in [Circs -> CircRecord]
      /\ circ'[c].st = "freed" /\ ~circ'[c].pend /\ circ'[c].cfx = 0
      /\ \A d \in Circs \ {c} : circ'[d] = circ[d]
  BY <1>1, GoneIs
<1>9. /\ unl' \in SetRecord /\ unl'.obj = unl.obj /\ unl'.legs = unl.legs
      /\ unl'.forLinked = IF Last(o, c) /\ unl # NoSet THEN FALSE
                          ELSE unl.forLinked
      /\ unl = NoSet => unl' = NoSet
  BY <1>1, <1>2 DEF TypeOK, SetRecord
<1>10. ~Client => unl = NoSet
  BY <1>1 DEF PoolInv, ExitSets
<1>11. TypeOK'
  <2>1. lpool' \in Pointers
    BY <1>1, <1>2 DEF TypeOK, Pointers
  <2>2. QED
    BY <1>1, <1>7, <1>8, <1>9, <2>1 DEF TypeOK
<1>12. Safe'
  <2>1. lpool' = IF Last(o, c) THEN 0 ELSE lpool
    BY <1>2
  <2>2. QED
    BY <1>0, <1>1, <1>3, <1>7, <1>8, <1>9, <1>10, <2>1, LinkedFreed
<1>13. StackShape' /\ ExitSets'
  BY <1>1, <1>9, <1>10 DEF PoolInv, StackShape, ExitSets, Idle, Quiet
<1>14. QED
  BY <1>11, <1>12, <1>13 DEF PoolInv

\* When tor stops the pools hold what the circuits never came to: nothing is
\* in the linked pool by then, and the unlinked set has an object of its own.
LEMMA PoolFreeAllKeeps ==
  ASSUME PoolAssumption, PoolInv, PoolFreeAll
  PROVE  PoolInv'
<1>1. /\ Idle /\ \A c \in Circs : circ[c].st \in {"none", "freed"}
      /\ lpool # 0 \/ unl # NoSet
      /\ lpool' = 0 /\ unl' = NoSet /\ UNCHANGED <<circ, stk, mem, down>>
      /\ TypeOK /\ Safe
  BY DEF PoolFreeAll, PoolInv
<1>2. lpool = 0
  <2> SUFFICES ASSUME lpool # 0 PROVE FALSE
    OBVIOUS
  <2>1. lpool \in Objs /\ obj[lpool].legs # {}
    BY <1>1 DEF TypeOK, Pointers, Safe, PoolHasLegs
  <2>2. PICK c \in obj[lpool].legs : circ[c].st = "open"
    BY <1>1, <2>1 DEF Safe, LegsAreOpen
  <2>3. c \in Circs
    BY <1>1, <2>1 DEF TypeOK, ObjRecord
  <2>4. QED
    BY <1>1, <2>2, <2>3
<1>3. unl # NoSet /\ UNCHANGED lpool
  BY <1>1, <1>2
<1>4. obj' = FreedWith(obj, unl)
  BY <1>2, <1>3 DEF PoolFreeAll
<1>5. unl.obj \in Objs /\ unl.legs \in SUBSET Circs
  BY <1>1, <1>3 DEF Safe, NoDangling, Live, TypeOK, SetRecord
<1>6. /\ obj' \in [Objs -> ObjRecord]
      /\ \A o \in Objs :
           /\ obj'[o].st = IF o = unl.obj /\ ~unl.forLinked THEN "freed"
                           ELSE obj[o].st
           /\ obj'[o].legs = obj[o].legs
  BY <1>1, <1>4, <1>5, ZenonT(30) DEF TypeOK, FreedWith, Freed, ObjRecord
<1>7. TypeOK'
  BY <1>1, <1>3, <1>6, NoSetIs DEF TypeOK
<1>8. Safe'
  <2>1. \A c \in unl.legs \ {} : circ[c].st = "freed"
    BY <1>1, <1>5 DEF Safe, LegsArePending
  <2>2. /\ {} \in SUBSET Circs
        /\ \A c \in {} : circ[c].st = "open" /\ circ[c].pend
        /\ \A c \in Circs :
             IF c \in {} THEN /\ circ'[c].st = "marked" /\ ~circ'[c].pend
                              /\ circ'[c].cfx = 0
             ELSE circ'[c] = circ[c]
    BY <1>1
  <2>3. QED
    BY <1>1, <1>3, <1>6, <2>1, <2>2, SetGoes
<1>9. StackShape' /\ ExitSets'
  BY <1>1 DEF PoolInv, StackShape, ExitSets, Idle, Quiet
<1>10. QED
  BY <1>7, <1>8, <1>9 DEF PoolInv

-----------------------------------------------------------------------------
(* What starts a call, and what only sets a flag.                           *)

\* A client launches the legs of a new set.
LEMMA LaunchNewSetKeeps ==
  ASSUME PoolAssumption, PoolInv, LaunchNewSet
  PROVE  PoolInv'
<1>1. /\ Client /\ ~down /\ UNCHANGED <<circ, unl, lpool, obj, mem, down>>
      /\ \A o \in Objs : obj[o].st = "unused"
      /\ stk' = [i \in 1 .. NumLegs |-> Call("newset", {})]
      /\ TypeOK /\ Safe
  BY DEF LaunchNewSet, PoolInv
<1>2. lpool = 0 /\ \A c \in Circs : circ[c].cfx = 0
  BY <1>1 DEF Safe, NoDangling, Live
<1>3. /\ Call("newset", {}) \in CallRecord
      /\ Call("newset", {}).op = "newset"
  BY DEF Call, CallRecord
<1>4. /\ stk' \in Seq(CallRecord)
      /\ \A i \in 1 .. Len(stk') : stk'[i].op = "newset"
  BY <1>1, <1>3 DEF PoolAssumption
<1>5. TypeOK'
  BY <1>1, <1>4 DEF TypeOK
<1>6. Safe'
  BY <1>1, SameOwners
<1>7. StackShape' /\ ExitSets'
  BY <1>1, <1>2, <1>4 DEF StackShape, NewSetNext, ExitSets
<1>8. QED
  BY <1>5, <1>6, <1>7 DEF PoolInv

\* CONFLUX ADD finds its nonce on a circuit, so there is a set to add to.
LEMMA ControlAddKeeps ==
  ASSUME PoolAssumption, PoolInv, ControlAdd
  PROVE  PoolInv'
<1>1. /\ Client /\ ~down /\ stk' = <<Call("launch", {})>>
      /\ UNCHANGED <<circ, unl, lpool, obj, mem, down>> /\ TypeOK /\ Safe
  BY DEF ControlAdd, PoolInv
<1>2. PICK c \in Open : circ[c].pend \/ circ[c].cfx # 0
  BY DEF ControlAdd
<1>3. c \in Circs /\ circ[c].st = "open"
  BY DEF Open
<1>4. unl # NoSet \/ lpool # 0
  <2>1. CASE circ[c].pend
    BY <1>1, <1>3, <2>1, NoSetIs DEF Safe, LegsArePending
  <2>2. CASE circ[c].cfx # 0
    BY <1>1, <1>3, <2>2 DEF Safe, HoldersAreLast, OneObject
  <2>3. QED
    BY <1>2, <2>1, <2>2
<1>5. /\ Call("launch", {}) \in CallRecord
      /\ Call("launch", {}).op = "launch"
  BY DEF Call, CallRecord
<1>6. /\ stk' \in Seq(CallRecord) /\ stk' # <<>> /\ Quiet(Tail(stk'))
      /\ Head(stk').op = "launch"
  BY <1>1, <1>5 DEF Quiet
<1>7. TypeOK'
  BY <1>1, <1>6 DEF TypeOK
<1>8. Safe'
  BY <1>1, SameOwners
<1>9. StackShape' /\ ExitSets'
  BY <1>1, <1>4, <1>6 DEF StackShape, LaunchNext, ExitSets, Idle, Quiet
<1>10. QED
  BY <1>7, <1>8, <1>9 DEF PoolInv

\* circuit_mark_for_close.
LEMMA CloseCircuitKeeps ==
  ASSUME PoolAssumption, PoolInv, CloseCircuit
  PROVE  PoolInv'
<1>1. /\ Idle /\ ~down /\ UNCHANGED <<circ, unl, lpool, obj, mem, down>>
      /\ TypeOK /\ Safe
  BY DEF CloseCircuit, PoolInv
<1>2. PICK c \in Circs : stk' = <<Call("close", {c})>>
  BY DEF CloseCircuit, Open
<1>3. /\ Call("close", {c}) \in CallRecord
      /\ Call("close", {c}).op = "close"
  BY DEF Call, CallRecord
<1>4. stk' \in Seq(CallRecord) /\ Quiet(stk')
  BY <1>2, <1>3 DEF Quiet
<1>5. TypeOK'
  BY <1>1, <1>4 DEF TypeOK
<1>6. Safe'
  BY <1>1, SameOwners
<1>7. StackShape' /\ ExitSets'
  BY <1>1, <1>4 DEF PoolInv, StackShape, ExitSets, Quiet
<1>8. QED
  BY <1>5, <1>6, <1>7 DEF PoolInv

\* A stream uses a linked set.
LEMMA UseLegKeeps ==
  ASSUME PoolAssumption, PoolInv, UseLeg
  PROVE  PoolInv'
<1>1. /\ lpool # 0 /\ UNCHANGED <<circ, unl, lpool, stk, mem, down>>
      /\ TypeOK /\ Safe
  BY DEF UseLeg, PoolInv
<1>2. PICK c \in obj[lpool].legs : obj' = [obj EXCEPT ![lpool].curr = {c}]
  BY DEF UseLeg
<1>3. lpool \in Objs /\ c \in Circs
  BY <1>1 DEF TypeOK, Pointers, ObjRecord
<1>4. /\ obj' \in [Objs -> ObjRecord]
      /\ \A o \in Objs : obj'[o].st = obj[o].st /\ obj'[o].legs = obj[o].legs
  BY <1>1, <1>2, <1>3 DEF TypeOK, ObjRecord
<1>5. TypeOK'
  BY <1>1, <1>4 DEF TypeOK
<1>6. Safe'
  BY <1>1, <1>4, SameOwners
<1>7. StackShape' /\ ExitSets'
  BY <1>1 DEF PoolInv, StackShape, LaunchNext, NewSetNext, ExitSets, Idle,
              Quiet, Call
<1>8. QED
  BY <1>5, <1>6, <1>7 DEF PoolInv

\* Memory pressure comes and goes; tor begins to stop.
LEMMA FlagsKeep ==
  ASSUME PoolAssumption, PoolInv, MemoryPressure \/ Shutdown
  PROVE  PoolInv'
<1>1. /\ Idle /\ UNCHANGED <<circ, unl, lpool, obj, stk>> /\ (down => down')
      /\ mem' \in BOOLEAN /\ down' \in BOOLEAN /\ TypeOK /\ Safe
  BY DEF MemoryPressure, Shutdown, PoolInv, TypeOK
<1>2. TypeOK'
  BY <1>1 DEF TypeOK
<1>3. Safe'
  BY <1>1, SameOwners
<1>4. StackShape' /\ ExitSets'
  BY <1>1 DEF PoolInv, StackShape, ExitSets, Idle, Quiet
<1>5. QED
  BY <1>2, <1>3, <1>4 DEF PoolInv

-----------------------------------------------------------------------------
(* The theorems.                                                            *)

\* The pools are empty at the start, and sound.
LEMMA PoolInit ==
  ASSUME PoolAssumption, Init
  PROVE  PoolInv
<1>1. /\ unl = NoSet /\ lpool = 0 /\ stk = <<>> /\ mem = FALSE /\ down = FALSE
      /\ \A c \in Circs : circ[c].st = "none" /\ ~circ[c].pend
                          /\ circ[c].cfx = 0
      /\ circ \in [Circs -> CircRecord]
  BY DEF Init, CircRecord, Pointers
<1>2. /\ obj \in [Objs -> ObjRecord]
      /\ \A o \in Objs : obj[o].st = "unused" /\ obj[o].legs = {}
  BY DEF Init, NewObj, ObjRecord
<1>3. TypeOK
  <2>1. stk \in Seq(CallRecord) /\ lpool \in Pointers /\ unl \in SetRecord
    BY <1>1, NoSetIs DEF Pointers
  <2>2. mem \in BOOLEAN /\ down \in BOOLEAN
    BY <1>1
  <2>3. QED
    BY <1>1, <1>2, <2>1, <2>2 DEF TypeOK
<1>4. Safe
  BY <1>1, <1>2, NoSetIs
     DEF Safe, NoDangling, Owned, PoolHasLegs, SetHasObject, LegsAreOpen,
         LegsArePending, HoldersAreLast, Holder, Shares, OneObject, NotYet, Live
<1>5. StackShape /\ ExitSets
  BY <1>1 DEF StackShape, ExitSets, Idle, Quiet
<1>6. QED
  BY <1>3, <1>4, <1>5 DEF PoolInv

\* Every step keeps the invariant.
LEMMA PoolStep ==
  ASSUME PoolAssumption, PoolInv, [Next]_vars
  PROVE  PoolInv'
<1>1. CASE Calls
  <2>1. CASE LaunchRefused \/ LaunchLeg \/ LaunchFails
    BY <2>1, LaunchRefusedKeeps, LaunchLegKeeps, LaunchFailsKeeps
  <2>2. CASE MarkAll \/ MarkLinked
    BY <2>2, MarkAllKeeps, MarkLinkedKeeps
  <2>3. ASSUME NEW c \in Circs,
               CloseNothing(c) \/ CloseUnlinked(c) \/ CloseLinked(c) \/ Refill(c)
        PROVE  PoolInv'
    BY <2>3, CloseNothingKeeps, CloseUnlinkedKeeps, CloseLinkedKeeps,
       RefillKeeps
  <2>4. QED
    BY <1>1, <2>1, <2>2, <2>3 DEF Calls
<1>2. ASSUME NEW c \in Circs, ProcessLinked(c) \/ ProcessLink(c)
      PROVE  PoolInv'
  BY <1>2, ProcessLinkedKeeps, ProcessLinkKeeps
<1>3. ASSUME NEW c \in Circs, FreeUnlinked(c) \/ FreeLinked(c)
      PROVE  PoolInv'
  BY <1>3, FreeUnlinkedKeeps, FreeLinkedKeeps
<1>4. CASE LaunchNewSet \/ ControlAdd \/ CloseCircuit \/ UseLeg
  BY <1>4, LaunchNewSetKeeps, ControlAddKeeps, CloseCircuitKeeps, UseLegKeeps
<1>5. CASE MemoryPressure \/ Shutdown \/ PoolFreeAll
  BY <1>5, FlagsKeep, PoolFreeAllKeeps
<1>6. CASE UNCHANGED vars
  BY <1>6 DEF vars, PoolInv, TypeOK, ExitSets, StackShape, LaunchNext,
     NewSetNext, Quiet, Idle, Call, Safe, NoDangling, Owned, PoolHasLegs,
     SetHasObject, LegsAreOpen, LegsArePending, HoldersAreLast, Holder, Shares,
     OneObject, NotYet, Live, Held
<1>7. QED
  BY <1>1, <1>2, <1>3, <1>4, <1>5, <1>6 DEF Next

\* The inductive invariant holds throughout.
LEMMA PoolAlways ==
  ASSUME PoolAssumption
  PROVE  Spec => []PoolInv
<1>1. Init => PoolInv
  BY PoolInit
<1>2. PoolInv /\ [Next]_vars => PoolInv'
  BY PoolStep
<1>3. QED
  BY <1>1, <1>2, PTL DEF Spec

\* Ownership in conflux_pool.c, for any number of circuits, sets, legs and
\* launches, on a client or an exit, also under memory pressure and at shutdown:
\* no pointer is to a freed conflux_t, at any point of a recursive close; between
\* calls every live one has an owner, and the circuit that frees the last leg is
\* its only owner or hands it over to an unlinked set that says so.
THEOREM EveryObjectIsOwned ==
  ASSUME PoolAssumption
  PROVE  Spec => []Ownership
<1>1. PoolInv => Ownership
  <2> SUFFICES ASSUME PoolInv PROVE Ownership
    OBVIOUS
  <2>1. TypeOK /\ Safe
    BY DEF PoolInv
  <2>2. NoDangling /\ NoOrphan
    BY <2>1 DEF Safe, Owned, NoOrphan
  <2>3. OwnerAgrees
    <3> SUFFICES ASSUME Idle, NEW c \in Circs, circ[c].cfx # 0, unl # NoSet
                 PROVE  unl.obj = circ[c].cfx /\ unl.forLinked
      BY DEF OwnerAgrees
    <3>1. Client
      BY DEF PoolInv, ExitSets
    <3>2. QED
      BY <2>1, <3>1, LinkedLeg
  <2>4. SharedIsHeld
    <3> SUFFICES ASSUME Idle, unl # NoSet
                 PROVE  unl.forLinked <=> Held(unl.obj)
      BY DEF SharedIsHeld
    <3>1. ASSUME unl.forLinked PROVE Held(unl.obj)
      <4>1. unl.obj = lpool /\ lpool \in Objs /\ obj[lpool].legs # {}
        BY <2>1, <3>1 DEF Safe, Shares, NoDangling, Live, PoolHasLegs, TypeOK,
                          Pointers, PoolAssumption
      <4>2. PICK c \in obj[lpool].legs : circ[c].cfx = lpool
        BY <2>1, <4>1 DEF Safe, LegsAreOpen
      <4>3. c \in Circs
        BY <2>1, <4>1 DEF TypeOK, ObjRecord
      <4>4. QED
        BY <4>1, <4>2, <4>3 DEF Held
    <3>2. ASSUME ~unl.forLinked PROVE ~Held(unl.obj)
      BY <2>1, <3>2 DEF Safe, Shares
    <3>3. QED
      BY <3>1, <3>2
  <2>5. QED
    BY <2>2, <2>3, <2>4 DEF Ownership
<1>2. QED
  BY <1>1, PoolAlways, PTL

\* A set in the linked pool always has a leg, so that get_exit_for_nonce finds
\* its exit, and a circuit that was closed is in no set, linked or not.
THEOREM PoolsFollowCircuits ==
  ASSUME PoolAssumption
  PROVE  Spec => []PoolInStep
<1>1. PoolInv => PoolInStep
  BY DEF PoolInv, Safe, PoolInStep, ClosedIsOut, LegsAreOpen, LegsArePending
<1>2. QED
  BY <1>1, PoolAlways, PTL
=============================================================================
