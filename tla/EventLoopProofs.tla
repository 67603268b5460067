-------------------------- MODULE EventLoopProofs ---------------------------
(***************************************************************************)
(* Proofs about WorkQueue, for any number of workers, items and updates,   *)
(* and about ChannelSched, for every set of channels and all bounds.       *)
(***************************************************************************)
EXTENDS WorkQueue, ChannelSched, TLAPS, FiniteSetTheorems

-----------------------------------------------------------------------------
(* The locks: who is where.                                                 *)

Locked == {"take", "top", "check", "exit"}
Outside == {"start", "enter"}
Places == Locked \cup Outside \cup
          {"relock", "quit", "sleep", "wait", "work", "alert", "alertquit",
           "last", "done"}

LockTypes ==
  /\ lock \in Workers \cup {Main, Nobody} /\ ctl \in Workers \cup {Main, Nobody}
  /\ owner \in Workers \cup {Nobody} /\ running \in Nat
  /\ pc \in [Workers -> Places]
  /\ main \in {"waitstart", "starting", "run", "replies", "stopping", "freed"}

\* pool->lock is held exactly by the worker that is inside.
Inside == \A w \in Workers : lock = w <=> pc[w] \in Locked

\* Until threadpool_start_threads is done with them, no worker gets in.
Starting ==
  /\ main = "waitstart" =>
       lock = Main /\ owner = Nobody /\ \A w \in Workers : pc[w] \in Outside
  /\ main = "starting" => ctl = Main
  /\ main # "waitstart" => \A w \in Workers : pc[w] # "start"

\* The first worker in owns control_lock until it has done.
Owned ==
  /\ owner = Nobody => \A w \in Workers : pc[w] \in Outside \cup {"take"}
  /\ owner # Nobody => /\ \A w \in Workers : pc[w] # "take"
                       /\ pc[owner] \notin Outside
                       /\ ctl = owner \/ pc[owner] = "done"

\* The owner is the last to go.
LastOut ==
  \A w \in Workers :
    /\ pc[w] \in {"sleep", "last"} => owner = w
    /\ pc[w] = "last" \/ (pc[w] = "done" /\ owner = w)
         => \A v \in Workers \ {w} : pc[v] = "done"

\* n_worker_threads_running leaves the owner in the count.
Present == {w \in Workers : /\ pc[w] # "start"
                            /\ pc[w] # "done" \/ owner = w}
CountIsRight == running = Cardinality(Present)

\* threadpool_free_ waits for an owner.
FreeLate ==
  ~Prompt => /\ main \in {"stopping", "freed"} => owner # Nobody
             /\ main = "freed" => pc[owner] = "done"

LockInv == /\ LockTypes /\ Inside /\ Starting /\ Owned /\ LastOut
           /\ CountIsRight /\ FreeLate

\* The locks are free at the start.
LEMMA LockInit == ASSUME WorkAssumption, Init PROVE LockInv
<1>1. Present = {}
  BY DEF Init, Present
<1>2. CountIsRight
  BY <1>1, FS_EmptySet DEF Init, CountIsRight
<1> QED BY <1>2 DEF WorkAssumption, Init, LockInv, LockTypes, Inside, Starting,
      Owned, LastOut, FreeLate, Locked, Outside, Places, Main, Nobody

\* There are finitely many workers.
LEMMA PresentFinite ==
  ASSUME WorkAssumption
  PROVE  IsFiniteSet(Present) /\ Cardinality(Present) \in Nat
BY FS_Subset, FS_CardinalityType, Present \subseteq Workers DEF WorkAssumption, Present

\* A step of worker w that changes neither the owner nor the count.
LEMMA LockWorker ==
  ASSUME WorkAssumption, LockInv, NEW w \in Workers,
         Acquire(w) \/ Top(w) \/ Wait(w) \/ Update(w) \/ Extract(w) \/ Run(w)
         \/ Alert(w)
  PROVE  LockInv'
<1> USE DEF Locked, Outside, Places
<1>1. PICK l \in Places :
        /\ pc' = [pc EXCEPT ![w] = l]
        /\ UNCHANGED <<ctl, owner, running, main>>
  BY DEF Acquire, Top, Wait, Update, Extract, Run, Alert, To, locks
<1>2. /\ pc[w] \notin {"start", "take", "done", "last"}
      /\ l \notin {"start", "enter", "done", "last", "sleep"}
      /\ l = "take" <=> pc[w] = "enter" /\ owner = Nobody
  BY <1>1 DEF LockInv, LockTypes, Acquire, Top, Wait, Update, Extract, Run,
     Alert, To, locks
<1>3. /\ lock' \in Workers \cup {Main, Nobody}
      /\ \A v \in Workers : lock' = v <=> pc'[v] \in Locked
  BY <1>1, ZenonT(30) DEF WorkAssumption, LockInv, LockTypes, Inside, Acquire, Top, Wait,
     Update, Extract, Run, Alert, To, locks
<1>4. LockTypes' /\ Inside'
  BY <1>1, <1>3 DEF LockInv, LockTypes, Inside
<1>5. main # "waitstart"
  <2>1. CASE Acquire(w)
    BY <2>1 DEF Acquire, LockInv, Starting, Main, Nobody
  <2>2. CASE ~Acquire(w)
    BY <2>2 DEF LockInv, Starting, Top, Wait, Update, Extract, Run, Alert
  <2> QED BY <2>1, <2>2
<1>6. Starting'
  BY <1>1, <1>2, <1>5 DEF LockInv, LockTypes, Starting
<1>7. Owned'
  BY <1>1, <1>2 DEF LockInv, LockTypes, Owned
<1>8. LastOut'
  BY <1>1, <1>2 DEF LockInv, LockTypes, LastOut
<1>9. CountIsRight'
  <2>1. Present' = Present
    BY <1>1, <1>2 DEF LockInv, LockTypes, Present
  <2> QED BY <1>1, <2>1 DEF LockInv, CountIsRight
<1>10. FreeLate'
  BY <1>1, <1>2 DEF LockInv, LockTypes, FreeLate
<1> QED BY <1>4, <1>6, <1>7, <1>8, <1>9, <1>10 DEF LockInv

\* A worker begins.
LEMMA LockStart ==
  ASSUME WorkAssumption, LockInv, NEW w \in Workers, Start(w)
  PROVE  LockInv'
<1> USE DEF Locked, Outside, Places
<1>1. /\ pc[w] = "start" /\ pc' = [pc EXCEPT ![w] = "enter"]
      /\ running' = running + 1 /\ UNCHANGED <<lock, ctl, owner, main>>
  BY DEF Start, To
<1>2. main = "waitstart" /\ owner = Nobody
  BY <1>1 DEF LockInv, Starting
<1>3. CountIsRight'
  <2>1. Present' = Present \cup {w} /\ w \notin Present
    BY <1>1, <1>2 DEF WorkAssumption, LockInv, LockTypes, Present
  <2> QED BY <1>1, <2>1, PresentFinite, FS_AddElement
          DEF LockInv, CountIsRight
<1> QED BY <1>1, <1>2, <1>3 DEF WorkAssumption, LockInv, LockTypes, Inside,
      Starting, Owned, LastOut, FreeLate

\* A worker takes work.
LEMMA LockTake ==
  ASSUME WorkAssumption, LockInv, NEW w \in Workers, TakeControl(w)
  PROVE  LockInv'
<1> USE DEF Locked, Outside, Places
<1>1. /\ pc[w] = "take" /\ pc' = [pc EXCEPT ![w] = "top"]
      /\ ctl' = w /\ owner' = w /\ UNCHANGED <<lock, running, main>>
  BY DEF TakeControl, To
<1>2. /\ owner = Nobody /\ main # "waitstart" /\ ctl = Nobody
      /\ w # Nobody /\ Nobody # Main
  BY <1>1 DEF WorkAssumption, TakeControl, LockInv, Starting, Owned, Main, Nobody
<1>3. \A v \in Workers \ {w} : pc[v] \in Outside
  BY <1>1, <1>2 DEF LockInv, LockTypes, Inside, Owned
<1>4. CountIsRight'
  <2>1. Present' = Present
    BY <1>1, <1>2, <1>3 DEF WorkAssumption, LockInv, LockTypes, Present
  <2> QED BY <1>1, <2>1 DEF LockInv, CountIsRight
<1> QED BY <1>1, <1>2, <1>3, <1>4 DEF LockInv, LockTypes, Inside, Starting,
      Owned, LastOut, FreeLate

\* A worker leaves the pool.
LEMMA LockLeave ==
  ASSUME WorkAssumption, LockInv, NEW w \in Workers,
         Leave(w) \/ ReleaseControl(w)
  PROVE  LockInv'
<1> USE DEF Locked, Outside, Places
<1>1. Nobody # Main /\ Nobody \notin Workers /\ Main \notin Workers
  BY DEF WorkAssumption, Main, Nobody
<1>2. CASE Leave(w) /\ owner # w
  <2>1. /\ pc[w] = "exit" /\ pc' = [pc EXCEPT ![w] = "done"]
        /\ running' = running - 1 /\ lock' = Nobody
        /\ UNCHANGED <<ctl, owner, main>>
    BY <1>2 DEF Leave, To
  <2>2. main # "waitstart" /\ owner # Nobody
    BY <2>1 DEF LockInv, Starting, Owned
  <2>3. w \in Present /\ Present' = Present \ {w}
    BY <1>2, <2>1 DEF LockInv, LockTypes, Present
  <2>4. CountIsRight' /\ running' \in Nat
    <3>1. Cardinality(Present \ {w}) = Cardinality(Present) - 1
      BY <2>3, PresentFinite, FS_RemoveElement
    <3>2. Cardinality(Present) # 0
      BY <2>3, PresentFinite, FS_EmptySet
    <3>3. running = Cardinality(Present) /\ running \in Nat
      BY DEF LockInv, LockTypes, CountIsRight
    <3> QED BY <2>1, <2>3, <3>1, <3>2, <3>3 DEF CountIsRight
  <2>5. LockTypes' /\ Inside'
    BY <1>1, <2>1, <2>4 DEF LockInv, LockTypes, Inside
  <2>6. Starting'
    BY <1>1, <2>1, <2>2 DEF LockInv, LockTypes, Starting
  <2>7. Owned'
    BY <1>1, <1>2, <2>1, <2>2 DEF LockInv, LockTypes, Owned
  <2>8. LastOut'
    BY <1>1, <1>2, <2>1, <2>2 DEF LockInv, LockTypes, LastOut
  <2>9. FreeLate'
    BY <1>1, <1>2, <2>1, <2>2 DEF LockInv, LockTypes, FreeLate
  <2> QED BY <2>4, <2>5, <2>6, <2>7, <2>8, <2>9 DEF LockInv
<1>3. CASE Leave(w) /\ owner = w
  <2>1. PICK l \in {"sleep", "last"} :
          /\ pc[w] = "exit" /\ pc' = [pc EXCEPT ![w] = l]
          /\ l = "last" => ~(running > 1)
          /\ lock' = Nobody /\ UNCHANGED <<ctl, owner, main, running>>
    BY <1>3 DEF Leave, To
  <2>2. main # "waitstart" /\ ctl = w
    BY <1>1, <1>3, <2>1 DEF LockInv, Starting, Owned
  <2>3. w \in Present /\ Present' = Present
    BY <1>3, <2>1 DEF LockInv, LockTypes, Present
  <2>4. ASSUME l = "last", NEW v \in Workers \ {w} PROVE pc[v] = "done"
    <3>1. Cardinality(Present) = 1
      BY <2>1, <2>3, <2>4, PresentFinite, FS_EmptySet
      DEF LockInv, CountIsRight
    <3>2. v \notin Present
      BY <2>3, <2>4, <3>1, PresentFinite, FS_Singleton
    <3> QED BY <1>3, <2>2, <3>2 DEF LockInv, Starting, Present
  <2>5. CountIsRight'
    BY <2>1, <2>3 DEF LockInv, CountIsRight
  <2>6. LockTypes' /\ Inside'
    BY <1>1, <2>1 DEF LockInv, LockTypes, Inside
  <2>7. Starting'
    BY <1>1, <2>1, <2>2 DEF LockInv, LockTypes, Starting
  <2>8. Owned'
    BY <1>1, <1>3, <2>1, <2>2 DEF LockInv, LockTypes, Owned
  <2>9. LastOut'
    BY <1>1, <1>3, <2>1, <2>4 DEF LockInv, LockTypes, LastOut
  <2>10. FreeLate'
    BY <1>1, <1>3, <2>1, <2>2 DEF LockInv, LockTypes, FreeLate
  <2> QED BY <2>5, <2>6, <2>7, <2>8, <2>9, <2>10 DEF LockInv
<1>4. CASE ReleaseControl(w)
  <2>1. /\ pc[w] = "last" /\ pc' = [pc EXCEPT ![w] = "done"]
        /\ ctl' = Nobody /\ UNCHANGED <<lock, owner, main, running>>
    BY <1>4 DEF ReleaseControl, To
  <2>2. owner = w /\ \A v \in Workers \ {w} : pc[v] = "done"
    BY <2>1 DEF LockInv, LastOut
  <2>3. main # "waitstart" /\ main # "starting"
    BY <1>1, <2>1, <2>2 DEF LockInv, Starting, Owned
  <2>4. Present' = Present
    BY <2>1, <2>2 DEF LockInv, LockTypes, Present
  <2>5. CountIsRight'
    BY <2>1, <2>4 DEF LockInv, CountIsRight
  <2> QED BY <1>1, <2>1, <2>2, <2>3, <2>5 DEF LockInv, LockTypes, Inside,
        Starting, Owned, LastOut, FreeLate
<1> QED BY <1>2, <1>3, <1>4

\* The main thread.
LEMMA LockMain ==
  ASSUME WorkAssumption, LockInv,
         \/ MainSteps \/ QueueUpdate \/ Stop \/ UNCHANGED vars
         \/ \E i \in Items : QueueWork(i) \/ Cancel(i)
  PROVE  LockInv'
<1> USE DEF Locked, Outside, Places
<1>1. Nobody # Main /\ Nobody \notin Workers /\ Main \notin Workers
  BY DEF WorkAssumption, Main, Nobody
<1>2. CASE Started
  <2>1. /\ main = "waitstart" /\ main' = "starting" /\ lock' = Nobody
        /\ ctl' = Main /\ UNCHANGED <<owner, running, pc>>
        /\ running = Cardinality(Workers)
    BY <1>2 DEF Started
  <2>2. Present = Workers
    BY <2>1, FS_Subset, Present \subseteq Workers
    DEF WorkAssumption, LockInv, CountIsRight, Present
  <2>3. Present' = Present
    BY <2>1 DEF Present
  <2>4. CountIsRight'
    BY <2>1, <2>3 DEF LockInv, CountIsRight
  <2>5. \A w \in Workers : pc[w] = "enter"
    BY <2>1, <2>2 DEF LockInv, Starting, Present
  <2> QED BY <1>1, <2>1, <2>4, <2>5 DEF LockInv, LockTypes, Inside, Starting,
        Owned, LastOut, FreeLate
<1>3. ASSUME UNCHANGED <<lock, owner, running, pc>>,
             main # "waitstart" /\ main' # "waitstart",
             main' \in {"starting", "run", "replies", "stopping", "freed"},
             ctl' = ctl \/ (main = "starting" /\ ctl' = Nobody),
             main' = "starting" => main = "starting" /\ ctl' = ctl,
             main' = "stopping" /\ ~Prompt => owner # Nobody,
             main' = "freed" => main = "freed" \/ (main = "stopping" /\ ctl = Nobody)
      PROVE  LockInv'
  <2>1. Present' = Present
    BY <1>3 DEF Present
  <2>2. CountIsRight'
    BY <1>3, <2>1 DEF LockInv, CountIsRight
  <2>3. Starting' /\ Inside' /\ LastOut' /\ LockTypes'
    BY <1>3 DEF LockInv, LockTypes, Inside, Starting, LastOut
  <2>4. Owned'
    BY <1>1, <1>3 DEF LockInv, LockTypes, Starting, Owned
  <2>5. FreeLate'
    BY <1>1, <1>3 DEF LockInv, LockTypes, FreeLate, Owned
  <2> QED BY <2>2, <2>3, <2>4, <2>5 DEF LockInv
<1>4. CASE StartReturns
  BY <1>3, <1>4 DEF StartReturns
<1>5. CASE FreePool
  BY <1>3, <1>5 DEF FreePool, locks
<1>6. CASE Stop
  BY <1>3, <1>6 DEF Stop, locks
<1>7. CASE Drain \/ RepliesDone
  BY <1>3, <1>7 DEF Drain, RepliesDone, locks
<1>8. CASE \/ Reply \/ QueueUpdate \/ UNCHANGED vars
           \/ \E i \in Items : QueueWork(i) \/ Cancel(i)
  <2>1. UNCHANGED <<locks, main, pc>>
    BY <1>8 DEF Reply, QueueUpdate, vars, QueueWork, Cancel
  <2>2. CASE main = "waitstart"
    <3>1. Present' = Present
      BY <2>1 DEF Present, locks
    <3> QED BY <2>1, <3>1 DEF locks, LockInv, LockTypes, Inside, Starting,
          Owned, LastOut, CountIsRight, FreeLate
  <2>3. CASE main # "waitstart"
    BY <1>3, <2>1, <2>3 DEF locks, LockInv, LockTypes, FreeLate
  <2> QED BY <2>2, <2>3
<1> QED BY <1>2, <1>4, <1>5, <1>6, <1>7, <1>8 DEF MainSteps

\* Every step preserves what the locks protect.
LEMMA LockStep ==
  ASSUME WorkAssumption, LockInv, [Next]_vars
  PROVE  LockInv'
BY LockWorker, LockStart, LockTake, LockLeave, LockMain DEF Next, Worker

-----------------------------------------------------------------------------
(* The queues: where an entry can be.                                       *)

Distinct(s) == \A a, b \in 1 .. Len(s) : s[a] = s[b] => a = b

\* TOR_TAILQ_INSERT_TAIL of an entry the queue does not hold.
LEMMA QueueAppend ==
  ASSUME NEW s \in Seq(Items), NEW i \in Items
  PROVE  /\ Append(s, i) \in Seq(Items)
         /\ In(Append(s, i)) = In(s) \cup {i}
         /\ Distinct(s) /\ i \notin In(s) => Distinct(Append(s, i))
<1>1. /\ Append(s, i) \in Seq(Items) /\ Len(Append(s, i)) = Len(s) + 1
      /\ Len(s) \in Nat
      /\ \A n \in 1 .. Len(s) : Append(s, i)[n] = s[n]
      /\ Append(s, i)[Len(s) + 1] = i
  OBVIOUS
<1> DEFINE t == Append(s, i)
<1> HIDE DEF t
<1>2. In(t) = In(s) \cup {i}
  <2>1. \A x : x \in In(t) <=> x \in In(s) \cup {i}
    BY <1>1 DEF t, In
  <2> QED BY <2>1
<1>3. ASSUME Distinct(s), i \notin In(s) PROVE Distinct(t)
  BY <1>1, <1>3 DEF t, In, Distinct
<1> QED BY <1>1, <1>2, <1>3 DEF t

\* TOR_TAILQ_REMOVE of the first entry.
LEMMA QueueTail ==
  ASSUME NEW s \in Seq(Items), s # <<>>, Distinct(s)
  PROVE  /\ Head(s) \in In(s) /\ Tail(s) \in Seq(Items)
         /\ In(Tail(s)) = In(s) \ {Head(s)} /\ Distinct(Tail(s))
<1>1. /\ Len(s) \in Nat /\ Len(s) # 0 /\ Head(s) = s[1]
      /\ Tail(s) \in Seq(Items) /\ Len(Tail(s)) = Len(s) - 1
      /\ \A n \in 1 .. Len(s) - 1 : Tail(s)[n] = s[n + 1]
  OBVIOUS
<1> DEFINE t == Tail(s)
<1> HIDE DEF t
<1>2. \A x : x \in In(t) => x \in In(s) /\ x # Head(s)
  BY <1>1 DEF t, In, Distinct
<1>3. ASSUME NEW x \in In(s), x # Head(s) PROVE x \in In(t)
  <2>1. PICK n \in 1 .. Len(s) : s[n] = x
    BY DEF In
  <2>2. n - 1 \in 1 .. Len(s) - 1 /\ t[n - 1] = s[(n - 1) + 1]
    BY <1>1, <1>3, <2>1 DEF t
  <2> QED BY <1>1, <2>1, <2>2 DEF t, In
<1>4. Distinct(t)
  BY <1>1 DEF t, Distinct
<1>5. In(t) = In(s) \ {Head(s)}
  <2>1. \A x : x \in In(t) <=> x \in In(s) \ {Head(s)}
    BY <1>2, <1>3
  <2> QED BY <2>1
<1>6. Head(s) \in In(s)
  BY <1>1 DEF In
<1> QED BY <1>1, <1>4, <1>5, <1>6 DEF t

\* TOR_TAILQ_REMOVE of any entry.
LEMMA QueueRemoved ==
  ASSUME NEW s \in Seq(Items), NEW i, Distinct(s)
  PROVE  /\ Removed(s, i) \in Seq(Items)
         /\ In(Removed(s, i)) = In(s) \ {i} /\ Distinct(Removed(s, i))
<1>1. CASE i \notin In(s)
  BY <1>1 DEF Removed
<1>2. CASE i \in In(s)
  <2> DEFINE k == CHOOSE n \in 1 .. Len(s) : s[n] = i
             t == [n \in 1 .. Len(s) - 1 |-> IF n < k THEN s[n] ELSE s[n + 1]]
  <2>1. k \in 1 .. Len(s) /\ s[k] = i
    BY <1>2 DEF In
  <2>2. Removed(s, i) = t
    BY <1>2 DEF Removed
  <2> HIDE DEF k
  <2>3. Len(s) - 1 \in Nat /\ Len(s) \in Nat
    BY <2>1
  <2>4. t \in Seq(Items) /\ Len(t) = Len(s) - 1
    BY <2>1, <2>3
  <2>5. \A n \in 1 .. Len(s) - 1 : t[n] = IF n < k THEN s[n] ELSE s[n + 1]
    OBVIOUS
  <2> HIDE DEF t
  <2>6. \A x : x \in In(t) => x \in In(s) /\ x # i
    BY <2>1, <2>3, <2>4, <2>5 DEF In, Distinct
  <2>7. ASSUME NEW x \in In(s), x # i PROVE x \in In(t)
    <3>1. PICK n \in 1 .. Len(s) : s[n] = x
      BY DEF In
    <3>2. CASE n < k
      BY <2>1, <2>3, <2>4, <2>5, <3>1, <3>2 DEF In
    <3>3. CASE ~(n < k)
      <4>1. n - 1 \in 1 .. Len(s) - 1 /\ ~(n - 1 < k) /\ (n - 1) + 1 = n
        BY <2>1, <2>3, <2>7, <3>1, <3>3
      <4>2. t[n - 1] = x
        BY <2>5, <3>1, <4>1
      <4> QED BY <2>4, <4>1, <4>2 DEF In
    <3> QED BY <3>2, <3>3
  <2>8. Distinct(t)
    BY <2>1, <2>3, <2>4, <2>5 DEF Distinct
  <2>9. In(t) = In(s) \ {i}
    <3>1. \A x : x \in In(t) <=> x \in In(s) \ {i}
      BY <2>6, <2>7
    <3> QED BY <3>1
  <2> QED BY <2>2, <2>4, <2>8, <2>9
<1> QED BY <1>1, <1>2

QueueTypes ==
  /\ work \in [1 .. 2 -> Seq(Items)] /\ answers \in Seq(Items)
  /\ item \in [Items -> {"new", "live", "freed"}]
  /\ cur \in [Workers -> SUBSET Items] /\ pending \in SUBSET Items

\* No queue holds an entry twice, and an entry is in one place.
OnePlace ==
  /\ Distinct(work[1]) /\ Distinct(work[2]) /\ Distinct(answers)
  /\ In(work[1]) \cap In(work[2]) = {}
  /\ In(answers) \cap (In(work[1]) \cup In(work[2])) = {}
  /\ \A w \in Workers :
       /\ cur[w] \cap (In(work[1]) \cup In(work[2]) \cup In(answers)) = {}
       /\ \A v \in Workers \ {w} : cur[w] \cap cur[v] = {}

\* Only entries that are live are in a place, and pending ones are queued.
Placed ==
  /\ \A i \in In(work[1]) \cup In(work[2]) \cup In(answers) : item[i] = "live"
  /\ \A w \in Workers : \A i \in cur[w] : item[i] = "live"
  /\ pending \subseteq In(work[1]) \cup In(work[2])

QueueInv == QueueTypes /\ OnePlace /\ Placed

\* The queues are empty at the start.
LEMMA QueueInit == ASSUME WorkAssumption, Init PROVE QueueInv
<1>1. work = [p \in 1 .. 2 |-> <<>>]
  BY DEF Init
<1>2. work[1] = <<>> /\ work[2] = <<>> /\ answers = <<>>
  BY <1>1 DEF Init
<1>3. In(<<>>) = {} /\ Distinct(<<>>)
  BY DEF In, Distinct
<1>4. QueueTypes
  <2>1. <<>> \in Seq(Items)
    OBVIOUS
  <2>2. work \in [1 .. 2 -> Seq(Items)]
    BY <1>1, <2>1
  <2> QED BY <2>1, <2>2 DEF Init, QueueTypes
<1> QED BY <1>2, <1>3, <1>4 DEF Init, QueueInv, OnePlace, Placed

\* Extract
LEMMA QueueExtract ==
  ASSUME QueueInv, NEW w \in Workers, Extract(w)
  PROVE  QueueInv'
<1>1. PICK p \in 1 .. 2 :
        /\ work[p] # <<>>
        /\ cur' = [cur EXCEPT ![w] = {Head(work[p])}]
        /\ work' = [work EXCEPT ![p] = Tail(@)]
        /\ pending' = pending \ {Head(work[p])}
        /\ UNCHANGED <<item, answers>>
  BY DEF Extract, Taken
<1> DEFINE h == Head(work[p])
<1>2. p \in {1, 2} /\ work[p] \in Seq(Items) /\ Distinct(work[p])
  BY DEF QueueInv, QueueTypes, OnePlace
<1>3. /\ h \in In(work[p]) /\ Tail(work[p]) \in Seq(Items)
      /\ In(Tail(work[p])) = In(work[p]) \ {h} /\ Distinct(Tail(work[p]))
  BY <1>1, <1>2, QueueTail
<1>4. h \in Items
  BY <1>1, <1>2
<1> HIDE DEF h
<1>5. /\ work' \in [1 .. 2 -> Seq(Items)] /\ Distinct(work'[1])
      /\ Distinct(work'[2])
      /\ \A l \in {1, 2} : In(work'[l]) = IF l = p THEN In(work[l]) \ {h}
                                          ELSE In(work[l])
  <2> DEFINE t == Tail(work[p])
  <2>1. work \in [1 .. 2 -> Seq(Items)] /\ Distinct(work[1]) /\ Distinct(work[2])
    BY DEF QueueInv, QueueTypes, OnePlace
  <2>2. t \in Seq(Items) /\ In(t) = In(work[p]) \ {h} /\ Distinct(t)
    BY <1>3
  <2>3. work' = [work EXCEPT ![p] = t]
    BY <1>1
  <2> HIDE DEF t
  <2>4. \A l \in {1, 2} : work'[l] = IF l = p THEN t ELSE work[l]
    BY <2>1, <2>3
  <2>5. work' \in [1 .. 2 -> Seq(Items)]
    BY <2>1, <2>2, <2>3
  <2> QED BY <1>2, <2>1, <2>2, <2>4, <2>5
<1>6. \A v \in Workers : cur'[v] = IF v = w THEN {h} ELSE cur[v]
  BY <1>1 DEF QueueInv, QueueTypes, h
<1>7. QueueTypes'
  BY <1>1, <1>4, <1>5 DEF QueueInv, QueueTypes, h
<1>8. OnePlace'
  <2> DEFINE A == In(work[1])
             B == In(work[2])
             C == In(answers)
  <2>1. /\ h \in A \cup B /\ C' = C /\ Distinct(answers')
        /\ (A' = A \ {h} /\ B' = B /\ h \in A) \/ (B' = B \ {h} /\ A' = A /\ h \in B)
    BY <1>1, <1>2, <1>3, <1>5 DEF QueueInv, OnePlace
  <2>2. /\ A \cap B = {} /\ C \cap (A \cup B) = {}
        /\ \A v \in Workers : cur[v] \cap (A \cup B \cup C) = {}
        /\ \A v, u \in Workers : u # v => cur[v] \cap cur[u] = {}
    BY DEF QueueInv, OnePlace
  <2> HIDE DEF A, B, C
  <2>3. /\ A' \cap B' = {} /\ C' \cap (A' \cup B') = {}
        /\ h \notin A' \cup B' \cup C'
        /\ A' \cup B' \subseteq A \cup B
    BY <2>1, <2>2
  <2>4. ASSUME NEW v \in Workers
        PROVE  /\ cur'[v] \cap (A' \cup B' \cup C') = {}
               /\ \A u \in Workers \ {v} : cur'[v] \cap cur'[u] = {}
    BY <1>6, <2>1, <2>2, <2>3
  <2> QED BY <1>5, <2>1, <2>3, <2>4 DEF OnePlace, A, B, C
<1>9. Placed'
  BY <1>1, <1>2, <1>3, <1>5, <1>6 DEF QueueInv, Placed, h
<1> QED BY <1>7, <1>8, <1>9 DEF QueueInv

\* Run, with queue_reply
LEMMA QueueRun ==
  ASSUME QueueInv, NEW w \in Workers, Run(w)
  PROVE  QueueInv'
<1>1. PICK i \in cur[w] : /\ answers' = Append(answers, i)
                          /\ cur' = [cur EXCEPT ![w] = {}]
                          /\ UNCHANGED <<work, item, pending>>
  BY DEF Run
<1>2. i \in Items /\ i \notin In(answers)
  BY DEF QueueInv, QueueTypes, OnePlace
<1>3. /\ answers' \in Seq(Items) /\ In(answers') = In(answers) \cup {i}
      /\ Distinct(answers')
  BY <1>1, <1>2, QueueAppend DEF QueueInv, QueueTypes, OnePlace
<1>4. \A v \in Workers : cur'[v] = IF v = w THEN {} ELSE cur[v]
  BY <1>1 DEF QueueInv, QueueTypes
<1>5. QueueTypes'
  BY <1>1, <1>3 DEF QueueInv, QueueTypes
<1>6. OnePlace'
  BY <1>1, <1>3, <1>4 DEF QueueInv, OnePlace
<1>7. Placed'
  BY <1>1, <1>3, <1>4 DEF QueueInv, Placed
<1> QED BY <1>5, <1>6, <1>7 DEF QueueInv

\* threadpool_queue_work_priority
LEMMA QueueQueue ==
  ASSUME WorkAssumption, QueueInv, NEW i \in Items, QueueWork(i)
  PROVE  QueueInv'
<1>1. /\ item[i] = "new" /\ item' = [item EXCEPT ![i] = "live"]
      /\ pending' = pending \cup {i}
      /\ work' = [p \in 1 .. 2 |-> IF i \in Prios[p] THEN Append(work[p], i)
                                   ELSE work[p]]
      /\ UNCHANGED <<answers, cur>>
  BY DEF QueueWork
<1>2. /\ i \notin In(work[1]) \cup In(work[2]) \cup In(answers)
      /\ \A w \in Workers : i \notin cur[w]
  BY <1>1 DEF QueueInv, Placed
<1>3. Prios[1] = Items \ Low /\ Prios[2] = Low
  BY DEF Prios
<1>4. work[1] \in Seq(Items) /\ work[2] \in Seq(Items)
  BY DEF QueueInv, QueueTypes
<1>5. PICK p \in {1, 2} : \A l \in {1, 2} : i \in Prios[l] <=> l = p
  BY <1>3
<1>6. /\ \A l \in {1, 2} : In(work'[l]) = IF l = p THEN In(work[l]) \cup {i}
                                          ELSE In(work[l])
      /\ Distinct(work'[1]) /\ Distinct(work'[2])
      /\ work'[1] \in Seq(Items) /\ work'[2] \in Seq(Items)
  <2>1. \A l \in {1, 2} : work'[l] = IF l = p THEN Append(work[l], i)
                                     ELSE work[l]
    BY <1>1, <1>5
  <2>2. work[p] \in Seq(Items) /\ Distinct(work[p]) /\ i \notin In(work[p])
    BY <1>2, <1>4 DEF QueueInv, OnePlace
  <2>3. /\ In(work'[p]) = In(work[p]) \cup {i} /\ work'[p] \in Seq(Items)
        /\ Distinct(work'[p])
    BY <2>1, <2>2, QueueAppend
  <2> QED BY <1>4, <2>1, <2>3 DEF QueueInv, OnePlace
<1>7. QueueTypes'
  <2>1. work' \in [1 .. 2 -> Seq(Items)]
    BY <1>1, <1>4
  <2> QED BY <1>1, <2>1 DEF QueueInv, QueueTypes
<1>8. OnePlace'
  BY <1>1, <1>2, <1>6 DEF QueueInv, OnePlace
<1>9. Placed'
  <2>1. \A j \in Items : item'[j] = IF j = i THEN "live" ELSE item[j]
    BY <1>1 DEF QueueInv, QueueTypes
  <2>2. \A w \in Workers : cur[w] \subseteq Items
    BY DEF QueueInv, QueueTypes
  <2>3. In(work[1]) \cup In(work[2]) \cup In(answers) \subseteq Items
    BY <1>4 DEF QueueInv, QueueTypes, In
  <2> QED BY <1>1, <1>5, <1>6, <2>1, <2>2, <2>3 DEF QueueInv, Placed
<1> QED BY <1>7, <1>8, <1>9 DEF QueueInv

\* workqueue_entry_cancel
LEMMA QueueCancel ==
  ASSUME QueueInv, NEW i \in Items, Cancel(i)
  PROVE  QueueInv'
<1>1. /\ i \in pending /\ item' = [item EXCEPT ![i] = "freed"]
      /\ pending' = pending \ {i}
      /\ work' = [p \in 1 .. 2 |-> Removed(work[p], i)]
      /\ UNCHANGED <<answers, cur>>
  BY DEF Cancel
<1>2. i \notin In(answers) /\ \A w \in Workers : i \notin cur[w]
  BY <1>1 DEF QueueInv, OnePlace, Placed
<1>3. work[1] \in Seq(Items) /\ work[2] \in Seq(Items)
  BY DEF QueueInv, QueueTypes
<1>4. /\ In(work'[1]) = In(work[1]) \ {i} /\ In(work'[2]) = In(work[2]) \ {i}
      /\ Distinct(work'[1]) /\ Distinct(work'[2])
      /\ work'[1] \in Seq(Items) /\ work'[2] \in Seq(Items)
  <2>1. work'[1] = Removed(work[1], i) /\ work'[2] = Removed(work[2], i)
    BY <1>1
  <2> QED BY <1>3, <2>1, QueueRemoved DEF QueueInv, OnePlace
<1>5. QueueTypes'
  <2>1. work' \in [1 .. 2 -> Seq(Items)]
    BY <1>1, <1>4
  <2> QED BY <1>1, <2>1 DEF QueueInv, QueueTypes
<1>6. OnePlace'
  BY <1>1, <1>2, <1>4 DEF QueueInv, OnePlace
<1>7. Placed'
  <2>1. \A j \in Items : item'[j] = IF j = i THEN "freed" ELSE item[j]
    BY <1>1 DEF QueueInv, QueueTypes
  <2>2. \A w \in Workers : cur[w] \subseteq Items
    BY DEF QueueInv, QueueTypes
  <2>3. In(work[1]) \cup In(work[2]) \cup In(answers) \subseteq Items
    BY <1>3 DEF QueueInv, QueueTypes, In
  <2> QED BY <1>1, <1>2, <1>4, <2>1, <2>2, <2>3 DEF QueueInv, Placed
<1> QED BY <1>5, <1>6, <1>7 DEF QueueInv

\* replyqueue_process
LEMMA QueueReply == ASSUME QueueInv, Reply PROVE QueueInv'
<1> DEFINE h == Head(answers)
<1>1. /\ answers # <<>> /\ item' = [item EXCEPT ![h] = "freed"]
      /\ answers' = Tail(answers) /\ UNCHANGED <<work, pending, cur>>
  BY DEF Reply
<1>2. /\ h \in In(answers) /\ answers' \in Seq(Items)
      /\ In(answers') = In(answers) \ {h} /\ Distinct(answers')
  BY <1>1, QueueTail DEF QueueInv, QueueTypes, OnePlace
<1> HIDE DEF h
<1>3. QueueTypes'
  BY <1>1, <1>2 DEF QueueInv, QueueTypes
<1>4. OnePlace'
  BY <1>1, <1>2 DEF QueueInv, OnePlace
<1>5. Placed'
  <2>1. \A j \in Items : item'[j] = IF j = h THEN "freed" ELSE item[j]
    BY <1>1 DEF QueueInv, QueueTypes
  <2>2. \A w \in Workers : cur[w] \subseteq Items
    BY DEF QueueInv, QueueTypes
  <2>3. In(work[1]) \cup In(work[2]) \cup In(answers) \subseteq Items
    BY DEF QueueInv, QueueTypes, In
  <2>4. /\ h \notin In(work[1]) \cup In(work[2])
        /\ \A w \in Workers : h \notin cur[w]
    BY <1>2 DEF QueueInv, OnePlace
  <2> QED BY <1>1, <1>2, <2>1, <2>2, <2>3, <2>4 DEF QueueInv, Placed
<1> QED BY <1>3, <1>4, <1>5 DEF QueueInv

\* Every step preserves the queues.
LEMMA QueueStep ==
  ASSUME WorkAssumption, QueueInv, [Next]_vars
  PROVE  QueueInv'
<1>1. ASSUME UNCHANGED <<work, item, pending, answers, cur>> PROVE QueueInv'
  BY <1>1 DEF QueueInv, QueueTypes, OnePlace, Placed
<1>2. ASSUME NEW w \in Workers, Worker(w) PROVE QueueInv'
  <2>1. CASE \/ Start(w) \/ Acquire(w) \/ TakeControl(w) \/ Top(w) \/ Wait(w)
             \/ Update(w) \/ Alert(w) \/ Leave(w) \/ ReleaseControl(w)
    <3>1. UNCHANGED <<work, item, pending, answers, cur>>
      BY <2>1 DEF Start, Acquire, TakeControl, Top, Wait, Update, Alert, Leave,
         ReleaseControl, queues
    <3> QED BY <1>1, <3>1
  <2> QED BY <1>2, <2>1, QueueExtract, QueueRun DEF Worker
<1>3. CASE \/ Started \/ StartReturns \/ Drain \/ RepliesDone \/ FreePool
           \/ QueueUpdate \/ Stop \/ UNCHANGED vars
  <2>1. UNCHANGED <<work, item, pending, answers, cur>>
    BY <1>3 DEF Started, StartReturns, Drain, RepliesDone, FreePool,
       QueueUpdate, Stop, queues, vars
  <2> QED BY <1>1, <2>1
<1> QED BY <1>2, <1>3, QueueReply, QueueQueue, QueueCancel DEF Next, MainSteps

-----------------------------------------------------------------------------
\* threadpool_free_ and workqueue_entry_free never free what is in use: an
\* entry that is freed is on no queue and run by no worker, and when the
\* workers have begun before they are stopped, the pool is freed only after
\* the last of them has gone.
THEOREM FreedUnused ==
  ASSUME WorkAssumption
  PROVE  Spec => []FreedIsUnused
<1>1. Init => LockInv /\ QueueInv
  BY LockInit, QueueInit
<1>2. LockInv /\ QueueInv /\ [Next]_vars => LockInv' /\ QueueInv'
  BY LockStep, QueueStep
<1>3. LockInv /\ QueueInv => FreedIsUnused
  <2>1. ASSUME QueueInv PROVE EntriesUnused
    BY <2>1 DEF QueueInv, QueueTypes, Placed, EntriesUnused
  <2>2. ASSUME LockInv, ~Prompt PROVE StopWaits
    BY <2>2 DEF LockInv, LockTypes, FreeLate, LastOut, StopWaits
  <2> QED BY <2>1, <2>2 DEF FreedIsUnused
<1> QED BY <1>1, <1>2, <1>3, PTL DEF Spec

-----------------------------------------------------------------------------
(* The cell scheduler. *)

Lives == {"opening", "open", "closing", "finished", "freed"}
States == {"idle", "waitCells", "waitWrite", "pending"}
Stages == {"off", "pick", "write", "flush", "serve", "decide", "rest"}

SchedTypes ==
  /\ life \in [Chan -> Lives]
  /\ conn \in [Chan -> BOOLEAN]
  /\ q \in [sched : [Chan -> States], heap : SUBSET Chan, ev : BOOLEAN]
  /\ cells \in [Chan -> Nat]
  /\ outbuf \in [Chan -> Nat]
  /\ run \in [pc : Stages, cur : Chan \cup {None}, prev : Chan \cup {None},
              table : SUBSET Chan, readd : SUBSET Chan]

\* A run has popped a channel and has not decided about it.
Busy == run.pc \in {"write", "flush", "serve", "decide"}

\* A channel has its connection until channel_closed.
Connected ==
  /\ \A c \in Chan : conn[c] <=> life[c] \in {"opening", "open", "closing"}
  /\ \A c \in q.heap \cup run.readd \cup run.table \cup {run.cur, run.prev} :
       c # None => conn[c]

\* What a run keeps is gone when it is over, and pending channels have a run due.
BetweenRuns == run.pc = "off" => run = NoRun /\ (q.heap # {} => q.ev)

\* The channel being served is pending and in no list.
Serving ==
  Busy => /\ run.cur # None
          /\ run.cur \notin run.readd
               => q.sched[run.cur] = "pending" /\ run.cur \notin q.heap
          /\ run.pc = "write" => run.prev # None /\ run.prev # run.cur

\* Except for the channels set aside, pending is what is in the heap.
Others ==
  \A c \in Chan :
    c \notin run.readd /\ ~(Busy /\ c = run.cur)
      => (q.sched[c] = "pending" <=> c \in q.heap)

\* A channel that has not opened has had nothing to write.
Unopened ==
  \A c \in Chan :
    life[c] = "opening" => /\ q.sched[c] \in {"idle", "waitCells"}
                           /\ cells[c] = 0 /\ outbuf[c] = 0
                           /\ c \notin run.readd

\* An open channel that waits to be writeable will be announced by a flush, and
\* one that waits for cells has none.
Announced ==
  \A c \in Chan :
    life[c] = "open" =>
      /\ q.sched[c] \in {"idle", "waitWrite"} => outbuf[c] >= LowMark
      /\ cells[c] > 0 => q.sched[c] \in {"pending", "waitWrite"}

HeapInv ==
  /\ SchedTypes /\ Connected /\ BetweenRuns /\ Serving /\ Others
  /\ Unopened /\ Announced

Queue == [sched : [Chan -> States], heap : SUBSET Chan, ev : BOOLEAN]

\* t differs from s in channel c only.
OnlyAt(s, t, c) ==
  /\ t \in Queue
  /\ \A d \in Chan \ {c} : /\ t.sched[d] = s.sched[d]
                           /\ d \in t.heap <=> d \in s.heap
  /\ (s.heap # {} => s.ev) => (t.heap # {} => t.ev)

\* scheduler_channel_has_waiting_cells concerns the channels it is called for.
LEMMA HaveCellsIs ==
  ASSUME NEW s \in Queue, NEW D \in SUBSET Chan
  PROVE  /\ HaveCells(s, D) \in Queue
         /\ \A c \in Chan :
              /\ HaveCells(s, D).sched[c] =
                   IF c \in D /\ s.sched[c] = "waitCells" THEN "pending"
                   ELSE IF c \in D /\ s.sched[c] = "idle" THEN "waitWrite"
                   ELSE s.sched[c]
              /\ c \in HaveCells(s, D).heap
                   <=> c \in s.heap \/ (c \in D /\ s.sched[c] = "waitCells")
         /\ (s.heap # {} => s.ev)
              => (HaveCells(s, D).heap # {} => HaveCells(s, D).ev)
<1> DEFINE up == {d \in D : s.sched[d] = "waitCells"}
           next(c) == CASE c \in up                      -> "pending"
                        [] c \in D /\ s.sched[c] = "idle"   -> "waitWrite"
                        [] OTHER                           -> s.sched[c]
           f == [c \in Chan |-> next(c)]
<1>1. s.sched \in [Chan -> States] /\ s.heap \in SUBSET Chan /\ s.ev \in BOOLEAN
  BY DEF Queue
<1>2. HaveCells(s, D) = [s EXCEPT !.sched = f, !.heap = @ \cup up,
                                  !.ev = @ \/ up # {}]
  BY DEF HaveCells
<1>3. /\ \A c \in Chan : /\ next(c) \in States
                         /\ next(c) = IF c \in D /\ s.sched[c] = "waitCells" THEN "pending"
                                      ELSE IF c \in D /\ s.sched[c] = "idle" THEN "waitWrite"
                                      ELSE s.sched[c]
      /\ up \in SUBSET Chan
  BY <1>1 DEF States
<1>4. /\ HaveCells(s, D) \in Queue /\ HaveCells(s, D).sched = f
      /\ HaveCells(s, D).heap = s.heap \cup up
      /\ HaveCells(s, D).ev = (s.ev \/ up # {})
  <2> HIDE DEF up, next
  <2>1. f \in [Chan -> States] /\ (s.ev \/ up # {}) \in BOOLEAN
    BY <1>1, <1>3
  <2> HIDE DEF f
  <2> QED BY <1>1, <1>2, <1>3, <2>1 DEF Queue
<1>5. (s.heap # {} => s.ev)
        => (HaveCells(s, D).heap # {} => HaveCells(s, D).ev)
  <2> HIDE DEF up, f
  <2> QED BY <1>4, Zenon
<1> QED BY <1>1, <1>3, <1>4, <1>5

\* One channel.
LEMMA HasCellsIs ==
  ASSUME NEW s \in Queue, NEW c \in Chan
  PROVE  /\ OnlyAt(s, HasCells(s, c), c)
         /\ s.sched[c] = "waitCells" => HasCells(s, c).sched[c] = "pending"
                                        /\ c \in HasCells(s, c).heap
         /\ s.sched[c] = "idle" => HasCells(s, c).sched[c] = "waitWrite"
         /\ s.sched[c] # "waitCells" => HasCells(s, c).heap = s.heap
         /\ s.sched[c] \notin {"waitCells", "idle"}
              => HasCells(s, c).sched[c] = s.sched[c]
<1>1. {c} \in SUBSET Chan /\ HasCells(s, c) = HaveCells(s, {c})
  BY DEF HasCells
<1>2. HasCells(s, c) \in Queue
  BY <1>1, HaveCellsIs
<1>3. HasCells(s, c).heap \in SUBSET Chan /\ s.heap \in SUBSET Chan
  BY <1>2 DEF Queue
<1>4. \A x \in Chan :
        /\ HasCells(s, c).sched[x] =
             IF x \in {c} /\ s.sched[x] = "waitCells" THEN "pending"
             ELSE IF x \in {c} /\ s.sched[x] = "idle" THEN "waitWrite"
             ELSE s.sched[x]
        /\ x \in HasCells(s, c).heap
             <=> x \in s.heap \/ (x \in {c} /\ s.sched[x] = "waitCells")
  BY <1>1, HaveCellsIs
<1>5. OnlyAt(s, HasCells(s, c), c)
  <2>1. (s.heap # {} => s.ev) => (HasCells(s, c).heap # {} => HasCells(s, c).ev)
    <3>1. (s.heap # {} => s.ev)
            => (HaveCells(s, {c}).heap # {} => HaveCells(s, {c}).ev)
      BY <1>1, HaveCellsIs
    <3> QED BY <1>1, <3>1, Zenon
  <2> QED BY <1>2, <1>4, <2>1 DEF OnlyAt
<1>6. s.sched[c] # "waitCells" => HasCells(s, c).heap = s.heap
  BY <1>3, <1>4
<1> QED BY <1>4, <1>5, <1>6

\* So does scheduler_channel_wants_writes.
LEMMA WantsWritesIs ==
  ASSUME NEW s \in Queue, NEW c \in Chan
  PROVE  /\ OnlyAt(s, WantsWrites(s, c), c)
         /\ s.sched[c] = "waitWrite" => WantsWrites(s, c).sched[c] = "pending"
                                        /\ c \in WantsWrites(s, c).heap
         /\ s.sched[c] = "idle" => WantsWrites(s, c).sched[c] = "waitCells"
         /\ s.sched[c] # "waitWrite" => WantsWrites(s, c).heap = s.heap
         /\ s.sched[c] \notin {"waitWrite", "idle"} => WantsWrites(s, c) = s
<1>1. s.sched \in [Chan -> States] /\ s.heap \in SUBSET Chan /\ s.ev \in BOOLEAN
  BY DEF Queue
<1>2. CASE s.sched[c] = "waitWrite"
  BY <1>1, <1>2 DEF WantsWrites, MadePending, Scheduled, OnlyAt, Queue, States
<1>3. CASE s.sched[c] = "idle"
  BY <1>1, <1>3 DEF WantsWrites, MadePending, Scheduled, OnlyAt, Queue, States
<1>4. CASE s.sched[c] \notin {"waitWrite", "idle"}
  BY <1>1, <1>4 DEF WantsWrites, OnlyAt
<1> QED BY <1>2, <1>3, <1>4

\* And scheduler_release_channel.
LEMMA ReleasedIs ==
  ASSUME NEW s \in Queue, NEW c \in Chan
  PROVE  /\ OnlyAt(s, Released(s, c), c)
         /\ Released(s, c).sched[c] = "idle" /\ c \notin Released(s, c).heap
BY DEF Released, OnlyAt, Queue, States

\* Outside a run a step that touches one channel keeps the invariant if what it
\* does to that channel is right.
LEMMA OneChannel ==
  ASSUME SchedAssumption, HeapInv, NEW c \in Chan,
         run.pc = "off", run' = run, OnlyAt(q, q', c), SchedTypes',
         \A d \in Chan \ {c} :
           /\ life'[d] = life[d] /\ conn'[d] = conn[d]
           /\ cells'[d] = cells[d] /\ outbuf'[d] = outbuf[d],
         conn'[c] <=> life'[c] \in {"opening", "open", "closing"},
         c \in q'.heap => conn'[c],
         q'.sched[c] = "pending" <=> c \in q'.heap,
         life'[c] = "opening" => /\ q'.sched[c] \in {"idle", "waitCells"}
                                 /\ cells'[c] = 0 /\ outbuf'[c] = 0,
         life'[c] = "open" =>
           /\ q'.sched[c] \in {"idle", "waitWrite"} => outbuf'[c] >= LowMark
           /\ cells'[c] > 0 => q'.sched[c] \in {"pending", "waitWrite"}
  PROVE  HeapInv'
<1>1. run = NoRun /\ run' = NoRun
  BY DEF HeapInv, BetweenRuns
<1>2. Connected'
  BY <1>1 DEF HeapInv, Connected, OnlyAt, NoRun, SchedTypes
<1>3. BetweenRuns'
  BY <1>1 DEF HeapInv, BetweenRuns, OnlyAt
<1>4. Serving'
  BY <1>1 DEF Serving, Busy, NoRun
<1>5. Others'
  BY <1>1 DEF HeapInv, Others, OnlyAt, NoRun, Busy
<1>6. Unopened'
  BY <1>1 DEF HeapInv, Unopened, OnlyAt, NoRun
<1>7. Announced'
  BY <1>1 DEF HeapInv, Announced, OnlyAt
<1> QED BY <1>2, <1>3, <1>4, <1>5, <1>6, <1>7 DEF HeapInv

\* connection_handle_write on one channel.
LEMMA KernelWriteIs ==
  ASSUME SchedAssumption, HeapInv, NEW c \in Chan, conn[c],
         NEW k \in Nat, NEW ok \in BOOLEAN, KernelWrite(c, k, ok)
  PROVE  /\ OnlyAt(q, q', c)
         /\ life' \in [Chan -> Lives] /\ outbuf' \in [Chan -> Nat]
         /\ \A d \in Chan \ {c} : life'[d] = life[d] /\ outbuf'[d] = outbuf[d]
         /\ life'[c] \in {"opening", "open", "closing"}
         /\ (q.sched[c] = "pending" <=> c \in q.heap)
              => (q'.sched[c] = "pending" <=> c \in q'.heap)
         /\ life'[c] = "opening" => /\ q'.sched[c] \in {"idle", "waitCells"}
                                    /\ cells[c] = 0 /\ outbuf'[c] = 0
                                    /\ life[c] = "opening"
         /\ life'[c] = "open" =>
              /\ q'.sched[c] \in {"idle", "waitWrite"} => outbuf'[c] >= LowMark
              /\ cells[c] > 0 => q'.sched[c] \in {"pending", "waitWrite"}
<1>1. /\ q \in Queue /\ life \in [Chan -> Lives] /\ outbuf \in [Chan -> Nat]
      /\ cells \in [Chan -> Nat] /\ life[c] \in {"opening", "open", "closing"}
      /\ q.sched[c] \in States
  BY DEF HeapInv, SchedTypes, Queue, Connected
<1>2. LowMark \in Nat /\ OnlyAt(q, q, c)
  BY <1>1 DEF SchedAssumption, OnlyAt
<1>3. /\ life[c] = "opening" => /\ q.sched[c] \in {"idle", "waitCells"}
                                /\ cells[c] = 0 /\ outbuf[c] = 0
      /\ life[c] = "open" =>
           /\ q.sched[c] \in {"idle", "waitWrite"} => outbuf[c] >= LowMark
           /\ cells[c] > 0 => q.sched[c] \in {"pending", "waitWrite"}
  BY DEF HeapInv, Unopened, Announced
<1>4. CASE ok /\ k > 0 /\ outbuf[c] - k < LowMark
  <2>1. /\ outbuf' = [outbuf EXCEPT ![c] = @ - k] /\ life' = life
        /\ q' = WantsWrites(q, c) /\ k <= outbuf[c]
    BY <1>4 DEF KernelWrite
  <2>2. /\ outbuf' \in [Chan -> Nat] /\ life[c] # "opening"
        /\ \A d \in Chan \ {c} : outbuf'[d] = outbuf[d]
    BY <1>1, <1>3, <1>4, <2>1
  <2>3. /\ OnlyAt(q, q', c)
        /\ q.sched[c] = "waitWrite" => q'.sched[c] = "pending" /\ c \in q'.heap
        /\ q.sched[c] = "idle" => q'.sched[c] = "waitCells"
        /\ q.sched[c] # "waitWrite" => q'.heap = q.heap
        /\ q.sched[c] \notin {"waitWrite", "idle"} => q' = q
    BY <1>1, <2>1, WantsWritesIs
  <2> QED BY <1>1, <1>2, <1>3, <2>1, <2>2, <2>3 DEF States
<1>5. CASE ok /\ ~(k > 0 /\ outbuf[c] - k < LowMark)
  <2>1. /\ outbuf' = [outbuf EXCEPT ![c] = @ - k] /\ life' = life
        /\ q' = q /\ k <= outbuf[c]
    BY <1>5 DEF KernelWrite
  <2>2. /\ outbuf' \in [Chan -> Nat]
        /\ \A d \in Chan \ {c} : outbuf'[d] = outbuf[d]
        /\ outbuf'[c] = outbuf[c] - k
    BY <1>1, <2>1
  <2> QED BY <1>1, <1>2, <1>3, <1>5, <2>1, <2>2
<1>6. CASE ~ok
  <2>1. /\ life' = [life EXCEPT ![c] = "closing"] /\ outbuf' = outbuf
        /\ q' = IF life[c] = "closing" THEN q ELSE Released(q, c)
    BY <1>6 DEF KernelWrite
  <2>2. OnlyAt(q, q', c) /\ (q' = q \/ (q'.sched[c] = "idle" /\ c \notin q'.heap))
    <3>1. CASE life[c] = "closing"
      <4>1. q' = q
        BY <2>1, <3>1
      <4> QED BY <1>2, <4>1, Zenon
    <3>2. CASE life[c] # "closing"
      BY <1>1, <2>1, <3>2, ReleasedIs
    <3> QED BY <3>1, <3>2
  <2> QED BY <1>1, <2>1, <2>2 DEF Lives
<1> QED BY <1>4, <1>5, <1>6

\* The steps outside a run.
LEMMA ChannelStepKeeps ==
  ASSUME SchedAssumption, HeapInv, NEW c \in Chan,
         \/ QueueCell(c) \/ Handshake(c)
         \/ \E n \in 0 .. MaxCells : Open(c, n)
         \/ Close(c) \/ WrongIdentity(c) \/ ConnGone(c) \/ Cleanup(c)
         \/ Socket(c)
  PROVE  HeapInv'
<1>1. /\ q \in Queue /\ life \in [Chan -> Lives] /\ outbuf \in [Chan -> Nat]
      /\ cells \in [Chan -> Nat] /\ conn \in [Chan -> BOOLEAN]
      /\ q.sched[c] \in States
      /\ run \in [pc : Stages, cur : Chan \cup {None}, prev : Chan \cup {None},
                  table : SUBSET Chan, readd : SUBSET Chan]
  BY DEF HeapInv, SchedTypes, Queue
<1>2. LowMark \in Nat /\ HighMark \in Nat /\ 0 < LowMark /\ LowMark < HighMark
  BY DEF SchedAssumption
<1>3. run.pc = "off" /\ run' = run
  BY DEF QueueCell, Handshake, Open, Close, WrongIdentity, ConnGone, Cleanup,
         Socket, SocketEvent
<1>4. /\ conn[c] <=> life[c] \in {"opening", "open", "closing"}
      /\ c \in q.heap => conn[c]
      /\ q.sched[c] = "pending" <=> c \in q.heap
      /\ life[c] = "opening" => /\ q.sched[c] \in {"idle", "waitCells"}
                                /\ cells[c] = 0 /\ outbuf[c] = 0
      /\ life[c] = "open" =>
           /\ q.sched[c] \in {"idle", "waitWrite"} => outbuf[c] >= LowMark
           /\ cells[c] > 0 => q.sched[c] \in {"pending", "waitWrite"}
  <2>1. run = NoRun /\ None \notin Chan
    BY <1>3 DEF HeapInv, BetweenRuns, SchedAssumption
  <2> QED
    BY <2>1 DEF HeapInv, Connected, Others, Unopened, Announced, NoRun, Busy
<1>5. ASSUME q' \in Queue, life' \in [Chan -> Lives], outbuf' \in [Chan -> Nat],
             cells' \in [Chan -> Nat], conn' \in [Chan -> BOOLEAN]
      PROVE  SchedTypes'
  BY <1>1, <1>3, <1>5 DEF SchedTypes, Queue
<1>6. CASE QueueCell(c)
  <2>1. /\ life[c] \in {"open", "closing"} /\ q' = HasCells(q, c)
        /\ cells' = [cells EXCEPT ![c] = @ + 1]
        /\ life' = life /\ conn' = conn /\ outbuf' = outbuf
    BY <1>6 DEF QueueCell, HasCircuits
  <2>2. /\ OnlyAt(q, q', c)
        /\ q.sched[c] = "waitCells" => q'.sched[c] = "pending" /\ c \in q'.heap
        /\ q.sched[c] = "idle" => q'.sched[c] = "waitWrite"
        /\ q.sched[c] # "waitCells" => q'.heap = q.heap
        /\ q.sched[c] \notin {"waitCells", "idle"} => q'.sched[c] = q.sched[c]
    BY <1>1, <2>1, HasCellsIs
  <2>3. cells' \in [Chan -> Nat] /\ \A d \in Chan \ {c} : cells'[d] = cells[d]
    BY <1>1, <2>1
  <2>4. SchedTypes'
    BY <1>1, <1>5, <2>1, <2>2, <2>3 DEF OnlyAt
  <2> QED BY <1>1, <1>3, <1>4, <2>1, <2>2, <2>3, <2>4, OneChannel DEF States
<1>7. CASE Handshake(c)
  <2>1. /\ life[c] = "opening" /\ q' = WantsWrites(q, c) /\ cells' = cells
        /\ life' = life /\ conn' = conn /\ outbuf' = outbuf
    BY <1>7 DEF Handshake
  <2>2. /\ OnlyAt(q, q', c)
        /\ q.sched[c] = "idle" => q'.sched[c] = "waitCells"
        /\ q.sched[c] # "waitWrite" => q'.heap = q.heap
        /\ q.sched[c] \notin {"waitWrite", "idle"} => q' = q
    BY <1>1, <2>1, WantsWritesIs
  <2>4. SchedTypes'
    BY <1>1, <1>5, <2>1, <2>2 DEF OnlyAt
  <2> QED BY <1>1, <1>3, <1>4, <2>1, <2>2, <2>4, OneChannel
<1>8. ASSUME NEW n \in 0 .. MaxCells, Open(c, n)
      PROVE  HeapInv'
  <2> DEFINE s == IF n > 0 THEN HasCells(q, c) ELSE q
  <2>1. /\ life[c] = "opening" /\ life' = [life EXCEPT ![c] = "open"]
        /\ cells' = [cells EXCEPT ![c] = @ + n]
        /\ conn' = conn /\ outbuf' = outbuf
        /\ q' = IF Writeable(c) > 0 THEN WantsWrites(s, c) ELSE s
    BY <1>8 DEF Open
  <2>2. q' = WantsWrites(s, c)
    BY <1>1, <1>2, <1>4, <2>1 DEF Writeable
  <2>3. n \in Nat
    BY DEF SchedAssumption
  <2>4. /\ OnlyAt(q, s, c)
        /\ n > 0 /\ q.sched[c] = "waitCells" => s.sched[c] = "pending" /\ c \in s.heap
        /\ n > 0 /\ q.sched[c] = "idle" => s.sched[c] = "waitWrite" /\ s.heap = q.heap
        /\ n = 0 => s = q
    <3>1. CASE n > 0
      BY <1>1, <3>1, HasCellsIs
    <3>2. CASE n = 0
      BY <1>1, <3>2 DEF OnlyAt
    <3> QED BY <2>3, <3>1, <3>2
  <2> HIDE DEF s
  <2>5. s \in Queue
    BY <2>4 DEF OnlyAt
  <2>6. /\ OnlyAt(s, q', c)
        /\ s.sched[c] = "waitWrite" => q'.sched[c] = "pending" /\ c \in q'.heap
        /\ s.sched[c] = "idle" => q'.sched[c] = "waitCells"
        /\ s.sched[c] # "waitWrite" => q'.heap = s.heap
        /\ s.sched[c] \notin {"waitWrite", "idle"} => q' = s
    BY <2>2, <2>5, WantsWritesIs
  <2>7. OnlyAt(q, q', c)
    BY <2>4, <2>6 DEF OnlyAt
  <2>8. /\ cells' \in [Chan -> Nat] /\ life' \in [Chan -> Lives]
        /\ \A d \in Chan \ {c} : cells'[d] = cells[d] /\ life'[d] = life[d]
        /\ life'[c] = "open" /\ cells'[c] = n
    BY <1>1, <1>4, <2>1, <2>3 DEF Lives
  <2>9. SchedTypes'
    BY <1>1, <1>5, <2>1, <2>7, <2>8 DEF OnlyAt
  <2>10. /\ q'.sched[c] \in {"pending", "waitCells"}
         /\ n > 0 => q'.sched[c] = "pending"
         /\ q'.sched[c] = "pending" <=> c \in q'.heap
    <3>1. CASE n > 0
      BY <1>4, <2>1, <2>4, <2>6, <3>1
    <3>2. CASE n = 0
      BY <1>4, <2>1, <2>4, <2>6, <3>2
    <3> QED BY <2>3, <3>1, <3>2
  <2> QED BY <1>3, <1>4, <2>1, <2>3, <2>7, <2>8, <2>9, <2>10, OneChannel
<1>9. ASSUME q' = Released(q, c), NEW x \in {"closing", "finished", "freed"},
             life' = [life EXCEPT ![c] = x],
             conn' = [conn EXCEPT ![c] = (x = "closing")],
             cells' \in [Chan -> Nat], outbuf' \in [Chan -> Nat],
             \A d \in Chan \ {c} : cells'[d] = cells[d] /\ outbuf'[d] = outbuf[d]
      PROVE  HeapInv'
  <2>1. /\ OnlyAt(q, q', c) /\ q'.sched[c] = "idle" /\ c \notin q'.heap
    BY <1>1, <1>9, ReleasedIs
  <2>2. /\ life' \in [Chan -> Lives] /\ conn' \in [Chan -> BOOLEAN]
        /\ \A d \in Chan \ {c} : life'[d] = life[d] /\ conn'[d] = conn[d]
        /\ life'[c] = x /\ (conn'[c] <=> x = "closing")
    BY <1>1, <1>9 DEF Lives
  <2>3. SchedTypes'
    BY <1>5, <1>9, <2>1, <2>2 DEF OnlyAt
  <2> QED BY <1>3, <1>9, <2>1, <2>2, <2>3, OneChannel
<1>10. CASE Close(c) \/ WrongIdentity(c)
  <2>1. conn = [conn EXCEPT ![c] = ("closing" = "closing")]
    BY <1>1, <1>4, <1>10 DEF Close, WrongIdentity
  <2> QED BY <1>1, <1>9, <1>10, <2>1 DEF Close, WrongIdentity
<1>11. CASE ConnGone(c)
  BY <1>1, <1>9, <1>11 DEF ConnGone
<1>12. CASE Cleanup(c)
  <2>1. conn = [conn EXCEPT ![c] = ("freed" = "closing")]
    BY <1>1, <1>4, <1>12 DEF Cleanup
  <2> QED BY <1>1, <1>9, <1>12, <2>1 DEF Cleanup
<1>13. CASE Socket(c)
  <2>1. PICK k \in 1 .. MaxCells, ok \in BOOLEAN : SocketEvent(c, k, ok)
    BY <1>13 DEF Socket
  <2>2. conn[c] /\ KernelWrite(c, k, ok) /\ k \in Nat /\ conn' = conn /\ cells' = cells
    BY <1>2, <2>1 DEF SocketEvent
  <2>3. SchedTypes'
    BY <1>1, <1>5, <2>2, KernelWriteIs DEF OnlyAt
  <2> QED BY <1>1, <1>3, <1>4, <2>2, <2>3, KernelWriteIs, OneChannel
<1> QED BY <1>6, <1>7, <1>8, <1>10, <1>11, <1>12, <1>13

\* Switching schedulers leaves the heap alone.
LEMMA SwitchKeeps ==
  ASSUME HeapInv, Switch
  PROVE  HeapInv'
BY DEF Switch, HeapInv, SchedTypes, Connected, BetweenRuns, Serving, Others,
       Unopened, Announced, Busy

RunRecord ==
  [pc : Stages, cur : Chan \cup {None}, prev : Chan \cup {None},
   table : SUBSET Chan, readd : SUBSET Chan]

\* scheduler_evt_callback begins.
LEMMA BeginKeeps ==
  ASSUME HeapInv, Begin
  PROVE  HeapInv'
<1>1. /\ run = NoRun /\ run' = [NoRun EXCEPT !.pc = "pick"]
      /\ q \in Queue /\ q' = [q EXCEPT !.ev = FALSE]
      /\ UNCHANGED <<life, conn, cells, outbuf>>
  BY DEF Begin, HeapInv, BetweenRuns, SchedTypes, Queue
<1>2. /\ q' \in Queue /\ q'.sched = q.sched /\ q'.heap = q.heap
      /\ run' \in RunRecord /\ run'.pc = "pick" /\ run.pc = "off"
      /\ run'.cur = run.cur /\ run'.prev = run.prev
      /\ run'.table = run.table /\ run'.readd = run.readd
  BY <1>1 DEF Queue, NoRun, RunRecord, Stages
<1> QED BY <1>1, <1>2 DEF HeapInv, SchedTypes, Queue, RunRecord, Connected,
           BetweenRuns, Serving, Others, Unopened, Announced, Busy

\* KIST pops a channel.
LEMMA PickKeeps ==
  ASSUME SchedAssumption, HeapInv, NEW c \in Chan, Pick(c)
  PROVE  HeapInv'
<1>1. /\ q \in Queue /\ run \in RunRecord /\ run.pc = "pick" /\ c \in q.heap
      /\ q' = [q EXCEPT !.heap = @ \ {c}]
      /\ UNCHANGED <<life, conn, cells, outbuf>> /\ c # None
  BY DEF Pick, HeapInv, SchedTypes, Queue, RunRecord, SchedAssumption
<1>2. q' \in Queue /\ q'.sched = q.sched /\ q'.heap = q.heap \ {c}
  BY <1>1 DEF Queue
<1>3. /\ run' \in RunRecord /\ run'.cur = c /\ run'.readd = run.readd
      /\ run'.pc \in {"write", "flush", "decide"}
      /\ run'.prev \in {run.prev, c} /\ run'.table \subseteq run.table \cup {c}
      /\ run'.pc = "write" => run'.prev \notin {None, c}
  <2> DEFINE away == run.prev \notin {None, c} /\ outbuf[run.prev] > Batch
             stage == CASE away -> "write" [] ~away /\ CanWrite(c) -> "flush"
                        [] OTHER -> "decide"
  <2>1. run' = [run EXCEPT
                  !.pc = stage, !.cur = c, !.prev = IF away THEN @ ELSE c,
                  !.table = (@ \cup {c}) \ (IF away THEN {run.prev} ELSE {})]
    BY DEF Pick
  <2>2. /\ stage \in {"write", "flush", "decide"}
        /\ stage = "write" => run.prev \notin {None, c} /\ away
    OBVIOUS
  <2> HIDE DEF away, stage
  <2> QED BY <1>1, <2>1, <2>2 DEF RunRecord, Stages
<1>4. SchedTypes'
  BY <1>1, <1>2, <1>3 DEF HeapInv, SchedTypes, Queue, RunRecord
<1>5. Connected'
  BY <1>1, <1>2, <1>3 DEF HeapInv, Connected
<1>6. BetweenRuns' /\ Unopened' /\ Announced'
  BY <1>1, <1>2, <1>3 DEF HeapInv, BetweenRuns, Unopened, Announced
<1>7. Serving' /\ Others'
  BY <1>1, <1>2, <1>3 DEF HeapInv, Serving, Others, Busy
<1> QED BY <1>4, <1>5, <1>6, <1>7 DEF HeapInv

\* A run writes a channel's outbuf to the kernel.
LEMMA RunWriteKeeps ==
  ASSUME SchedAssumption, HeapInv, NEW c \in Chan, NEW k \in Nat,
         NEW ok \in BOOLEAN, KernelWrite(c, k, ok), conn[c],
         conn' = conn, cells' = cells, run.pc # "off",
         run' \in RunRecord, run'.pc # "off",
         run'.cur = run.cur, run'.readd = run.readd, run'.table \subseteq run.table,
         run'.prev \in {run.prev, run.cur},
         \/ run'.pc = "rest" /\ ~Busy
         \/ run.pc = "write" /\ run'.pc \in {"flush", "decide"} /\ c # run.cur
  PROVE  HeapInv'
<1>1. /\ OnlyAt(q, q', c)
      /\ life' \in [Chan -> Lives] /\ outbuf' \in [Chan -> Nat]
      /\ \A d \in Chan \ {c} : life'[d] = life[d] /\ outbuf'[d] = outbuf[d]
      /\ life'[c] \in {"opening", "open", "closing"}
      /\ (q.sched[c] = "pending" <=> c \in q.heap)
           => (q'.sched[c] = "pending" <=> c \in q'.heap)
      /\ life'[c] = "opening" => /\ q'.sched[c] \in {"idle", "waitCells"}
                                 /\ cells[c] = 0 /\ outbuf'[c] = 0
                                 /\ life[c] = "opening"
      /\ life'[c] = "open" =>
           /\ q'.sched[c] \in {"idle", "waitWrite"} => outbuf'[c] >= LowMark
           /\ cells[c] > 0 => q'.sched[c] \in {"pending", "waitWrite"}
  BY KernelWriteIs
<1>2. SchedTypes'
  BY <1>1 DEF HeapInv, SchedTypes, OnlyAt, Queue, RunRecord
<1>3. Connected'
  BY <1>1 DEF HeapInv, Connected, SchedTypes, OnlyAt, Queue
<1>4. BetweenRuns' /\ Unopened' /\ Announced'
  BY <1>1 DEF HeapInv, BetweenRuns, Unopened, Announced, OnlyAt
<1>5. Serving'
  BY <1>1 DEF HeapInv, Serving, Busy, OnlyAt, SchedTypes
<1>6. Others'
  BY <1>1 DEF HeapInv, Others, Busy, OnlyAt
<1> QED BY <1>2, <1>3, <1>4, <1>5, <1>6 DEF HeapInv

\* KIST writes the channel before the one it has popped.
LEMMA WritePrevKeeps ==
  ASSUME SchedAssumption, HeapInv, NEW k \in 0 .. MaxCells, NEW ok \in BOOLEAN,
         WritePrev(k, ok)
  PROVE  HeapInv'
<1>1. /\ run \in RunRecord /\ run.pc = "write" /\ run.prev \in Chan
      /\ run.prev # run.cur /\ conn[run.prev] /\ k \in Nat
  BY DEF WritePrev, HeapInv, SchedTypes, RunRecord, Serving, Busy, Connected,
         SchedAssumption
<1>2. /\ run' \in RunRecord /\ run'.pc \in {"flush", "decide"}
      /\ run'.cur = run.cur /\ run'.readd = run.readd
      /\ run'.table = run.table /\ run'.prev = run.cur
  BY <1>1 DEF WritePrev, RunRecord, Stages
<1> QED BY <1>1, <1>2, RunWriteKeeps DEF WritePrev

\* KIST writes out the channels it has served.
LEMMA WriteRestKeeps ==
  ASSUME SchedAssumption, HeapInv, NEW c \in Chan, NEW k \in 0 .. MaxCells,
         NEW ok \in BOOLEAN, WriteRest(c, k, ok)
  PROVE  HeapInv'
<1>1. /\ run \in RunRecord /\ run.pc \in {"pick", "rest"} /\ ~Busy
      /\ conn[c] /\ k \in Nat
  BY DEF WriteRest, Served, HeapInv, SchedTypes, RunRecord, Busy, Connected,
         SchedAssumption
<1>2. /\ run' \in RunRecord /\ run'.pc = "rest"
      /\ run'.cur = run.cur /\ run'.readd = run.readd
      /\ run'.table \subseteq run.table /\ run'.prev = run.prev
  BY <1>1 DEF WriteRest, RunRecord, Stages
<1> QED BY <1>1, <1>2, RunWriteKeeps DEF WriteRest

\* The channel being served is a channel, with its connection.
LEMMA CurrentIs ==
  ASSUME SchedAssumption, HeapInv, Busy
  PROVE  /\ run.cur \in Chan /\ conn[run.cur] /\ run \in RunRecord /\ q \in Queue
         /\ q.sched[run.cur] \in States
         /\ life[run.cur] \in {"opening", "open", "closing"}
         /\ cells[run.cur] \in Nat /\ outbuf[run.cur] \in Nat
<1>1. /\ run.cur \in Chan /\ run \in RunRecord /\ q \in Queue
      /\ run.cur # None
  BY DEF HeapInv, SchedTypes, Serving, RunRecord, Queue
<1> QED BY <1>1 DEF HeapInv, SchedTypes, Connected, Queue

\* The channel being served is left alone for the rest of the run: its state says
\* what it waits for.
LEMMA ServedKeeps ==
  ASSUME SchedAssumption, HeapInv, Busy,
         UNCHANGED <<life, conn, cells, outbuf>>,
         run' = [run EXCEPT !.pc = "pick"],
         NEW st \in States \ {"pending"}, q' = [q EXCEPT !.sched[run.cur] = st],
         life[run.cur] = "opening" => st # "waitWrite",
         life[run.cur] = "open" =>
           /\ st \in {"idle", "waitWrite"} => outbuf[run.cur] >= LowMark
           /\ cells[run.cur] > 0 => st = "waitWrite"
  PROVE  HeapInv'
<1> DEFINE c == run.cur
<1>1. /\ c \in Chan /\ conn[c] /\ run \in RunRecord /\ q \in Queue
      /\ life[c] \in {"opening", "open", "closing"}
  BY CurrentIs
<1>2. /\ run' \in RunRecord /\ run'.pc = "pick" /\ run'.cur = run.cur
      /\ run'.prev = run.prev /\ run'.table = run.table /\ run'.readd = run.readd
  BY <1>1 DEF RunRecord, Stages
<1>3. /\ q' \in Queue /\ q'.heap = q.heap /\ q'.sched[c] = st
      /\ \A x \in Chan \ {c} : q'.sched[x] = q.sched[x]
  BY <1>1 DEF Queue
<1>4. SchedTypes' /\ Connected'
  BY <1>1, <1>2, <1>3 DEF HeapInv, SchedTypes, Queue, RunRecord, Connected
<1>5. BetweenRuns' /\ Serving'
  BY <1>2 DEF BetweenRuns, Serving, Busy
<1>6. Others'
  BY <1>1, <1>2, <1>3 DEF HeapInv, Others, Serving, Busy
<1>7. Unopened'
  <2> SUFFICES ASSUME NEW x \in Chan, life[x] = "opening"
               PROVE  /\ q'.sched[x] \in {"idle", "waitCells"}
                      /\ cells[x] = 0 /\ outbuf[x] = 0 /\ x \notin run.readd
    BY <1>2 DEF Unopened
  <2> QED BY <1>3 DEF HeapInv, Unopened, States
<1>8. Announced'
  BY <1>1, <1>3 DEF HeapInv, Announced
<1> QED BY <1>4, <1>5, <1>6, <1>7, <1>8 DEF HeapInv

\* What a cell flushed does to the channel that is served and to those on which
\* the streams it unblocks queue more.
LEMMA SpillKeeps ==
  ASSUME SchedAssumption, HeapInv, Busy, NEW D \in SUBSET Chan,
         Flushed(run.cur, 1, D), q' = HaveCells(q, D), UNCHANGED <<life, conn>>,
         run' \in RunRecord, run'.pc \in {"serve", "decide"}, run'.cur = run.cur,
         run'.prev = run.prev, run'.table = run.table, run'.readd = run.readd
  PROVE  HeapInv'
<1> DEFINE c == run.cur
<1>1. /\ c \in Chan /\ run \in RunRecord /\ q \in Queue
      /\ cells \in [Chan -> Nat] /\ outbuf \in [Chan -> Nat] /\ LowMark \in Nat
  BY CurrentIs DEF SchedAssumption, HeapInv, SchedTypes
<1>2. /\ life[c] = "open" /\ cells[c] > 0
      /\ cells' = [x \in Chan |-> cells[x] - (IF x = c THEN 1 ELSE 0)
                                           + (IF x \in D THEN 1 ELSE 0)]
      /\ outbuf' = [outbuf EXCEPT ![c] = @ + 1]
      /\ \A d \in D : life[d] \in {"open", "closing"}
  BY DEF Flushed, HasCircuits
<1>3. /\ cells' \in [Chan -> Nat] /\ outbuf' \in [Chan -> Nat]
      /\ \A x \in Chan : /\ outbuf'[x] >= outbuf[x]
                         /\ x # c => outbuf'[x] = outbuf[x]
                         /\ x \notin D /\ cells'[x] > 0 => cells[x] > 0
                         /\ x \notin D \cup {c} => cells'[x] = cells[x]
  BY <1>1, <1>2
<1>4. /\ q' \in Queue
      /\ \A x \in Chan :
           /\ q'.sched[x] = IF x \in D /\ q.sched[x] = "waitCells" THEN "pending"
                            ELSE IF x \in D /\ q.sched[x] = "idle" THEN "waitWrite"
                            ELSE q.sched[x]
           /\ x \in q'.heap <=> x \in q.heap \/ (x \in D /\ q.sched[x] = "waitCells")
  BY <1>1, HaveCellsIs
<1>5. q'.heap \in SUBSET Chan
  BY <1>4 DEF Queue
<1>6. \A d \in D : conn[d]
  BY <1>2 DEF HeapInv, Connected
<1>7. SchedTypes'
  BY <1>3, <1>4 DEF HeapInv, SchedTypes, Queue, RunRecord
<1>8. Connected'
  BY <1>4, <1>5, <1>6 DEF HeapInv, Connected
<1>9. BetweenRuns'
  BY DEF BetweenRuns
<1>10. Serving'
  BY <1>1, <1>4 DEF HeapInv, Serving, Busy
<1>11. Others'
  BY <1>4 DEF HeapInv, Others, Busy
<1>12. Unopened'
  <2> SUFFICES ASSUME NEW x \in Chan, life[x] = "opening"
               PROVE  /\ q'.sched[x] \in {"idle", "waitCells"}
                      /\ cells'[x] = 0 /\ outbuf'[x] = 0 /\ x \notin run.readd
    BY DEF Unopened
  <2>1. x \notin D /\ x # c
    BY <1>2
  <2> QED BY <1>3, <1>4, <2>1 DEF HeapInv, Unopened
<1>13. Announced'
  <2> SUFFICES ASSUME NEW x \in Chan, life[x] = "open"
               PROVE  /\ q'.sched[x] \in {"idle", "waitWrite"} => outbuf'[x] >= LowMark
                      /\ cells'[x] > 0 => q'.sched[x] \in {"pending", "waitWrite"}
    BY DEF Announced
  <2>1. /\ q.sched[x] \in {"idle", "waitWrite"} => outbuf[x] >= LowMark
        /\ cells[x] > 0 => q.sched[x] \in {"pending", "waitWrite"}
        /\ q.sched[x] \in States
    BY <1>1 DEF HeapInv, Announced, Queue
  <2>2. /\ outbuf[x] \in Nat /\ outbuf'[x] \in Nat /\ outbuf'[x] >= outbuf[x]
        /\ x \notin D /\ cells'[x] > 0 => cells[x] > 0
    BY <1>1, <1>3
  <2>3. q'.sched[x] \in {"idle", "waitWrite"} => q.sched[x] \in {"idle", "waitWrite"}
    BY <1>4, <2>1 DEF States
  <2>4. cells'[x] > 0 => q'.sched[x] \in {"pending", "waitWrite"}
    BY <1>4, <2>1, <2>2 DEF States
  <2> QED BY <1>1, <2>1, <2>2, <2>3, <2>4
<1> QED BY <1>7, <1>8, <1>9, <1>10, <1>11, <1>12, <1>13 DEF HeapInv

\* Nothing to flush: the channel has no cells or is not open.
LEMMA NothingFlushed ==
  ASSUME SchedAssumption, HeapInv, Busy, NEW D \in SUBSET Chan,
         Flushed(run.cur, 0, D)
  PROVE  /\ D = {} /\ UNCHANGED <<cells, outbuf>>
         /\ life[run.cur] = "open" => cells[run.cur] = 0
<1>1. /\ run.cur \in Chan /\ cells \in [Chan -> Nat] /\ outbuf \in [Chan -> Nat]
  BY CurrentIs DEF HeapInv, SchedTypes
<1>2. D = {} /\ (life[run.cur] = "open" => ~(cells[run.cur] > 0))
  BY DEF Flushed
<1>3. /\ cells' = [x \in Chan |-> cells[x] - (IF x = run.cur THEN 0 ELSE 0)
                                         + (IF x \in {} THEN 1 ELSE 0)]
      /\ outbuf' = [outbuf EXCEPT ![run.cur] = @ + 0]
  BY <1>2 DEF Flushed
<1>4. cells' = cells /\ outbuf' = outbuf
  BY <1>1, <1>3
<1> QED BY <1>1, <1>2, <1>4

\* KIST flushes one cell.
LEMMA FlushOneKeeps ==
  ASSUME SchedAssumption, HeapInv, NEW n \in {0, 1}, NEW D \in SUBSET Chan,
         FlushOne(n, D)
  PROVE  HeapInv'
<1>1. /\ Busy /\ Flushed(run.cur, n, D) /\ UNCHANGED <<life, conn>>
      /\ run \in RunRecord
  BY DEF FlushOne, Busy, HeapInv, SchedTypes, RunRecord
<1>2. CASE n = 1
  <2>1. q' = HaveCells(q, D) /\ run' = [run EXCEPT !.pc = "decide"]
    BY <1>2 DEF FlushOne
  <2>2. /\ run' \in RunRecord /\ run'.pc = "decide" /\ run'.cur = run.cur
        /\ run'.prev = run.prev /\ run'.table = run.table /\ run'.readd = run.readd
    BY <1>1, <2>1 DEF RunRecord, Stages
  <2> QED BY <1>1, <1>2, <2>1, <2>2, SpillKeeps
<1>3. CASE n = 0
  <2> DEFINE st == IF life[run.cur] = "open" THEN "waitCells" ELSE "idle"
  <2>1. /\ q' = [q EXCEPT !.sched[run.cur] = st]
        /\ run' = [run EXCEPT !.pc = "pick"]
    BY <1>3 DEF FlushOne
  <2>2. /\ UNCHANGED <<cells, outbuf>>
        /\ life[run.cur] = "open" => ~(cells[run.cur] > 0)
    BY <1>1, <1>3, NothingFlushed
  <2>3. /\ st \in States \ {"pending"} /\ st # "waitWrite"
        /\ life[run.cur] = "open" => st = "waitCells"
    BY DEF States
  <2> HIDE DEF st
  <2> QED BY <1>1, <2>1, <2>2, <2>3, ServedKeeps
<1> QED BY <1>2, <1>3

\* The flush fails and the channel is closed from within.
LEMMA FlushFailsKeeps ==
  ASSUME SchedAssumption, HeapInv, FlushFails
  PROVE  HeapInv'
<1> DEFINE c == run.cur
<1>1. /\ c \in Chan /\ conn[c] /\ run \in RunRecord /\ q \in Queue
      /\ life[c] = "open" /\ cells[c] > 0
      /\ cells \in [Chan -> Nat] /\ life \in [Chan -> Lives]
      /\ life' = [life EXCEPT ![c] = "closing"]
      /\ cells' = [cells EXCEPT ![c] = 0]
      /\ run' = [run EXCEPT !.pc = "pick"]
      /\ \/ q' = Released(q, c)
         \/ q' = [Released(q, c) EXCEPT !.sched[c] = "waitCells"]
      /\ UNCHANGED <<conn, outbuf>>
  BY CurrentIs DEF FlushFails, Busy, HeapInv, SchedTypes
<1>2. /\ OnlyAt(q, q', c) /\ q'.sched[c] # "pending" /\ c \notin q'.heap
  <2>1. CASE q' = Released(q, c)
    BY <1>1, <2>1, ReleasedIs
  <2>2. CASE q' = [Released(q, c) EXCEPT !.sched[c] = "waitCells"]
    <3>1. OnlyAt(q, Released(q, c), c) /\ c \notin Released(q, c).heap
      BY <1>1, ReleasedIs
    <3> QED BY <1>1, <2>2, <3>1 DEF OnlyAt, Queue, States
  <2> QED BY <1>1, <2>1, <2>2
<1>3. /\ life' \in [Chan -> Lives] /\ life'[c] = "closing"
      /\ cells' \in [Chan -> Nat]
      /\ \A x \in Chan \ {c} : life'[x] = life[x] /\ cells'[x] = cells[x]
  BY <1>1 DEF Lives
<1>4. /\ run' \in RunRecord /\ run'.pc = "pick" /\ run'.cur = run.cur
      /\ run'.prev = run.prev /\ run'.table = run.table /\ run'.readd = run.readd
  BY <1>1 DEF RunRecord, Stages
<1>5. SchedTypes'
  BY <1>1, <1>2, <1>3, <1>4 DEF HeapInv, SchedTypes, OnlyAt, Queue, RunRecord
<1>6. Connected'
  BY <1>1, <1>2, <1>3, <1>4 DEF HeapInv, Connected, SchedTypes, OnlyAt, Queue
<1>7. BetweenRuns' /\ Serving'
  BY <1>4 DEF BetweenRuns, Serving, Busy
<1>8. Others'
  BY <1>1, <1>2, <1>4 DEF HeapInv, Others, Busy, OnlyAt
<1>9. Unopened' /\ Announced'
  BY <1>1, <1>2, <1>3, <1>4 DEF HeapInv, Unopened, Announced, OnlyAt
<1> QED BY <1>5, <1>6, <1>7, <1>8, <1>9 DEF HeapInv

\* The end of KIST's loop.
LEMMA DecideKeeps ==
  ASSUME SchedAssumption, HeapInv, Decide
  PROVE  HeapInv'
<1> DEFINE c == run.cur
           later == cells[c] > 0 /\ ~CanWrite(c)
<1>1. /\ c \in Chan /\ conn[c] /\ run \in RunRecord /\ q \in Queue
      /\ run.pc = "decide" /\ cells[c] \in Nat
      /\ q' = CASE cells[c] = 0 -> [q EXCEPT !.sched[c] = "waitCells"]
                [] cells[c] > 0 /\ CanWrite(c) ->
                     [q EXCEPT !.sched[c] = "pending", !.heap = @ \cup {c}]
                [] OTHER -> q
      /\ run' = [run EXCEPT !.pc = "pick",
                            !.readd = IF later THEN @ \cup {c} ELSE @]
      /\ UNCHANGED <<life, conn, cells, outbuf>>
  BY CurrentIs DEF Decide, Busy
<1>2. /\ run' \in RunRecord /\ run'.pc = "pick" /\ run'.cur = run.cur
      /\ run'.prev = run.prev /\ run'.table = run.table
      /\ run'.readd = IF later THEN run.readd \cup {c} ELSE run.readd
  BY <1>1 DEF RunRecord, Stages
<1>3. CASE cells[c] = 0
  <2>1. /\ q' \in Queue /\ q'.heap = q.heap
        /\ \A x \in Chan \ {c} : q'.sched[x] = q.sched[x]
        /\ q'.sched[c] = "waitCells" /\ run'.readd = run.readd
    BY <1>1, <1>2, <1>3 DEF Queue, States
  <2>2. SchedTypes' /\ Connected'
    BY <1>1, <1>2, <2>1 DEF HeapInv, SchedTypes, Queue, RunRecord, Connected
  <2>3. BetweenRuns' /\ Serving'
    BY <1>2 DEF BetweenRuns, Serving, Busy
  <2>4. Others'
    BY <1>1, <1>2, <2>1 DEF HeapInv, Others, Serving, Busy
  <2>5. Unopened' /\ Announced'
    <3>1. Unopened'
      BY <1>1, <1>2, <2>1 DEF HeapInv, Unopened
    <3>2. Announced'
      BY <1>1, <1>3, <2>1 DEF HeapInv, Announced
    <3> QED BY <3>1, <3>2
  <2> QED BY <2>2, <2>3, <2>4, <2>5 DEF HeapInv
<1>4. CASE cells[c] > 0 /\ CanWrite(c)
  <2>1. /\ q' \in Queue /\ q'.heap = q.heap \cup {c}
        /\ \A x \in Chan \ {c} : q'.sched[x] = q.sched[x]
        /\ q'.sched[c] = "pending" /\ run'.readd = run.readd
    <3>1. q' = [q EXCEPT !.sched[c] = "pending", !.heap = @ \cup {c}]
      BY <1>1, <1>4
    <3>2. run'.readd = run.readd
      BY <1>2, <1>4
    <3>3. c \in Chan /\ q \in Queue
      BY <1>1
    <3> HIDE DEF later, c
    <3> QED BY <3>1, <3>2, <3>3 DEF Queue, States
  <2>2. SchedTypes' /\ Connected'
    BY <1>1, <1>2, <2>1 DEF HeapInv, SchedTypes, Queue, RunRecord, Connected
  <2>3. BetweenRuns' /\ Serving'
    BY <1>2 DEF BetweenRuns, Serving, Busy
  <2>4. Others'
    BY <1>1, <1>2, <2>1 DEF HeapInv, Others, Serving, Busy
  <2>5. Unopened' /\ Announced'
    BY <1>1, <1>2, <1>4, <2>1 DEF HeapInv, Unopened, Announced
  <2> QED BY <2>2, <2>3, <2>4, <2>5 DEF HeapInv
<1>5. CASE later
  <2>1. q' = q /\ run'.readd = run.readd \cup {c} /\ cells[c] > 0
    BY <1>1, <1>2, <1>5
  <2>2. SchedTypes' /\ Connected'
    BY <1>1, <1>2, <2>1 DEF HeapInv, SchedTypes, Queue, RunRecord, Connected
  <2>3. BetweenRuns' /\ Serving'
    BY <1>2 DEF BetweenRuns, Serving, Busy
  <2>4. Others'
    BY <1>1, <1>2, <2>1 DEF HeapInv, Others, Serving, Busy
  <2>5. Unopened' /\ Announced'
    BY <1>1, <1>2, <2>1 DEF HeapInv, Unopened, Announced
  <2> QED BY <2>2, <2>3, <2>4, <2>5 DEF HeapInv
<1> QED BY <1>1, <1>3, <1>4, <1>5

\* vanilla_scheduler_run pops a channel.
LEMMA VanillaPickKeeps ==
  ASSUME SchedAssumption, HeapInv, NEW c \in Chan, VanillaPick(c)
  PROVE  HeapInv'
<1> DEFINE st == IF Writeable(c) = 0 THEN "waitWrite" ELSE q.sched[c]
           stage == IF Writeable(c) = 0 THEN "pick" ELSE "serve"
<1>1. /\ q \in Queue /\ run \in RunRecord /\ run.pc = "pick" /\ c \in q.heap
      /\ outbuf \in [Chan -> Nat] /\ q.sched[c] \in States /\ conn[c] /\ c # None
      /\ HighMark \in Nat /\ LowMark \in Nat /\ LowMark < HighMark
      /\ UNCHANGED <<life, conn, cells, outbuf>>
  BY DEF VanillaPick, HeapInv, SchedTypes, Queue, RunRecord, SchedAssumption, Connected
<1>2. /\ q' = [q EXCEPT !.heap = @ \ {c}, !.sched[c] = st]
      /\ run' = [run EXCEPT !.pc = stage, !.cur = c]
  BY DEF VanillaPick
<1>3. life[c] # "opening" /\ (c \notin run.readd => q.sched[c] = "pending")
  <2>1. q.sched[c] = "pending" \/ c \in run.readd
    BY <1>1 DEF HeapInv, Others, Busy
  <2> QED BY <2>1 DEF HeapInv, Unopened
<1>4. /\ st \in States
      /\ \/ st = "waitWrite" /\ stage = "pick" /\ outbuf[c] >= LowMark
         \/ st = q.sched[c] /\ stage = "serve"
  <2>1. CASE Writeable(c) = 0
    <3>1. outbuf[c] >= HighMark
      BY <1>1, <2>1 DEF Writeable
    <3> QED BY <1>1, <2>1, <3>1 DEF States
  <2>2. CASE Writeable(c) # 0
    BY <1>1, <2>2
  <2> QED BY <2>1, <2>2
<1> HIDE DEF st, stage
<1>5. /\ run' \in RunRecord /\ run'.pc = stage /\ run'.cur = c
      /\ run'.prev = run.prev /\ run'.table = run.table /\ run'.readd = run.readd
  BY <1>1, <1>2, <1>4 DEF RunRecord, Stages
<1>6. /\ q' \in Queue /\ q'.heap = q.heap \ {c} /\ q'.sched[c] = st
      /\ \A x \in Chan \ {c} : q'.sched[x] = q.sched[x]
  BY <1>1, <1>2, <1>4 DEF Queue
<1>7. SchedTypes' /\ Connected'
  BY <1>1, <1>5, <1>6 DEF HeapInv, SchedTypes, Queue, RunRecord, Connected
<1>8. BetweenRuns' /\ Serving'
  BY <1>1, <1>3, <1>4, <1>5, <1>6 DEF BetweenRuns, Serving, Busy
<1>9. Others'
  BY <1>1, <1>3, <1>4, <1>5, <1>6 DEF HeapInv, Others, Busy
<1>10. Unopened'
  BY <1>1, <1>3, <1>5, <1>6 DEF HeapInv, Unopened
<1>11. Announced'
  BY <1>1, <1>4, <1>6 DEF HeapInv, Announced
<1> QED BY <1>7, <1>8, <1>9, <1>10, <1>11 DEF HeapInv

\* It flushes a cell.
LEMMA VanillaFlushKeeps ==
  ASSUME SchedAssumption, HeapInv, NEW n \in {0, 1}, NEW D \in SUBSET Chan,
         VanillaFlush(n, D)
  PROVE  HeapInv'
<1>1. /\ Busy /\ Flushed(run.cur, n, D) /\ UNCHANGED <<life, conn>>
      /\ run \in RunRecord /\ run.pc = "serve"
  BY DEF VanillaFlush, Busy, HeapInv, SchedTypes, RunRecord
<1>2. CASE n = 1
  <2>1. q' = HaveCells(q, D) /\ run' = run
    BY <1>2 DEF VanillaFlush
  <2> QED BY <1>1, <1>2, <2>1, SpillKeeps
<1>3. CASE n = 0
  <2>1. /\ q' = [q EXCEPT !.sched[run.cur] = "waitCells"]
        /\ run' = [run EXCEPT !.pc = "pick"]
    BY <1>3 DEF VanillaFlush
  <2>2. /\ UNCHANGED <<cells, outbuf>>
        /\ life[run.cur] = "open" => ~(cells[run.cur] > 0)
    BY <1>1, <1>3, NothingFlushed
  <2>3. "waitCells" \in States \ {"pending"}
    BY DEF States
  <2> QED BY <1>1, <2>1, <2>2, <2>3, ServedKeeps
<1> QED BY <1>2, <1>3

\* It has filled the outbuf.
LEMMA VanillaDecideKeeps ==
  ASSUME SchedAssumption, HeapInv, VanillaDecide
  PROVE  HeapInv'
<1> DEFINE st == IF cells[run.cur] > 0 THEN "waitWrite" ELSE "idle"
<1>1. /\ Busy /\ UNCHANGED <<life, conn, cells, outbuf>>
      /\ run' = [run EXCEPT !.pc = "pick"] /\ q' = [q EXCEPT !.sched[run.cur] = st]
      /\ Writeable(run.cur) = 0
  BY DEF VanillaDecide, Busy
<1>2. run.cur \in Chan /\ outbuf[run.cur] \in Nat
  BY <1>1, CurrentIs
<1>3. outbuf[run.cur] >= LowMark /\ outbuf[run.cur] > 0
  BY <1>1, <1>2 DEF Writeable, SchedAssumption
<1>4. life[run.cur] # "opening"
  BY <1>2, <1>3 DEF HeapInv, Unopened
<1>5. st \in States \ {"pending"} /\ (cells[run.cur] > 0 => st = "waitWrite")
  BY DEF States
<1> HIDE DEF st
<1> QED BY <1>1, <1>3, <1>4, <1>5, ServedKeeps

\* A run ends: what it set aside is pending again, and the next run is due.
LEMMA EndKeeps ==
  ASSUME SchedAssumption, HeapInv, End
  PROVE  HeapInv'
<1> DEFINE t == [q EXCEPT
                   !.heap = @ \cup run.readd,
                   !.sched = [c \in Chan |-> IF c \in run.readd THEN "pending"
                                                               ELSE @[c]]]
<1>1. /\ q \in Queue /\ run \in RunRecord /\ run.pc \in {"pick", "rest"}
      /\ q' = Scheduled(t) /\ run' = NoRun
      /\ UNCHANGED <<life, conn, cells, outbuf>> /\ None \notin Chan
  BY DEF End, Served, HeapInv, SchedTypes, Queue, RunRecord, SchedAssumption
<1>2. /\ t \in Queue /\ t.heap = q.heap \cup run.readd
      /\ \A x \in Chan : t.sched[x] = IF x \in run.readd THEN "pending" ELSE q.sched[x]
  BY <1>1 DEF Queue, States, RunRecord
<1> HIDE DEF t
<1>3. /\ q' \in Queue /\ q'.heap = t.heap /\ q'.sched = t.sched
      /\ q'.heap # {} => q'.ev
  BY <1>1, <1>2 DEF Queue, Scheduled
<1>4. /\ run' \in RunRecord /\ run'.pc = "off" /\ run'.cur = None /\ run'.prev = None
      /\ run'.table = {} /\ run'.readd = {}
  BY <1>1 DEF RunRecord, NoRun, Stages
<1>5. SchedTypes'
  BY <1>1, <1>3, <1>4 DEF HeapInv, SchedTypes, Queue, RunRecord
<1>6. Connected'
  BY <1>1, <1>2, <1>3, <1>4 DEF HeapInv, Connected
<1>7. BetweenRuns' /\ Serving'
  BY <1>1, <1>3, <1>4 DEF BetweenRuns, Serving, Busy
<1>8. Others'
  BY <1>1, <1>2, <1>3, <1>4 DEF HeapInv, Others, Busy
<1>9. Unopened' /\ Announced'
  BY <1>1, <1>2, <1>3, <1>4 DEF HeapInv, Unopened, Announced
<1> QED BY <1>5, <1>6, <1>7, <1>8, <1>9 DEF HeapInv

\* The heap is right at the start,
LEMMA HeapInitially ==
  ASSUME SchedAssumption, SchedInit
  PROVE  HeapInv
BY DEF SchedAssumption, SchedInit, HeapInv, SchedTypes, Connected, BetweenRuns, Serving,
       Others, Unopened, Announced, Busy, NoRun, Lives, States, Stages

\* and every step keeps it so.
LEMMA HeapStep ==
  ASSUME SchedAssumption, HeapInv, [SchedNext]_schedVars
  PROVE  HeapInv'
<1>1. CASE SchedNext
  BY <1>1, ChannelStepKeeps, SwitchKeeps, BeginKeeps, PickKeeps, WritePrevKeeps,
     WriteRestKeeps, FlushOneKeeps, FlushFailsKeeps, DecideKeeps, VanillaPickKeeps,
     VanillaFlushKeeps, VanillaDecideKeeps, EndKeeps DEF SchedNext, RunStep
<1>2. CASE UNCHANGED schedVars
  BY <1>2 DEF schedVars, HeapInv, SchedTypes, Connected, BetweenRuns, Serving, Others,
     Unopened, Announced, Busy
<1> QED BY <1>1, <1>2

\* The heap of pending channels is right (scheduler.c): it never holds a channel
\* that has lost its connection or was freed, it is the set of the channels whose
\* scheduler_state is pending, and no open channel with cells is forgotten, under
\* KIST and under vanilla, whatever fails in the middle of a run.
THEOREM HeapSound ==
  ASSUME SchedAssumption
  PROVE  SchedSpec => []HeapIsSound
<1>1. SchedInit => HeapInv
  BY HeapInitially
<1>2. HeapInv /\ [SchedNext]_schedVars => HeapInv'
  BY HeapStep
<1>3. HeapInv => HeapIsSound
  <2> SUFFICES ASSUME HeapInv
               PROVE  HeapIsSound
    OBVIOUS
  <2>1. HeapIsLive
    BY DEF HeapIsLive, HeapInv, Connected, SchedAssumption, SchedTypes
  <2>2. ASSUME run.pc = "off"
        PROVE  (q.heap # {} => q.ev) /\ run.readd = {} /\ ~Busy
    BY <2>2 DEF HeapInv, BetweenRuns, NoRun, Busy
  <2>3. HeapIsPending
    BY <2>2 DEF HeapIsPending, HeapInv, Others, SchedTypes
  <2>4. NoneForgotten
    BY <2>2 DEF NoneForgotten, Waits, HeapInv, Others, Announced
  <2> QED BY <2>1, <2>3, <2>4 DEF HeapIsSound
<1> QED BY <1>1, <1>2, <1>3, PTL DEF SchedSpec
=============================================================================
