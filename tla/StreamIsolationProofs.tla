------------------------ MODULE StreamIsolationProofs ------------------------
(* Proofs about StreamIsolation, for any number of streams, circuits and      *)
(* NEWNYMs and any isolation flags, where a carrier has one leg (OneLeg): the  *)
(* records are of single legs, and README, section "Departures", has what      *)
(* becomes of isolation when a set loses its first leg.                       *)
EXTENDS StreamIsolation, FiniteSetTheorems, TLAPS

-----------------------------------------------------------------------------
(* Lists without repetition.                                                *)

\* The list q holds the elements of S, each of them once.
Lists(q, S) ==
  /\ q \in Seq(S)
  /\ \A i, j \in 1 .. Len(q) : q[i] = q[j] => i = j
  /\ \A s \in S : \E i \in 1 .. Len(q) : q[i] = s

\* S is what q holds.
LEMMA ListsSet ==
  ASSUME NEW q, NEW S, Lists(q, S)
  PROVE  ToSet(q) = S /\ Len(q) \in Nat /\ DOMAIN q = 1 .. Len(q)
BY DEF Lists, ToSet

\* The empty list.
LEMMA ListsNone ==
  Lists(<<>>, {})
BY DEF Lists

\* A list of nothing is empty.
LEMMA NoneListed ==
  ASSUME NEW q, Lists(q, {})
  PROVE  q = <<>>
BY DEF Lists

\* Any order of a finite set is a list of it.
LEMMA ListsOrder ==
  ASSUME NEW S, IsFiniteSet(S), NEW q \in SetToSeqs(S)
  PROVE  Lists(q, S)
<1> DEFINE n == Cardinality(S)
           D == 1 .. n
<1>1. n \in Nat
  BY FS_CardinalityType
<1>2. q \in [D -> S] /\ \A i, j \in D : i # j => q[i] # q[j]
  BY DEF SetToSeqs
<1>3. IsFiniteSet(D) /\ Cardinality(D) = n
  BY <1>1, FS_Interval
<1> HIDE DEF n
<1>4. q \in Injection(D, S)
  BY <1>2 DEF Injection, IsInjective
<1>5. q \in Surjection(D, S)
  <2> HIDE DEF D
  <2> QED
    BY <1>3, <1>4, FS_Injection DEF n
<1>6. \A s \in S : \E i \in D : q[i] = s
  BY <1>5 DEF Surjection
<1>7. q \in Seq(S) /\ Len(q) = n
  BY <1>1, <1>2
<1> QED
  BY <1>1, <1>2, <1>6, <1>7 DEF Lists

\* One list after another.
LEMMA ListsBoth ==
  ASSUME NEW q, NEW S, Lists(q, S), NEW r, NEW T, Lists(r, T), S \cap T = {}
  PROVE  Lists(q \o r, S \cup T)
<1>1. /\ q \in Seq(S) /\ r \in Seq(T)
      /\ Len(q) \in Nat /\ Len(r) \in Nat
  BY DEF Lists
<1> DEFINE p == q \o r
<1>2. q \in Seq(S \cup T) /\ r \in Seq(S \cup T)
  BY <1>1
<1>3. /\ p \in Seq(S \cup T) /\ Len(p) = Len(q) + Len(r)
      /\ \A i \in 1 .. Len(q) : p[i] = q[i] /\ i \in 1 .. Len(p)
      /\ \A i \in 1 .. Len(r) : p[Len(q) + i] = r[i] /\ Len(q) + i \in 1 .. Len(p)
  BY <1>1, <1>2
<1>4. \A i \in 1 .. Len(p) : \/ i \in 1 .. Len(q) /\ p[i] = q[i] /\ p[i] \in S
                             \/ /\ i - Len(q) \in 1 .. Len(r)
                                /\ p[i] = r[i - Len(q)] /\ p[i] \in T
  BY <1>1, <1>3
<1> HIDE DEF p
<1>5. \A i, j \in 1 .. Len(p) : p[i] = p[j] => i = j
  <2> SUFFICES ASSUME NEW i \in 1 .. Len(p), NEW j \in 1 .. Len(p), p[i] = p[j]
               PROVE  i = j
    OBVIOUS
  <2>1. CASE p[i] \in S
    <3>1. /\ i \in 1 .. Len(q) /\ p[i] = q[i]
          /\ j \in 1 .. Len(q) /\ p[j] = q[j]
      BY <1>4, <2>1
    <3>2. \A a, b \in 1 .. Len(q) : q[a] = q[b] => a = b
      BY DEF Lists
    <3> QED
      BY <3>1, <3>2
  <2>2. CASE p[i] \in T
    <3>1. /\ i - Len(q) \in 1 .. Len(r) /\ p[i] = r[i - Len(q)]
          /\ j - Len(q) \in 1 .. Len(r) /\ p[j] = r[j - Len(q)]
      BY <1>4, <2>2
    <3>2. i - Len(q) = j - Len(q)
      BY <3>1 DEF Lists
    <3> QED
      BY <1>1, <1>3, <3>2
  <2> QED
    BY <1>4, <2>1, <2>2
<1>6. \A s \in S : \E i \in 1 .. Len(p) : p[i] = s
  BY <1>3 DEF Lists
<1>7. \A s \in T : \E i \in 1 .. Len(p) : p[i] = s
  <2> SUFFICES ASSUME NEW s \in T PROVE \E i \in 1 .. Len(p) : p[i] = s
    OBVIOUS
  <2>1. PICK k \in 1 .. Len(r) : r[k] = s
    BY DEF Lists
  <2> QED
    BY <1>3, <2>1
<1>8. Lists(p, S \cup T)
  BY <1>3, <1>5, <1>6, <1>7 DEF Lists
<1> QED
  BY <1>8 DEF p

\* One more.
LEMMA ListsOne ==
  ASSUME NEW s
  PROVE  Lists(<<s>>, {s})
BY DEF Lists

\* One element appended.
LEMMA ListsMore ==
  ASSUME NEW q, NEW S, Lists(q, S), NEW s, s \notin S
  PROVE  Lists(Append(q, s), S \cup {s})
<1>1. q \in Seq(S \cup {s})
  BY DEF Lists
<1>2. Append(q, s) = q \o <<s>>
  BY <1>1
<1> DEFINE r == <<s>>
           T == {s}
<1>3. Lists(r, T) /\ S \cap T = {}
  BY ListsOne
<1> HIDE DEF r, T
<1>4. Lists(q \o r, S \cup T)
  BY <1>3, ListsBoth
<1> QED
  BY <1>2, <1>4 DEF r, T

\* The first one taken off.
LEMMA ListsTail ==
  ASSUME NEW q, NEW S, Lists(q, S), q # <<>>
  PROVE  Head(q) \in S /\ Lists(Tail(q), S \ {Head(q)})
<1>1. q \in Seq(S) /\ Len(q) \in Nat /\ Len(q) >= 1
  BY DEF Lists
<1> DEFINE t == Tail(q)
           h == Head(q)
<1>2. /\ h = q[1] /\ h \in S /\ 1 \in 1 .. Len(q)
      /\ t \in Seq(S) /\ Len(t) = Len(q) - 1
      /\ \A i \in 1 .. Len(t) : t[i] = q[i + 1] /\ i + 1 \in 1 .. Len(q)
  BY <1>1
<1> HIDE DEF t, h
<1>3. \A i \in 1 .. Len(t) : t[i] # h
  <2> SUFFICES ASSUME NEW i \in 1 .. Len(t), t[i] = h PROVE FALSE
    OBVIOUS
  <2>1. q[i + 1] = q[1] /\ i + 1 \in 1 .. Len(q)
    BY <1>2
  <2>2. i + 1 = 1
    BY <1>2, <2>1 DEF Lists
  <2> QED
    BY <2>2
<1>4. t \in Seq(S \ {h})
  BY <1>2, <1>3
<1>5. \A i, j \in 1 .. Len(t) : t[i] = t[j] => i = j
  <2> SUFFICES ASSUME NEW i \in 1 .. Len(t), NEW j \in 1 .. Len(t), t[i] = t[j]
               PROVE  i = j
    OBVIOUS
  <2>0. /\ i + 1 \in 1 .. Len(q) /\ j + 1 \in 1 .. Len(q)
        /\ q[i + 1] = q[j + 1]
    BY <1>2
  <2>1. i + 1 = j + 1
    BY <2>0 DEF Lists
  <2> QED
    BY <2>1
<1>6. \A s \in S \ {h} : \E i \in 1 .. Len(t) : t[i] = s
  <2> SUFFICES ASSUME NEW s \in S \ {h}
               PROVE  \E i \in 1 .. Len(t) : t[i] = s
    OBVIOUS
  <2>1. PICK k \in 1 .. Len(q) : q[k] = s
    BY DEF Lists
  <2>2. k # 1
    BY <1>2, <2>1
  <2>3. k - 1 \in 1 .. Len(t) /\ (k - 1) + 1 = k
    BY <1>1, <1>2, <2>2
  <2> QED
    BY <1>2, <2>1, <2>3
<1> QED
  BY <1>2, <1>4, <1>5, <1>6 DEF Lists, t, h

\* One taken out: the last one moves into its place.
LEMMA ListsWithout ==
  ASSUME NEW q, NEW S, Lists(q, S), NEW k \in 1 .. Len(q)
  PROVE  Lists(Without(q, k), S \ {q[k]})
<1> DEFINE n == Len(q)
           u == [q EXCEPT ![k] = q[n]]
           t == Without(q, k)
           from(i) == IF i = k THEN n ELSE i
<1>1. q \in Seq(S) /\ n \in Nat /\ n >= 1 /\ k \in Nat
  BY DEF Lists
<1>2. u \in Seq(S) /\ Len(u) = n
  BY <1>1
<1>3. t = SubSeq(u, 1, n - 1)
  BY DEF Without, Last
<1>4. /\ t \in Seq(S) /\ Len(t) = n - 1
      /\ \A i \in 1 .. n - 1 : t[i] = u[i]
  <2> HIDE DEF u, n, t
  <2> QED
    BY <1>1, <1>2, <1>3
<1>5. \A i \in 1 .. n - 1 : t[i] = q[from(i)] /\ from(i) \in 1 .. n /\ from(i) # k
  <2>1. \A i \in 1 .. n - 1 : u[i] = q[from(i)]
    BY <1>1
  <2>2. \A i \in 1 .. n - 1 : from(i) \in 1 .. n /\ from(i) # k
    BY <1>1
  <2> QED
    BY <1>4, <2>1, <2>2
<1>6. \A i, j \in 1 .. n - 1 : from(i) = from(j) => i = j
  BY <1>1
<1>7. \A j \in 1 .. n : j # k => \E i \in 1 .. n - 1 : from(i) = j
  <2> SUFFICES ASSUME NEW j \in 1 .. n, j # k
               PROVE  \E i \in 1 .. n - 1 : from(i) = j
    OBVIOUS
  <2>1. CASE j = n
    <3>1. k \in 1 .. n - 1 /\ from(k) = j
      BY <1>1, <2>1
    <3> QED
      BY <3>1
  <2>2. CASE j # n
    <3>1. j \in 1 .. n - 1 /\ from(j) = j
      BY <1>1, <2>2
    <3> QED
      BY <3>1
  <2> QED
    BY <2>1, <2>2
<1> HIDE DEF t, from
<1>8. \A i \in 1 .. n - 1 : t[i] # q[k]
  <2>1. (\A i, j \in 1 .. n : q[i] = q[j] => i = j) /\ k \in 1 .. n
    BY DEF Lists
  <2> HIDE DEF n
  <2> QED
    BY <1>5, <2>1
<1>9. t \in Seq(S \ {q[k]})
  BY <1>4, <1>8
<1>10. \A i, j \in 1 .. n - 1 : t[i] = t[j] => i = j
  <2> SUFFICES ASSUME NEW i \in 1 .. n - 1, NEW j \in 1 .. n - 1, t[i] = t[j]
               PROVE  i = j
    OBVIOUS
  <2>1. q[from(i)] = q[from(j)] /\ from(i) \in 1 .. n /\ from(j) \in 1 .. n
    BY <1>5
  <2>2. from(i) = from(j)
    BY <2>1 DEF Lists
  <2> QED
    BY <1>6, <2>2
<1>11. \A s \in S \ {q[k]} : \E i \in 1 .. n - 1 : t[i] = s
  <2> SUFFICES ASSUME NEW s \in S \ {q[k]}
               PROVE  \E i \in 1 .. n - 1 : t[i] = s
    OBVIOUS
  <2>1. PICK j \in 1 .. n : q[j] = s
    BY DEF Lists
  <2>2. j # k
    BY <2>1
  <2>3. PICK i \in 1 .. n - 1 : from(i) = j
    BY <1>7, <2>2
  <2> QED
    BY <1>5, <2>1, <2>3
<1> HIDE DEF n
<1>12. Lists(t, S \ {q[k]})
  BY <1>4, <1>9, <1>10, <1>11 DEF Lists
<1> QED
  BY <1>12 DEF t

\* An element is at one place of a list, any other at none.
LEMMA ListedAt ==
  ASSUME NEW q, NEW S, Lists(q, S), NEW s
  PROVE  Cardinality({i \in DOMAIN q : q[i] = s}) = IF s \in S THEN 1 ELSE 0
<1> DEFINE P == {i \in DOMAIN q : q[i] = s}
<1>1. DOMAIN q = 1 .. Len(q) /\ q \in Seq(S)
  BY DEF Lists
<1>2. CASE s \in S
  <2>1. PICK k \in 1 .. Len(q) : q[k] = s
    BY <1>2 DEF Lists
  <2>2. P = {k}
    BY <1>1, <2>1 DEF Lists
  <2> QED
    BY <1>2, <2>2, FS_Singleton
<1>3. CASE s \notin S
  <2>1. P = {}
    BY <1>1, <1>3
  <2> QED
    BY <1>3, <2>1, FS_EmptySet
<1> QED
  BY <1>2, <1>3

-----------------------------------------------------------------------------
(* The inductive invariant.                                                 *)

Iso == [set : BOOLEAN, any : BOOLEAN, mixed : SUBSET AllFields,
        vals : [AllFields -> Nat]]

StreamType == [state : {"none", "wait", "conn", "open", "closed"},
               on : Carriers \cup {None}, epoch : Nat, old : BOOLEAN,
               idle : BOOLEAN]

CarrierType == [phase : {"none", "building", "open"}, legs : Seq(Iso),
                unusable : BOOLEAN, dirty : BOOLEAN, refuses : SUBSET Streams]

TypeOK ==
  /\ strm \in [Streams -> StreamType]
  /\ circ \in [Carriers -> CarrierType]
  /\ untried \in BOOLEAN /\ walking \in BOOLEAN
  /\ opening \in Carriers \cup {None}
  /\ nym \in Nat
  /\ used \in [Carriers -> SUBSET Streams]
  /\ shared \in SUBSET (Streams \X Streams)

\* A stream is on a carrier exactly while it is attached.
OnShape ==
  \A s \in Streams : strm[s].on # None <=> strm[s].state \in {"conn", "open"}

\* The pending list and what a walk has still to visit hold the streams that
\* wait, each of them once.
Listed ==
  /\ \E S, T \in SUBSET Streams :
       /\ Lists(pending, S) /\ Lists(todo, T)
       /\ S \cap T = {} /\ S \cup T = In("wait")
  /\ ~walking => todo = <<>>

Legged == \A c \in Carriers : circ[c].phase # "none" => Len(circ[c].legs) = 1

\* What the record of a carrier says of the streams that used it.
Fits(c) ==
  used[c] # {} =>
    LET iso == circ[c].legs[1] IN
    /\ circ[c].phase = "open" /\ iso.set /\ iso.any
    /\ \A t \in used[c] :
         /\ strm[t].state # "none"
         /\ \A f \in AllFields \ iso.mixed : Value(t, f) = iso.vals[f]

\* Marks that are not real are those of the circuit that is being opened.
Opens(c) ==
  circ[c].phase = "open" /\ circ[c].legs[1].set /\ ~circ[c].legs[1].any
    => walking /\ opening = c

Sharers ==
  \A p \in shared : strm[p[1]].state # "none" /\ strm[p[2]].state # "none"

Inv ==
  /\ TypeOK /\ OnShape /\ Listed /\ Legged
  /\ \A c \in Carriers : Fits(c) /\ Opens(c)
  /\ Sharers /\ Respected

-----------------------------------------------------------------------------
(* What most steps leave alone.                                             *)

\* A stream that has begun keeps its epoch.
EpochsKept ==
  \A s \in Streams : strm[s].state # "none"
    => strm'[s].state # "none" /\ strm'[s].epoch = strm[s].epoch

\* The record of c is kept, and so are the streams that used it.
RecordKept(c) ==
  /\ circ'[c].phase = circ[c].phase /\ circ'[c].legs = circ[c].legs
  /\ used'[c] = used[c]

\* The carrier is gone or new: no stream has used it, and it has no marks.
Clean(c) ==
  /\ used'[c] = {}
  /\ circ'[c].phase # "open" \/ ~circ'[c].legs[1].set

\* With its epoch a stream keeps every value it is isolated by.
LEMMA ValuesKept ==
  ASSUME EpochsKept, NEW s \in Streams, strm[s].state # "none", NEW f
  PROVE  Value(s, f)' = Value(s, f)
BY DEF EpochsKept, Value

\* The records of carriers that are kept fit as before.
LEMMA KeptFits ==
  ASSUME Inv, EpochsKept, NEW c \in Carriers, RecordKept(c)
  PROVE  Fits(c)'
<1> SUFFICES ASSUME used'[c] # {}
             PROVE  LET iso == circ'[c].legs[1] IN
                    /\ circ'[c].phase = "open" /\ iso.set /\ iso.any
                    /\ \A t \in used'[c] :
                         /\ strm'[t].state # "none"
                         /\ \A f \in AllFields \ iso.mixed :
                              Value(t, f)' = iso.vals[f]
  BY DEF Fits
<1>1. Fits(c) /\ used[c] # {} /\ circ'[c].legs[1] = circ[c].legs[1]
  BY DEF Inv, RecordKept
<1>2. circ'[c].phase = "open" /\ circ'[c].legs[1].set /\ circ'[c].legs[1].any
  BY <1>1 DEF Fits, RecordKept
<1>3. ASSUME NEW t \in used'[c]
      PROVE  /\ strm'[t].state # "none"
             /\ \A f \in AllFields \ circ'[c].legs[1].mixed :
                  Value(t, f)' = circ'[c].legs[1].vals[f]
  <2>1. t \in used[c] /\ t \in Streams
    BY DEF RecordKept, Inv, TypeOK
  <2>2. /\ strm[t].state # "none"
        /\ \A f \in AllFields \ circ[c].legs[1].mixed :
             Value(t, f) = circ[c].legs[1].vals[f]
    BY <1>1, <2>1 DEF Fits
  <2>3. strm'[t].state # "none"
    BY <2>1, <2>2 DEF EpochsKept
  <2>4. \A f : Value(t, f)' = Value(t, f)
    BY <2>1, <2>2, ValuesKept
  <2> QED
    BY <1>1, <2>2, <2>3, <2>4
<1> QED
  BY <1>2, <1>3

\* The streams that share a carrier still do so rightly.
LEMMA KeptRespected ==
  ASSUME Inv, EpochsKept, shared' \in {shared, {}}
  PROVE  Sharers' /\ Respected'
<1> SUFFICES ASSUME NEW p \in shared'
             PROVE  /\ strm'[p[1]].state # "none" /\ strm'[p[2]].state # "none"
                    /\ \A f \in Flags(p[2]) : Value(p[1], f)' = Value(p[2], f)'
  BY DEF Sharers, Respected, Flags
<1>1. p \in shared /\ p[1] \in Streams /\ p[2] \in Streams
  BY DEF Inv, TypeOK
<1>2. strm[p[1]].state # "none" /\ strm[p[2]].state # "none"
  BY <1>1 DEF Inv, Sharers
<1>3. \A f \in Flags(p[2]) : Value(p[1], f) = Value(p[2], f)
  BY <1>1 DEF Inv, Respected
<1>4. \A f : Value(p[1], f)' = Value(p[1], f) /\ Value(p[2], f)' = Value(p[2], f)
  BY <1>1, <1>2, ValuesKept
<1> QED
  BY <1>1, <1>2, <1>3, <1>4 DEF EpochsKept

\* A step outside a walk that keeps, drops or renews carriers, and starts a
\* walk or none.
LEMMA QuietStep ==
  ASSUME Inv, EpochsKept, ~walking, shared' \in {shared, {}},
         \A c \in Carriers : RecordKept(c) \/ Clean(c)
  PROVE  (\A c \in Carriers : Fits(c) /\ Opens(c))' /\ Sharers' /\ Respected'
<1>1. \A c \in Carriers : RecordKept(c) => Fits(c)'
  BY KeptFits
<1>2. \A c \in Carriers : Clean(c) => Fits(c)' /\ Opens(c)'
  BY DEF Clean, Fits, Opens
<1>3. \A c \in Carriers : RecordKept(c) => Opens(c)'
  BY DEF Inv, Opens, RecordKept
<1>4. Sharers' /\ Respected'
  BY KeptRespected
<1> QED
  BY <1>1, <1>2, <1>3, <1>4

\* The lists of a step that changes neither them nor who waits.
LEMMA ListsKept ==
  ASSUME Inv, UNCHANGED <<pending, todo, walking>>, In("wait")' = In("wait")
  PROVE  Listed'
BY DEF Inv, Listed

\* A walk begins with the whole list.
LEMMA WalkLists ==
  ASSUME Inv, todo = <<>>, In("wait")' = In("wait"),
         walking' = TRUE, todo' = pending, pending' = <<>>
  PROVE  Listed'
<1>1. PICK S \in SUBSET Streams, T \in SUBSET Streams :
        /\ Lists(pending, S) /\ Lists(todo, T)
        /\ S \cap T = {} /\ S \cup T = In("wait")
  BY DEF Inv, Listed
<1>2. T = {}
  <2>1. ToSet(todo) = T
    BY <1>1, ListsSet
  <2> QED
    BY <2>1 DEF ToSet
<1>3. Lists(todo', S) /\ Lists(pending', {})
  BY <1>1, ListsNone
<1>4. {} \in SUBSET Streams /\ {} \cap S = {} /\ {} \cup S = In("wait")'
  BY <1>1, <1>2
<1> QED
  BY <1>3, <1>4 DEF Listed

\* Outside a walk the list holds the streams that wait.
LEMMA PendingLists ==
  ASSUME Inv, ~walking
  PROVE  Lists(pending, In("wait")) /\ todo = <<>>
<1>1. PICK S \in SUBSET Streams, T \in SUBSET Streams :
        /\ Lists(pending, S) /\ Lists(todo, T)
        /\ S \cap T = {} /\ S \cup T = In("wait")
  BY DEF Inv, Listed
<1>2. todo = <<>>
  BY DEF Inv, Listed
<1>3. T = {}
  <2>1. ToSet(todo) = T
    BY <1>1, ListsSet
  <2> QED
    BY <1>2, <2>1 DEF ToSet
<1>4. S = In("wait")
  BY <1>1, <1>3
<1> QED
  BY <1>1, <1>2, <1>4

\* and it is enough that it does so again.
LEMMA PendingListed ==
  ASSUME todo' = <<>>, Lists(pending', In("wait")')
  PROVE  Listed'
<1> DEFINE W == In("wait")'
<1>1. W \in SUBSET Streams /\ {} \in SUBSET Streams
  BY DEF In
<1> HIDE DEF W
<1>2. Lists(todo', {})
  BY ListsNone
<1>3. W \cap {} = {} /\ W \cup {} = W
  OBVIOUS
<1> QED
  BY <1>1, <1>2, <1>3 DEF Listed, W

-----------------------------------------------------------------------------
(* Streams come and go.                                                     *)

\* A stream begins to wait.
LEMMA NewStreamKeeps ==
  ASSUME StreamIsolationAssumption, Inv, ~walking,
         NEW s \in Streams, NewStream(s)
  PROVE  Inv'
<1>1. TypeOK /\ OnShape /\ Legged
  BY DEF Inv
<1>2. strm' = [strm EXCEPT ![s].state = "wait", ![s].epoch = nym]
      /\ strm[s].state = "none"
  BY DEF NewStream
<1>3. /\ pending' = pending \o <<s>> /\ untried' \in BOOLEAN
      /\ UNCHANGED <<circ, todo, walking, opening, nym, used, shared>>
  BY <1>1 DEF NewStream, MarkPending, TypeOK
<1>4. /\ strm'[s].state = "wait" /\ strm'[s].on = strm[s].on
      /\ \A t \in Streams : t # s => strm'[t] = strm[t]
  BY <1>1, <1>2 DEF TypeOK, StreamType
<1>5. TypeOK'
  <2>1. strm' \in [Streams -> StreamType]
    <3> DEFINE r == [strm[s] EXCEPT !.state = "wait", !.epoch = nym]
    <3>1. r \in StreamType
      BY <1>1, ZenonT(30) DEF TypeOK, StreamType
    <3>2. strm' = [strm EXCEPT ![s] = r]
      BY <1>2
    <3> HIDE DEF r
    <3> QED
      BY <1>1, <3>1, <3>2 DEF TypeOK
  <2> QED
    BY <1>1, <1>3, <2>1 DEF TypeOK
<1>6. OnShape'
  BY <1>1, <1>2, <1>4 DEF OnShape
<1>7. Legged'
  BY <1>1, <1>3 DEF Legged
<1>8. EpochsKept
  BY <1>2, <1>4 DEF EpochsKept
<1>9. \A c \in Carriers : RecordKept(c)
  BY <1>3 DEF RecordKept
<1>10. (\A c \in Carriers : Fits(c) /\ Opens(c))' /\ Sharers' /\ Respected'
  BY <1>3, <1>8, <1>9, QuietStep
<1>11. Listed'
  <2>1. Lists(pending, In("wait")) /\ todo = <<>>
    BY PendingLists
  <2>2. s \notin In("wait") /\ In("wait")' = In("wait") \cup {s}
    BY <1>2, <1>4 DEF In
  <2>3. Lists(pending', In("wait")')
    <3> DEFINE W == In("wait")
               r == <<s>>
               T == {s}
    <3>1. Lists(r, T) /\ W \cap T = {} /\ pending' = pending \o r
      BY <1>3, <2>2, ListsOne
    <3>2. Lists(pending, W) /\ In("wait")' = W \cup T
      BY <2>1, <2>2
    <3> HIDE DEF r, T, W
    <3> QED
      BY <3>1, <3>2, ListsBoth
  <2> QED
    BY <1>3, <2>1, <2>3, PendingListed
<1> QED
  BY <1>5, <1>6, <1>7, <1>10, <1>11 DEF Inv

\* A step that touches no carrier.
LEMMA SteadyStep ==
  ASSUME Inv, EpochsKept, \A c \in Carriers : RecordKept(c),
         shared' = shared, UNCHANGED <<walking, opening>>
  PROVE  (\A c \in Carriers : Fits(c) /\ Opens(c))' /\ Sharers' /\ Respected'
<1>1. \A c \in Carriers : Fits(c)'
  BY KeptFits
<1>2. \A c \in Carriers : Opens(c)'
  BY DEF Inv, Opens, RecordKept
<1>3. Sharers' /\ Respected'
  BY KeptRespected
<1> QED
  BY <1>1, <1>2, <1>3

\* One stream changes.
LEMMA OneStream ==
  ASSUME TypeOK, NEW s \in Streams, NEW r \in StreamType,
         strm' = [strm EXCEPT ![s] = r]
  PROVE  /\ strm' \in [Streams -> StreamType]
         /\ strm'[s] = r
         /\ \A t \in Streams : t # s => strm'[t] = strm[t]
BY DEF TypeOK

\* A stream changes, but is neither attached nor detached by it.
LEMMA SameStream ==
  ASSUME Inv, NEW s \in Streams, NEW r \in StreamType,
         strm' = [strm EXCEPT ![s] = r],
         r.epoch = strm[s].epoch, r.on = strm[s].on,
         \/ r.state = strm[s].state
         \/ r.state = "open" /\ strm[s].state = "conn",
         UNCHANGED <<circ, pending, untried, todo, walking, opening, nym, used,
                     shared>>
  PROVE  Inv'
<1>1. TypeOK /\ OnShape /\ Legged
  BY DEF Inv
<1>2. /\ strm' \in [Streams -> StreamType]
      /\ strm'[s] = r
      /\ \A t \in Streams : t # s => strm'[t] = strm[t]
  BY <1>1, OneStream
<1>3. TypeOK'
  BY <1>1, <1>2 DEF TypeOK
<1>4. OnShape'
  BY <1>1, <1>2 DEF OnShape
<1>5. Legged'
  BY <1>1 DEF Legged
<1>6. EpochsKept
  BY <1>2 DEF EpochsKept
<1>7. \A c \in Carriers : RecordKept(c)
  BY DEF RecordKept
<1>8. (\A c \in Carriers : Fits(c) /\ Opens(c))' /\ Sharers' /\ Respected'
  BY <1>6, <1>7, SteadyStep
<1>9. In("wait")' = In("wait")
  BY <1>2 DEF In
<1>10. Listed'
  BY <1>9, ListsKept
<1> QED
  BY <1>3, <1>4, <1>5, <1>8, <1>10 DEF Inv

\* CONNECTED arrives.
LEMMA ConnectedKeeps ==
  ASSUME Inv, NEW s \in Streams, Connected(s)
  PROVE  Inv'
<1> DEFINE r == [strm[s] EXCEPT !.state = "open"]
<1>1. strm[s] \in StreamType
  BY DEF Inv, TypeOK
<1>2. /\ r \in StreamType /\ r.epoch = strm[s].epoch /\ r.on = strm[s].on
      /\ r.state = "open" /\ strm[s].state = "conn"
  BY <1>1 DEF StreamType, Connected
<1>3. strm' = [strm EXCEPT ![s] = r]
  BY DEF Connected
<1> HIDE DEF r
<1> QED
  BY <1>2, <1>3, SameStream DEF Connected

\* SocksTimeout passes.
LEMMA AgeKeeps ==
  ASSUME Inv, NEW s \in Streams, Age(s)
  PROVE  Inv'
<1> DEFINE r == [strm[s] EXCEPT !.old = TRUE]
<1>1. strm[s] \in StreamType
  BY DEF Inv, TypeOK
<1>2. /\ r \in StreamType /\ r.epoch = strm[s].epoch /\ r.on = strm[s].on
      /\ r.state = strm[s].state
  BY <1>1 DEF StreamType
<1>3. strm' = [strm EXCEPT ![s] = r]
  BY DEF Age
<1> HIDE DEF r
<1> QED
  BY <1>2, <1>3, SameStream DEF Age

\* The retry timeout passes.
LEMMA NoAnswerKeeps ==
  ASSUME Inv, NEW s \in Streams, NoAnswer(s)
  PROVE  Inv'
<1> DEFINE r == [strm[s] EXCEPT !.idle = TRUE]
<1>1. strm[s] \in StreamType
  BY DEF Inv, TypeOK
<1>2. /\ r \in StreamType /\ r.epoch = strm[s].epoch /\ r.on = strm[s].on
      /\ r.state = strm[s].state
  BY <1>1 DEF StreamType
<1>3. strm' = [strm EXCEPT ![s] = r]
  BY DEF NoAnswer
<1> HIDE DEF r
<1> QED
  BY <1>2, <1>3, SameStream DEF NoAnswer

\* A stream that is closed leaves the list, if it is there.
LEMMA StreamClosesKeeps ==
  ASSUME StreamIsolationAssumption, Inv, ~walking, NEW s \in Streams, Close(s)
  PROVE  Inv'
<1> DEFINE r == [strm[s] EXCEPT !.state = "closed", !.on = None]
<1>1. TypeOK /\ OnShape /\ Legged
  BY DEF Inv
<1>2. /\ r \in StreamType /\ r.epoch = strm[s].epoch /\ r.on = None
      /\ r.state = "closed"
  BY <1>1 DEF StreamType, TypeOK
<1>3. /\ strm' = [strm EXCEPT ![s] = r]
      /\ UNCHANGED <<circ, untried, todo, walking, opening, nym, used, shared>>
  BY DEF Close
<1> HIDE DEF r
<1>4. /\ strm' \in [Streams -> StreamType]
      /\ strm'[s] = r
      /\ \A t \in Streams : t # s => strm'[t] = strm[t]
  BY <1>1, <1>2, <1>3, OneStream
<1>5. TypeOK'
  BY <1>1, <1>3, <1>4 DEF TypeOK
<1>6. OnShape'
  BY <1>1, <1>2, <1>4 DEF OnShape
<1>7. Legged'
  BY <1>1, <1>3 DEF Legged
<1>8. EpochsKept
  BY <1>2, <1>4 DEF EpochsKept
<1>9. \A c \in Carriers : RecordKept(c)
  BY <1>3 DEF RecordKept
<1>10. (\A c \in Carriers : Fits(c) /\ Opens(c))' /\ Sharers' /\ Respected'
  BY <1>3, <1>8, <1>9, SteadyStep
<1>11. Listed'
  <2>1. Lists(pending, In("wait")) /\ todo = <<>>
    BY PendingLists
  <2>2. In("wait")' = In("wait") \ {s}
    BY <1>2, <1>4 DEF In
  <2>3. Contains(pending, s) <=> s \in In("wait")
    BY <2>1 DEF Lists, Contains
  <2>4. CASE s \in In("wait")
    <3> DEFINE k == CHOOSE i \in DOMAIN pending : pending[i] = s
    <3>1. DOMAIN pending = 1 .. Len(pending)
      BY <2>1, ListsSet
    <3>2. k \in 1 .. Len(pending) /\ pending[k] = s
      BY <2>3, <2>4, <3>1 DEF Contains
    <3>3. pending' = Without(pending, k)
      BY <2>3, <2>4 DEF Close
    <3> HIDE DEF k
    <3>4. Lists(pending', In("wait") \ {s})
      BY <2>1, <3>2, <3>3, ListsWithout
    <3> QED
      BY <1>3, <2>1, <2>2, <3>4, PendingListed
  <2>5. CASE s \notin In("wait")
    <3>1. pending' = pending /\ In("wait")' = In("wait")
      BY <2>2, <2>3, <2>5 DEF Close
    <3> QED
      BY <1>3, <3>1, ListsKept
  <2> QED
    BY <2>4, <2>5
<1> QED
  BY <1>5, <1>6, <1>7, <1>10, <1>11 DEF Inv

\* One more stream waits outside a walk, and is put on the list.
LEMMA MarkedPending ==
  ASSUME Inv, ~walking, NEW s \in Streams, s \notin In("wait"),
         In("wait")' = In("wait") \cup {s}, pending' = pending \o <<s>>,
         UNCHANGED todo
  PROVE  Listed'
<1> DEFINE W == In("wait")
           r == <<s>>
           T == {s}
<1>1. Lists(r, T) /\ W \cap T = {} /\ pending' = pending \o r
  BY ListsOne
<1>2. Lists(pending, W) /\ In("wait")' = W \cup T /\ todo' = <<>>
  BY PendingLists
<1> HIDE DEF r, T, W
<1>3. Lists(pending \o r, W \cup T)
  BY <1>1, <1>2, ListsBoth
<1>4. Lists(pending', In("wait")')
  BY <1>1, <1>2, <1>3
<1> QED
  BY <1>2, <1>4, PendingListed

\* One carrier changes.
LEMMA OneCarrier ==
  ASSUME TypeOK, NEW c \in Carriers, NEW k \in CarrierType,
         circ' = [circ EXCEPT ![c] = k]
  PROVE  /\ circ' \in [Carriers -> CarrierType]
         /\ circ'[c] = k
         /\ \A d \in Carriers : d # c => circ'[d] = circ[d]
BY DEF TypeOK

\* An END before the stream is open.
LEMMA EndNotOpenKeeps ==
  ASSUME StreamIsolationAssumption, Inv, ~walking,
         NEW s \in Streams, EndNotOpen(s)
  PROVE  Inv'
<1> DEFINE c == strm[s].on
<1>1. TypeOK /\ OnShape /\ Legged
  BY DEF Inv
<1>2. strm[s].state = "conn" /\ strm[s] \in StreamType
  BY <1>1 DEF EndNotOpen, TypeOK
<1>3. c \in Carriers /\ circ[c] \in CarrierType
  BY <1>1, <1>2 DEF OnShape, TypeOK, StreamType
<1>4. UNCHANGED <<todo, walking, opening, nym, used, shared>>
  BY DEF EndNotOpen
<1>5. s \notin In("wait")
  BY <1>2 DEF In
<1>6. CASE /\ strm' = [strm EXCEPT ![s].state = "closed", ![s].on = None]
           /\ UNCHANGED <<circ, pending, untried>>
  <2> DEFINE r == [strm[s] EXCEPT !.state = "closed", !.on = None]
  <2>1. /\ r \in StreamType /\ r.epoch = strm[s].epoch /\ r.on = None
        /\ r.state = "closed"
    BY <1>2 DEF StreamType
  <2>2. strm' = [strm EXCEPT ![s] = r]
    BY <1>6
  <2> HIDE DEF r
  <2>3. /\ strm' \in [Streams -> StreamType]
        /\ strm'[s] = r
        /\ \A t \in Streams : t # s => strm'[t] = strm[t]
    BY <1>1, <2>1, <2>2, OneStream
  <2>4. TypeOK'
    BY <1>1, <1>4, <1>6, <2>3 DEF TypeOK
  <2>5. OnShape'
    BY <1>1, <2>1, <2>3 DEF OnShape
  <2>6. Legged'
    BY <1>1, <1>6 DEF Legged
  <2>7. EpochsKept
    BY <2>1, <2>3 DEF EpochsKept
  <2>8. \A d \in Carriers : RecordKept(d)
    BY <1>4, <1>6 DEF RecordKept
  <2>9. (\A d \in Carriers : Fits(d) /\ Opens(d))' /\ Sharers' /\ Respected'
    BY <1>4, <2>7, <2>8, SteadyStep
  <2>10. In("wait")' = In("wait")
    BY <1>5, <2>1, <2>3 DEF In
  <2>11. Listed'
    BY <1>4, <1>6, <2>10, ListsKept
  <2> QED
    BY <2>4, <2>5, <2>6, <2>9, <2>11 DEF Inv
<1>7. CASE /\ \/ \E r \in {{s}, Streams} :
                   circ' = [circ EXCEPT ![c].refuses = @ \cup r]
              \/ circ' = [circ EXCEPT ![c].unusable = TRUE, ![c].dirty = TRUE]
           /\ strm' = Detached({s})
           /\ MarkPending(<<s>>)
  <2> DEFINE r == [strm[s] EXCEPT !.state = "wait", !.on = None, !.idle = FALSE]
  <2>1. /\ r \in StreamType /\ r.epoch = strm[s].epoch /\ r.on = None
        /\ r.state = "wait"
    BY <1>2 DEF StreamType
  <2>2. strm' = [strm EXCEPT ![s] = r]
    BY <1>1, <1>7 DEF Detached, TypeOK
  <2> HIDE DEF r
  <2>3. /\ strm' \in [Streams -> StreamType]
        /\ strm'[s] = r
        /\ \A t \in Streams : t # s => strm'[t] = strm[t]
    BY <1>1, <2>1, <2>2, OneStream
  <2>4. PICK k \in CarrierType :
          /\ circ' = [circ EXCEPT ![c] = k]
          /\ k.phase = circ[c].phase /\ k.legs = circ[c].legs
    <3>1. CASE \E q \in {{s}, Streams} :
                 circ' = [circ EXCEPT ![c].refuses = @ \cup q]
      <4>1. PICK q \in {{s}, Streams} :
              circ' = [circ EXCEPT ![c].refuses = @ \cup q]
        BY <3>1
      <4> DEFINE j == [circ[c] EXCEPT !.refuses = circ[c].refuses \cup q]
      <4>2. /\ j \in CarrierType
            /\ j.phase = circ[c].phase /\ j.legs = circ[c].legs
        BY <1>3 DEF CarrierType
      <4>3. circ' = [circ EXCEPT ![c] = j]
        BY <4>1
      <4> QED
        BY <4>2, <4>3
    <3>2. CASE circ' = [circ EXCEPT ![c].unusable = TRUE, ![c].dirty = TRUE]
      <4> DEFINE j == [circ[c] EXCEPT !.unusable = TRUE, !.dirty = TRUE]
      <4>2. /\ j \in CarrierType
            /\ j.phase = circ[c].phase /\ j.legs = circ[c].legs
        BY <1>3 DEF CarrierType
      <4>3. circ' = [circ EXCEPT ![c] = j]
        BY <3>2
      <4> QED
        BY <4>2, <4>3
    <3> QED
      BY <1>7, <3>1, <3>2
  <2> HIDE DEF c
  <2>5. /\ circ' \in [Carriers -> CarrierType]
        /\ circ'[c] = k
        /\ \A d \in Carriers : d # c => circ'[d] = circ[d]
    BY <1>1, <1>3, <2>4, OneCarrier
  <2>6. pending' = pending \o <<s>> /\ untried' \in BOOLEAN
    BY <1>1, <1>7 DEF MarkPending, TypeOK
  <2>7. TypeOK'
    BY <1>1, <1>4, <2>3, <2>5, <2>6 DEF TypeOK
  <2>8. OnShape'
    BY <1>1, <2>1, <2>3 DEF OnShape
  <2>9. \A d \in Carriers : RecordKept(d)
    BY <1>4, <2>4, <2>5 DEF RecordKept
  <2>10. Legged'
    BY <1>1, <2>9 DEF Legged, RecordKept
  <2>11. EpochsKept
    BY <2>1, <2>3 DEF EpochsKept
  <2>12. (\A d \in Carriers : Fits(d) /\ Opens(d))' /\ Sharers' /\ Respected'
    BY <1>4, <2>9, <2>11, SteadyStep
  <2>13. In("wait")' = In("wait") \cup {s}
    BY <2>1, <2>3 DEF In
  <2>14. Listed'
    BY <1>4, <1>5, <2>6, <2>13, MarkedPending
  <2> QED
    BY <2>7, <2>8, <2>10, <2>12, <2>14 DEF Inv
<1> QED
  BY <1>6, <1>7 DEF EndNotOpen

\* Streams that have waited too long are closed, and attached ones without an
\* answer wait again.
LEMMA ExpireKeeps ==
  ASSUME StreamIsolationAssumption, Inv, ~walking, Expire
  PROVE  Inv'
<1> DEFINE stale == {s \in In("conn") : strm[s].idle}
<1>1. TypeOK /\ OnShape /\ Legged
  BY DEF Inv
<1>2. \A s \in Streams :
        strm'[s] = IF s \in Dead THEN [strm[s] EXCEPT !.state = "closed"]
                   ELSE IF s \in stale
                   THEN [strm[s] EXCEPT !.state = "wait", !.on = None,
                                        !.idle = FALSE]
                   ELSE strm[s]
  BY DEF Expire, Detached
<1>3. UNCHANGED <<todo, walking, opening, nym, used, shared>>
  BY DEF Expire
<1>4. /\ \A s \in Dead : s \in Streams /\ strm[s].state = "wait"
      /\ \A s \in stale : s \in Streams /\ strm[s].state = "conn"
  BY DEF Dead, In
<1> HIDE DEF stale
<1>5. ASSUME NEW s \in Streams
      PROVE  /\ strm'[s] \in StreamType /\ strm'[s].epoch = strm[s].epoch
             /\ strm[s].state # "none" => strm'[s].state # "none"
             /\ strm'[s].on # None <=> strm'[s].state \in {"conn", "open"}
             /\ strm'[s].state = "wait" <=>
                  \/ s \in In("wait") /\ s \notin Dead
                  \/ s \in stale
  <2>1. strm[s] \in StreamType
    BY <1>1 DEF TypeOK
  <2>2. CASE s \in Dead
    <3>1. strm'[s] = [strm[s] EXCEPT !.state = "closed"]
      BY <1>2, <2>2
    <3>2. strm[s].state = "wait" /\ s \notin stale
      BY <1>4, <2>2
    <3>3. strm[s].on = None
      BY <1>1, <3>2 DEF OnShape
    <3> QED
      BY <2>1, <2>2, <3>1, <3>2, <3>3 DEF StreamType
  <2>3. CASE s \in stale /\ s \notin Dead
    <3>1. strm'[s] = [strm[s] EXCEPT !.state = "wait", !.on = None,
                                     !.idle = FALSE]
      BY <1>2, <2>3
    <3> QED
      BY <2>1, <2>3, <3>1 DEF StreamType
  <2>4. CASE s \notin stale /\ s \notin Dead
    <3>1. strm'[s] = strm[s]
      BY <1>2, <2>4
    <3> QED
      BY <1>1, <2>1, <2>4, <3>1 DEF OnShape, In
  <2> QED
    BY <2>2, <2>3, <2>4
<1>6. strm' \in [Streams -> StreamType]
  <2>1. strm' = [s \in Streams |-> strm'[s]]
    BY DEF Expire
  <2> QED
    BY <1>5, <2>1
<1>7. ASSUME NEW c \in Carriers
      PROVE  /\ circ'[c] \in CarrierType
             /\ circ'[c].phase = circ[c].phase /\ circ'[c].legs = circ[c].legs
  <2>1. circ[c] \in CarrierType
    BY <1>1 DEF TypeOK
  <2>2. \/ circ'[c] = circ[c]
        \/ circ'[c] = [circ[c] EXCEPT !.unusable = TRUE, !.dirty = TRUE]
    BY DEF Expire
  <2> QED
    BY <2>1, <2>2 DEF CarrierType
<1>8. circ' \in [Carriers -> CarrierType]
  <2>1. circ' = [c \in Carriers |-> circ'[c]]
    BY DEF Expire
  <2> QED
    BY <1>7, <2>1
<1>9. untried' \in BOOLEAN
  BY <1>1 DEF Expire, TypeOK
<1>10. TypeOK'
  BY <1>1, <1>3, <1>6, <1>8, <1>9 DEF TypeOK
<1>11. OnShape' /\ EpochsKept
  BY <1>5 DEF OnShape, EpochsKept
<1>12. \A c \in Carriers : RecordKept(c)
  BY <1>3, <1>7 DEF RecordKept
<1>13. Legged'
  BY <1>1, <1>7 DEF Legged
<1>14. (\A c \in Carriers : Fits(c) /\ Opens(c))' /\ Sharers' /\ Respected'
  BY <1>3, <1>11, <1>12, SteadyStep
<1>15. Listed'
  <2> DEFINE W == In("wait")
             L == W \ Dead
  <2>1. Lists(pending, W) /\ todo = <<>>
    BY PendingLists
  <2>2. ToSet(pending) = W
    BY <2>1, ListsSet
  <2>3. PICK left \in SetToSeqs(L), more \in SetToSeqs(stale) :
          pending' = left \o more
    BY <2>2 DEF Expire, stale
  <2>4. IsFiniteSet(L) /\ IsFiniteSet(stale)
    <3>1. IsFiniteSet(Streams) /\ L \in SUBSET Streams /\ stale \in SUBSET Streams
      BY <1>4 DEF StreamIsolationAssumption, In
    <3> HIDE DEF L
    <3> QED
      BY <3>1, FS_Subset
  <2>5. L \cap stale = {}
    BY <1>4 DEF In
  <2>6. In("wait")' = L \cup stale
    BY <1>4, <1>5 DEF In
  <2> HIDE DEF L, W
  <2>7. Lists(left, L) /\ Lists(more, stale)
    BY <2>3, <2>4, ListsOrder
  <2>8. Lists(pending', In("wait")')
    BY <2>3, <2>5, <2>6, <2>7, ListsBoth
  <2> QED
    BY <1>3, <2>1, <2>8, PendingListed
<1> QED
  BY <1>10, <1>11, <1>13, <1>14, <1>15 DEF Inv

-----------------------------------------------------------------------------
(* Carriers come and go.                                                    *)

\* Who waits depends on the streams alone.
LEMMA SameWait ==
  ASSUME UNCHANGED strm
  PROVE  In("wait")' = In("wait") /\ (OnShape => OnShape') /\ EpochsKept
BY DEF In, OnShape, EpochsKept

\* A carrier that is not open has not been used.
LEMMA UnusedYet ==
  ASSUME Inv, NEW c \in Carriers, circ[c].phase # "open"
  PROVE  used[c] = {}
BY DEF Inv, Fits

\* A step outside a walk that changes carriers and no stream.
LEMMA CarrierStep ==
  ASSUME Inv, ~walking, UNCHANGED strm,
         circ' \in [Carriers -> CarrierType],
         used' \in [Carriers -> SUBSET Streams],
         \A c \in Carriers : RecordKept(c) \/ Clean(c),
         Legged', Listed', shared' \in {shared, {}},
         untried' \in BOOLEAN, walking' \in BOOLEAN,
         opening' \in Carriers \cup {None}, nym' \in Nat
  PROVE  Inv'
<1>1. TypeOK /\ OnShape
  BY DEF Inv
<1>2. TypeOK'
  BY <1>1 DEF TypeOK
<1>3. OnShape' /\ EpochsKept
  BY <1>1, SameWait
<1>4. (\A c \in Carriers : Fits(c) /\ Opens(c))' /\ Sharers' /\ Respected'
  BY <1>3, QuietStep
<1> QED
  BY <1>2, <1>3, <1>4 DEF Inv

\* A carrier appears, with one leg and no marks.
LEMMA NewCarrier ==
  ASSUME Inv, NEW c \in Carriers, circ[c].phase = "none",
         NEW k \in CarrierType, circ' = [circ EXCEPT ![c] = k],
         Len(k.legs) = 1, ~k.legs[1].set, UNCHANGED used
  PROVE  /\ circ' \in [Carriers -> CarrierType]
         /\ Legged'
         /\ \A d \in Carriers : RecordKept(d) \/ Clean(d)
<1>1. TypeOK /\ Legged
  BY DEF Inv
<1>2. /\ circ' \in [Carriers -> CarrierType]
      /\ circ'[c] = k
      /\ \A d \in Carriers : d # c => circ'[d] = circ[d]
  BY <1>1, OneCarrier
<1>3. Legged'
  BY <1>1, <1>2 DEF Legged
<1>4. used'[c] = {}
  BY UnusedYet
<1> QED
  BY <1>2, <1>3, <1>4 DEF RecordKept, Clean

\* An unmarked record.
LEMMA FreshIsIso ==
  Fresh \in Iso /\ ~Fresh.set /\ <<Fresh>> \in Seq(Iso)
<1>1. Fresh \in Iso /\ ~Fresh.set
  BY DEF Fresh, Iso
<1> HIDE DEF Fresh
<1> QED
  BY <1>1

\* A circuit is launched ahead of need.
LEMMA PredictKeeps ==
  ASSUME Inv, ~walking, NEW c \in Plain, Predict(c)
  PROVE  Inv'
<1>1. c \in Carriers /\ TypeOK
  BY DEF Carriers, Inv
<1>2. /\ Launched \in CarrierType /\ Len(Launched.legs) = 1
      /\ ~Launched.legs[1].set
  <2>1. <<Fresh>> \in Seq(Iso) /\ ~Fresh.set
    BY FreshIsIso
  <2> DEFINE q == <<Fresh>>
  <2>2. Launched = [Unused EXCEPT !.phase = "building", !.legs = q]
    BY DEF Launched
  <2> HIDE DEF Fresh
  <2>3. Len(q) = 1 /\ q[1] = Fresh
    OBVIOUS
  <2> HIDE DEF q
  <2>4. Launched = [phase |-> "building", legs |-> q, unusable |-> FALSE,
                    dirty |-> FALSE, refuses |-> {}]
    BY <2>2 DEF Unused
  <2> QED
    BY <2>1, <2>3, <2>4 DEF CarrierType, q
<1>3. /\ circ[c].phase = "none" /\ circ' = [circ EXCEPT ![c] = Launched]
      /\ UNCHANGED <<strm, pending, untried, todo, walking, opening, nym, used,
                     shared>>
  BY DEF Predict
<1>4. /\ circ' \in [Carriers -> CarrierType]
      /\ Legged'
      /\ \A d \in Carriers : RecordKept(d) \/ Clean(d)
  BY <1>1, <1>2, <1>3, NewCarrier
<1>5. Listed'
  BY <1>3, SameWait, ListsKept
<1> QED
  BY <1>1, <1>3, <1>4, <1>5, CarrierStep DEF TypeOK

\* A walk begins outside a walk: what it needs of the lists.
LEMMA WalkBegins ==
  ASSUME Inv, ~walking, NEW c \in Carriers \cup {None}, Walk(c)
  PROVE  /\ Listed' /\ walking' = TRUE /\ opening' = c
         /\ opening' \in Carriers \cup {None}
         /\ shared' = {} /\ UNCHANGED <<strm, nym, used>>
<1>1. todo = <<>>
  BY PendingLists
<1>2. /\ walking' = TRUE /\ opening' = c
      /\ todo' = pending /\ pending' = <<>>
      /\ shared' = {} /\ UNCHANGED <<strm, nym, used>>
  BY DEF Walk
<1>3. Listed'
  BY <1>1, <1>2, SameWait, WalkLists
<1> QED
  BY <1>2, <1>3

\* A conflux set is linked.
LEMMA SetLinksKeeps ==
  ASSUME OneLeg, Inv, ~walking, NEW c \in Sets, SetLinks(c)
  PROVE  Inv'
<1>1. c \in Carriers /\ TypeOK /\ MaxLegs = 1
  BY DEF Carriers, Inv, OneLeg
<1> DEFINE k == [Unused EXCEPT !.phase = "open",
                               !.legs = [i \in 1 .. MaxLegs |-> Fresh]]
<1>2. /\ k \in CarrierType /\ Len(k.legs) = 1 /\ ~k.legs[1].set
  <2>1. <<Fresh>> \in Seq(Iso) /\ ~Fresh.set
    BY FreshIsIso
  <2>2. [i \in 1 .. MaxLegs |-> Fresh] = <<Fresh>>
    <3> HIDE DEF Fresh
    <3> QED
      BY <1>1
  <2> DEFINE q == <<Fresh>>
  <2>3. k = [Unused EXCEPT !.phase = "open", !.legs = q]
    BY <2>2
  <2> HIDE DEF Fresh, k
  <2>4. Len(q) = 1 /\ q[1] = Fresh
    OBVIOUS
  <2> HIDE DEF q
  <2>5. k = [phase |-> "open", legs |-> q, unusable |-> FALSE,
             dirty |-> FALSE, refuses |-> {}]
    BY <2>3 DEF Unused
  <2> QED
    BY <2>1, <2>4, <2>5 DEF CarrierType, q
<1>3. /\ circ[c].phase = "none" /\ circ' = [circ EXCEPT ![c] = k]
      /\ Walk(None) /\ UNCHANGED untried
  BY DEF SetLinks
<1> HIDE DEF k
<1>4. /\ Listed' /\ walking' = TRUE /\ opening' \in Carriers \cup {None}
      /\ shared' = {} /\ UNCHANGED <<strm, nym, used>>
  BY <1>3, WalkBegins
<1>5. /\ circ' \in [Carriers -> CarrierType]
      /\ Legged'
      /\ \A d \in Carriers : RecordKept(d) \/ Clean(d)
  BY <1>1, <1>2, <1>3, <1>4, NewCarrier
<1> QED
  BY <1>1, <1>3, <1>4, <1>5, CarrierStep DEF TypeOK

\* No leg joins a carrier that has the one leg it may have.
LEMMA NoLegLinks ==
  ASSUME OneLeg, Inv, NEW c \in Sets, LegLinks(c)
  PROVE  FALSE
BY DEF OneLeg, Inv, Legged, LegLinks, Carriers

\* The event that a new pending stream activated starts a walk.
LEMMA AttachEventKeeps ==
  ASSUME Inv, ~walking, AttachEvent
  PROVE  Inv'
<1>1. Walk(None) /\ UNCHANGED <<circ, untried>> /\ TypeOK /\ Legged
  BY DEF AttachEvent, Inv
<1>2. /\ Listed' /\ walking' = TRUE /\ opening' \in Carriers \cup {None}
      /\ shared' = {} /\ UNCHANGED <<strm, nym, used>>
  BY <1>1, WalkBegins
<1>3. Legged' /\ \A c \in Carriers : RecordKept(c)
  BY <1>1, <1>2 DEF Legged, RecordKept
<1> QED
  BY <1>1, <1>2, <1>3, CarrierStep DEF TypeOK

\* Once a second: nothing is missing from the list.
LEMMA RescanKeeps ==
  ASSUME StreamIsolationAssumption, Inv, ~walking, Rescan
  PROVE  Inv'
<1> DEFINE W == In("wait")
           M == W \ ToSet(pending)
<1>1. PICK lost \in SetToSeqs(M) :
        /\ todo' = pending \o lost
        /\ untried' = (untried \/ lost # <<>>)
  BY DEF Rescan
<1>2. /\ walking' = TRUE /\ opening' = None /\ pending' = <<>>
      /\ UNCHANGED <<strm, circ, nym, used, shared>>
  BY DEF Rescan
<1>3. Lists(pending, W) /\ todo = <<>>
  BY PendingLists
<1>4. M = {}
  BY <1>3, ListsSet
<1>5. lost = <<>>
  <2>1. lost \in SetToSeqs({}) /\ IsFiniteSet({})
    BY <1>1, <1>4, FS_EmptySet
  <2> HIDE DEF M
  <2>2. Lists(lost, {})
    BY <2>1, ListsOrder
  <2> QED
    BY <2>2, NoneListed
<1>6. todo' = pending /\ untried' \in BOOLEAN
  <2>1. pending \in Seq(W)
    BY <1>3 DEF Lists
  <2> QED
    BY <1>1, <1>5, <2>1 DEF Inv, TypeOK
<1>7. Listed'
  BY <1>2, <1>3, <1>6, SameWait, WalkLists
<1>8. TypeOK /\ Legged' /\ \A c \in Carriers : RecordKept(c)
  BY <1>2 DEF Legged, RecordKept, Inv
<1> QED
  BY <1>2, <1>6, <1>7, <1>8, CarrierStep DEF TypeOK

\* A circuit is built; no stream has used it yet, and a walk for it begins.
LEMMA CircOpensKeeps ==
  ASSUME Inv, ~walking, NEW c \in Plain, CircOpens(c)
  PROVE  Inv'
<1> DEFINE k == [circ[c] EXCEPT !.phase = "open"]
<1>1. c \in Carriers /\ TypeOK /\ OnShape /\ Legged
  BY DEF Carriers, Inv
<1>2. /\ circ[c].phase = "building" /\ circ' = [circ EXCEPT ![c] = k]
      /\ Walk(c) /\ UNCHANGED untried
  BY DEF CircOpens
<1>3. k \in CarrierType /\ k.legs = circ[c].legs
  BY <1>1 DEF TypeOK, CarrierType
<1> HIDE DEF k
<1>4. /\ Listed' /\ walking' = TRUE /\ opening' = c
      /\ opening' \in Carriers \cup {None}
      /\ shared' = {} /\ UNCHANGED <<strm, nym, used>>
  BY <1>1, <1>2, WalkBegins
<1>5. /\ circ' \in [Carriers -> CarrierType]
      /\ circ'[c] = k
      /\ \A d \in Carriers : d # c => circ'[d] = circ[d]
  BY <1>1, <1>2, <1>3, OneCarrier
<1>6. TypeOK'
  BY <1>1, <1>2, <1>4, <1>5 DEF TypeOK
<1>7. OnShape' /\ EpochsKept
  BY <1>1, <1>4, SameWait
<1>8. Legged'
  BY <1>1, <1>2, <1>3, <1>5 DEF Legged
<1>9. \A d \in Carriers : d # c => RecordKept(d)
  BY <1>4, <1>5 DEF RecordKept
<1>10. used'[c] = {}
  BY <1>1, <1>2, <1>4, UnusedYet
<1>11. \A d \in Carriers : Fits(d)'
  <2>1. \A d \in Carriers : d # c => Fits(d)'
    BY <1>7, <1>9, KeptFits
  <2>2. Fits(c)'
    BY <1>10 DEF Fits
  <2> QED
    BY <2>1, <2>2
<1>12. \A d \in Carriers : Opens(d)'
  <2>1. \A d \in Carriers : d # c => Opens(d)'
    BY <1>9 DEF Inv, Opens, RecordKept
  <2>2. Opens(c)'
    BY <1>4 DEF Opens
  <2> QED
    BY <2>1, <2>2
<1>13. Sharers' /\ Respected'
  BY <1>4, <1>7, KeptRespected
<1> QED
  BY <1>4, <1>6, <1>7, <1>8, <1>11, <1>12, <1>13 DEF Inv

\* NEWNYM: the flags of carriers change, their records do not.
LEMMA NewNymKeeps ==
  ASSUME Inv, ~walking, NewNym
  PROVE  Inv'
<1>1. TypeOK /\ Legged
  BY DEF Inv
<1>2. /\ nym' = nym + 1
      /\ UNCHANGED <<strm, pending, untried, todo, walking, opening, used,
                     shared>>
  BY DEF NewNym
<1>3. ASSUME NEW c \in Carriers
      PROVE  /\ circ'[c] \in CarrierType
             /\ circ'[c].phase = circ[c].phase /\ circ'[c].legs = circ[c].legs
  <2>1. circ[c] \in CarrierType
    BY <1>1 DEF TypeOK
  <2> DEFINE u == circ[c].unusable \/ circ[c].dirty
  <2>2. circ'[c] = [circ[c] EXCEPT !.unusable = u] /\ u \in BOOLEAN
    BY DEF NewNym
  <2> HIDE DEF u
  <2> QED
    BY <2>1, <2>2 DEF CarrierType
<1>4. circ' \in [Carriers -> CarrierType]
  <2>1. circ' = [c \in Carriers |-> circ'[c]]
    BY DEF NewNym
  <2> QED
    BY <1>3, <2>1
<1>5. Legged' /\ \A c \in Carriers : RecordKept(c)
  BY <1>1, <1>2, <1>3 DEF Legged, RecordKept
<1>6. Listed'
  BY <1>2, SameWait, ListsKept
<1> QED
  BY <1>1, <1>2, <1>4, <1>5, <1>6, CarrierStep DEF TypeOK

\* A carrier goes, and the streams on it are closed.
LEMMA GoneKeeps ==
  ASSUME StreamIsolationAssumption, Inv, ~walking, NEW c \in Carriers, Gone(c),
         UNCHANGED <<pending, untried, todo, walking, opening, nym, shared>>
  PROVE  Inv'
<1>1. TypeOK /\ OnShape /\ Legged
  BY DEF Inv
<1>2. /\ circ' = [circ EXCEPT ![c] = Unused]
      /\ used' = [used EXCEPT ![c] = {}]
  BY DEF Gone
<1>3. \A s \in Streams :
        strm'[s] = IF strm[s].on = c
                   THEN [strm[s] EXCEPT !.state = "closed", !.on = None]
                   ELSE strm[s]
  BY DEF Gone
<1>4. ASSUME NEW s \in Streams
      PROVE  /\ strm'[s] \in StreamType /\ strm'[s].epoch = strm[s].epoch
             /\ strm[s].state # "none" => strm'[s].state # "none"
             /\ strm'[s].on # None <=> strm'[s].state \in {"conn", "open"}
             /\ strm'[s].state = "wait" <=> strm[s].state = "wait"
  <2>1. strm[s] \in StreamType
    BY <1>1 DEF TypeOK
  <2>2. CASE strm[s].on = c
    <3>1. strm'[s] = [strm[s] EXCEPT !.state = "closed", !.on = None]
      BY <1>3, <2>2
    <3>2. strm[s].state \in {"conn", "open"}
      BY <1>1, <2>2 DEF OnShape, StreamIsolationAssumption
    <3> QED
      BY <2>1, <3>1, <3>2 DEF StreamType
  <2>3. CASE strm[s].on # c
    <3>1. strm'[s] = strm[s]
      BY <1>3, <2>3
    <3> QED
      BY <1>1, <2>1, <3>1 DEF OnShape
  <2> QED
    BY <2>2, <2>3
<1>5. strm' \in [Streams -> StreamType]
  <2>1. strm' = [s \in Streams |-> strm'[s]]
    BY DEF Gone
  <2> QED
    BY <1>4, <2>1
<1>6. Unused \in CarrierType /\ Unused.phase = "none"
  <2>1. <<>> \in Seq(Iso)
    OBVIOUS
  <2> QED
    BY <2>1 DEF Unused, CarrierType
<1> HIDE DEF Unused
<1>7. /\ circ' \in [Carriers -> CarrierType]
      /\ circ'[c] = Unused
      /\ \A d \in Carriers : d # c => circ'[d] = circ[d]
  BY <1>1, <1>2, <1>6, OneCarrier
<1>8. used' \in [Carriers -> SUBSET Streams]
  BY <1>1, <1>2 DEF TypeOK
<1>9. TypeOK'
  BY <1>1, <1>5, <1>7, <1>8 DEF TypeOK
<1>10. OnShape' /\ EpochsKept /\ In("wait")' = In("wait")
  BY <1>4 DEF OnShape, EpochsKept, In
<1>11. Legged'
  BY <1>1, <1>6, <1>7 DEF Legged
<1>12. \A d \in Carriers : RecordKept(d) \/ Clean(d)
  BY <1>1, <1>2, <1>6, <1>7 DEF RecordKept, Clean, TypeOK
<1>13. (\A d \in Carriers : Fits(d) /\ Opens(d))' /\ Sharers' /\ Respected'
  BY <1>10, <1>12, QuietStep
<1>14. Listed'
  BY <1>10, ListsKept
<1> QED
  BY <1>9, <1>10, <1>11, <1>13, <1>14 DEF Inv

\* The one leg of a carrier closes, and the carrier with it.
LEMMA LegClosesKeeps ==
  ASSUME StreamIsolationAssumption, Inv, ~walking,
         NEW c \in Carriers, LegCloses(c)
  PROVE  Inv'
<1>1. Len(circ[c].legs) = 1
  BY DEF Inv, Legged, LegCloses
<1>2. /\ Gone(c)
      /\ UNCHANGED <<pending, untried, todo, walking, opening, nym, shared>>
  BY <1>1 DEF LegCloses
<1> QED
  BY <1>2, GoneKeeps

\* A circuit is not built.
LEMMA BuildFailsKeeps ==
  ASSUME StreamIsolationAssumption, Inv, ~walking,
         NEW c \in Plain, BuildFails(c)
  PROVE  Inv'
BY GoneKeeps DEF BuildFails, Carriers

\* An unused circuit is closed, a dirty one takes no other stream.
LEMMA CircExpiresKeeps ==
  ASSUME StreamIsolationAssumption, Inv, ~walking,
         NEW c \in Carriers, CircExpires(c)
  PROVE  Inv'
<1>1. UNCHANGED <<pending, untried, todo, walking, opening, nym, shared>>
  BY DEF CircExpires
<1>2. CASE Gone(c)
  BY <1>1, <1>2, GoneKeeps
<1>3. CASE /\ circ' = [circ EXCEPT ![c].unusable = TRUE]
           /\ UNCHANGED <<strm, used>>
  <2> DEFINE k == [circ[c] EXCEPT !.unusable = TRUE]
  <2>1. TypeOK /\ Legged
    BY DEF Inv
  <2>2. /\ k \in CarrierType /\ k.phase = circ[c].phase
        /\ k.legs = circ[c].legs
    BY <2>1 DEF TypeOK, CarrierType
  <2>3. circ' = [circ EXCEPT ![c] = k]
    BY <1>3
  <2> HIDE DEF k
  <2>4. /\ circ' \in [Carriers -> CarrierType]
        /\ circ'[c] = k
        /\ \A d \in Carriers : d # c => circ'[d] = circ[d]
    BY <2>1, <2>2, <2>3, OneCarrier
  <2>5. \A d \in Carriers : RecordKept(d)
    BY <1>3, <2>2, <2>4 DEF RecordKept
  <2>6. Legged'
    BY <2>1, <2>5 DEF Legged, RecordKept
  <2>7. Listed'
    BY <1>1, <1>3, SameWait, ListsKept
  <2> QED
    BY <1>1, <1>3, <2>1, <2>4, <2>5, <2>6, <2>7, CarrierStep DEF TypeOK
<1> QED
  BY <1>2, <1>3 DEF CircExpires

-----------------------------------------------------------------------------
(* The walk.                                                                *)

\* The first leg gets a new record.
FirstLeg(l, x) == [l EXCEPT ![1] = x]

\* The record that the leg of a carrier with one leg has then.
LEMMA OneLegged ==
  ASSUME NEW S, NEW l \in Seq(S), Len(l) = 1, NEW x \in S
  PROVE  FirstLeg(l, x) \in Seq(S) /\ Len(FirstLeg(l, x)) = 1
         /\ FirstLeg(l, x)[1] = x
<1>0. PICK n \in Nat : n = 1
  OBVIOUS
<1> DEFINE D == 1 .. n
           q == [l EXCEPT ![1] = x]
<1>1. 1 \in D /\ l \in [D -> S]
  BY <1>0
<1> HIDE DEF D
<1>2. q \in [D -> S] /\ q[1] = x
  BY <1>1
<1> HIDE DEF q
<1>3. q \in Seq(S) /\ Len(q) = n
  BY <1>2 DEF D
<1> QED
  BY <1>0, <1>2, <1>3 DEF FirstLeg, q

\* A carrier with a new record.
WithRecord(k, x) == [k EXCEPT !.legs = FirstLeg(k.legs, x)]

\* Nothing else of the carrier changes.
LEMMA NewRecord ==
  ASSUME NEW k \in CarrierType, Len(k.legs) = 1, NEW x \in Iso
  PROVE  /\ WithRecord(k, x) \in CarrierType
         /\ Len(WithRecord(k, x).legs) = 1 /\ WithRecord(k, x).legs[1] = x
         /\ WithRecord(k, x).phase = k.phase
<1> DEFINE l == k.legs
           q == FirstLeg(l, x)
           j == WithRecord(k, x)
<1>1. l \in Seq(Iso) /\ Len(l) = 1 /\ j = [k EXCEPT !.legs = q]
  BY DEF CarrierType, WithRecord
<1> HIDE DEF l, j
<1>2. q \in Seq(Iso) /\ Len(q) = 1 /\ q[1] = x
  BY <1>1, OneLegged
<1> HIDE DEF q
<1>3. /\ j \in CarrierType /\ Len(j.legs) = 1 /\ j.legs[1] = x
      /\ j.phase = k.phase
  BY <1>1, <1>2 DEF CarrierType
<1> QED
  BY <1>3 DEF j

\* One carrier changes during a walk, and its record is right again.
LEMMA WalkStepCarrier ==
  ASSUME Inv, EpochsKept, NEW c \in Carriers, Fits(c)', Opens(c)',
         \A d \in Carriers : d # c => RecordKept(d),
         UNCHANGED <<walking, opening>>
  PROVE  (\A d \in Carriers : Fits(d) /\ Opens(d))'
<1>1. \A d \in Carriers : d # c => Fits(d)'
  BY KeptFits
<1>2. \A d \in Carriers : d # c => Opens(d)'
  BY DEF Inv, Opens, RecordKept
<1> QED
  BY <1>1, <1>2

\* The stream that is visited waits.
LEMMA HeadWaits ==
  ASSUME Inv, todo # <<>>
  PROVE  /\ Head(todo) \in Streams /\ strm[Head(todo)].state = "wait"
         /\ strm[Head(todo)].on = None
<1>1. PICK S \in SUBSET Streams, T \in SUBSET Streams :
        /\ Lists(pending, S) /\ Lists(todo, T)
        /\ S \cap T = {} /\ S \cup T = In("wait")
  BY DEF Inv, Listed
<1>2. Head(todo) \in T
  BY <1>1, ListsTail
<1>3. Head(todo) \in In("wait")
  BY <1>1, <1>2
<1> QED
  BY <1>3 DEF In, Inv, OnShape

\* The stream that is visited is put back, or waits no longer.
LEMMA WalkOn ==
  ASSUME Inv, walking, todo # <<>>, todo' = Tail(todo), UNCHANGED walking,
         \/ UNCHANGED pending /\ In("wait")' = In("wait") \ {Head(todo)}
         \/ PutBack(Head(todo)) /\ In("wait")' = In("wait")
  PROVE  Listed'
<1> DEFINE h == Head(todo)
<1>1. PICK S \in SUBSET Streams, T \in SUBSET Streams :
        /\ Lists(pending, S) /\ Lists(todo, T)
        /\ S \cap T = {} /\ S \cup T = In("wait")
  BY DEF Inv, Listed
<1>2. h \in T /\ Lists(todo', T \ {h})
  BY <1>1, ListsTail
<1> HIDE DEF h
<1>3. CASE UNCHANGED pending /\ In("wait")' = In("wait") \ {h}
  <2> DEFINE U == T \ {h}
  <2>1. /\ U \in SUBSET Streams /\ S \cap U = {}
        /\ S \cup U = In("wait")'
    BY <1>1, <1>2, <1>3
  <2>2. Lists(pending', S) /\ Lists(todo', U)
    BY <1>1, <1>2, <1>3
  <2> HIDE DEF U
  <2> QED
    BY <2>1, <2>2 DEF Listed
<1>4. CASE PutBack(h) /\ In("wait")' = In("wait")
  <2> DEFINE U == T \ {h}
             R == S \cup {h}
  <2>1. h \notin S
    BY <1>1, <1>2
  <2>2. ~Contains(pending, h)
    <3>1. ToSet(pending) = S /\ DOMAIN pending = 1 .. Len(pending)
      BY <1>1, ListsSet
    <3> QED
      BY <2>1, <3>1 DEF Contains, ToSet
  <2>3. pending' = Append(pending, h)
    BY <1>4, <2>2 DEF PutBack
  <2>4. /\ U \in SUBSET Streams /\ R \in SUBSET Streams /\ R \cap U = {}
        /\ R \cup U = In("wait")'
    BY <1>1, <1>2, <1>4
  <2>5. Lists(pending', R) /\ Lists(todo', U)
    BY <1>1, <1>2, <2>1, <2>3, ListsMore
  <2> HIDE DEF U, R
  <2> QED
    BY <2>4, <2>5 DEF Listed
<1> QED
  BY <1>3, <1>4 DEF h

\* connection_edge_update_circuit_isolation: the record fits the stream it was
\* marked with, and whatever it fitted before.
LEMMA MarkedFits ==
  ASSUME StreamIsolationAssumption, TypeOK, NEW s \in Streams, NEW iso \in Iso,
         NEW m, m = Marked(s, iso)
  PROVE  /\ m \in Iso /\ m.set /\ m.any = iso.any
         /\ \A f \in AllFields \ m.mixed : Value(s, f) = m.vals[f]
         /\ iso.set => m.vals = iso.vals /\ iso.mixed \subseteq m.mixed
<1>1. \A f \in AllFields : Value(s, f) \in Nat
  <2>1. strm[s].epoch \in Nat /\ \A f \in Fields : Kind[s].vals[f] \in Nat
    BY DEF TypeOK, StreamType, StreamIsolationAssumption
  <2> QED
    BY <2>1 DEF AllFields, Value
<1>2. CASE iso.set
  <2> DEFINE x == iso.mixed \cup {f \in AllFields : Value(s, f) # iso.vals[f]}
  <2>1. m = [iso EXCEPT !.mixed = x]
    BY <1>2 DEF Marked
  <2>2. x \in SUBSET AllFields
    BY DEF Iso
  <2>3. /\ \A f \in AllFields \ x : Value(s, f) = iso.vals[f]
        /\ iso.mixed \subseteq x
    OBVIOUS
  <2> HIDE DEF x
  <2>4. /\ m \in Iso /\ m.set = iso.set /\ m.any = iso.any /\ m.mixed = x
        /\ m.vals = iso.vals
    BY <2>1, <2>2 DEF Iso
  <2> QED
    BY <1>2, <2>3, <2>4
<1>3. CASE ~iso.set
  <2> DEFINE v == [f \in AllFields |-> Value(s, f)]
  <2>1. m = [iso EXCEPT !.set = TRUE, !.vals = v]
    BY <1>3 DEF Marked
  <2>2. v \in [AllFields -> Nat] /\ \A f \in AllFields : v[f] = Value(s, f)
    BY <1>1
  <2> HIDE DEF v
  <2>3. /\ m \in Iso /\ m.set = TRUE /\ m.any = iso.any /\ m.vals = v
    BY <2>1, <2>2 DEF Iso
  <2> QED
    BY <1>3, <2>2, <2>3
<1> QED
  BY <1>2, <1>3

\* The walk ends, or begins again without the marks of the circuit that opened.
LEMMA WalkEndKeeps ==
  ASSUME StreamIsolationAssumption, Inv, WalkEnd
  PROVE  Inv'
<1>1. TypeOK /\ OnShape /\ Legged
  BY DEF Inv
<1>2. todo = <<>> /\ untried' = FALSE
  BY DEF WalkEnd
<1>0. PICK o : o = opening
  OBVIOUS
<1> DEFINE clear == /\ o # None /\ circ[o].phase = "open"
                    /\ Clearable(circ[o].legs[1])
<1>3. CASE clear
  <2> DEFINE k == [circ[o] EXCEPT !.legs = [circ[o].legs EXCEPT ![1] = Fresh]]
  <2>1. circ' = [circ EXCEPT ![o] = k] /\ Walk(None)
    BY <1>0, <1>3 DEF WalkEnd
  <2>2. /\ o \in Carriers /\ circ[o] \in CarrierType /\ Len(circ[o].legs) = 1
        /\ circ[o].phase = "open" /\ ~circ[o].legs[1].any
    BY <1>0, <1>1, <1>3 DEF TypeOK, Legged, Clearable
  <2>3. k \in CarrierType /\ Len(k.legs) = 1 /\ k.legs[1] = Fresh
    <3>1. Fresh \in Iso
      BY FreshIsIso
    <3>2. k = WithRecord(circ[o], Fresh)
      BY DEF FirstLeg, WithRecord
    <3> HIDE DEF Fresh, k
    <3> QED
      BY <2>2, <3>1, <3>2, NewRecord
  <2> HIDE DEF k
  <2>4. /\ walking' = TRUE /\ opening' = None /\ todo' = pending
        /\ pending' = <<>> /\ shared' = {} /\ UNCHANGED <<strm, nym, used>>
    BY <2>1 DEF Walk
  <2>5. /\ circ' \in [Carriers -> CarrierType]
        /\ circ'[o] = k
        /\ \A d \in Carriers : d # o => circ'[d] = circ[d]
    BY <1>1, <2>1, <2>2, <2>3, OneCarrier
  <2>6. TypeOK'
    BY <1>1, <1>2, <2>4, <2>5 DEF TypeOK
  <2>7. OnShape' /\ EpochsKept
    BY <1>1, <2>4, SameWait
  <2>8. Legged'
    BY <1>1, <2>3, <2>5 DEF Legged
  <2>9. \A d \in Carriers : d # o => RecordKept(d)
    BY <2>4, <2>5 DEF RecordKept
  <2>10. used'[o] = {} /\ ~circ'[o].legs[1].set
    <3>1. used[o] = {}
      BY <2>2 DEF Inv, Fits
    <3> QED
      BY <2>3, <2>4, <2>5, <3>1, FreshIsIso
  <2>11. \A d \in Carriers : Fits(d)'
    <3>1. \A d \in Carriers : d # o => Fits(d)'
      BY <2>7, <2>9, KeptFits
    <3>2. Fits(o)'
      BY <2>10 DEF Fits
    <3> QED
      BY <3>1, <3>2
  <2>12. \A d \in Carriers : Opens(d)'
    <3>1. \A d \in Carriers : d # o => Opens(d)'
      BY <1>0, <2>9 DEF Inv, Opens, RecordKept
    <3>2. Opens(o)'
      BY <2>10 DEF Opens
    <3> QED
      BY <3>1, <3>2
  <2>13. Sharers' /\ Respected'
    BY <2>4, <2>7, KeptRespected
  <2>14. Listed'
    BY <1>2, <2>4, SameWait, WalkLists
  <2> QED
    BY <2>6, <2>7, <2>8, <2>11, <2>12, <2>13, <2>14 DEF Inv
<1>4. CASE ~clear
  <2>1. /\ walking' = FALSE /\ opening' = None /\ shared' = {}
        /\ UNCHANGED <<strm, circ, pending, todo, nym, used>>
    BY <1>0, <1>4 DEF WalkEnd
  <2>2. TypeOK'
    BY <1>1, <1>2, <2>1 DEF TypeOK
  <2>3. OnShape' /\ EpochsKept /\ In("wait")' = In("wait")
    BY <1>1, <2>1, SameWait
  <2>4. Legged'
    BY <1>1, <2>1 DEF Legged
  <2>5. \A d \in Carriers : RecordKept(d)
    BY <2>1 DEF RecordKept
  <2>6. \A d \in Carriers : Fits(d)'
    BY <2>3, <2>5, KeptFits
  <2>7. \A d \in Carriers : Opens(d)'
    BY <1>0, <1>4, <2>1 DEF Inv, Opens, Clearable, StreamIsolationAssumption
  <2>8. Sharers' /\ Respected'
    BY <2>1, <2>3, KeptRespected
  <2>9. Listed'
    BY <1>2, <2>1, <2>3 DEF Inv, Listed
  <2> QED
    BY <2>2, <2>3, <2>4, <2>6, <2>7, <2>8, <2>9 DEF Inv
<1> QED
  BY <1>3, <1>4

\* A stream that is compatible with the record of a carrier joins it: it agrees
\* with all that used the carrier before, and the record fits it as well.
LEMMA JoinsKeeps ==
  ASSUME StreamIsolationAssumption, Inv, EpochsKept,
         NEW s \in Streams, strm[s].state # "none",
         NEW c \in Carriers, circ[c].phase = "open",
         Compatible(s, circ[c].legs[1]), Joins(s, c),
         circ'[c].phase = "open",
         circ'[c].legs[1] = [Marked(s, circ[c].legs[1]) EXCEPT !.any = TRUE],
         \A d \in Carriers : d # c => circ'[d] = circ[d],
         UNCHANGED <<walking, opening>>
  PROVE  /\ (\A d \in Carriers : Fits(d) /\ Opens(d))'
         /\ Sharers' /\ Respected'
         /\ used' \in [Carriers -> SUBSET Streams]
         /\ shared' \in SUBSET (Streams \X Streams)
<1>1. TypeOK /\ Legged /\ Fits(c)
  BY DEF Inv
<1> DEFINE iso == circ[c].legs[1]
           m == Marked(s, iso)
           n == [m EXCEPT !.any = TRUE]
<1>2. iso \in Iso
  <2>1. circ[c].legs \in Seq(Iso) /\ Len(circ[c].legs) = 1
    BY <1>1 DEF TypeOK, CarrierType, Legged
  <2> QED
    BY <2>1
<1>3. circ'[c].legs[1] = n
  OBVIOUS
<1>4. iso.set => /\ Flags(s) \cap iso.mixed = {}
                 /\ \A f \in Flags(s) : Value(s, f) = iso.vals[f]
  BY DEF Compatible
<1>5. used[c] # {} => /\ iso.set
                      /\ \A t \in used[c] :
                           /\ strm[t].state # "none"
                           /\ \A f \in AllFields \ iso.mixed :
                                Value(t, f) = iso.vals[f]
  BY <1>1 DEF Fits
<1> HIDE DEF iso
<1>6. /\ m \in Iso /\ m.set /\ m.any = iso.any
      /\ \A f \in AllFields \ m.mixed : Value(s, f) = m.vals[f]
      /\ iso.set => m.vals = iso.vals /\ iso.mixed \subseteq m.mixed
  BY <1>1, <1>2, MarkedFits
<1> HIDE DEF m
<1>7. n.set /\ n.any = TRUE /\ n.mixed = m.mixed /\ n.vals = m.vals
  BY <1>6 DEF Iso
<1> HIDE DEF n
<1>8. /\ used' = [used EXCEPT ![c] = used[c] \cup {s}]
      /\ shared' = {<<t, s>> : t \in used[c] \ {s}}
  BY DEF Joins
<1>9. /\ used' \in [Carriers -> SUBSET Streams]
      /\ used'[c] = used[c] \cup {s}
      /\ \A d \in Carriers : d # c => used'[d] = used[d]
  BY <1>1, <1>8 DEF TypeOK
<1>10. /\ used[c] \subseteq Streams
       /\ \A t \in used[c] \cup {s} :
            /\ t \in Streams /\ strm[t].state # "none"
            /\ \A f : Value(t, f)' = Value(t, f)
  <2>1. used[c] \subseteq Streams
    BY <1>1 DEF TypeOK
  <2>2. \A t \in used[c] \cup {s} : t \in Streams /\ strm[t].state # "none"
    BY <1>5, <2>1
  <2> QED
    BY <2>1, <2>2, ValuesKept
<1>11. Fits(c)'
  <2>1. ASSUME NEW t \in used[c] \cup {s}
        PROVE  /\ strm'[t].state # "none"
               /\ \A f \in AllFields \ n.mixed : Value(t, f)' = n.vals[f]
    <3>1. strm'[t].state # "none"
      BY <1>10 DEF EpochsKept
    <3>2. CASE t = s
      BY <1>6, <1>7, <1>10, <3>1, <3>2
    <3>3. CASE t \in used[c]
      <4>1. iso.set /\ \A f \in AllFields \ iso.mixed : Value(t, f) = iso.vals[f]
        BY <1>5, <3>3
      <4>2. \A f \in AllFields \ n.mixed : f \in AllFields \ iso.mixed
        BY <1>6, <1>7, <4>1
      <4>3. n.vals = iso.vals
        BY <1>6, <1>7, <4>1
      <4> QED
        BY <1>10, <3>1, <4>1, <4>2, <4>3
    <3> QED
      BY <3>2, <3>3
  <2>2. \A t \in used'[c] :
          /\ strm'[t].state # "none"
          /\ \A f \in AllFields \ circ'[c].legs[1].mixed :
               Value(t, f)' = circ'[c].legs[1].vals[f]
    BY <1>3, <1>9, <2>1
  <2>3. circ'[c].legs[1].set /\ circ'[c].legs[1].any
    BY <1>3, <1>7
  <2> QED
    BY <2>2, <2>3 DEF Fits
<1>12. Opens(c)'
  BY <1>3, <1>7 DEF Opens
<1>13. \A d \in Carriers : d # c => RecordKept(d)
  BY <1>9 DEF RecordKept
<1>14. (\A d \in Carriers : Fits(d) /\ Opens(d))'
  BY <1>11, <1>12, <1>13, WalkStepCarrier
<1>15. ASSUME NEW p \in shared'
       PROVE  /\ p \in Streams \X Streams
              /\ strm'[p[1]].state # "none" /\ strm'[p[2]].state # "none"
              /\ \A f \in Flags(p[2]) : Value(p[1], f)' = Value(p[2], f)'
  <2>1. PICK t \in used[c] \ {s} : p = <<t, s>>
    BY <1>8
  <2>2. p[1] = t /\ p[2] = s /\ t \in Streams
    BY <1>10, <2>1
  <2>3. strm'[t].state # "none" /\ strm'[s].state # "none"
    BY <1>10 DEF EpochsKept
  <2>4. Flags(s) \subseteq AllFields
    BY DEF Flags, AllFields, StreamIsolationAssumption
  <2>5. \A f \in Flags(s) : Value(t, f) = Value(s, f)
    BY <1>4, <1>5, <2>4
  <2>6. \A f : Value(t, f)' = Value(t, f) /\ Value(s, f)' = Value(s, f)
    BY <1>10
  <2> QED
    BY <2>1, <2>2, <2>3, <2>5, <2>6
<1>16. Sharers' /\ shared' \in SUBSET (Streams \X Streams)
  BY <1>15 DEF Sharers
<1>17. Respected'
  BY <1>15 DEF Respected, Flags
<1> QED
  BY <1>9, <1>14, <1>16, <1>17

\* An open carrier that a stream may join.
LEMMA BestFits ==
  ASSUME NEW s, NEW c \in Best(s)
  PROVE  /\ c \in Carriers /\ circ[c].phase = "open"
         /\ Compatible(s, circ[c].legs[1])
BY DEF Best, OpenFor, Acceptable, Carriers

\* A stream leaves the wait and joins a carrier whose flags may change too.
LEMMA LinkKeeps ==
  ASSUME StreamIsolationAssumption, Inv, walking, todo # <<>>,
         NEW s, s = Head(todo), NEW c \in Best(s), Joins(s, c),
         NEW r \in StreamType, strm' = [strm EXCEPT ![s] = r],
         r.epoch = strm[s].epoch,
         \/ r.state = "conn" /\ r.on = c
         \/ r.state = "closed" /\ r.on = None,
         NEW u \in BOOLEAN,
         circ' = [Linked(s, c) EXCEPT ![c].unusable = u],
         todo' = Tail(todo),
         UNCHANGED <<pending, untried, walking, opening, nym>>
  PROVE  Inv'
<1>1. TypeOK /\ OnShape /\ Legged
  BY DEF Inv
<1>2. s \in Streams /\ strm[s].state = "wait" /\ strm[s].on = None
  BY HeadWaits
<1>3. /\ c \in Carriers /\ circ[c].phase = "open" /\ circ[c] \in CarrierType
      /\ Compatible(s, circ[c].legs[1]) /\ Len(circ[c].legs) = 1
  BY <1>1, BestFits DEF TypeOK, Legged
<1> DEFINE iso == circ[c].legs[1]
           m == Marked(s, iso)
           n == [m EXCEPT !.any = TRUE]
           j == WithRecord(circ[c], n)
           k == [j EXCEPT !.dirty = TRUE, !.unusable = u]
<1>4. circ' = [circ EXCEPT ![c] = k]
  BY <1>1, <1>3 DEF Linked, FirstLeg, WithRecord, TypeOK
<1>5. iso \in Iso
  <2>1. circ[c].legs \in Seq(Iso)
    BY <1>3 DEF CarrierType
  <2> QED
    BY <1>3, <2>1
<1>6. m \in Iso
  <2> HIDE DEF iso
  <2> QED
    BY <1>1, <1>2, <1>5, MarkedFits
<1>7. n \in Iso
  <2> HIDE DEF m
  <2> QED
    BY <1>6 DEF Iso
<1>8. /\ j \in CarrierType /\ Len(j.legs) = 1 /\ j.legs[1] = n
      /\ j.phase = "open"
  <2> HIDE DEF n
  <2> QED
    BY <1>3, <1>7, NewRecord
<1>9. k \in CarrierType /\ k.legs = j.legs /\ k.phase = "open"
  <2> HIDE DEF j
  <2> QED
    BY <1>8 DEF CarrierType
<1>10. Len(k.legs) = 1 /\ k.legs[1] = n
  <2> HIDE DEF j, k, n
  <2> QED
    BY <1>8, <1>9
<1>11. n = [Marked(s, circ[c].legs[1]) EXCEPT !.any = TRUE]
  OBVIOUS
<1> HIDE DEF k, n
<1>12. /\ circ' \in [Carriers -> CarrierType]
       /\ circ'[c] = k
       /\ \A d \in Carriers : d # c => circ'[d] = circ[d]
  BY <1>1, <1>3, <1>4, <1>9, OneCarrier
<1>13. /\ strm' \in [Streams -> StreamType]
       /\ strm'[s] = r
       /\ \A t \in Streams : t # s => strm'[t] = strm[t]
  BY <1>1, <1>2, OneStream
<1>14. EpochsKept
  BY <1>13 DEF EpochsKept
<1>15. /\ (\A d \in Carriers : Fits(d) /\ Opens(d))'
       /\ Sharers' /\ Respected'
       /\ used' \in [Carriers -> SUBSET Streams]
       /\ shared' \in SUBSET (Streams \X Streams)
  BY <1>2, <1>3, <1>9, <1>10, <1>11, <1>12, <1>14, JoinsKeeps, ZenonT(30)
<1>16. TypeOK'
  BY <1>1, <1>12, <1>13, <1>15 DEF TypeOK
<1>17. OnShape'
  BY <1>1, <1>3, <1>13 DEF OnShape, StreamIsolationAssumption
<1>18. Legged'
  BY <1>1, <1>10, <1>12 DEF Legged
<1>19. In("wait")' = In("wait") \ {s}
  BY <1>2, <1>13 DEF In
<1>20. Listed'
  BY <1>19, WalkOn
<1> QED
  BY <1>15, <1>16, <1>17, <1>18, <1>20 DEF Inv

\* A stream that is put back marks a circuit that is being built.
LEMMA BuildingKeeps ==
  ASSUME Inv, walking, todo # <<>>,
         NEW c \in Carriers, circ[c].phase # "open",
         NEW k \in CarrierType, k.phase = "building", Len(k.legs) = 1,
         circ' = [circ EXCEPT ![c] = k],
         PutBack(Head(todo)), todo' = Tail(todo),
         UNCHANGED <<strm, used, shared, untried, walking, opening, nym>>
  PROVE  Inv'
<1>1. TypeOK /\ OnShape /\ Legged
  BY DEF Inv
<1>2. /\ circ' \in [Carriers -> CarrierType]
      /\ circ'[c] = k
      /\ \A d \in Carriers : d # c => circ'[d] = circ[d]
  BY <1>1, OneCarrier
<1>3. TypeOK'
  BY <1>1, <1>2 DEF TypeOK
<1>4. OnShape' /\ EpochsKept /\ In("wait")' = In("wait")
  BY <1>1, SameWait
<1>5. Legged'
  BY <1>1, <1>2 DEF Legged
<1>6. Fits(c)'
  BY UnusedYet DEF Fits
<1>7. Opens(c)'
  BY <1>2 DEF Opens
<1>8. \A d \in Carriers : d # c => RecordKept(d)
  BY <1>2 DEF RecordKept
<1>9. (\A d \in Carriers : Fits(d) /\ Opens(d))'
  BY <1>4, <1>6, <1>7, <1>8, WalkStepCarrier
<1>10. Sharers' /\ Respected'
  BY <1>4, KeptRespected
<1>11. Listed'
  BY <1>4, WalkOn
<1> QED
  BY <1>3, <1>4, <1>5, <1>9, <1>10, <1>11 DEF Inv

\* A circuit is on the way: it is marked and the stream is put back.
LEMMA AwaitCircuitKeeps ==
  ASSUME StreamIsolationAssumption, Inv, walking, todo # <<>>,
         NEW c \in OnTheWay(Head(todo)), AwaitCircuit(Head(todo), c),
         todo' = Tail(todo), UNCHANGED <<untried, walking, opening, nym>>
  PROVE  Inv'
<1> DEFINE s == Head(todo)
           m == Marked(s, circ[c].legs[1])
           k == WithRecord(circ[c], m)
<1>1. TypeOK /\ Legged /\ s \in Streams
  BY HeadWaits DEF Inv
<1>2. c \in Carriers /\ circ[c].phase = "building" /\ c \in Plain
  BY DEF OnTheWay, Building, Carriers
<1>3. circ[c] \in CarrierType /\ Len(circ[c].legs) = 1
  BY <1>1, <1>2 DEF TypeOK, Legged
<1>4. /\ circ' = [circ EXCEPT ![c] = k] /\ PutBack(s)
      /\ UNCHANGED <<strm, used, shared>>
  BY <1>3 DEF AwaitCircuit, WithRecord, FirstLeg
<1> HIDE DEF s
<1>5. m \in Iso
  <2>1. circ[c].legs \in Seq(Iso)
    BY <1>3 DEF CarrierType
  <2>2. circ[c].legs[1] \in Iso
    BY <1>3, <2>1
  <2> QED
    BY <1>1, <2>2, MarkedFits
<1> HIDE DEF m
<1>6. k \in CarrierType /\ Len(k.legs) = 1 /\ k.phase = "building"
  BY <1>2, <1>3, <1>5, NewRecord
<1> HIDE DEF k
<1> QED
  BY <1>2, <1>4, <1>6, BuildingKeeps DEF s

\* A circuit is launched with the marks of the stream.
LEMMA LaunchKeeps ==
  ASSUME StreamIsolationAssumption, Inv, walking, todo # <<>>,
         NEW c \in Plain, Launch(Head(todo), c),
         todo' = Tail(todo), UNCHANGED <<untried, walking, opening, nym>>
  PROVE  Inv'
<1> DEFINE s == Head(todo)
           m == Marked(s, Fresh)
           q == <<m>>
           k == [Launched EXCEPT !.legs = q]
<1>1. TypeOK /\ s \in Streams
  BY HeadWaits DEF Inv
<1>2. c \in Carriers /\ circ[c].phase = "none"
  BY DEF Launch, Carriers
<1>3. /\ circ' = [circ EXCEPT ![c] = k] /\ PutBack(s)
      /\ UNCHANGED <<strm, used, shared>>
  BY DEF Launch
<1> HIDE DEF s
<1>4. m \in Iso
  BY <1>1, FreshIsIso, MarkedFits
<1> HIDE DEF m
<1>5. q \in Seq(Iso) /\ Len(q) = 1
  BY <1>4
<1> HIDE DEF q
<1>6. k \in CarrierType /\ Len(k.legs) = 1 /\ k.phase = "building"
  <2> DEFINE l == <<Fresh>>
  <2>1. Launched = [Unused EXCEPT !.phase = "building", !.legs = l]
    BY DEF Launched
  <2> HIDE DEF l
  <2>2. Launched = [phase |-> "building", legs |-> l, unusable |-> FALSE,
                    dirty |-> FALSE, refuses |-> {}]
    BY <2>1 DEF Unused
  <2>3. k = [phase |-> "building", legs |-> q, unusable |-> FALSE,
             dirty |-> FALSE, refuses |-> {}]
    <3> DEFINE b == [phase |-> "building", legs |-> l, unusable |-> FALSE,
                     dirty |-> FALSE, refuses |-> {}]
    <3>1. k = [b EXCEPT !.legs = q]
      BY <2>2
    <3> HIDE DEF k
    <3> QED
      BY <3>1
  <2> QED
    BY <1>5, <2>3 DEF CarrierType
<1> HIDE DEF k
<1> QED
  BY <1>2, <1>3, <1>6, BuildingKeeps DEF s

\* Nothing can be launched, and the stream is put back.
LEMMA DelayKeeps ==
  ASSUME Inv, walking, todo # <<>>, Delay(Head(todo)),
         todo' = Tail(todo), UNCHANGED <<untried, walking, opening, nym>>
  PROVE  Inv'
<1>1. TypeOK /\ OnShape /\ Legged
  BY DEF Inv
<1>2. PutBack(Head(todo)) /\ UNCHANGED <<strm, circ, used, shared>>
  BY DEF Delay
<1>3. TypeOK' /\ Legged'
  BY <1>1, <1>2 DEF TypeOK, Legged
<1>4. OnShape' /\ EpochsKept /\ In("wait")' = In("wait")
  BY <1>1, <1>2, SameWait
<1>5. \A c \in Carriers : RecordKept(c)
  BY <1>2 DEF RecordKept
<1>6. (\A c \in Carriers : Fits(c) /\ Opens(c))' /\ Sharers' /\ Respected'
  BY <1>2, <1>4, <1>5, SteadyStep
<1>7. Listed'
  BY <1>2, <1>4, WalkOn
<1> QED
  BY <1>3, <1>4, <1>6, <1>7 DEF Inv

\* The stream has waited too long, and is closed.
LEMMA GiveUpKeeps ==
  ASSUME Inv, walking, todo # <<>>, NEW s, s = Head(todo), GiveUp(s),
         todo' = Tail(todo), UNCHANGED <<untried, walking, opening, nym>>
  PROVE  Inv'
<1> DEFINE r == [strm[s] EXCEPT !.state = "closed"]
<1>1. TypeOK /\ OnShape /\ Legged
  BY DEF Inv
<1>2. s \in Streams /\ strm[s].state = "wait" /\ strm[s].on = None
  BY HeadWaits
<1>3. strm' = [strm EXCEPT ![s] = r] /\ UNCHANGED <<circ, pending, used, shared>>
  BY DEF GiveUp
<1>4. /\ r \in StreamType /\ r.epoch = strm[s].epoch /\ r.on = None
      /\ r.state = "closed"
  BY <1>1, <1>2 DEF TypeOK, StreamType
<1> HIDE DEF r
<1>5. /\ strm' \in [Streams -> StreamType]
      /\ strm'[s] = r
      /\ \A t \in Streams : t # s => strm'[t] = strm[t]
  BY <1>1, <1>2, <1>3, <1>4, OneStream
<1>6. TypeOK' /\ Legged'
  BY <1>1, <1>3, <1>5 DEF TypeOK, Legged
<1>7. OnShape' /\ EpochsKept
  BY <1>1, <1>4, <1>5 DEF OnShape, EpochsKept
<1>8. \A c \in Carriers : RecordKept(c)
  BY <1>3 DEF RecordKept
<1>9. (\A c \in Carriers : Fits(c) /\ Opens(c))' /\ Sharers' /\ Respected'
  BY <1>3, <1>7, <1>8, SteadyStep
<1>10. In("wait")' = In("wait") \ {s}
  BY <1>4, <1>5 DEF In
<1>11. Listed'
  BY <1>3, <1>10, WalkOn
<1> QED
  BY <1>6, <1>7, <1>9, <1>11 DEF Inv

\* connection_ap_handshake_attach_circuit, whatever comes of it.
LEMMA WalkStepKeeps ==
  ASSUME StreamIsolationAssumption, Inv, WalkStep
  PROVE  Inv'
<1>1. PICK s : s = Head(todo)
  OBVIOUS
<1>2. /\ walking /\ todo # <<>> /\ Visit(s) /\ todo' = Tail(todo)
      /\ UNCHANGED <<untried, walking, opening, nym>>
  BY <1>1 DEF WalkStep
<1>3. /\ s \in Streams /\ strm[s].state = "wait" /\ strm[s].on = None
      /\ strm[s] \in StreamType /\ TypeOK
  BY <1>1, <1>2, HeadWaits DEF Inv, TypeOK
<1>4. \/ GiveUp(s)
      \/ \E c \in Best(s) : Attach(s, c) \/ NoStreamId(s, c)
      \/ \E c \in OnTheWay(s) : AwaitCircuit(s, c)
      \/ \E c \in Plain : Launch(s, c)
      \/ Delay(s)
  BY <1>2, <1>3 DEF Visit
<1>5. CASE GiveUp(s)
  BY <1>1, <1>2, <1>5, GiveUpKeeps
<1>6. ASSUME NEW c \in Best(s), Attach(s, c)
      PROVE  Inv'
  <2> DEFINE r == [strm[s] EXCEPT !.state = "conn", !.on = c, !.idle = FALSE]
             u == circ[c].unusable
  <2>1. c \in Carriers /\ circ[c] \in CarrierType
    BY <1>3, BestFits DEF TypeOK
  <2>2. /\ r \in StreamType /\ r.epoch = strm[s].epoch
        /\ r.state = "conn" /\ r.on = c
    BY <1>3, <2>1 DEF StreamType
  <2>3. strm' = [strm EXCEPT ![s] = r] /\ Joins(s, c) /\ UNCHANGED pending
    BY <1>6 DEF Attach
  <2>4. u \in BOOLEAN
    BY <2>1 DEF CarrierType
  <2>5. circ' = [Linked(s, c) EXCEPT ![c].unusable = u]
    <3>1. circ' = Linked(s, c)
      BY <1>6 DEF Attach
    <3>2. Linked(s, c) = [Linked(s, c) EXCEPT ![c].unusable = u]
      BY <1>3, <2>1 DEF Linked, TypeOK, CarrierType
    <3> QED
      BY <3>1, <3>2
  <2> HIDE DEF r, u
  <2> QED
    BY <1>1, <1>2, <2>2, <2>3, <2>4, <2>5, LinkKeeps
<1>7. ASSUME NEW c \in Best(s), NoStreamId(s, c)
      PROVE  Inv'
  <2> DEFINE r == [strm[s] EXCEPT !.state = "closed"]
  <2>1. /\ r \in StreamType /\ r.epoch = strm[s].epoch
        /\ r.state = "closed" /\ r.on = None
    BY <1>3 DEF StreamType
  <2>2. strm' = [strm EXCEPT ![s] = r] /\ Joins(s, c) /\ UNCHANGED pending
    BY <1>7 DEF NoStreamId
  <2>3. circ' = [Linked(s, c) EXCEPT ![c].unusable = TRUE]
    BY <1>7 DEF NoStreamId
  <2> HIDE DEF r
  <2> QED
    BY <1>1, <1>2, <2>1, <2>2, <2>3, LinkKeeps
<1>8. ASSUME NEW c \in OnTheWay(s), AwaitCircuit(s, c)
      PROVE  Inv'
  BY <1>1, <1>2, <1>8, AwaitCircuitKeeps
<1>9. ASSUME NEW c \in Plain, Launch(s, c)
      PROVE  Inv'
  BY <1>1, <1>2, <1>9, LaunchKeeps
<1>10. CASE Delay(s)
  BY <1>1, <1>2, <1>10, DelayKeeps
<1> QED
  BY <1>4, <1>5, <1>6, <1>7, <1>8, <1>9, <1>10

-----------------------------------------------------------------------------
(* The theorems.                                                            *)

\* The invariant holds at the start.
LEMMA InitInv ==
  ASSUME StreamIsolationAssumption, Init
  PROVE  Inv
<1>1. TypeOK
  <2>1. NoStream \in StreamType
    BY DEF NoStream, StreamType
  <2>2. Unused \in CarrierType
    <3>1. <<>> \in Seq(Iso)
      OBVIOUS
    <3> QED
      BY <3>1 DEF Unused, CarrierType
  <2> QED
    BY <2>1, <2>2 DEF Init, TypeOK
<1>2. \A s \in Streams : strm[s].state = "none" /\ strm[s].on = None
  BY DEF Init, NoStream
<1>3. \A c \in Carriers : circ[c].phase = "none" /\ used[c] = {}
  BY DEF Init, Unused
<1>4. OnShape
  BY <1>2 DEF OnShape
<1>5. Listed
  <2>1. Lists(pending, {}) /\ Lists(todo, {})
    BY ListsNone DEF Init
  <2>2. In("wait") = {}
    BY <1>2 DEF In
  <2>3. {} \in SUBSET Streams /\ {} \cap {} = {} /\ {} \cup {} = In("wait")
    BY <2>2
  <2> QED
    BY <2>1, <2>3 DEF Listed, Init
<1>6. Legged /\ \A c \in Carriers : Fits(c) /\ Opens(c)
  BY <1>3 DEF Legged, Fits, Opens
<1>7. Sharers /\ Respected
  BY DEF Init, Sharers, Respected
<1> QED
  BY <1>1, <1>4, <1>5, <1>6, <1>7 DEF Inv

\* Every step preserves the invariant.
LEMMA NextInv ==
  ASSUME StreamIsolationAssumption, OneLeg, Inv, [Next]_vars
  PROVE  Inv'
<1>1. CASE WalkStep
  BY <1>1, WalkStepKeeps
<1>2. CASE WalkEnd
  BY <1>2, WalkEndKeeps
<1>3. CASE ~walking /\ Event
  <2>1. CASE AttachEvent
    BY <1>3, <2>1, AttachEventKeeps
  <2>2. CASE Rescan
    BY <1>3, <2>2, RescanKeeps
  <2>3. CASE NewNym
    BY <1>3, <2>3, NewNymKeeps
  <2>4. CASE Expire
    BY <1>3, <2>4, ExpireKeeps
  <2>5. ASSUME NEW s \in Streams,
               NewStream(s) \/ Connected(s) \/ EndNotOpen(s) \/ Close(s)
        PROVE  Inv'
    BY <1>3, <2>5, NewStreamKeeps, ConnectedKeeps, EndNotOpenKeeps,
       StreamClosesKeeps
  <2>6. ASSUME NEW c \in Plain, Predict(c) \/ CircOpens(c) \/ BuildFails(c)
        PROVE  Inv'
    BY <1>3, <2>6, PredictKeeps, CircOpensKeeps, BuildFailsKeeps
  <2>7. ASSUME NEW c \in Sets, SetLinks(c) \/ LegLinks(c)
        PROVE  Inv'
    BY <1>3, <2>7, SetLinksKeeps, NoLegLinks
  <2>8. ASSUME NEW c \in Carriers, LegCloses(c) \/ CircExpires(c)
        PROVE  Inv'
    BY <1>3, <2>8, LegClosesKeeps, CircExpiresKeeps
  <2> QED
    BY <1>3, <2>1, <2>2, <2>3, <2>4, <2>5, <2>6, <2>7, <2>8 DEF Event
<1>4. CASE Time
  <2>1. PICK s \in Timed : Age(s) \/ NoAnswer(s)
    BY <1>4 DEF Time
  <2>2. s \in Streams
    BY DEF StreamIsolationAssumption
  <2> QED
    BY <2>1, <2>2, AgeKeeps, NoAnswerKeeps
<1>5. CASE UNCHANGED vars
  <2>1. UNCHANGED strm /\ UNCHANGED circ /\ UNCHANGED pending
        /\ UNCHANGED untried /\ UNCHANGED todo /\ UNCHANGED walking
        /\ UNCHANGED opening /\ UNCHANGED nym /\ UNCHANGED used
        /\ UNCHANGED shared
    BY <1>5 DEF vars
  <2>2. TypeOK' /\ Legged' /\ OnShape' /\ EpochsKept
        /\ In("wait")' = In("wait")
    BY <2>1, SameWait DEF Inv, TypeOK, Legged
  <2>3. \A c \in Carriers : RecordKept(c)
    BY <2>1 DEF RecordKept
  <2>4. (\A c \in Carriers : Fits(c) /\ Opens(c))' /\ Sharers' /\ Respected'
    BY <2>1, <2>2, <2>3, SteadyStep
  <2>5. Listed'
    BY <2>1, <2>2, ListsKept
  <2> QED
    BY <2>2, <2>4, <2>5 DEF Inv
<1> QED
  BY <1>1, <1>2, <1>3, <1>4, <1>5 DEF Next

\* The inductive invariant holds throughout, for any streams, circuits and NEWNYMs.
THEOREM InvHolds ==
  ASSUME StreamIsolationAssumption, OneLeg
  PROVE  Spec => []Inv
<1>1. Init => Inv
  BY InitInv
<1>2. Inv /\ [Next]_vars => Inv'
  BY NextInv
<1> QED
  BY <1>1, <1>2, PTL DEF Spec

\* The record of a carrier stands for all that used it, and is a real one.
LEMMA InvIsolates ==
  ASSUME Inv
  PROVE  IsolationKept
BY DEF Inv, IsolationKept, MarksAreReal, Opens

\* Two lists without a common element hold every waiting stream once.
LEMMA InvLists ==
  ASSUME Inv
  PROVE  ListedOnce
<1>1. PICK S \in SUBSET Streams, T \in SUBSET Streams :
        /\ Lists(pending, S) /\ Lists(todo, T)
        /\ S \cap T = {} /\ S \cup T = In("wait")
  BY DEF Inv, Listed
<1> DEFINE q == pending \o todo
           W == S \cup T
<1>2. Lists(q, W)
  BY <1>1, ListsBoth
<1>3. \A s \in Streams : s \in W <=> strm[s].state = "wait"
  BY <1>1 DEF In
<1> HIDE DEF q, W
<1>4. \A s \in Streams :
        Cardinality({i \in DOMAIN q : q[i] = s}) = IF s \in W THEN 1 ELSE 0
  BY <1>2, ListedAt
<1>5. \A s \in Streams :
        Cardinality({i \in DOMAIN q : q[i] = s})
          = IF strm[s].state = "wait" THEN 1 ELSE 0
  BY <1>3, <1>4
<1> QED
  BY <1>5 DEF ListedOnce, q

\* Isolation is kept, whatever streams share, retry and leave circuits: a stream
\* joins a carrier only if it agrees in every field it is isolated by with all that
\* used it before (connection_edge_compatible_with_circuit,
\* connection_edge_update_circuit_isolation), and the marks an open circuit keeps
\* are of streams that really used it (circuit_try_clearing_isolation_state).
THEOREM IsolationIsKept ==
  ASSUME StreamIsolationAssumption, OneLeg
  PROVE  Spec => []IsolationKept
BY InvHolds, InvIsolates, PTL

\* Every stream that waits for a circuit is on the pending list, or still to be
\* visited by the walk, exactly once, and no other stream is
\* (connection_ap_mark_as_pending_circuit_, connection_ap_attach_pending).
THEOREM WaitingIsListed ==
  ASSUME StreamIsolationAssumption, OneLeg
  PROVE  Spec => []ListedOnce
BY InvHolds, InvLists, PTL
=============================================================================
