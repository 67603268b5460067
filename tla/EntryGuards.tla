----------------------------- MODULE EntryGuards -----------------------------
(***************************************************************************)
(* Entry guard selection (feature/client/entrynodes.c): the persistent     *)
(* sample, its filtered and usable parts, the confirmed and the primary    *)
(* lists, and the guard state of the circuits that use them.               *)
(*                                                                         *)
(* Times are abstracted to what is compared with them: "due" is the guards *)
(* whose retry delay has run out, "late" the circuits whose state has      *)
(* lasted longer than its timeout.  Every guard has a descriptor, and a    *)
(* reasonably live consensus is at hand.                                   *)
(***************************************************************************)
EXTENDS Lists, SequencesExt

CONSTANTS
  Guards,        \* relays with the Guard flag
  Circs,         \* origin circuits, each used many times
  NPrimary,      \* get_n_primary_guards
  NUse,          \* get_n_primary_guards_to_use
  MinFiltered,   \* get_min_filtered_sample_size
  MaxSample,     \* get_max_sample_size
  Restrictions,  \* what circuits exclude: sets, {} for no restriction
  Restarts,      \* TRUE: tor saves its state and restarts
  MaxChanges     \* bound on changes of the consensus and the configuration

GuardAssumption ==
  /\ NPrimary \in Nat /\ NUse \in Nat \ {0}
  /\ MinFiltered \in Nat /\ MaxSample \in Nat /\ MinFiltered <= MaxSample
  /\ Restarts \in BOOLEAN /\ MaxChanges \in Nat
  /\ "gone" \notin Guards

VARIABLES
  gs,       \* the guard_selection_t and its entry_guard_t's
  circ,     \* circ[c]: guard state, guard and restriction
  listed,   \* guards in the consensus
  allowed,  \* guards that pass the configured filter
  due,      \* guards last tried longer ago than their retry delay
  late,     \* circuits in their state for longer than its timeout
  recent,   \* last_time_on_internet is recent
  saved,    \* the sample and confirmed guards in the state file
  changes   \* how often listed or allowed has changed

vars == <<gs, circ, listed, allowed, due, late, recent, saved, changes>>

\* A circuit without a guard state, and a guard that was freed under one.
Gone == "gone"
NoCirc == [st |-> "none", g |-> Gone, rst |-> {}]

\* sample and conf: the guards by sampled_idx and by confirmed_idx;
\* prim: primary_entry_guards; the rest are flags of each guard.
Empty == [sample |-> <<>>, conf |-> <<>>, prim |-> <<>>, flag |-> {},
          utd |-> FALSE, filt |-> {}, usable |-> {}, pend |-> {},
          reach |-> [g \in Guards |-> "maybe"]]

Confirmed(s) == In(s.conf)
BySample(s, S) == Only(s.sample, S)

--------------------------------------------------------------------------
(* Reachability and the filter.                                            *)

MarkMaybe(s, S) ==
  LET down == {g \in S : s.reach[g] = "no"} IN
  [s EXCEPT !.reach = [g \in Guards |-> IF g \in down THEN "maybe" ELSE @[g]],
            !.usable = @ \cup (down \cap s.filt)]

\* entry_guard_consider_retry on each guard of S
ConsiderRetry(s, S) == MarkMaybe(s, S \cap due)

\* entry_guards_update_filtered_sets
SetFiltered(s, pass) ==
  LET f == In(s.sample) \cap pass
      t == [s EXCEPT !.filt = f, !.usable = {g \in f : s.reach[g] # "no"},
                     !.utd = @ /\ f = s.filt]
  IN ConsiderRetry(t, f)

--------------------------------------------------------------------------
(* The sample and the primary list.                                        *)

\* What entry_guards_expand_sample may add: guards until enough are usable,
\* the sample is full, or there are no more.
Additions(s, inCons, pass) ==
  LET pool == inCons \ In(s.sample)
      Goes(q) == /\ Cardinality(s.usable) + Cardinality(In(q) \cap pass)
                      < MinFiltered
                 /\ Len(s.sample) + Len(q) < MaxSample
                 /\ In(q) # pool
      Inj == {q \in SeqOf(pool, MaxSample) : Len(q) = Cardinality(In(q))}
  IN {q \in Inj : ~Goes(q) /\ \A n \in 0 .. Len(q) - 1 : Goes(SubSeq(q, 1, n))}

\* A guard added to the sample that passes the filter makes the primary list
\* out of date.
Expand(s, inCons, pass) ==
  LET r == ConsiderRetry(s, In(s.sample)) IN
  {[r EXCEPT !.sample = @ \o q, !.filt = @ \cup (In(q) \cap pass),
             !.usable = @ \cup (In(q) \cap pass),
             !.utd = @ /\ In(q) \cap pass = {}] : q \in Additions(r, inCons, pass)}

\* Mutant: the guards dropped from the list keep their flag.
DroppedNone(s, kept) == {}

Dropped(s, kept) == In(s.prim) \ kept

\* Mutant: primary guards are taken from the sample alone.
FromConfirmedNone(s) == <<>>

FromConfirmed(s) == Upto(BySample(s, Confirmed(s) \cap s.filt), NPrimary)

\* entry_guards_update_primary: confirmed guards first, then primary guards
\* already there, then the sample.
UpdatePrimary(s, inCons, pass) ==
  LET a == FromConfirmed(s)
      b == Upto(Only(s.prim, s.filt \ In(a)), NPrimary - Len(a))
      ab == In(a) \cup In(b)
      t == [s EXCEPT !.flag = (@ \cup ab) \ Dropped(s, ab)]
      Fill(u) ==
        LET c == Upto(BySample(u, (u.usable \ Confirmed(u)) \ u.flag),
                      NPrimary - Cardinality(ab))
        IN [u EXCEPT !.flag = @ \cup In(c), !.utd = TRUE,
                     !.prim = BySample(u, ab \cup In(c))]
  IN IF Cardinality(ab) >= NPrimary THEN {Fill(t)}
     ELSE {Fill(u) : u \in Expand(t, inCons, pass)}

UpToDate(s) ==
  IF s.utd THEN {s} ELSE UpdatePrimary(s, listed, listed \cap allowed)

\* remove_guard_from_confirmed_and_primary_lists and entry_guard_free
Prune(s, R) ==
  LET keep == Guards \ R IN
  [s EXCEPT !.sample = Only(@, keep), !.conf = Only(@, keep),
            !.prim = Only(@, keep), !.flag = @ \ R, !.filt = @ \ R,
            !.usable = @ \ R, !.pend = @ \ R,
            !.reach = [g \in Guards |-> IF g \in R THEN "maybe" ELSE @[g]]]

\* entry_guards_update_all: R are obsolete, n_changes of the sampled guards
\* were listed or unlisted.
UpdateAll(s, R, changed, inCons, pass) ==
  LET t == [Prune(s, R) EXCEPT !.utd = @ /\ R = {} /\ ~changed]
  IN UpdatePrimary(SetFiltered(t, pass), inCons, pass)

--------------------------------------------------------------------------
(* Selection.                                                              *)

\* select_primary_guard_for_circuit: the guards to choose from and the ones
\* looked at.  An excluded guard counts as considered, and ends the search
\* once there is a guard to use.
PrimaryScan(s, rst) ==
  LET at == DOMAIN s.prim
      up == {i \in at : /\ s.prim[i] \notin rst
                        /\ s.reach[s.prim[i]] # "no" \/ s.prim[i] \in due}
      considered == up \cup {i \in at : s.prim[i] \in rst}
      Ends(i) == /\ i \in considered
                 /\ Cardinality({j \in considered : j <= i}) >= NUse
                 /\ \E j \in up : j <= i
      reached == {i \in at : \A j \in at : j < i => ~Ends(j)}
  IN [use |-> {s.prim[i] : i \in up \cap reached},
      seen |-> {s.prim[i] : i \in reached}]

Picked(s, g, st, tried) == [gs |-> s, g |-> g, st |-> st, tried |-> tried]

\* select_filtered_guard_for_circuit; when there is none, every guard is
\* marked for retry.
SelectFiltered(s, rst) ==
  LET Pick(u) ==
        LET q == BySample(u, u.usable
                             \ (Confirmed(u) \cup u.flag \cup u.pend \cup rst))
        IN IF q = <<>> THEN Picked(MarkMaybe(u, In(u.sample)), Gone, "none", {})
           ELSE Picked([u EXCEPT !.pend = @ \cup {q[1]}], q[1], "ifnobetter",
                       {q[1]})
  IN {Pick(u) : u \in UNION {UpToDate(t) :
                  t \in Expand(s, listed, listed \cap allowed)}}

\* The candidates of select_confirmed_guard_for_circuit.
ConfirmedToTry(s, rst) ==
  BySample(s, (Confirmed(s) \ s.flag) \ rst)

SelectConfirmed(s, rst) ==
  LET q == ConfirmedToTry(s, rst)
      Ok(g) == g \in ConsiderRetry(s, {g}).usable \ s.pend
      good == {i \in DOMAIN q : Ok(q[i])}
      i == CHOOSE i \in good : \A j \in good : i <= j
  IN IF good = {} THEN SelectFiltered(ConsiderRetry(s, In(q)), rst)
     ELSE {Picked([ConsiderRetry(s, In(Upto(q, i))) EXCEPT
                     !.pend = @ \cup {q[i]}], q[i], "ifnobetter", {q[i]})}

\* select_entry_guard_for_circuit
Select(s, rst) ==
  UNION {LET scan == PrimaryScan(t, rst)
             r == ConsiderRetry(t, scan.seen)
         IN IF scan.use # {}
            THEN {Picked(r, g, "oncompletion", scan.use) : g \in scan.use}
            ELSE SelectConfirmed(r, rst)
         : t \in UpToDate(s)}

--------------------------------------------------------------------------
(* Circuits.                                                               *)

Init ==
  /\ listed = Guards /\ allowed = Guards
  /\ due = {} /\ late = {} /\ recent = TRUE /\ changes = 0
  /\ gs \in UpdatePrimary(Empty, Guards, Guards)
  /\ saved = [sample |-> <<>>, conf |-> <<>>]
  /\ circ = [c \in Circs |-> NoCirc]

\* entry_guard_pick_for_circuit
PickGuard(c, rst) ==
  /\ circ[c].st = "none"
  /\ \E p \in Select(gs, rst) :
       /\ gs' = p.gs
       /\ due' = due \ p.tried
       /\ circ' = IF p.g = Gone THEN circ
                  ELSE [circ EXCEPT ![c] = [st |-> p.st, g |-> p.g, rst |-> rst]]
  /\ late' = late \ {c}
  /\ UNCHANGED <<listed, allowed, recent, saved, changes>>

\* make_guard_confirmed
Confirm(s, g) ==
  IF g \in Confirmed(s) THEN {s}
  ELSE UpToDate([s EXCEPT !.conf = Append(@, g), !.utd = FALSE])

\* entry_guard_succeeded, when the last hop of a circuit is there.
Built(c) ==
  /\ circ[c].st \in {"oncompletion", "ifnobetter"} /\ circ[c].g # Gone
  /\ LET g == circ[c].g
         up == [gs EXCEPT !.reach[g] = "yes", !.pend = @ \ {g},
                          !.usable = @ \cup ({g} \cap gs.filt)]
     IN \E s \in Confirm(up, g) :
          /\ circ' = [circ EXCEPT ![c].st =
                        IF @ = "oncompletion" \/ g \in s.flag THEN "complete"
                        ELSE "waiting"]
          /\ IF g \in s.flag \/ recent THEN gs' = s
             ELSE \E t \in UpToDate(s) : gs' = MarkMaybe(t, In(t.prim))
  /\ recent' = TRUE
  /\ late' = late \ {c}
  /\ UNCHANGED <<listed, allowed, due, saved, changes>>

\* entry_guard_failed: from circuit_build_failed, or for every circuit that
\* waits for the channel.
Failed(S) ==
  /\ S # {}
  /\ \E g \in Guards :
       /\ \A c \in S : circ[c].g = g /\ circ[c].st \in {"oncompletion", "ifnobetter"}
       /\ gs' = [gs EXCEPT !.reach[g] = "no", !.usable = @ \ {g}, !.pend = @ \ {g}]
  /\ circ' = [c \in Circs |-> IF c \in S THEN [circ[c] EXCEPT !.st = "dead"]
                              ELSE circ[c]]
  /\ UNCHANGED <<listed, allowed, due, late, recent, saved, changes>>

\* Mutant: the guard stays pending.
CancelNot(s, g) == s

\* entry_guard_cancel
Cancel(s, g) == [s EXCEPT !.pend = @ \ {g}]

\* A circuit is freed, in whatever state: it has failed, waited too long for a
\* better guard, or is no longer of use.
Close(c) ==
  /\ circ[c].st # "none"
  /\ gs' = Cancel(gs, circ[c].g)
  /\ circ' = [circ EXCEPT ![c] = NoCirc]
  /\ late' = late \ {c}
  /\ UNCHANGED <<listed, allowed, due, recent, saved, changes>>

--------------------------------------------------------------------------
(* entry_guards_upgrade_waiting_circuits.                                  *)

\* entry_guard_has_higher_priority, where b's guard is confirmed: a waiting
\* circuit's guard is.
Higher(s, a, b) ==
  LET pos(g) == CHOOSE i \in DOMAIN s.conf : s.conf[i] = g
  IN a # b /\ a \in Confirmed(s) /\ pos(a) < pos(b)

Live(c) == circ[c].g # Gone
Waiting == {c \in Circs : Live(c) /\ circ[c].st = "waiting"}

\* c obeys b's restriction and has a better guard.
Blocks(s, c, b) == /\ Live(c) /\ circ[c].g \notin circ[b].rst
                   /\ Higher(s, circ[c].g, circ[b].g)

Best(s, b) == \A c \in Waiting : ~Higher(s, circ[c].g, circ[b].g)

Upgraded(s, b) ==
  {c \in Waiting : /\ c = b \/ circ[b].rst = {}
                   /\ ~Higher(s, circ[b].g, circ[c].g)}

\* Mutant: only circuits in use block.
BlockedByUse(s, b) ==
  \E c \in Circs : circ[c].st = "complete" /\ Blocks(s, c, b)

Blocked(s, b) ==
  \E c \in Circs :
    /\ \/ circ[c].st = "complete"
       \/ circ[c].st = "ifnobetter" /\ c \notin late
    /\ Blocks(s, c, b)

Upgrade ==
  /\ \E c \in Circs : circ[c].st = "waiting"
  /\ \E t \in UpToDate(gs) :
       LET s == ConsiderRetry(t, In(t.prim))
           down == \A g \in In(s.prim) : s.reach[g] = "no"
       IN
       /\ gs' = s
       /\ \/ /\ \/ ~down \/ Waiting = {}
                \/ \E b \in Waiting : Best(s, b) /\ Blocked(s, b)
             /\ UNCHANGED circ
          \/ /\ down
             /\ \E b \in Waiting :
                  /\ Best(s, b) /\ ~Blocked(s, b)
                  /\ circ' = [c \in Circs |->
                                IF c \in Upgraded(s, b)
                                THEN [circ[c] EXCEPT !.st = "complete"]
                                ELSE circ[c]]
  /\ UNCHANGED <<listed, allowed, due, late, recent, saved, changes>>

--------------------------------------------------------------------------
(* The network, the configuration, time and restarts.                      *)

\* A consensus lists or drops g; at most one guard is obsolete at a time.
NewConsensus(g, R) ==
  LET now == IF g \in listed THEN listed \ {g} ELSE listed \cup {g} IN
  /\ changes < MaxChanges /\ changes' = changes + 1
  /\ R \subseteq In(gs.sample) /\ Cardinality(R) <= 1
  /\ listed' = now
  /\ gs' \in UpdateAll(gs, R, g \in In(gs.sample), now, now \cap allowed)
  /\ circ' = [c \in Circs |-> IF circ[c].g \in R
                              THEN [circ[c] EXCEPT !.g = Gone] ELSE circ[c]]
  /\ UNCHANGED <<allowed, due, late, recent, saved>>

\* options_act: the filter lets g pass or not.
NewOptions(g) ==
  LET now == IF g \in allowed THEN allowed \ {g} ELSE allowed \cup {g} IN
  /\ changes < MaxChanges /\ changes' = changes + 1
  /\ allowed' = now
  /\ gs' \in UpdateAll(gs, {}, FALSE, listed, listed \cap now)
  /\ UNCHANGED <<circ, listed, due, late, recent, saved>>

\* guards_retry_optimistic, when a stream finds no circuit.
RetryOptimistic ==
  /\ \E t \in UpToDate(gs) : gs' = MarkMaybe(t, In(t.prim))
  /\ UNCHANGED <<circ, listed, allowed, due, late, recent, saved, changes>>

Time ==
  /\ \/ \E g \in In(gs.sample) \ due :
          /\ gs.reach[g] = "no"
          /\ due' = due \cup {g} /\ UNCHANGED <<late, recent>>
     \/ \E c \in Circs \ late :
          /\ circ[c].st = "ifnobetter"
          /\ late' = late \cup {c} /\ UNCHANGED <<due, recent>>
     \/ recent /\ recent' = FALSE /\ UNCHANGED <<due, late>>
  /\ UNCHANGED <<gs, circ, listed, allowed, saved, changes>>

\* entry_guards_update_state
Save ==
  /\ Restarts
  /\ saved' = [sample |-> gs.sample, conf |-> gs.conf]
  /\ UNCHANGED <<gs, circ, listed, allowed, due, late, recent, changes>>

\* tor stops at any moment and starts again: entry_guards_load_guards_from_state.
Restart ==
  /\ Restarts
  /\ gs' \in UpdateAll([Empty EXCEPT !.sample = saved.sample, !.conf = saved.conf],
                       {}, FALSE, listed, listed \cap allowed)
  /\ circ' = [c \in Circs |-> NoCirc]
  /\ due' = {} /\ late' = {} /\ recent' = FALSE
  /\ UNCHANGED <<listed, allowed, saved, changes>>

Next ==
  \/ \E c \in Circs : \/ \E r \in Restrictions : PickGuard(c, r)
                      \/ Built(c) \/ Close(c)
  \/ \E S \in SUBSET Circs : Failed(S)
  \/ Upgrade \/ RetryOptimistic \/ Time \/ Save \/ Restart
  \/ \E g \in Guards : NewOptions(g) \/ \E R \in SUBSET Guards : NewConsensus(g, R)

Spec == Init /\ [][Next]_vars

--------------------------------------------------------------------------
(* Properties.                                                             *)

\* The flags of the guards agree with the lists: is_primary names the guards of
\* primary_entry_guards, and is_usable_filtered_guard the reachable ones of the
\* filtered sample ("whenever a guard becomes unreachable, clear its
\* usable_filtered flag"), whatever was pruned, filtered, confirmed or loaded
\* from an older state file in between.
FlagsAgree == /\ gs.flag = In(gs.prim)
              /\ gs.usable = {g \in gs.filt : gs.reach[g] # "no"}

\* A primary list that counts as up to date holds only guards of the filtered
\* sample, in sampled order, and an unconfirmed one only when every confirmed
\* guard that passes the filter is in it.
PrimaryIsBest ==
  gs.utd =>
    /\ gs.prim = BySample(gs, In(gs.prim) \cap gs.filt)
    /\ In(gs.prim) \subseteq Confirmed(gs)
       \/ gs.filt \cap Confirmed(gs) \subseteq In(gs.prim)

\* A guard is pending only while some circuit is trying it: no way for a
\* circuit to end leaves a guard that will not be chosen again.
PendingIsTried ==
  \A g \in gs.pend : \E c \in Circs : circ[c].st = "ifnobetter" /\ circ[c].g = g

UpgradesBest ==
  \A b, c \in Circs :
    /\ circ[b].st = "waiting" /\ circ'[b].st = "complete"
    /\ Live(c) /\ Higher(gs, circ[c].g, circ[b].g)
    => \/ circ[c].g \in circ[b].rst
       \/ circ[c].st \in {"dead", "oncompletion", "none"}
       \/ circ[c].st = "ifnobetter" /\ c \in late

\* A waiting circuit is put to use only when no circuit with a better guard,
\* in the order of confirmation, is in use, waiting or being built.
UpgradeInOrder == [][UpgradesBest]_vars

-----------------------------------------------------------------------------
\* What a comment, an assertion or a name in the source says and the code does
\* not keep (README, section "Departures"): TLC refutes each of these.

\* entry_guard_cancel: "It is safe to call this function if success or failure
\* _has_ already been declared."
CancelIsSafe ==
  [][\A c \in Circs :
       /\ circ[c].st \in {"complete", "waiting", "dead"}
       /\ circ'[c].st = "none" /\ changes' = changes
       => gs'.pend = gs.pend]_vars

\* "When we are about to pick a guard, make sure that the primary list is
\* full": a guard outside it is chosen only then.
PicksWithFullList ==
  [][\A c \in Circs : circ[c].st = "none" /\ circ'[c].st = "ifnobetter"
       => Len(gs'.prim) = NPrimary]_vars

SampledBefore(s, a, b) ==
  \E i, j \in DOMAIN s.sample : s.sample[i] = a /\ s.sample[j] = b /\ i < j

\* "we won't use its circuit unless all of the circuits we're trying to build
\* through better guards have definitely failed": of two confirmed guards the
\* better one is the one that is tried first, by sampled order.
NoJump ==
  [][\A b, c \in Circs :
       /\ circ[b].st = "waiting" /\ circ'[b].st = "complete"
       /\ circ[c].st = "ifnobetter" /\ c \notin late /\ circ[b].rst = {}
       /\ Live(c) /\ circ[c].g \in Confirmed(gs)
       => ~SampledBefore(gs, circ[c].g, circ[b].g)]_vars
=============================================================================
