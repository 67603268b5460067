---------------------------- MODULE ConfluxSelect ----------------------------
(***************************************************************************)
(* Where a new stream goes (conflux_pool.c, conflux_get_circ_for_conn and  *)
(* what it calls): the client's pool of linked conflux sets, the two RTT   *)
(* filters and the four selection policies, and TorJet's keep-alive        *)
(* streams, which pass the filters by.                                     *)
(***************************************************************************)
EXTENDS Lists, Integers, Functions

CONSTANTS
  Sets,         \* conflux sets the client may have linked
  InitSets,     \* the pool at first, a sequence of them
  NoPick,        \* no set: conflux_get_circ_for_conn answers NULL
  Unmeasured,   \* UINT64_MAX, the RTT of a set with no measured leg
  LegRtts,      \* bound: the sets of RTTs the legs of one set may have
  Configs,      \* bound: the configurations, see Config
  MaxAttached,  \* bound: requests
  MaxLinks      \* bound: sets linked after the start

\* ConfluxSetSelection, ConfluxSetRttMax and ConfluxSetRttPct.
Config == [policy : {"first", "round_robin", "least_streams", "fastest"},
           rttMax : Nat, rttPct : 0 .. 100]

SelectAssumption ==
  /\ InitSets \in Seq(Sets) /\ IsInjective(InitSets)
  /\ NoPick \notin Sets /\ Unmeasured \in Nat
  /\ \A R \in LegRtts : R \subseteq 0 .. Unmeasured /\ R # {}
  /\ Configs \subseteq Config

VARIABLES
  config,    \* the options
  pool,      \* client_linked_pool, in the order the map is walked
  rtts,      \* rtts[s]: circ_rtts_usec of the legs of s, 0 if not measured
  open,      \* open[s]: streams attached to s now (p_streams)
  total,     \* total[s]: cfx->total_streams
  counter,   \* the round-robin counter
  attached,  \* requests since the start
  links,     \* sets linked since the start
  last,      \* ghost: the latest request and its answer
  round,     \* ghost: the round-robin picks since the candidates changed
  turn,      \* ghost, turn[s]: keep-alives attached since s had one
  calm       \* ghost: only keep-alives that every set accepts so far

selectVars == <<config, pool, rtts, open, total, counter, attached, links, last,
                round, turn, calm>>
ghosts == <<last, round, turn, calm>>

-----------------------------------------------------------------------------
\* conflux_set_best_rtt
BestRtt(s) ==
  LET measured == rtts[s] \ {0} IN
  IF measured = {} THEN Unmeasured
  ELSE CHOOSE r \in measured : \A q \in measured : r <= q

\* The loop of the ConfluxSetRttMax filter.  SMARTLIST_DEL_CURRENT puts the last
\* element in the place of the one it deletes, which the loop looks at next:
\* so the slow sets' places go to the last of the others, from the end.
DropSlow(c) ==
  LET fast == {i \in DOMAIN c : BestRtt(c[i]) < config.rttMax}
      Place(i) == Cardinality((1 .. i) \ fast)
      Filler(n) == CHOOSE j \in fast : Cardinality({k \in fast : k >= j}) = n
  IN  [i \in 1 .. Cardinality(fast) |->
         IF i \in fast THEN c[i] ELSE c[Filler(Place(i))]]

\* The ConfluxSetRttMax filter.
RttMaxFilter(c) ==
  IF config.rttMax > 0 /\ Len(c) > 1 THEN DropSlow(c) ELSE c

\* The lists that sorting c by conflux_cand_rtt_asc_cmp may give: sets of
\* equal RTT come in any order.
Sorted(c) ==
  {q \in [1 .. Len(c) -> In(c)] :
     /\ IsInjective(q)
     /\ \A i, j \in 1 .. Len(c) : i < j => BestRtt(q[i]) <= BestRtt(q[j])}

\* Mutant: the list is cut before it is sorted.
RttPctUnsorted(c) ==
  IF config.rttPct > 0 /\ Len(c) > 1
  THEN LET keep == (Len(c) * config.rttPct) \div 100 IN
       {Upto(c, IF keep = 0 THEN 1 ELSE keep)}
  ELSE {c}

\* The ConfluxSetRttPct filter: what it may leave of c.
RttPctFilter(c) ==
  IF config.rttPct > 0 /\ Len(c) > 1
  THEN LET keep == (Len(c) * config.rttPct) \div 100 IN
       {Upto(q, IF keep = 0 THEN 1 ELSE keep) : q \in Sorted(c)}
  ELSE {c}

\* The first element of c with the lowest f.
FirstLeast(c, f) ==
  LET low == {i \in DOMAIN c : \A j \in DOMAIN c : f[c[i]] <= f[c[j]]}
  IN  c[CHOOSE i \in low : \A j \in low : i <= j]

\* conflux_pick_set_from_candidates, for a user's stream.
PickByPolicy(c) ==
  CASE config.policy = "round_robin"   -> c[(counter % Len(c)) + 1]
    [] config.policy = "least_streams" -> FirstLeast(c, open)
    [] config.policy = "fastest"       ->
         FirstLeast(c, [s \in Sets |-> BestRtt(s)])
    [] OTHER                           -> c[1]

\* conflux_pick_set_from_candidates, for a keep-alive.
PickKeepalive(c) == FirstLeast(c, total)

-----------------------------------------------------------------------------
\* The counter moves only when round robin picks.
Rotates(keepalive, c) == ~keepalive /\ c # <<>> /\ config.policy = "round_robin"

\* Mutant: keep-alives advance the counter too.
CountEveryPick(keepalive, c) ==
  counter' = IF c # <<>> THEN counter + 1 ELSE counter

CountRotation(keepalive, c) ==
  counter' = IF Rotates(keepalive, c) THEN counter + 1 ELSE counter

\* link_apconn_to_circ: the stream joins the set.
LinkApconn(s) ==
  /\ open' = [open EXCEPT ![s] = @ + 1]
  /\ total' = [total EXCEPT ![s] = @ + 1]

\* What the ghosts record of a request that s answers.
Note(keepalive, acc, c, s) ==
  /\ last' = [keepalive |-> keepalive, acc |-> acc \cap In(pool), picked |-> s]
  /\ round' = IF Rotates(keepalive, c)
               THEN [list |-> c,
                     picks |-> (IF round.list = c THEN round.picks ELSE <<>>)
                               \o <<s>>]
               ELSE round
  /\ turn' = IF keepalive /\ s # NoPick
             THEN [t \in Sets |-> IF t = s THEN 0 ELSE turn[t] + 1]
             ELSE turn
  /\ calm' = (calm /\ keepalive /\ In(pool) \subseteq acc)

\* circuit_get_best, for a stream that the sets of acc are acceptable to
\* (circuit_is_acceptable: exit policy, isolation, age), and the stream
\* attached to its answer.  With no answer it looks for another circuit.
AttachStream(keepalive, acc) ==
  LET all == Only(pool, acc) IN
  /\ attached < MaxAttached
  /\ attached' = attached + 1
  /\ \E c \in (IF keepalive THEN {all} ELSE RttPctFilter(RttMaxFilter(all))) :
       LET s == IF c = <<>> THEN NoPick
                ELSE IF keepalive THEN PickKeepalive(c) ELSE PickByPolicy(c)
       IN
       /\ IF s = NoPick THEN UNCHANGED <<open, total>> ELSE LinkApconn(s)
       /\ CountRotation(keepalive, c)
       /\ Note(keepalive, acc, c, s)
  /\ UNCHANGED <<config, pool, rtts, links>>

\* A stream of s ends and leaves p_streams.
CloseStream(s) ==
  /\ open[s] > 0
  /\ open' = [open EXCEPT ![s] = @ - 1]
  /\ UNCHANGED <<config, pool, rtts, total, counter, attached, links, ghosts>>

\* conflux_update_rtt on a leg of s.
UpdateRtt(s, R) ==
  /\ s \in In(pool) /\ R # rtts[s]
  /\ rtts' = [rtts EXCEPT ![s] = R]
  /\ UNCHANGED <<config, pool, open, total, counter, attached, links, ghosts>>

\* linked_pool_del: the last leg of s is gone, and its streams with it.
CloseSet(s) ==
  /\ s \in In(pool)
  /\ pool' = Only(pool, Sets \ {s})
  /\ open' = [open EXCEPT ![s] = 0]
  /\ UNCHANGED <<config, rtts, total, counter, attached, links, ghosts>>

\* linked_pool_add: set s is linked, with a conflux object of its own or, when
\* it was rebuilt under its nonce, with the one it had.
LinkSet(s, R) ==
  /\ s \notin In(pool)
  /\ links < MaxLinks
  /\ \E i \in 1 .. Len(pool) + 1 :
       pool' = [k \in 1 .. Len(pool) + 1 |->
                  IF k < i THEN pool[k] ELSE IF k = i THEN s ELSE pool[k - 1]]
  /\ \E n \in {0, total[s]} : total' = [total EXCEPT ![s] = n]
  /\ rtts' = [rtts EXCEPT ![s] = R]
  /\ links' = links + 1
  /\ turn' = [turn EXCEPT ![s] = 0]
  /\ UNCHANGED <<config, open, counter, attached, last, round, calm>>

-----------------------------------------------------------------------------
SelectInit ==
  /\ config \in Configs
  /\ pool = InitSets
  /\ rtts \in [Sets -> LegRtts]
  /\ open = [s \in Sets |-> 0]
  /\ total = [s \in Sets |-> 0]
  /\ counter = 0
  /\ attached = 0
  /\ links = 0
  /\ last = [keepalive |-> TRUE, acc |-> {}, picked |-> NoPick]
  /\ round = [list |-> <<>>, picks |-> <<>>]
  /\ turn = [s \in Sets |-> 0]
  /\ calm = TRUE

SelectNext ==
  \/ \E keepalive \in BOOLEAN, acc \in SUBSET Sets :
       AttachStream(keepalive, acc)
  \/ \E s \in Sets : CloseStream(s) \/ CloseSet(s)
  \/ \E s \in Sets, R \in LegRtts : UpdateRtt(s, R) \/ LinkSet(s, R)

SelectSpec == SelectInit /\ [][SelectNext]_selectVars

-----------------------------------------------------------------------------
\* What ConfluxSetRttMax calls a slow set.
TooSlow(s) == config.rttMax > 0 /\ BestRtt(s) >= config.rttMax

\* A request of the user's was answered by s, of the sets acc it may use.
AnsweredWell(s, acc) ==
  IF s = NoPick THEN \A t \in acc : TooSlow(t) /\ acc # {t}
  ELSE /\ s \in acc
       /\ TooSlow(s) => \A t \in acc : TooSlow(t)
       /\ config.policy = "fastest" => \A t \in acc : BestRtt(s) <= BestRtt(t)

PicksInBounds ==
  attached' > attached /\ ~last'.keepalive =>
    AnsweredWell(last'.picked, last'.acc)

\* A user's stream goes to a set at or above ConfluxSetRttMax only when every
\* set it may use is; it gets no set only when it may use none, or several that
\* are all that slow; and whatever the filters drop, and in whatever order they
\* leave the list, the policy "fastest" gives it the fastest set it may use
\* (conflux_get_circ_for_conn, both filters and the policy together).
FailoverPick == [][PicksInBounds]_selectVars

\* As long as the candidates stay the same, round robin comes back to a set
\* only after it has been through all the others, whatever keep-alives come in
\* between (the static counter of conflux_pick_set_from_candidates).
RoundRobinTurns ==
  \A i, j \in DOMAIN round.picks :
    i < j /\ j - i < Len(round.list) => round.picks[i] # round.picks[j]

\* With no other streams, and no set linked meanwhile, every set gets a
\* keep-alive at least once in as many as there were sets, sets closing or not
\* (the keepalive_balance branch of conflux_pick_set_from_candidates).
KeepaliveTurns ==
  calm /\ links = 0 =>
    \A s \in In(pool) : turn[s] < Len(InitSets)

\* Turns are fair: RoundRobinTurns for the streams of the user and
\* KeepaliveTurns for the launcher's keep-alives.
TurnsAreFair == RoundRobinTurns /\ KeepaliveTurns

-----------------------------------------------------------------------------
\* What a comment, an assertion or a name in the source says and the code does
\* not keep (README, section "Departures"): TLC refutes each of these.

\* The keep-alives are spread evenly also while sets are rebuilt (what the
\* README and the comment of conflux_pick_set_from_candidates say): no set
\* waits for two full rounds.
KeepaliveSpread ==
  calm => \A s \in In(pool) : turn[s] < 2 * Cardinality(Sets)

\* The filters never leave a stream without a set when there is one it may use
\* (what the comments of both filters in conflux_get_circ_for_conn say).
NeverStranded ==
  last.acc # {} => last.picked # NoPick
=============================================================================
