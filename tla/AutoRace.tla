------------------------------- MODULE AutoRace -------------------------------
(***************************************************************************)
(* AutoRace (start-tor.cs): one tor per transport, each with its own       *)
(* ports and directory, raced to 100%.  The launcher polls them in turn    *)
(* while they progress and die beside it; a racer that is stuck on its     *)
(* healthy bridges is restarted alone, once; the winner is kept alive on   *)
(* its own ports.  The log a racer's progress is read from outlives the    *)
(* racer.                                                                  *)
(***************************************************************************)
EXTENDS Integers, FiniteSets

CONSTANTS
  N,          \* racers, polled in the order 1 .. N
  Full,       \* 100%
  MaxRaces    \* bound: races run one after the other

RaceAssumption == N \in Nat \ {0} /\ Full \in Nat \ {0}

Racers == 1 .. N
Pct == -1 .. Full

VARIABLES
  racePc,          \* where AutoRace is; "idle" when it has returned
  cursor,      \* the racer the current foreach is at
  outcome,     \* what the last race returned: "none", "won", "aborted", ...
  races,       \* races started
  alive,       \* r.Alive
  lastPct,     \* r.LastPct
  canFallback, \* r.CanFallback
  used,        \* r.FallbackUsed
  raceProc,        \* r.Proc: "none", "up" or "exited"
  ctl,         \* what r's control port answers, -1 before it does
  log,         \* the last "Bootstrapped NN%" of r's tor.log, -1 for none
  winner,      \* winner, 0 for null
  raceLive,        \* whose ports the session uses, 0 for the primary ones
  raceAbort    \* autoAbort

racer == <<alive, lastPct, canFallback, used>>
tors == <<raceProc, ctl, log>>
raceVars == <<racePc, cursor, outcome, races, racer, tors, winner, raceLive,
              raceAbort>>

RaceInit ==
  /\ racePc = "idle" /\ cursor = 1 /\ outcome = "none" /\ races = 0
  /\ alive = [r \in Racers |-> FALSE]
  /\ lastPct = [r \in Racers |-> -1]
  /\ canFallback = [r \in Racers |-> FALSE]
  /\ used = [r \in Racers |-> TRUE]
  /\ raceProc = [r \in Racers |-> "none"]
  /\ ctl = [r \in Racers |-> -1]
  /\ log \in [Racers -> Pct]     \* left by an earlier run
  /\ winner = 0 /\ raceLive = 0 /\ raceAbort = FALSE

\* Process.Kill of the racers in S, those that run.
Killed(S) == [r \in Racers |-> IF r \in S /\ raceProc[r] = "up" THEN "exited"
                               ELSE raceProc[r]]

Return(what) == racePc' = "idle" /\ outcome' = what

-----------------------------------------------------------------------------
\* The race begins: any tor of this folder is stopped, the racers get their
\* torrc and are started; those of started do start.  tor appends to its log.
StartRace(started, fallback) ==
  /\ racePc = "idle" /\ races < MaxRaces
  /\ races' = races + 1
  /\ raceAbort' = FALSE /\ raceLive' = 0 /\ winner' = 0
  /\ raceProc' = [r \in Racers |-> IF r \in started THEN "up" ELSE "none"]
  /\ ctl' = [r \in Racers |-> -1]
  /\ alive' = [r \in Racers |-> r \in started]
  /\ lastPct' = [r \in Racers |-> -1]
  /\ canFallback' = [r \in Racers |-> r \in fallback]
  /\ used' = [r \in Racers |-> r \notin fallback]
  /\ racePc' = "stall" /\ cursor' = 1
  /\ UNCHANGED <<outcome, log>>

\* A port is busy or a torrc cannot be built: nothing is started.
RaceRefused ==
  /\ racePc = "idle" /\ races < MaxRaces
  /\ races' = races + 1
  /\ raceAbort' = FALSE /\ raceLive' = 0
  /\ raceProc' = Killed(Racers)
  /\ Return("refused")
  /\ UNCHANGED <<cursor, racer, ctl, log, winner>>

\* Mutant: the racer may be restarted again and again.
RestartAgain(r) == UNCHANGED used

FallbackUsed(r) == used' = [used EXCEPT ![r] = TRUE]

\* AutoRestartRacer: the torrc with every bridge cannot be built (the racer
\* is marked dead, its tor runs on), cannot be started, or tor starts anew.
AutoRestartRacer(r, how) ==
  CASE how = "no torrc" ->
         /\ alive' = [alive EXCEPT ![r] = FALSE]
         /\ UNCHANGED <<lastPct, raceProc, ctl>>
    [] how = "no start" ->
         /\ alive' = [alive EXCEPT ![r] = FALSE]
         /\ lastPct' = [lastPct EXCEPT ![r] = -1]
         /\ raceProc' = Killed({r}) /\ UNCHANGED ctl
    [] OTHER ->
         /\ lastPct' = [lastPct EXCEPT ![r] = -1]
         /\ raceProc' = [raceProc EXCEPT ![r] = "up"]
         /\ ctl' = [ctl EXCEPT ![r] = -1]
         /\ UNCHANGED alive

\* One racer's 120 s: only one that has not fallen back yet is looked at.
StallCheck(expired, how) ==
  /\ racePc = "stall" /\ cursor <= N
  /\ cursor' = cursor + 1
  /\ IF expired
     THEN /\ canFallback[cursor] /\ ~used[cursor] /\ alive[cursor]
          /\ FallbackUsed(cursor)
          /\ AutoRestartRacer(cursor, how)
     ELSE UNCHANGED <<used, alive, lastPct, raceProc, ctl>>
  /\ UNCHANGED <<racePc, outcome, races, canFallback, log, winner, raceLive,
                 raceAbort>>

\* After the stall checks: the abort is seen, AutoKillAll, or the poll begins.
AbortCheck ==
  /\ racePc = "stall" /\ cursor = N + 1
  /\ cursor' = 1
  /\ IF raceAbort
     THEN /\ Return("aborted")
          /\ raceProc' = Killed(Racers)
          /\ alive' = [r \in Racers |-> FALSE]
     ELSE racePc' = "poll" /\ UNCHANGED <<outcome, raceProc, alive>>
  /\ UNCHANGED <<races, lastPct, canFallback, used, ctl, log, winner, raceLive,
                 raceAbort>>

\* BootstrapPhaseFor: the more advanced of the two sources.
BootstrapPhaseFor(r) == IF log[r] > ctl[r] THEN log[r] ELSE ctl[r]

\* One racer is polled.  A later one at 100% in the same poll takes over.
Poll ==
  /\ racePc = "poll" /\ cursor <= N
  /\ cursor' = cursor + 1
  /\ LET r == cursor
         pct == BootstrapPhaseFor(r)
         running == alive[r] /\ raceProc[r] = "up" IN
     /\ alive' = [alive EXCEPT ![r] = running]
     /\ lastPct' = [lastPct EXCEPT ![r] = IF running /\ pct >= 0
                                          THEN pct ELSE @]
     /\ winner' = IF running /\ pct # lastPct[r] /\ pct >= Full
                  THEN r ELSE winner
  /\ UNCHANGED <<racePc, outcome, races, canFallback, used, tors, raceLive,
                 raceAbort>>

\* The poll is over: a winner, nobody left, or another round.
PollEnds ==
  /\ racePc = "poll" /\ cursor = N + 1
  /\ cursor' = 1
  /\ IF winner # 0 THEN racePc' = "settle" /\ UNCHANGED outcome
     ELSE IF \A r \in Racers : ~alive[r] THEN Return("died")
     ELSE racePc' = "stall" /\ UNCHANGED outcome
  /\ UNCHANGED <<races, racer, tors, winner, raceLive, raceAbort>>

\* Mutant: only racers still counted alive are killed.
LosersAlive == {r \in Racers \ {winner} : alive[r]}

Losers == Racers \ {winner}

\* Whose ports the session will use: the winner's if it still runs.
AdoptRacerPorts == IF raceProc[winner] = "up" THEN winner ELSE 0

\* The losers are killed, the winner kept, or, if it is gone, the primary
\* ports and a restart by the caller.
Settle ==
  /\ racePc = "settle"
  /\ raceProc' = Killed(Losers)
  /\ alive' = [r \in Racers |-> alive[r] /\ r = winner]
  /\ raceLive' = AdoptRacerPorts
  /\ Return("won")
  /\ UNCHANGED <<cursor, races, lastPct, canFallback, used, ctl, log, winner,
                 raceAbort>>

-----------------------------------------------------------------------------
\* The C key, or Disconnect in the window.
UserAborts ==
  /\ racePc # "idle" /\ raceAbort' = TRUE /\ ~raceAbort
  /\ UNCHANGED <<racePc, cursor, outcome, races, racer, tors, winner, raceLive>>

\* A tor gets on, on its control port and then in its log.
TorProgress(r) ==
  /\ raceProc[r] = "up" /\ ctl[r] < Full
  /\ ctl' = [ctl EXCEPT ![r] = @ + 1]
  /\ UNCHANGED <<racePc, cursor, outcome, races, racer, raceProc, log, winner,
                 raceLive, raceAbort>>

TorLogs(r) ==
  /\ raceProc[r] = "up" /\ ctl[r] >= 0 /\ log[r] # ctl[r]
  /\ log' = [log EXCEPT ![r] = ctl[r]]
  /\ UNCHANGED <<racePc, cursor, outcome, races, racer, raceProc, ctl, winner,
                 raceLive, raceAbort>>

TorExits(r) ==
  /\ raceProc[r] = "up"
  /\ raceProc' = [raceProc EXCEPT ![r] = "exited"]
  /\ UNCHANGED <<racePc, cursor, outcome, races, racer, ctl, log, winner,
                 raceLive, raceAbort>>

Launcher ==
  \/ AbortCheck \/ Poll \/ PollEnds \/ Settle
  \/ \E how \in {"no torrc", "no start", "started"} : StallCheck(TRUE, how)
  \/ StallCheck(FALSE, "none")

RaceNext ==
  \/ Launcher \/ RaceRefused \/ UserAborts
  \/ \E started, fallback \in SUBSET Racers : StartRace(started, fallback)
  \/ \E r \in Racers : TorProgress(r) \/ TorLogs(r) \/ TorExits(r)

\* The loop runs, and a tor that runs gets on; that it is never stuck for
\* good is what the code counts on ("there is NO timeout").
RaceFairness ==
  /\ WF_raceVars(Launcher)
  /\ \A r \in Racers : WF_raceVars(TorProgress(r)) /\ WF_raceVars(TorLogs(r))

RaceSpec == RaceInit /\ [][RaceNext]_raceVars
FairRaceSpec == RaceSpec /\ RaceFairness

-----------------------------------------------------------------------------
(* Properties.                                                              *)

\* AutoRestartRacer was asked to restart r.
FellBack(r) == canFallback[r] /\ used[r]

\* However racers died, were marked dead or were restarted, a race that is over
\* leaves no tor running but the winner; only one that "died" may leave racers
\* that could not be restarted.
OneTor ==
  racePc = "idle" =>
    \A r \in Racers : raceProc[r] = "up" =>
      \/ outcome = "won" /\ r = winner
      \/ outcome = "died" /\ FellBack(r)

AdoptsLive ==
  racePc = "settle" /\ racePc' = "idle" /\ raceLive' # 0
    => raceProc[raceLive'] = "up"

\* Only the winner lives ("the losers are killed"): every step leaves OneTor true,
\* as it is before the first race; and AdoptRacerPorts never adopts the ports of a
\* winner that has died since it was seen at 100%.
OnlyWinnerLives == [][OneTor' /\ AdoptsLive]_raceVars

\* A race ends: deaths, restarts and a take-over by a later racer never keep
\* it going for ever.
RaceEnds == []<>(racePc = "idle")

-----------------------------------------------------------------------------
\* What a comment, an assertion or a name in the source says and the code does
\* not keep (README, section "Departures"): TLC refutes each of these.

\* Who wins has got to 100% ("a stale 100% from an older run can never be
\* misread as the current run's status").
WinnerReached100 == racePc = "settle" => ctl[winner] = Full
=============================================================================
