------------------------------ MODULE MCLauncher ------------------------------
(***************************************************************************)
(* The parts of the launcher, each explored by itself in one run: part is  *)
(* chosen at first and only that part's variables move.                    *)
(***************************************************************************)
EXTENDS SystemProxy, TorSession, AutoRace, Sequences

\* The module is itself the system proxy (launchers of both kinds, one at a time,
\* and a user who edits the settings twice), the session with one transport, and
\* one race of two with whatever logs an earlier race left: their constants are
\* the configuration's.
VARIABLES
  part,
  state, sessionBusy, stoppingBusy, autoAbort, restarts, uiTor, uiProc,
  watched, triggered, worker, stopper, connects, posts, asked

uiVars == <<state, sessionBusy, stoppingBusy, autoAbort, restarts, uiTor,
            uiProc, watched, triggered, worker, stopper, connects, posts,
            asked>>
mcVars == <<part, vars, sessionVars, raceVars, uiVars>>

\* The session whose two transports race.
RaceSession == INSTANCE TorSession WITH
  Race <- TRUE, Procs <- {1, 2}, Ports <- {8118, 8150, 8250}

\* Two connects, with races, and the watchdog's restarts.
Ui == INSTANCE UiSession WITH
  Race <- TRUE, Procs <- {1, 2}, Workers <- {1, 2}, MaxRestarts <- 2,
  MaxConnects <- 2, torProc <- uiTor, proc <- uiProc

ASSUME ServersAssumption
ASSUME SessionAssumption /\ RaceSession!SessionAssumption
ASSUME RaceAssumption
ASSUME Ui!UiAssumption

MCInit ==
  /\ part \in {"proxy", "race session", "single session", "race", "ui"}
  /\ Init /\ (part # "proxy" => wanted = Nothing)
  /\ IF part = "race session" THEN RaceSession!SessionInit ELSE SessionInit
  /\ RaceInit
  /\ \A r \in Racers : log[r] = -1 \/ (part = "race" /\ log[r] = 1)
  /\ Ui!Init

MCNext ==
  \/ /\ part = "proxy" /\ Next
     /\ UNCHANGED <<part, sessionVars, raceVars, uiVars>>
  \/ /\ \/ part = "race session" /\ RaceSession!SessionNext
        \/ part = "single session" /\ SessionNext
     /\ UNCHANGED <<part, vars, raceVars, uiVars>>
  \/ /\ part = "race" /\ RaceNext
     /\ UNCHANGED <<part, vars, sessionVars, uiVars>>
  \/ /\ part = "ui" /\ Ui!Next
     /\ UNCHANGED <<part, vars, sessionVars, raceVars>>

\* The fairness of each part, for the part that runs.
Fairness ==
  /\ WF_sessionVars(part = "race session" /\ RaceSession!MainStep)
  /\ \A t \in {1, 2} :
       /\ WF_sessionVars(part = "race session" /\ RaceSession!Watchdog(t))
       /\ WF_sessionVars(part = "race session" /\ RaceSession!KeepAliveStep(t))
  /\ WF_raceVars(part = "race" /\ Launcher)
  /\ \A r \in {1, 2} : /\ WF_raceVars(part = "race" /\ TorProgress(r))
                       /\ WF_raceVars(part = "race" /\ TorLogs(r))
  /\ WF_uiVars(part = "ui" /\ Ui!UiTick)
  /\ WF_uiVars(part = "ui" /\ Ui!RunDelegate)
  /\ \A w \in {1, 2} : WF_uiVars(part = "ui" /\ Ui!WorkerStep(w))
  /\ WF_uiVars(part = "ui" /\ Ui!StopperStep)
  /\ \A n \in {1, 2} : WF_uiVars(part = "ui" /\ Ui!TorBootstraps(n))

MCSpec == MCInit /\ [][MCNext]_mcVars /\ Fairness

-----------------------------------------------------------------------------
(* Properties: SettingsKept of SystemProxy, NothingLeft of TorSession and   *)
(* OnlyWinnerLives of AutoRace, all proved in LauncherProofs; RaceEnds of   *)
(* AutoRace (a race that does not run is idle); and those of the parts.     *)

\* WatchdogLoop: a session never serves a hung tor for ever; there is always a
\* watchdog that sees it and kills it.
HungIsKilled == []<>(part = "race session" => ~RaceSession!ServesHung)

\* The window's button is never dead for good: whichever of worker, delegate
\* and Disconnect ends last, sessionBusy is released and Stopping is left.
ButtonRevives ==
  /\ []<>(part = "ui" => ~sessionBusy)
  /\ []<>(part = "ui" => state # "Stopping")
=============================================================================
