------------------------------ MODULE TorSession ------------------------------
(***************************************************************************)
(* One console launcher process (RunTorSession in start-tor.cs): the main  *)
(* thread that starts tor, serves keys and restarts tor, and the threads   *)
(* it leaves running beside it: watchdogs and keep-alive pingers.  They    *)
(* share torProc and the stop flags without a lock, sleep between looks at *)
(* them, and are never waited for, so threads of an earlier session may    *)
(* still be there when the next one starts.                                *)
(***************************************************************************)
EXTENDS Naturals, FiniteSets

CONSTANTS
  Race,          \* raceStart: every attempt is an AutoRace
  Ports,         \* HTTP ports a tor may listen on: Primary, and one per racer
  Primary,       \* 8118
  NoPort,        \* the system proxy is not ours
  Failures,      \* WatchdogFailuresToRestart
  MaxAttempts,   \* 3, the restarts after which the session gives up
  Procs,         \* bound: tor processes, numbered in the order they start
  Threads        \* bound: watchdog threads, and keep-alive threads

SessionAssumption ==
  /\ Race \in BOOLEAN
  /\ Ports \subseteq Nat /\ Primary \in Ports /\ NoPort \notin Ports
  /\ Failures \in Nat \ {0} /\ MaxAttempts \in Nat \ {0}
  /\ Procs \subseteq Nat \ {0}

VARIABLES
  pc,          \* where the main thread is
  attempt,     \* attempt
  torProc,     \* torProc, 0 for null
  proc,        \* proc[n]: what process n is doing
  born,        \* ghost, born[n]: the attempt process n was started in
  port,        \* port[n]: the HTTP port process n listens on
  live,        \* liveHttpPort
  field,       \* the racers' processes while AutoRace runs
  marked,      \* racers that AutoRestartRacer marked dead, their tor running
  proxy,       \* the port the system proxy points at, NoPort if not ours
  proxyOn,     \* the local proxyOn of the P key
  wdStop,      \* watchdogStop
  wdTriggered, \* watchdogTriggered
  wd,          \* wd[t]: watchdog thread t: where it is, its p and its fails;
               \* ghost mine: the tor whose bootstrap started it
  kaStop,      \* keepAliveStop
  kaStarted,   \* keepAliveStarted
  ka           \* ka[t]: where keep-alive thread t is

main == <<pc, attempt>>
tor == <<torProc, proc, born, port, live, field, marked>>
dog == <<wdStop, wdTriggered, wd>>
pinger == <<kaStop, kaStarted, ka>>
sessionVars == <<main, tor, proxy, proxyOn, dog, pinger>>

NoThread == [at |-> "none", p |-> 0, fails |-> 0, mine |-> 0]

SessionInit ==
  /\ pc = "menu" /\ attempt = 1
  /\ torProc = 0
  /\ proc = [n \in Procs |-> "none"]
  /\ born = [n \in Procs |-> 0]
  /\ port = [n \in Procs |-> Primary]
  /\ live = Primary /\ field = {} /\ marked = {}
  /\ proxy = NoPort /\ proxyOn = FALSE
  /\ wdStop = TRUE /\ wdTriggered = FALSE
  /\ wd = [t \in Threads |-> NoThread]
  /\ kaStop = FALSE /\ kaStarted = FALSE
  /\ ka = [t \in Threads |-> "none"]

Alive(n) == n # 0 /\ proc[n] \in {"up", "hung"}
Kill(n) == IF n # 0 /\ proc[n] # "none"
           THEN [proc EXCEPT ![n] = "dead"] ELSE proc
KillAll(S) == [n \in Procs |-> IF n \in S /\ Alive(n) THEN "dead" ELSE proc[n]]

\* A thread of f that can be given to a new loop: one that has ended.
Free(t, f, none) ==
  /\ f[t] = none
  /\ \A u \in Threads : u < t => f[u] # none

-----------------------------------------------------------------------------
(* Keep-alive.                                                              *)

\* StopKeepAlive: a pinger that waits sees the flag; one inside PingSocks may
\* outlast Join(2000), its timeout being 5 s.
StopKeepAlive ==
  IF ~kaStarted THEN UNCHANGED pinger
  ELSE /\ kaStarted' = FALSE /\ kaStop' = TRUE
       /\ \E late \in SUBSET {t \in Threads : ka[t] = "ping"} :
            ka' = [t \in Threads |-> IF t \in late THEN "ping" ELSE "none"]

\* StartKeepAlive
StartKeepAlive ==
  \E t \in Threads :
    /\ Free(t, ka, "none")
    /\ ka' = [ka EXCEPT ![t] = "ping"]
    /\ kaStop' = FALSE /\ kaStarted' = TRUE

\* KeepAliveLoop: the ping is over, or the second is.
KeepAliveStep(t) ==
  /\ ka[t] # "none"
  /\ ka' = [ka EXCEPT ![t] = IF kaStop THEN "none"
                             ELSE IF @ = "ping" THEN "wait" ELSE "ping"]
  /\ UNCHANGED <<main, tor, proxy, proxyOn, dog, kaStop, kaStarted>>

\* ToggleKeepAlive: the J key.
ToggleKeepAlive ==
  /\ pc = "serve"
  /\ IF kaStarted THEN StopKeepAlive ELSE StartKeepAlive
  /\ UNCHANGED <<main, tor, proxy, proxyOn, dog>>

-----------------------------------------------------------------------------
(* The watchdog.                                                            *)

Loop(t, fails) ==
  wd' = [wd EXCEPT ![t] = IF wdStop THEN NoThread
                          ELSE [@ EXCEPT !.at = "sleep", !.p = 0,
                                         !.fails = fails]]

\* The grace period is over.
WatchdogGrace(t) ==
  /\ wd[t].at = "grace"
  /\ Loop(t, 0)
  /\ UNCHANGED <<main, tor, proxy, proxyOn, pinger, wdStop, wdTriggered>>

\* It wakes up: it ends if told to or if tor is gone, else it probes.
WatchdogWakes(t) ==
  /\ wd[t].at = "sleep"
  /\ wd' = [wd EXCEPT ![t] = IF wdStop \/ ~Alive(torProc) THEN NoThread
                             ELSE [@ EXCEPT !.at = "probe", !.p = torProc]]
  /\ UNCHANGED <<main, tor, proxy, proxyOn, pinger, wdStop, wdTriggered>>

\* The probe goes through the live SOCKS port, so whichever tor is there
\* answers; a healthy one may fail to.
WatchdogProbe(t, ok) ==
  /\ wd[t].at = "probe"
  /\ ok => \E n \in Procs : proc[n] = "up"
  /\ LET fails == IF ok THEN 0 ELSE wd[t].fails + 1 IN
     IF fails >= Failures
     THEN /\ wdTriggered' = TRUE
          /\ wd' = [wd EXCEPT ![t] = [@ EXCEPT !.at = "kill", !.fails = fails]]
     ELSE Loop(t, fails) /\ UNCHANGED wdTriggered
  /\ UNCHANGED <<main, tor, proxy, proxyOn, pinger, wdStop>>

WatchdogKills(t) ==
  /\ wd[t].at = "kill"
  /\ proc' = Kill(wd[t].p)
  /\ wd' = [wd EXCEPT ![t] = NoThread]
  /\ UNCHANGED <<main, torProc, born, port, live, field, marked, proxy, proxyOn,
                 pinger, wdStop, wdTriggered>>

\* Mutant: the flag is left as the last session set it.
StartWatchdogStopped ==
  /\ wdTriggered' = FALSE /\ UNCHANGED wdStop
  /\ \E t \in Threads :
       /\ Free(t, wd, NoThread)
       /\ wd' = [wd EXCEPT ![t] = [NoThread EXCEPT !.at = "grace",
                                                !.mine = torProc]]

\* StartWatchdog
StartWatchdog ==
  /\ wdStop' = FALSE /\ wdTriggered' = FALSE
  /\ \E t \in Threads :
       /\ Free(t, wd, NoThread)
       /\ wd' = [wd EXCEPT ![t] = [NoThread EXCEPT !.at = "grace",
                                                !.mine = torProc]]

-----------------------------------------------------------------------------
(* The main thread.                                                         *)

\* Mutant: tor is left running.
SessionCleanupKeepsTor ==
  /\ StopKeepAlive
  /\ UNCHANGED proc
  /\ proxy' = NoPort

\* Cleanup: the keep-alive is stopped, tor killed, the proxy given back.
SessionCleanup ==
  /\ StopKeepAlive
  /\ proc' = Kill(torProc)
  /\ proxy' = NoPort

\* A session is chosen in the menu.
BeginSession ==
  /\ pc = "menu"
  /\ pc' = "boot" /\ attempt' = 1
  /\ UNCHANGED <<tor, proxy, proxyOn, dog, pinger>>

\* The top of the attempt loop: a race makes torProc null, and StartTorAndWait
\* is called only if it is.
BeginAttempt ==
  /\ pc = "boot"
  /\ wdStop' = TRUE
  /\ torProc' = IF Race THEN 0 ELSE torProc
  /\ pc' = IF Race THEN "race" ELSE IF torProc = 0 THEN "start" ELSE "up"
  /\ UNCHANGED <<attempt, proc, born, port, live, field, marked, proxy, proxyOn,
                 wdTriggered, wd, pinger>>

\* StopPreviousRun gives the proxy back if it finds a tor of this folder.
GiveBackIfFound ==
  proxy' = IF \E n \in Procs : Alive(n) THEN NoPort ELSE proxy

\* The first numbers that no process has had.
Fresh(S) ==
  /\ S \subseteq {n \in Procs : proc[n] = "none"}
  /\ \A n \in S : \A k \in Procs \ S : k < n => proc[k] # "none"

-----------------------------------------------------------------------------
(* AutoRace, as the session sees it; the polls are module AutoRace's.       *)

\* StopPreviousRun and ResetLivePorts, then one process for each racer that
\* can be started, in the order of their ports p[n].
BeginRace(S, p) ==
  /\ pc = "race" /\ Fresh(S)
  /\ \A m, n \in S : m < n => p[m] < p[n]
  /\ GiveBackIfFound
  /\ proc' = [n \in Procs |-> IF n \in S THEN "up" ELSE KillAll(Procs)[n]]
  /\ born' = [n \in Procs |-> IF n \in S THEN attempt ELSE born[n]]
  /\ port' = [n \in Procs |-> IF n \in S THEN p[n] ELSE port[n]]
  /\ field' = S /\ marked' = {}
  /\ live' = Primary
  /\ pc' = "racing"
  /\ UNCHANGED <<attempt, torProc, proxyOn, dog, pinger>>

\* A race port is busy or a torrc cannot be built: Cleanup, and the menu.
NoRace ==
  /\ pc = "race"
  /\ proc' = KillAll(Procs)
  /\ marked' = {} /\ live' = Primary
  /\ StopKeepAlive /\ proxy' = NoPort
  /\ pc' = "menu"
  /\ UNCHANGED <<attempt, torProc, born, port, field, proxyOn, dog>>

\* AutoRestartRacer cannot build the torrc with every bridge: the racer counts
\* as dead from now on, and its tor runs on.
MarkDead(n) ==
  /\ pc = "racing" /\ n \in field \ marked
  /\ marked' = marked \cup {n}
  /\ UNCHANGED <<main, torProc, proc, born, port, live, field, proxy, proxyOn,
                 dog, pinger>>

\* AutoRestartRacer kills the racer's tor and starts it with every bridge.
RestartRacer(n) ==
  /\ pc = "racing" /\ n \in field \ marked
  /\ proc' = [proc EXCEPT ![n] = "up"]
  /\ UNCHANGED <<main, torProc, born, port, live, field, marked, proxy, proxyOn,
                 dog, pinger>>

\* A racer was seen at 100%: the others are killed, and it is adopted with its
\* ports; if it has died since, StartTorAndWait runs on the primary ones.
RaceWon(w) ==
  /\ pc = "racing" /\ w \in field \ marked
  /\ proc' = KillAll(field \ {w})
  /\ field' = {} /\ marked' = {}
  /\ IF Alive(w)
     THEN torProc' = w /\ live' = port[w] /\ pc' = "up"
     ELSE live' = Primary /\ pc' = "start" /\ UNCHANGED torProc
  /\ UNCHANGED <<attempt, born, port, proxy, proxyOn, dog, pinger>>

\* The C key: AutoKillAll, Cleanup, and the menu.
RaceAborted ==
  /\ pc = "racing"
  /\ proc' = KillAll(field)
  /\ field' = {} /\ marked' = {}
  /\ StopKeepAlive /\ proxy' = NoPort
  /\ pc' = "menu"
  /\ UNCHANGED <<attempt, torProc, born, port, live, proxyOn, dog>>

\* "all three racers died": none is killed here, and Cleanup kills torProc,
\* which is null.
RaceDied ==
  /\ pc = "racing" /\ \A n \in field \ marked : ~Alive(n)
  /\ field' = {}
  /\ SessionCleanup
  /\ pc' = "menu"
  /\ UNCHANGED <<attempt, torProc, born, port, live, marked, proxyOn, dog>>

-----------------------------------------------------------------------------
(* StartTorAndWait and the session.                                         *)

\* StopPreviousRun and ResetLivePorts, then the new process starts.
StartTor(n) ==
  /\ pc = "start" /\ Fresh({n})
  /\ GiveBackIfFound
  /\ proc' = [KillAll(Procs) EXCEPT ![n] = "up"]
  /\ born' = [born EXCEPT ![n] = attempt]
  /\ port' = [port EXCEPT ![n] = Primary]
  /\ torProc' = n /\ live' = Primary /\ marked' = {}
  /\ pc' = "bootstrap"
  /\ UNCHANGED <<attempt, field, proxyOn, dog, pinger>>

\* The torrc cannot be written or tor cannot be started: StartTorAndWait
\* answers null, Cleanup, and back to the menu.
StartFails ==
  /\ pc = "start"
  /\ proc' = KillAll(Procs)
  /\ torProc' = 0 /\ live' = Primary /\ marked' = {}
  /\ StopKeepAlive /\ proxy' = NoPort
  /\ pc' = "menu"
  /\ UNCHANGED <<attempt, born, port, field, proxyOn, dog>>

\* 100%: the session is up.
Bootstrapped ==
  /\ pc = "bootstrap" /\ Alive(torProc)
  /\ pc' = "up"
  /\ UNCHANGED <<attempt, tor, proxy, proxyOn, dog, pinger>>

\* The healthy bridges stall, tor is killed and started with all of them; or
\* it exited early, a port being in use, and is started again.
StartAgain ==
  /\ pc = "bootstrap"
  /\ proc' = Kill(torProc)
  /\ pc' = "start"
  /\ UNCHANGED <<attempt, torProc, born, port, live, field, marked, proxy,
                 proxyOn, dog, pinger>>

\* It exits, or the user aborts with C, which kills it: StartTorAndWait answers
\* null, Cleanup, and back to the menu.
BootFails ==
  /\ pc = "bootstrap"
  /\ proc' = Kill(torProc)
  /\ torProc' = 0
  /\ StopKeepAlive /\ proxy' = NoPort
  /\ pc' = "menu"
  /\ UNCHANGED <<attempt, born, port, live, field, marked, proxyOn, dog>>

\* The session is up: the proxy is set if the user's setting says so, and the
\* threads are started.
GoLive(auto) ==
  /\ pc = "up"
  /\ proxy' = IF auto THEN live ELSE proxy
  /\ StartKeepAlive
  /\ StartWatchdog
  /\ proxyOn' = FALSE
  /\ pc' = "serve"
  /\ UNCHANGED <<attempt, tor>>

\* The P key.
ToggleProxy ==
  /\ pc = "serve"
  /\ proxyOn' = ~proxyOn
  /\ proxy' = IF proxyOn' THEN live ELSE NoPort
  /\ UNCHANGED <<main, tor, dog, pinger>>

\* The C key: the watchdog is not told.
StopSession ==
  /\ pc = "serve"
  /\ SessionCleanup
  /\ torProc' = 0
  /\ pc' = "menu"
  /\ UNCHANGED <<attempt, born, port, live, field, marked, proxyOn, dog>>

\* The serve loop finds tor gone: by the watchdog's doing, or for good.
TorIsGone ==
  /\ pc = "serve" /\ ~Alive(torProc)
  /\ IF wdTriggered
     THEN pc' = "restart" /\ UNCHANGED <<proc, proxy, pinger>>
     ELSE pc' = "exited" /\ SessionCleanup
  /\ UNCHANGED <<attempt, torProc, born, port, live, field, marked, proxyOn, dog>>

\* The watchdog path, "without touching the system-proxy state".
RestartTor ==
  /\ pc = "restart"
  /\ wdStop' = TRUE
  /\ StopKeepAlive
  /\ proc' = Kill(torProc)
  /\ IF attempt >= MaxAttempts
     THEN pc' = "exited" /\ proxy' = NoPort /\ UNCHANGED attempt
     ELSE pc' = "boot" /\ attempt' = attempt + 1 /\ UNCHANGED proxy
  /\ UNCHANGED <<torProc, born, port, live, field, marked, proxyOn, wdTriggered,
                 wd>>

-----------------------------------------------------------------------------
(* tor itself.                                                              *)

TorHangs(n) ==
  /\ proc[n] = "up"
  /\ proc' = [proc EXCEPT ![n] = "hung"]
  /\ UNCHANGED <<main, torProc, born, port, live, field, marked, proxy, proxyOn,
                 dog, pinger>>

TorDies(n) ==
  /\ Alive(n)
  /\ proc' = Kill(n)
  /\ UNCHANGED <<main, torProc, born, port, live, field, marked, proxy, proxyOn,
                 dog, pinger>>

Watchdog(t) == \/ WatchdogGrace(t) \/ WatchdogWakes(t) \/ WatchdogKills(t)
               \/ \E ok \in BOOLEAN : WatchdogProbe(t, ok)

Serve == ToggleKeepAlive \/ ToggleProxy \/ StopSession

\* What the main thread does by itself.
MainStep == \/ BeginAttempt \/ TorIsGone \/ RestartTor
            \/ \E auto \in BOOLEAN : GoLive(auto)
            \/ NoRace \/ StartFails \/ \E n \in Procs : StartTor(n)
            \/ \E S \in SUBSET Procs : \E p \in [S -> Ports \ {Primary}] :
                 BeginRace(S, p)

\* What it waits for while tor bootstraps.
Wait == \/ Bootstrapped \/ StartAgain \/ BootFails
        \/ RaceAborted \/ RaceDied
        \/ \E n \in Procs : MarkDead(n) \/ RestartRacer(n) \/ RaceWon(n)

SessionNext ==
  \/ BeginSession \/ MainStep \/ Wait \/ Serve
  \/ \E n \in Procs : TorHangs(n) \/ TorDies(n)
  \/ \E t \in Threads : Watchdog(t) \/ KeepAliveStep(t)

\* Threads are scheduled; nothing is assumed of the user or of tor.
SessionFairness ==
  /\ WF_sessionVars(MainStep)
  /\ \A t \in Threads : WF_sessionVars(Watchdog(t)) /\ WF_sessionVars(KeepAliveStep(t))

SessionSpec == SessionInit /\ [][SessionNext]_sessionVars
FairSpec == SessionSpec /\ SessionFairness

-----------------------------------------------------------------------------
(* Properties.                                                              *)

\* In the menu and after the session no tor of this launcher is left running
\* and the system proxy does not point at one, whatever the watchdogs and the
\* bootstrap did before Cleanup ran; only a racer that was marked dead may be
\* left by a race that found all its racers dead.  The next attempt kills it:
\* a session that boots or is served runs no tor but torProc.
NothingLeft ==
  /\ pc \in {"menu", "exited"} => proxy = NoPort
  /\ \A n \in Procs : Alive(n) =>
       /\ pc = "menu" => n \in marked
       /\ pc # "exited"
       /\ pc \in {"bootstrap", "up", "serve", "restart"} => n = torProc

ServesHung == pc = "serve" /\ proc[torProc] = "hung"

\* A session that is served runs a tor started for this attempt ("kills tor
\* so the session's restart loop rebuilds monitor and keep-alive").
FreshTor == pc = "serve" => born[torProc] = attempt

-----------------------------------------------------------------------------
\* What a comment, an assertion or a name in the source says and the code does
\* not keep (README, section "Departures"): TLC refutes each of these.

\* A race that ends with "all three racers died" leaves none running.
DiedIsDead == [][RaceDied => \A n \in Procs : ~Alive(n)]_sessionVars

\* A watchdog probes, and so may kill, only the tor whose bootstrap began its
\* grace period ("once the post-bootstrap grace window has passed").
ProbeAfterGrace ==
  \A t \in Threads : wd[t].at = "probe" => wd[t].p = wd[t].mine

\* At most one keep-alive loop runs ("1 request/s").
OneKeepAlive ==
  pc = "serve" /\ ~kaStop => Cardinality({t \in Threads : ka[t] # "none"}) <= 1

\* While a session is served, a system proxy that is ours points at its tor
\* ("every subsystem ... re-points here").
ProxyFollows == pc = "serve" => proxy \in {NoPort, live}
=============================================================================
