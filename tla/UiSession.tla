------------------------------- MODULE UiSession -------------------------------
(***************************************************************************)
(* The session in the window (TorJetUi.cs): the UI thread (button, timer   *)
(* tick, the delegates posted to it), the workers that bring a session up  *)
(* and the stoppers that take it down.  They share torProc, sessionBusy,   *)
(* stoppingBusy and autoAbort without a lock; the delegates run in the     *)
(* order they were posted.                                                 *)
(***************************************************************************)
EXTENDS Naturals, Sequences

CONSTANTS
  Race,         \* the selected mode is the race
  Procs,        \* bound: tor processes, numbered in the order they start
  Workers,      \* bound: SessionWorker threads
  MaxRestarts,  \* 3, restartAttempts
  MaxConnects   \* bound: presses of the button that connect

UiAssumption == Race \in BOOLEAN /\ MaxRestarts \in Nat \ {0}

VARIABLES
  state,        \* state
  sessionBusy, stoppingBusy, autoAbort,
  restarts,     \* restartAttempts
  torProc,      \* torProc, 0 for null
  proc,         \* proc[n]: "none", "boot", "up" (at 100%) or "dead"
  watched,      \* ~watchdogStop
  triggered,    \* watchdogTriggered
  worker,       \* worker[w]: where it is, the tor it waits for, whether it
                \* races, whether the tick started it
  stopper,      \* where Disconnect's thread is; stoppingBusy allows one
  connects,     \* presses so far
  posts,        \* the delegates posted and not yet run
  asked         \* ghost: what the user, or a tick, asked for last

threads == <<worker, stopper, connects>>
flags == <<sessionBusy, stoppingBusy, autoAbort>>
dog == <<watched, triggered>>
vars == <<state, flags, restarts, torProc, proc, dog, threads, posts, asked>>

NoWorker == [at |-> "none", p |-> 0, race |-> FALSE, again |-> FALSE]

Init ==
  /\ state = "Idle"
  /\ sessionBusy = FALSE /\ stoppingBusy = FALSE /\ autoAbort = FALSE
  /\ restarts = 0
  /\ torProc = 0
  /\ proc = [n \in Procs |-> "none"]
  /\ watched = FALSE /\ triggered = FALSE
  /\ worker = [w \in Workers |-> NoWorker]
  /\ stopper = "none" /\ connects = 0
  /\ posts = <<>>
  /\ asked = "stop"

Alive(n) == n # 0 /\ proc[n] \in {"boot", "up"}
Kill(n) == IF Alive(n) THEN [proc EXCEPT ![n] = "dead"] ELSE proc

\* The next process to be started.
Fresh(n) == proc[n] = "none" /\ \A k \in Procs : k < n => proc[k] # "none"

NewWorker(race, again) ==
  \E w \in Workers :
    /\ worker[w] = NoWorker /\ \A u \in Workers : u < w => worker[u] # NoWorker
    /\ worker' = [worker EXCEPT ![w] = [at |-> "begin", p |-> 0,
                                        race |-> race, again |-> again]]

-----------------------------------------------------------------------------
(* The UI thread.                                                           *)

\* The button, when idle.
Connect ==
  /\ state = "Idle" /\ ~sessionBusy
  /\ connects < MaxConnects /\ connects' = connects + 1
  /\ sessionBusy' = TRUE /\ restarts' = 0 /\ state' = "Connecting"
  /\ asked' = "connect"
  /\ NewWorker(Race, FALSE)
  /\ UNCHANGED <<stoppingBusy, autoAbort, torProc, proc, dog, stopper, posts>>

\* Disconnect, unless one is under way.
Disconnect ==
  IF stoppingBusy
  THEN UNCHANGED <<state, stoppingBusy, autoAbort, dog, torProc, proc,
                   stopper, asked>>
  ELSE /\ stoppingBusy' = TRUE /\ autoAbort' = TRUE
       /\ state' = "Stopping"
       /\ asked' = "stop"
       /\ watched' = FALSE /\ UNCHANGED triggered
       /\ proc' = Kill(torProc) /\ torProc' = 0
       /\ stopper' = "cleanup"

\* The button, in any other state but Stopping.
Stop ==
  /\ state \notin {"Idle", "Stopping"}
  /\ Disconnect
  /\ UNCHANGED <<sessionBusy, restarts, worker, posts, connects>>

\* UiTick: tor is gone.  By the watchdog's doing it is to be restarted, up to
\* three times, else the session ends.
UiTick ==
  /\ state \in {"Connected", "Restarting"} /\ ~Alive(torProc)
  /\ \/ /\ triggered /\ restarts < MaxRestarts
        /\ restarts' = restarts + 1
        /\ state' = "Restarting"
        /\ watched' = FALSE
        /\ NewWorker(FALSE, TRUE)
        /\ UNCHANGED <<triggered, stoppingBusy, autoAbort, torProc, proc,
                       stopper, asked>>
     \/ /\ ~triggered
        /\ Disconnect
        /\ UNCHANGED <<restarts, worker>>
  /\ UNCHANGED <<sessionBusy, posts, connects>>

\* A posted delegate runs.
RunDelegate ==
  /\ posts # <<>>
  /\ posts' = Tail(posts)
  /\ CASE Head(posts) = "idle" ->
            state' = "Idle" /\ UNCHANGED <<stoppingBusy, sessionBusy>>
       [] Head(posts) = "connected" ->
            state' = "Connected" /\ UNCHANGED <<stoppingBusy, sessionBusy>>
       [] Head(posts) = "stopped" ->
            /\ stoppingBusy' = FALSE /\ sessionBusy' = FALSE
            /\ state' = IF state = "Stopping" THEN "Idle" ELSE state
  /\ UNCHANGED <<autoAbort, restarts, torProc, proc, dog, threads, asked>>

-----------------------------------------------------------------------------
(* SessionWorker.                                                           *)

Goto(w, at, p) == worker' = [worker EXCEPT ![w].at = at, ![w].p = p]

\* The worker ends; the tick's thread then posts Connected whatever happened.
End(w, post) ==
  /\ worker' = [worker EXCEPT ![w] = NoWorker]
  /\ posts' = posts \o post \o
              (IF worker[w].again THEN <<"connected">> ELSE <<>>)

\* Mutant: the flag stays with a worker that gave up.
KeepBusy(w, free) ==
  /\ UNCHANGED sessionBusy
  /\ End(w, IF free THEN <<"idle">> ELSE <<>>)

\* The failure paths: the state is given back unless a Disconnect will do so.
GiveUp(w, free) ==
  /\ sessionBusy' = IF free THEN FALSE ELSE sessionBusy
  /\ End(w, IF free THEN <<"idle">> ELSE <<>>)

\* It begins: a race forgets torProc; memory mode may have nothing cached.
WorkerBegins(w, cached) ==
  /\ worker[w].at = "begin"
  /\ \/ /\ cached /\ torProc' = (IF worker[w].race THEN 0 ELSE torProc)
        /\ Goto(w, IF worker[w].race THEN "enter" ELSE "boot", 0)
        /\ UNCHANGED <<sessionBusy, posts>>
     \/ /\ ~cached /\ ~worker[w].race
        /\ GiveUp(w, ~stoppingBusy)
        /\ UNCHANGED torProc
  /\ UNCHANGED <<state, stoppingBusy, autoAbort, restarts, proc, dog,
                 stopper, connects,
                 asked>>

\* AutoRace is entered: the abort flag is cleared, previous tors stopped.
RaceBegins(w) ==
  /\ worker[w].at = "enter"
  /\ autoAbort' = FALSE
  /\ proc' = [n \in Procs |-> IF Alive(n) THEN "dead" ELSE proc[n]]
  /\ Goto(w, "race", 0)
  /\ UNCHANGED <<state, sessionBusy, stoppingBusy, restarts, torProc, dog,
                 stopper, connects, posts, asked>>

\* It returns false: aborted, or every racer died.
RaceFails(w) ==
  /\ worker[w].at = "race"
  /\ GiveUp(w, ~stoppingBusy /\ ~autoAbort)
  /\ UNCHANGED <<state, stoppingBusy, autoAbort, restarts, torProc, proc, dog,
                 stopper, connects, asked>>

\* It returns true: the winner is torProc, kept alive.
RaceWon(w, n) ==
  /\ worker[w].at = "race" /\ Fresh(n)
  /\ proc' = [proc EXCEPT ![n] = "up"]
  /\ torProc' = n
  /\ Goto(w, "won", n)
  /\ UNCHANGED <<state, flags, restarts, dog, stopper, connects, posts, asked>>

\* It returns true although the winner has died since it got to 100%: there is
\* no process to keep, and tor will be started on the primary ports.
WinnerDied(w) ==
  /\ worker[w].at = "race"
  /\ Goto(w, "won", 0)
  /\ UNCHANGED <<state, flags, restarts, torProc, proc, dog, stopper, connects,
                 posts, asked>>

\* "user asked to stop while the race was claiming the winner"
StopCheck(w) ==
  /\ worker[w].at = "won"
  /\ IF stoppingBusy
     THEN /\ proc' = Kill(worker[w].p) /\ torProc' = 0
          /\ End(w, <<>>)
     ELSE Goto(w, "boot", 0) /\ UNCHANGED <<proc, torProc, posts>>
  /\ UNCHANGED <<state, flags, restarts, dog, stopper, connects, asked>>

\* torProc decides whether tor is to be started: previous tors are stopped.
BootDecision(w) ==
  /\ worker[w].at = "boot"
  /\ IF torProc = 0
     THEN /\ proc' = [n \in Procs |-> IF Alive(n) THEN "dead" ELSE proc[n]]
          /\ Goto(w, "spawn", 0)
     ELSE Goto(w, "up", torProc) /\ UNCHANGED proc
  /\ UNCHANGED <<state, flags, restarts, torProc, dog, stopper, connects,
                 posts, asked>>

\* StartTorAndWait: the process is started.
StartTor(w, n) ==
  /\ worker[w].at = "spawn" /\ Fresh(n)
  /\ proc' = [proc EXCEPT ![n] = "boot"]
  /\ torProc' = n
  /\ Goto(w, "wait", n)
  /\ UNCHANGED <<state, flags, restarts, dog, stopper, connects, posts, asked>>

\* The torrc cannot be written or the process not started.
StartFails(w) ==
  /\ worker[w].at = "spawn"
  /\ GiveUp(w, ~stoppingBusy)
  /\ UNCHANGED <<state, stoppingBusy, autoAbort, restarts, torProc, proc, dog,
                 stopper, connects, asked>>

\* ... and waited for, until it is at 100% or gone.
WaitEnds(w) ==
  /\ worker[w].at = "wait"
  /\ CASE proc[worker[w].p] = "up" ->
            Goto(w, "up", worker[w].p) /\ UNCHANGED <<sessionBusy, posts>>
       [] proc[worker[w].p] = "dead" -> GiveUp(w, ~stoppingBusy)
       [] OTHER -> FALSE
  /\ UNCHANGED <<state, stoppingBusy, autoAbort, restarts, torProc, proc, dog,
                 stopper, connects, asked>>

\* The session is up: watchdog and keep-alive start, Connected is posted.
BringUp(w) ==
  /\ worker[w].at = "up"
  /\ watched' = TRUE /\ triggered' = FALSE
  /\ sessionBusy' = FALSE
  /\ End(w, <<"connected">>)
  /\ UNCHANGED <<state, stoppingBusy, autoAbort, restarts, torProc, proc,
                 stopper, connects, asked>>

-----------------------------------------------------------------------------
(* The rest: Disconnect's thread, tor and its watchdog.                     *)

\* Cleanup, then five seconds, then the delegate that releases the flags.
StopperStep ==
  /\ \/ /\ stopper = "cleanup" /\ stopper' = "sleep"
        /\ proc' = Kill(torProc) /\ UNCHANGED posts
     \/ /\ stopper = "sleep" /\ stopper' = "none"
        /\ posts' = Append(posts, "stopped") /\ UNCHANGED proc
  /\ UNCHANGED <<state, flags, restarts, torProc, dog, worker, connects, asked>>

TorBootstraps(n) ==
  /\ proc[n] = "boot"
  /\ proc' = [proc EXCEPT ![n] = "up"]
  /\ UNCHANGED <<state, flags, restarts, torProc, dog, threads, posts, asked>>

TorDies(n) ==
  /\ Alive(n)
  /\ proc' = [proc EXCEPT ![n] = "dead"]
  /\ UNCHANGED <<state, flags, restarts, torProc, dog, threads, posts, asked>>

WatchdogKills ==
  /\ watched /\ torProc # 0 /\ proc[torProc] = "up"
  /\ triggered' = TRUE
  /\ proc' = Kill(torProc)
  /\ UNCHANGED <<state, flags, restarts, torProc, watched, threads, posts,
                 asked>>

WorkerStep(w) ==
  \/ RaceBegins(w) \/ RaceFails(w) \/ WinnerDied(w) \/ StopCheck(w)
  \/ BootDecision(w) \/ StartFails(w) \/ WaitEnds(w) \/ BringUp(w)
  \/ \E cached \in BOOLEAN : WorkerBegins(w, cached)
  \/ \E n \in Procs : RaceWon(w, n) \/ StartTor(w, n)

Next ==
  \/ Connect \/ Stop \/ UiTick \/ RunDelegate \/ WatchdogKills
  \/ \E w \in Workers : WorkerStep(w)
  \/ StopperStep
  \/ \E n \in Procs : TorBootstraps(n) \/ TorDies(n)

\* Threads and the message loop run, a tor that runs gets on or dies; the
\* user need not do anything.
Fairness ==
  /\ WF_vars(UiTick) /\ WF_vars(RunDelegate)
  /\ \A w \in Workers : WF_vars(WorkerStep(w))
  /\ WF_vars(StopperStep)
  /\ \A n \in Procs : WF_vars(TorBootstraps(n))

Spec == Init /\ [][Next]_vars
FairSpec == Spec /\ Fairness

-----------------------------------------------------------------------------
(* Properties.                                                              *)

\* The button is never dead for good: whichever of worker, delegate and
\* Disconnect ends last, sessionBusy is released.
BusyReleased == []<>~sessionBusy

\* Neither is a stop endless: Stopping is left by the stopper's delegate.
StoppingEnds == []<>(state # "Stopping")

-----------------------------------------------------------------------------
\* What a comment, an assertion or a name in the source says and the code does
\* not keep (README, section "Departures"): TLC refutes each of these.

\* A worker that skips the start does so for a tor that is at 100% ("live
\* race winner - already at 100%").
SkipsForLiveTor ==
  [][\A w \in Workers :
       worker[w].at = "boot" /\ worker'[w].at = "up" =>
         proc[torProc] = "up"]_vars

\* Once the user asked to stop, no session comes up until asked for ("don't
\* bring the session up, let Disconnect drive the state back to Idle").
StopIsFinal ==
  [][state # "Connected" /\ state' = "Connected" => asked = "connect"]_vars

\* A session that is coming up gets somewhere: connected, or back to idle.
ConnectingEnds == []<>(state # "Connecting")
=============================================================================
