------------------------------ MODULE WorkQueue ------------------------------
(***************************************************************************)
(* The thread pool (lib/evloop/workqueue.c): worker threads that take work *)
(* from prioritised queues under pool->lock, answer through a reply queue  *)
(* and an alert socket, run updates, and stop together at shutdown, when   *)
(* the first of them to start holds pool->control_lock until the others    *)
(* have gone.  Each step of a thread is what it does between two lock      *)
(* operations, or waits for.                                               *)
(***************************************************************************)
EXTENDS Naturals, Sequences, FiniteSets

CONSTANTS
  Workers,     \* worker threads
  Items,       \* work items, each queued once
  Low,         \* the items queued with the lower priority
  MaxUpdates,  \* bound on threadpool_queue_update
  Stops,       \* TRUE: threadpool_free is called
  Prompt,      \* TRUE: it may be called before a worker has begun its loop
  Results      \* what work and update functions return: "reply", or "error",
               \* which ends the thread

Main == "main"
Nobody == "nobody"

WorkAssumption ==
  /\ Workers # {} /\ IsFiniteSet(Workers) /\ {Main, Nobody} \cap Workers = {}
  /\ Low \subseteq Items /\ MaxUpdates \in Nat
  /\ {Stops, Prompt} \subseteq BOOLEAN
  /\ Results \subseteq {"reply", "error"} /\ Results # {}

Prios == <<Items \ Low, Low>>

VARIABLES
  lock,     \* who holds pool->lock
  ctl,      \* who holds pool->control_lock
  owner,    \* control_lock_owner
  running,  \* n_worker_threads_running
  pc,       \* pc[w]: where worker w is
  main,     \* where the main thread is
  work,     \* pool->work: a queue for each priority
  item,     \* item[i]: "new", "live", or "freed" (workqueue_entry_free)
  pending,  \* pending[i]
  cur,      \* cur[w]: the items worker w runs, at most one
  answers,  \* the reply queue
  alert,    \* the alert socket is readable
  gen,      \* pool->generation
  wgen,     \* wgen[w]: thread->generation
  exit,     \* pool->exit
  woken     \* workers signalled on pool->condition

locks == <<lock, ctl, owner, running>>
queues == <<work, item, pending, answers, alert>>
vars == <<locks, pc, main, queues, cur, gen, wgen, exit, woken>>

Init ==
  /\ lock = Main /\ ctl = Nobody /\ owner = Nobody /\ running = 0
  /\ pc = [w \in Workers |-> "start"]
  /\ main = "waitstart"
  /\ work = <<<<>>, <<>>>>
  /\ item = [i \in Items |-> "new"]
  /\ pending = {}
  /\ cur = [w \in Workers |-> {}]
  /\ answers = <<>> /\ alert = FALSE
  /\ gen = 0 /\ wgen = [w \in Workers |-> 0]
  /\ exit = FALSE /\ woken = {}

To(w, where) == pc' = [pc EXCEPT ![w] = where]
In(s) == {s[i] : i \in 1 .. Len(s)}

\* TOR_TAILQ_REMOVE
Removed(s, i) ==
  IF i \notin In(s) THEN s
  ELSE LET k == CHOOSE n \in 1 .. Len(s) : s[n] = i
       IN  [n \in 1 .. Len(s) - 1 |-> IF n < k THEN s[n] ELSE s[n + 1]]

--------------------------------------------------------------------------
(* worker_thread_main                                                      *)

\* The worker reports itself, under control_lock.
Start(w) ==
  /\ pc[w] = "start" /\ ctl = Nobody
  /\ running' = running + 1
  /\ To(w, "enter")
  /\ UNCHANGED <<lock, ctl, owner, main, queues, cur, gen, wgen, exit, woken>>

\* tor_mutex_acquire(&pool->lock), at its three places
Acquire(w) ==
  /\ \/ pc[w] = "enter" /\ To(w, IF owner = Nobody THEN "take" ELSE "top")
     \/ pc[w] = "relock" /\ To(w, "check")
     \/ pc[w] = "quit" /\ To(w, "exit")
     \/ pc[w] = "sleep" /\ To(w, "exit")
     \/ pc[w] = "wait" /\ w \in woken /\ To(w, "top")
  /\ lock = Nobody /\ lock' = w
  /\ woken' = woken \ {w}
  /\ UNCHANGED <<ctl, owner, running, main, queues, cur, gen, wgen, exit>>

\* The first worker in takes control_lock, holding pool->lock.
TakeControl(w) ==
  /\ pc[w] = "take" /\ ctl = Nobody
  /\ ctl' = w /\ owner' = w
  /\ To(w, "top")
  /\ UNCHANGED <<lock, running, main, queues, cur, gen, wgen, exit, woken>>

\* The top of the loop is the only place that looks at pool->exit.
Top(w) ==
  /\ pc[w] = "top"
  /\ To(w, IF exit THEN "exit" ELSE "check")
  /\ UNCHANGED <<locks, main, queues, cur, gen, wgen, exit, woken>>

\* Nothing to do: tor_cond_wait.
Wait(w) ==
  /\ pc[w] = "check" /\ wgen[w] = gen /\ work = <<<<>>, <<>>>>
  /\ lock' = Nobody
  /\ To(w, "wait")
  /\ UNCHANGED <<ctl, owner, running, main, queues, cur, gen, wgen, exit,
                 woken>>

\* The update of the newest generation; it then runs without the lock.
Update(w) ==
  /\ pc[w] = "check" /\ wgen[w] # gen
  /\ wgen' = [wgen EXCEPT ![w] = gen]
  /\ lock' = Nobody
  /\ \E r \in Results : To(w, IF r = "reply" THEN "relock" ELSE "quit")
  /\ UNCHANGED <<ctl, owner, running, main, queues, cur, gen, exit, woken>>

\* Mutant: the entry taken stays marked pending.
StillPending(i) == pending

Taken(i) == pending \ {i}

\* worker_thread_extract_next_work: usually from the first queue with work,
\* now and then from a later one.
Extract(w) ==
  /\ pc[w] = "check" /\ wgen[w] = gen
  /\ \E p \in 1 .. 2 :
       /\ work[p] # <<>>
       /\ cur' = [cur EXCEPT ![w] = {Head(work[p])}]
       /\ work' = [work EXCEPT ![p] = Tail(@)]
       /\ pending' = Taken(Head(work[p]))
  /\ lock' = Nobody
  /\ To(w, "work")
  /\ UNCHANGED <<ctl, owner, running, main, item, answers, alert, gen, wgen,
                 exit, woken>>

\* Mutant: the alert is raised only for a queue that already had answers.
AlertLate == answers # <<>>

\* queue_reply's was_empty
WasEmpty == answers = <<>>

\* The work function runs and queue_reply follows.
Run(w) ==
  /\ pc[w] = "work"
  /\ \E i \in cur[w], r \in Results :
       /\ answers' = Append(answers, i)
       /\ To(w, CASE WasEmpty /\ r = "reply" -> "alert"
                  [] WasEmpty /\ r = "error" -> "alertquit"
                  [] ~WasEmpty /\ r = "reply" -> "relock"
                  [] OTHER -> "quit")
  /\ cur' = [cur EXCEPT ![w] = {}]
  /\ UNCHANGED <<locks, main, work, item, pending, alert, gen, wgen, exit,
                 woken>>

Alert(w) ==
  /\ pc[w] \in {"alert", "alertquit"}
  /\ alert' = TRUE
  /\ To(w, IF pc[w] = "alert" THEN "relock" ELSE "quit")
  /\ UNCHANGED <<locks, main, work, item, pending, answers, cur, gen, wgen,
                 exit, woken>>

\* The owner of control_lock waits for the other workers.
Leave(w) ==
  /\ pc[w] = "exit"
  /\ lock' = Nobody
  /\ IF owner # w
     THEN running' = running - 1 /\ To(w, "done")
     ELSE /\ To(w, IF running > 1 THEN "sleep" ELSE "last")
          /\ UNCHANGED running
  /\ UNCHANGED <<ctl, owner, main, queues, cur, gen, wgen, exit, woken>>

ReleaseControl(w) ==
  /\ pc[w] = "last"
  /\ ctl' = Nobody
  /\ To(w, "done")
  /\ UNCHANGED <<lock, owner, running, main, queues, cur, gen, wgen, exit,
                 woken>>

Worker(w) ==
  \/ Start(w) \/ Acquire(w) \/ TakeControl(w) \/ Top(w) \/ Wait(w)
  \/ Update(w) \/ Extract(w) \/ Run(w) \/ Alert(w) \/ Leave(w)
  \/ ReleaseControl(w)

--------------------------------------------------------------------------
(* The main thread.                                                        *)

\* threadpool_start_threads, once all workers have reported: pool->lock is
\* released first, then control_lock.
Started ==
  /\ main = "waitstart" /\ running = Cardinality(Workers) /\ ctl = Nobody
  /\ main' = "starting" /\ lock' = Nobody /\ ctl' = Main
  /\ UNCHANGED <<owner, running, pc, queues, cur, gen, wgen, exit, woken>>

StartReturns ==
  /\ main = "starting"
  /\ main' = "run" /\ ctl' = Nobody
  /\ UNCHANGED <<lock, owner, running, pc, queues, cur, gen, wgen, exit,
                 woken>>

Waiting == {w \in Workers : pc[w] = "wait"} \ woken

\* threadpool_queue_work_priority, with tor_cond_signal_one
QueueWork(i) ==
  /\ main = "run" /\ lock = Nobody /\ item[i] = "new"
  /\ item' = [item EXCEPT ![i] = "live"]
  /\ pending' = pending \cup {i}
  /\ work' = [p \in 1 .. 2 |-> IF i \in Prios[p] THEN Append(work[p], i)
                               ELSE work[p]]
  /\ IF Waiting = {} THEN UNCHANGED woken
     ELSE \E w \in Waiting : woken' = woken \cup {w}
  /\ UNCHANGED <<locks, pc, main, answers, alert, cur, gen, wgen, exit>>

\* workqueue_entry_cancel
Cancel(i) ==
  /\ main = "run" /\ lock = Nobody /\ item[i] = "live" /\ i \in pending
  /\ item' = [item EXCEPT ![i] = "freed"]
  /\ pending' = pending \ {i}
  /\ work' = [p \in 1 .. 2 |-> Removed(work[p], i)]
  /\ UNCHANGED <<locks, pc, main, answers, alert, cur, gen, wgen, exit, woken>>

\* threadpool_queue_update, with tor_cond_signal_all
QueueUpdate ==
  /\ main = "run" /\ lock = Nobody /\ gen < MaxUpdates
  /\ gen' = gen + 1
  /\ woken' = woken \cup Waiting
  /\ UNCHANGED <<locks, pc, main, queues, cur, wgen, exit>>

\* replyqueue_process: the alert is drained, then the queue is emptied, one
\* reply_fn at a time.
Drain ==
  /\ main = "run" /\ alert
  /\ alert' = FALSE
  /\ main' = "replies"
  /\ UNCHANGED <<locks, pc, work, item, pending, answers, cur, gen, wgen,
                 exit, woken>>

Reply ==
  /\ main = "replies" /\ answers # <<>>
  /\ item' = [item EXCEPT ![Head(answers)] = "freed"]
  /\ answers' = Tail(answers)
  /\ UNCHANGED <<locks, pc, main, work, pending, alert, cur, gen, wgen, exit,
                 woken>>

RepliesDone ==
  /\ main = "replies" /\ answers = <<>>
  /\ main' = "run"
  /\ UNCHANGED <<locks, pc, queues, cur, gen, wgen, exit, woken>>

\* threadpool_stop_threads: then control_lock, which the workers give back.
Stop ==
  /\ Stops /\ main = "run" /\ lock = Nobody
  /\ Prompt \/ owner # Nobody
  /\ exit' = TRUE
  /\ woken' = woken \cup Waiting
  /\ main' = "stopping"
  /\ UNCHANGED <<locks, pc, queues, cur, gen, wgen>>

\* control_lock is free: threadpool_free_ goes on to free the pool.
FreePool ==
  /\ main = "stopping" /\ ctl = Nobody
  /\ main' = "freed"
  /\ UNCHANGED <<locks, pc, queues, cur, gen, wgen, exit, woken>>

MainSteps == Started \/ StartReturns \/ Drain \/ Reply \/ RepliesDone
             \/ FreePool

Next ==
  \/ \E w \in Workers : Worker(w)
  \/ MainSteps \/ QueueUpdate \/ Stop
  \/ \E i \in Items : QueueWork(i) \/ Cancel(i)

\* Threads are scheduled and mutexes handed out fairly; the main loop runs the
\* callbacks that are ready.
Spec == /\ Init /\ [][Next]_vars
        /\ \A w \in Workers : SF_vars(Worker(w))
        /\ SF_vars(MainSteps)

--------------------------------------------------------------------------
(* Properties.                                                             *)

\* An entry that is freed, after its reply or because it was cancelled, is on
\* no queue and no worker runs it.
EntriesUnused ==
  \A i \in Items : item[i] = "freed" =>
    /\ i \notin In(work[1]) \cup In(work[2]) \cup In(answers)
    /\ \A w \in Workers : i \notin cur[w]

\* "the memory clean up won't begin before all threads have exited"
StopWaits == main = "freed" => \A w \in Workers : pc[w] = "done"

\* What is freed is not used: once workqueue_entry_free has run, no queue and no
\* worker has the entry, and if the workers have begun before the pool is
\* stopped threadpool_free frees it only after all threads have exited.
FreedIsUnused == EntriesUnused /\ (~Prompt => StopWaits)

\* Every entry queued is answered or cancelled, however the replies race the
\* draining of the alert socket.
Answered == \A i \in Items : []<>(item[i] # "live")

\* Every update reaches every worker, or a later one does.
UpdateReaches == \A w \in Workers : []<>(wgen[w] = gen)

-----------------------------------------------------------------------------
\* What a comment, an assertion or a name in the source says and the code does
\* not keep (README, section "Departures"): TLC refutes each of these.

\* "Wait until all worker threads have exited": the wait ends.
StopEnds == []<>(main # "stopping")
=============================================================================
