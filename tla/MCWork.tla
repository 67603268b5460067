-------------------------------- MODULE MCWork --------------------------------
(***************************************************************************)
(* Small instances of WorkQueue, two workers and three items, in one run:  *)
(* part is chosen at first and says which instance it is.  The module is   *)
(* itself the pool that works on, with the constants of the configuration. *)
(***************************************************************************)
EXTENDS WorkQueue

VARIABLE part

mcVars == <<part, vars>>

\* Workers quit, or the pool is freed.
Stopped == INSTANCE WorkQueue WITH
  Stops <- TRUE, Results <- {"reply", "error"}

ASSUME WorkAssumption /\ Stopped!WorkAssumption

MCInit == part \in {"queue", "stop"} /\ Init

MCNext ==
  /\ \/ part = "queue" /\ Next
     \/ part = "stop" /\ Stopped!Next
  /\ UNCHANGED part

\* The fairness of WorkQueue, for the pool that works on.
QueueFairness ==
  /\ \A w \in Workers : SF_vars(part = "queue" /\ Worker(w))
  /\ SF_vars(part = "queue" /\ MainSteps)

MCSpec == MCInit /\ [][MCNext]_mcVars /\ QueueFairness

-----------------------------------------------------------------------------
(* Properties: FreedIsUnused of WorkQueue, for both, and this one.          *)

\* Work gets done: every entry queued is answered or cancelled, however the
\* replies race the draining of the alert socket (replyqueue_process), and the
\* update of threadpool_queue_update reaches every worker, idle or busy.
WorkGetsDone ==
  /\ \A i \in Items : []<>(part = "queue" => item[i] # "live")
  /\ \A w \in Workers : []<>(part = "queue" => wgen[w] = gen)
=============================================================================
