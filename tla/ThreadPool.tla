----------------------------- MODULE ThreadPool -----------------------------
(***************************************************************************)
(* The thread pool, rtThreadPool.c: tasks are queued by any thread, worker *)
(* threads are created on demand up to a maximum, wait for work on a       *)
(* condition variable, expire when idle too long, and one thread may stop  *)
(* the pool and destroy it.                                                *)
(*                                                                         *)
(* Everything the code does between taking poolLock and giving it back (or *)
(* waiting on a condition variable) is one step.  A worker's place in      *)
(* rtThread_WorkerThreadFunc is pc[w]:                                     *)
(*   none     not created, or ended                                        *)
(*   created  pthread_create was called, the thread has not taken the lock *)
(*   waiting  in pthread_cond_timedwait                                    *)
(*   woken    signalled, has to take the lock again                        *)
(*   expired  timed out, has to take the lock again                        *)
(*   running  executing a task without the lock                            *)
(*   leaving  left the loop, about to call rtThreadPool_TryRealDestroy     *)
(*   freeing  decided to free the pool                                     *)
(*   broken   touched the pool after it was freed; not followed further    *)
(***************************************************************************)
EXTENDS Integers, Sequences, FiniteSets

CONSTANTS
  Threads,         \* identities of worker threads (a bound on how many exist)
  Tasks,           \* the tasks submitted, each once
  maxThreadCount,  \* the limit given to rtThreadPool_Create
  Expires,         \* whether idle workers may time out
  NoTask           \* the task field of a worker that has not run yet

ASSUME ConstantsAssumption ==
  /\ IsFiniteSet(Threads)
  /\ maxThreadCount \in Nat
  /\ Expires \in BOOLEAN
  /\ NoTask \notin Tasks

VARIABLES
  pc, task,                      \* the workers
  taskList, done,                \* queued and completed tasks
  threadCount, busyThreadCount,  \* the pool's counters
  isRunning, isShutdown, pool,   \* its flags; pool is "live" or "freed"
  stopPc,                        \* the thread in StopAllThread or Destroy
  waitsForever,                  \* waitTimeMS < 0
  stopResult, owed               \* its result; what had been submitted by then

workerVars == <<pc, task>>
taskVars == <<taskList, done>>
countVars == <<threadCount, busyThreadCount>>
flagVars == <<isRunning, isShutdown, pool>>
stopVars == <<stopPc, waitsForever, stopResult, owed>>
vars == <<workerVars, taskVars, countVars, flagVars, stopVars>>

Queued == {taskList[i] : i \in DOMAIN taskList}
Busy == {w \in Threads : pc[w] = "running"}
Counted == {w \in Threads : pc[w] \in {"waiting", "woken", "expired", "running"}}
Submitted == Queued \cup {task[w] : w \in Busy} \cup done

-----------------------------------------------------------------------------
(* The worker thread.  "n" and "b" are the counters as the step finds them *)
(* after what it did before it came to this point of the loop.             *)

\* Variant: the task is copied but stays at the head of the list.
DequeTaskKeep(w, n, b) ==
  /\ isRunning
  /\ taskList # <<>>
  /\ task' = [task EXCEPT ![w] = Head(taskList)]
  /\ taskList' = taskList
  /\ pc' = [pc EXCEPT ![w] = "running"]
  /\ threadCount' = n
  /\ busyThreadCount' = b + 1

\* rtThread_DequeTask found a task; the worker leaves the lock to run it.
DequeTask(w, n, b) ==
  /\ isRunning
  /\ taskList # <<>>
  /\ task' = [task EXCEPT ![w] = Head(taskList)]
  /\ taskList' = Tail(taskList)
  /\ pc' = [pc EXCEPT ![w] = "running"]
  /\ threadCount' = n
  /\ busyThreadCount' = b + 1

WaitForTask(w, n, b) ==
  /\ isRunning
  /\ taskList = <<>>
  /\ pc' = [pc EXCEPT ![w] = "waiting"]
  /\ threadCount' = n
  /\ busyThreadCount' = b
  /\ UNCHANGED <<task, taskList>>

\* Variant: the worker leaves without giving up its place in the count.
LeaveLoopCounted(w, n, b) ==
  /\ pc' = [pc EXCEPT ![w] = "leaving"]
  /\ threadCount' = n
  /\ busyThreadCount' = b
  /\ UNCHANGED <<task, taskList>>

LeaveLoop(w, n, b) ==
  /\ pc' = [pc EXCEPT ![w] = "leaving"]
  /\ threadCount' = n - 1
  /\ busyThreadCount' = b
  /\ UNCHANGED <<task, taskList>>

\* One round of the worker's loop, up to the next time it gives up the lock.
Loop(w, n, b) ==
  \/ DequeTask(w, n, b)
  \/ WaitForTask(w, n, b)
  \/ ~isRunning /\ LeaveLoop(w, n, b)

Start(w) ==
  /\ pc[w] = "created" /\ pool = "live"
  /\ Loop(w, threadCount + 1, busyThreadCount)
  /\ UNCHANGED <<done, flagVars, stopVars>>

Wake(w) ==
  /\ pc[w] = "woken" /\ pool = "live"
  /\ Loop(w, threadCount, busyThreadCount)
  /\ UNCHANGED <<done, flagVars, stopVars>>

\* A task returns: the worker tells whoever waits for idle threads and, with
\* the lock still held, looks for the next task.
Finish(w) ==
  /\ pc[w] = "running" /\ pool = "live"
  /\ done' = done \cup {task[w]}
  /\ stopPc' = IF stopPc = "idleWait" THEN "idleWoken" ELSE stopPc
  /\ Loop(w, threadCount, busyThreadCount - 1)
  /\ UNCHANGED <<flagVars, waitsForever, stopResult, owed>>

\* The wait ends by itself; the queue is not looked at again.
Timeout(w) ==
  /\ Expires
  /\ pc[w] = "waiting"
  /\ pc' = [pc EXCEPT ![w] = "expired"]
  /\ UNCHANGED <<task, taskVars, countVars, flagVars, stopVars>>

Expire(w) ==
  /\ pc[w] = "expired" /\ pool = "live"
  /\ LeaveLoop(w, threadCount, busyThreadCount)
  /\ UNCHANGED <<done, flagVars, stopVars>>

-----------------------------------------------------------------------------
(* rtThreadPool_TryRealDestroy, by the last worker and by the destroyer.   *)

\* Variant: the threads are not waited for.
ShouldDestroyAnyway == isShutdown

ShouldDestroy == threadCount = 0 /\ isShutdown

LastCheck(w) ==
  /\ pc[w] = "leaving" /\ pool = "live"
  /\ pc' = [pc EXCEPT ![w] = IF ShouldDestroy THEN "freeing" ELSE "none"]
  /\ UNCHANGED <<task, taskVars, countVars, flagVars, stopVars>>

WorkerFrees(w) ==
  /\ pc[w] = "freeing" /\ pool = "live"
  /\ pc' = [pc EXCEPT ![w] = "none"]
  /\ pool' = "freed"
  /\ UNCHANGED <<task, taskVars, countVars, isRunning, isShutdown, stopVars>>

\* A worker whose next step is on a pool another thread has freed.
TouchFreed(w) ==
  /\ pool = "freed"
  /\ pc[w] \in {"created", "leaving", "freeing"}
  /\ pc' = [pc EXCEPT ![w] = "broken"]
  /\ UNCHANGED <<task, taskVars, countVars, flagVars, stopVars>>

-----------------------------------------------------------------------------
(* rtThreadPool_RunTask                                                    *)

\* pthread_cond_signal: one waiter, if there is one.
Signal ==
  IF \E w \in Threads : pc[w] = "waiting"
  THEN \E w \in Threads : pc[w] = "waiting" /\ pc' = [pc EXCEPT ![w] = "woken"]
  ELSE UNCHANGED pc

CreateWorkerThread ==
  \E w \in Threads : pc[w] = "none" /\ pc' = [pc EXCEPT ![w] = "created"]

\* Variant: a pool whose threads are all busy counts as having an idle one.
AssignThreadAtLimit ==
  \/ busyThreadCount <= threadCount /\ Signal
  \/ busyThreadCount > threadCount /\ CreateWorkerThread

\* An idle thread is signalled, or a thread is created, or (at the limit) the
\* task stays pending until a busy thread comes for it.
AssignThread ==
  \/ busyThreadCount < threadCount /\ Signal
  \/ /\ busyThreadCount >= threadCount
     /\ threadCount < maxThreadCount
     /\ CreateWorkerThread
  \/ /\ busyThreadCount >= threadCount
     /\ threadCount >= maxThreadCount
     /\ UNCHANGED pc

\* Any thread may submit until Destroy is called, a running task also after.
RunTask(t) ==
  /\ pool = "live"
  /\ isShutdown => Busy # {}
  /\ t \notin Submitted
  /\ taskList' = Append(taskList, t)
  /\ AssignThread
  /\ UNCHANGED <<task, done, countVars, flagVars, stopVars>>

-----------------------------------------------------------------------------
(* rtThreadPool_StopAllThread and rtThreadPool_Destroy.                    *)

Awakened == [w \in Threads |-> IF pc[w] = "waiting" THEN "woken" ELSE pc[w]]

\* Variant: the waiting workers are not told.
StopNowSilently ==
  /\ isRunning' = FALSE
  /\ stopResult' = IF taskList = <<>> THEN "OK" ELSE "TASKS_CANCELLED"
  /\ owed' = Submitted
  /\ stopPc' = "stopped"
  /\ UNCHANGED pc

\* isRunning is cleared, every waiting worker woken, what is queued cancelled.
StopNow ==
  /\ isRunning' = FALSE
  /\ pc' = Awakened
  /\ stopResult' = IF taskList = <<>> THEN "OK" ELSE "TASKS_CANCELLED"
  /\ owed' = Submitted
  /\ stopPc' = "stopped"

WaitForIdle ==
  /\ busyThreadCount > 0
  /\ stopPc' = "idleWait"
  /\ UNCHANGED <<pc, isRunning, stopResult, owed>>

\* Variant: a single wait instead of the loop around it.
StopRoundOnce ==
  \/ stopPc = "none" /\ WaitForIdle
  \/ (stopPc # "none" \/ busyThreadCount = 0) /\ StopNow

\* One round of the waiting loop: it ends when no thread is busy or, unless it
\* waits forever, when the time is up.
StopRound ==
  \/ WaitForIdle
  \/ (busyThreadCount = 0 \/ ~waitsForever') /\ StopNow

Stop ==
  /\ stopPc = "none" /\ pool = "live"
  /\ waitsForever' \in BOOLEAN
  /\ StopRound
  /\ UNCHANGED <<task, taskVars, countVars, isShutdown, pool>>

StopWake ==
  /\ stopPc = "idleWoken"
  /\ UNCHANGED waitsForever
  /\ StopRound
  /\ UNCHANGED <<task, taskVars, countVars, isShutdown, pool>>

\* The timed wait for idle threads ends by itself.
StopTimeout ==
  /\ stopPc = "idleWait"
  /\ ~waitsForever
  /\ stopPc' = "idleWoken"
  /\ UNCHANGED <<workerVars, taskVars, countVars, flagVars, waitsForever, stopResult, owed>>

\* rtThreadPool_Destroy goes on after StopAllThread; a caller of StopAllThread
\* alone stops here.
Shutdown ==
  /\ stopPc = "stopped"
  /\ isShutdown' = TRUE
  /\ stopPc' = "shutdown"
  /\ UNCHANGED <<workerVars, taskVars, countVars, isRunning, pool, waitsForever, stopResult, owed>>

DestroyCheck ==
  /\ stopPc = "shutdown"
  /\ stopPc' = IF pool = "freed" THEN "broken"
               ELSE IF ShouldDestroy THEN "freeing" ELSE "returned"
  /\ UNCHANGED <<workerVars, taskVars, countVars, flagVars, waitsForever, stopResult, owed>>

DestroyerFrees ==
  /\ stopPc = "freeing"
  /\ stopPc' = IF pool = "freed" THEN "broken" ELSE "returned"
  /\ pool' = "freed"
  /\ UNCHANGED <<workerVars, taskVars, countVars, isRunning, isShutdown, waitsForever, stopResult, owed>>

-----------------------------------------------------------------------------
Init ==
  /\ pc = [w \in Threads |-> "none"]
  /\ task = [w \in Threads |-> NoTask]
  /\ taskList = <<>>
  /\ done = {}
  /\ threadCount = 0
  /\ busyThreadCount = 0
  /\ isRunning = TRUE
  /\ isShutdown = FALSE
  /\ pool = "live"
  /\ stopPc = "none"
  /\ waitsForever = FALSE
  /\ stopResult = "none"
  /\ owed = {}

Worker(w) ==
  \/ Start(w) \/ Wake(w) \/ Finish(w) \/ Expire(w)
  \/ LastCheck(w) \/ WorkerFrees(w) \/ TouchFreed(w)

Next ==
  \/ \E w \in Threads : Worker(w) \/ Timeout(w)
  \/ \E t \in Tasks : RunTask(t)
  \/ Stop \/ StopWake \/ StopTimeout
  \/ Shutdown \/ DestroyCheck \/ DestroyerFrees

Spec == Init /\ [][Next]_vars

\* The scheduler runs every thread that can run, and tasks return.
Fairness ==
  /\ \A w \in Threads : WF_vars(Worker(w))
  /\ WF_vars(StopWake)

FairSpec == Spec /\ Fairness

-----------------------------------------------------------------------------
(* Properties.                                                             *)

WorkerStates == {"none", "created", "waiting", "woken", "expired", "running",
                 "leaving", "freeing", "broken"}
StopStates == {"none", "idleWait", "idleWoken", "stopped", "shutdown", "freeing",
               "returned", "broken"}

\* Types of the variables; in particular the unsigned counters of the pool are
\* never decremented below zero.
TypeOK ==
  /\ pc \in [Threads -> WorkerStates]
  /\ task \in [Threads -> Tasks \cup {NoTask}]
  /\ \A w \in Busy : task[w] \in Tasks
  /\ taskList \in Seq(Tasks)
  /\ done \subseteq Tasks
  /\ threadCount \in Nat
  /\ busyThreadCount \in Nat
  /\ isRunning \in BOOLEAN
  /\ isShutdown \in BOOLEAN
  /\ pool \in {"live", "freed"}
  /\ stopPc \in StopStates
  /\ waitsForever \in BOOLEAN
  /\ stopResult \in {"none", "OK", "TASKS_CANCELLED"}
  /\ owed \subseteq Tasks

\* A submitted task is in exactly one place: once in the list, or with one
\* worker, or done.  No interleaving of workers loses it or runs it twice.
TaskInOnePlace ==
  /\ \A i, j \in DOMAIN taskList : taskList[i] = taskList[j] => i = j
  /\ \A w \in Busy : task[w] \notin Queued \cup done
  /\ \A v, w \in Busy : task[v] = task[w] => v = w
  /\ Queued \cap done = {}

\* The counters RunTask and StopAllThread decide by are the number of workers
\* inside the loop and of those running a task, whatever path each one took.
CountersExact ==
  /\ threadCount = Cardinality(Counted)
  /\ busyThreadCount = Cardinality(Busy)

\* When StopAllThread waited without limit and reports success, every task
\* submitted before it returned has been completed.
StopOkMeansDone ==
  stopResult = "OK" /\ waitsForever => owed \subseteq done

\* The pool is never freed under a worker that is in its loop: no worker runs a
\* task of a freed pool or waits on its condition variable.
FreedOnlyWhenIdle ==
  pool = "freed" => Counted = {}

\* RunTask finds a thread for its task: a queued task is eventually completed
\* unless the pool is stopped first.
TaskEventuallyDone ==
  \A t \in Tasks : t \in Queued ~> t \in done \/ ~isRunning

\* The same, unless an idle worker's wait timed out and the worker had not left yet
\* while this very task was queued: an expiry over before it was submitted, or after
\* it was taken, excuses nothing.
DoneUnlessExpired ==
  \A t \in Tasks :
    \/ t \in Queued ~> t \in done \/ ~isRunning
    \/ <>(t \in Queued /\ \E w \in Threads : pc[w] = "expired")

\* Stopping reaches every worker: all of them end (or find the pool freed).
StoppedWorkersEnd ==
  stopPc = "stopped" ~> \A w \in Threads : pc[w] \in {"none", "broken"}
=============================================================================
