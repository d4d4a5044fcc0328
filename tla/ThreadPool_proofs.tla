-------------------------- MODULE ThreadPool_proofs --------------------------
(***************************************************************************)
(* Proofs about the thread pool, for every number of threads, tasks and    *)
(* every limit.  The inductive invariant adds to the properties of         *)
(* ThreadPool the order of the stopping protocol (StopPhases): the pool is *)
(* only shut down after it was stopped, and only freed, or about to be     *)
(* freed, when it is shut down and no worker is in its loop.               *)
(***************************************************************************)
EXTENDS ThreadPool, FiniteSetTheorems, TLAPS

Freeing == stopPc = "freeing" \/ \E w \in Threads : pc[w] = "freeing"

StopPhases ==
  /\ stopPc \in {"none", "idleWait", "idleWoken"} => stopResult = "none"
  /\ stopPc \notin {"none", "idleWait", "idleWoken"} => ~isRunning
  /\ isShutdown => stopPc \notin {"none", "idleWait", "idleWoken"}
  /\ Freeing => isShutdown /\ Counted = {}
  /\ pool = "freed" => isShutdown

IInv ==
  /\ TypeOK
  /\ TaskInOnePlace
  /\ CountersExact
  /\ StopPhases
  /\ FreedOnlyWhenIdle
  /\ StopOkMeansDone

-----------------------------------------------------------------------------
(* The type invariant, except for the counters: their type follows from what
   they count. *)
CounterTypes == threadCount \in Nat /\ busyThreadCount \in Nat

\* The initial states satisfy the inductive invariant.
LEMMA InitIInv == Init => IInv
<1> SUFFICES ASSUME Init PROVE IInv
  OBVIOUS
<1>1. TypeOK
  <2>1. taskList \in Seq(Tasks)
    BY DEF Init
  <2>2. pc \in [Threads -> WorkerStates] /\ task \in [Threads -> Tasks \cup {NoTask}]
    BY DEF Init, WorkerStates
  <2>3. \A w \in Busy : task[w] \in Tasks
    BY DEF Init, Busy
  <2> QED
    BY <2>1, <2>2, <2>3 DEF Init, TypeOK, StopStates
<1>2. TaskInOnePlace
  BY DEF Init, TaskInOnePlace, Busy, Queued
<1>3. CountersExact
  <2>1. Counted = {} /\ Busy = {}
    BY DEF Init, Counted, Busy
  <2> QED
    BY <2>1, FS_EmptySet DEF Init, CountersExact
<1>4. StopPhases /\ FreedOnlyWhenIdle /\ StopOkMeansDone
  BY DEF Init, StopPhases, Freeing, FreedOnlyWhenIdle, StopOkMeansDone
<1> QED
  BY <1>1, <1>2, <1>3, <1>4 DEF IInv

\* Appending to and taking from the front of the list keeps its type.
LEMMA LoopTypes ==
  ASSUME TypeOK, NEW w \in Threads, NEW n, NEW b, Loop(w, n, b)
  PROVE  /\ pc' \in [Threads -> WorkerStates]
         /\ task' \in [Threads -> Tasks \cup {NoTask}]
         /\ taskList' \in Seq(Tasks)
         /\ \A v \in Busy' : task'[v] \in Tasks
<1>1. CASE DequeTask(w, n, b)
  <2>1. Head(taskList) \in Tasks /\ Tail(taskList) \in Seq(Tasks)
    BY <1>1 DEF TypeOK, DequeTask
  <2> QED
    BY <1>1, <2>1 DEF TypeOK, DequeTask, WorkerStates, Busy
<1>2. CASE WaitForTask(w, n, b)
  BY <1>2 DEF TypeOK, WaitForTask, WorkerStates, Busy
<1>3. CASE ~isRunning /\ LeaveLoop(w, n, b)
  BY <1>3 DEF TypeOK, LeaveLoop, WorkerStates, Busy
<1> QED
  BY <1>1, <1>2, <1>3 DEF Loop

\* Every step keeps the types, given that it keeps those of the counters.
LEMMA TypeStep ==
  ASSUME TypeOK, Next, CounterTypes'
  PROVE  TypeOK'
<1> USE DEF CounterTypes
<1>1. ASSUME NEW w \in Threads, Worker(w) PROVE TypeOK'
  <2>1. CASE Start(w) \/ Wake(w) \/ Finish(w)
    <3>1. \E n, b : Loop(w, n, b)
      BY <2>1 DEF Start, Wake, Finish
    <3>2. /\ pc' \in [Threads -> WorkerStates]
          /\ task' \in [Threads -> Tasks \cup {NoTask}]
          /\ taskList' \in Seq(Tasks)
          /\ \A v \in Busy' : task'[v] \in Tasks
      BY <3>1, LoopTypes
    <3>3. CASE Start(w) \/ Wake(w)
      BY <3>2, <3>3 DEF TypeOK, Start, Wake, flagVars, stopVars
    <3>4. CASE Finish(w)
      <4>1. task[w] \in Tasks
        BY <3>4 DEF TypeOK, Finish, Busy
      <4> QED
        BY <3>2, <3>4, <4>1 DEF TypeOK, Finish, flagVars, StopStates
    <3> QED
      BY <2>1, <3>3, <3>4
  <2>2. CASE Expire(w)
    BY <2>2 DEF TypeOK, Busy, Expire, LeaveLoop, WorkerStates, flagVars, stopVars
  <2>3. CASE LastCheck(w)
    BY <2>3 DEF TypeOK, Busy, LastCheck, WorkerStates, taskVars, countVars, flagVars, stopVars
  <2>4. CASE WorkerFrees(w)
    BY <2>4 DEF TypeOK, Busy, WorkerFrees, WorkerStates, taskVars, countVars, stopVars
  <2>5. CASE TouchFreed(w)
    BY <2>5 DEF TypeOK, Busy, TouchFreed, WorkerStates, taskVars, countVars, flagVars, stopVars
  <2> QED
    BY <1>1, <2>1, <2>2, <2>3, <2>4, <2>5 DEF Worker
<1>2. ASSUME NEW w \in Threads, Timeout(w) PROVE TypeOK'
  BY <1>2 DEF TypeOK, Busy, Timeout, WorkerStates, taskVars, countVars, flagVars, stopVars
<1>3. ASSUME NEW t \in Tasks, RunTask(t) PROVE TypeOK'
  <2>1. pc' \in [Threads -> WorkerStates] /\ Busy' = Busy
    BY <1>3 DEF TypeOK, RunTask, AssignThread, Signal, CreateWorkerThread, WorkerStates, Busy
  <2>2. taskList' \in Seq(Tasks)
    BY <1>3 DEF TypeOK, RunTask
  <2> QED
    BY <1>3, <2>1, <2>2 DEF TypeOK, RunTask, countVars, flagVars, stopVars
<1>4. ASSUME StopRound, waitsForever' \in BOOLEAN,
             UNCHANGED <<task, taskVars, countVars, isShutdown, pool>>
      PROVE  TypeOK'
  <2>1. Submitted \in SUBSET Tasks
    BY DEF TypeOK, Submitted, Queued, Busy
  <2>2. CASE WaitForIdle
    BY <1>4, <2>2 DEF TypeOK, Busy, WaitForIdle, StopStates, taskVars, countVars
  <2>3. CASE StopNow
    BY <1>4, <2>1, <2>3 DEF TypeOK, Busy, StopNow, Awakened, WorkerStates, StopStates,
                            taskVars, countVars
  <2> QED
    BY <1>4, <2>2, <2>3 DEF StopRound
<1>5. CASE Stop
  BY <1>4, <1>5 DEF Stop
<1>6. CASE StopWake
  BY <1>4, <1>6 DEF StopWake, TypeOK
<1>7. CASE StopTimeout
  BY <1>7 DEF TypeOK, Busy, StopTimeout, StopStates, workerVars, taskVars, countVars, flagVars
<1>8. CASE Shutdown
  BY <1>8 DEF TypeOK, Busy, Shutdown, StopStates, workerVars, taskVars, countVars
<1>9. CASE DestroyCheck
  BY <1>9 DEF TypeOK, Busy, DestroyCheck, StopStates, workerVars, taskVars, countVars, flagVars
<1>10. CASE DestroyerFrees
  BY <1>10 DEF TypeOK, Busy, DestroyerFrees, StopStates, workerVars, taskVars, countVars
<1> QED
  BY <1>1, <1>2, <1>3, <1>5, <1>6, <1>7, <1>8, <1>9, <1>10 DEF Next

-----------------------------------------------------------------------------
(* The counters.  A worker w that goes through its loop finds the counters at
   the number of the other workers: one more than them with itself. *)
CountsOthers(w, n, b) ==
  /\ n = Cardinality(Counted \ {w}) + 1
  /\ b = Cardinality(Busy \ {w})

\* The sets that are counted are finite.
LEMMA FiniteCounts == IsFiniteSet(Counted) /\ IsFiniteSet(Busy)
<1>1. Counted \in SUBSET Threads /\ Busy \in SUBSET Threads
  BY DEF Counted, Busy
<1> QED
  BY <1>1, FS_Subset, ConstantsAssumption

\* As are the sets after a step.
LEMMA FiniteCountsPrime == IsFiniteSet(Counted') /\ IsFiniteSet(Busy')
<1>1. Counted' \in SUBSET Threads /\ Busy' \in SUBSET Threads
  BY DEF Counted, Busy
<1> QED
  BY <1>1, FS_Subset, ConstantsAssumption

\* Counters that are exact are natural numbers, which no decrement wraps.
LEMMA ExactTypes == CountersExact' => CounterTypes'
<1> SUFFICES ASSUME CountersExact' PROVE CounterTypes'
  OBVIOUS
<1>1. Cardinality(Counted') \in Nat /\ Cardinality(Busy') \in Nat
  BY FiniteCountsPrime, FS_CardinalityType
<1> QED
  BY <1>1 DEF CountersExact, CounterTypes

\* Wherever a worker comes to, the loop leaves the counters exact.
LEMMA LoopCounts ==
  ASSUME TypeOK, NEW w \in Threads, NEW n, NEW b,
         CountsOthers(w, n, b), Loop(w, n, b)
  PROVE  CountersExact'
<1> DEFINE C == Counted \ {w}
           B == Busy \ {w}
<1>1. IsFiniteSet(C) /\ IsFiniteSet(B) /\ w \notin C /\ w \notin B
  BY FiniteCounts, FS_RemoveElement
<1>2. Cardinality(C) \in Nat /\ Cardinality(B) \in Nat
  BY <1>1, FS_CardinalityType
<1>3. /\ Cardinality(C \cup {w}) = Cardinality(C) + 1
      /\ Cardinality(B \cup {w}) = Cardinality(B) + 1
  BY <1>1, FS_AddElement
<1>4. CASE DequeTask(w, n, b)
  <2>1. Counted' = C \cup {w} /\ Busy' = B \cup {w}
    BY <1>4 DEF TypeOK, DequeTask, Counted, Busy
  <2> QED
    BY <1>3, <1>4, <2>1 DEF CountsOthers, DequeTask, CountersExact
<1>5. CASE WaitForTask(w, n, b)
  <2>1. Counted' = C \cup {w} /\ Busy' = B
    BY <1>5 DEF TypeOK, WaitForTask, Counted, Busy
  <2> QED
    BY <1>3, <1>5, <2>1 DEF CountsOthers, WaitForTask, CountersExact
<1>6. CASE ~isRunning /\ LeaveLoop(w, n, b)
  <2>1. Counted' = C /\ Busy' = B
    BY <1>6 DEF TypeOK, LeaveLoop, Counted, Busy
  <2>2. n - 1 = Cardinality(C)
    BY <1>2 DEF CountsOthers
  <2> QED
    BY <1>6, <2>1, <2>2 DEF CountsOthers, LeaveLoop, CountersExact
<1> QED
  BY <1>4, <1>5, <1>6 DEF Loop

\* A step that moves no worker into or out of the counted places.
LEMMA SameCounts ==
  ASSUME CountersExact, UNCHANGED countVars, Counted' = Counted, Busy' = Busy
  PROVE  CountersExact'
BY DEF CountersExact, countVars

\* Every step of the pool keeps the counters exact.
LEMMA CountStep ==
  ASSUME TypeOK, CountersExact, Next
  PROVE  CountersExact'
<1>0. Cardinality(Counted) \in Nat /\ Cardinality(Busy) \in Nat
  BY FiniteCounts, FS_CardinalityType
<1>1. ASSUME NEW w \in Threads, Worker(w) PROVE CountersExact'
  <2>0. /\ Cardinality(Counted \ {w}) = IF w \in Counted THEN Cardinality(Counted) - 1
                                                        ELSE Cardinality(Counted)
        /\ Cardinality(Busy \ {w}) = IF w \in Busy THEN Cardinality(Busy) - 1
                                                  ELSE Cardinality(Busy)
    BY FiniteCounts, FS_RemoveElement
  <2>1. CASE Start(w)
    <3>1. w \notin Counted /\ w \notin Busy
      BY <2>1 DEF Start, Counted, Busy
    <3>2. CountsOthers(w, threadCount + 1, busyThreadCount)
      BY <2>0, <3>1 DEF CountsOthers, CountersExact
    <3> QED
      BY <2>1, <3>2, LoopCounts DEF Start
  <2>2. CASE Wake(w)
    <3>1. w \in Counted /\ w \notin Busy
      BY <2>2 DEF Wake, Counted, Busy
    <3>2. CountsOthers(w, threadCount, busyThreadCount)
      BY <1>0, <2>0, <3>1 DEF CountsOthers, CountersExact
    <3> QED
      BY <2>2, <3>2, LoopCounts DEF Wake
  <2>3. CASE Finish(w)
    <3>1. w \in Counted /\ w \in Busy
      BY <2>3 DEF Finish, Counted, Busy
    <3>2. CountsOthers(w, threadCount, busyThreadCount - 1)
      BY <1>0, <2>0, <3>1 DEF CountsOthers, CountersExact
    <3> QED
      BY <2>3, <3>2, LoopCounts DEF Finish
  <2>4. CASE Expire(w)
    <3>1. w \in Counted /\ Counted' = Counted \ {w} /\ Busy' = Busy
      BY <2>4 DEF TypeOK, Expire, LeaveLoop, Counted, Busy
    <3> QED
      BY <2>0, <2>4, <3>1 DEF Expire, LeaveLoop, CountersExact
  <2>5. CASE LastCheck(w) \/ WorkerFrees(w) \/ TouchFreed(w)
    <3>1. Counted' = Counted /\ Busy' = Busy /\ UNCHANGED countVars
      BY <2>5 DEF TypeOK, LastCheck, WorkerFrees, TouchFreed, Counted, Busy
    <3> QED
      BY <3>1, SameCounts
  <2> QED
    BY <1>1, <2>1, <2>2, <2>3, <2>4, <2>5 DEF Worker
<1>2. ASSUME NEW w \in Threads, Timeout(w) PROVE CountersExact'
  <2>1. Counted' = Counted /\ Busy' = Busy /\ UNCHANGED countVars
    BY <1>2 DEF TypeOK, Timeout, Counted, Busy
  <2> QED
    BY <2>1, SameCounts
<1>3. ASSUME NEW t \in Tasks, RunTask(t) PROVE CountersExact'
  <2>1. Counted' = Counted /\ Busy' = Busy /\ UNCHANGED countVars
    BY <1>3 DEF TypeOK, RunTask, AssignThread, Signal, CreateWorkerThread, Counted, Busy
  <2> QED
    BY <2>1, SameCounts
<1>4. CASE Stop \/ StopWake
  <2>1. Counted' = Counted /\ Busy' = Busy /\ UNCHANGED countVars
    BY <1>4 DEF TypeOK, Stop, StopWake, StopRound, WaitForIdle, StopNow, Awakened,
                Counted, Busy
  <2> QED
    BY <2>1, SameCounts
<1>5. CASE StopTimeout \/ Shutdown \/ DestroyCheck \/ DestroyerFrees
  <2>1. Counted' = Counted /\ Busy' = Busy /\ UNCHANGED countVars
    BY <1>5 DEF StopTimeout, Shutdown, DestroyCheck, DestroyerFrees, workerVars, Counted, Busy
  <2> QED
    BY <2>1, SameCounts
<1> QED
  BY <1>1, <1>2, <1>3, <1>4, <1>5 DEF Next

-----------------------------------------------------------------------------
(* Where the tasks are.  What TaskInOnePlace says when worker w has no task
   and the tasks of d are done. *)
OthersPlaced(w, d) ==
  /\ \A i, j \in DOMAIN taskList : taskList[i] = taskList[j] => i = j
  /\ \A v \in Busy \ {w} : task[v] \notin Queued \cup d
  /\ \A u, v \in Busy \ {w} : task[u] = task[v] => u = v
  /\ Queued \cap d = {}

\* The head of a list without repetitions is not in its tail.
LEMMA TakeHead ==
  ASSUME NEW S, NEW s \in Seq(S), s # <<>>,
         \A i, j \in DOMAIN s : s[i] = s[j] => i = j
  PROVE  /\ \A i, j \in DOMAIN Tail(s) : Tail(s)[i] = Tail(s)[j] => i = j
         /\ \A i \in DOMAIN Tail(s) : Tail(s)[i] # Head(s)
         /\ \A i \in DOMAIN Tail(s) : \E j \in DOMAIN s : Tail(s)[i] = s[j]
         /\ \E j \in DOMAIN s : Head(s) = s[j]
<1>1. /\ Len(s) \in Nat /\ Len(s) >= 1 /\ DOMAIN s = 1 .. Len(s)
      /\ DOMAIN Tail(s) = 1 .. Len(s) - 1
      /\ Head(s) = s[1]
      /\ \A i \in DOMAIN Tail(s) : Tail(s)[i] = s[i + 1]
  OBVIOUS
<1>2. \A i \in DOMAIN Tail(s) : i + 1 \in DOMAIN s /\ i + 1 # 1 /\ i \in Int
  BY <1>1
<1> QED
  BY <1>1, <1>2

\* Wherever a worker comes to, the loop leaves every task in one place.
LEMMA LoopPlaces ==
  ASSUME TypeOK, NEW w \in Threads, NEW n, NEW b, OthersPlaced(w, done'),
         Loop(w, n, b)
  PROVE  TaskInOnePlace'
<1>1. CASE DequeTask(w, n, b)
  <2>1. /\ \A i, j \in DOMAIN taskList' : taskList'[i] = taskList'[j] => i = j
        /\ Queued' \in SUBSET Queued
        /\ Head(taskList) \in Queued \ Queued'
    <3>1. taskList \in Seq(Tasks) /\ taskList # <<>> /\ taskList' = Tail(taskList)
      BY <1>1 DEF TypeOK, DequeTask
    <3>2. \A i, j \in DOMAIN taskList : taskList[i] = taskList[j] => i = j
      BY DEF OthersPlaced
    <3> QED
      BY <3>1, <3>2, TakeHead DEF Queued
  <2>2. /\ Busy' = (Busy \ {w}) \cup {w}
        /\ task'[w] = Head(taskList)
        /\ \A v \in Busy \ {w} : task'[v] = task[v]
    BY <1>1 DEF TypeOK, DequeTask, Busy
  <2>3. /\ \A v \in Busy' : task'[v] \notin Queued' \cup done'
        /\ Queued' \cap done' = {}
    BY <2>1, <2>2 DEF OthersPlaced
  <2>4. \A u, v \in Busy' : task'[u] = task'[v] => u = v
    BY <2>1, <2>2 DEF OthersPlaced
  <2> QED
    BY <2>1, <2>3, <2>4 DEF TaskInOnePlace
<1>2. CASE WaitForTask(w, n, b) \/ LeaveLoop(w, n, b)
  <2>1. Busy' = Busy \ {w} /\ Queued' = Queued /\ UNCHANGED <<task, taskList>>
    BY <1>2 DEF TypeOK, WaitForTask, LeaveLoop, Busy, Queued
  <2> QED
    BY <2>1 DEF OthersPlaced, TaskInOnePlace
<1> QED
  BY <1>1, <1>2 DEF Loop

\* A step that neither moves a task nor starts or ends one.
LEMMA SamePlaces ==
  ASSUME TaskInOnePlace, UNCHANGED <<task, taskVars>>, Busy' = Busy
  PROVE  TaskInOnePlace'
BY DEF TaskInOnePlace, taskVars, Queued

\* Every step of the pool leaves each task in one place.
LEMMA PlaceStep ==
  ASSUME TypeOK, TaskInOnePlace, Next
  PROVE  TaskInOnePlace'
<1>1. ASSUME NEW w \in Threads, Worker(w) PROVE TaskInOnePlace'
  <2>1. CASE Start(w) \/ Wake(w)
    <3>1. OthersPlaced(w, done')
      BY <2>1 DEF Start, Wake, OthersPlaced, TaskInOnePlace
    <3> QED
      BY <2>1, <3>1, LoopPlaces DEF Start, Wake
  <2>2. CASE Finish(w)
    <3>1. w \in Busy /\ done' = done \cup {task[w]}
      BY <2>2 DEF Finish, Busy
    <3>2. OthersPlaced(w, done')
      BY <3>1 DEF OthersPlaced, TaskInOnePlace
    <3> QED
      BY <2>2, <3>2, LoopPlaces DEF Finish
  <2>3. CASE Expire(w) \/ LastCheck(w) \/ WorkerFrees(w) \/ TouchFreed(w)
    <3>1. Busy' = Busy /\ UNCHANGED <<task, taskVars>>
      BY <2>3 DEF TypeOK, Expire, LeaveLoop, LastCheck, WorkerFrees, TouchFreed, Busy, taskVars
    <3> QED
      BY <3>1, SamePlaces
  <2> QED
    BY <1>1, <2>1, <2>2, <2>3 DEF Worker
<1>2. ASSUME NEW w \in Threads, Timeout(w) PROVE TaskInOnePlace'
  <2>1. Busy' = Busy /\ UNCHANGED <<task, taskVars>>
    BY <1>2 DEF TypeOK, Timeout, Busy
  <2> QED
    BY <2>1, SamePlaces
<1>3. ASSUME NEW t \in Tasks, RunTask(t) PROVE TaskInOnePlace'
  <2>1. Busy' = Busy /\ UNCHANGED <<task, done>>
    BY <1>3 DEF TypeOK, RunTask, AssignThread, Signal, CreateWorkerThread, Busy
  <2>2. /\ t \notin Queued /\ t \notin done
        /\ \A v \in Busy : task[v] # t
    BY <1>3 DEF RunTask, Submitted
  <2>3. /\ DOMAIN taskList = 1 .. Len(taskList) /\ Len(taskList) \in Nat
        /\ DOMAIN taskList' = 1 .. Len(taskList) + 1
        /\ taskList'[Len(taskList) + 1] = t
        /\ \A i \in DOMAIN taskList : taskList'[i] = taskList[i]
    BY <1>3 DEF TypeOK, RunTask
  <2>4. \A i \in DOMAIN taskList' : i \in DOMAIN taskList \/ i = Len(taskList) + 1
    BY <2>3
  <2>5. \A i \in DOMAIN taskList : taskList[i] # t
    BY <2>2 DEF Queued
  <2>6. Queued' = Queued \cup {t}
    BY <2>3, <2>4 DEF Queued
  <2>7. \A i, j \in DOMAIN taskList' : taskList'[i] = taskList'[j] => i = j
    BY <2>3, <2>4, <2>5 DEF TaskInOnePlace
  <2> QED
    BY <2>1, <2>2, <2>6, <2>7 DEF TaskInOnePlace
<1>4. CASE Stop \/ StopWake
  <2>1. Busy' = Busy /\ UNCHANGED <<task, taskVars>>
    BY <1>4 DEF TypeOK, Stop, StopWake, StopRound, WaitForIdle, StopNow, Awakened, Busy
  <2> QED
    BY <2>1, SamePlaces
<1>5. CASE StopTimeout \/ Shutdown \/ DestroyCheck \/ DestroyerFrees
  <2>1. Busy' = Busy /\ UNCHANGED <<task, taskVars>>
    BY <1>5 DEF StopTimeout, Shutdown, DestroyCheck, DestroyerFrees, workerVars, Busy
  <2> QED
    BY <2>1, SamePlaces
<1> QED
  BY <1>1, <1>2, <1>3, <1>4, <1>5 DEF Next

-----------------------------------------------------------------------------
(* The stopping protocol.                                                  *)

\* What rtThreadPool_TryRealDestroy tests: no worker is in its loop.
LEMMA CheckedMeansIdle ==
  ASSUME CountersExact
  PROVE  /\ threadCount = 0 => Counted = {}
         /\ busyThreadCount = 0 => Busy = {}
BY FiniteCounts, FS_EmptySet DEF CountersExact

\* Once the pool is stopped, a worker that goes through its loop leaves it.
LEMMA StoppedLoopLeaves ==
  ASSUME TypeOK, NEW w \in Threads, NEW n, NEW b, Loop(w, n, b), ~isRunning
  PROVE  pc' = [pc EXCEPT ![w] = "leaving"] /\ Counted' \in SUBSET Counted
BY DEF TypeOK, Loop, DequeTask, WaitForTask, LeaveLoop, Counted

\* A step of a worker changes none of the flags but pool, keeps what is done, and
\* leaves Counted empty once the pool is shut down.
LEMMA WorkerPhases ==
  ASSUME IInv, NEW w \in Threads, Worker(w) \/ Timeout(w)
  PROVE  StopPhases' /\ FreedOnlyWhenIdle'
<1> USE DEF IInv
<1>1. isShutdown => ~isRunning
  BY DEF StopPhases
<1>2. CASE Start(w) \/ Wake(w) \/ Finish(w)
  <2>1. \E n, b : Loop(w, n, b)
    BY <1>2 DEF Start, Wake, Finish
  <2>2. ~isRunning => pc' = [pc EXCEPT ![w] = "leaving"] /\ Counted' \in SUBSET Counted
    BY <2>1, StoppedLoopLeaves
  <2>3. /\ UNCHANGED <<flagVars, stopResult>>
        /\ stopPc' = stopPc \/ (stopPc = "idleWait" /\ stopPc' = "idleWoken")
    BY <1>2 DEF Start, Wake, Finish, stopVars
  <2>4. \A v \in Threads : pc'[v] = "freeing" => pc[v] = "freeing"
    BY <2>1 DEF TypeOK, WorkerStates, Loop, DequeTask, WaitForTask, LeaveLoop
  <2>5. Freeing' => Freeing
    BY <2>3, <2>4 DEF Freeing
  <2>6. Freeing => Counted' = {}
    BY <1>1, <2>2 DEF StopPhases
  <2>7. pool = "freed" => Counted' = {}
    BY <1>1, <2>2 DEF StopPhases, FreedOnlyWhenIdle
  <2> QED
    BY <2>3, <2>5, <2>6, <2>7 DEF StopPhases, FreedOnlyWhenIdle, flagVars
<1>3. CASE Expire(w) \/ TouchFreed(w) \/ Timeout(w)
  <2>1. /\ Counted' \in SUBSET Counted
        /\ UNCHANGED <<flagVars, stopVars>>
        /\ \A v \in Threads : pc'[v] = "freeing" => pc[v] = "freeing"
    BY <1>3 DEF TypeOK, Expire, LeaveLoop, TouchFreed, Timeout, Counted
  <2>2. Freeing' => Freeing
    BY <2>1 DEF Freeing, stopVars
  <2> QED
    BY <2>1, <2>2 DEF StopPhases, FreedOnlyWhenIdle, flagVars, stopVars
<1>4. CASE LastCheck(w)
  <2>1. /\ Counted' = Counted
        /\ UNCHANGED <<flagVars, stopVars>>
        /\ \A v \in Threads : pc'[v] = "freeing" => pc[v] = "freeing" \/ ShouldDestroy
    BY <1>4 DEF TypeOK, LastCheck, Counted
  <2>2. Freeing' => Freeing \/ ShouldDestroy
    BY <2>1 DEF Freeing, stopVars
  <2>3. ShouldDestroy => isShutdown /\ Counted = {}
    BY CheckedMeansIdle DEF ShouldDestroy
  <2> QED
    BY <2>1, <2>2, <2>3 DEF StopPhases, FreedOnlyWhenIdle, flagVars, stopVars
<1>5. CASE WorkerFrees(w)
  <2>1. /\ Counted' = Counted
        /\ UNCHANGED <<isRunning, isShutdown, stopVars>>
        /\ \A v \in Threads : pc'[v] = "freeing" => pc[v] = "freeing"
    BY <1>5 DEF TypeOK, WorkerFrees, Counted
  <2>2. Freeing /\ (Freeing' => Freeing)
    BY <1>5, <2>1 DEF WorkerFrees, Freeing, stopVars
  <2> QED
    BY <2>1, <2>2 DEF StopPhases, FreedOnlyWhenIdle, stopVars
<1> QED
  BY <1>2, <1>3, <1>4, <1>5 DEF Worker

\* RunTask wakes or creates a worker, which puts no worker into its loop.
LEMMA RunTaskPhases ==
  ASSUME IInv, NEW t \in Tasks, RunTask(t)
  PROVE  StopPhases' /\ FreedOnlyWhenIdle'
<1>1. /\ Counted' = Counted
      /\ UNCHANGED <<flagVars, stopVars>>
      /\ \A v \in Threads : pc'[v] = "freeing" => pc[v] = "freeing"
  BY DEF IInv, TypeOK, RunTask, AssignThread, Signal, CreateWorkerThread, Counted
<1>2. Freeing' => Freeing
  BY <1>1 DEF Freeing, stopVars
<1> QED
  BY <1>1, <1>2 DEF IInv, StopPhases, FreedOnlyWhenIdle, flagVars, stopVars

\* So do the steps of the thread that stops and destroys the pool.
LEMMA StopperPhases ==
  ASSUME IInv,
         Stop \/ StopWake \/ StopTimeout \/ Shutdown \/ DestroyCheck \/ DestroyerFrees
  PROVE  StopPhases' /\ FreedOnlyWhenIdle'
<1> USE DEF IInv
<1>1. CASE Stop \/ StopWake
  <2>1. /\ Counted' = Counted
        /\ UNCHANGED <<isShutdown, pool>>
        /\ \A v \in Threads : pc'[v] = "freeing" => pc[v] = "freeing"
    BY <1>1 DEF TypeOK, Stop, StopWake, StopRound, WaitForIdle, StopNow, Awakened, Counted
  <2>2. ~isShutdown /\ stopResult = "none" /\ stopPc \in {"none", "idleWoken"}
    BY <1>1 DEF StopPhases, Stop, StopWake
  <2>3. \/ stopPc' = "idleWait" /\ UNCHANGED <<isRunning, stopResult>>
        \/ stopPc' = "stopped" /\ isRunning' = FALSE
    BY <1>1 DEF Stop, StopWake, StopRound, WaitForIdle, StopNow
  <2>4. Freeing' => Freeing
    BY <2>1, <2>3 DEF Freeing
  <2> QED
    BY <2>1, <2>2, <2>3, <2>4 DEF StopPhases, FreedOnlyWhenIdle
<1>2. CASE StopTimeout \/ Shutdown
  <2>1. Counted' = Counted /\ UNCHANGED <<pc, isRunning, pool, stopResult>>
    BY <1>2 DEF StopTimeout, Shutdown, workerVars, flagVars, Counted
  <2>2. \/ stopPc = "idleWait" /\ stopPc' = "idleWoken" /\ UNCHANGED isShutdown
        \/ stopPc = "stopped" /\ stopPc' = "shutdown" /\ isShutdown' = TRUE
    BY <1>2 DEF StopTimeout, Shutdown, flagVars
  <2>3. Freeing' => Freeing
    BY <2>1, <2>2 DEF Freeing
  <2> QED
    BY <2>1, <2>2, <2>3 DEF StopPhases, FreedOnlyWhenIdle
<1>3. CASE DestroyCheck
  <2>1. Counted' = Counted /\ UNCHANGED <<pc, flagVars, stopResult>>
    BY <1>3 DEF DestroyCheck, workerVars, Counted
  <2>2. /\ stopPc = "shutdown" /\ stopPc' \in {"broken", "freeing", "returned"}
        /\ stopPc' = "freeing" => ShouldDestroy
    BY <1>3 DEF DestroyCheck
  <2>3. Freeing' => Freeing \/ ShouldDestroy
    BY <2>1, <2>2 DEF Freeing
  <2>4. ShouldDestroy => isShutdown /\ Counted = {}
    BY CheckedMeansIdle DEF ShouldDestroy
  <2> QED
    BY <2>1, <2>2, <2>3, <2>4 DEF StopPhases, FreedOnlyWhenIdle, flagVars
<1>4. CASE DestroyerFrees
  <2>1. Counted' = Counted /\ UNCHANGED <<pc, isRunning, isShutdown, stopResult>>
    BY <1>4 DEF DestroyerFrees, workerVars, Counted
  <2>2. stopPc = "freeing" /\ stopPc' \in {"broken", "returned"}
    BY <1>4 DEF DestroyerFrees
  <2>3. Freeing /\ (Freeing' => Freeing)
    BY <2>1, <2>2 DEF Freeing
  <2> QED
    BY <2>1, <2>2, <2>3 DEF StopPhases, FreedOnlyWhenIdle
<1> QED
  BY <1>1, <1>2, <1>3, <1>4

\* A stop that waited without limit and found no task left was given none that is
\* not done, and done tasks stay done.
LEMMA OkStep ==
  ASSUME IInv, Next
  PROVE  StopOkMeansDone'
<1> USE DEF IInv
<1>1. CASE Stop \/ StopWake
  <2>1. CASE WaitForIdle
    <3>1. stopResult = "none"
      BY <1>1 DEF StopPhases, Stop, StopWake
    <3> QED
      BY <2>1, <3>1 DEF WaitForIdle, StopOkMeansDone
  <2>2. CASE StopNow /\ (busyThreadCount = 0 \/ ~waitsForever')
    <3>1. SUFFICES ASSUME stopResult' = "OK", waitsForever' PROVE owed' \subseteq done'
      BY DEF StopOkMeansDone
    <3>2. Busy = {}
      BY <2>2, <3>1, CheckedMeansIdle
    <3>3. Queued = {}
      BY <2>2, <3>1 DEF StopNow, Queued, TypeOK
    <3>4. owed' = done
      BY <2>2, <3>2, <3>3 DEF StopNow, Submitted
    <3> QED
      BY <1>1, <3>4 DEF Stop, StopWake, taskVars
  <2> QED
    BY <1>1, <2>1, <2>2 DEF Stop, StopWake, StopRound
<1>2. ASSUME UNCHANGED <<waitsForever, stopResult, owed>>, done \subseteq done'
      PROVE  StopOkMeansDone'
  BY <1>2 DEF StopOkMeansDone
<1>3. ASSUME NEW w \in Threads, Worker(w) \/ Timeout(w) PROVE StopOkMeansDone'
  BY <1>2, <1>3 DEF Worker, Start, Wake, Finish, Expire, LastCheck, WorkerFrees, TouchFreed,
                    Timeout, taskVars, stopVars
<1>4. ASSUME NEW t \in Tasks, RunTask(t) PROVE StopOkMeansDone'
  BY <1>2, <1>4 DEF RunTask, stopVars
<1>5. CASE StopTimeout \/ Shutdown \/ DestroyCheck \/ DestroyerFrees
  BY <1>2, <1>5 DEF StopTimeout, Shutdown, DestroyCheck, DestroyerFrees, taskVars
<1> QED
  BY <1>1, <1>3, <1>4, <1>5 DEF Next

-----------------------------------------------------------------------------
(* The theorems.                                                           *)

\* The invariant is inductive.
LEMMA StepIInv == IInv /\ [Next]_vars => IInv'
<1> SUFFICES ASSUME IInv, [Next]_vars PROVE IInv'
  OBVIOUS
<1>1. CASE Next
  <2>1. CountersExact'
    BY <1>1, CountStep DEF IInv
  <2>2. TypeOK'
    BY <1>1, <2>1, ExactTypes, TypeStep DEF IInv
  <2>3. TaskInOnePlace'
    BY <1>1, PlaceStep DEF IInv
  <2>4. StopPhases' /\ FreedOnlyWhenIdle'
    BY <1>1, WorkerPhases, RunTaskPhases, StopperPhases DEF Next
  <2>5. StopOkMeansDone'
    BY <1>1, OkStep
  <2> QED
    BY <2>1, <2>2, <2>3, <2>4, <2>5 DEF IInv
<1>2. CASE UNCHANGED vars
  BY <1>2 DEF IInv, TypeOK, TaskInOnePlace, CountersExact, StopPhases, FreedOnlyWhenIdle,
              StopOkMeansDone, Freeing, Counted, Busy, Queued, vars, workerVars, taskVars,
              countVars, flagVars, stopVars
<1> QED
  BY <1>1, <1>2

\* Hence it holds in every state of every run.
LEMMA Invariance == Spec => []IInv
BY InitIInv, StepIInv, PTL DEF Spec

\* The pool's state is well typed in every run: no thread decrements an unsigned
\* counter below zero.
THEOREM TypeCorrect == Spec => []TypeOK
<1>1. IInv => TypeOK
  BY DEF IInv
<1> QED
  BY Invariance, <1>1, PTL

\* No task is lost, duplicated or run by two workers, whatever the interleaving
\* of RunTask, the workers and a stop.
THEOREM TasksInOnePlace == Spec => []TaskInOnePlace
<1>1. IInv => TaskInOnePlace
  BY DEF IInv
<1> QED
  BY Invariance, <1>1, PTL

\* threadCount and busyThreadCount count the workers in the loop and at work.
THEOREM CountersAreExact == Spec => []CountersExact
<1>1. IInv => CountersExact
  BY DEF IInv
<1> QED
  BY Invariance, <1>1, PTL

\* A stop that waits without limit and returns RT_OK leaves no task undone.
THEOREM StopOkCompletes == Spec => []StopOkMeansDone
<1>1. IInv => StopOkMeansDone
  BY DEF IInv
<1> QED
  BY Invariance, <1>1, PTL

\* The pool is not freed while a worker runs a task or waits in its loop.
THEOREM FreedWhenIdle == Spec => []FreedOnlyWhenIdle
<1>1. IInv => FreedOnlyWhenIdle
  BY DEF IInv
<1> QED
  BY Invariance, <1>1, PTL
=============================================================================
