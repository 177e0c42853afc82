----------------------------- MODULE ThreadPool -----------------------------
(***************************************************************************)
(* ThreadPool (thread_pool.cpp): a queue of tasks, worker threads that     *)
(* sleep on cv_, callers of wait_all that sleep on cv_done_, one mutex.    *)
(* A critical section of mu_ is one step; notify_one happens after mu_ is  *)
(* released, so it is a step of its own; std::condition_variable may wake  *)
(* a sleeper spuriously.  A task is named by the caller whose stack frame  *)
(* its lambda refers to (fuse_ops.cpp, cfs_read).                          *)
(***************************************************************************)
EXTENDS Naturals, Sequences, FiniteSets

CONSTANTS Workers,    \* the threads the constructor starts
          Callers,    \* the libfuse threads that run cfs_read
          MaxTasks,   \* bound: tasks enqueued by one call
          MaxCalls    \* bound: calls of one caller

ASSUME WorkersAssumption == IsFiniteSet(Workers) /\ Workers # {}
ASSUME CallersAssumption == IsFiniteSet(Callers)
ASSUME BoundsAssumption == MaxTasks \in Nat /\ MaxCalls \in Nat

VARIABLES tasks,      \* tasks_: the queue, a sequence of owners
          active,     \* active_
          stop,       \* stop_
          worker,     \* worker[w]: where worker w is in its loop
          running,    \* running[w]: owner of the task w popped last
          caller,     \* caller[c]: where c is in cfs_read's use of the pool
          left,       \* left[c]: tasks c has still to enqueue
          calls,      \* calls[c]: how often c used the pool
          owner       \* the thread that owns the pool and deletes it

vars == <<tasks, active, stop, worker, running, caller, left, calls, owner>>

WorkerState == {"ready",      \* about to take mu_ and test the predicate
                "asleep",     \* in cv_.wait
                "running",    \* in task()
                "ran",        \* about to take mu_ and decrement active_
                "exited"}
CallerState == {"idle", "pushing", "notifying", "waiting", "asleep"}
OwnerState  == {"live", "notifying", "joining", "deleted"}

TypeOK == /\ tasks \in Seq(Callers)
          /\ active \in 0 .. Cardinality(Workers)
          /\ stop \in BOOLEAN
          /\ worker \in [Workers -> WorkerState]
          /\ running \in [Workers -> Callers \cup {"none"}]
          /\ caller \in [Callers -> CallerState]
          /\ left \in [Callers -> 0 .. MaxTasks]
          /\ calls \in [Callers -> 0 .. MaxCalls]
          /\ owner \in OwnerState

Init == /\ tasks = <<>>
        /\ active = 0
        /\ stop = FALSE
        /\ worker = [w \in Workers |-> "ready"]
        /\ running = [w \in Workers |-> "none"]
        /\ caller = [c \in Callers |-> "idle"]
        /\ left = [c \in Callers |-> 0]
        /\ calls = [c \in Callers |-> 0]
        /\ owner = "live"

-----------------------------------------------------------------------------
(* Workers *)

\* The worker holds mu_ and its wait predicate is false: it sleeps.
Sleep(w) ==
  /\ worker[w] = "ready" /\ ~stop /\ tasks = <<>>
  /\ worker' = [worker EXCEPT ![w] = "asleep"]
  /\ UNCHANGED <<tasks, active, stop, running, caller, left, calls, owner>>

\* The stop branch: the queue is drained before a worker exits.
Exit(w) ==
  /\ worker[w] = "ready" /\ stop /\ tasks = <<>>
  /\ worker' = [worker EXCEPT ![w] = "exited"]
  /\ UNCHANGED <<tasks, active, stop, running, caller, left, calls, owner>>

\* Mutant of Pop: the popped task is not counted.
PopUncounted(w) ==
  /\ worker[w] = "ready" /\ tasks # <<>>
  /\ worker' = [worker EXCEPT ![w] = "running"]
  /\ running' = [running EXCEPT ![w] = Head(tasks)]
  /\ tasks' = Tail(tasks)
  /\ UNCHANGED <<active, stop, caller, left, calls, owner>>

Pop(w) ==
  /\ worker[w] = "ready" /\ tasks # <<>>
  /\ worker' = [worker EXCEPT ![w] = "running"]
  /\ running' = [running EXCEPT ![w] = Head(tasks)]
  /\ tasks' = Tail(tasks)
  /\ active' = active + 1
  /\ UNCHANGED <<stop, caller, left, calls, owner>>

\* Mutant of RunTask: a task that ends is already taken off active_ before mu_ is held again.
RunTaskAndCount(w) ==
  /\ worker[w] = "running"
  /\ worker' = [worker EXCEPT ![w] = "ran"]
  /\ active' = active - 1
  /\ UNCHANGED <<tasks, stop, running, caller, left, calls, owner>>

RunTask(w) ==
  /\ worker[w] = "running"
  /\ worker' = [worker EXCEPT ![w] = "ran"]
  /\ UNCHANGED <<tasks, active, stop, running, caller, left, calls, owner>>

\* Mutant of WakeCallers: only one of the callers is notified.
WakeOneCaller ==
  IF \A c \in Callers : caller[c] # "asleep" THEN caller
  ELSE [caller EXCEPT ![CHOOSE c \in Callers : caller[c] = "asleep"] = "waiting"]

\* The worker that leaves the pool quiescent wakes every caller of wait_all.
WakeCallers == [c \in Callers |-> IF caller[c] = "asleep" THEN "waiting" ELSE caller[c]]

Finish(w) ==
  /\ worker[w] = "ran"
  /\ active' = active - 1
  /\ worker' = [worker EXCEPT ![w] = "ready"]
  /\ running' = [running EXCEPT ![w] = "none"]
  /\ caller' = IF tasks = <<>> /\ active' = 0 THEN WakeCallers ELSE caller
  /\ UNCHANGED <<tasks, stop, left, calls, owner>>

SpuriousWake(w) ==
  /\ worker[w] = "asleep"
  /\ worker' = [worker EXCEPT ![w] = "ready"]
  /\ UNCHANGED <<tasks, active, stop, running, caller, left, calls, owner>>

-----------------------------------------------------------------------------
(* Callers: cfs_read enqueues one task per chunk and then calls wait_all *)

BeginCall(c) ==
  /\ caller[c] = "idle" /\ owner = "live" /\ calls[c] < MaxCalls
  /\ \E n \in 1 .. MaxTasks : left' = [left EXCEPT ![c] = n]
  /\ calls' = [calls EXCEPT ![c] = @ + 1]
  /\ caller' = [caller EXCEPT ![c] = "pushing"]
  /\ UNCHANGED <<tasks, active, stop, worker, running, owner>>

Push(c) ==
  /\ caller[c] = "pushing" /\ left[c] > 0
  /\ tasks' = Append(tasks, c)
  /\ left' = [left EXCEPT ![c] = @ - 1]
  /\ caller' = [caller EXCEPT ![c] = "notifying"]
  /\ UNCHANGED <<active, stop, worker, running, calls, owner>>

NotifyOne(c) ==
  /\ caller[c] = "notifying"
  /\ caller' = [caller EXCEPT ![c] = IF left[c] = 0 THEN "waiting" ELSE "pushing"]
  /\ \/ \E w \in Workers : /\ worker[w] = "asleep"
                           /\ worker' = [worker EXCEPT ![w] = "ready"]
     \/ /\ \A w \in Workers : worker[w] # "asleep"
        /\ UNCHANGED worker
  /\ UNCHANGED <<tasks, active, stop, running, left, calls, owner>>

\* Mutant of Quiescent: tasks that a worker has popped are not waited for.
QueueEmpty == tasks = <<>>

\* wait_all holds mu_ and evaluates its predicate.
Quiescent == tasks = <<>> /\ active = 0

\* Mutant of ReturnFromWait: the predicate is not evaluated again after a wake-up.
ReturnUnchecked(c) ==
  /\ caller[c] = "waiting"
  /\ caller' = [caller EXCEPT ![c] = "idle"]
  /\ UNCHANGED <<tasks, active, stop, worker, running, left, calls, owner>>

ReturnFromWait(c) ==
  /\ caller[c] = "waiting" /\ Quiescent
  /\ caller' = [caller EXCEPT ![c] = "idle"]
  /\ UNCHANGED <<tasks, active, stop, worker, running, left, calls, owner>>

SleepInWait(c) ==
  /\ caller[c] = "waiting" /\ ~Quiescent
  /\ caller' = [caller EXCEPT ![c] = "asleep"]
  /\ UNCHANGED <<tasks, active, stop, worker, running, left, calls, owner>>

SpuriousReturn(c) ==
  /\ caller[c] = "asleep"
  /\ caller' = [caller EXCEPT ![c] = "waiting"]
  /\ UNCHANGED <<tasks, active, stop, worker, running, left, calls, owner>>

-----------------------------------------------------------------------------
(* ~ThreadPool, run by the destroy callback once every handler has returned *)

SetStop ==
  /\ owner = "live" /\ \A c \in Callers : caller[c] = "idle"
  /\ stop' = TRUE
  /\ owner' = "notifying"
  /\ UNCHANGED <<tasks, active, worker, running, caller, left, calls>>

\* Mutant of NotifyAll: the destructor wakes one worker only.
NotifyFirst ==
  /\ owner = "notifying"
  /\ \/ \E w \in Workers : worker[w] = "asleep" /\ worker' = [worker EXCEPT ![w] = "ready"]
     \/ (\A w \in Workers : worker[w] # "asleep") /\ UNCHANGED worker
  /\ owner' = "joining"
  /\ UNCHANGED <<tasks, active, stop, running, caller, left, calls>>

NotifyAll ==
  /\ owner = "notifying"
  /\ worker' = [w \in Workers |-> IF worker[w] = "asleep" THEN "ready" ELSE worker[w]]
  /\ owner' = "joining"
  /\ UNCHANGED <<tasks, active, stop, running, caller, left, calls>>

Join ==
  /\ owner = "joining" /\ \A w \in Workers : worker[w] = "exited"
  /\ owner' = "deleted"
  /\ UNCHANGED <<tasks, active, stop, worker, running, caller, left, calls>>

Terminated == owner = "deleted" /\ UNCHANGED vars

-----------------------------------------------------------------------------
WorkerStep(w) == Sleep(w) \/ Exit(w) \/ Pop(w) \/ RunTask(w) \/ Finish(w)
CallerStep(c) == Push(c) \/ NotifyOne(c) \/ ReturnFromWait(c) \/ SleepInWait(c)
OwnerStep     == SetStop \/ NotifyAll \/ Join
Spurious      == (\E w \in Workers : SpuriousWake(w)) \/ (\E c \in Callers : SpuriousReturn(c))

Next == \/ \E w \in Workers : WorkerStep(w)
        \/ \E c \in Callers : BeginCall(c) \/ CallerStep(c)
        \/ OwnerStep
        \/ Spurious
        \/ Terminated

(* Every thread that can run eventually does, and a task terminates; no
   fairness is given to new calls, to the unmount, or to spurious wake-ups. *)
Fairness == /\ \A w \in Workers : WF_vars(WorkerStep(w))
            /\ \A c \in Callers : WF_vars(CallerStep(c))
            /\ WF_vars(NotifyAll) /\ WF_vars(Join)

Spec == Init /\ [][Next]_vars
FairSpec == Spec /\ Fairness

-----------------------------------------------------------------------------
(* Properties *)

\* The workers between popping a task and reporting it finished.
Busy == {w \in Workers : worker[w] \in {"running", "ran"}}

\* A caller that is back from wait_all (its cfs_read frame, which the tasks
\* captured by reference, is gone) has no task queued or in a worker.
FrameSafe ==
  \A c \in Callers : caller[c] = "idle" =>
    /\ \A i \in 1 .. Len(tasks) : tasks[i] # c
    /\ \A w \in Busy : running[w] # c

\* active_ is the number of workers that hold a popped task, which is what wait_all's predicate takes it for.
ActiveCounts == active = Cardinality(Busy)

\* Every cfs_read that entered the pool returns from wait_all, although the
\* wake-ups of cv_ and cv_done_ race with the predicates.
WaitReturns == \A c \in Callers : caller[c] # "idle" ~> caller[c] = "idle"

\* Once the unmount sets stop_, the destructor joins every worker and returns.
DestroyReturns == owner = "notifying" ~> owner = "deleted"

\* Each step is one of the abstract pool's: tasks outstanding for a caller are
\* those queued and those a worker has not yet reported finished.
Outstanding(c) ==
  Cardinality({i \in 1 .. Len(tasks) : tasks[i] = c})
    + Cardinality({w \in Busy : running[w] = c})

Abstract == INSTANCE TaskPool WITH outstanding <- [c \in Callers |-> Outstanding(c)],
                                   inside <- {c \in Callers : caller[c] # "idle"}

AbstractSpec == Abstract!Spec
=============================================================================
