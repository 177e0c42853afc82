-------------------------- MODULE ThreadPoolProofs --------------------------
(* Proofs about ThreadPool, for every finite set of workers and callers and *)
(* every bound on calls and tasks.                                          *)
EXTENDS ThreadPool, FiniteSetTheorems, FunctionTheorems, TLAPS

\* wait_all's predicate reads active_, so FrameSafe is inductive only together
\* with what active_ counts.
IInv == TypeOK /\ ActiveCounts /\ FrameSafe

-----------------------------------------------------------------------------
\* The busy workers form a finite set no larger than Workers.
LEMMA BusyFinite ==
  IsFiniteSet(Busy) /\ Cardinality(Busy) \in Nat /\ Cardinality(Busy) <= Cardinality(Workers)
<1>1. Busy \subseteq Workers
  BY DEF Busy
<1>2. QED
  BY <1>1, WorkersAssumption, FS_Subset, FS_CardinalityType

\* A step in which worker w becomes busy adds one to the count.
LEMMA BusyGrows ==
  ASSUME TypeOK, NEW w \in Workers, worker[w] \notin {"running", "ran"},
         NEW s \in {"running", "ran"}, worker' = [worker EXCEPT ![w] = s]
  PROVE  Cardinality(Busy') = Cardinality(Busy) + 1
<1>1. Busy' = Busy \cup {w} /\ w \notin Busy
  BY DEF Busy, TypeOK
<1>2. QED
  BY <1>1, BusyFinite, FS_AddElement

\* A step in which worker w stops being busy takes one from the count.
LEMMA BusyShrinks ==
  ASSUME TypeOK, NEW w \in Workers, worker[w] \in {"running", "ran"},
         NEW s \in WorkerState \ {"running", "ran"}, worker' = [worker EXCEPT ![w] = s]
  PROVE  Cardinality(Busy') = Cardinality(Busy) - 1
<1>1. Busy' = Busy \ {w} /\ w \in Busy
  BY DEF Busy, TypeOK
<1>2. QED
  BY <1>1, BusyFinite, FS_RemoveElement

-----------------------------------------------------------------------------
LEMMA InitIInv == Init => IInv
<1> SUFFICES ASSUME Init PROVE IInv
  OBVIOUS
<1>1. Cardinality(Workers) \in Nat
  BY WorkersAssumption, FS_CardinalityType
<1>2. TypeOK
  <2>1. 0 \in 0 .. Cardinality(Workers) /\ 0 \in 0 .. MaxTasks /\ 0 \in 0 .. MaxCalls
    BY <1>1, BoundsAssumption
  <2>2. tasks \in Seq(Callers)
    BY DEF Init
  <2>3. QED
    BY <2>1, <2>2 DEF Init, TypeOK, WorkerState, CallerState, OwnerState
<1>3. Busy = {}
  BY DEF Init, Busy
<1>4. ActiveCounts
  BY <1>3, FS_EmptySet DEF Init, ActiveCounts
<1>5. FrameSafe
  BY <1>3 DEF Init, FrameSafe
<1>6. QED
  BY <1>2, <1>4, <1>5 DEF IInv

LEMMA NextTypeOK == IInv /\ [Next]_vars => TypeOK'
<1> SUFFICES ASSUME IInv, [Next]_vars PROVE TypeOK'
  OBVIOUS
<1> USE BoundsAssumption DEF IInv, TypeOK, WorkerState, CallerState, OwnerState
<1>0. Cardinality(Workers) \in Nat
  BY WorkersAssumption, FS_CardinalityType
<1>1. ASSUME NEW w \in Workers, WorkerStep(w) PROVE TypeOK'
  <2>1. CASE Sleep(w)
    BY <2>1 DEF Sleep
  <2>2. CASE Exit(w)
    BY <2>2 DEF Exit
  <2>3. CASE Pop(w)
    <3>1. Cardinality(Busy') = active + 1
      BY <2>3, BusyGrows DEF Pop, ActiveCounts
    <3>2. active + 1 \in 0 .. Cardinality(Workers)
      <4>1. Busy' \subseteq Workers
        BY <2>3 DEF Busy, Pop
      <4>2. Cardinality(Busy') <= Cardinality(Workers)
        BY <4>1, WorkersAssumption, FS_Subset
      <4>3. QED
        BY <3>1, <4>2, <1>0
    <3>3. Head(tasks) \in Callers /\ Tail(tasks) \in Seq(Callers)
      BY <2>3 DEF Pop
    <3>4. QED
      BY <2>3, <3>2, <3>3 DEF Pop
  <2>4. CASE RunTask(w)
    BY <2>4 DEF RunTask
  <2>5. CASE Finish(w)
    <3>1. w \in Busy
      BY <2>5 DEF Busy, Finish
    <3>2. active # 0
      BY <3>1, BusyFinite, FS_EmptySet DEF ActiveCounts
    <3>3. active - 1 \in 0 .. Cardinality(Workers)
      BY <3>2, <1>0
    <3>4. caller' \in [Callers -> CallerState]
      BY <2>5 DEF Finish, WakeCallers
    <3>5. QED
      BY <2>5, <3>3, <3>4 DEF Finish
  <2>6. QED
    BY <1>1, <2>1, <2>2, <2>3, <2>4, <2>5 DEF WorkerStep
<1>2. ASSUME NEW c \in Callers, BeginCall(c) PROVE TypeOK'
  <2>1. calls[c] + 1 \in 0 .. MaxCalls
    BY <1>2 DEF BeginCall
  <2>2. PICK n \in 1 .. MaxTasks : left' = [left EXCEPT ![c] = n]
    BY <1>2 DEF BeginCall
  <2>3. QED
    BY <1>2, <2>1, <2>2 DEF BeginCall
<1>3. ASSUME NEW c \in Callers, CallerStep(c) PROVE TypeOK'
  <2>1. CASE Push(c)
    BY <2>1 DEF Push
  <2>2. CASE NotifyOne(c)
    BY <2>2 DEF NotifyOne
  <2>3. CASE ReturnFromWait(c)
    BY <2>3 DEF ReturnFromWait
  <2>4. CASE SleepInWait(c)
    BY <2>4 DEF SleepInWait
  <2>5. QED
    BY <1>3, <2>1, <2>2, <2>3, <2>4 DEF CallerStep
<1>4. CASE OwnerStep
  BY <1>4 DEF OwnerStep, SetStop, NotifyAll, Join
<1>5. CASE Spurious
  BY <1>5 DEF Spurious, SpuriousWake, SpuriousReturn
<1>6. CASE Terminated \/ UNCHANGED vars
  BY <1>6 DEF Terminated, vars
<1>7. QED
  BY <1>1, <1>2, <1>3, <1>4, <1>5, <1>6 DEF Next

LEMMA NextActiveCounts == IInv /\ [Next]_vars => ActiveCounts'
<1> SUFFICES ASSUME IInv, [Next]_vars PROVE ActiveCounts'
  OBVIOUS
<1> USE DEF IInv, WorkerState
<1>0. TypeOK' /\ active \in Nat /\ active = Cardinality(Busy)
  BY NextTypeOK DEF TypeOK, ActiveCounts
<1>1. ASSUME Busy' = Busy, active' = active PROVE ActiveCounts'
  BY <1>0, <1>1 DEF ActiveCounts
<1>2. ASSUME NEW w \in Workers, Pop(w) PROVE ActiveCounts'
  <2>1. Cardinality(Busy') = Cardinality(Busy) + 1
    BY <1>2, BusyGrows DEF Pop
  <2>2. QED
    BY <1>0, <1>2, <2>1 DEF Pop, ActiveCounts
<1>3. ASSUME NEW w \in Workers, Finish(w) PROVE ActiveCounts'
  <2>1. Cardinality(Busy') = Cardinality(Busy) - 1
    BY <1>3, BusyShrinks DEF Finish
  <2>2. QED
    BY <1>0, <1>3, <2>1 DEF Finish, ActiveCounts
<1>4. ASSUME NEW w \in Workers, Sleep(w) \/ Exit(w) \/ RunTask(w) \/ SpuriousWake(w)
      PROVE  ActiveCounts'
  <2>1. Busy' = Busy /\ active' = active
    BY <1>4 DEF Busy, TypeOK, Sleep, Exit, RunTask, SpuriousWake
  <2>2. QED
    BY <2>1, <1>1
<1>5. ASSUME NEW c \in Callers, BeginCall(c) \/ CallerStep(c) \/ SpuriousReturn(c)
      PROVE  ActiveCounts'
  <2>1. Busy' = Busy /\ active' = active
    BY <1>5 DEF Busy, TypeOK, BeginCall, CallerStep, Push, NotifyOne, ReturnFromWait,
                SleepInWait, SpuriousReturn
  <2>2. QED
    BY <2>1, <1>1
<1>6. CASE OwnerStep
  <2>1. Busy' = Busy /\ active' = active
    BY <1>6 DEF Busy, TypeOK, OwnerStep, SetStop, NotifyAll, Join
  <2>2. QED
    BY <2>1, <1>1
<1>7. CASE Terminated \/ UNCHANGED vars
  BY <1>1, <1>7 DEF Terminated, vars, Busy
<1>8. QED
  BY <1>2, <1>3, <1>4, <1>5, <1>6, <1>7 DEF Next, WorkerStep, Spurious

LEMMA NextFrameSafe == IInv /\ [Next]_vars => FrameSafe'
<1> SUFFICES ASSUME IInv, [Next]_vars, NEW c \in Callers, caller'[c] = "idle"
             PROVE  /\ \A i \in 1 .. Len(tasks') : tasks'[i] # c
                    /\ \A w \in Busy' : running'[w] # c
  BY DEF FrameSafe
<1> USE DEF IInv, TypeOK, Busy
<1>1. ASSUME caller[c] = "idle", UNCHANGED <<tasks, running>>, Busy' = Busy
      PROVE  /\ \A i \in 1 .. Len(tasks') : tasks'[i] # c
             /\ \A w \in Busy' : running'[w] # c
  BY <1>1 DEF FrameSafe
<1>2. ASSUME NEW w \in Workers, Pop(w)
      PROVE  /\ \A i \in 1 .. Len(tasks') : tasks'[i] # c
             /\ \A v \in Busy' : running'[v] # c
  <2>1. caller[c] = "idle"
    BY <1>2 DEF Pop
  <2>2. tasks # <<>> /\ Head(tasks) = tasks[1] /\ 1 \in 1 .. Len(tasks)
    BY <1>2 DEF Pop
  <2>3. Head(tasks) # c
    BY <2>1, <2>2 DEF FrameSafe
  <2>4. \A i \in 1 .. Len(Tail(tasks)) : Tail(tasks)[i] # c
    BY <2>1, <2>2 DEF FrameSafe
  <2>5. \A v \in Busy' : running'[v] # c
    BY <1>2, <2>1, <2>3 DEF Pop, FrameSafe
  <2>6. QED
    BY <1>2, <2>4, <2>5 DEF Pop
<1>3. ASSUME NEW w \in Workers, Finish(w)
      PROVE  /\ \A i \in 1 .. Len(tasks') : tasks'[i] # c
             /\ \A v \in Busy' : running'[v] # c
  <2>1. caller[c] = "idle"
    BY <1>3 DEF Finish, WakeCallers
  <2>2. \A v \in Busy' : v \in Busy /\ running'[v] = running[v]
    BY <1>3 DEF Finish
  <2>3. QED
    BY <1>3, <2>1, <2>2 DEF Finish, FrameSafe
<1>4. ASSUME NEW w \in Workers, Sleep(w) \/ Exit(w) \/ RunTask(w) \/ SpuriousWake(w)
      PROVE  caller[c] = "idle" /\ UNCHANGED <<tasks, running>> /\ Busy' = Busy
  BY <1>4 DEF Sleep, Exit, RunTask, SpuriousWake
<1>5. ASSUME NEW d \in Callers, Push(d)
      PROVE  /\ \A i \in 1 .. Len(tasks') : tasks'[i] # c
             /\ \A w \in Busy' : running'[w] # c
  <2>1. d # c /\ caller[c] = "idle"
    BY <1>5 DEF Push
  <2>2. \A i \in 1 .. Len(tasks') : tasks'[i] = d \/ \E j \in 1 .. Len(tasks) : tasks'[i] = tasks[j]
    BY <1>5 DEF Push
  <2>3. Busy' = Busy /\ running' = running
    BY <1>5 DEF Push
  <2>4. QED
    BY <2>1, <2>2, <2>3 DEF FrameSafe
<1>6. ASSUME NEW d \in Callers, ReturnFromWait(d)
      PROVE  /\ \A i \in 1 .. Len(tasks') : tasks'[i] # c
             /\ \A w \in Busy' : running'[w] # c
  <2>1. Busy = {}
    BY <1>6, BusyFinite, FS_EmptySet DEF ReturnFromWait, Quiescent, ActiveCounts
  <2>2. Len(tasks') = 0 /\ Busy' = Busy
    BY <1>6 DEF ReturnFromWait, Quiescent
  <2>3. QED
    BY <2>1, <2>2
<1>7. ASSUME NEW d \in Callers, BeginCall(d) \/ NotifyOne(d) \/ SleepInWait(d) \/ SpuriousReturn(d)
      PROVE  caller[c] = "idle" /\ UNCHANGED <<tasks, running>> /\ Busy' = Busy
  BY <1>7 DEF BeginCall, NotifyOne, SleepInWait, SpuriousReturn
<1>8. CASE OwnerStep
  <2>1. caller[c] = "idle" /\ UNCHANGED <<tasks, running>> /\ Busy' = Busy
    BY <1>8 DEF OwnerStep, SetStop, NotifyAll, Join
  <2>2. QED
    BY <2>1, <1>1
<1>9. CASE Terminated \/ UNCHANGED vars
  BY <1>1, <1>9 DEF Terminated, vars
<1>10. QED
  BY <1>1, <1>2, <1>3, <1>4, <1>5, <1>6, <1>7, <1>8, <1>9
  DEF Next, WorkerStep, CallerStep, Spurious

-----------------------------------------------------------------------------
\* The pool's variables keep their types, whatever the numbers of workers,
\* callers, tasks and calls.
THEOREM TypeCorrect == Spec => []TypeOK
<1>1. IInv /\ [Next]_vars => IInv'
  BY NextTypeOK, NextActiveCounts, NextFrameSafe DEF IInv
<1>2. IInv => TypeOK
  BY DEF IInv
<1>3. QED
  BY InitIInv, <1>1, <1>2, PTL DEF Spec

\* active_ always equals the number of workers that hold a popped task, so
\* wait_all's predicate means what it is used for.
THEOREM ActiveCountsHolds == Spec => []ActiveCounts
<1>1. IInv /\ [Next]_vars => IInv'
  BY NextTypeOK, NextActiveCounts, NextFrameSafe DEF IInv
<1>2. IInv => ActiveCounts
  BY DEF IInv
<1>3. QED
  BY InitIInv, <1>1, <1>2, PTL DEF Spec

\* No task is queued or running for a caller that is not inside the pool: the
\* lambdas that capture cfs_read's frame by reference never outlive it.
THEOREM FrameSafeHolds == Spec => []FrameSafe
<1>1. IInv /\ [Next]_vars => IInv'
  BY NextTypeOK, NextActiveCounts, NextFrameSafe DEF IInv
<1>2. IInv => FrameSafe
  BY DEF IInv
<1>3. QED
  BY InitIInv, <1>1, <1>2, PTL DEF Spec

-----------------------------------------------------------------------------
(* The refinement of TaskPool.  A busy worker's task belongs to some caller;   *)
(* Outstanding is split into what is queued and what workers hold.             *)

RunningOwned == \A w \in Busy : running[w] \in Callers

Positions(s, c) == {i \in 1 .. Len(s) : s[i] = c}
InWorkers(c) == {w \in Busy : running[w] = c}

LEMMA PositionsFinite ==
  ASSUME NEW S, NEW s \in Seq(S), NEW c
  PROVE  IsFiniteSet(Positions(s, c)) /\ Cardinality(Positions(s, c)) \in Nat
<1>1. IsFiniteSet(1 .. Len(s)) /\ Positions(s, c) \subseteq 1 .. Len(s)
  BY FS_Interval DEF Positions
<1>2. QED
  BY <1>1, FS_Subset, FS_CardinalityType

\* Appending an element adds one to its own count and to no other.
LEMMA PositionsAppend ==
  ASSUME NEW S, NEW s \in Seq(S), NEW e \in S, NEW c
  PROVE  Cardinality(Positions(Append(s, e), c)) =
           Cardinality(Positions(s, c)) + (IF e = c THEN 1 ELSE 0)
<1>1. Len(s) + 1 \notin Positions(s, c)
  BY DEF Positions
<1>2. CASE e = c
  <2>1. Positions(Append(s, e), c) = Positions(s, c) \cup {Len(s) + 1}
    BY <1>2 DEF Positions
  <2>2. QED
    BY <1>1, <1>2, <2>1, PositionsFinite, FS_AddElement
<1>3. CASE e # c
  <2>1. Positions(Append(s, e), c) = Positions(s, c)
    BY <1>3 DEF Positions
  <2>2. QED
    BY <1>3, <2>1, PositionsFinite
<1>4. QED
  BY <1>2, <1>3

\* Removing the head takes one from its own count and from no other.
LEMMA PositionsTail ==
  ASSUME NEW S, NEW s \in Seq(S), s # <<>>, NEW c
  PROVE  Cardinality(Positions(Tail(s), c)) =
           Cardinality(Positions(s, c)) - (IF Head(s) = c THEN 1 ELSE 0)
<1> DEFINE rest == Positions(s, c) \ {1}
           shift == [i \in Positions(Tail(s), c) |-> i + 1]
<1>1. /\ Tail(s) \in Seq(S) /\ Len(Tail(s)) = Len(s) - 1 /\ Len(s) \in Nat
      /\ \A i \in 1 .. Len(Tail(s)) : Tail(s)[i] = s[i + 1]
      /\ Head(s) = s[1] /\ 1 \in 1 .. Len(s)
  OBVIOUS
<1>2. shift \in Bijection(Positions(Tail(s), c), rest)
  <2>1. shift \in [Positions(Tail(s), c) -> rest]
    BY <1>1 DEF Positions
  <2>2. \A i, j \in Positions(Tail(s), c) : shift[i] = shift[j] => i = j
    BY <1>1 DEF Positions
  <2>3. ASSUME NEW k \in rest PROVE \E i \in Positions(Tail(s), c) : shift[i] = k
    <3>1. k \in 2 .. Len(s) /\ s[k] = c
      BY <1>1 DEF Positions
    <3>2. k - 1 \in 1 .. Len(Tail(s)) /\ (k - 1) + 1 = k
      BY <1>1, <3>1
    <3>3. k - 1 \in Positions(Tail(s), c)
      BY <1>1, <3>1, <3>2 DEF Positions
    <3>4. QED
      BY <3>2, <3>3
  <2>4. QED
    BY <2>1, <2>2, <2>3, Fun_IsBij
<1>3. Cardinality(rest) = Cardinality(Positions(Tail(s), c))
  <2>1. ExistsBijection(Positions(Tail(s), c), rest)
    BY <1>2 DEF ExistsBijection
  <2>2. IsFiniteSet(Positions(Tail(s), c))
    BY <1>1, PositionsFinite
  <2> HIDE DEF rest, shift
  <2>3. QED
    BY <2>1, <2>2, FS_Bijection
<1>4. 1 \in Positions(s, c) <=> Head(s) = c
  BY <1>1 DEF Positions
<1>5. IsFiniteSet(Positions(s, c)) /\ Cardinality(Positions(s, c)) \in Nat
  BY PositionsFinite
<1>6. Cardinality(rest) = IF 1 \in Positions(s, c) THEN Cardinality(Positions(s, c)) - 1
                                                   ELSE Cardinality(Positions(s, c))
  BY <1>5, FS_RemoveElement
<1>7. QED
  BY <1>3, <1>4, <1>5, <1>6

LEMMA InWorkersFinite ==
  ASSUME NEW c PROVE IsFiniteSet(InWorkers(c)) /\ Cardinality(InWorkers(c)) \in Nat
<1>1. InWorkers(c) \subseteq Busy
  BY DEF InWorkers
<1>2. QED
  BY <1>1, BusyFinite, FS_Subset, FS_CardinalityType

LEMMA OutstandingSplit ==
  ASSUME TypeOK, NEW c
  PROVE  /\ Outstanding(c) = Cardinality(Positions(tasks, c)) + Cardinality(InWorkers(c))
         /\ Outstanding(c) \in Nat
<1>1. Outstanding(c) = Cardinality(Positions(tasks, c)) + Cardinality(InWorkers(c))
  BY DEF Outstanding, Positions, InWorkers
<1>2. Cardinality(Positions(tasks, c)) \in Nat
  BY PositionsFinite DEF TypeOK
<1>3. QED
  BY <1>1, <1>2, InWorkersFinite

LEMMA InitRunningOwned == Init => RunningOwned
BY DEF Init, RunningOwned, Busy

LEMMA NextRunningOwned == TypeOK /\ RunningOwned /\ [Next]_vars => RunningOwned'
<1> SUFFICES ASSUME TypeOK, RunningOwned, [Next]_vars, NEW w \in Busy' PROVE running'[w] \in Callers
  BY DEF RunningOwned
<1> USE DEF RunningOwned, TypeOK, Busy
<1>1. ASSUME NEW v \in Workers, Pop(v) PROVE running'[w] \in Callers
  <2>1. Head(tasks) \in Callers
    BY <1>1 DEF Pop
  <2>2. QED
    BY <1>1, <2>1 DEF Pop
<1>2. ASSUME NEW v \in Workers, Finish(v) PROVE running'[w] \in Callers
  BY <1>2 DEF Finish
<1>3. ASSUME NEW v \in Workers, Sleep(v) \/ Exit(v) \/ RunTask(v) \/ SpuriousWake(v)
      PROVE  running'[w] \in Callers
  BY <1>3 DEF Sleep, Exit, RunTask, SpuriousWake
<1>4. ASSUME NEW c \in Callers, BeginCall(c) \/ CallerStep(c) \/ SpuriousReturn(c)
      PROVE  running'[w] \in Callers
  BY <1>4 DEF BeginCall, CallerStep, Push, NotifyOne, ReturnFromWait, SleepInWait, SpuriousReturn
<1>5. CASE OwnerStep
  BY <1>5 DEF OwnerStep, SetStop, NotifyAll, Join
<1>6. CASE Terminated \/ UNCHANGED vars
  BY <1>6 DEF Terminated, vars
<1>7. QED
  BY <1>1, <1>2, <1>3, <1>4, <1>5, <1>6 DEF Next, WorkerStep, Spurious

LEMMA InitMaps == Init => Abstract!Init
<1> SUFFICES ASSUME Init PROVE Abstract!Init
  OBVIOUS
<1>1. ASSUME NEW c \in Callers PROVE Outstanding(c) = 0
  <2>1. Positions(tasks, c) = {} /\ InWorkers(c) = {}
    BY DEF Init, Busy, Positions, InWorkers
  <2>2. Cardinality({}) = 0
    BY FS_EmptySet
  <2>3. TypeOK
    BY InitIInv DEF IInv
  <2>4. QED
    BY <2>1, <2>2, <2>3, OutstandingSplit
<1>2. {c \in Callers : caller[c] # "idle"} = {}
  BY DEF Init
<1>3. QED
  BY <1>1, <1>2 DEF Abstract!Init

\* What a step that moves no task and no caller in or out does to the abstract pool.
LEMMA Stutters ==
  ASSUME tasks' = tasks, \A c \in Callers : InWorkers(c)' = InWorkers(c),
         \A c \in Callers : caller'[c] = "idle" <=> caller[c] = "idle"
  PROVE  UNCHANGED Abstract!vars
BY DEF Abstract!vars, Outstanding, InWorkers

LEMMA StepMaps == IInv /\ RunningOwned /\ TypeOK' /\ [Next]_vars => [Abstract!Next]_(Abstract!vars)
<1> SUFFICES ASSUME IInv, RunningOwned, TypeOK', [Next]_vars
             PROVE  Abstract!Next \/ UNCHANGED Abstract!vars
  OBVIOUS
<1> DEFINE inside == {c \in Callers : caller[c] # "idle"}
           outstanding == [c \in Callers |-> Outstanding(c)]
<1>0. TypeOK
  BY DEF IInv
<1>1. \A c \in Callers : /\ Outstanding(c) = Cardinality(Positions(tasks, c)) + Cardinality(InWorkers(c))
                         /\ Outstanding(c)' = Cardinality(Positions(tasks', c)) + Cardinality(InWorkers(c)')
                         /\ Cardinality(Positions(tasks, c)) \in Nat
                         /\ Cardinality(InWorkers(c)) \in Nat
                         /\ IsFiniteSet(InWorkers(c))
  <2> SUFFICES ASSUME NEW c \in Callers
               PROVE  /\ Outstanding(c) = Cardinality(Positions(tasks, c)) + Cardinality(InWorkers(c))
                      /\ Outstanding(c)' = Cardinality(Positions(tasks', c)) + Cardinality(InWorkers(c)')
                      /\ Cardinality(Positions(tasks, c)) \in Nat
                      /\ Cardinality(InWorkers(c)) \in Nat
                      /\ IsFiniteSet(InWorkers(c))
    OBVIOUS
  <2>1. Outstanding(c)' = Cardinality(Positions(tasks', c)) + Cardinality(InWorkers(c)')
    BY DEF Outstanding, Positions, InWorkers
  <2>2. QED
    BY <1>0, <2>1, OutstandingSplit, PositionsFinite, InWorkersFinite DEF TypeOK
<1>2. ASSUME NEW w \in Workers, Pop(w) PROVE UNCHANGED Abstract!vars
  <2>1. ASSUME NEW c \in Callers PROVE Outstanding(c)' = Outstanding(c)
    <3>1. Cardinality(Positions(tasks', c)) =
            Cardinality(Positions(tasks, c)) - (IF Head(tasks) = c THEN 1 ELSE 0)
      BY <1>0, <1>2, PositionsTail DEF Pop, TypeOK
    <3>2. w \notin InWorkers(c)
      BY <1>2 DEF InWorkers, Busy, Pop
    <3>3. InWorkers(c)' = IF Head(tasks) = c THEN InWorkers(c) \cup {w} ELSE InWorkers(c)
      BY <1>0, <1>2 DEF InWorkers, Busy, Pop, TypeOK
    <3>4. Cardinality(InWorkers(c)') = Cardinality(InWorkers(c)) + (IF Head(tasks) = c THEN 1 ELSE 0)
      <4>1. Cardinality(InWorkers(c) \cup {w}) = Cardinality(InWorkers(c)) + 1
        BY <1>1, <3>2, FS_AddElement
      <4>2. QED
        BY <1>1, <3>3, <4>1
    <3>5. QED
      BY <1>1, <3>1, <3>4
  <2>2. caller' = caller
    BY <1>2 DEF Pop
  <2>3. QED
    BY <2>1, <2>2 DEF Abstract!vars
<1>3. ASSUME NEW w \in Workers, Finish(w) PROVE Abstract!Next
  <2>1. w \in Busy
    BY <1>3 DEF Finish, Busy
  <2>2. PICK d \in Callers : d = running[w]
    BY <2>1 DEF RunningOwned
  <2>3. tasks' = tasks
    BY <1>3 DEF Finish
  <2>4. ASSUME NEW c \in Callers
        PROVE  InWorkers(c)' = InWorkers(c) \ {w} /\ (w \in InWorkers(c) <=> c = d)
    BY <1>0, <1>3, <2>1, <2>2 DEF InWorkers, Busy, Finish, TypeOK
  <2>5. ASSUME NEW c \in Callers
        PROVE  Outstanding(c)' = IF c = d THEN Outstanding(c) - 1 ELSE Outstanding(c)
    <3>1. Cardinality(InWorkers(c) \ {w}) =
            IF w \in InWorkers(c) THEN Cardinality(InWorkers(c)) - 1 ELSE Cardinality(InWorkers(c))
      BY <1>1, FS_RemoveElement
    <3>2. Outstanding(c)' = Cardinality(Positions(tasks, c)) + Cardinality(InWorkers(c) \ {w})
      BY <1>1, <2>3, <2>4
    <3>3. QED
      BY <1>1, <2>4, <3>1, <3>2
  <2>6. Outstanding(d) > 0
    <3>1. InWorkers(d) # {}
      BY <2>4
    <3>2. QED
      BY <1>1, <3>1, FS_EmptySet
  <2>7. \A c \in Callers : caller'[c] = "idle" <=> caller[c] = "idle"
    BY <1>0, <1>3 DEF Finish, WakeCallers, TypeOK
  <2>8. Abstract!Complete(d)
    BY <2>5, <2>6, <2>7 DEF Abstract!Complete
  <2>9. QED
    BY <2>8 DEF Abstract!Next
<1>4. ASSUME NEW w \in Workers, Sleep(w) \/ Exit(w) \/ RunTask(w) \/ SpuriousWake(w)
      PROVE  UNCHANGED Abstract!vars
  <2>1. /\ tasks' = tasks /\ caller' = caller
        /\ \A c \in Callers : InWorkers(c)' = InWorkers(c)
    BY <1>0, <1>4 DEF InWorkers, Busy, Sleep, Exit, RunTask, SpuriousWake, TypeOK
  <2>2. QED
    BY <2>1, Stutters
<1>5. ASSUME NEW c \in Callers, BeginCall(c) PROVE Abstract!Enter(c)
  <2>1. /\ c \notin inside /\ inside' = inside \cup {c}
        /\ tasks' = tasks /\ worker' = worker /\ running' = running
    BY <1>0, <1>5 DEF BeginCall, TypeOK
  <2>2. outstanding' = outstanding
    BY <2>1 DEF Outstanding, Busy
  <2>3. QED
    BY <2>1, <2>2 DEF Abstract!Enter
<1>6. ASSUME NEW c \in Callers, Push(c) PROVE Abstract!Submit(c)
  <2>1. ASSUME NEW d \in Callers
        PROVE  Outstanding(d)' = IF d = c THEN Outstanding(d) + 1 ELSE Outstanding(d)
    <3>1. Cardinality(Positions(tasks', d)) =
            Cardinality(Positions(tasks, d)) + (IF c = d THEN 1 ELSE 0)
      BY <1>0, <1>6, PositionsAppend DEF Push, TypeOK
    <3>2. InWorkers(d)' = InWorkers(d)
      BY <1>6 DEF InWorkers, Busy, Push
    <3>3. QED
      BY <1>1, <3>1, <3>2
  <2>2. c \in inside /\ inside' = inside
    BY <1>0, <1>6 DEF Push, TypeOK
  <2>3. QED
    BY <2>1, <2>2 DEF Abstract!Submit
<1>7. ASSUME NEW c \in Callers, ReturnFromWait(c) PROVE Abstract!Return(c)
  <2>1. tasks = <<>> /\ Busy = {}
    BY <1>7, BusyFinite, FS_EmptySet DEF ReturnFromWait, Quiescent, IInv, ActiveCounts
  <2>2. ASSUME NEW d \in Callers PROVE Outstanding(d) = 0
    <3>1. Positions(tasks, d) = {} /\ InWorkers(d) = {}
      BY <2>1 DEF Positions, InWorkers
    <3>2. QED
      BY <1>1, <3>1, FS_EmptySet
  <2>3. c \in inside /\ inside' = inside \ {c}
    BY <1>0, <1>7 DEF ReturnFromWait, TypeOK
  <2>4. outstanding' = outstanding
    BY <1>7 DEF ReturnFromWait, Outstanding, Busy
  <2>5. QED
    BY <2>2, <2>3, <2>4 DEF Abstract!Return
<1>8. ASSUME NEW c \in Callers, NotifyOne(c) \/ SleepInWait(c) \/ SpuriousReturn(c)
      PROVE  UNCHANGED Abstract!vars
  <2>1. tasks' = tasks /\ \A d \in Callers : InWorkers(d)' = InWorkers(d)
    BY <1>0, <1>8 DEF InWorkers, Busy, NotifyOne, SleepInWait, SpuriousReturn, TypeOK
  <2>2. \A d \in Callers : caller'[d] = "idle" <=> caller[d] = "idle"
    BY <1>0, <1>8 DEF NotifyOne, SleepInWait, SpuriousReturn, TypeOK
  <2>3. QED
    BY <2>1, <2>2, Stutters
<1>9. CASE OwnerStep
  <2>1. /\ tasks' = tasks /\ caller' = caller
        /\ \A c \in Callers : InWorkers(c)' = InWorkers(c)
    BY <1>0, <1>9 DEF InWorkers, Busy, OwnerStep, SetStop, NotifyAll, Join, TypeOK
  <2>2. QED
    BY <2>1, Stutters
<1>10. CASE Terminated \/ UNCHANGED vars
  <2>1. /\ tasks' = tasks /\ caller' = caller
        /\ \A c \in Callers : InWorkers(c)' = InWorkers(c)
    BY <1>10 DEF InWorkers, Busy, Terminated, vars
  <2>2. QED
    BY <2>1, Stutters
<1>11. QED
  BY <1>2, <1>3, <1>4, <1>5, <1>6, <1>7, <1>8, <1>9, <1>10
  DEF Next, WorkerStep, CallerStep, Spurious, Abstract!Next

\* The pool implements TaskPool: every critical section is one of its operations
\* or changes nothing a caller can see, and wait_all returns only when no task
\* of any caller is outstanding.
THEOREM ImplementsTaskPool == Spec => AbstractSpec
<1>1. Init => IInv /\ RunningOwned
  BY InitIInv, InitRunningOwned
<1>2. IInv /\ RunningOwned /\ [Next]_vars => (IInv /\ RunningOwned)'
  BY NextTypeOK, NextActiveCounts, NextFrameSafe, NextRunningOwned DEF IInv
<1>3. IInv /\ (IInv /\ RunningOwned)' => TypeOK'
  BY DEF IInv
<1>4. IInv /\ RunningOwned /\ [Next]_vars => [Abstract!Next]_(Abstract!vars)
  BY <1>2, <1>3, StepMaps
<1>5. QED
  BY <1>1, <1>2, <1>4, InitMaps, PTL DEF Spec, AbstractSpec, Abstract!Spec
=============================================================================
