-------------------------- MODULE ThreadPoolProofs --------------------------
(***************************************************************************)
(* Theorems about ThreadPool for every set of tasks and every finite set   *)
(* of workers: types, no lost or duplicated task, no lost wakeup, and      *)
(* refinement of TaskPool.                                                 *)
(***************************************************************************)
EXTENDS ThreadPool, FiniteSetTheorems, SequenceTheorems, TLAPS

(* Appending an element adds it to the range.                              *)
LEMMA RangeAppend ==
  ASSUME NEW S, NEW s \in Seq(S), NEW e \in S
  PROVE  Range(Append(s, e)) = Range(s) \cup {e}
<1>1. DOMAIN Append(s, e) = DOMAIN s \cup {Len(s) + 1}
  OBVIOUS
<1>2. /\ \A i \in DOMAIN s : Append(s, e)[i] = s[i]
      /\ Append(s, e)[Len(s) + 1] = e
  OBVIOUS
<1> QED BY <1>1, <1>2, Zenon DEF Range

(* Appending a new element keeps the elements distinct.                    *)
LEMMA InjectiveAppend ==
  ASSUME NEW S, NEW s \in Seq(S), NEW e \in S, IsInjective(s), e \notin Range(s)
  PROVE  IsInjective(Append(s, e))
<1>1. DOMAIN Append(s, e) = DOMAIN s \cup {Len(s) + 1}
  OBVIOUS
<1>2. /\ \A i \in DOMAIN s : Append(s, e)[i] = s[i]
      /\ Append(s, e)[Len(s) + 1] = e
  OBVIOUS
<1> QED BY <1>1, <1>2, Zenon DEF Range, IsInjective

(* The head of a sequence of distinct elements leaves with it.             *)
LEMMA InjectiveTail ==
  ASSUME NEW S, NEW s \in Seq(S), s # <<>>, IsInjective(s)
  PROVE  /\ IsInjective(Tail(s))
         /\ Range(Tail(s)) \subseteq Range(s)
         /\ Head(s) \in Range(s)
         /\ Head(s) \notin Range(Tail(s))
<1>1. /\ DOMAIN Tail(s) = 1 .. Len(s) - 1
      /\ DOMAIN s = 1 .. Len(s)
      /\ Len(s) \in Nat \ {0}
      /\ \A i \in 1 .. Len(s) - 1 : Tail(s)[i] = s[i + 1]
      /\ Head(s) = s[1]
  OBVIOUS
<1>2. \A i \in 1 .. Len(s) - 1 : i + 1 \in 1 .. Len(s) /\ i + 1 # 1
  BY <1>1
<1>3. IsInjective(Tail(s))
  BY <1>1, <1>2 DEF IsInjective
<1>4. Range(Tail(s)) \subseteq Range(s) /\ Head(s) \in Range(s)
  BY <1>1, <1>2 DEF Range
<1>5. Head(s) \notin Range(Tail(s))
  BY <1>1, <1>2 DEF Range, IsInjective
<1> QED BY <1>3, <1>4, <1>5

-----------------------------------------------------------------------------
(* Type correctness (ThreadPool.cpp, SafeQueue.h): the variables have      *)
(* their types and a worker holds a task exactly while it executes it.     *)
THEOREM TypeCorrect == Spec => []TypeOK
<1>1. Init => TypeOK
  <2> SUFFICES ASSUME Init PROVE TypeOK
    OBVIOUS
  <2>1. \A w \in Workers : task[w] = NoTask /\ pc[w] = "loop"
    BY DEF Init
  <2>2. \A w \in Workers : task[w] # NoTask <=> pc[w] = "running"
    BY <2>1
  <2>3. /\ m_queue \in Seq(Tasks) /\ finished \subseteq Tasks
        /\ dtor \in {"alive", "stopping", "joining", "destroyed"}
    BY EmptySeq DEF Init
  <2>5. m_stop \in BOOLEAN
    BY Zenon DEF Init
  <2>4. /\ pc \in [Workers -> {"loop", "popping", "waiting", "running", "exited"}]
        /\ task \in [Workers -> Tasks \cup {NoTask}]
    BY DEF Init
  <2> QED BY <2>2, <2>3, <2>4, <2>5 DEF TypeOK
<1>2. TypeOK /\ [Next]_vars => TypeOK'
  <2> SUFFICES ASSUME TypeOK, [Next]_vars PROVE TypeOK'
    OBVIOUS
  <2> USE PoolAssumption DEF TypeOK
  <2>1. ASSUME NEW t \in Tasks, Push(t) PROVE TypeOK'
    BY <2>1 DEF Push, Pushed, NotifyOne, At
  <2>2. ASSUME NEW w \in Workers, CheckStop(w) PROVE TypeOK'
    BY <2>2 DEF CheckStop
  <2>3. ASSUME NEW w \in Workers, Pop(w) PROVE TypeOK'
    <3>1. Head(m_queue) \in Tasks /\ Tail(m_queue) \in Seq(Tasks)
      BY <2>3 DEF Pop
    <3> QED BY <2>3, <3>1 DEF Pop, Popped
  <2>4. ASSUME NEW w \in Workers, Wait(w) PROVE TypeOK'
    BY <2>4 DEF Wait
  <2>5. ASSUME NEW w \in Workers, Return(w) PROVE TypeOK'
    BY <2>5 DEF Return
  <2>6. ASSUME NEW w \in Workers, SpuriousWakeup(w) PROVE TypeOK'
    BY <2>6 DEF SpuriousWakeup
  <2>7. CASE SetStop
    BY <2>7 DEF SetStop
  <2>8. CASE NotifyAll
    BY <2>8 DEF NotifyAll
  <2>9. CASE Join \/ Destroyed \/ UNCHANGED vars
    BY <2>9 DEF Join, Destroyed, vars
  <2> QED BY <2>1, <2>2, <2>3, <2>4, <2>5, <2>6, <2>7, <2>8, <2>9 DEF Next, Step
<1> QED BY <1>1, <1>2, PTL DEF Spec

-----------------------------------------------------------------------------
(* A task is in at most one place: in the queue once, or with one worker,  *)
(* or finished (SafeQueue.h:18-26 takes the head under m_mutex).           *)
THEOREM TaskRunsOnce == Spec => []ExactlyOnce
<1>1. Init => ExactlyOnce
  BY DEF Init, ExactlyOnce, IsInjective, Range, Running
<1>2. TypeOK /\ ExactlyOnce /\ [Next]_vars => ExactlyOnce'
  <2> SUFFICES ASSUME TypeOK, ExactlyOnce, [Next]_vars PROVE ExactlyOnce'
    OBVIOUS
  <2>1. ASSUME NEW t \in Tasks, Push(t) PROVE ExactlyOnce'
    <3>1. m_queue' = Append(m_queue, t) /\ m_queue \in Seq(Tasks)
      BY <2>1 DEF Push, Pushed, TypeOK
    <3>2. t \notin Range(m_queue) /\ t \notin Running /\ t \notin finished
      BY <2>1 DEF Push
    <3>3. IsInjective(m_queue') /\ Range(m_queue') = Range(m_queue) \cup {t}
      BY <3>1, <3>2, RangeAppend, InjectiveAppend DEF ExactlyOnce
    <3>4. task' = task /\ finished' = finished /\ Running' = Running
      BY <2>1 DEF Push, Running
    <3> QED BY <3>2, <3>3, <3>4 DEF ExactlyOnce
  <2>2. ASSUME NEW w \in Workers, Pop(w) PROVE ExactlyOnce'
    <3> DEFINE t == Head(m_queue)
    <3>1. /\ m_queue' = Tail(m_queue) /\ m_queue \in Seq(Tasks) /\ m_queue # <<>>
          /\ finished' = finished
          /\ task' = [task EXCEPT ![w] = t] /\ task \in [Workers -> Tasks \cup {NoTask}]
          /\ task[w] = NoTask
      BY <2>2 DEF Pop, Popped, TypeOK
    <3>2. /\ IsInjective(m_queue') /\ Range(m_queue') \subseteq Range(m_queue)
          /\ t \in Range(m_queue) /\ t \notin Range(m_queue')
      BY <3>1, InjectiveTail DEF ExactlyOnce
    <3>3. t \notin Running /\ t \notin finished
      BY <3>2 DEF ExactlyOnce
    <3>4. \A v \in Workers : task'[v] = IF v = w THEN t ELSE task[v]
      BY <3>1
    <3>5. Running' \subseteq Running \cup {t}
      BY <3>4 DEF Running
    <3>6. \A u, v \in Workers : task'[u] = task'[v] /\ task'[v] # NoTask => u = v
      BY <3>3, <3>4, <3>1 DEF ExactlyOnce, Running
    <3> HIDE DEF t
    <3> QED BY <3>1, <3>2, <3>3, <3>5, <3>6 DEF ExactlyOnce
  <2>3. ASSUME NEW w \in Workers, Return(w) PROVE ExactlyOnce'
    <3>1. /\ m_queue' = m_queue /\ finished' = finished \cup {task[w]}
          /\ task \in [Workers -> Tasks \cup {NoTask}]
          /\ task' = [task EXCEPT ![w] = NoTask] /\ task[w] # NoTask
      BY <2>3 DEF Return, TypeOK
    <3>2. \A v \in Workers : task'[v] = IF v = w THEN NoTask ELSE task[v]
      BY <3>1
    <3>3. Running' \subseteq Running /\ task[w] \notin Running'
      BY <3>1, <3>2 DEF Running, ExactlyOnce
    <3>4. task[w] \in Running
      BY <3>1 DEF Running
    <3>5. \A u, v \in Workers : task'[u] = task'[v] /\ task'[v] # NoTask => u = v
      BY <3>2 DEF ExactlyOnce
    <3> QED BY <3>1, <3>3, <3>4, <3>5 DEF ExactlyOnce
  <2>4. CASE UNCHANGED <<m_queue, task, finished>>
    BY <2>4 DEF ExactlyOnce, Running
  <2> QED
    BY <2>1, <2>2, <2>3, <2>4
    DEF Next, Step, CheckStop, Wait, SpuriousWakeup, SetStop, NotifyAll, Join, Destroyed, vars
<1> QED BY <1>1, <1>2, TypeCorrect, PTL DEF Spec

-----------------------------------------------------------------------------
(* No lost wakeup: while a worker sleeps in wait_and_pop, every queued     *)
(* task has an awake worker about to look at the queue (SafeQueue.h:11-22).*)
THEOREM NoLostWakeup == Spec => []SleepersNotNeeded
<1>1. Init => SleepersNotNeeded
  BY DEF Init, SleepersNotNeeded, At
<1>2. TypeOK /\ SleepersNotNeeded /\ [Next]_vars => SleepersNotNeeded'
  <2> SUFFICES ASSUME TypeOK, SleepersNotNeeded, [Next]_vars, At("waiting")' # {}
               PROVE  Len(m_queue)' <= Cardinality(At("popping"))'
    BY DEF SleepersNotNeeded
  <2> DEFINE P == At("popping")
  <2>0. /\ P \subseteq Workers /\ P' \subseteq Workers /\ IsFiniteSet(P) /\ IsFiniteSet(P')
        /\ Cardinality(P) \in Nat /\ Cardinality(P') \in Nat
        /\ m_queue \in Seq(Tasks) /\ Len(m_queue) \in Nat
    <3>1. P \subseteq Workers /\ P' \subseteq Workers
      BY DEF At
    <3>2. IsFiniteSet(P) /\ IsFiniteSet(P')
      BY <3>1, FS_Subset, PoolAssumption
    <3> QED BY <3>1, <3>2, FS_CardinalityType DEF TypeOK
  <2>1. ASSUME NEW t \in Tasks, Push(t) PROVE Len(m_queue)' <= Cardinality(P')
    <3>1. PICK w \in At("waiting") : pc' = [pc EXCEPT ![w] = "popping"]
      BY <2>1 DEF Push, NotifyOne, At
    <3>2. P' = P \cup {w} /\ w \notin P
      BY <3>1 DEF At, TypeOK
    <3>3. Cardinality(P') = Cardinality(P) + 1
      BY <2>0, <3>2, FS_AddElement
    <3>4. Len(m_queue)' = Len(m_queue) + 1
      BY <2>0, <2>1 DEF Push, Pushed
    <3>5. Len(m_queue) <= Cardinality(P)
      BY <3>1 DEF SleepersNotNeeded
    <3> QED BY <2>0, <3>3, <3>4, <3>5
  <2>2. ASSUME NEW w \in Workers, pc' = [pc EXCEPT ![w] = "popping"],
               m_queue' = m_queue, At("waiting") # {}
        PROVE  Len(m_queue)' <= Cardinality(P')
    <3>1. P' = P \cup {w}
      BY <2>2 DEF At, TypeOK
    <3>2. Cardinality(P) <= Cardinality(P')
      BY <2>0, <3>1, FS_AddElement
    <3> QED BY <2>0, <2>2, <3>2 DEF SleepersNotNeeded
  <2>3. ASSUME NEW w \in Workers, Pop(w) PROVE Len(m_queue)' <= Cardinality(P')
    <3>1. P' = P \ {w} /\ w \in P /\ At("waiting") # {}
      BY <2>3 DEF Pop, At, TypeOK
    <3>2. Cardinality(P') = Cardinality(P) - 1
      BY <2>0, <3>1, FS_RemoveElement
    <3>3. Len(m_queue)' = Len(m_queue) - 1
      BY <2>0, <2>3 DEF Pop, Popped
    <3> QED BY <2>0, <3>1, <3>2, <3>3 DEF SleepersNotNeeded
  <2>4. ASSUME NEW w \in Workers, Wait(w) PROVE Len(m_queue)' <= Cardinality(P')
    BY <2>0, <2>4 DEF Wait
  <2>5. CASE /\ m_queue' = m_queue /\ P' = P
             /\ At("waiting")' \subseteq At("waiting")
    BY <2>5 DEF SleepersNotNeeded
  <2>6. ASSUME NEW w \in Workers, CheckStop(w) PROVE Len(m_queue)' <= Cardinality(P')
    <3>1. At("waiting") # {} /\ m_queue' = m_queue
      BY <2>6 DEF CheckStop, At, TypeOK
    <3>2. CASE m_stop
      BY <2>5, <2>6, <3>2 DEF CheckStop, At, TypeOK
    <3>3. CASE ~m_stop
      BY <2>2, <2>6, <3>1, <3>3 DEF CheckStop
    <3> QED BY <3>2, <3>3
  <2>7. ASSUME NEW w \in Workers, SpuriousWakeup(w) PROVE Len(m_queue)' <= Cardinality(P')
    <3>1. At("waiting") # {}
      BY <2>7 DEF SpuriousWakeup, At
    <3> QED BY <2>2, <2>7, <3>1 DEF SpuriousWakeup
  <2>8. ASSUME NEW w \in Workers, Return(w) PROVE Len(m_queue)' <= Cardinality(P')
    BY <2>5, <2>8 DEF Return, At, TypeOK
  <2>9. CASE NotifyAll
    <3>1. At("waiting")' = {}
      BY <2>9 DEF NotifyAll, At, TypeOK
    <3> QED BY <3>1
  <2>10. CASE SetStop \/ Join \/ Destroyed \/ UNCHANGED vars
    BY <2>5, <2>10 DEF SetStop, Join, Destroyed, vars, At
  <2> QED
    BY <2>1, <2>3, <2>4, <2>6, <2>7, <2>8, <2>9, <2>10 DEF Next, Step
<1> QED BY <1>1, <1>2, TypeCorrect, PTL DEF Spec

-----------------------------------------------------------------------------
(* The condition-variable pool implements TaskPool: taking the head of the *)
(* queue is Start, returning from task() is Finish, everything about       *)
(* sleeping, waking and stopping is invisible to the caller.               *)
THEOREM PoolImplementsTaskPool == Spec => PoolKeepsPromise
<1> USE DEF Promise!Init, Promise!Next, Promise!vars, Promise!Enqueue, Promise!Fresh,
            Promise!Start, Promise!Finish
<1>1. Init => Promise!Init
  BY DEF Init
<1>2. TypeOK /\ [Next]_vars => [Promise!Next]_(Promise!vars)
  <2> SUFFICES ASSUME TypeOK, [Next]_vars PROVE [Promise!Next]_(Promise!vars)
    OBVIOUS
  <2>1. ASSUME NEW t \in Tasks, Push(t) PROVE Promise!Enqueue(t)
    <3>1. Range(task) \subseteq Running \cup {NoTask}
      BY DEF Range, Running, TypeOK
    <3>2. t \notin Range(m_queue) \cup Range(task) \cup finished
      BY <2>1, <3>1, PoolAssumption DEF Push
    <3> QED BY <2>1, <3>2 DEF Push, Pushed, Range, Promise!Range
  <2>2. ASSUME NEW w \in Workers, Pop(w) PROVE Promise!Start(w)
    BY <2>2 DEF Pop, Popped, TypeOK
  <2>3. ASSUME NEW w \in Workers, Return(w) PROVE Promise!Finish(w)
    BY <2>3 DEF Return, TypeOK
  <2>4. CASE UNCHANGED <<m_queue, task, finished>>
    BY <2>4
  <2> QED
    BY <2>1, <2>2, <2>3, <2>4
    DEF Next, Step, CheckStop, Wait, SpuriousWakeup, SetStop, NotifyAll, Join, Destroyed, vars
<1> QED BY <1>1, <1>2, TypeCorrect, PTL DEF Spec, PoolKeepsPromise, Promise!Spec
=============================================================================
