----------------------------- MODULE ThreadPool -----------------------------
(***************************************************************************)
(* The server's worker pool: ThreadPool over SafeQueue, at the granularity *)
(* of the queue mutex.  A critical section of SafeQueue is one step; a     *)
(* thread inside condition_variable::wait is "waiting" and needs a notify  *)
(* (or a spurious wakeup) before it evaluates its predicate again.         *)
(***************************************************************************)
EXTENDS Integers, Sequences, FiniteSets, Functions

CONSTANTS Workers,   \* the num_threads worker threads
          Tasks,     \* the tasks a run may enqueue, each once
          NoTask     \* an empty std::function

ASSUME PoolAssumption == IsFiniteSet(Workers) /\ NoTask \notin Tasks

VARIABLES
  m_queue,    \* SafeQueue::m_queue
  m_stop,     \* ThreadPool::m_stop
  pc,         \* pc[w]: where worker w is in worker_thread
  task,       \* task[w]: the local std::function of worker w
  dtor,       \* how far ~ThreadPool has got
  finished    \* history: tasks whose call returned

vars == <<m_queue, m_stop, pc, task, dtor, finished>>

At(l) == {w \in Workers : pc[w] = l}

Running == {task[w] : w \in Workers} \ {NoTask}

Init == /\ m_queue = <<>>
        /\ m_stop = FALSE
        /\ pc = [w \in Workers |-> "loop"]
        /\ task = [w \in Workers |-> NoTask]
        /\ dtor = "alive"
        /\ finished = {}

-----------------------------------------------------------------------------
(* Faulty variants of the operators below, one per property.               *)
SilentPush == UNCHANGED pc

LifoPush(t) == <<t>> \o m_queue

PeekOnly == m_queue

ForgetfulReturn(w) == /\ pc[w] = "running"
                      /\ finished' = finished \cup {task[w]}
                      /\ pc' = [pc EXCEPT ![w] = "loop"]
                      /\ UNCHANGED <<m_queue, m_stop, task, dtor>>

-----------------------------------------------------------------------------
(* SafeQueue::push appends; wait_and_pop removes what it took.             *)
Pushed(t) == Append(m_queue, t)

Popped == Tail(m_queue)

(* condition_variable::notify_one: some sleeper, if there is one.          *)
NotifyOne == \/ At("waiting") = {} /\ UNCHANGED pc
             \/ \E w \in At("waiting") : pc' = [pc EXCEPT ![w] = "popping"]

(* SafeQueue::push through ThreadPool::enqueue.  The only caller is the    *)
(* I/O thread, which ~Server joins before the pool is destroyed.           *)
Push(t) == /\ dtor = "alive"
           /\ t \notin Range(m_queue) \cup Running \cup finished
           /\ m_queue' = Pushed(t)
           /\ NotifyOne
           /\ UNCHANGED <<m_stop, task, dtor, finished>>

(* while (!m_stop)                                                         *)
CheckStop(w) == /\ pc[w] = "loop"
                /\ pc' = [pc EXCEPT ![w] = IF m_stop THEN "exited" ELSE "popping"]
                /\ UNCHANGED <<m_queue, m_stop, task, dtor, finished>>

(* wait_and_pop finds the predicate true: front, pop, then task().         *)
Pop(w) == /\ pc[w] = "popping"
          /\ m_queue # <<>>
          /\ task' = [task EXCEPT ![w] = Head(m_queue)]
          /\ m_queue' = Popped
          /\ pc' = [pc EXCEPT ![w] = "running"]
          /\ UNCHANGED <<m_stop, dtor, finished>>

(* wait_and_pop finds the queue empty and sleeps, m_stop or not.           *)
Wait(w) == /\ pc[w] = "popping"
           /\ m_queue = <<>>
           /\ pc' = [pc EXCEPT ![w] = "waiting"]
           /\ UNCHANGED <<m_queue, m_stop, task, dtor, finished>>

SpuriousWakeup(w) == /\ pc[w] = "waiting"
                     /\ pc' = [pc EXCEPT ![w] = "popping"]
                     /\ UNCHANGED <<m_queue, m_stop, task, dtor, finished>>

(* task() returns; the local function object is destroyed.                 *)
Return(w) == /\ pc[w] = "running"
             /\ finished' = finished \cup {task[w]}
             /\ task' = [task EXCEPT ![w] = NoTask]
             /\ pc' = [pc EXCEPT ![w] = "loop"]
             /\ UNCHANGED <<m_queue, m_stop, dtor>>

(* ~ThreadPool: m_stop = true, then notify_all, then join every worker.    *)
SetStop == /\ dtor = "alive"
           /\ m_stop' = TRUE
           /\ dtor' = "stopping"
           /\ UNCHANGED <<m_queue, pc, task, finished>>

NotifyAll == /\ dtor = "stopping"
             /\ pc' = [w \in Workers |-> IF pc[w] = "waiting" THEN "popping" ELSE pc[w]]
             /\ dtor' = "joining"
             /\ UNCHANGED <<m_queue, m_stop, task, finished>>

Join == /\ dtor = "joining"
        /\ \A w \in Workers : pc[w] = "exited"
        /\ dtor' = "destroyed"
        /\ UNCHANGED <<m_queue, m_stop, pc, task, finished>>

Destroyed == dtor = "destroyed" /\ UNCHANGED vars

Step(w) == CheckStop(w) \/ Pop(w) \/ Wait(w) \/ Return(w)

Next == \/ \E t \in Tasks : Push(t)
        \/ \E w \in Workers : Step(w) \/ SpuriousWakeup(w)
        \/ SetStop \/ NotifyAll \/ Join \/ Destroyed

Spec == Init /\ [][Next]_vars

(* A runnable thread is scheduled and every task returns; nobody promises  *)
(* a spurious wakeup, another task, or the destruction of the pool.        *)
FairSpec == /\ Spec
            /\ \A w \in Workers : WF_vars(Step(w))
            /\ WF_vars(NotifyAll) /\ WF_vars(Join)

-----------------------------------------------------------------------------
(* Types; a worker holds a task exactly while it executes it.              *)
TypeOK ==
  /\ m_queue \in Seq(Tasks)
  /\ m_stop \in BOOLEAN
  /\ pc \in [Workers -> {"loop", "popping", "waiting", "running", "exited"}]
  /\ task \in [Workers -> Tasks \cup {NoTask}]
  /\ \A w \in Workers : task[w] # NoTask <=> pc[w] = "running"
  /\ dtor \in {"alive", "stopping", "joining", "destroyed"}
  /\ finished \subseteq Tasks

(* A task is queued once, or run by one worker, or finished: two workers   *)
(* popping at the same time never get the same std::function, and a task   *)
(* that ran never comes back (SafeQueue.h:18-26 under m_mutex).            *)
ExactlyOnce ==
  /\ IsInjective(m_queue)
  /\ \A v, w \in Workers : task[v] = task[w] /\ task[v] # NoTask => v = w
  /\ Range(m_queue) \cap Running = {}
  /\ Range(m_queue) \cap finished = {}
  /\ Running \cap finished = {}

(* No lost wakeup: while a worker sleeps, every queued task has an awake   *)
(* worker on its way to the queue.  push notifies under the mutex that     *)
(* wait_and_pop holds when it decides to sleep (SafeQueue.h:11-22).        *)
SleepersNotNeeded ==
  At("waiting") # {} => Len(m_queue) <= Cardinality(At("popping"))

(* A task handed to enqueue is executed unless the pool is being destroyed.*)
EveryTaskRuns ==
  \A t \in Tasks : t \in Range(m_queue) ~> (t \in finished \/ m_stop)

(* The pool implements its abstract promise.                               *)
Promise == INSTANCE TaskPool WITH pending <- m_queue, running <- task

PoolKeepsPromise == Promise!Spec
=============================================================================
