------------------------------ MODULE TaskPool ------------------------------
(***************************************************************************)
(* What server/include/concurrency/ThreadPool.h promises its caller: a     *)
(* task that was enqueued is started by one worker, in the order the tasks *)
(* were enqueued, and is never started a second time.                      *)
(*                                                                         *)
(* ThreadPool refines this module; ChatServer uses it as its description   *)
(* of the pool (a sequence of tasks whose head any idle worker may take).  *)
(***************************************************************************)
EXTENDS Sequences, Functions

CONSTANTS Workers,   \* the threads of the pool
          Tasks,     \* the std::function objects handed to enqueue
          NoTask     \* a worker that runs nothing

VARIABLES pending,   \* enqueued, not started, oldest first
          running,   \* running[w]: the task worker w executes
          finished   \* the tasks whose execution has returned

vars == <<pending, running, finished>>

Fresh(t) == t \notin Range(pending) \cup Range(running) \cup finished

Init == /\ pending = <<>>
        /\ running = [w \in Workers |-> NoTask]
        /\ finished = {}

Enqueue(t) == /\ Fresh(t)
              /\ pending' = Append(pending, t)
              /\ UNCHANGED <<running, finished>>

Start(w) == /\ running[w] = NoTask
            /\ pending # <<>>
            /\ running' = [running EXCEPT ![w] = Head(pending)]
            /\ pending' = Tail(pending)
            /\ UNCHANGED finished

Finish(w) == /\ running[w] # NoTask
             /\ finished' = finished \cup {running[w]}
             /\ running' = [running EXCEPT ![w] = NoTask]
             /\ UNCHANGED pending

Next == \/ \E t \in Tasks : Enqueue(t)
        \/ \E w \in Workers : Start(w) \/ Finish(w)

Spec == Init /\ [][Next]_vars
=============================================================================
