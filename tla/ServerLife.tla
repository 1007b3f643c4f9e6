----------------------------- MODULE ServerLife -----------------------------
(***************************************************************************)
(* The life of the server process around its thread pool: main, Server's   *)
(* run and destructor, the listener's and the epoll instance's             *)
(* initialization, any of whose system calls may fail.  The pool is        *)
(* created first, so its workers run, and sleep, all along; the members of *)
(* Server are destroyed in the reverse order of their declaration.         *)
(***************************************************************************)
EXTENDS ThreadPool

VARIABLES
  main,          \* where the main thread is
  listener,      \* the listening socket: "none", "open", "closed"
  epoll,         \* the epoll instance, likewise
  m_is_running,  \* EpollManager::m_is_running
  io             \* the I/O thread: "none", "running", "finished"

lifeVars == <<main, listener, epoll, m_is_running, io>>

InitLife ==
  /\ Init
  /\ main = "listen" /\ listener = "none" /\ epoll = "none"
  /\ m_is_running = FALSE /\ io = "none"

Reaches(place) == main = place /\ UNCHANGED vars

-----------------------------------------------------------------------------
(* Server::run.  Where a step fails, run returns and main destroys Server. *)
ListenerInitialize ==
  /\ Reaches("listen")
  /\ \/ main' = "epoll" /\ listener' = "open"
     \* socket fails; bind or listen does, and the socket is closed; fcntl does
     \/ main' = "stop" /\ listener' \in {"none", "closed", "open"}
  /\ UNCHANGED <<epoll, m_is_running, io>>

EpollInitialize ==
  /\ Reaches("epoll")
  /\ \/ main' = "addFd" /\ epoll' = "open" /\ m_is_running' = TRUE
     \/ main' = "stop" /\ UNCHANGED <<epoll, m_is_running>>
  /\ UNCHANGED <<listener, io>>

AddListener ==
  /\ Reaches("addFd")
  /\ main' \in {"start", "stop"}
  /\ UNCHANGED <<listener, epoll, m_is_running, io>>

(* Creating the thread may throw, which main catches after unwinding.      *)
StartIO ==
  /\ Reaches("start")
  /\ \/ main' = "run" /\ io' = "running"
     \/ main' = "stop" /\ UNCHANGED io
  /\ UNCHANGED <<listener, epoll, m_is_running>>

Returns ==
  /\ Reaches("run") /\ io = "finished"
  /\ main' = "stop"
  /\ UNCHANGED <<listener, epoll, m_is_running, io>>

(* Server::eventLoop.  Errors of epoll_wait are logged and it goes on, and *)
(* only ~Server, after run, clears m_is_running: EndLoop and Returns are   *)
(* in the code but never happen.                                           *)
Handle(t) == /\ io = "running" /\ m_is_running
             /\ Push(t)
             /\ UNCHANGED lifeVars

EndLoop == /\ io = "running" /\ ~m_is_running
           /\ io' = "finished"
           /\ UNCHANGED <<vars, main, listener, epoll, m_is_running>>

-----------------------------------------------------------------------------
(* ~Server, then the members: the pool is the first with anything to do.   *)
StopEpoll ==
  /\ Reaches("stop")
  /\ m_is_running' = FALSE
  /\ main' = "join"
  /\ UNCHANGED <<listener, epoll, io>>

CloseListener ==
  /\ Reaches("join") /\ io # "running"
  /\ listener' = IF listener = "open" THEN "closed" ELSE listener
  /\ main' = "pool"
  /\ UNCHANGED <<epoll, m_is_running, io>>

DestroyPool ==
  /\ main = "pool"
  /\ SetStop \/ NotifyAll \/ Join
  /\ main' = IF dtor' = "destroyed" THEN "members" ELSE main
  /\ UNCHANGED <<listener, epoll, m_is_running, io>>

(* ~EpollManager closes its descriptor, ~Listener the number it closed.    *)
DestroyRest ==
  /\ Reaches("members")
  /\ epoll' = IF epoll = "open" THEN "closed" ELSE epoll
  /\ main' = "exited"
  /\ UNCHANGED <<listener, m_is_running, io>>

Exited == main = "exited" /\ UNCHANGED <<vars, lifeVars>>

Main == \/ ListenerInitialize \/ EpollInitialize \/ AddListener \/ StartIO \/ Returns
        \/ StopEpoll \/ CloseListener \/ DestroyPool \/ DestroyRest

WorkerRuns(w) == Step(w) /\ UNCHANGED lifeVars

LifeNext ==
  \/ Main \/ EndLoop \/ Exited
  \/ \E t \in Tasks : Handle(t)
  \/ \E w \in Workers : WorkerRuns(w) \/ (SpuriousWakeup(w) /\ UNCHANGED lifeVars)

(* Runnable threads are scheduled.                                         *)
LifeSpec ==
  /\ InitLife /\ [][LifeNext]_<<vars, lifeVars>>
  /\ WF_<<vars, lifeVars>>(Main) /\ WF_<<vars, lifeVars>>(EndLoop)
  /\ \A w \in Workers : WF_<<vars, lifeVars>>(WorkerRuns(w))

(* When start-up fails the process ends: ~ThreadPool says that it ends the *)
(* waiting queue work and the threads (ThreadPool.cpp:17,20), and ~Server  *)
(* has already logged a graceful shut-down (Server.cpp:29).                *)
FailedStartEnds == main = "stop" ~> main = "exited"
=============================================================================
