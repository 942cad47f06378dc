---------------------------- MODULE IOThreadPool ----------------------------
(***************************************************************************)
(* main of AsyncServer and its pool of I/O threads.  The pool has an       *)
(* io_context of its own, which its threads run and the Server works on;   *)
(* the signal set works on the io_context that is a local of main.  A      *)
(* completion handler waits in `posted` for a thread that runs its         *)
(* io_context.  The handlers of the server are modelled in module Server;  *)
(* here a connection is served when a thread takes its accept.             *)
(***************************************************************************)
EXTENDS Naturals

CONSTANTS Threads,  \* the threads of the pool (hardware_concurrency of them)
          Conns     \* bound: the connections that arrive

VARIABLES
  main,    \* where main is: in GetInstance, before the signal set, before the
           \* Server, waiting on cond_quit, awake in the loop, at the end, or
           \* terminated with the whole process
  loop,    \* of each thread: unborn, created, the io_context it runs, or out
  works,   \* the work guard of the pool's io_context
  posted,  \* the handlers that wait in each io_context
  bstop,
  signalled,  \* history: SIGINT or SIGTERM has been delivered
  served      \* history: the connections a thread has taken

vars == <<main, loop, works, posted, bstop, signalled, served>>

Contexts == {"pool", "ioc"}   \* IOThreadPool::io_context and the local of main

Init == /\ main = "GetInstance"
        /\ loop = [t \in Threads |-> "unborn"]
        /\ works = TRUE
        /\ posted = [c \in Contexts |-> {}]
        /\ bstop = FALSE
        /\ signalled = FALSE
        /\ served = {}

-----------------------------------------------------------------------------
(* The threads.                                                             *)

Create(t) == /\ main = "GetInstance"
             /\ loop[t] = "unborn"
             /\ loop' = [loop EXCEPT ![t] = "created"]
             /\ UNCHANGED <<main, works, posted, bstop, signalled, served>>

\* The server's accept is outstanding from its constructor on.
HasWork == works \/ main \in {"wait", "awake"} \/ posted["pool"] # {}

\* run returns at once from an io_context that has no work.
Run(t) == /\ loop[t] = "created"
          /\ loop' = [loop EXCEPT ![t] = IF HasWork THEN "pool" ELSE "out"]
          /\ UNCHANGED <<main, works, posted, bstop, signalled, served>>

\* A thread runs a handler of its io_context.  The one of the signal set
\* would set bstop, after it has stopped the pool.
Handle(t, h) == /\ loop[t] \in Contexts
                /\ h \in posted[loop[t]]
                /\ posted' = [posted EXCEPT ![loop[t]] = @ \ {h}]
                /\ bstop' = (bstop \/ h = "signal")
                /\ served' = served \cup ({h} \cap Conns)
                /\ UNCHANGED <<main, loop, works, signalled>>

-----------------------------------------------------------------------------
(* main.                                                                    *)

GetInstance == /\ main = "GetInstance"
               /\ \A t \in Threads : loop[t] # "unborn"
               /\ main' = "async_wait"
               /\ UNCHANGED <<loop, works, posted, bstop, signalled, served>>

\* Altered: the server works on the local io_context as well.
GetIOContextLocal == "ioc"

GetIOContext == "pool"

AsyncWait == /\ main = "async_wait"
             /\ main' = "Server"
             /\ UNCHANGED <<loop, works, posted, bstop, signalled, served>>

ServerStarts == /\ main = "Server"
                /\ main' = "wait"
                /\ UNCHANGED <<loop, works, posted, bstop, signalled, served>>

\* The port is taken: the exception is no error_code, nothing catches it.
ServerThrows == /\ main = "Server"
                /\ main' = "terminated"
                /\ UNCHANGED <<loop, works, posted, bstop, signalled, served>>

\* cond_quit.wait may return without a notification.
Wake == /\ main = "wait"
        /\ main' = "awake"
        /\ UNCHANGED <<loop, works, posted, bstop, signalled, served>>

Test == /\ main = "awake"
        /\ main' = IF bstop THEN "end" ELSE "wait"
        /\ UNCHANGED <<loop, works, posted, bstop, signalled, served>>

-----------------------------------------------------------------------------
(* The world.                                                               *)

Connect(c) == /\ main \in {"wait", "awake"}
              /\ c \notin served \cup posted[GetIOContext]
              /\ posted' = [posted EXCEPT ![GetIOContext] = @ \cup {c}]
              /\ UNCHANGED <<main, loop, works, bstop, signalled, served>>

Signal == /\ main \in {"Server", "wait", "awake"}
          /\ ~signalled
          /\ signalled' = TRUE
          /\ posted' = [posted EXCEPT !["ioc"] = @ \cup {"signal"}]
          /\ UNCHANGED <<main, loop, works, bstop, served>>

Main == GetInstance \/ AsyncWait \/ ServerStarts \/ Wake \/ Test

Threading == \E t \in Threads : \/ Create(t) \/ Run(t)
                                \/ \E h \in Conns \cup {"signal"} : Handle(t, h)

Alive == main # "terminated"

Next == /\ Alive
        /\ \/ Threading \/ Main \/ ServerThrows \/ Signal
           \/ \E c \in Conns : Connect(c)

\* Threads are scheduled; spurious wake-ups are allowed to come again and again.
Fairness == /\ \A t \in Threads : WF_vars(Alive /\ Create(t)) /\ WF_vars(Alive /\ Run(t))
            /\ \A t \in Threads :
                 WF_vars(Alive /\ \E h \in Conns \cup {"signal"} : Handle(t, h))
            /\ WF_vars(Main)

Spec == Init /\ [][Next]_vars /\ Fairness

-----------------------------------------------------------------------------
(* Properties.                                                              *)

\* No thread leaves io_context::run before the program is told to stop, though
\* the threads may get there before main has made the Server, while there is
\* nothing to run: the work guard keeps them (IOThreadPool.cpp:3-13).
ThreadsStay == \A t \in Threads : loop[t] = "out" => bstop

\* A connection is served, whatever the order in which threads and main start.
ConnectionIsServed == \A c \in Conns : c \in posted[GetIOContext] ~> c \in served

\* What the three ways to stop in main are for: SIGINT or SIGTERM ends main.
SignalEndsMain == signalled ~> main \in {"end", "terminated"}
=============================================================================
