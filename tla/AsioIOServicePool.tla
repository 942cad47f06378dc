-------------------------- MODULE AsioIOServicePool --------------------------
(***************************************************************************)
(* main of CoroutineService: the pool of I/O threads, the io_context that  *)
(* main runs, the signal, and the end of the program.  The sessions are in *)
(* module CSession; here the coroutines post requests to LogicSystem,      *)
(* whose instance, and worker thread, exist from the first post on.        *)
(* Static objects are destroyed in the reverse order of their making: the  *)
(* logic layer before the pool, both after everything local to main.       *)
(***************************************************************************)
EXTENDS Naturals

CONSTANTS Threads,   \* the threads of the pool, one io_context each
          MaxPosts   \* bound: the requests that are posted

VARIABLES
  main,     \* "CServer", "run", then the steps of stopping and of leaving main
  works,    \* the threads whose io_context has its work guard
  thread,   \* of each pool thread: created, running, out of run, joined
  worker,   \* DealMsg: none (no instance yet), wait, call, sent, ended
  queue,    \* _msg_que.size()
  posts,    \* the number of requests posted
  close,    \* _b_close
  backlog,  \* history: the requests not answered when ioc.run returned
  stray     \* history: the calls of Send after the destruction of ioc

vars == <<main, works, thread, worker, queue, posts, close, backlog, stray>>

Init == /\ main = "CServer"
        /\ works = Threads
        /\ thread = [t \in Threads |-> "created"]
        /\ worker = "none"
        /\ queue = 0
        /\ posts = 0
        /\ close = FALSE
        /\ backlog = 0
        /\ stray = 0

-----------------------------------------------------------------------------
(* The threads of the pool: nothing is ever posted to their io_contexts.    *)

Run(t) == /\ thread[t] = "created"
          /\ thread' = [thread EXCEPT ![t] = "running"]
          /\ UNCHANGED <<main, works, worker, queue, posts, close, backlog, stray>>

Return(t) == /\ thread[t] = "running"
             /\ t \notin works
             /\ thread' = [thread EXCEPT ![t] = "out"]
             /\ UNCHANGED <<main, works, worker, queue, posts, close, backlog, stray>>

-----------------------------------------------------------------------------
(* The logic layer.  The worker holds the mutex while it calls back.        *)

\* A coroutine, on main's thread, posts a request.
Post == /\ main = "run"
        /\ posts < MaxPosts
        /\ worker \notin {"call", "sent"}
        /\ posts' = posts + 1
        /\ queue' = queue + 1
        /\ worker' = IF worker = "none" THEN "wait" ELSE worker
        /\ UNCHANGED <<main, works, thread, close, backlog, stray>>

Take == /\ worker = "wait"
        /\ queue > 0
        /\ worker' = "call"
        /\ UNCHANGED <<main, works, thread, queue, posts, close, backlog, stray>>

\* The session of a request outlives the server, its socket's io_context does not.
Send == /\ worker = "call"
        /\ worker' = "sent"
        /\ stray' = IF main \in {"exit", "destroy"} THEN stray + 1 ELSE stray
        /\ UNCHANGED <<main, works, thread, queue, posts, close, backlog>>

\* Altered: nothing is popped.
PopNot == /\ worker = "sent"
          /\ worker' = "wait"
          /\ UNCHANGED <<main, works, thread, queue, posts, close, backlog, stray>>

Pop == /\ worker = "sent"
       /\ queue' = queue - 1
       /\ worker' = "wait"
       /\ UNCHANGED <<main, works, thread, posts, close, backlog, stray>>

\* The worker is awake between two requests when the flag is set: it drains and ends.
End == /\ worker = "wait"
       /\ close
       /\ queue = 0
       /\ worker' = "ended"
       /\ UNCHANGED <<main, works, thread, queue, posts, close, backlog, stray>>

-----------------------------------------------------------------------------
(* main, from the handler of the signal to the end.                         *)

ServerStarts == /\ main = "CServer"
                /\ main' = "run"
                /\ UNCHANGED <<works, thread, worker, queue, posts, close, backlog, stray>>

\* The port is taken: main leaves by its catch, without stopping the pool.
ServerThrows == /\ main = "CServer"
                /\ main' = "leave"
                /\ UNCHANGED <<works, thread, worker, queue, posts, close, backlog, stray>>

\* ioc.stop: no other handler runs after this one.
Signal == /\ main = "run"
          /\ main' = "reset"
          /\ UNCHANGED <<works, thread, worker, queue, posts, close, backlog, stray>>

\* Altered: the first guard is forgotten.
ResetSome == /\ main = "reset"
             /\ works' = {t \in works : t = CHOOSE u \in works : TRUE}
             /\ main' = "join"
             /\ UNCHANGED <<thread, worker, queue, posts, close, backlog, stray>>

Reset == /\ main = "reset"
         /\ works' = {}
         /\ main' = "join"
         /\ UNCHANGED <<thread, worker, queue, posts, close, backlog, stray>>

Join(t) == /\ main = "join"
           /\ thread[t] = "out"
           /\ thread' = [thread EXCEPT ![t] = "joined"]
           /\ UNCHANGED <<main, works, worker, queue, posts, close, backlog, stray>>

\* The handler returns, and ioc.run with it.
Joined == /\ main = "join"
          /\ \A t \in Threads : thread[t] = "joined"
          /\ main' = "leave"
          /\ backlog' = queue
          /\ UNCHANGED <<works, thread, worker, queue, posts, close, stray>>

\* The server, the signal set and ioc are destroyed, with the coroutines.
Leave == /\ main = "leave"
         /\ main' = "exit"
         /\ UNCHANGED <<works, thread, worker, queue, posts, close, backlog, stray>>

\* ~LogicSystem, if there is an instance: the flag, without lock or notification.
Destroy == /\ main = "exit"
           /\ worker # "none"
           /\ close' = TRUE
           /\ main' = "destroy"
           /\ UNCHANGED <<works, thread, worker, queue, posts, backlog, stray>>

\* The members follow: the condition variable, which may wait for ever for a
\* worker that waits on it, the mutex, and the thread, which was never joined.
DestroyMembers == /\ main = "destroy"
                  /\ main' \in IF worker = "wait" THEN {"terminated", "hung"} ELSE {"terminated"}
                  /\ UNCHANGED <<works, thread, worker, queue, posts, close, backlog, stray>>

\* Without an instance only the pool is destroyed, a thread of which that is
\* not joined ends the program.
DestroyPool == /\ main = "exit"
               /\ worker = "none"
               /\ main' = IF \A t \in Threads : thread[t] = "joined" THEN "clean" ELSE "terminated"
               /\ UNCHANGED <<works, thread, worker, queue, posts, close, backlog, stray>>

Over == main \in {"clean", "terminated", "hung"}
Pool == \E t \in Threads : Run(t) \/ Return(t)
Worker == Take \/ Send \/ Pop \/ End
Stopping == Reset \/ Joined \/ Leave \/ Destroy \/ DestroyMembers \/ DestroyPool
            \/ \E t \in Threads : Join(t)

Next == ~Over /\ (Pool \/ Post \/ Worker \/ ServerStarts \/ ServerThrows \/ Signal \/ Stopping)

\* Threads are scheduled; nobody is obliged to send a request or the signal.
Fairness == /\ \A t \in Threads : WF_vars(~Over /\ (Run(t) \/ Return(t)))
            /\ WF_vars(~Over /\ Worker)
            /\ WF_vars(Stopping)

Spec == Init /\ [][Next]_vars /\ Fairness

-----------------------------------------------------------------------------
(* Properties.                                                              *)

\* The signal stops the pool: none of its threads is waited for in vain, also one
\* that has not reached io_context::run yet when its guard is taken.
SignalStopsPool == main = "reset" ~> \A t \in Threads : thread[t] = "joined"

\* A server that was stopped by a signal and never asked anything ends cleanly.
\* One that was asked has a worker nobody joins, one that could not listen has
\* a pool nobody joins: they end in std::terminate or not at all.
CleanIfNeverAsked == Over => (main = "clean" <=> posts = 0 /\ works = {})

\* Replies after the destruction of the io_context their sockets belong to are
\* replies to requests that waited when the io_context stopped: stopping posts
\* nothing new, and an empty logic layer makes no stray calls.
StrayOnlyFromBacklog == stray <= backlog
=============================================================================
