----------------------------- MODULE LogicSystem -----------------------------
(***************************************************************************)
(* The logic layer of AsyncServer (LogicSystem.cpp; CoroutineService keeps *)
(* the same class): the I/O threads hand complete messages to one worker   *)
(* thread through a queue, a mutex and a condition variable.               *)
(*                                                                         *)
(* PostMsgToQue runs on an I/O thread (a poster), DealMsg is the whole     *)
(* life of the worker, and the destructor runs on the main thread once     *)
(* nothing posts any more.  The mutex is explicit: every access to the     *)
(* queue is a step of its own between taking and releasing it, because the *)
(* correctness of the wake-up rests on what the mutex keeps apart.         *)
(***************************************************************************)
EXTENDS Naturals, Sequences

CONSTANTS Posters,    \* the threads that call PostMsgToQue
          Nodes,      \* the LogicNodes ever made; each is posted at most once
          Registered, \* the nodes whose msg_id is a key of _fun_callbacks
          Worker,     \* the thread DealMsg runs on
          Free        \* the mutex is held by no thread

RegisteredAssumption == Registered \subseteq Nodes
ThreadsAssumption == /\ Worker \notin Posters
                     /\ Free \notin Posters
                     /\ Worker # Free

VARIABLES
  msg_que,   \* _msg_que
  b_stop,    \* _b_stop
  mutex,     \* the holder of _mutex
  wpc,       \* where DealMsg is
  ppc,       \* where each poster is in PostMsgToQue
  node,      \* the argument of each poster's call
  process,   \* the life of the process around the singleton
  posted,    \* history: every node pushed, in order
  called     \* history: every node a callback was entered for, in order

vars == <<msg_que, b_stop, mutex, wpc, ppc, node, process, posted, called>>

\* "wait" has found the queue empty and holds the mutex still; "waiting" has
\* released it inside _consumer.wait; "wakeup" has left the wait set and needs
\* the mutex again.
WorkerPlaces == {"lock", "test", "wait", "waiting", "wakeup", "callback", "done"}
PosterPlaces == {"idle", "lock", "push", "notify", "unlock"}

Init == /\ msg_que = <<>>
        /\ b_stop = FALSE
        /\ mutex = Free
        /\ wpc = "lock"
        /\ ppc = [p \in Posters |-> "idle"]
        /\ node \in [Posters -> Nodes]
        /\ process = "running"
        /\ posted = <<>>
        /\ called = <<>>

Alive == process # "aborted"

-----------------------------------------------------------------------------
(* PostMsgToQue, on an I/O thread.                                          *)

\* A node is made for one message and passed to one call.
Fresh(n) == /\ \A i \in 1..Len(posted) : posted[i] # n
            /\ \A p \in Posters : ppc[p] \in {"lock", "push"} => node[p] # n

Goto(p, place) == ppc' = [ppc EXCEPT ![p] = place]

Call(p, n) == /\ process = "running"
              /\ ppc[p] = "idle"
              /\ Fresh(n)
              /\ node' = [node EXCEPT ![p] = n]
              /\ Goto(p, "lock")
              /\ UNCHANGED <<msg_que, b_stop, mutex, wpc, process, posted, called>>

Acquire(p) == /\ Alive
              /\ ppc[p] = "lock"
              /\ mutex = Free
              /\ mutex' = p
              /\ Goto(p, "push")
              /\ UNCHANGED <<msg_que, b_stop, wpc, node, process, posted, called>>

\* Altered: off by one in the size that is notified.
PushNotifiesSecond(p) == /\ Alive
                         /\ ppc[p] = "push"
                         /\ msg_que' = Append(msg_que, node[p])
                         /\ posted' = Append(posted, node[p])
                         /\ Goto(p, IF Len(msg_que') = 2 THEN "notify" ELSE "unlock")
                         /\ UNCHANGED <<b_stop, mutex, wpc, node, process, called>>

\* Altered: the newest node goes to the front.
PushFront(p) == /\ Alive
                /\ ppc[p] = "push"
                /\ msg_que' = <<node[p]>> \o msg_que
                /\ posted' = Append(posted, node[p])
                /\ Goto(p, IF Len(msg_que') = 1 THEN "notify" ELSE "unlock")
                /\ UNCHANGED <<b_stop, mutex, wpc, node, process, called>>

\* notify_one only when the push found the queue empty.
Push(p) == /\ Alive
           /\ ppc[p] = "push"
           /\ msg_que' = Append(msg_que, node[p])
           /\ posted' = Append(posted, node[p])
           /\ Goto(p, IF Len(msg_que') = 1 THEN "notify" ELSE "unlock")
           /\ UNCHANGED <<b_stop, mutex, wpc, node, process, called>>

\* Altered: the notification is lost.
NotifyNobody(p) == /\ Alive
                   /\ ppc[p] = "notify"
                   /\ Goto(p, "unlock")
                   /\ UNCHANGED <<msg_que, b_stop, mutex, wpc, node, process, posted, called>>

Notify(p) == /\ Alive
             /\ ppc[p] = "notify"
             /\ wpc' = IF wpc = "waiting" THEN "wakeup" ELSE wpc
             /\ Goto(p, "unlock")
             /\ UNCHANGED <<msg_que, b_stop, mutex, node, process, posted, called>>

Return(p) == /\ Alive
             /\ ppc[p] = "unlock"
             /\ mutex' = Free
             /\ Goto(p, "idle")
             /\ UNCHANGED <<msg_que, b_stop, wpc, node, process, posted, called>>

PostMsgToQue(p) == \/ \E n \in Nodes : Call(p, n)
                   \/ Acquire(p)
                   \/ Push(p)
                   \/ Notify(p)
                   \/ Return(p)

-----------------------------------------------------------------------------
(* DealMsg, on the worker thread.  Its two loops, the one for a running     *)
(* server and the one that drains the queue after a stop, do the same to    *)
(* the front node, and _b_stop is never reset: one set of actions is both.  *)

\* The mutex is taken at entry, and again inside wait before it returns.
Lock == /\ Alive
        /\ wpc \in {"lock", "wakeup"}
        /\ mutex = Free
        /\ mutex' = Worker
        /\ wpc' = "test"
        /\ UNCHANGED <<msg_que, b_stop, ppc, node, process, posted, called>>

\* The loop condition holds, _b_stop has been read.
Wait == /\ Alive
        /\ wpc = "test"
        /\ msg_que = <<>>
        /\ ~b_stop
        /\ wpc' = "wait"
        /\ UNCHANGED <<msg_que, b_stop, mutex, ppc, node, process, posted, called>>

\* Altered: the worker sleeps with the mutex held.
BlockHolding == /\ Alive
                /\ wpc = "wait"
                /\ wpc' = "waiting"
                /\ UNCHANGED <<msg_que, b_stop, mutex, ppc, node, process, posted, called>>

\* wait joins the wait set and releases the mutex in one step.
Block == /\ Alive
         /\ wpc = "wait"
         /\ wpc' = "waiting"
         /\ mutex' = Free
         /\ UNCHANGED <<msg_que, b_stop, ppc, node, process, posted, called>>

\* A condition variable may return without a notification.
SpuriousWakeup == /\ Alive
                  /\ wpc = "waiting"
                  /\ wpc' = "wakeup"
                  /\ UNCHANGED <<msg_que, b_stop, mutex, ppc, node, process, posted, called>>

\* No callback is registered for the front node's id.
Skip == /\ Alive
        /\ wpc = "test"
        /\ msg_que # <<>>
        /\ Head(msg_que) \notin Registered
        /\ msg_que' = Tail(msg_que)
        /\ UNCHANGED <<b_stop, mutex, wpc, ppc, node, process, posted, called>>

\* The callback of the front node is entered; the node stays in the queue.
CallBack == /\ Alive
            /\ wpc = "test"
            /\ msg_que # <<>>
            /\ Head(msg_que) \in Registered
            /\ called' = Append(called, Head(msg_que))
            /\ wpc' = "callback"
            /\ UNCHANGED <<msg_que, b_stop, mutex, ppc, node, process, posted>>

CallBackReturn == /\ Alive
                  /\ wpc = "callback"
                  /\ msg_que' = Tail(msg_que)
                  /\ wpc' = "test"
                  /\ UNCHANGED <<b_stop, mutex, ppc, node, process, posted, called>>

\* Stopped and drained: DealMsg returns and its unique_lock is released.
Exit == /\ Alive
        /\ wpc = "test"
        /\ msg_que = <<>>
        /\ b_stop
        /\ wpc' = "done"
        /\ mutex' = Free
        /\ UNCHANGED <<msg_que, b_stop, ppc, node, process, posted, called>>

DealMsg == \/ Lock \/ Wait \/ Block \/ Skip
           \/ CallBack \/ CallBackReturn \/ Exit

-----------------------------------------------------------------------------
(* The end of the singleton, on the main thread, after every thread that    *)
(* posts has been joined or has returned from io_context::run.              *)

\* The body of ~LogicSystem: the flag, without the mutex, without a notify.
Destroy == /\ process = "running"
           /\ \A p \in Posters : ppc[p] = "idle"
           /\ b_stop' = TRUE
           /\ process' = "destroying"
           /\ UNCHANGED <<msg_que, mutex, wpc, ppc, node, posted, called>>

\* The member _worker_thread was never joined, so it is still joinable, also
\* when DealMsg has returned: its destructor calls std::terminate.
DestroyThread == /\ process = "destroying"
                 /\ process' = "aborted"
                 /\ UNCHANGED <<msg_que, b_stop, mutex, wpc, ppc, node, posted, called>>

\* Nothing runs after std::terminate.
Aborted == ~Alive /\ UNCHANGED vars

Next == \/ \E p \in Posters : PostMsgToQue(p)
        \/ DealMsg
        \/ SpuriousWakeup
        \/ Destroy
        \/ DestroyThread
        \/ Aborted

\* A thread that can run does run (WF), and a thread that asks for the mutex
\* again and again finds it free gets it in the end (SF).  Nobody is obliged
\* to call PostMsgToQue, to wake up spuriously or to destroy the singleton.
Fairness == /\ \A p \in Posters : /\ WF_vars(Push(p) \/ Notify(p) \/ Return(p))
                                  /\ SF_vars(Acquire(p))
            /\ WF_vars(DealMsg)
            /\ SF_vars(Lock)

Spec == Init /\ [][Next]_vars /\ Fairness

-----------------------------------------------------------------------------
(* Properties.                                                              *)

TypeOK == /\ msg_que \in Seq(Nodes)
          /\ b_stop \in BOOLEAN
          /\ mutex \in Posters \cup {Worker, Free}
          /\ wpc \in WorkerPlaces
          /\ ppc \in [Posters -> PosterPlaces]
          /\ node \in [Posters -> Nodes]
          /\ process \in {"running", "destroying", "aborted"}
          /\ posted \in Seq(Nodes)
          /\ called \in Seq(Nodes)

\* The mutex is held by exactly the threads whose place is inside their
\* critical section, so no two threads touch _msg_que at once
\* (LogicSystem.cpp:31 and :76, released only by wait and at the return).
MutexHeld == /\ mutex = Worker <=> wpc \in {"test", "wait", "callback"}
             /\ \A p \in Posters :
                  mutex = p <=> ppc[p] \in {"push", "notify", "unlock"}

\* PostMsgToQue notifies only when its push made the size 1 (LogicSystem.cpp:79).
\* Still no wake-up is lost: the worker sleeps in wait over a non-empty queue
\* only while the poster whose push ended the emptiness is about to notify.
NoLostWakeup == wpc = "waiting" /\ msg_que # <<>> => \E p \in Posters : ppc[p] = "notify"

\* The reference to the front node that a callback works on stays valid: the
\* worker holds the only right to pop, and the front is what it was called for
\* (LogicSystem.cpp:60-70, the pop comes after the callback).
CallBackFront == wpc = "callback" => /\ msg_que # <<>>
                                     /\ called # <<>>
                                     /\ Head(msg_que) = called[Len(called)]

\* The nodes that left the queue, or whose callback is running.
Taken == Len(posted) - Len(msg_que) + (IF wpc = "callback" THEN 1 ELSE 0)

\* The queue with its worker is a FIFO hand-off: no node is lost, doubled or
\* overtaken between PostMsgToQue and the callback, whatever the interleaving,
\* and while the server runs the worker goes on until the queue is empty.
Queue == INSTANCE FifoHandOff WITH Items <- Nodes, Handled <- Registered,
                                   taken <- Taken, open <- (process = "running")
ImplementsFifoHandOff == Queue!Spec

\* Every message posted to a server that is not shut down is looked at by the
\* worker, and its callback entered if it has one: the chain of push, notify,
\* wake-up and re-lock never stalls (LogicSystem.cpp:34-37, :77-82).
PostedIsTaken ==
  \A n \in Nodes :
    (\E i \in 1..Len(posted) : posted[i] = n) ~>
      \/ process # "running"
      \/ \E i \in 1..Taken : posted[i] = n

\* PostMsgToQue returns: the worker holds the mutex over whole callbacks and
\* over the drain, but it gives it up, so no I/O thread is blocked for ever.
PostReturns ==
  \A p \in Posters : ppc[p] = "lock" ~> (ppc[p] = "idle" \/ ~Alive)

\* What LogicSystem.h:35 says of _b_stop: on the stop signal the logic class
\* ends its worker thread and leaves gracefully.
GracefulStop == process = "aborted" => wpc = "done" /\ msg_que = <<>>
=============================================================================
