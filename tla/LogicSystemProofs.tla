-------------------------- MODULE LogicSystemProofs --------------------------
(***************************************************************************)
(* Proofs about LogicSystem for every set of posters and nodes: types, the *)
(* exclusion the mutex gives, no lost wake-up, the front node of a running *)
(* callback, and the safety part of the refinement of FifoHandOff.         *)
(*                                                                         *)
(* The properties are not inductive one by one: that no wake-up is lost    *)
(* needs the mutex (a push cannot fall between the test of the queue and   *)
(* the wait), the mutex needs the places of the threads, and that a node   *)
(* is there to be popped needs CallBackFront.  IInv is their conjunction   *)
(* with the two facts below.                                               *)
(***************************************************************************)
EXTENDS LogicSystem, TLAPS

\* The queue is the part of `posted` that has not been popped.
QueueIsSuffix ==
  /\ Len(msg_que) <= Len(posted)
  /\ \A i \in 1..Len(msg_que) :
       msg_que[i] = posted[Len(posted) - Len(msg_que) + i]

\* wait is entered only under the mutex with an empty queue.
WaitsOnEmpty == wpc = "wait" => msg_que = <<>>

IInv == /\ TypeOK
        /\ MutexHeld
        /\ WaitsOnEmpty
        /\ NoLostWakeup
        /\ CallBackFront
        /\ QueueIsSuffix

-----------------------------------------------------------------------------
(* The invariant holds initially.                                           *)

LEMMA InitIInv == ASSUME ThreadsAssumption PROVE Init => IInv
<1> SUFFICES ASSUME Init PROVE IInv
  OBVIOUS
<1> USE DEF Init
<1>1. TypeOK
  <2>1. ppc \in [Posters -> PosterPlaces]
    BY DEF PosterPlaces
  <2>2. wpc \in WorkerPlaces
    BY DEF WorkerPlaces
  <2>3. msg_que \in Seq(Nodes) /\ posted \in Seq(Nodes) /\ called \in Seq(Nodes)
    OBVIOUS
  <2> QED
    BY <2>1, <2>2, <2>3, Zenon DEF TypeOK
<1>2. MutexHeld
  BY ThreadsAssumption DEF ThreadsAssumption, MutexHeld
<1>3. WaitsOnEmpty /\ NoLostWakeup /\ CallBackFront
  BY DEF WaitsOnEmpty, NoLostWakeup, CallBackFront
<1>4. QueueIsSuffix
  BY DEF QueueIsSuffix
<1> QED
  BY <1>1, <1>2, <1>3, <1>4 DEF IInv


-----------------------------------------------------------------------------
(* Every step keeps it: first the steps of a poster, then those of the      *)
(* worker.                                                                  *)

\* Appending under the mutex keeps the queue a suffix of what was posted.
LEMMA PushIInv == ASSUME ThreadsAssumption, IInv, NEW p \in Posters, Push(p)
                  PROVE  IInv'
<1> USE DEF IInv, Push, Goto
<1>1. /\ node[p] \in Nodes
      /\ msg_que \in Seq(Nodes) /\ posted \in Seq(Nodes)
      /\ mutex = p
  BY DEF TypeOK, MutexHeld
<1>2. TypeOK'
  BY <1>1 DEF TypeOK, PosterPlaces
<1>3. MutexHeld'
  BY DEF TypeOK, MutexHeld, PosterPlaces
<1>4. wpc \notin {"test", "wait", "callback"}
  BY <1>1, ThreadsAssumption DEF ThreadsAssumption, MutexHeld
<1>5. WaitsOnEmpty' /\ CallBackFront'
  BY <1>4 DEF WaitsOnEmpty, CallBackFront
<1>6. NoLostWakeup'
  <2> SUFFICES ASSUME wpc = "waiting"
               PROVE  ppc'[p] = "notify"
    BY DEF NoLostWakeup
  <2>1. msg_que = <<>>
    BY <1>1 DEF NoLostWakeup, MutexHeld
  <2>2. Len(msg_que') = 1
    BY <1>1, <2>1
  <2> QED
    BY <2>2 DEF TypeOK
<1>7. QueueIsSuffix'
  <2>1. /\ Len(msg_que') = Len(msg_que) + 1
        /\ Len(posted') = Len(posted) + 1
        /\ \A i \in 1..Len(msg_que) : msg_que'[i] = msg_que[i]
        /\ msg_que'[Len(msg_que) + 1] = node[p]
        /\ \A i \in 1..Len(posted) : posted'[i] = posted[i]
        /\ posted'[Len(posted) + 1] = node[p]
    BY <1>1
  <2>2. Len(msg_que) \in Nat /\ Len(posted) \in Nat /\ Len(msg_que) <= Len(posted)
    BY <1>1 DEF QueueIsSuffix
  <2>3. ASSUME NEW i \in 1..Len(msg_que')
        PROVE  msg_que'[i] = posted'[Len(posted') - Len(msg_que') + i]
    <3>1. CASE i \in 1..Len(msg_que)
      <4>1. Len(posted) - Len(msg_que) + i \in 1..Len(posted)
        BY <2>2, <3>1
      <4>2. msg_que[i] = posted[Len(posted) - Len(msg_que) + i]
        BY <3>1 DEF QueueIsSuffix
      <4>3. Len(posted') - Len(msg_que') + i = Len(posted) - Len(msg_que) + i
        BY <2>1, <2>2
      <4> QED
        BY <2>1, <3>1, <4>1, <4>2, <4>3
    <3>2. CASE i = Len(msg_que) + 1
      BY <2>1, <2>2, <3>2
    <3> QED
      BY <2>1, <2>2, <3>1, <3>2
  <2>4. Len(msg_que') <= Len(posted')
    BY <2>1, <2>2
  <2> HIDE DEF Push
  <2> QED
    BY <2>3, <2>4 DEF QueueIsSuffix
<1> QED
  BY <1>2, <1>3, <1>5, <1>6, <1>7

LEMMA PosterIInv == ASSUME ThreadsAssumption, IInv, NEW p \in Posters, PostMsgToQue(p)
                    PROVE  IInv'
<1>1. CASE \E n \in Nodes : Call(p, n)
  <2> USE <1>1 DEF IInv, Call, Goto
  <2>1. TypeOK'
    BY DEF TypeOK, PosterPlaces
  <2>2. MutexHeld' /\ NoLostWakeup'
    BY DEF TypeOK, MutexHeld, NoLostWakeup
  <2>3. WaitsOnEmpty' /\ CallBackFront' /\ QueueIsSuffix'
    BY DEF WaitsOnEmpty, CallBackFront, QueueIsSuffix
  <2> QED
    BY <2>1, <2>2, <2>3
<1>2. CASE Acquire(p)
  <2> USE <1>2 DEF IInv, Acquire, Goto
  <2>1. TypeOK'
    BY DEF TypeOK, PosterPlaces
  <2>2. MutexHeld' /\ NoLostWakeup'
    BY ThreadsAssumption DEF ThreadsAssumption, TypeOK, MutexHeld, NoLostWakeup
  <2>3. WaitsOnEmpty' /\ CallBackFront' /\ QueueIsSuffix'
    BY DEF WaitsOnEmpty, CallBackFront, QueueIsSuffix
  <2> QED
    BY <2>1, <2>2, <2>3
<1>3. CASE Push(p)
  BY <1>3, PushIInv
<1>4. CASE Notify(p)
  <2> USE <1>4 DEF IInv, Notify, Goto
  <2>1. TypeOK'
    BY DEF TypeOK, PosterPlaces, WorkerPlaces
  <2>2. MutexHeld' /\ NoLostWakeup'
    BY DEF TypeOK, MutexHeld, NoLostWakeup
  <2>3. WaitsOnEmpty' /\ CallBackFront' /\ QueueIsSuffix'
    BY DEF WaitsOnEmpty, CallBackFront, QueueIsSuffix
  <2> QED
    BY <2>1, <2>2, <2>3
<1>5. CASE Return(p)
  <2> USE <1>5 DEF IInv, Return, Goto
  <2>1. TypeOK'
    BY DEF TypeOK, PosterPlaces
  <2>2. MutexHeld' /\ NoLostWakeup'
    BY ThreadsAssumption DEF ThreadsAssumption, TypeOK, MutexHeld, NoLostWakeup
  <2>3. WaitsOnEmpty' /\ CallBackFront' /\ QueueIsSuffix'
    BY DEF WaitsOnEmpty, CallBackFront, QueueIsSuffix
  <2> QED
    BY <2>1, <2>2, <2>3
<1> QED
  BY <1>1, <1>2, <1>3, <1>4, <1>5 DEF PostMsgToQue

\* Popping the front of a non-empty queue keeps types and the suffix.
LEMMA PopFacts == ASSUME IInv, msg_que # <<>>, msg_que' = Tail(msg_que),
                         UNCHANGED posted
                  PROVE  msg_que' \in Seq(Nodes) /\ QueueIsSuffix'
<1> USE DEF IInv
<1>1. /\ msg_que \in Seq(Nodes) /\ posted \in Seq(Nodes)
      /\ Len(msg_que) \in Nat \ {0} /\ Len(posted) \in Nat
  BY DEF TypeOK
<1>2. /\ msg_que' \in Seq(Nodes)
      /\ Len(msg_que') = Len(msg_que) - 1
      /\ \A i \in 1..Len(msg_que') : msg_que'[i] = msg_que[i + 1]
  BY <1>1
<1> QED
  BY <1>1, <1>2 DEF QueueIsSuffix

LEMMA WorkerIInv == ASSUME ThreadsAssumption, IInv, DealMsg \/ SpuriousWakeup
                    PROVE  IInv'
<1> USE DEF IInv
<1>1. CASE Lock \/ Wait \/ Block \/ SpuriousWakeup
  <2> USE <1>1 DEF Lock, Wait, Block, SpuriousWakeup
  <2>1. TypeOK'
    BY DEF TypeOK, WorkerPlaces
  <2>2. MutexHeld'
    BY ThreadsAssumption DEF ThreadsAssumption, TypeOK, MutexHeld
  <2>3. WaitsOnEmpty' /\ NoLostWakeup' /\ CallBackFront'
    BY DEF WaitsOnEmpty, NoLostWakeup, CallBackFront
  <2>4. QueueIsSuffix'
    BY DEF QueueIsSuffix
  <2> QED
    BY <2>1, <2>2, <2>3, <2>4
<1>2. CASE Skip
  <2> USE <1>2 DEF Skip
  <2>1. msg_que' \in Seq(Nodes) /\ QueueIsSuffix'
    BY PopFacts
  <2>2. TypeOK'
    BY <2>1 DEF TypeOK
  <2>3. MutexHeld' /\ WaitsOnEmpty' /\ NoLostWakeup' /\ CallBackFront'
    BY DEF MutexHeld, WaitsOnEmpty, NoLostWakeup, CallBackFront
  <2> QED
    BY <2>1, <2>2, <2>3
<1>3. CASE CallBack
  <2> USE <1>3 DEF CallBack
  <2>1. Head(msg_que) \in Nodes /\ called \in Seq(Nodes)
    BY DEF TypeOK
  <2>2. /\ called' \in Seq(Nodes)
        /\ called' # <<>>
        /\ called'[Len(called')] = Head(msg_que)
    BY <2>1
  <2>3. TypeOK'
    BY <2>2 DEF TypeOK, WorkerPlaces
  <2>4. MutexHeld' /\ WaitsOnEmpty' /\ NoLostWakeup'
    BY DEF MutexHeld, WaitsOnEmpty, NoLostWakeup
  <2>5. CallBackFront'
    BY <2>2 DEF CallBackFront
  <2>6. QueueIsSuffix'
    BY DEF QueueIsSuffix
  <2> QED
    BY <2>3, <2>4, <2>5, <2>6
<1>4. CASE CallBackReturn
  <2> USE <1>4 DEF CallBackReturn
  <2>1. msg_que # <<>>
    BY DEF CallBackFront
  <2>2. msg_que' \in Seq(Nodes) /\ QueueIsSuffix'
    BY <2>1, PopFacts
  <2>3. TypeOK'
    BY <2>2 DEF TypeOK, WorkerPlaces
  <2>4. MutexHeld' /\ WaitsOnEmpty' /\ NoLostWakeup' /\ CallBackFront'
    BY DEF MutexHeld, WaitsOnEmpty, NoLostWakeup, CallBackFront
  <2> QED
    BY <2>2, <2>3, <2>4
<1>5. CASE Exit
  <2> USE <1>5 DEF Exit
  <2>1. TypeOK'
    BY DEF TypeOK, WorkerPlaces
  <2>2. MutexHeld'
    BY ThreadsAssumption DEF ThreadsAssumption, TypeOK, MutexHeld
  <2>3. WaitsOnEmpty' /\ NoLostWakeup' /\ CallBackFront' /\ QueueIsSuffix'
    BY DEF WaitsOnEmpty, NoLostWakeup, CallBackFront, QueueIsSuffix
  <2> QED
    BY <2>1, <2>2, <2>3
<1> QED
  BY <1>1, <1>2, <1>3, <1>4, <1>5 DEF DealMsg

LEMMA NextIInv == ASSUME ThreadsAssumption PROVE IInv /\ [Next]_vars => IInv'
<1> SUFFICES ASSUME IInv, [Next]_vars
             PROVE  IInv'
  OBVIOUS
<1>1. ASSUME NEW p \in Posters, PostMsgToQue(p)
      PROVE  IInv'
  BY <1>1, PosterIInv
<1>2. CASE DealMsg \/ SpuriousWakeup
  BY <1>2, WorkerIInv
<1>3. CASE Destroy \/ DestroyThread
  <2>1. TypeOK'
    BY <1>3 DEF IInv, TypeOK, Destroy, DestroyThread
  <2>2. (MutexHeld /\ WaitsOnEmpty /\ NoLostWakeup /\ CallBackFront /\ QueueIsSuffix)'
    BY <1>3 DEF IInv, Destroy, DestroyThread, MutexHeld, WaitsOnEmpty,
                NoLostWakeup, CallBackFront, QueueIsSuffix
  <2> QED
    BY <2>1, <2>2 DEF IInv
<1>4. CASE Aborted \/ UNCHANGED vars
  BY <1>4 DEF Aborted, vars, IInv, TypeOK, MutexHeld, WaitsOnEmpty,
              NoLostWakeup, CallBackFront, QueueIsSuffix
<1> QED
  BY <1>1, <1>2, <1>3, <1>4 DEF Next

LEMMA Invariant == ASSUME ThreadsAssumption PROVE Spec => []IInv
  BY InitIInv, NextIInv, PTL DEF Spec

-----------------------------------------------------------------------------
(* The results.                                                             *)

\* Types: every variable of the logic layer stays in its domain; what is
\* popped and handed to a callback is always a node that was posted
\* (LogicSystem.cpp:29-84).
THEOREM Typing == ASSUME ThreadsAssumption PROVE Spec => []TypeOK
  BY Invariant, PTL DEF IInv

\* Mutual exclusion: at any time one thread at most is inside the part of
\* DealMsg or PostMsgToQue that touches _msg_que, and it holds the mutex.
THEOREM Exclusion == ASSUME ThreadsAssumption PROVE Spec => []MutexHeld
  BY Invariant, PTL DEF IInv

\* No lost wake-up: notifying only when the push made the size 1 is enough;
\* the worker never sleeps over a message nobody will wake it for.
THEOREM WakeupsAreKept == ASSUME ThreadsAssumption
                          PROVE  Spec => []NoLostWakeup
  BY Invariant, PTL DEF IInv

\* The reference to the front node stays valid for the whole callback.
THEOREM FrontIsKept == ASSUME ThreadsAssumption PROVE Spec => []CallBackFront
  BY Invariant, PTL DEF IInv

\* Every step of the posters and the worker is a step of the FIFO hand-off or
\* leaves it unchanged: nothing is lost, doubled or overtaken, and a node
\* without a callback is discarded in its turn.
LEMMA StepRefines == IInv /\ [Next]_vars => [Queue!Next]_(Queue!vars)
<1> SUFFICES ASSUME IInv, [Next]_vars
             PROVE  [Queue!Next]_(Queue!vars)
  OBVIOUS
<1> USE DEF IInv
<1>1. /\ msg_que \in Seq(Nodes) /\ posted \in Seq(Nodes)
      /\ Len(msg_que) \in Nat /\ Len(posted) \in Nat
      /\ Len(msg_que) <= Len(posted)
  BY DEF TypeOK, QueueIsSuffix
<1>2. msg_que # <<>> => /\ Len(msg_que) >= 1
                        /\ Head(msg_que) = posted[Len(posted) - Len(msg_que) + 1]
                        /\ Len(Tail(msg_que)) = Len(msg_que) - 1
  BY <1>1 DEF QueueIsSuffix
<1>3. ASSUME NEW p \in Posters, PostMsgToQue(p)
      PROVE  [Queue!Next]_(Queue!vars)
  <2>1. CASE Push(p)
    <3>1. node[p] \in Nodes /\ posted' = Append(posted, node[p])
      BY <2>1 DEF Push, TypeOK
    <3>2. /\ Len(msg_que') = Len(msg_que) + 1
          /\ Len(posted') = Len(posted) + 1
      BY <1>1, <2>1, <3>1 DEF Push
    <3>3. Taken' = Taken
      BY <1>1, <2>1, <3>2 DEF Push, Taken
    <3>4. Queue!Post(node[p])
      BY <2>1, <3>1, <3>3 DEF Push, Queue!Post
    <3> QED
      BY <3>1, <3>4 DEF Queue!Next
  <2>2. CASE Notify(p)
    BY <2>2 DEF Notify, Queue!vars, Taken
  <2>3. CASE \/ \E n \in Nodes : Call(p, n)
             \/ Acquire(p)
             \/ Return(p)
    BY <2>3 DEF Call, Acquire, Return, Queue!vars, Taken
  <2> QED
    BY <1>3, <2>1, <2>2, <2>3 DEF PostMsgToQue
<1>4. CASE Skip
  <2>1. /\ Taken = Len(posted) - Len(msg_que)
        /\ Taken' = Taken + 1
    BY <1>1, <1>2, <1>4 DEF Skip, Taken
  <2>2. Queue!Take
    BY <1>1, <1>2, <1>4, <2>1 DEF Skip, Queue!Take
  <2> QED
    BY <2>2 DEF Queue!Next
<1>5. CASE CallBack
  <2>1. /\ Taken = Len(posted) - Len(msg_que)
        /\ Taken' = Taken + 1
    BY <1>1, <1>2, <1>5 DEF CallBack, Taken
  <2>2. Queue!Take
    BY <1>1, <1>2, <1>5, <2>1 DEF CallBack, Queue!Take
  <2> QED
    BY <2>2 DEF Queue!Next
<1>6. CASE CallBackReturn
  <2>1. msg_que # <<>>
    BY <1>6 DEF CallBackReturn, CallBackFront
  <2>2. Taken' = Taken
    BY <1>1, <1>2, <1>6, <2>1 DEF CallBackReturn, Taken
  <2> QED
    BY <1>6, <2>2 DEF CallBackReturn, Queue!vars
<1>7. CASE Lock \/ Wait \/ Block \/ Exit \/ SpuriousWakeup
  BY <1>7 DEF Lock, Wait, Block, Exit, SpuriousWakeup, Queue!vars, Taken
<1>8. CASE Destroy
  <2>1. Taken' = Taken
    BY <1>8 DEF Destroy, Taken
  <2> QED
    BY <1>8, <2>1 DEF Destroy, Queue!Close, Queue!Next
<1>9. CASE DestroyThread
  BY <1>9 DEF DestroyThread, Queue!vars, Taken
<1>10. CASE Aborted \/ UNCHANGED vars
  BY <1>10 DEF Aborted, vars, Queue!vars, Taken
<1> QED
  BY <1>3, <1>4, <1>5, <1>6, <1>7, <1>8, <1>9, <1>10 DEF Next, DealMsg

\* The queue, the mutex, the condition variable and the worker together
\* implement the safety part of FifoHandOff (its fairness stays with TLC).
THEOREM Refinement == ASSUME ThreadsAssumption
                      PROVE  Spec => Queue!Init /\ [][Queue!Next]_(Queue!vars)
<1>1. Init => Queue!Init
  BY DEF Init, Queue!Init, Taken
<1> QED
  BY <1>1, Invariant, StepRefines, PTL DEF Spec
=============================================================================
