--------------------------- MODULE SendQueueProofs ---------------------------
(***************************************************************************)
(* Proofs about SendQueue for every MAX_SENDQUE and every number of calls: *)
(* one write at a time, of the front node; what is accepted is written in  *)
(* order; the bound of the queue.                                          *)
(*                                                                         *)
(* The invariant behind them says where the session's only write is: the   *)
(* queue is empty and no write or handler exists; or the write of the      *)
(* front is in progress; or it is done and its handler waits; or an error  *)
(* has been seen and nothing will happen again.                            *)
(***************************************************************************)
EXTENDS SendQueue, SequenceTheorems, TLAPS

Idle == /\ send_queue = <<>>
        /\ writes = <<>> /\ completions = <<>>
        /\ ~broken /\ ~write_failed

Writing == /\ send_queue # <<>>
           /\ writes = <<Head(send_queue)>> /\ completions = <<>>
           /\ ~broken /\ ~write_failed

Written == /\ send_queue # <<>>
           /\ writes = <<>> /\ completions = <<"ok">>
           /\ ~broken /\ ~write_failed

Failing == /\ send_queue # <<>>
           /\ writes = <<>> /\ completions = <<"error">>
           /\ broken /\ ~write_failed

Failed == /\ send_queue # <<>>
          /\ writes = <<>> /\ completions = <<>>
          /\ broken /\ write_failed

\* A call of Send has a number; the flag is clear from its reset to its use.
Calling == spc = "lock" => calls \in Msgs /\ ~send_pending

IInv == /\ TypeOK
        /\ Idle \/ Writing \/ Written \/ Failing \/ Failed
        /\ Calling
        /\ WireInOrder
        /\ QueueBound

-----------------------------------------------------------------------------
(* Facts about sequences.                                                   *)

LEMMA ConcatAppend == ASSUME NEW S, NEW s \in Seq(S), NEW t \in Seq(S), NEW e \in S
                      PROVE  s \o Append(t, e) = Append(s \o t, e)
<1>1. <<e>> \in Seq(S) /\ s \o t \in Seq(S)
  OBVIOUS
<1>2. Append(t, e) = t \o <<e>> /\ Append(s \o t, e) = (s \o t) \o <<e>>
  BY <1>1, AppendIsConcat
<1> QED
  BY <1>1, <1>2, ConcatAssociative

LEMMA MoveHead == ASSUME NEW S, NEW s \in Seq(S), NEW t \in Seq(S), t # <<>>
                  PROVE  s \o t = Append(s, Head(t)) \o Tail(t)
<1>1. Head(t) \in S /\ Tail(t) \in Seq(S) /\ <<Head(t)>> \in Seq(S)
  BY HeadTailProperties
<1>2. t = <<Head(t)>> \o Tail(t)
  BY HeadTailAppend
<1>3. Append(s, Head(t)) = s \o <<Head(t)>>
  BY <1>1, AppendIsConcat
<1> QED
  BY <1>1, <1>2, <1>3, ConcatAssociative

-----------------------------------------------------------------------------
LEMMA InitIInv == ASSUME SendQueueAssumption PROVE Init => IInv
<1> SUFFICES ASSUME Init PROVE IInv
  OBVIOUS
<1> USE SendQueueAssumption DEF SendQueueAssumption, Init
<1>1. TypeOK
  <2>1. /\ send_queue \in Seq(Msgs) /\ writes \in Seq(Msgs)
        /\ completions \in Seq(Results)
        /\ accepted \in Seq(Msgs) /\ wire \in Seq(Msgs)
    OBVIOUS
  <2>2. calls \in 0..MaxSends
    OBVIOUS
  <2> QED
    BY <2>1, <2>2, Zenon DEF TypeOK
<1>2. Idle /\ Calling /\ QueueBound
  BY DEF Idle, Calling, QueueBound
<1>3. WireInOrder
  BY DEF WireInOrder, Unsent
<1> QED
  BY <1>1, <1>2, <1>3 DEF IInv

-----------------------------------------------------------------------------
(* Send.                                                                    *)

LEMMA SendEnterIInv == ASSUME SendQueueAssumption, IInv, SendEnter PROVE IInv'
<1> USE SendQueueAssumption DEF SendQueueAssumption, IInv, SendEnter
<1>1. TypeOK' /\ Calling'
  <2>1. calls' \in 0..MaxSends /\ calls' \in Msgs
    BY DEF TypeOK, Msgs
  <2> QED
    BY <2>1 DEF TypeOK, Calling
<1>2. (Idle \/ Writing \/ Written \/ Failing \/ Failed)'
  BY DEF Idle, Writing, Written, Failing, Failed
<1>3. WireInOrder' /\ QueueBound'
  BY DEF WireInOrder, Unsent, QueueBound
<1> QED
  BY <1>1, <1>2, <1>3

LEMMA SendFullIInv == ASSUME IInv, SendFull PROVE IInv'
<1> USE DEF IInv, SendFull
<1>1. TypeOK' /\ Calling'
  BY DEF TypeOK, Calling
<1>2. (Idle \/ Writing \/ Written \/ Failing \/ Failed)'
  BY DEF Idle, Writing, Written, Failing, Failed
<1>3. WireInOrder' /\ QueueBound'
  BY DEF WireInOrder, Unsent, QueueBound
<1> QED
  BY <1>1, <1>2, <1>3

\* A push goes to the end of what is unsent; it starts a write exactly when the
\* queue was empty, and then nothing else was in progress.
LEMMA SendPushIInv == ASSUME SendQueueAssumption, IInv, SendPush PROVE IInv'
<1> USE SendQueueAssumption DEF SendQueueAssumption, IInv, SendPush
<1>1. /\ send_queue \in Seq(Msgs) /\ wire \in Seq(Msgs) /\ accepted \in Seq(Msgs)
      /\ calls \in Msgs
      /\ ~send_pending
  BY DEF TypeOK, Calling
<1>2. /\ send_queue' \in Seq(Msgs) /\ accepted' \in Seq(Msgs)
      /\ send_queue' # <<>>
      /\ Len(send_queue') = Len(send_queue) + 1
      /\ Head(send_queue') \in Msgs
      /\ send_queue # <<>> => Head(send_queue') = Head(send_queue)
      /\ send_queue = <<>> => send_queue' = <<calls>> /\ Head(send_queue') = calls
  <2>1. send_queue' = Append(send_queue, calls) /\ accepted' = Append(accepted, calls)
    OBVIOUS
  <2> HIDE DEF SendPush
  <2>2. /\ send_queue' \in Seq(Msgs) /\ accepted' \in Seq(Msgs)
        /\ send_queue' # <<>>
        /\ Len(send_queue') = Len(send_queue) + 1
    BY <1>1, <2>1, AppendProperties
  <2>3. /\ send_queue # <<>> => Head(send_queue') = Head(send_queue)
        /\ send_queue = <<>> => Head(send_queue') = calls
    BY <1>1, <2>1, HeadTailAppend
  <2>4. send_queue = <<>> => send_queue' = <<calls>>
    BY <2>1
  <2>5. Head(send_queue') \in Msgs
    BY <2>2, HeadTailProperties
  <2> QED
    BY <2>2, <2>3, <2>4, <2>5
<1>3. /\ send_pending' <=> send_queue # <<>>
      /\ send_pending' \in BOOLEAN
  BY <1>1
<1>4. CASE send_queue = <<>>
  <2>1. Idle
    BY <1>4 DEF Writing, Written, Failing, Failed
  <2>2. writes' = <<Head(send_queue')>>
    BY <1>2, <1>3, <1>4, <2>1 DEF Idle
  <2>3. Writing'
    BY <1>2, <2>1, <2>2 DEF Idle, Writing
  <2>4. TypeOK'
    <3>1. writes' = Append(writes, Head(send_queue')) /\ writes \in Seq(Msgs)
      BY <1>3, <1>4 DEF TypeOK
    <3>2. writes' \in Seq(Msgs)
      BY <1>2, <3>1, AppendProperties
    <3> QED
      BY <1>2, <1>3, <3>2 DEF TypeOK
  <2>5. WireInOrder'
    <3>1. Unsent = <<>> /\ Unsent' = <<calls>>
      BY <1>2, <1>4, <2>1 DEF Idle, Unsent
    <3>2. accepted = wire
      BY <1>1, <3>1, ConcatEmptySeq DEF WireInOrder
    <3>3. accepted' = wire \o <<calls>>
      BY <1>1, <3>2, AppendIsConcat
    <3> QED
      BY <3>1, <3>3 DEF WireInOrder
  <2> QED
    BY <1>2, <1>4, <2>3, <2>4, <2>5 DEF Calling, QueueBound
<1>5. CASE send_queue # <<>>
  <2>1. writes' = writes
    BY <1>3, <1>5
  <2>2. (Writing \/ Written \/ Failing \/ Failed)'
    BY <1>2, <1>5, <2>1 DEF Idle, Writing, Written, Failing, Failed
  <2>3. TypeOK'
    BY <1>2, <1>3, <2>1 DEF TypeOK
  <2>4. WireInOrder'
    <3>1. Unsent \in Seq(Msgs) /\ Unsent' = Append(Unsent, calls)
      BY <1>1, <1>5 DEF Unsent
    <3>2. wire \o Unsent' = Append(wire \o Unsent, calls)
      BY <1>1, <3>1, ConcatAppend
    <3> QED
      BY <3>2 DEF WireInOrder
  <2>5. Calling' /\ QueueBound'
    BY <1>1, <1>2 DEF Calling, QueueBound, Full
  <2> QED
    BY <2>2, <2>3, <2>4, <2>5
<1> QED
  BY <1>4, <1>5

-----------------------------------------------------------------------------
(* handle_write.                                                            *)

\* The write that is done was the front; the next one, if any, takes its place.
LEMMA HandleWriteIInv == ASSUME SendQueueAssumption, IInv, HandleWrite PROVE IInv'
<1> USE DEF IInv, HandleWrite
<1>1. Written
  BY DEF Idle, Writing, Written, Failing, Failed
<1>2. /\ send_queue \in Seq(Msgs) /\ send_queue # <<>>
      /\ completions' = <<>>
      /\ send_queue' = Tail(send_queue)
  BY <1>1 DEF Written, TypeOK
<1>3. /\ send_queue' \in Seq(Msgs)
      /\ Len(send_queue') = Len(send_queue) - 1
      /\ Len(send_queue) \in Nat
  BY <1>2
<1>4. TypeOK' /\ (Idle \/ Writing)'
  <2>1. CASE send_queue' = <<>>
    BY <1>1, <1>2, <1>3, <2>1 DEF Written, Idle, TypeOK
  <2>2. CASE send_queue' # <<>>
    <3>1. Head(send_queue') \in Msgs
      BY <1>3, <2>2
    <3>2. writes' = <<Head(send_queue')>> /\ writes' \in Seq(Msgs)
      BY <1>1, <2>2, <3>1 DEF Written
    <3>3. TypeOK'
      BY <1>2, <1>3, <3>2 DEF TypeOK
    <3> QED
      BY <1>1, <1>2, <2>2, <3>2, <3>3 DEF Written, Writing
  <2> QED
    BY <2>1, <2>2
<1>5. WireInOrder'
  BY <1>1, <1>2 DEF Written, WireInOrder, Unsent
<1>6. QueueBound'
  <2>1. Len(send_queue) <= MAX_SENDQUE + 1
    BY DEF QueueBound
  <2> QED
    BY <1>3, <2>1, SendQueueAssumption DEF SendQueueAssumption, QueueBound
<1>7. Calling'
  BY DEF Calling
<1> QED
  BY <1>4, <1>5, <1>6, <1>7

LEMMA HandleWriteErrorIInv == ASSUME IInv, HandleWriteError PROVE IInv'
<1> USE DEF IInv, HandleWriteError
<1>1. Failing
  BY DEF Idle, Writing, Written, Failing, Failed
<1>2. completions' = <<>>
  BY <1>1 DEF Failing
<1>3. TypeOK' /\ Failed'
  BY <1>1, <1>2 DEF Failing, Failed, TypeOK
<1>4. WireInOrder'
  BY <1>1, <1>2 DEF Failing, WireInOrder, Unsent
<1> QED
  BY <1>3, <1>4 DEF Calling, QueueBound

-----------------------------------------------------------------------------
(* The socket.                                                              *)

LEMMA SocketFacts == ASSUME IInv, NEW i \in 1..Len(writes)
                     PROVE  /\ Writing
                            /\ i = 1 /\ writes[1] = Head(send_queue)
                            /\ WithoutIndex(writes, i) = <<>>
<1>1. Writing
  BY DEF IInv, Idle, Writing, Written, Failing, Failed
<1>2. writes = <<Head(send_queue)>> /\ Len(writes) = 1
  BY <1>1 DEF Writing
<1>3. i = 1 /\ writes[1] = Head(send_queue)
  BY <1>2
<1>4. SubSeq(writes, 1, 0) = <<>> /\ SubSeq(writes, 2, 1) = <<>>
  BY SubSeqEmpty
<1>5. WithoutIndex(writes, i) = <<>> \o <<>>
  BY <1>2, <1>3, <1>4 DEF WithoutIndex
<1> QED
  BY <1>1, <1>3, <1>5

LEMMA WriteDoneIInv == ASSUME IInv, NEW i \in 1..Len(writes), WriteDone(i)
                       PROVE  IInv'
<1> USE DEF IInv, WriteDone
<1>1. /\ Writing
      /\ writes[i] = Head(send_queue) /\ writes' = <<>>
  BY SocketFacts
<1>2. /\ send_queue \in Seq(Msgs) /\ send_queue # <<>>
      /\ wire \in Seq(Msgs) /\ Head(send_queue) \in Msgs
      /\ completions' = <<"ok">>
  BY <1>1 DEF Writing, TypeOK
<1>3. wire' = Append(wire, Head(send_queue)) /\ wire' \in Seq(Msgs)
  BY <1>1, <1>2
<1>4. Written'
  BY <1>1, <1>2 DEF Writing, Written
<1>5. TypeOK'
  <2>1. completions' \in Seq(Results)
    <3>1. completions \in Seq(Results) /\ "ok" \in Results
      BY DEF TypeOK, Results
    <3> QED
      BY <3>1, AppendProperties
  <2>2. writes' \in Seq(Msgs)
    BY <1>1
  <2> QED
    BY <1>3, <2>1, <2>2 DEF TypeOK
<1>6. WireInOrder'
  <2>1. accepted = wire \o send_queue
    BY <1>1 DEF Writing, WireInOrder, Unsent
  <2>2. Unsent' = Tail(send_queue)
    BY <1>2 DEF Unsent
  <2>3. wire \o send_queue = Append(wire, Head(send_queue)) \o Tail(send_queue)
    BY <1>2, MoveHead
  <2> QED
    BY <1>3, <2>1, <2>2, <2>3 DEF WireInOrder
<1> QED
  BY <1>4, <1>5, <1>6 DEF Calling, QueueBound

LEMMA WriteFailsIInv == ASSUME IInv, NEW i \in 1..Len(writes), WriteFails(i)
                        PROVE  IInv'
<1> USE DEF IInv, WriteFails
<1>1. Writing /\ writes' = <<>>
  BY SocketFacts
<1>2. completions' = <<"error">>
  BY <1>1 DEF Writing
<1>3. Failing'
  BY <1>1, <1>2 DEF Writing, Failing
<1>4. TypeOK'
  <2>1. completions' \in Seq(Results)
    <3>1. completions \in Seq(Results) /\ "error" \in Results
      BY DEF TypeOK, Results
    <3> QED
      BY <3>1, AppendProperties
  <2>2. writes' \in Seq(Msgs)
    BY <1>1
  <2> QED
    BY <2>1, <2>2 DEF TypeOK
<1>5. WireInOrder'
  BY <1>1, <1>2 DEF Writing, WireInOrder, Unsent
<1> QED
  BY <1>3, <1>4, <1>5 DEF Calling, QueueBound

-----------------------------------------------------------------------------
LEMMA NextIInv == ASSUME SendQueueAssumption
                  PROVE  IInv /\ [Next]_vars => IInv'
<1> SUFFICES ASSUME IInv, [Next]_vars
             PROVE  IInv'
  OBVIOUS
<1>1. CASE Send
  BY <1>1, SendEnterIInv, SendFullIInv, SendPushIInv DEF Send
<1>2. CASE HandleWrite \/ HandleWriteError
  BY <1>2, HandleWriteIInv, HandleWriteErrorIInv
<1>3. CASE Socket
  BY <1>3, WriteDoneIInv, WriteFailsIInv DEF Socket
<1>4. CASE UNCHANGED vars
  BY <1>4 DEF vars, IInv, TypeOK, Calling, WireInOrder, QueueBound, Unsent,
              Idle, Writing, Written, Failing, Failed
<1> QED
  BY <1>1, <1>2, <1>3, <1>4 DEF Next

LEMMA Invariant == ASSUME SendQueueAssumption PROVE Spec => []IInv
  BY InitIInv, NextIInv, PTL DEF Spec

-----------------------------------------------------------------------------
(* The results.                                                             *)

\* Types of the session's sending state.
THEOREM Typing == ASSUME SendQueueAssumption PROVE Spec => []TypeOK
  BY Invariant, PTL DEF IInv

\* One async_write at a time, although two threads start them.
THEOREM OneWrite == ASSUME SendQueueAssumption PROVE Spec => []AtMostOneWrite
<1>1. IInv => AtMostOneWrite
  <2> SUFFICES ASSUME IInv PROVE AtMostOneWrite
    OBVIOUS
  <2>1. Len(writes) + Len(completions) \in {0, 1}
    <3>1. CASE writes = <<>> /\ completions = <<>>
      BY <3>1
    <3>2. CASE writes = <<Head(send_queue)>> /\ completions = <<>>
      BY <3>2
    <3>3. CASE writes = <<>> /\ completions = <<"ok">>
      BY <3>3
    <3>4. CASE writes = <<>> /\ completions = <<"error">>
      BY <3>4
    <3> QED
      BY <3>1, <3>2, <3>3, <3>4
      DEF IInv, Idle, Writing, Written, Failing, Failed
  <2> QED
    BY <2>1 DEF AtMostOneWrite
<1> QED
  BY <1>1, Invariant, PTL

\* The buffer of the write in progress is that of the front node, which stays.
THEOREM BufferStays == ASSUME SendQueueAssumption
                       PROVE  Spec => []BufferIsFront
<1>1. IInv => BufferIsFront
  BY DEF IInv, Idle, Writing, Written, Failing, Failed, BufferIsFront
<1> QED
  BY <1>1, Invariant, PTL

\* What was accepted is what was written followed by what waits, in order.
THEOREM InOrder == ASSUME SendQueueAssumption PROVE Spec => []WireInOrder
  BY Invariant, PTL DEF IInv

\* A write is on its way exactly while there is a backlog and no error has been seen.
THEOREM NeverIdle == ASSUME SendQueueAssumption
                     PROVE  Spec => []WritesIffBacklog
<1>1. IInv => WritesIffBacklog
  BY DEF IInv, Idle, Writing, Written, Failing, Failed, WritesIffBacklog
<1> QED
  BY <1>1, Invariant, PTL

\* The queue holds MAX_SENDQUE + 1 messages at most, for every MAX_SENDQUE.
THEOREM Bound == ASSUME SendQueueAssumption PROVE Spec => []QueueBound
  BY Invariant, PTL DEF IInv

\* After a failed write the session writes nothing any more.
THEOREM SilentAfterFailure == ASSUME SendQueueAssumption
                              PROVE  Spec => NoWriteAfterFailure
<1>1. IInv /\ IInv' /\ [Next]_vars => [broken => writes' = <<>> /\ wire' = wire]_vars
  <2> SUFFICES ASSUME IInv, IInv', Next, broken
               PROVE  writes' = <<>> /\ wire' = wire
    BY DEF vars
  <2>1. broken'
    BY DEF Next, Send, SendEnter, SendFull, SendPush, HandleWrite,
           HandleWriteError, Socket, WriteDone, WriteFails
  <2>2. writes' = <<>>
    BY <2>1 DEF IInv, Idle, Writing, Written, Failing, Failed
  <2>3. wire' = wire
    BY DEF Next, Send, SendEnter, SendFull, SendPush, HandleWrite,
           HandleWriteError, Socket, WriteDone, WriteFails
  <2> QED
    BY <2>2, <2>3
<1> QED
  BY <1>1, Invariant, PTL DEF Spec, NoWriteAfterFailure

\* Every step of the session is a step of the hand-off towards the peer, or
\* leaves it unchanged; a failed write closes it.
LEMMA StepRefines == IInv /\ [Next]_vars => [Stream!Next]_(Stream!vars)
<1> SUFFICES ASSUME IInv, [Next]_vars
             PROVE  [Stream!Next]_(Stream!vars)
  OBVIOUS
<1>1. CASE SendPush
  <2>1. calls \in Msgs
    BY <1>1 DEF IInv, Calling, SendPush
  <2>2. Stream!Post(calls)
    BY <1>1 DEF SendPush, Stream!Post
  <2> QED
    BY <2>1, <2>2 DEF Stream!Next
<1>2. ASSUME NEW i \in 1..Len(writes), WriteDone(i)
      PROVE  [Stream!Next]_(Stream!vars)
  <2>1. Writing /\ writes[i] = Head(send_queue)
    BY <1>2, SocketFacts
  <2>2. /\ wire \in Seq(Msgs) /\ send_queue \in Seq(Msgs) /\ send_queue # <<>>
        /\ Len(wire) \in Nat /\ Len(send_queue) \in Nat \ {0}
        /\ Head(send_queue) \in Msgs /\ Head(send_queue) = send_queue[1]
    BY <2>1 DEF IInv, TypeOK, Writing
  <2>3. accepted = wire \o send_queue
    BY <2>1 DEF IInv, Writing, WireInOrder, Unsent
  <2>4. /\ Len(accepted) = Len(wire) + Len(send_queue)
        /\ \A j \in 1..Len(wire) + Len(send_queue) :
             accepted[j] = IF j <= Len(wire) THEN wire[j] ELSE send_queue[j - Len(wire)]
    BY <2>2, <2>3, ConcatProperties
  <2>5. /\ Len(wire) < Len(accepted)
        /\ accepted[Len(wire) + 1] = Head(send_queue)
    BY <2>2, <2>4
  <2>6. wire' = Append(wire, Head(send_queue)) /\ Len(wire') = Len(wire) + 1
    BY <1>2, <2>1, <2>2 DEF WriteDone
  <2>7. Stream!Take
    BY <1>2, <2>2, <2>5, <2>6 DEF WriteDone, Stream!Take
  <2> QED
    BY <2>7 DEF Stream!Next
<1>3. ASSUME NEW i \in 1..Len(writes), WriteFails(i)
      PROVE  [Stream!Next]_(Stream!vars)
  <2>1. ~broken
    BY <1>3, SocketFacts DEF Writing
  <2> QED
    BY <1>3, <2>1 DEF WriteFails, Stream!Close, Stream!Next
<1>4. CASE SendEnter \/ SendFull \/ HandleWrite \/ HandleWriteError
  BY <1>4 DEF SendEnter, SendFull, HandleWrite, HandleWriteError, Stream!vars
<1>5. CASE UNCHANGED vars
  BY <1>5 DEF vars, Stream!vars
<1> QED
  BY <1>1, <1>2, <1>3, <1>4, <1>5 DEF Next, Send, Socket

\* One session's queue, lock and handlers implement the safety part of the
\* FIFO hand-off (its fairness stays with TLC).
THEOREM Refinement == ASSUME SendQueueAssumption
                      PROVE  Spec => Stream!Init /\ [][Stream!Next]_(Stream!vars)
<1>1. Init => Stream!Init
  BY DEF Init, Stream!Init
<1> QED
  BY <1>1, Invariant, StepRefines, PTL DEF Spec
=============================================================================
