--------------------------- MODULE CSessionProofs ---------------------------
(***************************************************************************)
(* Proofs about CSession for every limit and every set of frames: one      *)
(* write at a time, of the front reply; the replies in the order of the    *)
(* requests; no dead entry in the map; the bound of the queue.             *)
(*                                                                         *)
(* The invariant says where the one message on its way to the socket is    *)
(* (the states of SendQueueProofs, and one more: chosen by Send, which has *)
(* unlocked and not written yet), and that indices only grow from the      *)
(* frames to the requests and from the requests to the replies.            *)
(***************************************************************************)
EXTENDS CSession, SequenceTheorems, TLAPS

Idle == /\ send_que = <<>> /\ chosen = 0
        /\ writes = <<>> /\ completions = <<>>

Chosen == /\ send_que # <<>> /\ chosen # 0 /\ chosen = Head(send_que)
          /\ writes = <<>> /\ completions = <<>>
          /\ taken < Len(posted)

Writing == /\ send_que # <<>> /\ chosen = 0
           /\ writes = <<Head(send_que)>> /\ completions = <<>>

Written == /\ send_que # <<>> /\ chosen = 0
           /\ writes = <<>> /\ completions = <<"ok">>

Failing == /\ send_que # <<>> /\ chosen = 0
           /\ writes = <<>> /\ completions = <<"error">>

Failed == /\ send_que # <<>> /\ chosen = 0
          /\ writes = <<>> /\ completions = <<>>
          /\ b_close

State == Idle \/ Chosen \/ Writing \/ Written \/ Failing \/ Failed

AcceptedSplit == accepted = wire \o Unsent

Increasing(s) == \A i, j \in 1..Len(s) : i < j => s[i] < s[j]

\* A header has been read whose request has not been posted.
Fresh == reading = "body" \/ HeadRead

PostedOrder == /\ Increasing(posted)
               /\ \A i \in 1..Len(posted) : posted[i] <= Len(frames)
               /\ Fresh => /\ frames # <<>>
                           /\ \A i \in 1..Len(posted) : posted[i] < Len(frames)

\* The requests whose reply has been accepted or refused.
Answered == IF chosen = 0 THEN taken ELSE taken + 1

\* An accepted reply is older than every request still to be answered, and than
\* the frame that is being read.
AcceptedOrder == /\ Increasing(accepted)
                 /\ \A k \in 1..Len(accepted) :
                      /\ accepted[k] <= Len(frames)
                      /\ Fresh => accepted[k] < Len(frames)
                      /\ \A j \in 1..Len(posted) : j > Answered => accepted[k] < posted[j]

IInv == /\ TypeOK
        /\ State
        /\ AcceptedSplit
        /\ QueueBound
        /\ NoDeadEntry
        /\ PostedOrder
        /\ AcceptedOrder

-----------------------------------------------------------------------------
(* Facts about sequences.                                                   *)

LEMMA ConcatAppend == ASSUME NEW S, NEW s \in Seq(S), NEW t \in Seq(S), NEW e \in S
                      PROVE  s \o Append(t, e) = Append(s \o t, e)
<1>1. <<e>> \in Seq(S) /\ s \o t \in Seq(S)
  OBVIOUS
<1>2. Append(t, e) = t \o <<e>> /\ Append(s \o t, e) = (s \o t) \o <<e>>
  BY <1>1, AppendIsConcat
<1> QED
  BY <1>1, <1>2, ConcatAssociative

LEMMA MoveHead == ASSUME NEW S, NEW s \in Seq(S), NEW t \in Seq(S), t # <<>>
                  PROVE  s \o t = Append(s, Head(t)) \o Tail(t)
<1>1. Head(t) \in S /\ Tail(t) \in Seq(S) /\ <<Head(t)>> \in Seq(S)
  BY HeadTailProperties
<1>2. t = <<Head(t)>> \o Tail(t)
  BY HeadTailAppend
<1>3. Append(s, Head(t)) = s \o <<Head(t)>>
  BY <1>1, AppendIsConcat
<1> QED
  BY <1>1, <1>2, <1>3, ConcatAssociative

\* What is larger than everything in an increasing sequence may be added to it.
LEMMA IncreasingAppend ==
  ASSUME NEW s \in Seq(Nat), NEW e \in Nat,
         Increasing(s), \A i \in 1..Len(s) : s[i] < e
  PROVE  Increasing(Append(s, e))
<1>1. /\ Append(s, e) \in Seq(Nat)
      /\ Len(Append(s, e)) = Len(s) + 1
      /\ \A i \in 1..Len(s) : Append(s, e)[i] = s[i]
      /\ Append(s, e)[Len(s) + 1] = e
  BY AppendProperties
<1>2. ASSUME NEW i \in 1..Len(s) + 1, NEW j \in 1..Len(s) + 1, i < j
      PROVE  Append(s, e)[i] < Append(s, e)[j]
  <2>1. i \in 1..Len(s)
    BY <1>2
  <2>2. CASE j \in 1..Len(s)
    BY <1>1, <1>2, <2>1, <2>2 DEF Increasing
  <2>3. CASE j = Len(s) + 1
    BY <1>1, <2>1, <2>3
  <2> QED
    BY <2>2, <2>3
<1> QED
  BY <1>1, <1>2 DEF Increasing

LEMMA RequestsAreNats == \A s \in Seq(Requests) : s \in Seq(Nat)
  BY LimitsAssumption DEF Requests

\* The length of a body is a number, of either sign.
LEMMA ShortIsInt == \A f \in Frames : Short(f.len) \in Int
<1> SUFFICES ASSUME NEW f \in Frames PROVE Short(f.len) \in Int
  OBVIOUS
<1>1. f.len \in Nat /\ SHRT_MAX \in Nat
  BY FramesAssumption, LimitsAssumption DEF Wire
<1> QED
  BY <1>1 DEF Short

-----------------------------------------------------------------------------
LEMMA InitIInv == Init => IInv
<1> SUFFICES ASSUME Init PROVE IInv
  OBVIOUS
<1> USE LimitsAssumption DEF Init
<1>1. TypeOK
  <2>1. /\ frames \in Seq(Frames) /\ posted \in Seq(Requests)
        /\ send_que \in Seq(Requests) /\ writes \in Seq(Requests)
        /\ accepted \in Seq(Requests) /\ wire \in Seq(Requests)
        /\ completions \in Seq({"ok", "error"})
    OBVIOUS
  <2>2. Len(frames) <= MaxFrames /\ taken \in 0..Len(posted) /\ reading # "body"
    OBVIOUS
  <2> QED
    BY <2>1, <2>2 DEF TypeOK
<1>2. State /\ QueueBound /\ NoDeadEntry
  BY DEF State, Idle, QueueBound, NoDeadEntry
<1>3. AcceptedSplit
  BY DEF AcceptedSplit, Unsent
<1>4. PostedOrder /\ AcceptedOrder
  BY DEF PostedOrder, AcceptedOrder, Increasing, Fresh, HeadRead
<1> QED
  BY <1>1, <1>2, <1>3, <1>4 DEF IInv

-----------------------------------------------------------------------------
(* The reads and the coroutine.                                             *)

\* A step that leaves the sending side alone keeps what is said of it.
LEMMA SenderKept == ASSUME State, AcceptedSplit, QueueBound, UNCHANGED sender,
                           UNCHANGED taken, Len(posted') >= Len(posted),
                           posted \in Seq(Requests), posted' \in Seq(Requests),
                           taken \in Nat, b_close => b_close'
                    PROVE  State' /\ AcceptedSplit' /\ QueueBound'
<1> USE DEF sender
<1>1. State'
  BY DEF State, Idle, Chosen, Writing, Written, Failing, Failed
<1>2. AcceptedSplit' /\ QueueBound'
  BY DEF AcceptedSplit, Unsent, QueueBound
<1> QED
  BY <1>1, <1>2

LEMMA ReadDoneIInv == ASSUME IInv, ReadDone PROVE IInv'
<1> USE DEF IInv
<1>1. State' /\ AcceptedSplit' /\ QueueBound'
  BY SenderKept DEF ReadDone, TypeOK
<1>2. NoDeadEntry'
  BY DEF ReadDone, NoDeadEntry
<1>3. CASE reading = "body"
  <2>1. UNCHANGED <<frames, posted, accepted, chosen, taken, reading>>
    BY <1>3 DEF ReadDone, sender
  <2>2. TypeOK'
    BY <2>1 DEF ReadDone, sender, TypeOK, BodyLen, Current
  <2>3. PostedOrder' /\ AcceptedOrder'
    BY <1>3, <2>1 DEF PostedOrder, AcceptedOrder, Increasing, Fresh, Answered
  <2> QED
    BY <1>1, <1>2, <2>2, <2>3
<1>4. CASE reading = "head"
  <2>1. PICK f \in Frames : frames' = Append(frames, f)
    BY <1>4 DEF ReadDone
  <2>2. /\ frames' \in Seq(Frames) /\ frames' # <<>>
        /\ Len(frames') = Len(frames) + 1 /\ Len(frames) \in Nat
        /\ Len(frames') <= MaxFrames
    <3>1. frames \in Seq(Frames) /\ Len(frames) < MaxFrames
      BY <1>4 DEF TypeOK, ReadDone
    <3>2. /\ frames' \in Seq(Frames) /\ frames' # <<>>
          /\ Len(frames') = Len(frames) + 1
      BY <2>1, <3>1, AppendProperties
    <3> QED
      BY <3>1, <3>2, LimitsAssumption
  <2>3. UNCHANGED <<posted, accepted, chosen, taken, reading>>
    BY DEF ReadDone, sender
  <2>4. TypeOK'
    BY <1>4, <2>2, <2>3 DEF ReadDone, sender, TypeOK
  <2>5. /\ \A i \in 1..Len(posted) : posted[i] \in Nat
        /\ \A k \in 1..Len(accepted) : accepted[k] \in Nat
    <3>1. posted \in Seq(Nat) /\ accepted \in Seq(Nat)
      BY RequestsAreNats DEF TypeOK
    <3> QED
      BY <3>1
  <2>6. PostedOrder'
    <3>1. Increasing(posted')
      BY <2>3 DEF PostedOrder, Increasing
    <3>2. \A i \in 1..Len(posted) : posted[i] < Len(frames')
      BY <2>2, <2>5 DEF PostedOrder
    <3>3. \A i \in 1..Len(posted) : posted[i] <= Len(frames')
      BY <2>2, <2>5, <3>2
    <3> QED
      BY <2>2, <2>3, <3>1, <3>2, <3>3 DEF PostedOrder
  <2>7. AcceptedOrder'
    BY <2>2, <2>3, <2>5 DEF AcceptedOrder, Increasing, Answered
  <2> QED
    BY <1>1, <1>2, <2>4, <2>6, <2>7
<1> QED
  BY <1>3, <1>4 DEF ReadDone

\* A step of the coroutine that posts nothing.
LEMMA ReaderIInv ==
  ASSUME IInv,
         \/ ReadFails \/ HeadRefused \/ HeadThrows \/ HeadUndefined \/ HeadParsed
         \/ BodyEmpty \/ ReadThrows
  PROVE  IInv'
<1> USE DEF IInv
<1>1. UNCHANGED <<frames, posted, taken, sender>> /\ (b_close => b_close')
  BY DEF ReadFails, HeadRefused, HeadThrows, HeadUndefined,
         HeadParsed, BodyEmpty, ReadThrows
<1>2. State' /\ AcceptedSplit' /\ QueueBound'
  BY <1>1, SenderKept DEF TypeOK
<1>3. Fresh' => Fresh
  BY DEF ReadFails, HeadRefused, HeadThrows, HeadUndefined,
         HeadParsed, BodyEmpty, ReadThrows, Suspend,
         Fresh, HeadRead
<1>4. PostedOrder' /\ AcceptedOrder'
  BY <1>1, <1>3 DEF PostedOrder, AcceptedOrder, Increasing, Answered, sender
<1>5. NoDeadEntry'
  BY DEF NoDeadEntry, ReadFails, HeadRefused, HeadThrows, HeadUndefined,
         HeadParsed, BodyEmpty, ReadThrows,
         Suspend
<1>6. /\ b_close' \in BOOLEAN /\ registered' \in BOOLEAN
      /\ reading' \in {"head", "body", "ended", "undefined"}
      /\ read_result' \in {"pending", "ok", "error"}
  BY DEF TypeOK, ReadFails, HeadRefused, HeadThrows, HeadUndefined,
         HeadParsed, BodyEmpty, ReadThrows, Suspend
<1>7. reading' = "body" => frames # <<>> /\ BodyLen \in 0..MAX_LENGTH
  <2>1. CASE HeadParsed
    <3>1. frames # <<>> /\ frames \in Seq(Frames)
      BY <2>1 DEF HeadParsed, PostedOrder, Fresh, TypeOK
    <3>2. Current \in Frames
      BY <3>1 DEF Current
    <3>3. BodyLen \in Int
      BY <3>2, ShortIsInt DEF BodyLen
    <3> QED
      BY <2>1, <3>1, <3>3, LimitsAssumption DEF HeadParsed, TooLong
  <2>2. CASE ReadFails
    BY <2>2 DEF ReadFails, TypeOK
  <2>3. CASE HeadRefused \/ HeadThrows \/ HeadUndefined \/ BodyEmpty \/ ReadThrows
    BY <2>3 DEF HeadRefused, HeadThrows, HeadUndefined, BodyEmpty, ReadThrows, Suspend
  <2> QED
    BY <2>1, <2>2, <2>3
<1>8. TypeOK'
  BY <1>1, <1>6, <1>7 DEF TypeOK, BodyLen, Current, sender
<1> QED
  BY <1>2, <1>4, <1>5, <1>8

\* The new request is younger than all others.
LEMMA BodyDoneIInv == ASSUME IInv, BodyDone PROVE IInv'
<1> USE DEF IInv
<1> DEFINE n == Len(frames)
<1>1. /\ frames # <<>> /\ n \in Requests /\ n \in Nat
      /\ \A i \in 1..Len(posted) : posted[i] < n
      /\ \A k \in 1..Len(accepted) : accepted[k] < n
  BY LimitsAssumption
  DEF BodyDone, BodyRead, PostedOrder, AcceptedOrder, Fresh, TypeOK, Requests
<1>2. /\ posted \in Seq(Requests) /\ posted \in Seq(Nat)
      /\ taken \in 0..Len(posted)
  BY RequestsAreNats DEF TypeOK
<1>3. posted' = Append(posted, n)
  BY DEF BodyDone
<1>4. /\ posted' \in Seq(Requests)
      /\ Len(posted') = Len(posted) + 1
      /\ \A i \in 1..Len(posted) : posted'[i] = posted[i]
      /\ posted'[Len(posted) + 1] = n
  BY <1>1, <1>2, <1>3, AppendProperties
<1>5. /\ UNCHANGED <<b_close, registered, frames, taken, sender>>
      /\ reading' = IF b_close THEN "ended" ELSE "head"
      /\ read_result' = "pending"
  BY DEF BodyDone, Suspend
<1>6. ~Fresh'
  BY <1>5 DEF Fresh, HeadRead
<1>7. State' /\ AcceptedSplit' /\ QueueBound'
  BY <1>2, <1>4, <1>5, SenderKept
<1>8. NoDeadEntry'
  BY <1>5 DEF NoDeadEntry
<1>9. TypeOK'
  <2>1. taken' \in 0..Len(posted')
    BY <1>2, <1>4, <1>5
  <2> QED
    BY <1>4, <1>5, <2>1 DEF TypeOK, sender
<1>10. PostedOrder'
  <2>1. Increasing(posted')
    BY <1>1, <1>2, <1>3, IncreasingAppend DEF PostedOrder
  <2>2. ASSUME NEW i \in 1..Len(posted') PROVE posted'[i] <= Len(frames')
    <3>1. CASE i \in 1..Len(posted)
      BY <1>4, <1>5, <3>1 DEF PostedOrder
    <3>2. CASE i = Len(posted) + 1
      BY <1>1, <1>4, <1>5, <3>2
    <3> QED
      BY <1>2, <1>4, <3>1, <3>2
  <2> QED
    BY <1>6, <2>1, <2>2 DEF PostedOrder, Increasing
<1>11. AcceptedOrder'
  <2>1. UNCHANGED <<accepted, chosen, taken, frames>>
    BY <1>5 DEF sender
  <2>2. ASSUME NEW k \in 1..Len(accepted), NEW j \in 1..Len(posted'), j > Answered
        PROVE  accepted[k] < posted'[j]
    <3>1. CASE j \in 1..Len(posted)
      BY <1>4, <2>2, <3>1 DEF AcceptedOrder
    <3>2. CASE j = Len(posted) + 1
      BY <1>1, <1>4, <3>2
    <3> QED
      BY <1>2, <1>4, <3>1, <3>2
  <2>3. Answered' = Answered
    BY <2>1 DEF Answered
  <2>4. Increasing(accepted)' /\ \A k \in 1..Len(accepted) : accepted[k] <= Len(frames)
    BY <2>1 DEF AcceptedOrder, Increasing
  <2> QED
    BY <1>6, <2>1, <2>2, <2>3, <2>4 DEF AcceptedOrder
<1> QED
  BY <1>7, <1>8, <1>9, <1>10, <1>11

-----------------------------------------------------------------------------
(* The logic worker.                                                        *)

\* Steps of the sending side leave the reader's part of the invariant alone.
LEMMA ReaderKept == ASSUME PostedOrder, UNCHANGED reader PROVE PostedOrder' /\ Fresh' = Fresh
  BY DEF reader, PostedOrder, Increasing, Fresh, HeadRead

\* A request is passed over: its id is not registered, or the queue is full.
LEMMA PassOverIInv == ASSUME IInv, SkipRequest \/ SendFull PROVE IInv'
<1> USE DEF IInv
<1>1. /\ chosen = 0 /\ taken < Len(posted) /\ taken' = taken + 1
      /\ UNCHANGED <<b_close, registered, reader, sender>>
  BY DEF SkipRequest, SendFull, AtSend, AtRequest
<1>2. TypeOK'
  BY <1>1 DEF TypeOK, reader, sender, BodyLen, Current
<1>3. State' /\ AcceptedSplit' /\ QueueBound' /\ NoDeadEntry'
  BY <1>1 DEF State, Idle, Chosen, Writing, Written, Failing, Failed, AcceptedSplit,
              Unsent, QueueBound, NoDeadEntry, reader, sender
<1>4. PostedOrder' /\ Fresh' = Fresh
  BY <1>1, ReaderKept
<1>5. AcceptedOrder'
  <2>1. Answered = taken /\ Answered' = taken + 1 /\ taken \in Nat
    BY <1>1 DEF Answered, sender, TypeOK
  <2>2. UNCHANGED <<accepted, posted, frames>>
    BY <1>1 DEF reader, sender
  <2> QED
    BY <1>4, <2>1, <2>2 DEF AcceptedOrder, Increasing
<1> QED
  BY <1>2, <1>3, <1>4, <1>5

\* The reply goes to the end of the queue.  It is younger than every reply before
\* it; and it is chosen exactly when nothing else is on its way.
LEMMA SendPushIInv == ASSUME IInv, SendPush PROVE IInv'
<1> USE DEF IInv
<1>1. /\ send_que \in Seq(Requests) /\ wire \in Seq(Requests)
      /\ accepted \in Seq(Requests) /\ accepted \in Seq(Nat)
      /\ posted \in Seq(Requests) /\ taken \in Nat
      /\ chosen = 0 /\ taken < Len(posted) /\ Answered = taken
  BY RequestsAreNats DEF TypeOK, SendPush, AtSend, AtRequest, Answered
<1>2. /\ taken + 1 \in 1..Len(posted)
      /\ Request = posted[taken + 1] /\ Request \in Requests
      /\ Request \in Nat /\ Request # 0
  BY <1>1, LimitsAssumption DEF Request, Requests
<1>3. /\ send_que' = Append(send_que, Request)
      /\ accepted' = Append(accepted, Request)
      /\ Len(send_que) <= MAX_LENGTH
      /\ UNCHANGED <<b_close, registered, reader, writes, completions, wire>>
  BY <1>1, LimitsAssumption DEF SendPush, Full
<1>4. /\ send_que # <<>> => taken' = taken + 1 /\ chosen' = chosen
      /\ send_que = <<>> => taken' = taken /\ chosen' = Head(send_que')
  BY DEF SendPush
<1>5. /\ send_que' \in Seq(Requests) /\ accepted' \in Seq(Requests)
      /\ send_que' # <<>>
      /\ Len(send_que') = Len(send_que) + 1
      /\ Len(accepted') = Len(accepted) + 1
      /\ \A k \in 1..Len(accepted) : accepted'[k] = accepted[k]
      /\ accepted'[Len(accepted) + 1] = Request
  BY <1>1, <1>2, <1>3, AppendProperties
<1>6. /\ send_que # <<>> => Head(send_que') = Head(send_que)
      /\ send_que = <<>> => Head(send_que') = Request /\ send_que' = <<Request>>
  <2>1. send_que # <<>> => Head(send_que') = Head(send_que)
    BY <1>1, <1>2, <1>3, HeadTailAppend
  <2>2. send_que = <<>> => send_que' = <<Request>>
    BY <1>3
  <2> QED
    BY <2>1, <2>2
<1>7. chosen' \in Requests \cup {0} /\ taken' \in 0..Len(posted')
  BY <1>1, <1>2, <1>3, <1>4, <1>6 DEF reader
<1>8. TypeOK'
  BY <1>3, <1>5, <1>7 DEF TypeOK, reader, BodyLen, Current
<1>9. Answered' = taken + 1
  BY <1>1, <1>2, <1>4, <1>6 DEF Answered
<1>10. State' /\ AcceptedSplit'
  <2>1. CASE send_que = <<>>
    <3>1. Idle
      BY <2>1 DEF State, Chosen, Writing, Written, Failing, Failed
    <3>2. Chosen'
      BY <1>1, <1>2, <1>3, <1>4, <1>5, <1>6, <2>1, <3>1 DEF Idle, Chosen, reader
    <3>3. Unsent = <<>> /\ Unsent' = <<Request>>
      BY <1>3, <1>6, <2>1, <3>1 DEF Idle, Unsent
    <3>4. accepted = wire
      BY <1>1, <3>3, ConcatEmptySeq DEF AcceptedSplit
    <3>5. accepted' = wire \o <<Request>>
      BY <1>1, <1>2, <1>3, <3>4, AppendIsConcat
    <3> QED
      BY <1>3, <3>2, <3>3, <3>5 DEF State, AcceptedSplit
  <2>2. CASE send_que # <<>>
    <3>1. State'
      BY <1>1, <1>3, <1>4, <1>5, <1>6, <2>2
      DEF State, Idle, Chosen, Writing, Written, Failing, Failed
    <3>2. Unsent \in Seq(Requests) /\ Unsent' = Append(Unsent, Request)
      BY <1>1, <1>2, <1>3, <2>2 DEF Unsent
    <3>3. wire \o Unsent' = Append(wire \o Unsent, Request)
      BY <1>1, <1>2, <3>2, ConcatAppend
    <3> QED
      BY <1>3, <3>1, <3>3 DEF AcceptedSplit
  <2> QED
    BY <2>1, <2>2
<1>11. QueueBound' /\ NoDeadEntry'
  BY <1>1, <1>3, <1>5, LimitsAssumption DEF QueueBound, NoDeadEntry, reader
<1>12. PostedOrder' /\ Fresh' = Fresh
  BY <1>3, ReaderKept
<1>13. AcceptedOrder'
  <2>1. \A k \in 1..Len(accepted) : accepted[k] < Request
    BY <1>1, <1>2 DEF AcceptedOrder
  <2>2. Increasing(accepted')
    BY <1>1, <1>2, <1>3, <2>1, IncreasingAppend DEF AcceptedOrder
  <2>3. ASSUME NEW k \in 1..Len(accepted')
        PROVE  /\ accepted'[k] <= Len(frames)
               /\ Fresh => accepted'[k] < Len(frames)
               /\ \A j \in 1..Len(posted) : j > taken + 1 => accepted'[k] < posted[j]
    <3>1. CASE k \in 1..Len(accepted)
      <4>1. accepted'[k] = accepted[k]
        BY <1>5, <3>1
      <4>2. \A j \in 1..Len(posted) : j > taken + 1 => j > taken
        BY <1>1
      <4> QED
        BY <1>1, <3>1, <4>1, <4>2 DEF AcceptedOrder
    <3>2. CASE k = Len(accepted) + 1
      <4>1. accepted'[k] = posted[taken + 1]
        BY <1>2, <1>5, <3>2
      <4> QED
        BY <1>1, <1>2, <4>1 DEF PostedOrder, Increasing
    <3> QED
      BY <1>1, <1>5, <3>1, <3>2
  <2>4. frames' = frames /\ posted' = posted
    BY <1>3 DEF reader
  <2> QED
    BY <1>9, <1>12, <2>2, <2>3, <2>4 DEF AcceptedOrder, Increasing
<1> QED
  BY <1>8, <1>10, <1>11, <1>12, <1>13

\* Between the choice and the write nothing could be started or popped.
LEMMA SendWriteIInv == ASSUME IInv, SendWrite PROVE IInv'
<1> USE DEF IInv
<1>1. Chosen
  BY DEF SendWrite, State, Idle, Writing, Written, Failing, Failed
<1>2. /\ writes' = Append(writes, chosen) /\ chosen' = 0 /\ taken' = taken + 1
      /\ UNCHANGED <<b_close, registered, reader, send_que, completions, accepted, wire>>
  BY DEF SendWrite
<1>3. writes' = <<chosen>> /\ writes' \in Seq(Requests)
  <2>1. writes \in Seq(Requests) /\ chosen \in Requests
    BY <1>1 DEF Chosen, TypeOK
  <2> QED
    BY <1>1, <1>2, <2>1, AppendProperties DEF Chosen
<1>4. Writing'
  BY <1>1, <1>2, <1>3 DEF Chosen, Writing
<1>5. TypeOK'
  BY <1>1, <1>2, <1>3 DEF Chosen, TypeOK, reader, BodyLen, Current
<1>6. AcceptedSplit' /\ QueueBound' /\ NoDeadEntry'
  BY <1>2 DEF AcceptedSplit, Unsent, QueueBound, NoDeadEntry, reader
<1>7. PostedOrder' /\ Fresh' = Fresh
  BY <1>2, ReaderKept
<1>8. AcceptedOrder'
  BY <1>1, <1>2, <1>7 DEF Chosen, Answered, AcceptedOrder, Increasing, reader
<1> QED
  BY <1>4, <1>5, <1>6, <1>7, <1>8 DEF State

-----------------------------------------------------------------------------
(* HandleWrite and the writes.                                              *)

\* These steps leave the reader, the worker and the accepted replies alone.
LEMMA OrderKept == ASSUME PostedOrder, AcceptedOrder,
                          UNCHANGED <<reader, taken, chosen, accepted>>
                   PROVE  PostedOrder' /\ AcceptedOrder'
<1>1. PostedOrder' /\ Fresh' = Fresh
  BY ReaderKept
<1> QED
  BY <1>1 DEF AcceptedOrder, Increasing, Answered, reader

\* The write that is done was the front; the next one, if any, takes its place.
LEMMA HandleWriteIInv == ASSUME IInv, HandleWrite PROVE IInv'
<1> USE DEF IInv
<1>1. Written
  BY DEF HandleWrite, State, Idle, Chosen, Writing, Failing, Failed
<1>2. /\ send_que \in Seq(Requests) /\ send_que # <<>>
      /\ completions' = <<>> /\ completions = <<"ok">>
      /\ send_que' = Tail(send_que)
      /\ writes' = IF send_que' # <<>> THEN Append(<<>>, Head(send_que')) ELSE <<>>
      /\ UNCHANGED <<b_close, registered, reader, taken, chosen, accepted, wire>>
  BY <1>1 DEF Written, TypeOK, HandleWrite
<1>3. /\ send_que' \in Seq(Requests)
      /\ Len(send_que') = Len(send_que) - 1
      /\ Len(send_que) \in Nat
  BY <1>2
<1>4. writes' \in Seq(Requests) /\ (Idle \/ Writing)'
  <2>1. CASE send_que' = <<>>
    BY <1>1, <1>2, <2>1 DEF Written, Idle
  <2>2. CASE send_que' # <<>>
    <3>1. Head(send_que') \in Requests
      BY <1>3, <2>2
    <3>2. writes' = <<Head(send_que')>> /\ writes' \in Seq(Requests)
      BY <1>2, <2>2, <3>1
    <3> QED
      BY <1>1, <1>2, <2>2, <3>2 DEF Written, Writing
  <2> QED
    BY <2>1, <2>2
<1>5. TypeOK'
  BY <1>2, <1>3, <1>4 DEF TypeOK, reader, BodyLen, Current
<1>6. AcceptedSplit'
  BY <1>2 DEF AcceptedSplit, Unsent
<1>7. QueueBound' /\ NoDeadEntry'
  BY <1>2, <1>3, LimitsAssumption DEF QueueBound, NoDeadEntry, reader
<1>8. PostedOrder' /\ AcceptedOrder'
  BY <1>2, OrderKept
<1> QED
  BY <1>4, <1>5, <1>6, <1>7, <1>8 DEF State

LEMMA HandleWriteErrorIInv == ASSUME IInv, HandleWriteError PROVE IInv'
<1> USE DEF IInv
<1>1. Failing
  BY DEF HandleWriteError, State, Idle, Chosen, Writing, Written, Failed
<1>2. /\ completions' = <<>> /\ completions = <<"error">>
      /\ b_close' = TRUE /\ registered' = FALSE
      /\ UNCHANGED <<reader, taken, send_que, chosen, writes, accepted, wire>>
  BY <1>1 DEF Failing, HandleWriteError
<1>3. Failed'
  BY <1>1, <1>2 DEF Failing, Failed
<1>4. TypeOK'
  <2>1. completions' \in Seq({"ok", "error"})
    BY <1>2
  <2> QED
    BY <1>2, <2>1 DEF TypeOK, reader, BodyLen, Current
<1>5. AcceptedSplit' /\ QueueBound' /\ NoDeadEntry'
  BY <1>2 DEF AcceptedSplit, Unsent, QueueBound, NoDeadEntry
<1>6. PostedOrder' /\ AcceptedOrder'
  BY <1>2, OrderKept
<1> QED
  BY <1>3, <1>4, <1>5, <1>6 DEF State

LEMMA WriteFacts == ASSUME IInv, NEW i \in 1..Len(writes)
                    PROVE  /\ Writing
                           /\ writes[i] = Head(send_que)
                           /\ WithoutIndex(writes, i) = <<>>
<1>1. Writing
  BY DEF IInv, State, Idle, Chosen, Writing, Written, Failing, Failed
<1>2. writes = <<Head(send_que)>> /\ Len(writes) = 1
  BY <1>1 DEF Writing
<1>3. i = 1 /\ writes[1] = Head(send_que)
  BY <1>2
<1>4. SubSeq(writes, 1, 0) = <<>> /\ SubSeq(writes, 2, 1) = <<>>
  BY SubSeqEmpty
<1>5. WithoutIndex(writes, i) = <<>> \o <<>>
  BY <1>2, <1>3, <1>4 DEF WithoutIndex
<1> QED
  BY <1>1, <1>3, <1>5

LEMMA WriteDoneIInv == ASSUME IInv, NEW i \in 1..Len(writes), WriteDone(i)
                       PROVE  IInv'
<1> USE DEF IInv
<1>1. Writing /\ writes[i] = Head(send_que) /\ writes' = <<>>
  BY WriteFacts DEF WriteDone
<1>2. /\ send_que \in Seq(Requests) /\ send_que # <<>>
      /\ wire \in Seq(Requests) /\ Head(send_que) \in Requests
      /\ completions = <<>> /\ completions' = <<"ok">>
      /\ wire' = Append(wire, Head(send_que)) /\ wire' \in Seq(Requests)
      /\ UNCHANGED <<b_close, registered, reader, taken, send_que, chosen, accepted>>
  BY <1>1 DEF Writing, TypeOK, WriteDone
<1>3. Written'
  BY <1>1, <1>2 DEF Writing, Written
<1>4. TypeOK'
  <2>1. completions' \in Seq({"ok", "error"}) /\ writes' \in Seq(Requests)
    BY <1>1, <1>2
  <2> QED
    BY <1>2, <2>1 DEF TypeOK, reader, BodyLen, Current
<1>5. AcceptedSplit'
  <2>1. accepted = wire \o send_que
    BY <1>2 DEF AcceptedSplit, Unsent
  <2>2. Unsent' = Tail(send_que)
    BY <1>2 DEF Unsent
  <2>3. wire \o send_que = Append(wire, Head(send_que)) \o Tail(send_que)
    BY <1>2, MoveHead
  <2> QED
    BY <1>2, <2>1, <2>2, <2>3 DEF AcceptedSplit
<1>6. QueueBound' /\ NoDeadEntry'
  BY <1>2 DEF QueueBound, NoDeadEntry, reader
<1>7. PostedOrder' /\ AcceptedOrder'
  BY <1>2, OrderKept
<1> QED
  BY <1>3, <1>4, <1>5, <1>6, <1>7 DEF State

LEMMA WriteFailsIInv == ASSUME IInv, NEW i \in 1..Len(writes), WriteFails(i)
                        PROVE  IInv'
<1> USE DEF IInv
<1>1. /\ Writing /\ writes' = <<>>
      /\ completions = <<>> /\ completions' = <<"error">>
      /\ UNCHANGED <<b_close, registered, reader, taken, send_que, chosen, accepted, wire>>
  <2>1. Writing /\ writes' = <<>>
    BY WriteFacts DEF WriteFails
  <2>2. /\ completions = <<>> /\ completions' = Append(completions, "error")
        /\ UNCHANGED <<b_close, registered, reader, taken, send_que, chosen, accepted, wire>>
    BY <2>1 DEF WriteFails, Writing
  <2> QED
    BY <2>1, <2>2
<1>2. Failing'
  BY <1>1 DEF Writing, Failing
<1>3. TypeOK'
  <2>1. completions' \in Seq({"ok", "error"}) /\ writes' \in Seq(Requests)
    BY <1>1
  <2> QED
    BY <1>1, <2>1 DEF TypeOK, reader, BodyLen, Current
<1>4. AcceptedSplit' /\ QueueBound' /\ NoDeadEntry'
  BY <1>1 DEF AcceptedSplit, Unsent, QueueBound, NoDeadEntry, reader
<1>5. PostedOrder' /\ AcceptedOrder'
  BY <1>1, OrderKept
<1> QED
  BY <1>2, <1>3, <1>4, <1>5 DEF State

-----------------------------------------------------------------------------
LEMMA NextIInv == IInv /\ [Next]_vars => IInv'
<1> SUFFICES ASSUME IInv, [Next]_vars
             PROVE  IInv'
  OBVIOUS
<1>1. CASE ReadDone
  BY <1>1, ReadDoneIInv
<1>2. CASE ReadFails \/ Coroutine
  BY <1>2, ReaderIInv, BodyDoneIInv DEF Coroutine
<1>3. CASE Worker
  BY <1>3, PassOverIInv, SendPushIInv, SendWriteIInv DEF Worker
<1>4. CASE HandleWrite \/ HandleWriteError
  BY <1>4, HandleWriteIInv, HandleWriteErrorIInv
<1>5. CASE WriteEnds
  BY <1>5, WriteDoneIInv, WriteFailsIInv DEF WriteEnds
<1>6. CASE UNCHANGED vars
  <2>1. UNCHANGED <<b_close, registered, reader, taken, sender>>
    BY <1>6 DEF vars
  <2>2. TypeOK'
    BY <2>1 DEF IInv, TypeOK, BodyLen, Current, reader, sender
  <2>3. State' /\ AcceptedSplit' /\ QueueBound'
    BY <2>1 DEF IInv, State, Idle, Chosen, Writing, Written, Failing, Failed,
                AcceptedSplit, Unsent, QueueBound, reader, sender
  <2>4. NoDeadEntry' /\ PostedOrder' /\ AcceptedOrder'
    BY <2>1, OrderKept DEF IInv, NoDeadEntry, reader, sender
  <2> QED
    BY <2>2, <2>3, <2>4 DEF IInv
<1> QED
  BY <1>1, <1>2, <1>3, <1>4, <1>5, <1>6 DEF Next

LEMMA Invariant == Spec => []IInv
  BY InitIInv, NextIInv, PTL DEF Spec

-----------------------------------------------------------------------------
(* The results.                                                             *)

\* Types of the session's state.
THEOREM Typing == Spec => []TypeOK
  BY Invariant, PTL DEF IInv

\* One async_write at a time, although Send writes after it has unlocked.
THEOREM OneWrite == Spec => []AtMostOneWrite
<1>1. IInv => AtMostOneWrite
  <2> SUFFICES ASSUME IInv PROVE AtMostOneWrite
    OBVIOUS
  <2>1. CASE chosen # 0
    BY <2>1 DEF IInv, State, Idle, Chosen, Writing, Written, Failing, Failed,
                AtMostOneWrite
  <2>2. CASE chosen = 0
    <3>1. Len(writes) + Len(completions) \in {0, 1}
      <4>1. CASE writes = <<>> /\ completions = <<>>
        BY <4>1
      <4>2. CASE writes = <<Head(send_que)>> /\ completions = <<>>
        BY <4>2
      <4>3. CASE writes = <<>> /\ completions = <<"ok">>
        BY <4>3
      <4>4. CASE writes = <<>> /\ completions = <<"error">>
        BY <4>4
      <4> QED
        BY <4>1, <4>2, <4>3, <4>4
        DEF IInv, State, Idle, Chosen, Writing, Written, Failing, Failed
    <3>2. Len(writes) \in Nat /\ Len(completions) \in Nat
      BY DEF IInv, TypeOK
    <3> QED
      BY <2>2, <3>1, <3>2 DEF AtMostOneWrite
  <2> QED
    BY <2>1, <2>2
<1> QED
  BY <1>1, Invariant, PTL

\* The message chosen or being written is the front of the queue, which stays.
THEOREM BufferStays == Spec => []BufferIsFront
<1>1. IInv => BufferIsFront
  BY DEF IInv, State, Idle, Chosen, Writing, Written, Failing, Failed, BufferIsFront
<1> QED
  BY <1>1, Invariant, PTL

\* The replies are written in the order of the requests, each once at most.
THEOREM InOrder == Spec => []RepliesInOrder
<1>1. IInv => RepliesInOrder
  BY DEF IInv, AcceptedSplit, AcceptedOrder, Increasing, RepliesInOrder
<1> QED
  BY <1>1, Invariant, PTL

\* No session whose coroutine or socket has ended is left in the map.
THEOREM EntryAlive == Spec => []NoDeadEntry
  BY Invariant, PTL DEF IInv

\* A backlog of an open session is on its way.
THEOREM NeverIdle == Spec => []NeverIdleWithBacklog
<1>1. IInv => NeverIdleWithBacklog
  <2> SUFFICES ASSUME IInv, send_que # <<>>, ~b_close, chosen = 0
               PROVE  writes \o completions # <<>>
    BY DEF NeverIdleWithBacklog
  <2>1. CASE Writing
    BY <2>1 DEF Writing
  <2>2. CASE Written \/ Failing
    BY <2>2 DEF Written, Failing
  <2> QED
    BY <2>1, <2>2 DEF IInv, State, Idle, Chosen, Failed
<1> QED
  BY <1>1, Invariant, PTL

\* The queue holds MAX_LENGTH + 1 replies at most, for every MAX_LENGTH.
THEOREM Bound == Spec => []QueueBound
  BY Invariant, PTL DEF IInv

-----------------------------------------------------------------------------
(* The hand-off of replies to the peer.                                     *)

\* Every step is a step of that hand-off or leaves it unchanged: a push posts, the
\* end of a write takes, and whatever closes the socket closes it.
LEMMA SendingStep == IInv /\ IInv' /\ [Next]_vars => [Sending!Next]_(Sending!vars)
<1> SUFFICES ASSUME IInv, IInv', [Next]_vars
             PROVE  [Sending!Next]_(Sending!vars)
  OBVIOUS
<1> DEFINE Open == ~b_close /\ completions # <<"error">> /\ Defined
<1>0. CASE UNCHANGED vars
  BY <1>0 DEF vars, reader, sender, Sending!vars, Defined
<1>1. ASSUME UNCHANGED <<accepted, wire>>, Open' => Open
      PROVE  [Sending!Next]_(Sending!vars)
  <2>1. CASE Open' = Open
    BY <1>1, <2>1 DEF Sending!vars
  <2>2. CASE Open /\ ~Open'
    BY <1>1, <2>2 DEF Sending!Next, Sending!Close
  <2> QED
    BY <1>1, <2>1, <2>2
<1>2. CASE Defined /\ (ReadDone \/ ReadFails \/ Coroutine)
  <2>1. UNCHANGED <<accepted, wire, completions>> /\ (b_close => b_close')
    BY <1>2 DEF ReadDone, ReadFails, Coroutine, HeadRefused, HeadThrows, HeadUndefined,
                HeadParsed, BodyEmpty, BodyDone, ReadThrows, sender
  <2> QED
    BY <1>1, <1>2, <2>1
<1>3. CASE SkipRequest \/ SendFull \/ SendWrite
  BY <1>1, <1>3 DEF SkipRequest, SendFull, SendWrite, reader, sender, Defined
<1>4. CASE SendPush
  <2>1. Request \in Requests
    BY <1>4, LimitsAssumption
    DEF SendPush, AtSend, AtRequest, IInv, TypeOK, Request, Requests
  <2>2. Sending!Post(Request)
    BY <1>4 DEF SendPush, Sending!Post, reader, Defined
  <2> QED
    BY <2>1, <2>2 DEF Sending!Next
<1>5. CASE HandleWrite
  <2>1. completions = <<"ok">>
    BY <1>5 DEF HandleWrite, IInv, State, Idle, Chosen, Writing, Written, Failing, Failed
  <2>2. UNCHANGED <<accepted, wire, b_close, reading>> /\ (Open' => Open)
    BY <1>5, <2>1 DEF HandleWrite, reader, Defined
  <2> QED
    BY <1>1, <2>2
<1>6. CASE HandleWriteError
  BY <1>1, <1>6 DEF HandleWriteError, reader, Defined
<1>7. ASSUME NEW i \in 1..Len(writes), WriteDone(i)
      PROVE  [Sending!Next]_(Sending!vars)
  <2>1. Writing /\ writes[i] = Head(send_que)
    BY <1>7, WriteFacts
  <2>2. /\ wire \in Seq(Requests) /\ send_que \in Seq(Requests) /\ send_que # <<>>
        /\ Len(wire) \in Nat /\ Len(send_que) \in Nat \ {0}
        /\ Head(send_que) \in Requests /\ Head(send_que) = send_que[1]
    BY <2>1 DEF IInv, TypeOK, Writing
  <2>3. accepted = wire \o send_que
    BY <2>1 DEF IInv, Writing, AcceptedSplit, Unsent
  <2>4. /\ Len(accepted) = Len(wire) + Len(send_que)
        /\ \A j \in 1..Len(wire) + Len(send_que) :
             accepted[j] = IF j <= Len(wire) THEN wire[j] ELSE send_que[j - Len(wire)]
    BY <2>2, <2>3, ConcatProperties
  <2>5. /\ Len(wire) < Len(accepted)
        /\ accepted[Len(wire) + 1] = Head(send_que)
    BY <2>2, <2>4
  <2>6. wire' = Append(wire, Head(send_que)) /\ Len(wire') = Len(wire) + 1
    BY <1>7, <2>1, <2>2 DEF WriteDone
  <2>7. Open' = Open
    BY <1>7, <2>1 DEF WriteDone, Writing, reader, Defined
  <2>8. Sending!Take
    BY <1>7, <2>2, <2>5, <2>6, <2>7 DEF WriteDone, Sending!Take
  <2> QED
    BY <2>8 DEF Sending!Next
<1>8. ASSUME NEW i \in 1..Len(writes), WriteFails(i)
      PROVE  [Sending!Next]_(Sending!vars)
  <2>1. UNCHANGED <<accepted, wire, b_close, reading>> /\ completions = <<>>
    BY <1>8, WriteFacts DEF WriteFails, Writing, reader
  <2> QED
    BY <1>1, <2>1 DEF Defined
<1> QED
  BY <1>0, <1>2, <1>3, <1>4, <1>5, <1>6, <1>7, <1>8 DEF Next, Worker, WriteEnds

\* The replies of a session satisfy the safety part of the FIFO hand-off.
THEOREM SendingRefinement == Spec => Sending!Init /\ [][Sending!Next]_(Sending!vars)
<1>1. Init => Sending!Init
  BY DEF Init, Sending!Init, Defined
<1> QED
  BY <1>1, Invariant, SendingStep, PTL DEF Spec

-----------------------------------------------------------------------------
(* The hand-off of requests to the logic layer.                             *)

\* While the coroutine runs every frame but the one being read has been posted.
Whole == /\ \A i \in 1..Len(posted) : posted[i] = i
         /\ reading # "ended" /\ Defined => Len(frames) = Len(posted) + (IF Fresh THEN 1 ELSE 0)

LEMMA InitWhole == Init => Whole
  BY DEF Init, Whole, Fresh, HeadRead

LEMMA NextWhole == IInv /\ Whole /\ [Next]_vars => Whole'
<1> SUFFICES ASSUME IInv, Whole, [Next]_vars
             PROVE  Whole'
  OBVIOUS
<1>1. /\ frames \in Seq(Frames) /\ Len(frames) \in Nat
      /\ posted \in Seq(Requests) /\ Len(posted) \in Nat
      /\ reading \in {"head", "body", "ended", "undefined"}
  BY DEF IInv, TypeOK
<1> USE DEF Defined
<1>2. CASE ReadDone
  <2>1. UNCHANGED <<posted, reading>> /\ read_result = "pending" /\ read_result' = "ok"
    BY <1>2 DEF ReadDone
  <2>2. CASE reading = "head"
    <3>1. Len(frames') = Len(frames) + 1 /\ ~Fresh /\ Fresh'
      BY <1>1, <1>2, <2>1, <2>2 DEF ReadDone, Fresh, HeadRead
    <3> QED
      BY <1>1, <2>1, <2>2, <3>1 DEF Whole
  <2>3. CASE reading = "body"
    <3>1. frames' = frames /\ Fresh /\ Fresh'
      BY <1>2, <2>1, <2>3 DEF ReadDone, Fresh
    <3> QED
      BY <1>1, <2>1, <2>3, <3>1 DEF Whole
  <2> QED
    BY <1>2, <2>2, <2>3 DEF ReadDone
<1>3. CASE Defined /\ (\/ ReadFails \/ HeadRefused \/ HeadThrows \/ HeadUndefined
                        \/ HeadParsed \/ BodyEmpty \/ ReadThrows)
  <2>1. UNCHANGED <<frames, posted>> /\ (reading' # "ended" /\ Defined' => Fresh' = Fresh)
    BY <1>3 DEF ReadFails, HeadRefused, HeadThrows, HeadUndefined,
                HeadParsed, BodyEmpty, ReadThrows, Suspend,
                Fresh, HeadRead
  <2>2. reading' # "ended" /\ Defined' => reading # "ended" /\ Defined
    BY <1>3 DEF ReadFails, HeadRefused, HeadThrows, HeadUndefined,
                HeadParsed, BodyEmpty, ReadThrows, Suspend,
                HeadRead, BodyRead
  <2> QED
    BY <2>1, <2>2 DEF Whole
<1>4. CASE BodyDone
  <2>1. /\ posted' = Append(posted, Len(frames)) /\ frames' = frames
        /\ Fresh /\ ~Fresh' /\ reading = "body"
    BY <1>4 DEF BodyDone, BodyRead, Suspend, Fresh, HeadRead
  <2>2. Len(frames) = Len(posted) + 1
    BY <2>1 DEF Whole
  <2>3. /\ Len(posted') = Len(posted) + 1
        /\ \A i \in 1..Len(posted) : posted'[i] = posted[i]
        /\ posted'[Len(posted) + 1] = Len(posted) + 1
    <3>1. posted \in Seq(Nat)
      BY <1>1, RequestsAreNats
    <3> QED
      BY <1>1, <2>1, <2>2, <3>1, AppendProperties
  <2> QED
    BY <1>1, <2>1, <2>2, <2>3 DEF Whole
<1>5. CASE UNCHANGED reader
  BY <1>5 DEF reader, Whole, Fresh, HeadRead
<1>6. CASE Worker \/ HandleWrite \/ HandleWriteError \/ WriteEnds
  BY <1>5, <1>6 DEF Worker, SkipRequest, SendFull, SendPush, SendWrite, HandleWrite,
                    HandleWriteError, WriteEnds, WriteDone, WriteFails
<1> QED
  BY <1>2, <1>3, <1>4, <1>5, <1>6 DEF Next, Coroutine, vars

LEMMA InvariantWhole == Spec => []Whole
  BY Invariant, InitWhole, NextWhole, PTL DEF Spec

\* Every step is a step of that hand-off or leaves it unchanged: a header posts its
\* frame, a request handed on takes it, and whatever ends the session closes it.
LEMMA ReceivingStep ==
  IInv /\ IInv' /\ Whole /\ [Next]_vars => [Receiving!Next]_(Receiving!vars)
<1> SUFFICES ASSUME IInv, IInv', Whole, [Next]_vars
             PROVE  [Receiving!Next]_(Receiving!vars)
  OBVIOUS
<1> USE DEF Defined
<1> DEFINE Open == ~b_close /\ reading # "ended" /\ Defined
           called == [i \in 1..Len(posted) |-> frames[posted[i]]]
<1>1. /\ frames \in Seq(Frames) /\ Len(frames) \in Nat
      /\ posted \in Seq(Requests) /\ posted \in Seq(Nat) /\ Len(posted) \in Nat
      /\ \A i \in 1..Len(posted) : posted[i] = i /\ i <= Len(frames)
  <2>1. /\ frames \in Seq(Frames) /\ Len(frames) \in Nat
        /\ posted \in Seq(Requests) /\ posted \in Seq(Nat) /\ Len(posted) \in Nat
    BY RequestsAreNats DEF IInv, TypeOK
  <2>2. ASSUME NEW i \in 1..Len(posted) PROVE posted[i] = i /\ i <= Len(frames)
    <3>1. posted[i] = i
      BY DEF Whole
    <3>2. posted[i] <= Len(frames)
      BY DEF IInv, PostedOrder
    <3> QED
      BY <3>1, <3>2
  <2> QED
    BY <2>1, <2>2
<1>2. ASSUME UNCHANGED <<frames, posted>>, Open' => Open
      PROVE  [Receiving!Next]_(Receiving!vars)
  <2>1. called' = called /\ Len(posted)' = Len(posted)
    BY <1>2
  <2>2. CASE Open' = Open
    BY <1>2, <2>1, <2>2 DEF Receiving!vars
  <2>3. CASE Open /\ ~Open'
    BY <1>2, <2>1, <2>3 DEF Receiving!Next, Receiving!Close
  <2> QED
    BY <1>2, <2>2, <2>3
<1>3. CASE ReadDone
  <2>1. UNCHANGED <<b_close, posted, reading>>
    BY <1>3 DEF ReadDone
  <2>2. CASE UNCHANGED frames
    BY <1>2, <2>1, <2>2
  <2>3. ASSUME NEW f \in Frames, frames' = Append(frames, f)
        PROVE  [Receiving!Next]_(Receiving!vars)
    <3>1. \A i \in 1..Len(frames) : frames'[i] = frames[i]
      BY <1>1, <2>3, AppendProperties
    <3>2. called' = called
      BY <1>1, <2>1, <3>1
    <3>3. Receiving!Post(f)
      BY <2>1, <2>3, <3>2 DEF Receiving!Post
    <3> QED
      BY <3>3 DEF Receiving!Next
  <2> QED
    BY <1>3, <2>2, <2>3 DEF ReadDone
<1>4. CASE Defined /\ (\/ ReadFails \/ HeadRefused \/ HeadThrows \/ HeadUndefined
                        \/ HeadParsed \/ BodyEmpty \/ ReadThrows)
  <2>1. UNCHANGED <<frames, posted>>
    BY <1>4 DEF ReadFails, HeadRefused, HeadThrows, HeadUndefined,
                HeadParsed, BodyEmpty, ReadThrows
  <2>2. Open' => Open
    BY <1>4 DEF ReadFails, HeadRefused, HeadThrows, HeadUndefined,
                HeadParsed, BodyEmpty, ReadThrows, Suspend,
                HeadRead, BodyRead
  <2> QED
    BY <1>2, <2>1, <2>2
<1>5. CASE BodyDone
  <2>1. /\ posted' = Append(posted, Len(frames))
        /\ UNCHANGED <<frames, b_close>>
        /\ reading = "body" /\ reading' = (IF b_close THEN "ended" ELSE "head")
    BY <1>5 DEF BodyDone, BodyRead, Suspend
  <2>2. Len(frames) = Len(posted) + 1
    BY <2>1 DEF Whole, Fresh
  <2>3. /\ Len(posted') = Len(posted) + 1
        /\ \A i \in 1..Len(posted) : posted'[i] = posted[i]
        /\ posted'[Len(posted) + 1] = Len(frames)
    BY <1>1, <2>1, AppendProperties
  <2>4. Open' = Open
    BY <2>1
  <2>5. called' = Append(called, frames[Len(posted) + 1])
    <3>1. called \in Seq(Frames) /\ Len(called) = Len(posted)
      BY <1>1
    <3>2. frames[Len(posted) + 1] \in Frames
      BY <1>1, <2>2
    <3>3. /\ called' = [i \in 1..Len(posted) + 1 |-> frames[posted'[i]]]
          /\ \A i \in 1..Len(posted) : called'[i] = called[i]
          /\ called'[Len(posted) + 1] = frames[Len(posted) + 1]
      BY <1>1, <2>1, <2>2, <2>3
    <3>4. called' \in Seq(Frames) /\ Len(called') = Len(posted) + 1
      BY <1>1, <2>1, <2>2, <2>3
    <3> HIDE DEF called
    <3>5. /\ Append(called, frames[Len(posted) + 1]) \in Seq(Frames)
          /\ Len(Append(called, frames[Len(posted) + 1])) = Len(posted) + 1
          /\ \A i \in 1..Len(posted) :
               Append(called, frames[Len(posted) + 1])[i] = called[i]
          /\ Append(called, frames[Len(posted) + 1])[Len(posted) + 1]
               = frames[Len(posted) + 1]
      BY <3>1, <3>2, AppendProperties
    <3>6. \A i \in 1..Len(posted) + 1 :
            called'[i] = Append(called, frames[Len(posted) + 1])[i]
      <4> TAKE i \in 1..Len(posted) + 1
      <4>1. CASE i \in 1..Len(posted)
        BY <3>3, <3>5, <4>1
      <4>2. CASE i = Len(posted) + 1
        BY <3>3, <3>5, <4>2
      <4>3. i \in 1..Len(posted) \/ i = Len(posted) + 1
        <5>1. Len(posted) \in Nat
          BY <1>1
        <5> QED
          BY <5>1
      <4> QED
        BY <4>1, <4>2, <4>3
    <3> QED
      BY <3>4, <3>5, <3>6, SeqEqual
  <2>6. frames[Len(posted) + 1] \in Frames
    BY <1>1, <2>2
  <2>7. Receiving!Take
    BY <1>1, <2>1, <2>2, <2>3, <2>4, <2>5, <2>6 DEF Receiving!Take
  <2> QED
    BY <2>7 DEF Receiving!Next
<1>6. CASE Worker \/ HandleWrite \/ HandleWriteError \/ WriteEnds
  <2>1. UNCHANGED reader /\ (b_close => b_close')
    BY <1>6 DEF Worker, SkipRequest, SendFull, SendPush, SendWrite, HandleWrite,
                HandleWriteError, WriteEnds, WriteDone, WriteFails
  <2>2. UNCHANGED <<frames, posted, reading>>
    BY <2>1 DEF reader
  <2> QED
    BY <1>2, <2>1, <2>2
<1>7. CASE UNCHANGED vars
  BY <1>2, <1>7 DEF vars, reader
<1> QED
  BY <1>3, <1>4, <1>5, <1>6, <1>7 DEF Next, Coroutine

\* The reading coroutine satisfies the safety part of the FIFO hand-off: every frame
\* is posted once, whole and in order, as long as the session is open.
THEOREM ReceivingRefinement == Spec => Receiving!Init /\ [][Receiving!Next]_(Receiving!vars)
<1>1. Init => Receiving!Init
  BY DEF Init, Receiving!Init, Defined
<1> QED
  BY <1>1, Invariant, InvariantWhole, ReceivingStep, PTL DEF Spec
=============================================================================
