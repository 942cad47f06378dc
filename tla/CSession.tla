------------------------------- MODULE CSession -------------------------------
(***************************************************************************)
(* One session of CoroutineService (CSession.cpp, with its entry in the    *)
(* map of CServer.cpp): requests are read by a coroutine, answered through *)
(* the logic layer, and the replies are written from a queue.              *)
(*                                                                         *)
(* Two threads meet here.  The one thread in io_context::run executes the  *)
(* coroutine and the handlers of writes, so each of them is one step from  *)
(* one suspension to the next.  The logic worker calls Send, which gives   *)
(* up the lock between choosing a message and writing it.  The logic layer *)
(* between the two is the FIFO that module LogicSystem implements.         *)
(*                                                                         *)
(* asio is external: an operation that was started ends at some time with  *)
(* success or with an error, and its continuation runs later.  A header    *)
(* with the length -1 ends the model: what the process does is undefined.  *)
(***************************************************************************)
EXTENDS WireShort, Sequences

CONSTANTS MAX_LENGTH,  \* const.h: the limit of a body and, in Send, of the queue
          Frames,      \* what a client may send: records of `known` and `len`
          MaxFrames    \* bound: the frames one client sends

ASSUME LimitsAssumption == MAX_LENGTH \in Nat /\ MaxFrames \in Nat /\ SHRT_MAX \in Nat
ASSUME FramesAssumption == Frames \subseteq [known : BOOLEAN, len : Wire]

VARIABLES
  b_close,      \* _b_close, set together with the closing of _socket
  registered,   \* the session is in the server's map
  reading,      \* the async_read the coroutine is suspended in
  read_result,  \* how that read has ended
  frames,       \* history: the frames whose header has been read
  posted,       \* the requests handed to PostMsgToQue, as indices of frames
  taken,        \* how many of them the worker has finished with
  send_que,     \* _send_que; a reply is named by the request it answers
  chosen,       \* Send between unlock and async_write: the message, or 0
  writes,       \* the buffers of the outstanding async_writes
  completions,  \* results of finished writes whose HandleWrite has not run
  accepted,     \* history: the replies pushed to _send_que
  wire          \* history: the replies written to the socket

reader == <<reading, read_result, frames, posted>>
sender == <<send_que, chosen, writes, completions, accepted, wire>>
vars == <<b_close, registered, reader, taken, sender>>

\* handle_accept and start: the coroutine waits for the first header.
Init == /\ b_close = FALSE
        /\ registered = TRUE
        /\ reading = "head"
        /\ read_result = "pending"
        /\ frames = <<>>
        /\ posted = <<>>
        /\ taken = 0
        /\ send_que = <<>>
        /\ chosen = 0
        /\ writes = <<>>
        /\ completions = <<>>
        /\ accepted = <<>>
        /\ wire = <<>>

-----------------------------------------------------------------------------
(* The reads (external).                                                    *)

\* The frame being read, once its header is there.
Current == frames[Len(frames)]
BodyLen == Short(Current.len)

\* async_read has filled the header, or the body.  A body of no bytes is full
\* at once, whatever has become of the socket.
ReadDone ==
  /\ read_result = "pending"
  /\ \/ /\ reading = "head" /\ ~b_close
        /\ Len(frames) < MaxFrames
        /\ \E f \in Frames : frames' = Append(frames, f)
     \/ /\ reading = "body" /\ (~b_close \/ BodyLen = 0)
        /\ UNCHANGED frames
  /\ read_result' = "ok"
  /\ UNCHANGED <<b_close, registered, reading, posted, taken, sender>>

\* The peer has closed, the connection is lost, or the socket was closed here.
ReadFails == /\ read_result = "pending"
             /\ reading = "head" \/ (reading = "body" /\ BodyLen > 0)
             /\ read_result' = "error"
             /\ UNCHANGED <<b_close, registered, reading, frames, posted, taken, sender>>

-----------------------------------------------------------------------------
(* The coroutine of start.                                                  *)

Suspend(place) == reading' = place /\ read_result' = "pending"

TooLong == BodyLen > MAX_LENGTH

HeadRead == reading = "head" /\ read_result = "ok"

\* Out of the map and out of the coroutine; the socket is left to the destructor.
HeadRefused == /\ HeadRead
               /\ TooLong
               /\ registered' = FALSE
               /\ Suspend("ended")
               /\ UNCHANGED <<b_close, frames, posted, taken, sender>>

\* A negative length is not refused.  RecvNode asks for len + 1 bytes: a negative
\* size throws, and the coroutine ends as after a failed read.
HeadThrows == /\ HeadRead
              /\ BodyLen < -1
              /\ b_close' = TRUE
              /\ registered' = FALSE
              /\ Suspend("ended")
              /\ UNCHANGED <<frames, posted, taken, sender>>

\* For -1 it gets no byte, and writes a zero in front of them.
HeadUndefined == /\ HeadRead
                 /\ BodyLen = -1
                 /\ Suspend("undefined")
                 /\ UNCHANGED <<b_close, registered, frames, posted, taken, sender>>

HeadParsed == /\ HeadRead
              /\ ~TooLong /\ BodyLen >= 0
              /\ Suspend("body")
              /\ UNCHANGED <<b_close, registered, frames, posted, taken, sender>>

BodyRead == reading = "body" /\ read_result = "ok"

\* Altered: an empty body is no reason to end.
BodyEmptyGoesOn == /\ BodyRead
                   /\ BodyLen = 0
                   /\ Suspend("head")
                   /\ UNCHANGED <<b_close, registered, frames, posted, taken, sender>>

\* n == 0 is taken for a closed peer; it is what an empty body gives.
BodyEmpty == /\ BodyRead
             /\ BodyLen = 0
             /\ registered' = FALSE
             /\ b_close' = TRUE
             /\ Suspend("ended")
             /\ UNCHANGED <<frames, posted, taken, sender>>

\* The request is posted; the loop goes on unless HandleWrite has closed the
\* session meanwhile.
BodyDone == /\ BodyRead
            /\ BodyLen > 0
            /\ posted' = Append(posted, Len(frames))
            /\ Suspend(IF b_close THEN "ended" ELSE "head")
            /\ UNCHANGED <<b_close, registered, frames, taken, sender>>

\* Altered: the entry in the map is forgotten.
ReadThrowsKeepsEntry == /\ read_result = "error"
                        /\ b_close' = TRUE
                        /\ Suspend("ended")
                        /\ UNCHANGED <<registered, frames, posted, taken, sender>>

\* async_read throws; the catch closes the socket and clears the entry.
ReadThrows == /\ read_result = "error"
              /\ b_close' = TRUE
              /\ registered' = FALSE
              /\ Suspend("ended")
              /\ UNCHANGED <<frames, posted, taken, sender>>

Coroutine == \/ HeadRefused \/ HeadThrows \/ HeadUndefined \/ HeadParsed
             \/ BodyEmpty \/ BodyDone \/ ReadThrows

-----------------------------------------------------------------------------
(* The logic worker, and Send.                                              *)

\* The worker is between two calls of Send and looks at the oldest request.
AtRequest == chosen = 0 /\ taken < Len(posted)
Request == posted[taken + 1]

\* No callback is registered for its id.
SkipRequest == /\ AtRequest
               /\ ~frames[Request].known
               /\ taken' = taken + 1
               /\ UNCHANGED <<b_close, registered, reader, sender>>

AtSend == AtRequest /\ frames[Request].known

Full == Len(send_que) > MAX_LENGTH

\* The reply is dropped.
SendFull == /\ AtSend
            /\ Full
            /\ taken' = taken + 1
            /\ UNCHANGED <<b_close, registered, reader, sender>>

\* Altered: one message before this one does not count.
SendPushLenient ==
  /\ AtSend
  /\ ~Full
  /\ send_que' = Append(send_que, Request)
  /\ accepted' = Append(accepted, Request)
  /\ IF Len(send_que) > 1
     THEN taken' = taken + 1 /\ UNCHANGED chosen
     ELSE chosen' = Head(send_que') /\ UNCHANGED taken
  /\ UNCHANGED <<b_close, registered, reader, writes, completions, wire>>

\* Under the lock: the reply is queued; Send returns when it was not the first,
\* otherwise it has chosen the front to be written.
SendPush ==
  /\ AtSend
  /\ ~Full
  /\ send_que' = Append(send_que, Request)
  /\ accepted' = Append(accepted, Request)
  /\ IF send_que # <<>>
     THEN taken' = taken + 1 /\ UNCHANGED chosen
     ELSE chosen' = Head(send_que') /\ UNCHANGED taken
  /\ UNCHANGED <<b_close, registered, reader, writes, completions, wire>>

\* After the unlock: the chosen message is written.
SendWrite == /\ chosen # 0
             /\ writes' = Append(writes, chosen)
             /\ chosen' = 0
             /\ taken' = taken + 1
             /\ UNCHANGED <<b_close, registered, reader, send_que, completions, accepted, wire>>

Worker == SkipRequest \/ SendFull \/ SendPush \/ SendWrite

-----------------------------------------------------------------------------
(* HandleWrite, on the thread of the coroutine.                             *)

\* Altered: the written message stays in the queue.
HandleWriteNoPop ==
  /\ completions # <<>> /\ Head(completions) = "ok"
  /\ completions' = Tail(completions)
  /\ writes' = Append(writes, Head(send_que))
  /\ UNCHANGED <<b_close, registered, reader, taken, send_que, chosen, accepted, wire>>

\* Altered: the next message is left to the next Send.
HandleWriteStops ==
  /\ completions # <<>> /\ Head(completions) = "ok"
  /\ completions' = Tail(completions)
  /\ send_que' = Tail(send_que)
  /\ UNCHANGED <<b_close, registered, reader, taken, chosen, writes, accepted, wire>>

HandleWrite ==
  /\ completions # <<>> /\ Head(completions) = "ok"
  /\ completions' = Tail(completions)
  /\ send_que' = Tail(send_que)
  /\ writes' = IF send_que' # <<>> THEN Append(writes, Head(send_que')) ELSE writes
  /\ UNCHANGED <<b_close, registered, reader, taken, chosen, accepted, wire>>

\* Altered: the socket is not closed.
HandleWriteErrorLeavesOpen ==
  /\ completions # <<>> /\ Head(completions) = "error"
  /\ completions' = Tail(completions)
  /\ registered' = FALSE
  /\ UNCHANGED <<b_close, reader, taken, send_que, chosen, writes, accepted, wire>>

\* The socket is closed, which aborts the coroutine's read, and the entry
\* cleared; the queue keeps what it holds.
HandleWriteError ==
  /\ completions # <<>> /\ Head(completions) = "error"
  /\ completions' = Tail(completions)
  /\ b_close' = TRUE
  /\ registered' = FALSE
  /\ UNCHANGED <<reader, taken, send_que, chosen, writes, accepted, wire>>

-----------------------------------------------------------------------------
(* The writes (external).                                                   *)

WithoutIndex(s, i) == SubSeq(s, 1, i - 1) \o SubSeq(s, i + 1, Len(s))

WriteDone(i) == /\ ~b_close
                /\ wire' = Append(wire, writes[i])
                /\ writes' = WithoutIndex(writes, i)
                /\ completions' = Append(completions, "ok")
                /\ UNCHANGED <<b_close, registered, reader, taken, send_que, chosen, accepted>>

\* The peer is gone, or the socket was closed here.
WriteFails(i) == /\ writes' = WithoutIndex(writes, i)
                 /\ completions' = Append(completions, "error")
                 /\ UNCHANGED <<b_close, registered, reader, taken, send_que, chosen,
                                accepted, wire>>

WriteEnds == \E i \in 1..Len(writes) : WriteDone(i) \/ WriteFails(i)

Defined == reading # "undefined"

Next == Defined /\ (\/ ReadDone \/ ReadFails
                    \/ Coroutine
                    \/ Worker
                    \/ HandleWrite \/ HandleWriteError
                    \/ WriteEnds)

\* The two threads go on when they can.  A write ends.  A client that has sent
\* a header sends the body too or is lost, and a read of a closed socket is
\* aborted; but a client may be silent for ever between two frames.
Fairness == /\ WF_vars(Defined /\ Coroutine)
            /\ WF_vars(Defined /\ Worker)
            /\ WF_vars(Defined /\ (HandleWrite \/ HandleWriteError))
            /\ WF_vars(Defined /\ WriteEnds)
            /\ WF_vars(Defined /\ (reading = "body" \/ b_close) /\ (ReadDone \/ ReadFails))

Spec == Init /\ [][Next]_vars /\ Fairness

-----------------------------------------------------------------------------
(* Properties.                                                              *)

Requests == 1..MaxFrames

TypeOK == /\ b_close \in BOOLEAN
          /\ registered \in BOOLEAN
          /\ reading \in {"head", "body", "ended", "undefined"}
          /\ read_result \in {"pending", "ok", "error"}
          /\ frames \in Seq(Frames)
          /\ Len(frames) <= MaxFrames
          /\ reading = "body" => frames # <<>> /\ BodyLen \in 0..MAX_LENGTH
          /\ posted \in Seq(Requests)
          /\ taken \in 0..Len(posted)
          /\ send_que \in Seq(Requests)
          /\ chosen \in Requests \cup {0}
          /\ writes \in Seq(Requests)
          /\ completions \in Seq({"ok", "error"})
          /\ accepted \in Seq(Requests)
          /\ wire \in Seq(Requests)

\* The write that Send has chosen and the writes that are in progress are
\* together one at most, although Send has given up the lock by the time it
\* starts its write and HandleWrite may run in between (CSession.cpp:125-128).
AtMostOneWrite == (IF chosen = 0 THEN 0 ELSE 1) + Len(writes) + Len(completions) <= 1

\* What is chosen or being written is the front of the queue, which keeps its
\* buffer alive: after async_write has been called only the queue holds the node
\* (CSession.cpp:94-98, :125-128).
BufferIsFront == \A m \in ({chosen} \ {0}) \cup {writes[i] : i \in 1..Len(writes)} :
                   send_que # <<>> /\ m = Head(send_que)

\* The replies that have not been written yet.
Unsent == IF completions = <<"ok">> THEN Tail(send_que) ELSE send_que

\* The replies leave in the order of the requests, each request is answered once
\* at most, and a reply is missing only because it was dropped at a full queue or
\* still waits: reading, logic layer and queue together keep the order.
RepliesInOrder == /\ accepted = wire \o Unsent
                  /\ \A i, j \in 1..Len(accepted) : i < j => accepted[i] < accepted[j]

\* A session in the server's map is alive: its coroutine runs and its socket is
\* open.  Every way out, of the coroutine and of HandleWrite, clears the entry
\* (CSession.cpp:38, 52, 61, 74, 83, 104).
NoDeadEntry == registered => reading # "ended" /\ ~b_close

\* While the socket is open a backlog is being written.
NeverIdleWithBacklog == send_que # <<>> /\ ~b_close => chosen # 0 \/ writes \o completions # <<>>

\* Send tests the queue against the limit of a body: this is what it holds at
\* most, also after the session was closed with its worker still replying
\* (CSession.cpp:117).
QueueBound == Len(send_que) <= MAX_LENGTH + 1

\* Every frame whose header was read is posted, whole and in order, and once,
\* unless the session ends; where a session that was closed by HandleWrite may
\* still post the one request whose body had arrived.
Receiving == INSTANCE FifoHandOff WITH
               Items <- Frames, Handled <- Frames, posted <- frames, taken <- Len(posted),
               called <- [i \in 1..Len(posted) |-> frames[posted[i]]],
               open <- ~b_close /\ reading # "ended" /\ Defined
RequestsAreTaken == Receiving!Spec

\* Every accepted reply is written, in order, unless a write fails or the socket
\* is closed.
Sending == INSTANCE FifoHandOff WITH
             Items <- Requests, Handled <- Requests, posted <- accepted,
             taken <- Len(wire), called <- wire,
             open <- ~b_close /\ completions # <<"error">> /\ Defined
RepliesAreWritten == Sending!Spec

\* A session that has left the map ends its coroutine, which holds the session:
\* also when a failed write took it out while the coroutine was waiting for a
\* silent client (CSession.cpp:103, the close in HandleWrite).  Only a header with
\* the length -1 may come in between.
CoroutineEnds == ~registered ~> reading = "ended" \/ ~Defined
=============================================================================
