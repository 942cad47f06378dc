------------------------------ MODULE SendQueue ------------------------------
(***************************************************************************)
(* The sending half of one AsyncServer session (Session.cpp: Send,         *)
(* handle_write).  The logic worker is the only caller of Send; the        *)
(* completion handler of a write runs on some I/O thread.  Both work under *)
(* _send_lock, so a locked section is one step; the store to _send_pending *)
(* that precedes the lock in Send is a step of its own.                    *)
(*                                                                         *)
(* asio and the kernel are external: an async_write that has been started  *)
(* is in `writes` until it has been carried out or has failed, and its     *)
(* handler is then in `completions` until a thread runs it.                *)
(***************************************************************************)
EXTENDS Naturals, Sequences

CONSTANTS MAX_SENDQUE,  \* const.h
          MaxSends      \* bound: the number of calls of Send

SendQueueAssumption == MAX_SENDQUE \in Nat /\ MaxSends \in Nat

VARIABLES
  send_queue,    \* _send_queue; a message is the number of the call that made it
  send_pending,  \* _send_pending
  calls,         \* the number of calls of Send so far
  spc,           \* Send: "idle", or "lock" before the lock_guard
  writes,        \* the buffers of the outstanding async_writes
  completions,   \* results of finished writes whose handle_write has not run
  broken,        \* a write of this socket has failed
  write_failed,  \* handle_write has seen an error and called ClearServer
  accepted,      \* history: the messages pushed to _send_queue
  wire           \* history: the messages written to the socket

vars == <<send_queue, send_pending, calls, spc, writes, completions,
          broken, write_failed, accepted, wire>>

Msgs == 1..MaxSends

Init == /\ send_queue = <<>>
        /\ send_pending \in BOOLEAN   \* the constructor leaves it uninitialised
        /\ calls = 0
        /\ spc = "idle"
        /\ writes = <<>>
        /\ completions = <<>>
        /\ broken = FALSE
        /\ write_failed = FALSE
        /\ accepted = <<>>
        /\ wire = <<>>

-----------------------------------------------------------------------------
(* Send, on the logic worker.                                               *)

\* A call begins; the flag is reset outside the lock.
SendEnter == /\ spc = "idle"
             /\ calls < MaxSends
             /\ calls' = calls + 1
             /\ send_pending' = FALSE
             /\ spc' = "lock"
             /\ UNCHANGED <<send_queue, writes, completions, broken,
                            write_failed, accepted, wire>>

Full == Len(send_queue) > MAX_SENDQUE

\* The message is dropped; the caller is not told.
SendFull == /\ spc = "lock"
            /\ Full
            /\ spc' = "idle"
            /\ UNCHANGED <<send_queue, send_pending, calls, writes, completions,
                           broken, write_failed, accepted, wire>>

\* Altered: what is pending is not looked at.
SendPushWrites == /\ spc = "lock"
                  /\ ~Full
                  /\ send_queue' = Append(send_queue, calls)
                  /\ accepted' = Append(accepted, calls)
                  /\ writes' = Append(writes, Head(send_queue'))
                  /\ spc' = "idle"
                  /\ UNCHANGED <<send_pending, calls, completions, broken, write_failed, wire>>

\* Altered: the newest message goes to the front.
SendPushFront == /\ spc = "lock"
                 /\ ~Full
                 /\ send_pending' = (send_pending \/ send_queue # <<>>)
                 /\ send_queue' = <<calls>> \o send_queue
                 /\ accepted' = Append(accepted, calls)
                 /\ writes' = IF send_pending' THEN writes
                              ELSE Append(writes, Head(send_queue'))
                 /\ spc' = "idle"
                 /\ UNCHANGED <<calls, completions, broken, write_failed, wire>>

\* Queue the message; write it at once when nothing was pending.
SendPush == /\ spc = "lock"
            /\ ~Full
            /\ send_pending' = (send_pending \/ send_queue # <<>>)
            /\ send_queue' = Append(send_queue, calls)
            /\ accepted' = Append(accepted, calls)
            /\ writes' = IF send_pending' THEN writes
                         ELSE Append(writes, Head(send_queue'))
            /\ spc' = "idle"
            /\ UNCHANGED <<calls, completions, broken, write_failed, wire>>

Send == SendEnter \/ SendFull \/ SendPush

-----------------------------------------------------------------------------
(* handle_write, on an I/O thread.                                          *)

\* Altered: the next message is left to the next Send.
HandleWriteStops == /\ completions # <<>>
                    /\ Head(completions) = "ok"
                    /\ completions' = Tail(completions)
                    /\ send_queue' = Tail(send_queue)
                    /\ UNCHANGED <<send_pending, calls, spc, writes, broken,
                                   write_failed, accepted, wire>>

\* The front has been sent: pop it and write the next one, if any.
HandleWrite == /\ completions # <<>>
               /\ Head(completions) = "ok"
               /\ completions' = Tail(completions)
               /\ send_queue' = Tail(send_queue)
               /\ writes' = IF send_queue' # <<>>
                            THEN Append(writes, Head(send_queue'))
                            ELSE writes
               /\ UNCHANGED <<send_pending, calls, spc, broken, write_failed,
                              accepted, wire>>

\* Altered: what has failed is written again.
HandleWriteErrorRetries == /\ completions # <<>>
                           /\ Head(completions) = "error"
                           /\ completions' = Tail(completions)
                           /\ write_failed' = TRUE
                           /\ writes' = Append(writes, Head(send_queue))
                           /\ UNCHANGED <<send_queue, send_pending, calls, spc,
                                          broken, accepted, wire>>

\* On an error the session is taken from the server's map; its queue is left
\* as it is, with the failed message in front.
HandleWriteError == /\ completions # <<>>
                    /\ Head(completions) = "error"
                    /\ completions' = Tail(completions)
                    /\ write_failed' = TRUE
                    /\ UNCHANGED <<send_queue, send_pending, calls, spc, writes,
                                   broken, accepted, wire>>

-----------------------------------------------------------------------------
(* The socket (external).                                                   *)

WithoutIndex(s, i) == SubSeq(s, 1, i - 1) \o SubSeq(s, i + 1, Len(s))

\* An outstanding write is carried out to its last byte.  With several
\* outstanding nothing orders them.
WriteDone(i) == /\ ~broken
                /\ wire' = Append(wire, writes[i])
                /\ writes' = WithoutIndex(writes, i)
                /\ completions' = Append(completions, "ok")
                /\ UNCHANGED <<send_queue, send_pending, calls, spc, broken,
                               write_failed, accepted>>

\* The peer is gone: this write and every later one fails.
WriteFails(i) == /\ broken' = TRUE
                 /\ writes' = WithoutIndex(writes, i)
                 /\ completions' = Append(completions, "error")
                 /\ UNCHANGED <<send_queue, send_pending, calls, spc,
                                write_failed, accepted, wire>>

Socket == \E i \in 1..Len(writes) : WriteDone(i) \/ WriteFails(i)

Next == Send \/ HandleWrite \/ HandleWriteError \/ Socket

\* A call of Send that has begun goes on, a queued handler is run by one of
\* the threads in io_context::run, and a write ends in success or in an error
\* (the peer reads, or the connection is lost).  Nobody is obliged to call Send.
Fairness == /\ WF_vars(SendFull \/ SendPush)
            /\ WF_vars(HandleWrite \/ HandleWriteError)
            /\ WF_vars(Socket)

Spec == Init /\ [][Next]_vars /\ Fairness

-----------------------------------------------------------------------------
(* Properties.                                                              *)

Results == {"ok", "error"}

TypeOK == /\ send_queue \in Seq(Msgs)
          /\ send_pending \in BOOLEAN
          /\ calls \in 0..MaxSends
          /\ spc \in {"idle", "lock"}
          /\ writes \in Seq(Msgs)
          /\ completions \in Seq(Results)
          /\ broken \in BOOLEAN
          /\ write_failed \in BOOLEAN
          /\ accepted \in Seq(Msgs)
          /\ wire \in Seq(Msgs)

\* A session has one async_write in progress at most, counted from its start to
\* the run of its handler, although Send and handle_write both start writes and
\* run on different threads.  asio requires it of async_write on a stream.
AtMostOneWrite == Len(writes) + Len(completions) <= 1

\* The buffer given to async_write belongs to the front node of the queue, and
\* that node is not popped, and so not freed, while the write is in progress
\* (Session.cpp:60-62, :247-252).
BufferIsFront == writes # <<>> => send_queue # <<>> /\ writes[1] = Head(send_queue)

\* The messages in the queue that have not been written yet: all but the front
\* when its successful write waits for its handler.
Unsent == IF completions = <<"ok">> THEN Tail(send_queue) ELSE send_queue

\* What has been written and what waits is exactly what was accepted, in order:
\* no accepted message is lost, written twice or overtaken (Session.cpp:44-63,
\* :246-253).
WireInOrder == accepted = wire \o Unsent

\* A write, or the handler of one, is on its way exactly while the queue is not
\* empty and no write has failed: the session never sits on a backlog, and after an
\* error, which leaves the failed message in front (Session.cpp:255-258), neither
\* the handler nor a later Send writes again.
WritesIffBacklog == (send_queue # <<>> /\ ~write_failed) <=> writes \o completions # <<>>

\* The queue grows one past MAX_SENDQUE and no further, also when its session
\* has failed and nothing drains it any more (Session.cpp:45 tests with >).
QueueBound == Len(send_queue) <= MAX_SENDQUE + 1

\* After a failed write nothing is written to this socket any more: the front
\* stays in the queue and keeps every later Send from starting a write.
NoWriteAfterFailure == [][broken => writes' = <<>> /\ wire' = wire]_vars

\* Towards the peer the session is a FIFO hand-off that may be cut off.
Stream == INSTANCE FifoHandOff WITH Items <- Msgs, Handled <- Msgs,
                                    posted <- accepted, taken <- Len(wire),
                                    called <- wire, open <- ~broken
ImplementsFifoHandOff == Stream!Spec

\* Every accepted message is written in the end, unless the connection breaks.
AcceptedIsWritten ==
  \A m \in Msgs : (\E i \in 1..Len(accepted) : accepted[i] = m) ~>
                    (broken \/ \E i \in 1..Len(wire) : wire[i] = m)

\* What the name and the log line of Session.cpp:47 say: the queue holds
\* MAX_SENDQUE messages when it is full.
=============================================================================
