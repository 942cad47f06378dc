------------------------------ MODULE WebSocket ------------------------------
(***************************************************************************)
(* The websocket echo servers beast_websocket and websocket_test: they are *)
(* the same program but for names and for one catch block (RemovesOnThrow).*)
(* The server accepts one connection, performs the handshake, and from     *)
(* then on has a read, and now and then a write, outstanding.  One thread  *)
(* runs the io_context, so a completion handler is one step; `pending` is  *)
(* what is outstanding, and io_context::run returns, and main with it,     *)
(* when nothing is.                                                        *)
(*                                                                         *)
(* A handler may throw (memory), which its catch block ends.  A message is *)
(* the number of the read that brought it.                                 *)
(***************************************************************************)
EXTENDS Naturals, Sequences

CONSTANTS MaxMsgs,        \* bound: the messages the peer sends
          RemovesOnThrow  \* the catch of the write handler removes the connection:
                          \* TRUE for beast_websocket, FALSE for websocket_test

VARIABLES
  pending,   \* the outstanding operations: accept, handshake, read, write
  inMap,     \* the connection is in ConnectionMgr's _map
  queue,     \* que_msg
  outgoing,  \* what the outstanding write puts on the wire
  up,        \* the connection to the peer stands
  threw,     \* history: a handler has thrown
  received,  \* history: the number of messages given to AsyncSend by the reader
  wire       \* history: the messages written

vars == <<pending, inMap, queue, outgoing, up, threw, received, wire>>

Msgs == 1..MaxMsgs
Dead == 0       \* bytes of a string that has been destroyed
Stalled == queue # <<>> /\ "write" \notin pending

Init == /\ pending = {"accept"}
        /\ inMap = FALSE
        /\ queue = <<>>
        /\ outgoing = Dead
        /\ up = TRUE
        /\ threw = FALSE
        /\ received = 0
        /\ wire = <<>>

-----------------------------------------------------------------------------
(* Accepting: once.                                                         *)

Start_Accept(ok) == /\ "accept" \in pending
                    /\ pending' = IF ok THEN {"handshake"} ELSE {}
                    /\ UNCHANGED <<inMap, queue, outgoing, up, threw, received, wire>>

AddConnection == inMap' = TRUE
RmConnection == inMap' = FALSE

Async_accept == /\ "handshake" \in pending
                /\ AddConnection
                /\ pending' = {"read"}
                /\ UNCHANGED <<queue, outgoing, up, threw, received, wire>>

\* The handshake fails: nothing holds the connection any more.
Async_accept_error == /\ "handshake" \in pending
                      /\ pending' = {}
                      /\ UNCHANGED <<inMap, queue, outgoing, up, threw, received, wire>>

\* AddConnection throws, or start does when the connection is in the map.
Async_accept_throws == /\ "handshake" \in pending
                       /\ pending' = {}
                       /\ inMap' \in BOOLEAN
                       /\ threw' = TRUE
                       /\ UNCHANGED <<queue, outgoing, up, received, wire>>

-----------------------------------------------------------------------------
(* AsyncSend(m) with q in the queue and ops outstanding.                    *)

\* Altered: one waiting message does not make it return.
AsyncSendEarly(m, q, ops) ==
  /\ queue' = Append(q, m)
  /\ IF Len(q) > 1 THEN pending' = ops /\ UNCHANGED outgoing
     ELSE pending' = ops \cup {"write"} /\ outgoing' \in {m, Dead}

\* The buffer of the write is the parameter, not the copy in the queue.  The
\* parameter dies with the call: the socket takes its bytes at once, or it
\* reads them later from freed memory.
AsyncSend(m, q, ops) ==
  /\ queue' = Append(q, m)
  /\ IF q # <<>> THEN pending' = ops /\ UNCHANGED outgoing
     ELSE pending' = ops \cup {"write"} /\ outgoing' \in {m, Dead}

-----------------------------------------------------------------------------
(* The handler of the read.                                                 *)

\* A message is echoed and the next read is started.  What has arrived is read also
\* when the peer has gone.
Start == /\ "read" \in pending
         /\ received < MaxMsgs
         /\ received' = received + 1
         /\ AsyncSend(received + 1, queue, pending)
         /\ UNCHANGED <<inMap, up, threw, wire>>

\* The handler throws: before the message is queued, before its write is
\* started, or before the next read is.  No read is started; the entry stays.
Start_throws ==
  /\ "read" \in pending
  /\ received < MaxMsgs
  /\ threw' = TRUE
  /\ \/ pending' = pending \ {"read"} /\ UNCHANGED <<queue, outgoing, received>>
     \/ /\ pending' = pending \ {"read"}
        /\ queue' = Append(queue, received + 1)
        /\ received' = received + 1
        /\ UNCHANGED outgoing
     \/ /\ AsyncSend(received + 1, queue, pending \ {"read"})
        /\ received' = received + 1
  /\ UNCHANGED <<inMap, up, wire>>

\* Altered: it reads on.
Start_error_reads == /\ "read" \in pending
                     /\ up' = FALSE
                     /\ inMap' = FALSE
                     /\ UNCHANGED <<pending, queue, outgoing, threw, received, wire>>

\* The peer has closed, the connection is lost, or what came is no websocket
\* frame, which ends the stream.
Start_error == /\ "read" \in pending
               /\ up' = FALSE
               /\ pending' = pending \ {"read"}
               /\ RmConnection
               /\ UNCHANGED <<queue, outgoing, threw, received, wire>>

-----------------------------------------------------------------------------
(* The handler of the write.                                                *)

\* Altered: it returns whatever is left.
WrittenStops == /\ "write" \in pending
                /\ wire' = Append(wire, outgoing)
                /\ queue' = Tail(queue)
                /\ pending' = pending \ {"write"}
                /\ UNCHANGED <<inMap, outgoing, up, threw, received>>

\* The front is popped; the next message, if any, is copied from the front and
\* given to AsyncSend, which finds it in the queue.
Written ==
  /\ "write" \in pending
  /\ wire' = Append(wire, outgoing)
  /\ LET rest == Tail(queue)
         ops  == pending \ {"write"}
     IN  IF rest = <<>>
         THEN queue' = rest /\ pending' = ops /\ UNCHANGED outgoing
         ELSE AsyncSend(Head(rest), rest, ops)
  /\ UNCHANGED <<inMap, up, threw, received>>

Written_throws == /\ "write" \in pending
                  /\ Tail(queue) # <<>>
                  /\ wire' = Append(wire, outgoing)
                  /\ queue' = Tail(queue)
                  /\ pending' = pending \ {"write"}
                  /\ inMap' = (inMap /\ ~RemovesOnThrow)
                  /\ threw' = TRUE
                  /\ UNCHANGED <<outgoing, up, received>>

Written_error == /\ "write" \in pending
                 /\ ~up
                 /\ pending' = pending \ {"write"}
                 /\ RmConnection
                 /\ UNCHANGED <<queue, outgoing, up, threw, received, wire>>

-----------------------------------------------------------------------------
\* The peer goes away (external).
Lose == /\ up
        /\ pending \cap {"handshake", "read", "write"} # {}
        /\ up' = FALSE
        /\ UNCHANGED <<pending, inMap, queue, outgoing, threw, received, wire>>

Next == \/ \E ok \in BOOLEAN : Start_Accept(ok)
        \/ Async_accept \/ Async_accept_error \/ Async_accept_throws
        \/ Start \/ Start_throws \/ Start_error
        \/ Written \/ Written_throws \/ Written_error
        \/ Lose

\* A write ends, and a read or a handshake ends when the peer is gone.  Nobody
\* is obliged to connect or to send.
Fairness == /\ WF_vars(Written \/ Written_error)
            /\ WF_vars(~up /\ Start_error)
            /\ WF_vars(~up /\ Async_accept_error)

Spec == Init /\ [][Next]_vars /\ Fairness

-----------------------------------------------------------------------------
(* Properties.                                                              *)

TypeOK == /\ pending \subseteq {"accept", "handshake", "read", "write"}
          /\ inMap \in BOOLEAN
          /\ received \in 0..MaxMsgs
          /\ queue \in Seq(1..received)
          /\ outgoing \in 0..received
          /\ up \in BOOLEAN
          /\ threw \in BOOLEAN
          /\ wire \in Seq(0..received)

\* The peer gets its messages back in the order it sent them, none twice and
\* none left out in between; in the place of one there may be bytes of a dead
\* buffer (beast_websocket/connection.cpp:77-84).
EchoInOrder == /\ Len(wire) <= received
               /\ \A i \in 1..Len(wire) : wire[i] \in {i, Dead}

\* While a write is outstanding its message is the front of the queue, however
\* many messages the reader adds: it is this message the handler pops.
FrontIsWritten ==
  "write" \in pending => queue # <<>> /\ outgoing \in {Head(queue), Dead}

\* Apart from failures, messages are left without a write in one case only: the
\* handler of a write has given the next message to AsyncSend, which found it in
\* the queue, queued it a second time and returned (connection.cpp:100-104, :77-82).
StallHasDuplicate ==
  Stalled /\ up /\ ~threw => \E i \in 2..Len(queue) : queue[i] = Head(queue)

\* The program ends with its first connection, also when that has stalled, and
\* nothing is left in the map then but for a handler that threw.
EndsWithConnection == ~up ~> (pending = {} /\ (inMap => threw))
=============================================================================
