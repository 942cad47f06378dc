------------------------------ MODULE AsycWrite ------------------------------
(***************************************************************************)
(* The ways of writing in AsycApi's Session.  The first keeps the message  *)
(* being written in _send_node and writes what is left of it in the        *)
(* handler; the others queue the messages (writeToSocket with              *)
(* async_write_some, writeAllToSocket with async_send, which on a stream   *)
(* is the same: each may write a part).  Nothing in the repository calls   *)
(* them: the caller is whoever uses the class, with Overlap or not, from   *)
(* the thread that runs the handlers, and keeps its string alive.  Every   *)
(* node has RECVSIZE bytes, whatever is copied to it.                      *)
(***************************************************************************)
EXTENDS Integers, Sequences

CONSTANTS MaxCalls,  \* bound: the messages written
          Size,      \* the length of each message
          RECVSIZE,  \* Session.h: the size of a node
          Queued,    \* the second and third way, or the first
          Overlap    \* the caller does not wait for its last message

VARIABLES
  calls,         \* the number of messages so far; a message is its number
  send_node,     \* _send_node
  cur_len,       \* _cur_len of each node
  send_queue,    \* _send_queue
  send_pending,  \* _send_pending
  writes,        \* outstanding writes, oldest first: message, first byte, bound node
  completions,   \* finished writes whose handler has not run: bytes, bound node, ec
  broken,        \* the connection has failed
  undefined,     \* history: a copy past the end of a node, a pop of the empty queue,
                 \* or a negative length
  wire           \* history: the bytes written

vars == <<calls, send_node, cur_len, send_queue, send_pending, writes,
          completions, broken, undefined, wire>>

Msgs == 1..MaxCalls

Init == /\ calls = 0
        /\ send_node = 0
        /\ cur_len = [m \in Msgs |-> 0]
        /\ send_queue = <<>>
        /\ send_pending = FALSE
        /\ writes = <<>>
        /\ completions = <<>>
        /\ broken = FALSE
        /\ undefined = FALSE
        /\ wire = <<>>

async_write_some(m, from) == writes' = Append(writes, [msg |-> m, from |-> from, node |-> m])
Quiet == writes = <<>> /\ completions = <<>>
Ready == ~undefined /\ calls < MaxCalls /\ (Overlap \/ Quiet)

\* The node of a message that is longer is written past its end.
Overflows == Size > RECVSIZE

-----------------------------------------------------------------------------
(* The first way.                                                           *)

writeToSocketErr == /\ ~Queued /\ Ready
                    /\ calls' = calls + 1
                    /\ send_node' = calls'
                    /\ undefined' = Overflows
                    /\ async_write_some(calls', 0)
                    /\ UNCHANGED <<cur_len, send_queue, send_pending, completions,
                                   broken, wire>>

Rest(d) == cur_len[send_node] + d.bytes

\* The piece is compared with the node it belongs to and added to the newest
\* node, which is written on from there.  The error code is not looked at.
writeCallBackErr ==
  /\ ~Queued /\ ~undefined
  /\ completions # <<>>
  /\ completions' = Tail(completions)
  /\ LET d == Head(completions)
     IN  IF d.bytes + cur_len[d.node] >= Size
         THEN UNCHANGED <<cur_len, writes, undefined>>
         ELSE /\ cur_len' = [cur_len EXCEPT ![send_node] = Rest(d)]
              /\ IF Rest(d) > Size THEN undefined' = TRUE /\ UNCHANGED writes
                 ELSE async_write_some(send_node, Rest(d)) /\ UNCHANGED undefined
  /\ UNCHANGED <<calls, send_node, send_queue, send_pending, broken, wire>>

-----------------------------------------------------------------------------
(* The second and the third way.                                            *)

\* The flag is tested, and set to false when the write has been started.
writeToSocket ==
  /\ Queued /\ Ready
  /\ calls' = calls + 1
  /\ send_queue' = Append(send_queue, calls')
  /\ undefined' = Overflows
  /\ IF send_pending THEN UNCHANGED <<writes, send_pending>>
     ELSE async_write_some(calls', 0) /\ send_pending' = FALSE
  /\ UNCHANGED <<send_node, cur_len, completions, broken, wire>>

\* async_send writes a part like async_write_some, and the handler is the same.
writeAllToSocket == writeToSocket

\* Altered: the message just written is written again.
writeCallBackAgain ==
  /\ Queued /\ ~undefined
  /\ completions # <<>> /\ ~Head(completions).ec
  /\ completions' = Tail(completions)
  /\ IF send_queue = <<>>
     THEN undefined' = TRUE /\ UNCHANGED <<send_queue, send_pending, writes>>
     ELSE /\ send_queue' = Tail(send_queue)
          /\ async_write_some(Head(send_queue), 0)
          /\ UNCHANGED <<undefined, send_pending>>
  /\ UNCHANGED <<calls, send_node, cur_len, broken, wire>>

\* The front is popped, whatever part of it was written, and the next front is
\* written from its beginning.
writeCallBack ==
  /\ Queued /\ ~undefined
  /\ completions # <<>> /\ ~Head(completions).ec
  /\ completions' = Tail(completions)
  /\ IF send_queue = <<>>
     THEN undefined' = TRUE /\ UNCHANGED <<send_queue, send_pending, writes>>
     ELSE /\ send_queue' = Tail(send_queue)
          /\ IF send_queue' = <<>> THEN send_pending' = FALSE /\ UNCHANGED writes
             ELSE async_write_some(Head(send_queue'), 0) /\ UNCHANGED send_pending
          /\ UNCHANGED undefined
  /\ UNCHANGED <<calls, send_node, cur_len, broken, wire>>

writeCallBack_error ==
  /\ Queued /\ ~undefined
  /\ completions # <<>> /\ Head(completions).ec
  /\ completions' = Tail(completions)
  /\ UNCHANGED <<calls, send_node, cur_len, send_queue, send_pending, writes,
                 broken, undefined, wire>>

-----------------------------------------------------------------------------
(* The socket (external): the oldest write takes one byte or more.          *)

Finish(n, ec) == /\ writes' = Tail(writes)
                 /\ completions' = Append(completions, [bytes |-> n, ec |-> ec,
                                                        node |-> Head(writes).node])
                 /\ UNCHANGED <<calls, send_node, cur_len, send_queue, send_pending, undefined>>

Left == Size - Head(writes).from

WriteSome == /\ writes # <<>> /\ ~broken
             /\ \E n \in (IF Left = 0 THEN 0 ELSE 1)..Left :
                  /\ Finish(n, FALSE)
                  /\ wire' = wire \o [k \in 1..n |-> <<Head(writes).msg, Head(writes).from + k>>]
             /\ UNCHANGED broken

WriteFails == /\ writes # <<>>
              /\ broken' = TRUE
              /\ Finish(0, TRUE)
              /\ UNCHANGED wire

Next == \/ writeToSocketErr \/ writeCallBackErr
        \/ writeToSocket \/ writeAllToSocket \/ writeCallBack \/ writeCallBack_error
        \/ WriteSome \/ WriteFails

Spec == Init /\ [][Next]_vars
             /\ WF_vars(writeCallBackErr \/ writeCallBack \/ writeCallBack_error)
             /\ WF_vars(WriteSome \/ WriteFails)

-----------------------------------------------------------------------------
(* Properties.                                                              *)

\* What Session.cpp:26-27 says of the queue: messages that are written while others
\* are in progress leave whole and in the order of the calls.  The first way does that
\* for messages written one at a time.
WireInOrder == ~undefined => \A i \in 1..Len(wire) :
  wire[i] = <<1 + ((i - 1) \div Size), 1 + ((i - 1) % Size)>>

\* What Session.h:49 says of async_send: a message is written to its end, unless the
\* connection fails.  Written one at a time this is so for the first way, in as many
\* pieces as the socket makes of it (Session.cpp:17-24).
WholeIfAlone == ~undefined /\ Quiet /\ ~broken => Len(wire) = Size * calls

\* Written one at a time, the queue loses nothing but tails: what the peer gets of
\* each message is a part from its first byte, in the order of the calls
\* (line 48 pops the front whatever part of it was written).
OnlyTailsLost == ~undefined => \A i \in 1..Len(wire) :
  IF i = 1 THEN wire[i] = <<1, 1>>
  ELSE \/ wire[i] = <<wire[i-1][1], wire[i-1][2] + 1>>
       \/ wire[i] = <<wire[i-1][1] + 1, 1>>

\* However calls and handlers are mixed, a backlog has a write, or the handler
\* of one, on its way, unless a write has failed.
NeverIdleWithBacklog == ~broken /\ send_queue # <<>> => writes \o completions # <<>>

\* Nothing undefined happens, such as a pop of the empty queue, unless a call did not
\* wait for the last or a message has no room in its node.
EmptyPopNeedsOverlap == undefined => Overlap \/ Overflows
=============================================================================
