------------------------------ MODULE HandleRead ------------------------------
(***************************************************************************)
(* The receiving half of one AsyncServer session (Session.cpp: start,      *)
(* handle_read): cutting the byte stream of a connection into messages.    *)
(*                                                                         *)
(* A frame is a header of HEAD_TOTAL_LEN bytes, which gives the id and the *)
(* length of the body, and the body.  TCP delivers the frames of a client  *)
(* as one stream in pieces of any size; a piece fills _data, and one run   *)
(* of handle_read takes it apart.  One turn of its loop is one action.     *)
(* The handler is bound to the session's strand: a second run does not     *)
(* begin before the first has returned, even when its read has finished.   *)
(* A header with a negative length ends the model: the process is          *)
(* terminated, or what it does then is undefined.                          *)
(***************************************************************************)
EXTENDS WireShort, Sequences, SequencesExt

CONSTANTS HEAD_TOTAL_LEN,  \* const.h
          MAX_LENGTH,      \* const.h: the size of _data, the limit of id and length
          Streams,         \* what a client may send: sequences of frames
          MaxPosts         \* bound: the messages one connection posts

\* A frame is its id and the length of its body, as its header has them.
FrameRecord == [id : Wire, len : Wire]

ASSUME SizesAssumption == /\ HEAD_TOTAL_LEN \in Nat \ {0}
                          /\ MAX_LENGTH \in Nat \ {0}
                          /\ SHRT_MAX \in Nat /\ MAX_LENGTH <= SHRT_MAX
                          /\ MaxPosts \in Nat
ASSUME StreamsAssumption == Streams \subseteq Seq(FrameRecord)

VARIABLES
  stream,          \* the frames this client sends
  nread,           \* how many bytes of the stream have been read
  data,            \* _data: the bytes of the last read
  reading,         \* an async_read_some is in progress
  arrived,         \* its result, until handle_read runs: "none", "ok", "error"
  hpc,             \* handle_read: "idle", "loop", "mark", "terminated", "undefined"
  copy_len,        \* the bytes of _data already moved
  byte_transfered, \* the bytes of _data left
  b_head_parse,    \* _b_head_parse
  head,            \* the first _cur_len bytes of _recv_head_node
  msg,             \* _recv_msg_node: id, _max_len, and its first _cur_len bytes
  registered,      \* the session has not been taken from the server's map
  posted           \* the messages handed to PostMsgToQue, in order

vars == <<stream, nread, data, reading, arrived, hpc, copy_len, byte_transfered,
          b_head_parse, head, msg, registered, posted>>

\* A byte is named by the frame it belongs to and its place in that frame.
FrameBytes(k) == [i \in 1..HEAD_TOTAL_LEN + stream[k].len |-> <<k, i>>]
Bytes == FlattenSeq([k \in 1..Len(stream) |-> FrameBytes(k)])

\* The messages the client means to send.
Body(k) == [i \in 1..stream[k].len |-> <<k, HEAD_TOTAL_LEN + i>>]
Messages == [k \in 1..Len(stream) |-> [id |-> Short(stream[k].id), body |-> Body(k)]]

NoMsg == [id |-> 0, len |-> 0, body |-> <<>>]

\* start(): the first read.
Init == /\ stream \in Streams
        /\ nread = 0
        /\ data = <<>>
        /\ reading = TRUE
        /\ arrived = "none"
        /\ hpc = "idle"
        /\ copy_len = 0
        /\ byte_transfered = 0
        /\ b_head_parse = FALSE
        /\ head = <<>>
        /\ msg = NoMsg
        /\ registered = TRUE
        /\ posted = <<>>

-----------------------------------------------------------------------------
(* The socket (external).                                                   *)

\* async_read_some completes with any number of the bytes still to come, at
\* most as many as _data holds.
Receive == /\ reading
           /\ \E n \in 1..MAX_LENGTH :
                /\ nread + n <= Len(Bytes)
                /\ data' = SubSeq(Bytes, nread + 1, nread + n)
                /\ nread' = nread + n
           /\ reading' = FALSE
           /\ arrived' = "ok"
           /\ UNCHANGED <<stream, hpc, copy_len, byte_transfered, b_head_parse,
                          head, msg, registered, posted>>

\* The peer has closed or the connection is lost.
ReadError == /\ reading
             /\ reading' = FALSE
             /\ arrived' = "error"
             /\ UNCHANGED <<stream, nread, data, hpc, copy_len, byte_transfered,
                            b_head_parse, head, msg, registered, posted>>

-----------------------------------------------------------------------------
(* handle_read.                                                             *)

\* Altered: no strand, the next run may begin as soon as its read is done.
NoStrand == hpc \in {"idle", "mark"}

\* The strand lets the next run begin when the last one has returned.
StrandFree == hpc = "idle"

Enter == /\ StrandFree
         /\ arrived = "ok"
         /\ arrived' = "none"
         /\ copy_len' = 0
         /\ byte_transfered' = Len(data)
         /\ hpc' = "loop"
         /\ UNCHANGED <<stream, nread, data, reading, b_head_parse, head, msg,
                        registered, posted>>

EnterError == /\ StrandFree
              /\ arrived = "error"
              /\ arrived' = "none"
              /\ registered' = FALSE
              /\ UNCHANGED <<stream, nread, data, reading, hpc, copy_len,
                             byte_transfered, b_head_parse, head, msg, posted>>

Chunk(n) == SubSeq(data, copy_len + 1, copy_len + n)

\* memset of _data, the next async_read_some, and the end of this run.
ReadOn(place) == /\ data' = <<>>
                 /\ reading' = TRUE
                 /\ copy_len' = 0
                 /\ byte_transfered' = 0
                 /\ hpc' = place

\* The loop goes on behind the next n bytes.
Advance(n) == /\ copy_len' = copy_len + n
              /\ byte_transfered' = byte_transfered - n
              /\ UNCHANGED <<data, reading, hpc>>

\* After n more bytes a message is complete and is posted: read on if _data is
\* used up, otherwise another turn of the loop.
PostAfter(n, message) ==
  /\ Len(posted) < MaxPosts
  /\ posted' = Append(posted, message)
  /\ IF byte_transfered = n THEN ReadOn("idle") ELSE Advance(n)

Loop == hpc = "loop" /\ byte_transfered > 0

\* What the header still needs.
HeadRemind == HEAD_TOTAL_LEN - Len(head)

\* Altered: no read is started.
HeadShortDeaf == /\ Loop
                 /\ ~b_head_parse
                 /\ byte_transfered < HeadRemind
                 /\ head' = head \o Chunk(byte_transfered)
                 /\ hpc' = "idle"
                 /\ UNCHANGED <<stream, nread, data, reading, arrived, copy_len,
                                byte_transfered, b_head_parse, msg, registered, posted>>

HeadShort == /\ Loop
             /\ ~b_head_parse
             /\ byte_transfered < HeadRemind
             /\ head' = head \o Chunk(byte_transfered)
             /\ ReadOn("idle")
             /\ UNCHANGED <<stream, nread, arrived, b_head_parse, msg, registered, posted>>

HeadDone == /\ Loop
            /\ ~b_head_parse
            /\ byte_transfered >= HeadRemind

\* The frame whose header has just become complete, and the bytes behind it.
HeadBytes == head \o Chunk(HeadRemind)
Frame == stream[HeadBytes[1][1]]
AfterHead == byte_transfered - HeadRemind
MsgId == Short(Frame.id)
MsgLen == Short(Frame.len)

BadHead == MsgId > MAX_LENGTH \/ MsgLen > MAX_LENGTH

\* The session is taken from the map and reads no more.
RejectHead == /\ HeadDone
              /\ BadHead
              /\ registered' = FALSE
              /\ hpc' = "idle"
              /\ UNCHANGED <<stream, nread, data, reading, arrived, copy_len,
                             byte_transfered, b_head_parse, head, msg, posted>>

\* A negative length is not refused.  The node is made with new char[len + 1] and a
\* zero behind its end: a negative size throws, which nothing catches, and at -1 the
\* zero is written in front of the array.
NegativeLength == /\ HeadDone
                  /\ ~BadHead
                  /\ MsgLen < 0
                  /\ hpc' = IF MsgLen = -1 THEN "undefined" ELSE "terminated"
                  /\ UNCHANGED <<stream, nread, data, reading, arrived, copy_len, byte_transfered,
                                 b_head_parse, head, msg, registered, posted>>

\* The length can be one.
GoodHead == HeadDone /\ ~BadHead /\ MsgLen >= 0

\* The body is not complete: the rest of _data goes to the node, and the next
\* read is started before _b_head_parse is set.
BodyShort == /\ GoodHead
             /\ AfterHead < MsgLen
             /\ msg' = [id |-> MsgId, len |-> MsgLen,
                        body |-> SubSeq(data, copy_len + HeadRemind + 1,
                                        copy_len + byte_transfered)]
             /\ ReadOn("mark")
             /\ UNCHANGED <<stream, nread, arrived, b_head_parse, head, registered, posted>>

MarkParsed == /\ hpc = "mark"
              /\ b_head_parse' = TRUE
              /\ hpc' = "idle"
              /\ UNCHANGED <<stream, nread, data, reading, arrived, copy_len,
                             byte_transfered, head, msg, registered, posted>>

\* Altered: the header node is not cleared.
BodyWholeKeepsHead ==
  /\ GoodHead
  /\ AfterHead >= MsgLen
  /\ LET from == copy_len + HeadRemind
         body == SubSeq(data, from + 1, from + MsgLen)
     IN /\ msg' = [id |-> MsgId, len |-> MsgLen, body |-> body]
        /\ PostAfter(HeadRemind + MsgLen, [id |-> MsgId, body |-> body])
  /\ b_head_parse' = FALSE
  /\ UNCHANGED <<stream, nread, arrived, head, registered>>

\* Header and body are there: the message is posted, the header node cleared.
BodyWhole ==
  /\ GoodHead
  /\ AfterHead >= MsgLen
  /\ LET from == copy_len + HeadRemind
         body == SubSeq(data, from + 1, from + MsgLen)
     IN /\ msg' = [id |-> MsgId, len |-> MsgLen, body |-> body]
        /\ PostAfter(HeadRemind + MsgLen, [id |-> MsgId, body |-> body])
  /\ b_head_parse' = FALSE
  /\ head' = <<>>
  /\ UNCHANGED <<stream, nread, arrived, registered>>

\* What the body still needs when the header was parsed in an earlier run.
BodyRemind == msg.len - Len(msg.body)

ResumeShort == /\ Loop
               /\ b_head_parse
               /\ byte_transfered < BodyRemind
               /\ msg' = [msg EXCEPT !.body = @ \o Chunk(byte_transfered)]
               /\ ReadOn("idle")
               /\ UNCHANGED <<stream, nread, arrived, b_head_parse, head, registered, posted>>

\* Altered: the rest of the body is copied over its beginning.
ResumeOverwrites ==
  /\ Loop
  /\ b_head_parse
  /\ byte_transfered >= BodyRemind
  /\ LET body == Chunk(BodyRemind)
     IN /\ msg' = [msg EXCEPT !.body = body]
        /\ PostAfter(BodyRemind, [id |-> msg.id, body |-> body])
  /\ UNCHANGED <<stream, nread, arrived, b_head_parse, head, registered>>

\* Altered: the message is complete and not posted.
ResumeDoneSilent ==
  /\ Loop
  /\ b_head_parse
  /\ byte_transfered >= BodyRemind
  /\ msg' = [msg EXCEPT !.body = @ \o Chunk(BodyRemind)]
  /\ IF byte_transfered = BodyRemind THEN ReadOn("idle") ELSE Advance(BodyRemind)
  /\ UNCHANGED <<stream, nread, arrived, b_head_parse, head, registered, posted>>

\* The message is posted; neither _b_head_parse nor the header node is reset.
ResumeDone ==
  /\ Loop
  /\ b_head_parse
  /\ byte_transfered >= BodyRemind
  /\ LET body == msg.body \o Chunk(BodyRemind)
     IN /\ msg' = [msg EXCEPT !.body = body]
        /\ PostAfter(BodyRemind, [id |-> msg.id, body |-> body])
  /\ UNCHANGED <<stream, nread, arrived, b_head_parse, head, registered>>

Turn == \/ HeadShort \/ RejectHead \/ NegativeLength \/ BodyShort \/ BodyWhole
        \/ ResumeShort \/ ResumeDone

Handler == Enter \/ EnterError \/ Turn \/ MarkParsed

Next == Receive \/ ReadError \/ Handler

\* A handler that may run is run, and bytes that were sent arrive unless the
\* connection is lost.  Nobody is obliged to close or lose it.
Spec == Init /\ [][Next]_vars /\ WF_vars(Handler) /\ WF_vars(Receive)

-----------------------------------------------------------------------------
(* Properties.                                                              *)

ByteSeq == Seq((1..Len(stream)) \X Nat)

\* What a negative length brings about.
Ends == {"terminated", "undefined"}
Ended == hpc \in Ends

TypeOK == /\ stream \in Streams
          /\ nread \in 0..Len(Bytes)
          /\ data \in ByteSeq
          /\ reading \in BOOLEAN
          /\ arrived \in {"none", "ok", "error"}
          /\ hpc \in {"idle", "loop", "mark"} \cup Ends
          /\ copy_len \in 0..MAX_LENGTH
          /\ byte_transfered \in 0..MAX_LENGTH
          /\ b_head_parse \in BOOLEAN
          /\ head \in ByteSeq
          /\ msg \in [id : Shorts, len : 0..MAX_LENGTH, body : ByteSeq]
          /\ registered \in BOOLEAN
          /\ posted \in Seq([id : Shorts, body : ByteSeq])

\* Until a header with a negative length ends it, no memcpy of handle_read leaves its
\* buffers, whatever the pieces: it moves what is in _data exactly once from front to
\* back, and neither node gets more than it was made for (Session.cpp:108, 118, 150,
\* 159, 197, 204).  For such a header see InvalidLengthIsRefused.
CopiesInBounds == /\ hpc = "loop" => copy_len + byte_transfered = Len(data)
                  /\ Len(data) <= MAX_LENGTH
                  /\ Len(head) < HEAD_TOTAL_LEN
                  /\ Len(msg.body) <= msg.len

\* A registered session always has its next read started or its handler on the
\* way: no path through handle_read forgets to read on (Session.cpp:111, 153,
\* 186, 200, 226).  And it never has two.
AlwaysReading ==
  registered /\ ~Ended =>
                \/ hpc = "loop" /\ ~reading /\ arrived = "none"
                \/ hpc # "loop" /\ (reading <=> arrived = "none")

\* The body of the current message was cut by the end of a piece and has been
\* completed: from here on the framing is out of step (see UnfinishedIfParsed).
OutOfStep == b_head_parse /\ Len(msg.body) = msg.len

\* The bytes handle_read has moved so far.
Consumed == nread - (IF arrived = "ok" THEN Len(data) ELSE byte_transfered)

\* Where the body of the current message is only in part there.
InBody == b_head_parse \/ hpc = "mark"

\* Until the framing is out of step every byte that was moved is accounted for:
\* it is in a posted message (with its header), or it is the part of a header
\* or body waiting in the nodes; the posted messages are the client's, whole,
\* unchanged, and in order.
BytesAccounted ==
  ~OutOfStep /\ registered =>
    /\ posted = SubSeq(Messages, 1, Len(posted))
    /\ Consumed = Len(FlattenSeq([k \in 1..Len(posted) |-> FrameBytes(k)]))
                  + (IF InBody THEN HEAD_TOTAL_LEN + Len(msg.body) ELSE Len(head))

\* Also when the framing is out of step no message is invented, cut or mixed
\* from two frames: what is posted is a start of the client's messages followed
\* by copies of the last of them (Session.cpp:194-230).
OnlyRepeats ==
  \E k \in 0..Len(stream) :
    /\ Len(posted) >= k
    /\ \A i \in 1..Len(posted) : k > 0 /\ posted[i] = Messages[IF i <= k THEN i ELSE k]

\* On a connection with one request (JsonClient) nothing is posted twice.  On every
\* connection the nodes keep their types, and no memcpy leaves its buffers before a
\* header with a negative length.
PostedOnce == IsPrefix(posted, Messages)
SinglePostedOnce == /\ Len(stream) = 1 => PostedOnce
                    /\ TypeOK /\ CopiesInBounds

\* Once its bytes have arrived a request is posted, unless it is refused, has a
\* negative length, or the connection fails.
RequestIsPosted == <>(posted = Messages \/ ~registered \/ Ended)

\* What Session.h:38 says of _b_head_parse: it is true when the header has been
\* parsed and data of the message remain to be read.
UnfinishedIfParsed == reading /\ b_head_parse => Len(msg.body) < msg.len

\* What Session.cpp:140-144 says of a length that is none: "invalid data length", and
\* the session is taken from the map.
InvalidLengthIsRefused == ~Ended
=============================================================================
