----------------------------- MODULE ProtoSession -----------------------------
(***************************************************************************)
(* AsyncServer_useProtobuf: the sessions of a server whose only thread     *)
(* reads, answers and writes for all of them.  A handler keeps the thread  *)
(* until it returns; handle_read is cut into the turns of its loop because *)
(* that loop may not end.  Bytes are consumed in the order of the stream,  *)
(* so counts say which they are.  A request is the protobuf message of a   *)
(* frame; a reply is the number of the frame and whether it answers the    *)
(* request or is an echo of its bytes.  A negative length ends the model:  *)
(* the process is terminated, or what it does then is undefined.           *)
(***************************************************************************)
EXTENDS WireShort, Sequences, FiniteSets

CONSTANTS Sessions, NoSession,
          HEAD_LENGTH,   \* Session.h: the length of a frame, and nothing else
          MAX_LENGTH,    \* Session.h: the size of _data, the limit of the length
          MAX_SENDQUE,   \* Session.h
          Streams        \* what a peer may send: sequences of lengths, as on the wire

VARIABLES busy,  \* the session whose handle_read has the thread
          sess   \* the state of each session, a Session record
vars == <<busy, sess>>

Replies == [k : Nat, kind : {"answer", "echo"}]
Session == [stream : Streams,
            life : {"new", "mapped", "cleared",     \* in _sessions, or erased
                    "ended"},                       \* and the process with it
            read : {"none", "going", "ok", "error"},  \* async_read_some
            nread : Nat, size : Nat,       \* bytes read in all, and in the last piece
            avail : Nat,                   \* byte_transfered
            b_head_parse : BOOLEAN,
            head : 0..HEAD_LENGTH,         \* _cur_len of _recv_head_node
            k : Nat, body : Nat,           \* the frame in _recv_msg_node, its _cur_len
            queue : Seq(Replies),          \* _send_queue
            write : {"none", "going", "ok", "error"},  \* async_write
            wire : Seq(Replies)]           \* history: written

Init == /\ busy = NoSession
        /\ sess \in [Sessions ->
             {[stream |-> st, life |-> "new", read |-> "none", nread |-> 0, size |-> 0,
               avail |-> 0, b_head_parse |-> FALSE, head |-> 0, k |-> 0, body |-> 0,
               queue |-> <<>>, write |-> "none", wire |-> <<>>] : st \in Streams}]

\* The bytes of the stream: of a body that is too long, one more than the limit.
Total(s) == HEAD_LENGTH * Len(sess[s].stream)
            + Cardinality({p \in (1..Len(sess[s].stream)) \X (1..MAX_LENGTH + 1) :
                             p[2] <= sess[s].stream[p[1]]})

-----------------------------------------------------------------------------
(* The server and the sockets (the socket steps are external).              *)

start(t) == [t EXCEPT !.life = "mapped", !.read = "going"]

\* handle_accept: start, the insertion, and the next accept are one handler.
Accept(s) == /\ busy = NoSession
             /\ sess[s].life = "new"
             /\ sess' = [sess EXCEPT ![s] = start(@)]
             /\ UNCHANGED busy

Receive(s) == /\ sess[s].read = "going"
              /\ \E n \in 1..MAX_LENGTH :
                   /\ sess[s].nread + n <= Total(s)
                   /\ sess' = [sess EXCEPT ![s].read = "ok", ![s].size = n,
                                           ![s].nread = @ + n]
              /\ UNCHANGED busy

ReadFails(s) == /\ sess[s].read = "going"
                /\ sess' = [sess EXCEPT ![s].read = "error"]
                /\ UNCHANGED busy

WriteEnds(s) == /\ sess[s].write = "going"
                /\ \/ sess' = [sess EXCEPT ![s].write = "ok",
                                           ![s].wire = Append(@, Head(sess[s].queue))]
                   \/ sess' = [sess EXCEPT ![s].write = "error"]
                /\ UNCHANGED busy

-----------------------------------------------------------------------------
(* handle_read.                                                             *)

Enter(s) == /\ busy = NoSession
            /\ sess[s].read = "ok"
            /\ busy' = s
            /\ sess' = [sess EXCEPT ![s].read = "none", ![s].avail = sess[s].size]

EnterError(s) == /\ busy = NoSession
                 /\ sess[s].read = "error"
                 /\ sess' = [sess EXCEPT ![s].read = "none", ![s].life = "cleared"]
                 /\ UNCHANGED busy

\* Altered: the handler waits for the bytes it asked for.
ReadOnWaits(s, t) == /\ busy' = s
                     /\ sess' = [sess EXCEPT ![s] = [t EXCEPT !.avail = 0, !.read = "going"]]

\* The handler starts the next read and returns.
ReadOn(s, t) == /\ busy' = NoSession
                /\ sess' = [sess EXCEPT ![s] = [t EXCEPT !.avail = 0, !.read = "going"]]

\* Altered: the newest reply goes first.
SendFront(t, reply) ==
  IF Len(t.queue) > MAX_SENDQUE THEN t
  ELSE [t EXCEPT !.queue = <<reply>> \o @,
                 !.write = IF t.queue = <<>> THEN "going" ELSE @]

\* Send: a full queue drops the reply, an empty one writes it at once.
Send(t, reply) ==
  IF Len(t.queue) > MAX_SENDQUE THEN t
  ELSE [t EXCEPT !.queue = Append(@, reply),
                 !.write = IF t.queue = <<>> THEN "going" ELSE @]

\* The overload for a serialised reply.
SendString(t, reply) == Send(t, reply)

\* The rest of the piece, if any, is taken in the next turn of the loop.
GoOn(s, t) == IF t.avail = 0 THEN ReadOn(s, t)
              ELSE busy' = s /\ sess' = [sess EXCEPT ![s] = t]

HeadRemind(t) == HEAD_LENGTH - t.head
AfterHead(t) == t.avail - HeadRemind(t)
NextLen(t) == Short(t.stream[t.k + 1])
InHead(t) == t.avail > 0 /\ ~t.b_head_parse

HeadShort(s, t) == /\ InHead(t)
                   /\ t.avail < HeadRemind(t)
                   /\ ReadOn(s, [t EXCEPT !.head = @ + t.avail])

\* Too long: taken from the map, not read again.
RejectHead(s, t) == /\ InHead(t) /\ t.avail >= HeadRemind(t)
                    /\ NextLen(t) > MAX_LENGTH
                    /\ busy' = NoSession
                    /\ sess' = [sess EXCEPT ![s].avail = 0, ![s].life = "cleared"]

Terminate(s) == busy' = s /\ sess' = [sess EXCEPT ![s].life = "ended"]

\* Not refused either.  The node is made with new char[len + 1]: a negative size
\* throws, which nothing catches; the node for -1 has no room, and every byte that
\* has come is copied into it.
NegativeLength(s, t) == /\ InHead(t) /\ t.avail >= HeadRemind(t)
                        /\ NextLen(t) < -1 \/ (NextLen(t) = -1 /\ AfterHead(t) > 0)
                        /\ Terminate(s)

\* Compared as unsigned numbers, any count is less than the length -1.
BodyShort(s, t) == /\ InHead(t) /\ t.avail >= HeadRemind(t)
                   /\ NextLen(t) <= MAX_LENGTH
                   /\ AfterHead(t) < NextLen(t) \/ (NextLen(t) = -1 /\ AfterHead(t) = 0)
                   /\ ReadOn(s, [t EXCEPT !.k = @ + 1, !.body = AfterHead(t),
                                          !.b_head_parse = TRUE])

\* The request is parsed and answered, and the header node cleared.
BodyWhole(s, t) ==
  /\ InHead(t) /\ t.avail >= HeadRemind(t)
  /\ NextLen(t) \in 0..MAX_LENGTH
  /\ AfterHead(t) >= NextLen(t)
  /\ GoOn(s, SendString([t EXCEPT !.head = 0, !.k = @ + 1, !.body = NextLen(t),
                            !.avail = AfterHead(t) - NextLen(t)],
                  [k |-> t.k + 1, kind |-> "answer"]))

BodyRemind(t) == Short(t.stream[t.k]) - t.body

\* Altered: no read is started.
ResumeShortDeaf(s, t) ==
  /\ t.avail > 0 /\ t.b_head_parse
  /\ t.avail < BodyRemind(t)
  /\ busy' = NoSession
  /\ sess' = [sess EXCEPT ![s] = [t EXCEPT !.body = @ + t.avail, !.avail = 0]]

ResumeShort(s, t) == /\ t.avail > 0 /\ t.b_head_parse
                     /\ t.avail < BodyRemind(t)
                     /\ ReadOn(s, [t EXCEPT !.body = @ + t.avail])

\* What comes for the length -1 is copied to a node without room.
Overflow(s, t) == /\ t.avail > 0 /\ t.b_head_parse
                  /\ BodyRemind(t) < 0
                  /\ Terminate(s)

\* The bytes of the request are sent back; nothing is reset, so that the next
\* turn finds a message with nothing missing and sends it again.
ResumeDone(s, t) ==
  /\ t.avail > 0 /\ t.b_head_parse
  /\ BodyRemind(t) \in 0..t.avail
  /\ GoOn(s, Send([t EXCEPT !.body = @ + BodyRemind(t), !.avail = @ - BodyRemind(t)],
                  [k |-> t.k, kind |-> "echo"]))

handle_read(s) == /\ busy = s
                  /\ \/ HeadShort(s, sess[s]) \/ RejectHead(s, sess[s])
                     \/ NegativeLength(s, sess[s]) \/ Overflow(s, sess[s])
                     \/ BodyShort(s, sess[s]) \/ BodyWhole(s, sess[s])
                     \/ ResumeShort(s, sess[s]) \/ ResumeDone(s, sess[s])

-----------------------------------------------------------------------------
handle_write(s) == /\ busy = NoSession
                   /\ sess[s].write = "ok"
                   /\ sess' = [sess EXCEPT ![s].queue = Tail(@),
                                           ![s].write = IF Len(sess[s].queue) > 1 THEN "going"
                                                                                 ELSE "none"]
                   /\ UNCHANGED busy

handle_write_error(s) == /\ busy = NoSession
                         /\ sess[s].write = "error"
                         /\ sess' = [sess EXCEPT ![s].write = "none", ![s].life = "cleared"]
                         /\ UNCHANGED busy

Thread(s) == Enter(s) \/ EnterError(s) \/ handle_write(s) \/ handle_write_error(s)

\* The process has not been ended by a negative length.
Up == busy # NoSession => sess[busy].life # "ended"

Next == Up /\ \E s \in Sessions : \/ Accept(s) \/ Thread(s) \/ handle_read(s)
                                  \/ Receive(s) \/ ReadFails(s) \/ WriteEnds(s)

\* The thread runs what is queued; completions of one session are not passed
\* over for ever in favour of another's.
Fairness == \A s \in Sessions : /\ WF_vars(Up /\ handle_read(s))
                                /\ SF_vars(Up /\ (Enter(s) \/ EnterError(s)))
                                /\ SF_vars(Up /\ (handle_write(s) \/ handle_write_error(s)))
                                /\ WF_vars(Up /\ WriteEnds(s))

Spec == Init /\ [][Next]_vars /\ Fairness

-----------------------------------------------------------------------------
(* Properties.                                                              *)

\* The framing of a session is out of step: a body that was cut is complete, and
\* b_head_parse says it is not.
OutOfStep(s) == sess[s].b_head_parse /\ BodyRemind(sess[s]) = 0

\* Sent, in the order of sending; a written front waits for its handle_write.
Unsent(s) == IF sess[s].write = "ok" THEN Tail(sess[s].queue) ELSE sess[s].queue
Sent(s) == sess[s].wire \o Unsent(s)

\* A request gets one reply at most and replies keep the order of requests, for
\* every cut of the stream into pieces, until the framing is out of step; from
\* then on only the last request is replied to, again and again.
RepliesInOrder == \A s \in Sessions : \A i, j \in 1..Len(Sent(s)) :
  i < j => \/ Sent(s)[i].k < Sent(s)[j].k
           \/ Sent(s)[i].k = Sent(s)[j].k /\ OutOfStep(s) /\ Sent(s)[i].k = sess[s].k

\* A session in the map reads, or has its handler queued or running: no way out
\* of handle_read forgets the next read or the map.
AlwaysReading == \A s \in Sessions :
  sess[s].life = "mapped" => sess[s].read # "none" \/ busy = s

\* A session whose framing is out of step keeps the only thread for ever when
\* another byte arrives.
Hung == busy # NoSession /\ OutOfStep(busy)

\* The thread comes back to every session that has something to read, unless it
\* hangs in one of them or a negative length ends the process: nothing else makes
\* one session block another.
EverySessionIsServed == \A s \in Sessions :
  (sess[s].read = "ok") ~> (busy = s \/ Hung \/ ~Up)

\* What Session.h:73-74 says of _b_head_parse: it is true when the header has been
\* parsed and data of the message remain to be read.
UnfinishedIfParsed == \A s \in Sessions :
  sess[s].read = "going" /\ sess[s].b_head_parse => BodyRemind(sess[s]) > 0
=============================================================================
