-------------------------- MODULE ConnectionsProofs --------------------------
(***************************************************************************)
(* Proofs about the programs of Connections, for any number of connections *)
(* and messages and any sizes of buffers.  Each program has an invariant   *)
(* of its own, in a section of its own:                                    *)
(*                                                                         *)
(*   ProtoInv     what a session has taken of its stream and has in hand   *)
(*                adds up to what it has read, and its replies are in      *)
(*                order                                                    *)
(*   HttpInv      a connection's socket, operation, timer and histories    *)
(*                fit together, and count counts the requests answered     *)
(*   FirstInv     the bytes on the wire are those of the messages before   *)
(*                the newest and _cur_len bytes of the newest              *)
(*   AloneInv     one write or one handler, of the newest message, and the *)
(*                wire ends with a byte of that message or the last        *)
(*   BacklogInv   as many writes and handlers as messages in the queue     *)
(*   ReadInv      one read, of the whole of the newest node, until one is  *)
(*                short                                                    *)
(*                                                                         *)
(*   WebInv       nothing is written and nothing waits, or a write is      *)
(*                outstanding and the queue holds what has come since, or  *)
(*                messages wait for a write that never comes               *)
(*                                                                         *)
(* The invariant of the message classes is CodecProofs's.  The last        *)
(* section puts them together: a step is one of one program and leaves the *)
(* variables of the others alone.                                          *)
(***************************************************************************)
EXTENDS Connections, FiniteSetTheorems, SequenceTheorems, TLAPS

CodecProofs == INSTANCE CodecProofs WITH
  Pairs <- ClassPairs, Strings <- FieldStrings,
  pair <- cd_pair, x <- cd_x, y <- cd_y, wire <- cd_wire, status <- cd_status,
  limit <- cd_limit, written <- cd_written

-----------------------------------------------------------------------------
(* AsyncServer_useProtobuf.  The bytes of a stream are counted by Taken: the*)
(* headers and bodies of the frames before, and what there is of this one.  *)

\* The bytes of the first k bodies of a stream.
Bodied(st, k) == {p \in (1..k) \X (1..DATA_LENGTH + 1) : p[2] <= st[p[1]]}
BodyBytes(st, k) == Cardinality(Bodied(st, k))

\* What a session has taken of its stream, and what waits for its handler.
Taken(t) == HEAD_LENGTH * t.k + IF t.b_head_parse THEN BodyBytes(t.stream, t.k - 1) + t.body
                                                  ELSE BodyBytes(t.stream, t.k) + t.head
Pending(t) == IF t.read = "ok" THEN t.size ELSE 0

\* The body of the frame in hand is complete, and its end is still to be seen.
Stuck(t) == t.b_head_parse /\ Proto!BodyRemind(t) = 0
Replied(t) == t.b_head_parse => Proto!BodyRemind(t) = 0
SentOf(t) == t.wire \o IF t.write = "ok" THEN Tail(t.queue) ELSE t.queue

\* q: the replies sent when k frames are known.
InOrder(q, k, replied, stuck) ==
  /\ \A i \in 1..Len(q) : q[i].k \in 1..k /\ (q[i].k = k => replied)
  /\ \A i, j \in 1..Len(q) : i < j => \/ q[i].k < q[j].k
                                      \/ q[i].k = q[j].k /\ q[i].k = k /\ stuck

\* The bytes of a session are where its stream says; b: its handler has the thread.
Fed(t, b) ==
  /\ b => t.read = "none" /\ t.avail > 0
  /\ ~b => t.avail = 0
  /\ t.read = "ok" => t.size > 0
  /\ t.read # "none" \/ b => Taken(t) + t.avail + Pending(t) = t.nread
  /\ t.nread <= HEAD_LENGTH * Len(t.stream) + BodyBytes(t.stream, Len(t.stream))
  /\ t.life = "new" => /\ ~b /\ t.read = "none" /\ t.nread = 0 /\ t.k = 0
                       /\ t.head = 0 /\ ~t.b_head_parse

\* The frame in hand is one of the stream, and its length was not refused.
Framed(t) ==
  /\ t.k <= Len(t.stream)
  /\ ~t.b_head_parse => t.head < HEAD_LENGTH
  /\ t.b_head_parse => /\ t.k > 0 /\ Proto!Short(t.stream[t.k]) <= DATA_LENGTH
                       /\ \/ t.body <= Proto!Short(t.stream[t.k])
                          \/ t.body = 0 /\ Proto!Short(t.stream[t.k]) = -1

SessOK(t, b) ==
  /\ t \in Proto!Session
  /\ Fed(t, b)
  /\ Framed(t)
  /\ t.write # "none" => t.queue # <<>>
  /\ t.life = "mapped" => t.read # "none" \/ b
  /\ InOrder(SentOf(t), t.k, Replied(t), Stuck(t))

ProtoInv == /\ p_busy \in Sessions \cup {NoSession}
            /\ p_sess \in [Sessions -> Proto!Session]
            /\ \A s \in Sessions : SessOK(p_sess[s], p_busy = s)

\* The cardinality of the module is the one of the library.
LEMMA ProtoCardinality == \A S : Proto!Cardinality(S) = Cardinality(S)
BY Zenon DEF Proto!Cardinality, Cardinality

LEMMA HttpCardinality == \A S : Http!Cardinality(S) = Cardinality(S)
BY Zenon DEF Http!Cardinality, Cardinality

LEMMA BodiedFinite == ASSUME NEW st, NEW k \in Nat
                      PROVE  IsFiniteSet(Bodied(st, k)) /\ BodyBytes(st, k) \in Nat
<1>1. IsFiniteSet(1..k) /\ IsFiniteSet(1..DATA_LENGTH + 1)
  BY FS_Interval, ProtoAssumption
<1>2. IsFiniteSet((1..k) \X (1..DATA_LENGTH + 1))
  BY <1>1, FS_Product
<1>3. Bodied(st, k) \subseteq (1..k) \X (1..DATA_LENGTH + 1)
  BY DEF Bodied
<1>4. IsFiniteSet(Bodied(st, k))
  BY <1>2, <1>3, FS_Subset
<1> QED
  BY <1>4, FS_CardinalityType DEF BodyBytes

LEMMA NoBody == ASSUME NEW st PROVE BodyBytes(st, 0) = 0
<1>1. Bodied(st, 0) = {}
  BY DEF Bodied
<1> QED
  BY <1>1, FS_EmptySet DEF BodyBytes

\* A body within the limit adds its length.
LEMMA NextBody ==
  ASSUME NEW st \in Seq(Nat), NEW k \in Nat, k + 1 <= Len(st), st[k + 1] <= DATA_LENGTH
  PROVE  BodyBytes(st, k + 1) = BodyBytes(st, k) + st[k + 1]
<1> DEFINE n == st[k + 1]
           new == {k + 1} \X (1..n)
<1>1. n \in Nat
  OBVIOUS
<1>2. IsFiniteSet({k + 1}) /\ Cardinality({k + 1}) = 1
  BY FS_Singleton
<1>3. IsFiniteSet(1..n) /\ Cardinality(1..n) = n
  <2> HIDE DEF n
  <2>1. n \in Int /\ 1 \in Int
    BY <1>1
  <2>2. IsFiniteSet(1..n) /\ Cardinality(1..n) = IF 1 > n THEN 0 ELSE n - 1 + 1
    BY <2>1, FS_Interval
  <2> QED
    BY <2>2, <1>1
<1>4. IsFiniteSet(new) /\ Cardinality(new) = n
  <2> HIDE DEF n
  <2>1. IsFiniteSet(new) /\ Cardinality(new) = Cardinality({k + 1}) * Cardinality(1..n)
    BY <1>2, <1>3, FS_Product
  <2> QED
    BY <2>1, <1>1, <1>2, <1>3
<1>5. Bodied(st, k + 1) = Bodied(st, k) \cup new
  <2>1. \A p \in Bodied(st, k + 1) : p \in Bodied(st, k) \/ p \in new
    <3> TAKE p \in Bodied(st, k + 1)
    <3>1. PICK i \in 1..(k + 1), j \in 1..DATA_LENGTH + 1 : p = <<i, j>>
      BY DEF Bodied
    <3>2. j <= st[i]
      BY <3>1 DEF Bodied
    <3>3. CASE i = k + 1
      <4>1. j \in 1..n
        BY <1>1, <3>2, <3>3
      <4> QED
        BY <3>1, <3>3, <4>1
    <3>4. CASE i # k + 1
      <4>1. i \in 1..k
        BY <3>4
      <4> QED
        BY <3>1, <3>2, <4>1 DEF Bodied
    <3> QED
      BY <3>3, <3>4
  <2>2. \A p \in Bodied(st, k) : p \in Bodied(st, k + 1)
    <3> TAKE p \in Bodied(st, k)
    <3>1. PICK i \in 1..k, j \in 1..DATA_LENGTH + 1 : p = <<i, j>>
      BY DEF Bodied
    <3>2. j <= st[i] /\ i \in 1..(k + 1)
      BY <3>1 DEF Bodied
    <3> QED
      BY <3>1, <3>2 DEF Bodied
  <2>3. \A p \in new : p \in Bodied(st, k + 1)
    <3> TAKE p \in new
    <3>1. PICK j \in 1..n : p = <<k + 1, j>>
      OBVIOUS
    <3>2. j \in 1..DATA_LENGTH + 1 /\ k + 1 \in 1..(k + 1)
      BY <1>1, <3>1, ProtoAssumption
    <3>3. j <= st[k + 1]
      BY <1>1, <3>1
    <3> QED
      BY <3>1, <3>2, <3>3 DEF Bodied
  <2> QED
    BY <2>1, <2>2, <2>3
<1>6. Bodied(st, k) \cap new = {}
  BY DEF Bodied
<1>7. IsFiniteSet(Bodied(st, k)) /\ BodyBytes(st, k) \in Nat
  BY BodiedFinite
<1>8. Cardinality(Bodied(st, k) \cap new) = 0
  BY <1>6, FS_EmptySet
<1> HIDE DEF n, new
<1>9. Cardinality(Bodied(st, k) \cup new) = Cardinality(Bodied(st, k)) + Cardinality(new)
  <2>1. Cardinality(Bodied(st, k) \cup new)
          = Cardinality(Bodied(st, k)) + Cardinality(new) - Cardinality(Bodied(st, k) \cap new)
    BY <1>4, <1>7, FS_Union
  <2> QED
    BY <2>1, <1>1, <1>4, <1>7, <1>8 DEF BodyBytes
<1>10. BodyBytes(st, k + 1) = BodyBytes(st, k) + n
  BY <1>1, <1>4, <1>5, <1>7, <1>9 DEF BodyBytes
<1> QED
  BY <1>10 DEF n

\* What Short makes of a number on the wire: itself, or a negative number.
LEMMA ShortType == ASSUME NEW n \in Wire
                   PROVE  /\ Proto!Short(n) \in Int
                          /\ Proto!Short(n) >= 0 => Proto!Short(n) = n
BY SizesAssumption DEF Proto!Short, Wire

LEMMA BodiesType == \A st \in Bodies : st \in Seq(Wire) /\ st \in Seq(Nat)
<1>1. Wire \subseteq Nat
  BY SizesAssumption DEF Wire
<1>2. Seq(Wire) \subseteq Seq(Nat)
  BY <1>1, SeqMonotonic
<1> QED
  BY <1>2, ProtoAssumption

LEMMA StreamType == ASSUME NEW t \in Proto!Session
                    PROVE  t.stream \in Seq(Wire) /\ t.stream \in Seq(Nat)
<1>1. t.stream \in Bodies
  BY DEF Proto!Session
<1> QED
  BY <1>1, BodiesType

LEMMA InitProtoInv == Proto!Init => ProtoInv
<1> SUFFICES ASSUME Proto!Init PROVE ProtoInv
  OBVIOUS
<1>1. p_sess \in [Sessions -> Proto!Session]
  <2>1. \A st \in Bodies : [stream |-> st, life |-> "new", read |-> "none", nread |-> 0, size |-> 0,
               avail |-> 0, b_head_parse |-> FALSE, head |-> 0, k |-> 0, body |-> 0,
               queue |-> <<>>, write |-> "none", wire |-> <<>>] \in Proto!Session
    BY ProtoAssumption DEF Proto!Session
  <2> QED
    BY <2>1 DEF Proto!Init
<1>2. ASSUME NEW s \in Sessions PROVE SessOK(p_sess[s], p_busy = s)
  <2> DEFINE t == p_sess[s]
  <2>1. PICK st \in Bodies :
          t = [stream |-> st, life |-> "new", read |-> "none", nread |-> 0, size |-> 0,
               avail |-> 0, b_head_parse |-> FALSE, head |-> 0, k |-> 0, body |-> 0,
               queue |-> <<>>, write |-> "none", wire |-> <<>>]
    BY DEF Proto!Init
  <2>2. st \in Seq(Nat) /\ Len(st) \in Nat
    BY BodiesType
  <2>3. p_busy # s
    BY ProtoAssumption DEF Proto!Init
  <2>4. t \in Proto!Session
    BY <1>1
  <2>5. /\ t.stream = st /\ t.life = "new" /\ t.read = "none" /\ t.nread = 0 /\ t.size = 0
        /\ t.avail = 0 /\ t.b_head_parse = FALSE /\ t.head = 0 /\ t.k = 0 /\ t.body = 0
        /\ t.queue = <<>> /\ t.write = "none" /\ t.wire = <<>>
    BY <2>1
  <2> HIDE DEF t
  <2>6. BodyBytes(st, Len(st)) \in Nat
    BY <2>2, BodiedFinite
  <2>7. HEAD_LENGTH * Len(st) \in Nat
    BY <2>2, ProtoAssumption
  <2>8. Fed(t, p_busy = s)
    BY <2>2, <2>3, <2>5, <2>6, <2>7 DEF Fed
  <2>9. Framed(t)
    BY <2>2, <2>5, ProtoAssumption DEF Framed
  <2>10. SentOf(t) = <<>>
    BY <2>5 DEF SentOf
  <2>11. InOrder(SentOf(t), t.k, Replied(t), Stuck(t))
    BY <2>10 DEF InOrder
  <2>12. SessOK(t, p_busy = s)
    BY <2>4, <2>5, <2>8, <2>9, <2>11 DEF SessOK
  <2> QED
    BY <2>12 DEF t
<1> QED
  BY <1>1, <1>2 DEF ProtoInv, Proto!Init

-----------------------------------------------------------------------------
(* Steps of a session.                                                      *)

\* What a step leaves of the session s it is about; nothing else changes.
Moved(s) == /\ p_sess' = [p_sess EXCEPT ![s] = p_sess'[s]]
            /\ p_busy' \in Sessions \cup {NoSession}
            /\ \A r \in Sessions \ {s} : (p_busy' = r) <=> (p_busy = r)
            /\ SessOK(p_sess'[s], p_busy' = s)

LEMMA MovedProtoInv == ASSUME ProtoInv, NEW s \in Sessions, Moved(s) PROVE ProtoInv'
<1>1. p_sess \in [Sessions -> Proto!Session] /\ p_sess'[s] \in Proto!Session
  BY DEF ProtoInv, Moved, SessOK
<1>2. p_sess' \in [Sessions -> Proto!Session]
  BY <1>1 DEF Moved
<1>3. ASSUME NEW r \in Sessions PROVE SessOK(p_sess'[r], p_busy' = r)
  <2>1. CASE r = s
    BY <2>1 DEF Moved
  <2>2. CASE r # s
    <3>1. p_sess'[r] = p_sess[r]
      BY <1>1, <2>2 DEF Moved
    <3>2. (p_busy' = r) <=> (p_busy = r)
      BY <2>2 DEF Moved
    <3>3. SessOK(p_sess[r], p_busy = r)
      BY DEF ProtoInv
    <3> QED
      BY <3>1, <3>2, <3>3 DEF SessOK, Fed
  <2> QED
    BY <2>1, <2>2
<1> QED
  BY <1>2, <1>3 DEF ProtoInv, Moved

\* The session after a turn of the loop, a bytes of the piece being left.
Good(v, a) == /\ v \in Proto!Session
              /\ v.read = "none" /\ v.life # "new"
              /\ Taken(v) + a = v.nread
              /\ v.nread <= HEAD_LENGTH * Len(v.stream) + BodyBytes(v.stream, Len(v.stream))
              /\ Framed(v)
              /\ v.write # "none" => v.queue # <<>>
              /\ InOrder(SentOf(v), v.k, Replied(v), Stuck(v))

\* The fields of a session say what it has taken and sent.
LEMMA SameTaken ==
  ASSUME NEW t, NEW u, u.stream = t.stream, u.k = t.k, u.b_head_parse = t.b_head_parse,
         u.body = t.body, u.head = t.head
  PROVE  /\ Taken(u) = Taken(t)
         /\ Framed(u) <=> Framed(t)
         /\ Replied(u) = Replied(t) /\ Stuck(u) = Stuck(t)
BY DEF Taken, Framed, Replied, Stuck, Proto!BodyRemind

LEMMA TakenType == ASSUME NEW t \in Proto!Session PROVE Taken(t) \in Int
<1>1. /\ t.k \in Nat /\ t.body \in Nat /\ t.head \in Nat /\ t.b_head_parse \in BOOLEAN
      /\ HEAD_LENGTH \in Nat
  BY ProtoAssumption DEF Proto!Session
<1>2. HEAD_LENGTH * t.k \in Nat
  BY <1>1
<1>3. BodyBytes(t.stream, t.k) \in Nat
  BY <1>1, BodiedFinite
<1>4. CASE ~t.b_head_parse
  BY <1>1, <1>2, <1>3, <1>4 DEF Taken
<1>5. CASE t.b_head_parse
  <2>1. Bodied(t.stream, t.k - 1) = IF t.k = 0 THEN {} ELSE Bodied(t.stream, t.k - 1)
    <3>1. CASE t.k = 0
      <4>1. 1..(t.k - 1) = {}
        BY <3>1
      <4> QED
        BY <3>1, <4>1 DEF Bodied
    <3> QED
      BY <3>1
  <2>2. BodyBytes(t.stream, t.k - 1) \in Nat
    <3>1. CASE t.k = 0
      BY <2>1, <3>1, FS_EmptySet DEF BodyBytes
    <3>2. CASE t.k # 0
      <4>1. t.k - 1 \in Nat
        BY <1>1, <3>2
      <4> QED
        BY <4>1, BodiedFinite
    <3> QED
      BY <3>1, <3>2
  <2> QED
    BY <1>1, <1>2, <1>5, <2>2 DEF Taken
<1> QED
  BY <1>1, <1>4, <1>5

\* The piece is used up: the next read is started, and nothing else changes.
LEMMA ReadOnMoves == ASSUME ProtoInv, NEW s \in Sessions, p_busy = s,
                            NEW v, Good(v, 0), Proto!ReadOn(s, v)
                     PROVE  Moved(s)
<1> DEFINE u == [v EXCEPT !.avail = 0, !.read = "going"]
<1>1. p_sess \in [Sessions -> Proto!Session]
  BY DEF ProtoInv
<1>2. p_sess' = [p_sess EXCEPT ![s] = u] /\ p_busy' = NoSession
  BY DEF Proto!ReadOn
<1>3. p_sess'[s] = u /\ p_sess' = [p_sess EXCEPT ![s] = p_sess'[s]]
  BY <1>1, <1>2
<1>4. v \in Proto!Session /\ u \in Proto!Session
  BY DEF Good, Proto!Session
<1>5. /\ u.stream = v.stream /\ u.life = v.life /\ u.nread = v.nread
      /\ u.b_head_parse = v.b_head_parse /\ u.head = v.head /\ u.k = v.k /\ u.body = v.body
      /\ u.queue = v.queue /\ u.write = v.write /\ u.wire = v.wire
      /\ u.read = "going" /\ u.avail = 0
  BY <1>4 DEF Proto!Session
<1> HIDE DEF u
<1>6. p_busy' # s
  BY <1>2, ProtoAssumption
<1>7. Taken(u) = Taken(v) /\ (Framed(u) <=> Framed(v)) /\ Replied(u) = Replied(v)
      /\ Stuck(u) = Stuck(v)
  BY <1>5, SameTaken
<1>8. Taken(v) \in Int
  BY <1>4, TakenType
<1>9. Fed(u, p_busy' = s)
  BY <1>5, <1>6, <1>7, <1>8 DEF Fed, Good, Pending
<1>10. SentOf(u) = SentOf(v)
  BY <1>5 DEF SentOf
<1>11. SessOK(u, p_busy' = s)
  BY <1>4, <1>5, <1>6, <1>7, <1>9, <1>10 DEF SessOK, Good
<1> QED
  BY <1>2, <1>3, <1>11, ProtoAssumption DEF Moved

\* After a frame the loop goes on with the rest of the piece, or reads on.
LEMMA GoOnMoves == ASSUME ProtoInv, NEW s \in Sessions, p_busy = s,
                          NEW v, Good(v, v.avail), Proto!GoOn(s, v)
                   PROVE  Moved(s)
<1>1. p_sess \in [Sessions -> Proto!Session]
  BY DEF ProtoInv
<1>2. CASE v.avail = 0
  BY <1>2, ReadOnMoves DEF Proto!GoOn
<1>3. CASE v.avail # 0
  <2>1. p_sess' = [p_sess EXCEPT ![s] = v] /\ p_busy' = s
    BY <1>3 DEF Proto!GoOn
  <2>2. p_sess'[s] = v /\ p_sess' = [p_sess EXCEPT ![s] = p_sess'[s]]
    BY <1>1, <2>1
  <2>3. v \in Proto!Session /\ v.avail \in Nat
    BY DEF Good, Proto!Session
  <2>4. Taken(v) \in Int
    BY <2>3, TakenType
  <2>5. Fed(v, p_busy' = s)
    BY <1>3, <2>1, <2>3, <2>4 DEF Fed, Good, Pending
  <2>6. SessOK(v, p_busy' = s)
    BY <2>1, <2>3, <2>5 DEF SessOK, Good
  <2> QED
    BY <2>1, <2>2, <2>6 DEF Moved
<1> QED
  BY <1>2, <1>3

-----------------------------------------------------------------------------
(* The replies sent, and the turns of handle_read.                          *)

LEMMA ConcatAppend == ASSUME NEW S, NEW p \in Seq(S), NEW q \in Seq(S), NEW e \in S
                      PROVE  p \o Append(q, e) = Append(p \o q, e)
<1>1. <<e>> \in Seq(S) /\ p \o q \in Seq(S)
  OBVIOUS
<1>2. Append(q, e) = q \o <<e>> /\ Append(p \o q, e) = (p \o q) \o <<e>>
  BY <1>1, AppendIsConcat
<1> QED
  BY <1>1, <1>2, ConcatAssociative

LEMMA ReplyAppend == \A p, q \in Seq(Proto!Replies) : \A r \in Proto!Replies :
                       p \o Append(q, r) = Append(p \o q, r)
BY ConcatAppend

\* Sending a reply adds it to what has been sent, or drops it.
LEMMA SentSend ==
  ASSUME NEW v \in Proto!Session, NEW r \in Proto!Replies, v.write # "none" => v.queue # <<>>
  PROVE  SentOf(Proto!Send(v, r)) \in {SentOf(v), Append(SentOf(v), r)}
<1> DEFINE w == Proto!Send(v, r)
<1>1. v.queue \in Seq(Proto!Replies) /\ v.wire \in Seq(Proto!Replies)
  BY DEF Proto!Session
<1>2. CASE Len(v.queue) > MAX_SENDQUE
  BY <1>2 DEF Proto!Send
<1>3. CASE ~(Len(v.queue) > MAX_SENDQUE)
  <2>1. w = [v EXCEPT !.queue = Append(@, r), !.write = IF v.queue = <<>> THEN "going" ELSE @]
    BY <1>3 DEF Proto!Send
  <2>2. /\ w.queue = Append(v.queue, r) /\ w.wire = v.wire
        /\ w.write = IF v.queue = <<>> THEN "going" ELSE v.write
    BY <2>1 DEF Proto!Session
  <2> HIDE DEF w
  <2>3. CASE v.queue = <<>>
    <3>1. v.write = "none" /\ w.write = "going"
      BY <2>2, <2>3
    <3>2. SentOf(v) = v.wire \o <<>> /\ SentOf(w) = v.wire \o Append(<<>>, r)
      BY <2>2, <2>3, <3>1 DEF SentOf
    <3>3. v.wire \o Append(<<>>, r) = Append(v.wire \o <<>>, r)
      BY <1>1, ReplyAppend, EmptySeq
    <3> QED
      BY <1>1, <3>2, <3>3 DEF w
  <2>4. CASE v.queue # <<>> /\ v.write = "ok"
    <3>1. SentOf(v) = v.wire \o Tail(v.queue) /\ SentOf(w) = v.wire \o Tail(Append(v.queue, r))
      BY <2>2, <2>4 DEF SentOf
    <3>2. Tail(Append(v.queue, r)) = Append(Tail(v.queue), r)
          /\ Tail(v.queue) \in Seq(Proto!Replies)
      BY <1>1, <2>4
    <3>3. v.wire \o Append(Tail(v.queue), r) = Append(v.wire \o Tail(v.queue), r)
      BY <1>1, <3>2, ReplyAppend
    <3> QED
      BY <3>1, <3>2, <3>3 DEF w
  <2>5. CASE v.queue # <<>> /\ v.write # "ok"
    <3>1. SentOf(v) = v.wire \o v.queue /\ SentOf(w) = v.wire \o Append(v.queue, r)
      BY <2>2, <2>5 DEF SentOf
    <3>2. v.wire \o Append(v.queue, r) = Append(v.wire \o v.queue, r)
      BY <1>1, ReplyAppend
    <3> QED
      BY <3>1, <3>2 DEF w
  <2> QED
    BY <2>3, <2>4, <2>5
<1> QED
  BY <1>2, <1>3

LEMMA SentType == ASSUME NEW v \in Proto!Session, v.write # "none" => v.queue # <<>>
                  PROVE  SentOf(v) \in Seq(Proto!Replies)
BY DEF Proto!Session, SentOf

\* The reply to the newest frame follows the others.
LEMMA NextReply ==
  ASSUME NEW q \in Seq(Proto!Replies), NEW k \in Nat, NEW replied, NEW stuck,
         InOrder(q, k, replied, stuck),
         NEW r \in Proto!Replies, r.k = k, k > 0, replied,
         (\E i \in 1..Len(q) : q[i].k = k) => stuck
  PROVE  InOrder(Append(q, r), k, replied, stuck)
<1> DEFINE p == Append(q, r)
<1>1. Len(p) = Len(q) + 1 /\ Len(q) \in Nat
  OBVIOUS
<1>2. \A i \in 1..Len(p) : p[i] = IF i = Len(q) + 1 THEN r ELSE q[i]
  OBVIOUS
<1>3. \A i \in 1..Len(p) : i # Len(q) + 1 => i \in 1..Len(q)
  BY <1>1
<1>4. \A i \in 1..Len(q) : q[i].k \in Nat /\ q[i].k <= k
  BY DEF InOrder
<1> HIDE DEF p
<1>5. ASSUME NEW i \in 1..Len(p)
      PROVE  p[i].k \in 1..k /\ (p[i].k = k => replied)
  <2>1. CASE i = Len(q) + 1
    BY <1>2, <2>1
  <2>2. CASE i # Len(q) + 1
    BY <1>2, <1>3, <2>2 DEF InOrder
  <2> QED
    BY <2>1, <2>2
<1>6. ASSUME NEW i \in 1..Len(p), NEW j \in 1..Len(p), i < j
      PROVE  p[i].k < p[j].k \/ (p[i].k = p[j].k /\ p[i].k = k /\ stuck)
  <2>1. i # Len(q) + 1 /\ i \in 1..Len(q) /\ p[i] = q[i]
    BY <1>1, <1>2, <1>3, <1>6
  <2>2. CASE j = Len(q) + 1
    <3>1. p[j] = r
      BY <1>2, <2>2
    <3> QED
      BY <1>4, <2>1, <3>1
  <2>3. CASE j # Len(q) + 1
    <3>1. j \in 1..Len(q) /\ p[j] = q[j]
      BY <1>2, <1>3, <2>3
    <3> QED
      BY <1>6, <2>1, <3>1 DEF InOrder
  <2> QED
    BY <2>2, <2>3
<1>7. InOrder(p, k, replied, stuck)
  BY <1>5, <1>6 DEF InOrder
<1> QED
  BY <1>7 DEF p

\* A reply leaves the session as the invariant wants it.
LEMMA SendGood ==
  ASSUME NEW v, NEW a, a = v.avail, Good(v, a),
         NEW r \in Proto!Replies, r.k = v.k, v.k > 0, Replied(v),
         (\E i \in 1..Len(SentOf(v)) : SentOf(v)[i].k = v.k) => Stuck(v)
  PROVE  Good(Proto!Send(v, r), a) /\ Proto!Send(v, r).avail = a
<1> DEFINE w == Proto!Send(v, r)
<1>1. v \in Proto!Session /\ v.queue \in Seq(Proto!Replies) /\ v.k \in Nat
  BY DEF Good, Proto!Session
<1>2. CASE Len(v.queue) > MAX_SENDQUE
  BY <1>2 DEF Proto!Send
<1>3. CASE ~(Len(v.queue) > MAX_SENDQUE)
  <2>1. w = [v EXCEPT !.queue = Append(@, r), !.write = IF v.queue = <<>> THEN "going" ELSE @]
    BY <1>3 DEF Proto!Send
  <2>2. w \in Proto!Session
    <3>1. Append(v.queue, r) \in Seq(Proto!Replies)
      BY <1>1
    <3> QED
      BY <1>1, <2>1, <3>1 DEF Proto!Session
  <2>3. /\ w.stream = v.stream /\ w.life = v.life /\ w.read = v.read /\ w.nread = v.nread
        /\ w.avail = v.avail /\ w.b_head_parse = v.b_head_parse /\ w.head = v.head
        /\ w.k = v.k /\ w.body = v.body /\ w.queue = Append(v.queue, r)
        /\ w.write = IF v.queue = <<>> THEN "going" ELSE v.write
    BY <1>1, <2>1 DEF Proto!Session
  <2>4. SentOf(w) \in {SentOf(v), Append(SentOf(v), r)}
    BY <1>1, SentSend DEF Good
  <2> HIDE DEF w
  <2>5. w.write # "none" => w.queue # <<>>
    BY <1>1, <2>3
  <2>6. /\ Taken(w) = Taken(v) /\ (Framed(w) <=> Framed(v))
        /\ Replied(w) = Replied(v) /\ Stuck(w) = Stuck(v)
    BY <2>3, SameTaken
  <2>7. SentOf(v) \in Seq(Proto!Replies)
    BY SentType DEF Good
  <2>8. InOrder(SentOf(w), w.k, Replied(w), Stuck(w))
    <3>1. InOrder(SentOf(v), v.k, Replied(v), Stuck(v))
      BY DEF Good
    <3>2. InOrder(Append(SentOf(v), r), v.k, Replied(v), Stuck(v))
      BY <1>1, <2>7, <3>1, NextReply
    <3> QED
      BY <2>3, <2>4, <2>6, <3>1, <3>2
  <2>9. Good(w, a) /\ w.avail = a
    BY <2>2, <2>3, <2>5, <2>6, <2>8 DEF Good
  <2> QED
    BY <2>9 DEF w
<1> QED
  BY <1>2, <1>3

\* A header that is complete belongs to a frame of the stream.
LEMMA FrameKnown ==
  ASSUME NEW t, SessOK(t, TRUE), Proto!InHead(t), t.avail >= Proto!HeadRemind(t)
  PROVE  /\ t.k + 1 <= Len(t.stream) /\ Proto!NextLen(t) \in Int
         /\ Proto!NextLen(t) >= 0 => Proto!NextLen(t) = t.stream[t.k + 1]
<1>1. /\ t \in Proto!Session /\ t.stream \in Seq(Wire) /\ t.k \in Nat /\ t.head \in 0..HEAD_LENGTH
      /\ t.avail \in Nat /\ HEAD_LENGTH \in Nat \ {0}
  BY StreamType, ProtoAssumption DEF SessOK, Proto!Session
<1>2. t.k <= Len(t.stream) /\ t.head < HEAD_LENGTH /\ ~t.b_head_parse
  BY DEF SessOK, Framed, Proto!InHead
<1>3. Taken(t) = HEAD_LENGTH * t.k + BodyBytes(t.stream, t.k) + t.head
  <2>1. BodyBytes(t.stream, t.k) \in Nat /\ HEAD_LENGTH * t.k \in Nat
    BY <1>1, BodiedFinite
  <2>2. Taken(t) = HEAD_LENGTH * t.k + (BodyBytes(t.stream, t.k) + t.head)
    BY <1>2 DEF Taken
  <2> QED
    BY <1>1, <2>1, <2>2
<1>4. Taken(t) + t.avail <= HEAD_LENGTH * Len(t.stream) + BodyBytes(t.stream, Len(t.stream))
  <2>1. t.read = "none" /\ Taken(t) + t.avail + Pending(t) = t.nread
    BY DEF SessOK, Fed
  <2>2. Pending(t) = 0 /\ Taken(t) \in Int
    BY <1>1, <2>1, TakenType DEF Pending
  <2> QED
    BY <1>1, <2>1, <2>2 DEF SessOK, Fed
<1>5. t.k # Len(t.stream)
  <2> SUFFICES ASSUME t.k = Len(t.stream) PROVE FALSE
    OBVIOUS
  <2>1. BodyBytes(t.stream, t.k) \in Nat /\ HEAD_LENGTH * t.k \in Nat
    BY <1>1, BodiedFinite
  <2>2. t.avail >= HEAD_LENGTH - t.head
    BY DEF Proto!HeadRemind
  <2> QED
    BY <1>1, <1>2, <1>3, <1>4, <2>1, <2>2
<1>6. t.k + 1 <= Len(t.stream)
  BY <1>1, <1>2, <1>5
<1>7. t.stream[t.k + 1] \in Wire
  BY SMTT(30), <1>1, <1>6
<1> QED
  BY <1>6, <1>7, ShortType DEF Proto!NextLen

\* What handle_read knows of its session.
LEMMA Entered ==
  ASSUME ProtoInv, NEW s \in Sessions, p_busy = s, NEW t, t = p_sess[s]
  PROVE  /\ SessOK(t, TRUE) /\ t \in Proto!Session
         /\ t.read = "none" /\ t.life # "new" /\ t.avail \in Nat \ {0}
         /\ Taken(t) \in Int /\ Taken(t) + t.avail = t.nread
         /\ t.nread <= HEAD_LENGTH * Len(t.stream) + BodyBytes(t.stream, Len(t.stream))
<1>1. SessOK(t, TRUE) /\ t \in Proto!Session
  BY DEF ProtoInv, SessOK, Fed
<1>2. t.read = "none" /\ t.life # "new" /\ t.avail > 0 /\ t.avail \in Nat /\ t.nread \in Nat
  BY <1>1 DEF SessOK, Fed, Proto!Session
<1>3. Taken(t) + t.avail + Pending(t) = t.nread
  BY <1>1, <1>2 DEF SessOK, Fed
<1>4. Pending(t) = 0
  BY <1>2 DEF Pending
<1>5. Taken(t) \in Int
  BY <1>1, TakenType
<1> QED
  BY <1>1, <1>2, <1>3, <1>4, <1>5 DEF SessOK, Fed

LEMMA HeadShortMoves ==
  ASSUME ProtoInv, NEW s \in Sessions, p_busy = s, Proto!HeadShort(s, p_sess[s])
  PROVE  Moved(s)
<1> DEFINE t == p_sess[s]
           v == [t EXCEPT !.head = t.head + t.avail]
<1>a. t \in Proto!Session
  BY Entered
<1>b. SessOK(t, TRUE) /\ t.read = "none" /\ t.life # "new"
  BY Entered
<1>c. t.avail \in Nat \ {0} /\ Taken(t) \in Int /\ Taken(t) + t.avail = t.nread
  BY Entered
<1>d. t.nread <= HEAD_LENGTH * Len(t.stream) + BodyBytes(t.stream, Len(t.stream))
  BY Entered
<1>2. Proto!InHead(t) /\ t.avail < Proto!HeadRemind(t) /\ Proto!ReadOn(s, v)
  BY DEF Proto!HeadShort
<1> HIDE DEF t
<1>3. /\ ~t.b_head_parse /\ t.head \in Nat /\ t.k \in Nat /\ HEAD_LENGTH \in Nat \ {0}
      /\ t.head + t.avail < HEAD_LENGTH
  <2>1. t.head \in Nat /\ t.k \in Nat
    BY <1>a DEF Proto!Session
  <2> QED
    BY <2>1, <1>c, <1>2, ProtoAssumption DEF Proto!InHead, Proto!HeadRemind
<1>4. v \in Proto!Session
  <2>1. t.head + t.avail \in 0..HEAD_LENGTH
    BY <1>c, <1>3
  <2> QED
    BY <1>a, <2>1 DEF Proto!Session
<1>5. /\ v.stream = t.stream /\ v.life = t.life /\ v.read = t.read /\ v.nread = t.nread
      /\ v.avail = t.avail /\ v.b_head_parse = t.b_head_parse /\ v.head = t.head + t.avail
      /\ v.k = t.k /\ v.body = t.body /\ v.queue = t.queue
      /\ v.write = t.write /\ v.wire = t.wire
  BY <1>a DEF Proto!Session
<1> HIDE DEF v
<1>6. Taken(v) = Taken(t) + t.avail
  <2>1. HEAD_LENGTH * t.k \in Nat /\ BodyBytes(t.stream, t.k) \in Nat
    BY <1>3, BodiedFinite
  <2>2. Taken(t) = HEAD_LENGTH * t.k + (BodyBytes(t.stream, t.k) + t.head)
    BY <1>3 DEF Taken
  <2>3. Taken(v) = HEAD_LENGTH * t.k + (BodyBytes(t.stream, t.k) + (t.head + t.avail))
    BY <1>3, <1>5 DEF Taken
  <2> QED
    BY <1>c, <1>3, <2>1, <2>2, <2>3
<1>7. Framed(v)
  BY <1>b, <1>3, <1>5 DEF SessOK, Framed
<1>8. SentOf(v) = SentOf(t) /\ Replied(v) = Replied(t) /\ Stuck(v) = Stuck(t)
  BY <1>5 DEF SentOf, Replied, Stuck, Proto!BodyRemind
<1>9. InOrder(SentOf(v), v.k, Replied(v), Stuck(v)) /\ (v.write # "none" => v.queue # <<>>)
  BY <1>b, <1>5, <1>8 DEF SessOK
<1>10. Taken(v) + 0 = v.nread
  BY <1>c, <1>5, <1>6
<1>11. Good(v, 0)
  BY <1>b, <1>d, <1>4, <1>5, <1>7, <1>9, <1>10 DEF Good
<1> QED
  BY <1>2, <1>11, ReadOnMoves DEF t

LEMMA RejectHeadMoves ==
  ASSUME ProtoInv, NEW s \in Sessions, p_busy = s, Proto!RejectHead(s, p_sess[s])
  PROVE  Moved(s)
<1> DEFINE t == p_sess[s]
           u == p_sess'[s]
<1>a. t \in Proto!Session
  BY Entered
<1>b. SessOK(t, TRUE) /\ t.read = "none" /\ t.life # "new"
  BY Entered
<1>c. t.avail \in Nat \ {0} /\ Taken(t) \in Int /\ Taken(t) + t.avail = t.nread
  BY Entered
<1>d. t.nread <= HEAD_LENGTH * Len(t.stream) + BodyBytes(t.stream, Len(t.stream))
  BY Entered
<1>2. p_sess \in [Sessions -> Proto!Session]
  BY DEF ProtoInv
<1>3. p_busy' = NoSession /\ p_sess' = [p_sess EXCEPT ![s].avail = 0, ![s].life = "cleared"]
  BY DEF Proto!RejectHead
<1>4. u = [t EXCEPT !.avail = 0, !.life = "cleared"] /\ p_sess' = [p_sess EXCEPT ![s] = u]
  BY <1>2, <1>3
<1> HIDE DEF u, t
<1>5. u \in Proto!Session
  BY <1>a, <1>4 DEF Proto!Session
<1>6. /\ u.stream = t.stream /\ u.life = "cleared" /\ u.read = "none" /\ u.nread = t.nread
      /\ u.avail = 0 /\ u.b_head_parse = t.b_head_parse /\ u.head = t.head
      /\ u.k = t.k /\ u.body = t.body /\ u.queue = t.queue
      /\ u.write = t.write /\ u.wire = t.wire
  BY <1>a, <1>b, <1>4 DEF Proto!Session
<1>7. p_busy' # s
  BY <1>3, ProtoAssumption
<1>8. Fed(u, p_busy' = s)
  BY <1>d, <1>6, <1>7 DEF Fed
<1>9. SentOf(u) = SentOf(t) /\ Replied(u) = Replied(t) /\ Stuck(u) = Stuck(t)
      /\ (Framed(u) <=> Framed(t))
  BY <1>6, SameTaken DEF SentOf
<1>10. SessOK(u, p_busy' = s)
  BY <1>b, <1>5, <1>6, <1>8, <1>9 DEF SessOK
<1> QED
  BY <1>3, <1>4, <1>10, ProtoAssumption DEF Moved, u, t

\* A session that has no frame in progress knows nothing of the next one.
LEMMA NextInOrder ==
  ASSUME NEW q \in Seq(Proto!Replies), NEW t, NEW v, t.k \in Nat,
         InOrder(q, t.k, Replied(t), Stuck(t)), ~Stuck(t),
         v.k = t.k + 1
  PROVE  /\ InOrder(q, v.k, Replied(v), Stuck(v))
         /\ ~\E i \in 1..Len(q) : q[i].k = v.k
<1>1. ASSUME NEW i \in 1..Len(q)
      PROVE  q[i].k \in 1..v.k /\ q[i].k # v.k
  <2>1. q[i].k \in 1..t.k
    BY DEF InOrder
  <2> QED
    BY <2>1
<1>2. \A i, j \in 1..Len(q) : i < j => q[i].k < q[j].k
  BY DEF InOrder
<1> QED
  BY <1>1, <1>2 DEF InOrder

LEMMA BodyShortMoves ==
  ASSUME ProtoInv, NEW s \in Sessions, p_busy = s, Proto!BodyShort(s, p_sess[s])
  PROVE  Moved(s)
<1> DEFINE t == p_sess[s]
           v == [t EXCEPT !.k = t.k + 1, !.body = Proto!AfterHead(t), !.b_head_parse = TRUE]
<1>a. t \in Proto!Session
  BY Entered
<1>b. SessOK(t, TRUE) /\ t.read = "none" /\ t.life # "new"
  BY Entered
<1>c. t.avail \in Nat \ {0} /\ Taken(t) \in Int /\ Taken(t) + t.avail = t.nread
  BY Entered
<1>n. t.avail \in Nat /\ Taken(t) \in Int
  BY <1>c
<1>d. t.nread <= HEAD_LENGTH * Len(t.stream) + BodyBytes(t.stream, Len(t.stream))
  BY Entered
<1>m. t.head \in Nat /\ t.k \in Nat /\ t.body \in Nat
  BY <1>a DEF Proto!Session
<1>e. /\ t.stream \in Seq(Nat) /\ t.head \in Nat /\ t.k \in Nat /\ t.body \in Nat
      /\ t.b_head_parse \in BOOLEAN
  BY <1>a, <1>m, StreamType DEF Proto!Session
<1>1. /\ Proto!InHead(t) /\ t.avail >= Proto!HeadRemind(t) /\ Proto!NextLen(t) <= DATA_LENGTH
      /\ \/ Proto!AfterHead(t) < Proto!NextLen(t)
         \/ Proto!NextLen(t) = -1 /\ Proto!AfterHead(t) = 0
      /\ Proto!ReadOn(s, v)
  BY DEF Proto!BodyShort
<1> HIDE DEF t
<1>2. t.k + 1 <= Len(t.stream) /\ Proto!NextLen(t) \in Int
  BY <1>b, <1>1, FrameKnown
<1>3. /\ ~t.b_head_parse /\ HEAD_LENGTH \in Nat /\ t.head < HEAD_LENGTH
      /\ Proto!AfterHead(t) = t.avail - (HEAD_LENGTH - t.head) /\ Proto!AfterHead(t) \in Nat
  <2>1. ~t.b_head_parse /\ HEAD_LENGTH \in Nat
    BY <1>1, ProtoAssumption DEF Proto!InHead
  <2>2. t.head < HEAD_LENGTH
    BY <1>b, <2>1 DEF SessOK, Framed
  <2> QED
    BY <1>n, <1>m, <1>1, <2>1, <2>2 DEF Proto!AfterHead, Proto!HeadRemind
<1>4. v \in Proto!Session
  <2>1. t.k + 1 \in Nat
    BY <1>e
  <2> QED
    BY <1>a, <1>3, <2>1 DEF Proto!Session
<1>5. /\ v.stream = t.stream /\ v.life = t.life /\ v.read = t.read
      /\ v.nread = t.nread /\ v.avail = t.avail /\ v.b_head_parse = TRUE
      /\ v.head = t.head /\ v.k = t.k + 1 /\ v.body = Proto!AfterHead(t)
      /\ v.queue = t.queue /\ v.write = t.write /\ v.wire = t.wire
  BY <1>a DEF Proto!Session
<1> HIDE DEF v
<1>6. Taken(v) = Taken(t) + t.avail
  <2>1. HEAD_LENGTH * t.k \in Nat /\ BodyBytes(t.stream, t.k) \in Nat
    BY <1>3, <1>e, BodiedFinite
  <2>2. Taken(t) = HEAD_LENGTH * t.k + (BodyBytes(t.stream, t.k) + t.head)
    BY <1>3 DEF Taken
  <2>3. v.k - 1 = t.k
    BY <1>5, <1>m
  <2>4. v.b_head_parse /\ v.k = t.k + 1 /\ v.stream = t.stream /\ v.body = Proto!AfterHead(t)
    BY <1>5
  <2>5. Taken(v) = HEAD_LENGTH * (t.k + 1) + (BodyBytes(t.stream, t.k) + Proto!AfterHead(t))
    BY <2>3, <2>4 DEF Taken
  <2>6. HEAD_LENGTH * (t.k + 1) = HEAD_LENGTH * t.k + HEAD_LENGTH
    BY <1>3, <1>m
  <2>7. Proto!AfterHead(t) = t.avail - (HEAD_LENGTH - t.head) /\ HEAD_LENGTH \in Nat
    BY <1>3
  <2> DEFINE hk == HEAD_LENGTH * t.k
             bb == BodyBytes(t.stream, t.k)
  <2> HIDE DEF hk, bb
  <2> QED
    BY <1>n, <1>m, <2>1, <2>2, <2>5, <2>6, <2>7 DEF hk, bb
<1>7. Framed(v)
  <2>1. v.b_head_parse /\ v.k <= Len(v.stream) /\ v.k > 0
    BY <1>2, <1>5, <1>m
  <2>2. Proto!Short(v.stream[v.k]) = Proto!NextLen(t) /\ v.body = Proto!AfterHead(t)
    BY <1>5 DEF Proto!NextLen
  <2> QED
    BY <1>1, <1>2, <1>3, <2>1, <2>2 DEF Framed
<1>8. SentOf(v) = SentOf(t) /\ SentOf(t) \in Seq(Proto!Replies)
  BY <1>a, <1>b, <1>5, SentType DEF SentOf, SessOK
<1>9. InOrder(SentOf(v), v.k, Replied(v), Stuck(v)) /\ (v.write # "none" => v.queue # <<>>)
  <2>1. InOrder(SentOf(t), t.k, Replied(t), Stuck(t)) /\ ~Stuck(t)
    BY <1>b, <1>3 DEF SessOK, Stuck
  <2>0. t.k \in Nat
    BY <1>e
  <2>2. InOrder(SentOf(t), v.k, Replied(v), Stuck(v))
    BY <2>0, <1>5, <1>8, <2>1, NextInOrder
  <2> QED
    BY <1>b, <1>5, <1>8, <2>2 DEF SessOK
<1>10. Taken(v) + 0 = v.nread
  BY <1>c, <1>5, <1>6
<1>11. Good(v, 0)
  BY <1>b, <1>d, <1>4, <1>5, <1>7, <1>9, <1>10 DEF Good
<1> QED
  BY <1>1, <1>11, ReadOnMoves DEF t

LEMMA BodyWholeMoves ==
  ASSUME ProtoInv, NEW s \in Sessions, p_busy = s, Proto!BodyWhole(s, p_sess[s])
  PROVE  Moved(s)
<1> DEFINE t == p_sess[s]
           v == [t EXCEPT !.head = 0, !.k = t.k + 1, !.body = Proto!NextLen(t),
                          !.avail = Proto!AfterHead(t) - Proto!NextLen(t)]
<1>a. t \in Proto!Session
  BY Entered
<1>b. SessOK(t, TRUE) /\ t.read = "none" /\ t.life # "new"
  BY Entered
<1>c. t.avail \in Nat \ {0} /\ Taken(t) \in Int /\ Taken(t) + t.avail = t.nread
  BY Entered
<1>n. t.avail \in Nat /\ Taken(t) \in Int
  BY <1>c
<1>d. t.nread <= HEAD_LENGTH * Len(t.stream) + BodyBytes(t.stream, Len(t.stream))
  BY Entered
<1>m. t.head \in Nat /\ t.k \in Nat /\ t.body \in Nat
  BY <1>a DEF Proto!Session
<1>e. /\ t.stream \in Seq(Nat) /\ t.head \in Nat /\ t.k \in Nat /\ t.body \in Nat
      /\ t.b_head_parse \in BOOLEAN
  BY <1>a, <1>m, StreamType DEF Proto!Session
<1> DEFINE r == [k |-> t.k + 1, kind |-> "answer"]
<1>1. /\ Proto!InHead(t) /\ t.avail >= Proto!HeadRemind(t) /\ Proto!NextLen(t) \in 0..DATA_LENGTH
      /\ Proto!AfterHead(t) >= Proto!NextLen(t) /\ Proto!GoOn(s, Proto!Send(v, r))
  BY DEF Proto!BodyWhole, Proto!SendString
<1> HIDE DEF t
<1>2. /\ t.k + 1 <= Len(t.stream) /\ Proto!NextLen(t) = t.stream[t.k + 1]
      /\ Proto!NextLen(t) \in Nat /\ Proto!NextLen(t) <= DATA_LENGTH
  <2>1. /\ t.k + 1 <= Len(t.stream)
        /\ Proto!NextLen(t) >= 0 => Proto!NextLen(t) = t.stream[t.k + 1]
    BY <1>b, <1>1, FrameKnown
  <2>2. Proto!NextLen(t) \in Nat /\ Proto!NextLen(t) <= DATA_LENGTH
    BY <1>1, ProtoAssumption
  <2> QED
    BY <2>1, <2>2
<1>3. /\ ~t.b_head_parse /\ HEAD_LENGTH \in Nat \ {0}
      /\ Proto!AfterHead(t) = t.avail - (HEAD_LENGTH - t.head)
      /\ Proto!AfterHead(t) - Proto!NextLen(t) \in Nat
      /\ Proto!AfterHead(t) \in Int
  <2>1. ~t.b_head_parse /\ HEAD_LENGTH \in Nat \ {0}
    BY <1>1, ProtoAssumption DEF Proto!InHead
  <2>2. t.head < HEAD_LENGTH
    BY <1>b, <2>1 DEF SessOK, Framed
  <2> QED
    <3>1. Proto!AfterHead(t) = t.avail - (HEAD_LENGTH - t.head)
      BY DEF Proto!AfterHead, Proto!HeadRemind
    <3>2. Proto!AfterHead(t) >= Proto!NextLen(t) /\ Proto!NextLen(t) \in Nat
      BY <1>1, <1>2
    <3>3. HEAD_LENGTH \in Nat
      BY <2>1
    <3>4. Proto!AfterHead(t) \in Int /\ Proto!AfterHead(t) - Proto!NextLen(t) \in Nat
      BY <1>n, <1>m, <3>1, <3>2, <3>3
    <3> QED
      BY <2>1, <2>2, <3>1, <3>4
<1>4. v \in Proto!Session
  <2>1. t.k + 1 \in Nat /\ 0 \in 0..HEAD_LENGTH
    BY <1>e, <1>3
  <2> QED
    BY <1>a, <1>2, <1>3, <2>1 DEF Proto!Session
<1>5. /\ v.stream = t.stream /\ v.life = t.life /\ v.read = t.read
      /\ v.nread = t.nread /\ v.avail = Proto!AfterHead(t) - Proto!NextLen(t)
      /\ v.b_head_parse = t.b_head_parse
      /\ v.head = 0 /\ v.k = t.k + 1 /\ v.body = Proto!NextLen(t)
      /\ v.queue = t.queue /\ v.write = t.write
      /\ v.wire = t.wire
  BY <1>a DEF Proto!Session
<1> HIDE DEF v
<1>6. Taken(v) + v.avail = v.nread
  <2>1. HEAD_LENGTH * t.k \in Nat /\ BodyBytes(t.stream, t.k) \in Nat
    BY <1>3, <1>e, BodiedFinite
  <2>2. Taken(t) = HEAD_LENGTH * t.k + (BodyBytes(t.stream, t.k) + t.head)
    BY <1>3 DEF Taken
  <2>3. BodyBytes(t.stream, t.k + 1) = BodyBytes(t.stream, t.k) + Proto!NextLen(t)
    BY <1>e, <1>2, NextBody
  <2>4. Taken(v) = HEAD_LENGTH * (t.k + 1) + (BodyBytes(t.stream, t.k + 1) + 0)
    BY <1>3, <1>5 DEF Taken
  <2>5. HEAD_LENGTH * (t.k + 1) = HEAD_LENGTH * t.k + HEAD_LENGTH
    BY <1>3, <1>e
  <2>6. /\ Proto!AfterHead(t) = t.avail - (HEAD_LENGTH - t.head) /\ HEAD_LENGTH \in Nat
        /\ Proto!NextLen(t) \in Nat /\ v.avail = Proto!AfterHead(t) - Proto!NextLen(t)
        /\ v.nread = Taken(t) + t.avail
    BY <1>2, <1>3, <1>5, <1>c
  <2> QED
    BY <1>n, <1>m, <2>1, <2>2, <2>3, <2>4, <2>5, <2>6
<1>7. Framed(v)
  <2>1. ~v.b_head_parse /\ v.head < HEAD_LENGTH /\ v.k <= Len(v.stream)
    BY <1>2, <1>3, <1>5
  <2> QED
    BY <2>1 DEF Framed
<1>8. SentOf(v) = SentOf(t) /\ SentOf(t) \in Seq(Proto!Replies)
  BY <1>a, <1>b, <1>5, SentType DEF SentOf, SessOK
<1>9. /\ InOrder(SentOf(v), v.k, Replied(v), Stuck(v))
      /\ ~\E i \in 1..Len(SentOf(v)) : SentOf(v)[i].k = v.k
      /\ v.write # "none" => v.queue # <<>>
  <2>1. InOrder(SentOf(t), t.k, Replied(t), Stuck(t)) /\ ~Stuck(t)
    BY <1>b, <1>3 DEF SessOK, Stuck
  <2>0. t.k \in Nat
    BY <1>e
  <2>3. /\ InOrder(SentOf(t), v.k, Replied(v), Stuck(v))
        /\ ~\E i \in 1..Len(SentOf(t)) : SentOf(t)[i].k = v.k
    BY <2>0, <1>5, <1>8, <2>1, NextInOrder
  <2> QED
    BY <1>b, <1>5, <1>8, <2>3 DEF SessOK
<1>10. Good(v, v.avail)
  BY <1>b, <1>d, <1>4, <1>5, <1>6, <1>7, <1>9 DEF Good
<1>11. r \in Proto!Replies /\ r.k = v.k /\ v.k > 0 /\ Replied(v)
  BY <1>3, <1>5, <1>e DEF Proto!Replies, Replied
<1> HIDE DEF r
<1>12. Good(Proto!Send(v, r), v.avail) /\ Proto!Send(v, r).avail = v.avail
  BY <1>9, <1>10, <1>11, SendGood
<1> QED
  BY <1>1, <1>12, GoOnMoves

LEMMA ResumeShortMoves ==
  ASSUME ProtoInv, NEW s \in Sessions, p_busy = s, Proto!ResumeShort(s, p_sess[s])
  PROVE  Moved(s)
<1> DEFINE t == p_sess[s]
           v == [t EXCEPT !.body = t.body + t.avail]
<1>a. t \in Proto!Session
  BY Entered
<1>b. SessOK(t, TRUE) /\ t.read = "none" /\ t.life # "new"
  BY Entered
<1>c. t.avail \in Nat \ {0} /\ Taken(t) \in Int /\ Taken(t) + t.avail = t.nread
  BY Entered
<1>n. t.avail \in Nat /\ Taken(t) \in Int
  BY <1>c
<1>d. t.nread <= HEAD_LENGTH * Len(t.stream) + BodyBytes(t.stream, Len(t.stream))
  BY Entered
<1>m. t.head \in Nat /\ t.k \in Nat /\ t.body \in Nat
  BY <1>a DEF Proto!Session
<1>e. /\ t.stream \in Seq(Nat) /\ t.head \in Nat /\ t.k \in Nat /\ t.body \in Nat
      /\ t.b_head_parse \in BOOLEAN
  BY <1>a, <1>m, StreamType DEF Proto!Session
<1>1. t.b_head_parse /\ t.avail < Proto!BodyRemind(t) /\ Proto!ReadOn(s, v)
  BY DEF Proto!ResumeShort
<1> HIDE DEF t
<1>2. t.k > 0 /\ t.k <= Len(t.stream) /\ Proto!Short(t.stream[t.k]) <= DATA_LENGTH
  BY <1>b, <1>1 DEF SessOK, Framed
<1>3. Proto!Short(t.stream[t.k]) \in Int
  <2>1. t.stream[t.k] \in Wire
    BY <1>a, <1>2, <1>m, StreamType
  <2> QED
    BY <2>1, ShortType
<1>4. v \in Proto!Session
  <2>1. t.body + t.avail \in Nat
    BY <1>c, <1>e
  <2> QED
    BY <1>a, <2>1 DEF Proto!Session
<1>5. /\ v.stream = t.stream /\ v.life = t.life /\ v.read = t.read
      /\ v.nread = t.nread /\ v.avail = t.avail /\ v.b_head_parse = t.b_head_parse
      /\ v.head = t.head /\ v.k = t.k /\ v.body = t.body + t.avail
      /\ v.queue = t.queue /\ v.write = t.write
      /\ v.wire = t.wire
  BY <1>a DEF Proto!Session
<1> HIDE DEF v
<1>6. Taken(v) + 0 = v.nread
  <2>1. HEAD_LENGTH * t.k \in Nat /\ t.k - 1 \in Nat
    BY <1>2, <1>m, ProtoAssumption
  <2>2. BodyBytes(t.stream, t.k - 1) \in Nat
    BY <2>1, BodiedFinite
  <2>3. Taken(t) = HEAD_LENGTH * t.k + (BodyBytes(t.stream, t.k - 1) + t.body)
    BY <1>1 DEF Taken
  <2>4. Taken(v) = HEAD_LENGTH * t.k + (BodyBytes(t.stream, t.k - 1) + v.body)
    BY <1>1, <1>5 DEF Taken
  <2>5. v.body = t.body + t.avail /\ v.nread = Taken(t) + t.avail
    BY <1>5, <1>c
  <2> QED
    BY <1>n, <1>m, <2>1, <2>2, <2>3, <2>4, <2>5
<1>7. t.body + t.avail < Proto!Short(t.stream[t.k])
  BY <1>1, <1>3, <1>c, <1>m DEF Proto!BodyRemind
<1>8. Framed(v)
  <2>1. v.body <= Proto!Short(v.stream[v.k])
    BY <1>3, <1>5, <1>7, <1>n, <1>m
  <2>2. v.b_head_parse /\ v.k = t.k /\ v.stream = t.stream
    BY <1>1, <1>5
  <2> QED
    BY <1>2, <2>1, <2>2 DEF Framed
<1>9. SentOf(v) = SentOf(t) /\ ~Replied(t) /\ ~Replied(v) /\ ~Stuck(t) /\ ~Stuck(v)
  <2>1. Proto!BodyRemind(t) # 0 /\ Proto!BodyRemind(v) # 0
    BY <1>3, <1>5, <1>7, <1>c, <1>m DEF Proto!BodyRemind
  <2> QED
    BY <1>1, <1>5, <2>1 DEF SentOf, Replied, Stuck
<1>10. InOrder(SentOf(v), v.k, Replied(v), Stuck(v))
       /\ (v.write # "none" => v.queue # <<>>)
  BY <1>b, <1>5, <1>9 DEF SessOK, InOrder
<1>11. Good(v, 0)
  BY <1>b, <1>d, <1>4, <1>5, <1>6, <1>8, <1>10 DEF Good
<1> QED
  BY <1>1, <1>11, ReadOnMoves DEF t

LEMMA ResumeDoneMoves ==
  ASSUME ProtoInv, NEW s \in Sessions, p_busy = s, Proto!ResumeDone(s, p_sess[s])
  PROVE  Moved(s)
<1> DEFINE t == p_sess[s]
           v == [t EXCEPT !.body = t.body + Proto!BodyRemind(t),
                          !.avail = t.avail - Proto!BodyRemind(t)]
<1>a. t \in Proto!Session
  BY Entered
<1>b. SessOK(t, TRUE) /\ t.read = "none" /\ t.life # "new"
  BY Entered
<1>c. t.avail \in Nat \ {0} /\ Taken(t) \in Int /\ Taken(t) + t.avail = t.nread
  BY Entered
<1>n. t.avail \in Nat /\ Taken(t) \in Int
  BY <1>c
<1>d. t.nread <= HEAD_LENGTH * Len(t.stream) + BodyBytes(t.stream, Len(t.stream))
  BY Entered
<1>m. t.head \in Nat /\ t.k \in Nat /\ t.body \in Nat
  BY <1>a DEF Proto!Session
<1>e. /\ t.stream \in Seq(Nat) /\ t.head \in Nat /\ t.k \in Nat /\ t.body \in Nat
      /\ t.b_head_parse \in BOOLEAN
  BY <1>a, <1>m, StreamType DEF Proto!Session
<1> DEFINE r == [k |-> t.k, kind |-> "echo"]
<1>1. t.b_head_parse /\ Proto!BodyRemind(t) \in 0..t.avail /\ Proto!GoOn(s, Proto!Send(v, r))
  BY DEF Proto!ResumeDone
<1> HIDE DEF t
<1>2. t.k > 0 /\ t.k <= Len(t.stream) /\ Proto!Short(t.stream[t.k]) <= DATA_LENGTH
  BY <1>b, <1>1 DEF SessOK, Framed
<1>3. Proto!Short(t.stream[t.k]) \in Int
  <2>1. t.stream[t.k] \in Wire
    BY <1>a, <1>2, <1>m, StreamType
  <2> QED
    BY <2>1, ShortType
<1>r. /\ Proto!BodyRemind(t) = Proto!Short(t.stream[t.k]) - t.body
      /\ Proto!BodyRemind(t) \in Nat /\ t.avail - Proto!BodyRemind(t) \in Nat
      /\ t.body + Proto!BodyRemind(t) \in Nat
      /\ t.body + Proto!BodyRemind(t) = Proto!Short(t.stream[t.k])
  <2>1. Proto!BodyRemind(t) = Proto!Short(t.stream[t.k]) - t.body
    BY DEF Proto!BodyRemind
  <2> QED
    BY <1>1, <1>3, <1>n, <1>m, <2>1
<1>4. v \in Proto!Session
  BY <1>a, <1>3, <1>r DEF Proto!Session
<1>5. /\ v.stream = t.stream /\ v.life = t.life /\ v.read = t.read
      /\ v.nread = t.nread /\ v.avail = t.avail - Proto!BodyRemind(t)
      /\ v.b_head_parse = t.b_head_parse
      /\ v.head = t.head /\ v.k = t.k /\ v.body = t.body + Proto!BodyRemind(t)
      /\ v.queue = t.queue /\ v.write = t.write
      /\ v.wire = t.wire
  BY <1>a DEF Proto!Session
<1> HIDE DEF v
<1>6. Taken(v) + v.avail = v.nread
  <2>1. HEAD_LENGTH * t.k \in Nat /\ t.k - 1 \in Nat
    BY <1>2, <1>m, ProtoAssumption
  <2>2. BodyBytes(t.stream, t.k - 1) \in Nat
    BY <2>1, BodiedFinite
  <2>3. Taken(t) = HEAD_LENGTH * t.k + (BodyBytes(t.stream, t.k - 1) + t.body)
    BY <1>1 DEF Taken
  <2>4. Taken(v) = HEAD_LENGTH * t.k + (BodyBytes(t.stream, t.k - 1) + v.body)
    BY <1>1, <1>5 DEF Taken
  <2>5. /\ v.body = t.body + Proto!BodyRemind(t) /\ v.nread = Taken(t) + t.avail
        /\ v.avail = t.avail - Proto!BodyRemind(t) /\ Proto!BodyRemind(t) \in Nat
    BY <1>5, <1>c, <1>r
  <2> QED
    BY <1>n, <1>m, <2>1, <2>2, <2>3, <2>4, <2>5
<1>6a. v.body = Proto!Short(v.stream[v.k]) /\ v.body \in Nat /\ v.b_head_parse
  BY <1>1, <1>5, <1>r
<1>7. Framed(v)
  BY <1>2, <1>5, <1>6a DEF Framed
<1>8. SentOf(v) = SentOf(t) /\ Replied(v) /\ Stuck(v)
  <2>1. Proto!BodyRemind(v) = 0
    BY <1>6a DEF Proto!BodyRemind
  <2> QED
    BY <1>5, <1>6a, <2>1 DEF SentOf, Replied, Stuck
<1>9. InOrder(SentOf(v), v.k, Replied(v), Stuck(v)) /\ (v.write # "none" => v.queue # <<>>)
  BY <1>b, <1>5, <1>8 DEF SessOK, InOrder
<1>10. Good(v, v.avail)
  BY <1>b, <1>d, <1>4, <1>5, <1>6, <1>7, <1>9 DEF Good
<1>11. r \in Proto!Replies /\ r.k = v.k /\ v.k > 0 /\ Replied(v)
  BY <1>2, <1>5, <1>8, <1>e DEF Proto!Replies
<1> HIDE DEF r
<1>12. Good(Proto!Send(v, r), v.avail) /\ Proto!Send(v, r).avail = v.avail
  BY <1>8, <1>10, <1>11, SendGood
<1> QED
  BY <1>1, <1>12, GoOnMoves

\* A negative length ends the process: the session stays as it is.
LEMMA TerminateMoves ==
  ASSUME ProtoInv, NEW s \in Sessions, p_busy = s, Proto!Terminate(s)
  PROVE  Moved(s)
<1> DEFINE t == p_sess[s]
           u == p_sess'[s]
<1>a. t \in Proto!Session
  BY Entered
<1>b. SessOK(t, TRUE) /\ t.read = "none" /\ t.life # "new"
  BY Entered
<1>2. p_sess \in [Sessions -> Proto!Session]
  BY DEF ProtoInv
<1>3. p_busy' = s /\ p_sess' = [p_sess EXCEPT ![s].life = "ended"]
  BY DEF Proto!Terminate
<1>4. u = [t EXCEPT !.life = "ended"] /\ p_sess' = [p_sess EXCEPT ![s] = u]
  BY <1>2, <1>3
<1> HIDE DEF u, t
<1>5. u \in Proto!Session
  BY <1>a, <1>4 DEF Proto!Session
<1>6. /\ u.stream = t.stream /\ u.life = "ended" /\ u.read = t.read /\ u.nread = t.nread
      /\ u.size = t.size /\ u.avail = t.avail /\ u.b_head_parse = t.b_head_parse
      /\ u.head = t.head /\ u.k = t.k /\ u.body = t.body /\ u.queue = t.queue
      /\ u.write = t.write /\ u.wire = t.wire
  BY <1>a, <1>4 DEF Proto!Session
<1>7. /\ Taken(u) = Taken(t) /\ (Framed(u) <=> Framed(t))
      /\ Replied(u) = Replied(t) /\ Stuck(u) = Stuck(t)
  BY <1>6, SameTaken
<1>8. Pending(u) = Pending(t) /\ SentOf(u) = SentOf(t)
  BY <1>6 DEF Pending, SentOf
<1>9. Fed(u, TRUE)
  BY <1>b, <1>6, <1>7, <1>8 DEF SessOK, Fed
<1>10. SessOK(u, TRUE)
  BY <1>b, <1>5, <1>6, <1>7, <1>8, <1>9 DEF SessOK
<1> QED
  BY <1>3, <1>4, <1>10 DEF Moved, u, t

-----------------------------------------------------------------------------
(* The socket, and the handlers that return at once.                        *)

LEMMA TailOfMore == ASSUME NEW q \in Seq(Proto!Replies), Len(q) > 1 PROVE Tail(q) # <<>>
<1> DEFINE r == Tail(q)
<1>1. Len(r) = Len(q) - 1 /\ Len(q) \in Nat
  BY HeadTailProperties
<1> HIDE DEF r
<1>2. Len(r) # 0
  <2>1. \A m, n : m = n - 1 /\ n \in Nat /\ n > 1 => m # 0
    OBVIOUS
  <2> QED
    BY <1>1, <2>1, Zenon
<1>3. r # <<>>
  BY <1>2
<1> QED
  BY <1>3 DEF r

\* What has been written leaves the queue for the wire.
LEMMA HeadMoves == ASSUME NEW p \in Seq(Proto!Replies), NEW q \in Seq(Proto!Replies), q # <<>>
                   PROVE  Append(p, Head(q)) \o Tail(q) = p \o q
<1>1. Head(q) \in Proto!Replies /\ Tail(q) \in Seq(Proto!Replies)
      /\ <<Head(q)>> \in Seq(Proto!Replies)
  OBVIOUS
<1>2. Append(p, Head(q)) = p \o <<Head(q)>>
  BY <1>1, AppendIsConcat
<1>3. <<Head(q)>> \o Tail(q) = q
  BY <1>1
<1>4. (p \o <<Head(q)>>) \o Tail(q) = p \o (<<Head(q)>> \o Tail(q))
  BY <1>1, ConcatAssociative
<1> QED
  BY <1>2, <1>3, <1>4

LEMMA AcceptMoves == ASSUME ProtoInv, NEW s \in Sessions, Proto!Accept(s)
         PROVE  Moved(s)
<1> DEFINE t == p_sess[s]
           u == p_sess'[s]
<1>a. SessOK(t, p_busy = s) /\ t \in Proto!Session
  BY DEF ProtoInv
<1>1. t.life = "new" /\ p_busy = NoSession /\ p_busy' = p_busy
      /\ p_sess' = [p_sess EXCEPT ![s] = [@ EXCEPT !.life = "mapped", !.read = "going"]]
  BY DEF Proto!Accept, Proto!start
<1>3. u = [t EXCEPT !.life = "mapped", !.read = "going"] /\ p_sess' = [p_sess EXCEPT ![s] = u]
  BY <1>1 DEF ProtoInv
<1> HIDE DEF t, u
<1>4. u \in Proto!Session
  BY <1>a, <1>3 DEF Proto!Session
<1>5. /\ u.stream = t.stream /\ u.life = "mapped" /\ u.read = "going"
      /\ u.nread = t.nread /\ u.size = t.size /\ u.avail = t.avail
      /\ u.b_head_parse = t.b_head_parse /\ u.head = t.head /\ u.k = t.k
      /\ u.body = t.body /\ u.queue = t.queue
      /\ u.write = t.write /\ u.wire = t.wire
  BY <1>a, <1>3 DEF Proto!Session
<1>6. p_busy' \in Sessions \cup {NoSession}
      /\ \A r \in Sessions \ {s} : (p_busy' = r) <=> (p_busy = r)
  BY <1>1, ProtoAssumption DEF ProtoInv
<1>7. Taken(u) = Taken(t) /\ (Framed(u) <=> Framed(t)) /\ Replied(u) = Replied(t)
      /\ Stuck(u) = Stuck(t)
  BY <1>5, SameTaken
<1>8. Taken(t) \in Int /\ Taken(u) \in Int
  BY <1>a, <1>4, TakenType
<1>9. Fed(u, p_busy' = s)
  <2>1. /\ p_busy' # s /\ p_busy # s /\ t.nread = 0 /\ t.k = 0 /\ t.head = 0 /\ ~t.b_head_parse
        /\ t.avail = 0
    BY <1>a, <1>1, ProtoAssumption DEF SessOK, Fed
  <2>2. Taken(t) = 0
    <3>1. Taken(t) = HEAD_LENGTH * 0 + (BodyBytes(t.stream, 0) + 0)
      BY <2>1 DEF Taken
    <3>2. BodyBytes(t.stream, 0) = 0
      BY NoBody
    <3> QED
      BY <3>1, <3>2, ProtoAssumption
  <2>3. Pending(u) = 0
    BY <1>5 DEF Pending
  <2> QED
    BY <1>a, <1>5, <1>7, <2>1, <2>2, <2>3 DEF Fed, SessOK
<1>10. SentOf(u) = SentOf(t) /\ (u.write # "none" => u.queue # <<>>)
  BY <1>a, <1>5 DEF SentOf, SessOK
<1>11. SessOK(u, p_busy' = s)
  BY <1>a, <1>1, <1>4, <1>5, <1>7, <1>9, <1>10 DEF SessOK
<1> QED
  BY <1>3, <1>6, <1>11 DEF Moved, u

LEMMA ReceiveMoves == ASSUME ProtoInv, NEW s \in Sessions, Proto!Receive(s)
         PROVE  Moved(s)
<1> DEFINE t == p_sess[s]
           u == p_sess'[s]
<1>a. SessOK(t, p_busy = s) /\ t \in Proto!Session
  BY DEF ProtoInv
<1>1. /\ t.read = "going" /\ p_busy' = p_busy
      /\ \E n \in 1..DATA_LENGTH :
           /\ t.nread + n <= Proto!Total(s)
           /\ p_sess' = [p_sess EXCEPT ![s].read = "ok", ![s].size = n, ![s].nread = @ + n]
  BY DEF Proto!Receive
<1>2. PICK n \in 1..DATA_LENGTH :
           /\ t.nread + n <= Proto!Total(s)
           /\ p_sess' = [p_sess EXCEPT ![s].read = "ok", ![s].size = n, ![s].nread = @ + n]
  BY <1>1
<1>3. u = [t EXCEPT !.read = "ok", !.size = n, !.nread = @ + n]
      /\ p_sess' = [p_sess EXCEPT ![s] = u]
  BY <1>2 DEF ProtoInv
<1> HIDE DEF t, u
<1>4. u \in Proto!Session
  <2>1. n \in Nat /\ t.nread \in Nat
    BY <1>a, ProtoAssumption DEF Proto!Session
  <2>2. t.nread + n \in Nat
    BY <2>1
  <2> QED
    BY <1>a, <2>1, <2>2, <1>3 DEF Proto!Session
<1>5. /\ u.stream = t.stream /\ u.life = t.life /\ u.read = "ok"
      /\ u.nread = t.nread + n /\ u.size = n /\ u.avail = t.avail
      /\ u.b_head_parse = t.b_head_parse /\ u.head = t.head /\ u.k = t.k
      /\ u.body = t.body /\ u.queue = t.queue
      /\ u.write = t.write /\ u.wire = t.wire
  BY <1>a, <1>3 DEF Proto!Session
<1>6. p_busy' \in Sessions \cup {NoSession}
      /\ \A r \in Sessions \ {s} : (p_busy' = r) <=> (p_busy = r)
  BY <1>1, ProtoAssumption DEF ProtoInv
<1>7. Taken(u) = Taken(t) /\ (Framed(u) <=> Framed(t)) /\ Replied(u) = Replied(t)
      /\ Stuck(u) = Stuck(t)
  BY <1>5, SameTaken
<1>8. Taken(t) \in Int /\ Taken(u) \in Int
  BY <1>a, <1>4, TakenType
<1>9. Fed(u, p_busy' = s)
  <2>1. n \in Nat /\ n > 0 /\ t.nread \in Nat
    BY <1>a, ProtoAssumption DEF Proto!Session
  <2>2. t.nread + n <= HEAD_LENGTH * Len(t.stream) + BodyBytes(t.stream, Len(t.stream))
    BY <1>2, ProtoCardinality DEF Proto!Total, BodyBytes, Bodied, t
  <2>3. p_busy # s /\ t.avail = 0 /\ Taken(t) + t.avail + Pending(t) = t.nread /\ Pending(t) = 0
    BY <1>a, <1>1 DEF SessOK, Fed, Pending
  <2>4. Taken(t) = t.nread
    BY <1>8, <2>3
  <2>5. Pending(u) = n
    BY <1>5 DEF Pending
  <2>6. Taken(u) + u.avail + Pending(u) = u.nread
    BY <1>5, <1>7, <1>8, <2>1, <2>3, <2>4, <2>5
  <2>7. u.life # "new"
    BY <1>a, <1>1, <1>5 DEF SessOK, Fed
  <2> QED
    BY <1>1, <1>5, <2>1, <2>2, <2>3, <2>6, <2>7 DEF Fed
<1>10. SentOf(u) = SentOf(t) /\ (u.write # "none" => u.queue # <<>>)
  BY <1>a, <1>5 DEF SentOf, SessOK
<1>11. SessOK(u, p_busy' = s)
  BY <1>a, <1>1, <1>4, <1>5, <1>7, <1>9, <1>10 DEF SessOK
<1> QED
  BY <1>3, <1>6, <1>11 DEF Moved, u

LEMMA ReadFailsMoves == ASSUME ProtoInv, NEW s \in Sessions, Proto!ReadFails(s)
         PROVE  Moved(s)
<1> DEFINE t == p_sess[s]
           u == p_sess'[s]
<1>a. SessOK(t, p_busy = s) /\ t \in Proto!Session
  BY DEF ProtoInv
<1>1. t.read = "going" /\ p_busy' = p_busy /\ p_sess' = [p_sess EXCEPT ![s].read = "error"]
  BY DEF Proto!ReadFails
<1>3. u = [t EXCEPT !.read = "error"] /\ p_sess' = [p_sess EXCEPT ![s] = u]
  BY <1>1 DEF ProtoInv
<1> HIDE DEF t, u
<1>4. u \in Proto!Session
  BY <1>a, <1>3 DEF Proto!Session
<1>5. /\ u.stream = t.stream /\ u.life = t.life /\ u.read = "error"
      /\ u.nread = t.nread /\ u.size = t.size /\ u.avail = t.avail
      /\ u.b_head_parse = t.b_head_parse /\ u.head = t.head /\ u.k = t.k
      /\ u.body = t.body /\ u.queue = t.queue
      /\ u.write = t.write /\ u.wire = t.wire
  BY <1>a, <1>3 DEF Proto!Session
<1>6. p_busy' \in Sessions \cup {NoSession}
      /\ \A r \in Sessions \ {s} : (p_busy' = r) <=> (p_busy = r)
  BY <1>1, ProtoAssumption DEF ProtoInv
<1>7. Taken(u) = Taken(t) /\ (Framed(u) <=> Framed(t)) /\ Replied(u) = Replied(t)
      /\ Stuck(u) = Stuck(t)
  BY <1>5, SameTaken
<1>8. Taken(t) \in Int /\ Taken(u) \in Int
  BY <1>a, <1>4, TakenType
<1>9. Fed(u, p_busy' = s)
  <2>1. Pending(u) = 0 /\ Pending(t) = 0
    BY <1>1, <1>5 DEF Pending
  <2> QED
    BY <1>a, <1>1, <1>5, <1>7, <2>1 DEF SessOK, Fed
<1>10. SentOf(u) = SentOf(t) /\ (u.write # "none" => u.queue # <<>>)
  BY <1>a, <1>5 DEF SentOf, SessOK
<1>11. SessOK(u, p_busy' = s)
  BY <1>a, <1>1, <1>4, <1>5, <1>7, <1>9, <1>10 DEF SessOK
<1> QED
  BY <1>3, <1>6, <1>11 DEF Moved, u

LEMMA EnterMoves == ASSUME ProtoInv, NEW s \in Sessions, Proto!Enter(s)
         PROVE  Moved(s)
<1> DEFINE t == p_sess[s]
           u == p_sess'[s]
<1>a. SessOK(t, p_busy = s) /\ t \in Proto!Session
  BY DEF ProtoInv
<1>1. /\ p_busy = NoSession /\ t.read = "ok" /\ p_busy' = s
      /\ p_sess' = [p_sess EXCEPT ![s].read = "none", ![s].avail = p_sess[s].size]
  BY DEF Proto!Enter
<1>3. u = [t EXCEPT !.read = "none", !.avail = t.size] /\ p_sess' = [p_sess EXCEPT ![s] = u]
  BY <1>1 DEF ProtoInv
<1> HIDE DEF t, u
<1>4. u \in Proto!Session
  BY <1>a, <1>3 DEF Proto!Session
<1>5. /\ u.stream = t.stream /\ u.life = t.life /\ u.read = "none"
      /\ u.nread = t.nread /\ u.size = t.size /\ u.avail = t.size
      /\ u.b_head_parse = t.b_head_parse /\ u.head = t.head /\ u.k = t.k
      /\ u.body = t.body /\ u.queue = t.queue
      /\ u.write = t.write /\ u.wire = t.wire
  BY <1>a, <1>3 DEF Proto!Session
<1>6. p_busy' \in Sessions \cup {NoSession}
      /\ \A r \in Sessions \ {s} : (p_busy' = r) <=> (p_busy = r)
  BY <1>1, ProtoAssumption DEF ProtoInv
<1>7. Taken(u) = Taken(t) /\ (Framed(u) <=> Framed(t)) /\ Replied(u) = Replied(t)
      /\ Stuck(u) = Stuck(t)
  BY <1>5, SameTaken
<1>8. Taken(t) \in Int /\ Taken(u) \in Int
  BY <1>a, <1>4, TakenType
<1>9. Fed(u, p_busy' = s)
  <2>1. Pending(u) = 0 /\ Pending(t) = t.size /\ p_busy # s
    BY <1>1, <1>5, ProtoAssumption DEF Pending
  <2>2. t.size > 0 /\ t.size \in Nat /\ t.avail = 0 /\ Taken(t) + t.avail + Pending(t) = t.nread
    BY <1>a, <1>1, <2>1 DEF SessOK, Fed, Proto!Session
  <2>3. Taken(u) + u.avail + Pending(u) = u.nread
    BY <1>5, <1>7, <1>8, <2>1, <2>2
  <2>4. u.life # "new"
    BY <1>a, <1>1, <1>5 DEF SessOK, Fed
  <2> QED
    BY <1>a, <1>1, <1>5, <2>2, <2>3, <2>4 DEF SessOK, Fed
<1>10. SentOf(u) = SentOf(t) /\ (u.write # "none" => u.queue # <<>>)
  BY <1>a, <1>5 DEF SentOf, SessOK
<1>11. SessOK(u, p_busy' = s)
  BY <1>a, <1>1, <1>4, <1>5, <1>7, <1>9, <1>10 DEF SessOK
<1> QED
  BY <1>3, <1>6, <1>11 DEF Moved, u

LEMMA EnterErrorMoves == ASSUME ProtoInv, NEW s \in Sessions, Proto!EnterError(s)
         PROVE  Moved(s)
<1> DEFINE t == p_sess[s]
           u == p_sess'[s]
<1>a. SessOK(t, p_busy = s) /\ t \in Proto!Session
  BY DEF ProtoInv
<1>1. /\ p_busy = NoSession /\ t.read = "error" /\ p_busy' = p_busy
      /\ p_sess' = [p_sess EXCEPT ![s].read = "none", ![s].life = "cleared"]
  BY DEF Proto!EnterError
<1>3. u = [t EXCEPT !.read = "none", !.life = "cleared"] /\ p_sess' = [p_sess EXCEPT ![s] = u]
  BY <1>1 DEF ProtoInv
<1> HIDE DEF t, u
<1>4. u \in Proto!Session
  BY <1>a, <1>3 DEF Proto!Session
<1>5. /\ u.stream = t.stream /\ u.life = "cleared" /\ u.read = "none"
      /\ u.nread = t.nread /\ u.size = t.size /\ u.avail = t.avail
      /\ u.b_head_parse = t.b_head_parse /\ u.head = t.head /\ u.k = t.k
      /\ u.body = t.body /\ u.queue = t.queue
      /\ u.write = t.write /\ u.wire = t.wire
  BY <1>a, <1>3 DEF Proto!Session
<1>6. p_busy' \in Sessions \cup {NoSession}
      /\ \A r \in Sessions \ {s} : (p_busy' = r) <=> (p_busy = r)
  BY <1>1, ProtoAssumption DEF ProtoInv
<1>7. Taken(u) = Taken(t) /\ (Framed(u) <=> Framed(t)) /\ Replied(u) = Replied(t)
      /\ Stuck(u) = Stuck(t)
  BY <1>5, SameTaken
<1>8. Taken(t) \in Int /\ Taken(u) \in Int
  BY <1>a, <1>4, TakenType
<1>9. Fed(u, p_busy' = s)
  <2>1. p_busy # s /\ p_busy' # s
    BY <1>1, ProtoAssumption
  <2> QED
    BY <1>a, <1>1, <1>5, <2>1 DEF SessOK, Fed
<1>10. SentOf(u) = SentOf(t) /\ (u.write # "none" => u.queue # <<>>)
  BY <1>a, <1>5 DEF SentOf, SessOK
<1>11. SessOK(u, p_busy' = s)
  BY <1>a, <1>1, <1>4, <1>5, <1>7, <1>9, <1>10 DEF SessOK
<1> QED
  BY <1>3, <1>6, <1>11 DEF Moved, u

LEMMA handle_writeMoves == ASSUME ProtoInv, NEW s \in Sessions, Proto!handle_write(s)
         PROVE  Moved(s)
<1> DEFINE t == p_sess[s]
           u == p_sess'[s]
<1>a. SessOK(t, p_busy = s) /\ t \in Proto!Session
  BY DEF ProtoInv
<1>1. /\ p_busy = NoSession /\ t.write = "ok" /\ p_busy' = p_busy
      /\ p_sess' = [p_sess EXCEPT ![s].queue = Tail(@),
                                  ![s].write = IF Len(p_sess[s].queue) > 1 THEN "going" ELSE "none"]
  BY DEF Proto!handle_write
<1>q. t.queue \in Seq(Proto!Replies) /\ t.queue # <<>>
  BY <1>a, <1>1 DEF Proto!Session, SessOK
<1>2. PICK w \in {"none", "going"} :
        /\ w = "going" => Len(t.queue) > 1
        /\ p_sess' = [p_sess EXCEPT ![s].queue = Tail(@), ![s].write = w]
  BY <1>1
<1>3. u = [t EXCEPT !.queue = Tail(@), !.write = w] /\ p_sess' = [p_sess EXCEPT ![s] = u]
  BY <1>2 DEF ProtoInv
<1> HIDE DEF t, u
<1>4. u \in Proto!Session
  <2>1. Tail(t.queue) \in Seq(Proto!Replies)
    BY <1>q
  <2> QED
    BY <1>a, <2>1, <1>3 DEF Proto!Session
<1>5. /\ u.stream = t.stream /\ u.life = t.life /\ u.read = t.read
      /\ u.nread = t.nread /\ u.size = t.size /\ u.avail = t.avail
      /\ u.b_head_parse = t.b_head_parse /\ u.head = t.head /\ u.k = t.k
      /\ u.body = t.body /\ u.queue = Tail(t.queue)
      /\ u.write = w /\ u.wire = t.wire
  BY <1>a, <1>3 DEF Proto!Session
<1>6. p_busy' \in Sessions \cup {NoSession}
      /\ \A r \in Sessions \ {s} : (p_busy' = r) <=> (p_busy = r)
  BY <1>1, ProtoAssumption DEF ProtoInv
<1>7. Taken(u) = Taken(t) /\ (Framed(u) <=> Framed(t)) /\ Replied(u) = Replied(t)
      /\ Stuck(u) = Stuck(t)
  BY <1>5, SameTaken
<1>8. Taken(t) \in Int /\ Taken(u) \in Int
  BY <1>a, <1>4, TakenType
<1>9. Fed(u, p_busy' = s)
  <2>1. Pending(u) = Pending(t)
    BY <1>5 DEF Pending
  <2> QED
    BY <1>a, <1>1, <1>5, <1>7, <2>1 DEF SessOK, Fed
<1>10. SentOf(u) = SentOf(t) /\ (u.write # "none" => u.queue # <<>>)
  <2>1. w = "going" => Tail(t.queue) # <<>>
    BY <1>2, <1>q, TailOfMore
  <2>2. u.write # "ok" /\ u.queue = Tail(t.queue) /\ u.wire = t.wire
    BY <1>5
  <2>3. SentOf(u) = SentOf(t)
    BY <1>1, <2>2 DEF SentOf
  <2> QED
    BY <1>5, <2>1, <2>3
<1>11. SessOK(u, p_busy' = s)
  BY <1>a, <1>1, <1>4, <1>5, <1>7, <1>9, <1>10 DEF SessOK
<1> QED
  BY <1>3, <1>6, <1>11 DEF Moved, u

LEMMA handle_write_errorMoves == ASSUME ProtoInv, NEW s \in Sessions, Proto!handle_write_error(s)
         PROVE  Moved(s)
<1> DEFINE t == p_sess[s]
           u == p_sess'[s]
<1>a. SessOK(t, p_busy = s) /\ t \in Proto!Session
  BY DEF ProtoInv
<1>1. /\ p_busy = NoSession /\ t.write = "error" /\ p_busy' = p_busy
      /\ p_sess' = [p_sess EXCEPT ![s].write = "none", ![s].life = "cleared"]
  BY DEF Proto!handle_write_error
<1>3. u = [t EXCEPT !.write = "none", !.life = "cleared"] /\ p_sess' = [p_sess EXCEPT ![s] = u]
  BY <1>1 DEF ProtoInv
<1> HIDE DEF t, u
<1>4. u \in Proto!Session
  BY <1>a, <1>3 DEF Proto!Session
<1>5. /\ u.stream = t.stream /\ u.life = "cleared" /\ u.read = t.read
      /\ u.nread = t.nread /\ u.size = t.size /\ u.avail = t.avail
      /\ u.b_head_parse = t.b_head_parse /\ u.head = t.head /\ u.k = t.k
      /\ u.body = t.body /\ u.queue = t.queue
      /\ u.write = "none" /\ u.wire = t.wire
  BY <1>a, <1>3 DEF Proto!Session
<1>6. p_busy' \in Sessions \cup {NoSession}
      /\ \A r \in Sessions \ {s} : (p_busy' = r) <=> (p_busy = r)
  BY <1>1, ProtoAssumption DEF ProtoInv
<1>7. Taken(u) = Taken(t) /\ (Framed(u) <=> Framed(t)) /\ Replied(u) = Replied(t)
      /\ Stuck(u) = Stuck(t)
  BY <1>5, SameTaken
<1>8. Taken(t) \in Int /\ Taken(u) \in Int
  BY <1>a, <1>4, TakenType
<1>9. Fed(u, p_busy' = s)
  <2>1. Pending(u) = Pending(t)
    BY <1>5 DEF Pending
  <2> QED
    BY <1>a, <1>1, <1>5, <1>7, <2>1 DEF SessOK, Fed
<1>10. SentOf(u) = SentOf(t) /\ (u.write # "none" => u.queue # <<>>)
  BY <1>1, <1>5 DEF SentOf
<1>11. SessOK(u, p_busy' = s)
  BY <1>a, <1>1, <1>4, <1>5, <1>7, <1>9, <1>10 DEF SessOK
<1> QED
  BY <1>3, <1>6, <1>11 DEF Moved, u

LEMMA WrittenMoves ==
  ASSUME ProtoInv, NEW s \in Sessions, p_sess[s].write = "going", UNCHANGED p_busy,
         p_sess' = [p_sess EXCEPT ![s].write = "ok", ![s].wire = Append(@,
         Head(p_sess[s].queue))]
  PROVE  Moved(s)
<1> DEFINE t == p_sess[s]
           u == p_sess'[s]
<1>a. SessOK(t, p_busy = s) /\ t \in Proto!Session
  BY DEF ProtoInv
<1>1. /\ t.write = "going" /\ p_busy' = p_busy
      /\ p_sess' = [p_sess EXCEPT ![s].write = "ok", ![s].wire = Append(@, Head(p_sess[s].queue))]
  BY DEF t
<1>3. u = [t EXCEPT !.write = "ok", !.wire = Append(@, Head(t.queue))]
      /\ p_sess' = [p_sess EXCEPT ![s] = u]
  BY <1>1 DEF ProtoInv
<1> HIDE DEF t, u
<1>4. u \in Proto!Session
  <2>1. t.queue \in Seq(Proto!Replies) /\ t.queue # <<>> /\ t.wire \in Seq(Proto!Replies)
    BY <1>a, <1>1 DEF Proto!Session, SessOK
  <2>2. Append(t.wire, Head(t.queue)) \in Seq(Proto!Replies)
    BY <2>1
  <2> QED
    BY <1>a, <1>3, <2>2 DEF Proto!Session
<1>5. /\ u.stream = t.stream /\ u.life = t.life /\ u.read = t.read
      /\ u.nread = t.nread /\ u.size = t.size /\ u.avail = t.avail
      /\ u.b_head_parse = t.b_head_parse /\ u.head = t.head /\ u.k = t.k
      /\ u.body = t.body /\ u.queue = t.queue
      /\ u.write = "ok" /\ u.wire = Append(t.wire, Head(t.queue))
  BY <1>a, <1>3 DEF Proto!Session
<1>6. p_busy' \in Sessions \cup {NoSession}
      /\ \A r \in Sessions \ {s} : (p_busy' = r) <=> (p_busy = r)
  BY <1>1, ProtoAssumption DEF ProtoInv
<1>7. Taken(u) = Taken(t) /\ (Framed(u) <=> Framed(t)) /\ Replied(u) = Replied(t)
      /\ Stuck(u) = Stuck(t)
  BY <1>5, SameTaken
<1>8. Taken(t) \in Int /\ Taken(u) \in Int
  BY <1>a, <1>4, TakenType
<1>9. Fed(u, p_busy' = s)
  <2>1. Pending(u) = Pending(t)
    BY <1>5 DEF Pending
  <2> QED
    BY <1>a, <1>1, <1>5, <1>7, <2>1 DEF SessOK, Fed
<1>10. SentOf(u) = SentOf(t) /\ (u.write # "none" => u.queue # <<>>)
  <2>1. t.queue \in Seq(Proto!Replies) /\ t.queue # <<>> /\ t.wire \in Seq(Proto!Replies)
    BY <1>a, <1>1 DEF Proto!Session, SessOK
  <2>2. Append(t.wire, Head(t.queue)) \o Tail(t.queue) = t.wire \o t.queue
    BY <2>1, HeadMoves
  <2> QED
    BY <1>1, <1>5, <2>1, <2>2 DEF SentOf
<1>11. SessOK(u, p_busy' = s)
  BY <1>a, <1>1, <1>4, <1>5, <1>7, <1>9, <1>10 DEF SessOK
<1> QED
  BY <1>3, <1>6, <1>11 DEF Moved, u

LEMMA WriteErrorMoves ==
  ASSUME ProtoInv, NEW s \in Sessions, p_sess[s].write = "going", UNCHANGED p_busy,
         p_sess' = [p_sess EXCEPT ![s].write = "error"]
  PROVE  Moved(s)
<1> DEFINE t == p_sess[s]
           u == p_sess'[s]
<1>a. SessOK(t, p_busy = s) /\ t \in Proto!Session
  BY DEF ProtoInv
<1>1. /\ t.write = "going" /\ p_busy' = p_busy
      /\ p_sess' = [p_sess EXCEPT ![s].write = "error"]
  BY DEF t
<1>3. u = [t EXCEPT !.write = "error"] /\ p_sess' = [p_sess EXCEPT ![s] = u]
  BY <1>1 DEF ProtoInv
<1> HIDE DEF t, u
<1>4. u \in Proto!Session
  BY <1>a, <1>3 DEF Proto!Session
<1>5. /\ u.stream = t.stream /\ u.life = t.life /\ u.read = t.read
      /\ u.nread = t.nread /\ u.size = t.size /\ u.avail = t.avail
      /\ u.b_head_parse = t.b_head_parse /\ u.head = t.head /\ u.k = t.k
      /\ u.body = t.body /\ u.queue = t.queue
      /\ u.write = "error" /\ u.wire = t.wire
  BY <1>a, <1>3 DEF Proto!Session
<1>6. p_busy' \in Sessions \cup {NoSession}
      /\ \A r \in Sessions \ {s} : (p_busy' = r) <=> (p_busy = r)
  BY <1>1, ProtoAssumption DEF ProtoInv
<1>7. Taken(u) = Taken(t) /\ (Framed(u) <=> Framed(t)) /\ Replied(u) = Replied(t)
      /\ Stuck(u) = Stuck(t)
  BY <1>5, SameTaken
<1>8. Taken(t) \in Int /\ Taken(u) \in Int
  BY <1>a, <1>4, TakenType
<1>9. Fed(u, p_busy' = s)
  <2>1. Pending(u) = Pending(t)
    BY <1>5 DEF Pending
  <2> QED
    BY <1>a, <1>1, <1>5, <1>7, <2>1 DEF SessOK, Fed
<1>10. SentOf(u) = SentOf(t) /\ (u.write # "none" => u.queue # <<>>)
  BY <1>a, <1>1, <1>5 DEF SentOf, SessOK
<1>11. SessOK(u, p_busy' = s)
  BY <1>a, <1>1, <1>4, <1>5, <1>7, <1>9, <1>10 DEF SessOK
<1> QED
  BY <1>3, <1>6, <1>11 DEF Moved, u

LEMMA NextProtoInv == ProtoInv /\ [Proto!Next]_proto => ProtoInv'
<1> SUFFICES ASSUME ProtoInv, [Proto!Next]_proto PROVE ProtoInv'
  OBVIOUS
<1>1. CASE UNCHANGED proto
  BY <1>1 DEF proto, ProtoInv
<1>2. CASE Proto!Next
  <2>1. PICK s \in Sessions : \/ Proto!Accept(s) \/ Proto!Thread(s) \/ Proto!handle_read(s)
                              \/ Proto!Receive(s) \/ Proto!ReadFails(s) \/ Proto!WriteEnds(s)
    BY <1>2 DEF Proto!Next
  <2>2. CASE Proto!Accept(s)
    BY <2>2, AcceptMoves, MovedProtoInv
  <2>3. CASE Proto!Thread(s)
    <3>1. CASE Proto!Enter(s)
      BY <3>1, EnterMoves, MovedProtoInv
    <3>2. CASE Proto!EnterError(s)
      BY <3>2, EnterErrorMoves, MovedProtoInv
    <3>3. CASE Proto!handle_write(s)
      BY <3>3, handle_writeMoves, MovedProtoInv
    <3>4. CASE Proto!handle_write_error(s)
      BY <3>4, handle_write_errorMoves, MovedProtoInv
    <3> QED
      BY <2>3, <3>1, <3>2, <3>3, <3>4 DEF Proto!Thread
  <2>4. CASE Proto!handle_read(s)
    <3>1. p_busy = s
      BY <2>4 DEF Proto!handle_read
    <3>2. CASE Proto!HeadShort(s, p_sess[s])
      BY <3>1, <3>2, HeadShortMoves, MovedProtoInv
    <3>3. CASE Proto!RejectHead(s, p_sess[s])
      BY <3>1, <3>3, RejectHeadMoves, MovedProtoInv
    <3>4. CASE Proto!BodyShort(s, p_sess[s])
      BY <3>1, <3>4, BodyShortMoves, MovedProtoInv
    <3>5. CASE Proto!BodyWhole(s, p_sess[s])
      BY <3>1, <3>5, BodyWholeMoves, MovedProtoInv
    <3>6. CASE Proto!ResumeShort(s, p_sess[s])
      BY <3>1, <3>6, ResumeShortMoves, MovedProtoInv
    <3>7. CASE Proto!ResumeDone(s, p_sess[s])
      BY <3>1, <3>7, ResumeDoneMoves, MovedProtoInv
    <3>8. CASE Proto!NegativeLength(s, p_sess[s]) \/ Proto!Overflow(s, p_sess[s])
      <4>1. Proto!Terminate(s)
        BY <3>8 DEF Proto!NegativeLength, Proto!Overflow
      <4> QED
        BY <3>1, <4>1, TerminateMoves, MovedProtoInv
    <3> QED
      BY <2>4, <3>2, <3>3, <3>4, <3>5, <3>6, <3>7, <3>8 DEF Proto!handle_read
  <2>5. CASE Proto!Receive(s)
    BY <2>5, ReceiveMoves, MovedProtoInv
  <2>6. CASE Proto!ReadFails(s)
    BY <2>6, ReadFailsMoves, MovedProtoInv
  <2>7. CASE Proto!WriteEnds(s)
    <3>1. Moved(s)
      BY <2>7, WrittenMoves, WriteErrorMoves DEF Proto!WriteEnds
    <3> QED
      BY <3>1, MovedProtoInv
  <2> QED
    BY <2>1, <2>2, <2>3, <2>4, <2>5, <2>6, <2>7
<1> QED
  BY <1>1, <1>2

\* What ProtoInv says of the replies.
LEMMA SafeReplies == ProtoInv => Proto!RepliesInOrder /\ Proto!AlwaysReading
<1> SUFFICES ASSUME ProtoInv PROVE Proto!RepliesInOrder /\ Proto!AlwaysReading
  OBVIOUS
<1>1. ASSUME NEW s \in Sessions
      PROVE  /\ SessOK(p_sess[s], p_busy = s) /\ Proto!Sent(s) = SentOf(p_sess[s])
             /\ Proto!OutOfStep(s) <=> Stuck(p_sess[s])
  BY DEF ProtoInv, Proto!Sent, Proto!Unsent, SentOf, Proto!OutOfStep, Stuck
<1>2. Proto!RepliesInOrder
  <2> SUFFICES ASSUME NEW s \in Sessions, NEW i \in 1..Len(Proto!Sent(s)),
                      NEW j \in 1..Len(Proto!Sent(s)), i < j
               PROVE  \/ Proto!Sent(s)[i].k < Proto!Sent(s)[j].k
                      \/ Proto!Sent(s)[i].k = Proto!Sent(s)[j].k /\ Proto!OutOfStep(s)
                         /\ Proto!Sent(s)[i].k = p_sess[s].k
    BY DEF Proto!RepliesInOrder
  <2> QED
    BY <1>1 DEF SessOK, InOrder
<1>3. Proto!AlwaysReading
  BY <1>1 DEF Proto!AlwaysReading, SessOK
<1> QED
  BY <1>2, <1>3

-----------------------------------------------------------------------------
(* beast_http_server.  HttpInv is about one connection at a time (ConnOK) but*)
(* for the counter, which is the number of the connections in Counts.       *)

\* A connection's socket, operation, timer and histories fit together.
ConnOK(c) ==
  /\ hc_sock[c] = "unused" => hc_op[c] = "none" /\ hc_req[c] = "none" /\ hc_body[c] = <<>>
  /\ hc_op[c] \in {"read", "write"} => hc_sock[c] = "open"
  /\ hc_op[c] # "none" /\ hc_sock[c] = "open" => hc_timer[c] \in {"armed", "expired"}
  /\ hc_op[c] \in {"read", "got"} => hc_body[c] = <<>>
  /\ hc_op[c] \in {"write", "written"} => hc_body[c] # <<>>
  /\ hc_wire[c] # "nothing" => hc_body[c] # <<>>
  /\ hc_op[c] = "got" => hc_sock[c] \in {"open", "closed"} /\ hc_req[c] # "none"
  /\ hc_sock[c] = "closed" => c \in hc_late
  /\ hc_op[c] \in {"unread", "unwritten"} => c \in hc_late \cup hc_lost
  /\ hc_op[c] = "unwritten" /\ hc_sock[c] = "open" => c \in hc_lost
  /\ hc_op[c] = "written" => hc_wire[c] = "whole"
  /\ hc_op[c] = "none" /\ hc_req[c] # "none" /\ hc_wire[c] # "whole" => c \in hc_late \cup hc_lost
  /\ hc_sock[c] = "shut" => hc_wire[c] = "whole" \/ c \in hc_lost

\* The connections whose request has been counted: a response exists.
Counts == {c \in Conns : hc_req[c] = "count" /\ hc_body[c] # <<>>}

HttpInv == /\ Http!TypeOK
           /\ \A c \in Conns : ConnOK(c)
           /\ hc_count = Cardinality(Counts)

-----------------------------------------------------------------------------
LEMMA InitHttpInv == Http!Init => HttpInv
<1> SUFFICES ASSUME Http!Init PROVE HttpInv
  OBVIOUS
<1>1. Http!TypeOK
  <2>1. hc_body \in [Conns -> Seq(Http!Documents)]
    BY DEF Http!Init
  <2> QED
    BY <2>1 DEF Http!Init, Http!TypeOK
<1>2. \A c \in Conns : ConnOK(c)
  BY DEF Http!Init, ConnOK
<1>3. Counts = {}
  BY DEF Http!Init, Counts
<1> QED
  BY <1>1, <1>2, <1>3, FS_EmptySet DEF Http!Init, HttpInv

\* Every response has a document at least.
LEMMA CreateType == ASSUME NEW r \in Http!Requests, ~Http!Throws(r)
                    PROVE  Http!create(r) \in Seq(Http!Documents) /\ Http!create(r) # <<>>
<1>1. r \in {"count", "time", "get", "post", "email", "broken", "put"}
  BY DEF Http!Requests, Http!Throws
<1>2. CASE r \in {"count", "time"}
  BY <1>2 DEF Http!Documents, Http!create
<1>3. CASE r \in {"get", "post"}
  <2>1. r \notin {"count", "time"}
    BY <1>3
  <2>2. Http!create(r) = <<"missing">>
    BY <1>3, <2>1 DEF Http!create
  <2> QED
    BY <2>2 DEF Http!Documents
<1>4. CASE r = "email"
  BY <1>4 DEF Http!Documents, Http!create
<1>5. CASE r = "broken"
  BY <1>5 DEF Http!Documents, Http!create
<1>6. CASE r = "put"
  BY <1>6 DEF Http!Documents, Http!create
<1> QED
  BY <1>1, <1>2, <1>3, <1>4, <1>5, <1>6

-----------------------------------------------------------------------------
(* The steps that process no request leave Counts alone.                    *)

Quiet(c) == \/ Http!Accept(c) \/ Http!process_request_throws(c) \/ Http!read_request_error(c)
            \/ Http!write_response_done(c) \/ Http!check_deadline(c) \/ Http!check_deadline_cancelled(c)
            \/ Http!World(c)

LEMMA QuietConnOK ==
  ASSUME Http!TypeOK, \A c \in Conns : ConnOK(c), NEW c \in Conns, Quiet(c)
  PROVE  Http!TypeOK' /\ \A d \in Conns : ConnOK(d)'
<1> USE DEF Http!TypeOK, ConnOK, Http!Set
<1>1. CASE Http!Accept(c)
  BY <1>1 DEF Http!Accept
<1>2. CASE Http!process_request_throws(c)
  BY <1>2 DEF Http!process_request_throws
<1>3. CASE Http!read_request_error(c)
  BY <1>3 DEF Http!read_request_error
<1>4. CASE Http!write_response_done(c)
  BY <1>4 DEF Http!write_response_done
<1>5. CASE Http!check_deadline(c)
  BY <1>5 DEF Http!check_deadline, Http!Aborted
<1>6. CASE Http!check_deadline_cancelled(c)
  BY <1>6 DEF Http!check_deadline_cancelled
<1>7. CASE Http!Lose(c)
  BY <1>7 DEF Http!Lose, Http!Aborted
<1>8. CASE Http!Transmit(c)
  <2>1. Http!TypeOK'
    BY <1>8 DEF Http!Transmit
  <2>2. ASSUME NEW d \in Conns PROVE ConnOK(d)'
    BY <1>8 DEF Http!Transmit
  <2> QED
    BY <2>1, <2>2
<1>9. CASE Http!Expire(c)
  BY <1>9 DEF Http!Expire
<1>10. ASSUME NEW r \in Http!Requests, Http!Arrive(c, r) PROVE Http!TypeOK'
       /\ \A d \in Conns : ConnOK(d)'
  <2>1. Http!TypeOK'
    BY <1>10 DEF Http!Arrive
  <2>2. ASSUME NEW d \in Conns PROVE ConnOK(d)'
    BY <1>10 DEF Http!Arrive, Http!Requests
  <2> QED
    BY <2>1, <2>2
<1> QED
  BY <1>1, <1>2, <1>3, <1>4, <1>5, <1>6, <1>7, <1>8, <1>9, <1>10 DEF Quiet, Http!World

\* Only a request that arrives changes req, and it has no response yet.
LEMMA QuietCounts ==
  ASSUME Http!TypeOK, \A c \in Conns : ConnOK(c), NEW c \in Conns, Quiet(c)
  PROVE  Counts' = Counts /\ hc_count' = hc_count
<1>1. hc_count' = hc_count /\ hc_body' = hc_body
  BY DEF Quiet, Http!World, Http!Accept, Http!process_request_throws, Http!read_request_error,
         Http!write_response_done, Http!check_deadline, Http!check_deadline_cancelled,
         Http!Lose, Http!Transmit, Http!Expire, Http!Arrive
<1>2. \/ hc_req' = hc_req
      \/ hc_body[c] = <<>> /\ \E r \in Http!Requests : hc_req' = [hc_req EXCEPT ![c] = r]
  BY DEF Quiet, Http!World, Http!Accept, Http!process_request_throws, Http!read_request_error,
         Http!write_response_done, Http!check_deadline, Http!check_deadline_cancelled,
         Http!Lose, Http!Transmit, Http!Expire, Http!Arrive, Http!Set, ConnOK
<1> QED
  BY <1>1, <1>2 DEF Counts, Http!TypeOK

-----------------------------------------------------------------------------
(* The step that processes a request gives it its only response.            *)

LEMMA ProcessConnOK ==
  ASSUME Http!TypeOK, \A c \in Conns : ConnOK(c), NEW c \in Conns, Http!process_request(c)
  PROVE  Http!TypeOK' /\ \A d \in Conns : ConnOK(d)'
<1>1. Http!create(hc_req[c]) \in Seq(Http!Documents) /\ Http!create(hc_req[c]) # <<>>
  BY CreateType DEF Http!process_request, Http!TypeOK, ConnOK
<1>2. hc_body' \in [Conns -> Seq(Http!Documents)]
  BY <1>1 DEF Http!process_request, Http!TypeOK, Http!Set
<1>3. Http!TypeOK'
  BY <1>2 DEF Http!process_request, Http!write_response, Http!TypeOK, Http!Set
<1>4. hc_body' = [hc_body EXCEPT ![c] = Http!create(hc_req[c])] /\ hc_body'[c] # <<>>
  BY <1>1 DEF Http!process_request, Http!TypeOK, Http!Set
<1>5. ASSUME NEW d \in Conns PROVE ConnOK(d)'
  BY <1>4 DEF Http!process_request, Http!write_response, Http!TypeOK, ConnOK, Http!Set
<1> QED
  BY <1>3, <1>5

LEMMA ProcessCounts ==
  ASSUME HttpInv, IsFiniteSet(Conns), NEW c \in Conns, Http!process_request(c)
  PROVE  hc_count' = Cardinality(Counts')
<1>1. Http!create(hc_req[c]) # <<>> /\ hc_body[c] = <<>> /\ hc_req' = hc_req
  BY CreateType DEF HttpInv, Http!process_request, Http!TypeOK, ConnOK
<1>2. hc_body' = [hc_body EXCEPT ![c] = Http!create(hc_req[c])]
  BY DEF Http!process_request, Http!Set
<1>3. IsFiniteSet(Counts) /\ c \notin Counts
  BY <1>1, FS_Subset DEF Counts
<1>4. CASE hc_req[c] = "count"
  <2>1. Counts' = Counts \cup {c}
    BY <1>1, <1>2, <1>4 DEF Counts, HttpInv, Http!TypeOK
  <2>2. Cardinality(Counts') = Cardinality(Counts) + 1
    BY <1>3, <2>1, FS_AddElement
  <2> QED
    BY <1>4, <2>2 DEF HttpInv, Http!process_request, Http!Counted
<1>5. CASE hc_req[c] # "count"
  <2>1. Counts' = Counts
    BY <1>1, <1>2, <1>5 DEF Counts, HttpInv, Http!TypeOK
  <2> QED
    BY <1>5, <2>1 DEF HttpInv, Http!process_request, Http!Counted
<1> QED
  BY <1>4, <1>5

-----------------------------------------------------------------------------
LEMMA NextHttpInv == ASSUME HttpInv, [Http!Next]_http PROVE HttpInv'
<1>1. CASE UNCHANGED http
  BY <1>1 DEF HttpInv, http, Http!TypeOK, ConnOK, Counts
<1>2. ASSUME NEW c \in Conns, Quiet(c) PROVE HttpInv'
  BY <1>2, QuietConnOK, QuietCounts, HttpAssumption DEF HttpInv
<1>3. ASSUME NEW c \in Conns, Http!process_request(c) PROVE HttpInv'
  BY <1>3, ProcessConnOK, ProcessCounts, HttpAssumption DEF HttpInv
<1> QED
  BY <1>1, <1>2, <1>3 DEF Http!Next, Http!Handlers, Quiet

\* What HttpInv says of a connection.
LEMMA SafeHttp == HttpInv => /\ Http!CutExplained /\ Http!ShutMeansWhole
                             /\ Http!TimerGuards /\ Http!CountBetween
<1>1. HttpInv => Http!CountBetween
  <2> SUFFICES ASSUME HttpInv PROVE Http!CountBetween
    OBVIOUS
  <2> DEFINE Answered == {c \in Conns : hc_req[c] = "count" /\ hc_wire[c] = "whole"}
             Asked == {c \in Conns : hc_req[c] = "count"}
  <2>1. Answered \subseteq Counts /\ Counts \subseteq Asked
    BY DEF HttpInv, ConnOK, Counts
  <2>2. IsFiniteSet(Asked) /\ IsFiniteSet(Counts)
    BY FS_Subset, HttpAssumption DEF Counts
  <2>3. Cardinality(Answered) <= Cardinality(Counts) /\ Cardinality(Counts) <= Cardinality(Asked)
    BY <2>1, <2>2, FS_Subset
  <2> QED
    BY <2>3, HttpCardinality DEF HttpInv, Http!CountBetween
<1>2. HttpInv => Http!CutExplained /\ Http!ShutMeansWhole /\ Http!TimerGuards
  BY DEF HttpInv, ConnOK, Http!CutExplained, Http!ShutMeansWhole, Http!TimerGuards
<1> QED
  BY <1>1, <1>2

-----------------------------------------------------------------------------
(* AsycApi, writing: what the three ways share, and the first.              *)

LEMMA Removed == ASSUME NEW S, NEW q \in Seq(S), q # <<>>
                 PROVE  /\ Head(q) \in S /\ Head(q) = q[1] /\ Tail(q) \in Seq(S)
                        /\ Len(Tail(q)) = Len(q) - 1 /\ Len(q) \in Nat \ {0}
                        /\ \A i \in 1..Len(Tail(q)) : Tail(q)[i] = q[i + 1]
<1>1. Len(q) \in Nat /\ Len(q) # 0
  BY EmptySeq
<1> QED
  BY <1>1, HeadTailProperties

\* The n bytes of the message m behind its byte f.
Piece(m, f, n) == [k \in 1..n |-> <<m, f + k>>]

\* v is w and behind it the bytes f+1 .. f+n of the message m.
Extends(v, w, m, f, n) == /\ v \in Seq(Nat \X Nat) /\ Len(v) = Len(w) + n
                          /\ \A i \in 1..Len(w) : v[i] = w[i]
                          /\ \A k \in 1..n : v[Len(w) + k] = <<m, f + k>>

LEMMA Extended ==
  ASSUME NEW w \in Seq(Nat \X Nat), NEW m \in Nat, NEW f \in Nat, NEW n \in Nat
  PROVE  Extends(w \o Piece(m, f, n), w, m, f, n)
<1> DEFINE g == [k \in 1..n |-> <<m, f + k>>]
<1>0. Piece(m, f, n) = g
  BY DEF Piece
<1>1. g \in [1..n -> Nat \X Nat]
  OBVIOUS
<1>2. g \in Seq(Nat \X Nat) /\ Len(g) = n
  <2> HIDE DEF g
  <2>1. g \in Seq(Nat \X Nat)
    BY <1>1, IsASeq
  <2>2. DOMAIN g = 1..n
    BY <1>1
  <2>3. Len(g) = n
    BY <2>1, <2>2, LenProperties
  <2> QED
    BY <2>1, <2>3
<1>3. \A k \in 1..n : g[k] = <<m, f + k>>
  OBVIOUS
<1> HIDE DEF g
<1>4. /\ w \o g \in Seq(Nat \X Nat) /\ Len(w \o g) = Len(w) + n
      /\ \A i \in 1..(Len(w) + n) : (w \o g)[i] = IF i <= Len(w) THEN w[i] ELSE g[i - Len(w)]
  BY <1>2, ConcatProperties
<1>5. Len(w) \in Nat
  OBVIOUS
<1>6. \A i \in 1..Len(w) : (w \o g)[i] = w[i]
  BY <1>4, <1>5
<1>7. ASSUME NEW k \in 1..n PROVE (w \o g)[Len(w) + k] = <<m, f + k>>
  <2>1. Len(w) + k \in 1..(Len(w) + n) /\ ~(Len(w) + k <= Len(w)) /\ Len(w) + k - Len(w) = k
    BY <1>5
  <2>2. (w \o g)[Len(w) + k] = g[Len(w) + k - Len(w)]
    BY <1>4, <2>1
  <2> QED
    BY <1>3, <2>1, <2>2
<1> QED
  BY <1>0, <1>4, <1>6, <1>7 DEF Extends

\* Division undoes what numbers the bytes of the messages.
LEMMA Quotient == ASSUME NEW S \in Nat \ {0}, NEW a \in Nat, NEW b \in 0..(S - 1)
                  PROVE  (S * a + b) \div S = a /\ (S * a + b) % S = b
<1> DEFINE x == S * a + b
           q == x \div S
           r == x % S
<1>1. x \in Nat
  OBVIOUS
<1>2. q \in Int /\ r \in 0..(S - 1) /\ x = S * q + r
  OBVIOUS
<1>3. q = a
  <2> HIDE DEF q, r
  <2>1. S * (q - a) = b - r
    BY <1>1, <1>2
  <2>2. CASE q - a >= 1
    <3>1. S * (q - a) >= S
      BY <2>2, <1>2
    <3> QED
      BY <2>1, <3>1, <1>2
  <2>3. CASE q - a <= -1
    <3>1. S * (q - a) <= -S
      BY <2>3, <1>2
    <3> QED
      BY <2>1, <3>1, <1>2
  <2> QED
    BY <2>2, <2>3, <1>2
<1> QED
  BY <1>2, <1>3

\* The bytes of the message in progress that the peer has.
FirstIdle == aw_writes = <<>> /\ aw_completions = <<>> /\ Len(aw_wire) = Size * aw_calls
FirstGoing == /\ aw_completions = <<>> /\ aw_calls # 0
              /\ aw_writes = <<[msg |-> aw_calls, from |-> aw_cur_len[aw_calls], node |-> aw_calls]>>
              /\ aw_cur_len[aw_calls] < Size
              /\ Len(aw_wire) = Size * (aw_calls - 1) + aw_cur_len[aw_calls]
FirstDone == /\ aw_writes = <<>> /\ aw_calls # 0 /\ Len(aw_completions) = 1
             /\ aw_completions[1].node = aw_calls
             /\ aw_cur_len[aw_calls] < Size
             /\ aw_cur_len[aw_calls] + aw_completions[1].bytes <= Size
             /\ Len(aw_wire) = Size * (aw_calls - 1) + (aw_cur_len[aw_calls] + aw_completions[1].bytes)

\* One write or one handler at most, and send_node is the newest message.
FirstOK == /\ aw_calls \in 0..MaxCalls /\ aw_node = aw_calls /\ ~aw_undefined
           /\ aw_cur_len \in [WriteErr!Msgs -> Nat]
           /\ \A m \in WriteErr!Msgs : m > aw_calls => aw_cur_len[m] = 0
           /\ aw_wire \in Seq(Nat \X Nat)
           /\ aw_completions \in Seq([bytes : Nat, ec : BOOLEAN, node : Nat])
           /\ FirstIdle \/ FirstGoing \/ FirstDone
           /\ WriteErr!WireInOrder

\* As long as every message has room in its node.
FirstInv == /\ aw_undefined => WriteErr!Overflows
            /\ aw_undefined \/ FirstOK

LEMMA InitFirstOK == WriteErr!Init => FirstOK
<1> USE AsycAssumption
<1> SUFFICES ASSUME WriteErr!Init PROVE FirstOK
  OBVIOUS
<1>1. Len(<<>>) = 0 /\ aw_writes = <<>> /\ aw_completions = <<>> /\ aw_wire = <<>> /\ aw_calls = 0
      /\ aw_node = 0
  BY DEF WriteErr!Init
<1>2. aw_wire \in Seq(Nat \X Nat)
      /\ aw_completions \in Seq([bytes : Nat, ec : BOOLEAN, node : Nat])
  BY <1>1
<1>3. FirstIdle
  <2>1. Size * 0 = 0
    OBVIOUS
  <2> QED
    BY <1>1, <2>1 DEF FirstIdle
<1>4. WriteErr!WireInOrder
  BY <1>1 DEF WriteErr!WireInOrder
<1>5. aw_cur_len \in [WriteErr!Msgs -> Nat] /\ \A m \in WriteErr!Msgs : aw_cur_len[m] = 0
  BY DEF WriteErr!Init
<1>6. aw_undefined = FALSE /\ aw_calls \in 0..MaxCalls
  BY <1>1 DEF WriteErr!Init
<1> QED
  BY <1>1, <1>2, <1>3, <1>4, <1>5, <1>6 DEF FirstOK

LEMMA CallFirstOK == ASSUME FirstOK, WriteErr!writeToSocketErr, ~WriteErr!Overflows PROVE FirstOK'
<1> USE AsycAssumption
<1>1. /\ aw_writes = <<>> /\ aw_completions = <<>> /\ aw_calls < MaxCalls
      /\ aw_calls' = aw_calls + 1 /\ aw_node' = aw_calls'
      /\ aw_writes' = Append(aw_writes, [msg |-> aw_calls', from |-> 0, node |-> aw_calls'])
      /\ ~aw_undefined' /\ UNCHANGED <<aw_cur_len, aw_completions, aw_wire>>
  BY DEF FirstOK, WriteErr!writeToSocketErr, WriteErr!async_write_some, WriteErr!Ready,
         WriteErr!Quiet
<1>2. aw_calls \in Nat /\ aw_calls' \in 0..MaxCalls /\ aw_calls' # 0 /\ aw_calls' - 1 = aw_calls
      /\ aw_calls' \in WriteErr!Msgs
      /\ aw_calls' > aw_calls
  BY <1>1 DEF FirstOK, WriteErr!Msgs
<1>3. Len(aw_wire) = Size * aw_calls
  <2>1. FirstIdle \/ FirstGoing \/ FirstDone
    BY DEF FirstOK
  <2> QED
    BY <1>1, <2>1 DEF FirstIdle, FirstGoing, FirstDone
<1>4. aw_cur_len[aw_calls'] = 0
  BY <1>2 DEF FirstOK
<1>5. aw_writes' = <<[msg |-> aw_calls', from |-> 0, node |-> aw_calls']>>
  BY <1>1
<1>6. Len(aw_wire) = Size * aw_calls + 0
  BY <1>2, <1>3
<1>7. FirstGoing'
  BY <1>1, <1>2, <1>4, <1>5, <1>6 DEF FirstGoing
<1>8. \A m \in WriteErr!Msgs : m > aw_calls' => aw_cur_len'[m] = 0
  <2> SUFFICES ASSUME NEW m \in WriteErr!Msgs, m > aw_calls' PROVE aw_cur_len'[m] = 0
    OBVIOUS
  <2>1. m \in Nat
    BY DEF WriteErr!Msgs
  <2>2. m > aw_calls
    BY <1>1, <1>2, <2>1
  <2> QED
    BY <1>1, <2>2 DEF FirstOK
<1>9. WriteErr!WireInOrder'
  BY <1>1 DEF FirstOK, WriteErr!WireInOrder
<1> QED
  BY <1>1, <1>2, <1>7, <1>8, <1>9 DEF FirstOK

LEMMA CallBackFirstOK == ASSUME FirstOK, WriteErr!writeCallBackErr PROVE FirstOK'
<1> USE AsycAssumption
<1> DEFINE C == [bytes : Nat, ec : BOOLEAN, node : Nat]
           d == aw_completions[1]
<1>1. /\ aw_completions # <<>> /\ aw_completions' = Tail(aw_completions)
      /\ UNCHANGED <<aw_calls, aw_node, aw_wire>>
  BY DEF WriteErr!writeCallBackErr
<1>2. FirstDone /\ aw_completions \in Seq(C)
  BY <1>1 DEF FirstOK, FirstIdle, FirstGoing
<1> HIDE DEF C
<1>3. /\ aw_completions' \in Seq(C) /\ Len(aw_completions') = Len(aw_completions) - 1
      /\ Head(aw_completions) = d /\ d \in C /\ Len(aw_completions) = 1
  BY <1>1, <1>2, Removed DEF FirstDone
<1>4. aw_completions' = <<>>
  <2>1. Len(aw_completions') = 0
    BY <1>3
  <2> QED
    BY <1>3, <2>1, EmptySeq
<1>5. d.bytes \in Nat /\ d.node = aw_calls
  BY <1>2, <1>3 DEF FirstDone, C
<1> HIDE DEF d
<1>6. /\ aw_writes = <<>> /\ aw_calls # 0 /\ aw_cur_len[aw_calls] < Size
      /\ aw_cur_len[aw_calls] + d.bytes <= Size
      /\ Len(aw_wire) = Size * (aw_calls - 1) + (aw_cur_len[aw_calls] + d.bytes)
  BY <1>2 DEF FirstDone, d
<1>7. /\ aw_calls \in Nat /\ aw_calls \in WriteErr!Msgs /\ aw_node = aw_calls
      /\ aw_cur_len \in [WriteErr!Msgs -> Nat]
      /\ aw_cur_len[aw_calls] \in Nat /\ ~aw_undefined
  BY <1>6 DEF FirstOK, WriteErr!Msgs
<1>8. CASE d.bytes + aw_cur_len[d.node] >= Size
  <2>1. UNCHANGED <<aw_cur_len, aw_writes, aw_undefined>>
    BY <1>3, <1>8 DEF WriteErr!writeCallBackErr
  <2>2. aw_cur_len[aw_calls] + d.bytes = Size
    <3> DEFINE a == aw_cur_len[aw_calls]
               b == d.bytes
    <3>1. a \in Nat /\ b \in Nat /\ a + b <= Size /\ b + a >= Size
      BY <1>5, <1>6, <1>7, <1>8
    <3> HIDE DEF a, b
    <3>2. a + b = Size
      BY <3>1
    <3> QED
      BY <3>2 DEF a, b
  <2>3. Len(aw_wire) = Size * (aw_calls - 1) + Size
    BY <1>6, <2>2
  <2>4. Size * (aw_calls - 1) + Size = Size * aw_calls
    BY <1>7
  <2>5. FirstIdle'
    BY <1>1, <1>4, <1>6, <2>1, <2>3, <2>4 DEF FirstIdle
  <2>6. WriteErr!WireInOrder'
    BY <1>1 DEF FirstOK, WriteErr!WireInOrder
  <2>7. \A m \in WriteErr!Msgs : m > aw_calls' => aw_cur_len'[m] = 0
    BY <1>1, <2>1 DEF FirstOK
  <2>8. aw_calls' \in 0..MaxCalls /\ aw_wire' \in Seq(Nat \X Nat)
    BY <1>1 DEF FirstOK
  <2> QED
    BY <1>1, <1>3, <1>7, <2>1, <2>5, <2>6, <2>7, <2>8 DEF FirstOK, C
<1>9. CASE ~(d.bytes + aw_cur_len[d.node] >= Size)
  <2>1. /\ WriteErr!Rest(d) = aw_cur_len[aw_calls] + d.bytes /\ WriteErr!Rest(d) < Size
        /\ WriteErr!Rest(d) \in Nat
        /\ ~(WriteErr!Rest(d) > Size)
    BY <1>5, <1>7, <1>9 DEF WriteErr!Rest
  <2>2. /\ aw_cur_len' = [aw_cur_len EXCEPT ![aw_calls] = WriteErr!Rest(d)]
        /\ aw_writes' = Append(aw_writes, [msg |-> aw_calls, from |-> WriteErr!Rest(d), node |-> aw_calls])
        /\ aw_undefined' = aw_undefined
    BY <1>3, <1>7, <1>9, <2>1 DEF WriteErr!writeCallBackErr, WriteErr!async_write_some
  <2>3. aw_cur_len' \in [WriteErr!Msgs -> Nat] /\ aw_cur_len'[aw_calls] = WriteErr!Rest(d)
    BY <1>7, <2>1, <2>2
  <2>4. aw_writes' = <<[msg |-> aw_calls, from |-> WriteErr!Rest(d), node |-> aw_calls]>>
    BY <1>6, <2>2
  <2>5. FirstGoing'
    BY <1>1, <1>4, <1>6, <2>1, <2>3, <2>4 DEF FirstGoing
  <2>6. WriteErr!WireInOrder'
    BY <1>1 DEF FirstOK, WriteErr!WireInOrder
  <2>7. \A m \in WriteErr!Msgs : m > aw_calls' => aw_cur_len'[m] = 0
    <3> SUFFICES ASSUME NEW m \in WriteErr!Msgs, m > aw_calls PROVE aw_cur_len'[m] = 0
      BY <1>1
    <3>1. m # aw_calls
      BY <1>7
    <3>2. aw_cur_len'[m] = aw_cur_len[m]
      BY <1>7, <2>2, <3>1
    <3> QED
      BY <3>2 DEF FirstOK
  <2>8. aw_calls' \in 0..MaxCalls /\ aw_wire' \in Seq(Nat \X Nat)
    BY <1>1 DEF FirstOK
  <2> QED
    BY <1>1, <1>3, <1>7, <2>2, <2>3, <2>5, <2>6, <2>7, <2>8 DEF FirstOK, C
<1> QED
  BY <1>8, <1>9

\* A write ends.
LEMMA OneFirst ==
  ASSUME FirstOK, aw_writes # <<>>, NEW n \in Nat, NEW ec \in BOOLEAN,
         WriteErr!Finish(n, ec)
  PROVE  /\ FirstGoing /\ aw_writes' = <<>>
         /\ Head(aw_writes) = [msg |-> aw_calls, from |-> aw_cur_len[aw_calls], node |-> aw_calls]
         /\ Len(aw_completions') = 1
         /\ aw_completions'[1].node = aw_calls /\ aw_completions'[1].bytes = n
         /\ aw_completions' \in Seq([bytes : Nat, ec : BOOLEAN, node : Nat])
         /\ UNCHANGED <<aw_calls, aw_node, aw_cur_len, aw_undefined>>
<1> DEFINE C == [bytes : Nat, ec : BOOLEAN, node : Nat]
           w == [msg |-> aw_calls, from |-> aw_cur_len[aw_calls], node |-> aw_calls]
           e == [bytes |-> n, ec |-> ec, node |-> Head(aw_writes).node]
<1>1. /\ aw_writes' = Tail(aw_writes) /\ aw_completions' = Append(aw_completions, e)
      /\ UNCHANGED <<aw_calls, aw_node, aw_cur_len, aw_undefined>>
  BY DEF WriteErr!Finish
<1>2. FirstGoing /\ aw_completions = <<>> /\ aw_writes = <<w>> /\ aw_calls \in Nat
  BY DEF FirstOK, FirstIdle, FirstGoing, FirstDone
<1>3. w.node = aw_calls
  OBVIOUS
<1> HIDE DEF w
<1>4. Head(aw_writes) = w /\ aw_writes' = <<>>
  BY <1>1, <1>2
<1>5. e \in C /\ e.node = aw_calls /\ e.bytes = n
  BY <1>2, <1>3, <1>4
<1>6. aw_completions' = <<e>>
  BY <1>1, <1>2
<1> HIDE DEF e, C
<1>7. Len(aw_completions') = 1 /\ aw_completions'[1] = e /\ aw_completions' \in Seq(C)
  BY <1>5, <1>6
<1> QED
  BY <1>1, <1>2, <1>4, <1>5, <1>7 DEF C, w

LEMMA WriteSomeFirstOK == ASSUME FirstOK, WriteErr!WriteSome PROVE FirstOK'
<1> USE AsycAssumption
<1>1. aw_writes # <<>>
  BY DEF WriteErr!WriteSome
<1>2. PICK n \in (IF WriteErr!Left = 0 THEN 0 ELSE 1)..WriteErr!Left :
         /\ WriteErr!Finish(n, FALSE)
         /\ aw_wire' = aw_wire \o [k \in 1..n |-> <<Head(aw_writes).msg, Head(aw_writes).from + k>>]
  BY DEF WriteErr!WriteSome
<1>3. /\ FirstGoing
      /\ Head(aw_writes) = [msg |-> aw_calls, from |-> aw_cur_len[aw_calls], node |-> aw_calls]
  BY <1>1 DEF FirstOK, FirstIdle, FirstGoing, FirstDone
<1>4. /\ Head(aw_writes).msg = aw_calls /\ Head(aw_writes).from = aw_cur_len[aw_calls]
      /\ aw_calls # 0 /\ aw_cur_len[aw_calls] < Size
      /\ Len(aw_wire) = Size * (aw_calls - 1) + aw_cur_len[aw_calls]
  BY <1>3 DEF FirstGoing
<1>5. aw_calls \in Nat /\ aw_calls - 1 \in Nat /\ aw_cur_len[aw_calls] \in Nat
  <2>1. aw_calls \in 1..MaxCalls /\ aw_cur_len \in [1..MaxCalls -> Nat]
    BY <1>4 DEF FirstOK, WriteErr!Msgs
  <2> QED
    BY <2>1
<1>6. n \in Nat /\ aw_cur_len[aw_calls] + n <= Size
  <2>1. WriteErr!Left = Size - aw_cur_len[aw_calls] /\ WriteErr!Left \in Nat
    BY <1>4, <1>5 DEF WriteErr!Left
  <2> QED
    BY <1>5, <2>1
<1>7. /\ aw_writes' = <<>> /\ Len(aw_completions') = 1
      /\ aw_completions'[1].node = aw_calls /\ aw_completions'[1].bytes = n
      /\ aw_completions' \in Seq([bytes : Nat, ec : BOOLEAN, node : Nat])
      /\ UNCHANGED <<aw_calls, aw_node, aw_cur_len, aw_undefined>>
  BY <1>1, <1>2, <1>6, OneFirst
<1>8. aw_wire \in Seq(Nat \X Nat) /\ Len(aw_wire) \in Nat
  BY DEF FirstOK
<1>9. aw_wire' = aw_wire \o [k \in 1..n |-> <<aw_calls, aw_cur_len[aw_calls] + k>>]
  BY <1>2, <1>4
<1> DEFINE f == aw_cur_len[aw_calls]
<1>f. f \in Nat /\ f < Size /\ f + n <= Size /\ Len(aw_wire) = Size * (aw_calls - 1) + f
  BY <1>4, <1>5, <1>6
<1> HIDE DEF f
<1>10. /\ aw_wire' \in Seq(Nat \X Nat) /\ Len(aw_wire') = Len(aw_wire) + n
       /\ \A i \in 1..Len(aw_wire) : aw_wire'[i] = aw_wire[i]
       /\ \A k \in 1..n : aw_wire'[Len(aw_wire) + k] = <<aw_calls, f + k>>
  <2>1. aw_wire' = aw_wire \o Piece(aw_calls, f, n)
    BY <1>9 DEF f, Piece
  <2> QED
    <3>1. aw_calls \in Nat /\ n \in Nat /\ f \in Nat /\ aw_wire \in Seq(Nat \X Nat)
      BY <1>5, <1>6, <1>8, <1>f
    <3>2. Extends(aw_wire \o Piece(aw_calls, f, n), aw_wire, aw_calls, f, n)
      BY <3>1, Extended
    <3> QED
      BY <2>1, <3>2 DEF Extends
<1>11. FirstDone'
  <2>1. Size * (aw_calls - 1) \in Nat
    BY <1>5
  <2>2. Len(aw_wire') = Size * (aw_calls - 1) + (f + n)
    BY <1>6, <1>f, <1>10, <2>1
  <2> QED
    BY <1>4, <1>6, <1>7, <1>f, <2>2 DEF FirstDone, f
<1>12. ASSUME NEW i \in 1..Len(aw_wire')
       PROVE  aw_wire'[i] = <<1 + ((i - 1) \div Size), 1 + ((i - 1) % Size)>>
  <2>1. CASE i <= Len(aw_wire)
    <3>1. i \in 1..Len(aw_wire)
      BY <1>8, <2>1
    <3> QED
      BY <1>10, <3>1 DEF FirstOK, WriteErr!WireInOrder
  <2>2. CASE i > Len(aw_wire)
    <3>1. PICK k \in 1..n : i = Len(aw_wire) + k
      <4>0. i \in Nat /\ i <= Len(aw_wire) + n
        BY <1>6, <1>8, <1>10
      <4>1. i - Len(aw_wire) \in 1..n /\ i = Len(aw_wire) + (i - Len(aw_wire))
        BY <1>6, <1>8, <2>2, <4>0
      <4> QED
        BY <4>1
    <3>2. aw_wire'[i] = <<aw_calls, f + k>>
      BY <1>10, <3>1
    <3>3. f + k - 1 \in 0..(Size - 1)
      BY <1>6, <1>f
    <3>4. i - 1 = Size * (aw_calls - 1) + (f + k - 1)
      <4>1. Size * (aw_calls - 1) \in Nat
        BY <1>5
      <4> QED
        BY SMTT(30), <1>6, <1>f, <3>1, <4>1
    <3>5. (i - 1) \div Size = aw_calls - 1 /\ (i - 1) % Size = f + k - 1
      <4> DEFINE a == aw_calls - 1
                 b == f + k - 1
      <4>1. a \in Nat /\ b \in 0..(Size - 1) /\ i - 1 = Size * a + b
        BY <1>5, <3>3, <3>4
      <4> HIDE DEF a, b
      <4>2. (i - 1) \div Size = a /\ (i - 1) % Size = b
        BY SMTT(30), <4>1, Quotient
      <4> QED
        BY <4>2 DEF a, b
    <3>6. 1 + (aw_calls - 1) = aw_calls /\ 1 + (f + k - 1) = f + k
      BY <1>5, <1>6, <1>f
    <3> QED
      BY <3>2, <3>5, <3>6
  <2>3. i <= Len(aw_wire) \/ i > Len(aw_wire)
    BY <1>8
  <2> QED
    BY <2>1, <2>2, <2>3
<1>13. WriteErr!WireInOrder'
  BY <1>12 DEF WriteErr!WireInOrder
<1>14. \A m \in WriteErr!Msgs : m > aw_calls' => aw_cur_len'[m] = 0
  BY <1>7 DEF FirstOK
<1>15. aw_calls' \in 0..MaxCalls /\ aw_node' = aw_calls' /\ ~aw_undefined'
       /\ aw_cur_len' \in [WriteErr!Msgs -> Nat]
  BY <1>7 DEF FirstOK
<1> QED
  BY <1>7, <1>10, <1>11, <1>13, <1>14, <1>15 DEF FirstOK

LEMMA WriteFailsFirstOK == ASSUME FirstOK, WriteErr!WriteFails PROVE FirstOK'
<1> USE AsycAssumption
<1>1. aw_writes # <<>> /\ WriteErr!Finish(0, TRUE) /\ aw_wire' = aw_wire
  BY DEF WriteErr!WriteFails
<1>2. /\ FirstGoing /\ aw_writes' = <<>> /\ Len(aw_completions') = 1
      /\ aw_completions'[1].node = aw_calls /\ aw_completions'[1].bytes = 0
      /\ aw_completions' \in Seq([bytes : Nat, ec : BOOLEAN, node : Nat])
      /\ UNCHANGED <<aw_calls, aw_node, aw_cur_len, aw_undefined>>
  BY <1>1, OneFirst
<1>3. aw_cur_len[aw_calls] \in Nat
  <2>1. aw_calls \in 1..MaxCalls /\ aw_cur_len \in [1..MaxCalls -> Nat]
    BY <1>2 DEF FirstOK, FirstGoing, WriteErr!Msgs
  <2> QED
    BY <2>1
<1>4. aw_cur_len[aw_calls] + 0 = aw_cur_len[aw_calls]
  BY <1>3
<1>5. aw_cur_len[aw_calls] < Size /\ aw_cur_len[aw_calls] <= Size
  BY <1>2, <1>3 DEF FirstGoing
<1>6. FirstDone'
  BY <1>1, <1>2, <1>4, <1>5 DEF FirstDone, FirstGoing
<1>7. WriteErr!WireInOrder'
  BY <1>1 DEF FirstOK, WriteErr!WireInOrder
<1>8. \A m \in WriteErr!Msgs : m > aw_calls' => aw_cur_len'[m] = 0
  BY <1>2 DEF FirstOK
<1>9. aw_calls' \in 0..MaxCalls /\ aw_node' = aw_calls' /\ ~aw_undefined'
      /\ aw_cur_len' \in [WriteErr!Msgs -> Nat]
      /\ aw_wire' \in Seq(Nat \X Nat)
  BY <1>1, <1>2 DEF FirstOK
<1> QED
  BY <1>2, <1>6, <1>7, <1>8, <1>9 DEF FirstOK

LEMMA NextFirstInv == FirstInv /\ [WriteErr!Next]_asycWrite => FirstInv'
<1> SUFFICES ASSUME FirstInv, [WriteErr!Next]_asycWrite PROVE FirstInv'
  OBVIOUS
<1>0. WriteErr!Overflows' = WriteErr!Overflows
  BY DEF WriteErr!Overflows
<1>1. ~WriteErr!writeToSocket /\ ~WriteErr!writeCallBack /\ ~WriteErr!writeCallBack_error
  BY DEF WriteErr!writeToSocket, WriteErr!writeCallBack, WriteErr!writeCallBack_error
<1>2. CASE aw_undefined
  <2>1. aw_undefined' = aw_undefined
    BY <1>1, <1>2 DEF WriteErr!Next, WriteErr!writeAllToSocket, WriteErr!writeToSocketErr,
                      WriteErr!Ready, WriteErr!writeCallBackErr, WriteErr!WriteSome,
                      WriteErr!WriteFails, WriteErr!Finish, asycWrite
  <2> QED
    BY <1>0, <1>2, <2>1 DEF FirstInv
<1>3. CASE ~aw_undefined
  <2>0. FirstOK
    BY <1>3 DEF FirstInv
  <2>1. CASE WriteErr!writeToSocketErr /\ WriteErr!Overflows
    BY <1>0, <2>1 DEF FirstInv, WriteErr!writeToSocketErr
  <2>2. CASE ~(WriteErr!writeToSocketErr /\ WriteErr!Overflows)
    <3>1. FirstOK'
      <4>1. CASE UNCHANGED asycWrite
        BY <2>0, <4>1 DEF asycWrite, FirstOK, FirstIdle, FirstGoing, FirstDone,
                          WriteErr!WireInOrder
      <4>2. CASE WriteErr!writeToSocketErr
        BY <2>0, <2>2, <4>2, CallFirstOK
      <4>3. CASE WriteErr!writeCallBackErr
        BY <2>0, <4>3, CallBackFirstOK
      <4>4. CASE WriteErr!WriteSome
        BY <2>0, <4>4, WriteSomeFirstOK
      <4>5. CASE WriteErr!WriteFails
        BY <2>0, <4>5, WriteFailsFirstOK
      <4> QED
        BY <1>1, <4>1, <4>2, <4>3, <4>4, <4>5 DEF WriteErr!Next, WriteErr!writeAllToSocket
    <3>2. ~aw_undefined'
      BY <3>1 DEF FirstOK
    <3> QED
      BY <3>1, <3>2 DEF FirstInv
  <2> QED
    BY <2>1, <2>2
<1> QED
  BY <1>2, <1>3

\* What FirstInv says of the wire.
LEMMA SafeFirst == FirstInv => /\ WriteErr!WireInOrder /\ WriteErr!WholeIfAlone
                               /\ WriteErr!EmptyPopNeedsOverlap
<1>a. FirstInv => WriteErr!EmptyPopNeedsOverlap
  BY DEF FirstInv, WriteErr!EmptyPopNeedsOverlap
<1> SUFFICES ASSUME FirstInv, ~aw_undefined PROVE WriteErr!WireInOrder /\ WriteErr!WholeIfAlone
  BY <1>a DEF WriteErr!WireInOrder, WriteErr!WholeIfAlone
<1>0. FirstOK
  BY DEF FirstInv
<1>1. WriteErr!Quiet => Len(aw_wire) = Size * aw_calls
  <2>1. Len(<<>>) = 0 /\ (FirstIdle \/ FirstGoing \/ FirstDone)
    BY <1>0 DEF FirstOK
  <2> QED
    BY <2>1 DEF FirstIdle, FirstGoing, FirstDone, WriteErr!Quiet
<1> QED
  BY <1>0, <1>1 DEF FirstOK, WriteErr!WholeIfAlone

-----------------------------------------------------------------------------
(* AsycApi, the queued ways with one call at a time.                        *)

\* The newest message of which something is written.
Wrote(m) == IF m = 0 THEN aw_wire = <<>> ELSE aw_wire # <<>> /\ aw_wire[Len(aw_wire)][1] = m

AloneIdle == /\ aw_writes = <<>> /\ aw_completions = <<>>
             /\ ~aw_broken => aw_queue = <<>> /\ Wrote(aw_calls)
AloneGoing == /\ Len(aw_writes) = 1 /\ aw_completions = <<>>
              /\ ~aw_broken => /\ aw_writes[1] = [msg |-> aw_calls, from |-> 0, node |-> aw_calls]
                               /\ aw_queue = <<aw_calls>> /\ aw_calls # 0 /\ Wrote(aw_calls - 1)
AloneDone == /\ aw_writes = <<>> /\ Len(aw_completions) = 1
             /\ aw_broken => aw_completions[1].ec
             /\ ~aw_broken => ~aw_completions[1].ec /\ aw_queue = <<aw_calls>> /\ Wrote(aw_calls)

\* One write or one handler at most; the wire misses tails only.
AloneOK == /\ aw_calls \in Nat /\ aw_broken \in BOOLEAN /\ ~aw_undefined /\ ~aw_pending
           /\ aw_wire \in Seq(Nat \X Nat)
           /\ aw_writes \in Seq([msg : Nat, from : Nat, node : Nat])
           /\ aw_completions \in Seq([bytes : Nat, ec : BOOLEAN, node : Nat])
           /\ AloneIdle \/ AloneGoing \/ AloneDone
           /\ Writing!OnlyTailsLost

\* As long as every message has room in its node.
AloneInv == /\ aw_undefined => Writing!Overflows
            /\ aw_undefined \/ AloneOK

LEMMA InitAloneOK == Writing!Init => AloneOK
<1> SUFFICES ASSUME Writing!Init PROVE AloneOK
  OBVIOUS
<1>1. Len(<<>>) = 0 /\ aw_writes = <<>> /\ aw_completions = <<>> /\ aw_queue = <<>>
      /\ aw_wire = <<>> /\ aw_calls = 0
  BY DEF Writing!Init
<1>2. /\ aw_wire \in Seq(Nat \X Nat)
      /\ aw_writes \in Seq([msg : Nat, from : Nat, node : Nat])
      /\ aw_completions \in Seq([bytes : Nat, ec : BOOLEAN, node : Nat])
  BY <1>1
<1>3. AloneIdle
  BY <1>1 DEF AloneIdle, Wrote
<1>4. Writing!OnlyTailsLost
  BY <1>1 DEF Writing!OnlyTailsLost
<1>5. aw_broken = FALSE /\ aw_undefined = FALSE /\ aw_pending = FALSE
  BY DEF Writing!Init
<1> QED
  BY <1>1, <1>2, <1>3, <1>4, <1>5 DEF AloneOK

LEMMA CallAloneOK == ASSUME AloneOK, Writing!writeToSocket, ~Writing!Overflows PROVE AloneOK'
<1> DEFINE d == [msg |-> aw_calls', from |-> 0, node |-> aw_calls']
<1>1. /\ aw_writes = <<>> /\ aw_completions = <<>>
      /\ aw_calls' = aw_calls + 1 /\ aw_queue' = Append(aw_queue, aw_calls')
      /\ aw_writes' = Append(aw_writes, d) /\ aw_pending' = FALSE
      /\ ~aw_undefined' /\ UNCHANGED <<aw_completions, aw_broken, aw_wire>>
  BY DEF AloneOK, Writing!writeToSocket, Writing!async_write_some, Writing!Ready, Writing!Quiet
<1>2. aw_calls \in Nat /\ aw_calls' \in Nat /\ aw_calls' # 0 /\ aw_calls' - 1 = aw_calls
  BY <1>1 DEF AloneOK
<1>3. AloneIdle
  <2>1. Len(<<>>) = 0
    OBVIOUS
  <2> QED
    BY <1>1, <2>1 DEF AloneOK, AloneGoing, AloneDone
<1>4. aw_writes' = <<d>> /\ d \in [msg : Nat, from : Nat, node : Nat]
  BY <1>1, <1>2
<1> HIDE DEF d
<1>5. Len(aw_writes') = 1 /\ aw_writes'[1] = d
      /\ aw_writes' \in Seq([msg : Nat, from : Nat, node : Nat])
  BY <1>4
<1>6. ~aw_broken => aw_queue' = <<aw_calls'>>
  BY <1>1, <1>3 DEF AloneIdle
<1>7. AloneGoing'
  BY <1>1, <1>2, <1>3, <1>5, <1>6 DEF AloneGoing, AloneIdle, Wrote, d
<1>8. Writing!OnlyTailsLost'
  BY <1>1 DEF AloneOK, Writing!OnlyTailsLost
<1> QED
  BY <1>1, <1>2, <1>5, <1>7, <1>8 DEF AloneOK

\* A handler runs: nothing is in progress any more.
LEMMA OneDone ==
  ASSUME AloneOK, aw_completions # <<>>, aw_completions' = Tail(aw_completions)
  PROVE  AloneDone /\ aw_completions' = <<>> /\ Head(aw_completions) = aw_completions[1]
<1> DEFINE C == [bytes : Nat, ec : BOOLEAN, node : Nat]
<1>1. AloneDone /\ aw_completions \in Seq(C)
  BY DEF AloneOK, AloneIdle, AloneGoing
<1> HIDE DEF C
<1>2. Len(aw_completions) = 1
  BY <1>1 DEF AloneDone
<1>3. aw_completions' \in Seq(C) /\ Len(aw_completions') = Len(aw_completions) - 1
      /\ Head(aw_completions) = aw_completions[1]
  BY <1>1, Removed
<1>4. Len(aw_completions') = 0
  BY <1>2, <1>3
<1> QED
  BY <1>1, <1>3, <1>4, EmptySeq

LEMMA CallBackAloneOK ==
  ASSUME AloneOK, Writing!writeCallBack \/ Writing!writeCallBack_error
  PROVE  AloneOK'
<1>1. /\ aw_completions # <<>> /\ aw_completions' = Tail(aw_completions)
      /\ UNCHANGED <<aw_calls, aw_broken, aw_wire>>
  BY DEF Writing!writeCallBack, Writing!writeCallBack_error
<1>2. AloneDone /\ aw_completions' = <<>> /\ Head(aw_completions) = aw_completions[1]
  BY <1>1, OneDone
<1>3. aw_completions' \in Seq([bytes : Nat, ec : BOOLEAN, node : Nat])
  BY <1>2
<1>4. Writing!OnlyTailsLost'
  BY <1>1 DEF AloneOK, Writing!OnlyTailsLost
<1>5. CASE Writing!writeCallBack
  <2>1. ~aw_completions[1].ec
    BY <1>2, <1>5 DEF Writing!writeCallBack
  <2>2. ~aw_broken /\ aw_queue = <<aw_calls>>
    BY <1>2, <2>1 DEF AloneDone, AloneOK
  <2>3. aw_queue # <<>> /\ Tail(aw_queue) = <<>>
    BY <2>2
  <2>4. aw_queue' = <<>> /\ aw_pending' = FALSE /\ aw_writes' = aw_writes
        /\ aw_undefined' = aw_undefined
    BY <1>5, <2>3 DEF Writing!writeCallBack
  <2>5. AloneIdle'
    BY <1>1, <1>2, <2>2, <2>4 DEF AloneIdle, AloneDone, Wrote
  <2> QED
    BY <1>1, <1>3, <1>4, <2>4, <2>5 DEF AloneOK
<1>6. CASE Writing!writeCallBack_error
  <2>1. aw_completions[1].ec /\ UNCHANGED <<aw_pending, aw_writes, aw_undefined>>
    BY <1>2, <1>6 DEF Writing!writeCallBack_error
  <2>2. aw_broken
    BY <1>2, <2>1 DEF AloneDone, AloneOK
  <2>3. AloneIdle'
    BY <1>1, <1>2, <2>1, <2>2 DEF AloneIdle, AloneDone
  <2> QED
    BY <1>1, <1>3, <1>4, <2>1, <2>3 DEF AloneOK
<1> QED
  BY <1>5, <1>6

\* A write ends.
LEMMA OneGoing ==
  ASSUME AloneOK, aw_writes # <<>>, NEW n \in Nat, NEW ec \in BOOLEAN,
         Writing!Finish(n, ec)
  PROVE  /\ AloneGoing /\ Head(aw_writes) = aw_writes[1] /\ aw_writes' = <<>>
         /\ Len(aw_completions') = 1 /\ aw_completions'[1].ec = ec
         /\ aw_completions' \in Seq([bytes : Nat, ec : BOOLEAN, node : Nat])
         /\ UNCHANGED <<aw_calls, aw_queue, aw_pending, aw_undefined>>
<1> DEFINE C == [bytes : Nat, ec : BOOLEAN, node : Nat]
           S == [msg : Nat, from : Nat, node : Nat]
           e == [bytes |-> n, ec |-> ec, node |-> Head(aw_writes).node]
<1>1. /\ aw_writes' = Tail(aw_writes) /\ aw_completions' = Append(aw_completions, e)
      /\ UNCHANGED <<aw_calls, aw_queue, aw_pending, aw_undefined>>
  BY DEF Writing!Finish
<1>2. AloneGoing /\ aw_writes \in Seq(S) /\ aw_completions = <<>> /\ Len(aw_writes) = 1
  BY DEF AloneOK, AloneIdle, AloneGoing, AloneDone
<1> HIDE DEF S
<1>3. /\ aw_writes' \in Seq(S) /\ Len(aw_writes') = Len(aw_writes) - 1
      /\ Head(aw_writes) = aw_writes[1]
      /\ Head(aw_writes) \in S
  BY <1>1, <1>2, Removed
<1>4. Len(aw_writes') = 0
  BY <1>2, <1>3
<1>5. aw_writes' = <<>>
  BY <1>3, <1>4, EmptySeq
<1>6. e \in C /\ e.ec = ec
  BY <1>3 DEF S
<1>7. aw_completions' = <<e>>
  BY <1>1, <1>2
<1> HIDE DEF e, C
<1>8. Len(aw_completions') = 1 /\ aw_completions'[1] = e /\ aw_completions' \in Seq(C)
  BY <1>6, <1>7
<1> QED
  BY <1>1, <1>2, <1>3, <1>5, <1>6, <1>8 DEF C

LEMMA WriteSomeAloneOK == ASSUME AloneOK, Writing!WriteSome PROVE AloneOK'
<1>1. aw_writes # <<>> /\ ~aw_broken /\ aw_broken' = aw_broken
  BY DEF Writing!WriteSome
<1>2. PICK n \in (IF Writing!Left = 0 THEN 0 ELSE 1)..Writing!Left :
         /\ Writing!Finish(n, FALSE)
         /\ aw_wire' = aw_wire \o [k \in 1..n |-> <<Head(aw_writes).msg, Head(aw_writes).from + k>>]
  BY DEF Writing!WriteSome
<1>3. AloneGoing /\ Head(aw_writes) = aw_writes[1]
  <2>1. AloneGoing /\ aw_writes \in Seq([msg : Nat, from : Nat, node : Nat])
    BY <1>1 DEF AloneOK, AloneIdle, AloneDone
  <2> QED
    BY <1>1, <2>1, Removed
<1>4. /\ aw_writes[1].msg = aw_calls /\ aw_writes[1].from = 0
      /\ aw_queue = <<aw_calls>> /\ aw_calls # 0 /\ Wrote(aw_calls - 1) /\ aw_calls \in Nat
  BY <1>1, <1>3 DEF AloneGoing, AloneOK
<1>5. n \in Nat /\ n >= 1
  <2>1. Writing!Left = Size /\ Size \in Nat \ {0}
    BY <1>3, <1>4, AsycAssumption DEF Writing!Left
  <2> QED
    BY <2>1
<1>6. /\ aw_writes' = <<>> /\ Len(aw_completions') = 1 /\ ~aw_completions'[1].ec
      /\ aw_completions' \in Seq([bytes : Nat, ec : BOOLEAN, node : Nat])
      /\ UNCHANGED <<aw_calls, aw_queue, aw_pending, aw_undefined>>
  BY <1>1, <1>2, <1>5, OneGoing
<1>7. aw_wire \in Seq(Nat \X Nat) /\ Len(aw_wire) \in Nat
  BY DEF AloneOK
<1>8. aw_wire' = aw_wire \o Piece(aw_calls, 0, n)
  BY <1>2, <1>3, <1>4 DEF Piece
<1>9. /\ aw_wire' \in Seq(Nat \X Nat) /\ Len(aw_wire') = Len(aw_wire) + n
      /\ \A i \in 1..Len(aw_wire) : aw_wire'[i] = aw_wire[i]
      /\ \A k \in 1..n : aw_wire'[Len(aw_wire) + k] = <<aw_calls, 0 + k>>
  <2>1. aw_calls \in Nat /\ n \in Nat /\ 0 \in Nat /\ aw_wire \in Seq(Nat \X Nat)
    BY <1>4, <1>5, <1>7
  <2>2. Extends(aw_wire \o Piece(aw_calls, 0, n), aw_wire, aw_calls, 0, n)
    BY <2>1, Extended
  <2> QED
    BY <1>8, <2>2 DEF Extends
<1>10. \A k \in 1..n : aw_wire'[Len(aw_wire) + k] = <<aw_calls, k>>
  <2> SUFFICES ASSUME NEW k \in 1..n PROVE aw_wire'[Len(aw_wire) + k] = <<aw_calls, k>>
    OBVIOUS
  <2>1. 0 + k = k /\ aw_wire'[Len(aw_wire) + k] = <<aw_calls, 0 + k>>
    BY <1>9
  <2> QED
    BY <2>1
<1>11. Wrote(aw_calls)'
  <2>1. n \in 1..n /\ Len(aw_wire') # 0
    BY <1>5, <1>7, <1>9
  <2>2. aw_wire'[Len(aw_wire')] = <<aw_calls, n>>
    BY <1>9, <1>10, <2>1
  <2>3. aw_wire' # <<>>
    BY <2>1
  <2> QED
    BY <1>4, <1>6, <2>2, <2>3 DEF Wrote
<1>12. AloneDone'
  BY <1>1, <1>4, <1>6, <1>11 DEF AloneDone
<1>13. ASSUME NEW i \in 1..Len(aw_wire')
       PROVE  IF i = 1 THEN aw_wire'[i] = <<1, 1>>
              ELSE \/ aw_wire'[i] = <<aw_wire'[i-1][1], aw_wire'[i-1][2] + 1>>
                   \/ aw_wire'[i] = <<aw_wire'[i-1][1] + 1, 1>>
  <2>1. CASE i <= Len(aw_wire)
    <3>1. i \in 1..Len(aw_wire) /\ (i # 1 => i - 1 \in 1..Len(aw_wire))
      BY <1>7, <2>1
    <3>2. aw_wire'[i] = aw_wire[i] /\ (i # 1 => aw_wire'[i-1] = aw_wire[i-1])
      BY <1>9, <3>1
    <3>3. IF i = 1 THEN aw_wire[i] = <<1, 1>>
          ELSE \/ aw_wire[i] = <<aw_wire[i-1][1], aw_wire[i-1][2] + 1>>
               \/ aw_wire[i] = <<aw_wire[i-1][1] + 1, 1>>
      BY <3>1 DEF AloneOK, Writing!OnlyTailsLost
    <3> QED
      BY <3>2, <3>3
  <2>2. CASE i = Len(aw_wire) + 1
    <3>1. aw_wire'[i] = <<aw_calls, 1>>
      <4>1. 1 \in 1..n
        BY <1>5
      <4> QED
        BY <1>10, <2>2, <4>1
    <3>2. CASE Len(aw_wire) = 0
      <4>1. aw_calls - 1 = 0
        BY <1>4, <1>7, <3>2, EmptySeq DEF Wrote
      <4> QED
        BY <1>4, <2>2, <3>1, <3>2, <4>1
    <3>3. CASE Len(aw_wire) # 0
      <4>1. i # 1 /\ i - 1 = Len(aw_wire) /\ Len(aw_wire) \in 1..Len(aw_wire)
        BY <1>7, <2>2, <3>3
      <4>2. aw_wire # <<>>
        BY <3>3
      <4>3. aw_wire[Len(aw_wire)][1] = aw_calls - 1
        BY <1>4, <4>2 DEF Wrote
      <4>4. aw_wire'[i-1][1] + 1 = aw_calls
        <5>1. aw_wire'[i-1] = aw_wire[Len(aw_wire)]
          BY <1>9, <4>1
        <5>2. aw_wire'[i-1][1] = aw_calls - 1
          BY <4>3, <5>1
        <5> QED
          BY <1>4, <5>2
      <4> QED
        BY <3>1, <4>1, <4>4
    <3> QED
      BY <3>2, <3>3
  <2>3. CASE i > Len(aw_wire) + 1
    <3>1. PICK k \in 2..n : i = Len(aw_wire) + k
      <4>1. i - Len(aw_wire) \in 2..n /\ i = Len(aw_wire) + (i - Len(aw_wire))
        BY <1>5, <1>7, <1>9, <2>3
      <4> QED
        BY <4>1
    <3>2. k \in 1..n /\ k - 1 \in 1..n /\ i - 1 = Len(aw_wire) + (k - 1) /\ i # 1
      BY <1>5, <1>7, <3>1
    <3>3. aw_wire'[i] = <<aw_calls, k>> /\ aw_wire'[i-1] = <<aw_calls, k - 1>>
      BY <1>10, <3>1, <3>2
    <3>4. aw_wire'[i-1][1] = aw_calls /\ aw_wire'[i-1][2] = k - 1
      BY <3>3
    <3>5. aw_wire'[i-1][2] + 1 = k
      BY <3>4
    <3>6. aw_wire'[i] = <<aw_wire'[i-1][1], aw_wire'[i-1][2] + 1>>
      BY <3>3, <3>4, <3>5
    <3> QED
      BY <3>2, <3>6
  <2>4. i \in Nat /\ Len(aw_wire) \in Nat
    BY <1>7
  <2>5. i <= Len(aw_wire) \/ i = Len(aw_wire) + 1 \/ i > Len(aw_wire) + 1
    BY <2>4
  <2> QED
    BY <2>1, <2>2, <2>3, <2>5, Zenon
<1>14. Writing!OnlyTailsLost'
  BY <1>13 DEF Writing!OnlyTailsLost
<1>15. aw_writes' \in Seq([msg : Nat, from : Nat, node : Nat])
  BY <1>6
<1> QED
  BY <1>1, <1>4, <1>6, <1>9, <1>12, <1>14, <1>15 DEF AloneOK

LEMMA WriteFailsAloneOK == ASSUME AloneOK, Writing!WriteFails PROVE AloneOK'
<1>1. aw_writes # <<>> /\ aw_broken' = TRUE /\ Writing!Finish(0, TRUE) /\ aw_wire' = aw_wire
  BY DEF Writing!WriteFails
<1>2. /\ aw_writes' = <<>> /\ Len(aw_completions') = 1 /\ aw_completions'[1].ec
      /\ aw_completions' \in Seq([bytes : Nat, ec : BOOLEAN, node : Nat])
      /\ UNCHANGED <<aw_calls, aw_queue, aw_pending, aw_undefined>>
  BY <1>1, OneGoing
<1>3. AloneDone'
  BY <1>1, <1>2 DEF AloneDone
<1>4. Writing!OnlyTailsLost'
  BY <1>1 DEF AloneOK, Writing!OnlyTailsLost
<1>5. aw_writes' \in Seq([msg : Nat, from : Nat, node : Nat])
  BY <1>2
<1> QED
  BY <1>1, <1>2, <1>3, <1>4, <1>5 DEF AloneOK

LEMMA NextAloneInv == AloneInv /\ [Writing!Next]_asycWrite => AloneInv'
<1> SUFFICES ASSUME AloneInv, [Writing!Next]_asycWrite PROVE AloneInv'
  OBVIOUS
<1>0. Writing!Overflows' = Writing!Overflows
  BY DEF Writing!Overflows
<1>1. ~Writing!writeToSocketErr /\ ~Writing!writeCallBackErr
  BY DEF Writing!writeToSocketErr, Writing!writeCallBackErr
<1>2. CASE aw_undefined
  <2>1. aw_undefined' = aw_undefined
    BY <1>1, <1>2 DEF Writing!Next, Writing!writeAllToSocket, Writing!writeToSocket,
                      Writing!Ready, Writing!writeCallBack, Writing!writeCallBack_error,
                      Writing!WriteSome, Writing!WriteFails, Writing!Finish, asycWrite
  <2> QED
    BY <1>0, <1>2, <2>1 DEF AloneInv
<1>3. CASE ~aw_undefined
  <2>0. AloneOK
    BY <1>3 DEF AloneInv
  <2>1. CASE Writing!writeToSocket /\ Writing!Overflows
    BY <1>0, <2>1 DEF AloneInv, Writing!writeToSocket
  <2>2. CASE ~(Writing!writeToSocket /\ Writing!Overflows)
    <3>1. AloneOK'
      <4>1. CASE UNCHANGED asycWrite
        BY <2>0, <4>1 DEF asycWrite, AloneOK, AloneIdle, AloneGoing, AloneDone, Wrote,
                          Writing!OnlyTailsLost
      <4>2. CASE Writing!writeToSocket
        BY <2>0, <2>2, <4>2, CallAloneOK
      <4>3. CASE Writing!writeCallBack \/ Writing!writeCallBack_error
        BY <2>0, <4>3, CallBackAloneOK
      <4>4. CASE Writing!WriteSome
        BY <2>0, <4>4, WriteSomeAloneOK
      <4>5. CASE Writing!WriteFails
        BY <2>0, <4>5, WriteFailsAloneOK
      <4> QED
        BY <1>1, <4>1, <4>2, <4>3, <4>4, <4>5 DEF Writing!Next, Writing!writeAllToSocket
    <3>2. ~aw_undefined'
      BY <3>1 DEF AloneOK
    <3> QED
      BY <3>1, <3>2 DEF AloneInv
  <2> QED
    BY <2>1, <2>2
<1> QED
  BY <1>2, <1>3

\* What AloneInv says of the wire.
LEMMA SafeAlone == AloneInv => Writing!OnlyTailsLost /\ Writing!EmptyPopNeedsOverlap
BY DEF AloneInv, AloneOK, Writing!OnlyTailsLost, Writing!EmptyPopNeedsOverlap

-----------------------------------------------------------------------------
(* AsycApi, the queued ways with calls at any time.                         *)

\* Every message in the queue has a write of its own on its way.
BacklogInv == /\ aw_queue \in Seq(Nat) /\ aw_calls \in Nat /\ aw_broken \in BOOLEAN
              /\ ~aw_pending
              /\ aw_writes \in Seq([msg : Nat, from : Nat, node : Nat])
              /\ aw_completions \in Seq([bytes : Nat, ec : BOOLEAN, node : Nat])
              /\ ~aw_broken => /\ \A i \in 1..Len(aw_completions) : ~aw_completions[i].ec
                               /\ Len(aw_queue) <= Len(aw_writes) + Len(aw_completions)

LEMMA InitBacklogInv == Overlapping!Init => BacklogInv
<1> SUFFICES ASSUME Overlapping!Init PROVE BacklogInv
  OBVIOUS
<1>1. Len(<<>>) = 0 /\ aw_writes = <<>> /\ aw_completions = <<>> /\ aw_queue = <<>>
  BY DEF Overlapping!Init
<1>2. /\ aw_writes \in Seq([msg : Nat, from : Nat, node : Nat])
      /\ aw_completions \in Seq([bytes : Nat, ec : BOOLEAN, node : Nat])
      /\ aw_queue \in Seq(Nat)
  BY <1>1
<1>3. /\ \A i \in 1..Len(aw_completions) : ~aw_completions[i].ec
      /\ Len(aw_queue) <= Len(aw_writes) + Len(aw_completions)
  BY <1>1
<1> QED
  BY <1>2, <1>3 DEF Overlapping!Init, BacklogInv

LEMMA Appended ==
  ASSUME NEW S, NEW q \in Seq(S), NEW e \in S
  PROVE  Append(q, e) \in Seq(S) /\ Len(Append(q, e)) = Len(q) + 1 /\ Len(q) \in Nat
BY AppendProperties

LEMMA CallBacklogInv == ASSUME BacklogInv, Overlapping!writeToSocket PROVE BacklogInv'
<1> DEFINE d == [msg |-> aw_calls', from |-> 0, node |-> aw_calls']
           S == [msg : Nat, from : Nat, node : Nat]
<1>1. /\ aw_calls' = aw_calls + 1 /\ aw_queue' = Append(aw_queue, aw_calls')
      /\ aw_writes' = Append(aw_writes, d) /\ aw_pending' = FALSE
      /\ aw_completions' = aw_completions /\ aw_broken' = aw_broken
  BY DEF BacklogInv, Overlapping!writeToSocket, Overlapping!async_write_some
<1>2. aw_calls' \in Nat /\ d \in S /\ aw_writes \in Seq(S) /\ aw_queue \in Seq(Nat)
  BY <1>1 DEF BacklogInv
<1> HIDE DEF d, S
<1>3. aw_writes' \in Seq(S) /\ Len(aw_writes') = Len(aw_writes) + 1 /\ Len(aw_writes) \in Nat
  BY <1>1, <1>2, Appended
<1>4. aw_queue' \in Seq(Nat) /\ Len(aw_queue') = Len(aw_queue) + 1 /\ Len(aw_queue) \in Nat
  BY <1>1, <1>2, Appended
<1>5. Len(aw_completions) \in Nat
  BY DEF BacklogInv
<1> QED
  BY <1>1, <1>2, <1>3, <1>4, <1>5 DEF BacklogInv, S

LEMMA CallBackBacklogInv == ASSUME BacklogInv, Overlapping!writeCallBack PROVE BacklogInv'
<1> DEFINE C == [bytes : Nat, ec : BOOLEAN, node : Nat]
           S == [msg : Nat, from : Nat, node : Nat]
<1>1. /\ aw_completions # <<>> /\ aw_completions' = Tail(aw_completions)
      /\ UNCHANGED <<aw_calls, aw_node, aw_cur_len, aw_broken, aw_wire>>
  BY DEF Overlapping!writeCallBack
<1>2. aw_completions \in Seq(C) /\ aw_writes \in Seq(S) /\ aw_queue \in Seq(Nat)
      /\ Len(aw_writes) \in Nat
  BY DEF BacklogInv
<1> HIDE DEF C
<1>3. /\ aw_completions' \in Seq(C) /\ Len(aw_completions') = Len(aw_completions) - 1
      /\ Len(aw_completions) \in Nat \ {0}
      /\ \A i \in 1..Len(aw_completions') : aw_completions'[i] = aw_completions[i + 1]
  BY <1>1, <1>2, Removed
<1>4. ~aw_broken => \A i \in 1..Len(aw_completions') : ~aw_completions'[i].ec
  <2> SUFFICES ASSUME ~aw_broken, NEW i \in 1..Len(aw_completions') PROVE ~aw_completions'[i].ec
    OBVIOUS
  <2>1. i + 1 \in 1..Len(aw_completions)
    BY <1>3
  <2>2. ~aw_completions[i + 1].ec
    BY <2>1 DEF BacklogInv
  <2> QED
    BY <1>3, <2>2
<1>5. CASE aw_queue = <<>>
  <2>1. UNCHANGED <<aw_queue, aw_pending, aw_writes>>
    BY <1>5 DEF Overlapping!writeCallBack
  <2>2. Len(aw_queue) = 0
    BY <1>5
  <2>3. Len(aw_queue') <= Len(aw_writes') + Len(aw_completions')
    BY <1>2, <1>3, <2>1, <2>2
  <2> QED
    BY <1>1, <1>3, <1>4, <2>1, <2>3 DEF BacklogInv, C
<1>6. CASE aw_queue # <<>>
  <2>1. /\ aw_queue' = Tail(aw_queue)
        /\ IF aw_queue' = <<>> THEN aw_pending' = FALSE /\ UNCHANGED aw_writes
           ELSE Overlapping!async_write_some(Head(aw_queue'), 0) /\ UNCHANGED aw_pending
    BY <1>6 DEF Overlapping!writeCallBack
  <2>2. aw_queue' \in Seq(Nat) /\ Len(aw_queue') = Len(aw_queue) - 1 /\ Len(aw_queue) \in Nat
    BY <1>2, <1>6, <2>1, Removed
  <2>3. CASE aw_queue' = <<>>
    <3>1. Len(aw_queue') = 0
      BY <2>3
    <3>2. aw_writes' = aw_writes /\ ~aw_pending'
      BY <2>1, <2>3
    <3>3. Len(aw_queue') <= Len(aw_writes') + Len(aw_completions')
      BY <1>2, <1>3, <3>1, <3>2
    <3> QED
      BY <1>1, <1>2, <1>3, <1>4, <2>2, <3>2, <3>3 DEF BacklogInv, C
  <2>4. CASE aw_queue' # <<>>
    <3> DEFINE d == [msg |-> Head(aw_queue'), from |-> 0, node |-> Head(aw_queue')]
    <3>1. aw_writes' = Append(aw_writes, d) /\ aw_pending' = aw_pending
      BY <2>1, <2>4 DEF Overlapping!async_write_some
    <3>2. Head(aw_queue') \in Nat
      BY <2>2, <2>4, Removed
    <3>3. d \in S
      BY <3>2
    <3> HIDE DEF d, S
    <3>4. aw_writes' \in Seq(S) /\ Len(aw_writes') = Len(aw_writes) + 1
      BY <1>2, <3>1, <3>3, Appended
    <3>5. ~aw_broken => Len(aw_queue') <= Len(aw_writes') + Len(aw_completions')
      <4>1. ~aw_broken => Len(aw_queue) <= Len(aw_writes) + Len(aw_completions)
        BY DEF BacklogInv
      <4> QED
        BY <1>2, <1>3, <2>2, <3>4, <4>1
    <3> QED
      BY <1>1, <1>3, <1>4, <2>2, <3>1, <3>4, <3>5 DEF BacklogInv, C, S
  <2> QED
    BY <2>3, <2>4
<1> QED
  BY <1>5, <1>6

LEMMA CallBackErrBacklogInv ==
  ASSUME BacklogInv, Overlapping!writeCallBack_error
  PROVE  BacklogInv'
<1> DEFINE C == [bytes : Nat, ec : BOOLEAN, node : Nat]
<1>1. /\ aw_completions # <<>> /\ Head(aw_completions).ec
      /\ aw_completions' = Tail(aw_completions)
      /\ UNCHANGED <<aw_calls, aw_queue, aw_pending, aw_writes, aw_broken>>
  BY DEF Overlapping!writeCallBack_error
<1>2. aw_completions \in Seq(C)
  BY DEF BacklogInv
<1> HIDE DEF C
<1>3. Head(aw_completions) = aw_completions[1] /\ Len(aw_completions) \in Nat \ {0}
      /\ aw_completions' \in Seq(C)
  BY <1>1, <1>2, Removed
<1>4. aw_broken
  BY <1>1, <1>3 DEF BacklogInv
<1> QED
  BY <1>1, <1>3, <1>4 DEF BacklogInv, C

LEMMA FinishBacklogInv ==
  ASSUME BacklogInv, aw_writes # <<>>, NEW n \in Nat, NEW ec \in BOOLEAN, Overlapping!Finish(n, ec),
         aw_broken' \in BOOLEAN, ~aw_broken' => ~aw_broken /\ ~ec
  PROVE  BacklogInv'
<1> DEFINE C == [bytes : Nat, ec : BOOLEAN, node : Nat]
           S == [msg : Nat, from : Nat, node : Nat]
           e == [bytes |-> n, ec |-> ec, node |-> Head(aw_writes).node]
<1>1. /\ aw_writes' = Tail(aw_writes) /\ aw_completions' = Append(aw_completions, e)
      /\ UNCHANGED <<aw_calls, aw_queue, aw_pending>>
  BY DEF Overlapping!Finish
<1>2. aw_writes \in Seq(S) /\ aw_completions \in Seq(C)
  BY DEF BacklogInv
<1> HIDE DEF S
<1>3. /\ aw_writes' \in Seq(S) /\ Len(aw_writes') = Len(aw_writes) - 1
      /\ Len(aw_writes) \in Nat \ {0}
      /\ Head(aw_writes) \in S
  BY <1>1, <1>2, Removed
<1>4. e \in C /\ e.ec = ec
  BY <1>3 DEF S
<1> HIDE DEF C, e
<1>5. /\ aw_completions' \in Seq(C) /\ Len(aw_completions') = Len(aw_completions) + 1
      /\ Len(aw_completions) \in Nat
      /\ \A i \in 1..Len(aw_completions) : aw_completions'[i] = aw_completions[i]
      /\ aw_completions'[Len(aw_completions) + 1] = e
  BY <1>1, <1>2, <1>4, AppendProperties
<1>6. ASSUME ~aw_broken' PROVE \A i \in 1..Len(aw_completions') : ~aw_completions'[i].ec
  <2> TAKE i \in 1..Len(aw_completions')
  <2>1. CASE i = Len(aw_completions) + 1
    BY <1>4, <1>5, <1>6, <2>1
  <2>2. CASE i # Len(aw_completions) + 1
    <3>1. i \in 1..Len(aw_completions)
      BY <1>5, <2>2
    <3> QED
      BY <1>5, <1>6, <3>1 DEF BacklogInv
  <2> QED
    BY <2>1, <2>2
<1>7. ~aw_broken' => Len(aw_queue') <= Len(aw_writes') + Len(aw_completions')
  <2>1. Len(aw_writes') + Len(aw_completions') = Len(aw_writes) + Len(aw_completions)
    BY <1>3, <1>5
  <2> QED
    BY <1>1, <2>1 DEF BacklogInv
<1> QED
  BY <1>1, <1>3, <1>5, <1>6, <1>7 DEF BacklogInv, C, S

LEMMA NextBacklogInv ==
  ASSUME OverlapSize \in Nat
  PROVE  BacklogInv /\ [Overlapping!Next]_asycWrite => BacklogInv'
<1> SUFFICES ASSUME BacklogInv, [Overlapping!Next]_asycWrite PROVE BacklogInv'
  OBVIOUS
<1>1. CASE UNCHANGED asycWrite
  BY <1>1 DEF asycWrite, BacklogInv
<1>2. CASE Overlapping!writeToSocket
  BY <1>2, CallBacklogInv
<1>3. CASE Overlapping!writeCallBack
  BY <1>3, CallBackBacklogInv
<1>4. CASE Overlapping!writeCallBack_error
  BY <1>4, CallBackErrBacklogInv
<1>5. CASE Overlapping!WriteSome
  <2>1. PICK n \in (IF Overlapping!Left = 0 THEN 0 ELSE 1)..Overlapping!Left :
          Overlapping!Finish(n, FALSE)
    BY <1>5 DEF Overlapping!WriteSome
  <2>2. n \in Nat /\ aw_writes # <<>> /\ ~aw_broken /\ aw_broken' = aw_broken
    BY <1>5 DEF Overlapping!WriteSome
  <2> QED
    BY <2>1, <2>2, FinishBacklogInv DEF BacklogInv
<1>6. CASE Overlapping!WriteFails
  BY <1>6, FinishBacklogInv DEF Overlapping!WriteFails
<1>7. ~Overlapping!writeToSocketErr /\ ~Overlapping!writeCallBackErr
  BY DEF Overlapping!writeToSocketErr, Overlapping!writeCallBackErr
<1> QED
  BY <1>1, <1>2, <1>3, <1>4, <1>5, <1>6, <1>7 DEF Overlapping!Next, Overlapping!writeAllToSocket

\* What BacklogInv says of the queue.
LEMMA SafeBacklog == BacklogInv => Overlapping!NeverIdleWithBacklog
<1> SUFFICES ASSUME BacklogInv, ~aw_broken, aw_queue # <<>> PROVE aw_writes \o aw_completions # <<>>
  BY DEF Overlapping!NeverIdleWithBacklog
<1> DEFINE S == [msg : Nat, from : Nat, node : Nat]
           C == [bytes : Nat, ec : BOOLEAN, node : Nat]
<1>0. aw_writes \in Seq(S) /\ aw_completions \in Seq(C) /\ aw_queue \in Seq(Nat)
  BY DEF BacklogInv
<1> HIDE DEF S, C
<1>1. aw_writes \in Seq(S \cup C) /\ aw_completions \in Seq(S \cup C) /\ aw_queue \in Seq(Nat)
  <2>1. S \subseteq S \cup C /\ C \subseteq S \cup C
    OBVIOUS
  <2> QED
    BY <1>0, <2>1, SeqMonotonic
<1>2. Len(aw_queue) \in Nat \ {0} /\ Len(aw_queue) <= Len(aw_writes) + Len(aw_completions)
  BY <1>1, Removed DEF BacklogInv
<1>3. aw_writes \o aw_completions = <<>> => aw_writes = <<>> /\ aw_completions = <<>>
  BY <1>1, ConcatEqualIffEmpty
<1>4. Len(<<>>) = 0
  OBVIOUS
<1> QED
  BY <1>2, <1>3, <1>4

-----------------------------------------------------------------------------
(* AsycApi, reading: the two ways differ in what they do with a full node.  *)

\* Until a read is short there is one, of the whole of the newest node.
Whole == /\ ~ar_undefined
         /\ Len(ar_reads) + Len(ar_results) <= 1
         /\ ar_reads # <<>> \/ ar_results # <<>> => ar_pending /\ ar_node # 0 /\ ar_cur_len = 0
         /\ ar_reads # <<>> => Head(ar_reads) = [node |-> ar_node, room |-> RECVSIZE]
         /\ ar_results # <<>> => Head(ar_results) = RECVSIZE

\* A node is the newest, and the flag is set for it.
ReadInv == /\ ar_reads \in Seq([node : Nat, room : Nat])
           /\ ar_results \in Seq(Nat)
           /\ ar_nodes \in Nat /\ ar_cur_len \in Nat /\ ar_node \in Nat
           /\ ar_node # 0 => ar_node = ar_nodes /\ ar_pending
           /\ ~ar_short => Whole

LEMMA InitReadInv == ReadSome!Init => ReadInv
BY AsycAssumption DEF ReadSome!Init, ReadInv, Whole

LEMMA OneReading == ASSUME NEW S, NEW q \in Seq(S), Len(q) <= 1, q # <<>>
                    PROVE  Len(q) = 1 /\ Head(q) = q[1] /\ Head(q) \in S /\ Tail(q) = <<>>
<1>0. Len(q) \in Nat /\ Len(q) # 0
  BY EmptySeq
<1>1. Len(q) = 1
  BY <1>0
<1>2. Tail(q) \in Seq(S) /\ Len(Tail(q)) = Len(q) - 1 /\ Head(q) \in S
  BY HeadTailProperties
<1> DEFINE r == Tail(q)
<1> HIDE DEF r
<1>3. r \in Seq(S) /\ Len(r) = 0
  BY <1>1, <1>2 DEF r
<1>4. r = <<>>
  BY <1>3
<1> QED
  BY <1>1, <1>2, <1>4 DEF r

LEMMA StartReadInv == ASSUME ReadInv, program' = program, ReadSome!readFromSocket PROVE ReadInv'
<1> USE AsycAssumption
<1> DEFINE d == [node |-> ar_nodes', room |-> RECVSIZE]
<1>1. /\ ~ar_pending /\ ar_nodes' = ar_nodes + 1 /\ ar_node' = ar_nodes' /\ ar_cur_len' = 0
      /\ ar_reads' = Append(ar_reads, d) /\ ar_pending' = TRUE
      /\ ar_results' = ar_results /\ ar_short' = ar_short
      /\ ar_undefined' = ar_undefined
      /\ ar_nodes \in Nat /\ ar_node = 0
  BY DEF ReadSome!readFromSocket, ReadSome!MayRead, ReadInv
<1>2. d \in [node : Nat, room : Nat] /\ ar_reads' \in Seq([node : Nat, room : Nat])
  BY <1>1 DEF ReadInv
<1>4. ASSUME ~ar_short PROVE Whole'
  <2>1. ~ar_undefined /\ ar_reads = <<>> /\ ar_results = <<>>
    BY <1>1, <1>4 DEF ReadInv, Whole
  <2>2. ar_reads' = <<d>>
    BY <1>1, <2>1
  <2> QED
    BY <1>1, <2>1, <2>2 DEF Whole
<1> QED
  BY <1>1, <1>2, <1>4 DEF ReadInv, In

CallBack == \/ ~In("readAll") /\ ReadSome!readCallBack
            \/ In("readAll") /\ ReadAll!readCallBack

LEMMA CallBackReadInv == ASSUME ReadInv, program' = program, CallBack PROVE ReadInv'
<1> USE AsycAssumption
<1> DEFINE n == Head(ar_results)
<1>0. In("readAll")' <=> In("readAll")
  BY DEF In
<1>1. /\ ar_results # <<>> /\ ~ar_undefined /\ ar_results' = Tail(ar_results)
      /\ ar_nodes' = ar_nodes /\ ar_short' = ar_short
  BY DEF CallBack, ReadSome!readCallBack, ReadAll!readCallBack
<1>2. n \in Nat /\ ar_results' \in Seq(Nat) /\ ar_cur_len \in Nat /\ ar_nodes \in Nat
      /\ ar_cur_len + n \in Nat
  <2>1. ar_results \in Seq(Nat) /\ ar_cur_len \in Nat /\ ar_nodes \in Nat
    BY DEF ReadInv
  <2> QED
    BY <1>1, <2>1, HeadTailProperties
<1> HIDE DEF n
<1>3. ASSUME ~ar_short
      PROVE  Whole /\ ar_results' = <<>> /\ ar_reads = <<>> /\ n = RECVSIZE /\ ar_node # 0
             /\ ar_cur_len = 0
  <2>1. Whole
    BY <1>3 DEF ReadInv
  <2>2. /\ Len(ar_results) \in Nat /\ Len(ar_reads) \in Nat
        /\ Len(ar_reads) + Len(ar_results) <= 1
        /\ ar_results \in Seq(Nat) /\ ar_reads \in Seq([node : Nat, room : Nat])
    BY <2>1 DEF ReadInv, Whole
  <2>3. Len(ar_results) # 0
    BY <1>1, <2>2, EmptySeq
  <2> DEFINE a == Len(ar_reads)
             b == Len(ar_results)
  <2>c. a \in Nat /\ b \in Nat /\ a + b <= 1 /\ b # 0
    BY <2>2, <2>3
  <2> HIDE DEF a, b
  <2>d. b = 1 /\ a = 0
    BY <2>c
  <2>4. Len(ar_results) = 1 /\ Len(ar_reads) = 0
    BY <2>d DEF a, b
  <2>5. ar_results' = <<>>
    BY <1>1, <2>2, <2>4, OneReading
  <2>6. ar_reads = <<>>
    BY <2>2, <2>4, EmptySeq
  <2> QED
    BY <1>1, <2>1, <2>5, <2>6 DEF Whole, n
<1>4. CASE ar_node = 0
  <2>1. ar_undefined' = TRUE /\ UNCHANGED <<ar_pending, ar_node, ar_cur_len, ar_reads>>
    BY <1>4 DEF CallBack, ReadSome!readCallBack, ReadAll!readCallBack
  <2>2. ar_short
    BY <1>3, <1>4
  <2> QED
    BY <1>0, <1>1, <1>2, <2>1, <2>2 DEF ReadInv
<1>5. CASE ar_node # 0 /\ ar_cur_len + n < RECVSIZE
  <2>1. ReadSome!ReadOn(n) /\ ar_undefined' = ar_undefined
    BY <1>5 DEF CallBack, ReadSome!readCallBack, ReadAll!readCallBack,
                  ReadSome!Incomplete, ReadAll!Incomplete, ReadSome!ReadOn, ReadAll!ReadOn,
                  ReadSome!Drop, ReadAll!Drop, n
  <2>2. ar_short
    BY <1>2, <1>3, <1>5
  <2>4. ar_reads' \in Seq([node : Nat, room : Nat])
    <3>1. RECVSIZE - (ar_cur_len + n) \in Nat
      BY <1>2, <1>5
    <3>2. [node |-> ar_node, room |-> RECVSIZE - (ar_cur_len + n)] \in [node : Nat, room : Nat]
      BY <3>1 DEF ReadInv
    <3> QED
      BY <2>1, <3>2 DEF ReadInv, ReadSome!ReadOn
  <2>5. ar_node' = 0 /\ ar_cur_len' \in Nat /\ ar_pending' = FALSE
    BY <1>2, <2>1 DEF ReadSome!ReadOn, ReadSome!Drop
  <2>6. ar_results' \in Seq(Nat) /\ ar_nodes' \in Nat /\ ar_short'
    BY <1>1, <1>2, <2>2
  <2>8. ~ar_short' => Whole'
    BY <2>6
  <2>9. ar_node' \in Nat /\ (ar_node' # 0 => ar_node' = ar_nodes' /\ ar_pending')
    BY <2>5
  <2> QED
    BY <1>0, <2>4, <2>5, <2>6, <2>8, <2>9 DEF ReadInv
<1>6. CASE ar_node # 0 /\ ~(ar_cur_len + n < RECVSIZE)
  <2>2. /\ ar_cur_len' = ar_cur_len + n
        /\ ar_reads' = ar_reads /\ ar_undefined' = ar_undefined
        /\ IF In("readAll") THEN UNCHANGED <<ar_pending, ar_node>>
                           ELSE ar_pending' = FALSE /\ ar_node' = 0
    <3>1. CASE In("readAll")
      BY <1>6, <3>1 DEF CallBack, ReadAll!readCallBack, ReadAll!Incomplete, ReadAll!Filled, n
    <3>2. CASE ~In("readAll")
      BY <1>6, <3>2 DEF CallBack, ReadSome!readCallBack, ReadSome!Incomplete, ReadSome!Filled,
                        ReadSome!Drop, n
    <3> QED
      BY <3>1, <3>2
  <2>3. ar_node = ar_nodes /\ ar_pending
    BY <1>6 DEF ReadInv
  <2>4. ~ar_short => Whole'
    BY <1>1, <1>3, <2>2 DEF Whole
  <2>6. ar_cur_len' \in Nat
    BY <1>2, <2>2
  <2>7. ar_reads' \in Seq([node : Nat, room : Nat]) /\ ar_results' \in Seq(Nat)
    BY <1>2, <2>2 DEF ReadInv
  <2>8. ar_node' \in Nat /\ (ar_node' # 0 => ar_node' = ar_nodes' /\ ar_pending')
    <3>1. CASE In("readAll")
      <4>1. ar_node' = ar_node /\ ar_pending' = ar_pending
        BY <2>2, <3>1
      <4> QED
        BY <1>1, <1>2, <2>3, <4>1
    <3>2. CASE ~In("readAll")
      BY <2>2, <3>2
    <3> QED
      BY <3>1, <3>2
  <2> QED
    BY <1>0, <1>1, <1>2, <2>4, <2>6, <2>7, <2>8 DEF ReadInv
<1> QED
  BY <1>4, <1>5, <1>6

LEMMA SocketReadInv ==
  ASSUME ReadInv, program' = program, NEW n \in 0..RECVSIZE, ReadSome!ReadSome(n) PROVE ReadInv'
<1> USE AsycAssumption
<1> DEFINE d == Head(ar_reads)
<1>1. /\ ar_reads # <<>> /\ n <= d.room /\ ar_reads' = Tail(ar_reads)
      /\ ar_results' = Append(ar_results, n)
      /\ ar_short' = (ar_short \/ n < d.room) /\ ar_undefined' = (n > 0 /\ d.node # ar_node)
      /\ UNCHANGED <<ar_pending, ar_node, ar_nodes, ar_cur_len>>
  BY DEF ReadSome!ReadSome
<1>2. /\ ar_reads \in Seq([node : Nat, room : Nat]) /\ ar_results \in Seq(Nat) /\ n \in Nat
      /\ ar_nodes \in Nat /\ ar_cur_len \in Nat /\ ar_node \in Nat
  BY DEF ReadInv
<1>3. d \in [node : Nat, room : Nat] /\ ar_reads' \in Seq([node : Nat, room : Nat])
      /\ ar_results' \in Seq(Nat)
  <2> DEFINE S == [node : Nat, room : Nat]
  <2>1. ar_reads \in Seq(S) /\ ar_reads # <<>> /\ ar_reads' = Tail(ar_reads)
    BY <1>1, <1>2
  <2> HIDE DEF S
  <2>2. Head(ar_reads) \in S /\ Tail(ar_reads) \in Seq(S)
    BY <2>1, HeadTailProperties
  <2>3. Append(ar_results, n) \in Seq(Nat)
    BY <1>2, AppendProperties
  <2> QED
    BY <1>1, <2>1, <2>2, <2>3 DEF S
<1> HIDE DEF d
<1>4. ASSUME ~ar_short' PROVE Whole'
  <2>1. Whole /\ ~(n < d.room)
    BY <1>1, <1>4 DEF ReadInv
  <2>2. d = [node |-> ar_node, room |-> RECVSIZE] /\ ar_pending /\ ar_node # 0 /\ ar_cur_len = 0
    BY <1>1, <2>1 DEF Whole, d
  <2>3. d.node = ar_node /\ d.room = RECVSIZE
    BY <2>2
  <2>4. n = RECVSIZE
    BY <1>1, <1>2, <2>1, <2>3
  <2>5. /\ Len(ar_results) \in Nat /\ Len(ar_reads) \in Nat
        /\ Len(ar_reads) + Len(ar_results) <= 1
    BY <1>2, <2>1 DEF Whole
  <2>6. Len(ar_reads) # 0
    BY <1>1, <1>2, EmptySeq
  <2>7. Len(ar_reads) <= 1 /\ Len(ar_results) = 0
    BY <2>5, <2>6
  <2>8. ar_reads' = <<>> /\ ar_results = <<>>
    BY <1>1, <1>2, <2>7, OneReading, EmptySeq
  <2>9. ar_results' = <<n>>
    BY <1>1, <2>8
  <2>10. ~ar_undefined' /\ ar_pending' /\ ar_node' # 0 /\ ar_cur_len' = 0
    BY <1>1, <2>2, <2>3
  <2>11. Len(ar_reads') + Len(ar_results') <= 1
         /\ (ar_results' # <<>> => Head(ar_results') = RECVSIZE)
    BY <2>4, <2>8, <2>9
  <2> QED
    BY <2>8, <2>10, <2>11 DEF Whole
<1> QED
  BY <1>1, <1>2, <1>3, <1>4 DEF ReadInv, In

Reads == (~In("readAll") /\ ReadSome!Next) \/ (In("readAll") /\ ReadAll!Next)

LEMMA NextReadInv ==
  ASSUME ReadInv, program' = program, Reads \/ UNCHANGED asycRead
  PROVE  ReadInv'
<1>1. CASE UNCHANGED asycRead
  BY <1>1 DEF asycRead, ReadInv, Whole, In
<1>2. ReadAll!readFromSocket <=> ReadSome!readFromSocket
  BY DEF ReadAll!readFromSocket, ReadSome!readFromSocket, ReadAll!MayRead, ReadSome!MayRead
<1>3. \A n : ReadAll!ReadSome(n) <=> ReadSome!ReadSome(n)
  BY DEF ReadAll!ReadSome, ReadSome!ReadSome
<1>4. CASE Reads
  <2>1. ReadSome!readFromSocket \/ CallBack \/ \E n \in 0..RECVSIZE : ReadSome!ReadSome(n)
    BY <1>2, <1>3, <1>4 DEF Reads, CallBack, ReadSome!Next, ReadAll!Next, ReadAll!readAllFromSocket
  <2> QED
    BY <2>1, StartReadInv, CallBackReadInv, SocketReadInv
<1> QED
  BY <1>1, <1>4

\* What ReadInv says of the reads.
LEMMA SafeReading == ReadInv => ReadSome!RightUntilShort /\ ReadAll!RightUntilShort
<1> SUFFICES ASSUME ReadInv PROVE ReadSome!RightUntilShort /\ ReadAll!RightUntilShort
  OBVIOUS
<1>2. ASSUME ~ar_short
      PROVE  /\ ~ar_undefined /\ Len(ar_reads) + Len(ar_results) <= 1
             /\ \A i \in 1..Len(ar_reads) : ar_reads[i].node = ar_node /\ ar_pending
  <2>1. Whole
    BY <1>2 DEF ReadInv
  <2>2. ASSUME NEW i \in 1..Len(ar_reads) PROVE ar_reads[i].node = ar_node /\ ar_pending
    <3>1. ar_reads \in Seq([node : Nat, room : Nat]) /\ Len(ar_results) \in Nat
          /\ Len(ar_reads) \in Nat
      BY DEF ReadInv
    <3>2. i = 1 /\ Len(ar_reads) # 0
      BY <2>1, <2>2, <3>1 DEF Whole
    <3>3. ar_reads # <<>> /\ Head(ar_reads) = ar_reads[1]
      BY <3>1, <3>2, EmptySeq
    <3>4. Head(ar_reads) = [node |-> ar_node, room |-> RECVSIZE] /\ ar_pending
      BY <2>1, <3>3 DEF Whole
    <3> QED
      BY <3>2, <3>3, <3>4
  <2> QED
    BY <2>1, <2>2 DEF Whole
<1> QED
  BY <1>2 DEF ReadSome!RightUntilShort, ReadAll!RightUntilShort,
                    ReadSome!InProgress, ReadAll!InProgress

-----------------------------------------------------------------------------
(* The websocket servers.  They differ in what the catch block of the write*)
(* handler removes, on which the invariant does not depend: Test's steps are*)
(* Beast's but for that one.                                               *)

WebIdle == /\ "write" \notin ws_pending
           /\ ws_queue = <<>>
           /\ Len(ws_wire) = ws_received

WebWriting == /\ "write" \in ws_pending
              /\ ws_queue # <<>>
              /\ Len(ws_wire) + Len(ws_queue) = ws_received
              /\ \A i \in 1..Len(ws_queue) : ws_queue[i] = Len(ws_wire) + i
              /\ ws_outgoing \in {Len(ws_wire) + 1, Beast!Dead}

WebDuplicate == \E i \in 2..Len(ws_queue) : ws_queue[i] = ws_queue[1]

WebStuck == /\ "write" \notin ws_pending
            /\ ws_queue # <<>>
            /\ ~ws_up \/ ws_threw \/ WebDuplicate

\* Before the handshake is over nothing else is outstanding.
WebAlone == ("accept" \in ws_pending \/ "handshake" \in ws_pending) =>
           "read" \notin ws_pending /\ "write" \notin ws_pending

WebInv == /\ Beast!TypeOK
          /\ WebAlone
          /\ Beast!EchoInOrder
          /\ WebIdle \/ WebWriting \/ WebStuck

-----------------------------------------------------------------------------
LEMMA InitWebInv == Beast!Init => WebInv
<1> SUFFICES ASSUME Beast!Init PROVE WebInv
  OBVIOUS
<1>1. ws_queue \in Seq(1..ws_received) /\ ws_wire \in Seq(0..ws_received)
  BY DEF Beast!Init
<1>2. WebIdle /\ Beast!EchoInOrder /\ WebAlone
  BY DEF Beast!Init, WebIdle, Beast!EchoInOrder, WebAlone
<1>3. ws_received \in 0..MaxMsgs /\ ws_outgoing \in 0..ws_received
  BY WebAssumption DEF Beast!Init, Beast!Dead
<1>4. Beast!TypeOK
  BY <1>1, <1>3 DEF Beast!Init, Beast!TypeOK
<1> QED
  BY <1>2, <1>4 DEF WebInv

\* What the proofs use of the types.
LEMMA WebTypes == ASSUME Beast!TypeOK
               PROVE  /\ ws_received \in Nat
                      /\ ws_queue \in Seq(Nat) /\ ws_wire \in Seq(Nat)
                      /\ Len(ws_queue) \in Nat /\ Len(ws_wire) \in Nat
                      /\ ws_queue = <<>> <=> Len(ws_queue) = 0
<1>1. ws_received \in Nat /\ 1..ws_received \subseteq Nat /\ 0..ws_received \subseteq Nat
  BY DEF Beast!TypeOK
<1>2. ws_queue \in Seq(Nat) /\ ws_wire \in Seq(Nat)
  BY <1>1, SeqMonotonic DEF Beast!TypeOK
<1> QED
  BY <1>1, <1>2

-----------------------------------------------------------------------------
(* A message is given to AsyncSend by the reader.                           *)

\* The types, one message later.
LEMMA WebGrowType ==
  ASSUME Beast!TypeOK, ws_received < MaxMsgs, ws_received' = ws_received + 1,
         ws_queue' = Append(ws_queue, ws_received + 1), ws_wire' = ws_wire,
         ws_outgoing' \in {ws_outgoing, ws_received + 1, Beast!Dead}
  PROVE  /\ ws_received' \in 0..MaxMsgs
         /\ ws_queue' \in Seq(1..ws_received') /\ ws_wire' \in Seq(0..ws_received')
         /\ ws_outgoing' \in 0..ws_received'
<1>1. ws_received \in Nat /\ ws_received' \in 0..MaxMsgs
  BY WebAssumption DEF Beast!TypeOK
<1>2. 1..ws_received \subseteq 1..ws_received' /\ 0..ws_received \subseteq 0..ws_received'
      /\ ws_received + 1 \in 1..ws_received'
  BY <1>1
<1>3. ws_queue \in Seq(1..ws_received') /\ ws_wire \in Seq(0..ws_received')
  BY <1>2, SeqMonotonic DEF Beast!TypeOK
<1>4. ws_queue' \in Seq(1..ws_received')
  BY <1>2, <1>3, AppendProperties
<1> QED
  BY <1>1, <1>2, <1>3, <1>4 DEF Beast!TypeOK, Beast!Dead

\* What an Append leaves, and adds.
LEMMA WebGrowQueue ==
  ASSUME NEW q \in Seq(Nat), NEW e \in Nat, ws_queue' = Append(q, e)
  PROVE  /\ Len(ws_queue') = Len(q) + 1 /\ ws_queue' # <<>>
         /\ \A i \in 1..Len(q) : ws_queue'[i] = q[i]
         /\ ws_queue'[Len(q) + 1] = e
BY AppendProperties

LEMMA AsyncSendWebInv ==
  ASSUME WebInv, ws_received < MaxMsgs, ws_received' = ws_received + 1,
         "read" \in ws_pending, NEW ops, ops \in {ws_pending, ws_pending \ {"read"}},
         Beast!AsyncSend(ws_received + 1, ws_queue, ops),
         ws_wire' = ws_wire, ws_inMap' = ws_inMap, ws_up' = ws_up,
         ws_threw' \in BOOLEAN, ws_threw => ws_threw'
  PROVE  WebInv'
<1>1. /\ ws_received \in Nat /\ ws_queue \in Seq(Nat) /\ Len(ws_queue) \in Nat
      /\ Len(ws_wire) \in Nat /\ ws_queue = <<>> <=> Len(ws_queue) = 0
  BY WebTypes DEF WebInv
<1>2. /\ Len(ws_queue') = Len(ws_queue) + 1 /\ ws_queue' # <<>>
      /\ \A i \in 1..Len(ws_queue) : ws_queue'[i] = ws_queue[i]
      /\ ws_queue'[Len(ws_queue) + 1] = ws_received + 1
  BY <1>1, WebGrowQueue DEF Beast!AsyncSend
<1>3. Beast!TypeOK'
  <2>1. /\ ws_queue' = Append(ws_queue, ws_received + 1)
        /\ ws_outgoing' \in {ws_outgoing, ws_received + 1, Beast!Dead}
        /\ ws_pending' \subseteq {"accept", "handshake", "read", "write"}
    BY DEF Beast!AsyncSend, WebInv, Beast!TypeOK
  <2>2. /\ ws_received' \in 0..MaxMsgs
        /\ ws_queue' \in Seq(1..ws_received') /\ ws_wire' \in Seq(0..ws_received')
        /\ ws_outgoing' \in 0..ws_received'
    BY <2>1, WebGrowType DEF WebInv
  <2> QED
    BY <2>1, <2>2 DEF WebInv, Beast!TypeOK
<1>4. Beast!EchoInOrder' /\ WebAlone'
  <2>1. Beast!EchoInOrder'
    BY <1>1 DEF WebInv, Beast!EchoInOrder
  <2>2. WebAlone'
    BY DEF WebInv, WebAlone, Beast!AsyncSend
  <2> QED
    BY <2>1, <2>2
<1>5. CASE WebIdle
  <2>1. "write" \in ws_pending' /\ ws_outgoing' \in {ws_received + 1, Beast!Dead}
    BY <1>5 DEF WebIdle, Beast!AsyncSend
  <2>2. WebWriting'
    BY <1>1, <1>2, <1>5, <2>1 DEF WebIdle, WebWriting
  <2> QED
    BY <1>3, <1>4, <2>2 DEF WebInv
<1>6. CASE WebWriting
  <2>1. "write" \in ws_pending' /\ ws_outgoing' = ws_outgoing
    BY <1>6 DEF WebWriting, Beast!AsyncSend
  <2>2. ASSUME NEW i \in 1..Len(ws_queue') PROVE ws_queue'[i] = Len(ws_wire') + i
    <3>1. CASE i \in 1..Len(ws_queue)
      BY <1>2, <1>6, <3>1 DEF WebWriting
    <3>2. CASE i = Len(ws_queue) + 1
      <4>1. ws_queue'[i] = ws_received + 1 /\ Len(ws_wire) + Len(ws_queue) = ws_received
        BY <1>2, <1>6, <3>2 DEF WebWriting
      <4> QED
        BY <1>1, <3>2, <4>1
    <3> QED
      BY <1>1, <1>2, <3>1, <3>2
  <2>3. WebWriting'
    <3>1. Len(ws_wire') + Len(ws_queue') = ws_received' /\ Len(ws_wire') = Len(ws_wire)
      <4>1. Len(ws_wire) + Len(ws_queue) = ws_received
        BY <1>6 DEF WebWriting
      <4>2. Len(ws_wire') = Len(ws_wire) /\ Len(ws_queue') = Len(ws_queue) + 1
            /\ ws_received' = ws_received + 1
        BY <1>2
      <4>3. Len(ws_wire) \in Nat /\ Len(ws_queue) \in Nat /\ ws_received \in Nat
        BY <1>1
      <4>4. Len(ws_wire) + (Len(ws_queue) + 1) = ws_received + 1
        BY <4>1, <4>3
      <4> QED
        BY <4>2, <4>4
    <3>2. ws_outgoing' \in {Len(ws_wire') + 1, Beast!Dead}
      BY <1>6, <2>1, <3>1 DEF WebWriting
    <3> QED
      BY <1>2, <2>1, <2>2, <3>1, <3>2 DEF WebWriting
  <2> QED
    BY <1>3, <1>4, <2>3 DEF WebInv
<1>7. CASE WebStuck
  <2>1. "write" \notin ws_pending'
    BY <1>7 DEF WebStuck, Beast!AsyncSend
  <2>2. WebDuplicate => WebDuplicate'
    <3> SUFFICES ASSUME WebDuplicate PROVE WebDuplicate'
      OBVIOUS
    <3>1. PICK i \in 2..Len(ws_queue) : ws_queue[i] = ws_queue[1]
      BY DEF WebDuplicate
    <3>2. i \in 2..Len(ws_queue') /\ ws_queue'[i] = ws_queue'[1]
      BY <1>1, <1>2, <3>1
    <3> QED
      BY <3>2 DEF WebDuplicate
  <2>3. WebStuck'
    BY <1>2, <1>7, <2>1, <2>2 DEF WebStuck
  <2> QED
    BY <1>3, <1>4, <2>3 DEF WebInv
<1> QED
  BY <1>5, <1>6, <1>7 DEF WebInv

LEMMA StartWebInv == ASSUME WebInv, Beast!Start PROVE WebInv'
<1>1. ws_threw \in BOOLEAN
  BY DEF WebInv, Beast!TypeOK
<1> QED
  BY <1>1, AsyncSendWebInv DEF Beast!Start

LEMMA StartThrowsWebInv == ASSUME WebInv, Beast!Start_throws PROVE WebInv'
<1>1. CASE ws_pending' = ws_pending \ {"read"} /\ UNCHANGED <<ws_queue, ws_outgoing, ws_received>>
  BY <1>1 DEF Beast!Start_throws, WebInv, Beast!TypeOK, WebAlone, Beast!EchoInOrder, WebIdle,
              WebWriting, WebStuck, WebDuplicate
<1>2. CASE /\ ws_pending' = ws_pending \ {"read"}
           /\ ws_queue' = Append(ws_queue, ws_received + 1)
           /\ ws_received' = ws_received + 1
           /\ UNCHANGED ws_outgoing
  <2>1. ws_queue # <<>> \/ "write" \notin ws_pending
    BY DEF WebInv, WebWriting, WebIdle, WebStuck
  <2>2. CASE ws_queue # <<>>
    <3>1. Beast!AsyncSend(ws_received + 1, ws_queue, ws_pending \ {"read"})
      BY <1>2, <2>2 DEF Beast!AsyncSend
    <3> QED
      BY <1>2, <3>1, AsyncSendWebInv DEF Beast!Start_throws
  <2>3. CASE ws_queue = <<>>
    <3>1. "write" \notin ws_pending
      BY <2>1, <2>3
    <3>2. /\ ws_received' \in 0..MaxMsgs
          /\ ws_queue' \in Seq(1..ws_received') /\ ws_wire' \in Seq(0..ws_received')
          /\ ws_outgoing' \in 0..ws_received'
      BY <1>2, WebGrowType DEF Beast!Start_throws, WebInv
    <3>3. Beast!TypeOK'
      BY <1>2, <3>2 DEF Beast!Start_throws, WebInv, Beast!TypeOK
    <3>4. Beast!EchoInOrder'
      BY <1>2, WebTypes DEF Beast!Start_throws, WebInv, Beast!EchoInOrder
    <3>5. ws_queue' # <<>>
      BY <1>2, WebTypes, WebGrowQueue DEF WebInv
    <3> QED
      BY <1>2, <3>1, <3>3, <3>4, <3>5 DEF Beast!Start_throws, WebInv, WebStuck, WebAlone
  <2> QED
    BY <2>2, <2>3
<1>3. CASE /\ Beast!AsyncSend(ws_received + 1, ws_queue, ws_pending \ {"read"})
           /\ ws_received' = ws_received + 1
  BY <1>3, AsyncSendWebInv DEF Beast!Start_throws
<1> QED
  BY <1>1, <1>2, <1>3 DEF Beast!Start_throws

-----------------------------------------------------------------------------
(* A write is over.                                                         *)

\* What was written is the message whose turn it was.
LEMMA WebWireGrows ==
  ASSUME WebInv, "write" \in ws_pending, ws_wire' = Append(ws_wire, ws_outgoing),
         ws_received' = ws_received
  PROVE  /\ ws_wire' \in Seq(0..ws_received') /\ Len(ws_wire') = Len(ws_wire) + 1
         /\ WebWriting /\ Beast!EchoInOrder'
<1>1. WebWriting
  BY DEF WebInv, WebIdle, WebStuck
<1>2. ws_wire \in Seq(0..ws_received) /\ ws_outgoing \in 0..ws_received /\ Len(ws_wire) \in Nat
      /\ Len(ws_queue) \in Nat \ {0} /\ ws_received \in Nat
  BY <1>1, WebTypes DEF WebInv, Beast!TypeOK, WebWriting
<1>3. /\ ws_wire' \in Seq(0..ws_received') /\ Len(ws_wire') = Len(ws_wire) + 1
      /\ \A i \in 1..Len(ws_wire) : ws_wire'[i] = ws_wire[i]
      /\ ws_wire'[Len(ws_wire) + 1] = ws_outgoing
  BY <1>2, AppendProperties
<1>4. Beast!EchoInOrder'
  BY <1>1, <1>2, <1>3 DEF WebInv, Beast!EchoInOrder, WebWriting
<1> QED
  BY <1>1, <1>3, <1>4

LEMMA WebHead == ASSUME NEW S, NEW s \in Seq(S), s # <<>>
                 PROVE  Head(s) \in S /\ Head(s) = s[1] /\ Len(s) \in Nat /\ Len(s) # 0
BY SMT

LEMMA WebRestType == ASSUME WebInv, ws_queue # <<>>
                  PROVE  /\ Tail(ws_queue) \in Seq(1..ws_received) /\ Tail(ws_queue) \in Seq(Nat)
                         /\ Len(Tail(ws_queue)) = Len(ws_queue) - 1
                         /\ Tail(ws_queue) # <<>> => Head(Tail(ws_queue)) \in 1..ws_received
                                                  /\ Head(Tail(ws_queue)) = Tail(ws_queue)[1]
<1>1. ws_queue \in Seq(1..ws_received)
  BY DEF WebInv, Beast!TypeOK
<1>2. ws_queue \in Seq(Nat)
  BY WebTypes DEF WebInv
<1>3. Tail(ws_queue) \in Seq(1..ws_received) /\ Tail(ws_queue) \in Seq(Nat)
      /\ Len(Tail(ws_queue)) = Len(ws_queue) - 1
  BY <1>1, <1>2, HeadTailProperties
<1>4. Tail(ws_queue) # <<>> => /\ Head(Tail(ws_queue)) \in 1..ws_received
                              /\ Head(Tail(ws_queue)) = Tail(ws_queue)[1]
  BY <1>3, WebHead
<1> QED
  BY <1>3, <1>4

LEMMA WrittenWebInv == ASSUME WebInv, Beast!Written PROVE WebInv'
<1>1. /\ ws_wire' \in Seq(0..ws_received') /\ Len(ws_wire') = Len(ws_wire) + 1
      /\ WebWriting /\ Beast!EchoInOrder'
  BY WebWireGrows DEF Beast!Written
<1>2. ws_queue # <<>> /\ ws_received \in Nat /\ Len(ws_wire) \in Nat /\ Len(ws_queue) \in Nat
  BY <1>1, WebTypes DEF WebWriting, WebInv
<1>3. /\ Tail(ws_queue) \in Seq(1..ws_received) /\ Tail(ws_queue) \in Seq(Nat)
      /\ Len(Tail(ws_queue)) = Len(ws_queue) - 1
      /\ Tail(ws_queue) # <<>> => Head(Tail(ws_queue)) \in 1..ws_received
                               /\ Head(Tail(ws_queue)) = Tail(ws_queue)[1]
  BY <1>2, WebRestType
<1>4. CASE Tail(ws_queue) = <<>>
  <2>1. ws_queue' = <<>> /\ ws_pending' = ws_pending \ {"write"} /\ ws_outgoing' = ws_outgoing
    BY <1>4 DEF Beast!Written
  <2>2. Len(Tail(ws_queue)) = 0
    BY <1>4, EmptySeq, Zenon
  <2>3. Len(ws_wire') = ws_received'
    <3>1. Len(ws_wire) + Len(ws_queue) = ws_received /\ ws_received' = ws_received
      BY <1>1 DEF WebWriting, Beast!Written
    <3>2. Len(ws_queue) - 1 = 0
      BY <1>3, <2>2
    <3>3. Len(ws_wire') = Len(ws_wire) + 1
      BY <1>1
    <3>4. ws_received \in Nat /\ Len(ws_wire) \in Nat /\ Len(ws_queue) \in Nat
      BY <1>2
    <3>5. Len(ws_queue) = 1
      BY <3>2, <3>4
    <3>6. Len(ws_wire) + 1 = ws_received
      BY <3>1, <3>5
    <3> QED
      BY <3>1, <3>3, <3>6
  <2>4. WebIdle'
    BY <2>1, <2>3 DEF WebIdle
  <2>5. Beast!TypeOK'
    BY <1>1, <1>3, <1>4, <2>1 DEF WebInv, Beast!TypeOK, Beast!Written
  <2> QED
    BY <1>1, <2>1, <2>4, <2>5 DEF WebInv, WebAlone
<1>5. CASE Tail(ws_queue) # <<>>
  <2>1. /\ ws_queue' = Append(Tail(ws_queue), Head(Tail(ws_queue)))
        /\ ws_pending' = ws_pending \ {"write"} /\ ws_outgoing' = ws_outgoing
    BY <1>5 DEF Beast!Written, Beast!AsyncSend
  <2>2. Head(Tail(ws_queue)) \in Nat /\ Len(Tail(ws_queue)) \in Nat \ {0}
    BY <1>3, <1>5, WebHead
  <2>3. /\ Len(ws_queue') = Len(Tail(ws_queue)) + 1 /\ ws_queue' # <<>>
        /\ \A i \in 1..Len(Tail(ws_queue)) : ws_queue'[i] = Tail(ws_queue)[i]
        /\ ws_queue'[Len(Tail(ws_queue)) + 1] = Head(Tail(ws_queue))
    BY <1>3, <2>1, <2>2, WebGrowQueue
  <2>4. WebDuplicate'
    <3>1. Len(ws_queue') \in 2..Len(ws_queue') /\ ws_queue'[Len(ws_queue')] = ws_queue'[1]
      BY <1>3, <1>5, <2>2, <2>3
    <3> QED
      BY <3>1 DEF WebDuplicate
  <2>5. Beast!TypeOK'
    <3>1. ws_queue' \in Seq(1..ws_received')
      BY <1>3, <1>5, <2>1, AppendProperties DEF Beast!Written
    <3> QED
      BY <1>1, <2>1, <3>1 DEF WebInv, Beast!TypeOK, Beast!Written
  <2> QED
    BY <1>1, <2>1, <2>3, <2>4, <2>5 DEF WebInv, WebStuck, WebAlone
<1> QED
  BY <1>4, <1>5

LEMMA WrittenThrowsWebInv == ASSUME WebInv, Beast!Written_throws \/ Test!Written_throws
                             PROVE  WebInv'
<1>1. /\ ws_wire' \in Seq(0..ws_received') /\ Len(ws_wire') = Len(ws_wire) + 1
      /\ WebWriting /\ Beast!EchoInOrder'
  BY WebWireGrows DEF Beast!Written_throws, Test!Written_throws
<1>2. Tail(ws_queue) \in Seq(1..ws_received)
  BY <1>1, WebRestType DEF WebWriting
<1>3. Beast!TypeOK'
  BY <1>1, <1>2 DEF WebInv, Beast!TypeOK, Beast!Written_throws, Test!Written_throws
<1>4. WebStuck'
  BY DEF WebStuck, Beast!Written_throws, Test!Written_throws
<1> QED
  BY <1>1, <1>3, <1>4 DEF WebInv, WebAlone, Beast!Written_throws, Test!Written_throws

-----------------------------------------------------------------------------
(* The other steps leave the queue and the wire alone.                      *)

LEMMA OtherWebInv ==
  ASSUME WebInv,
         \/ \E ok \in BOOLEAN : Beast!Start_Accept(ok)
         \/ Beast!Async_accept \/ Beast!Async_accept_error \/ Beast!Async_accept_throws
         \/ Beast!Start_error \/ Beast!Written_error \/ Beast!Lose \/ UNCHANGED web
  PROVE  WebInv'
<1> USE DEF WebInv, Beast!TypeOK, WebAlone, Beast!EchoInOrder, WebIdle,
              WebWriting, WebStuck, WebDuplicate
<1>1. CASE \E ok \in BOOLEAN : Beast!Start_Accept(ok)
  BY <1>1 DEF Beast!Start_Accept
<1>2. CASE Beast!Async_accept \/ Beast!Async_accept_error \/ Beast!Async_accept_throws
  <2>1. /\ "handshake" \in ws_pending /\ ws_pending' \in {{}, {"read"}}
        /\ ws_inMap' \in BOOLEAN /\ ws_threw' \in BOOLEAN /\ (ws_threw => ws_threw')
        /\ UNCHANGED <<ws_queue, ws_outgoing, ws_up, ws_received, ws_wire>>
    BY <1>2 DEF Beast!Async_accept, Beast!Async_accept_error, Beast!Async_accept_throws,
           Beast!AddConnection
  <2>2. "write" \notin ws_pending /\ "write" \notin ws_pending'
    BY <2>1
  <2> QED
    BY <2>1, <2>2
<1>3. CASE Beast!Start_error
  BY <1>3 DEF Beast!Start_error, Beast!RmConnection
<1>4. CASE Beast!Written_error
  BY <1>4 DEF Beast!Written_error, Beast!RmConnection
<1>5. CASE Beast!Lose \/ UNCHANGED web
  <2>1. /\ ws_up' \in BOOLEAN /\ (~ws_up => ~ws_up')
        /\ UNCHANGED <<ws_pending, ws_inMap, ws_queue, ws_outgoing, ws_threw, ws_received, ws_wire>>
    <3>1. CASE Beast!Lose
      BY <3>1 DEF Beast!Lose
    <3>2. CASE UNCHANGED web
      BY <3>2 DEF web
    <3> QED
      BY <1>5, <3>1, <3>2
  <2> QED
    BY <2>1
<1> QED
  BY <1>1, <1>2, <1>3, <1>4, <1>5

-----------------------------------------------------------------------------
LEMMA BeastWebInv == ASSUME WebInv, Beast!Next \/ UNCHANGED web PROVE WebInv'
<1>1. \/ \/ \E ok \in BOOLEAN : Beast!Start_Accept(ok)
         \/ Beast!Async_accept \/ Beast!Async_accept_error \/ Beast!Async_accept_throws
         \/ Beast!Start_error \/ Beast!Written_error \/ Beast!Lose \/ UNCHANGED web
      \/ Beast!Start \/ Beast!Start_throws \/ Beast!Written \/ Beast!Written_throws
  BY Zenon DEF Beast!Next
<1>2. CASE Beast!Start
  BY <1>2, StartWebInv
<1>3. CASE Beast!Start_throws
  BY <1>3, StartThrowsWebInv
<1>4. CASE Beast!Written
  BY <1>4, WrittenWebInv
<1>5. CASE Beast!Written_throws
  BY <1>5, WrittenThrowsWebInv
<1> QED
  BY <1>1, <1>2, <1>3, <1>4, <1>5, OtherWebInv

-----------------------------------------------------------------------------
\* The message being written is the front.
LEMMA FrontWritten == ASSUME WebInv PROVE Beast!FrontIsWritten
<1> SUFFICES ASSUME "write" \in ws_pending
             PROVE  ws_queue # <<>> /\ ws_outgoing \in {Head(ws_queue), Beast!Dead}
  BY DEF Beast!FrontIsWritten
<1>1. WebWriting
  BY DEF WebInv, WebIdle, WebStuck
<1>2. Len(ws_queue) \in Nat \ {0} /\ Head(ws_queue) = ws_queue[1]
  BY <1>1, WebTypes DEF WebInv, WebWriting
<1> QED
  BY <1>1, <1>2 DEF WebWriting

LEMMA StallDuplicate == ASSUME WebInv PROVE Beast!StallHasDuplicate
<1> SUFFICES ASSUME Beast!Stalled, ws_up, ~ws_threw
             PROVE  \E i \in 2..Len(ws_queue) : ws_queue[i] = Head(ws_queue)
  BY DEF Beast!StallHasDuplicate
<1>1. WebDuplicate /\ ws_queue # <<>>
  BY DEF WebInv, WebIdle, WebWriting, WebStuck, Beast!Stalled
<1>2. Head(ws_queue) = ws_queue[1]
  BY <1>1, WebTypes DEF WebInv
<1> QED
  BY <1>1, <1>2 DEF WebDuplicate

\* The steps of websocket_test.
LEMMA TestSteps == Test!Next => Beast!Next \/ Test!Written_throws
<1>1. \A ok \in BOOLEAN : Test!Start_Accept(ok) => Beast!Start_Accept(ok)
  BY DEF Test!Start_Accept, Beast!Start_Accept
<1>2. /\ Test!Async_accept => Beast!Async_accept
      /\ Test!Async_accept_error => Beast!Async_accept_error
      /\ Test!Async_accept_throws => Beast!Async_accept_throws
      /\ Test!Start_error => Beast!Start_error
      /\ Test!Written_error => Beast!Written_error
      /\ Test!Lose => Beast!Lose
  BY DEF Test!Async_accept, Beast!Async_accept, Test!AddConnection,
         Beast!AddConnection, Test!Async_accept_error, Beast!Async_accept_error,
         Test!Async_accept_throws, Beast!Async_accept_throws,
         Test!Start_error, Beast!Start_error, Test!RmConnection,
         Beast!RmConnection, Test!Written_error, Beast!Written_error, Test!Lose, Beast!Lose
<1>3. \A m, q, ops : Test!AsyncSend(m, q, ops) => Beast!AsyncSend(m, q, ops)
  BY DEF Test!AsyncSend, Beast!AsyncSend, Test!Dead, Beast!Dead
<1>4. /\ Test!Start => Beast!Start
      /\ Test!Start_throws => Beast!Start_throws
      /\ Test!Written => Beast!Written
  BY <1>3 DEF Test!Start, Beast!Start, Test!Start_throws, Beast!Start_throws,
              Test!Written, Beast!Written
<1> QED
  BY <1>1, <1>2, <1>4 DEF Test!Next, Beast!Next

LEMMA NextWebInv == ASSUME WebInv, Beast!Next \/ Test!Next \/ UNCHANGED web
                    PROVE  WebInv'
<1>1. CASE Test!Next
  BY <1>1, TestSteps, BeastWebInv, WrittenThrowsWebInv
<1> QED
  BY <1>1, BeastWebInv

\* What the invariant says of the wire and the queue.
LEMMA SafeWeb == WebInv => /\ Beast!EchoInOrder /\ Beast!FrontIsWritten
                           /\ Beast!StallHasDuplicate
BY FrontWritten, StallDuplicate DEF WebInv

-----------------------------------------------------------------------------
(* The message classes: CodecProofs, whose operators are Codes's.           *)

LEMMA SameAssumption == CodecProofs!CodecAssumption
<1>1. Codes!int32 = CodecProofs!int32
  BY SMT DEF Codes!int32, CodecProofs!int32
<1>2. Codes!string = CodecProofs!string
  BY SMT DEF Codes!string, CodecProofs!string, Codes!Byte, CodecProofs!Byte
<1>3. Codes!float = CodecProofs!float
  BY SMT DEF Codes!float, CodecProofs!float, Codes!Byte, CodecProofs!Byte
<1>4. Codes!Classes = CodecProofs!Classes
  BY Zenon DEF Codes!Classes, CodecProofs!Classes
<1> QED
  BY <1>1, <1>2, <1>3, <1>4, CodesAssumption, SMT
  DEF Codes!CodecAssumption, CodecProofs!CodecAssumption

LEMMA SamePair == Codes!W = CodecProofs!W /\ Codes!R = CodecProofs!R
BY Zenon DEF Codes!W, CodecProofs!W, Codes!R, CodecProofs!R

\* The calls are the same functions of the class, the messages and the bytes.
LEMMA SameNew == \A c : Codes!New(c) = CodecProofs!New(c)
BY Zenon DEF Codes!NoFloat, CodecProofs!NoFloat, Codes!MsgData_SharedCtor,
             CodecProofs!MsgData_SharedCtor, Codes!Client_SharedCtor, CodecProofs!Client_SharedCtor,
             Codes!Book_SharedCtor, CodecProofs!Book_SharedCtor, Codes!Request_SharedCtor,
             CodecProofs!Request_SharedCtor, Codes!Reply_SharedCtor, CodecProofs!Reply_SharedCtor,
             Codes!New, CodecProofs!New

LEMMA SameAssigned == \A c, m : Codes!Assigned(c, m) = CodecProofs!Assigned(c, m)
BY Zenon DEF Codes!MsgData_set_id, CodecProofs!MsgData_set_id, Codes!MsgData_set_data,
             CodecProofs!MsgData_set_data, Codes!Client_set_id, CodecProofs!Client_set_id,
             Codes!Client_set_dara, CodecProofs!Client_set_dara, Codes!Book_set_name,
             CodecProofs!Book_set_name, Codes!Book_set_pages, CodecProofs!Book_set_pages,
             Codes!Book_set_price, CodecProofs!Book_set_price, Codes!Request_set_message,
             CodecProofs!Request_set_message, Codes!Reply_set_message,
             CodecProofs!Reply_set_message, Codes!Assigned, CodecProofs!Assigned

LEMMA SameMessages == \A c : Codes!Messages(c) = CodecProofs!Messages(c)
BY Zenon DEF Codes!Messages, CodecProofs!Messages

LEMMA SameFields ==
  /\ \A T, v : Codes!Int32Field(T, v) = CodecProofs!Int32Field(T, v)
  /\ \A T, s : Codes!StringField(T, s) = CodecProofs!StringField(T, s)
  /\ \A T, f : Codes!FloatField(T, f) = CodecProofs!FloatField(T, f)
BY Zenon DEF Codes!Groups, CodecProofs!Groups, Codes!Varint, CodecProofs!Varint, Codes!NoFloat,
             CodecProofs!NoFloat, Codes!Int32Field, CodecProofs!Int32Field, Codes!StringField,
             CodecProofs!StringField, Codes!FloatField, CodecProofs!FloatField

LEMMA SameSerialize == \A c, m : Codes!Serialize(c, m) = CodecProofs!Serialize(c, m)
<1> DEFINE of(k, md, cl, bo, rq, rp) ==
             CASE k = "MsgData" -> md [] k = "Client"  -> cl
               [] k = "Book"    -> bo [] k = "Request" -> rq
               [] k = "Reply"   -> rp
<1>1. \A m : Codes!MsgData_InternalSerialize(m) = CodecProofs!MsgData_InternalSerialize(m)
  BY Zenon DEF Codes!Groups, CodecProofs!Groups, Codes!Varint, CodecProofs!Varint, Codes!Int32Field,
               CodecProofs!Int32Field, Codes!StringField, CodecProofs!StringField,
               Codes!MsgData_InternalSerialize, CodecProofs!MsgData_InternalSerialize
<1>2. \A m : Codes!Client_InternalSerialize(m) = CodecProofs!Client_InternalSerialize(m)
  BY Zenon DEF Codes!Groups, CodecProofs!Groups, Codes!Varint, CodecProofs!Varint, Codes!Int32Field,
               CodecProofs!Int32Field, Codes!StringField, CodecProofs!StringField,
               Codes!Client_InternalSerialize, CodecProofs!Client_InternalSerialize
<1>3. \A m : Codes!Book_InternalSerialize(m) = CodecProofs!Book_InternalSerialize(m)
  BY Zenon DEF Codes!Groups, CodecProofs!Groups, Codes!Varint, CodecProofs!Varint, Codes!NoFloat,
               CodecProofs!NoFloat, Codes!Int32Field, CodecProofs!Int32Field, Codes!StringField,
               CodecProofs!StringField, Codes!FloatField, CodecProofs!FloatField,
               Codes!Book_InternalSerialize, CodecProofs!Book_InternalSerialize
<1>4. \A m : Codes!Request_InternalSerialize(m) = CodecProofs!Request_InternalSerialize(m)
  BY Zenon DEF Codes!Groups, CodecProofs!Groups, Codes!Varint, CodecProofs!Varint,
               Codes!StringField, CodecProofs!StringField, Codes!Request_InternalSerialize,
               CodecProofs!Request_InternalSerialize
<1>5. \A m : Codes!Reply_InternalSerialize(m) = CodecProofs!Reply_InternalSerialize(m)
  BY Zenon DEF Codes!Groups, CodecProofs!Groups, Codes!Varint, CodecProofs!Varint,
               Codes!StringField, CodecProofs!StringField, Codes!Reply_InternalSerialize,
               CodecProofs!Reply_InternalSerialize
<1>6. \A c, m : Codes!Serialize(c, m) = of(c,
         Codes!MsgData_InternalSerialize(m), Codes!Client_InternalSerialize(m),
         Codes!Book_InternalSerialize(m), Codes!Request_InternalSerialize(m),
         Codes!Reply_InternalSerialize(m))
  BY Zenon DEF Codes!Serialize
<1>7. \A c, m : CodecProofs!Serialize(c, m) = of(c,
         CodecProofs!MsgData_InternalSerialize(m), CodecProofs!Client_InternalSerialize(m),
         CodecProofs!Book_InternalSerialize(m), CodecProofs!Request_InternalSerialize(m),
         CodecProofs!Reply_InternalSerialize(m))
  BY Zenon DEF CodecProofs!Serialize
<1> HIDE DEF of
<1> QED
  BY <1>1, <1>2, <1>3, <1>4, <1>5, <1>6, <1>7, SMT

LEMMA SameSize == \A c, m : Codes!ByteSizeLong(c, m) = CodecProofs!ByteSizeLong(c, m)
BY ZenonT(60) DEF Codes!Log2, CodecProofs!Log2, Codes!VarintSize, CodecProofs!VarintSize,
             Codes!StringSize, CodecProofs!StringSize, Codes!NoFloat, CodecProofs!NoFloat,
             Codes!Int32FieldSize, CodecProofs!Int32FieldSize, Codes!StringFieldSize,
             CodecProofs!StringFieldSize, Codes!FloatFieldSize, CodecProofs!FloatFieldSize,
             Codes!MsgData_ByteSizeLong, CodecProofs!MsgData_ByteSizeLong,
             Codes!Client_ByteSizeLong, CodecProofs!Client_ByteSizeLong, Codes!Book_ByteSizeLong,
             CodecProofs!Book_ByteSizeLong, Codes!Request_ByteSizeLong,
             CodecProofs!Request_ByteSizeLong, Codes!Reply_ByteSizeLong,
             CodecProofs!Reply_ByteSizeLong, Codes!ByteSizeLong, CodecProofs!ByteSizeLong

LEMMA SameMerge == \A c, m, from : Codes!MergeFrom(c, m, from) = CodecProofs!MergeFrom(c, m, from)
BY ZenonT(60) DEF Codes!NoFloat, CodecProofs!NoFloat, Codes!Or, CodecProofs!Or, Codes!MsgData_MergeImpl,
             CodecProofs!MsgData_MergeImpl, Codes!Client_MergeImpl, CodecProofs!Client_MergeImpl,
             Codes!Book_MergeImpl, CodecProofs!Book_MergeImpl, Codes!Request_MergeFrom,
             CodecProofs!Request_MergeFrom, Codes!Reply_MergeFrom, CodecProofs!Reply_MergeFrom,
             Codes!MergeFrom, CodecProofs!MergeFrom

LEMMA SameCopy == \A c, m, from : Codes!CopyFrom(c, m, from) = CodecProofs!CopyFrom(c, m, from)
BY Zenon DEF Codes!NoFloat, CodecProofs!NoFloat, Codes!Or, CodecProofs!Or, Codes!MsgData_SharedCtor,
             CodecProofs!MsgData_SharedCtor, Codes!MsgData_Clear, CodecProofs!MsgData_Clear,
             Codes!MsgData_MergeImpl, CodecProofs!MsgData_MergeImpl, Codes!MsgData_CopyFrom,
             CodecProofs!MsgData_CopyFrom, Codes!Client_SharedCtor, CodecProofs!Client_SharedCtor,
             Codes!Client_Clear, CodecProofs!Client_Clear, Codes!Client_MergeImpl,
             CodecProofs!Client_MergeImpl, Codes!Client_CopyFrom, CodecProofs!Client_CopyFrom,
             Codes!Book_SharedCtor, CodecProofs!Book_SharedCtor, Codes!Book_Clear,
             CodecProofs!Book_Clear, Codes!Book_MergeImpl, CodecProofs!Book_MergeImpl,
             Codes!Book_CopyFrom, CodecProofs!Book_CopyFrom, Codes!Request_SharedCtor,
             CodecProofs!Request_SharedCtor, Codes!Request_Clear, CodecProofs!Request_Clear,
             Codes!Request_MergeFrom, CodecProofs!Request_MergeFrom, Codes!Request_CopyFrom,
             CodecProofs!Request_CopyFrom, Codes!Reply_SharedCtor, CodecProofs!Reply_SharedCtor,
             Codes!Reply_Clear, CodecProofs!Reply_Clear, Codes!Reply_MergeFrom,
             CodecProofs!Reply_MergeFrom, Codes!Reply_CopyFrom, CodecProofs!Reply_CopyFrom,
             Codes!CopyFrom, CodecProofs!CopyFrom

LEMMA SameKinds ==
  /\ \A m, t : Codes!Unknown(m, t) = CodecProofs!Unknown(m, t)
  /\ \A m : Codes!Known(m) = CodecProofs!Known(m)
  /\ \A m, s : Codes!KnownString(m, s) = CodecProofs!KnownString(m, s)
BY Zenon DEF Codes!EndsMessage, CodecProofs!EndsMessage, Codes!Valid, CodecProofs!Valid,
             Codes!Unknown, CodecProofs!Unknown, Codes!Known,
             CodecProofs!Known, Codes!KnownString, CodecProofs!KnownString

LEMMA SameTurn == \A c, m, t : Codes!Turn(c, m, t) = CodecProofs!Turn(c, m, t)
<1> DEFINE of(k, md, cl, bo, rq, rp) ==
             CASE k = "MsgData" -> md [] k = "Client"  -> cl
               [] k = "Book"    -> bo [] k = "Request" -> rq
               [] k = "Reply"   -> rp
<1>1. \A m, t : Codes!MsgData_InternalParse(m, t) = CodecProofs!MsgData_InternalParse(m, t)
  BY SameKinds, SMT DEF Codes!MsgData_InternalParse, CodecProofs!MsgData_InternalParse
<1>2. \A m, t : Codes!Client_InternalParse(m, t) = CodecProofs!Client_InternalParse(m, t)
  BY SameKinds, SMT DEF Codes!Client_InternalParse, CodecProofs!Client_InternalParse
<1>3. \A m, t : Codes!Book_InternalParse(m, t) = CodecProofs!Book_InternalParse(m, t)
  BY SameKinds, SMT DEF Codes!Book_InternalParse, CodecProofs!Book_InternalParse
<1>4. \A m, t : Codes!Request_InternalParse(m, t) = CodecProofs!Request_InternalParse(m, t)
  BY SameKinds, SMT DEF Codes!Request_InternalParse, CodecProofs!Request_InternalParse
<1>5. \A m, t : Codes!Reply_InternalParse(m, t) = CodecProofs!Reply_InternalParse(m, t)
  BY SameKinds, SMT DEF Codes!Reply_InternalParse, CodecProofs!Reply_InternalParse
<1>6. \A c, m, t : Codes!Turn(c, m, t) = of(c,
         Codes!MsgData_InternalParse(m, t), Codes!Client_InternalParse(m, t),
         Codes!Book_InternalParse(m, t), Codes!Request_InternalParse(m, t),
         Codes!Reply_InternalParse(m, t))
  BY Zenon DEF Codes!Turn
<1>7. \A c, m, t : CodecProofs!Turn(c, m, t) = of(c,
         CodecProofs!MsgData_InternalParse(m, t), CodecProofs!Client_InternalParse(m, t),
         CodecProofs!Book_InternalParse(m, t), CodecProofs!Request_InternalParse(m, t),
         CodecProofs!Reply_InternalParse(m, t))
  BY Zenon DEF CodecProofs!Turn
<1> HIDE DEF of
<1> QED
  BY <1>1, <1>2, <1>3, <1>4, <1>5, <1>6, <1>7, SMT

LEMMA SameField == \A b, p : Codes!Field(b, p) = CodecProofs!Field(b, p)
<1>1. \A b, p : Codes!VarintEnd(b, p) = CodecProofs!VarintEnd(b, p)
  BY Zenon DEF Codes!VarintEnd, CodecProofs!VarintEnd
<1>2. \A b, p : Codes!ReadVarint32(b, p) = CodecProofs!ReadVarint32(b, p)
  <2> TAKE b, p
  <2> DEFINE of(e) == LET g(i) == IF p + i <= e THEN b[p + i] % 128 ELSE 0
                          high == g(4) % 16
                      IN  g(0) + 2^7 * g(1) + 2^14 * g(2) + 2^21 * g(3)
                            + 2^28 * (IF high < 8 THEN high ELSE high - 16)
  <2>1. Codes!ReadVarint32(b, p) = of(Codes!VarintEnd(b, p))
    BY Zenon DEF Codes!ReadVarint32
  <2>2. CodecProofs!ReadVarint32(b, p) = of(CodecProofs!VarintEnd(b, p))
    BY Zenon DEF CodecProofs!ReadVarint32
  <2> HIDE DEF of
  <2> QED
    BY <1>1, <2>1, <2>2, SMT
<1>3. \A b, p : Codes!FieldEnd(b, p) = CodecProofs!FieldEnd(b, p)
  BY <1>1, <1>2, SMT DEF Codes!FieldEnd, CodecProofs!FieldEnd
<1>4. \A b, p, last : Codes!FieldValue(b, p, last) = CodecProofs!FieldValue(b, p, last)
  <2> TAKE b, p, last
  <2> DEFINE of(v, e) == CASE b[p] % 8 = 0 -> v
                           [] b[p] % 8 = 2 -> SubSeq(b, e + 1, last)
                           [] b[p] % 8 = 5 -> SubSeq(b, p + 1, last)
  <2>1. Codes!FieldValue(b, p, last) = of(Codes!ReadVarint32(b, p + 1), Codes!VarintEnd(b, p + 1))
    BY Zenon DEF Codes!FieldValue
  <2>2. CodecProofs!FieldValue(b, p, last)
          = of(CodecProofs!ReadVarint32(b, p + 1), CodecProofs!VarintEnd(b, p + 1))
    BY Zenon DEF CodecProofs!FieldValue
  <2> HIDE DEF of
  <2> QED
    BY <1>1, <1>2, <2>1, <2>2, SMT
<1> TAKE b, p
<1> DEFINE of(last, v) == IF last = 0 \/ last > Len(b) THEN [tag |-> b[p], next |-> 0]
                          ELSE [tag |-> b[p], next |-> last + 1, raw |-> SubSeq(b, p, last),
                                value |-> v]
<1>5. Codes!Field(b, p) = of(Codes!FieldEnd(b, p), Codes!FieldValue(b, p, Codes!FieldEnd(b, p)))
  BY Zenon DEF Codes!Field
<1>6. CodecProofs!Field(b, p)
        = of(CodecProofs!FieldEnd(b, p), CodecProofs!FieldValue(b, p, CodecProofs!FieldEnd(b, p)))
  BY Zenon DEF CodecProofs!Field
<1> HIDE DEF of
<1> QED
  BY <1>3, <1>4, <1>5, <1>6, SMT

LEMMA SameParse == \A c, b : Codes!Parse(c, b) = CodecProofs!Parse(c, b)
<1> TAKE c, b
<1> DEFINE turn(new, s, t, r, k) ==
             IF k = 0 THEN [at |-> 1, ok |-> TRUE, msg |-> new]
             ELSE IF ~s.ok \/ s.at > Len(b) THEN s
             ELSE IF t.next = 0 THEN [s EXCEPT !.ok = FALSE]
             ELSE [at |-> t.next, ok |-> r.ok, msg |-> r.msg]
           f(run, k) == turn(Codes!New(c), run[k-1], Codes!Field(b, run[k-1].at),
                             Codes!Turn(c, run[k-1].msg, Codes!Field(b, run[k-1].at)), k)
           g(run, k) == turn(CodecProofs!New(c), run[k-1], CodecProofs!Field(b, run[k-1].at),
                             CodecProofs!Turn(c, run[k-1].msg, CodecProofs!Field(b, run[k-1].at)), k)
           n == 3 * MaxWritten
<1>1. Codes!Parse(c, b) = (CHOOSE run : run = [k \in 0..n |-> f(run, k)])[n]
  BY Zenon DEF Codes!Parse, Codes!Fields
<1>2. CodecProofs!Parse(c, b) = (CHOOSE run : run = [k \in 0..n |-> g(run, k)])[n]
  BY Zenon DEF CodecProofs!Parse, CodecProofs!Fields
<1> HIDE DEF turn, n
<1>3. \A run, k : f(run, k) = g(run, k)
  BY SameNew, SameField, SameTurn, SMT
<1> HIDE DEF f, g
<1>4. \A run : [k \in 0..n |-> f(run, k)] = [k \in 0..n |-> g(run, k)]
  BY <1>3, Zenon
<1>5. (CHOOSE run : run = [k \in 0..n |-> f(run, k)])
        = (CHOOSE run : run = [k \in 0..n |-> g(run, k)])
  BY <1>4, Zenon
<1> QED
  BY <1>1, <1>2, <1>5, Zenon

LEMMA SameMerged == Codes!Merged = CodecProofs!Merged
BY Zenon DEF Codes!NoFloat, CodecProofs!NoFloat, Codes!Or, CodecProofs!Or, Codes!MsgData_SharedCtor,
             CodecProofs!MsgData_SharedCtor, Codes!MsgData_MergeImpl, CodecProofs!MsgData_MergeImpl,
             Codes!Client_SharedCtor, CodecProofs!Client_SharedCtor, Codes!Client_MergeImpl,
             CodecProofs!Client_MergeImpl, Codes!Book_SharedCtor, CodecProofs!Book_SharedCtor,
             Codes!Book_MergeImpl, CodecProofs!Book_MergeImpl, Codes!Request_SharedCtor,
             CodecProofs!Request_SharedCtor, Codes!Request_MergeFrom, CodecProofs!Request_MergeFrom,
             Codes!Reply_SharedCtor, CodecProofs!Reply_SharedCtor, Codes!Reply_MergeFrom,
             CodecProofs!Reply_MergeFrom, Codes!W, CodecProofs!W, Codes!New, CodecProofs!New,
             Codes!MergeFrom, CodecProofs!MergeFrom, Codes!Merged, CodecProofs!Merged

LEMMA SameNames == \A m : Codes!FieldsOf(m) = CodecProofs!FieldsOf(m)
BY Zenon DEF Codes!FieldsOf, CodecProofs!FieldsOf

LEMMA SameValid == Codes!AllValid <=> CodecProofs!AllValid
BY Zenon DEF Codes!Valid, CodecProofs!Valid, Codes!FieldsOf, CodecProofs!FieldsOf, Codes!AllValid,
             CodecProofs!AllValid

\* So the steps are those CodecProofs is about.
LEMMA InitCodec == Codes!Init => CodecProofs!Sound
<1>1. Codes!Init => CodecProofs!Init
  BY SamePair, SameNew, SMT DEF Codes!Init, CodecProofs!Init
<1> QED
  BY <1>1, SameAssumption, CodecProofs!SoundInit

LEMMA CodecSteps == Codes!Next => CodecProofs!Next
<1>1. Codes!Set => CodecProofs!Set
  BY SamePair, SameAssigned, SMT DEF Codes!Set, CodecProofs!Set
<1>2. \A m : Codes!Take(m) => CodecProofs!Take(m)
  BY SamePair, SameMerge, SameCopy, SMT DEF Codes!Take, CodecProofs!Take
<1>3. Codes!Write => CodecProofs!Write
  <2>1. Codes!Serialize(Codes!W, cd_x) = CodecProofs!Serialize(CodecProofs!W, cd_x)
    BY SamePair, SameSerialize, SMT
  <2> QED
    BY <2>1, Zenon DEF Codes!Write, CodecProofs!Write
<1>4. \A n : Codes!Read(n) => CodecProofs!Read(n)
  BY SamePair, SameNew, SameParse, SMT DEF Codes!Read, CodecProofs!Read
<1>5. Codes!Messages(Codes!W) = CodecProofs!Messages(CodecProofs!W)
  BY SamePair, SameMessages, SMT
<1> QED
  BY <1>1, <1>2, <1>3, <1>4, <1>5, Zenon DEF Codes!Next, CodecProofs!Next

LEMMA NextCodec == ASSUME CodecProofs!Sound, Codes!Next \/ UNCHANGED codec PROVE CodecProofs!Sound'
<1>1. CodecProofs!Next \/ UNCHANGED CodecProofs!vars
  BY CodecSteps, Zenon DEF codec, CodecProofs!vars
<1> QED
  BY <1>1, SameAssumption, CodecProofs!SoundNext, Zenon

\* What the invariant says of sizes, and of what a reader gets.
LEMMA SafeCodec == CodecProofs!Sound => /\ Codes!SizeIsExact
                                        /\ Codes!WholeIsRestored /\ Codes!CutIsNeverWrong
<1> SUFFICES ASSUME CodecProofs!Sound
             PROVE  Codes!SizeIsExact /\ Codes!WholeIsRestored /\ Codes!CutIsNeverWrong
  OBVIOUS
<1>1. CodecProofs!SizeIsExact /\ CodecProofs!WholeIsRestored /\ CodecProofs!CutIsNeverWrong
  BY SameAssumption, CodecProofs!SizeIsExactThen, CodecProofs!WholeIsRestoredThen,
     CodecProofs!CutIsNeverWrongThen
<1>2. Codes!SizeIsExact
  BY <1>1, SamePair, SameSize, SameSerialize, SMT DEF Codes!SizeIsExact, CodecProofs!SizeIsExact
<1>3. Codes!WholeIsRestored
  BY <1>1, SamePair, SameParse, SameSerialize, SameMerged, SameValid, SMT
     DEF Codes!WholeIsRestored, CodecProofs!WholeIsRestored
<1>4. Codes!CutIsNeverWrong
  BY <1>1, SamePair, SameNew, SameNames, SMT DEF Codes!CutIsNeverWrong, CodecProofs!CutIsNeverWrong
<1> QED
  BY <1>2, <1>3, <1>4

-----------------------------------------------------------------------------
(* All programs.                                                            *)

IInv == /\ ProtoInv
        /\ WebInv
        /\ HttpInv
        /\ In("writeErr") => FirstInv
        /\ In("write") => AloneInv
        /\ In("overlap") => BacklogInv
        /\ ReadInv
        /\ CodecProofs!Sound

LEMMA InitIInv == StreamsInit => IInv
<1> SUFFICES ASSUME StreamsInit PROVE IInv
  OBVIOUS
<1>1. Proto!Init /\ Beast!Init /\ Http!Init /\ Writing!Init /\ ReadSome!Init
      /\ Codes!Init
  BY DEF StreamsInit
<1>2. WriteErr!Init /\ Overlapping!Init
  BY <1>1 DEF Writing!Init, WriteErr!Init, Overlapping!Init, Writing!Msgs, WriteErr!Msgs,
              Overlapping!Msgs
<1> QED
  BY <1>1, <1>2, InitProtoInv, InitWebInv, InitHttpInv, InitFirstOK, InitAloneOK,
     InitBacklogInv, InitReadInv, InitCodec DEF IInv, FirstInv, AloneInv, FirstOK, AloneOK

\* What a step changes: one program's variables.
LEMMA OneProgram ==
  ASSUME [StreamsNext]_<<program, vars, server, proto, web, http, asycWrite, asycRead, codec>>
  PROVE  /\ program' = program
         /\ Proto!Next \/ UNCHANGED proto
         /\ Beast!Next \/ Test!Next \/ UNCHANGED web
         /\ Http!Next \/ UNCHANGED http
         /\ \/ In("writeErr") /\ WriteErr!Next
            \/ In("write") /\ Writing!Next
            \/ In("overlap") /\ Overlapping!Next
            \/ UNCHANGED asycWrite
         /\ Reads \/ UNCHANGED asycRead
         /\ Codes!Next \/ UNCHANGED codec
<1>1. CASE Reading
  BY <1>1 DEF Reading
<1>2. CASE Replying
  BY <1>2 DEF Replying
<1>3. CASE Echoing
  BY <1>3 DEF Echoing
<1>4. CASE Answering
  BY <1>4 DEF Answering
<1>5. CASE AsycWriting
  BY <1>5 DEF AsycWriting
<1>6. CASE AsycReading
  BY <1>6 DEF AsycReading, Reads, In
<1>7. CASE Coding
  BY <1>7 DEF Coding
<1>8. CASE Serving
  BY <1>8 DEF Serving
<1> QED
  BY <1>1, <1>2, <1>3, <1>4, <1>5, <1>6, <1>7, <1>8 DEF StreamsNext

LEMMA NextIInv ==
  ASSUME IInv, [StreamsNext]_<<program, vars, server, proto, web, http, asycWrite, asycRead, codec>>
  PROVE  IInv'
<1>1. program' = program /\ \A p : In(p)' <=> In(p)
  BY OneProgram DEF In
<1>2. ProtoInv' /\ HttpInv' /\ ReadInv'
  BY OneProgram, NextProtoInv, NextHttpInv, NextReadInv DEF IInv
<1>3. WebInv'
  BY OneProgram, NextWebInv DEF IInv
<1>4. In("writeErr") => FirstInv'
  BY OneProgram, NextFirstInv DEF IInv, In
<1>5. In("write") => AloneInv'
  BY OneProgram, NextAloneInv DEF IInv, In
<1>6. In("overlap") => BacklogInv'
  BY OneProgram, NextBacklogInv, AsycAssumption DEF IInv, In
<1>7. CodecProofs!Sound'
  BY OneProgram, NextCodec DEF IInv
<1> QED
  BY <1>1, <1>2, <1>3, <1>4, <1>5, <1>6, <1>7 DEF IInv

\* Each program keeps its invariant.
THEOREM Invariance == StreamsSpec => []IInv
<1>1. StreamsInit => IInv
  BY InitIInv
<1>2. IInv /\ [StreamsNext]_<<program, vars, server, proto, web, http, asycWrite, asycRead, codec>> => IInv'
  BY NextIInv
<1> QED
  BY <1>1, <1>2, PTL DEF StreamsSpec

-----------------------------------------------------------------------------
\* AsyncServer_useProtobuf: however a peer's bytes are cut into reads, the replies of a
\* session keep the order of its requests (Session.cpp:92-165).
THEOREM RepliesKeepOrder == StreamsSpec => []ProtoRepliesInOrder
<1>1. IInv => ProtoRepliesInOrder
  BY SafeReplies DEF IInv, ProtoRepliesInOrder
<1> QED
  BY <1>1, Invariance, PTL

\* However a peer's bytes are cut, and whatever lengths they hold, a session in the map has
\* its next read started or its handler running: no way out of handle_read forgets it
\* (Session.cpp:92-165).
THEOREM ReadsOnAlways == StreamsSpec => []ProtoAlwaysReading
<1>1. IInv => ProtoAlwaysReading
  BY SafeReplies DEF IInv, ProtoAlwaysReading
<1> QED
  BY <1>1, Invariance, PTL

\* The websocket servers echo in the order of the messages, and what their write handler
\* pops is what was written (beast_websocket/connection.cpp:77-104).
THEOREM EchoesInOrder == StreamsSpec => []EchoInOrder
<1>1. IInv => EchoInOrder
  BY SafeWeb DEF IInv, EchoInOrder
<1> QED
  BY <1>1, Invariance, PTL

\* They leave messages unwritten only behind one that was queued twice.
THEOREM StallsBehindDuplicate == StreamsSpec => []StallHasDuplicate
<1>1. IInv => StallHasDuplicate
  BY SafeWeb DEF IInv, StallHasDuplicate
<1> QED
  BY <1>1, Invariance, PTL

\* beast_http_server: a response that is not written whole met its deadline or lost its
\* peer (beast_http_server.cpp:150-171).
THEOREM CutIsExplained == StreamsSpec => []CutExplained
<1>1. IInv => CutExplained
  BY SafeHttp DEF IInv, CutExplained
<1> QED
  BY <1>1, Invariance, PTL

\* An orderly end means a whole response, whatever waits has its deadline to come, and the
\* counter counts what was asked (beast_http_server.cpp:95-171).
THEOREM EndsWell == StreamsSpec => []ShutMeansWhole
<1>1. IInv => ShutMeansWhole
  BY SafeHttp DEF IInv, ShutMeansWhole
<1> QED
  BY <1>1, Invariance, PTL

\* AsycApi, writing, of messages of any length that has room in a node (Session.h:13-16):
\* one call at a time the first way writes every message whole and in order, the queue loses
\* only tails and pops no empty queue.  What overflows a node is undefined, and nothing
\* else is.  With calls at any time a backlog still has a write on its way
\* (Session.cpp:11-105).
THEOREM WritesLoseTails == StreamsSpec => []AsycWriteLoss
<1>1. IInv => AsycWriteLoss
  BY SafeFirst, SafeAlone, SafeBacklog DEF IInv, AsycWriteLoss, In
<1> QED
  BY <1>1, Invariance, PTL

\* AsycApi, reading: nothing goes wrong before a read is short (Session.cpp:107-169).
THEOREM ReadsUntilShort == StreamsSpec => []AsycReadLoss
<1>1. IInv => AsycReadLoss
  BY SafeReading DEF IInv, AsycReadLoss
<1> QED
  BY <1>1, Invariance, PTL

\* The message classes: ByteSizeLong, by which a buffer is made, is the number of bytes
\* _InternalSerialize puts into it, for every message a program can fill in or parse
\* (AsyncServer_useProtobuf/msg.pb.cc:203-254).
THEOREM SizesAreExact == StreamsSpec => []CodecSizeIsExact
<1>1. IInv => CodecSizeIsExact
  BY SafeCodec DEF IInv, CodecSizeIsExact
<1> QED
  BY <1>1, Invariance, PTL

\* A stream that arrived whole is read by _InternalParse as the merge of the messages
\* written, a reader of another class loses nothing of it, and one that was cut is refused
\* or lacks fields (AsyncServer_useProtobuf/msg.pb.cc:156-231).
THEOREM StreamsAreRestored == StreamsSpec => []CodecRestored
<1>1. IInv => CodecRestored
  BY SafeCodec DEF IInv, CodecRestored
<1> QED
  BY <1>1, Invariance, PTL

\* The websocket servers: what is queued, written and outstanding are messages that have come.
THEOREM WebTyping == StreamsSpec => []Beast!TypeOK
<1>1. IInv => Beast!TypeOK
  BY DEF IInv, WebInv
<1> QED
  BY <1>1, Invariance, PTL
=============================================================================
