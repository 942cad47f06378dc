---------------------------- MODULE ProgressProofs ----------------------------
(***************************************************************************)
(* Proofs about the programs of Progress: the invariants of its safety     *)
(* properties.                                                             *)
(*                                                                         *)
(*   EchoInv      the echo servers: what a client has got, what is on its  *)
(*                way to it, what the session holds and what is on its way *)
(*                to the session are, in this order, what it sent          *)
(*   ServiceInv   CoroutineService's end: where main is tells which guards *)
(*                are left and which threads are joined, and what is still *)
(*                to be answered tells how many stray calls there can be   *)
(*   PoolInv      AsyncServer's threads: the work guard is never given up  *)
(***************************************************************************)
EXTENDS Progress, SequenceTheorems, TLAPS

-----------------------------------------------------------------------------
(* The echo servers.  The invariant adds what each step relies on: before   *)
(* the request nothing is on its way, and a session that reads has written  *)
(* all it had read.                                                         *)

Byte == Nat   \* a byte is a place
Bytes == Seq(Byte)

Typed == /\ session \in [Clients -> {"none", "read", "write", "ended"}]
         /\ client \in [Clients -> {"out", "refused", "connected", "head", "body",
                                    "done", "failed", "undefined"}]
         /\ line \in [Clients -> Nat]
         /\ up \in [Clients -> Bytes]
         /\ data \in [Clients -> Bytes]
         /\ down \in [Clients -> Bytes]
         /\ reply \in [Clients -> Bytes]

\* All bytes of a connection.
Then(s, t) == s \o t
Stream(c) == Then(Then(Then(reply[c], down[c]), data[c]), up[c])

EchoOK(c) ==
  /\ client[c] \in {"out", "refused", "connected"} =>
       up[c] = <<>> /\ down[c] = <<>> /\ data[c] = <<>> /\ reply[c] = <<>>
  /\ session[c] \in {"none", "read"} => data[c] = <<>>
  /\ client[c] \in {"head", "body", "done"} => Stream(c) = Range1(Total(c))
  /\ client[c] = "done" => Len(reply[c]) = Total(c)

EchoInv == Typed /\ \A c \in Clients : EchoOK(c)

-----------------------------------------------------------------------------
(* Facts about sequences.                                                   *)

\* A sequence is its first n elements and the others.
LEMMA Split == ASSUME NEW s \in Bytes, NEW n \in 0..Len(s)
               PROVE  /\ SubSeq(s, 1, n) \in Bytes
                      /\ SubSeq(s, n + 1, Len(s)) \in Bytes
                      /\ s = Then(SubSeq(s, 1, n), SubSeq(s, n + 1, Len(s)))
<1>1. s \in Seq(Byte) /\ Len(s) \in Nat
  BY DEF Bytes
<1>2. \A i \in 1..Len(s) : s[i] \in Byte
  BY <1>1
<1>3. SubSeq(s, 1, n) \in Seq(Byte) /\ SubSeq(s, n + 1, Len(s)) \in Seq(Byte)
  BY <1>1, <1>2, SubSeqProperties
<1>4. SubSeq(s, 1, n) \o SubSeq(s, n + 1, Len(s)) = SubSeq(s, 1, Len(s))
  <2>1. 1 \in 1..Len(s) + 1 /\ n \in 1 - 1..Len(s) /\ Len(s) \in n..Len(s)
    BY <1>1
  <2> QED
    BY <1>1, <2>1, ConcatAdjacentSubSeq
<1> QED
  BY <1>1, <1>3, <1>4, SubSeqFull DEF Bytes, Then

LEMMA ThenType == \A s, t \in Bytes : Then(s, t) \in Bytes
BY DEF Bytes, Then

LEMMA ThenAssoc == \A s, t, v \in Bytes : Then(Then(s, t), v) = Then(s, Then(t, v))
BY ConcatAssociative DEF Bytes, Then

\* Bytes that move from the front of one stretch to the end of the one before.
LEMMA ThenMoves == \A r, d, x, y \in Bytes : Then(Then(r, Then(d, x)), y) = Then(Then(r, d), Then(x, y))
<1> SUFFICES ASSUME NEW r \in Bytes, NEW d \in Bytes, NEW x \in Bytes, NEW y \in Bytes
             PROVE  Then(Then(r, Then(d, x)), y) = Then(Then(r, d), Then(x, y))
  OBVIOUS
<1>1. Then(r, d) \in Bytes
  BY ThenType
<1>2. Then(Then(r, d), x) = Then(r, Then(d, x))
  BY ThenAssoc
<1>3. Then(Then(Then(r, d), x), y) = Then(Then(r, d), Then(x, y))
  BY <1>1, ThenAssoc
<1> QED
  BY <1>2, <1>3

LEMMA ThenNothing == <<>> \in Bytes /\ \A s \in Bytes : Then(s, <<>>) = s /\ Then(<<>>, s) = s
BY ConcatEmptySeq DEF Bytes, Then

LEMMA RangeIsBytes == ASSUME NEW n \in Nat PROVE Range1(n) \in Bytes
BY DEF Range1, Bytes, Byte

LEMMA TotalIsNat == ASSUME Typed, NEW c \in Clients PROVE Total(c) \in Nat
BY DEF Typed, Total, HeadLength

-----------------------------------------------------------------------------
LEMMA InitEchoInv == Init => EchoInv
<1> SUFFICES ASSUME Init PROVE EchoInv
  OBVIOUS
<1>1. line \in [Clients -> Nat]
  BY LengthsAssumption DEF Init
<1>2. <<>> \in Bytes
  BY DEF Bytes
<1> QED
  BY <1>1, <1>2 DEF Init, EchoInv, Typed, EchoOK

-----------------------------------------------------------------------------
(* The sessions.                                                            *)

LEMMA ReadSomeEchoInv == ASSUME EchoInv, NEW c \in Clients, ReadSome(c) PROVE EchoInv'
<1>1. PICK n \in 1..Min2(Len(up[c]), max_length) :
        /\ data' = [data EXCEPT ![c] = SubSeq(up[c], 1, n)]
        /\ up' = [up EXCEPT ![c] = SubSeq(up[c], n + 1, Len(up[c]))]
  BY DEF ReadSome, Set
<1>2. up[c] \in Bytes /\ n \in 0..Len(up[c])
  BY <1>1, LengthsAssumption DEF EchoInv, Typed, Min2, Bytes
<1>3. /\ data'[c] \in Bytes /\ up'[c] \in Bytes /\ up[c] = Then(data'[c], up'[c])
      /\ Typed'
  BY <1>1, <1>2, Split DEF EchoInv, Typed, ReadSome, Set
<1>4. data[c] = <<>> /\ up[c] # <<>> /\ session'[c] = "write"
  BY DEF EchoInv, EchoOK, ReadSome, Typed, Set
<1>5. Stream(c)' = Stream(c)
  <2>1. reply[c] \in Bytes /\ down[c] \in Bytes /\ reply' = reply /\ down' = down
    BY DEF EchoInv, Typed, ReadSome
  <2>2. Stream(c) = Then(Then(reply[c], down[c]), Then(data'[c], up'[c]))
    BY <1>3, <1>4, <2>1, ThenType, ThenNothing DEF Stream
  <2>3. Stream(c)' = Then(Then(Then(reply[c], down[c]), data'[c]), up'[c])
    BY <2>1 DEF Stream
  <2>4. Then(reply[c], down[c]) \in Bytes
    BY <2>1, ThenType
  <2>5. Then(Then(Then(reply[c], down[c]), data'[c]), up'[c])
          = Then(Then(reply[c], down[c]), Then(data'[c], up'[c]))
    BY <1>3, <2>4, ThenAssoc
  <2> QED
    BY <2>2, <2>3, <2>5, Zenon
<1>6. client' = client /\ reply' = reply /\ line' = line /\ down' = down
      /\ session' = [session EXCEPT ![c] = "write"]
  BY DEF ReadSome, Set
<1>7. EchoOK(c)'
  BY <1>4, <1>5, <1>6 DEF EchoInv, EchoOK, Total
<1>8. ASSUME NEW d \in Clients, d # c PROVE EchoOK(d)'
  BY <1>1, <1>6, <1>8 DEF EchoInv, Typed, EchoOK, Stream, Total
<1> QED
  BY <1>3, <1>7, <1>8 DEF EchoInv

LEMMA ReadThrowsEchoInv == ASSUME EchoInv, NEW c \in Clients, ReadThrows(c) PROVE EchoInv'
BY DEF EchoInv, Typed, EchoOK, Stream, Total, ReadThrows, Set, net

LEMMA WriteEchoInv == ASSUME EchoInv, NEW c \in Clients, Write(c) PROVE EchoInv'
<1>1. PICK n \in 1..Len(data[c]) :
        /\ down' = [down EXCEPT ![c] = down[c] \o SubSeq(data[c], 1, n)]
        /\ data' = [data EXCEPT ![c] = SubSeq(data[c], n + 1, Len(data[c]))]
  BY DEF Write, Set
<1>2. data[c] \in Bytes /\ n \in 0..Len(data[c]) /\ data[c] # <<>>
  BY <1>1 DEF EchoInv, Typed, Bytes
<1>3. /\ SubSeq(data[c], 1, n) \in Bytes /\ data'[c] \in Bytes
      /\ data[c] = Then(SubSeq(data[c], 1, n), data'[c])
      /\ down'[c] = Then(down[c], SubSeq(data[c], 1, n))
  BY <1>1, <1>2, Split DEF EchoInv, Typed, Then
<1>4. /\ client' = client /\ reply' = reply /\ line' = line /\ up' = up
      /\ session' \in {session, [session EXCEPT ![c] = "read"]}
      /\ session'[c] \in {"none", "read"} => data'[c] = <<>>
  BY DEF EchoInv, Typed, Write, Set
<1>5. Typed'
  <2>1. down'[c] \in Bytes
    BY <1>3, ThenType DEF EchoInv, Typed
  <2> QED
    BY <1>1, <1>3, <1>4, <2>1 DEF EchoInv, Typed
<1>6. Stream(c)' = Stream(c)
  <2>1. reply[c] \in Bytes /\ down[c] \in Bytes /\ up[c] \in Bytes
    BY DEF EchoInv, Typed
  <2>2. Stream(c) = Then(Then(Then(reply[c], down[c]), Then(SubSeq(data[c], 1, n), data'[c])), up[c])
    BY <1>3 DEF Stream
  <2>3. Stream(c)' = Then(Then(Then(reply[c], Then(down[c], SubSeq(data[c], 1, n))), data'[c]), up[c])
    BY <1>3, <1>4 DEF Stream
  <2>4. Then(Then(reply[c], Then(down[c], SubSeq(data[c], 1, n))), data'[c])
          = Then(Then(reply[c], down[c]), Then(SubSeq(data[c], 1, n), data'[c]))
    BY <1>3, <2>1, ThenMoves
  <2> QED
    BY <2>2, <2>3, <2>4, Zenon
<1>7. EchoOK(c)'
  BY <1>2, <1>4, <1>6 DEF EchoInv, EchoOK, Total
<1>8. ASSUME NEW d \in Clients, d # c PROVE EchoOK(d)'
  BY <1>1, <1>4, <1>8 DEF EchoInv, Typed, EchoOK, Stream, Total
<1> QED
  BY <1>5, <1>7, <1>8 DEF EchoInv

-----------------------------------------------------------------------------
(* The clients.                                                             *)

LEMMA RequestEchoInv == ASSUME EchoInv, NEW c \in Clients, Request(c) PROVE EchoInv'
<1>1. /\ up' = [up EXCEPT ![c] = Range1(Total(c))] /\ Range1(Total(c)) \in Bytes
      /\ client' \in {[client EXCEPT ![c] = "head"], [client EXCEPT ![c] = "body"]}
      /\ session' = session /\ line' = line /\ data' = data /\ down' = down /\ reply' = reply
  BY TotalIsNat, RangeIsBytes DEF EchoInv, Request, Set
<1>2. Typed'
  BY <1>1 DEF EchoInv, Typed
<1>3. Stream(c)' = Range1(Total(c))
  <2>1. reply[c] = <<>> /\ down[c] = <<>> /\ data[c] = <<>>
    BY DEF EchoInv, EchoOK, Request
  <2>2. up'[c] = Range1(Total(c)) /\ Range1(Total(c)) \in Bytes
    BY <1>1 DEF EchoInv, Typed
  <2> QED
    BY <1>1, <2>1, <2>2, ThenNothing DEF Stream
<1>4. EchoOK(c)'
  BY <1>1, <1>3 DEF EchoInv, Typed, EchoOK, Total
<1>5. ASSUME NEW d \in Clients, d # c PROVE EchoOK(d)'
  BY <1>1, <1>5 DEF EchoInv, Typed, EchoOK, Stream, Total
<1> QED
  BY <1>2, <1>4, <1>5 DEF EchoInv

LEMMA ReceiveEchoInv == ASSUME EchoInv, NEW c \in Clients, Receive(c) PROVE EchoInv'
<1>1. /\ reply' = [reply EXCEPT ![c] = Then(reply[c], down[c])]
      /\ down' = [down EXCEPT ![c] = <<>>]
      /\ client[c] \in {"head", "body"}
      /\ client' = client /\ session' = session /\ line' = line /\ data' = data /\ up' = up
  BY DEF Receive, Set, Then
<1>2. reply[c] \in Bytes /\ down[c] \in Bytes /\ data[c] \in Bytes /\ up[c] \in Bytes
  BY DEF EchoInv, Typed
<1>3. Typed'
  <2>1. Then(reply[c], down[c]) \in Bytes /\ <<>> \in Bytes
    BY <1>2, ThenType, ThenNothing
  <2> QED
    BY <1>1, <2>1 DEF EchoInv, Typed
<1>4. Stream(c)' = Stream(c)
  <2>1. Stream(c)' = Then(Then(Then(Then(reply[c], down[c]), <<>>), data[c]), up[c])
    BY <1>1 DEF EchoInv, Typed, Stream
  <2> QED
    BY <1>2, <2>1, ThenType, ThenNothing DEF Stream
<1>5. EchoOK(c)'
  BY <1>1, <1>4 DEF EchoInv, Typed, EchoOK, Total
<1>6. ASSUME NEW d \in Clients, d # c PROVE EchoOK(d)'
  BY <1>1, <1>6 DEF EchoInv, Typed, EchoOK, Stream, Total
<1> QED
  BY <1>3, <1>5, <1>6 DEF EchoInv

\* The other steps of a client only change where it is.
LEMMA ClientEchoInv == ASSUME EchoInv, NEW c \in Clients, Client(c) PROVE EchoInv'
<1>1. CASE Connect(c) \/ ConnectFails(c) \/ RequestOverflows(c) \/ Throws(c)
  BY <1>1 DEF EchoInv, Typed, EchoOK, Stream, Total, Connect, ConnectFails, RequestOverflows,
              Throws, Set, net
<1>2. CASE ReadHead(c) \/ ReadBody(c)
  BY <1>2 DEF EchoInv, Typed, EchoOK, Stream, Total, ReadHead, ReadBody, Set, net
<1> QED
  BY <1>1, <1>2, RequestEchoInv, ReceiveEchoInv DEF Client

-----------------------------------------------------------------------------
LEMMA NextEchoInv == ASSUME EchoInv, [Next]_vars PROVE EchoInv'
<1>1. CASE UNCHANGED vars \/ Listen \/ AcceptThrows \/ Leave \/ UseDestroyed \/ Signal
  BY <1>1 DEF EchoInv, Typed, EchoOK, Stream, Total, vars, net, Listen, AcceptThrows, Leave,
              UseDestroyed, Signal
<1>2. ASSUME NEW c \in Clients, Accept(c) PROVE EchoInv'
  BY <1>2 DEF EchoInv, Typed, EchoOK, Stream, Total, Accept, Set, net
<1>3. ASSUME NEW c \in Clients, Lose(c) PROVE EchoInv'
  BY <1>3 DEF EchoInv, Typed, EchoOK, Stream, Total, Lose, net
<1>4. ASSUME NEW c \in Clients, Session(c) PROVE EchoInv'
  BY <1>4, ReadSomeEchoInv, ReadThrowsEchoInv, WriteEchoInv DEF Session
<1> QED
  BY <1>1, <1>2, <1>3, <1>4, ClientEchoInv DEF Next

\* Coroutine differs from SyncServer in the end of main only.
LEMMA CoroutineNextEchoInv == ASSUME EchoInv, Coroutine!Next PROVE EchoInv'
<1>1. CASE \/ Coroutine!Listen \/ Coroutine!AcceptThrows \/ Coroutine!Leave
           \/ Coroutine!UseDestroyed \/ Coroutine!Signal
  BY <1>1 DEF EchoInv, Typed, EchoOK, Stream, Total, Coroutine!net, Coroutine!Listen,
     Coroutine!AcceptThrows, Coroutine!Leave, Coroutine!UseDestroyed, Coroutine!Signal
<1>2. ASSUME NEW c \in Clients, Coroutine!Accept(c) PROVE EchoInv'
  BY <1>2, NextEchoInv DEF Coroutine!Accept, Accept, Next, Coroutine!net, net, Coroutine!Set, Set
<1>3. ASSUME NEW c \in Clients, Coroutine!Lose(c) PROVE EchoInv'
  BY <1>3, NextEchoInv DEF Coroutine!Lose, Lose, Next, Coroutine!net, net
<1>4. ASSUME NEW c \in Clients, Coroutine!Session(c) PROVE EchoInv'
  <2>1. Session(c)
    BY <1>4 DEF Coroutine!Session, Session, Coroutine!ReadSome, ReadSome, Coroutine!ReadThrows,
       ReadThrows, Coroutine!Write, Write, Coroutine!Alive, Alive, Coroutine!Gone, Gone,
       Coroutine!Min2, Min2, Coroutine!net, net, Coroutine!Set, Set
  <2> QED
    BY <2>1, NextEchoInv DEF Next
<1>5. ASSUME NEW c \in Clients, Coroutine!Client(c) PROVE EchoInv'
  <2>1. Client(c)
    BY <1>5 DEF Coroutine!Client, Client, Coroutine!Connect, Connect, Coroutine!ConnectFails,
       ConnectFails, Coroutine!Request, Request, Coroutine!RequestOverflows, RequestOverflows,
       Coroutine!Overflows, Overflows, Coroutine!Receive, Receive, Coroutine!ReadHead,
       ReadHead, Coroutine!ReadBody, ReadBody, Coroutine!Throws, Throws, Coroutine!Alive, Alive,
       Coroutine!Total, Total, Coroutine!HeadLength, HeadLength, Coroutine!Range1, Range1,
       Coroutine!net, net, Coroutine!Set, Set
  <2> QED
    BY <2>1, NextEchoInv DEF Next
<1> QED
  BY <1>1, <1>2, <1>3, <1>4, <1>5 DEF Coroutine!Next

-----------------------------------------------------------------------------
(* The end of CoroutineService.                                             *)

AllJoined == \A t \in ServiceThreads : as_thread[t] = "joined"

\* What the worker has taken and answered still counts in the queue.
Unanswered == as_queue - IF as_worker = "sent" THEN 1 ELSE 0

ServiceInv ==
  /\ as_queue \in Nat /\ as_posts \in Nat /\ as_stray \in Nat /\ as_backlog \in Nat
  /\ as_main \in {"CServer", "run", "reset", "join", "leave", "exit", "destroy",
                  "clean", "terminated", "hung"}
  /\ as_thread \in [ServiceThreads -> {"created", "running", "out", "joined"}]
  /\ as_worker \in {"call", "sent"} => as_queue > 0
  /\ as_worker = "none" <=> as_posts = 0
  /\ as_posts = 0 => as_queue = 0
  /\ as_works \in {{}, ServiceThreads}
  /\ as_main \in {"CServer", "run", "reset"} => as_works = ServiceThreads
  /\ as_main = "join" => as_works = {}
  /\ as_main = "CServer" => as_posts = 0
  /\ as_works # {} => \A t \in ServiceThreads : as_thread[t] # "joined"
  /\ as_main \notin {"CServer", "run", "reset", "join"} =>
       /\ as_works = {} => AllJoined
       /\ as_stray + Unanswered <= as_backlog
  /\ as_main \in {"CServer", "run", "reset", "join", "leave"} => as_stray = 0
  /\ as_main \in {"destroy", "hung"} => as_posts > 0
  /\ as_main = "clean" => as_posts = 0 /\ as_works = {}
  /\ as_main = "terminated" => as_posts > 0 \/ as_works # {}

LEMMA InitServiceInv == ASSUME Service!Init PROVE ServiceInv
BY DEF Service!Init, ServiceInv, Unanswered

LEMMA ThreadsServiceInv == ASSUME ServiceInv, Service!Pool PROVE ServiceInv'
BY DEF ServiceInv, AllJoined, Unanswered, Service!Pool, Service!Run, Service!Return

LEMMA LogicServiceInv == ASSUME ServiceInv, Service!Post \/ Service!Worker PROVE ServiceInv'
<1>1. CASE Service!Post
  BY <1>1 DEF ServiceInv, AllJoined, Unanswered, Service!Post
<1>2. CASE Service!Take
  BY <1>2 DEF ServiceInv, AllJoined, Unanswered, Service!Take
<1>3. CASE Service!Send
  BY <1>3 DEF ServiceInv, AllJoined, Unanswered, Service!Send
<1>4. CASE Service!Pop
  BY <1>4 DEF ServiceInv, AllJoined, Unanswered, Service!Pop
<1>5. CASE Service!End
  BY <1>5 DEF ServiceInv, AllJoined, Unanswered, Service!End
<1> QED
  BY <1>1, <1>2, <1>3, <1>4, <1>5 DEF Service!Worker

LEMMA StoppingServiceInv ==
  ASSUME ServiceInv, ~Service!Over,
         Service!ServerStarts \/ Service!ServerThrows \/ Service!Signal \/ Service!Stopping
  PROVE  ServiceInv'
<1>1. CASE Service!ServerStarts \/ Service!ServerThrows \/ Service!Signal
  BY <1>1 DEF ServiceInv, AllJoined, Unanswered, Service!ServerStarts, Service!ServerThrows,
     Service!Signal
<1>2. CASE Service!Reset
  BY <1>2 DEF ServiceInv, AllJoined, Unanswered, Service!Reset
<1>3. ASSUME NEW t \in ServiceThreads, Service!Join(t) PROVE ServiceInv'
  BY <1>3 DEF ServiceInv, AllJoined, Unanswered, Service!Join
<1>4. CASE Service!Joined
  BY <1>4 DEF ServiceInv, AllJoined, Unanswered, Service!Joined
<1>5. CASE Service!Leave \/ Service!Destroy
  BY <1>5 DEF ServiceInv, AllJoined, Unanswered, Service!Leave, Service!Destroy
<1>6. CASE Service!DestroyMembers
  BY <1>6 DEF ServiceInv, AllJoined, Unanswered, Service!DestroyMembers
<1>7. CASE Service!DestroyPool
  BY <1>7 DEF ServiceInv, AllJoined, Unanswered, Service!DestroyPool
<1> QED
  BY <1>1, <1>2, <1>3, <1>4, <1>5, <1>6, <1>7 DEF Service!Stopping

LEMMA NextServiceInv == ASSUME ServiceInv, Service!Next PROVE ServiceInv'
BY ThreadsServiceInv, LogicServiceInv, StoppingServiceInv DEF Service!Next

LEMMA ServiceSafe == ASSUME ServiceInv PROVE ServiceEnds
<1>1. Service!CleanIfNeverAsked
  BY DEF ServiceInv, Service!CleanIfNeverAsked, Service!Over
<1>2. Service!StrayOnlyFromBacklog
  BY DEF ServiceInv, Unanswered, Service!StrayOnlyFromBacklog
<1> QED
  BY <1>1, <1>2 DEF ServiceEnds

-----------------------------------------------------------------------------
(* The threads of AsyncServer.                                              *)

PoolInv == /\ io_works = TRUE
           /\ io_loop \in [PoolThreads -> {"unborn", "created", "pool"}]

LEMMA NextPoolInv == ASSUME PoolInv, Pool!Next PROVE PoolInv'
BY DEF PoolInv, Pool!Next, Pool!Threading, Pool!Create, Pool!Run, Pool!HasWork, Pool!Handle,
   Pool!Main, Pool!GetInstance, Pool!AsyncWait, Pool!ServerStarts, Pool!ServerThrows, Pool!Wake,
   Pool!Test, Pool!Connect, Pool!Signal

-----------------------------------------------------------------------------
(* All programs: a step is one of one program and leaves the variables of   *)
(* the others alone.                                                        *)

IInv == EchoInv /\ ServiceInv /\ PoolInv

LEMMA Initially == ProgressInit => IInv
<1> SUFFICES ASSUME ProgressInit PROVE IInv
  OBVIOUS
<1>1. PoolInv
  BY DEF ProgressInit, Pool!Init, PoolInv
<1> QED
  BY <1>1, InitEchoInv, InitServiceInv DEF ProgressInit, IInv

LEMMA EchoUnchanged == ASSUME EchoInv, UNCHANGED echo PROVE EchoInv'
BY DEF EchoInv, Typed, EchoOK, Stream, Total, echo, vars

LEMMA ServiceUnchanged == ASSUME ServiceInv, UNCHANGED service PROVE ServiceInv'
BY DEF ServiceInv, AllJoined, Unanswered, service

LEMMA PoolUnchanged == ASSUME PoolInv, UNCHANGED pool PROVE PoolInv'
BY DEF PoolInv, pool

LEMMA NextIInv ==
  IInv /\ [ProgressNext]_<<program, echo, read, protos, web, http, pool, service>> => IInv'
<1> SUFFICES ASSUME IInv, [ProgressNext]_<<program, echo, read, protos, web, http, pool, service>>
             PROVE  IInv'
  OBVIOUS
<1>1. EchoInv /\ ServiceInv /\ PoolInv
  BY DEF IInv
<1>2. CASE EchoNext
  <2>1. UNCHANGED service /\ UNCHANGED pool
    BY <1>2 DEF EchoNext
  <2>2. Next \/ Coroutine!Next
    BY <1>2 DEF EchoNext
  <2> QED
    BY <1>1, <2>1, <2>2, NextEchoInv, CoroutineNextEchoInv, ServiceUnchanged, PoolUnchanged DEF IInv
<1>3. CASE ServiceNext
  <2>1. UNCHANGED echo /\ UNCHANGED pool /\ Service!Next
    BY <1>3 DEF ServiceNext
  <2> QED
    BY <1>1, <2>1, NextServiceInv, EchoUnchanged, PoolUnchanged DEF IInv
<1>4. CASE PoolNext
  <2>1. UNCHANGED echo /\ UNCHANGED service /\ Pool!Next
    BY <1>4 DEF PoolNext
  <2> QED
    BY <1>1, <2>1, NextPoolInv, EchoUnchanged, ServiceUnchanged DEF IInv
<1>5. CASE UNCHANGED echo /\ UNCHANGED pool /\ UNCHANGED service
  BY <1>1, <1>5, EchoUnchanged, ServiceUnchanged, PoolUnchanged DEF IInv
<1>6. ASSUME ~EchoNext, ~ServiceNext, ~PoolNext
      PROVE  UNCHANGED echo /\ UNCHANGED pool /\ UNCHANGED service
  BY <1>6 DEF ProgressNext, ReadNext, ProtosNext, WebNext, HttpNext
<1> QED
  BY <1>2, <1>3, <1>4, <1>5, <1>6

\* Each program keeps its invariant.
THEOREM Invariance == ProgressSpec => []IInv
<1> QED
  BY Initially, NextIInv, PTL DEF ProgressSpec

-----------------------------------------------------------------------------
\* For any number of clients of either kind, any lines, any buffer, threads or
\* coroutines: a client that is done has got exactly what it sent, and what one has
\* got so far is the beginning of it (SyncServer.cpp:21-34, Coroutine.cpp:17-34).
THEOREM Whole == ProgressSpec => []EchoIsWhole
<1>1. IInv => EchoIsWhole
  BY DEF IInv, EchoInv, EchoOK, Stream, Then, EchoIsWhole
<1> QED
  BY <1>1, Invariance, PTL

\* CoroutineService, with any number of threads and requests: it ends cleanly exactly
\* if it was stopped by a signal and never asked anything, and the calls of Send after
\* the end of the sockets' io_context answer what waited when it stopped
\* (CoroutineService.cpp:14-38, AsioIOServicePool.cpp, LogicSystem.cpp).
THEOREM EndsCleanlyIfNeverAsked == ProgressSpec => []ServiceEnds
<1>1. IInv => ServiceEnds
  BY ServiceSafe DEF IInv
<1> QED
  BY <1>1, Invariance, PTL

\* AsyncServer: whatever the order in which its threads and main start, no thread
\* leaves the pool (IOThreadPool.cpp:3-13).
THEOREM NoThreadLeaves == ProgressSpec => []Pool!ThreadsStay
<1>1. IInv => Pool!ThreadsStay
  BY DEF IInv, PoolInv, Pool!ThreadsStay
<1> QED
  BY <1>1, Invariance, PTL
=============================================================================
