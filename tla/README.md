# A TLA+ development for Boost_learn

Boost_learn is a collection of network programs written with Boost.Asio and
Boost.Beast: several TCP servers with the same framing protocol, a coroutine
server, an HTTP server, two WebSocket servers, their clients, and samples of
library calls. The programs share no code, but the later ones grew out of the
earlier ones, and two of them (AsyncServer and CoroutineService) contain the
logic that most easily goes wrong: threads, queues, locks, completion handlers and a
stream that has to be cut into messages. This directory models all of them but the
samples of single library calls in TLA+, checks the models with TLC and proves the
central invariants with TLAPS.

## 1. Inventory

### AsyncServer (`src/AsyncServer`)

| part | state | operations | hard because |
|---|---|---|---|
| `LogicSystem` | `_msg_que`, `_b_stop`, `_mutex`, `_consumer`, the callback table, `_worker_thread` | `PostMsgToQue` (I/O threads), `DealMsg` (worker), destructor (main) | notify only when the queue becomes non-empty; callback runs under the mutex; stop without lock, notify or join |
| `Session`, sending | `_send_queue`, `_send_pending`, `_send_lock` | `Send` (worker), `handle_write` (I/O thread) | two threads start writes; the flag is reset outside the lock; failed writes leave the queue as it is |
| `Session`, receiving | `_data`, `_recv_head_node`, `_recv_msg_node`, `_b_head_parse`, the strand | `start`, `handle_read` | pieces of any size; five exits that each have to read on; state kept from one run to the next; ids and lengths in a signed `short` |
| `Server` | `_sessions`, `_acceptor` | `start_accept`, `handle_accept`, `ClearServer` | the map is changed by several threads without a lock; `start` before `insert` |
| `IOThreadPool`, `main` | `io_context`, work guard, threads, `bstop` | construction, `stop`, signal handler | the signal set lives on an `io_context` nobody runs |
| `Singleton` | the instance | `GetInstance` | `call_once`; order of destruction at exit |

How they interact: an I/O thread runs `handle_read` on the session's strand; it
posts a `LogicNode` to `LogicSystem`; the worker runs the callback, which calls
`Session::Send`; `Send` queues the reply and starts `async_write` if nothing is
being written; `handle_write`, again on an I/O thread, starts the next one. A read
or write error takes the session from the map of `Server`; the session itself
lives as long as a pending handler or a `LogicNode` holds a `shared_ptr` to it.
What makes the whole correct: a frame is handled once and in the order of the
stream; replies leave in the order of the requests; nobody waits for ever.

### CoroutineService (`src/CoroutineService`)

The same service with a coroutine for each session (`CSession::start` reads a
header, then a body), a pool of `io_context`s (`AsioIOServicePool`, round robin), a
locked session map, and the same `LogicSystem`. State: the send queue and lock, the
`_b_close` flag, the map, the pool. Hard: the write is started after the lock was
released; a failed write and the suspended reader both clean up; a length of the wire
may be negative in a `short`; shutdown on a signal while the worker may still be sending. Correct when: like AsyncServer, and
a session in the map is alive, and one that has left it ends.

### The other programs

| program | what it keeps and does | what is hard in it | correct when |
|---|---|---|---|
| `AsyncServer_useProtobuf` | the predecessor of AsyncServer on one thread, `Send` called inside `handle_read` | the resumed body takes another path than the whole one; lengths in a signed `short` | one reply at most for each request, in order; every session goes on reading; none keeps the thread |
| `beast_websocket`, `websocket_test` | a map of connections, an echo queue for each | the completion handler calls `AsyncSend` again; one accept for ever | messages come back once and in order |
| `AsycApi` | three ways of writing and two of reading, as samples | partial writes and reads, flags, nodes of one size for messages of any | bytes are neither lost nor repeated |
| `beast_http_server` | one request for each connection, a deadline timer, a counter | deadline against write, a branch that does not return | every connection is given up; what ends in order is whole |
| `SyncServer`, `Coroutine`, with `SyncClient`, `testClient` | echo servers: a thread, or a coroutine, each | pieces of any size; a listener that throws | the client gets back what it sent |
| message classes (`msg.pb.*`, `demo.pb.*`) | protoc's code for four messages, used by `AsyncServer_useProtobuf`, its client, `ProtobufDemo`, gRPC | size computed apart from writing; defaults left out; unknown fields | parse undoes serialise |
| `httptest` | an unfinished copy of the HTTP server | does not compile | |
| `JsonClient`, `JsonClient_forTest'`, `SyncClient_useProtobuf` | send frames, read one | nothing concurrent | |
| `grpc_*`, `endPoint`, `ReadAtLeastServer` | samples of library calls | no state of their own | |

`PROJECT.json` lists every part with its status, and under `hazards` each point in
the code that a test would hardly reach, with the properties that cover it.

## 2. What is modelled

```
  AsyncServer and CoroutineService
                FifoHandOff      what a queue between two threads promises (abstract)
               ^     ^      ^
   implements  |     |      |  (twice: requests and replies)
     LogicSystem  SendQueue  CSession     HandleRead   Server   IOThreadPool   AsioIOServicePool

  the other programs
     ProtoSession   WebSocket   HttpConnect   EchoServer   AsycWrite   AsycRead
     GeneratedMessages <- Codec

  the two-byte numbers of a header, as a signed short
     WireShort        used by CSession, HandleRead, ProtoSession

  programs that share no state, side by side
     HandOffs         messages from thread to thread, four programs
     Connections      safety of twelve programs
     Progress         progress of nine programs

  checking: the values of the constants
     MCHandOffs MCStreams MCProgress
     MCServer MCLogicSystem MCHandleRead MCIOThreadPool MCProtoSession

  proofs (TLAPS)
     LogicSystemProofs SendQueueProofs CSessionProofs ServerProofs HandleReadProofs
     CodecProofs <- ConnectionsProofs     ProgressProofs
```

`LogicSystem`, `SendQueue` and `HandleRead` are three parts of AsyncServer at the
grain of single statements; `Server` is the whole of AsyncServer around them, with
each of the three reduced to the number of messages it holds; `CSession` is a
session of CoroutineService with its reader, its replies and its entry in the map.

**`FifoHandOff`** is the abstract specification: items are posted, taken in the
order of arrival, acted on if they are to be acted on; an open hand-off with items
left goes on taking. It models no code.

**`LogicSystem`** models `LogicSystem.cpp`. The mutex is explicit (`mutex`), and
`PostMsgToQue` and `DealMsg` are split at every point where another thread can
come in or where the code looks at shared state: `Call`, `Acquire`, `Push`,
`Notify`, `Return` for a poster; `Lock`, `Wait`, `Block`, `Skip`, `CallBack`,
`CallBackReturn`, `Exit` for the worker. `Wait` and `Block` are two steps on
purpose: between the test of the queue and the wait nothing may be lost.
`SpuriousWakeup` is the wait returning by itself. `Destroy` is the body of
`~LogicSystem`, `DestroyThread` the destructor of the member `_worker_thread`, which
was never joined and so calls `std::terminate`. The two loops of `DealMsg` (running
and draining) do the same to the front node and are one set of actions. The
worker may look at `_b_stop` at any step: the store to this plain `bool` is not
synchronised, so at each look it is either seen or not yet seen. A node is
its identity, and its `msg_id` matters only by being registered or not. The
destructor is reached when `main` returns, in CoroutineService on every signal
and in AsyncServer in the variants of `main` in which the server stops.
`CoroutineService/LogicSystem.cpp` is the same class but for two details. Its
constructor does not set `_b_close`; the instance is a static object, whose storage
is zero before, so the flag is false all the same. And `work_thread` is declared in
front of the mutex and the condition variable, so these are destroyed while the
worker may still use them and before the thread's destructor ends the process; what
that destruction does to the worker is not modelled.

**`SendQueue`** models `Session::Send` and `handle_write`. A section under
`_send_lock` is one action, since only these two functions touch the queue and both
hold the lock over the whole section; the store to `_send_pending` in front of the
lock is an action of its own (`SendEnter`). `writes` and `completions` are the
outstanding operations of asio: a write may succeed or fail, at any time, and its
handler runs later. `_send_pending` is not initialised by the constructor: `Init`
takes either value. The logic worker is the only caller of `Send`, so two calls
never overlap; with two callers the unlocked store could undo the flag of a call
that has set it and `AtMostOneWrite` would fail, so this restriction is part of
what is shown. A message is the number of the call that made it. A write that
fails after some of its bytes is counted as not written.

**`HandleRead`** models `Session::start` and `handle_read`. A byte is named by its
frame and its position in it, so losing, doubling or mixing bytes is visible; the
header's contents are what the frame of its first byte says. `Receive` delivers
any number of bytes up to the size of `_data`. One turn of the loop is one action,
one action for each branch of the code, in its order: `HeadShort`, `RejectHead`,
`BodyShort` then `MarkParsed`, `BodyWhole`, `ResumeShort`, `ResumeDone`.
`MarkParsed` is a step of its own because the next read is started before
`_b_head_parse` is set. `StrandFree` is the strand. Id and length are what a `short` makes
of two bytes (`WireShort`), and the tests of `handle_read` are on signed numbers. A negative
id is an id without a callback. A negative length passes the test: `NegativeLength` is where
the model ends, since the process ends there (`new char[len + 1]` throws) or its behaviour
becomes undefined (at -1 the terminating zero is written in front of the array).

**`CSession`** models `CoroutineService/CSession.cpp` with the entry of the session in
`CServer`'s map. The coroutine of `start` is cut where it is suspended: `reading` says
in which `co_await` it waits, `ReadDone` and `ReadFails` are the ends of the read, and
each way on from there is an action: `HeadRefused`, `HeadParsed`, `BodyEmpty`,
`BodyDone`, `ReadThrows`; a negative length is `HeadThrows`, where the exception of the
allocation ends the session as a failed read does, or, at -1, `HeadUndefined`. The same thread runs `HandleWrite` and `HandleWriteError`, so
each of these is one step. The logic worker is the other thread: `SkipRequest` for an
id without a callback, `SendFull`, `SendPush`, and, because `Send` unlocks before it
writes, `SendWrite` as a step of its own with the chosen message in `chosen`. The
queue of the logic layer is the rest of `posted` behind `taken`, which is what
`LogicSystem` is shown to implement. A frame is its length and whether its id has a
callback; a reply is named by the request it answers. `ClearServer` holds the
server's mutex; the insert in `handle_accept` does not, but one thread runs them all.

**`Server`** models `Server.cpp`, the threads of `IOThreadPool` and the life of a
session. A handler is taken by a thread (`Run`), those of one session only one at a
time (the strand); an accept handler is on no strand and goes through `Start`,
`EnterMap`, `Insert` and `Rearm`, an error through `EnterMap` and `Erase`. An operation
on `_sessions` has a beginning and an end, so two threads can be in it; that is
undefined behaviour, recorded in `raced`, after which the effect of an operation
may be missing. `overtaken` remembers the sessions that were erased by their own
handler before the accepting thread had inserted them. What the session does with
bytes, how it writes and how nodes are queued are the other modules' subjects: here
a session has counts of requests posted, nodes waiting and replies queued. A node may have
no callback (`SkipNode`), and a queue that is not empty may be full and drop a reply
(`SendEnd`). A session
is destroyed when nothing holds a `shared_ptr` to it any more: the pending accept, the
map, a handler, an operation, a node, the worker (`Destroyed`).

**`IOThreadPool`** models `main` of AsyncServer and the pool. `posted` has the handlers
that wait in each of the two `io_context`s, the pool's and the local one of `main`; a
thread takes only those of the one it runs. `Create`, `Run`, `GetInstance`, `AsyncWait`
and `ServerStarts` may interleave as the threads do: a thread may be in
`io_context::run` before the server has given it anything to do, and `HasWork` says
whether `run` then returns. What the signal's handler would do
(`IOThreadPool::stop`, `bstop`) is the second half of `Handle`.

**`AsioIOServicePool`** models `main` of CoroutineService: the pool's threads with
their guards, the signal's handler that stops, resets and joins, and the order in which
things are destroyed afterwards, down to `std::terminate` in the destructor of a thread
nobody joined, or to a condition variable that waits for its last waiter. The worker of
`LogicSystem` goes on beside it; `stray` counts the calls of `Send` it makes when the
`io_context` of the sockets is gone already.

**`ProtoSession`** models AsyncServer_useProtobuf with any number of sessions. One
thread runs all handlers, so a handler is a step, but for `handle_read`, whose loop may
not end: it keeps the thread (`busy`), and each turn is an action named as in
`HandleRead`. Bytes are consumed in order, so they are counts here; what cutting does to
the contents is `HandleRead`'s subject. A reply is an answer or an echo of the request's own
bytes. A negative length is not refused here either: one below -1 ends the process
(`NegativeLength`), -1 is compared as an unsigned number and ends it as soon as a byte is
copied into the node without room (`Overflow`).

**`WebSocket`** models beast_websocket and websocket_test, whose code differs in one
catch block (`RemovesOnThrow`). `pending` is the set of outstanding operations;
`io_context::run`, and `main`, end when it is empty. `AsyncSend` is an operator with the
queue and the operations it finds, since the handlers call it in the middle of their
step. A message that is buffered already may be read after the peer is gone, so `Start` does
not ask whether it is. The buffer it gives to the write is its own parameter: `outgoing` is the message
or `Dead`. Exceptions in the middle of a handler are the `..._throws` actions.

**`HttpConnect`** models beast_http_server: for each connection the operation in
progress or its queued completion, the deadline's timer, the socket, the documents
written into the response and how much of it the socket has taken. A completion that is
queued cannot be cancelled any more, which is what lets deadline and write meet.

**`EchoServer`** models SyncServer and Coroutine (`Coroutines`) with testClient and
SyncClient. A byte is its place in what its client sends. Reads and writes take any
part; `asio::read` and `asio::write` go on to the end. `AcceptThrows` is the listener's
failure, which ends SyncServer past its unjoined threads and leaves Coroutine running
without a listener; a thread that uses its socket after the unwinding has destroyed the
`io_context` is `UseDestroyed`. A line as long as SyncClient's buffer is written past its
end (`RequestOverflows`).

**`AsycWrite`**, **`AsycRead`** model the class of AsycApi with whoever calls it: `main`
is empty there, so the caller is anyone who calls from the thread of the handlers, one
call at a time or not (`Overlap`). Every node has `RECVSIZE` bytes whatever is copied to it:
a longer message is undefined behaviour at once (`Overflows`).

**`GeneratedMessages`** models the classes protoc has generated, field by field as the
generated code does it: constructor, `Clear`, setters, `_InternalParse` (a turn of its
loop), `_InternalSerialize`, `ByteSizeLong`, `MergeFrom`, `CopyFrom`. The wire format
itself (varints, lengths, skipping an unknown field) belongs to the protobuf library and
is marked external. A tag that ends a message, 0 or the end of a group, is no unknown field
(`EndsMessage`); no tag that the five classes write is one (`TagsEndNothing` in
`CodecProofs`). **`Codec`** is a writer of one class and a reader of the same or
another: the server's `MsgData` and the client's, which names its field differently, are
two classes that talk to each other.

**`HandOffs`**, **`Connections`** and **`Progress`** put programs that share no state side
by side: `program` says which one a behaviour is of, and the variables of the others keep
their initial values, so the state space is the sum of the programs' and not their product.
Their properties are those of the modules, each stated for the programs it is about.
`MCHandOffs`, `MCStreams` and `MCProgress` only give their constants values. `Server` is in
two of them, with one session for progress and with two for the map.

Operators whose comment begins with `Altered:` are no part of the models. Each is
one of the definitions with a plausible mistake in it; substituted for the
definition it stands in front of, it makes one property fail (`mutants` in
`PROJECT.json`). They show that each property depends on the code it is about.

## 3. What is checked

| run | bounds | result |
|---|---|---|
| `handoffs` | see below | holds, 17678 states |
| `streams` | see below | holds, 760381 states |
| `progress` | see below | holds, 63794 states |
| `server_strand` | 1 session, 2 threads, 1 request | `OneThreadInSession` violated |
| `logic_system_stop` | 2 posters, 3 nodes | `GracefulStop` violated |
| `handle_read_parsed` | three frames, up to 5 posts | `UnfinishedIfParsed` violated |
| `io_thread_pool_signal` | 2 threads, 1 connection | `SignalEndsMain` violated |
| `invalid_length` | one frame | `InvalidLengthIsRefused` violated |
| `proto_parsed` | 1 session, up to 3 frames | `UnfinishedIfParsed` violated |
| `async_send` | 1 message of 2 bytes | `WholeIfAlone` violated |
| `queue_overlap` | 2 messages of 1 byte | `WireInOrder` violated |
| `recv_pending` | 2 nodes of 2 bytes | `PendingMeansReceiving` violated |

A violated property is what a comment or a message of the code says of it; section 5 has
them one by one.

Why these bounds are enough to see the interesting cases. `SHRT_MAX` is 5 in all runs, in
the place of 32767: the numbers 6 to 11 of the wire are then -6 to -1, and the limits of a
body lie below 5 as `MAX_LENGTH` lies below 32767.

*`handoffs`.* Two posters are what it takes for one to push a second message before the
worker has woken for the first; three nodes let the queue be non-empty while another is
called and a third, which has no callback, is skipped. Six calls of `Send` fill a queue of
three, drop one, drain and fill it again. For the coroutine session the limits of the body
and of the queue are the same constant: 1 lets a body be empty, allowed, too long and
negative, and four frames fill the queue of two, drop one reply and leave room for another.
Around an AsyncServer session, which is one here, two threads let a session's handler
overtake its accept handler, and two requests let a reply be queued behind one that is being
written; a third would only lengthen the queue.

*`streams`.* AsyncServer reads with a header of two bytes, which can be cut inside and at its
end, pieces of up to 4, and bodies of 0 to 4 bytes, shorter than, equal to and longer than
what a read has left, of lengths -2 and -1, and with a negative id; one frame, or three in a
row, needed for a cut message with one before and one behind it. Two sessions of its map are
what it takes for an accept handler and another session's error handler to be in it at once,
with one request each, as the properties are about the map alone. The protobuf server has
three frames, the queue's limit of two replies, an empty body, one that is too long, and the
two negative lengths. The websocket servers get five messages: one being written, one that is
queued twice behind it, and enough to see that nothing moves any more. Two HTTP connections
make the counter differ from the number of answers. Three messages of AsycApi are one being
written, one queued and one that comes later; four nodes allow a second read to be started
while one is outstanding. The codec has numbers whose varints take one, two and ten bytes,
both float zeros, strings that are empty, valid, not UTF-8 and long enough for a length of
two bytes, two messages in a stream, and every cut of it.

*`progress`* has the same programs smaller, as liveness needs no second case of what happened
once: two clients of different kinds for the echo servers, three threads of AsyncServer's
pool (one unborn, one at work, one run dry), two threads and three requests for the end of
CoroutineService, two protobuf sessions, of which one may hang the thread in front of the
other.

`MaxSends`, `MaxPosts`, `MaxFrames`, `MaxRequests`, `MaxPerSession`, `MaxMsgs`, `MaxCalls`,
`MaxNodes`, `MaxWritten` and the finite sets of nodes, sessions, connections, clients and
streams are the only bounds; deadlock checking is off where they end a behaviour and for
connections and programs that may end.

`handoffs` checks:

* *the logic layer*: no wake-up is lost although only the push that makes the size 1 notifies
  (`LogicNoLostWakeup`); the queue implements `FifoHandOff` (`LogicImplementsFifoHandOff`);
  every posted message is taken (`PostedIsTaken`) and every `PostMsgToQue` returns
  (`PostReturns`) as long as the process lives.
* *the reply queue*: one write in progress (`SendAtMostOneWrite`); a write or its handler is
  on its way exactly while there is something to write and no error has been handled, so no
  backlog is left and nothing is tried again after a failure (`SendWritesIffBacklog`); the
  refinement of `FifoHandOff` (`SendImplementsFifoHandOff`); every accepted message is
  written unless the connection breaks (`AcceptedIsWritten`).
* *a coroutine session*: one write chosen or in progress, in the window between unlock and
  write too (`AtMostOneWrite`); replies leave in the order of the requests and once at most
  (`RepliesInOrder`); a session in the map is alive (`NoDeadEntry`); the coroutine and the
  reply queue each implement `FifoHandOff` (`RequestsAreTaken`, `RepliesAreWritten`), with
  liveness; a session out of the map ends its coroutine (`CoroutineEnds`).
* *around a session*: one whose peer is gone is destroyed (`LostIsDestroyed`).

`streams` checks:

* *AsyncServer's map*, which has no lock: a session may stay for ever, but only if its own
  handler overtook the insert or two threads met in the map (`ZombieOnlyIfOvertaken`), and
  the server goes on accepting (`AlwaysAccepting`).
* *AsyncServer, receiving*: a registered session is always reading or handling
  (`AlwaysReading`); every byte is accounted for until the framing is out of step
  (`BytesAccounted`), and then messages are repeated but never invented
  (`OnlyRepeats`); a single request is posted once, and no copy leaves its buffer before a
  header with a negative length (`SinglePostedOnce`). What such a header does is
  `invalid_length`.
* *AsyncServer_useProtobuf*: replies keep the order of requests, one at most for each, until
  the framing is out of step (`ProtoRepliesInOrder`; a full queue drops replies); a session in
  the map goes on reading, whatever the cuts (`ProtoAlwaysReading`).
* *WebSocket*, both programs: what comes back comes in order, and the handler pops what
  was written (`EchoInOrder`); without a failure messages are left behind only a
  duplicate (`StallHasDuplicate`).
* *HTTP*: a response that is cut met its deadline or lost its peer (`CutExplained`);
  what ends in order is whole, what waits has its deadline to come, and the request
  counter is neither too low nor too high (`ShutMeansWhole`).
* *AsycApi*, of messages that have room in a node: called once at a time the first way writes
  them whole and in order and the queued ways lose only tails, and a backlog has a write also
  when calls overlap (`AsycWriteLoss`); reading goes right until a read is short
  (`AsycReadLoss`). What the comments promise beyond that does not hold: `async_send`,
  `queue_overlap`, `recv_pending`.
* *Message classes*: the size computed is the size written (`CodecSizeIsExact`); what
  arrives whole is restored, also through a reader of another class, and what is cut is
  refused or lacks fields (`CodecRestored`).

`progress` checks: a client of an echo server gets its echo and nothing else
(`EchoIsWhole`), and gets it in the end whatever the other clients do
(`ConnectedIsServed`); a request whose bytes have arrived is posted unless it is refused, has
a negative length or the connection is lost (`RequestIsPosted`); no protobuf session keeps
the thread from another unless it hangs (`ProtosAreServed`); the websocket servers end with
their first connection and leave the map empty but for a handler that threw
(`WebEndsWithConnection`); every HTTP connection is given up (`HttpReleased`); no thread of
AsyncServer's pool runs dry, and a connection is taken by one (`ConnectionIsServed`); the
signal makes CoroutineService join every thread of its pool (`SignalStopsPool`). That says
nothing of what comes after: the program ends cleanly if and only if it was never asked
anything, else it is terminated or waits for ever in a destructor, and its stray replies are
replies to what waited when it stopped (`ServiceEnds`).

### Fairness

A thread that can take a step takes one in the end: weak fairness of the worker,
of each poster past the lock, of queued completion handlers, of `handle_read`. The
mutex needs strong fairness (`Acquire`, `Lock`): it is free again and again but not
for ever, and the claim is that neither side is starved by a mutex that grants it
now and then; a `std::mutex` promises no more. A write ends: its bytes are taken, or the
connection is lost. Nothing is assumed of the calls themselves, of spurious wake-ups or of the
destructor.

Bytes that a client has sent arrive (`Receive` in `HandleRead`); nobody is assumed to close
or lose a connection, so `RequestIsPosted` cannot be had by a read error that must come. In
`CSession` a client may be silent for ever between two frames; a header it has
sent is followed by the body or the loss of the connection, and a read of a closed
socket is aborted. In `Server` the queue of an `io_context` and that of the logic
layer are first in, first out; as the model keeps them as sets and counts, this is
strong fairness of `Run` and of `SkipNode` and `SendBegin` for each session, and in
`ProtoSession`, where one thread serves all, of the handlers of each session. Operations of a
lost connection end; those of others need not. `HttpConnect` assumes that time passes
(`Expire`) and nothing of the peer; `WebSocket` that a write ends and that a read ends when
the peer is gone; `EchoServer` that threads, coroutines and client processes run; the two
pools that threads are scheduled. Nobody is assumed to connect, to send or to press Ctrl-C:
the properties begin with what has happened. `HandOffs` and `Progress` restate the fairness of
each module for the behaviours of its program, with the variables of that program as
subscript, and weak fairness where a module has strong, except for a poster that waits for
the mutex: the bounds end whatever could disable the action again and again.

## 4. What is proved

For every value of the constants:

* `LogicSystemProofs`: `TypeOK`, `MutexHeld` (the mutex is held exactly by the threads
  inside their critical sections), `NoLostWakeup`, `CallBackFront` (the node a callback
  works on stays in front)
* `SendQueueProofs`: `TypeOK`, `AtMostOneWrite`, `BufferIsFront` (the write's buffer
  belongs to the front node, which stays there), `WireInOrder` (what was accepted is what
  was written followed by what waits), `WritesIffBacklog`, `QueueBound`,
  `NoWriteAfterFailure`
* `CSessionProofs`: `TypeOK`, `AtMostOneWrite`, `BufferIsFront`, `RepliesInOrder`,
  `NoDeadEntry`, `NeverIdleWithBacklog`, `QueueBound`
* `ServerProofs`: `TypeOK`, `ZombieOnlyIfOvertaken`, `AlwaysAccepting`, and `NoZombie` (no
  session that nothing will take out again stays in the map) under the assumption that
  there is one thread
* for the first three, that their behaviours satisfy the safety part of `FifoHandOff`
  (theorems named `...Refinement`)
* `HandleReadProofs`: `TypeOK`, `CopiesInBounds` together with `EndedByLength` (nothing but a
  header with a negative length ends the process or makes its behaviour undefined),
  `AlwaysReading`, `BytesAccounted`, `OnlyRepeats`, `SinglePostedOnce`; of streams whose
  numbers are any that two bytes can hold
* `CodecProofs`: `SizeIsExact`, `WholeIsRestored`, `CutIsNeverWrong`, for strings of any
  bytes, all 32-bit numbers and floats
* `ConnectionsProofs`, of the behaviours of `Connections`: `ProtoRepliesInOrder`,
  `ProtoAlwaysReading`, `EchoInOrder`, `StallHasDuplicate`, `CutExplained`, `ShutMeansWhole`,
  `AsycWriteLoss`, `AsycReadLoss`, `CodecSizeIsExact`, `CodecRestored`, and `TypeOK` of the
  websocket servers
* `ProgressProofs`, of the behaviours of `Progress`: `EchoIsWhole`, `ServiceEnds`, and that
  no thread leaves AsyncServer's pool

So every invariant of a passing run is stated by a theorem. The theorems about `LogicSystem`,
`SendQueue` and `Server` are about these modules themselves; the runs check the same formulas
through the instances in `HandOffs` and `Connections`, under the names `LogicNoLostWakeup`,
`SendAtMostOneWrite`, `SendWritesIffBacklog`, `ZombieOnlyIfOvertaken` and `AlwaysAccepting`. The
properties listed here and not in section 3 have no run of their own: the theorem
says more. `streams` has those of `WebSocket` and `HttpConnect` under its own names,
`EchoInOrder` with `FrontIsWritten`, `ShutMeansWhole` with `TimerGuards` and
`CountBetween`.

The assumptions are the named ones of the modules: the worker, the posters and
"free" are different; the registered nodes are nodes; frames are records of a flag
and a length, or of an id and a length, both numbers that two bytes can hold; there is a
session, and "none" is neither a session nor a handler; the bounds are natural numbers,
`SHRT_MAX` is one, and the limit of a body in the two AsyncServers lies within it
(`MAX_LENGTH <= SHRT_MAX`, `DATA_LENGTH <= SHRT_MAX`); a buffer and a header are not empty; the connections of beast_http_server are finitely many, as its counter
counts them; a message of AsycApi is not empty, but for the program in which calls
overlap. Of the message classes: the two classes are among the five, and what the setters
are given has the type of the field, a string at most 2^31 - 1 bytes (`CodecAssumption`,
the hypothesis of `CodecProofs`, which `Connections` assumes of its constants).

*LogicSystem.* `NoLostWakeup` and `CallBackFront` are not inductive alone. `IInv` puts
them together with `TypeOK`, `MutexHeld`, `QueueIsSuffix` (the queue is the end of the
posted sequence) and `WaitsOnEmpty` (the worker that is about to wait has an empty
queue). `MutexHeld` is what makes the last one stable: nobody can push between the
worker's test and its wait. The proof has one lemma for each group of actions
(`PushIInv`, `PosterIInv`, `WorkerIInv`) and one for the popping steps
(`PopFacts`), which both the invariant and the refinement use.

*SendQueue.* The state of a session is one of five: idle, writing, written (the
handler is on its way), failing (the handler of a failed write is), failed. The three
in the middle have a queue and a write or handler, idle has neither, and failed has seen its
error: that is `WritesIffBacklog`. `IInv` says which state it is, ties `broken` and `write_failed` to it, and ties the flag to the
caller's place (`Calling`: between its first line and the lock, `_send_pending` is
false, so the test under the lock depends on the queue alone). All named properties
are consequences.

*CSession.* One more state, `Chosen`, is the window between `Send`'s unlock and its
write: it can only be entered from `Idle`, and in it there is no write whose
completion could pop the queue, which is why the released lock does no harm. The
order of the replies needs a chain of bounds: the requests are increasing and below
the frame being read (`PostedOrder`), the accepted replies are increasing and below
every request still to be answered (`AcceptedOrder`). For the refinement of the
requests, `Whole` says that every frame but the one being read has been posted.

*Server.* `Chain` follows a session's reads: one in progress, its handler ready, or
its handler running. `Chained` says that a session in the map, or between `start` and
its insert, has such a chain, unless it was overtaken or the map is damaged; a chain
ends only in `Erase`, which takes the session out or records that it was overtaken.
With one thread the thread in `Erase` is the one that would have to be entering, so
neither exception can arise. The counts in `TypeOK` need `CInv`: a session's one write
is in one place, and its message is in the queue.

*HandleRead.* The invariant has four parts. `Control` is about the variables that decide
which handler may run; with it alone `AlwaysReading` is inductive, whatever the bytes are.
`DataOK` and `NodesOK` place `copy_len` and `byte_transfered` in the buffer and the two
nodes within their sizes, which is what bounds the copies: a node is made only for a length
from 0 to `MAX_LENGTH`, since a length above is refused and one below ends the behaviour. `Framing` is about the contents:
with d messages complete, what has been consumed is exactly the d frames before and the
part of the next that the nodes hold (`Consumed`), where the next byte belongs is one of the
places `AtHead`, `AtBody`, `InBody`, `AtEnd` (`Place`), and what was posted is the first d
messages, the last of them any number of times once the framing is out of step
(`PostedOK`). The stream is the client's frames flattened, a fold; that it begins with the
first d frames, and the lengths of both, are proved by induction over the number of
frames, with the natural numbers' order being well-founded in the place of an induction
rule: a non-empty set of numbers has a smallest one, so a set with 0 that is closed
under + 1 has them all.

*Message classes.* That a size is exact needs no history, only the types of the two
messages: the library's formula, (9l + 73) / 64 of the binary logarithm l, is compared
with the number of groups of seven bits by cases of that number. What a reader makes of a
stream is another matter, as the bytes say nothing about the messages unless one knows
where a field begins. `Sound` therefore says that there is a sequence of items, one for
each field written, and of it (`Stream`): laid one after the other the items are the stream
(`Laid`); each is a field of one of the messages, and each field that is not the default
has one (`From`); and the merge of all messages has for each field the value of the last
item with its tag (`Last`). `Write` appends the items of one message and `Read` leaves
y as the outcome of a parse (`ReadAs`); the properties follow from `Sound` by what a parse does to
a stream of items. A varint ends where it was made to end, whatever follows, and is
unfinished wherever it is cut; so are strings and floats; so an item is read back exactly,
and a proper beginning of one is refused. Each of the five classes is reduced to what it
does with the tags it has (`Own`) and those it has not, and one turn of the loop takes `At`
from j to j + 1: a message after j items has for each of its fields the last of them, and
its unknown bytes are items again, among which the last of each other tag is the
stream's. That is why the first class reads the same out of what the second writes again.
The loop of a parse and the merge are recursive functions; that each exists and has the
values its equation says is proved from the order of the natural numbers, an induction
over a set in the place of one over a predicate. `CodecProofs` is a module about `Codec`;
as `Connections` has an instance of its own of that, `ConnectionsProofs` shows each operator
of the one to be the same as that of the other (`SameSerialize`, `SameParse` and their
like) and takes over the invariant.

*Connections* has one invariant for each program; a step of one leaves the variables of
the others alone.

* `ProtoInv`: of each session `Taken`, the bytes of the frames before and of what the two
  nodes hold, what is left of the piece in hand and what waits for the handler add up
  to what has been read (`Fed`), and only the session that has the thread has such a
  rest. The frame in hand was not refused, and its length is one, or -1 with nothing in the
  node (`Framed`). A session in the map reads, or has its handler waiting or running. Of the
  replies, those sent when k frames are known are in order, and the last of them is k's only
  if k has been replied to (`InOrder`). `Stuck` is the state in which the body is complete and
  its end has not been seen: the one that repeats the last reply when a byte follows. The
  number of bytes of the first k bodies is the cardinality of a set of places, which spares a
  sum and its induction.
* `HttpInv`: `ConnOK` ties operation, timer, socket, response and the histories of one
  connection together and is preserved by every step on it, as no step touches another
  connection. The counter is the exception: it is the cardinality of `Counts`, the
  counted requests that have a response, to which only `process_request` adds, and one.
* `WebInv`, of both values of `RemovesOnThrow`: a connection is in one of three states,
  `WebIdle`, `WebWriting` and `WebStuck`. While a write is outstanding the queue holds, one
  after the other, exactly the messages that have come and are not on the wire yet, so the
  front is what is being written; a connection that has messages and no write never
  writes again, so whatever has gone wrong with the queue does not reach the wire. Three
  things lead to the third state: a write that failed, a handler that threw, and
  `AsyncSend` called for a message that is in the queue already.
* `CodecProofs!Sound`, described above.
* AsycApi, writing. `FirstInv`: the wire is the messages before the newest and `_cur_len`
  bytes of the newest. Nothing is undefined unless a message has no room in its node, and
  then it is at the first call, after which nothing is claimed. `AloneInv`: with one call at a time there is one write or one
  handler, of the newest message. `BacklogInv`: with calls at any time there are at
  least as many writes and handlers as messages in the queue.
* AsycApi, reading (`ReadInv`): until a read is short there is one read, of the whole of
  the newest node.

*Progress.* `EchoInv`: what a client has got, what is on its way back, what the session
holds and what is on its way to it are, put together, what the client sent; every step
moves bytes from the front of one stretch to the end of the stretch before, or nothing.
Coroutine's steps are SyncServer's but for the end of `main`. `ServiceInv`: the place of
`main` tells which guards are left and which threads are joined, `LogicSystem` has an
instance exactly if something was posted, and from `ioc.run`'s return on the stray calls
and what is still to be answered are together at most what waited then.

Only model-checked: everything under fairness, that is the liveness part of the
refinements, the other properties of `handoffs` that say that something happens in the end,
and the properties of `progress` but for the two invariants, which TLAPS does not do. Only proved: `Sound` itself, whose items TLC would
have to guess; the runs check what it implies.

## 5. Where the code and its comments differ

* `LogicSystem.h:35` says of `_b_stop` that the logic class ends its worker and
  leaves gracefully. The destructor sets the flag without the mutex, notifies
  nobody and does not join; the joinable thread's destructor then terminates the
  process (`logic_system_stop`).
* `Session.h:38` says that `_b_head_parse` means that data of the message remain to
  be read. After a body that came in pieces it stays true with nothing left
  (`handle_read_parsed`): the lines 181-182 are missing behind line 221. What
  follows on the connection is not read any more; the last message is posted
  again for each further byte's turn, without end in one run of the handler, which
  `MaxPosts` cuts.
* `Session.h:49` says that the strand keeps several threads from calling the
  session's functions. It does so for the handlers of reads and writes; `Send` is
  called by the logic worker outside the strand and starts a write on the same
  socket while a handler of the session runs (`server_strand`). What `Send` does to
  the queue is protected by its lock; the socket is not.
* The signal set of AsyncServer's `main` (`AsyncServer.cpp:61`) works on a local
  `io_context` that nobody runs: its handler, the only one to set `bstop` and notify,
  never runs, and `main` waits for ever. The older variants kept in the comments at
  `AsyncServer.cpp:49-56` run that `io_context` (`io_thread_pool_signal`).
* `Session.cpp:140-144` means to refuse an "invalid data length". The length is in a `short`
  and compared with `MAX_LENGTH` only, so one from 32768 on, which is negative, is not refused
  and either ends the process, whose threads catch nothing, or makes its behaviour undefined
  (`invalid_length`). AsyncServer_useProtobuf (`Session.cpp:116`) and CoroutineService
  (`CSession.cpp:50`) have the same test; the coroutine catches the exception and loses only
  the session.
* `AsyncServer_useProtobuf/Session.h:73` says the same of `b_head_parse` as AsyncServer's
  `Session.h:38`, and it is as wrong (`proto_parsed`). Moreover the body that came in pieces is
  not parsed and answered: its bytes are sent back (`Session.cpp:187`), although
  `Session.cpp:143` says that the server sends its reply with protobuf. One more byte then keeps
  the only thread for ever, which `ProtosAreServed` excepts as `Hung`.
* `AsycApi/Session.h:49` says that the third way of writing sends everything at once with
  `async_send`. It may take a part like `async_write_some`, and the handler is the one that
  drops the rest (`async_send`).
* `AsycApi/Session.cpp:26-27` says that the queue solves the mixing of overlapping calls. The
  flag that should hold back the second call is set to false when the first has started its
  write, so both write at once and the second message is sent twice (`queue_overlap`); what
  `Session.h:66` says of that flag, that it is true while the queue has data, is so at no time
  at all.
* `AsycApi/Session.h:69` says that `_recv_pending` is true while the node is receiving. After a
  short read it is false with a read in progress (`recv_pending`); after a full node of the
  second way of reading it stays true with none.

Observed on the way, without a document that says otherwise: `beast_http_server.cpp:132-138`
answers a body that cannot be parsed with an error and does not return, so the answer for
success follows in the same body; with more than one
thread a session can be left in `_sessions` for ever (`Server.cpp:26-27`, see
`ZombieOnlyIfOvertaken`); a frame with an empty body ends a coroutine session
(`CSession.cpp:58`), although it is a legal frame for AsyncServer; the queue of a
coroutine session is limited by the length of a body, `MAX_LENGTH`, and not by
`MAX_SENDQUE` (`CSession.cpp:117`); a full queue of AsyncServer is reported with the size
`MAX_SENDQUE` and holds one more (`Session.cpp:45-47`, theorem `Bound`);
the websocket servers queue a message twice when another waits behind it and then stop
writing (`StallHasDuplicate`), and end with their first connection; the write buffer
may be dead when it is read (`Dead` in `EchoInOrder`); SyncServer's threads may use their
sockets when the `io_context` is gone (`UseDestroyed`); the deadline of beast_http_server may
close a response that has just been written, which takes nothing away; a CoroutineService
that has been asked anything ends in `std::terminate`, or not at all, on every signal
(`ServiceEnds`).

## 6. What is not modelled

* The text of requests and replies (JSON parsing, its exceptions), the memory of nodes,
  `uuid`s, logging.
* What a program does after undefined behaviour: a model that reaches it (a length of -1, a
  copy past the end of a buffer, the use of a destroyed object) records it and goes no
  further.
* The construction of singletons, and in AsyncServer the destruction of the members of
  `LogicSystem` while the worker runs. `IOThreadPool::stop` is called only by a handler
  that never runs; `IOThreadPool` has it as the setting of `bstop` behind it.
* `Close` on one thread with `async_write` on another, on the same socket object, is a
  data race; `CSession` has every order of the two as a whole and nothing in between.
* The blocking read of the reply in `JsonClient`, `JsonClient_forTest'` and
  `SyncClient_useProtobuf`: nothing can interleave with it.
* Of the wire format 64-bit fixed numbers, groups and field numbers of two bytes, which none of
  the classes write. In the generated message classes descriptors, reflection, arenas, default instances
  and swaps; of the gRPC programs the stubs and the call, which is the library's.
* `httptest`, which does not compile; `endPoint` and `ReadAtLeastServer`, functions of
  single library calls that keep no state from one to the next.

## 7. State of the plan

The modules of the plan are done: the five of the two main programs, their pools and
ends, and one for each of the other programs that keeps state. What remains is not left
for lack of a model but is listed in section 6 with its reason. A composition of
`HandleRead`, `LogicSystem` and `SendQueue` for several sessions exists as `Server`, at
the grain at which its state space can be searched; `_mutex` and `_send_lock` are nested
in one direction only (the callback under the mutex calls `Send`, and nothing under
`_send_lock` posts), so the order of the locks needs no model of its own.

Every invariant the passing runs check is proved, and so is the safety part of each
refinement. What remains with TLC is the progress of each program.
