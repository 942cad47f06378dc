------------------------------ MODULE Progress ------------------------------
(***************************************************************************)
(* What must happen in the end, in the programs that share no state with   *)
(* each other and are therefore checked together: `program` says which of  *)
(* them a behaviour is one of, and the variables of the others stay as     *)
(* their Init leaves them.                                                 *)
(*                                                                         *)
(*   threads     SyncServer, with its clients, of either kind              *)
(*   coroutines  Coroutine, with the same clients                          *)
(*   read        AsyncServer, receiving: one connection                    *)
(*   protos      AsyncServer_useProtobuf, any connections                  *)
(*   beast       beast_websocket                                           *)
(*   test        websocket_test                                            *)
(*   http        beast_http_server, any connections                        *)
(*   pool        AsyncServer's main and its I/O threads                    *)
(*   service     CoroutineService's main, pool and logic worker            *)
(***************************************************************************)
EXTENDS EchoServer, FiniteSets

CONSTANTS
  Entered,                           \* while each program runs, the lines of the echo clients
  SHRT_MAX,                          \* of both AsyncServers: the largest short
  HEAD_TOTAL_LEN, MAX_LENGTH,        \* of AsyncServer, receiving
  Streams, MaxPosts,
  Sessions, NoSession, HEAD_LENGTH,  \* of AsyncServer_useProtobuf, where MAX_LENGTH is
  DATA_LENGTH, MAX_SENDQUE, Bodies,  \* DATA_LENGTH, and each session has its stream
  StreamOf,
  MaxMsgs,                           \* of the websocket servers
  Conns,                             \* of beast_http_server
  PoolThreads, PoolConns,            \* of AsyncServer's main
  ServiceThreads, MaxRequests        \* of CoroutineService's main

VARIABLES program,
          hr_stream, hr_nread, hr_data, hr_reading, hr_arrived, hr_hpc, hr_copy_len,
          hr_byte_transfered, hr_b_head_parse, hr_head, hr_msg, hr_registered, hr_posted,
          p_busy, p_sess,
          ws_pending, ws_inMap, ws_queue, ws_outgoing, ws_up, ws_threw, ws_received, ws_wire,
          hc_running, hc_op, hc_timer, hc_sock, hc_req, hc_body, hc_wire, hc_count,
          hc_late, hc_lost,
          io_main, io_loop, io_works, io_posted, io_bstop, io_signalled, io_served,
          as_main, as_works, as_thread, as_worker, as_queue, as_posts, as_close,
          as_backlog, as_stray

\* The module extended is SyncServer (Coroutines = FALSE); this one has its variables.
Coroutine == INSTANCE EchoServer WITH Coroutines <- TRUE

Reader == INSTANCE HandleRead WITH
  stream <- hr_stream, nread <- hr_nread, data <- hr_data, reading <- hr_reading,
  arrived <- hr_arrived, hpc <- hr_hpc, copy_len <- hr_copy_len,
  byte_transfered <- hr_byte_transfered, b_head_parse <- hr_b_head_parse, head <- hr_head,
  msg <- hr_msg, registered <- hr_registered, posted <- hr_posted

Protos == INSTANCE ProtoSession WITH
  MAX_LENGTH <- DATA_LENGTH, Streams <- Bodies, busy <- p_busy, sess <- p_sess

Beast == INSTANCE WebSocket WITH
  RemovesOnThrow <- TRUE,
  pending <- ws_pending, inMap <- ws_inMap, queue <- ws_queue, outgoing <- ws_outgoing,
  up <- ws_up, threw <- ws_threw, received <- ws_received, wire <- ws_wire

Test == INSTANCE WebSocket WITH
  RemovesOnThrow <- FALSE,
  pending <- ws_pending, inMap <- ws_inMap, queue <- ws_queue, outgoing <- ws_outgoing,
  up <- ws_up, threw <- ws_threw, received <- ws_received, wire <- ws_wire

Http == INSTANCE HttpConnect WITH
  running <- hc_running, op <- hc_op, timer <- hc_timer, sock <- hc_sock, req <- hc_req,
  body <- hc_body, wire <- hc_wire, count <- hc_count, late <- hc_late, lost <- hc_lost

Pool == INSTANCE IOThreadPool WITH
  Threads <- PoolThreads, Conns <- PoolConns,
  main <- io_main, loop <- io_loop, works <- io_works, posted <- io_posted,
  bstop <- io_bstop, signalled <- io_signalled, served <- io_served

Service == INSTANCE AsioIOServicePool WITH
  Threads <- ServiceThreads, MaxPosts <- MaxRequests,
  main <- as_main, works <- as_works, thread <- as_thread, worker <- as_worker,
  queue <- as_queue, posts <- as_posts, close <- as_close, backlog <- as_backlog,
  stray <- as_stray

echo == vars
read == <<hr_stream, hr_nread, hr_data, hr_reading, hr_arrived, hr_hpc, hr_copy_len,
          hr_byte_transfered, hr_b_head_parse, hr_head, hr_msg, hr_registered, hr_posted>>
protos == <<p_busy, p_sess>>
web == <<ws_pending, ws_inMap, ws_queue, ws_outgoing, ws_up, ws_threw, ws_received, ws_wire>>
http == <<hc_running, hc_op, hc_timer, hc_sock, hc_req, hc_body, hc_wire, hc_count, hc_late, hc_lost>>
pool == <<io_main, io_loop, io_works, io_posted, io_bstop, io_signalled, io_served>>
service == <<as_main, as_works, as_thread, as_worker, as_queue, as_posts, as_close,
             as_backlog, as_stray>>

In(p) == program = p
Programs == {"threads", "coroutines", "read", "protos", "beast", "test", "http", "pool", "service"}

\* A program that does not run has one initial state.
Unused == /\ line \in Entered[program]
          /\ \A s \in Sessions : p_sess[s].stream = StreamOf[s]
          /\ ~In("read") => hr_stream = CHOOSE st \in Streams : TRUE

ProgressInit == /\ program \in Programs
                /\ Init /\ Reader!Init /\ Protos!Init /\ Beast!Init /\ Http!Init
                /\ Pool!Init /\ Service!Init
                /\ Unused

EchoNext == /\ (In("threads") /\ Next) \/ (In("coroutines") /\ Coroutine!Next)
            /\ UNCHANGED <<program, read, protos, web, http, pool, service>>
ReadNext == In("read") /\ Reader!Next /\ UNCHANGED <<program, echo, protos, web, http, pool, service>>
ProtosNext == In("protos") /\ Protos!Next /\ UNCHANGED <<program, echo, read, web, http, pool, service>>
WebNext == /\ (In("beast") /\ Beast!Next) \/ (In("test") /\ Test!Next)
           /\ UNCHANGED <<program, echo, read, protos, http, pool, service>>
HttpNext == In("http") /\ Http!Next /\ UNCHANGED <<program, echo, read, protos, web, pool, service>>
PoolNext == In("pool") /\ Pool!Next /\ UNCHANGED <<program, echo, read, protos, web, http, service>>
ServiceNext == In("service") /\ Service!Next /\ UNCHANGED <<program, echo, read, protos, web, http, pool>>

ProgressNext == \/ EchoNext \/ ReadNext \/ ProtosNext \/ WebNext \/ HttpNext
                \/ PoolNext \/ ServiceNext

-----------------------------------------------------------------------------
(* Fairness: that of each module, while its program runs.  Where the module *)
(* asks for strong fairness weak fairness is enough here, as every bound    *)
(* ends what could disable the action again and again.                      *)

Echoing == In("threads") \/ In("coroutines")
EchoFair == /\ WF_echo(Echoing /\ Listen)
            /\ WF_echo(In("threads") /\ Leave)
            /\ \A c \in Clients : /\ WF_echo(Echoing /\ Accept(c))
                                  /\ WF_echo(Echoing /\ Session(c))
                                  /\ WF_echo(Echoing /\ Client(c))

ReadFair == /\ WF_read(In("read") /\ Reader!Handler)
            /\ WF_read(In("read") /\ Reader!Receive)

ProtosFair == \A c \in Sessions :
  /\ WF_protos(In("protos") /\ Protos!Up /\ Protos!handle_read(c))
  /\ WF_protos(In("protos") /\ Protos!Up /\ (Protos!Enter(c) \/ Protos!EnterError(c)))
  /\ WF_protos(In("protos") /\ Protos!Up /\ (Protos!handle_write(c) \/ Protos!handle_write_error(c)))
  /\ WF_protos(In("protos") /\ Protos!Up /\ Protos!WriteEnds(c))

Websockets == In("beast") \/ In("test")
WebFair == /\ WF_web(Websockets /\ (Beast!Written \/ Beast!Written_error))
           /\ WF_web(Websockets /\ ~ws_up /\ Beast!Start_error)
           /\ WF_web(Websockets /\ ~ws_up /\ Beast!Async_accept_error)

HttpFair == \A c \in Conns : /\ WF_http(In("http") /\ hc_running /\ Http!Handlers(c))
                             /\ WF_http(In("http") /\ hc_running /\ Http!Expire(c))

PoolFair == /\ \A t \in PoolThreads :
                 /\ WF_pool(In("pool") /\ Pool!Alive /\ Pool!Create(t))
                 /\ WF_pool(In("pool") /\ Pool!Alive /\ Pool!Run(t))
                 /\ WF_pool(In("pool") /\ Pool!Alive
                            /\ \E h \in PoolConns \cup {"signal"} : Pool!Handle(t, h))
            /\ WF_pool(In("pool") /\ Pool!Main)

ServiceFair ==
  /\ \A t \in ServiceThreads :
       WF_service(In("service") /\ ~Service!Over /\ (Service!Run(t) \/ Service!Return(t)))
  /\ WF_service(In("service") /\ ~Service!Over /\ Service!Worker)
  /\ WF_service(In("service") /\ Service!Stopping)

ProgressSpec ==
  /\ ProgressInit
  /\ [][ProgressNext]_<<program, echo, read, protos, web, http, pool, service>>
  /\ EchoFair /\ ReadFair /\ ProtosFair /\ WebFair /\ HttpFair /\ PoolFair /\ ServiceFair

-----------------------------------------------------------------------------
(* Properties: those of the modules, each while its program runs.           *)

\* AsyncServer: the one request of a connection is posted, unless it is refused, has a
\* negative length, or the connection is lost; no path through handle_read gets stuck.
RequestIsPosted == In("read") => Reader!RequestIsPosted

\* AsyncServer_useProtobuf: a session that has read is served, unless one whose
\* framing is out of step hangs the thread or a negative length ends the process.
ProtosAreServed == Protos!EverySessionIsServed

\* The websocket servers end with their first connection, also when it has stalled,
\* and with an empty map but for a handler that threw.
WebEndsWithConnection == Beast!EndsWithConnection

\* beast_http_server gives every connection up in the end.
HttpReleased == Http!Released

\* AsyncServer: whatever the order in which threads and main start, no thread leaves
\* the pool, and a connection that arrives is taken by one.
ConnectionIsServed == []Pool!ThreadsStay /\ Pool!ConnectionIsServed

\* CoroutineService: the signal stops the pool, every thread of which is joined.
SignalStopsPool == Service!SignalStopsPool

\* The program ends cleanly exactly if nothing was ever asked; calls after the end of the
\* io_context are for requests that waited when it stopped.
ServiceEnds == Service!CleanIfNeverAsked /\ Service!StrayOnlyFromBacklog
=============================================================================
