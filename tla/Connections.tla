----------------------------- MODULE Connections -----------------------------
(***************************************************************************)
(* What becomes of connections, their bytes and their messages, in the     *)
(* programs that share no state with each other and are therefore checked  *)
(* together: `program` says which of them a behaviour is one of, and the   *)
(* variables of the others stay as their Init leaves them.  Safety only.   *)
(*                                                                         *)
(*   read       AsyncServer, receiving: one connection                     *)
(*   server     AsyncServer: the map of sessions and their handlers        *)
(*   proto      AsyncServer_useProtobuf, any connections                   *)
(*   beast      beast_websocket                                            *)
(*   test       websocket_test                                             *)
(*   http       beast_http_server, any connections                         *)
(*   writeErr   AsycApi, the first way of writing, a call at a time        *)
(*   write      AsycApi, the queued ways, a call at a time                 *)
(*   overlap    AsycApi, the queued ways, with calls at any time           *)
(*   readSome, readAll   AsycApi, the two ways of reading                  *)
(*   codec      the generated message classes                              *)
(***************************************************************************)
EXTENDS HandleRead, FiniteSets

CONSTANTS
  ServerSessions, ServerThreads,     \* of AsyncServer, around its sessions
  MaxPerSession,
  Sessions, NoSession, HEAD_LENGTH,  \* of AsyncServer_useProtobuf,
  DATA_LENGTH, MAX_SENDQUE, Bodies,  \* where MAX_LENGTH is DATA_LENGTH
  MaxMsgs,                           \* of the websocket servers
  Conns,                             \* of beast_http_server
  MaxCalls, Size, OverlapSize,       \* of AsycApi, writing: the length of a message,
                                     \* and of one that does not wait for the last
  RECVSIZE,                          \* of AsycApi, its nodes
  MaxNodes,                          \* of AsycApi, reading
  ClassPairs, FieldStrings, Ints,    \* of the generated messages
  Floats, MaxWritten

ASSUME ProtoAssumption == /\ HEAD_LENGTH \in Nat \ {0}
                          /\ DATA_LENGTH \in Nat \ {0}
                          /\ MAX_SENDQUE \in Nat
                          /\ DATA_LENGTH <= SHRT_MAX
                          /\ Bodies \subseteq Seq(Wire)
                          /\ NoSession \notin Sessions
ASSUME WebAssumption == MaxMsgs \in Nat
ASSUME HttpAssumption == IsFiniteSet(Conns)
ASSUME AsycAssumption == /\ MaxCalls \in Nat
                         /\ Size \in Nat \ {0}
                         /\ OverlapSize \in Nat
                         /\ RECVSIZE \in Nat \ {0}
                         /\ MaxNodes \in Nat

VARIABLES program,
          sv_accepting, sv_made, sv_lost, sv_reading, sv_writing, sv_ready, sv_handler,
          sv_pc, sv_sessions, sv_requests, sv_nodes, sv_sending, sv_queued, sv_raced,
          sv_overtaken,
          p_busy, p_sess,
          ws_pending, ws_inMap, ws_queue, ws_outgoing, ws_up, ws_threw, ws_received, ws_wire,
          hc_running, hc_op, hc_timer, hc_sock, hc_req, hc_body, hc_wire, hc_count,
          hc_late, hc_lost,
          aw_calls, aw_node, aw_cur_len, aw_queue, aw_pending, aw_writes, aw_completions,
          aw_broken, aw_undefined, aw_wire,
          ar_pending, ar_node, ar_nodes, ar_cur_len, ar_reads, ar_results, ar_short,
          ar_undefined,
          cd_pair, cd_x, cd_y, cd_wire, cd_status, cd_limit, cd_written

Map == INSTANCE Server WITH
  Sessions <- ServerSessions, Threads <- ServerThreads, MaxRequests <- MaxPerSession,
  None <- NoSession,
  accepting <- sv_accepting, made <- sv_made, lost <- sv_lost, reading <- sv_reading,
  writing <- sv_writing, ready <- sv_ready, handler <- sv_handler, pc <- sv_pc,
  sessions <- sv_sessions, requests <- sv_requests, nodes <- sv_nodes,
  sending <- sv_sending, queued <- sv_queued, raced <- sv_raced, overtaken <- sv_overtaken

Proto == INSTANCE ProtoSession WITH
  MAX_LENGTH <- DATA_LENGTH, Streams <- Bodies, busy <- p_busy, sess <- p_sess

Beast == INSTANCE WebSocket WITH
  RemovesOnThrow <- TRUE,
  pending <- ws_pending, inMap <- ws_inMap, queue <- ws_queue, outgoing <- ws_outgoing,
  up <- ws_up, threw <- ws_threw, received <- ws_received, wire <- ws_wire

Test == INSTANCE WebSocket WITH
  RemovesOnThrow <- FALSE,
  pending <- ws_pending, inMap <- ws_inMap, queue <- ws_queue, outgoing <- ws_outgoing,
  up <- ws_up, threw <- ws_threw, received <- ws_received, wire <- ws_wire

Http == INSTANCE HttpConnect WITH
  running <- hc_running, op <- hc_op, timer <- hc_timer, sock <- hc_sock, req <- hc_req,
  body <- hc_body, wire <- hc_wire, count <- hc_count, late <- hc_late, lost <- hc_lost

WriteErr == INSTANCE AsycWrite WITH
  Queued <- FALSE, Overlap <- FALSE,
  calls <- aw_calls, send_node <- aw_node, cur_len <- aw_cur_len, send_queue <- aw_queue,
  send_pending <- aw_pending, writes <- aw_writes, completions <- aw_completions,
  broken <- aw_broken, undefined <- aw_undefined, wire <- aw_wire

Writing == INSTANCE AsycWrite WITH
  Queued <- TRUE, Overlap <- FALSE,
  calls <- aw_calls, send_node <- aw_node, cur_len <- aw_cur_len, send_queue <- aw_queue,
  send_pending <- aw_pending, writes <- aw_writes, completions <- aw_completions,
  broken <- aw_broken, undefined <- aw_undefined, wire <- aw_wire

Overlapping == INSTANCE AsycWrite WITH
  Size <- OverlapSize, Queued <- TRUE, Overlap <- TRUE,
  calls <- aw_calls, send_node <- aw_node, cur_len <- aw_cur_len, send_queue <- aw_queue,
  send_pending <- aw_pending, writes <- aw_writes, completions <- aw_completions,
  broken <- aw_broken, undefined <- aw_undefined, wire <- aw_wire

ReadSome == INSTANCE AsycRead WITH
  All <- FALSE,
  recv_pending <- ar_pending, recv_node <- ar_node, nodes <- ar_nodes, cur_len <- ar_cur_len,
  reads <- ar_reads, results <- ar_results, short <- ar_short,
  undefined <- ar_undefined

ReadAll == INSTANCE AsycRead WITH
  All <- TRUE,
  recv_pending <- ar_pending, recv_node <- ar_node, nodes <- ar_nodes, cur_len <- ar_cur_len,
  reads <- ar_reads, results <- ar_results, short <- ar_short,
  undefined <- ar_undefined

Codes == INSTANCE Codec WITH
  Pairs <- ClassPairs, Strings <- FieldStrings,
  pair <- cd_pair, x <- cd_x, y <- cd_y, wire <- cd_wire, status <- cd_status,
  limit <- cd_limit, written <- cd_written

ASSUME MapAssumption == Map!ServerAssumption
ASSUME CodesAssumption == Codes!CodecAssumption

server == <<sv_accepting, sv_made, sv_lost, sv_reading, sv_writing, sv_ready, sv_handler,
            sv_pc, sv_sessions, sv_requests, sv_nodes, sv_sending, sv_queued, sv_raced,
            sv_overtaken>>
proto == <<p_busy, p_sess>>
web == <<ws_pending, ws_inMap, ws_queue, ws_outgoing, ws_up, ws_threw, ws_received, ws_wire>>
http == <<hc_running, hc_op, hc_timer, hc_sock, hc_req, hc_body, hc_wire, hc_count, hc_late, hc_lost>>
asycWrite == <<aw_calls, aw_node, aw_cur_len, aw_queue, aw_pending, aw_writes, aw_completions,
               aw_broken, aw_undefined, aw_wire>>
asycRead == <<ar_pending, ar_node, ar_nodes, ar_cur_len, ar_reads, ar_results, ar_short,
              ar_undefined>>
codec == <<cd_pair, cd_x, cd_y, cd_wire, cd_status, cd_limit, cd_written>>

In(p) == program = p
Programs == {"read", "server", "proto", "beast", "test", "http", "writeErr", "write", "overlap",
             "readSome", "readAll", "codec"}

\* A program that does not run has one initial state.
Unused == /\ ~In("read") => stream = CHOOSE st \in Streams : TRUE
          /\ ~In("proto") => \A s \in Sessions : p_sess[s].stream = CHOOSE st \in Bodies : TRUE
          /\ ~In("readSome") /\ ~In("readAll") => ar_pending
          /\ ~In("codec") => cd_pair = CHOOSE p \in ClassPairs : TRUE

StreamsInit == /\ program \in Programs
               /\ Init /\ Map!Init /\ Proto!Init /\ Beast!Init /\ Http!Init
               /\ Writing!Init /\ ReadSome!Init /\ Codes!Init
               /\ Unused

Reading == /\ In("read") /\ Next
           /\ UNCHANGED <<program, server, proto, web, http, asycWrite, asycRead, codec>>
Serving == /\ In("server") /\ Map!Next
           /\ UNCHANGED <<program, vars, proto, web, http, asycWrite, asycRead, codec>>
Replying == /\ In("proto") /\ Proto!Next
            /\ UNCHANGED <<program, vars, server, web, http, asycWrite, asycRead, codec>>
Echoing == /\ (In("beast") /\ Beast!Next) \/ (In("test") /\ Test!Next)
           /\ UNCHANGED <<program, vars, server, proto, http, asycWrite, asycRead, codec>>
Answering == /\ In("http") /\ Http!Next
             /\ UNCHANGED <<program, vars, server, proto, web, asycWrite, asycRead, codec>>
AsycWriting == /\ \/ In("writeErr") /\ WriteErr!Next
                  \/ In("write") /\ Writing!Next
                  \/ In("overlap") /\ Overlapping!Next
               /\ UNCHANGED <<program, vars, server, proto, web, http, asycRead, codec>>
AsycReading == /\ (In("readSome") /\ ReadSome!Next) \/ (In("readAll") /\ ReadAll!Next)
               /\ UNCHANGED <<program, vars, server, proto, web, http, asycWrite, codec>>
Coding == /\ In("codec") /\ Codes!Next
          /\ UNCHANGED <<program, vars, server, proto, web, http, asycWrite, asycRead>>

StreamsNext == \/ Reading \/ Serving \/ Replying \/ Echoing \/ Answering
               \/ AsycWriting \/ AsycReading \/ Coding

StreamsSpec ==
  /\ StreamsInit
  /\ [][StreamsNext]_<<program, vars, server, proto, web, http, asycWrite, asycRead, codec>>

-----------------------------------------------------------------------------
(* Properties: those of the modules, each while its program runs.           *)

\* AsyncServer: a session that has ended stays in the map only if it was removed before
\* it was inserted, which takes two threads.
ZombieOnlyIfOvertaken == Map!ZombieOnlyIfOvertaken

\* Connections go on being accepted, whatever becomes of those that were.
AlwaysAccepting == Map!AlwaysAccepting

\* AsyncServer_useProtobuf: replies keep the order of the requests, for every cut.
ProtoRepliesInOrder == Proto!RepliesInOrder

\* Whatever the cuts, a session in the map goes on reading, unless its loop does not
\* end.
ProtoAlwaysReading == Proto!AlwaysReading

\* The websocket servers echo in order, and the handler of a write pops the
\* message that was written.
EchoInOrder == Beast!EchoInOrder /\ Beast!FrontIsWritten

\* They leave messages unwritten only behind one that was queued twice.
StallHasDuplicate == Beast!StallHasDuplicate

\* beast_http_server: a response that is not written whole is explained by the
\* deadline or the peer.
CutExplained == Http!CutExplained

\* What ends in order is whole, whatever waits has its deadline still to come, and
\* the request counter is neither too low nor too high.
ShutMeansWhole == Http!ShutMeansWhole /\ Http!TimerGuards /\ Http!CountBetween

\* AsycApi: with one call at a time the first way writes messages whole, the queue
\* loses nothing but tails; with more calls a backlog still has a write.  A message
\* that does not fit a node is excepted, and nothing else.
AsycWriteLoss == /\ In("writeErr") => /\ WriteErr!WireInOrder /\ WriteErr!WholeIfAlone
                                      /\ WriteErr!EmptyPopNeedsOverlap
                 /\ In("write") => Writing!OnlyTailsLost /\ Writing!EmptyPopNeedsOverlap
                 /\ In("overlap") => Overlapping!NeverIdleWithBacklog

\* Reading goes right until a read is short.
AsycReadLoss == /\ In("readSome") => ReadSome!RightUntilShort
                /\ In("readAll") => ReadAll!RightUntilShort

\* The generated classes: the size computed is the size written.
CodecSizeIsExact == Codes!SizeIsExact

\* What arrived whole is restored, what was cut is refused or misses fields.
CodecRestored == Codes!WholeIsRestored /\ Codes!CutIsNeverWrong
=============================================================================
