------------------------------ MODULE HandOffs ------------------------------
(***************************************************************************)
(* How requests and replies are handed from thread to thread, in programs, *)
(* and parts of programs, that share no state here and are therefore       *)
(* checked together: `program` says which of them a behaviour is one of,   *)
(* and the variables of the others stay as their Init leaves them.         *)
(*                                                                         *)
(*   session    CoroutineService: one session                              *)
(*   logic      AsyncServer: the logic layer                               *)
(*   send       AsyncServer: the replies of a session                      *)
(*   server     AsyncServer: the map of sessions and their handlers        *)
(***************************************************************************)
EXTENDS CSession, FiniteSets

CONSTANTS
  Posters, Nodes, Registered,        \* of AsyncServer's logic layer
  LogicWorker, Free,
  SENDQUE_LIMIT, MaxSends,           \* of AsyncServer, sending
  Sessions, Threads, MaxRequests,    \* of AsyncServer, around its sessions
  None

VARIABLES program,
          ls_msg_que, ls_b_stop, ls_mutex, ls_wpc, ls_ppc, ls_node, ls_process, ls_posted,
          ls_called,
          sq_send_queue, sq_send_pending, sq_calls, sq_spc, sq_writes, sq_completions,
          sq_broken, sq_write_failed, sq_accepted, sq_wire,
          sv_accepting, sv_made, sv_lost, sv_reading, sv_writing, sv_ready, sv_handler,
          sv_pc, sv_sessions, sv_requests, sv_nodes, sv_sending, sv_queued, sv_raced,
          sv_overtaken

\* The module extended is CoroutineService's session; this one has its variables.
Logic == INSTANCE LogicSystem WITH
  Worker <- LogicWorker,
  msg_que <- ls_msg_que, b_stop <- ls_b_stop, mutex <- ls_mutex, wpc <- ls_wpc,
  ppc <- ls_ppc, node <- ls_node, process <- ls_process, posted <- ls_posted,
  called <- ls_called

Send == INSTANCE SendQueue WITH
  MAX_SENDQUE <- SENDQUE_LIMIT,
  send_queue <- sq_send_queue, send_pending <- sq_send_pending, calls <- sq_calls,
  spc <- sq_spc, writes <- sq_writes, completions <- sq_completions, broken <- sq_broken,
  write_failed <- sq_write_failed, accepted <- sq_accepted, wire <- sq_wire

Map == INSTANCE Server WITH
  accepting <- sv_accepting, made <- sv_made, lost <- sv_lost, reading <- sv_reading,
  writing <- sv_writing, ready <- sv_ready, handler <- sv_handler, pc <- sv_pc,
  sessions <- sv_sessions, requests <- sv_requests, nodes <- sv_nodes,
  sending <- sv_sending, queued <- sv_queued, raced <- sv_raced, overtaken <- sv_overtaken

ASSUME LogicAssumption == Logic!RegisteredAssumption /\ Logic!ThreadsAssumption
ASSUME SendAssumption == Send!SendQueueAssumption
ASSUME MapAssumption == Map!ServerAssumption

session == vars
logic == <<ls_msg_que, ls_b_stop, ls_mutex, ls_wpc, ls_ppc, ls_node, ls_process, ls_posted,
           ls_called>>
send == <<sq_send_queue, sq_send_pending, sq_calls, sq_spc, sq_writes, sq_completions,
          sq_broken, sq_write_failed, sq_accepted, sq_wire>>
server == <<sv_accepting, sv_made, sv_lost, sv_reading, sv_writing, sv_ready, sv_handler,
            sv_pc, sv_sessions, sv_requests, sv_nodes, sv_sending, sv_queued, sv_raced,
            sv_overtaken>>
handOffs == <<session, logic, send, server>>

In(p) == program = p
Programs == {"session", "logic", "send", "server"}

\* A program that does not run has one initial state.
Unused == /\ ~In("logic") => ls_node = CHOOSE f \in [Posters -> Nodes] : TRUE
          /\ ~In("send") => sq_send_pending

HandOffsInit == /\ program \in Programs
                /\ Init /\ Logic!Init /\ Send!Init /\ Map!Init
                /\ Unused

HandOffsNext ==
  /\ UNCHANGED program
  /\ \/ In("session") /\ Next /\ UNCHANGED <<logic, send, server>>
     \/ In("logic") /\ Logic!Next /\ UNCHANGED <<session, send, server>>
     \/ In("send") /\ Send!Next /\ UNCHANGED <<session, logic, server>>
     \/ In("server") /\ Map!Next /\ UNCHANGED <<session, logic, send>>

-----------------------------------------------------------------------------
(* Fairness: that of each module, while its program runs.  Where the module *)
(* asks for strong fairness weak fairness is enough here, as every bound    *)
(* ends what could disable the action again and again.                      *)

SessionFair ==
  /\ WF_session(In("session") /\ Defined /\ Coroutine)
  /\ WF_session(In("session") /\ Defined /\ Worker)
  /\ WF_session(In("session") /\ Defined /\ (HandleWrite \/ HandleWriteError))
  /\ WF_session(In("session") /\ Defined /\ WriteEnds)
  /\ WF_session(In("session") /\ Defined /\ (reading = "body" \/ b_close)
                                       /\ (ReadDone \/ ReadFails))

LogicFair ==
  /\ \A p \in Posters : /\ WF_logic(In("logic") /\ (Logic!Push(p) \/ Logic!Notify(p) \/ Logic!Return(p)))
                        /\ SF_logic(In("logic") /\ Logic!Acquire(p))
  /\ WF_logic(In("logic") /\ Logic!DealMsg)
  /\ WF_logic(In("logic") /\ Logic!Lock)

SendFair == /\ WF_send(In("send") /\ (Send!SendFull \/ Send!SendPush))
            /\ WF_send(In("send") /\ (Send!HandleWrite \/ Send!HandleWriteError))
            /\ WF_send(In("send") /\ Send!Socket)

ServerFair ==
  /\ \A t \in Threads : WF_server(In("server") /\ Map!Handler(t))
  /\ WF_server(In("server") /\ Map!SendEnd)
  /\ \A s \in Sessions :
       /\ WF_server(In("server") /\ \E t \in Threads, h \in Map!Handlers :
                                      h.session = s /\ Map!Run(t, h))
       /\ WF_server(In("server") /\ (Map!SkipNode(s) \/ Map!SendBegin(s)))
       /\ WF_server(In("server") /\ s \in sv_lost /\ (Map!ReadEnds(s) \/ Map!WriteEnds(s)))

HandOffsSpec == /\ HandOffsInit
                /\ [][HandOffsNext]_<<program, handOffs>>
                /\ SessionFair /\ LogicFair /\ SendFair /\ ServerFair

-----------------------------------------------------------------------------
(* Properties: those of the modules, each while its program runs, and those *)
(* of CSession under their own names.                                       *)

\* AsyncServer's logic layer: the worker never sleeps over a message.
LogicNoLostWakeup == Logic!NoLostWakeup

\* It hands every message over once and in order, and while the server runs the
\* queue is emptied.
LogicImplementsFifoHandOff == Logic!ImplementsFifoHandOff

\* Every message that was posted is looked at; no thread that posts is blocked for
\* ever.
PostedIsTaken == Logic!PostedIsTaken
PostReturns == Logic!PostReturns

\* AsyncServer's replies: one write at a time, one on its way while there is a
\* backlog, and none after an error.
SendAtMostOneWrite == Send!AtMostOneWrite
SendWritesIffBacklog == Send!WritesIffBacklog

\* They are written once and in order, all of them unless the connection breaks.
SendImplementsFifoHandOff == Send!ImplementsFifoHandOff
AcceptedIsWritten == Send!AcceptedIsWritten

\* AsyncServer: a session whose peer is gone is destroyed in the end.
LostIsDestroyed == Map!LostIsDestroyed
=============================================================================
