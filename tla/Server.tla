-------------------------------- MODULE Server --------------------------------
(***************************************************************************)
(* The server of AsyncServer around its sessions (Server.cpp, and the ways *)
(* in which Session.cpp calls it): connections are accepted, entered in    *)
(* _sessions, and taken out when they fail, by the threads that run the    *)
(* io_context of IOThreadPool.                                             *)
(*                                                                         *)
(* Handlers of reads and writes go through their session's strand, so two  *)
(* of one session never run at once.  The handler of an accept belongs to  *)
(* no strand, the map has no lock, and the logic worker calls Send outside *)
(* every strand.  What a session does with the bytes is in HandleRead, how *)
(* it writes in SendQueue, how messages get to the worker in LogicSystem;  *)
(* here a session has a number of messages waiting at each of these.  A    *)
(* header that ends the process (HandleRead) is left out.                  *)
(***************************************************************************)
EXTENDS Naturals, FiniteSets

CONSTANTS Sessions,    \* the sessions ever made, one for each async_accept
          Threads,     \* the threads in io_context::run
          MaxRequests, \* bound: the messages one session posts
          None

Kinds == {"accept", "read", "write"}
Handlers == [kind : Kinds, session : Sessions, ok : BOOLEAN]

ServerAssumption == /\ MaxRequests \in Nat
                    /\ Sessions # {}
                    /\ None \notin Sessions /\ None \notin Handlers

VARIABLES
  accepting, \* the session whose socket is in async_accept
  made,      \* the sessions made so far
  lost,      \* the sessions whose peer is gone
  reading,   \* the sessions with an async_read_some in progress
  writing,   \* the sessions with an async_write in progress
  ready,     \* handlers that may run
  handler,   \* the handler each thread runs
  pc,        \* where in it the thread is
  sessions,  \* _sessions
  requests,  \* for each session, how many messages it has posted
  nodes,     \* for each session, its LogicNodes in the logic layer
  sending,   \* the session whose Send the worker is in
  queued,    \* for each session, the length of _send_queue
  raced,     \* two threads were in _sessions at once
  overtaken  \* history: sessions whose first erase came before their insert

io == <<accepting, made, lost, reading, writing, ready>>
logic == <<requests, nodes, sending, queued>>
vars == <<io, handler, pc, sessions, logic, raced, overtaken>>

Places == {"idle", "start", "insert", "inserting", "rearm", "handle", "erase", "erasing"}

\* Which of the sessions is made next does not matter.
First == CHOOSE s \in Sessions : TRUE
NextSession == CHOOSE s \in Sessions : s \notin made

\* The constructor of Server: start_accept for the first session.
Init == /\ accepting = First
        /\ made = {First}
        /\ lost = {}
        /\ reading = {}
        /\ writing = {}
        /\ ready = {}
        /\ handler = [t \in Threads |-> None]
        /\ pc = [t \in Threads |-> "idle"]
        /\ sessions = {}
        /\ requests = [s \in Sessions |-> 0]
        /\ nodes = [s \in Sessions |-> 0]
        /\ sending = None
        /\ queued = [s \in Sessions |-> 0]
        /\ raced = FALSE
        /\ overtaken = {}

-----------------------------------------------------------------------------
(* The sockets (external).                                                  *)

Done(kind, s, ok) == ready' = ready \cup {[kind |-> kind, session |-> s, ok |-> ok]}

AcceptEnds(ok) == /\ accepting # None
                  /\ Done("accept", accepting, ok)
                  /\ accepting' = None
                  /\ UNCHANGED <<made, lost, reading, writing, handler, pc, sessions,
                                 logic, raced, overtaken>>

Lose(s) == /\ s \notin lost
           /\ s \in made
           /\ lost' = lost \cup {s}
           /\ UNCHANGED <<accepting, made, reading, writing, ready, handler, pc,
                          sessions, logic, raced, overtaken>>

\* A read or write of a lost connection fails; before that it succeeds.
ReadEnds(s) == /\ s \in reading
               /\ reading' = reading \ {s}
               /\ Done("read", s, s \notin lost)
               /\ UNCHANGED <<accepting, made, lost, writing, handler, pc, sessions,
                              logic, raced, overtaken>>

WriteEnds(s) == /\ s \in writing
                /\ writing' = writing \ {s}
                /\ Done("write", s, s \notin lost)
                /\ UNCHANGED <<accepting, made, lost, reading, handler, pc, sessions,
                               logic, raced, overtaken>>

-----------------------------------------------------------------------------
(* The threads of the pool.                                                 *)

OnStrand(t, s) == handler[t] # None /\ handler[t].session = s /\ handler[t].kind # "accept"

Goto(t, place) == pc' = [pc EXCEPT ![t] = place]

\* The handler of t returns.
Return(t) == handler' = [handler EXCEPT ![t] = None] /\ Goto(t, "idle")

\* A thread takes a handler; those of one session wait for each other.
Run(t, h) ==
  /\ pc[t] = "idle"
  /\ h \in ready
  /\ h.kind # "accept" => \A u \in Threads : ~OnStrand(u, h.session)
  /\ ready' = ready \ {h}
  /\ handler' = [handler EXCEPT ![t] = h]
  /\ Goto(t, IF h.kind # "accept" THEN "handle" ELSE IF h.ok THEN "start" ELSE "rearm")
  /\ UNCHANGED <<accepting, made, lost, reading, writing, sessions, logic, raced, overtaken>>

Of(t) == handler[t].session

\* Session::start: the first read, before the session is in the map.
Start(t) == /\ pc[t] = "start"
            /\ reading' = reading \cup {Of(t)}
            /\ Goto(t, "insert")
            /\ UNCHANGED <<accepting, made, lost, writing, ready, handler, sessions,
                           logic, raced, overtaken>>

\* An operation on the map begins.  Nothing keeps two of them apart.
InMap(t) == pc[t] \in {"inserting", "erasing"}

EnterMap(t) ==
  /\ pc[t] \in {"insert", "erase"}
  /\ Goto(t, IF pc[t] = "insert" THEN "inserting" ELSE "erasing")
  /\ raced' = (raced \/ \E u \in Threads \ {t} : InMap(u))
  /\ UNCHANGED <<io, handler, sessions, logic, overtaken>>

\* After a race the effect of an operation may be missing.  (The process may crash
\* as well; then nothing follows, which the properties leave open after a race.)
Effect(changed) == sessions' = changed \/ (raced /\ UNCHANGED sessions)

Insert(t) == /\ pc[t] = "inserting"
             /\ Effect(sessions \cup {Of(t)})
             /\ Goto(t, "rearm")
             /\ UNCHANGED <<io, handler, logic, raced, overtaken>>

\* A new session waits for a connection, as long as the bound leaves one.
MakeSession == \/ /\ made # Sessions
                  /\ accepting' = NextSession
                  /\ made' = made \cup {NextSession}
               \/ /\ made = Sessions
                  /\ UNCHANGED <<accepting, made>>

\* Altered: a failed accept is the last one.
RearmIfAccepted(t) ==
  /\ pc[t] = "rearm"
  /\ Return(t)
  /\ \/ /\ handler[t].ok
        /\ \E s \in Sessions \ made : accepting' = s /\ made' = made \cup {s}
     \/ /\ ~handler[t].ok
        /\ UNCHANGED <<accepting, made>>
  /\ UNCHANGED <<lost, reading, writing, ready, sessions, logic, raced, overtaken>>

\* start_accept, whether the accept succeeded or failed.
Rearm(t) ==
  /\ pc[t] = "rearm"
  /\ Return(t)
  /\ MakeSession
  /\ UNCHANGED <<lost, reading, writing, ready, sessions, logic, raced, overtaken>>

Handles(t, kind, ok) == pc[t] = "handle" /\ handler[t].kind = kind /\ handler[t].ok = ok

\* A message is complete: it is posted, and the next read is started.
HandleRead(t) ==
  /\ Handles(t, "read", TRUE)
  /\ requests[Of(t)] < MaxRequests
  /\ requests' = [requests EXCEPT ![Of(t)] = @ + 1]
  /\ nodes' = [nodes EXCEPT ![Of(t)] = @ + 1]
  /\ reading' = reading \cup {Of(t)}
  /\ Return(t)
  /\ UNCHANGED <<accepting, made, lost, writing, ready, sessions, sending, queued,
                 raced, overtaken>>

\* Nothing is complete yet: the next read.
HandleReadPart(t) ==
  /\ Handles(t, "read", TRUE)
  /\ reading' = reading \cup {Of(t)}
  /\ Return(t)
  /\ UNCHANGED <<accepting, made, lost, writing, ready, sessions, logic, raced, overtaken>>

\* A header is refused: ClearServer and no further read.
HandleReadRefused(t) == /\ Handles(t, "read", TRUE)
                        /\ Goto(t, "erase")
                        /\ UNCHANGED <<io, handler, sessions, logic, raced, overtaken>>

\* Altered: the error is only printed.
HandleReadErrorIgnored(t) == /\ Handles(t, "read", FALSE)
                             /\ Return(t)
                             /\ UNCHANGED <<io, sessions, logic, raced, overtaken>>

\* Altered: the session reads on after an error.
HandleReadErrorReadsOn(t) ==
  /\ Handles(t, "read", FALSE)
  /\ reading' = reading \cup {Of(t)}
  /\ Return(t)
  /\ UNCHANGED <<accepting, made, lost, writing, ready, sessions, logic, raced, overtaken>>

HandleReadError(t) == /\ Handles(t, "read", FALSE)
                      /\ Goto(t, "erase")
                      /\ UNCHANGED <<io, handler, sessions, logic, raced, overtaken>>

HandleWrite(t) ==
  /\ Handles(t, "write", TRUE)
  /\ queued' = [queued EXCEPT ![Of(t)] = @ - 1]
  /\ writing' = IF queued'[Of(t)] > 0 THEN writing \cup {Of(t)} ELSE writing
  /\ Return(t)
  /\ UNCHANGED <<accepting, made, lost, reading, ready, sessions, requests, nodes,
                 sending, raced, overtaken>>

HandleWriteError(t) == /\ Handles(t, "write", FALSE)
                       /\ Goto(t, "erase")
                       /\ UNCHANGED <<io, handler, sessions, logic, raced, overtaken>>

\* Another thread has started the session and has not entered it yet.
Entering(s) == \E t \in Threads : pc[t] \in {"insert", "inserting"} /\ Of(t) = s

\* ClearServer; the handler ends with it.
Erase(t) == /\ pc[t] = "erasing"
            /\ Effect(sessions \ {Of(t)})
            /\ overtaken' = IF Entering(Of(t)) THEN overtaken \cup {Of(t)} ELSE overtaken
            /\ Return(t)
            /\ UNCHANGED <<io, logic, raced>>

Handler(t) == \/ Start(t) \/ EnterMap(t) \/ Insert(t) \/ Rearm(t)
              \/ HandleRead(t) \/ HandleReadPart(t) \/ HandleReadRefused(t) \/ HandleReadError(t)
              \/ HandleWrite(t) \/ HandleWriteError(t)
              \/ Erase(t)

-----------------------------------------------------------------------------
(* The logic worker, with one of the waiting nodes.                         *)

\* No callback is registered for its id: it is popped.
SkipNode(s) == /\ sending = None
               /\ nodes[s] > 0
               /\ nodes' = [nodes EXCEPT ![s] = @ - 1]
               /\ UNCHANGED <<io, handler, pc, sessions, requests, sending, queued,
                              raced, overtaken>>

SendBegin(s) == /\ sending = None
                /\ nodes[s] > 0
                /\ sending' = s
                /\ UNCHANGED <<io, handler, pc, sessions, requests, nodes, queued,
                               raced, overtaken>>

\* Queued, and written at once if it is alone, or dropped when the queue is full;
\* the node is popped afterwards.
SendEnd == /\ sending # None
           /\ nodes' = [nodes EXCEPT ![sending] = @ - 1]
           /\ \/ /\ queued' = [queued EXCEPT ![sending] = @ + 1]
                 /\ writing' = IF queued[sending] = 0 THEN writing \cup {sending} ELSE writing
              \/ queued[sending] > 0 /\ UNCHANGED <<queued, writing>>
           /\ sending' = None
           /\ UNCHANGED <<accepting, made, lost, reading, ready, handler, pc, sessions,
                          requests, raced, overtaken>>

Worker == SendEnd \/ \E s \in Sessions : SkipNode(s) \/ SendBegin(s)

Next == \/ \E ok \in BOOLEAN : AcceptEnds(ok)
        \/ \E s \in Sessions : Lose(s) \/ ReadEnds(s) \/ WriteEnds(s)
        \/ \E t \in Threads : Handler(t) \/ \E h \in Handlers : Run(t, h)
        \/ Worker

\* Threads that can go on do.  The queue of an io_context and that of the logic
\* layer are first in, first out, so no session's handlers or nodes are passed over
\* for ever.  The operations of a lost connection end.
Fairness == /\ \A t \in Threads : WF_vars(Handler(t))
            /\ WF_vars(SendEnd)
            /\ \A s \in Sessions :
                 /\ SF_vars(\E t \in Threads, h \in Handlers : h.session = s /\ Run(t, h))
                 /\ SF_vars(SkipNode(s) \/ SendBegin(s))
                 /\ WF_vars(s \in lost /\ (ReadEnds(s) \/ WriteEnds(s)))

Spec == Init /\ [][Next]_vars /\ Fairness

-----------------------------------------------------------------------------
(* Properties.                                                              *)

TypeOK == /\ accepting \in Sessions \cup {None}
          /\ made \subseteq Sessions
          /\ lost \subseteq Sessions
          /\ reading \subseteq Sessions
          /\ writing \subseteq Sessions
          /\ ready \subseteq Handlers
          /\ handler \in [Threads -> Handlers \cup {None}]
          /\ pc \in [Threads -> Places]
          /\ sessions \subseteq Sessions
          /\ requests \in [Sessions -> 0..MaxRequests]
          /\ nodes \in [Sessions -> 0..MaxRequests]
          /\ sending \in Sessions \cup {None}
          /\ queued \in [Sessions -> 0..MaxRequests]
          /\ raced \in BOOLEAN
          /\ overtaken \subseteq Sessions

\* A handler of the session is running or ready, or one will be.
Busy(s) == \/ s \in reading \cup writing
           \/ \E h \in ready : h.session = s
           \/ \E t \in Threads : handler[t] # None /\ Of(t) = s

\* A session in the map has a handler to come that can take it out again: with one
\* thread in the pool no dead session is kept (Server.cpp:10-13, 26-27).
NoZombie == \A s \in sessions : Busy(s)

\* With several threads the one way to keep a dead session for ever is that its
\* handlers overtake the thread that accepted it, between Server.cpp:26 and :27 (or
\* that the map itself is damaged by two threads in it).
ZombieOnlyIfOvertaken == \A s \in sessions : Busy(s) \/ s \in overtaken \/ raced

\* An async_accept is in progress or the handler of one will start the next, also
\* after an accept has failed (Server.cpp:32).
AlwaysAccepting == \/ accepting # None
                   \/ made = Sessions
                   \/ \E h \in ready : h.kind = "accept"
                   \/ \E t \in Threads : handler[t] # None /\ handler[t].kind = "accept"

\* Nothing holds a shared_ptr to the session: it has been destroyed.
Destroyed(s) == accepting # s /\ s \notin sessions /\ ~Busy(s) /\ nodes[s] = 0 /\ sending # s

\* A session whose peer is gone is destroyed in the end, whatever was in progress:
\* no chain of handlers and queued messages holds itself alive.
LostIsDestroyed ==
  \A s \in Sessions :
    (s \in lost /\ accepting # s) ~> (Destroyed(s) \/ s \in overtaken \/ raced)

\* What Session.h:49 says of the strand: it keeps several threads from being in the
\* functions of a session.
OneThreadInSession ==
  \A s \in Sessions : Cardinality({t \in Threads : OnStrand(t, s)})
                      + (IF sending = s THEN 1 ELSE 0) <= 1
=============================================================================
