----------------------------- MODULE HttpConnect -----------------------------
(***************************************************************************)
(* beast_http_server: each connection brings one request, gets one         *)
(* response and has 60 seconds for both.  One thread runs the io_context,  *)
(* so a completion handler is one step; the read, the write and the timer  *)
(* of a connection complete independently, and a completion that is queued *)
(* cannot be called back.  The connection object lives as long as one of   *)
(* its handlers is held; its socket is closed with it.                     *)
(***************************************************************************)
EXTENDS Naturals, FiniteSets, Sequences

CONSTANT Conns   \* the connections that are ever made

VARIABLES
  running,  \* ioc.run has not thrown
  op,       \* the read or write of a connection, or its queued completion
  timer,    \* deadline_: its wait, or the queued completion of the wait
  sock,     \* socket_
  req,      \* what was asked
  body,     \* response_.body: the documents written into it
  wire,     \* how much of the response the socket has taken
  count,    \* the static count of request_count
  late,     \* history: the deadline of the connection has closed the socket
  lost      \* history: the peer has gone, or has sent no request

vars == <<running, op, timer, sock, req, body, wire, count, late, lost>>

\* GET /count, /time and other paths; POST /email with an object, with a body
\* that is no JSON, and with JSON that is no object; POST elsewhere; PUT.
Requests == {"count", "time", "get", "email", "broken", "array", "post", "put"}
Documents == {"page", "missing", "success", "error", "invalid"}
Set(f, c, v) == [f EXCEPT ![c] = v]

Init == /\ running = TRUE
        /\ op = [c \in Conns |-> "none"]
        /\ timer = [c \in Conns |-> "none"]
        /\ sock = [c \in Conns |-> "unused"]
        /\ req = [c \in Conns |-> "none"]
        /\ body = [c \in Conns |-> <<>>]
        /\ wire = [c \in Conns |-> "nothing"]
        /\ count = 0
        /\ late = {}
        /\ lost = {}

-----------------------------------------------------------------------------
\* Altered: no deadline.
AcceptUntimed(c) == /\ sock[c] = "unused"
                    /\ sock' = Set(sock, c, "open")
                    /\ op' = Set(op, c, "read")
                    /\ UNCHANGED <<running, timer, req, body, wire, count, late, lost>>

\* http_server's handler: the connection starts to read and to wait for its
\* deadline, and the server accepts again (also when an accept has failed).
Accept(c) == /\ sock[c] = "unused"
             /\ sock' = Set(sock, c, "open")
             /\ op' = Set(op, c, "read")
             /\ timer' = Set(timer, c, "armed")
             /\ UNCHANGED <<running, req, body, wire, count, late, lost>>

\* The documents of the response; the branch for a body that cannot be parsed
\* goes on to the one for success.
create(r) == CASE r \in {"count", "time"} -> <<"page">>
               [] r \in {"get", "post"}   -> <<"missing">>
               [] r = "email"             -> <<"success">>
               [] r = "broken"            -> <<"error", "success">>
               [] r = "put"               -> <<"invalid">>

\* src_root["email"] throws, also out of ioc.run, when src_root is no object.
Throws(r) == r = "array"

Counted(r) == r = "count"

\* Altered: the response is not written.
write_response_skipped(c) == op' = Set(op, c, "none") /\ UNCHANGED timer

\* On a closed socket the write completes at once, with an error.
write_response(c) == /\ op' = Set(op, c, IF sock[c] = "open" THEN "write" ELSE "unwritten")
                     /\ UNCHANGED timer

\* The request is complete, and its handler runs.
process_request(c) == /\ op[c] = "got"
                      /\ ~Throws(req[c])
                      /\ body' = Set(body, c, create(req[c]))
                      /\ count' = IF Counted(req[c]) THEN count + 1 ELSE count
                      /\ write_response(c)
                      /\ UNCHANGED <<running, sock, req, wire, late, lost>>

\* The exception leaves main by its catch, and everything is destroyed.
process_request_throws(c) == /\ op[c] = "got"
                             /\ Throws(req[c])
                             /\ running' = FALSE
                             /\ UNCHANGED <<op, timer, sock, req, body, wire, count, late, lost>>

\* The read failed: nothing is done, and only the timer holds the connection.
read_request_error(c) == /\ op[c] = "unread"
                         /\ op' = Set(op, c, "none")
                         /\ UNCHANGED <<running, timer, sock, req, body, wire, count, late, lost>>

\* The write has ended, well or not.  The wait is cancelled unless its
\* completion is queued already.
write_response_done(c) == /\ op[c] \in {"written", "unwritten"}
                          /\ op' = Set(op, c, "none")
                          /\ sock' = Set(sock, c, IF sock[c] = "open" THEN "shut" ELSE sock[c])
                          /\ timer' = Set(timer, c, IF timer[c] = "armed" THEN "cancelled"
                                                                         ELSE timer[c])
                          /\ UNCHANGED <<running, req, body, wire, count, late, lost>>

\* What closing the socket does to the operation in progress.
Aborted(o) == IF o = "read" THEN "unread" ELSE IF o = "write" THEN "unwritten" ELSE o

\* Altered: the connection is shut down instead of closed.
check_deadline_shuts(c) == /\ timer[c] = "expired"
                           /\ timer' = Set(timer, c, "none")
                           /\ sock' = Set(sock, c, "shut")
                           /\ op' = Set(op, c, Aborted(op[c]))
                           /\ late' = late \cup {c}
                           /\ UNCHANGED <<running, req, body, wire, count, lost>>

check_deadline(c) == /\ timer[c] = "expired"
                     /\ timer' = Set(timer, c, "none")
                     /\ sock' = Set(sock, c, "closed")
                     /\ op' = Set(op, c, Aborted(op[c]))
                     /\ late' = late \cup {c}
                     /\ UNCHANGED <<running, req, body, wire, count, lost>>

check_deadline_cancelled(c) == /\ timer[c] = "cancelled"
                               /\ timer' = Set(timer, c, "none")
                               /\ UNCHANGED <<running, op, sock, req, body, wire, count, late, lost>>

Handlers(c) == \/ process_request(c) \/ process_request_throws(c)
               \/ read_request_error(c) \/ write_response_done(c)
               \/ check_deadline(c) \/ check_deadline_cancelled(c)

-----------------------------------------------------------------------------
(* The peer, the socket and the clock (external).                           *)

Arrive(c, r) == /\ op[c] = "read"
                /\ op' = Set(op, c, "got")
                /\ req' = Set(req, c, r)
                /\ UNCHANGED <<running, timer, sock, body, wire, count, late, lost>>

\* The peer closes, sends what is no request, or stops taking the response.
Lose(c) == /\ op[c] \in {"read", "write"}
           /\ op' = Set(op, c, Aborted(op[c]))
           /\ lost' = lost \cup {c}
           /\ UNCHANGED <<running, timer, sock, req, body, wire, count, late>>

\* The socket takes a part of the response, and in the end the whole.
Transmit(c) == /\ op[c] = "write"
               /\ \/ wire[c] = "nothing" /\ wire' = Set(wire, c, "part") /\ UNCHANGED op
                  \/ wire' = Set(wire, c, "whole") /\ op' = Set(op, c, "written")
               /\ UNCHANGED <<running, timer, sock, req, body, count, late, lost>>

Expire(c) == /\ timer[c] = "armed"
             /\ timer' = Set(timer, c, "expired")
             /\ UNCHANGED <<running, op, sock, req, body, wire, count, late, lost>>

World(c) == Lose(c) \/ Transmit(c) \/ Expire(c) \/ \E r \in Requests : Arrive(c, r)

Next == running /\ \E c \in Conns : Accept(c) \/ Handlers(c) \/ World(c)

\* Time passes, and a queued completion is run.  The peer owes nothing.
Fairness == \A c \in Conns : WF_vars(running /\ Handlers(c)) /\ WF_vars(running /\ Expire(c))

Spec == Init /\ [][Next]_vars /\ Fairness

-----------------------------------------------------------------------------
(* Properties.                                                              *)

TypeOK == /\ running \in BOOLEAN
          /\ op \in [Conns -> {"none", "read", "got", "unread", "write", "written", "unwritten"}]
          /\ timer \in [Conns -> {"none", "armed", "expired", "cancelled"}]
          /\ sock \in [Conns -> {"unused", "open", "shut", "closed"}]
          /\ req \in [Conns -> Requests \cup {"none"}]
          /\ body \in [Conns -> Seq(Documents)]
          /\ wire \in [Conns -> {"nothing", "part", "whole"}]
          /\ count \in Nat
          /\ late \subseteq Conns
          /\ lost \subseteq Conns

\* A handler holds the connection object.
Held(c) == op[c] # "none" \/ timer[c] # "none"

\* Whatever a connection waits for, its deadline is still to come: neither a
\* silent peer nor one that does not take its response can keep it for ever.
\* The cancel of line 159 comes only when nothing is in progress any more.
TimerGuards == \A c \in Conns :
  op[c] \in {"read", "write"} => sock[c] = "open" /\ timer[c] \in {"armed", "expired"}

\* A request whose response is not written whole, though its handlers are all
\* done, met its deadline or lost its peer; a deadline that strikes while the
\* completed write waits for its handler takes nothing away (lines 154-170).
CutExplained == \A c \in Conns :
  op[c] = "none" /\ req[c] # "none" /\ wire[c] # "whole" => c \in late \cup lost

\* The counter lies between the count requests answered and those asked: a
\* request that is cut off counts, none counts twice, and no other counts.
CountBetween ==
  /\ Cardinality({c \in Conns : req[c] = "count" /\ wire[c] = "whole"}) <= count
  /\ count <= Cardinality({c \in Conns : req[c] = "count"})

\* A peer that is still there and sees the connection end in order has got the
\* whole response: the shutdown of line 158, which also follows failed writes,
\* never makes a cut response look complete.
ShutMeansWhole == \A c \in Conns :
  sock[c] = "shut" => wire[c] = "whole" \/ c \in lost

\* Every connection is given up in the end, with or without a request.
Released == \A c \in Conns : (sock[c] # "unused") ~> (~Held(c) \/ ~running)
=============================================================================
