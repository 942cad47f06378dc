------------------------------ MODULE EchoServer ------------------------------
(***************************************************************************)
(* The two echo servers, SyncServer (a thread for each connection) and     *)
(* Coroutine (a coroutine for each, all on main's thread), with the two    *)
(* clients that talk to them: testClient sends a line and reads as many    *)
(* bytes back, SyncClient sends a length and a line and reads a length and *)
(* then that many bytes.  A byte is its place in what the client sends, so *)
(* a byte in the place of another shows.                                   *)
(***************************************************************************)
EXTENDS Naturals, Sequences

CONSTANTS Clients,     \* each is a process that connects once
          SyncClients, \* those that are SyncClient
          Lengths,     \* the lengths of lines that are entered
          max_length,  \* of the session's buffer, which MAX_LENGTH of both clients equals
          Coroutines   \* Coroutine, or SyncServer

ASSUME LengthsAssumption == Lengths \subseteq Nat /\ max_length \in Nat \ {0}

VARIABLES
  main,      \* "start", "accept"; Coroutine: "deaf" (the listener has ended), "over";
             \* SyncServer: "leave", "clean", "terminated", "undefined"
  session,   \* of each client: none, read, write, ended
  client,    \* of each client: out, refused, connected, head, body, done, failed,
             \* undefined
  line,      \* the length of its line
  up,        \* the bytes on their way to the server
  data,      \* the bytes the session has read and not written yet
  down,      \* the bytes on their way back
  reply,     \* the bytes the client has got
  lost       \* history: connections that broke

vars == <<main, session, client, line, up, data, down, reply, lost>>
net == <<up, data, down>>

Set(f, c, v) == [f EXCEPT ![c] = v]
Range1(n) == [i \in 1..n |-> i]
Alive == main \in {"start", "accept", "deaf", "leave"}

Init == /\ main = "start"
        /\ session = [c \in Clients |-> "none"]
        /\ client = [c \in Clients |-> "out"]
        /\ line \in [Clients -> Lengths]
        /\ up = [c \in Clients |-> <<>>]
        /\ data = [c \in Clients |-> <<>>]
        /\ down = [c \in Clients |-> <<>>]
        /\ reply = [c \in Clients |-> <<>>]
        /\ lost = {}

-----------------------------------------------------------------------------
(* The listeners.                                                           *)

\* The acceptor is made.
Listen == /\ main = "start"
          /\ main' = "accept"
          /\ UNCHANGED <<session, client, line, net, reply, lost>>

\* The port is taken, or an accept fails.  SyncServer leaves its loop by the
\* exception, without joining a thread; the listener's coroutine ends, its
\* exception dropped by `detached`, and the program runs on.
AcceptThrows == /\ main \in {"start", "accept"}
                /\ main' = IF Coroutines THEN "deaf" ELSE "leave"
                /\ UNCHANGED <<session, client, line, net, reply, lost>>

\* thread_set is destroyed with a thread in it, joinable as nobody joined it.
Leave == /\ main = "leave"
         /\ main' = IF \A c \in Clients : session[c] = "none" THEN "clean" ELSE "terminated"
         /\ UNCHANGED <<session, client, line, net, reply, lost>>

\* Meanwhile ioc has been destroyed, and the sessions go on with its sockets.
UseDestroyed == /\ main = "leave"
                /\ \E c \in Clients : session[c] \in {"read", "write"}
                /\ main' = "undefined"
                /\ UNCHANGED <<session, client, line, net, reply, lost>>

\* The signal stops the io_context; the coroutines are destroyed with it.
Signal == /\ Coroutines /\ Alive
          /\ main' = "over"
          /\ UNCHANGED <<session, client, line, net, reply, lost>>

\* A client has connected; its session gets a thread, or a coroutine.
Accept(c) == /\ main = "accept"
             /\ client[c] \notin {"out", "refused"} /\ session[c] = "none"
             /\ session' = Set(session, c, "read")
             /\ UNCHANGED <<main, client, line, net, reply, lost>>

-----------------------------------------------------------------------------
(* The sessions.                                                            *)

Min2(m, n) == IF m < n THEN m ELSE n

\* Altered: each session answers one message.
ReadSomeOnce(c) == /\ Alive
                   /\ session[c] = "read" /\ reply[c] = <<>> /\ down[c] = <<>>
                   /\ up[c] # <<>> /\ c \notin lost
                   /\ \E n \in 1..Min2(Len(up[c]), max_length) :
                        /\ data' = Set(data, c, SubSeq(up[c], 1, n))
                        /\ up' = Set(up, c, SubSeq(up[c], n + 1, Len(up[c])))
                   /\ session' = Set(session, c, "write")
                   /\ UNCHANGED <<main, client, line, down, reply, lost>>

\* read_some takes what is there, or a part of it.
ReadSome(c) == /\ Alive
               /\ session[c] = "read"
               /\ up[c] # <<>> /\ c \notin lost
               /\ \E n \in 1..Min2(Len(up[c]), max_length) :
                    /\ data' = Set(data, c, SubSeq(up[c], 1, n))
                    /\ up' = Set(up, c, SubSeq(up[c], n + 1, Len(up[c])))
               /\ session' = Set(session, c, "write")
               /\ UNCHANGED <<main, client, line, down, reply, lost>>

Gone(c) == c \in lost \/ client[c] \in {"done", "failed"}

\* End of file, an error, or remote_endpoint on a broken connection: the session
\* ends, and the socket with it; what it had read is not echoed.
ReadThrows(c) == /\ Alive
                 /\ session[c] \in {"read", "write"} /\ Gone(c)
                 /\ session' = Set(session, c, "ended")
                 /\ UNCHANGED <<main, client, line, net, reply, lost>>

\* Altered: one write_some, which may write a part.
WritePart(c) == /\ Alive
                /\ session[c] = "write" /\ c \notin lost
                /\ \E n \in 1..Len(data[c]) : down' = Set(down, c, down[c] \o SubSeq(data[c], 1, n))
                /\ data' = Set(data, c, <<>>)
                /\ session' = Set(session, c, "read")
                /\ UNCHANGED <<main, client, line, up, reply, lost>>

\* asio::write writes all of it, one piece after the other.
Write(c) == /\ Alive
            /\ session[c] = "write" /\ c \notin lost
            /\ \E n \in 1..Len(data[c]) :
                 /\ down' = Set(down, c, down[c] \o SubSeq(data[c], 1, n))
                 /\ data' = Set(data, c, SubSeq(data[c], n + 1, Len(data[c])))
            /\ session' = IF data'[c] = <<>> THEN Set(session, c, "read") ELSE session
            /\ UNCHANGED <<main, client, line, up, reply, lost>>

Session(c) == ReadSome(c) \/ ReadThrows(c) \/ Write(c)

-----------------------------------------------------------------------------
(* The clients.                                                             *)

HeadLength(c) == IF c \in SyncClients THEN 2 ELSE 0
Total(c) == HeadLength(c) + line[c]

\* connect; it succeeds when the acceptor is open, before the server accepts.
Connect(c) == /\ client[c] = "out" /\ main = "accept"
              /\ client' = Set(client, c, "connected")
              /\ UNCHANGED <<main, session, line, net, reply, lost>>

ConnectFails(c) == /\ client[c] = "out" /\ main # "accept"
                   /\ client' = Set(client, c, "refused")
                   /\ UNCHANGED <<main, session, line, net, reply, lost>>

\* SyncClient puts the length and the line into a buffer for the line.
Overflows(c) == c \in SyncClients /\ Total(c) > max_length

RequestOverflows(c) == /\ client[c] = "connected" /\ Overflows(c)
                       /\ client' = Set(client, c, "undefined")
                       /\ UNCHANGED <<main, session, line, net, reply, lost>>

\* asio::write of the whole request.
Request(c) == /\ client[c] = "connected" /\ c \notin lost
              /\ ~Overflows(c)
              /\ up' = Set(up, c, Range1(Total(c)))
              /\ client' = Set(client, c, IF HeadLength(c) > 0 THEN "head" ELSE "body")
              /\ UNCHANGED <<main, session, line, data, down, reply, lost>>

\* What has come is taken by the read in progress, or by the next.
Receive(c) == /\ client[c] \in {"head", "body"} /\ c \notin lost
              /\ down[c] # <<>>
              /\ reply' = Set(reply, c, reply[c] \o down[c])
              /\ down' = Set(down, c, <<>>)
              /\ UNCHANGED <<main, session, client, line, up, data, lost>>

\* asio::read of the length is over; it is the one the client has sent.
ReadHead(c) == /\ client[c] = "head" /\ Len(reply[c]) >= HeadLength(c)
               /\ client' = Set(client, c, "body")
               /\ UNCHANGED <<main, session, line, net, reply, lost>>

\* asio::read of the line is over.  (It reads no more than it asked for.)
ReadBody(c) == /\ client[c] = "body" /\ Len(reply[c]) = Total(c)
               /\ client' = Set(client, c, "done")
               /\ UNCHANGED <<main, session, line, net, reply, lost>>

\* Whatever throws is caught, and the client ends.
Throws(c) == /\ client[c] \in {"connected", "head", "body"}
             /\ \/ c \in lost \/ ~Alive \/ session[c] = "ended"
                \/ session[c] = "none" /\ main # "accept"
             /\ client' = Set(client, c, "failed")
             /\ UNCHANGED <<main, session, line, net, reply, lost>>

Client(c) == Connect(c) \/ ConnectFails(c) \/ Request(c) \/ RequestOverflows(c) \/ Receive(c)
             \/ ReadHead(c) \/ ReadBody(c) \/ Throws(c)

\* The connection breaks (external).
Lose(c) == /\ client[c] \in {"connected", "head", "body"}
           /\ c \notin lost
           /\ lost' = lost \cup {c}
           /\ UNCHANGED <<main, session, client, line, net, reply>>

Next == \/ Listen \/ AcceptThrows \/ Leave \/ UseDestroyed \/ Signal
        \/ \E c \in Clients : Accept(c) \/ Session(c) \/ Client(c) \/ Lose(c)

\* Threads and processes are scheduled, the io_context runs what is ready.
Fairness == /\ WF_vars(Listen) /\ WF_vars(Leave)
            /\ \A c \in Clients : WF_vars(Accept(c)) /\ WF_vars(Session(c)) /\ WF_vars(Client(c))

Spec == Init /\ [][Next]_vars /\ Fairness

-----------------------------------------------------------------------------
(* Properties.                                                              *)

\* What a client has got is the beginning of what it sent, and the rest of it is
\* on its way, wherever the pieces were cut; a session that ends by a failure
\* leaves a client that sees it, never one that takes a part for the whole.
EchoIsWhole == \A c \in Clients :
  /\ client[c] \in {"head", "body", "done"} =>
       reply[c] \o down[c] \o data[c] \o up[c] = Range1(Total(c))
  /\ client[c] = "done" => Len(reply[c]) = Total(c)

\* A client that has connected gets all of its echo, unless its line overflows its
\* buffer, its connection breaks, the server fails before it has accepted it, or the
\* program ends: no other client, however slow or broken, keeps it from that, and a
\* listener that has failed takes the sessions of SyncServer with it only by ending
\* the program.
ConnectedIsServed == \A c \in Clients :
  (client[c] = "connected") ~> \/ client[c] \in {"done", "undefined"} \/ c \in lost \/ ~Alive
                               \/ session[c] = "none" /\ main # "accept"
=============================================================================
