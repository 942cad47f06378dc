------------------------------ MODULE AsycRead ------------------------------
(***************************************************************************)
(* The two ways of reading in AsycApi's Session: readFromSocket with       *)
(* async_read_some, readAllFromSocket with async_receive (on a stream the  *)
(* same).  A node is a buffer of RECVSIZE bytes owned by _recv_node alone; *)
(* a read in progress keeps no reference to it.  Nothing in the repository *)
(* calls them: the caller asks for a read whenever it likes.               *)
(***************************************************************************)
EXTENDS Naturals, Sequences

CONSTANTS RECVSIZE,
          MaxNodes,  \* bound: the nodes that are made
          All        \* readAllFromSocket, or readFromSocket

VARIABLES
  recv_pending,  \* _recv_pending
  recv_node,     \* _recv_node: the number of the node, 0 for nullptr
  nodes,         \* the number of nodes made so far
  cur_len,       \* _cur_len of _recv_node
  reads,         \* outstanding reads, oldest first: the node and the room they fill
  results,       \* bytes read by finished reads whose handler has not run
  short,         \* history: a read has brought less than it had room for
  undefined      \* history: a null pointer was used, or freed memory written

vars == <<recv_pending, recv_node, nodes, cur_len, reads, results, short, undefined>>

Init == /\ recv_pending \in BOOLEAN   \* the constructor leaves it uninitialised
        /\ recv_node = 0
        /\ nodes = 0
        /\ cur_len = 0
        /\ reads = <<>>
        /\ results = <<>>
        /\ short = FALSE
        /\ undefined = FALSE

-----------------------------------------------------------------------------
MayRead == ~recv_pending

\* A node, a read into it, and the flag.
readFromSocket == /\ ~undefined
                  /\ MayRead
                  /\ nodes < MaxNodes
                  /\ nodes' = nodes + 1
                  /\ recv_node' = nodes'
                  /\ cur_len' = 0
                  /\ reads' = Append(reads, [node |-> nodes', room |-> RECVSIZE])
                  /\ recv_pending' = TRUE
                  /\ UNCHANGED <<results, short, undefined>>

\* The same with async_receive.
readAllFromSocket == readFromSocket

Drop == recv_pending' = FALSE /\ recv_node' = 0

\* Altered: a full node is read on.
IncompleteAlso(n) == cur_len + n <= RECVSIZE

Incomplete(n) == cur_len + n < RECVSIZE

\* The rest of the node is read, and then the node is dropped.
ReadOn(n) == /\ cur_len' = cur_len + n
             /\ reads' = Append(reads, [node |-> recv_node, room |-> RECVSIZE - (cur_len + n)])
             /\ Drop

\* readCallBack drops a full node; readAllCallBack keeps node and flag.
Filled(n) == /\ cur_len' = cur_len + n
             /\ IF All THEN UNCHANGED <<recv_pending, recv_node>> ELSE Drop
             /\ UNCHANGED reads

\* The handler, error or not; a read of a dropped node finds a null pointer.
readCallBack == /\ ~undefined
                /\ results # <<>>
                /\ results' = Tail(results)
                /\ IF recv_node = 0
                   THEN undefined' = TRUE /\ UNCHANGED <<recv_pending, recv_node, cur_len, reads>>
                   ELSE /\ IF Incomplete(Head(results)) THEN ReadOn(Head(results))
                           ELSE Filled(Head(results))
                        /\ UNCHANGED undefined
                /\ UNCHANGED <<nodes, short>>

\* The socket (external): the oldest read brings some bytes, or none when the
\* connection is gone; into a node that has been dropped it writes freed memory.
ReadSome(n) == /\ ~undefined
               /\ reads # <<>>
               /\ n <= Head(reads).room
               /\ reads' = Tail(reads)
               /\ results' = Append(results, n)
               /\ short' = (short \/ n < Head(reads).room)
               /\ undefined' = (n > 0 /\ Head(reads).node # recv_node)
               /\ UNCHANGED <<recv_pending, recv_node, nodes, cur_len>>

Next == \/ ~All /\ readFromSocket
        \/ All /\ readAllFromSocket
        \/ readCallBack
        \/ \E n \in 0..RECVSIZE : ReadSome(n)

Spec == Init /\ [][Next]_vars

-----------------------------------------------------------------------------
(* Properties.                                                              *)

InProgress == Len(reads) + Len(results)

\* As long as every read fills its buffer, one read is in progress at most, into
\* the node of the session, and nothing undefined happens: what goes wrong goes
\* wrong after a short read (lines 129-137, 153-161).
RightUntilShort ==
  ~short => /\ ~undefined
            /\ InProgress <= 1
            /\ \A i \in 1..Len(reads) : reads[i].node = recv_node /\ recv_pending

\* What Session.h:69 says of _recv_pending: it is true as long as the node is receiving
\* and not complete.  (Before the first read it is not initialised.)
PendingMeansReceiving == nodes > 0 => (recv_pending <=> InProgress > 0)
=============================================================================
