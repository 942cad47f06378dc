---------------------------- MODULE MCHandleRead ----------------------------
(* Headers of two bytes and reads of up to four: a header and a body may    *)
(* each be cut at every place, and a frame may be longer than one read.     *)
(* With SHRT_MAX = 5 the numbers from 6 to 11 arrive as -6 to -1.           *)
EXTENDS HandleRead

F(i, n) == [id |-> i, len |-> n]

Good == {F(1, 0), F(1, 2), F(2, 3), F(1, 4)}
Refused == {F(5, 2), F(1, 5)}   \* the id, or the length, is above MAX_LENGTH
Negative == {F(1, 10), F(1, 11), F(7, 1)}  \* the lengths -2 and -1, the id -5

\* One request on each connection.
Single == {<<f>> : f \in Good \cup Refused \cup Negative}

\* Requests sent one behind the other.
Pipelined == {<<f, g, h>> : f \in Good, g \in Good \cup Refused \cup Negative,
                            h \in {F(1, 1), F(1, 4)}}

SingleOrPipelined == Single \cup Pipelined
=============================================================================
