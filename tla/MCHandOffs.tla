----------------------------- MODULE MCHandOffs -----------------------------
(***************************************************************************)
(* Sizes for HandOffs: one session of CoroutineService with a limit of one *)
(* byte, and so a queue of two replies, which four requests can fill; two  *)
(* I/O threads and three messages of which one has no callback; a queue of *)
(* two replies (three in fact) and six calls of Send, enough to fill it,   *)
(* drop, drain and fill it again; one session and two threads around it.   *)
(* With SHRT_MAX = 5 the numbers from 6 to 11 arrive as -6 to -1.          *)
(***************************************************************************)
EXTENDS HandOffs

CONSTANTS p1, p2, hello1, hello2, unknown, nobody, s1, t1, t2

\* A body of one byte, with and without a callback, an empty one, one that is too
\* long, and the lengths -2 and -1.
SessionFrames == {[known |-> TRUE, len |-> 1], [known |-> FALSE, len |-> 1]}
                 \cup [known : {TRUE}, len : {0, 2, 10, 11}]
=============================================================================
