------------------------------ MODULE MCServer ------------------------------
(* One session, two threads in the pool.                                    *)
EXTENDS Server

CONSTANTS s1, t1, t2

OneSession == {s1}
TwoThreads == {t1, t2}
=============================================================================
