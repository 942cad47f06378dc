--------------------------- MODULE MCIOThreadPool ---------------------------
(* Two threads and one connection, for the signal.                          *)
EXTENDS IOThreadPool

CONSTANTS t1, t2, c1
TwoThreads == {t1, t2}
OneConn == {c1}
=============================================================================
