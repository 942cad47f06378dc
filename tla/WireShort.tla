------------------------------ MODULE WireShort ------------------------------
(***************************************************************************)
(* The numbers in the headers of AsyncServer, AsyncServer_useProtobuf and  *)
(* CoroutineService: two bytes on the wire, which network_to_host_short    *)
(* puts into a variable of type short.  The upper half of what a peer can  *)
(* send arrives as a negative number.                                      *)
(***************************************************************************)
EXTENDS Integers

CONSTANT SHRT_MAX  \* <climits>

Wire == 0..2 * SHRT_MAX + 1

Shorts == -(SHRT_MAX + 1)..SHRT_MAX

Short(n) == IF n <= SHRT_MAX THEN n ELSE n - 2 * (SHRT_MAX + 1)
=============================================================================
