----------------------------- MODULE MCProgress -----------------------------
(***************************************************************************)
(* Sizes for Progress: one client of each kind for the echo servers, one   *)
(* request for AsyncServer's framing, two sessions of                      *)
(* AsyncServer_useProtobuf, one http connection; in AsyncServer's pool one *)
(* thread may still be unborn, one have run dry and one be at work; in     *)
(* CoroutineService's one thread may not have started when the signal      *)
(* comes, and one request is in the callback while two wait.  With         *)
(* SHRT_MAX = 5 the number 11 arrives as -1.                               *)
(***************************************************************************)
EXTENDS Progress, TLC

CONSTANTS c1, c2, t1, t2, t3, nobody

\* testClient enters an empty line or one of a byte for SyncServer, and one of a
\* byte for Coroutine; SyncClient also one that overflows its buffer.
Lines == [p \in Programs |->
            {c1 :> 1 @@ c2 :> 1}
            \cup (IF p = "threads" THEN {c1 :> 0 @@ c2 :> 1, c1 :> 1 @@ c2 :> 2} ELSE {})]

\* The bodies of the request may be cut at every place, one is refused, and one has
\* the length -1.
Frame(i, n) == [id |-> i, len |-> n]
OneRequest == {<<f>> : f \in {Frame(1, 0), Frame(1, 2), Frame(2, 3), Frame(1, 4), Frame(5, 2),
                             Frame(1, 11)}}

\* Two requests and one: the first may be cut, and the second then hangs the thread.
BodiesSent == c1 :> <<1, 1>> @@ c2 :> <<1>>
BodyLengths == {BodiesSent[c1], BodiesSent[c2]}
=============================================================================
