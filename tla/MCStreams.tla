------------------------------ MODULE MCStreams ------------------------------
(***************************************************************************)
(* Sizes for Connections: two sessions of AsyncServer and two threads, so  *)
(* that a handler may run before its session is in the map; two http       *)
(* connections, one of AsyncServer_useProtobuf with three requests; a      *)
(* websocket message being written, one queued twice behind it, and enough *)
(* to follow to see that nothing moves any more; of AsycApi's messages one *)
(* being written, one queued, one that comes later, and nodes enough for a *)
(* second read to be started while one is outstanding.                     *)
(***************************************************************************)
EXTENDS MCHandleRead, Connections, TLC

CONSTANTS s1, s2, t1, t2, c1, c2, nobody

\* Lengths of bodies: one may be empty, another too long, or -2 or -1.
BodyLengths == {<<0, 2, 1>>, <<2, 1, 1>>, <<1, 1, 4>>, <<3, 0, 2>>, <<2, 10, 1>>, <<11>>}

\* Numbers of one, two and ten bytes, the two zeros of float, strings that are
\* empty, valid, not UTF-8, and one whose length takes two bytes.
Numbers == {0, 300, -1}
Zeros == {<<0, 0, 0, 0>>, <<0, 0, 0, 128>>}
Words == {<<>>, <<97>>, <<255>>}
Texts == [c \in {"MsgData", "Client", "Book", "Reply"} |-> Words]
         @@ ("Request" :> Words \cup {[i \in 1..130 |-> 97]})
Classes == {<<"Client", "MsgData">>, <<"MsgData", "Client">>, <<"Book", "Book">>,
            <<"Request", "Request">>, <<"Reply", "Reply">>, <<"Book", "MsgData">>,
            <<"MsgData", "Request">>}
=============================================================================
