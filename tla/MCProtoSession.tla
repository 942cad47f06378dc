--------------------------- MODULE MCProtoSession ---------------------------
(* One session with two requests, whose bodies may be cut.                  *)
EXTENDS ProtoSession

CONSTANTS c1, nobody

Bodies == {<<2, 1>>}
=============================================================================
