---------------------------- MODULE MCLogicSystem ----------------------------
(* Two I/O threads, three messages of which one has no callback.            *)
EXTENDS LogicSystem

CONSTANTS p1, p2, hello1, hello2, unknown

MCPosters == {p1, p2}
MCNodes == {hello1, hello2, unknown}
MCRegistered == {hello1, hello2}
=============================================================================
