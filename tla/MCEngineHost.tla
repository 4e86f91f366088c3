--------------------------- MODULE MCEngineHost ----------------------------
(***************************************************************************)
(* EngineHost alone, for what happens after the supervisor gave up: two    *)
(* connections, one of which is still queued.                              *)
(***************************************************************************)
EXTENDS EngineHost

CONSTANTS c1, c2
=============================================================================
