---------------------------- MODULE MCDebugPause ----------------------------
(***************************************************************************)
(* DebugPause for TLC.  The bounds are given in MCDebugPause.cfg: two      *)
(* pauses, so that what is left over from one can reach the next; two      *)
(* requests, so that the answer to one can find the other waiting; and one *)
(* change of settings besides the configuration.                           *)
(***************************************************************************)
EXTENDS DebugPause
=============================================================================
