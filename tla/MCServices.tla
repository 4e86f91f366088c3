----------------------------- MODULE MCServices -----------------------------
(***************************************************************************)
(* Small instances of what runs behind the editor.                         *)
(* Engine: two connections, one served while the other waits or is being   *)
(* handed over; two generations, for the old loop to leave while the new   *)
(* one begins.                                                             *)
(* Documents: a program and the include it includes; one analysis or       *)
(* request may be under way when the editor, the disk or the core do the   *)
(* next thing.                                                             *)
(* Windows: one follows the log; both save their state; one asks the rest. *)
(***************************************************************************)
EXTENDS Services

CONSTANTS c1, c2

ProgramIncludes == [f \in Files |-> IF f = "program" THEN {"include"} ELSE {}]

(* One setting that changes the diagnostics, one that changes the style.   *)
SomeSettings == {s \in Settings : ~(s.suppress /\ s.style)}

WindowAsks == {<<{"log"}, {}>>, <<{"state"}, {"state"}>>,
               <<{"state", "compile", "unknown", "malformed"}, {}>>}
=============================================================================
