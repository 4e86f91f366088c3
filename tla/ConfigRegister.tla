--------------------------- MODULE ConfigRegister ---------------------------
(***************************************************************************)
(* What the configuration service promises to those who listen to it: one  *)
(* register, of one project at a time.  They are told the configuration of *)
(* the project that is open, and as long as it stays open they are never   *)
(* told an older content of one of its files than they already knew.       *)
(***************************************************************************)
EXTENDS Naturals

VARIABLES
  open,   \* the project that is open
  told    \* what the listeners know: a project and the versions of its files

regVars == <<open, told>>

\* x is of the same project as y and no file of it is older.
NotOlder(x, y) ==
  /\ x.root = y.root
  /\ x.user >= y.user
  /\ x.project >= y.project
  /\ x.list >= y.list

OpenProject == UNCHANGED told

Tell ==
  /\ told'.root = open
  /\ told.root = open => NotOlder(told', told)
  /\ UNCHANGED open

RegNext == OpenProject \/ Tell

RegSpec == [][RegNext]_regVars
=============================================================================
