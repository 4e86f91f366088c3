--------------------------- MODULE MCDebugSession ---------------------------
(***************************************************************************)
(* DebugSession for TLC: two servers, so that one can outlast its          *)
(* successor's start; two builds, so that addresses of one can reach a     *)
(* server of the other; one change of each kind of breakpoints, before or  *)
(* after the launch.                                                       *)
(***************************************************************************)
EXTENDS DebugSession

\* Sessions where servers pause and die, of one program, and ...
AboutServers ==
  /\ build = 1 /\ ~sourceNewer /\ reqLine = 0 /\ reqFn = 0 /\ ~configDone

\* ... sessions where breakpoints and the program change, of servers that do
\* neither; function breakpoints are set in the first server's time.
AboutBuilds ==
  /\ \A g \in Servers :
       ~crashed[g] /\ unread[g] = 0 /\ late[g] = 0 /\ conn[g] # "telling"
  /\ stack = 0
  /\ reqFn = 0 \/ lastId <= 1

\* A bound: every session is of one kind or of the other.
MCNext == Next /\ (AboutServers \/ AboutBuilds)'
MCSpec == Init /\ [][MCNext]_vars /\ Fairness
=============================================================================
