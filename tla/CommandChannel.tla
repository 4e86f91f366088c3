--------------------------- MODULE CommandChannel ---------------------------
(***************************************************************************)
(* What a debug session promises about the commands it sends to the plugin *)
(* of its server: they form one first-in first-out channel, whether they   *)
(* were sent before or after the plugin connected.  The plugin takes them  *)
(* in the order they were sent, none twice and none skipped.  When the     *)
(* session goes away it may take unsent commands with it, but only from    *)
(* the end of the channel, and nothing is sent afterwards.                 *)
(***************************************************************************)
EXTENDS Naturals, Sequences

VARIABLES
  queue,           \* commands sent and not yet taken, oldest first
  open             \* can the session still send?

chanVars == <<queue, open>>

ChanInit == queue = <<>> /\ open = TRUE

\* One request of the editor sends one command or several.
Send ==
  /\ open
  /\ Len(queue') > Len(queue)
  /\ SubSeq(queue', 1, Len(queue)) = queue
  /\ UNCHANGED open

Receive ==
  /\ queue # <<>>
  /\ queue' = Tail(queue)
  /\ UNCHANGED open

Close ==
  /\ open
  /\ open' = FALSE
  /\ Len(queue') <= Len(queue)
  /\ queue' = SubSeq(queue, 1, Len(queue'))

ChanNext == Send \/ Receive \/ Close

ChanSpec == ChanInit /\ [][ChanNext]_chanVars
=============================================================================
