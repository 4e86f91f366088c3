----------------------------- MODULE ServerSlot -----------------------------
(***************************************************************************)
(* What a debug session promises about the game servers it starts: they    *)
(* hold one slot, one server at a time.  A server starts in an empty slot, *)
(* a server that left it never comes back, and a session that has ended    *)
(* leaves the slot empty for good.                                         *)
(***************************************************************************)
EXTENDS Naturals

VARIABLES
  slot,            \* the server that is up, 0 when there is none
  newest,          \* the latest server ever started
  open             \* has the session not ended yet?

slotVars == <<slot, newest, open>>

SlotInit == slot = 0 /\ newest = 0 /\ open = TRUE

Start ==
  /\ open
  /\ slot = 0
  /\ slot' > newest
  /\ newest' = slot'
  /\ UNCHANGED open

\* The session took the server down, or the server died.
Leave ==
  /\ slot # 0
  /\ slot' = 0
  /\ UNCHANGED <<newest, open>>

End ==
  /\ open
  /\ slot = 0
  /\ open' = FALSE
  /\ UNCHANGED <<slot, newest>>

SlotNext == Start \/ Leave \/ End

SlotSpec == SlotInit /\ [][SlotNext]_slotVars
=============================================================================
