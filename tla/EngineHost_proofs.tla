------------------------- MODULE EngineHost_proofs --------------------------
(***************************************************************************)
(* Theorems about the hosted engine, for every set of connections and      *)
(* every limit of restarts, starts, stops and panics.                      *)
(*                                                                         *)
(* The types are proved first.  The safety properties follow from HostInv, *)
(* which says what each thread of the supervisor owns at each point.       *)
(***************************************************************************)
EXTENDS EngineHost, SequenceTheorems, TLAPS

\* The core starts with every variable in its type.
LEMMA InitTypeOK == HostInit => HostTypeOK
  <1> SUFFICES ASSUME HostInit PROVE HostTypeOK
    OBVIOUS
  <1>1. ThreadTypeOK
    BY HostAssumption DEF HostInit, ThreadTypeOK, ThreadState, Health
  <1>2. LoopTypeOK
    BY HostAssumption DEF HostInit, LoopTypeOK
  <1>3. ConnTypeOK
    BY HostAssumption, EmptySeq DEF HostInit, ConnTypeOK, ConnState
  <1> QED
    BY <1>1, <1>2, <1>3 DEF HostTypeOK

\* A part of the state a step leaves alone keeps its type.
LEMMA KeepTypes ==
  ASSUME HostTypeOK
  PROVE  /\ UNCHANGED <<gens, hostThreadVars>> => ThreadTypeOK'
         /\ UNCHANGED loopVars => LoopTypeOK'
         /\ UNCHANGED <<connVars, hostCountVars>> => ConnTypeOK'
  <1>1. UNCHANGED <<gens, hostThreadVars>> => ThreadTypeOK'
    BY DEF HostTypeOK, ThreadTypeOK, hostThreadVars
  <1>2. UNCHANGED loopVars => LoopTypeOK'
    BY DEF HostTypeOK, LoopTypeOK, loopVars
  <1>3. UNCHANGED <<connVars, hostCountVars>> => ConnTypeOK'
    BY DEF HostTypeOK, ConnTypeOK, connVars, hostCountVars
  <1> QED
    BY <1>1, <1>2, <1>3

\* Starting and stopping the engine keep the types (service.rs).
LEMMA ServiceStepTypeOK ==
  ASSUME HostTypeOK, ServiceNext
  PROVE  HostTypeOK'
  <1>1. CASE Start
    <2>1. ThreadTypeOK'
      BY <1>1, HostAssumption
         DEF Start, HostTypeOK, ThreadTypeOK, ThreadState, Gens
    <2> QED
      BY <1>1, <2>1, KeepTypes DEF Start, HostTypeOK
  <1>2. CASE Stop
    <2>1. ThreadTypeOK'
      BY <1>2 DEF Stop, HostTypeOK, ThreadTypeOK
    <2>2. ConnTypeOK'
      BY <1>2 DEF Stop, HostTypeOK, ConnTypeOK, connVars
    <2> QED
      BY <1>2, <2>1, <2>2, KeepTypes DEF Stop, HostTypeOK
  <1> QED
    BY <1>1, <1>2 DEF ServiceNext

\* The route keeps the types (sessions.rs, EngineRoute).
LEMMA RouteStepTypeOK ==
  ASSUME HostTypeOK, RouteNext
  PROVE  HostTypeOK'
  <1>1. ASSUME NEW c \in Conns, RouteLooks(c)
       PROVE  HostTypeOK'
    <2>1. ConnTypeOK'
      BY <1>1 DEF RouteLooks, HostTypeOK, ConnTypeOK, ConnState, hostCountVars
    <2> QED
      BY <1>1, <2>1, KeepTypes DEF RouteLooks, HostTypeOK
  <1>2. ASSUME NEW c \in Conns, RouteSends(c)
       PROVE  HostTypeOK'
    <2>1. ConnTypeOK'
      <3>1. Append(queue, c) \in Seq(Conns)
        BY <1>2, AppendProperties DEF HostTypeOK, ConnTypeOK
      <3> QED
        BY <1>2, <3>1 DEF RouteSends, HostTypeOK, ConnTypeOK, ConnState, hostCountVars
    <2> QED
      BY <1>2, <2>1, KeepTypes DEF RouteSends, HostTypeOK
  <1> QED
    BY <1>1, <1>2 DEF RouteNext

\* The supervisor keeps the types (supervisor/mod.rs, supervise).
LEMMA SuperviseStepTypeOK ==
  ASSUME HostTypeOK, SuperviseNext
  PROVE  HostTypeOK'
  <1>1. ASSUME NEW g \in Gens, Rise(g)
       PROVE  HostTypeOK'
    <2>1. ThreadTypeOK'
      BY <1>1 DEF Rise, HostTypeOK, ThreadTypeOK, ThreadState, Health
    <2> QED
      BY <1>1, <2>1, KeepTypes DEF Rise, HostTypeOK
  <1>2. ASSUME NEW g \in Gens, EndStopped(g)
       PROVE  HostTypeOK'
    <2>1. ThreadTypeOK'
      BY <1>2 DEF EndStopped, HostTypeOK, ThreadTypeOK, ThreadState, Health
    <2> QED
      BY <1>2, <2>1, KeepTypes DEF EndStopped, HostTypeOK
  <1>3. ASSUME NEW g \in Gens, Restart(g)
       PROVE  HostTypeOK'
    <2>1. ThreadTypeOK'
      <3>1. PICK healthy \in BOOLEAN :
              restarts' = [restarts EXCEPT ![g] = Counted(g, healthy)]
        BY <1>3 DEF Restart
      <3>2. Counted(g, healthy) \in Nat
        BY DEF Counted, HostTypeOK, ThreadTypeOK
      <3>3. restarts' \in [Gens -> Nat]
        BY <3>1, <3>2 DEF HostTypeOK, ThreadTypeOK
      <3> QED
        BY <1>3, <3>3 DEF Restart, HostTypeOK, ThreadTypeOK, ThreadState, Health
    <2> QED
      BY <1>3, <2>1, KeepTypes DEF Restart, HostTypeOK
  <1>4. ASSUME NEW g \in Gens, GiveUp(g)
       PROVE  HostTypeOK'
    <2>1. ThreadTypeOK'
      <3>1. PICK healthy \in BOOLEAN :
              restarts' = [restarts EXCEPT ![g] = Counted(g, healthy)]
        BY <1>4 DEF GiveUp
      <3>2. Counted(g, healthy) \in Nat
        BY DEF Counted, HostTypeOK, ThreadTypeOK
      <3>3. restarts' \in [Gens -> Nat]
        BY <3>1, <3>2 DEF HostTypeOK, ThreadTypeOK
      <3> QED
        BY <1>4, <3>3 DEF GiveUp, HostTypeOK, ThreadTypeOK, ThreadState, Health
    <2> QED
      BY <1>4, <2>1, KeepTypes DEF GiveUp, HostTypeOK
  <1> QED
    BY <1>1, <1>2, <1>3, <1>4 DEF SuperviseNext

\* The serving loop keeps the types (sessions.rs, EngineLoop::serve).
LEMMA LoopStepTypeOK ==
  ASSUME HostTypeOK, LoopNext
  PROVE  HostTypeOK'
  <1>1. ASSUME NEW g \in Gens, Lock(g)
       PROVE  HostTypeOK'
    <2>1. ThreadTypeOK'
      BY <1>1 DEF Lock, HostTypeOK, ThreadTypeOK, ThreadState
    <2>2. LoopTypeOK'
      BY <1>1, HostAssumption DEF Lock, HostTypeOK, LoopTypeOK, Gens
    <2> QED
      BY <1>1, <2>1, <2>2, KeepTypes DEF Lock, HostTypeOK
  <1>2. ASSUME NEW g \in Gens, TestFlag(g)
       PROVE  HostTypeOK'
    <2>1. ThreadTypeOK'
      BY <1>2 DEF TestFlag, HostTypeOK, ThreadTypeOK, ThreadState
    <2> QED
      BY <1>2, <2>1, KeepTypes DEF TestFlag, HostTypeOK
  <1>3. ASSUME NEW g \in Gens, Receive(g)
       PROVE  HostTypeOK'
    <2>1. ThreadTypeOK'
      BY <1>3 DEF Receive, HostTypeOK, ThreadTypeOK, ThreadState
    <2>2. ConnTypeOK'
      <3>1. queue \in Seq(Conns) /\ queue # <<>>
        BY <1>3 DEF Receive, HostTypeOK, ConnTypeOK
      <3>2. Head(queue) \in Conns /\ Tail(queue) \in Seq(Conns)
        BY <3>1, HeadTailProperties
      <3> QED
        BY <1>3, <3>2
           DEF Receive, HostTypeOK, ConnTypeOK, ConnState, Gens, hostCountVars
    <2> QED
      BY <1>3, <2>1, <2>2, KeepTypes DEF Receive, HostTypeOK
  <1>4. ASSUME NEW g \in Gens, ReceiveTimeout(g)
       PROVE  HostTypeOK'
    <2>1. ThreadTypeOK'
      BY <1>4 DEF ReceiveTimeout, HostTypeOK, ThreadTypeOK, ThreadState
    <2> QED
      BY <1>4, <2>1, KeepTypes DEF ReceiveTimeout, HostTypeOK
  <1>5. ASSUME NEW g \in Gens, CheckPasses(g)
       PROVE  HostTypeOK'
    <2>1. ThreadTypeOK'
      BY <1>5 DEF CheckPasses, HostTypeOK, ThreadTypeOK, ThreadState
    <2> QED
      BY <1>5, <2>1, KeepTypes DEF CheckPasses, HostTypeOK
  <1>6. ASSUME NEW g \in Gens, Fall(g)
       PROVE  HostTypeOK'
    <2>1. ThreadTypeOK'
      BY <1>6 DEF Fall, HostTypeOK, ThreadTypeOK, ThreadState
    <2>2. LoopTypeOK'
      BY <1>6, HostAssumption DEF Fall, HostTypeOK, LoopTypeOK
    <2>3. ConnTypeOK'
      <3>1. AfterDrop(g) \in [Conns -> ConnState]
        BY DEF AfterDrop, HostTypeOK, ConnTypeOK, ConnState
      <3> QED
        BY <1>6, <3>1 DEF Fall, HostTypeOK, ConnTypeOK, hostCountVars
    <2> QED
      BY <1>6, <2>1, <2>2, <2>3, KeepTypes DEF Fall, HostTypeOK
  <1>7. ASSUME NEW g \in Gens, Drain(g)
       PROVE  HostTypeOK'
    <2>1. ConnTypeOK'
      <3>1. queue \in Seq(Conns) /\ queue # <<>>
        BY <1>7 DEF Drain, HostTypeOK, ConnTypeOK
      <3>2. Head(queue) \in Conns /\ Tail(queue) \in Seq(Conns)
        BY <3>1, HeadTailProperties
      <3> QED
        BY <1>7, <3>2 DEF Drain, HostTypeOK, ConnTypeOK, ConnState, hostCountVars
    <2> QED
      BY <1>7, <2>1, KeepTypes DEF Drain, HostTypeOK
  <1>8. ASSUME NEW g \in Gens, Leave(g)
       PROVE  HostTypeOK'
    <2>1. ThreadTypeOK'
      BY <1>8 DEF Leave, HostTypeOK, ThreadTypeOK, ThreadState
    <2>2. LoopTypeOK'
      BY <1>8, HostAssumption DEF Leave, HostTypeOK, LoopTypeOK
    <2>3. ConnTypeOK'
      <3>1. AfterDrop(g) \in [Conns -> ConnState]
        BY DEF AfterDrop, HostTypeOK, ConnTypeOK, ConnState
      <3> QED
        BY <1>8, <3>1 DEF Leave, HostTypeOK, ConnTypeOK, hostCountVars
    <2> QED
      BY <1>8, <2>1, <2>2, <2>3, KeepTypes DEF Leave, HostTypeOK
  <1> QED
    BY <1>1, <1>2, <1>3, <1>4, <1>5, <1>6, <1>7, <1>8 DEF LoopNext

\* Sessions and clients keep the types (sessions.rs, SessionGuard).
LEMMA SessionStepTypeOK ==
  ASSUME HostTypeOK, SessionNext
  PROVE  HostTypeOK'
  <1>1. ASSUME NEW c \in Conns, Reconnect(c)
       PROVE  HostTypeOK'
    <2>1. ConnTypeOK'
      BY <1>1, HostAssumption DEF Reconnect, HostTypeOK, ConnTypeOK, ConnState
    <2> QED
      BY <1>1, <2>1, KeepTypes DEF Reconnect, HostTypeOK
  <1>2. ASSUME NEW c \in Conns, SessionEnds(c)
       PROVE  HostTypeOK'
    <2>1. ConnTypeOK'
      BY <1>2 DEF SessionEnds, HostTypeOK, ConnTypeOK, ConnState, hostCountVars
    <2> QED
      BY <1>2, <2>1, KeepTypes DEF SessionEnds, HostTypeOK
  <1>3. ASSUME NEW c \in Conns, Panic(c)
       PROVE  HostTypeOK'
    <2>1. LoopTypeOK'
      BY <1>3, HostAssumption DEF Panic, HostTypeOK, LoopTypeOK
    <2>2. ConnTypeOK'
      <3>1. panics' \in [Gens -> Nat]
        <4>1. \A h \in Gens : panics'[h] \in Nat
          BY <1>3 DEF Panic, HostTypeOK, ConnTypeOK
        <4> QED
          BY <1>3, <4>1 DEF Panic, HostTypeOK, ConnTypeOK
      <3>2. conn' \in [Conns -> ConnState]
        BY <1>3 DEF Panic, HostTypeOK, ConnTypeOK, ConnState
      <3> QED
        BY <1>3, <3>1, <3>2 DEF Panic, HostTypeOK, ConnTypeOK
    <2> QED
      BY <1>3, <2>1, <2>2, KeepTypes DEF Panic, HostTypeOK
  <1> QED
    BY <1>1, <1>2, <1>3 DEF SessionNext

\* Every variable keeps its type in every run of the core.
THEOREM HostTypeCorrect == HostSpec => []HostTypeOK
  <1>1. HostTypeOK /\ UNCHANGED hostVars => HostTypeOK'
    BY KeepTypes DEF HostTypeOK, hostVars
  <1>2. HostTypeOK /\ [HostNext]_hostVars => HostTypeOK'
    BY <1>1, ServiceStepTypeOK, RouteStepTypeOK, SuperviseStepTypeOK,
       LoopStepTypeOK, SessionStepTypeOK
       DEF HostNext
  <1> QED
    BY InitTypeOK, <1>2, PTL DEF HostSpec

-----------------------------------------------------------------------------
(***************************************************************************)
(* What each thread owns.                                                  *)
(***************************************************************************)

\* Only the latest generation may be wanted, and then its thread lives.  A
\* loop that drains or returned was told to stop, which is never taken back.
FlagInv ==
  \A g \in Gens :
    /\ running[g] => g = gens /\ stage[g] \notin {"none", "ended"}
    /\ g > gens => stage[g] = "none"
    /\ stage[g] \in {"draining", "returned"} => ~running[g]

\* Being in the loop and holding the queue are the same thing.
HolderInv == \A g \in Gens : stage[g] \in InLoop <=> holder = g

\* A session belongs to a generation whose thread is in the loop.
SessionInv ==
  \A c \in Conns :
    conn[c] \in {"open", "panicked"} => owner[c] \in Gens /\ stage[owner[c]] \in InLoop

\* A notice the loop has not acted on is a fall to come: it too needs a panic.
Due(g) == IF crashed[g] /\ stage[g] \in InLoop THEN 1 ELSE 0
FallInv == \A g \in Gens : falls[g] + Due(g) <= panics[g]

\* The counter never runs ahead of the falls, and is one short of them
\* until the supervisor counted the last.
CountInv ==
  \A g \in Gens :
    /\ restarts[g] + (IF stage[g] = "fallen" THEN 1 ELSE 0) <= falls[g]
    /\ health[g] = "failed" => falls[g] > MaxRestarts

HostInv == FlagInv /\ HolderInv /\ SessionInv /\ FallInv /\ CountInv

\* Nothing runs yet.
LEMMA InitInv == HostInit => HostInv
  <1> SUFFICES ASSUME HostInit PROVE HostInv
    OBVIOUS
  <1>1. FlagInv
    BY DEF HostInit, FlagInv
  <1>2. HolderInv
    BY DEF HostInit, HolderInv, InLoop
  <1>3. SessionInv
    BY DEF HostInit, SessionInv
  <1>4. FallInv
    BY DEF HostInit, FallInv, Due
  <1>5. CountInv
    BY DEF HostInit, CountInv
  <1> QED
    BY <1>1, <1>2, <1>3, <1>4, <1>5 DEF HostInv

\* A step that changes nothing a conjunct reads keeps it.
LEMMA KeepInv ==
  ASSUME HostInv
  PROVE  /\ UNCHANGED <<gens, running, stage>> => FlagInv'
         /\ UNCHANGED <<stage, holder>> => HolderInv'
         /\ UNCHANGED <<conn, owner, stage>> => SessionInv'
         /\ UNCHANGED <<falls, crashed, stage, panics>> => FallInv'
         /\ UNCHANGED <<restarts, stage, falls, health>> => CountInv'
  <1>1. UNCHANGED <<gens, running, stage>> => FlagInv'
    BY DEF HostInv, FlagInv
  <1>2. UNCHANGED <<stage, holder>> => HolderInv'
    BY DEF HostInv, HolderInv
  <1>3. UNCHANGED <<conn, owner, stage>> => SessionInv'
    BY DEF HostInv, SessionInv
  <1>4. UNCHANGED <<falls, crashed, stage, panics>> => FallInv'
    BY DEF HostInv, FallInv, Due
  <1>5. UNCHANGED <<restarts, stage, falls, health>> => CountInv'
    BY DEF HostInv, CountInv
  <1> QED
    BY <1>1, <1>2, <1>3, <1>4, <1>5

\* A start begins a generation nobody knows; a stop only clears a flag.
LEMMA ServiceStepInv ==
  ASSUME HostTypeOK, HostInv, ServiceNext
  PROVE  HostInv'
  <1>1. CASE Start
    <2>1. FlagInv'
      BY <1>1
         DEF Start, HostTypeOK, ThreadTypeOK, HostInv, FlagInv, IsRunning, Gens
    <2>2. HolderInv'
      BY <1>1
         DEF Start, HostTypeOK, ThreadTypeOK, HostInv, HolderInv, InLoop,
             FlagInv, Gens, loopVars
    <2>3. SessionInv'
      BY <1>1
         DEF Start, HostTypeOK, ThreadTypeOK, HostInv, SessionInv, InLoop,
             FlagInv, Gens, connVars
    <2>4. FallInv'
      BY <1>1
         DEF Start, HostTypeOK, ThreadTypeOK, ConnTypeOK, HostInv, FallInv,
             Due, InLoop, loopVars, hostCountVars
    <2>5. CountInv'
      BY <1>1 DEF Start, HostTypeOK, ThreadTypeOK, HostInv, CountInv
    <2> QED
      BY <1>1, <2>1, <2>2, <2>3, <2>4, <2>5, KeepInv DEF HostInv
  <1>2. CASE Stop
    <2>1. FlagInv'
      BY <1>2 DEF Stop, HostInv, FlagInv
    <2> QED
      BY <1>2, <2>1, KeepInv DEF Stop, HostInv, loopVars, connVars
  <1> QED
    BY <1>1, <1>2 DEF ServiceNext

\* The route touches no session.
LEMMA RouteStepInv ==
  ASSUME HostTypeOK, HostInv, RouteNext
  PROVE  HostInv'
  <1>1. ASSUME NEW c \in Conns, RouteLooks(c)
       PROVE  HostInv'
    <2>1. SessionInv'
      BY <1>1 DEF RouteLooks, HostInv, SessionInv, hostThreadVars
    <2> QED
      BY <1>1, <2>1, KeepInv
         DEF RouteLooks, HostInv, hostThreadVars, loopVars, hostCountVars
  <1>2. ASSUME NEW c \in Conns, RouteSends(c)
       PROVE  HostInv'
    <2>1. SessionInv'
      BY <1>2 DEF RouteSends, HostInv, SessionInv, hostThreadVars
    <2> QED
      BY <1>2, <2>1, KeepInv
         DEF RouteSends, HostInv, hostThreadVars, loopVars, hostCountVars
  <1> QED
    BY <1>1, <1>2 DEF RouteNext

\* The supervisor counts a fall once, and ends with the flag cleared.
LEMMA SuperviseStepInv ==
  ASSUME HostTypeOK, HostInv, SuperviseNext
  PROVE  HostInv'
  <1>1. ASSUME NEW g \in Gens, Rise(g)
       PROVE  HostInv'
    <2>1. FlagInv'
      BY <1>1 DEF Rise, HostTypeOK, ThreadTypeOK, HostInv, FlagInv
    <2>2. HolderInv'
      BY <1>1
         DEF Rise, HostTypeOK, ThreadTypeOK, HostInv, HolderInv, InLoop,
             loopVars
    <2>3. SessionInv'
      BY <1>1
         DEF Rise, HostTypeOK, ThreadTypeOK, HostInv, SessionInv, InLoop,
             connVars
    <2>4. FallInv'
      BY <1>1
         DEF Rise, HostTypeOK, ThreadTypeOK, HostInv, FallInv, Due, InLoop,
             loopVars, hostCountVars
    <2>5. CountInv'
      BY <1>1 DEF Rise, HostTypeOK, ThreadTypeOK, HostInv, CountInv
    <2> QED
      BY <1>1, <2>1, <2>2, <2>3, <2>4, <2>5, KeepInv DEF HostInv
  <1>2. ASSUME NEW g \in Gens, EndStopped(g)
       PROVE  HostInv'
    <2>1. FlagInv'
      BY <1>2 DEF EndStopped, HostInv, FlagInv
    <2>2. HolderInv'
      BY <1>2 DEF EndStopped, HostInv, HolderInv, InLoop, loopVars
    <2>3. SessionInv'
      BY <1>2 DEF EndStopped, HostInv, SessionInv, InLoop, connVars
    <2>4. FallInv'
      BY <1>2
         DEF EndStopped, HostInv, FallInv, Due, InLoop, loopVars, hostCountVars
    <2>5. CountInv'
      BY <1>2 DEF EndStopped, HostTypeOK, ThreadTypeOK, HostInv, CountInv
    <2> QED
      BY <1>2, <2>1, <2>2, <2>3, <2>4, <2>5, KeepInv DEF HostInv
  <1>3. ASSUME NEW g \in Gens, Restart(g)
       PROVE  HostInv'
    <2>1. FlagInv'
      BY <1>3 DEF Restart, HostInv, FlagInv
    <2>2. HolderInv'
      BY <1>3 DEF Restart, HostInv, HolderInv, InLoop, loopVars
    <2>3. SessionInv'
      BY <1>3 DEF Restart, HostInv, SessionInv, InLoop, connVars
    <2>4. FallInv'
      BY <1>3 DEF Restart, HostInv, FallInv, Due, InLoop, loopVars, hostCountVars
    <2>5. CountInv'
      BY <1>3
         DEF Restart, HostTypeOK, ThreadTypeOK, HostInv, CountInv, FlagInv,
             Counted
    <2> QED
      BY <1>3, <2>1, <2>2, <2>3, <2>4, <2>5, KeepInv DEF HostInv
  <1>4. ASSUME NEW g \in Gens, GiveUp(g)
       PROVE  HostInv'
    <2>1. FlagInv'
      BY <1>4 DEF GiveUp, HostTypeOK, ThreadTypeOK, HostInv, FlagInv
    <2>2. HolderInv'
      BY <1>4 DEF GiveUp, HostInv, HolderInv, InLoop, loopVars
    <2>3. SessionInv'
      BY <1>4 DEF GiveUp, HostInv, SessionInv, InLoop, connVars
    <2>4. FallInv'
      BY <1>4 DEF GiveUp, HostInv, FallInv, Due, InLoop, loopVars, hostCountVars
    <2>5. CountInv'
      <3>1. PICK healthy \in BOOLEAN :
              /\ Exceeds(Counted(g, healthy))
              /\ restarts' = [restarts EXCEPT ![g] = Counted(g, healthy)]
        BY <1>4 DEF GiveUp
      <3>2. stage[g] = "fallen"
        BY <1>4 DEF GiveUp, HostInv, FlagInv
      <3>3. /\ Counted(g, healthy) \in Nat /\ falls[g] \in Nat
            /\ Counted(g, healthy) <= falls[g]
        BY <3>2 DEF Counted, HostTypeOK, ThreadTypeOK, HostInv, CountInv
      <3>4. falls[g] > MaxRestarts
        BY <3>1, <3>3, HostAssumption DEF Exceeds
      <3> QED
        BY <1>4, <3>1, <3>3, <3>4
           DEF GiveUp, HostTypeOK, ThreadTypeOK, HostInv, CountInv
    <2> QED
      BY <1>4, <2>1, <2>2, <2>3, <2>4, <2>5, KeepInv DEF HostInv
  <1> QED
    BY <1>1, <1>2, <1>3, <1>4 DEF SuperviseNext

\* The loop makes and drops its sessions while it holds the queue.
LEMMA LoopStepInv ==
  ASSUME HostTypeOK, HostInv, LoopNext
  PROVE  HostInv'
  <1>1. ASSUME NEW g \in Gens, Lock(g)
       PROVE  HostInv'
    <2>1. FlagInv'
      BY <1>1 DEF Lock, HostInv, FlagInv
    <2>2. HolderInv'
      BY <1>1 DEF Lock, HostTypeOK, ThreadTypeOK, HostInv, HolderInv, InLoop, Gens
    <2>3. SessionInv'
      BY <1>1 DEF Lock, HostInv, SessionInv, InLoop, connVars
    <2>4. FallInv'
      BY <1>1
         DEF Lock, HostTypeOK, ThreadTypeOK, LoopTypeOK, ConnTypeOK, HostInv,
             FallInv, Due, hostCountVars
    <2>5. CountInv'
      BY <1>1 DEF Lock, HostInv, CountInv
    <2> QED
      BY <1>1, <2>1, <2>2, <2>3, <2>4, <2>5, KeepInv DEF HostInv
  <1>2. ASSUME NEW g \in Gens, TestFlag(g)
       PROVE  HostInv'
    <2>1. FlagInv'
      BY <1>2 DEF TestFlag, HostInv, FlagInv
    <2>2. HolderInv'
      BY <1>2 DEF TestFlag, HostInv, HolderInv, InLoop, loopVars
    <2>3. SessionInv'
      BY <1>2 DEF TestFlag, HostInv, SessionInv, InLoop, connVars
    <2>4. FallInv'
      BY <1>2 DEF TestFlag, HostInv, FallInv, Due, InLoop, loopVars, hostCountVars
    <2>5. CountInv'
      BY <1>2 DEF TestFlag, HostInv, CountInv
    <2> QED
      BY <1>2, <2>1, <2>2, <2>3, <2>4, <2>5, KeepInv DEF HostInv
  <1>3. ASSUME NEW g \in Gens, Receive(g)
       PROVE  HostInv'
    <2>1. FlagInv'
      BY <1>3 DEF Receive, HostInv, FlagInv
    <2>2. HolderInv'
      BY <1>3 DEF Receive, HostInv, HolderInv, InLoop, loopVars
    <2>3. SessionInv'
      BY <1>3 DEF Receive, HostTypeOK, ConnTypeOK, HostInv, SessionInv, InLoop
    <2>4. FallInv'
      BY <1>3 DEF Receive, HostInv, FallInv, Due, InLoop, loopVars, hostCountVars
    <2>5. CountInv'
      BY <1>3 DEF Receive, HostInv, CountInv
    <2> QED
      BY <1>3, <2>1, <2>2, <2>3, <2>4, <2>5, KeepInv DEF HostInv
  <1>4. ASSUME NEW g \in Gens, ReceiveTimeout(g)
       PROVE  HostInv'
    <2>1. FlagInv'
      BY <1>4 DEF ReceiveTimeout, HostInv, FlagInv
    <2>2. HolderInv'
      BY <1>4 DEF ReceiveTimeout, HostInv, HolderInv, InLoop, loopVars
    <2>3. SessionInv'
      BY <1>4 DEF ReceiveTimeout, HostInv, SessionInv, InLoop, connVars
    <2>4. FallInv'
      BY <1>4
         DEF ReceiveTimeout, HostInv, FallInv, Due, InLoop, loopVars,
             hostCountVars
    <2>5. CountInv'
      BY <1>4 DEF ReceiveTimeout, HostInv, CountInv
    <2> QED
      BY <1>4, <2>1, <2>2, <2>3, <2>4, <2>5, KeepInv DEF HostInv
  <1>5. ASSUME NEW g \in Gens, CheckPasses(g)
       PROVE  HostInv'
    <2>1. FlagInv'
      BY <1>5 DEF CheckPasses, HostInv, FlagInv
    <2>2. HolderInv'
      BY <1>5 DEF CheckPasses, HostInv, HolderInv, InLoop, loopVars
    <2>3. SessionInv'
      BY <1>5 DEF CheckPasses, HostInv, SessionInv, InLoop, connVars
    <2>4. FallInv'
      BY <1>5 DEF CheckPasses, HostInv, FallInv, Due, loopVars, hostCountVars
    <2>5. CountInv'
      BY <1>5 DEF CheckPasses, HostInv, CountInv
    <2> QED
      BY <1>5, <2>1, <2>2, <2>3, <2>4, <2>5, KeepInv DEF HostInv
  <1>6. ASSUME NEW g \in Gens, Fall(g)
       PROVE  HostInv'
    <2>1. FlagInv'
      BY <1>6 DEF Fall, HostInv, FlagInv
    <2>2. HolderInv'
      BY <1>6 DEF Fall, HostTypeOK, ThreadTypeOK, HostInv, HolderInv, InLoop, Gens
    <2>3. SessionInv'
      BY <1>6 DEF Fall, HostInv, SessionInv, AfterDrop
    <2>4. FallInv'
      BY <1>6
         DEF Fall, HostTypeOK, ThreadTypeOK, HostInv, FallInv, Due, InLoop,
             hostCountVars
    <2>5. CountInv'
      <3>1. falls' \in [Gens -> Nat] /\ falls'[g] = falls[g] + 1
        BY <1>6 DEF Fall, HostTypeOK, ThreadTypeOK
      <3>2. \A h \in Gens : falls[h] <= falls'[h]
        BY <1>6 DEF Fall, HostTypeOK, ThreadTypeOK
      <3>3. restarts[g] + 1 <= falls'[g]
        BY <1>6, <3>1 DEF HostTypeOK, ThreadTypeOK, HostInv, CountInv
      <3> QED
        BY <1>6, <3>1, <3>2, <3>3, HostAssumption
           DEF Fall, HostTypeOK, ThreadTypeOK, HostInv, CountInv
    <2> QED
      BY <1>6, <2>1, <2>2, <2>3, <2>4, <2>5, KeepInv DEF HostInv
  <1>7. ASSUME NEW g \in Gens, Drain(g)
       PROVE  HostInv'
    <2>1. SessionInv'
      BY <1>7 DEF Drain, HostInv, SessionInv, hostThreadVars
    <2> QED
      BY <1>7, <2>1, KeepInv
         DEF Drain, HostInv, hostThreadVars, loopVars, hostCountVars
  <1>8. ASSUME NEW g \in Gens, Leave(g)
       PROVE  HostInv'
    <2>1. FlagInv'
      BY <1>8 DEF Leave, HostInv, FlagInv
    <2>2. HolderInv'
      BY <1>8 DEF Leave, HostTypeOK, ThreadTypeOK, HostInv, HolderInv, InLoop, Gens
    <2>3. SessionInv'
      BY <1>8 DEF Leave, HostInv, SessionInv, AfterDrop
    <2>4. FallInv'
      BY <1>8
         DEF Leave, HostTypeOK, ThreadTypeOK, ConnTypeOK, HostInv, FallInv,
             Due, InLoop, hostCountVars
    <2>5. CountInv'
      BY <1>8 DEF Leave, HostInv, CountInv
    <2> QED
      BY <1>8, <2>1, <2>2, <2>3, <2>4, <2>5, KeepInv DEF HostInv
  <1> QED
    BY <1>1, <1>2, <1>3, <1>4, <1>5, <1>6, <1>7, <1>8 DEF LoopNext

\* A session that panics leaves notice with the loop that made it.
LEMMA SessionStepInv ==
  ASSUME HostTypeOK, HostInv, SessionNext
  PROVE  HostInv'
  <1>1. ASSUME NEW c \in Conns, Reconnect(c)
       PROVE  HostInv'
    <2>1. SessionInv'
      BY <1>1 DEF Reconnect, HostInv, SessionInv, hostThreadVars
    <2> QED
      BY <1>1, <2>1, KeepInv DEF Reconnect, HostInv, hostThreadVars, loopVars
  <1>2. ASSUME NEW c \in Conns, SessionEnds(c)
       PROVE  HostInv'
    <2>1. SessionInv'
      BY <1>2 DEF SessionEnds, HostInv, SessionInv, hostThreadVars
    <2> QED
      BY <1>2, <2>1, KeepInv
         DEF SessionEnds, HostInv, hostThreadVars, loopVars, hostCountVars
  <1>3. ASSUME NEW c \in Conns, Panic(c)
       PROVE  HostInv'
    <2>1. SessionInv'
      BY <1>3 DEF Panic, HostInv, SessionInv, hostThreadVars
    <2>2. FallInv'
      BY <1>3
         DEF Panic, HostTypeOK, ThreadTypeOK, ConnTypeOK, HostInv, FallInv,
             Due, hostThreadVars
    <2> QED
      BY <1>3, <2>1, <2>2, KeepInv DEF Panic, HostInv, hostThreadVars
  <1> QED
    BY <1>1, <1>2, <1>3 DEF SessionNext

\* HostInv holds in every run of the core.
THEOREM HostInvCorrect == HostSpec => []HostInv
  <1>1. HostInv /\ UNCHANGED hostVars => HostInv'
    BY KeepInv DEF HostInv, hostVars, hostThreadVars, loopVars, connVars, hostCountVars
  <1>2. HostTypeOK /\ HostInv /\ [HostNext]_hostVars => HostInv'
    BY <1>1, ServiceStepInv, RouteStepInv, SuperviseStepInv, LoopStepInv,
       SessionStepInv
       DEF HostNext
  <1> QED
    BY HostTypeCorrect, InitInv, <1>2, PTL DEF HostSpec

\* The flag of the engine says that a thread is behind it, so that whoever
\* asks for an engine that stopped or gave up gets a new one (is_running).
THEOREM NoGhostEngineCorrect == HostSpec => []NoGhostEngine
  <1>1. HostInv => NoGhostEngine
    BY DEF HostInv, FlagInv, NoGhostEngine
  <1> QED
    BY HostInvCorrect, <1>1, PTL

\* A session never outlives its loop, and two generations never serve at
\* once, even while an old one leaves (Sessions::drop, serve).
THEOREM SessionsCorrect == HostSpec => []SessionsHaveTheirLoop
  <1>1. HostInv => SessionsHaveTheirLoop
    BY DEF HostInv, HolderInv, SessionInv, SessionsHaveTheirLoop
  <1> QED
    BY HostInvCorrect, <1>1, PTL

\* The loop falls only for panics of its own sessions, once for each at most.
THEOREM FallsCorrect == HostSpec => []FallsBackedByPanics
  <1>1. HostTypeOK /\ HostInv => FallsBackedByPanics
    <2> SUFFICES ASSUME HostTypeOK, HostInv, NEW g \in Gens
                 PROVE  falls[g] <= panics[g]
      BY DEF FallsBackedByPanics
    <2>1. falls[g] + Due(g) <= panics[g] /\ Due(g) \in {0, 1}
      BY DEF HostInv, FallInv, Due
    <2>2. falls[g] \in Nat /\ panics[g] \in Nat
      BY DEF HostTypeOK, ThreadTypeOK, ConnTypeOK
    <2> QED
      BY <2>1, <2>2
  <1> QED
    BY HostTypeCorrect, HostInvCorrect, <1>1, PTL

\* The supervisor gives up after more than MAX_RESTARTS falls, whatever the
\* limit is.
THEOREM GivesUpLateCorrect == HostSpec => []GivesUpLate
  <1>1. HostInv => GivesUpLate
    BY DEF HostInv, CountInv, GivesUpLate
  <1> QED
    BY HostInvCorrect, <1>1, PTL
=============================================================================
