----------------------------- MODULE EngineHost -----------------------------
(***************************************************************************)
(* The engine hosted by the core: who keeps it up and who serves it.       *)
(*                                                                         *)
(*  - the RPC thread starts and stops it            (engine/service.rs);   *)
(*  - every start creates a supervised thread, a generation of the engine, *)
(*    that runs the serving loop, brings it up again when it falls and     *)
(*    gives up after too many falls                 (supervisor/mod.rs);   *)
(*  - the gateway hands each LSP connection to the route, which refuses it *)
(*    or puts it in a queue that outlives every generation;                *)
(*  - the loop holds the queue while it serves, turns each connection into *)
(*    a session, and falls when one of them panics  (engine/sessions.rs).  *)
(*                                                                         *)
(* Stopping does not wait: a new generation may begin while the loop of    *)
(* the old one is still leaving.  A panic of the loop has no other cause   *)
(* than the panic of a session.                                            *)
(***************************************************************************)
EXTENDS Naturals, Sequences, FiniteSets

CONSTANTS
  Conns,         \* LSP connections there may be at a time
  MaxRestarts,   \* MAX_RESTARTS, 5 in the code: falls in a row before giving up
  MaxStarts,     \* bound: generations
  MaxStops,      \* bound: requests to stop
  MaxReconnects, \* bound: connections opened in place of closed ones
  MaxPanics      \* bound: sessions of a generation that panic

ASSUME HostAssumption ==
  /\ IsFiniteSet(Conns)
  /\ MaxRestarts \in Nat /\ MaxStarts \in Nat
  /\ MaxStops \in Nat /\ MaxReconnects \in Nat /\ MaxPanics \in Nat

VARIABLES
  gens,      \* generations created; the latest is EngineService.task
  running,   \* Supervised.running of each generation
  stage,     \* where the thread of each generation is (ThreadState)
  restarts,  \* its counter of falls
  health,    \* the last health it told the extension
  holder,    \* the generation that holds EngineService.incoming, or 0
  crashed,   \* Sessions.crashed of its loop
  queue,     \* connections sent and not received
  conn,      \* what became of each connection (ConnState)
  owner,     \* the generation whose loop made a session of it, or 0
  stops,     \* requests to stop so far
  reconnects,\* connections opened in place of closed ones so far
  panics,    \* sessions of each generation that panicked so far
  falls      \* how many times the loop of each generation fell in all

hostThreadVars == <<running, stage, restarts, health, falls>>
loopVars   == <<holder, crashed>>
connVars   == <<queue, conn, owner>>
hostCountVars  == <<stops, reconnects, panics>>
hostVars == <<gens, hostThreadVars, loopVars, connVars, hostCountVars>>

-----------------------------------------------------------------------------
Gens == 1..MaxStarts

\* "none" is a generation not started; "rising" is about to look at the flag
\* of supervise; "locking" waits for the queue; "fallen" and "returned" left
\* the loop; "resting" is the delay before a restart.
ThreadState ==
  {"none", "rising", "locking", "testing", "receiving", "checking", "draining",
   "fallen", "returned", "resting", "ended"}

\* "checked": the route saw the engine up and has not sent it yet;
\* "panicked": its session panicked and the loop does not know yet;
\* "aborting": the loop is gone and its session ends at its next await.
ConnState == {"new", "checked", "queued", "open", "panicked", "aborting",
              "closed"}

Health == {"starting", "running", "restarting", "failed", "stopped"}

InLoop == {"testing", "receiving", "checking", "draining"}

\* The engine is up as far as the service and the route can tell.
IsRunning == gens > 0 /\ running[gens]

HostInit ==
  /\ gens = 0
  /\ running = [g \in Gens |-> FALSE] /\ stage = [g \in Gens |-> "none"]
  /\ restarts = [g \in Gens |-> 0] /\ falls = [g \in Gens |-> 0]
  /\ health = [g \in Gens |-> "starting"]
  /\ holder = 0 /\ crashed = [g \in Gens |-> FALSE]
  /\ queue = <<>> /\ conn = [c \in Conns |-> "new"]
  /\ owner = [c \in Conns |-> 0]
  /\ stops = 0 /\ reconnects = 0 /\ panics = [g \in Gens |-> 0]

-----------------------------------------------------------------------------
(***************************************************************************)
(* The service.                                                            *)
(***************************************************************************)

\* EngineService::start.  An engine that is up is left alone.
Start ==
  /\ gens < MaxStarts
  /\ ~IsRunning
  /\ gens' = gens + 1
  /\ running' = [running EXCEPT ![gens + 1] = TRUE]
  /\ stage' = [stage EXCEPT ![gens + 1] = "rising"]
  /\ UNCHANGED <<restarts, health, falls, loopVars, connVars, hostCountVars>>

\* EngineService::stop: the flag is cleared and nobody is waited for.
Stop ==
  /\ stops < MaxStops
  /\ gens > 0
  /\ running' = [running EXCEPT ![gens] = FALSE]
  /\ stops' = stops + 1
  /\ UNCHANGED <<gens, stage, restarts, health, falls, loopVars, connVars,
                 reconnects, panics>>

-----------------------------------------------------------------------------
(***************************************************************************)
(* The route: it looks at the flag, lets the lock go, and then sends.      *)
(***************************************************************************)

RouteLooks(c) ==
  /\ conn[c] = "new"
  /\ conn' = [conn EXCEPT ![c] = IF IsRunning THEN "checked" ELSE "closed"]
  /\ UNCHANGED <<gens, hostThreadVars, loopVars, queue, owner, hostCountVars>>

RouteSends(c) ==
  /\ conn[c] = "checked"
  /\ conn' = [conn EXCEPT ![c] = "queued"]
  /\ queue' = Append(queue, c)
  /\ UNCHANGED <<gens, hostThreadVars, loopVars, owner, hostCountVars>>

-----------------------------------------------------------------------------
(***************************************************************************)
(* supervise: the thread of generation g.                                  *)
(***************************************************************************)

\* The head of the loop: run the work, or end when asked to.
Rise(g) ==
  /\ stage[g] \in {"rising", "resting"}
  /\ IF running[g]
     THEN /\ stage' = [stage EXCEPT ![g] = "locking"]
          /\ health' = [health EXCEPT ![g] = "running"]
     ELSE /\ stage' = [stage EXCEPT ![g] = "ended"]
          /\ health' = [health EXCEPT ![g] = "stopped"]
  /\ UNCHANGED <<gens, running, restarts, falls, loopVars, connVars,
                 hostCountVars>>

\* A faulty supervisor that ends on the first fall whatever the flag says.
EndOnFall(g) ==
  /\ stage[g] \in {"fallen", "returned"}
  /\ stage' = [stage EXCEPT ![g] = "ended"]
  /\ health' = [health EXCEPT ![g] = "stopped"]
  /\ UNCHANGED <<gens, running, restarts, falls, loopVars, connVars,
                 hostCountVars>>

\* The work ended because it was asked to (or was asked to meanwhile).
EndStopped(g) ==
  /\ stage[g] \in {"fallen", "returned"}
  /\ ~running[g]
  /\ stage' = [stage EXCEPT ![g] = "ended"]
  /\ health' = [health EXCEPT ![g] = "stopped"]
  /\ UNCHANGED <<gens, running, restarts, falls, loopVars, connVars,
                 hostCountVars>>

\* The count of this fall: a work that ran well for long starts a new count.
Counted(g, healthy) == (IF healthy THEN 0 ELSE restarts[g]) + 1

\* A faulty limit that is reached one fall too early.
ExceedsEarly(n) == n >= MaxRestarts

Exceeds(n) == n > MaxRestarts

\* A fall within the limit: the thread rests and rises again.
Restart(g) ==
  /\ stage[g] \in {"fallen", "returned"}
  /\ running[g]
  /\ \E healthy \in BOOLEAN :
       /\ ~Exceeds(Counted(g, healthy))
       /\ restarts' = [restarts EXCEPT ![g] = Counted(g, healthy)]
  /\ stage' = [stage EXCEPT ![g] = "resting"]
  /\ health' = [health EXCEPT ![g] = "restarting"]
  /\ UNCHANGED <<gens, running, falls, loopVars, connVars, hostCountVars>>

\* A faulty surrender that leaves the flag on.
GiveUpKeepingFlag(g) ==
  /\ stage[g] \in {"fallen", "returned"}
  /\ running[g]
  /\ Exceeds(Counted(g, FALSE))
  /\ restarts' = [restarts EXCEPT ![g] = Counted(g, FALSE)]
  /\ stage' = [stage EXCEPT ![g] = "ended"]
  /\ health' = [health EXCEPT ![g] = "failed"]
  /\ UNCHANGED <<gens, running, falls, loopVars, connVars, hostCountVars>>

\* Too many falls: the flag is cleared so that a start can bring it back.
GiveUp(g) ==
  /\ stage[g] \in {"fallen", "returned"}
  /\ running[g]
  /\ \E healthy \in BOOLEAN :
       /\ Exceeds(Counted(g, healthy))
       /\ restarts' = [restarts EXCEPT ![g] = Counted(g, healthy)]
  /\ running' = [running EXCEPT ![g] = FALSE]
  /\ stage' = [stage EXCEPT ![g] = "ended"]
  /\ health' = [health EXCEPT ![g] = "failed"]
  /\ UNCHANGED <<gens, falls, loopVars, connVars, hostCountVars>>

-----------------------------------------------------------------------------
(***************************************************************************)
(* EngineLoop::serve, in the thread of generation g.                       *)
(***************************************************************************)

\* A faulty loop that keeps the notice of a panic of the previous attempt.
LockKeepingNotice(g) ==
  /\ stage[g] = "locking"
  /\ holder = 0
  /\ holder' = g
  /\ stage' = [stage EXCEPT ![g] = "testing"]
  /\ UNCHANGED <<gens, running, restarts, health, falls, crashed, connVars,
                 hostCountVars>>

\* The queue is taken, and the sessions of the attempt begin with none.
Lock(g) ==
  /\ stage[g] = "locking"
  /\ holder = 0
  /\ holder' = g
  /\ crashed' = [crashed EXCEPT ![g] = FALSE]
  /\ stage' = [stage EXCEPT ![g] = "testing"]
  /\ UNCHANGED <<gens, running, restarts, health, falls, connVars, hostCountVars>>

TestFlag(g) ==
  /\ stage[g] = "testing"
  /\ stage' = [stage EXCEPT ![g] = IF running[g] THEN "receiving" ELSE "draining"]
  /\ UNCHANGED <<gens, running, restarts, health, falls, loopVars, connVars,
                 hostCountVars>>

\* Sessions::accept.
Receive(g) ==
  /\ stage[g] = "receiving"
  /\ queue # <<>>
  /\ queue' = Tail(queue)
  /\ conn' = [conn EXCEPT ![Head(queue)] = "open"]
  /\ owner' = [owner EXCEPT ![Head(queue)] = g]
  /\ stage' = [stage EXCEPT ![g] = "checking"]
  /\ UNCHANGED <<gens, running, restarts, health, falls, loopVars, hostCountVars>>

ReceiveTimeout(g) ==
  /\ stage[g] = "receiving"
  /\ queue = <<>>
  /\ stage' = [stage EXCEPT ![g] = "checking"]
  /\ UNCHANGED <<gens, running, restarts, health, falls, loopVars, connVars,
                 hostCountVars>>

\* Sessions::check: nobody panicked.
CheckPasses(g) ==
  /\ stage[g] = "checking"
  /\ ~crashed[g]
  /\ stage' = [stage EXCEPT ![g] = "testing"]
  /\ UNCHANGED <<gens, running, restarts, health, falls, loopVars, connVars,
                 hostCountVars>>

\* A faulty drop that leaves the sessions to themselves.
AfterDropKeeping(g) == conn

\* A faulty drop that ends the sessions in a state of its own.
AfterDropKilled(g) ==
  [c \in Conns |-> IF owner[c] = g /\ conn[c] \in {"open", "panicked"}
                   THEN "killed" ELSE conn[c]]

\* Sessions::drop: what is still open is aborted.  A connection whose panic
\* the loop was to learn of is done with.
AfterDrop(g) ==
  [c \in Conns |-> IF owner[c] # g THEN conn[c]
                   ELSE IF conn[c] = "open" THEN "aborting"
                   ELSE IF conn[c] = "panicked" THEN "closed" ELSE conn[c]]

\* Sessions::check panics; unwinding drops the sessions and then the queue.
Fall(g) ==
  /\ stage[g] = "checking"
  /\ crashed[g]
  /\ conn' = AfterDrop(g)
  /\ holder' = 0
  /\ falls' = [falls EXCEPT ![g] = @ + 1]
  /\ stage' = [stage EXCEPT ![g] = "fallen"]
  /\ UNCHANGED <<gens, running, restarts, health, crashed, queue, owner,
                 hostCountVars>>

\* Asked to stop: what waits in the queue is closed ...
Drain(g) ==
  /\ stage[g] = "draining"
  /\ queue # <<>>
  /\ queue' = Tail(queue)
  /\ conn' = [conn EXCEPT ![Head(queue)] = "closed"]
  /\ UNCHANGED <<gens, hostThreadVars, loopVars, owner, hostCountVars>>

\* ... and the loop returns.
Leave(g) ==
  /\ stage[g] = "draining"
  /\ queue = <<>>
  /\ conn' = AfterDrop(g)
  /\ holder' = 0
  /\ stage' = [stage EXCEPT ![g] = "returned"]
  /\ UNCHANGED <<gens, running, restarts, health, falls, crashed, queue, owner,
                 hostCountVars>>

-----------------------------------------------------------------------------
(***************************************************************************)
(* A session, in the runtime of the gateway.                               *)
(***************************************************************************)

\* The client opens another connection in place of one that was closed.
Reconnect(c) ==
  /\ conn[c] = "closed"
  /\ reconnects < MaxReconnects
  /\ reconnects' = reconnects + 1
  /\ conn' = [conn EXCEPT ![c] = "new"]
  /\ owner' = [owner EXCEPT ![c] = 0]
  /\ UNCHANGED <<gens, hostThreadVars, loopVars, queue, stops, panics>>

\* The client leaves, or an aborted session reaches its next await.
SessionEnds(c) ==
  /\ conn[c] \in {"open", "aborting"}
  /\ conn' = [conn EXCEPT ![c] = "closed"]
  /\ UNCHANGED <<gens, hostThreadVars, loopVars, queue, owner, hostCountVars>>

\* A faulty session that unwinds without its guard.
PanicUnnoticed(c) ==
  /\ conn[c] = "open"
  /\ panics[owner[c]] < MaxPanics
  /\ panics' = [panics EXCEPT ![owner[c]] = @ + 1]
  /\ conn' = [conn EXCEPT ![c] = "panicked"]
  /\ UNCHANGED <<gens, hostThreadVars, loopVars, queue, owner, stops, reconnects>>

\* SessionGuard::drop: the panic is put where the loop that made it looks.
Panic(c) ==
  /\ conn[c] = "open"
  /\ panics[owner[c]] < MaxPanics
  /\ panics' = [panics EXCEPT ![owner[c]] = @ + 1]
  /\ conn' = [conn EXCEPT ![c] = "panicked"]
  /\ crashed' = [crashed EXCEPT ![owner[c]] = TRUE]
  /\ UNCHANGED <<gens, hostThreadVars, holder, queue, owner, stops, reconnects>>

-----------------------------------------------------------------------------
ServiceNext == Start \/ Stop

RouteNext == \E c \in Conns : RouteLooks(c) \/ RouteSends(c)

SuperviseNext ==
  \E g \in Gens : Rise(g) \/ EndStopped(g) \/ Restart(g) \/ GiveUp(g)

LoopNext ==
  \E g \in Gens :
    \/ Lock(g) \/ TestFlag(g) \/ Receive(g) \/ ReceiveTimeout(g)
    \/ CheckPasses(g) \/ Fall(g) \/ Drain(g) \/ Leave(g)

SessionNext == \E c \in Conns : Reconnect(c) \/ SessionEnds(c) \/ Panic(c)

HostNext == ServiceNext \/ RouteNext \/ SuperviseNext \/ LoopNext \/ SessionNext

\* What the thread of generation g does next.
Step(g) ==
  \/ Rise(g) \/ EndStopped(g) \/ Restart(g) \/ GiveUp(g)
  \/ Lock(g) \/ TestFlag(g) \/ Receive(g) \/ ReceiveTimeout(g)
  \/ CheckPasses(g) \/ Fall(g) \/ Drain(g) \/ Leave(g)

\* Every thread that can go on does: a supervised thread is never left
\* between two of its steps, and the mutex of the queue is given to the one
\* that waits for it.  Nothing makes a client connect or a session end.
HostFairness ==
  /\ \A c \in Conns : WF_hostVars(RouteSends(c))
  /\ \A g \in Gens : WF_hostVars(Step(g))

HostSpec     == HostInit /\ [][HostNext]_hostVars
HostFairSpec == HostSpec /\ HostFairness

-----------------------------------------------------------------------------
(***************************************************************************)
(* Properties.                                                             *)
(***************************************************************************)

ThreadTypeOK ==
  /\ gens \in 0..MaxStarts
  /\ running \in [Gens -> BOOLEAN] /\ stage \in [Gens -> ThreadState]
  /\ restarts \in [Gens -> Nat] /\ falls \in [Gens -> Nat]
  /\ health \in [Gens -> Health]

LoopTypeOK ==
  /\ holder \in 0..MaxStarts /\ crashed \in [Gens -> BOOLEAN]

ConnTypeOK ==
  /\ queue \in Seq(Conns) /\ conn \in [Conns -> ConnState]
  /\ owner \in [Conns -> 0..MaxStarts]
  /\ stops \in Nat /\ reconnects \in Nat /\ panics \in [Gens -> Nat]

\* Every variable has its type.
HostTypeOK == ThreadTypeOK /\ LoopTypeOK /\ ConnTypeOK

\* The flag says that a thread is behind it: after giving up or stopping,
\* whoever asks for the engine starts it again (supervise, is_running).
NoGhostEngine ==
  \A g \in Gens : running[g] => g = gens /\ stage[g] \notin {"none", "ended"}

\* A session lives under the loop that made it, and that loop holds the
\* queue: neither a fall nor a restart leaves sessions behind, and two
\* generations never serve at once (Sessions::drop, serve).
SessionsHaveTheirLoop ==
  \A c \in Conns :
    conn[c] \in {"open", "panicked"}
      => holder = owner[c] /\ stage[holder] \in InLoop

\* The loop falls only for a panic of a session of its own attempt, never
\* twice for one (Sessions.crashed, SessionGuard).
FallsBackedByPanics == \A g \in Gens : falls[g] <= panics[g]

\* The supervisor gives up after more than MAX_RESTARTS falls, not sooner.
GivesUpLate ==
  \A g \in Gens : health[g] = "failed" => falls[g] > MaxRestarts

\* A connection in the queue of an engine that is up is not left there,
\* through falls, restarts and the change of generation (accept, serve).
QueueMoves ==
  \A c \in Conns : []<>(conn[c] # "queued" \/ ~IsRunning)

\* A panic never leaves the engine up with nobody told: the loop falls, or
\* was leaving already (SessionGuard, check).
PanicNoticed == \A c \in Conns : []<>(conn[c] # "panicked")

\* With every loop gone, no connection waits in the queue (accept: it is
\* closed at once instead of leaving the client waiting).
NobodyLeftWaiting ==
  (\A g \in Gens : stage[g] \in {"none", "ended"})
    => \A c \in Conns : conn[c] # "queued"
=============================================================================
