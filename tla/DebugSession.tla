---------------------------- MODULE DebugSession ----------------------------
(***************************************************************************)
(* One debug session and the game servers it starts, restarts and stops.   *)
(*                                                                         *)
(*  - the main thread takes one request of the editor at a time, computes  *)
(*    from it a list of steps (what Session::handle returns, with the      *)
(*    steps of start_server and Running::stop laid out) and carries them   *)
(*    out one by one                            (session.rs, lib.rs);      *)
(*  - every server comes with a connection thread, which waits for its     *)
(*    plugin and then tells the editor what it says       (plugin.rs);     *)
(*  - the core hands the connection of a plugin to the session that        *)
(*    reserved it                             (supervisor/debugger/mod.rs);*)
(*  - the server loads the program and its plugin applies the commands.    *)
(*                                                                         *)
(* Servers are numbered in the order they are reserved, as the core does.  *)
(* Commands to a plugin are one FIFO channel per server: CommandChannel,   *)
(* which DebugPause implements.  A set of breakpoints is known by the      *)
(* request it answers and the build of the program its addresses are of.   *)
(***************************************************************************)
EXTENDS Naturals, Sequences, FiniteSets, FiniteSetsExt

CONSTANTS
  MaxServers,     \* bound: servers reserved in the session
  MaxBuilds,      \* bound: builds of the program
  MaxChanges,     \* bound: changes of each kind of breakpoints
  MaxCrashes,     \* bound: servers that die by themselves
  MaxUnread       \* bound: pauses of a server announced and not read yet

ASSUME SessionAssumption ==
  /\ MaxServers \in Nat \ {0}
  /\ MaxBuilds \in Nat \ {0}
  /\ MaxChanges \in Nat
  /\ MaxCrashes \in Nat
  /\ MaxUnread \in Nat

Servers == 1..MaxServers

VARIABLES
  \* the main thread
  phase,            \* open, stopping (it will read no more requests), ended
  todo,             \* steps left of the request in hand
  dbg,              \* Session.dbg: the build it describes, 0 when None
  reqLine, reqFn,   \* latest line and function breakpoints asked for
  lineBps, fnBps,   \* Session.line_bps and fn_bps, as resolved
  launched,         \* Session.spawn_spec is Some
  early,            \* the last line breakpoints asked for before that
  rebuildRequested, \* Session.rebuild_requested
  terminatedSent,   \* Session.terminated_sent
  client, child, registration,   \* Running: the server each is of, 0 when None
  lastId,           \* PluginRegistry.next_id
  registry,         \* PluginRegistry.waiting
  stack,            \* FrameCache: the server whose pause is cached, 0 when empty
  \* the project on disk
  build,            \* the compiled program
  hasDebug,         \* was it compiled with its debug information?
  sourceNewer,      \* was the source edited after it was compiled?
  \* each server, its plugin and its connection thread
  server,           \* none, up, down
  crashed,          \* did it die by itself?
  loaded,           \* the build it loads, 0 before it is spawned
  plug,             \* none, linked (the session was given the link), refused
  chan,             \* commands sent to it
  installed,        \* breakpoints its controller holds
  unread,           \* pauses it announced that were not read yet
  conn,             \* where its connection thread is
  retired,          \* PluginClient.retired
  late,             \* what the editor was told of it after it was retired
  \* the editor
  configDone,       \* has it sent configurationDone?
  endTold           \* servers it was told are gone; 0 is the session itself

mainVars  == <<phase, todo, dbg, reqLine, reqFn, lineBps, fnBps, launched,
               early, rebuildRequested, terminatedSent>>
runVars   == <<client, child, registration, lastId>>
diskVars  == <<build, hasDebug, sourceNewer>>
plugVars  == <<loaded, chan, installed>>
vars == <<mainVars, runVars, registry, stack, diskVars, server, crashed, plug,
          plugVars, unread, conn, retired, late, configDone, endTold>>

-----------------------------------------------------------------------------
NoBps  == [req |-> 0, build |-> 0]
Bps(r, b) == IF r = 0 \/ b = 0 THEN NoBps ELSE [req |-> r, build |-> b]
BpSet  == [req : 0..MaxChanges, build : 0..MaxBuilds]
AllBps == [line : BpSet, fn : BpSet]
NoneInstalled == [line |-> NoBps, fn |-> NoBps]

\* A step of the main thread; "bps" is used only by the one that sends them.
Step(do)    == [do |-> do, bps |-> NoneInstalled]
SendBps(l, f) == [do |-> "breakpoints", bps |-> [line |-> l, fn |-> f]]

\* A faulty order of the fields of Running.
StopStepsKillFirst == <<Step("kill"), Step("retire"), Step("release")>>

\* Running::stop, in the order of its assignments and of its fields, ...
StopSteps == <<Step("retire"), Step("kill"), Step("release")>>
\* ... and start_server.
SpawnSteps == StopSteps \o <<Step("clear"), Step("reserve"), Step("spawn")>>

StepKinds == {"retire", "kill", "release", "clear", "reserve", "spawn",
              "breakpoints", "configured", "tellEnd", "end"}

Init ==
  /\ phase = "open" /\ todo = <<>> /\ dbg = 0 /\ reqLine = 0 /\ reqFn = 0
  /\ lineBps = NoBps /\ fnBps = NoBps /\ launched = FALSE /\ early = 0
  /\ rebuildRequested = FALSE /\ terminatedSent = FALSE
  /\ client = 0 /\ child = 0 /\ registration = 0 /\ lastId = 0
  /\ registry = {} /\ stack = 0
  /\ build = 1 /\ hasDebug \in BOOLEAN /\ sourceNewer = FALSE
  /\ server = [g \in Servers |-> "none"] /\ crashed = [g \in Servers |-> FALSE]
  /\ loaded = [g \in Servers |-> 0] /\ plug = [g \in Servers |-> "none"]
  /\ chan = [g \in Servers |-> <<>>]
  /\ installed = [g \in Servers |-> NoneInstalled]
  /\ unread = [g \in Servers |-> 0]
  /\ conn = [g \in Servers |-> "none"] /\ retired = [g \in Servers |-> FALSE]
  /\ late = [g \in Servers |-> 0]
  /\ configDone = FALSE /\ endTold = {}

-----------------------------------------------------------------------------
(***************************************************************************)
(* Requests of the editor.                                                 *)
(***************************************************************************)

\* serve: the next request is read when the steps of the last one are done.
Free == phase = "open" /\ todo = <<>>

\* load_debug: a program without debug information drops the old map.
LoadedDebug == IF hasDebug THEN build ELSE 0

\* on_launch; without a server command it fails, the map loaded all the same.
Launch ==
  /\ Free
  /\ ~launched
  /\ lastId < MaxServers
  /\ dbg' = LoadedDebug
  /\ \/ UNCHANGED <<launched, early, todo>>
     \/ launched' = TRUE /\ early' = reqLine /\ todo' = SpawnSteps
  /\ UNCHANGED <<phase, reqLine, reqFn, lineBps, fnBps, rebuildRequested,
                 terminatedSent, runVars, registry, stack, diskVars, server,
                 crashed, plug, plugVars, unread, conn, retired, late,
                 configDone, endTold>>

\* on_set_breakpoints: what was asked is kept, and resolved against the map.
SetBreakpoints ==
  /\ Free
  /\ reqLine < MaxChanges
  /\ reqLine' = reqLine + 1
  /\ lineBps' = Bps(reqLine', dbg)
  /\ todo' = <<SendBps(lineBps', fnBps)>>
  /\ UNCHANGED <<phase, dbg, reqFn, fnBps, launched, early, rebuildRequested,
                 terminatedSent, runVars, registry, stack, diskVars, server,
                 crashed, plug, plugVars, unread, conn, retired, late,
                 configDone, endTold>>

\* on_set_function_breakpoints: what was asked is not kept, only resolved.
SetFunctionBreakpoints ==
  /\ Free
  /\ reqFn < MaxChanges
  /\ reqFn' = reqFn + 1
  /\ fnBps' = Bps(reqFn', dbg)
  /\ todo' = <<SendBps(lineBps, fnBps')>>
  /\ UNCHANGED <<phase, dbg, reqLine, lineBps, launched, early, rebuildRequested,
                 terminatedSent, runVars, registry, stack, diskVars, server,
                 crashed, plug, plugVars, unread, conn, retired, late,
                 configDone, endTold>>

ConfigurationDone ==
  /\ Free
  /\ ~configDone
  /\ configDone' = TRUE
  /\ todo' = <<SendBps(lineBps, fnBps), Step("configured")>>
  /\ UNCHANGED <<phase, dbg, reqLine, reqFn, lineBps, fnBps, launched, early,
                 rebuildRequested, terminatedSent, runVars, registry, stack,
                 diskVars, server, crashed, plug, plugVars, unread, conn,
                 retired, late, endTold>>

\* terminated_event: once per session, as far as the session knows.
TerminatedEvent == IF terminatedSent THEN <<>> ELSE <<Step("tellEnd")>>

\* on_terminate: the server goes, the session stays.
Terminate ==
  /\ Free
  /\ todo' = StopSteps \o TerminatedEvent
  /\ terminatedSent' = TRUE
  /\ UNCHANGED <<phase, dbg, reqLine, reqFn, lineBps, fnBps, launched, early,
                 rebuildRequested, runVars, registry, stack, diskVars, server,
                 crashed, plug, plugVars, unread, conn, retired, late,
                 configDone, endTold>>

\* A faulty end of serve that leaves the server to the terminate request.
DisconnectOnly ==
  /\ Free
  /\ phase' = "stopping"
  /\ todo' = TerminatedEvent \o <<Step("end")>>
  /\ terminatedSent' = TRUE
  /\ UNCHANGED <<dbg, reqLine, reqFn, lineBps, fnBps, launched, early,
                 rebuildRequested, runVars, registry, stack, diskVars, server,
                 crashed, plug, plugVars, unread, conn, retired, late,
                 configDone, endTold>>

\* on_disconnect, and the end of serve.
Disconnect ==
  /\ Free
  /\ phase' = "stopping"
  /\ todo' = TerminatedEvent \o StopSteps \o <<Step("end")>>
  /\ terminatedSent' = TRUE
  /\ UNCHANGED <<dbg, reqLine, reqFn, lineBps, fnBps, launched, early,
                 rebuildRequested, runVars, registry, stack, diskVars, server,
                 crashed, plug, plugVars, unread, conn, retired, late,
                 configDone, endTold>>

\* The connection of the editor is closed, or a message is badly framed.
Hangup ==
  /\ Free
  /\ phase' = "stopping"
  /\ todo' = StopSteps \o <<Step("end")>>
  /\ UNCHANGED <<dbg, reqLine, reqFn, lineBps, fnBps, launched, early,
                 rebuildRequested, terminatedSent, runVars, registry, stack,
                 diskVars, server, crashed, plug, plugVars, unread, conn,
                 retired, late, configDone, endTold>>

\* needs_rebuild: the source is newer, or the program has no debug block.
NeedsRebuild == sourceNewer \/ ~hasDebug

\* on_restart asks for a new build once; the editor sends restart again.
RestartAsksBuild ==
  /\ Free
  /\ launched
  /\ ~rebuildRequested
  /\ NeedsRebuild
  /\ rebuildRequested' = TRUE
  /\ UNCHANGED <<phase, todo, dbg, reqLine, reqFn, lineBps, fnBps, launched, early,
                 terminatedSent, runVars, registry, stack, diskVars, server,
                 crashed, plug, plugVars, unread, conn, retired, late,
                 configDone, endTold>>

\* A faulty restart that trusts the addresses it already has.
RestartStale ==
  /\ Free
  /\ launched
  /\ rebuildRequested \/ ~NeedsRebuild
  /\ lastId < MaxServers
  /\ rebuildRequested' = FALSE
  /\ todo' = SpawnSteps \o <<SendBps(lineBps, fnBps), Step("configured")>>
  /\ UNCHANGED <<phase, dbg, reqLine, reqFn, lineBps, fnBps, launched, early,
                 terminatedSent, runVars, registry, stack, diskVars, server,
                 crashed, plug, plugVars, unread, conn, retired, late,
                 configDone, endTold>>

\* A faulty restart that leaves the breakpoints to the configuration.
RestartBare ==
  /\ Free
  /\ launched
  /\ rebuildRequested \/ ~NeedsRebuild
  /\ lastId < MaxServers
  /\ rebuildRequested' = FALSE
  /\ dbg' = LoadedDebug
  /\ lineBps' = Bps(reqLine, dbg')
  /\ todo' = SpawnSteps \o <<Step("configured")>>
  /\ UNCHANGED <<phase, reqLine, reqFn, fnBps, launched, early, terminatedSent,
                 runVars, registry, stack, diskVars, server, crashed, plug,
                 plugVars, unread, conn, retired, late, configDone, endTold>>

\* on_restart: a new map, the line breakpoints resolved again, a new server
\* and everything its plugin needs to know.
Restart ==
  /\ Free
  /\ launched
  /\ rebuildRequested \/ ~NeedsRebuild
  /\ lastId < MaxServers
  /\ rebuildRequested' = FALSE
  /\ dbg' = LoadedDebug
  /\ lineBps' = Bps(reqLine, dbg')
  /\ todo' = SpawnSteps \o <<SendBps(lineBps', fnBps), Step("configured")>>
  /\ UNCHANGED <<phase, reqLine, reqFn, fnBps, launched, early, terminatedSent,
                 runVars, registry, stack, diskVars, server, crashed, plug,
                 plugVars, unread, conn, retired, late, configDone, endTold>>

-----------------------------------------------------------------------------
(***************************************************************************)
(* The steps of the main thread.                                           *)
(***************************************************************************)

Do(kind) ==
  /\ todo # <<>>
  /\ Head(todo).do = kind
  /\ todo' = Tail(todo)
  /\ UNCHANGED <<phase, dbg, reqLine, reqFn, lineBps, fnBps, launched, early,
                 rebuildRequested, terminatedSent, diskVars, configDone>>

\* Dropping the PluginClient retires the connection.
Retire ==
  /\ Do("retire")
  /\ retired' = [g \in Servers |-> retired[g] \/ g = client]
  /\ client' = 0
  /\ UNCHANGED <<child, registration, lastId, registry, stack, server, crashed,
                 plug, plugVars, unread, conn, late, endTold>>

\* A faulty drop that reaps a dead server but does not kill a live one.
KillLeaves ==
  /\ Do("kill")
  /\ child' = 0
  /\ UNCHANGED <<client, registration, lastId, registry, stack, server,
                 crashed, plug, plugVars, unread, conn, retired, late, endTold>>

\* Dropping the ServerChild kills the server and waits for it to leave; what
\* was written to its plugin is lost.
Kill ==
  /\ Do("kill")
  /\ server' = [g \in Servers |-> IF g = child /\ server[g] = "up" THEN "down"
                                  ELSE server[g]]
  /\ chan' = [g \in Servers |-> IF g = child THEN <<>> ELSE chan[g]]
  /\ child' = 0
  /\ UNCHANGED <<client, registration, lastId, registry, stack, crashed, plug,
                 loaded, installed, unread, conn, retired, late, endTold>>

\* Dropping the Registration takes the id out of the registry.
Release ==
  /\ Do("release")
  /\ registry' = registry \ {registration}
  /\ registration' = 0
  /\ UNCHANGED <<client, child, lastId, stack, server, crashed, plug, plugVars,
                 unread, conn, retired, late, endTold>>

ClearStack ==
  /\ Do("clear")
  /\ stack' = 0
  /\ UNCHANGED <<runVars, registry, server, crashed, plug, plugVars, unread,
                 conn, retired, late, endTold>>

\* CoreHost::reserve: ids are never used twice.
Reserve ==
  /\ Do("reserve")
  /\ lastId' = lastId + 1
  /\ registry' = registry \cup {lastId'}
  /\ UNCHANGED <<client, child, registration, stack, server, crashed, plug,
                 plugVars, unread, conn, retired, late, endTold>>

\* spawn_server, then the fields of Running are filled in.  The program the
\* server loads is the one on disk: see Compile.
Spawn ==
  /\ Do("spawn")
  /\ server' = [server EXCEPT ![lastId] = "up"]
  /\ loaded' = [loaded EXCEPT ![lastId] = build]
  /\ conn' = [conn EXCEPT ![lastId] = "waiting"]
  /\ client' = lastId /\ child' = lastId /\ registration' = lastId
  /\ UNCHANGED <<lastId, registry, stack, crashed, plug, chan, installed,
                 unread, retired, late, endTold>>

\* The process cannot be created: the ticket is dropped, its reservation with
\* it, and serve tells the editor itself.  The steps that follow still run.
SpawnFails ==
  /\ Do("spawn")
  /\ registry' = registry \ {lastId}
  /\ endTold' = endTold \cup {0}
  /\ UNCHANGED <<runVars, stack, server, crashed, plug, plugVars, unread, conn,
                 retired, late>>

\* Outgoing::ToPlugin: without a plugin client the command is dropped, and
\* without a server it is lost.
SendToPlugin(kind) ==
  /\ Do(kind)
  /\ chan' = [g \in Servers |-> IF g = client /\ server[g] = "up"
                                THEN Append(chan[g], Head(todo)) ELSE chan[g]]
  /\ UNCHANGED <<runVars, registry, stack, server, crashed, plug, loaded,
                 installed, unread, conn, retired, late, endTold>>

SendBreakpoints == SendToPlugin("breakpoints")
SendConfigured  == SendToPlugin("configured")

TellEnd ==
  /\ Do("tellEnd")
  /\ endTold' = endTold \cup {0}
  /\ UNCHANGED <<runVars, registry, stack, server, crashed, plug, plugVars,
                 unread, conn, retired, late>>

EndSession ==
  /\ todo # <<>>
  /\ Head(todo).do = "end"
  /\ todo' = Tail(todo)
  /\ phase' = "ended"
  /\ UNCHANGED <<dbg, reqLine, reqFn, lineBps, fnBps, launched, early,
                 rebuildRequested, terminatedSent, runVars, registry, stack,
                 diskVars, server, crashed, plug, plugVars, unread, conn,
                 retired, late, configDone, endTold>>

-----------------------------------------------------------------------------
(***************************************************************************)
(* The server, its plugin and the project on disk.                         *)
(***************************************************************************)

\* PluginRoute::accept: a reservation serves one connection.  When its
\* connection thread gave up, the link has nobody to be given to.
ConnectPlugin(g) ==
  /\ server[g] = "up"
  /\ plug[g] = "none"
  /\ registry' = registry \ {g}
  /\ plug' = [plug EXCEPT ![g] = IF g \in registry /\ conn[g] = "waiting"
                                 THEN "linked" ELSE "refused"]
  /\ UNCHANGED <<mainVars, runVars, stack, diskVars, server, crashed, plugVars,
                 unread, conn, retired, late, configDone, endTold>>

\* apply, for the two commands sent here: releasing the VM is DebugPause's.
Apply(g) ==
  /\ server[g] = "up"
  /\ plug[g] = "linked"
  /\ conn[g] # "waiting"
  /\ chan[g] # <<>>
  /\ chan' = [chan EXCEPT ![g] = Tail(@)]
  /\ installed' = IF Head(chan[g]).do = "breakpoints"
                  THEN [installed EXCEPT ![g] = Head(chan[g]).bps]
                  ELSE installed
  /\ UNCHANGED <<mainVars, runVars, registry, stack, diskVars, server, crashed,
                 plug, loaded, unread, conn, retired, late, configDone, endTold>>

\* on_pause, seen from the session.
Pause(g) ==
  /\ server[g] = "up"
  /\ plug[g] = "linked"
  /\ unread[g] < MaxUnread
  /\ unread' = [unread EXCEPT ![g] = @ + 1]
  /\ UNCHANGED <<mainVars, runVars, registry, stack, diskVars, server, crashed,
                 plug, plugVars, conn, retired, late, configDone, endTold>>

Crash(g) ==
  /\ server[g] = "up"
  /\ Cardinality({s \in Servers : crashed[s]}) < MaxCrashes
  /\ server' = [server EXCEPT ![g] = "down"]
  /\ crashed' = [crashed EXCEPT ![g] = TRUE]
  /\ chan' = [chan EXCEPT ![g] = <<>>]
  /\ UNCHANGED <<mainVars, runVars, registry, stack, diskVars, plug, loaded,
                 installed, unread, conn, retired, late, configDone, endTold>>

EditSource ==
  /\ build < MaxBuilds
  /\ sourceNewer' = TRUE
  /\ UNCHANGED <<mainVars, runVars, registry, stack, build, hasDebug, server,
                 crashed, plug, plugVars, unread, conn, retired, late,
                 configDone, endTold>>

\* The editor compiles, for debugging or for production.  Environment: it
\* does not replace the program while the session handles a request or the
\* server it started has not loaded it, so the time of loading is not told.
Compile ==
  /\ todo = <<>>
  /\ build < MaxBuilds
  /\ build' = build + 1
  /\ hasDebug' \in BOOLEAN
  /\ sourceNewer' = FALSE
  /\ UNCHANGED <<mainVars, runVars, registry, stack, server, crashed, plug,
                 plugVars, unread, conn, retired, late, configDone, endTold>>

-----------------------------------------------------------------------------
(***************************************************************************)
(* The connection thread of a server.                                      *)
(***************************************************************************)

\* Connection::run: the link arrives ...
TakeLink(g) ==
  /\ conn[g] = "waiting"
  /\ plug[g] = "linked"
  /\ conn' = [conn EXCEPT ![g] = "reading"]
  /\ UNCHANGED <<mainVars, runVars, registry, stack, diskVars, server, crashed,
                 plug, plugVars, unread, retired, late, configDone, endTold>>

\* ... or sixty seconds go by, or the reservation is dropped: the thread
\* ends, having written to the console at most.
GiveUp(g) ==
  /\ conn[g] = "waiting"
  /\ plug[g] # "linked"
  /\ conn' = [conn EXCEPT ![g] = "gone"]
  /\ UNCHANGED <<mainVars, runVars, registry, stack, diskVars, server, crashed,
                 plug, plugVars, unread, retired, late, configDone, endTold>>

\* A faulty reader that does not ask whether it was retired.
ReadLineBlindly(g) ==
  /\ conn[g] = "reading"
  /\ unread[g] > 0
  /\ unread' = [unread EXCEPT ![g] = @ - 1]
  /\ conn' = [conn EXCEPT ![g] = "telling"]
  /\ UNCHANGED <<mainVars, runVars, registry, stack, diskVars, server, crashed,
                 plug, plugVars, retired, late, configDone, endTold>>

\* A faulty reader that counts a line that did not come.
ReadLineEmpty(g) ==
  /\ conn[g] = "reading"
  /\ unread' = [unread EXCEPT ![g] = @ - 1]
  /\ conn' = [conn EXCEPT ![g] = IF retired[g] THEN "gone" ELSE "telling"]
  /\ UNCHANGED <<mainVars, runVars, registry, stack, diskVars, server, crashed,
                 plug, plugVars, retired, late, configDone, endTold>>

\* A line was read; the flag is looked at only now.
ReadLine(g) ==
  /\ conn[g] = "reading"
  /\ unread[g] > 0
  /\ unread' = [unread EXCEPT ![g] = @ - 1]
  /\ conn' = [conn EXCEPT ![g] = IF retired[g] THEN "gone" ELSE "telling"]
  /\ UNCHANGED <<mainVars, runVars, registry, stack, diskVars, server, crashed,
                 plug, plugVars, retired, late, configDone, endTold>>

\* handle(Paused): the stack is cached and the editor told.
TellPause(g) ==
  /\ conn[g] = "telling"
  /\ stack' = g
  /\ conn' = [conn EXCEPT ![g] = "reading"]
  /\ late' = [late EXCEPT ![g] = IF retired[g] THEN @ + 1 ELSE @]
  /\ UNCHANGED <<mainVars, runVars, registry, diskVars, server, crashed, plug,
                 plugVars, unread, retired, configDone, endTold>>

\* A faulty end of the loop that takes the silence for an orderly exit.
SeeEofQuietly(g) ==
  /\ conn[g] = "reading"
  /\ unread[g] = 0
  /\ server[g] = "down"
  /\ conn' = [conn EXCEPT ![g] = "gone"]
  /\ UNCHANGED <<mainVars, runVars, registry, stack, diskVars, server, crashed,
                 plug, plugVars, unread, retired, late, configDone, endTold>>

\* The connection ended without a goodbye.
SeeEof(g) ==
  /\ conn[g] = "reading"
  /\ unread[g] = 0
  /\ server[g] = "down"
  /\ conn' = [conn EXCEPT ![g] = IF retired[g] THEN "gone" ELSE "reporting"]
  /\ UNCHANGED <<mainVars, runVars, registry, stack, diskVars, server, crashed,
                 plug, plugVars, unread, retired, late, configDone, endTold>>

ReportEnd(g) ==
  /\ conn[g] = "reporting"
  /\ conn' = [conn EXCEPT ![g] = "gone"]
  /\ endTold' = endTold \cup {g}
  /\ late' = [late EXCEPT ![g] = IF retired[g] THEN @ + 1 ELSE @]
  /\ UNCHANGED <<mainVars, runVars, registry, stack, diskVars, server, crashed,
                 plug, plugVars, unread, retired, configDone>>

-----------------------------------------------------------------------------
EditorNext ==
  \/ Launch \/ SetBreakpoints \/ SetFunctionBreakpoints \/ ConfigurationDone
  \/ Terminate \/ Disconnect \/ Hangup \/ RestartAsksBuild \/ Restart

MainNext ==
  \/ Retire \/ Kill \/ Release \/ ClearStack \/ Reserve \/ Spawn \/ SpawnFails
  \/ SendBreakpoints \/ SendConfigured \/ TellEnd \/ EndSession

ServerNext ==
  \/ \E g \in Servers : ConnectPlugin(g) \/ Apply(g) \/ Pause(g)
                        \/ Crash(g)
  \/ EditSource \/ Compile

\* A connection thread has one step at most to take at a time.
ConnStep(g) ==
  TakeLink(g) \/ GiveUp(g) \/ ReadLine(g) \/ TellPause(g) \/ SeeEof(g) \/ ReportEnd(g)

ConnNext == \E g \in Servers : ConnStep(g)

Next == EditorNext \/ MainNext \/ ServerNext \/ ConnNext

\* The threads of the session go on when they can: the main thread has only
\* bounded work to do for a request, and a connection thread waits at most
\* sixty seconds.  Nothing makes a server load, connect or speak, nor the
\* editor act.
Fairness ==
  /\ WF_vars(MainNext)
  /\ \A g \in Servers : WF_vars(ConnStep(g))

Spec     == Init /\ [][Next]_vars
FairSpec == Spec /\ Fairness

-----------------------------------------------------------------------------
(***************************************************************************)
(* Properties.                                                             *)
(***************************************************************************)
StepSet == [do : StepKinds, bps : AllBps]
Id0     == 0..MaxServers

MainTypeOK ==
  /\ phase \in {"open", "stopping", "ended"} /\ todo \in Seq(StepSet)
  /\ dbg \in 0..MaxBuilds /\ reqLine \in 0..MaxChanges /\ reqFn \in 0..MaxChanges
  /\ early \in 0..MaxChanges
  /\ lineBps \in BpSet /\ fnBps \in BpSet
  /\ launched \in BOOLEAN /\ rebuildRequested \in BOOLEAN
  /\ terminatedSent \in BOOLEAN /\ configDone \in BOOLEAN
RunTypeOK ==
  /\ client \in Id0 /\ child \in Id0 /\ registration \in Id0 /\ lastId \in Id0
  /\ registry \subseteq Servers /\ stack \in Id0
DiskTypeOK ==
  /\ build \in 1..MaxBuilds /\ hasDebug \in BOOLEAN /\ sourceNewer \in BOOLEAN
ServerTypeOK ==
  /\ server \in [Servers -> {"none", "up", "down"}]
  /\ crashed \in [Servers -> BOOLEAN]
  /\ loaded \in [Servers -> 0..MaxBuilds]
  /\ plug \in [Servers -> {"none", "linked", "refused"}]
  /\ chan \in [Servers -> Seq(StepSet)]
  /\ installed \in [Servers -> AllBps]
ConnTypeOK ==
  /\ unread \in [Servers -> 0..MaxUnread]
  /\ conn \in [Servers -> {"none", "waiting", "reading", "telling",
                           "reporting", "gone"}]
  /\ retired \in [Servers -> BOOLEAN] /\ late \in [Servers -> Nat]
  /\ endTold \subseteq Id0
TypeOK == MainTypeOK /\ RunTypeOK /\ DiskTypeOK /\ ServerTypeOK /\ ConnTypeOK

\* Whatever ends the session, once it ended no server runs, no reservation is
\* left in the core and no connection may still speak for it (lib.rs, Running).
NothingOutlivesSession ==
  phase = "ended" =>
    /\ \A g \in Servers : server[g] # "up"
    /\ registry = {}
    /\ \A g \in Servers : conn[g] \notin {"none", "gone"} => retired[g]

\* After its server was replaced or stopped, a connection tells the editor at
\* most what it was about to tell: the flag is read before each line, not
\* with it (plugin.rs, Connection::run).
OldServerFallsSilent == \A g \in Servers : late[g] <= 1

\* Nothing of a server taken down shows up in the session of the next one:
\* the promise of the comments on PluginClient and on Running, stated for the
\* stack that a late stop leaves behind.
StackOfCurrentServer == client # 0 => stack \in {0, client}

\* A server is reported as gone only if it died by itself: one the session
\* takes down is retired before it is killed (lib.rs, order of the fields).
OnlyDeathsReported == \A g \in endTold \ {0} : crashed[g]

\* Was a request made before the launch, of the server the launch starts?  It
\* is resolved against what map there was then, and only a restart does so again.
AskedBefore(g, r) == g = 1 /\ r \in 1..early

\* The addresses of the line breakpoints a plugin holds are of the build its
\* server loaded, across edits, builds and restarts (session.rs, on_restart).
\* The exception is those asked for before the launch: one that failed leaves
\* its map, they are resolved against it, and a later launch does not resolve
\* them against the build it finds (on_launch).
LineBpsMatchBuild ==
  \A g \in Servers :
    installed[g].line # NoBps /\ ~AskedBefore(g, installed[g].line.req)
      => installed[g].line.build = loaded[g]

\* The same for function breakpoints on a server a restart started:
\* on_restart's comment says that what is worth keeping in the session
\* includes them and need not be sent again.
FnBpsMatchBuild ==
  \A g \in Servers \ {1} :
    installed[g].fn # NoBps
      => installed[g].fn.build = loaded[g]

\* When nothing more is on its way to the plugin of the current server, it
\* holds the line breakpoints the editor asked for last, whichever server
\* they were asked in (on_configuration_done, on_restart, on_set_breakpoints).
\* The exception is again those asked for before the launch, which
\* EarlyBreakpointsInstalled is about.
LatestBreakpointsInstalled ==
  client # 0 /\ server[client] = "up" /\ todo = <<>> /\ chan[client] = <<>>
  /\ ~AskedBefore(client, reqLine)
    => installed[client].line = Bps(reqLine, dbg)

\* No exception: when the word that all is configured is next, and the program
\* has a map, the plugin holds the line breakpoints asked for last.  The
\* comment on on_configuration_done says that the editor sends them before the
\* launch and that the real set has to be with the plugin at this point.
EarlyBreakpointsInstalled ==
  client # 0 /\ todo = <<>> /\ chan[client] = <<Step("configured")>> /\ dbg # 0
    => installed[client].line = Bps(reqLine, dbg)

\* The servers of a session are one at a time (ServerSlot).
Up     == {g \in Servers : server[g] = "up"}
Slot   == INSTANCE ServerSlot WITH
            slot   <- IF Up = {} THEN 0 ELSE Min(Up),
            newest <- Max({g \in Servers : server[g] # "none"} \cup {0}),
            open   <- phase # "ended"
OneServerAtATime == Slot!SlotSpec

\* The death of a server whose plugin was connected reaches the editor,
\* unless the session had let the server go (plugin.rs, end of run).
DeathReported ==
  \A g \in Servers :
    crashed[g] /\ conn[g] = "reading" ~> g \in endTold \/ retired[g]

\* The same whether its plugin had connected or not: the comment at the end
\* of Connection::run says what the editor would show without the event.
EveryDeathReported ==
  \A g \in Servers : crashed[g] ~> endTold # {} \/ retired[g]
=============================================================================
