----------------------------- MODULE DebugPause -----------------------------
(***************************************************************************)
(* One debugged server: the plugin inside it and the session that drives   *)
(* it.  Four threads take part.                                            *)
(*                                                                         *)
(*  - the VM thread runs Pawn code and enters the debug hook at each line; *)
(*    when it decides to stop it publishes the context of the pause, tells *)
(*    the session and blocks on the pause gate        (hook.rs, gate.rs);  *)
(*  - the plugin's socket thread takes the commands of the session one at  *)
(*    a time and applies them                         (bridge.rs);         *)
(*  - the session's main thread turns the requests of the editor into      *)
(*    commands and may wait, with a deadline, for the answer to one        *)
(*                                                   (lib.rs, plugin.rs);  *)
(*  - the session's connection thread receives what the plugin says and    *)
(*    tells the editor                               (plugin.rs).          *)
(*                                                                         *)
(* A pause is identified by its number, which no code carries: it is what  *)
(* lets the properties say whose pause a resume, a write or a stack is.    *)
(***************************************************************************)
EXTENDS Naturals, Sequences

CONSTANTS
  MaxPauses,      \* bound: how many times the VM may stop
  MaxRequests,    \* bound: how many variable or memory requests the editor makes
  MaxSettings,    \* bound: how many other changes of settings it makes
  PoliteEditor    \* TRUE: the editor resumes, edits and reads only while it
                  \* shows the program stopped, and resumes a stop once

ASSUME PauseAssumption ==
  /\ MaxPauses \in Nat
  /\ MaxRequests \in Nat
  /\ MaxSettings \in Nat
  /\ PoliteEditor \in BOOLEAN

VARIABLES
  \* the VM thread
  vm,             \* where it is (VmState)
  programLoaded,  \* PROGRAM_LOADED: has the program's VM been loaded before?
  pauses,         \* number of the latest pause
  taken,          \* what the gate let the VM leave its pause with
  \* what the VM thread and the socket thread share
  mode,           \* Controller.mode: is a step requested?
  breakpoints,    \* Controller.breakpoints: 0 none, 1 some
  dataWatches,    \* Controller.data_watches: 0 none, 1 some
  runtimeErrors,  \* RUNTIME_ERRORS
  pauseCtx,       \* PAUSE_CTX: the pause it describes, 0 when None
  gate,           \* PauseGate.pending
  configured,     \* Bridge.configured
  out,            \* Bridge.out: is there a half to send events through?
  \* the plugin's socket thread
  sock,           \* where it is (SockState)
  job,            \* the request it is serving
  written,        \* pause in which the value of each request was stored
  \* the link
  cmds,           \* bytes on their way to the plugin, as commands
  evts,           \* bytes on their way to the session, as events
  \* the session
  pending,        \* Writer.pending: commands sent before the plugin connected
  attached,       \* Writer.link is Some
  asked,          \* the request the main thread waits for
  nextId,         \* Pending.next_id
  waiting,        \* keys of Pending.waiting
  reply,          \* what was put in the channel of the request it waits for
  acked,          \* requests answered to the editor as written
  edits,          \* edits shown in the cached stack
  frames,         \* FrameCache: the pause whose stack is cached, 0 when empty
  reader,         \* the pause the connection thread is about to announce, or 0
  alive,          \* is the session's process up?
  \* the editor
  stopped,        \* latest pause the editor was told of
  answered,       \* latest pause the editor resumed
  settings,       \* changes of settings made so far
  configDone      \* has it sent configurationDone?

vmVars      == <<vm, programLoaded, pauses, taken>>
ctrlVars    == <<mode, breakpoints, dataWatches, runtimeErrors>>
sockVars    == <<sock, job, written>>
sessionVars == <<asked, nextId, waiting, reply, acked, edits, frames, reader, alive>>
sendVars    == <<pending, attached>>
editorVars  == <<stopped, answered, settings, configDone>>
vars == <<vmVars, ctrlVars, pauseCtx, gate, configured, out, sockVars,
          cmds, evts, sendVars, sessionVars, editorVars>>

-----------------------------------------------------------------------------
RequestOps  == {"setVariable", "readMemory"}
ResumeOps   == {"continue", "step"}
SettingOps  == {"setBreakpoints", "setDataBreakpoints", "setExceptionFilter"}
PlainOps    == ResumeOps \cup SettingOps \cup {"configured"}
Ids         == 1..MaxRequests

\* "arg" is the request of a RequestOp, the pause a ResumeOp answers (known
\* only to the model) and the value of a SettingOp.
Command == [op : RequestOps, arg : Ids] \cup [op : PlainOps, arg : Nat]
Event   == [ev : {"hello", "paused"}, arg : Nat]
             \cup [ev : {"written", "refused", "memory"}, arg : Ids]

NoResume == [op |-> "none", arg |-> 0]
NoJob    == [op |-> "none", arg |-> 0, ok |-> FALSE]
NotAsked == [op |-> "none", arg |-> 0]

VmState == {"unloaded", "awaiting", "running", "stopping", "announcing",
            "announced", "parked", "leaving", "resuming"}
SockState == {"connecting", "greeting", "serving", "resolving", "replying",
              "leaving", "done"}

\* The VM is inside on_pause, from the decision to stop to the return.
InPause == vm \in {"stopping", "announcing", "announced", "parked", "leaving",
                  "resuming"}

Init ==
  /\ vm = "unloaded" /\ programLoaded = FALSE /\ pauses = 0 /\ taken = NoResume
  /\ mode = "run" /\ breakpoints = 0 /\ dataWatches = 0 /\ runtimeErrors = TRUE
  /\ pauseCtx = 0 /\ gate = NoResume /\ configured = FALSE /\ out = FALSE
  /\ sock = "connecting" /\ job = NoJob /\ written = [i \in Ids |-> 0]
  /\ cmds = <<>> /\ evts = <<>> /\ pending = <<>> /\ attached = FALSE
  /\ asked = NotAsked /\ nextId = 0 /\ waiting = {} /\ reply = "none"
  /\ acked = {} /\ edits = {} /\ frames = 0 /\ reader = 0 /\ alive = TRUE
  /\ stopped = 0 /\ answered = 0 /\ settings = 0 /\ configDone = FALSE

-----------------------------------------------------------------------------
(***************************************************************************)
(* The VM thread.                                                          *)
(***************************************************************************)

\* on_amx_load: only the first load of the program waits for the session.
LoadProgram ==
  /\ vm = "unloaded"
  /\ vm' = IF programLoaded THEN "running" ELSE "awaiting"
  /\ programLoaded' = TRUE
  /\ UNCHANGED <<pauses, taken, ctrlVars, pauseCtx, gate, configured, out,
                 sockVars, cmds, evts, sendVars, sessionVars, editorVars>>

\* The server may reload the program (a change of gamemode).
UnloadProgram ==
  /\ vm = "running"
  /\ pauses < MaxPauses
  /\ vm' = "unloaded"
  /\ UNCHANGED <<programLoaded, pauses, taken, ctrlVars, pauseCtx, gate,
                 configured, out, sockVars, cmds, evts, sendVars, sessionVars,
                 editorVars>>

\* wait_configured returns because the flag is set ...
Configured ==
  /\ vm = "awaiting"
  /\ configured
  /\ vm' = "running"
  /\ UNCHANGED <<programLoaded, pauses, taken, ctrlVars, pauseCtx, gate,
                 configured, out, sockVars, cmds, evts, sendVars, sessionVars,
                 editorVars>>

\* ... or because ten seconds went by.
ConfigTimeout ==
  /\ vm = "awaiting"
  /\ ~configured
  /\ vm' = "running"
  /\ UNCHANGED <<programLoaded, pauses, taken, ctrlVars, pauseCtx, gate,
                 configured, out, sockVars, cmds, evts, sendVars, sessionVars,
                 editorVars>>

\* A cause to stop exists at the line the VM reached.  Which line, and
\* whether the condition of a breakpoint holds there, is not modelled.
MayStop ==
  \/ runtimeErrors
  \/ dataWatches = 1
  \/ breakpoints = 1
  \/ mode = "step"

\* on_break decides to stop: the pending step, if any, is cleared.
Break ==
  /\ vm = "running"
  /\ pauses < MaxPauses
  /\ MayStop
  /\ vm' = "stopping"
  /\ pauses' = pauses + 1
  /\ mode' = "run"
  /\ UNCHANGED <<programLoaded, taken, breakpoints, dataWatches, runtimeErrors,
                 pauseCtx, gate, configured, out, sockVars, cmds, evts,
                 sendVars, sessionVars, editorVars>>

\* on_pause: the context is published before the session hears of the pause.
PublishContext ==
  /\ vm = "stopping"
  /\ pauseCtx' = pauses
  /\ vm' = "announcing"
  /\ UNCHANGED <<programLoaded, pauses, taken, ctrlVars, gate, configured, out,
                 sockVars, cmds, evts, sendVars, sessionVars, editorVars>>

\* Bridge::send: nothing is kept for a session that is not there, and a
\* failed write drops the connection.
SendEvent(e) ==
  /\ evts' = IF out /\ alive THEN Append(evts, e) ELSE evts
  /\ out' = (out /\ alive)

AnnouncePause ==
  /\ vm = "announcing"
  /\ SendEvent([ev |-> "paused", arg |-> pauses])
  /\ vm' = "announced"
  /\ UNCHANGED <<programLoaded, pauses, taken, ctrlVars, pauseCtx, gate,
                 configured, sockVars, cmds, sendVars, sessionVars, editorVars>>

\* PauseGate::wait begins: the answer may already be there.
EnterGate ==
  /\ vm = "announced"
  /\ vm' = "parked"
  /\ UNCHANGED <<programLoaded, pauses, taken, ctrlVars, pauseCtx, gate,
                 configured, out, sockVars, cmds, evts, sendVars, sessionVars,
                 editorVars>>

\* A faulty gate that lets the VM through without consuming the request.
LeaveGateKeeping ==
  /\ vm = "parked"
  /\ gate # NoResume
  /\ taken' = gate
  /\ vm' = "leaving"
  /\ UNCHANGED <<programLoaded, pauses, ctrlVars, pauseCtx, gate, configured,
                 out, sockVars, cmds, evts, sendVars, sessionVars, editorVars>>

\* PauseGate::wait returns with the pending request, which it consumes.
LeaveGate ==
  /\ vm = "parked"
  /\ gate # NoResume
  /\ taken' = gate
  /\ gate' = NoResume
  /\ vm' = "leaving"
  /\ UNCHANGED <<programLoaded, pauses, ctrlVars, pauseCtx, configured, out,
                 sockVars, cmds, evts, sendVars, sessionVars, editorVars>>

ClearContext ==
  /\ vm = "leaving"
  /\ pauseCtx' = 0
  /\ vm' = "resuming"
  /\ UNCHANGED <<programLoaded, pauses, taken, ctrlVars, gate, configured, out,
                 sockVars, cmds, evts, sendVars, sessionVars, editorVars>>

\* The controller learns what the editor chose; the VM runs on.
ResumeController ==
  /\ vm = "resuming"
  /\ mode' = IF taken.op = "step" THEN "step" ELSE "run"
  /\ vm' = "running"
  /\ taken' = NoResume
  /\ UNCHANGED <<programLoaded, pauses, breakpoints, dataWatches,
                 runtimeErrors, pauseCtx, gate, configured, out, sockVars,
                 cmds, evts, sendVars, sessionVars, editorVars>>

-----------------------------------------------------------------------------
(***************************************************************************)
(* The plugin's socket thread.                                             *)
(***************************************************************************)

\* handle_client: the half to send through is stored as soon as the plugin
\* is connected and has introduced itself.
Connect ==
  /\ sock = "connecting"
  /\ alive
  /\ sock' = "greeting"
  /\ out' = TRUE
  /\ UNCHANGED <<vmVars, ctrlVars, pauseCtx, gate, configured, job, written,
                 cmds, evts, sendVars, sessionVars, editorVars>>

\* start: without a session to talk to, the VM is not held.
ConnectFails ==
  /\ sock = "connecting"
  /\ sock' = "done"
  /\ configured' = TRUE
  /\ UNCHANGED <<vmVars, ctrlVars, pauseCtx, gate, out, job, written, cmds,
                 evts, sendVars, sessionVars, editorVars>>

SayHello ==
  /\ sock = "greeting"
  /\ SendEvent([ev |-> "hello", arg |-> 0])
  /\ sock' = "serving"
  /\ UNCHANGED <<vmVars, ctrlVars, pauseCtx, gate, configured, job, written,
                 cmds, sendVars, sessionVars, editorVars>>

\* The next command is taken from the link.
Take(ops) ==
  /\ sock = "serving"
  /\ cmds # <<>>
  /\ Head(cmds).op \in ops
  /\ cmds' = Tail(cmds)

\* apply: the commands that replace a setting.  Data watches resolve against
\* the pause; with no pause published none resolves and the set is emptied.
ApplySetting ==
  /\ Take(SettingOps)
  /\ LET c == Head(cmds) IN
       /\ breakpoints' = IF c.op = "setBreakpoints" THEN c.arg ELSE breakpoints
       /\ dataWatches' = IF c.op # "setDataBreakpoints" THEN dataWatches
                         ELSE IF pauseCtx = 0 THEN 0 ELSE c.arg
       /\ runtimeErrors' = IF c.op = "setExceptionFilter" THEN c.arg = 1
                           ELSE runtimeErrors
  /\ UNCHANGED <<vmVars, mode, pauseCtx, gate, configured, out, sockVars, evts,
                 sendVars, sessionVars, editorVars>>

\* A faulty gate that only signals a VM already blocked in it.
ApplyResumeUnlatched ==
  /\ Take(ResumeOps)
  /\ gate' = IF vm = "parked" THEN Head(cmds) ELSE gate
  /\ UNCHANGED <<vmVars, ctrlVars, pauseCtx, configured, out, sockVars, evts,
                 sendVars, sessionVars, editorVars>>

\* apply: PauseGate::resume overwrites the single pending request.
ApplyResume ==
  /\ Take(ResumeOps)
  /\ gate' = Head(cmds)
  /\ UNCHANGED <<vmVars, ctrlVars, pauseCtx, configured, out, sockVars, evts,
                 sendVars, sessionVars, editorVars>>

ApplyConfigured ==
  /\ Take({"configured"})
  /\ configured' = TRUE
  /\ UNCHANGED <<vmVars, ctrlVars, pauseCtx, gate, out, sockVars, evts,
                 sendVars, sessionVars, editorVars>>

\* set_variable, read_memory: the context is copied and its lock released.
TakeRequest ==
  /\ Take(RequestOps)
  /\ job' = [op |-> Head(cmds).op, arg |-> Head(cmds).arg, ok |-> FALSE]
  /\ sock' = IF pauseCtx = 0 THEN "replying" ELSE "resolving"
  /\ UNCHANGED <<vmVars, ctrlVars, pauseCtx, gate, configured, out, written,
                 evts, sendVars, sessionVars, editorVars>>

\* The variable is found in the copied context and its cell stored or read.
AccessCell ==
  /\ sock = "resolving"
  /\ written' = IF job.op = "setVariable"
                THEN [written EXCEPT ![job.arg] = pauses] ELSE written
  /\ job' = [job EXCEPT !.ok = TRUE]
  /\ sock' = "replying"
  /\ UNCHANGED <<vmVars, ctrlVars, pauseCtx, gate, configured, out, cmds, evts,
                 sendVars, sessionVars, editorVars>>

\* It is not in scope, is not a cell, or lies outside the data segment.
AccessFails ==
  /\ sock = "resolving"
  /\ sock' = "replying"
  /\ UNCHANGED <<vmVars, ctrlVars, pauseCtx, gate, configured, out, job,
                 written, cmds, evts, sendVars, sessionVars, editorVars>>

\* A faulty reply that echoes the command instead of naming the event.
ReplyEventEcho(j) == j.op

ReplyEvent(j) ==
  IF j.op = "readMemory" THEN "memory"
  ELSE IF j.ok THEN "written" ELSE "refused"

SendReply ==
  /\ sock = "replying"
  /\ SendEvent([ev |-> ReplyEvent(job), arg |-> job.arg])
  /\ job' = NoJob
  /\ sock' = "serving"
  /\ UNCHANGED <<vmVars, ctrlVars, pauseCtx, gate, configured, written, cmds,
                 sendVars, sessionVars, editorVars>>

\* handle_client: the session is gone and everything it sent was applied.
SeeEof ==
  /\ sock = "serving"
  /\ ~alive
  /\ cmds = <<>>
  /\ out' = FALSE
  /\ sock' = "leaving"
  /\ UNCHANGED <<vmVars, ctrlVars, pauseCtx, gate, configured, job, written,
                 cmds, evts, sendVars, sessionVars, editorVars>>

\* A faulty end of handle_client that forgets a VM still being loaded.
LeaveSilently ==
  /\ sock = "leaving"
  /\ sock' = "done"
  /\ UNCHANGED <<vmVars, ctrlVars, pauseCtx, gate, configured, out, job,
                 written, cmds, evts, sendVars, sessionVars, editorVars>>

LeaveSession ==
  /\ sock = "leaving"
  /\ configured' = TRUE
  /\ sock' = "done"
  /\ UNCHANGED <<vmVars, ctrlVars, pauseCtx, gate, out, job, written, cmds,
                 evts, sendVars, sessionVars, editorVars>>

-----------------------------------------------------------------------------
(***************************************************************************)
(* The session: what it sends.                                             *)
(***************************************************************************)

\* PluginClient::send, under the lock of the writer: one batch is what the
\* main thread sends for one request.
SendCommands(batch) ==
  IF attached
  THEN cmds' = cmds \o batch /\ UNCHANGED pending
  ELSE pending' = pending \o batch /\ UNCHANGED cmds

\* A faulty attachment that puts the backlog behind what is already written.
AttachOvertaken ==
  /\ ~attached
  /\ alive
  /\ sock # "connecting"
  /\ attached' = TRUE
  /\ \E n \in 0..Len(pending) :
       cmds' = SubSeq(pending, n + 1, Len(pending)) \o SubSeq(pending, 1, n)
  /\ pending' = <<>>
  /\ UNCHANGED <<vmVars, ctrlVars, pauseCtx, gate, configured, out, sockVars,
                 evts, sessionVars, editorVars>>

\* Connection::run: the plugin is here; the backlog goes out first, and only
\* then does the writer hold the link.
Attach ==
  /\ ~attached
  /\ alive
  /\ sock \notin {"connecting", "done"}
  /\ attached' = TRUE
  /\ cmds' = cmds \o pending
  /\ pending' = <<>>
  /\ UNCHANGED <<vmVars, ctrlVars, pauseCtx, gate, configured, out, sockVars,
                 evts, sessionVars, editorVars>>

\* The main thread is free to take the next request of the editor.
Idle == alive /\ asked = NotAsked

\* The editor shows the program stopped and has not resumed it.
ShowsStopped == stopped > answered

\* A faulty configurationDone that releases the VM first.
ConfigurationDoneSwapped ==
  /\ Idle
  /\ ~configDone
  /\ configDone' = TRUE
  /\ SendCommands(<<[op |-> "configured", arg |-> 0],
                    [op |-> "setBreakpoints", arg |-> 1]>>)
  /\ UNCHANGED <<vmVars, ctrlVars, pauseCtx, gate, configured, out, sockVars,
                 evts, attached, sessionVars, stopped, answered, settings>>

\* on_configuration_done: the breakpoints, then the signal.
ConfigurationDone ==
  /\ Idle
  /\ ~configDone
  /\ configDone' = TRUE
  /\ SendCommands(<<[op |-> "setBreakpoints", arg |-> 1],
                    [op |-> "configured", arg |-> 0]>>)
  /\ UNCHANGED <<vmVars, ctrlVars, pauseCtx, gate, configured, out, sockVars,
                 evts, attached, sessionVars, stopped, answered, settings>>

\* on_set_breakpoints, on_set_data_breakpoints, on_set_exception_breakpoints.
ChangeSetting ==
  /\ Idle
  /\ settings < MaxSettings
  /\ settings' = settings + 1
  /\ \E op \in SettingOps, v \in {0, 1} :
       \* the breakpoints of the configuration are replaced only after it
       /\ op = "setBreakpoints" => configDone
       /\ SendCommands(<<[op |-> op, arg |-> v]>>)
  /\ UNCHANGED <<vmVars, ctrlVars, pauseCtx, gate, configured, out, sockVars,
                 evts, attached, sessionVars, stopped, answered, configDone>>

\* on_continue and on_step send their command whatever the VM is doing.
Resume ==
  /\ Idle
  /\ stopped > 0
  /\ PoliteEditor => ShowsStopped
  /\ answered' = stopped
  /\ \E op \in ResumeOps : SendCommands(<<[op |-> op, arg |-> stopped]>>)
  /\ UNCHANGED <<vmVars, ctrlVars, pauseCtx, gate, configured, out, sockVars,
                 evts, attached, sessionVars, stopped, settings, configDone>>

\* Outgoing::WriteVariable and Outgoing::ReadMemory: Pending::request.
Request ==
  /\ Idle
  /\ frames > 0
  /\ PoliteEditor => ShowsStopped
  /\ nextId < MaxRequests
  /\ nextId' = nextId + 1
  /\ waiting' = waiting \cup {nextId + 1}
  /\ reply' = "none"
  /\ \E op \in RequestOps :
       /\ asked' = [op |-> op, arg |-> nextId + 1]
       /\ SendCommands(<<asked'>>)
  /\ UNCHANGED <<vmVars, ctrlVars, pauseCtx, gate, configured, out, sockVars,
                 evts, attached, acked, edits, frames, reader, alive, editorVars>>

\* recv_timeout gives the answer.  The edit is shown only if it was made.
RequestAnswered ==
  /\ alive
  /\ asked # NotAsked
  /\ reply # "none"
  /\ IF asked.op = "setVariable" /\ reply = "written"
     THEN acked' = acked \cup {asked.arg} /\ edits' = edits \cup {asked.arg}
     ELSE UNCHANGED <<acked, edits>>
  /\ waiting' = waiting \ {asked.arg}
  /\ asked' = NotAsked
  /\ reply' = "none"
  /\ UNCHANGED <<vmVars, ctrlVars, pauseCtx, gate, configured, out, sockVars,
                 cmds, evts, sendVars, nextId, frames, reader, alive, editorVars>>

\* recv_timeout gives up after two seconds; the command is not taken back.
RequestTimeout ==
  /\ alive
  /\ asked # NotAsked
  /\ reply = "none"
  /\ waiting' = waiting \ {asked.arg}
  /\ asked' = NotAsked
  /\ UNCHANGED <<vmVars, ctrlVars, pauseCtx, gate, configured, out, sockVars,
                 cmds, evts, sendVars, nextId, reply, acked, edits, frames,
                 reader, alive, editorVars>>

\* The process of the session dies; what it had not written is lost.
SessionDies ==
  /\ alive
  /\ alive' = FALSE
  /\ pending' = <<>>
  /\ UNCHANGED <<vmVars, ctrlVars, pauseCtx, gate, configured, out, sockVars,
                 cmds, evts, attached, asked, nextId, waiting, reply, acked,
                 edits, frames, reader, editorVars>>

-----------------------------------------------------------------------------
(***************************************************************************)
(* The session: what it receives.                                          *)
(***************************************************************************)

\* The connection thread reads the next line once it attached the writer.
Receive(evs) ==
  /\ alive
  /\ attached
  /\ reader = 0
  /\ evts # <<>>
  /\ Head(evts).ev \in evs
  /\ evts' = Tail(evts)

ReceiveHello ==
  /\ Receive({"hello"})
  /\ UNCHANGED <<vmVars, ctrlVars, pauseCtx, gate, configured, out, sockVars,
                 cmds, sendVars, sessionVars, editorVars>>

\* A faulty handler that keeps the stack of the previous pause.
ReceivePausedKeepingStack ==
  /\ Receive({"paused"})
  /\ reader' = Head(evts).arg
  /\ UNCHANGED <<vmVars, ctrlVars, pauseCtx, gate, configured, out, sockVars,
                 cmds, sendVars, asked, nextId, waiting, reply, acked, edits,
                 frames, alive, editorVars>>

\* A faulty handler that merges the new stack into the old one.
ReceivePausedKeepingEdits ==
  /\ Receive({"paused"})
  /\ frames' = Head(evts).arg
  /\ reader' = Head(evts).arg
  /\ UNCHANGED <<vmVars, ctrlVars, pauseCtx, gate, configured, out, sockVars,
                 cmds, sendVars, asked, nextId, waiting, reply, acked, edits,
                 alive, editorVars>>

\* handle(Paused): the cached stack is replaced, edits with it ...
ReceivePaused ==
  /\ Receive({"paused"})
  /\ frames' = Head(evts).arg
  /\ edits' = {}
  /\ reader' = Head(evts).arg
  /\ UNCHANGED <<vmVars, ctrlVars, pauseCtx, gate, configured, out, sockVars,
                 cmds, sendVars, asked, nextId, waiting, reply, acked, alive,
                 editorVars>>

\* ... and then the editor is told.
TellStopped ==
  /\ alive
  /\ reader # 0
  /\ stopped' = reader
  /\ reader' = 0
  /\ UNCHANGED <<vmVars, ctrlVars, pauseCtx, gate, configured, out, sockVars,
                 cmds, evts, sendVars, asked, nextId, waiting, reply, acked,
                 edits, frames, alive, answered, settings, configDone>>

\* A faulty deliver that hands any answer to whoever is waiting.
ReceiveReplyForAnyone ==
  /\ Receive({"written", "refused", "memory"})
  /\ IF waiting # {}
     THEN reply' = Head(evts).ev /\ waiting' = {}
     ELSE UNCHANGED <<reply, waiting>>
  /\ UNCHANGED <<vmVars, ctrlVars, pauseCtx, gate, configured, out, sockVars,
                 cmds, sendVars, asked, nextId, acked, edits, frames, reader,
                 alive, editorVars>>

\* Pending::deliver: the answer reaches its own request or nobody.
ReceiveReply ==
  /\ Receive({"written", "refused", "memory"})
  /\ IF Head(evts).arg \in waiting
     THEN reply' = Head(evts).ev /\ waiting' = waiting \ {Head(evts).arg}
     ELSE UNCHANGED <<reply, waiting>>
  /\ UNCHANGED <<vmVars, ctrlVars, pauseCtx, gate, configured, out, sockVars,
                 cmds, sendVars, asked, nextId, acked, edits, frames, reader,
                 alive, editorVars>>

-----------------------------------------------------------------------------
VmNext ==
  \/ LoadProgram \/ UnloadProgram \/ Configured \/ ConfigTimeout \/ Break
  \/ PublishContext \/ AnnouncePause \/ EnterGate \/ LeaveGate
  \/ ClearContext \/ ResumeController

SockNext ==
  \/ Connect \/ ConnectFails \/ SayHello
  \/ ApplySetting \/ ApplyResume \/ ApplyConfigured
  \/ TakeRequest \/ AccessCell \/ AccessFails \/ SendReply
  \/ SeeEof \/ LeaveSession

SessionNext ==
  \/ Attach \/ ConfigurationDone \/ ChangeSetting \/ Resume
  \/ Request \/ RequestAnswered \/ RequestTimeout \/ SessionDies
  \/ ReceiveHello \/ ReceivePaused \/ TellStopped \/ ReceiveReply

Next == VmNext \/ SockNext \/ SessionNext

\* The VM thread goes on by itself outside of Pawn code ...
VmGoesOn ==
  \/ Configured \/ PublishContext \/ AnnouncePause \/ EnterGate
  \/ LeaveGate \/ ClearContext \/ ResumeController

\* ... and the socket thread once it is connected.
SockGoesOn ==
  \/ SayHello \/ ApplySetting \/ ApplyResume \/ ApplyConfigured
  \/ TakeRequest \/ AccessCell \/ AccessFails \/ SendReply
  \/ SeeEof \/ LeaveSession

\* Each of the two is sequential, so a thread that can take its next step takes
\* it.  Nothing makes the VM reach a line where it stops, the editor act, a
\* deadline expire or the session die.
Fairness == WF_vars(VmGoesOn) /\ WF_vars(SockGoesOn)

Spec     == Init /\ [][Next]_vars
FairSpec == Spec /\ Fairness

-----------------------------------------------------------------------------
(***************************************************************************)
(* Properties.                                                             *)
(***************************************************************************)

VmTypeOK ==
  /\ vm \in VmState /\ programLoaded \in BOOLEAN /\ pauses \in Nat
  /\ taken \in Command \cup {NoResume}

CtrlTypeOK ==
  /\ mode \in {"run", "step"} /\ breakpoints \in Nat /\ dataWatches \in Nat
  /\ runtimeErrors \in BOOLEAN

SharedTypeOK ==
  /\ pauseCtx \in Nat /\ gate \in Command \cup {NoResume}
  /\ configured \in BOOLEAN /\ out \in BOOLEAN

SockTypeOK ==
  /\ sock \in SockState
  /\ job \in [op : RequestOps, arg : Ids, ok : BOOLEAN] \cup {NoJob}
  /\ sock \in {"resolving", "replying"} => job # NoJob
  /\ written \in [Ids -> Nat]

LinkTypeOK ==
  /\ cmds \in Seq(Command) /\ evts \in Seq(Event) /\ pending \in Seq(Command)
  /\ attached \in BOOLEAN

SessionTypeOK ==
  /\ asked \in [op : RequestOps, arg : Ids] \cup {NotAsked}
  /\ nextId \in 0..MaxRequests /\ waiting \subseteq Ids
  /\ reply \in {"none", "written", "refused", "memory"}
  /\ acked \subseteq Ids /\ edits \subseteq Ids
  /\ frames \in Nat /\ reader \in Nat /\ alive \in BOOLEAN

EditorTypeOK ==
  /\ stopped \in Nat /\ answered \in Nat /\ settings \in Nat
  /\ configDone \in BOOLEAN

\* Every variable has its type: states, commands and events are the ones the
\* threads know, and a request of the editor has one of its ids.
TypeOK ==
  /\ VmTypeOK /\ CtrlTypeOK /\ SharedTypeOK /\ SockTypeOK /\ LinkTypeOK
  /\ SessionTypeOK /\ EditorTypeOK

\* An edit the editor was told was made is in the memory of the program,
\* however late the answer came and whatever request it was for
\* (Pending::request, Pending::deliver, apply(SetVariable)).
AckedWritesLanded == \A i \in acked : written[i] # 0

\* What is shown as edited in the cached stack was stored during the very
\* pause that stack is of (WriteVariable -> FrameCache::update_path).
EditsBelongToStack == \A i \in edits : written[i] = frames

\* The VM leaves a pause only with the request the editor made for that
\* pause, never with one left over from an earlier one (PauseGate).
OwnResume == vm = "leaving" => taken.arg = pauses

\* A cell is stored only while the VM is held in the pause the editor sees,
\* though the context was copied and its lock released before (set_variable).
StoredWhileParked ==
  [][written' # written
       => vm \in {"announced", "parked"} /\ stopped = pauses]_vars

\* While the editor shows a stop, the cached stack is that of the stop.
StackOfTheStop == ShowsStopped => frames = stopped

\* Once the session released the load, the VM never runs a line before the
\* breakpoints of the configuration are in place (on_configuration_done,
\* Attach, wait_configured).  A deadline or a lost session releases it too.
ConfiguredWithBreakpoints ==
  [][Configured /\ sock \in {"serving", "resolving", "replying"} /\ settings = 0
       => breakpoints = 1]_vars

\* The commands form one FIFO channel across the connection of the plugin.
Channel == INSTANCE CommandChannel WITH queue <- cmds \o pending, open <- alive
CommandsInOrder == Channel!ChanSpec

\* A resume the editor sent for a stop takes the VM out of that pause,
\* even if it arrives before the VM blocks on the gate.
ResumeIsEffective == (InPause /\ answered = pauses) ~> ~InPause

\* When the session goes away while the program loads, the VM is let go
\* without having to wait for the deadline (bridge.rs, end of handle_client).
LoadReleasedAtEof == (~alive /\ sock # "connecting") ~> vm # "awaiting"
=============================================================================
