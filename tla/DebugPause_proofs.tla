------------------------- MODULE DebugPause_proofs -------------------------
(***************************************************************************)
(* Theorems about one debugged server and its session, for every number of *)
(* pauses, requests and settings and for polite and impolite editors.      *)
(*                                                                         *)
(* TypeOK is inductive as it stands.  It is proved one thread at a time,   *)
(* and under each action only for the groups of variables it changes;      *)
(* KeepTypes gives the others.  The edit invariant needs WritesBacked, the *)
(* order of what is under way OrderInv.                                    *)
(***************************************************************************)
EXTENDS DebugPause, SequenceTheorems, TLAPS

\* Every variable of the debugged server and its session starts in its type.
LEMMA InitTypeOK == Init => TypeOK
  <1> SUFFICES ASSUME Init PROVE TypeOK
    OBVIOUS
  <1> USE DEF Init
  <1>1. VmTypeOK
    BY DEF VmTypeOK, VmState
  <1>2. CtrlTypeOK
    BY DEF CtrlTypeOK
  <1>3. SharedTypeOK
    BY DEF SharedTypeOK
  <1>4. SockTypeOK
    BY DEF SockTypeOK, SockState, NoJob
  <1>5. LinkTypeOK
    BY EmptySeq DEF LinkTypeOK
  <1>6. SessionTypeOK
    BY PauseAssumption DEF SessionTypeOK, NotAsked
  <1>7. EditorTypeOK
    BY DEF EditorTypeOK
  <1> QED
    BY <1>1, <1>2, <1>3, <1>4, <1>5, <1>6, <1>7 DEF TypeOK

\* The plugin's socket thread takes a well formed command and leaves well
\* formed ones on the link (bridge.rs, handle_client).
LEMMA TakeType ==
  ASSUME LinkTypeOK, NEW ops, Take(ops)
  PROVE  Head(cmds) \in Command /\ cmds' \in Seq(Command)
  <1>1. cmds \in Seq(Command) /\ cmds # <<>> /\ cmds' = Tail(cmds)
    BY DEF LinkTypeOK, Take
  <1> QED
    BY <1>1, HeadTailProperties

\* The connection thread reads a well formed event and leaves well formed
\* ones on the link (plugin.rs, Connection::run).
LEMMA ReceiveType ==
  ASSUME LinkTypeOK, NEW evs, Receive(evs)
  PROVE  Head(evts) \in Event /\ evts' \in Seq(Event)
  <1>1. evts \in Seq(Event) /\ evts # <<>> /\ evts' = Tail(evts)
    BY DEF LinkTypeOK, Receive
  <1> QED
    BY <1>1, HeadTailProperties

\* Sending an event, or losing it, leaves well formed events on the link
\* (bridge.rs, Bridge::send).
LEMMA SendEventType ==
  ASSUME LinkTypeOK, NEW e \in Event, SendEvent(e)
  PROVE  evts' \in Seq(Event)
  <1>1. evts \in Seq(Event)
    BY DEF LinkTypeOK
  <1>2. Append(evts, e) \in Seq(Event)
    BY <1>1, AppendProperties
  <1> QED
    BY <1>1, <1>2 DEF SendEvent

\* Sending a batch of commands, or keeping it for a plugin that is not
\* connected yet, leaves both queues well formed (plugin.rs, Writer::send).
LEMMA SendCommandsType ==
  ASSUME LinkTypeOK, NEW batch \in Seq(Command), SendCommands(batch)
  PROVE  cmds' \in Seq(Command) /\ pending' \in Seq(Command)
  <1>1. cmds \in Seq(Command) /\ pending \in Seq(Command)
    BY DEF LinkTypeOK
  <1>2. cmds \o batch \in Seq(Command) /\ pending \o batch \in Seq(Command)
    BY <1>1, ConcatProperties
  <1> QED
    BY <1>1, <1>2 DEF SendCommands

\* A part of the state a step leaves alone keeps its type.
LEMMA KeepTypes ==
  ASSUME TypeOK
  PROVE  /\ UNCHANGED vmVars => VmTypeOK'
         /\ UNCHANGED ctrlVars => CtrlTypeOK'
         /\ UNCHANGED <<pauseCtx, gate, configured, out>> => SharedTypeOK'
         /\ UNCHANGED sockVars => SockTypeOK'
         /\ UNCHANGED <<cmds, evts, sendVars>> => LinkTypeOK'
         /\ UNCHANGED sessionVars => SessionTypeOK'
         /\ UNCHANGED editorVars => EditorTypeOK'
  <1>1. UNCHANGED vmVars => VmTypeOK'
    BY DEF TypeOK, VmTypeOK, vmVars
  <1>2. UNCHANGED ctrlVars => CtrlTypeOK'
    BY DEF TypeOK, CtrlTypeOK, ctrlVars
  <1>3. UNCHANGED <<pauseCtx, gate, configured, out>> => SharedTypeOK'
    BY DEF TypeOK, SharedTypeOK
  <1>4. UNCHANGED sockVars => SockTypeOK'
    BY DEF TypeOK, SockTypeOK, sockVars
  <1>5. UNCHANGED <<cmds, evts, sendVars>> => LinkTypeOK'
    BY DEF TypeOK, LinkTypeOK, sendVars
  <1>6. UNCHANGED sessionVars => SessionTypeOK'
    BY DEF TypeOK, SessionTypeOK, sessionVars
  <1>7. UNCHANGED editorVars => EditorTypeOK'
    BY DEF TypeOK, EditorTypeOK, editorVars
  <1> QED
    BY <1>1, <1>2, <1>3, <1>4, <1>5, <1>6, <1>7

\* No step of the VM thread (hook.rs, gate.rs, lib.rs) breaks the types.
LEMMA VmStepTypeOK == TypeOK /\ VmNext => TypeOK'
  <1> SUFFICES ASSUME TypeOK, VmNext PROVE TypeOK'
    OBVIOUS
  <1>1. CASE LoadProgram
    <2>1. VmTypeOK'
      BY <1>1 DEF LoadProgram, TypeOK, VmTypeOK, VmState
    <2> QED
      BY <1>1, <2>1, KeepTypes DEF LoadProgram, TypeOK
  <1>2. CASE UnloadProgram
    <2>1. VmTypeOK'
      BY <1>2 DEF UnloadProgram, TypeOK, VmTypeOK, VmState
    <2> QED
      BY <1>2, <2>1, KeepTypes DEF UnloadProgram, TypeOK
  <1>3. CASE Configured
    <2>1. VmTypeOK'
      BY <1>3 DEF Configured, TypeOK, VmTypeOK, VmState
    <2> QED
      BY <1>3, <2>1, KeepTypes DEF Configured, TypeOK
  <1>4. CASE ConfigTimeout
    <2>1. VmTypeOK'
      BY <1>4 DEF ConfigTimeout, TypeOK, VmTypeOK, VmState
    <2> QED
      BY <1>4, <2>1, KeepTypes DEF ConfigTimeout, TypeOK
  <1>5. CASE Break
    <2>1. VmTypeOK'
      BY <1>5 DEF Break, TypeOK, VmTypeOK, VmState
    <2>2. CtrlTypeOK'
      BY <1>5 DEF Break, TypeOK, CtrlTypeOK
    <2> QED
      BY <1>5, <2>1, <2>2, KeepTypes DEF Break, TypeOK
  <1>6. CASE PublishContext
    <2>1. VmTypeOK'
      BY <1>6 DEF PublishContext, TypeOK, VmTypeOK, VmState
    <2>2. SharedTypeOK'
      BY <1>6 DEF PublishContext, TypeOK, VmTypeOK, SharedTypeOK
    <2> QED
      BY <1>6, <2>1, <2>2, KeepTypes DEF PublishContext, TypeOK
  <1>7. CASE AnnouncePause
    <2>1. VmTypeOK'
      BY <1>7 DEF AnnouncePause, TypeOK, VmTypeOK, VmState
    <2>2. SharedTypeOK'
      BY <1>7 DEF AnnouncePause, TypeOK, SharedTypeOK, SendEvent
    <2>3. LinkTypeOK'
      <3>1. [ev |-> "paused", arg |-> pauses] \in Event
        BY <1>7 DEF AnnouncePause, TypeOK, VmTypeOK, Event
      <3> QED
        BY <1>7, <3>1, SendEventType
           DEF AnnouncePause, TypeOK, LinkTypeOK, sendVars
    <2> QED
      BY <1>7, <2>1, <2>2, <2>3, KeepTypes DEF AnnouncePause, TypeOK
  <1>8. CASE EnterGate
    <2>1. VmTypeOK'
      BY <1>8 DEF EnterGate, TypeOK, VmTypeOK, VmState
    <2> QED
      BY <1>8, <2>1, KeepTypes DEF EnterGate, TypeOK
  <1>9. CASE LeaveGate
    <2>1. VmTypeOK'
      BY <1>9 DEF LeaveGate, TypeOK, VmTypeOK, SharedTypeOK, VmState
    <2>2. SharedTypeOK'
      BY <1>9 DEF LeaveGate, TypeOK, SharedTypeOK
    <2> QED
      BY <1>9, <2>1, <2>2, KeepTypes DEF LeaveGate, TypeOK
  <1>10. CASE ClearContext
    <2>1. VmTypeOK'
      BY <1>10 DEF ClearContext, TypeOK, VmTypeOK, VmState
    <2>2. SharedTypeOK'
      BY <1>10 DEF ClearContext, TypeOK, SharedTypeOK
    <2> QED
      BY <1>10, <2>1, <2>2, KeepTypes DEF ClearContext, TypeOK
  <1>11. CASE ResumeController
    <2>1. VmTypeOK'
      BY <1>11 DEF ResumeController, TypeOK, VmTypeOK, VmState, NoResume
    <2>2. CtrlTypeOK'
      BY <1>11 DEF ResumeController, TypeOK, CtrlTypeOK
    <2> QED
      BY <1>11, <2>1, <2>2, KeepTypes DEF ResumeController, TypeOK
  <1> QED
    BY <1>1, <1>2, <1>3, <1>4, <1>5, <1>6, <1>7, <1>8, <1>9, <1>10, <1>11
       DEF VmNext

\* No step of the plugin's socket thread (bridge.rs) breaks the types.
LEMMA SockStepTypeOK == TypeOK /\ SockNext => TypeOK'
  <1> SUFFICES ASSUME TypeOK, SockNext PROVE TypeOK'
    OBVIOUS
  <1>1. CASE Connect
    <2>1. SockTypeOK'
      BY <1>1 DEF Connect, TypeOK, SockTypeOK, SockState
    <2>2. SharedTypeOK'
      BY <1>1 DEF Connect, TypeOK, SharedTypeOK
    <2> QED
      BY <1>1, <2>1, <2>2, KeepTypes DEF Connect, TypeOK
  <1>2. CASE ConnectFails
    <2>1. SockTypeOK'
      BY <1>2 DEF ConnectFails, TypeOK, SockTypeOK, SockState
    <2>2. SharedTypeOK'
      BY <1>2 DEF ConnectFails, TypeOK, SharedTypeOK
    <2> QED
      BY <1>2, <2>1, <2>2, KeepTypes DEF ConnectFails, TypeOK
  <1>3. CASE SayHello
    <2>1. SockTypeOK'
      BY <1>3 DEF SayHello, TypeOK, SockTypeOK, SockState
    <2>2. SharedTypeOK'
      BY <1>3 DEF SayHello, TypeOK, SharedTypeOK, SendEvent
    <2>3. LinkTypeOK'
      <3>1. [ev |-> "hello", arg |-> 0] \in Event
        BY <1>3 DEF SayHello, TypeOK, Event
      <3> QED
        BY <1>3, <3>1, SendEventType DEF SayHello, TypeOK, LinkTypeOK, sendVars
    <2> QED
      BY <1>3, <2>1, <2>2, <2>3, KeepTypes DEF SayHello, TypeOK
  <1>4. CASE ApplySetting
    <2>1. CtrlTypeOK'
      <3>1. Head(cmds) \in Command /\ Head(cmds).op \in SettingOps
        BY <1>4, TakeType DEF ApplySetting, Take, TypeOK
      <3>2. Head(cmds).arg \in Nat
        BY <3>1 DEF Command, Ids
      <3>3. breakpoints' \in Nat /\ dataWatches' \in Nat
        BY <1>4, <3>2 DEF ApplySetting, TypeOK, CtrlTypeOK
      <3>4. mode' = mode /\ runtimeErrors' \in BOOLEAN
        BY <1>4 DEF ApplySetting, TypeOK, CtrlTypeOK
      <3> QED
        BY <3>3, <3>4 DEF TypeOK, CtrlTypeOK
    <2>2. LinkTypeOK'
      BY <1>4, TakeType DEF ApplySetting, TypeOK, LinkTypeOK, sendVars
    <2> QED
      BY <1>4, <2>1, <2>2, KeepTypes DEF ApplySetting, TypeOK
  <1>5. CASE ApplyResume
    <2>1. SharedTypeOK'
      <3>1. Head(cmds) \in Command
        BY <1>5, TakeType DEF ApplyResume, TypeOK
      <3> QED
        BY <1>5, <3>1 DEF ApplyResume, TypeOK, SharedTypeOK
    <2>2. LinkTypeOK'
      BY <1>5, TakeType DEF ApplyResume, TypeOK, LinkTypeOK, sendVars
    <2> QED
      BY <1>5, <2>1, <2>2, KeepTypes DEF ApplyResume, TypeOK
  <1>6. CASE ApplyConfigured
    <2>1. SharedTypeOK'
      BY <1>6 DEF ApplyConfigured, TypeOK, SharedTypeOK
    <2>2. LinkTypeOK'
      BY <1>6, TakeType DEF ApplyConfigured, TypeOK, LinkTypeOK, sendVars
    <2> QED
      BY <1>6, <2>1, <2>2, KeepTypes DEF ApplyConfigured, TypeOK
  <1>7. CASE TakeRequest
    <2>1. SockTypeOK'
      <3>1. Head(cmds) \in Command /\ Head(cmds).op \in RequestOps
        BY <1>7, TakeType DEF TakeRequest, Take, TypeOK
      <3> QED
        BY <1>7, <3>1
           DEF TakeRequest, TypeOK, SockTypeOK, SockState, Command, NoJob,
               RequestOps, PlainOps, ResumeOps, SettingOps
    <2>2. LinkTypeOK'
      BY <1>7, TakeType DEF TakeRequest, TypeOK, LinkTypeOK, sendVars
    <2> QED
      BY <1>7, <2>1, <2>2, KeepTypes DEF TakeRequest, TypeOK
  <1>8. CASE AccessCell
    <2>1. SockTypeOK'
      <3>1. written' \in [Ids -> Nat]
        BY <1>8 DEF AccessCell, TypeOK, VmTypeOK, SockTypeOK
      <3>2. job' \in [op : RequestOps, arg : Ids, ok : BOOLEAN]
        BY <1>8 DEF AccessCell, TypeOK, SockTypeOK, NoJob
      <3> QED
        BY <1>8, <3>1, <3>2
           DEF AccessCell, SockTypeOK, SockState, RequestOps, NoJob
    <2> QED
      BY <1>8, <2>1, KeepTypes DEF AccessCell, TypeOK
  <1>9. CASE AccessFails
    <2>1. SockTypeOK'
      BY <1>9 DEF AccessFails, TypeOK, SockTypeOK, SockState
    <2> QED
      BY <1>9, <2>1, KeepTypes DEF AccessFails, TypeOK
  <1>10. CASE SendReply
    <2>1. SockTypeOK'
      BY <1>10 DEF SendReply, TypeOK, SockTypeOK, SockState, NoJob
    <2>2. SharedTypeOK'
      BY <1>10 DEF SendReply, TypeOK, SharedTypeOK, SendEvent
    <2>3. LinkTypeOK'
      <3>1. [ev |-> ReplyEvent(job), arg |-> job.arg] \in Event
        BY <1>10 DEF SendReply, TypeOK, SockTypeOK, ReplyEvent, NoJob, Event
      <3> QED
        BY <1>10, <3>1, SendEventType
           DEF SendReply, TypeOK, LinkTypeOK, sendVars
    <2> QED
      BY <1>10, <2>1, <2>2, <2>3, KeepTypes DEF SendReply, TypeOK
  <1>11. CASE SeeEof
    <2>1. SockTypeOK'
      BY <1>11 DEF SeeEof, TypeOK, SockTypeOK, SockState
    <2>2. SharedTypeOK'
      BY <1>11 DEF SeeEof, TypeOK, SharedTypeOK
    <2> QED
      BY <1>11, <2>1, <2>2, KeepTypes DEF SeeEof, TypeOK
  <1>12. CASE LeaveSession
    <2>1. SockTypeOK'
      BY <1>12 DEF LeaveSession, TypeOK, SockTypeOK, SockState
    <2>2. SharedTypeOK'
      BY <1>12 DEF LeaveSession, TypeOK, SharedTypeOK
    <2> QED
      BY <1>12, <2>1, <2>2, KeepTypes DEF LeaveSession, TypeOK
  <1> QED
    BY <1>1, <1>2, <1>3, <1>4, <1>5, <1>6, <1>7, <1>8, <1>9, <1>10, <1>11,
       <1>12
       DEF SockNext

\* No step of the session (plugin.rs, session.rs) breaks the types.
LEMMA SessionStepTypeOK == TypeOK /\ SessionNext => TypeOK'
  <1> SUFFICES ASSUME TypeOK, SessionNext PROVE TypeOK'
    OBVIOUS
  <1>1. CASE Attach
    <2>1. LinkTypeOK'
      <3>1. cmds \o pending \in Seq(Command) /\ <<>> \in Seq(Command)
        BY ConcatProperties, EmptySeq DEF TypeOK, LinkTypeOK
      <3> QED
        BY <1>1, <3>1 DEF Attach, TypeOK, LinkTypeOK
    <2> QED
      BY <1>1, <2>1, KeepTypes DEF Attach, TypeOK
  <1>2. CASE ConfigurationDone
    <2>1. LinkTypeOK'
      <3>1. /\ [op |-> "setBreakpoints", arg |-> 1] \in Command
            /\ [op |-> "configured", arg |-> 0] \in Command
        BY DEF Command, PlainOps, SettingOps
      <3>2. <<[op |-> "setBreakpoints", arg |-> 1],
              [op |-> "configured", arg |-> 0]>> \in Seq(Command)
        BY <3>1
      <3> QED
        BY <1>2, <3>2, SendCommandsType
           DEF ConfigurationDone, TypeOK, LinkTypeOK
    <2>2. EditorTypeOK'
      BY <1>2 DEF ConfigurationDone, TypeOK, EditorTypeOK
    <2> QED
      BY <1>2, <2>1, <2>2, KeepTypes DEF ConfigurationDone, TypeOK
  <1>3. CASE ChangeSetting
    <2>1. LinkTypeOK'
      <3>1. PICK op \in SettingOps, v \in {0, 1} :
              SendCommands(<<[op |-> op, arg |-> v]>>)
        BY <1>3 DEF ChangeSetting
      <3>2. [op |-> op, arg |-> v] \in Command
        BY DEF Command, PlainOps
      <3>3. <<[op |-> op, arg |-> v]>> \in Seq(Command)
        BY <3>2
      <3> QED
        BY <1>3, <3>1, <3>3, SendCommandsType
           DEF ChangeSetting, TypeOK, LinkTypeOK
    <2>2. EditorTypeOK'
      BY <1>3 DEF ChangeSetting, TypeOK, EditorTypeOK
    <2> QED
      BY <1>3, <2>1, <2>2, KeepTypes DEF ChangeSetting, TypeOK
  <1>4. CASE Resume
    <2>1. LinkTypeOK'
      <3>1. PICK op \in ResumeOps : SendCommands(<<[op |-> op, arg |-> stopped]>>)
        BY <1>4 DEF Resume
      <3>2. [op |-> op, arg |-> stopped] \in Command
        BY DEF Command, PlainOps, TypeOK, EditorTypeOK
      <3>3. <<[op |-> op, arg |-> stopped]>> \in Seq(Command)
        BY <3>2
      <3> QED
        BY <1>4, <3>1, <3>3, SendCommandsType DEF Resume, TypeOK, LinkTypeOK
    <2>2. EditorTypeOK'
      BY <1>4 DEF Resume, TypeOK, EditorTypeOK
    <2> QED
      BY <1>4, <2>1, <2>2, KeepTypes DEF Resume, TypeOK
  <1>5. CASE Request
    <2>1. LinkTypeOK'
      <3>1. PICK op \in RequestOps :
              /\ asked' = [op |-> op, arg |-> nextId + 1]
              /\ SendCommands(<<asked'>>)
        BY <1>5 DEF Request
      <3>2. asked' \in Command
        BY <1>5, <3>1, PauseAssumption
           DEF Request, Command, Ids, TypeOK, SessionTypeOK
      <3>3. <<asked'>> \in Seq(Command)
        BY <3>2
      <3> QED
        BY <1>5, <3>1, <3>3, SendCommandsType DEF Request, TypeOK, LinkTypeOK
    <2>2. SessionTypeOK'
      <3>1. PICK op \in RequestOps :
              /\ asked' = [op |-> op, arg |-> nextId + 1]
              /\ SendCommands(<<asked'>>)
        BY <1>5 DEF Request
      <3>2. nextId + 1 \in Ids /\ nextId' \in 0..MaxRequests
        BY <1>5, PauseAssumption DEF Request, TypeOK, SessionTypeOK, Ids
      <3>3. asked' \in [op : RequestOps, arg : Ids]
        BY <3>1, <3>2
      <3>4. waiting' \subseteq Ids
        BY <1>5, <3>2 DEF Request, TypeOK, SessionTypeOK
      <3> QED
        BY <1>5, <3>2, <3>3, <3>4 DEF Request, TypeOK, SessionTypeOK
    <2> QED
      BY <1>5, <2>1, <2>2, KeepTypes DEF Request, TypeOK
  <1>6. CASE RequestAnswered
    <2>1. SessionTypeOK'
      <3>1. asked.arg \in Ids
        BY <1>6 DEF RequestAnswered, TypeOK, SessionTypeOK
      <3> QED
        BY <1>6, <3>1 DEF RequestAnswered, TypeOK, SessionTypeOK, NotAsked
    <2> QED
      BY <1>6, <2>1, KeepTypes DEF RequestAnswered, TypeOK
  <1>7. CASE RequestTimeout
    <2>1. SessionTypeOK'
      BY <1>7 DEF RequestTimeout, TypeOK, SessionTypeOK, NotAsked
    <2> QED
      BY <1>7, <2>1, KeepTypes DEF RequestTimeout, TypeOK
  <1>8. CASE SessionDies
    <2>1. LinkTypeOK'
      <3>1. <<>> \in Seq(Command)
        BY EmptySeq
      <3> QED
        BY <1>8, <3>1 DEF SessionDies, TypeOK, LinkTypeOK
    <2>2. SessionTypeOK'
      BY <1>8 DEF SessionDies, TypeOK, SessionTypeOK
    <2> QED
      BY <1>8, <2>1, <2>2, KeepTypes DEF SessionDies, TypeOK
  <1>9. CASE ReceiveHello
    <2>1. LinkTypeOK'
      BY <1>9, ReceiveType DEF ReceiveHello, TypeOK, LinkTypeOK, sendVars
    <2> QED
      BY <1>9, <2>1, KeepTypes DEF ReceiveHello, TypeOK
  <1>10. CASE ReceivePaused
    <2>1. LinkTypeOK'
      BY <1>10, ReceiveType DEF ReceivePaused, TypeOK, LinkTypeOK, sendVars
    <2>2. SessionTypeOK'
      <3>1. Head(evts) \in Event
        BY <1>10, ReceiveType DEF ReceivePaused, TypeOK
      <3> QED
        BY <1>10, <3>1 DEF ReceivePaused, Receive, TypeOK, SessionTypeOK, Event
    <2> QED
      BY <1>10, <2>1, <2>2, KeepTypes DEF ReceivePaused, TypeOK
  <1>11. CASE TellStopped
    <2>1. SessionTypeOK'
      BY <1>11 DEF TellStopped, TypeOK, SessionTypeOK
    <2>2. EditorTypeOK'
      BY <1>11 DEF TellStopped, TypeOK, SessionTypeOK, EditorTypeOK
    <2> QED
      BY <1>11, <2>1, <2>2, KeepTypes DEF TellStopped, TypeOK
  <1>12. CASE ReceiveReply
    <2>1. LinkTypeOK'
      BY <1>12, ReceiveType DEF ReceiveReply, TypeOK, LinkTypeOK, sendVars
    <2>2. SessionTypeOK'
      <3>1. Head(evts) \in Event
        BY <1>12, ReceiveType DEF ReceiveReply, TypeOK
      <3> QED
        BY <1>12, <3>1 DEF ReceiveReply, Receive, TypeOK, SessionTypeOK, Event
    <2> QED
      BY <1>12, <2>1, <2>2, KeepTypes DEF ReceiveReply, TypeOK
  <1> QED
    BY <1>1, <1>2, <1>3, <1>4, <1>5, <1>6, <1>7, <1>8, <1>9, <1>10, <1>11,
       <1>12
       DEF SessionNext

\* A step that changes nothing keeps the types.
LEMMA StutterTypeOK == TypeOK /\ UNCHANGED vars => TypeOK'
  <1> SUFFICES ASSUME TypeOK, UNCHANGED vars PROVE TypeOK'
    OBVIOUS
  <1>1. /\ UNCHANGED <<vmVars, ctrlVars, sockVars, sendVars>>
        /\ UNCHANGED <<pauseCtx, gate, configured, out>>
        /\ UNCHANGED <<cmds, evts, sessionVars, editorVars>>
    BY DEF vars
  <1> QED
    BY <1>1, KeepTypes DEF TypeOK

\* The threads of the plugin and of the session keep every variable in its
\* type, in every run of the program.
THEOREM TypeCorrect == Spec => []TypeOK
  <1>1. TypeOK /\ [Next]_vars => TypeOK'
    BY VmStepTypeOK, SockStepTypeOK, SessionStepTypeOK, StutterTypeOK DEF Next
  <1> QED
    BY InitTypeOK, <1>1, PTL DEF Spec

-----------------------------------------------------------------------------
(***************************************************************************)
(* Edits.  "Acknowledged" is far from "stored": the cell is stored by the  *)
(* socket thread of the plugin, the answer crosses the link, the           *)
(* connection thread puts it in a channel, and the main thread takes it    *)
(* from there if it has not given up.  WritesBacked carries the store      *)
(* along that way: at each station, an answer that says "written" stands   *)
(* for a request whose cell was stored.                                    *)
(***************************************************************************)

\* In the plugin: a request that succeeded was stored in some pause.
SockBacked ==
  /\ pauseCtx # 0 => pauses # 0
  /\ sock = "resolving" => pauses # 0 /\ ~job.ok
  /\ (sock = "replying" /\ job.op = "setVariable" /\ job.ok)
       => written[job.arg] # 0

\* On the link: so was the request of every answer on its way.
SoundEvent == {e \in Event : e.ev = "written" => written[e.arg] # 0}
LinkBacked == evts \in Seq(SoundEvent)

\* In the session: only the request it waits for may be answered, and an
\* answer in the channel is sound.
SessionBacked ==
  /\ waiting \subseteq {asked.arg}
  /\ reply = "written" => asked.arg \in Ids /\ written[asked.arg] # 0
  /\ AckedWritesLanded

WritesBacked == SockBacked /\ LinkBacked /\ SessionBacked

\* Nothing is written, no message is under way and no request was made yet.
LEMMA InitBacked == Init => WritesBacked
  <1> SUFFICES ASSUME Init PROVE WritesBacked
    OBVIOUS
  <1>1. SockBacked
    BY DEF Init, SockBacked
  <1>2. LinkBacked
    BY EmptySeq DEF Init, LinkBacked
  <1>3. SessionBacked
    BY DEF Init, SessionBacked, AckedWritesLanded
  <1> QED
    BY <1>1, <1>2, <1>3 DEF WritesBacked

\* A step that does not touch a station keeps it backed.
LEMMA KeepBacked ==
  ASSUME WritesBacked
  PROVE  /\ UNCHANGED <<pauseCtx, pauses, sock, job, written>> => SockBacked'
         /\ UNCHANGED <<evts, written>> => LinkBacked'
         /\ UNCHANGED <<asked, waiting, reply, acked, written>> => SessionBacked'
  <1>1. UNCHANGED <<pauseCtx, pauses, sock, job, written>> => SockBacked'
    BY DEF WritesBacked, SockBacked
  <1>2. UNCHANGED <<evts, written>> => LinkBacked'
    BY DEF WritesBacked, LinkBacked, SoundEvent
  <1>3. UNCHANGED <<asked, waiting, reply, acked, written>> => SessionBacked'
    BY DEF WritesBacked, SessionBacked, AckedWritesLanded
  <1> QED
    BY <1>1, <1>2, <1>3

\* An answer the session reads is sound, and so is what stays on the link
\* (plugin.rs, Connection::run).
LEMMA ReceiveBacked ==
  ASSUME WritesBacked, NEW evs, Receive(evs), written' = written
  PROVE  Head(evts) \in SoundEvent /\ LinkBacked'
  <1>1. evts \in Seq(SoundEvent) /\ evts # <<>> /\ evts' = Tail(evts)
    BY DEF WritesBacked, LinkBacked, Receive
  <1>2. Head(evts) \in SoundEvent /\ evts' \in Seq(SoundEvent)
    BY <1>1, HeadTailProperties
  <1>3. SoundEvent' = SoundEvent
    BY DEF SoundEvent
  <1> QED
    BY <1>2, <1>3 DEF LinkBacked

\* A sound answer may be sent, or lost (bridge.rs, Bridge::send).
LEMMA SendBacked ==
  ASSUME WritesBacked, NEW e \in SoundEvent, SendEvent(e), written' = written
  PROVE  LinkBacked'
  <1>1. evts \in Seq(SoundEvent)
    BY DEF WritesBacked, LinkBacked
  <1>2. Append(evts, e) \in Seq(SoundEvent)
    BY <1>1, AppendProperties
  <1>3. evts' \in Seq(SoundEvent)
    BY <1>1, <1>2 DEF SendEvent
  <1>4. SoundEvent' = SoundEvent
    BY DEF SoundEvent
  <1> QED
    BY <1>3, <1>4 DEF LinkBacked

\* The steps of the VM thread keep every answer backed: a new pause only
\* makes the number of the pause larger.
LEMMA VmStepBacked == TypeOK /\ WritesBacked /\ VmNext => WritesBacked'
  <1> SUFFICES ASSUME TypeOK, WritesBacked, VmNext PROVE WritesBacked'
    OBVIOUS
  <1>1. CASE LoadProgram
    BY <1>1, KeepBacked
       DEF LoadProgram, WritesBacked, vmVars, sockVars, sessionVars
  <1>2. CASE UnloadProgram
    BY <1>2, KeepBacked
       DEF UnloadProgram, WritesBacked, vmVars, sockVars, sessionVars
  <1>3. CASE Configured
    BY <1>3, KeepBacked
       DEF Configured, WritesBacked, vmVars, sockVars, sessionVars
  <1>4. CASE ConfigTimeout
    BY <1>4, KeepBacked
       DEF ConfigTimeout, WritesBacked, vmVars, sockVars, sessionVars
  <1>5. CASE Break
    <2>1. SockBacked'
      BY <1>5 DEF Break, TypeOK, VmTypeOK, WritesBacked, SockBacked, sockVars
    <2> QED
      BY <1>5, <2>1, KeepBacked
         DEF Break, WritesBacked, vmVars, sockVars, sessionVars
  <1>6. CASE PublishContext
    <2>1. SockBacked'
      BY <1>6 DEF PublishContext, WritesBacked, SockBacked, sockVars
    <2> QED
      BY <1>6, <2>1, KeepBacked
         DEF PublishContext, WritesBacked, vmVars, sockVars, sessionVars
  <1>7. CASE AnnouncePause
    <2>1. LinkBacked'
      <3>1. [ev |-> "paused", arg |-> pauses] \in SoundEvent
        BY DEF TypeOK, VmTypeOK, SoundEvent, Event
      <3> QED
        BY <1>7, <3>1, SendBacked DEF AnnouncePause, sockVars
    <2> QED
      BY <1>7, <2>1, KeepBacked
         DEF AnnouncePause, WritesBacked, vmVars, sockVars, sessionVars
  <1>8. CASE EnterGate
    BY <1>8, KeepBacked
       DEF EnterGate, WritesBacked, vmVars, sockVars, sessionVars
  <1>9. CASE LeaveGate
    BY <1>9, KeepBacked
       DEF LeaveGate, WritesBacked, vmVars, sockVars, sessionVars
  <1>10. CASE ClearContext
    <2>1. SockBacked'
      BY <1>10 DEF ClearContext, WritesBacked, SockBacked, sockVars
    <2> QED
      BY <1>10, <2>1, KeepBacked
         DEF ClearContext, WritesBacked, vmVars, sockVars, sessionVars
  <1>11. CASE ResumeController
    BY <1>11, KeepBacked
       DEF ResumeController, WritesBacked, vmVars, sockVars, sessionVars
  <1> QED
    BY <1>1, <1>2, <1>3, <1>4, <1>5, <1>6, <1>7, <1>8, <1>9, <1>10, <1>11
    DEF VmNext

\* The steps of the socket thread keep every answer backed: the cell is
\* stored before the answer says so.
LEMMA SockStepBacked == TypeOK /\ WritesBacked /\ SockNext => WritesBacked'
  <1> SUFFICES ASSUME TypeOK, WritesBacked, SockNext PROVE WritesBacked'
    OBVIOUS
  <1>1. CASE Connect
    <2>1. SockBacked'
      BY <1>1 DEF Connect, WritesBacked, SockBacked, vmVars
    <2> QED
      BY <1>1, <2>1, KeepBacked
         DEF Connect, WritesBacked, vmVars, sockVars, sessionVars
  <1>2. CASE ConnectFails
    <2>1. SockBacked'
      BY <1>2 DEF ConnectFails, WritesBacked, SockBacked, vmVars
    <2> QED
      BY <1>2, <2>1, KeepBacked
         DEF ConnectFails, WritesBacked, vmVars, sockVars, sessionVars
  <1>3. CASE SayHello
    <2>1. SockBacked'
      BY <1>3 DEF SayHello, WritesBacked, SockBacked, vmVars
    <2>2. LinkBacked'
      <3>1. [ev |-> "hello", arg |-> 0] \in SoundEvent
        BY DEF SoundEvent, Event
      <3> QED
        BY <1>3, <3>1, SendBacked DEF SayHello
    <2> QED
      BY <1>3, <2>1, <2>2, KeepBacked
         DEF SayHello, WritesBacked, vmVars, sockVars, sessionVars
  <1>4. CASE ApplySetting
    BY <1>4, KeepBacked
       DEF ApplySetting, WritesBacked, vmVars, sockVars, sessionVars
  <1>5. CASE ApplyResume
    BY <1>5, KeepBacked
       DEF ApplyResume, WritesBacked, vmVars, sockVars, sessionVars
  <1>6. CASE ApplyConfigured
    BY <1>6, KeepBacked
       DEF ApplyConfigured, WritesBacked, vmVars, sockVars, sessionVars
  <1>7. CASE TakeRequest
    <2>1. SockBacked'
      BY <1>7 DEF TakeRequest, WritesBacked, SockBacked, vmVars
    <2> QED
      BY <1>7, <2>1, KeepBacked
         DEF TakeRequest, WritesBacked, vmVars, sockVars, sessionVars
  <1>8. CASE AccessCell
    <2>1. job \in [op : RequestOps, arg : Ids, ok : BOOLEAN] /\ pauses # 0
      BY <1>8 DEF AccessCell, TypeOK, SockTypeOK, WritesBacked, SockBacked
    <2>2. \A i \in Ids : written[i] # 0 => written'[i] # 0
      BY <1>8, <2>1 DEF AccessCell, TypeOK, SockTypeOK
    <2>3. SockBacked'
      <3>1. job'.op = "setVariable" => written'[job'.arg] # 0
        BY <1>8, <2>1 DEF AccessCell, TypeOK, SockTypeOK
      <3> QED
        BY <1>8, <2>1, <3>1 DEF AccessCell, vmVars, SockBacked
    <2>4. LinkBacked'
      <3>1. SoundEvent \subseteq SoundEvent'
        BY <2>2 DEF SoundEvent, Event
      <3>2. Seq(SoundEvent) \subseteq Seq(SoundEvent')
        BY <3>1, SeqMonotonic
      <3> QED
        BY <1>8, <3>2 DEF AccessCell, WritesBacked, LinkBacked
    <2>5. SessionBacked'
      BY <1>8, <2>2 DEF AccessCell, sessionVars, TypeOK, SessionTypeOK,
                        WritesBacked, SessionBacked, AckedWritesLanded
    <2> QED
      BY <2>3, <2>4, <2>5 DEF WritesBacked
  <1>9. CASE AccessFails
    <2>1. SockBacked'
      BY <1>9 DEF AccessFails, WritesBacked, SockBacked, vmVars
    <2> QED
      BY <1>9, <2>1, KeepBacked
         DEF AccessFails, WritesBacked, vmVars, sockVars, sessionVars
  <1>10. CASE SendReply
    <2>1. SockBacked'
      BY <1>10 DEF SendReply, WritesBacked, SockBacked, vmVars
    <2>2. LinkBacked'
      <3>1. job \in [op : RequestOps, arg : Ids, ok : BOOLEAN]
        BY <1>10 DEF SendReply, TypeOK, SockTypeOK
      <3>2. [ev |-> ReplyEvent(job), arg |-> job.arg] \in Event
        BY <3>1 DEF ReplyEvent, Event
      <3>3. ReplyEvent(job) = "written" => written[job.arg] # 0
        BY <1>10, <3>1
           DEF SendReply, ReplyEvent, RequestOps, WritesBacked, SockBacked
      <3>4. [ev |-> ReplyEvent(job), arg |-> job.arg] \in SoundEvent
        BY <3>2, <3>3 DEF SoundEvent
      <3> QED
        BY <1>10, <3>4, SendBacked DEF SendReply
    <2> QED
      BY <1>10, <2>1, <2>2, KeepBacked
         DEF SendReply, WritesBacked, vmVars, sockVars, sessionVars
  <1>11. CASE SeeEof
    <2>1. SockBacked'
      BY <1>11 DEF SeeEof, WritesBacked, SockBacked, vmVars
    <2> QED
      BY <1>11, <2>1, KeepBacked
         DEF SeeEof, WritesBacked, vmVars, sockVars, sessionVars
  <1>12. CASE LeaveSession
    <2>1. SockBacked'
      BY <1>12 DEF LeaveSession, WritesBacked, SockBacked, vmVars
    <2> QED
      BY <1>12, <2>1, KeepBacked
         DEF LeaveSession, WritesBacked, vmVars, sockVars, sessionVars
  <1> QED
    BY <1>1, <1>2, <1>3, <1>4, <1>5, <1>6, <1>7, <1>8, <1>9, <1>10,
       <1>11, <1>12
    DEF SockNext

\* The steps of the session keep every answer backed: an answer reaches the
\* request it is for or nobody.
LEMMA SessionStepBacked == TypeOK /\ WritesBacked /\ SessionNext => WritesBacked'
  <1> SUFFICES ASSUME TypeOK, WritesBacked, SessionNext PROVE WritesBacked'
    OBVIOUS
  <1>1. CASE Attach
    BY <1>1, KeepBacked DEF Attach, WritesBacked, vmVars, sockVars, sessionVars
  <1>2. CASE ConfigurationDone
    BY <1>2, KeepBacked
       DEF ConfigurationDone, WritesBacked, vmVars, sockVars, sessionVars
  <1>3. CASE ChangeSetting
    BY <1>3, KeepBacked
       DEF ChangeSetting, WritesBacked, vmVars, sockVars, sessionVars
  <1>4. CASE Resume
    BY <1>4, KeepBacked DEF Resume, WritesBacked, vmVars, sockVars, sessionVars
  <1>5. CASE Request
    <2>1. SessionBacked'
      <3>1. waiting = {}
        BY <1>5 DEF Request, Idle, NotAsked, TypeOK, SessionTypeOK, Ids,
                      WritesBacked, SessionBacked
      <3> QED
        BY <1>5, <3>1 DEF Request, sockVars, WritesBacked, SessionBacked,
                          AckedWritesLanded
    <2> QED
      BY <1>5, <2>1, KeepBacked
         DEF Request, WritesBacked, vmVars, sockVars, sessionVars
  <1>6. CASE RequestAnswered
    <2>1. SessionBacked'
      BY <1>6 DEF RequestAnswered, sockVars, WritesBacked, SessionBacked,
                   AckedWritesLanded
    <2> QED
      BY <1>6, <2>1, KeepBacked
         DEF RequestAnswered, WritesBacked, vmVars, sockVars, sessionVars
  <1>7. CASE RequestTimeout
    <2>1. SessionBacked'
      BY <1>7 DEF RequestTimeout, sockVars, WritesBacked, SessionBacked,
                   AckedWritesLanded
    <2> QED
      BY <1>7, <2>1, KeepBacked
         DEF RequestTimeout, WritesBacked, vmVars, sockVars, sessionVars
  <1>8. CASE SessionDies
    BY <1>8, KeepBacked
       DEF SessionDies, WritesBacked, vmVars, sockVars, sessionVars
  <1>9. CASE ReceiveHello
    <2>1. LinkBacked'
      BY <1>9, ReceiveBacked DEF ReceiveHello, sockVars
    <2> QED
      BY <1>9, <2>1, KeepBacked
         DEF ReceiveHello, WritesBacked, vmVars, sockVars, sessionVars
  <1>10. CASE ReceivePaused
    <2>1. LinkBacked'
      BY <1>10, ReceiveBacked DEF ReceivePaused, sockVars
    <2> QED
      BY <1>10, <2>1, KeepBacked
         DEF ReceivePaused, WritesBacked, vmVars, sockVars, sessionVars
  <1>11. CASE TellStopped
    BY <1>11, KeepBacked
       DEF TellStopped, WritesBacked, vmVars, sockVars, sessionVars
  <1>12. CASE ReceiveReply
    <2>1. LinkBacked'
      BY <1>12, ReceiveBacked DEF ReceiveReply, sockVars
    <2>2. SessionBacked'
      <3>1. Head(evts) \in SoundEvent
        BY <1>12, ReceiveBacked DEF ReceiveReply, sockVars
      <3>2. Head(evts).ev = "written" => written[Head(evts).arg] # 0
        BY <3>1 DEF SoundEvent
      <3> QED
        BY <1>12, <3>2 DEF ReceiveReply, sockVars, TypeOK, SessionTypeOK,
                          WritesBacked, SessionBacked, AckedWritesLanded
    <2> QED
      BY <1>12, <2>1, <2>2, KeepBacked
         DEF ReceiveReply, WritesBacked, vmVars, sockVars, sessionVars
  <1> QED
    BY <1>1, <1>2, <1>3, <1>4, <1>5, <1>6, <1>7, <1>8, <1>9, <1>10,
       <1>11, <1>12
    DEF SessionNext

\* WritesBacked holds in every run.
THEOREM WritesAlwaysBacked == Spec => []WritesBacked
  <1>1. WritesBacked /\ UNCHANGED vars => WritesBacked'
    BY KeepBacked DEF vars, vmVars, sockVars, sessionVars, WritesBacked
  <1>2. TypeOK /\ WritesBacked /\ [Next]_vars => WritesBacked'
    BY <1>1, VmStepBacked, SockStepBacked, SessionStepBacked DEF Next
  <1> QED
    BY TypeCorrect, InitBacked, <1>2, PTL DEF Spec

\* An edit the editor was told was made is in the memory of the program:
\* whatever was late, lost, timed out or for another request.
THEOREM AckedWritesCorrect == Spec => []AckedWritesLanded
  <1>1. WritesBacked => AckedWritesLanded
    BY DEF WritesBacked, SessionBacked
  <1> QED
    BY WritesAlwaysBacked, <1>1, PTL

-----------------------------------------------------------------------------
(***************************************************************************)
(* Whose pause it is: the order of commands, resumes, edits and stacks of  *)
(* one debugged server, for every number of pauses, requests and settings. *)
(* The commands are one channel and the breakpoints of the configuration   *)
(* come first whatever the editor does.  The rest is about an editor that  *)
(* acts only on the stop it shows: with it, a pause has at most one news   *)
(* and one resume on their way, and both are its own.                      *)
(***************************************************************************)

\* All the commands the plugin has yet to take, oldest first.
Queue == cmds \o pending

\* The writer keeps nothing back once it holds the link.
QueueInv == attached => pending = <<>>

-----------------------------------------------------------------------------
(***************************************************************************)
(* What the steps do with the queue and with the events.                   *)
(***************************************************************************)

\* The front of two sequences one after the other is that of the first.
LEMMA FrontOfConcat ==
  ASSUME NEW S, NEW s \in Seq(S), NEW t \in Seq(S), s # <<>>
  PROVE  /\ s \o t # <<>> /\ Head(s \o t) = Head(s)
         /\ Tail(s \o t) = Tail(s) \o t
  <1> DEFINE q == s \o t
  <1>1. /\ q \in Seq(S) /\ Len(q) = Len(s) + Len(t) /\ Len(s) \in Nat \ {0} /\ Len(t) \in Nat
        /\ \A i \in 1..Len(q) : q[i] = IF i <= Len(s) THEN s[i] ELSE t[i - Len(s)]
    BY ConcatProperties
  <1>2. /\ Tail(s) \in Seq(S) /\ Len(Tail(s)) = Len(s) - 1
        /\ \A i \in 1..Len(Tail(s)) : Tail(s)[i] = s[i + 1]
    BY HeadTailProperties
  <1> DEFINE r == Tail(s) \o t
  <1>3. /\ r \in Seq(S) /\ Len(r) = Len(s) - 1 + Len(t)
        /\ \A i \in 1..Len(r) : r[i] = IF i <= Len(s) - 1 THEN Tail(s)[i] ELSE t[i - (Len(s) - 1)]
    BY <1>2, ConcatProperties
  <1> HIDE DEF q, r
  <1>4. q # <<>> /\ Head(q) = Head(s)
    BY <1>1
  <1>5. /\ Tail(q) \in Seq(S) /\ Len(Tail(q)) = Len(q) - 1
        /\ \A i \in 1..Len(Tail(q)) : Tail(q)[i] = q[i + 1]
    BY <1>1, <1>4, HeadTailProperties
  <1>6. Len(Tail(q)) = Len(r)
    BY <1>1, <1>3, <1>5
  <1>7. ASSUME NEW i \in 1..Len(r)
        PROVE  Tail(q)[i] = r[i]
    <2>1. Tail(q)[i] = q[i + 1] /\ i \in Nat \ {0} /\ i + 1 \in 1..Len(q)
      BY <1>1, <1>3, <1>5, <1>6
    <2>2. CASE i <= Len(s) - 1
      <3>1. i + 1 <= Len(s) /\ i \in 1..Len(Tail(s))
        BY <1>1, <1>2, <2>1, <2>2
      <3> QED
        BY <1>1, <1>2, <1>3, <2>1, <2>2, <3>1
    <2>3. CASE ~(i <= Len(s) - 1)
      <3>1. ~(i + 1 <= Len(s)) /\ i + 1 - Len(s) = i - (Len(s) - 1)
        BY <1>1, <2>1, <2>3
      <3> QED
        BY <1>1, <1>3, <2>1, <2>3, <3>1
    <2> QED
      BY <2>2, <2>3
  <1>8. Tail(q) = r
    BY <1>3, <1>5, <1>6, <1>7, SeqEqual
  <1> QED
    BY <1>4, <1>8 DEF q, r

\* The queue is well formed.
LEMMA QueueType ==
  ASSUME LinkTypeOK
  PROVE  /\ Queue \in Seq(Command)
         /\ DOMAIN Queue = 1..Len(Queue) /\ Len(Queue) \in Nat
  <1>1. Queue \in Seq(Command)
    BY ConcatProperties DEF LinkTypeOK, Queue
  <1> QED
    BY <1>1

\* A step that touches neither of its two parts leaves the queue alone.
LEMMA QueueKept == UNCHANGED <<cmds, pending>> => Queue' = Queue
  BY DEF Queue

\* The plugin takes the oldest command (bridge.rs, handle_client).
LEMMA QueueTaken ==
  ASSUME LinkTypeOK, NEW ops, Take(ops), UNCHANGED pending
  PROVE  /\ Queue # <<>> /\ Queue' = Tail(Queue)
         /\ 1 \in DOMAIN Queue /\ Queue[1] = Head(cmds) /\ Queue[1].op \in ops
         /\ \A i \in DOMAIN Queue' :
              i \in Nat \ {0} /\ i + 1 \in DOMAIN Queue /\ Queue'[i] = Queue[i + 1]
         /\ \A i \in DOMAIN Queue : i # 1 => i - 1 \in DOMAIN Queue'
  <1>1. /\ cmds \in Seq(Command) /\ pending \in Seq(Command) /\ cmds # <<>>
        /\ cmds' = Tail(cmds) /\ pending' = pending /\ Head(cmds).op \in ops
    BY DEF LinkTypeOK, Take
  <1>2. Queue # <<>> /\ Head(Queue) = Head(cmds) /\ Queue' = Tail(Queue)
    BY <1>1, FrontOfConcat DEF Queue
  <1>3. Queue \in Seq(Command) /\ DOMAIN Queue = 1..Len(Queue) /\ Len(Queue) \in Nat
    BY QueueType
  <1>4. /\ Queue' \in Seq(Command) /\ Len(Queue') = Len(Queue) - 1
        /\ DOMAIN Queue' = 1..Len(Queue')
        /\ \A i \in 1..Len(Queue') : Queue'[i] = Queue[i + 1]
    BY <1>2, <1>3, HeadTailProperties
  <1>5. 1 \in DOMAIN Queue /\ Queue[1] = Head(Queue)
    BY <1>2, <1>3
  <1> QED
    BY <1>1, <1>2, <1>3, <1>4, <1>5

\* A batch goes to the end of the queue, connected or not (plugin.rs, send).
LEMMA QueueSent ==
  ASSUME LinkTypeOK, QueueInv, NEW batch \in Seq(Command), SendCommands(batch)
  PROVE  /\ Queue' = Queue \o batch
         /\ DOMAIN Queue' = 1..(Len(Queue) + Len(batch))
         /\ DOMAIN Queue = 1..Len(Queue) /\ Len(Queue) \in Nat
         /\ \A i \in DOMAIN Queue : i \in DOMAIN Queue' /\ Queue'[i] = Queue[i]
         /\ \A i \in DOMAIN Queue' : i \notin DOMAIN Queue =>
              i > Len(Queue) /\ Queue'[i] = batch[i - Len(Queue)]
  <1>1. cmds \in Seq(Command) /\ pending \in Seq(Command)
    BY DEF LinkTypeOK
  <1>2. Queue' = Queue \o batch
    <2>1. CASE attached
      <3>1. pending = <<>> /\ pending' = <<>> /\ cmds' = cmds \o batch
        BY <2>1 DEF QueueInv, SendCommands
      <3>2. cmds \o batch \in Seq(Command)
        BY <1>1, ConcatProperties
      <3> QED
        BY <1>1, <3>1, <3>2, ConcatEmptySeq DEF Queue
    <2>2. CASE ~attached
      <3>1. Queue' = cmds \o (pending \o batch)
        BY <2>2 DEF SendCommands, Queue
      <3>2. (cmds \o pending) \o batch = cmds \o (pending \o batch)
        BY <1>1, ConcatAssociative
      <3> QED
        BY <3>1, <3>2 DEF Queue
    <2> QED
      BY <2>1, <2>2
  <1>3. Queue \in Seq(Command) /\ DOMAIN Queue = 1..Len(Queue) /\ Len(Queue) \in Nat
    BY QueueType
  <1> HIDE DEF Queue
  <1>4. Len(batch) \in Nat
    OBVIOUS
  <1> QED
    BY <1>2, <1>3, <1>4

\* Events are added at the end of the link, or lost (bridge.rs, Bridge::send).
LEMMA EventSent ==
  ASSUME LinkTypeOK, NEW e \in Event, SendEvent(e)
  PROVE  \E n : /\ n \notin DOMAIN evts
                /\ \A i \in DOMAIN evts' :
                     \/ i \in DOMAIN evts /\ evts'[i] = evts[i]
                     \/ i = n /\ evts'[i] = e
  <1>1. evts \in Seq(Event) /\ evts' \in {evts, Append(evts, e)}
    BY DEF LinkTypeOK, SendEvent
  <1>2. /\ Len(evts) + 1 \notin DOMAIN evts
        /\ \A i \in DOMAIN evts' :
              \/ i \in DOMAIN evts /\ evts'[i] = evts[i]
              \/ i = Len(evts) + 1 /\ evts'[i] = e
    BY <1>1
  <1> QED
    BY <1>2

\* The session reads the oldest event (plugin.rs, Connection::run).
LEMMA EventTaken ==
  ASSUME LinkTypeOK, NEW evs, Receive(evs)
  PROVE  /\ 1 \in DOMAIN evts /\ evts[1] = Head(evts) /\ evts[1].ev \in evs
         /\ \A i \in DOMAIN evts' :
              i \in Nat \ {0} /\ i + 1 \in DOMAIN evts /\ evts'[i] = evts[i + 1]
  <1>1. evts \in Seq(Event) /\ evts # <<>> /\ evts' = Tail(evts) /\ Head(evts).ev \in evs
    BY DEF LinkTypeOK, Receive
  <1> QED
    BY <1>1

\* The commands of a session that died: those it had written stay on the link.
LEMMA QueueCut ==
  ASSUME LinkTypeOK, SessionDies
  PROVE  /\ Len(Queue') <= Len(Queue) /\ Queue' = SubSeq(Queue, 1, Len(Queue'))
         /\ DOMAIN Queue' = 1..Len(Queue') /\ Len(Queue') \in Nat
         /\ \A i \in DOMAIN Queue' : i \in DOMAIN Queue /\ Queue'[i] = Queue[i]
  <1>1. /\ cmds \in Seq(Command) /\ pending \in Seq(Command)
        /\ cmds' = cmds /\ pending' = <<>>
    BY DEF LinkTypeOK, SessionDies
  <1>2. Queue' = cmds
    BY <1>1, ConcatEmptySeq DEF Queue
  <1>3. /\ Queue \in Seq(Command) /\ Len(Queue) = Len(cmds) + Len(pending)
        /\ \A i \in 1..Len(cmds) : Queue[i] = cmds[i]
    <2>1. /\ Queue \in Seq(Command) /\ Len(Queue) = Len(cmds) + Len(pending)
          /\ \A i \in 1..Len(cmds) + Len(pending) :
                Queue[i] = IF i <= Len(cmds) THEN cmds[i] ELSE pending[i - Len(cmds)]
      BY <1>1, ConcatProperties DEF Queue
    <2> QED
      BY <1>1, <2>1
  <1>4. /\ Len(cmds) \in Nat /\ Len(cmds) <= Len(Queue) /\ DOMAIN Queue = 1..Len(Queue)
        /\ DOMAIN cmds = 1..Len(cmds)
    BY <1>1, <1>3
  <1>5. cmds = SubSeq(Queue, 1, Len(cmds))
    <2> DEFINE r == SubSeq(Queue, 1, Len(cmds))
    <2>1. \A i \in 1..Len(cmds) : Queue[i] \in Command
      BY <1>3, <1>4
    <2>2. /\ r \in Seq(Command) /\ Len(r) = Len(cmds)
          /\ \A i \in 1..Len(cmds) : r[i] = Queue[i]
      <3>1. /\ r \in Seq(Command)
            /\ Len(r) = IF 1 <= Len(cmds) THEN Len(cmds) - 1 + 1 ELSE 0
            /\ \A i \in 1..(Len(cmds) - 1 + 1) : r[i] = Queue[1 + i - 1]
        BY <1>4, <2>1, SubSeqProperties
      <3> HIDE DEF r
      <3> QED
        BY <3>1, <1>4
    <2> HIDE DEF r
    <2>3. cmds = r
      BY <1>1, <1>3, <2>2, SeqEqual
    <2> QED
      BY <2>3 DEF r
  <1> QED
    BY <1>2, <1>3, <1>4, <1>5

-----------------------------------------------------------------------------
(***************************************************************************)
(* One channel of commands, whatever the editor does.                      *)
(***************************************************************************)

\* Each step of the VM, of the socket thread and of the session keeps nothing
\* back once the link is held (plugin.rs, Writer).
LEMMA NextQueueInv == QueueInv /\ [Next]_vars => QueueInv'
  <1> SUFFICES ASSUME QueueInv, [Next]_vars PROVE QueueInv'
    OBVIOUS
  <1> USE DEF QueueInv
  <1>1. CASE UNCHANGED vars
    BY <1>1 DEF vars, sendVars
  <1>2. CASE VmNext
    BY <1>2 DEF VmNext, LoadProgram, UnloadProgram, Configured, ConfigTimeout, Break,
       PublishContext, AnnouncePause, EnterGate, LeaveGate, ClearContext,
       ResumeController, sendVars
  <1>3. CASE SockNext
    BY <1>3 DEF SockNext, Connect, ConnectFails, SayHello, ApplySetting, ApplyResume,
       ApplyConfigured, TakeRequest, AccessCell, AccessFails, SendReply, SeeEof,
       LeaveSession, sendVars
  <1>4. CASE SessionNext
    BY <1>4 DEF SessionNext, Attach, ConfigurationDone, ChangeSetting, Resume, Request,
       RequestAnswered, RequestTimeout, SessionDies, ReceiveHello, ReceivePaused,
       TellStopped, ReceiveReply, SendCommands, sendVars
  <1> QED
    BY <1>1, <1>2, <1>3, <1>4 DEF Next

\* The batches of commands are well formed and not empty.
LEMMA Batches ==
  /\ \A op \in SettingOps, v \in Nat :
       <<[op |-> op, arg |-> v]>> \in Seq(Command) /\ Len(<<[op |-> op, arg |-> v]>>) = 1
  /\ \A op \in ResumeOps, p \in Nat :
       <<[op |-> op, arg |-> p]>> \in Seq(Command) /\ Len(<<[op |-> op, arg |-> p]>>) = 1
  /\ \A op \in RequestOps, i \in Ids :
       <<[op |-> op, arg |-> i]>> \in Seq(Command) /\ Len(<<[op |-> op, arg |-> i]>>) = 1
  /\ LET b == <<[op |-> "setBreakpoints", arg |-> 1], [op |-> "configured", arg |-> 0]>>
     IN  b \in Seq(Command) /\ Len(b) = 2
  BY DEF Command, PlainOps, SettingOps, ResumeOps

\* Sending a batch is a Send of the channel.
LEMMA SendIsSend ==
  ASSUME LinkTypeOK, QueueInv, NEW batch \in Seq(Command), Len(batch) > 0,
         SendCommands(batch), alive, alive' = alive
  PROVE  Channel!Send
  <1>1. /\ Queue' = Queue \o batch /\ Queue \in Seq(Command)
    BY QueueSent, QueueType
  <1> HIDE DEF Queue
  <1>2. Len(Queue') > Len(Queue) /\ SubSeq(Queue', 1, Len(Queue)) = Queue
    <2> DEFINE r == SubSeq(Queue', 1, Len(Queue))
    <2>1. /\ Queue' \in Seq(Command) /\ Len(Queue') = Len(Queue) + Len(batch)
          /\ Len(Queue) \in Nat /\ Len(batch) \in Nat \ {0}
          /\ \A i \in 1..Len(Queue) : Queue'[i] = Queue[i] /\ Queue'[i] \in Command
      BY <1>1
    <2>2. /\ r \in Seq(Command) /\ Len(r) = Len(Queue)
          /\ \A i \in 1..Len(Queue) : r[i] = Queue[i]
      <3>1. /\ r \in Seq(Command)
            /\ Len(r) = IF 1 <= Len(Queue) THEN Len(Queue) - 1 + 1 ELSE 0
            /\ \A i \in 1..(Len(Queue) - 1 + 1) : r[i] = Queue'[1 + i - 1]
        BY <2>1, SubSeqProperties
      <3> HIDE DEF r
      <3> QED
        BY <2>1, <3>1
    <2> HIDE DEF r
    <2>3. r = Queue
      BY <1>1, <2>2, SeqEqual
    <2> QED
      BY <2>1, <2>3 DEF r
  <1> QED
    BY <1>2 DEF Channel!Send, Queue

\* Every step of the code is a step of the channel or none of its business.
LEMMA ChannelStep ==
  ASSUME TypeOK, QueueInv, [Next]_vars
  PROVE  [Channel!ChanNext]_(Channel!chanVars)
  <1>1. LinkTypeOK
    BY DEF TypeOK
  <1>2. ASSUME UNCHANGED <<cmds, pending, alive>>
        PROVE  UNCHANGED Channel!chanVars
    BY <1>2 DEF Channel!chanVars
  <1>3. CASE UNCHANGED vars
    BY <1>2, <1>3 DEF vars, sendVars, sessionVars
  <1>4. CASE VmNext
    BY <1>2, <1>4 DEF VmNext, LoadProgram, UnloadProgram, Configured, ConfigTimeout, Break,
       PublishContext, AnnouncePause, EnterGate, LeaveGate, ClearContext,
       ResumeController, sendVars, sessionVars
  <1>5. ASSUME NEW ops, Take(ops), UNCHANGED <<pending, alive>>
        PROVE  Channel!ChanNext
    <2>1. Queue # <<>> /\ Queue' = Tail(Queue)
      BY <1>1, <1>5, QueueTaken
    <2> QED
      BY <1>5, <2>1 DEF Channel!ChanNext, Channel!Receive, Queue
  <1>6. CASE SockNext
    <2>1. CASE ApplySetting
      BY <1>5, <2>1 DEF ApplySetting, sendVars, sessionVars
    <2>2. CASE ApplyResume
      BY <1>5, <2>2 DEF ApplyResume, sendVars, sessionVars
    <2>3. CASE ApplyConfigured
      BY <1>5, <2>3 DEF ApplyConfigured, sendVars, sessionVars
    <2>4. CASE TakeRequest
      BY <1>5, <2>4 DEF TakeRequest, sendVars, sessionVars
    <2>5. CASE Connect \/ ConnectFails \/ SayHello \/ AccessCell \/ AccessFails
               \/ SendReply \/ SeeEof \/ LeaveSession
      BY <1>2, <2>5 DEF Connect, ConnectFails, SayHello, AccessCell, AccessFails, SendReply,
         SeeEof, LeaveSession, sendVars, sessionVars
    <2> QED
      BY <1>6, <2>1, <2>2, <2>3, <2>4, <2>5 DEF SockNext
  <1>7. CASE SessionNext
    <2>1. CASE Attach
      <3>1. /\ cmds' = cmds \o pending /\ pending' = <<>> /\ alive' = alive
            /\ cmds \o pending \in Seq(Command)
        BY <1>1, <2>1, ConcatProperties DEF Attach, LinkTypeOK, sessionVars
      <3>2. cmds' \o pending' = cmds \o pending
        BY <3>1, ConcatEmptySeq
      <3> QED
        BY <3>1, <3>2 DEF Channel!chanVars
    <2>2. CASE ConfigurationDone
      <3> DEFINE b == <<[op |-> "setBreakpoints", arg |-> 1], [op |-> "configured", arg |-> 0]>>
      <3>1. b \in Seq(Command) /\ Len(b) > 0
        BY Batches
      <3>2. SendCommands(b) /\ alive /\ alive' = alive
        BY <2>2 DEF ConfigurationDone, Idle, sessionVars
      <3> HIDE DEF b
      <3> QED
        BY <1>1, <3>1, <3>2, SendIsSend DEF Channel!ChanNext
    <2>3. CASE ChangeSetting
      <3>1. PICK op \in SettingOps, v \in {0, 1} : SendCommands(<<[op |-> op, arg |-> v]>>)
        BY <2>3 DEF ChangeSetting
      <3>2. op \in SettingOps /\ v \in Nat
        OBVIOUS
      <3> DEFINE b == <<[op |-> op, arg |-> v]>>
      <3>3. b \in Seq(Command) /\ Len(b) > 0
        BY <3>2, Batches
      <3>4. SendCommands(b) /\ alive /\ alive' = alive
        BY <2>3, <3>1 DEF ChangeSetting, Idle, sessionVars
      <3> HIDE DEF b
      <3> QED
        BY <1>1, <3>3, <3>4, SendIsSend DEF Channel!ChanNext
    <2>4. CASE Resume
      <3>1. PICK op \in ResumeOps : SendCommands(<<[op |-> op, arg |-> stopped]>>)
        BY <2>4 DEF Resume
      <3>2. stopped \in Nat
        BY DEF TypeOK, EditorTypeOK
      <3> DEFINE b == <<[op |-> op, arg |-> stopped]>>
      <3>3. b \in Seq(Command) /\ Len(b) > 0
        BY <3>1, <3>2, Batches
      <3>4. SendCommands(b) /\ alive /\ alive' = alive
        BY <2>4, <3>1 DEF Resume, Idle, sessionVars
      <3> HIDE DEF b
      <3> QED
        BY <1>1, <3>3, <3>4, SendIsSend DEF Channel!ChanNext
    <2>5. CASE Request
      <3>1. PICK op \in RequestOps :
              SendCommands(<<[op |-> op, arg |-> nextId + 1]>>)
        BY <2>5 DEF Request
      <3>2. nextId + 1 \in Ids
        BY <2>5, PauseAssumption DEF Request, Ids, TypeOK, SessionTypeOK
      <3> DEFINE b == <<[op |-> op, arg |-> nextId + 1]>>
      <3>3. b \in Seq(Command) /\ Len(b) > 0
        BY <3>1, <3>2, Batches
      <3>4. SendCommands(b) /\ alive /\ alive' = alive
        BY <2>5, <3>1 DEF Request, Idle, sessionVars
      <3> HIDE DEF b
      <3> QED
        BY <1>1, <3>3, <3>4, SendIsSend DEF Channel!ChanNext
    <2>6. CASE SessionDies
      <3>1. Len(Queue') <= Len(Queue) /\ Queue' = SubSeq(Queue, 1, Len(Queue'))
        BY <1>1, <2>6, QueueCut
      <3> QED
        BY <2>6, <3>1 DEF SessionDies, Channel!ChanNext, Channel!Close, Queue
    <2>7. CASE RequestAnswered \/ RequestTimeout \/ ReceiveHello \/ ReceivePaused
               \/ TellStopped \/ ReceiveReply
      BY <1>2, <2>7 DEF RequestAnswered, RequestTimeout, ReceiveHello, ReceivePaused,
         TellStopped, ReceiveReply, sendVars, sessionVars
    <2> QED
      BY <1>7, <2>1, <2>2, <2>3, <2>4, <2>5, <2>6, <2>7 DEF SessionNext
  <1> QED
    BY <1>3, <1>4, <1>6, <1>7 DEF Next

\* The queue of commands is one channel: what is sent before the plugin is
\* connected goes out first, nothing is taken twice or skipped.
THEOREM CommandsInOrderCorrect == Spec => CommandsInOrder
  <1>1. Init => QueueInv
    BY DEF Init, QueueInv
  <1>2. Init => Channel!ChanInit
    BY EmptySeq, ConcatEmptySeq DEF Init, Channel!ChanInit
  <1>3. Spec => []QueueInv
    BY <1>1, NextQueueInv, PTL DEF Spec
  <1>4. TypeOK /\ QueueInv /\ [Next]_vars => [Channel!ChanNext]_(Channel!chanVars)
    BY ChannelStep
  <1> QED
    BY <1>2, <1>3, <1>4, TypeCorrect, PTL DEF Spec, CommandsInOrder, Channel!ChanSpec

-----------------------------------------------------------------------------
(***************************************************************************)
(* The breakpoints of the configuration come first, whatever the editor    *)
(* does, as long as no setting was changed.                                *)
(***************************************************************************)

\* In the queue the signal is behind the breakpoints, until they are in place.
ConfigInv ==
  settings = 0 =>
    /\ \A i \in DOMAIN Queue :
         /\ Queue[i].op = "setBreakpoints" => Queue[i].arg = 1
         /\ Queue[i].op = "configured" =>
              breakpoints = 1 \/ \E j \in DOMAIN Queue : j < i /\ Queue[j].op = "setBreakpoints"
    /\ configured /\ sock # "done" => breakpoints = 1

\* A step that sends and applies nothing, and releases the VM only when the
\* socket thread ends, keeps the order.
LEMMA KeepConfig ==
  ASSUME ConfigInv, UNCHANGED <<settings, cmds, pending, breakpoints>>,
         configured' /\ sock' # "done" => configured /\ sock # "done"
  PROVE  ConfigInv'
  <1>1. Queue' = Queue
    BY QueueKept
  <1> QED
    BY <1>1 DEF ConfigInv

\* The plugin applies the oldest command (bridge.rs, apply).
LEMMA TakeConfig ==
  ASSUME TypeOK, ConfigInv, NEW ops, Take(ops), UNCHANGED <<pending, settings>>,
         breakpoints' = IF Head(cmds).op = "setBreakpoints" THEN Head(cmds).arg ELSE breakpoints,
         sock # "done",
         configured' => configured \/ Head(cmds).op = "configured"
  PROVE  ConfigInv'
  <1> SUFFICES ASSUME settings = 0
      PROVE  /\ \A i \in DOMAIN Queue' :
                  /\ Queue'[i].op = "setBreakpoints" => Queue'[i].arg = 1
                  /\ Queue'[i].op = "configured" =>
                       \/ breakpoints' = 1
                       \/ \E j \in DOMAIN Queue' : j < i /\ Queue'[j].op = "setBreakpoints"
             /\ configured' /\ sock' # "done" => breakpoints' = 1
    BY DEF ConfigInv
  <1>1. /\ 1 \in DOMAIN Queue /\ Queue[1] = Head(cmds)
        /\ \A i \in DOMAIN Queue' :
              i \in Nat \ {0} /\ i + 1 \in DOMAIN Queue /\ Queue'[i] = Queue[i + 1]
        /\ \A i \in DOMAIN Queue : i # 1 => i - 1 \in DOMAIN Queue'
    BY QueueTaken DEF TypeOK
  <1>2. DOMAIN Queue \subseteq Nat \ {0}
    BY QueueType DEF TypeOK
  <1>3. breakpoints = 1 => breakpoints' = 1
    BY <1>1 DEF ConfigInv
  <1>4. Queue[1].op = "setBreakpoints" => breakpoints' = 1
    BY <1>1 DEF ConfigInv
  <1>5. ASSUME NEW i \in DOMAIN Queue', Queue'[i].op = "configured", breakpoints' # 1
        PROVE  \E j \in DOMAIN Queue' : j < i /\ Queue'[j].op = "setBreakpoints"
    <2>1. PICK j \in DOMAIN Queue : j < i + 1 /\ Queue[j].op = "setBreakpoints"
      BY <1>1, <1>3, <1>5 DEF ConfigInv
    <2>2. j # 1 /\ j \in Nat \ {0}
      BY <1>2, <1>4, <1>5, <2>1
    <2>3. j - 1 \in DOMAIN Queue' /\ Queue'[j - 1] = Queue[j] /\ j - 1 < i
      BY <1>1, <2>1, <2>2
    <2> QED
      BY <2>1, <2>3
  <1>6. \A i \in DOMAIN Queue' : Queue'[i].op = "setBreakpoints" => Queue'[i].arg = 1
    BY <1>1 DEF ConfigInv
  <1>7. configured' => breakpoints' = 1
    <2>1. CASE configured
      BY <1>3, <2>1 DEF ConfigInv
    <2>2. CASE Head(cmds).op = "configured"
      <3>1. breakpoints = 1 \/ \E j \in DOMAIN Queue : j < 1
        BY <1>1, <2>2 DEF ConfigInv
      <3> QED
        BY <1>2, <1>3, <3>1
    <2> QED
      BY <2>1, <2>2
  <1> QED
    BY <1>5, <1>6, <1>7

\* The session sends commands: the breakpoints before the signal, and no
\* other breakpoints (session.rs, on_configuration_done).
LEMMA SendConfig ==
  ASSUME TypeOK, QueueInv, ConfigInv, NEW batch \in Seq(Command), SendCommands(batch),
         UNCHANGED <<breakpoints, configured, sock, settings>>,
         \A i \in 1..Len(batch) :
           /\ batch[i].op = "setBreakpoints" => batch[i].arg = 1
           /\ batch[i].op = "configured" => i > 1 /\ batch[1].op = "setBreakpoints"
  PROVE  ConfigInv'
  <1>1. /\ DOMAIN Queue' = 1..(Len(Queue) + Len(batch))
        /\ DOMAIN Queue = 1..Len(Queue) /\ Len(Queue) \in Nat
        /\ \A i \in DOMAIN Queue : i \in DOMAIN Queue' /\ Queue'[i] = Queue[i]
        /\ \A i \in DOMAIN Queue' : i \notin DOMAIN Queue =>
              i > Len(Queue) /\ Queue'[i] = batch[i - Len(Queue)]
    BY QueueSent DEF TypeOK
  <1>2. Len(batch) \in Nat
    OBVIOUS
  <1>3. ASSUME NEW i \in DOMAIN Queue', i \notin DOMAIN Queue
        PROVE  /\ i - Len(Queue) \in 1..Len(batch) /\ Queue'[i] = batch[i - Len(Queue)]
               /\ i > Len(Queue) + 1 =>
                    /\ Len(Queue) + 1 \in DOMAIN Queue'
                    /\ Queue'[Len(Queue) + 1] = batch[1]
    <2>1. i \in Nat /\ i > Len(Queue) /\ i <= Len(Queue) + Len(batch)
      BY <1>1, <1>2, <1>3
    <2>2. i - Len(Queue) \in 1..Len(batch) /\ Queue'[i] = batch[i - Len(Queue)]
      BY <1>1, <1>2, <1>3, <2>1
    <2>3. /\ Len(Queue) + 1 \in DOMAIN Queue' /\ Len(Queue) + 1 \notin DOMAIN Queue
          /\ Len(Queue) + 1 - Len(Queue) = 1
      BY <1>1, <1>2, <2>1
    <2> QED
      BY <1>1, <2>2, <2>3
  <1>4. ASSUME settings = 0, NEW i \in DOMAIN Queue'
        PROVE  /\ Queue'[i].op = "setBreakpoints" => Queue'[i].arg = 1
               /\ Queue'[i].op = "configured" =>
                    \/ breakpoints = 1
                    \/ \E j \in DOMAIN Queue' : j < i /\ Queue'[j].op = "setBreakpoints"
    <2>1. CASE i \in DOMAIN Queue
      BY <1>1, <1>4, <2>1 DEF ConfigInv
    <2>2. CASE i \notin DOMAIN Queue
      <3>1. /\ i - Len(Queue) \in 1..Len(batch) /\ Queue'[i] = batch[i - Len(Queue)]
            /\ i > Len(Queue) + 1 =>
                 /\ Len(Queue) + 1 \in DOMAIN Queue'
                 /\ Queue'[Len(Queue) + 1] = batch[1]
        BY <1>3, <2>2
      <3>2. i \in Nat
        BY <1>1, <1>2
      <3>3. Queue'[i].op = "configured" =>
              /\ Len(Queue) + 1 < i /\ Len(Queue) + 1 \in DOMAIN Queue'
              /\ Queue'[Len(Queue) + 1].op = "setBreakpoints"
        BY <1>1, <3>1, <3>2
      <3> QED
        BY <3>1, <3>3
    <2> QED
      BY <2>1, <2>2
  <1> QED
    BY <1>4 DEF ConfigInv

\* The order is kept by every step of every thread.
LEMMA NextConfig ==
  ASSUME TypeOK, QueueInv, ConfigInv, [Next]_vars
  PROVE  ConfigInv'
  <1>1. CASE UNCHANGED vars
    BY <1>1, KeepConfig DEF vars, sendVars, editorVars, ctrlVars, sockVars
  <1>2. CASE VmNext
    BY <1>2, KeepConfig DEF VmNext, LoadProgram, UnloadProgram, Configured, ConfigTimeout, Break,
       PublishContext, AnnouncePause, EnterGate, LeaveGate, ClearContext,
       ResumeController, sendVars, editorVars, ctrlVars, sockVars
  <1>3. CASE SockNext
    <2>1. CASE ApplySetting
      BY <2>1, TakeConfig DEF ApplySetting, Take, sendVars, editorVars, sockVars
    <2>2. CASE ApplyResume
      BY <2>2, TakeConfig DEF ApplyResume, Take, ResumeOps, sendVars, editorVars, ctrlVars, sockVars
    <2>3. CASE ApplyConfigured
      BY <2>3, TakeConfig DEF ApplyConfigured, Take, sendVars, editorVars, ctrlVars, sockVars
    <2>4. CASE TakeRequest
      BY <2>4, TakeConfig DEF TakeRequest, Take, RequestOps, sendVars, editorVars, ctrlVars
    <2>5. CASE Connect \/ ConnectFails \/ SayHello \/ AccessCell \/ AccessFails
               \/ SendReply \/ SeeEof \/ LeaveSession
      BY <2>5, KeepConfig DEF Connect, ConnectFails, SayHello, AccessCell, AccessFails, SendReply,
         SeeEof, LeaveSession, sendVars, editorVars, ctrlVars, sockVars
    <2> QED
      BY <1>3, <2>1, <2>2, <2>3, <2>4, <2>5 DEF SockNext
  <1>4. CASE SessionNext
    <2>1. CASE Attach
      <3>1. Queue' = Queue
        <4>1. /\ cmds' = cmds \o pending /\ pending' = <<>>
              /\ cmds \o pending \in Seq(Command)
          BY <2>1, ConcatProperties DEF Attach, TypeOK, LinkTypeOK
        <4> QED
          BY <4>1, ConcatEmptySeq DEF Queue
      <3> QED
        BY <2>1, <3>1 DEF Attach, ConfigInv, sockVars, ctrlVars, editorVars
    <2>2. CASE ConfigurationDone
      <3> DEFINE b == <<[op |-> "setBreakpoints", arg |-> 1], [op |-> "configured", arg |-> 0]>>
      <3>1. b \in Seq(Command) /\ SendCommands(b)
        BY <2>2, Batches DEF ConfigurationDone
      <3>2. \A i \in 1..Len(b) :
              /\ b[i].op = "setBreakpoints" => b[i].arg = 1
              /\ b[i].op = "configured" => i > 1 /\ b[1].op = "setBreakpoints"
        OBVIOUS
      <3> HIDE DEF b
      <3> QED
        BY <2>2, <3>1, <3>2, SendConfig DEF ConfigurationDone, ctrlVars, sockVars
    <2>3. CASE ChangeSetting
      BY <2>3 DEF ChangeSetting, ConfigInv, TypeOK, EditorTypeOK
    <2>4. CASE Resume
      <3>1. PICK op \in ResumeOps : SendCommands(<<[op |-> op, arg |-> stopped]>>)
        BY <2>4 DEF Resume
      <3> DEFINE b == <<[op |-> op, arg |-> stopped]>>
      <3>2. b \in Seq(Command) /\ SendCommands(b)
        BY <3>1, Batches DEF TypeOK, EditorTypeOK
      <3>3. \A i \in 1..Len(b) : b[i].op \notin {"setBreakpoints", "configured"}
        BY DEF ResumeOps
      <3> HIDE DEF b
      <3> QED
        BY <2>4, <3>2, <3>3, SendConfig DEF Resume, ctrlVars, sockVars
    <2>5. CASE Request
      <3>1. PICK op \in RequestOps : SendCommands(<<[op |-> op, arg |-> nextId + 1]>>)
        BY <2>5 DEF Request
      <3> DEFINE b == <<[op |-> op, arg |-> nextId + 1]>>
      <3>2. nextId + 1 \in Ids
        BY <2>5, PauseAssumption DEF Request, Ids, TypeOK, SessionTypeOK
      <3>3. b \in Seq(Command) /\ SendCommands(b)
        BY <3>1, <3>2, Batches
      <3>4. \A i \in 1..Len(b) : b[i].op \notin {"setBreakpoints", "configured"}
        BY DEF RequestOps
      <3> HIDE DEF b
      <3> QED
        BY <2>5, <3>3, <3>4, SendConfig DEF Request, ctrlVars, sockVars, editorVars
    <2>6. CASE SessionDies
      <3>1. /\ DOMAIN Queue' = 1..Len(Queue') /\ Len(Queue') \in Nat
            /\ \A i \in DOMAIN Queue' : i \in DOMAIN Queue /\ Queue'[i] = Queue[i]
        BY <2>6, QueueCut DEF TypeOK
      <3>2. DOMAIN Queue \subseteq Nat \ {0}
        BY QueueType DEF TypeOK
      <3>3. \A i \in DOMAIN Queue', j \in DOMAIN Queue : j < i => j \in DOMAIN Queue'
        BY <3>1, <3>2
      <3> QED
        BY <2>6, <3>1, <3>3 DEF SessionDies, ConfigInv, sockVars, ctrlVars, editorVars
    <2>7. CASE RequestAnswered \/ RequestTimeout \/ ReceiveHello \/ ReceivePaused
               \/ TellStopped \/ ReceiveReply
      BY <2>7, KeepConfig DEF RequestAnswered, RequestTimeout, ReceiveHello, ReceivePaused,
         TellStopped, ReceiveReply, sendVars, editorVars, ctrlVars, sockVars
    <2> QED
      BY <1>4, <2>1, <2>2, <2>3, <2>4, <2>5, <2>6, <2>7 DEF SessionNext
  <1> QED
    BY <1>1, <1>2, <1>3, <1>4 DEF Next

\* The VM that is released by the session runs no line before the breakpoints
\* of the configuration are in place, connected early or late.
THEOREM ConfiguredCorrect == Spec => ConfiguredWithBreakpoints
  <1>1. Init => QueueInv /\ ConfigInv
    <2>1. Init => Queue = <<>>
      BY EmptySeq, ConcatEmptySeq DEF Init, Queue
    <2> QED
      BY <2>1 DEF Init, QueueInv, ConfigInv
  <1>2. TypeOK /\ QueueInv /\ ConfigInv /\ [Next]_vars => QueueInv' /\ ConfigInv'
    BY NextQueueInv, NextConfig
  <1>3. ConfigInv => (Configured /\ sock \in {"serving", "resolving", "replying"} /\ settings = 0
                        => breakpoints = 1)
    BY DEF ConfigInv, Configured
  <1> QED
    BY <1>1, <1>2, <1>3, TypeCorrect, PTL DEF Spec, ConfiguredWithBreakpoints

-----------------------------------------------------------------------------
(***************************************************************************)
(* The pauses of a polite editor: each is announced once, resumed once and *)
(* edited only while it lasts.                                             *)
(***************************************************************************)

\* The VM is in a pause the session may have been told of.
Held == vm \in {"announced", "parked"}

\* The editor resumes what it saw and sees what happened, no sooner.
CountInv ==
  /\ answered <= stopped /\ stopped <= pauses
  /\ vm \in {"stopping", "announcing"} => stopped < pauses
  /\ stopped = pauses /\ pauses > 0 => frames = pauses

\* The news of the pause is on the link, or with the connection thread, or
\* known to the editor: in one of these places, and of the pause of the VM.
NewsInv ==
  /\ \A i \in DOMAIN evts : evts[i].ev = "paused" =>
       /\ Held /\ evts[i].arg = pauses /\ reader = 0 /\ stopped < pauses
       /\ \A j \in DOMAIN evts : evts[j].ev = "paused" => j = i
  /\ reader # 0 =>
       /\ Held /\ reader = pauses /\ frames = pauses /\ stopped < pauses
       /\ \A i \in DOMAIN evts : evts[i].ev # "paused"
  /\ ShowsStopped => Held /\ stopped = pauses

\* One resume is on its way or at the gate, behind every request of its pause.
ResumeInv ==
  /\ \A i \in DOMAIN Queue : Queue[i].op \in ResumeOps =>
       /\ Held /\ gate = NoResume /\ answered = pauses /\ Queue[i].arg = pauses
       /\ \A j \in DOMAIN Queue : j > i => Queue[j].op \notin ResumeOps \cup RequestOps
  /\ gate # NoResume => Held /\ answered = pauses /\ gate.arg = pauses
  /\ vm = "leaving" => taken.arg = pauses

\* A request, taken or not, is of the pause the editor saw, and nothing has
\* gone to the gate; what it stored, it stored in the pause of the cached stack.
RequestInv ==
  /\ \A i \in DOMAIN Queue : Queue[i].op \in RequestOps =>
       Held /\ stopped = pauses /\ gate = NoResume /\ Queue[i].arg <= nextId
  /\ sock \in {"resolving", "replying"} =>
       Held /\ stopped = pauses /\ gate = NoResume /\ job.arg <= nextId
  /\ asked # NotAsked => ShowsStopped /\ written[asked.arg] \in {0, frames}
  /\ \A i \in Ids : written[i] # 0 => i <= nextId
  /\ EditsBelongToStack

OrderInv == QueueInv /\ CountInv /\ NewsInv /\ ResumeInv /\ RequestInv

\* Nothing happened yet.
LEMMA InitOrder == Init => OrderInv
  <1> SUFFICES ASSUME Init PROVE OrderInv
    OBVIOUS
  <1>1. Queue = <<>>
    BY EmptySeq, ConcatEmptySeq DEF Init, Queue
  <1> QED
    BY <1>1 DEF Init, OrderInv, QueueInv, CountInv, NewsInv, ResumeInv, RequestInv, ShowsStopped,
       EditsBelongToStack

\* A step keeps what it leaves alone.
LEMMA KeepOrder ==
  ASSUME OrderInv
  PROVE  /\ UNCHANGED <<vm, pauses, stopped, answered, frames>> => CountInv'
         /\ UNCHANGED <<vm, pauses, evts, reader, stopped, answered, frames>> => NewsInv'
         /\ UNCHANGED <<vm, pauses, answered, gate, taken, cmds, pending>> => ResumeInv'
         /\ UNCHANGED <<vm, pauses, gate, stopped, answered, frames, cmds, pending, sock, job,
                        asked, written, edits, nextId>> => RequestInv'
  <1>1. UNCHANGED <<vm, pauses, stopped, answered, frames>> => CountInv'
    BY DEF OrderInv, CountInv
  <1>2. UNCHANGED <<vm, pauses, evts, reader, stopped, answered, frames>> => NewsInv'
    BY DEF OrderInv, NewsInv, Held, ShowsStopped
  <1>3. UNCHANGED <<vm, pauses, answered, gate, taken, cmds, pending>> => ResumeInv'
    BY QueueKept DEF OrderInv, ResumeInv, Held
  <1>4. UNCHANGED <<vm, pauses, gate, stopped, answered, frames, cmds, pending, sock, job,
                    asked, written, edits, nextId>> => RequestInv'
    BY QueueKept DEF OrderInv, RequestInv, Held, ShowsStopped, EditsBelongToStack
  <1> QED
    BY <1>1, <1>2, <1>3, <1>4

\* Away from the gate nothing of a pause is on its way.
LEMMA Away ==
  ASSUME TypeOK, OrderInv, ~Held
  PROVE  /\ \A i \in DOMAIN evts : evts[i].ev # "paused"
         /\ reader = 0 /\ ~ShowsStopped
         /\ \A i \in DOMAIN Queue : Queue[i].op \notin ResumeOps \cup RequestOps
         /\ gate = NoResume /\ sock \notin {"resolving", "replying"} /\ asked = NotAsked
  BY DEF OrderInv, NewsInv, ResumeInv, RequestInv

\* The VM moves where no pause can be seen (hook.rs, lib.rs).
LEMMA AwayStep ==
  ASSUME TypeOK, OrderInv, ~Held, ~Held',
         vm' # "leaving",
         vm' \in {"stopping", "announcing"} => vm \in {"stopping", "announcing"},
         UNCHANGED <<pauses, gate, sockVars, cmds, evts, sendVars, sessionVars, editorVars>>
  PROVE  OrderInv'
  <1>1. Queue' = Queue
    BY QueueKept DEF sendVars
  <1>2. QueueInv' /\ CountInv'
    BY DEF OrderInv, QueueInv, CountInv, sendVars, sessionVars, editorVars
  <1>3. NewsInv'
    BY Away DEF NewsInv, ShowsStopped, sessionVars, editorVars
  <1>4. ResumeInv'
    BY <1>1, Away DEF ResumeInv
  <1>5. RequestInv'
    BY <1>1, Away DEF OrderInv, RequestInv, EditsBelongToStack, sockVars, sessionVars
  <1> QED
    BY <1>2, <1>3, <1>4, <1>5 DEF OrderInv

\* The steps of the VM thread (hook.rs, gate.rs, lib.rs): a pause begins with
\* nothing of the last one on its way, and ends by its own resume.
LEMMA VmStepOrder ==
  ASSUME TypeOK, OrderInv, VmNext
  PROVE  OrderInv'
  <1>1. CASE LoadProgram \/ UnloadProgram \/ Configured \/ ConfigTimeout \/ PublishContext
             \/ ClearContext \/ ResumeController
    BY <1>1, AwayStep DEF LoadProgram, UnloadProgram, Configured, ConfigTimeout, PublishContext,
       ClearContext, ResumeController, Held
  <1>2. CASE Break
    <2>1. /\ ~Held /\ ~Held' /\ pauses' = pauses + 1 /\ vm' = "stopping" /\ pauses \in Nat
          /\ stopped \in Nat /\ answered \in Nat
      BY <1>2 DEF Break, Held, TypeOK, VmTypeOK, EditorTypeOK
    <2>2. UNCHANGED <<gate, sockVars, cmds, evts, sendVars, sessionVars, editorVars>>
      BY <1>2 DEF Break
    <2>3. Queue' = Queue /\ QueueInv'
      BY <2>2, QueueKept DEF OrderInv, QueueInv, sendVars
    <2>4. CountInv'
      BY <2>1, <2>2 DEF OrderInv, CountInv, editorVars
    <2>5. NewsInv'
      BY <2>1, <2>2, Away DEF NewsInv, ShowsStopped, sessionVars, editorVars
    <2>6. ResumeInv'
      BY <2>1, <2>2, <2>3, Away DEF ResumeInv
    <2>7. RequestInv'
      BY <2>1, <2>2, <2>3, Away
         DEF OrderInv, RequestInv, EditsBelongToStack, sockVars, sessionVars
    <2> QED
      BY <2>3, <2>4, <2>5, <2>6, <2>7 DEF OrderInv
  <1>3. CASE AnnouncePause
    <2> DEFINE e == [ev |-> "paused", arg |-> pauses]
    <2>1. /\ ~Held /\ Held' /\ vm' = "announced" /\ stopped < pauses
          /\ stopped \in Nat /\ answered \in Nat /\ pauses \in Nat /\ answered <= stopped
      BY <1>3 DEF AnnouncePause, Held, OrderInv, CountInv, TypeOK, VmTypeOK, EditorTypeOK
    <2>2. UNCHANGED <<pauses, gate, sockVars, cmds, sendVars, sessionVars, editorVars>>
      BY <1>3 DEF AnnouncePause, vmVars
    <2>3. Queue' = Queue /\ QueueInv'
      BY <2>2, QueueKept DEF OrderInv, QueueInv, sendVars
    <2>4. CountInv'
      BY <2>1, <2>2 DEF OrderInv, CountInv, editorVars, sessionVars
    <2>5. NewsInv'
      <3>1. e \in Event
        BY <2>1 DEF Event
      <3>2. PICK n : /\ n \notin DOMAIN evts
                     /\ \A i \in DOMAIN evts' :
                          \/ i \in DOMAIN evts /\ evts'[i] = evts[i]
                          \/ i = n /\ evts'[i] = e
        BY <1>3, <3>1, EventSent DEF AnnouncePause, TypeOK
      <3>3. \A i \in DOMAIN evts' : evts'[i].ev = "paused" => i = n /\ evts'[i].arg = pauses
        BY <2>1, <3>2, Away
      <3> QED
        BY <2>1, <2>2, <3>3, Away DEF NewsInv, ShowsStopped, sessionVars, editorVars
    <2>6. ResumeInv'
      BY <2>1, <2>2, <2>3, Away DEF ResumeInv
    <2>7. RequestInv'
      BY <2>1, <2>2, <2>3, Away
         DEF OrderInv, RequestInv, EditsBelongToStack, sockVars, sessionVars
    <2> QED
      BY <2>3, <2>4, <2>5, <2>6, <2>7 DEF OrderInv
  <1>4. CASE EnterGate
    <2>1. Held /\ Held' /\ vm' = "parked"
      BY <1>4 DEF EnterGate, Held
    <2>2. UNCHANGED <<pauses, taken, gate, sockVars, cmds, evts, sendVars, sessionVars, editorVars>>
      BY <1>4 DEF EnterGate
    <2>3. Queue' = Queue /\ QueueInv'
      BY <2>2, QueueKept DEF OrderInv, QueueInv, sendVars
    <2>4. CountInv' /\ NewsInv'
      BY <2>1, <2>2 DEF OrderInv, CountInv, NewsInv, ShowsStopped, editorVars, sessionVars
    <2>5. ResumeInv'
      BY <2>1, <2>2, <2>3 DEF OrderInv, ResumeInv, editorVars
    <2>6. RequestInv'
      BY <2>1, <2>2, <2>3
         DEF OrderInv, RequestInv, ShowsStopped, EditsBelongToStack, sockVars, sessionVars, editorVars
    <2> QED
      BY <2>3, <2>4, <2>5, <2>6 DEF OrderInv
  <1>5. CASE LeaveGate
    <2>1. /\ ~Held' /\ vm' = "leaving" /\ gate # NoResume /\ gate' = NoResume
          /\ taken' = gate
      BY <1>5 DEF LeaveGate, Held
    <2>2. UNCHANGED <<pauses, sockVars, cmds, evts, sendVars, sessionVars, editorVars>>
      BY <1>5 DEF LeaveGate
    <2>3. Queue' = Queue /\ QueueInv'
      BY <2>2, QueueKept DEF OrderInv, QueueInv, sendVars
    <2>4. answered = pauses /\ stopped = pauses /\ gate.arg = pauses
      BY <2>1 DEF OrderInv, ResumeInv, CountInv, TypeOK, VmTypeOK, EditorTypeOK
    <2>5. /\ \A i \in DOMAIN evts : evts[i].ev # "paused"
          /\ reader = 0 /\ ~ShowsStopped
          /\ \A i \in DOMAIN Queue : Queue[i].op \notin ResumeOps \cup RequestOps
          /\ sock \notin {"resolving", "replying"} /\ asked = NotAsked
      BY <2>1, <2>4 DEF OrderInv, NewsInv, ResumeInv, RequestInv, ShowsStopped, TypeOK, VmTypeOK
    <2>6. CountInv'
      BY <2>1, <2>2 DEF OrderInv, CountInv, editorVars, sessionVars
    <2>7. NewsInv'
      BY <2>1, <2>2, <2>5 DEF NewsInv, ShowsStopped, sessionVars, editorVars
    <2>8. ResumeInv'
      BY <2>1, <2>2, <2>3, <2>4, <2>5 DEF ResumeInv
    <2>9. RequestInv'
      BY <2>1, <2>2, <2>3, <2>5
         DEF OrderInv, RequestInv, EditsBelongToStack, sockVars, sessionVars
    <2> QED
      BY <2>3, <2>6, <2>7, <2>8, <2>9 DEF OrderInv
  <1> QED
    BY <1>1, <1>2, <1>3, <1>4, <1>5 DEF VmNext

\* No news of a pause is added to the link.
LEMMA SameNews ==
  ASSUME OrderInv, UNCHANGED <<vm, pauses, reader, stopped, answered, frames>>,
         \A i \in DOMAIN evts' : evts'[i].ev = "paused" => i \in DOMAIN evts /\ evts'[i] = evts[i]
  PROVE  NewsInv'
  BY DEF OrderInv, NewsInv, Held, ShowsStopped

\* What the plugin sends about itself or in answer to a request is no news.
LEMMA OtherEvent ==
  ASSUME TypeOK, OrderInv, NEW e \in Event, SendEvent(e), e.ev # "paused",
         UNCHANGED <<vm, pauses, reader, stopped, answered, frames>>
  PROVE  NewsInv'
  <1>1. PICK n : /\ n \notin DOMAIN evts
                 /\ \A i \in DOMAIN evts' :
                      \/ i \in DOMAIN evts /\ evts'[i] = evts[i]
                      \/ i = n /\ evts'[i] = e
    BY EventSent DEF TypeOK
  <1> QED
    BY <1>1, SameNews

\* The plugin takes a command that goes no further than itself.
LEMMA TakeOrder ==
  ASSUME TypeOK, OrderInv, NEW ops, Take(ops), UNCHANGED <<pending, attached>>,
         UNCHANGED <<vm, pauses, gate, taken, stopped, answered, frames, asked, written, edits,
                     nextId>>
  PROVE  /\ QueueInv' /\ ResumeInv'
         /\ sock' \notin {"resolving", "replying"} => RequestInv'
  <1>1. \A i \in DOMAIN Queue' :
          i \in Nat \ {0} /\ i + 1 \in DOMAIN Queue /\ Queue'[i] = Queue[i + 1]
    BY QueueTaken DEF TypeOK
  <1>2. QueueInv'
    BY DEF OrderInv, QueueInv
  <1>3. ASSUME NEW i \in DOMAIN Queue', Queue'[i].op \in ResumeOps
        PROVE  /\ Held /\ gate = NoResume /\ answered = pauses /\ Queue'[i].arg = pauses
               /\ \A j \in DOMAIN Queue' : j > i => Queue'[j].op \notin ResumeOps \cup RequestOps
    <2>1. i + 1 \in DOMAIN Queue /\ Queue[i + 1].op \in ResumeOps /\ Queue'[i] = Queue[i + 1]
      BY <1>1, <1>3
    <2>2. ASSUME NEW j \in DOMAIN Queue', j > i
          PROVE  Queue'[j].op \notin ResumeOps \cup RequestOps
      <3>1. j + 1 \in DOMAIN Queue /\ j + 1 > i + 1 /\ Queue'[j] = Queue[j + 1]
        BY <1>1, <2>2
      <3> QED
        BY <2>1, <3>1 DEF OrderInv, ResumeInv
    <2> QED
      BY <2>1, <2>2 DEF OrderInv, ResumeInv
  <1>4. ResumeInv'
    BY <1>3 DEF OrderInv, ResumeInv, Held
  <1>5. sock' \notin {"resolving", "replying"} => RequestInv'
    BY <1>1 DEF OrderInv, RequestInv, Held, ShowsStopped, EditsBelongToStack
  <1> QED
    BY <1>2, <1>4, <1>5

\* The steps of the socket thread (bridge.rs, hook.rs): the one resume goes to
\* the gate when no request is left before it.
LEMMA SockStepOrder ==
  ASSUME TypeOK, WritesBacked, OrderInv, SockNext
  PROVE  OrderInv'
  <1>1. CASE Connect \/ ConnectFails \/ SeeEof \/ LeaveSession
    <2>1. sock' \notin {"resolving", "replying"}
      BY <1>1 DEF Connect, ConnectFails, SeeEof, LeaveSession
    <2>2. UNCHANGED <<vmVars, gate, written, cmds, evts, sendVars, sessionVars, editorVars>>
      BY <1>1 DEF Connect, ConnectFails, SeeEof, LeaveSession
    <2>3. Queue' = Queue /\ QueueInv'
      BY <2>2, QueueKept DEF OrderInv, QueueInv, sendVars
    <2>4. RequestInv'
      BY <2>1, <2>2, <2>3 DEF OrderInv, RequestInv, Held, ShowsStopped, EditsBelongToStack,
         vmVars, sessionVars, editorVars
    <2> QED
      BY <2>2, <2>3, <2>4, KeepOrder DEF OrderInv, vmVars, sendVars, sessionVars, editorVars
  <1>2. CASE SayHello
    <2> DEFINE e == [ev |-> "hello", arg |-> 0]
    <2>1. e \in Event /\ e.ev # "paused" /\ SendEvent(e)
      BY <1>2 DEF SayHello, Event
    <2> HIDE DEF e
    <2>2. UNCHANGED <<vmVars, gate, written, cmds, sendVars, sessionVars, editorVars>>
          /\ sock' = "serving"
      BY <1>2 DEF SayHello
    <2>3. Queue' = Queue /\ QueueInv'
      BY <2>2, QueueKept DEF OrderInv, QueueInv, sendVars
    <2>4. NewsInv'
      BY <2>1, <2>2, OtherEvent DEF vmVars, sessionVars, editorVars
    <2>5. RequestInv'
      BY <2>2, <2>3 DEF OrderInv, RequestInv, Held, ShowsStopped, EditsBelongToStack,
         vmVars, sessionVars, editorVars
    <2> QED
      BY <2>2, <2>3, <2>4, <2>5, KeepOrder DEF OrderInv, vmVars, sendVars, sessionVars, editorVars
  <1>3. CASE ApplySetting \/ ApplyConfigured
    <2>1. PICK ops : Take(ops)
      BY <1>3 DEF ApplySetting, ApplyConfigured
    <2>2. /\ UNCHANGED <<vmVars, gate, evts, sockVars, sendVars, sessionVars, editorVars>>
          /\ sock = "serving"
      BY <1>3 DEF ApplySetting, ApplyConfigured, Take
    <2>3. QueueInv' /\ ResumeInv' /\ RequestInv'
      BY <2>1, <2>2, TakeOrder DEF vmVars, sockVars, sendVars, sessionVars, editorVars
    <2> QED
      BY <2>2, <2>3, KeepOrder DEF OrderInv, vmVars, sessionVars, editorVars
  <1>4. CASE ApplyResume
    <2>1. /\ 1 \in DOMAIN Queue /\ Queue[1] = Head(cmds) /\ Queue[1].op \in ResumeOps
          /\ \A i \in DOMAIN Queue' :
                i \in Nat \ {0} /\ i + 1 \in DOMAIN Queue /\ Queue'[i] = Queue[i + 1]
      BY <1>4, QueueTaken DEF ApplyResume, TypeOK, sendVars
    <2>2. /\ UNCHANGED <<vmVars, evts, sockVars, sendVars, sessionVars, editorVars>>
          /\ sock = "serving" /\ gate' = Queue[1]
      BY <1>4, <2>1 DEF ApplyResume, Take
    <2>3. \A i \in DOMAIN Queue' : Queue'[i].op \notin ResumeOps \cup RequestOps
      BY <2>1 DEF OrderInv, ResumeInv
    <2>4. /\ Held /\ answered = pauses /\ gate'.arg = pauses
      BY <2>1, <2>2 DEF OrderInv, ResumeInv
    <2>5. QueueInv'
      BY <2>2 DEF OrderInv, QueueInv, sendVars
    <2>6. ResumeInv'
      BY <2>2, <2>3, <2>4 DEF ResumeInv, Held, vmVars, editorVars
    <2>7. RequestInv'
      BY <2>2, <2>3 DEF OrderInv, RequestInv, Held, ShowsStopped, EditsBelongToStack,
         vmVars, sockVars, sessionVars, editorVars
    <2> QED
      BY <2>2, <2>5, <2>6, <2>7, KeepOrder DEF OrderInv, vmVars, sessionVars, editorVars
  <1>5. CASE TakeRequest
    <2>1. /\ 1 \in DOMAIN Queue /\ Queue[1] = Head(cmds) /\ Queue[1].op \in RequestOps
          /\ \A i \in DOMAIN Queue' :
                i \in Nat \ {0} /\ i + 1 \in DOMAIN Queue /\ Queue'[i] = Queue[i + 1]
      BY <1>5, QueueTaken DEF TakeRequest, TypeOK, sendVars
    <2>2. /\ UNCHANGED <<vmVars, gate, written, evts, sendVars, sessionVars, editorVars>>
          /\ job'.arg = Queue[1].arg /\ Take(RequestOps)
      BY <1>5, <2>1 DEF TakeRequest
    <2>3. Held /\ stopped = pauses /\ gate = NoResume /\ job'.arg <= nextId
      BY <2>1, <2>2 DEF OrderInv, RequestInv
    <2>4. QueueInv' /\ ResumeInv'
      BY <2>2, TakeOrder DEF vmVars, sendVars, sessionVars, editorVars
    <2>5. RequestInv'
      BY <2>1, <2>2, <2>3 DEF OrderInv, RequestInv, Held, ShowsStopped, EditsBelongToStack,
         vmVars, sessionVars, editorVars
    <2> QED
      BY <2>2, <2>4, <2>5, KeepOrder DEF OrderInv, vmVars, sessionVars, editorVars
  <1>6. CASE AccessCell
    <2>1. /\ Held /\ stopped = pauses /\ gate = NoResume /\ job.arg <= nextId
          /\ job.arg \in Ids /\ frames = pauses
      <3>1. Held /\ stopped = pauses /\ gate = NoResume /\ job.arg <= nextId
        BY <1>6 DEF AccessCell, OrderInv, RequestInv
      <3>2. job.arg \in Ids /\ pauses \in Nat \ {0}
        BY <1>6 DEF AccessCell, TypeOK, SockTypeOK, VmTypeOK, WritesBacked, SockBacked
      <3> QED
        BY <3>1, <3>2 DEF OrderInv, CountInv
    <2>2. /\ UNCHANGED <<vmVars, gate, cmds, evts, sendVars, sessionVars, editorVars>>
          /\ sock' = "replying" /\ job'.arg = job.arg
      BY <1>6 DEF AccessCell, TypeOK, SockTypeOK
    <2>3. \A i \in Ids : written'[i] # written[i] => i = job.arg /\ written'[i] = pauses
      BY <1>6, <2>1 DEF AccessCell, TypeOK, SockTypeOK
    <2>4. Queue' = Queue /\ QueueInv'
      BY <2>2, QueueKept DEF OrderInv, QueueInv, sendVars
    <2>5. RequestInv'
      <3>1. asked # NotAsked => asked.arg \in Ids
        BY DEF TypeOK, SessionTypeOK
      <3>2. asked' # NotAsked => ShowsStopped' /\ written'[asked'.arg] \in {0, frames'}
        BY <2>1, <2>2, <2>3, <3>1 DEF OrderInv, RequestInv, ShowsStopped, sessionVars, editorVars
      <3>3. \A i \in Ids : written'[i] # 0 => i <= nextId'
        BY <2>1, <2>2, <2>3 DEF OrderInv, RequestInv, sessionVars
      <3>4. EditsBelongToStack'
        BY <2>1, <2>2, <2>3 DEF OrderInv, RequestInv, EditsBelongToStack, TypeOK, SessionTypeOK,
           sessionVars
      <3> QED
        BY <2>1, <2>2, <2>4, <3>2, <3>3, <3>4 DEF OrderInv, RequestInv, Held,
           vmVars, sessionVars, editorVars
    <2> QED
      BY <2>2, <2>4, <2>5, KeepOrder DEF OrderInv, vmVars, sendVars, sessionVars, editorVars
  <1>7. CASE AccessFails
    <2>1. UNCHANGED <<vmVars, gate, job, written, cmds, evts, sendVars, sessionVars, editorVars>>
          /\ sock = "resolving" /\ sock' = "replying"
      BY <1>7 DEF AccessFails
    <2>2. Queue' = Queue /\ QueueInv'
      BY <2>1, QueueKept DEF OrderInv, QueueInv, sendVars
    <2>3. RequestInv'
      BY <2>1, <2>2 DEF OrderInv, RequestInv, Held, ShowsStopped, EditsBelongToStack,
         vmVars, sessionVars, editorVars
    <2> QED
      BY <2>1, <2>2, <2>3, KeepOrder DEF OrderInv, vmVars, sendVars, sessionVars, editorVars
  <1>8. CASE SendReply
    <2> DEFINE e == [ev |-> ReplyEvent(job), arg |-> job.arg]
    <2>1. e \in Event /\ e.ev # "paused" /\ SendEvent(e)
      <3>1. job \in [op : RequestOps, arg : Ids, ok : BOOLEAN]
        BY <1>8 DEF SendReply, TypeOK, SockTypeOK
      <3> QED
        BY <1>8, <3>1 DEF SendReply, ReplyEvent, Event
    <2> HIDE DEF e
    <2>2. UNCHANGED <<vmVars, gate, written, cmds, sendVars, sessionVars, editorVars>>
          /\ sock' = "serving"
      BY <1>8 DEF SendReply
    <2>3. Queue' = Queue /\ QueueInv'
      BY <2>2, QueueKept DEF OrderInv, QueueInv, sendVars
    <2>4. NewsInv'
      BY <2>1, <2>2, OtherEvent DEF vmVars, sessionVars, editorVars
    <2>5. RequestInv'
      BY <2>2, <2>3 DEF OrderInv, RequestInv, Held, ShowsStopped, EditsBelongToStack,
         vmVars, sessionVars, editorVars
    <2> QED
      BY <2>2, <2>3, <2>4, <2>5, KeepOrder DEF OrderInv, vmVars, sendVars, sessionVars, editorVars
  <1> QED
    BY <1>1, <1>2, <1>3, <1>4, <1>5, <1>6, <1>7, <1>8 DEF SockNext

\* The session sends what is neither a resume nor a request.
LEMMA SendOther ==
  ASSUME TypeOK, OrderInv, NEW batch \in Seq(Command), SendCommands(batch),
         \A i \in 1..Len(batch) : batch[i].op \notin ResumeOps \cup RequestOps,
         UNCHANGED <<vmVars, gate, sockVars, evts, attached, sessionVars, stopped, answered>>
  PROVE  OrderInv'
  <1>1. /\ DOMAIN Queue' = 1..(Len(Queue) + Len(batch))
        /\ DOMAIN Queue = 1..Len(Queue) /\ Len(Queue) \in Nat
        /\ \A i \in DOMAIN Queue : i \in DOMAIN Queue' /\ Queue'[i] = Queue[i]
        /\ \A i \in DOMAIN Queue' : i \notin DOMAIN Queue =>
              i > Len(Queue) /\ Queue'[i] = batch[i - Len(Queue)]
    BY QueueSent DEF OrderInv, TypeOK
  <1>2. Len(batch) \in Nat
    OBVIOUS
  <1>3. \A i \in DOMAIN Queue' : Queue'[i].op \in ResumeOps \cup RequestOps =>
          i \in DOMAIN Queue /\ Queue'[i] = Queue[i]
    <2> SUFFICES ASSUME NEW i \in DOMAIN Queue', i \notin DOMAIN Queue
        PROVE  Queue'[i].op \notin ResumeOps \cup RequestOps
      BY <1>1
    <2>1. i - Len(Queue) \in 1..Len(batch)
      BY <1>1, <1>2
    <2> QED
      BY <1>1, <2>1
  <1>4. QueueInv'
    BY DEF OrderInv, QueueInv, SendCommands
  <1>5. ResumeInv'
    BY <1>3 DEF OrderInv, ResumeInv, Held, vmVars
  <1>6. RequestInv'
    BY <1>3 DEF OrderInv, RequestInv, Held, ShowsStopped, EditsBelongToStack,
       vmVars, sockVars, sessionVars
  <1> QED
    BY <1>4, <1>5, <1>6, KeepOrder DEF OrderInv, vmVars, sessionVars

\* A command of one place at the end of the queue.
LEMMA SendOne ==
  ASSUME TypeOK, QueueInv, NEW c \in Command, SendCommands(<<c>>)
  PROVE  \E n : /\ n \in DOMAIN Queue' /\ Queue'[n] = c
                /\ \A i \in DOMAIN Queue' :
                     \/ i \in DOMAIN Queue /\ Queue'[i] = Queue[i]
                     \/ i = n
                /\ \A i \in DOMAIN Queue' : ~(i > n)
  <1> DEFINE b == <<c>>
  <1>1. b \in Seq(Command) /\ Len(b) = 1 /\ b[1] = c
    OBVIOUS
  <1>2. /\ DOMAIN Queue' = 1..(Len(Queue) + Len(b))
        /\ DOMAIN Queue = 1..Len(Queue) /\ Len(Queue) \in Nat
        /\ \A i \in DOMAIN Queue : i \in DOMAIN Queue' /\ Queue'[i] = Queue[i]
        /\ \A i \in DOMAIN Queue' : i \notin DOMAIN Queue =>
              i > Len(Queue) /\ Queue'[i] = b[i - Len(Queue)]
    <2> HIDE DEF b
    <2>1. SendCommands(b)
      BY DEF b
    <2> QED
      BY <1>1, <2>1, QueueSent DEF TypeOK
  <1> HIDE DEF b
  <1> DEFINE n == Len(Queue) + 1
  <1>3. n \in DOMAIN Queue' /\ n \notin DOMAIN Queue /\ n - Len(Queue) = 1
    BY <1>1, <1>2
  <1>4. Queue'[n] = c
    BY <1>1, <1>2, <1>3
  <1>5. \A i \in DOMAIN Queue' : (i \in DOMAIN Queue \/ i = n) /\ ~(i > n)
    BY <1>1, <1>2
  <1> QED
    BY <1>2, <1>3, <1>4, <1>5

\* While the editor shows the stop, the gate is closed and no resume is sent.
LEMMA Shown ==
  ASSUME TypeOK, OrderInv, ShowsStopped
  PROVE  /\ Held /\ stopped = pauses /\ frames = pauses /\ answered # pauses
         /\ gate = NoResume /\ reader = 0
         /\ \A i \in DOMAIN Queue : Queue[i].op \notin ResumeOps
         /\ \A i \in DOMAIN evts : evts[i].ev # "paused"
  <1>1. Held /\ stopped = pauses /\ answered < pauses /\ pauses \in Nat /\ answered \in Nat
    BY DEF OrderInv, NewsInv, ShowsStopped, TypeOK, VmTypeOK, EditorTypeOK
  <1> QED
    BY <1>1 DEF OrderInv, CountInv, NewsInv, ResumeInv

\* The steps of the session (lib.rs, plugin.rs): with an editor that resumes
\* and edits only what it shows stopped, once.
LEMMA SessionStepOrder ==
  ASSUME PoliteEditor, TypeOK, WritesBacked, OrderInv, SessionNext
  PROVE  OrderInv'
  <1>1. CASE Attach
    <2>1. /\ cmds' = cmds \o pending /\ pending' = <<>>
          /\ cmds \o pending \in Seq(Command)
      BY <1>1, ConcatProperties DEF Attach, TypeOK, LinkTypeOK
    <2>2. Queue' = Queue /\ QueueInv'
      BY <2>1, ConcatEmptySeq DEF Queue, QueueInv
    <2>3. UNCHANGED <<vmVars, gate, sockVars, evts, sessionVars, editorVars>>
      BY <1>1 DEF Attach
    <2>4. ResumeInv' /\ RequestInv'
      BY <2>2, <2>3 DEF OrderInv, ResumeInv, RequestInv, Held, ShowsStopped, EditsBelongToStack,
         vmVars, sockVars, sessionVars, editorVars
    <2> QED
      BY <2>2, <2>3, <2>4, KeepOrder DEF OrderInv, vmVars, sessionVars, editorVars
  <1>2. CASE ConfigurationDone
    <2> DEFINE b == <<[op |-> "setBreakpoints", arg |-> 1], [op |-> "configured", arg |-> 0]>>
    <2>1. b \in Seq(Command) /\ SendCommands(b)
      BY <1>2, Batches DEF ConfigurationDone
    <2>2. \A i \in 1..Len(b) : b[i].op \notin ResumeOps \cup RequestOps
      BY DEF ResumeOps, RequestOps
    <2> HIDE DEF b
    <2> QED
      BY <1>2, <2>1, <2>2, SendOther DEF ConfigurationDone
  <1>3. CASE ChangeSetting
    <2>1. PICK op \in SettingOps, v \in {0, 1} : SendCommands(<<[op |-> op, arg |-> v]>>)
      BY <1>3 DEF ChangeSetting
    <2>2. op \in SettingOps /\ v \in Nat
      OBVIOUS
    <2> DEFINE b == <<[op |-> op, arg |-> v]>>
    <2>3. b \in Seq(Command) /\ SendCommands(b)
      BY <2>1, <2>2, Batches
    <2>4. \A i \in 1..Len(b) : b[i].op \notin ResumeOps \cup RequestOps
      BY <2>2 DEF SettingOps, ResumeOps, RequestOps
    <2> HIDE DEF b
    <2> QED
      BY <1>3, <2>3, <2>4, SendOther DEF ChangeSetting
  <1>4. CASE Resume
    <2>1. PICK op \in ResumeOps : SendCommands(<<[op |-> op, arg |-> stopped]>>)
      BY <1>4 DEF Resume
    <2> DEFINE c == [op |-> op, arg |-> stopped]
    <2>2. c \in Command /\ c.op \in ResumeOps /\ c.op \notin RequestOps /\ c.arg = stopped
      BY DEF Command, PlainOps, ResumeOps, RequestOps, TypeOK, EditorTypeOK
    <2> HIDE DEF c
    <2>3. PICK n : /\ n \in DOMAIN Queue' /\ Queue'[n] = c
                   /\ \A i \in DOMAIN Queue' :
                        \/ i \in DOMAIN Queue /\ Queue'[i] = Queue[i]
                        \/ i = n
                   /\ \A i \in DOMAIN Queue' : ~(i > n)
      BY <2>1, <2>2, SendOne DEF OrderInv, c
    <2>4. /\ Held /\ stopped = pauses /\ frames = pauses /\ gate = NoResume /\ asked = NotAsked
          /\ reader = 0
          /\ \A i \in DOMAIN Queue : Queue[i].op \notin ResumeOps
          /\ \A i \in DOMAIN evts : evts[i].ev # "paused"
      BY <1>4, Shown DEF Resume, Idle
    <2>5. /\ UNCHANGED <<vmVars, gate, sockVars, evts, attached, sessionVars, stopped>>
          /\ answered' = stopped
      BY <1>4 DEF Resume
    <2>6. QueueInv'
      BY <1>4 DEF Resume, SendCommands, OrderInv, QueueInv
    <2>7. CountInv'
      BY <2>5 DEF OrderInv, CountInv, vmVars, sessionVars, TypeOK, EditorTypeOK
    <2>8. NewsInv'
      BY <2>4, <2>5 DEF NewsInv, ShowsStopped, vmVars, sessionVars, TypeOK, EditorTypeOK
    <2>9. ResumeInv'
      BY <2>2, <2>3, <2>4, <2>5 DEF OrderInv, ResumeInv, Held, vmVars
    <2>10. RequestInv'
      BY <2>2, <2>3, <2>4, <2>5 DEF OrderInv, RequestInv, Held, ShowsStopped, EditsBelongToStack,
         vmVars, sockVars, sessionVars
    <2> QED
      BY <2>6, <2>7, <2>8, <2>9, <2>10 DEF OrderInv
  <1>5. CASE Request
    <2>1. PICK op \in RequestOps :
            asked' = [op |-> op, arg |-> nextId + 1] /\ SendCommands(<<[op |-> op, arg |-> nextId + 1]>>)
      BY <1>5 DEF Request
    <2>2. nextId + 1 \in Ids /\ nextId \in Nat
      BY <1>5, PauseAssumption DEF Request, Ids, TypeOK, SessionTypeOK
    <2> DEFINE c == [op |-> op, arg |-> nextId + 1]
    <2>3. c \in Command /\ c.op \in RequestOps /\ c.op \notin ResumeOps /\ c.arg = nextId + 1
          /\ asked' = c
      BY <2>1, <2>2 DEF Command, ResumeOps, RequestOps
    <2> HIDE DEF c
    <2>4. PICK n : /\ n \in DOMAIN Queue' /\ Queue'[n] = c
                   /\ \A i \in DOMAIN Queue' :
                        \/ i \in DOMAIN Queue /\ Queue'[i] = Queue[i]
                        \/ i = n
                   /\ \A i \in DOMAIN Queue' : ~(i > n)
      BY <2>1, <2>3, SendOne DEF OrderInv, c
    <2>5. /\ ShowsStopped /\ Held /\ stopped = pauses /\ gate = NoResume
          /\ \A i \in DOMAIN Queue : Queue[i].op \notin ResumeOps
      BY <1>5, Shown DEF Request
    <2>6. /\ UNCHANGED <<vmVars, gate, sockVars, evts, attached, edits, frames, reader, editorVars>>
          /\ nextId' = nextId + 1
      BY <1>5 DEF Request
    <2>7. QueueInv'
      BY <1>5 DEF Request, SendCommands, OrderInv, QueueInv
    <2>8. ResumeInv'
      BY <2>3, <2>4, <2>5, <2>6 DEF OrderInv, ResumeInv, Held, vmVars, editorVars
    <2>9. RequestInv'
      <3>1. \A i \in DOMAIN Queue : Queue[i] \in Command
        BY QueueType DEF TypeOK
      <3>2. \A i \in DOMAIN Queue' : Queue'[i].op \in RequestOps =>
              Held' /\ stopped' = pauses' /\ gate' = NoResume /\ Queue'[i].arg <= nextId'
        <4> SUFFICES ASSUME NEW i \in DOMAIN Queue', Queue'[i].op \in RequestOps
            PROVE  Queue'[i].arg <= nextId'
          BY <2>5, <2>6 DEF Held, vmVars, editorVars
        <4>1. CASE i = n
          BY <2>2, <2>3, <2>4, <2>6, <4>1
        <4>2. CASE i \in DOMAIN Queue /\ Queue'[i] = Queue[i]
          <5>1. Queue[i].arg <= nextId
            BY <4>2 DEF OrderInv, RequestInv
          <5>2. Queue[i].arg \in Nat
            BY <3>1, <4>2, PauseAssumption DEF Command, Ids
          <5> QED
            BY <2>2, <2>6, <4>2, <5>1, <5>2
        <4> QED
          BY <2>4, <4>1, <4>2
      <3>3. sock' \in {"resolving", "replying"} =>
              Held' /\ stopped' = pauses' /\ gate' = NoResume /\ job'.arg <= nextId'
        <4> SUFFICES ASSUME sock \in {"resolving", "replying"}
            PROVE  job'.arg <= nextId'
          BY <2>5, <2>6 DEF Held, vmVars, editorVars, sockVars
        <4>1. job.arg <= nextId
          BY DEF OrderInv, RequestInv
        <4>2. job.arg \in Nat
          BY PauseAssumption DEF TypeOK, SockTypeOK, Ids, NoJob
        <4> QED
          BY <2>2, <2>6, <4>1, <4>2 DEF sockVars
      <3>4. written[nextId + 1] = 0
        BY <2>2 DEF OrderInv, RequestInv
      <3>5. \A i \in Ids : written'[i] # 0 => i <= nextId'
        BY <2>2, <2>6, PauseAssumption DEF OrderInv, RequestInv, sockVars, Ids
      <3> QED
        BY <2>3, <2>5, <2>6, <3>2, <3>3, <3>4, <3>5
           DEF OrderInv, RequestInv, ShowsStopped, EditsBelongToStack, sockVars, editorVars
    <2> QED
      BY <2>6, <2>7, <2>8, <2>9, KeepOrder DEF OrderInv, vmVars, editorVars
  <1>6. CASE RequestAnswered
    <2>1. /\ UNCHANGED <<vmVars, gate, sockVars, cmds, evts, sendVars, nextId, frames, reader,
                         editorVars>>
          /\ asked' = NotAsked
          /\ edits' \subseteq edits \cup (IF reply = "written" THEN {asked.arg} ELSE {})
      BY <1>6 DEF RequestAnswered
    <2>2. Queue' = Queue /\ QueueInv'
      BY <2>1, QueueKept DEF OrderInv, QueueInv, sendVars
    <2>3. reply = "written" => written[asked.arg] = frames
      BY <1>6 DEF RequestAnswered, OrderInv, RequestInv, WritesBacked, SessionBacked
    <2>4. RequestInv'
      BY <2>1, <2>2, <2>3 DEF OrderInv, RequestInv, Held, ShowsStopped, EditsBelongToStack,
         vmVars, sockVars, editorVars
    <2> QED
      BY <2>1, <2>2, <2>4, KeepOrder DEF OrderInv, vmVars, sendVars, editorVars
  <1>7. CASE RequestTimeout
    <2>1. /\ UNCHANGED <<vmVars, gate, sockVars, cmds, evts, sendVars, nextId, edits, frames,
                         reader, editorVars>>
          /\ asked' = NotAsked
      BY <1>7 DEF RequestTimeout
    <2>2. Queue' = Queue /\ QueueInv'
      BY <2>1, QueueKept DEF OrderInv, QueueInv, sendVars
    <2>3. RequestInv'
      BY <2>1, <2>2 DEF OrderInv, RequestInv, Held, ShowsStopped, EditsBelongToStack,
         vmVars, sockVars, editorVars
    <2> QED
      BY <2>1, <2>2, <2>3, KeepOrder DEF OrderInv, vmVars, sendVars, editorVars
  <1>8. CASE SessionDies
    <2>1. \A i \in DOMAIN Queue' : i \in DOMAIN Queue /\ Queue'[i] = Queue[i]
      BY <1>8, QueueCut DEF TypeOK
    <2>2. /\ UNCHANGED <<vmVars, gate, sockVars, evts, attached, asked, nextId, edits, frames,
                         reader, editorVars>>
          /\ pending' = <<>>
      BY <1>8 DEF SessionDies
    <2>3. QueueInv'
      BY <2>2 DEF QueueInv
    <2>4. ResumeInv'
      BY <2>1, <2>2 DEF OrderInv, ResumeInv, Held, vmVars, editorVars
    <2>5. RequestInv'
      BY <2>1, <2>2 DEF OrderInv, RequestInv, Held, ShowsStopped, EditsBelongToStack,
         vmVars, sockVars, editorVars
    <2> QED
      BY <2>2, <2>3, <2>4, <2>5, KeepOrder DEF OrderInv, vmVars, editorVars
  <1>9. CASE ReceiveHello \/ ReceiveReply
    <2>1. PICK evs : Receive(evs)
      BY <1>9 DEF ReceiveHello, ReceiveReply
    <2>2. UNCHANGED <<vmVars, gate, sockVars, cmds, sendVars, asked, nextId, edits, frames,
                      reader, editorVars>>
      BY <1>9 DEF ReceiveHello, ReceiveReply, sessionVars
    <2>3. NewsInv'
      <3>1. \A i \in DOMAIN evts' :
              i \in Nat \ {0} /\ i + 1 \in DOMAIN evts /\ evts'[i] = evts[i + 1]
        BY <2>1, EventTaken DEF TypeOK
      <3> QED
        BY <2>2, <3>1 DEF OrderInv, NewsInv, Held, ShowsStopped, vmVars, editorVars
    <2>4. QueueInv'
      BY <2>2 DEF OrderInv, QueueInv, sendVars
    <2> QED
      BY <2>2, <2>3, <2>4, KeepOrder DEF OrderInv, vmVars, sockVars, sendVars, editorVars
  <1>10. CASE ReceivePaused
    <2>1. /\ 1 \in DOMAIN evts /\ evts[1] = Head(evts) /\ evts[1].ev = "paused"
          /\ \A i \in DOMAIN evts' :
                i \in Nat \ {0} /\ i + 1 \in DOMAIN evts /\ evts'[i] = evts[i + 1]
      BY <1>10, EventTaken DEF ReceivePaused, TypeOK
    <2>2. /\ UNCHANGED <<vmVars, gate, sockVars, cmds, sendVars, asked, nextId, editorVars>>
          /\ frames' = evts[1].arg /\ edits' = {} /\ reader' = evts[1].arg
      BY <1>10, <2>1 DEF ReceivePaused
    <2>3. Held /\ evts[1].arg = pauses /\ stopped < pauses
      BY <2>1 DEF OrderInv, NewsInv
    <2>4. ~ShowsStopped /\ asked = NotAsked
      BY <2>3 DEF OrderInv, NewsInv, RequestInv, TypeOK, VmTypeOK
    <2>5. \A i \in DOMAIN evts' : evts'[i].ev # "paused"
      <3> SUFFICES ASSUME NEW i \in DOMAIN evts', evts'[i].ev = "paused" PROVE FALSE
        OBVIOUS
      <3>1. i + 1 = 1
        BY <2>1 DEF OrderInv, NewsInv
      <3> QED
        BY <2>1, <3>1
    <2>6. Queue' = Queue /\ QueueInv'
      BY <2>2, QueueKept DEF OrderInv, QueueInv, sendVars
    <2>7. CountInv'
      BY <2>2, <2>3 DEF OrderInv, CountInv, vmVars, editorVars
    <2>8. NewsInv'
      BY <2>2, <2>3, <2>4, <2>5 DEF NewsInv, Held, ShowsStopped, vmVars, editorVars
    <2>9. RequestInv'
      BY <2>2, <2>4, <2>6 DEF OrderInv, RequestInv, Held, EditsBelongToStack,
         vmVars, sockVars, editorVars
    <2> QED
      BY <2>2, <2>6, <2>7, <2>8, <2>9, KeepOrder DEF OrderInv, vmVars, sendVars, editorVars
  <1>11. CASE TellStopped
    <2>1. /\ UNCHANGED <<vmVars, gate, sockVars, cmds, evts, sendVars, asked, nextId, edits, frames,
                         answered>>
          /\ stopped' = reader /\ reader' = 0 /\ reader # 0
      BY <1>11 DEF TellStopped
    <2>2. /\ Held /\ reader = pauses /\ frames = pauses /\ stopped < pauses
          /\ \A i \in DOMAIN evts : evts[i].ev # "paused"
      BY <2>1 DEF OrderInv, NewsInv
    <2>3. ~ShowsStopped /\ asked = NotAsked
      BY <2>2 DEF OrderInv, NewsInv, RequestInv, TypeOK, VmTypeOK
    <2>4. /\ stopped \in Nat /\ pauses \in Nat /\ answered \in Nat /\ answered <= stopped
      BY DEF OrderInv, CountInv, TypeOK, VmTypeOK, EditorTypeOK
    <2>5. Queue' = Queue /\ QueueInv'
      BY <2>1, QueueKept DEF OrderInv, QueueInv, sendVars
    <2>6. CountInv'
      BY <2>1, <2>2, <2>4 DEF CountInv, Held, vmVars
    <2>7. NewsInv'
      BY <2>1, <2>2 DEF NewsInv, Held, ShowsStopped, vmVars
    <2>8. RequestInv'
      BY <2>1, <2>2, <2>3, <2>4, <2>5 DEF OrderInv, RequestInv, Held, EditsBelongToStack,
         vmVars, sockVars
    <2> QED
      BY <2>1, <2>5, <2>6, <2>7, <2>8, KeepOrder DEF OrderInv, vmVars, sendVars
  <1> QED
    BY <1>1, <1>2, <1>3, <1>4, <1>5, <1>6, <1>7, <1>8, <1>9, <1>10, <1>11 DEF SessionNext

\* Every pause of a polite editor is announced once, resumed once and edited
\* only while it lasts: the inductive invariant.
THEOREM OrderInvCorrect == ASSUME PoliteEditor PROVE Spec => []OrderInv
  <1>1. TypeOK /\ WritesBacked /\ OrderInv /\ [Next]_vars => OrderInv'
    <2>1. OrderInv /\ UNCHANGED vars => OrderInv'
      BY KeepOrder DEF OrderInv, QueueInv, vars, vmVars, sockVars, sendVars, sessionVars, editorVars
    <2> QED
      BY <2>1, VmStepOrder, SockStepOrder, SessionStepOrder DEF Next
  <1> QED
    BY InitOrder, <1>1, TypeCorrect, WritesAlwaysBacked, PTL DEF Spec

\* The VM leaves a pause by the request made for it, never by an old one.
THEOREM OwnResumeCorrect == ASSUME PoliteEditor PROVE Spec => []OwnResume
  <1>1. OrderInv => OwnResume
    BY DEF OrderInv, ResumeInv, OwnResume
  <1> QED
    BY OrderInvCorrect, <1>1, PTL

\* What the cached stack shows as edited was stored during its own pause.
THEOREM EditsCorrect == ASSUME PoliteEditor PROVE Spec => []EditsBelongToStack
  <1>1. OrderInv => EditsBelongToStack
    BY DEF OrderInv, RequestInv
  <1> QED
    BY OrderInvCorrect, <1>1, PTL

\* While the editor shows a stop, the cached stack is that of the stop.
THEOREM StackCorrect == ASSUME PoliteEditor PROVE Spec => []StackOfTheStop
  <1>1. TypeOK /\ OrderInv => StackOfTheStop
    BY Shown DEF StackOfTheStop
  <1> QED
    BY TypeCorrect, OrderInvCorrect, <1>1, PTL

\* A cell is stored only while the VM is held in the pause the editor sees,
\* though the lock of its context was released before.
THEOREM StoredWhileParkedCorrect == ASSUME PoliteEditor PROVE Spec => StoredWhileParked
  <1> DEFINE Step == written' # written => vm \in {"announced", "parked"} /\ stopped = pauses
  <1>1. TypeOK /\ OrderInv /\ [Next]_vars => [Step]_vars
    <2> SUFFICES ASSUME OrderInv, [Next]_vars, written' # written
        PROVE  vm \in {"announced", "parked"} /\ stopped = pauses
      OBVIOUS
    <2>1. ~UNCHANGED vars
      BY DEF vars, sockVars
    <2>2. ~VmNext
      BY DEF VmNext, LoadProgram, UnloadProgram, Configured, ConfigTimeout, Break, PublishContext,
         AnnouncePause, EnterGate, LeaveGate, ClearContext, ResumeController, sockVars
    <2>3. ~SessionNext
      BY DEF SessionNext, Attach, ConfigurationDone, ChangeSetting, Resume, Request,
         RequestAnswered, RequestTimeout, SessionDies, ReceiveHello, ReceivePaused,
         TellStopped, ReceiveReply, sockVars
    <2>4. AccessCell
      BY <2>1, <2>2, <2>3 DEF Next, SockNext, Connect, ConnectFails, SayHello, ApplySetting,
         ApplyResume, ApplyConfigured, TakeRequest, AccessFails, SendReply, SeeEof, LeaveSession,
         sockVars
    <2> QED
      BY <2>4 DEF AccessCell, OrderInv, RequestInv, Held
  <1> QED
    BY <1>1, TypeCorrect, OrderInvCorrect, PTL DEF Spec, StoredWhileParked
=============================================================================
