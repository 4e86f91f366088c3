------------------------- MODULE DebugSession_proofs ------------------------
(***************************************************************************)
(* Theorems about a debug session, for any number of servers, builds,      *)
(* changes of breakpoints and crashes.                                     *)
(*                                                                         *)
(* The safety of the servers rests on what Running holds before each step  *)
(* (RunInv), which holds because the steps left are always an end of one   *)
(* of a few lists (PlanInv).  That of the breakpoints rests on the build   *)
(* the map in hand describes (MapInv) and on what is on its way (SentInv,  *)
(* LatestInv).                                                             *)
(***************************************************************************)
EXTENDS DebugSession, SequenceTheorems, TLAPS

\* The steps that find Running whole, and the end of the list.
Idle == {"breakpoints", "configured", "tellEnd", "retire", "idle"}

\* The steps that may come after a step, and "idle" when none does.
After(kind) ==
  CASE kind = "retire"      -> {"kill"}
    [] kind = "kill"        -> {"release"}
    [] kind = "release"     -> {"clear", "end", "tellEnd", "idle"}
    [] kind = "clear"       -> {"reserve"}
    [] kind = "reserve"     -> {"spawn"}
    [] kind = "spawn"       -> {"breakpoints", "idle"}
    [] kind = "breakpoints" -> {"configured", "idle"}
    [] kind = "configured"  -> {"idle"}
    [] kind = "tellEnd"     -> {"retire", "idle"}
    [] kind = "end"         -> {"idle"}

\* The step at a place of a list.
DoIn(s, i) == IF i \in DOMAIN s THEN s[i].do ELSE "idle"
DoAt(i)    == DoIn(todo, i)

\* An end of one of the lists the requests make: a server is reserved and
\* spawned once, and no breakpoints are sent before.
IsPlan(s) ==
  /\ \A i \in DOMAIN s : DoIn(s, i + 1) \in After(s[i].do)
  /\ \A i, j \in DOMAIN s :
       i < j => /\ s[j].do = "reserve" => s[i].do # "reserve"
                /\ s[j].do = "spawn" => s[i].do \notin {"spawn", "breakpoints"}

Has(kind) == \E i \in DOMAIN todo : todo[i].do = kind

PlanInv == IsPlan(todo) /\ (Has("reserve") => lastId < MaxServers)

\* What Running holds before each step: its fields go one by one, in order,
\* and come back together.
RunInv ==
  /\ DoAt(1) \in Idle => client = child /\ child = registration
  /\ DoAt(1) = "kill" => client = 0 /\ child = registration
  /\ DoAt(1) = "release" => client = 0 /\ child = 0
  /\ DoAt(1) \in {"clear", "reserve", "spawn", "end"}
       => client = 0 /\ child = 0 /\ registration = 0
  /\ phase = "ended" => todo = <<>> /\ client = 0
  /\ registry \subseteq IF DoAt(1) = "spawn" THEN {lastId} ELSE {registration}
  /\ DoAt(1) = "spawn" => lastId \in Servers /\ server[lastId] = "none"

\* Only the server of the moment is up and may speak unretired; whoever went
\* down died or had been retired.
ServerInv ==
  \A g \in Servers :
    /\ server[g] # "none" => g <= lastId
    /\ server[g] = "none" => g # client /\ conn[g] = "none" /\ ~retired[g] /\ late[g] = 0
                             /\ installed[g] = NoneInstalled /\ chan[g] = <<>>
    /\ server[g] = "up" => g = child
    /\ server[g] = "down" => crashed[g] \/ retired[g]
    /\ conn[g] \notin {"none", "gone"} => g = client \/ retired[g]
    /\ g = child => g = client \/ retired[g]
    /\ conn[g] = "reporting" => crashed[g]
    /\ late[g] <= 1
    /\ late[g] > 0 => retired[g] /\ conn[g] \in {"reading", "gone"}

\* Who the editor was told of died by itself.
ToldInv == \A g \in endTold \ {0} : crashed[g]

\* Of the servers ever started one is the newest.
Started   == {g \in Servers : server[g] # "none"} \cup {0}
NewestInv == \E m \in Started : \A g \in Started : m >= g

\* Line breakpoints of a build, if any, or asked for before the launch; nothing
\* sent after place i replaces them.
Right(bps, g, b, last) ==
  bps.line = NoBps \/ bps.line.build = b \/ (g = 1 /\ bps.line.req \in 1..last)
NoMore(s, i)  == \A j \in DOMAIN s : j > i => s[j].do # "breakpoints"

\* The newest server: reserved, or about to be.
Coming == IF Has("reserve") THEN lastId + 1 ELSE lastId

\* The line breakpoints in hand were asked for before the launch, and not
\* resolved since.
Unresolved == Coming = 1 /\ reqLine \in 1..early

\* The other breakpoints asked for are resolved against the map in hand, which is
\* of the build the server loaded, or of the one the next server will load.
MapInv ==
  /\ client # 0 => launched
  /\ Has("spawn") => launched
  /\ IF launched THEN Coming >= 1 ELSE Coming = 0
  /\ lineBps # NoBps => lineBps.req = reqLine /\ reqLine # 0
  /\ launched => Unresolved \/ lineBps = Bps(reqLine, dbg)
  /\ \A i \in DOMAIN todo : todo[i].do = "breakpoints" => todo[i].bps.line = lineBps
  /\ Has("spawn") => dbg \in {0, build}
  /\ client # 0 /\ ~Has("spawn") => dbg \in {0, loaded[client]}
  /\ Has("spawn") => Has("breakpoints") \/ reqLine = 0 \/ Unresolved

\* So is what is installed, and what is on its way.
SentInv ==
  \A g \in Servers :
    /\ Right(installed[g], g, loaded[g], early)
    /\ \A i \in DOMAIN chan[g] :
         chan[g][i].do = "breakpoints" => Right(chan[g][i].bps, g, loaded[g], early)

\* When all is sent, the last set on its way to the server of the moment, or
\* else the one installed, is the one in hand.
LatestInv ==
  client # 0 /\ server[client] = "up" /\ ~AskedBefore(client, reqLine)
  /\ ~Has("spawn") /\ ~Has("breakpoints") =>
    /\ NoMore(chan[client], 0) => installed[client].line = lineBps
    /\ \A i \in DOMAIN chan[client] :
         chan[client][i].do = "breakpoints" /\ NoMore(chan[client], i)
           => chan[client][i].bps.line = lineBps

-----------------------------------------------------------------------------
(***************************************************************************)
(* Types.                                                                  *)
(***************************************************************************)

\* What the steps of the main thread are made of.
LEMMA StepTypes ==
  /\ NoBps \in BpSet /\ NoneInstalled \in AllBps
  /\ \A kind \in StepKinds : Step(kind) \in StepSet
  /\ \A l, f \in BpSet : SendBps(l, f) \in StepSet
  /\ \A r \in 0..MaxChanges, b \in 0..MaxBuilds : Bps(r, b) \in BpSet
  BY SessionAssumption
     DEF NoBps, NoneInstalled, BpSet, AllBps, Step, StepKinds, StepSet, SendBps, Bps

\* Joining two lists is writing one after the other.
LEMMA Joined ==
  /\ \A a, b, c : <<a, b, c>> \o <<>> = <<a, b, c>>
  /\ \A a, b, c, d : <<a, b, c>> \o <<d>> = <<a, b, c, d>>
  /\ \A a, b, c, d, e, f : <<a, b, c>> \o <<d, e, f>> = <<a, b, c, d, e, f>>
  /\ \A a, b, c : <<>> \o <<a, b, c>> = <<a, b, c>>
  /\ \A a, b, c, d : <<a>> \o <<b, c, d>> = <<a, b, c, d>>
  /\ \A a, b, c, d, e : <<a, b, c, d>> \o <<e>> = <<a, b, c, d, e>>
  <1>1. ASSUME NEW a, NEW b, NEW c
        PROVE  <<a, b, c>> \o <<>> = <<a, b, c>>
    <2> DEFINE S == {a, b, c}
               s == <<a, b, c>> \o <<>>
    <2>1. <<a, b, c>> \in Seq(S) /\ <<>> \in Seq(S) /\ <<a, b, c>> \in Seq(S)
      OBVIOUS
    <2>2. s \in Seq(S) /\ Len(s) = 3
      BY <2>1, ConcatProperties
    <2>3. \A i \in 1..3 : s[i] = <<a, b, c>>[i]
      BY <2>1
    <2> QED
      BY <2>1, <2>2, <2>3, SeqEqual
  <1>2. ASSUME NEW a, NEW b, NEW c, NEW d
        PROVE  <<a, b, c>> \o <<d>> = <<a, b, c, d>>
    <2> DEFINE S == {a, b, c, d}
               s == <<a, b, c>> \o <<d>>
    <2>1. <<a, b, c>> \in Seq(S) /\ <<d>> \in Seq(S) /\ <<a, b, c, d>> \in Seq(S)
      OBVIOUS
    <2>2. s \in Seq(S) /\ Len(s) = 4
      BY <2>1, ConcatProperties
    <2>3. \A i \in 1..4 : s[i] = <<a, b, c, d>>[i]
      BY <2>1
    <2> QED
      BY <2>1, <2>2, <2>3, SeqEqual
  <1>3. ASSUME NEW a, NEW b, NEW c, NEW d, NEW e, NEW f
        PROVE  <<a, b, c>> \o <<d, e, f>> = <<a, b, c, d, e, f>>
    <2> DEFINE S == {a, b, c, d, e, f}
               s == <<a, b, c>> \o <<d, e, f>>
    <2>1. <<a, b, c>> \in Seq(S) /\ <<d, e, f>> \in Seq(S) /\ <<a, b, c, d, e, f>> \in Seq(S)
      OBVIOUS
    <2>2. s \in Seq(S) /\ Len(s) = 6
      BY <2>1, ConcatProperties
    <2>3. \A i \in 1..6 : s[i] = <<a, b, c, d, e, f>>[i]
      BY <2>1
    <2> QED
      BY <2>1, <2>2, <2>3, SeqEqual
  <1>4. ASSUME NEW a, NEW b, NEW c
        PROVE  <<>> \o <<a, b, c>> = <<a, b, c>>
    <2> DEFINE S == {a, b, c}
               s == <<>> \o <<a, b, c>>
    <2>1. <<>> \in Seq(S) /\ <<a, b, c>> \in Seq(S) /\ <<a, b, c>> \in Seq(S)
      OBVIOUS
    <2>2. s \in Seq(S) /\ Len(s) = 3
      BY <2>1, ConcatProperties
    <2>3. \A i \in 1..3 : s[i] = <<a, b, c>>[i]
      BY <2>1
    <2> QED
      BY <2>1, <2>2, <2>3, SeqEqual
  <1>5. ASSUME NEW a, NEW b, NEW c, NEW d
        PROVE  <<a>> \o <<b, c, d>> = <<a, b, c, d>>
    <2> DEFINE S == {a, b, c, d}
               s == <<a>> \o <<b, c, d>>
    <2>1. <<a>> \in Seq(S) /\ <<b, c, d>> \in Seq(S) /\ <<a, b, c, d>> \in Seq(S)
      OBVIOUS
    <2>2. s \in Seq(S) /\ Len(s) = 4
      BY <2>1, ConcatProperties
    <2>3. \A i \in 1..4 : s[i] = <<a, b, c, d>>[i]
      BY <2>1
    <2> QED
      BY <2>1, <2>2, <2>3, SeqEqual
  <1>6. ASSUME NEW a, NEW b, NEW c, NEW d, NEW e
        PROVE  <<a, b, c, d>> \o <<e>> = <<a, b, c, d, e>>
    <2> DEFINE S == {a, b, c, d, e}
               s == <<a, b, c, d>> \o <<e>>
    <2>1. <<a, b, c, d>> \in Seq(S) /\ <<e>> \in Seq(S) /\ <<a, b, c, d, e>> \in Seq(S)
      OBVIOUS
    <2>2. s \in Seq(S) /\ Len(s) = 5
      BY <2>1, ConcatProperties
    <2>3. \A i \in 1..5 : s[i] = <<a, b, c, d, e>>[i]
      BY <2>1
    <2> QED
      BY <2>1, <2>2, <2>3, SeqEqual
  <1> QED
    BY <1>1, <1>2, <1>3, <1>4, <1>5, <1>6

\* The lists of steps, laid out.
LEMMA Lists ==
  /\ StopSteps = <<Step("retire"), Step("kill"), Step("release")>>
  /\ SpawnSteps = <<Step("retire"), Step("kill"), Step("release"),
                    Step("clear"), Step("reserve"), Step("spawn")>>
  /\ \A a, b \in StepSet : SpawnSteps \o <<a, b>> =
       <<Step("retire"), Step("kill"), Step("release"),
         Step("clear"), Step("reserve"), Step("spawn"), a, b>>
  /\ SpawnSteps \in Seq(StepSet)
  /\ \A a, b \in StepSet : SpawnSteps \o <<a, b>> \in Seq(StepSet)
  /\ StopSteps \o TerminatedEvent \in Seq(StepSet)
  /\ StopSteps \o <<Step("end")>> \in Seq(StepSet)
  /\ TerminatedEvent \o StopSteps \o <<Step("end")>> \in Seq(StepSet)
  /\ StopSteps \o TerminatedEvent \in
       {<<Step("retire"), Step("kill"), Step("release")>>,
        <<Step("retire"), Step("kill"), Step("release"), Step("tellEnd")>>}
  /\ StopSteps \o <<Step("end")>> =
       <<Step("retire"), Step("kill"), Step("release"), Step("end")>>
  /\ TerminatedEvent \o StopSteps \o <<Step("end")>> \in
       {<<Step("retire"), Step("kill"), Step("release"), Step("end")>>,
        <<Step("tellEnd"), Step("retire"), Step("kill"), Step("release"), Step("end")>>}
  <1> DEFINE R == Step("retire")  K == Step("kill")  L == Step("release")
             C == Step("clear")  V == Step("reserve")  P == Step("spawn")
             T == Step("tellEnd")  E == Step("end")
  <1>1. /\ R \in StepSet /\ K \in StepSet /\ L \in StepSet /\ C \in StepSet
        /\ V \in StepSet /\ P \in StepSet /\ T \in StepSet /\ E \in StepSet
    BY StepTypes DEF StepKinds
  <1> HIDE DEF R, K, L, C, V, P, T, E
  <1>2. StopSteps = <<R, K, L>> /\ <<R, K, L>> \in Seq(StepSet)
    BY <1>1 DEF StopSteps, R, K, L
  <1>3. SpawnSteps = <<R, K, L, C, V, P>>
    BY <1>1, <1>2, Joined DEF SpawnSteps, C, V, P
  <1>4. \A a, b \in StepSet :
          /\ SpawnSteps \o <<a, b>> = <<R, K, L, C, V, P, a, b>>
          /\ SpawnSteps \o <<a, b>> \in Seq(StepSet)
    <2> TAKE a, b \in StepSet
    <2> DEFINE s == <<R, K, L, C, V, P>> \o <<a, b>>
               t == <<R, K, L, C, V, P, a, b>>
    <2>1. <<R, K, L, C, V, P>> \in Seq(StepSet) /\ <<a, b>> \in Seq(StepSet) /\ t \in Seq(StepSet)
      BY <1>1
    <2>2. s \in Seq(StepSet) /\ Len(s) = 8
      BY <2>1, ConcatProperties
    <2>3. \A i \in 1..8 : s[i] = t[i]
      BY <2>1
    <2> QED
      BY <1>3, <2>1, <2>2, <2>3, SeqEqual
  <1>5. TerminatedEvent \in {<<>>, <<T>>}
    BY DEF TerminatedEvent, T
  <1>6. StopSteps \o <<>> = <<R, K, L>> /\ StopSteps \o <<T>> = <<R, K, L, T>>
    BY <1>1, <1>2, Joined
  <1>7. StopSteps \o <<E>> = <<R, K, L, E>>
    BY <1>1, <1>2, Joined
  <1>8. <<>> \o StopSteps = <<R, K, L>> /\ <<T>> \o StopSteps = <<T, R, K, L>>
    BY <1>1, <1>2, Joined
  <1>9. <<T, R, K, L>> \o <<E>> = <<T, R, K, L, E>>
    BY <1>1, Joined
  <1>10. /\ <<R, K, L, C, V, P>> \in Seq(StepSet) /\ <<R, K, L>> \in Seq(StepSet)
         /\ <<R, K, L, T>> \in Seq(StepSet) /\ <<R, K, L, E>> \in Seq(StepSet)
         /\ <<T, R, K, L, E>> \in Seq(StepSet)
    BY <1>1
  <1>11. /\ StopSteps \o TerminatedEvent \in {<<R, K, L>>, <<R, K, L, T>>}
         /\ TerminatedEvent \o StopSteps \o <<E>> \in {<<R, K, L, E>>, <<T, R, K, L, E>>}
    <2>1. CASE TerminatedEvent = <<>>
      BY <2>1, <1>6, <1>7, <1>8
    <2>2. CASE TerminatedEvent = <<T>>
      BY <2>2, <1>6, <1>8, <1>9
    <2> QED
      BY <1>5, <2>1, <2>2
  <1>12. /\ SpawnSteps \in Seq(StepSet) /\ StopSteps \o <<E>> \in Seq(StepSet)
         /\ StopSteps \o TerminatedEvent \in Seq(StepSet)
         /\ TerminatedEvent \o StopSteps \o <<E>> \in Seq(StepSet)
    BY <1>3, <1>7, <1>10, <1>11
  <1> QED
    BY <1>2, <1>3, <1>4, <1>7, <1>11, <1>12 DEF R, K, L, C, V, P, T, E

\* The session starts with every variable in its type.
LEMMA InitTypeOK == Init => TypeOK
  <1> SUFFICES ASSUME Init PROVE TypeOK
    OBVIOUS
  <1>1. MainTypeOK
    <2>1. todo \in Seq(StepSet) /\ lineBps \in BpSet /\ fnBps \in BpSet
      BY StepTypes, EmptySeq DEF Init
    <2>2. /\ dbg \in 0..MaxBuilds /\ reqLine \in 0..MaxChanges /\ reqFn \in 0..MaxChanges
          /\ early \in 0..MaxChanges
      BY SessionAssumption DEF Init
    <2> QED
      BY <2>1, <2>2 DEF Init, MainTypeOK
  <1>2. RunTypeOK /\ DiskTypeOK
    <2>1. 0 \in Id0 /\ 1 \in 1..MaxBuilds
      BY SessionAssumption DEF Id0
    <2> QED
      BY <2>1 DEF Init, RunTypeOK, DiskTypeOK
  <1>3. ServerTypeOK
    BY SessionAssumption, StepTypes, EmptySeq DEF Init, ServerTypeOK
  <1>4. ConnTypeOK
    BY SessionAssumption DEF Init, ConnTypeOK
  <1> QED
    BY <1>1, <1>2, <1>3, <1>4 DEF TypeOK

\* A step of the main thread takes the first step left (lib.rs, serve).
LEMMA TakeStep ==
  ASSUME TypeOK, todo # <<>>, todo' = Tail(todo)
  PROVE  /\ 1 \in DOMAIN todo /\ Head(todo) = todo[1] /\ todo[1] \in StepSet
         /\ DoAt(1) = todo[1].do
         /\ todo' \in Seq(StepSet)
         /\ \A i \in DOMAIN todo' : /\ i \in Nat \ {0} /\ i + 1 \in DOMAIN todo
                                    /\ todo'[i] = todo[i + 1]
         /\ \A i \in Nat \ {0} : DoAt(i)' = DoAt(i + 1)
  <1>1. todo \in Seq(StepSet)
    BY DEF TypeOK, MainTypeOK
  <1>2. Len(todo) \in Nat \ {0} /\ DOMAIN todo = 1..Len(todo)
    BY <1>1, LenProperties, EmptySeq
  <1>3. /\ todo' \in Seq(StepSet) /\ Len(todo') = Len(todo) - 1
        /\ Head(todo) = todo[1] /\ todo[1] \in StepSet
        /\ \A i \in 1..Len(todo') : todo'[i] = todo[i + 1]
    BY <1>1, <1>2, HeadTailProperties, ElementOfSeq
  <1>4. DOMAIN todo' = 1..Len(todo')
    BY <1>3, LenProperties
  <1>5. \A i \in Nat \ {0} : DoAt(i)' = DoAt(i + 1)
    <2> TAKE i \in Nat \ {0}
    <2>1. i \in DOMAIN todo' <=> i + 1 \in DOMAIN todo
      BY <1>2, <1>3, <1>4
    <2> QED
      BY <1>3, <1>4, <2>1 DEF DoAt, DoIn
  <1> QED
    BY <1>2, <1>3, <1>4, <1>5 DEF DoAt, DoIn

\* What the editor asks keeps the types (session.rs, the on_ functions).
LEMMA EditorStepTypeOK == ASSUME TypeOK, EditorNext PROVE TypeOK'
  <1>1. RunTypeOK' /\ DiskTypeOK' /\ ServerTypeOK' /\ ConnTypeOK'
    <2>1. UNCHANGED <<runVars, registry, stack, diskVars, server, crashed, plug, plugVars,
                      unread, conn, retired, late, endTold>>
      BY DEF EditorNext, Launch, SetBreakpoints, SetFunctionBreakpoints, ConfigurationDone,
             Terminate, Disconnect, Hangup, RestartAsksBuild, Restart
    <2> QED
      BY <2>1 DEF TypeOK, RunTypeOK, DiskTypeOK, ServerTypeOK, ConnTypeOK, runVars,
                  diskVars, plugVars
  <1>2. LoadedDebug \in 0..MaxBuilds
    BY SessionAssumption DEF TypeOK, DiskTypeOK, LoadedDebug
  <1>3. MainTypeOK'
    <2>1. CASE Launch
      <3>1. todo' \in Seq(StepSet)
        BY <2>1, Lists DEF Launch, TypeOK, MainTypeOK
      <3> QED
        BY <2>1, <3>1, <1>2 DEF Launch, TypeOK, MainTypeOK
    <2>2. CASE SetBreakpoints
      <3>1. reqLine' \in 0..MaxChanges /\ lineBps' \in BpSet
        BY <2>2, StepTypes, SessionAssumption DEF SetBreakpoints, TypeOK, MainTypeOK
      <3>2. SendBps(lineBps', fnBps') \in StepSet
        BY <2>2, <3>1, StepTypes DEF SetBreakpoints, TypeOK, MainTypeOK
      <3> QED
        BY <2>2, <3>1, <3>2 DEF SetBreakpoints, TypeOK, MainTypeOK
    <2>3. CASE SetFunctionBreakpoints
      <3>1. reqFn' \in 0..MaxChanges /\ fnBps' \in BpSet
        BY <2>3, StepTypes, SessionAssumption DEF SetFunctionBreakpoints, TypeOK, MainTypeOK
      <3>2. SendBps(lineBps', fnBps') \in StepSet
        BY <2>3, <3>1, StepTypes DEF SetFunctionBreakpoints, TypeOK, MainTypeOK
      <3> QED
        BY <2>3, <3>1, <3>2 DEF SetFunctionBreakpoints, TypeOK, MainTypeOK
    <2>4. CASE ConfigurationDone
      <3>1. SendBps(lineBps, fnBps) \in StepSet /\ Step("configured") \in StepSet
        BY StepTypes DEF TypeOK, MainTypeOK, StepKinds
      <3> QED
        BY <2>4, <3>1 DEF ConfigurationDone, TypeOK, MainTypeOK
    <2>5. CASE Terminate
      <3>1. todo' \in Seq(StepSet)
        BY <2>5, Lists DEF Terminate, TypeOK, MainTypeOK
      <3> QED
        BY <2>5, <3>1 DEF Terminate, TypeOK, MainTypeOK
    <2>6. CASE Disconnect
      <3>1. todo' \in Seq(StepSet)
        BY <2>6, Lists DEF Disconnect, TypeOK, MainTypeOK
      <3> QED
        BY <2>6, <3>1 DEF Disconnect, TypeOK, MainTypeOK
    <2>7. CASE Hangup
      <3>1. todo' \in Seq(StepSet)
        BY <2>7, Lists DEF Hangup, TypeOK, MainTypeOK
      <3> QED
        BY <2>7, <3>1 DEF Hangup, TypeOK, MainTypeOK
    <2>8. CASE RestartAsksBuild
      BY <2>8 DEF RestartAsksBuild, TypeOK, MainTypeOK
    <2>9. CASE Restart
      <3>1. lineBps' \in BpSet
        BY <2>9, <1>2, StepTypes DEF Restart, TypeOK, MainTypeOK
      <3>2. SendBps(lineBps', fnBps) \in StepSet /\ Step("configured") \in StepSet
        BY <3>1, StepTypes DEF TypeOK, MainTypeOK, StepKinds
      <3>3. todo' \in Seq(StepSet)
        BY <2>9, <3>2, Lists DEF Restart
      <3> QED
        BY <2>9, <1>2, <3>1, <3>3 DEF Restart, TypeOK, MainTypeOK
    <2> QED
      BY <2>1, <2>2, <2>3, <2>4, <2>5, <2>6, <2>7, <2>8, <2>9 DEF EditorNext
  <1> QED
    BY <1>1, <1>3 DEF TypeOK

\* The main thread carries out the first step left, whatever it is.
LEMMA MainTakes == MainNext => todo # <<>> /\ todo' = Tail(todo)
  BY DEF MainNext, Do, Retire, Kill, Release, ClearStack, Reserve, Spawn, SpawnFails,
         SendToPlugin, SendBreakpoints, SendConfigured, TellEnd, EndSession

\* The steps of the main thread keep the types: a server is reserved only when
\* there is one left (PlanInv).
LEMMA MainStepTypeOK == ASSUME TypeOK, PlanInv, MainNext PROVE TypeOK'
  <1>1. todo # <<>> /\ todo' = Tail(todo)
    BY MainTakes
  <1>2. todo' \in Seq(StepSet) /\ Head(todo) \in StepSet
    BY <1>1, TakeStep
  <1>3. /\ phase' \in {phase, "ended"}
        /\ UNCHANGED <<dbg, reqLine, reqFn, lineBps, fnBps, launched, early, rebuildRequested,
                       terminatedSent, diskVars, configDone>>
    BY DEF MainNext, Do, Retire, Kill, Release, ClearStack, Reserve, Spawn, SpawnFails,
           SendToPlugin, SendBreakpoints, SendConfigured, TellEnd, EndSession
  <1>4. MainTypeOK' /\ DiskTypeOK'
    BY <1>2, <1>3 DEF TypeOK, MainTypeOK, DiskTypeOK, diskVars
  <1> SUFFICES RunTypeOK' /\ ServerTypeOK' /\ ConnTypeOK'
    BY <1>4 DEF TypeOK
  <1>5. CASE Retire
    BY <1>5, SessionAssumption
       DEF Retire, TypeOK, RunTypeOK, ServerTypeOK, ConnTypeOK, plugVars, Id0
  <1>6. CASE Kill
    <2>1. ServerTypeOK'
      BY <1>6, EmptySeq DEF Kill, TypeOK, ServerTypeOK
    <2> QED
      BY <1>6, <2>1, SessionAssumption DEF Kill, TypeOK, RunTypeOK, ConnTypeOK, Id0
  <1>7. CASE Release
    BY <1>7, SessionAssumption
       DEF Release, TypeOK, RunTypeOK, ServerTypeOK, ConnTypeOK, plugVars, Id0
  <1>8. CASE ClearStack
    BY <1>8, SessionAssumption
       DEF ClearStack, TypeOK, RunTypeOK, ServerTypeOK, ConnTypeOK, plugVars, runVars, Id0
  <1>9. CASE Reserve
    <2>1. lastId < MaxServers
      BY <1>9, <1>1, TakeStep DEF Reserve, Do, PlanInv, Has
    <2> QED
      BY <1>9, <2>1, SessionAssumption
         DEF Reserve, TypeOK, RunTypeOK, ServerTypeOK, ConnTypeOK, plugVars, Id0, Servers
  <1>10. CASE Spawn
    <2>1. build \in 0..MaxBuilds
      BY SessionAssumption DEF TypeOK, DiskTypeOK
    <2>2. loaded' \in [Servers -> 0..MaxBuilds]
      BY <1>10, <2>1 DEF Spawn, TypeOK, ServerTypeOK
    <2>3. ServerTypeOK'
      BY <1>10, <2>2 DEF Spawn, TypeOK, ServerTypeOK
    <2> QED
      BY <1>10, <2>3 DEF Spawn, TypeOK, RunTypeOK, ConnTypeOK
  <1>11. CASE SpawnFails
    BY <1>11, SessionAssumption
       DEF SpawnFails, TypeOK, RunTypeOK, ServerTypeOK, ConnTypeOK, plugVars, runVars, Id0
  <1>12. ASSUME NEW kind, SendToPlugin(kind)
         PROVE  RunTypeOK' /\ ServerTypeOK' /\ ConnTypeOK'
    <2>1. \A g \in Servers : Append(chan[g], Head(todo)) \in Seq(StepSet)
      BY <1>2, AppendProperties DEF TypeOK, ServerTypeOK
    <2>2. ServerTypeOK'
      BY <1>12, <2>1 DEF SendToPlugin, TypeOK, ServerTypeOK
    <2> QED
      BY <1>12, <2>2 DEF SendToPlugin, TypeOK, RunTypeOK, ConnTypeOK, runVars
  <1>13. CASE TellEnd
    BY <1>13, SessionAssumption
       DEF TellEnd, TypeOK, RunTypeOK, ServerTypeOK, ConnTypeOK, plugVars, runVars, Id0
  <1>14. CASE EndSession
    BY <1>14 DEF EndSession, TypeOK, RunTypeOK, ServerTypeOK, ConnTypeOK, plugVars, runVars
  <1> QED
    BY <1>5, <1>6, <1>7, <1>8, <1>9, <1>10, <1>11, <1>12, <1>13, <1>14
       DEF MainNext, SendBreakpoints, SendConfigured

\* Servers, their plugins and the disk keep the types.
LEMMA ServerStepTypeOK == ASSUME TypeOK, ServerNext PROVE TypeOK'
  <1>1. ASSUME NEW g \in Servers, ConnectPlugin(g)
        PROVE  TypeOK'
    BY <1>1 DEF ConnectPlugin, TypeOK, MainTypeOK, RunTypeOK, DiskTypeOK, ServerTypeOK,
                ConnTypeOK, mainVars, runVars, diskVars, plugVars
  <1>2. ASSUME NEW g \in Servers, Apply(g)
        PROVE  TypeOK'
    <2>1. /\ Tail(chan[g]) \in Seq(StepSet) /\ Head(chan[g]) \in StepSet
          /\ \A h \in Servers : chan[h] \in Seq(StepSet)
      BY <1>2, HeadTailProperties DEF Apply, TypeOK, ServerTypeOK
    <2>2. chan' \in [Servers -> Seq(StepSet)]
      BY <1>2, <2>1 DEF Apply, TypeOK, ServerTypeOK
    <2>3. installed' \in [Servers -> AllBps]
      BY <1>2, <2>1 DEF Apply, TypeOK, ServerTypeOK, StepSet
    <2> QED
      BY <1>2, <2>2, <2>3
         DEF Apply, TypeOK, MainTypeOK, RunTypeOK, DiskTypeOK, ServerTypeOK, ConnTypeOK,
             mainVars, runVars, diskVars
  <1>3. ASSUME NEW g \in Servers, Pause(g)
        PROVE  TypeOK'
    <2>1. unread' \in [Servers -> 0..MaxUnread]
      BY <1>3, SessionAssumption DEF Pause, TypeOK, ConnTypeOK
    <2> QED
      BY <1>3, <2>1
         DEF Pause, TypeOK, MainTypeOK, RunTypeOK, DiskTypeOK, ServerTypeOK, ConnTypeOK,
             mainVars, runVars, diskVars, plugVars
  <1>4. ASSUME NEW g \in Servers, Crash(g)
        PROVE  TypeOK'
    <2>1. chan' \in [Servers -> Seq(StepSet)]
      BY <1>4, EmptySeq DEF Crash, TypeOK, ServerTypeOK
    <2>2. crashed' \in [Servers -> BOOLEAN] /\ server' \in [Servers -> {"none", "up", "down"}]
      BY <1>4 DEF Crash, TypeOK, ServerTypeOK
    <2> QED
      BY <1>4, <2>1, <2>2
         DEF Crash, TypeOK, MainTypeOK, RunTypeOK, DiskTypeOK, ServerTypeOK, ConnTypeOK,
             mainVars, runVars, diskVars
  <1>5. CASE EditSource
    BY <1>5 DEF EditSource, TypeOK, MainTypeOK, RunTypeOK, DiskTypeOK, ServerTypeOK,
                ConnTypeOK, mainVars, runVars, plugVars
  <1>6. CASE Compile
    <2>1. build' \in 1..MaxBuilds
      BY <1>6, SessionAssumption DEF Compile, TypeOK, DiskTypeOK
    <2>2. DiskTypeOK'
      BY <1>6, <2>1 DEF Compile, DiskTypeOK
    <2> QED
      BY <1>6, <2>2 DEF Compile, TypeOK, MainTypeOK, RunTypeOK, ServerTypeOK, ConnTypeOK,
                        mainVars, runVars, plugVars
  <1> QED
    BY <1>1, <1>2, <1>3, <1>4, <1>5, <1>6 DEF ServerNext

\* The connection threads keep the types (plugin.rs, Connection::run).
LEMMA ConnStepTypeOK == ASSUME TypeOK, ConnNext PROVE TypeOK'
  <1>1. PICK g \in Servers : TakeLink(g) \/ GiveUp(g) \/ ReadLine(g) \/ TellPause(g)
                             \/ SeeEof(g) \/ ReportEnd(g)
    BY DEF ConnNext, ConnStep
  <1>2. MainTypeOK' /\ DiskTypeOK' /\ ServerTypeOK'
    BY <1>1 DEF TakeLink, GiveUp, ReadLine, TellPause, SeeEof, ReportEnd, TypeOK, MainTypeOK,
                DiskTypeOK, ServerTypeOK, mainVars, diskVars, plugVars
  <1>3. RunTypeOK'
    <2>1. g \in Id0
      BY SessionAssumption DEF Servers, Id0
    <2> QED
      BY <1>1, <2>1 DEF TakeLink, GiveUp, ReadLine, TellPause, SeeEof, ReportEnd, TypeOK,
                        RunTypeOK, runVars
  <1>4. unread' \in [Servers -> 0..MaxUnread]
    BY <1>1, SessionAssumption
       DEF TakeLink, GiveUp, ReadLine, TellPause, SeeEof, ReportEnd, TypeOK, ConnTypeOK
  <1>5. endTold' \subseteq Id0
    <2>1. g \in Id0
      BY SessionAssumption DEF Servers, Id0
    <2> QED
      BY <1>1, <2>1
         DEF TakeLink, GiveUp, ReadLine, TellPause, SeeEof, ReportEnd, TypeOK, ConnTypeOK
  <1>6. late' \in [Servers -> Nat]
    BY <1>1 DEF TakeLink, GiveUp, ReadLine, TellPause, SeeEof, ReportEnd, TypeOK, ConnTypeOK
  <1>7. conn' \in [Servers -> {"none", "waiting", "reading", "telling", "reporting", "gone"}]
        /\ retired' = retired
    BY <1>1 DEF TakeLink, GiveUp, ReadLine, TellPause, SeeEof, ReportEnd, TypeOK, ConnTypeOK
  <1> QED
    BY <1>2, <1>3, <1>4, <1>5, <1>6, <1>7 DEF TypeOK, ConnTypeOK

-----------------------------------------------------------------------------
(***************************************************************************)
(* The steps left.                                                         *)
(***************************************************************************)

\* What is left to do when the server goes and none comes.
StopLists ==
  {<<Step("retire"), Step("kill"), Step("release")>>,
   <<Step("retire"), Step("kill"), Step("release"), Step("tellEnd")>>,
   <<Step("retire"), Step("kill"), Step("release"), Step("end")>>,
   <<Step("tellEnd"), Step("retire"), Step("kill"), Step("release"), Step("end")>>}

\* What each request leaves to do is a plan.
LEMMA RequestPlans ==
  /\ IsPlan(<<>>)
  /\ \A s \in StepSet : s.do = "breakpoints" => IsPlan(<<s>>)
  /\ \A s, t \in StepSet :
       s.do = "breakpoints" /\ t.do = "configured" => IsPlan(<<s, t>>)
  /\ IsPlan(StopSteps \o TerminatedEvent)
  /\ IsPlan(StopSteps \o <<Step("end")>>)
  /\ IsPlan(TerminatedEvent \o StopSteps \o <<Step("end")>>)
  /\ IsPlan(SpawnSteps)
  /\ \A s, t \in StepSet :
       s.do = "breakpoints" /\ t.do = "configured" => IsPlan(SpawnSteps \o <<s, t>>)
  <1>1. IsPlan(<<>>)
    BY DEF IsPlan
  <1>2. ASSUME NEW s \in StepSet, s.do = "breakpoints"
        PROVE  IsPlan(<<s>>)
    BY <1>2 DEF IsPlan, DoIn, After
  <1>3. ASSUME NEW s \in StepSet, NEW t \in StepSet, s.do = "breakpoints", t.do = "configured"
        PROVE  IsPlan(<<s, t>>)
    BY <1>3 DEF IsPlan, DoIn, After
  <1>4. /\ IsPlan(<<Step("retire"), Step("kill"), Step("release")>>)
        /\ IsPlan(<<Step("retire"), Step("kill"), Step("release"), Step("tellEnd")>>)
        /\ IsPlan(<<Step("retire"), Step("kill"), Step("release"), Step("end")>>)
    BY DEF IsPlan, DoIn, After, Step
  <1>5. IsPlan(<<Step("tellEnd"), Step("retire"), Step("kill"), Step("release"), Step("end")>>)
    BY DEF IsPlan, DoIn, After, Step
  <1>6. IsPlan(SpawnSteps)
    BY Lists DEF IsPlan, DoIn, After, Step
  <1>7. ASSUME NEW s \in StepSet, NEW t \in StepSet, s.do = "breakpoints", t.do = "configured"
        PROVE  IsPlan(SpawnSteps \o <<s, t>>)
    <2> DEFINE p == <<Step("retire"), Step("kill"), Step("release"),
                      Step("clear"), Step("reserve"), Step("spawn"), s, t>>
    <2>1. /\ DOMAIN p = 1..8
          /\ p[1].do = "retire" /\ p[2].do = "kill" /\ p[3].do = "release"
          /\ p[4].do = "clear" /\ p[5].do = "reserve" /\ p[6].do = "spawn"
          /\ p[7].do = "breakpoints" /\ p[8].do = "configured"
      BY <1>7 DEF Step
    <2>2. SpawnSteps \o <<s, t>> = p
      BY Lists
    <2> HIDE DEF p
    <2>3. /\ \A i \in 1..7 : DoIn(p, i + 1) = p[i + 1].do
          /\ DoIn(p, 9) = "idle"
      BY <2>1 DEF DoIn
    <2>4. \A i \in 1..8 : DoIn(p, i + 1) \in After(p[i].do)
      BY <2>1, <2>3 DEF After
    <2>5. \A i \in 1..8 : /\ p[i].do = "reserve" => i = 5
                          /\ p[i].do = "spawn" => i = 6
                          /\ p[i].do = "breakpoints" => i = 7
      BY <2>1
    <2>6. IsPlan(p)
      BY <2>1, <2>4, <2>5 DEF IsPlan
    <2> QED
      BY <2>2, <2>6
  <1> QED
    BY <1>1, <1>2, <1>3, <1>4, <1>5, <1>6, <1>7, Lists

\* What the editor asks makes a plan, in which a server is reserved only when
\* there is one left.
LEMMA EditorStepPlanInv == ASSUME TypeOK, PlanInv, EditorNext PROVE PlanInv'
  <1>1. CASE Launch
    BY <1>1, RequestPlans DEF Launch, PlanInv, runVars, Free, Has
  <1>2. CASE SetBreakpoints \/ SetFunctionBreakpoints
    <2>1. ASSUME NEW l, NEW f
          PROVE  SendBps(l, f).do = "breakpoints"
      BY DEF SendBps
    <2>2. todo' \in Seq(StepSet)
      BY EditorStepTypeOK DEF TypeOK, MainTypeOK
    <2>3. PICK s : todo' = <<s>> /\ s.do = "breakpoints"
      BY <1>2, <2>1 DEF SetBreakpoints, SetFunctionBreakpoints
    <2>4. s \in StepSet
      BY <2>2, <2>3
    <2> QED
      BY <2>3, <2>4, RequestPlans DEF PlanInv, Has
  <1>3. CASE ConfigurationDone
    <2>1. /\ SendBps(lineBps, fnBps) \in StepSet /\ Step("configured") \in StepSet
          /\ SendBps(lineBps, fnBps).do = "breakpoints" /\ Step("configured").do = "configured"
      BY StepTypes DEF TypeOK, MainTypeOK, StepKinds, SendBps, Step
    <2> QED
      BY <1>3, <2>1, RequestPlans DEF ConfigurationDone, PlanInv, Has
  <1>4. CASE Terminate \/ Disconnect \/ Hangup
    <2>1. IsPlan(todo')
      BY <1>4, RequestPlans DEF Terminate, Disconnect, Hangup
    <2>2. todo' \in StopLists
      BY <1>4, Lists DEF Terminate, Disconnect, Hangup, StopLists
    <2>3. ~Has("reserve")'
      BY <2>2 DEF StopLists, Has, Step
    <2> QED
      BY <2>1, <2>3 DEF PlanInv
  <1>5. CASE RestartAsksBuild
    BY <1>5 DEF RestartAsksBuild, PlanInv, Has, runVars
  <1>6. CASE Restart
    <2>1. lineBps' \in BpSet
      BY EditorStepTypeOK DEF TypeOK, MainTypeOK
    <2>2. /\ SendBps(lineBps', fnBps) \in StepSet /\ Step("configured") \in StepSet
          /\ SendBps(lineBps', fnBps).do = "breakpoints" /\ Step("configured").do = "configured"
      BY <2>1, StepTypes DEF TypeOK, MainTypeOK, StepKinds, SendBps, Step
    <2> QED
      BY <1>6, <2>2, RequestPlans DEF Restart, PlanInv, runVars
  <1> QED
    BY <1>1, <1>2, <1>3, <1>4, <1>5, <1>6 DEF EditorNext

\* What is left of a plan is a plan.
LEMMA MainStepPlanInv == ASSUME TypeOK, PlanInv, MainNext PROVE PlanInv'
  <1>1. todo # <<>> /\ todo' = Tail(todo)
    BY MainTakes
  <1>2. IsPlan(todo')
    <2>1. ASSUME NEW i \in DOMAIN todo'
          PROVE  DoIn(todo', i + 1) \in After(todo'[i].do)
      <3>1. i \in Nat \ {0} /\ i + 1 \in DOMAIN todo /\ todo'[i] = todo[i + 1]
        BY <1>1, TakeStep
      <3>2. i + 1 \in Nat \ {0}
        BY <3>1
      <3>3. DoIn(todo', i + 1) = DoIn(todo, (i + 1) + 1)
        BY <1>1, <3>2, TakeStep DEF DoAt
      <3> QED
        BY <3>1, <3>3 DEF PlanInv, IsPlan
    <2>2. ASSUME NEW i \in DOMAIN todo', NEW j \in DOMAIN todo', i < j
          PROVE  /\ todo'[j].do = "reserve" => todo'[i].do # "reserve"
                 /\ todo'[j].do = "spawn" => todo'[i].do \notin {"spawn", "breakpoints"}
      <3>1. /\ i \in Nat /\ i + 1 \in DOMAIN todo /\ todo'[i] = todo[i + 1]
            /\ j \in Nat /\ j + 1 \in DOMAIN todo /\ todo'[j] = todo[j + 1]
        BY <1>1, TakeStep
      <3> QED
        BY <2>2, <3>1 DEF PlanInv, IsPlan
    <2> QED
      BY <2>1, <2>2 DEF IsPlan
  <1>3. Has("reserve")' => Has("reserve")
    BY <1>1, TakeStep DEF Has
  <1>4. CASE Reserve
    <2>1. ASSUME NEW i \in DOMAIN todo'
          PROVE  todo'[i].do # "reserve"
      <3>1. /\ i \in Nat \ {0} /\ i + 1 \in DOMAIN todo /\ todo'[i] = todo[i + 1]
            /\ 1 \in DOMAIN todo /\ todo[1].do = "reserve"
        BY <1>1, <1>4, TakeStep DEF Reserve, Do
      <3> QED
        BY <3>1 DEF PlanInv, IsPlan
    <2> QED
      BY <1>2, <2>1 DEF PlanInv, Has
  <1>5. CASE ~Reserve
    <2>1. lastId' = lastId
      BY <1>5 DEF MainNext, Retire, Kill, Release, ClearStack, Spawn, SpawnFails, SendToPlugin,
                  SendBreakpoints, SendConfigured, TellEnd, EndSession, runVars
    <2> QED
      BY <1>2, <1>3, <2>1 DEF PlanInv
  <1> QED
    BY <1>4, <1>5

-----------------------------------------------------------------------------
(***************************************************************************)
(* What Running holds, and the servers.                                    *)
(***************************************************************************)

\* The editor is heard between two lists of steps, and a list begins with a
\* step that finds Running whole.
LEMMA EditorFirst ==
  ASSUME TypeOK, EditorNext
  PROVE  /\ phase = "open" /\ todo = <<>> /\ DoAt(1) = "idle"
         /\ phase' # "ended" /\ DoAt(1)' \in Idle
  <1>1. phase = "open" /\ todo = <<>> /\ phase' # "ended"
    BY DEF EditorNext, Launch, SetBreakpoints, SetFunctionBreakpoints, ConfigurationDone,
           Terminate, Disconnect, Hangup, RestartAsksBuild, Restart, Free
  <1>2. DoAt(1) = "idle"
    BY <1>1 DEF DoAt, DoIn
  <1> SUFFICES DoIn(todo', 1) \in Idle
    BY <1>1, <1>2 DEF DoAt
  <1>3. CASE Launch
    <2>1. todo' \in {<<>>, <<Step("retire"), Step("kill"), Step("release"),
                           Step("clear"), Step("reserve"), Step("spawn")>>}
      BY <1>1, <1>3, Lists DEF Launch
    <2> QED
      BY <2>1 DEF DoIn, Idle, Step
  <1>4. CASE SetBreakpoints \/ SetFunctionBreakpoints \/ ConfigurationDone
    <2>1. PICK l, f : todo' \in {<<SendBps(l, f)>>, <<SendBps(l, f), Step("configured")>>}
      BY <1>4 DEF SetBreakpoints, SetFunctionBreakpoints, ConfigurationDone
    <2> QED
      BY <2>1 DEF DoIn, Idle, SendBps
  <1>5. CASE Terminate \/ Disconnect \/ Hangup
    <2>1. todo' \in StopLists
      BY <1>5, Lists DEF Terminate, Disconnect, Hangup, StopLists
    <2>2. \A s \in StopLists : 1 \in DOMAIN s /\ s[1].do \in {"retire", "tellEnd"}
      BY DEF StopLists, Step
    <2> QED
      BY <2>1, <2>2 DEF DoIn, Idle
  <1>6. CASE RestartAsksBuild
    BY <1>1, <1>6 DEF RestartAsksBuild, DoIn, Idle
  <1>7. CASE Restart
    <2>1. lineBps' \in BpSet /\ Step("configured") \in StepSet
      BY EditorStepTypeOK, StepTypes DEF TypeOK, MainTypeOK, StepKinds
    <2>2. SendBps(lineBps', fnBps) \in StepSet
      BY <2>1, StepTypes DEF TypeOK, MainTypeOK
    <2>3. todo' = <<Step("retire"), Step("kill"), Step("release"), Step("clear"),
                    Step("reserve"), Step("spawn"), SendBps(lineBps', fnBps), Step("configured")>>
      BY <1>7, <2>1, <2>2, Lists DEF Restart
    <2> QED
      BY <2>3 DEF DoIn, Idle, Step
  <1> QED
    BY <1>3, <1>4, <1>5, <1>6, <1>7 DEF EditorNext

\* What the editor asks changes only what the main thread remembers.
LEMMA EditorKeeps ==
  EditorNext => UNCHANGED <<runVars, registry, stack, diskVars, server, crashed, plug,
                            plugVars, unread, conn, retired, late, endTold>>
  BY DEF EditorNext, Launch, SetBreakpoints, SetFunctionBreakpoints, ConfigurationDone,
         Terminate, Disconnect, Hangup, RestartAsksBuild, Restart

\* The lists begin where Running is whole.
LEMMA EditorStepRunInv == ASSUME TypeOK, RunInv, EditorNext PROVE RunInv'
  <1>1. DoAt(1) \in Idle /\ DoAt(1) = "idle" /\ DoAt(1)' \in Idle /\ phase' # "ended"
    BY EditorFirst DEF Idle
  <1>2. UNCHANGED <<client, child, registration, lastId, registry, server>>
    BY EditorKeeps DEF runVars
  <1> QED
    BY <1>1, <1>2 DEF RunInv, Idle

\* A step finds Running as its place in the list says, and leaves it as the
\* place of the next one does (lib.rs: the order of the fields of Running).
LEMMA MainStepRunInv ==
  ASSUME TypeOK, PlanInv, RunInv, \A g \in Servers : server[g] # "none" => g <= lastId,
         MainNext
  PROVE  RunInv'
  <1>1. todo # <<>> /\ todo' = Tail(todo)
    BY MainTakes
  <1>2. /\ Head(todo).do = DoAt(1) /\ phase # "ended"
        /\ DoAt(1)' \in After(DoAt(1))
    <2>1. 1 \in DOMAIN todo /\ DoAt(1) = Head(todo).do /\ DoAt(1)' = DoAt(1 + 1)
      BY <1>1, TakeStep
    <2> QED
      BY <1>1, <2>1, TakeStep DEF RunInv, PlanInv, IsPlan, DoAt
  <1>3. ASSUME NEW kind, Do(kind)
        PROVE  DoAt(1) = kind /\ DoAt(1)' \in After(kind) /\ phase' # "ended"
    BY <1>2, <1>3 DEF Do
  <1>4. CASE Retire
    BY <1>3, <1>4 DEF Retire, RunInv, After, Idle
  <1>5. CASE Kill
    BY <1>3, <1>5 DEF Kill, RunInv, After, Idle
  <1>6. CASE Release
    BY <1>3, <1>6 DEF Release, RunInv, After, Idle
  <1>7. CASE ClearStack
    BY <1>3, <1>7 DEF ClearStack, RunInv, After, Idle, runVars
  <1>8. CASE Reserve
    <2>1. DoAt(1)' = "spawn" /\ client' = 0 /\ child' = 0 /\ registration' = 0 /\ phase' # "ended"
      BY <1>3, <1>8 DEF Reserve, RunInv, After
    <2>2. registry \subseteq {}
      BY <1>3, <1>8 DEF Reserve, RunInv, After, TypeOK, RunTypeOK, Servers
    <2>3. lastId < MaxServers /\ lastId \in 0..MaxServers
      BY <1>1, <1>3, <1>8, TakeStep DEF Reserve, PlanInv, Has, TypeOK, RunTypeOK, Id0
    <2>4. lastId' \in Servers /\ server'[lastId'] = "none"
      BY <1>8, <2>3, SessionAssumption DEF Reserve, Servers, TypeOK, ServerTypeOK
    <2> QED
      BY <1>8, <2>1, <2>2, <2>4 DEF Reserve, RunInv, Idle
  <1>9. CASE Spawn
    BY <1>3, <1>9 DEF Spawn, RunInv, After, Idle
  <1>10. CASE SpawnFails
    BY <1>3, <1>10 DEF SpawnFails, RunInv, After, Idle, runVars
  <1>11. ASSUME NEW kind \in {"breakpoints", "configured"}, SendToPlugin(kind)
         PROVE  RunInv'
    BY <1>3, <1>11 DEF SendToPlugin, RunInv, After, Idle, runVars
  <1>12. CASE TellEnd
    BY <1>3, <1>12 DEF TellEnd, RunInv, After, Idle, runVars
  <1>13. CASE EndSession
    <2>1. DoAt(1) = "end" /\ DoAt(1)' = "idle"
      BY <1>2, <1>13 DEF EndSession, After
    <2>2. todo' = <<>>
      <3>1. todo' \in Seq(StepSet)
        BY <1>1, TakeStep
      <3>2. ASSUME todo' # <<>>
            PROVE  1 \in DOMAIN todo' /\ todo'[1].do \in StepKinds
        <4>1. 1 \in 1..Len(todo') /\ DOMAIN todo' = 1..Len(todo')
          BY <3>1, <3>2, LenProperties, EmptySeq
        <4>2. todo'[1] \in StepSet
          BY <3>1, <4>1, ElementOfSeq
        <4> QED
          BY <4>1, <4>2 DEF StepSet
      <3> QED
        BY <2>1, <3>2 DEF DoAt, DoIn, StepKinds
    <2> QED
      BY <1>13, <2>1, <2>2 DEF EndSession, RunInv, Idle, runVars
  <1> QED
    BY <1>4, <1>5, <1>6, <1>7, <1>8, <1>9, <1>10, <1>11, <1>12, <1>13
       DEF MainNext, SendBreakpoints, SendConfigured

\* A plugin that connects takes its reservation; nothing else outside the main
\* thread touches what Running holds.
LEMMA OtherStepRunInv == ASSUME TypeOK, RunInv, ServerNext \/ ConnNext PROVE RunInv'
  <1>1. /\ UNCHANGED <<phase, todo, client, child, registration, lastId>>
        /\ registry' \subseteq registry
        /\ \A g \in Servers : server[g] = "none" => server'[g] = "none"
    <2>1. ASSUME NEW g \in Servers, ConnectPlugin(g) \/ Apply(g) \/ Pause(g) \/ Crash(g)
          PROVE  /\ UNCHANGED <<phase, todo, client, child, registration, lastId>>
                 /\ registry' \subseteq registry
                 /\ \A h \in Servers : server[h] = "none" => server'[h] = "none"
      BY <2>1 DEF ConnectPlugin, Apply, Pause, Crash, mainVars, runVars, TypeOK, ServerTypeOK
    <2>2. CASE EditSource \/ Compile
      BY <2>2 DEF EditSource, Compile, mainVars, runVars
    <2>3. CASE ConnNext
      BY <2>3 DEF ConnNext, ConnStep, TakeLink, GiveUp, ReadLine, TellPause, SeeEof, ReportEnd,
                  mainVars, runVars
    <2> QED
      BY <2>1, <2>2, <2>3 DEF ServerNext
  <1>2. DoAt(1)' = DoAt(1)
    BY <1>1 DEF DoAt, DoIn
  <1> QED
    BY <1>1, <1>2 DEF RunInv

\* The main thread: what it takes down it retired before, what it starts is new.
LEMMA MainStepServerInv ==
  ASSUME TypeOK, PlanInv, RunInv, ServerInv, MainNext
  PROVE  ServerInv'
  <1>1. todo # <<>> /\ todo' = Tail(todo)
    BY MainTakes
  <1>2. ASSUME NEW kind, Do(kind)
        PROVE  DoAt(1) = kind
    BY <1>1, <1>2, TakeStep DEF Do
  <1>3. CASE Retire
    <2>1. client = child
      BY <1>2, <1>3 DEF Retire, RunInv, Idle
    <2>2. \A g \in Servers : retired'[g] <=> retired[g] \/ g = client
      BY <1>3 DEF Retire
    <2>3. \A g \in Servers : g # 0
      BY DEF Servers
    <2> QED
      BY <1>3, <2>1, <2>2, <2>3 DEF Retire, ServerInv, plugVars
  <1>4. CASE Kill
    <2>1. client = 0
      BY <1>2, <1>4 DEF Kill, RunInv
    <2> QED
      BY <1>4, <2>1
         DEF Kill, ServerInv, TypeOK, ServerTypeOK, ConnTypeOK, RunTypeOK, Servers
  <1>5. CASE Release \/ ClearStack \/ TellEnd \/ EndSession
    BY <1>5 DEF Release, ClearStack, TellEnd, EndSession, ServerInv, plugVars, runVars
  <1>6. CASE Reserve
    BY <1>6 DEF Reserve, ServerInv, plugVars, TypeOK, RunTypeOK, Id0, Servers
  <1>7. CASE Spawn
    <2>1. client = 0 /\ child = 0 /\ lastId \in Servers /\ server[lastId] = "none"
      BY <1>2, <1>7 DEF Spawn, RunInv
    <2> QED
      BY <1>7, <2>1
         DEF Spawn, ServerInv, TypeOK, ServerTypeOK, ConnTypeOK, RunTypeOK, Servers
  <1>8. CASE SpawnFails
    BY <1>8 DEF SpawnFails, ServerInv, plugVars, runVars
  <1>9. ASSUME NEW kind, SendToPlugin(kind)
        PROVE  ServerInv'
    BY <1>9 DEF SendToPlugin, ServerInv, runVars, TypeOK, ServerTypeOK
  <1> QED
    BY <1>3, <1>4, <1>5, <1>6, <1>7, <1>8, <1>9 DEF MainNext, SendBreakpoints, SendConfigured

\* Servers and connection threads: a death leaves its mark, and who was
\* retired speaks once more at most.
LEMMA OtherStepServerInv ==
  ASSUME TypeOK, ServerInv, ServerNext \/ ConnNext
  PROVE  ServerInv'
  <1>1. ASSUME NEW g \in Servers, ConnectPlugin(g) \/ Pause(g)
        PROVE  ServerInv'
    BY <1>1 DEF ConnectPlugin, Pause, ServerInv, runVars, plugVars
  <1>2. ASSUME NEW g \in Servers, Apply(g)
        PROVE  ServerInv'
    BY <1>2 DEF Apply, ServerInv, runVars, TypeOK, ServerTypeOK
  <1>3. ASSUME NEW g \in Servers, Crash(g)
        PROVE  ServerInv'
    BY <1>3 DEF Crash, ServerInv, runVars, TypeOK, ServerTypeOK
  <1>4. CASE EditSource \/ Compile
    BY <1>4 DEF EditSource, Compile, ServerInv, runVars, plugVars
  <1>5. ASSUME NEW g \in Servers, TakeLink(g) \/ GiveUp(g)
        PROVE  ServerInv'
    BY <1>5 DEF TakeLink, GiveUp, ServerInv, runVars, plugVars, TypeOK, ConnTypeOK
  <1>6. ASSUME NEW g \in Servers, ReadLine(g) \/ SeeEof(g)
        PROVE  ServerInv'
    BY <1>6 DEF ReadLine, SeeEof, ServerInv, runVars, plugVars, TypeOK, ConnTypeOK
  <1>7. ASSUME NEW g \in Servers, TellPause(g) \/ ReportEnd(g)
        PROVE  ServerInv'
    BY <1>7 DEF TellPause, ReportEnd, ServerInv, runVars, plugVars, TypeOK, ConnTypeOK
  <1> QED
    BY <1>1, <1>2, <1>3, <1>4, <1>5, <1>6, <1>7 DEF ServerNext, ConnNext, ConnStep

\* The marks stay, and the editor is told of a server only after its mark.
LEMMA StepToldInv == ASSUME TypeOK, ServerInv, ToldInv, Next PROVE ToldInv'
  <1>1. \A g \in Servers : crashed[g] => crashed'[g]
    <2>1. ASSUME NEW g \in Servers, Crash(g)
          PROVE  \A h \in Servers : crashed[h] => crashed'[h]
      BY <2>1 DEF Crash, TypeOK, ServerTypeOK
    <2>2. CASE UNCHANGED crashed
      BY <2>2
    <2>3. UNCHANGED crashed \/ \E g \in Servers : Crash(g)
      <3>1. EditorNext => UNCHANGED crashed
        BY EditorKeeps
      <3>2. MainNext => UNCHANGED crashed
        BY DEF MainNext, Do, Retire, Kill, Release, ClearStack, Reserve, Spawn, SpawnFails,
               SendToPlugin, SendBreakpoints, SendConfigured, TellEnd, EndSession
      <3>3. ServerNext => UNCHANGED crashed \/ \E g \in Servers : Crash(g)
        BY DEF ServerNext, ConnectPlugin, Apply, Pause, EditSource, Compile
      <3>4. ConnNext => UNCHANGED crashed
        BY DEF ConnNext, ConnStep, TakeLink, GiveUp, ReadLine, TellPause, SeeEof, ReportEnd
      <3> QED
        BY <3>1, <3>2, <3>3, <3>4 DEF Next
    <2> QED
      BY <2>1, <2>2, <2>3
  <1>2. endTold' \subseteq endTold \cup {0} \cup {g \in Servers : crashed[g]}
    <2>1. EditorNext => UNCHANGED endTold
      BY EditorKeeps
    <2>2. MainNext => endTold' \subseteq endTold \cup {0}
      BY DEF MainNext, Do, Retire, Kill, Release, ClearStack, Reserve, Spawn, SpawnFails,
             SendToPlugin, SendBreakpoints, SendConfigured, TellEnd, EndSession
    <2>3. ServerNext => UNCHANGED endTold
      BY DEF ServerNext, ConnectPlugin, Apply, Pause, Crash, EditSource, Compile
    <2>4. ConnNext => endTold' \subseteq endTold \cup {g \in Servers : crashed[g]}
      BY DEF ConnNext, ConnStep, TakeLink, GiveUp, ReadLine, TellPause, SeeEof, ReportEnd, ServerInv
    <2> QED
      BY <2>1, <2>2, <2>3, <2>4 DEF Next
  <1>3. endTold \ {0} \subseteq Servers
    BY SessionAssumption DEF TypeOK, ConnTypeOK, Id0, Servers
  <1> QED
    BY <1>1, <1>2, <1>3 DEF ToldInv

\* Starting a server makes it the newest, and nothing else changes which were
\* started.
LEMMA StepStarted ==
  ASSUME TypeOK, RunInv, ServerInv, Next
  PROVE  /\ Spawn => /\ lastId \in Servers /\ Started' = Started \cup {lastId}
                     /\ \A g \in Started : lastId > g
         /\ ~Spawn => Started' = Started
  <1>1. ASSUME Spawn
        PROVE  /\ lastId \in Servers /\ Started' = Started \cup {lastId}
               /\ \A g \in Started : lastId > g
    <2>1. DoAt(1) = "spawn"
      BY <1>1, TakeStep DEF Spawn, Do
    <2>2. lastId \in Servers /\ server[lastId] = "none"
      BY <2>1 DEF RunInv
    <2>3. server' = [server EXCEPT ![lastId] = "up"]
      BY <1>1 DEF Spawn
    <2>4. Started' = Started \cup {lastId}
      BY <2>2, <2>3 DEF Started, TypeOK, ServerTypeOK
    <2>5. \A g \in Started : lastId > g
      BY <2>2 DEF Started, ServerInv, Servers
    <2> QED
      BY <2>2, <2>4, <2>5
  <1>2. ASSUME ~Spawn
        PROVE  Started' = Started
    <2>1. \A g \in Servers : server'[g] = "none" <=> server[g] = "none"
      <3>1. CASE EditorNext \/ ConnNext
        BY <3>1, EditorKeeps
           DEF ConnNext, ConnStep, TakeLink, GiveUp, ReadLine, TellPause, SeeEof, ReportEnd
      <3>2. CASE MainNext
        BY <1>2, <3>2
           DEF MainNext, Do, Retire, Kill, Release, ClearStack, Reserve, SpawnFails,
               SendToPlugin, SendBreakpoints, SendConfigured, TellEnd, EndSession
      <3>3. CASE ServerNext
        BY <3>3 DEF ServerNext, ConnectPlugin, Apply, Pause, Crash, EditSource, Compile,
                    TypeOK, ServerTypeOK
      <3> QED
        BY <3>1, <3>2, <3>3 DEF Next
    <2> QED
      BY <2>1 DEF Started
  <1> QED
    BY <1>1, <1>2

\* So one of them stays the newest.
LEMMA StepNewestInv ==
  ASSUME TypeOK, RunInv, ServerInv, NewestInv, Next
  PROVE  NewestInv'
  <1>1. CASE Spawn
    <2>1. lastId \in Nat /\ \A g \in Started : lastId >= g
      BY <1>1, StepStarted DEF Started, Servers
    <2>2. lastId \in Started' /\ \A g \in Started' : lastId >= g
      BY <1>1, <2>1, StepStarted
    <2> QED
      BY <2>2 DEF NewestInv
  <1>2. CASE ~Spawn
    BY <1>2, StepStarted DEF NewestInv
  <1> QED
    BY <1>1, <1>2

-----------------------------------------------------------------------------
(***************************************************************************)
(* The theorems about the servers.                                         *)
(***************************************************************************)

SessionInv == TypeOK /\ PlanInv /\ RunInv /\ ServerInv /\ ToldInv /\ NewestInv

\* At first nothing runs and nothing is left to do.
LEMMA InitSessionInv == Init => SessionInv
  <1> SUFFICES ASSUME Init PROVE SessionInv
    OBVIOUS
  <1>1. PlanInv
    BY RequestPlans DEF Init, PlanInv, Has
  <1>2. RunInv
    BY DEF Init, RunInv, DoAt, DoIn, Idle
  <1>3. ServerInv
    BY DEF Init, ServerInv, Servers
  <1>4. ToldInv
    BY DEF Init, ToldInv
  <1>5. NewestInv
    <2>1. Started = {0}
      BY DEF Init, Started
    <2> QED
      BY <2>1 DEF NewestInv
  <1> QED
    BY <1>1, <1>2, <1>3, <1>4, <1>5, InitTypeOK DEF SessionInv

\* Every step of every thread keeps it.
LEMMA NextSessionInv == SessionInv /\ [Next]_vars => SessionInv'
  <1>1. ASSUME SessionInv, UNCHANGED vars
        PROVE  SessionInv'
    <2>1. TypeOK'
      BY <1>1 DEF SessionInv, vars, mainVars, runVars, diskVars, plugVars, TypeOK, MainTypeOK,
                  RunTypeOK, DiskTypeOK, ServerTypeOK, ConnTypeOK
    <2>2. PlanInv' /\ RunInv'
      BY <1>1 DEF SessionInv, vars, mainVars, runVars, PlanInv, Has, RunInv, DoAt
    <2>3. ServerInv' /\ ToldInv' /\ NewestInv'
      BY <1>1 DEF SessionInv, vars, runVars, plugVars, ServerInv, ToldInv, NewestInv, Started
    <2> QED
      BY <2>1, <2>2, <2>3 DEF SessionInv
  <1>2. ASSUME SessionInv, Next
        PROVE  SessionInv'
    <2>1. TypeOK'
      BY <1>2, EditorStepTypeOK, MainStepTypeOK, ServerStepTypeOK, ConnStepTypeOK
         DEF SessionInv, Next
    <2>2. PlanInv'
      <3>1. ServerNext \/ ConnNext => UNCHANGED <<todo, lastId>>
        BY DEF ServerNext, ConnectPlugin, Apply, Pause, Crash, EditSource, Compile, ConnNext,
               ConnStep, TakeLink, GiveUp, ReadLine, TellPause, SeeEof, ReportEnd, mainVars, runVars
      <3>2. ServerNext \/ ConnNext => PlanInv'
        BY <1>2, <3>1 DEF SessionInv, PlanInv, Has
      <3> QED
        BY <1>2, <3>2, EditorStepPlanInv, MainStepPlanInv DEF SessionInv, Next
    <2>3. RunInv'
      <3>1. \A g \in Servers : server[g] # "none" => g <= lastId
        BY <1>2 DEF SessionInv, ServerInv
      <3> QED
        BY <1>2, <3>1, EditorStepRunInv, MainStepRunInv, OtherStepRunInv DEF SessionInv, Next
    <2>4. ServerInv'
      <3>1. EditorNext => ServerInv'
        BY <1>2, EditorKeeps DEF SessionInv, ServerInv, runVars, plugVars
      <3> QED
        BY <1>2, <3>1, MainStepServerInv, OtherStepServerInv DEF SessionInv, Next
    <2>5. ToldInv' /\ NewestInv'
      BY <1>2, StepToldInv, StepNewestInv DEF SessionInv
    <2> QED
      BY <2>1, <2>2, <2>3, <2>4, <2>5 DEF SessionInv
  <1> QED
    BY <1>1, <1>2

\* The steps left, what Running holds and what was done to each server agree,
\* whatever the editor asks and whenever (lib.rs, session.rs, plugin.rs).
THEOREM SessionInvCorrect == Spec => []SessionInv
  BY InitSessionInv, NextSessionInv, PTL DEF Spec

\* Every variable stays in its type; in particular no more servers are
\* reserved than the requests counted (on_launch, on_restart).
THEOREM SessionTypeCorrect == Spec => []TypeOK
  BY SessionInvCorrect, PTL DEF SessionInv

\* However the session ends, it leaves no server, no reservation and no
\* connection that still speaks for it (lib.rs, the end of serve).
THEOREM NothingOutlivesCorrect == Spec => []NothingOutlivesSession
  <1>1. ASSUME SessionInv, phase = "ended"
        PROVE  /\ \A g \in Servers : server[g] # "up"
               /\ registry = {}
               /\ \A g \in Servers : conn[g] \notin {"none", "gone"} => retired[g]
    <2>1. todo = <<>> /\ client = 0
      BY <1>1 DEF SessionInv, RunInv
    <2>2. DoAt(1) = "idle"
      BY <2>1 DEF DoAt, DoIn
    <2>3. child = 0 /\ registration = 0 /\ registry \subseteq {0}
      BY <1>1, <2>1, <2>2 DEF SessionInv, RunInv, Idle
    <2>4. registry \subseteq Servers /\ \A g \in Servers : g # 0
      BY <1>1 DEF SessionInv, TypeOK, RunTypeOK, Servers
    <2> QED
      BY <1>1, <2>1, <2>3, <2>4 DEF SessionInv, ServerInv
  <1>2. SessionInv => NothingOutlivesSession
    BY <1>1 DEF NothingOutlivesSession
  <1> QED
    BY <1>2, SessionInvCorrect, PTL

\* A connection that was retired speaks at most once more (plugin.rs, run).
THEOREM OldServerSilentCorrect == Spec => []OldServerFallsSilent
  <1>1. SessionInv => OldServerFallsSilent
    BY DEF SessionInv, ServerInv, OldServerFallsSilent
  <1> QED
    BY <1>1, SessionInvCorrect, PTL

\* The editor is told of no server that the session took down itself: retired
\* first, killed next (lib.rs, the order of the fields of Running).
THEOREM OnlyDeathsCorrect == Spec => []OnlyDeathsReported
  <1>1. SessionInv => OnlyDeathsReported
    BY DEF SessionInv, ToldInv, OnlyDeathsReported
  <1> QED
    BY <1>1, SessionInvCorrect, PTL

\* The smallest and the greatest of a set, where they are known.
LEMMA OnlyAndGreatest ==
  /\ \A x \in Nat : Min({x}) = x
  /\ \A T \in SUBSET Nat : \A x \in T : (\A y \in T : x >= y) => Max(T) = x
  <1>1. ASSUME NEW x \in Nat
        PROVE  Min({x}) = x
    BY DEF Min
  <1>2. ASSUME NEW T \in SUBSET Nat, NEW x \in T, \A y \in T : x >= y
        PROVE  Max(T) = x
    <2>1. Max(T) \in T /\ Max(T) >= x
      BY <1>2 DEF Max
    <2>2. x \in Nat /\ Max(T) \in Nat /\ x >= Max(T)
      BY <1>2, <2>1
    <2> QED
      BY <2>1, <2>2
  <1> QED
    BY <1>1, <1>2

\* Only the server of the moment is up, and the newest was started.
LEMMA SlotOfInv ==
  ASSUME SessionInv
  PROVE  /\ Up \in {{}, {child}} /\ (Up # {} => child \in Servers)
         /\ Started \subseteq Nat /\ Max(Started) \in Started
         /\ child = 0 => Up = {}
  <1>1. Up \subseteq {child} /\ Up \subseteq Servers
    BY DEF SessionInv, ServerInv, Up
  <1>2. Started \subseteq Nat
    BY DEF Started, Servers
  <1>3. Max(Started) \in Started
    BY <1>2, OnlyAndGreatest DEF SessionInv, NewestInv
  <1>4. child = 0 => Up = {}
    BY <1>1 DEF Servers
  <1> QED
    BY <1>1, <1>2, <1>3, <1>4

\* How each step moves the slot: a start fills it, a kill or a crash empties
\* it, the end of the session finds it empty, and nothing else touches it.
LEMMA StepUp ==
  ASSUME SessionInv, Next
  PROVE  /\ Spawn => Up = {} /\ Up' = {lastId} /\ phase # "ended" /\ phase' # "ended"
         /\ EndSession => /\ Up = {} /\ Up' = {} /\ phase # "ended" /\ phase' = "ended"
         /\ ~Spawn => Up' \in {Up, {}}
         /\ ~EndSession => (phase' = "ended" <=> phase = "ended")
         /\ Up' # Up => phase' = phase
  <1>1. \A kind : Do(kind) => DoAt(1) = kind /\ phase # "ended" /\ phase' = phase
    BY TakeStep DEF Do, SessionInv, RunInv
  <1>2. ASSUME Spawn
        PROVE  Up = {} /\ Up' = {lastId} /\ phase # "ended" /\ phase' = phase
    <2>1. child = 0 /\ lastId \in Servers /\ phase # "ended" /\ phase' = phase
      BY <1>1, <1>2 DEF Spawn, SessionInv, RunInv
    <2>2. Up = {}
      BY <2>1, SlotOfInv
    <2>3. server' = [server EXCEPT ![lastId] = "up"]
      BY <1>2 DEF Spawn
    <2>4. Up' = Up \cup {lastId}
      BY <2>1, <2>3 DEF Up, SessionInv, TypeOK, ServerTypeOK
    <2> QED
      BY <2>1, <2>2, <2>4
  <1>3. ASSUME EndSession
        PROVE  Up = {} /\ Up' = {} /\ phase # "ended" /\ phase' = "ended"
    <2>1. DoAt(1) = "end" /\ phase # "ended" /\ phase' = "ended" /\ UNCHANGED server
      BY <1>3, TakeStep DEF EndSession, SessionInv, RunInv
    <2>2. child = 0
      BY <2>1 DEF SessionInv, RunInv
    <2> QED
      BY <2>1, <2>2, SlotOfInv DEF Up
  <1>4. ASSUME ~Spawn, ~EndSession
        PROVE  /\ Up' \in {Up, {}} /\ (phase' = "ended" <=> phase = "ended")
               /\ Up' # Up => phase' = phase
    <2>1. CASE EditorNext
      BY <2>1, EditorKeeps, EditorFirst DEF Up, SessionInv
    <2>2. CASE Kill
      <3>1. Up' = Up \ {child}
        BY <2>2 DEF Kill, Up, SessionInv, TypeOK, ServerTypeOK
      <3>2. phase' = phase
        BY <2>2 DEF Kill, Do
      <3> QED
        BY <3>1, <3>2, SlotOfInv
    <2>3. CASE MainNext /\ ~Kill
      BY <1>4, <2>3
         DEF MainNext, Do, Retire, Release, ClearStack, Reserve, SpawnFails, SendToPlugin,
             SendBreakpoints, SendConfigured, TellEnd, Up
    <2>4. ASSUME NEW g \in Servers, Crash(g)
          PROVE  Up' \in {Up, {}} /\ phase' = phase
      <3>1. g \in Up /\ Up' = Up \ {g} /\ phase' = phase
        BY <2>4 DEF Crash, Up, SessionInv, TypeOK, ServerTypeOK, mainVars
      <3> QED
        BY <3>1, SlotOfInv
    <2>5. CASE ServerNext
      <3>1. (\E g \in Servers : Crash(g)) \/ UNCHANGED <<server, phase>>
        BY <2>5 DEF ServerNext, ConnectPlugin, Apply, Pause, EditSource, Compile, mainVars
      <3> QED
        BY <2>4, <3>1 DEF Up
    <2>6. CASE ConnNext
      BY <2>6 DEF ConnNext, ConnStep, TakeLink, GiveUp, ReadLine, TellPause, SeeEof, ReportEnd, mainVars, Up
    <2> QED
      BY <2>1, <2>2, <2>3, <2>5, <2>6 DEF Next
  <1>5. ~(Spawn /\ EndSession)
    BY <1>1 DEF Spawn, EndSession, Do
  <1> QED
    BY <1>2, <1>3, <1>4, <1>5

\* The session implements the slot: a server starts only when none is up and
\* is newer than all before; when the session ends the slot is empty.
THEOREM SlotCorrect == Spec => OneServerAtATime
  <1> DEFINE slot   == IF Up = {} THEN 0 ELSE Min(Up)
             newest == Max({g \in Servers : server[g] # "none"} \cup {0})
             open   == phase # "ended"
  <1>1. Init => Slot!SlotInit
    <2> SUFFICES ASSUME Init PROVE slot = 0 /\ newest = 0 /\ open = TRUE
      BY DEF Slot!SlotInit
    <2>1. Up = {} /\ Started = {0}
      BY DEF Init, Up, Started
    <2>2. Max(Started) = 0
      BY <2>1, OnlyAndGreatest
    <2> QED
      BY <2>1, <2>2 DEF Init, Started
  <1>2. SessionInv /\ SessionInv' /\ [Next]_vars => [Slot!SlotNext]_<<slot, newest, open>>
    <2> SUFFICES ASSUME SessionInv, SessionInv', Next
                 PROVE  [Slot!SlotNext]_<<slot, newest, open>>
      BY DEF vars, mainVars, Up
    <2>1. CASE Spawn
      <3>1. Up = {} /\ Up' = {lastId} /\ open /\ open'
        BY <2>1, StepUp
      <3>2. /\ lastId \in Nat \ {0} /\ Started' = Started \cup {lastId}
            /\ \A g \in Started : lastId > g
        BY <2>1, StepStarted DEF SessionInv, Servers
      <3>3. Max(Started) \in Started /\ Started \subseteq Nat
        BY SlotOfInv
      <3>4. Max(Started') = lastId
        BY <3>2, <3>3, OnlyAndGreatest
      <3>5. slot = 0 /\ slot' = lastId /\ newest' = lastId /\ lastId > newest
        BY <3>1, <3>2, <3>3, <3>4, OnlyAndGreatest DEF Started
      <3> QED
        BY <3>1, <3>5 DEF Slot!SlotNext, Slot!Start
    <2>2. CASE EndSession
      <3>1. Up = {} /\ Up' = {} /\ open /\ ~open'
        BY <2>2, StepUp
      <3>2. newest' = newest
        BY <2>2, StepStarted DEF SessionInv, EndSession, Spawn, Do, Started
      <3> QED
        BY <3>1, <3>2 DEF Slot!SlotNext, Slot!End
    <2>3. CASE ~Spawn /\ ~EndSession
      <3>1. newest' = newest
        BY <2>3, StepStarted DEF SessionInv, Started
      <3>2. open' = open
        BY <2>3, StepUp
      <3>3. Up' = Up \/ (Up' = {} /\ Up # {})
        BY <2>3, StepUp
      <3>4. Up # {} => slot # 0
        BY SlotOfInv, OnlyAndGreatest DEF Servers
      <3> QED
        BY <3>1, <3>2, <3>3, <3>4 DEF Slot!SlotNext, Slot!Leave
    <2> QED
      BY <2>1, <2>2, <2>3
  <1> QED
    BY <1>1, <1>2, SessionInvCorrect, PTL DEF Spec, OneServerAtATime, Slot!SlotSpec, Slot!slotVars

-----------------------------------------------------------------------------
(***************************************************************************)
(* The breakpoints.                                                        *)
(***************************************************************************)

\* A set of breakpoints is empty or of the build it was resolved against.
LEMMA BpsOf ==
  /\ \A r, b : Bps(r, b) = NoBps \/ Bps(r, b).build = b
  /\ \A r, b : Bps(r, b) = NoBps \/ (Bps(r, b).req = r /\ r # 0)
  /\ \A b : Bps(0, b) = NoBps
  /\ \A r : Bps(r, 0) = NoBps
  BY DEF Bps, NoBps

\* The list of a restart.
LEMMA RestartList ==
  ASSUME TypeOK, Restart
  PROVE  /\ todo' = <<Step("retire"), Step("kill"), Step("release"), Step("clear"),
                      Step("reserve"), Step("spawn"), SendBps(lineBps', fnBps),
                      Step("configured")>>
         /\ Has("spawn")' /\ Has("breakpoints")' /\ Has("reserve")'
  <1>1. lineBps' \in BpSet /\ Step("configured") \in StepSet
    BY EditorStepTypeOK, StepTypes DEF EditorNext, TypeOK, MainTypeOK, StepKinds
  <1>2. SendBps(lineBps', fnBps) \in StepSet
    BY <1>1, StepTypes DEF TypeOK, MainTypeOK
  <1>3. todo' = <<Step("retire"), Step("kill"), Step("release"), Step("clear"),
                  Step("reserve"), Step("spawn"), SendBps(lineBps', fnBps), Step("configured")>>
    BY <1>1, <1>2, Lists DEF Restart
  <1>4. /\ 5 \in DOMAIN todo' /\ todo'[5].do = "reserve"
        /\ 6 \in DOMAIN todo' /\ todo'[6].do = "spawn"
        /\ 7 \in DOMAIN todo' /\ todo'[7].do = "breakpoints"
    BY <1>3 DEF SendBps, Step
  <1> QED
    BY <1>3, <1>4 DEF Has

\* Which breakpoints the lists of the editor send, and whether they start a
\* server.
LEMMA EditorLists ==
  ASSUME TypeOK, EditorNext
  PROVE  /\ \A i \in DOMAIN todo' : todo'[i].do = "breakpoints" => todo'[i].bps.line = lineBps'
         /\ Has("spawn")' => (Launch /\ launched') \/ (Restart /\ Has("breakpoints")')
         /\ Has("spawn")' <=> Has("reserve")'
         /\ todo = <<>> /\ ~Has("spawn") /\ ~Has("breakpoints") /\ ~Has("reserve")
  <1> DEFINE Sent(s) == \A i \in DOMAIN s : s[i].do = "breakpoints" => s[i].bps.line = lineBps'
  <1>1. todo = <<>> /\ ~Has("spawn") /\ ~Has("breakpoints") /\ ~Has("reserve")
    BY EditorFirst DEF Has
  <1>2. CASE Launch
    <2>1. /\ todo' \in {<<>>, <<Step("retire"), Step("kill"), Step("release"),
                                Step("clear"), Step("reserve"), Step("spawn")>>}
          /\ todo' = <<>> \/ launched'
      BY <1>2, Lists DEF Launch, Free
    <2>2. \A i \in DOMAIN todo' : todo'[i].do # "breakpoints"
      BY <2>1 DEF Step
    <2>3. todo' = <<>> \/ (Has("spawn")' /\ Has("reserve")')
      <3>1. todo' # <<>> => /\ 5 \in DOMAIN todo' /\ todo'[5].do = "reserve"
                            /\ 6 \in DOMAIN todo' /\ todo'[6].do = "spawn"
        BY <2>1 DEF Step
      <3> QED
        BY <3>1 DEF Has
    <2>4. todo' = <<>> => ~Has("spawn")' /\ ~Has("reserve")'
      BY DEF Has
    <2> QED
      BY <1>1, <1>2, <2>1, <2>2, <2>3, <2>4
  <1>3. CASE SetBreakpoints \/ SetFunctionBreakpoints \/ ConfigurationDone
    <2>1. PICK f : todo' \in {<<SendBps(lineBps', f)>>, <<SendBps(lineBps', f), Step("configured")>>}
      BY <1>3 DEF SetBreakpoints, SetFunctionBreakpoints, ConfigurationDone
    <2>2. Sent(todo') /\ ~Has("spawn")' /\ ~Has("reserve")' /\ Has("breakpoints")'
      BY <2>1 DEF Has, SendBps, Step
    <2> QED
      BY <1>1, <2>2
  <1>4. CASE Terminate \/ Disconnect \/ Hangup
    <2>1. todo' \in StopLists
      BY <1>4, Lists DEF Terminate, Disconnect, Hangup, StopLists
    <2>2. \A i \in DOMAIN todo' : todo'[i].do \notin {"breakpoints", "spawn", "reserve"}
      BY <2>1 DEF StopLists, Step
    <2> QED
      BY <1>1, <2>2 DEF Has
  <1>5. CASE RestartAsksBuild
    BY <1>1, <1>5 DEF RestartAsksBuild, Has
  <1>6. CASE Restart
    <2>1. Sent(todo') /\ Has("breakpoints")' /\ Has("spawn")' /\ Has("reserve")'
      BY <1>6, RestartList DEF Step, SendBps
    <2> QED
      BY <1>1, <1>6, <2>1
  <1> QED
    BY <1>2, <1>3, <1>4, <1>5, <1>6 DEF EditorNext

\* What was asked stays resolved against the map in hand, and the map is
\* replaced only with the server (on_launch, on_restart, on_set_breakpoints).
LEMMA EditorStepMapInv ==
  ASSUME TypeOK, MapInv, EditorNext
  PROVE  MapInv'
  <1>1. UNCHANGED <<client, build, loaded, lastId>> /\ lastId \in Nat
    BY EditorKeeps, SessionAssumption DEF runVars, diskVars, plugVars, TypeOK, RunTypeOK, Id0
  <1>2. Coming = lastId /\ Coming' = IF Has("spawn")' THEN lastId + 1 ELSE lastId
    BY <1>1, EditorLists DEF Coming
  <1>3. CASE Launch
    <2>1. client = 0 /\ ~launched /\ lastId = 0
      BY <1>2, <1>3 DEF Launch, MapInv
    <2>2. dbg' \in {0, build} /\ UNCHANGED <<reqLine, lineBps>>
          /\ reqLine \in Nat
      BY <1>3, SessionAssumption DEF Launch, LoadedDebug, TypeOK, MainTypeOK
    <2>3. CASE ~launched'
      BY <1>1, <1>2, <1>3, <2>1, <2>2, <2>3, EditorLists DEF MapInv, Restart
    <2>4. CASE launched'
      <3>1. early' = reqLine /\ Has("spawn")' /\ Coming' = 1
        <4>1. early' = reqLine /\ todo' = SpawnSteps
          BY <1>3, <2>1, <2>4 DEF Launch
        <4>2. 6 \in DOMAIN todo' /\ todo'[6].do = "spawn"
          BY <4>1, Lists DEF Step
        <4> QED
          BY <1>2, <2>1, <4>1, <4>2 DEF Has
      <3>2. reqLine = 0 \/ Unresolved'
        BY <2>2, <3>1 DEF Unresolved
      <3>3. reqLine = 0 => lineBps' = Bps(reqLine', dbg')
        BY <2>2, BpsOf DEF MapInv
      <3> QED
        BY <1>1, <2>1, <2>2, <2>4, <3>1, <3>2, <3>3, EditorLists DEF MapInv
    <2> QED
      BY <2>3, <2>4
  <1>4. CASE Restart
    <2>1. dbg' \in {0, build} /\ lineBps' = Bps(reqLine', dbg') /\ launched /\ launched'
      BY <1>4 DEF Restart, LoadedDebug
    <2>2. Has("breakpoints")' /\ Has("spawn")' /\ Coming' >= 1
      BY <1>1, <1>2, <1>4, RestartList
    <2> QED
      BY <1>1, <2>1, <2>2, BpsOf, EditorLists DEF MapInv
  <1>5. CASE ~Launch /\ ~Restart
    <2>1. /\ dbg' = dbg /\ launched' = launched /\ early' = early
          /\ ~Has("spawn")' /\ ~Has("spawn")
      BY <1>5, EditorLists
         DEF EditorNext, SetBreakpoints, SetFunctionBreakpoints, ConfigurationDone,
             Terminate, Disconnect, Hangup, RestartAsksBuild
    <2>2. \/ lineBps' = Bps(reqLine', dbg')
          \/ lineBps' = lineBps /\ reqLine' = reqLine
      BY <1>5, <2>1
         DEF EditorNext, SetBreakpoints, SetFunctionBreakpoints, ConfigurationDone,
             Terminate, Disconnect, Hangup, RestartAsksBuild
    <2>3. /\ lineBps' # NoBps => lineBps'.req = reqLine' /\ reqLine' # 0
          /\ launched' => Unresolved' \/ lineBps' = Bps(reqLine', dbg')
      BY <1>2, <2>1, <2>2, BpsOf DEF MapInv, Unresolved
    <2> QED
      BY <1>1, <1>2, <2>1, <2>3, EditorLists DEF MapInv
  <1> QED
    BY <1>3, <1>4, <1>5

\* What a step of the main thread leaves in the list.
LEMMA LeftInList ==
  ASSUME TypeOK, PlanInv, todo # <<>>, todo' = Tail(todo)
  PROVE  /\ \A kind : Has(kind)' => Has(kind)
         /\ \A kind : Has(kind) /\ DoAt(1) # kind => Has(kind)'
         /\ Has(DoAt(1))
         /\ Has("spawn")' => DoAt(1) \notin {"spawn", "breakpoints"}
         /\ DoAt(1) = "breakpoints" => ~Has("spawn")
         /\ DoAt(1) = "reserve" => ~Has("reserve")'
  <1>1. /\ 1 \in DOMAIN todo /\ DoAt(1) = todo[1].do
        /\ \A i \in DOMAIN todo' : i \in Nat \ {0} /\ i + 1 \in DOMAIN todo /\ todo'[i] = todo[i + 1]
    BY TakeStep
  <1>2. \A kind : Has(kind)' => Has(kind)
    BY <1>1 DEF Has
  <1>3. ASSUME NEW kind, Has(kind), DoAt(1) # kind
        PROVE  Has(kind)'
    <2>1. PICK i \in DOMAIN todo : todo[i].do = kind
      BY <1>3 DEF Has
    <2>2. i \in Nat \ {0, 1} /\ i <= Len(todo) /\ Len(todo) \in Nat
      BY <1>1, <1>3, <2>1 DEF TypeOK, MainTypeOK
    <2>3. i - 1 \in Nat \ {0} /\ i - 1 \in DOMAIN todo' /\ todo'[i - 1] = todo[(i - 1) + 1]
      BY <2>2, HeadTailProperties DEF TypeOK, MainTypeOK
    <2>4. todo'[i - 1].do = kind
      BY <2>1, <2>2, <2>3
    <2> QED
      BY <2>3, <2>4 DEF Has
  <1>4. \A i \in DOMAIN todo : todo[i].do = "spawn" => i = 1 \/ todo[1].do \notin {"spawn", "breakpoints"}
    <2>1. \A i \in DOMAIN todo : i \in Nat \ {0}
      BY DEF TypeOK, MainTypeOK
    <2> QED
      BY <1>1, <2>1 DEF PlanInv, IsPlan
  <1>5. Has("spawn")' => DoAt(1) \notin {"spawn", "breakpoints"}
    <2>1. \A i \in DOMAIN todo' : i + 1 # 1
      BY <1>1
    <2> QED
      BY <1>1, <1>4, <2>1 DEF Has
  <1>6. DoAt(1) = "reserve" => ~Has("reserve")'
    <2>1. \A i \in DOMAIN todo' : i + 1 \in DOMAIN todo /\ todo'[i] = todo[i + 1] /\ 1 < i + 1
      BY <1>1
    <2>2. \A i \in DOMAIN todo : 1 < i /\ todo[i].do = "reserve" => todo[1].do # "reserve"
      BY <1>1 DEF PlanInv, IsPlan
    <2> QED
      BY <1>1, <2>1, <2>2 DEF Has
  <1> QED
    BY <1>1, <1>2, <1>3, <1>4, <1>5, <1>6 DEF Has

\* A step of the main thread, as far as breakpoints are concerned.
LEMMA MainSteps ==
  ASSUME TypeOK, MainNext
  PROVE  /\ todo # <<>> /\ todo' = Tail(todo) /\ Head(todo).do = DoAt(1)
         /\ UNCHANGED <<dbg, reqLine, lineBps, launched, early, build>>
         /\ Reserve => DoAt(1) = "reserve" /\ lastId' = lastId + 1
         /\ ~Reserve => DoAt(1) # "reserve" /\ UNCHANGED lastId
         /\ ~Spawn => UNCHANGED loaded /\ client' \in {client, 0}
         /\ Spawn => DoAt(1) = "spawn"
         /\ ~Spawn /\ DoAt(1) = "spawn" => UNCHANGED client
  <1>1. /\ todo # <<>> /\ todo' = Tail(todo)
        /\ UNCHANGED <<dbg, reqLine, lineBps, launched, early, build>>
        /\ Reserve => Head(todo).do = "reserve" /\ lastId' = lastId + 1
        /\ ~Reserve => Head(todo).do # "reserve" /\ UNCHANGED lastId
        /\ ~Spawn => UNCHANGED loaded /\ client' \in {client, 0}
        /\ Spawn => Head(todo).do = "spawn"
        /\ ~Spawn /\ Head(todo).do = "spawn" => UNCHANGED client
    BY DEF MainNext, Do, Retire, Kill, Release, ClearStack, Reserve, Spawn, SpawnFails,
           SendToPlugin, SendBreakpoints, SendConfigured, TellEnd, EndSession, diskVars,
           plugVars, runVars
  <1> QED
    BY <1>1, TakeStep

\* A server that is reserved is the one that was about to be.
LEMMA MainStepComing ==
  ASSUME TypeOK, PlanInv, MainNext
  PROVE  Coming' = Coming /\ (Unresolved' <=> Unresolved)
  <1>1. CASE Reserve
    <2>1. Has("reserve") /\ ~Has("reserve")' /\ lastId' = lastId + 1
      BY <1>1, MainSteps, LeftInList
    <2> QED
      BY <2>1, MainSteps DEF Coming, Unresolved
  <1>2. CASE ~Reserve
    <2>1. (Has("reserve")' <=> Has("reserve")) /\ lastId' = lastId
      BY <1>2, MainSteps, LeftInList
    <2> QED
      BY <2>1, MainSteps DEF Coming, Unresolved
  <1> QED
    BY <1>1, <1>2

\* The server that is spawned loads the build the map describes.
LEMMA MainStepMapInv ==
  ASSUME TypeOK, PlanInv, RunInv, MapInv, MainNext
  PROVE  MapInv'
  <1>1. \A i \in DOMAIN todo' : todo'[i].do = "breakpoints" => todo'[i].bps.line = lineBps'
    <2>1. \A i \in DOMAIN todo' : i + 1 \in DOMAIN todo /\ todo'[i] = todo[i + 1]
      BY MainSteps, TakeStep
    <2> QED
      BY <2>1, MainSteps DEF MapInv
  <1>2. Has("spawn")' => /\ launched /\ dbg \in {0, build}
                         /\ Has("breakpoints")' \/ reqLine = 0 \/ Unresolved'
    BY MainSteps, MainStepComing, LeftInList DEF MapInv
  <1>3. client' # 0 => launched' /\ (~Has("spawn")' => dbg \in {0, loaded'[client']})
    <2>1. CASE Spawn
      <3>1. Has("spawn") /\ lastId \in Servers
        BY <2>1, MainSteps, LeftInList DEF RunInv
      <3>2. client' = lastId /\ loaded'[lastId] = build
        BY <2>1, <3>1 DEF Spawn, TypeOK, ServerTypeOK
      <3> QED
        BY <3>1, <3>2, MainSteps DEF MapInv
    <2>2. CASE ~Spawn /\ DoAt(1) = "spawn"
      BY <2>2, MainSteps DEF RunInv
    <2>3. CASE ~Spawn /\ DoAt(1) # "spawn"
      BY <2>3, MainSteps, LeftInList DEF MapInv
    <2> QED
      BY <2>1, <2>2, <2>3
  <1> QED
    BY <1>1, <1>2, <1>3, MainSteps, MainStepComing DEF MapInv

\* What is sent to a plugin is of the build its server loaded.
LEMMA MainStepSentInv ==
  ASSUME TypeOK, PlanInv, RunInv, ServerInv, MapInv, SentInv, MainNext
  PROVE  SentInv'
  <1>1. CASE Spawn
    <2>1. lastId \in Servers /\ server[lastId] = "none"
      BY <1>1, MainSteps DEF RunInv
    <2>2. installed[lastId] = NoneInstalled /\ chan[lastId] = <<>>
      BY <2>1 DEF ServerInv
    <2>3. /\ UNCHANGED <<chan, installed>>
          /\ early' = early
          /\ \A g \in Servers : g # lastId => loaded'[g] = loaded[g]
      BY <1>1, MainSteps DEF Spawn, TypeOK, ServerTypeOK
    <2> QED
      BY <2>2, <2>3 DEF SentInv, Right, NoneInstalled
  <1>2. CASE Kill
    BY <1>2, MainSteps DEF Kill, SentInv
  <1>3. CASE SendBreakpoints
    <2>1. DoAt(1) = "breakpoints" /\ Head(todo) = todo[1] /\ 1 \in DOMAIN todo
          /\ todo[1].do = "breakpoints"
      BY <1>3, MainSteps, TakeStep DEF SendBreakpoints, SendToPlugin, Do
    <2>2. client # 0 => dbg \in {0, loaded[client]}
      BY <2>1, MainSteps, LeftInList DEF MapInv
    <2>3. client # 0 => Right(Head(todo).bps, client, loaded[client], early)
      <3> SUFFICES ASSUME client # 0
                   PROVE  Right(Head(todo).bps, client, loaded[client], early)
        OBVIOUS
      <3>1. client \in Servers /\ client <= lastId /\ lastId <= Coming
        BY SessionAssumption DEF TypeOK, RunTypeOK, Id0, Servers, ServerInv, Coming
      <3>2. Head(todo).bps.line = lineBps /\ launched
        BY <2>1 DEF MapInv
      <3>3. CASE lineBps = Bps(reqLine, dbg)
        BY <2>2, <3>2, <3>3, BpsOf DEF Right
      <3>4. CASE Unresolved
        <4>1. client = 1 /\ reqLine \in 1..early
          BY <3>1, <3>4, SessionAssumption DEF Unresolved, Servers, TypeOK, RunTypeOK, Id0
        <4> QED
          BY <3>2, <4>1 DEF Right, MapInv
      <3> QED
        BY <3>2, <3>3, <3>4 DEF MapInv
    <2>4. ASSUME NEW g \in Servers
          PROVE  \A i \in DOMAIN chan'[g] :
                   chan'[g][i].do = "breakpoints"
                     => Right(chan'[g][i].bps, g, loaded'[g], early)
      <3>1. loaded' = loaded /\ chan'[g] \in {chan[g], Append(chan[g], Head(todo))}
            /\ (chan'[g] # chan[g] => g = client)
        BY <1>3 DEF SendBreakpoints, SendToPlugin
      <3>2. CASE chan'[g] = chan[g]
        BY <3>1, <3>2 DEF SentInv
      <3>3. CASE chan'[g] = Append(chan[g], Head(todo)) /\ g = client
        <4>1. chan[g] \in Seq(StepSet) /\ Head(todo) \in StepSet
          BY <2>1, MainSteps, TakeStep DEF TypeOK, ServerTypeOK
        <4>2. \A i \in DOMAIN chan'[g] : (i \in DOMAIN chan[g] /\ chan'[g][i] = chan[g][i])
                                         \/ chan'[g][i] = Head(todo)
          BY <3>3, <4>1, AppendProperties
        <4>3. client # 0
          BY <3>3 DEF Servers
        <4> QED
          BY <2>3, <3>1, <3>3, <4>2, <4>3 DEF SentInv
      <3> QED
        BY <3>1, <3>2, <3>3
    <2>5. UNCHANGED <<installed, loaded, early>>
      BY <1>3, MainSteps DEF SendBreakpoints, SendToPlugin
    <2> QED
      BY <2>4, <2>5 DEF SentInv
  <1>4. CASE SendConfigured
    <2>1. Head(todo).do = "configured"
      BY <1>4 DEF SendConfigured, SendToPlugin, Do
    <2>2. UNCHANGED <<installed, loaded, early>>
      BY <1>4, MainSteps DEF SendConfigured, SendToPlugin
    <2>3. ASSUME NEW g \in Servers
          PROVE  \A i \in DOMAIN chan'[g] :
                   chan'[g][i].do = "breakpoints"
                     => Right(chan'[g][i].bps, g, loaded[g], early)
      <3>1. chan'[g] \in {chan[g], Append(chan[g], Head(todo))}
        BY <1>4 DEF SendConfigured, SendToPlugin
      <3>2. chan[g] \in Seq(StepSet) /\ Head(todo) \in StepSet
        BY MainSteps, TakeStep DEF TypeOK, ServerTypeOK
      <3>3. \A i \in DOMAIN chan'[g] : (i \in DOMAIN chan[g] /\ chan'[g][i] = chan[g][i])
                                       \/ chan'[g][i] = Head(todo)
        BY <3>1, <3>2, AppendProperties
      <3> QED
        BY <2>1, <3>3 DEF SentInv
    <2> QED
      BY <2>2, <2>3 DEF SentInv
  <1>5. CASE ~Spawn /\ ~Kill /\ ~SendBreakpoints /\ ~SendConfigured
    <2>1. UNCHANGED <<chan, installed, loaded, early>>
      BY <1>5, MainSteps DEF MainNext, Retire, Release, ClearStack, Reserve, SpawnFails, TellEnd,
                  EndSession, plugVars
    <2> QED
      BY <2>1 DEF SentInv
  <1> QED
    BY <1>1, <1>2, <1>3, <1>4, <1>5

\* Putting a step at the end of a channel, and which set of breakpoints is the
\* last in it.
LEMMA LastSent ==
  ASSUME NEW s \in Seq(StepSet), NEW e \in StepSet
  PROVE  /\ e.do = "breakpoints" =>
              /\ ~NoMore(Append(s, e), 0)
              /\ \A i \in DOMAIN Append(s, e) : NoMore(Append(s, e), i) => Append(s, e)[i] = e
         /\ e.do # "breakpoints" =>
              /\ NoMore(Append(s, e), 0) => NoMore(s, 0)
              /\ \A i \in DOMAIN Append(s, e) :
                   Append(s, e)[i].do = "breakpoints" /\ NoMore(Append(s, e), i)
                     => i \in DOMAIN s /\ Append(s, e)[i] = s[i] /\ NoMore(s, i)
  <1> DEFINE t == Append(s, e)
  <1>1. /\ Len(s) \in Nat /\ DOMAIN s = 1..Len(s)
        /\ DOMAIN t = 1..(Len(s) + 1) /\ t[Len(s) + 1] = e
        /\ \A i \in 1..Len(s) : t[i] = s[i]
    BY AppendProperties, LenProperties
  <1> HIDE DEF t
  <1>2. ASSUME e.do = "breakpoints"
        PROVE  ~NoMore(t, 0) /\ \A i \in DOMAIN t : NoMore(t, i) => t[i] = e
    BY <1>1, <1>2 DEF NoMore
  <1>3. ASSUME e.do # "breakpoints"
        PROVE  /\ NoMore(t, 0) => NoMore(s, 0)
               /\ \A i \in DOMAIN t : t[i].do = "breakpoints" /\ NoMore(t, i)
                     => i \in DOMAIN s /\ t[i] = s[i] /\ NoMore(s, i)
    BY <1>1, <1>3 DEF NoMore
  <1> QED
    BY <1>2, <1>3 DEF t

\* The main thread: when it has sent everything, the last set it sent to the
\* server of the moment is the one asked for.
LEMMA MainStepLatestInv ==
  ASSUME TypeOK, PlanInv, RunInv, ServerInv, MapInv, LatestInv, MainNext
  PROVE  LatestInv'
  <1> SUFFICES ASSUME client' # 0, server'[client'] = "up", ~AskedBefore(client', reqLine),
                      ~Has("spawn")', ~Has("breakpoints")'
               PROVE  /\ NoMore(chan'[client'], 0) => installed'[client'].line = lineBps
                      /\ \A i \in DOMAIN chan'[client'] :
                           chan'[client'][i].do = "breakpoints" /\ NoMore(chan'[client'], i)
                             => chan'[client'][i].bps.line = lineBps
    BY MainSteps DEF LatestInv, NoMore, AskedBefore
  <1>1. CASE Spawn
    <2>1. lastId \in Servers /\ server[lastId] = "none" /\ Has("spawn") /\ ~Has("breakpoints")
      <3>1. DoAt(1) = "spawn"
        BY <1>1, MainSteps
      <3> QED
        BY <3>1, MainSteps, LeftInList DEF RunInv
    <2>2. client' = lastId /\ chan'[lastId] = <<>> /\ installed'[lastId] = NoneInstalled
      BY <1>1, <2>1 DEF Spawn, ServerInv
    <2>3. lineBps = NoBps
      <3>1. lastId \in Nat \ {0} /\ lastId <= Coming
        BY <2>1 DEF Servers, Coming
      <3>2. ~Unresolved
        BY <2>2, <3>1, SessionAssumption DEF Unresolved, AskedBefore
      <3> QED
        BY <2>1, <3>2, BpsOf DEF MapInv
    <2> QED
      BY <2>2, <2>3 DEF NoneInstalled
  <1>2. CASE ~Spawn
    <2>1. client' = client /\ client # 0 /\ DoAt(1) # "spawn" /\ ~Has("spawn")
      <3>1. client' = client /\ client # 0
        BY <1>2, MainSteps
      <3>2. DoAt(1) # "spawn"
        BY <3>1 DEF RunInv
      <3> QED
        BY <3>1, <3>2, MainSteps, LeftInList
    <2>2. client \in Servers
      BY <2>1, SessionAssumption DEF TypeOK, RunTypeOK, Id0, Servers
    <2>3. CASE SendBreakpoints \/ SendConfigured
      <3>1. /\ server' = server /\ installed' = installed
            /\ chan'[client] = Append(chan[client], Head(todo))
        BY <2>1, <2>2, <2>3 DEF SendBreakpoints, SendConfigured, SendToPlugin
      <3>2. chan[client] \in Seq(StepSet) /\ Head(todo) \in StepSet
        BY <2>2, MainSteps, TakeStep DEF TypeOK, ServerTypeOK
      <3>3. CASE SendBreakpoints
        <4>1. Head(todo).do = "breakpoints" /\ Head(todo) = todo[1] /\ 1 \in DOMAIN todo
          BY <3>3, MainSteps, TakeStep DEF SendBreakpoints, SendToPlugin, Do
        <4>2. Head(todo).bps.line = lineBps
          BY <4>1 DEF MapInv
        <4> QED
          BY <2>1, <3>1, <3>2, <4>1, <4>2, LastSent
      <3>4. CASE SendConfigured
        <4>1. Head(todo).do = "configured" /\ DoAt(1) = "configured"
          BY <3>4, MainSteps DEF SendConfigured, SendToPlugin, Do
        <4>2. ~Has("breakpoints")
          BY <4>1, MainSteps, LeftInList
        <4>3. /\ NoMore(chan[client], 0) => installed[client].line = lineBps
              /\ \A i \in DOMAIN chan[client] :
                   chan[client][i].do = "breakpoints" /\ NoMore(chan[client], i)
                     => chan[client][i].bps.line = lineBps
          BY <2>1, <3>1, <4>2 DEF LatestInv
        <4> QED
          BY <2>1, <3>1, <3>2, <4>1, <4>3, LastSent
      <3> QED
        BY <2>3, <3>3, <3>4
    <2>4. CASE ~SendBreakpoints /\ ~SendConfigured
      <3>1. ~Kill /\ ~Retire
        <4>1. Kill => DoAt(1) = "kill"
          BY MainSteps DEF Kill, Do
        <4> QED
          BY <2>1, <4>1 DEF Retire, RunInv
      <3>2. UNCHANGED <<server, chan, installed>> /\ DoAt(1) # "breakpoints"
        BY <1>2, <2>4, <3>1, MainSteps
           DEF MainNext, Release, ClearStack, Reserve, SpawnFails, TellEnd, EndSession, plugVars,
               Do
      <3>3. ~Has("breakpoints")
        BY <3>2, MainSteps, LeftInList
      <3> QED
        BY <2>1, <3>2, <3>3 DEF LatestInv
    <2> QED
      BY <2>3, <2>4
  <1> QED
    BY <1>1, <1>2

\* Requests: what is asked anew is about to be sent.
LEMMA EditorStepLatestInv ==
  ASSUME TypeOK, MapInv, LatestInv, EditorNext
  PROVE  LatestInv'
  <1>1. UNCHANGED <<client, server, chan, installed>>
    BY EditorKeeps DEF runVars, plugVars
  <1>2. CASE Launch
    BY <1>1, <1>2, EditorKeeps DEF Launch, MapInv, LatestInv
  <1>3. CASE Restart
    BY <1>3, RestartList DEF LatestInv
  <1>4. CASE SetBreakpoints
    <2>1. PICK f : todo' = <<SendBps(lineBps', f)>>
      BY <1>4 DEF SetBreakpoints
    <2>2. Has("breakpoints")'
      BY <2>1 DEF Has, SendBps
    <2> QED
      BY <2>2 DEF LatestInv
  <1>5. CASE ~Launch /\ ~Restart /\ ~SetBreakpoints
    <2>1. UNCHANGED <<lineBps, reqLine, early>>
      BY <1>5 DEF EditorNext, SetFunctionBreakpoints, ConfigurationDone, Terminate, Disconnect,
                  Hangup, RestartAsksBuild
    <2> QED
      BY <1>1, <2>1, EditorLists DEF LatestInv, NoMore, AskedBefore
  <1> QED
    BY <1>2, <1>3, <1>4, <1>5

\* The plugin applies what comes, in order; nothing else outside the main
\* thread touches the map, the channels or what is installed.
LEMMA ApplyKeepsBps ==
  ASSUME TypeOK, MapInv, SentInv, LatestInv, NEW g \in Servers, Apply(g)
  PROVE  MapInv' /\ SentInv' /\ LatestInv'
  <1> DEFINE s == chan[g]  t == Tail(chan[g])
  <1>1. /\ s \in Seq(StepSet) /\ s # <<>>
        /\ chan' = [chan EXCEPT ![g] = t]
        /\ installed' = IF Head(s).do = "breakpoints"
                        THEN [installed EXCEPT ![g] = Head(s).bps] ELSE installed
        /\ UNCHANGED <<todo, dbg, reqLine, lineBps, launched, early, lastId, client, build, loaded,
                       server>>
    BY DEF Apply, TypeOK, ServerTypeOK, mainVars, runVars, diskVars
  <1>2. /\ t \in Seq(StepSet) /\ Head(s) = s[1] /\ Len(s) \in Nat /\ 1 \in DOMAIN s
        /\ DOMAIN s = 1..Len(s) /\ DOMAIN t = 1..(Len(s) - 1)
        /\ \A i \in 1..(Len(s) - 1) : t[i] = s[i + 1]
    BY <1>1, HeadTailProperties, LenProperties, EmptySeq
  <1>3. /\ chan'[g] = t /\ \A h \in Servers : h # g => chan'[h] = chan[h] /\ installed'[h] = installed[h]
        /\ installed'[g] = IF Head(s).do = "breakpoints" THEN Head(s).bps ELSE installed[g]
    BY <1>1 DEF TypeOK, ServerTypeOK
  <1>4. MapInv'
    BY <1>1 DEF MapInv, Has, Coming, Unresolved
  <1>5. SentInv'
    <2>1. Right(installed'[g], g, loaded[g], early)
      BY <1>2, <1>3 DEF SentInv
    <2>2. \A i \in DOMAIN t : t[i].do = "breakpoints" => Right(t[i].bps, g, loaded[g], early)
      <3> TAKE i \in DOMAIN t
      <3>1. i + 1 \in DOMAIN s /\ t[i] = s[i + 1]
        BY <1>2
      <3> QED
        BY <3>1 DEF SentInv
    <2> QED
      BY <1>1, <1>3, <2>1, <2>2 DEF SentInv
  <1>6. LatestInv'
    <2>1. CASE client # g
      <3>1. client # 0 => client \in Servers
        BY SessionAssumption DEF TypeOK, RunTypeOK, Id0, Servers
      <3> QED
        BY <1>1, <1>3, <2>1, <3>1 DEF LatestInv, Has, AskedBefore
    <2>2. CASE client = g
      <3> SUFFICES ASSUME client # 0, server[client] = "up", ~AskedBefore(client, reqLine),
                          ~Has("spawn"), ~Has("breakpoints")
                   PROVE  /\ NoMore(t, 0) => installed'[g].line = lineBps
                          /\ \A i \in DOMAIN t : t[i].do = "breakpoints" /\ NoMore(t, i)
                                                   => t[i].bps.line = lineBps
        BY <1>1, <1>3, <2>2 DEF LatestInv, Has, AskedBefore
      <3>1. /\ NoMore(s, 0) => installed[g].line = lineBps
            /\ \A i \in DOMAIN s : s[i].do = "breakpoints" /\ NoMore(s, i)
                                     => s[i].bps.line = lineBps
        BY <2>2 DEF LatestInv
      <3>2. ASSUME NEW i \in 0..(Len(s) - 1), NoMore(t, i)
            PROVE  NoMore(s, i + 1)
        <4> SUFFICES ASSUME NEW j \in DOMAIN s, j > i + 1
                     PROVE  s[j].do # "breakpoints"
          BY DEF NoMore
        <4>1. j - 1 \in DOMAIN t /\ j - 1 > i /\ t[j - 1] = s[(j - 1) + 1] /\ (j - 1) + 1 = j
          BY <1>2
        <4> QED
          BY <3>2, <4>1 DEF NoMore
      <3>3. NoMore(t, 0) => installed'[g].line = lineBps
        <4>1. NoMore(t, 0) => NoMore(s, 0 + 1)
          BY <1>2, <3>2
        <4>2. CASE Head(s).do = "breakpoints"
          BY <1>2, <1>3, <3>1, <4>1, <4>2
        <4>3. CASE Head(s).do # "breakpoints"
          <5>1. NoMore(t, 0) => NoMore(s, 0)
            BY <1>2, <4>1, <4>3 DEF NoMore
          <5> QED
            BY <1>3, <3>1, <4>3, <5>1
        <4> QED
          BY <4>2, <4>3
      <3>4. ASSUME NEW i \in DOMAIN t, t[i].do = "breakpoints", NoMore(t, i)
            PROVE  t[i].bps.line = lineBps
        <4>1. i \in 0..(Len(s) - 1) /\ i + 1 \in DOMAIN s /\ t[i] = s[i + 1]
          BY <1>2
        <4> QED
          BY <3>1, <3>2, <3>4, <4>1
      <3> QED
        BY <3>3, <3>4
    <2> QED
      BY <2>1, <2>2
  <1> QED
    BY <1>4, <1>5, <1>6

\* Servers and connection threads: only what a plugin applies matters.
LEMMA OtherStepBps ==
  ASSUME TypeOK, MapInv, SentInv, LatestInv, ServerNext \/ ConnNext
  PROVE  MapInv' /\ SentInv' /\ LatestInv'
  <1>1. ASSUME NEW g \in Servers, Crash(g)
        PROVE  MapInv' /\ SentInv' /\ LatestInv'
    <2>1. /\ UNCHANGED <<todo, dbg, reqLine, lineBps, launched, early, lastId, client, build,
                         loaded, installed>>
          /\ server'[g] = "down" /\ chan'[g] = <<>>
          /\ \A h \in Servers : h # g => server'[h] = server[h] /\ chan'[h] = chan[h]
      BY <1>1 DEF Crash, mainVars, runVars, diskVars, TypeOK, ServerTypeOK
    <2>2. client # 0 => client \in Servers
      BY SessionAssumption DEF TypeOK, RunTypeOK, Id0, Servers
    <2>3. MapInv'
      BY <2>1 DEF MapInv, Has, Coming, Unresolved
    <2>4. SentInv'
      BY <2>1 DEF SentInv
    <2>5. LatestInv'
      BY <2>1, <2>2 DEF LatestInv, Has, AskedBefore
    <2> QED
      BY <2>3, <2>4, <2>5
  <1>2. CASE Compile
    <2>1. todo = <<>> /\ UNCHANGED <<todo, dbg, reqLine, lineBps, launched, early, lastId, client, loaded,
                                     installed, server, chan>>
      BY <1>2 DEF Compile, mainVars, runVars, plugVars
    <2>2. ~Has("spawn")
      BY <2>1 DEF Has
    <2> QED
      BY <2>1, <2>2 DEF MapInv, SentInv, LatestInv, Has, Coming, Unresolved, AskedBefore
  <1>3. ASSUME UNCHANGED <<todo, dbg, reqLine, lineBps, launched, early, lastId, client, build, loaded, installed,
                           server, chan>>
        PROVE  MapInv' /\ SentInv' /\ LatestInv'
    BY <1>3 DEF MapInv, SentInv, LatestInv, Has, Coming, Unresolved, AskedBefore
  <1>4. \/ Compile \/ \E g \in Servers : Apply(g) \/ Crash(g)
        \/ UNCHANGED <<todo, dbg, reqLine, lineBps, launched, early, lastId, client, build, loaded, installed,
                       server, chan>>
    BY DEF ServerNext, ConnectPlugin, Pause, EditSource, ConnNext, ConnStep, TakeLink, GiveUp, ReadLine,
           TellPause, SeeEof, ReportEnd, mainVars, runVars, diskVars, plugVars
  <1> QED
    BY <1>1, <1>2, <1>3, <1>4, ApplyKeepsBps

BpsInv == MapInv /\ SentInv /\ LatestInv

\* The map in hand, the sets on their way and the sets installed agree.
THEOREM BpsInvCorrect == Spec => []BpsInv
  <1>1. Init => BpsInv
    <2> SUFFICES ASSUME Init PROVE BpsInv
      OBVIOUS
    <2>1. ~Has("spawn") /\ ~Has("reserve")
      BY DEF Init, Has
    <2>2. MapInv
      BY <2>1, BpsOf DEF Init, MapInv, Coming
    <2>3. SentInv
      BY DEF Init, SentInv, Right, NoneInstalled
    <2>4. LatestInv
      BY DEF Init, LatestInv
    <2> QED
      BY <2>2, <2>3, <2>4 DEF BpsInv
  <1>2. SessionInv /\ BpsInv /\ [Next]_vars => BpsInv'
    <2> SUFFICES ASSUME SessionInv, BpsInv, [Next]_vars PROVE BpsInv'
      OBVIOUS
    <2>1. CASE UNCHANGED vars
      BY <2>1 DEF vars, mainVars, runVars, diskVars, plugVars, BpsInv, MapInv, SentInv, LatestInv, Has,
                  Coming, Unresolved, AskedBefore
    <2>2. CASE EditorNext
      <3>1. SentInv'
        <4>1. UNCHANGED <<loaded, chan, installed>>
          BY <2>2, EditorKeeps DEF plugVars
        <4>2. CASE UNCHANGED early
          BY <4>1, <4>2 DEF BpsInv, SentInv
        <4>3. CASE ~UNCHANGED early
          <5>1. ~launched
            BY <2>2, <4>3 DEF EditorNext, Launch, SetBreakpoints, SetFunctionBreakpoints,
                 ConfigurationDone, Terminate, Disconnect, Hangup, RestartAsksBuild, Restart
          <5>2. lastId \in Nat /\ lastId <= 0
            BY <5>1, SessionAssumption
               DEF BpsInv, MapInv, Coming, SessionInv, TypeOK, RunTypeOK, Id0
          <5>3. \A g \in Servers : installed[g] = NoneInstalled /\ chan[g] = <<>>
            BY <5>2 DEF SessionInv, ServerInv, Servers
          <5> QED
            BY <4>1, <5>3 DEF SentInv, Right, NoneInstalled
        <4> QED
          BY <4>2, <4>3
      <3> QED
        BY <2>2, <3>1, EditorStepMapInv, EditorStepLatestInv DEF SessionInv, BpsInv
    <2>3. CASE MainNext
      BY <2>3, MainStepMapInv, MainStepSentInv, MainStepLatestInv DEF SessionInv, BpsInv
    <2>4. CASE ServerNext \/ ConnNext
      BY <2>4, OtherStepBps DEF SessionInv, BpsInv
    <2> QED
      BY <2>1, <2>2, <2>3, <2>4 DEF Next
  <1> QED
    BY <1>1, <1>2, SessionInvCorrect, PTL DEF Spec

\* The line breakpoints a plugin holds are of the build its server loaded
\* (on_restart resolves them again), whatever the editor does and when; those
\* it asked for before the launch are excepted in the first server.
THEOREM LineBpsCorrect == Spec => []LineBpsMatchBuild
  <1>1. BpsInv => LineBpsMatchBuild
    BY DEF BpsInv, SentInv, Right, LineBpsMatchBuild, AskedBefore
  <1> QED
    BY <1>1, BpsInvCorrect, PTL

\* A plugin that has nothing more to apply holds the line breakpoints asked for
\* last, whichever server they were asked in; asked for before the launch, they
\* are there after the next restart.
THEOREM LatestBpsCorrect == Spec => []LatestBreakpointsInstalled
  <1>1. ASSUME TypeOK, ServerInv, BpsInv, client # 0, server[client] = "up", todo = <<>>,
               chan[client] = <<>>, ~AskedBefore(client, reqLine)
        PROVE  installed[client].line = Bps(reqLine, dbg)
    <2>1. ~Has("spawn") /\ ~Has("breakpoints") /\ NoMore(chan[client], 0)
      BY <1>1 DEF Has, NoMore
    <2>2. client \in Servers /\ client <= lastId /\ lastId <= Coming
      BY <1>1, SessionAssumption DEF TypeOK, RunTypeOK, Id0, Servers, ServerInv, Coming
    <2>3. ~Unresolved
      <3>1. client \in Nat \ {0} /\ lastId \in Nat
        BY <1>1, <2>2, SessionAssumption DEF Servers, TypeOK, RunTypeOK, Id0
      <3> QED
        BY <1>1, <2>2, <3>1 DEF Unresolved, AskedBefore
    <2> QED
      BY <1>1, <2>1, <2>3 DEF BpsInv, LatestInv, MapInv
  <1>2. SessionInv /\ BpsInv => LatestBreakpointsInstalled
    BY <1>1 DEF LatestBreakpointsInstalled, SessionInv
  <1> QED
    BY <1>2, SessionInvCorrect, BpsInvCorrect, PTL
=============================================================================
