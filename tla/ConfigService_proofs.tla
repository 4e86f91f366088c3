------------------------ MODULE ConfigService_proofs ------------------------
(***************************************************************************)
(* Theorems about the configuration service, for any set of projects and   *)
(* any number of requests and edits.                                       *)
(*                                                                         *)
(* The types come first, with the fact that nobody works before a project  *)
(* is open.  ConfigInv then orders the copies of a file: the disk is not   *)
(* older than the manager, nor the manager than the listeners.             *)
(***************************************************************************)
EXTENDS ConfigService, TLAPS

TypeInv == ConfigTypeOK /\ OpenFirst

\* The service starts with every variable in its type and no project.
LEMMA InitTypes == ConfigInit => TypeInv
  <1> SUFFICES ASSUME ConfigInit PROVE TypeInv
    OBVIOUS
  <1>1. /\ pc \in [Threads -> RpcState \cup WatcherState]
        /\ pc["rpc"] = "idle" /\ pc["watcher"] = "none"
    BY DEF ConfigInit, Threads, RpcState, WatcherState
  <1>2. /\ OpenFirst
        /\ \A t \in Threads : lock = t <=> pc[t] \in {"building", "sending"}
    BY <1>1 DEF OpenFirst, ConfigInit, Threads
  <1> QED
    BY <1>1, <1>2 DEF ConfigInit, TypeInv, ConfigTypeOK, RpcState, WatcherState

\* An open project is one of the projects, and it has a configuration.
LEMMA OpenIsConfig == ASSUME ConfigTypeOK, ProjectOpen PROVE manager \in Config
  BY DEF ConfigTypeOK, ProjectOpen

\* The stamps of an open project are versions of its files.
LEMMA SeenOfType == ASSUME ConfigTypeOK, ProjectOpen PROVE SeenOf \in Versions
  BY OpenIsConfig DEF SeenOf, Versions, Config, ConfigTypeOK

\* A project is loaded from versions of its files.
LEMMA LoadType ==
  ASSUME NEW r \in Roots, user' \in Nat, project' \in [Roots -> Nat]
  PROVE  Load(r) \in Config
  BY DEF Load, Config

\* A request that is announced keeps the types if what it read and wrote has
\* them: the rest is where the threads are.
LEMMA AnnouncedKeepsTypes ==
  ASSUME TypeInv, Request, Announced,
         user' \in Nat, project' \in [Roots -> Nat], list' \in [Roots -> Nat],
         manager' \in Config, opening' \in BOOLEAN
  PROVE  TypeInv'
  <1>1. /\ pc' \in [Threads -> RpcState \cup WatcherState]
        /\ pc'["rpc"] = "announcing" /\ pc'["watcher"] = pc["watcher"]
    BY DEF TypeInv, ConfigTypeOK, Announced, Threads, RpcState
  <1>2. manager' # NoConfig
    BY ConfigAssumption DEF Config, NoConfig
  <1>3. \A t \in Threads : lock' = t <=> pc'[t] \in {"building", "sending"}
    BY <1>1 DEF TypeInv, ConfigTypeOK, Request, Free, Threads
  <1>4. /\ seen' = seen /\ lock' = lock /\ told' = told /\ built' = built
        /\ current' = current /\ edits' = edits /\ mine' = manager'
        /\ ops' \in Nat
    BY DEF Request, Announced, TypeInv, ConfigTypeOK
  <1> QED
    BY <1>1, <1>2, <1>3, <1>4
       DEF TypeInv, ConfigTypeOK, OpenFirst, ProjectOpen, RpcState

\* A request keeps the types.
LEMMA RequestsKeepTypes == ASSUME TypeInv, ConfigRequests PROVE TypeInv'
  <1>0. ConfigTypeOK
    BY DEF TypeInv
  <1>1. ASSUME NEW r \in Roots, Open(r) PROVE TypeInv'
    <2>1. UNCHANGED diskVars /\ opening' \in BOOLEAN /\ Request /\ Announced
      BY <1>1 DEF Open
    <2>2. manager' \in Config
      BY <1>0, <1>1, <2>1, LoadType DEF Open, ConfigTypeOK, diskVars
    <2> QED
      BY <1>0, <2>1, <2>2, AnnouncedKeepsTypes DEF ConfigTypeOK, diskVars
  <1>2. CASE Reload
    <2>1. /\ UNCHANGED <<diskVars, opening>> /\ Request /\ Announced
          /\ manager \in Config
      BY <1>0, <1>2, OpenIsConfig DEF Reload
    <2>2. manager' \in Config
      BY <1>0, <1>2, <2>1, LoadType DEF Reload, ConfigTypeOK, diskVars, Config
    <2> QED
      BY <1>0, <2>1, <2>2, AnnouncedKeepsTypes DEF ConfigTypeOK, diskVars
  <1>3. CASE WriteKeys
    <2>1. /\ UNCHANGED <<list, opening>> /\ Request /\ Announced
          /\ manager.root \in Roots
      BY <1>0, <1>3, OpenIsConfig DEF WriteKeys, Config
    <2>2. user' \in Nat /\ project' \in [Roots -> Nat]
      BY <1>0, <1>3, <2>1 DEF WriteKeys, ConfigTypeOK
    <2>3. manager' \in Config
      BY <1>3, <2>1, <2>2, LoadType DEF WriteKeys
    <2> QED
      BY <1>0, <2>1, <2>2, <2>3, AnnouncedKeepsTypes DEF ConfigTypeOK
  <1>4. CASE UpdateNothing
    <2>1. /\ UNCHANGED <<diskVars, manager, opening>> /\ Request /\ Announced
          /\ manager \in Config
      BY <1>0, <1>4, OpenIsConfig DEF UpdateNothing
    <2> QED
      BY <1>0, <2>1, AnnouncedKeepsTypes DEF ConfigTypeOK, diskVars
  <1>5. CASE Migrate
    <2>1. /\ UNCHANGED <<user, opening>> /\ Request /\ Announced
          /\ manager \in Config /\ manager.root \in Roots
      BY <1>0, <1>5, OpenIsConfig DEF Migrate, Config
    <2>2. list' \in [Roots -> Nat] /\ project' \in [Roots -> Nat]
      BY <1>0, <1>5, <2>1 DEF Migrate, ConfigTypeOK
    <2>3. manager' \in Config
      BY <1>0, <1>5, <2>1, <2>2, LoadType DEF Migrate, ConfigTypeOK
    <2> QED
      BY <1>0, <2>1, <2>2, <2>3, AnnouncedKeepsTypes DEF ConfigTypeOK
  <1>6. CASE EnsureFiles
    <2>1. manager.root \in Roots
      BY <1>0, <1>6, OpenIsConfig DEF EnsureFiles, Config
    <2> QED
      BY <1>6, <2>1
         DEF EnsureFiles, Request, TypeInv, ConfigTypeOK, OpenFirst, ProjectOpen
  <1> QED
    BY <1>1, <1>2, <1>3, <1>4, <1>5, <1>6 DEF ConfigRequests

\* An announcement keeps the types.
LEMMA AnnounceKeepsTypes ==
  ASSUME TypeInv, NEW t \in Threads, Announce(t)
  PROVE  TypeInv'
  <1>0. ProjectOpen
    BY DEF Announce, Stamp, Build, HandOver, TypeInv, OpenFirst
  <1>1. CASE Stamp(t)
    BY <1>0, <1>1, SeenOfType
       DEF Stamp, TypeInv, ConfigTypeOK, OpenFirst, ProjectOpen, Free, Threads, RpcState,
           WatcherState, diskVars, countVars
  <1>2. CASE Build(t)
    <2>1. built' \in [Threads -> Versions \cup {NoFiles}]
      BY <1>0, <1>2, OpenIsConfig DEF Build, TypeInv, ConfigTypeOK, Config, Versions
    <2> QED
      BY <1>0, <1>2, <2>1
         DEF Build, TypeInv, ConfigTypeOK, OpenFirst, ProjectOpen, Threads, RpcState,
             WatcherState, diskVars, countVars
  <1>3. CASE HandOver(t)
    <2>1. /\ t = "watcher" => pc' = [pc EXCEPT !["watcher"] = "sleeping"]
          /\ t = "rpc" => \/ pc' = [pc EXCEPT !["rpc"] = "watching"]
                          \/ pc' = [pc EXCEPT !["rpc"] = "idle"]
      BY <1>3 DEF HandOver, TypeInv, ConfigTypeOK
    <2>2. /\ pc' \in [Threads -> RpcState \cup WatcherState]
          /\ pc'["rpc"] \in RpcState /\ pc'["watcher"] \in WatcherState
      BY <2>1 DEF TypeInv, ConfigTypeOK, Threads, RpcState, WatcherState
    <2>3. \A u \in Threads : lock' = u <=> pc'[u] \in {"building", "sending"}
      BY <1>3, <2>1 DEF HandOver, TypeInv, ConfigTypeOK, Threads
    <2>4. told' \in Versions \cup {NoFiles}
          /\ built' \in [Threads -> Versions \cup {NoFiles}]
      BY <1>3 DEF HandOver, TypeInv, ConfigTypeOK
    <2> QED
      BY <1>0, <1>3, <2>2, <2>3, <2>4
         DEF HandOver, TypeInv, ConfigTypeOK, OpenFirst, ProjectOpen, diskVars, countVars
  <1> QED
    BY <1>1, <1>2, <1>3 DEF Announce

\* The watcher, its creation and the developer keep the types.
LEMMA OthersKeepTypes ==
  ASSUME TypeInv, Watch \/ Poll \/ EditFile
  PROVE  TypeInv'
  <1>1. CASE Watch
    BY <1>1
       DEF Watch, TypeInv, ConfigTypeOK, OpenFirst, ProjectOpen, Threads, RpcState,
           WatcherState, diskVars, countVars
  <1>2. CASE PollLooks
    <2>1. ProjectOpen
      BY <1>2 DEF PollLooks, TypeInv, OpenFirst, Threads
    <2> QED
      BY <1>2, <2>1, SeenOfType
         DEF PollLooks, TypeInv, ConfigTypeOK, OpenFirst, ProjectOpen, Threads, RpcState,
             WatcherState, diskVars, countVars
  <1>3. CASE PollCompares
    BY <1>3
       DEF PollCompares, TypeInv, ConfigTypeOK, OpenFirst, ProjectOpen, Threads, RpcState,
           WatcherState, diskVars, countVars
  <1>4. CASE PollReloads
    <2>1. ProjectOpen
      BY <1>4 DEF PollReloads, TypeInv, OpenFirst, Threads
    <2> QED
      BY <1>4, <2>1, LoadType, OpenIsConfig, ConfigAssumption
         DEF PollReloads, TypeInv, ConfigTypeOK, OpenFirst, ProjectOpen, Threads, RpcState,
             WatcherState, Config, NoConfig, diskVars, countVars
  <1>5. CASE EditFile
    BY <1>5
       DEF EditFile, TypeInv, ConfigTypeOK, OpenFirst, ProjectOpen, Threads, threadVars
  <1> QED
    BY <1>1, <1>2, <1>3, <1>4, <1>5 DEF Poll

\* Every variable has its type, whatever the number of projects, requests and
\* edits, and nobody announces or watches before a project is open.
THEOREM ConfigTypeCorrect == ConfigSpec => [](ConfigTypeOK /\ OpenFirst)
  <1>1. TypeInv /\ UNCHANGED configVars => TypeInv'
    BY DEF configVars, diskVars, threadVars, countVars, TypeInv, ConfigTypeOK, OpenFirst,
           ProjectOpen
  <1>2. TypeInv /\ [ConfigNext]_configVars => TypeInv'
    BY <1>1, RequestsKeepTypes, AnnounceKeepsTypes, OthersKeepTypes DEF ConfigNext
  <1> QED
    BY InitTypes, <1>2, PTL DEF ConfigSpec, TypeInv

-----------------------------------------------------------------------------
(***************************************************************************)
(* The copies of the files.                                                *)
(***************************************************************************)

\* The files on the disk are not older than what was read of them.
DiskInv ==
  /\ manager.root \in Roots =>
       manager.user <= user /\ manager.project <= project[manager.root]
  /\ told.root \in Roots =>
       /\ told.user <= user
       /\ told.project <= project[told.root]
       /\ told.list <= list[told.root]

\* The manager is not older than what the listeners know of its project.
ToldInv ==
  told.root = manager.root => told.user <= manager.user
                              /\ told.project <= manager.project

\* What is being sent is what the manager holds, and it is not older than
\* what the listeners know: nobody changes either while the mutex is held.
SendInv ==
  \A t \in Threads : pc[t] = "sending" =>
    /\ built[t].root = manager.root
    /\ built[t].user = manager.user
    /\ built[t].project = manager.project
    /\ built[t].list <= list[manager.root]
    /\ told.root = manager.root => told.list <= built[t].list

\* The manager covers the last request, and so do the listeners once it was
\* announced.
RequestInv ==
  /\ Covers(manager, mine)
  /\ pc["rpc"] \in {"idle", "watching"} => Covers(told, mine)

ConfigInv == DiskInv /\ ToldInv /\ SendInv /\ RequestInv /\ ListenersAgree

\* Nothing was read and nothing told.
LEMMA InitConfigInv == ConfigInit => ConfigInv
  <1> SUFFICES ASSUME ConfigInit PROVE ConfigInv
    OBVIOUS
  <1>1. DiskInv /\ ToldInv /\ ListenersAgree
    BY ConfigAssumption
       DEF ConfigInit, DiskInv, ToldInv, ListenersAgree, NoConfig, NoFiles
  <1>2. SendInv /\ RequestInv
    BY DEF ConfigInit, SendInv, RequestInv, Covers, NoConfig, NoFiles, Threads
  <1> QED
    BY <1>1, <1>2 DEF ConfigInv

\* The files only get newer.
Newer ==
  /\ user' >= user
  /\ \A r \in Roots : project'[r] >= project[r] /\ list'[r] >= list[r]

\* The lists of the files that a step may leave alone or make newer.
LEMMA FilesKeepCopies ==
  ASSUME TypeInv, TypeInv', ConfigInv, Newer, UNCHANGED <<told, manager>>
  PROVE  DiskInv' /\ ToldInv'
  <1>1. ToldInv'
    BY DEF ConfigInv, ToldInv
  <1>2. DiskInv'
    BY DEF ConfigInv, DiskInv, Newer, TypeInv, ConfigTypeOK, Config, Versions,
           NoConfig, NoFiles
  <1> QED
    BY <1>1, <1>2

\* Loading a project keeps the order of the copies, and loading the one that
\* is open makes the manager newer.
LEMMA LoadKeepsCopies ==
  ASSUME TypeInv, TypeInv', ConfigInv, Newer, UNCHANGED told,
         NEW r \in Roots, manager' = Load(r)
  PROVE  /\ DiskInv' /\ ToldInv'
         /\ r = manager.root => Covers(manager', manager)
  <1>1. /\ manager'.root = r /\ manager'.user = user'
        /\ manager'.project = project'[r]
    BY DEF Load
  <1>2. DiskInv'
    BY <1>1
       DEF ConfigInv, DiskInv, Newer, TypeInv, ConfigTypeOK, Versions, NoFiles
  <1>3. ToldInv'
    BY <1>1, <1>2 DEF ToldInv, DiskInv
  <1>4. r = manager.root => Covers(manager', manager)
    BY <1>1
       DEF Covers, ConfigInv, DiskInv, Newer, TypeInv, ConfigTypeOK, Config, NoConfig
  <1> QED
    BY <1>2, <1>3, <1>4

\* Nobody sends while the manager is free, and the holder sends alone.
LEMMA HolderSends ==
  ASSUME TypeInv
  PROVE  /\ Free => \A t \in Threads : pc[t] \notin {"building", "sending"}
         /\ \A t, u \in Threads :
              {pc[t], pc[u]} \subseteq {"building", "sending"} => t = u
  BY DEF TypeInv, ConfigTypeOK, Free, Threads

\* Versions are compared with themselves.
LEMMA CoversItself == ASSUME TypeInv PROVE Covers(manager, manager)
  BY DEF Covers, TypeInv, ConfigTypeOK, Config, NoConfig

\* An announced request keeps the invariant if the copies are in order: the
\* rest is that it will be announced.
LEMMA AnnouncedKeepsInv ==
  ASSUME TypeInv, TypeInv', ConfigInv, Request, Announced, DiskInv', ToldInv'
  PROVE  ConfigInv'
  <1>1. pc'["rpc"] = "announcing"
    BY DEF Announced, TypeInv, ConfigTypeOK, Threads
  <1>2. SendInv'
    <2>1. \A t \in Threads : pc'[t] # "sending"
      BY <1>1, HolderSends DEF Request, Announced, TypeInv, ConfigTypeOK, Threads
    <2> QED
      BY <2>1 DEF SendInv
  <1>3. RequestInv'
    <2>1. Covers(manager', manager')
      BY DEF Covers, TypeInv, ConfigTypeOK, Config, NoConfig
    <2> QED
      BY <1>1, <2>1 DEF RequestInv, Announced, Covers
  <1>4. ListenersAgree'
    BY <1>1 DEF ListenersAgree, Announcing, Threads
  <1> QED
    BY <1>2, <1>3, <1>4 DEF ConfigInv

\* Requests keep the invariant.
LEMMA RequestsKeepInv ==
  ASSUME TypeInv, TypeInv', ConfigInv, ConfigRequests
  PROVE  ConfigInv'
  <1>0. ConfigTypeOK /\ ConfigTypeOK'
    BY DEF TypeInv
  <1>1. ASSUME NEW r \in Roots, Open(r) PROVE ConfigInv'
    <2>1. /\ Request /\ Announced /\ UNCHANGED <<told, diskVars>>
          /\ manager' = Load(r)
      BY <1>1 DEF Open, Request
    <2>2. Newer
      BY <1>0, <2>1 DEF Newer, ConfigTypeOK, diskVars
    <2> QED
      BY <2>1, <2>2, LoadKeepsCopies, AnnouncedKeepsInv
  <1>2. CASE Reload
    <2>1. /\ Request /\ Announced /\ UNCHANGED <<told, diskVars>>
          /\ manager' = Load(manager.root) /\ manager.root \in Roots
      BY <1>0, <1>2, OpenIsConfig DEF Reload, Request, Config
    <2>2. Newer
      BY <1>0, <2>1 DEF Newer, ConfigTypeOK, diskVars
    <2> QED
      BY <2>1, <2>2, LoadKeepsCopies, AnnouncedKeepsInv
  <1>3. CASE WriteKeys
    <2>1. /\ Request /\ Announced /\ UNCHANGED <<told, list>>
          /\ manager' = Load(manager.root) /\ manager.root \in Roots
      BY <1>0, <1>3, OpenIsConfig DEF WriteKeys, Request, Config
    <2>2. Newer
      BY <1>0, <1>3, <2>1 DEF WriteKeys, Newer, ConfigTypeOK
    <2> QED
      BY <2>1, <2>2, LoadKeepsCopies, AnnouncedKeepsInv
  <1>4. CASE UpdateNothing
    <2>1. /\ Request /\ Announced /\ UNCHANGED <<told, diskVars, manager>>
      BY <1>4 DEF UpdateNothing, Request
    <2>2. Newer
      BY <1>0, <2>1 DEF Newer, ConfigTypeOK, diskVars
    <2> QED
      BY <2>1, <2>2, FilesKeepCopies, AnnouncedKeepsInv
  <1>5. CASE Migrate
    <2>1. /\ Request /\ Announced /\ UNCHANGED <<told, user>>
          /\ manager.root \in Roots
      BY <1>0, <1>5, OpenIsConfig DEF Migrate, Request, Config
    <2>2. Newer
      BY <1>0, <1>5, <2>1 DEF Migrate, Newer, ConfigTypeOK
    <2>3. UNCHANGED manager \/ manager' = Load(manager.root)
      BY <1>5 DEF Migrate
    <2> QED
      BY <2>1, <2>2, <2>3, FilesKeepCopies, LoadKeepsCopies, AnnouncedKeepsInv
  <1>6. CASE EnsureFiles
    <2>1. /\ Free /\ UNCHANGED <<told, user, project, manager, pc, mine, built>>
          /\ manager.root \in Roots
      BY <1>0, <1>6, OpenIsConfig DEF EnsureFiles, Request, Config
    <2>2. Newer
      BY <1>0, <1>6, <2>1 DEF EnsureFiles, Newer, ConfigTypeOK
    <2>3. SendInv'
      BY <2>1, HolderSends DEF SendInv
    <2>4. RequestInv' /\ ListenersAgree'
      BY <2>1 DEF ConfigInv, RequestInv, Covers, ListenersAgree, Announcing
    <2> QED
      BY <2>1, <2>2, <2>3, <2>4, FilesKeepCopies DEF ConfigInv
  <1> QED
    BY <1>1, <1>2, <1>3, <1>4, <1>5, <1>6 DEF ConfigRequests

\* An announcement keeps the invariant.
LEMMA AnnounceKeepsInv ==
  ASSUME TypeInv, TypeInv', ConfigInv, NEW t \in Threads, Announce(t)
  PROVE  ConfigInv'
  <1>0. /\ ConfigTypeOK /\ ConfigTypeOK' /\ UNCHANGED <<diskVars, manager, mine>>
        /\ manager \in Config /\ manager.root \in Roots
    BY OpenIsConfig
       DEF Announce, Stamp, Build, HandOver, TypeInv, OpenFirst, Config
  <1>1. CASE Stamp(t)
    <2>1. /\ UNCHANGED <<told, built>> /\ pc[t] = "announcing"
          /\ pc' = [pc EXCEPT ![t] = "building"]
      BY <1>1 DEF Stamp
    <2>2. SendInv'
      BY <1>0, <2>1 DEF ConfigInv, SendInv, ConfigTypeOK, diskVars
    <2>3. RequestInv' /\ ListenersAgree'
      BY <1>0, <2>1
         DEF ConfigInv, RequestInv, Covers, ListenersAgree, Announcing, ConfigTypeOK
    <2> QED
      BY <1>0, <2>1, <2>2, <2>3
         DEF ConfigInv, DiskInv, ToldInv, diskVars
  <1>2. CASE Build(t)
    <2>1. /\ UNCHANGED told /\ pc[t] = "building"
          /\ pc' = [pc EXCEPT ![t] = "sending"]
          /\ built' = [built EXCEPT ![t] =
               [root |-> manager.root, user |-> manager.user,
                project |-> manager.project, list |-> list[manager.root]]]
      BY <1>2 DEF Build
    <2>2. SendInv'
      <3> SUFFICES ASSUME NEW u \in Threads, pc'[u] = "sending"
                   PROVE  u = t
        BY <1>0, <2>1 DEF ConfigInv, DiskInv, SendInv, ConfigTypeOK, diskVars
      <3> QED
        BY <1>0, <2>1, HolderSends DEF ConfigTypeOK
    <2>3. RequestInv' /\ ListenersAgree'
      BY <1>0, <2>1
         DEF ConfigInv, RequestInv, Covers, ListenersAgree, Announcing, ConfigTypeOK
    <2> QED
      BY <1>0, <2>1, <2>2, <2>3
         DEF ConfigInv, DiskInv, ToldInv, diskVars
  <1>3. CASE HandOver(t)
    <2>1. /\ told'.root = manager.root /\ told'.user = manager.user
          /\ told'.project = manager.project
          /\ told'.list <= list[manager.root]
          /\ pc[t] = "sending"
      BY <1>3 DEF HandOver, ConfigInv, SendInv
    <2>2. /\ pc'[t] # "sending"
          /\ \A u \in Threads : u # t => pc'[u] = pc[u]
      BY <1>0, <1>3 DEF HandOver, ConfigTypeOK, Threads
    <2>3. DiskInv' /\ ToldInv'
      BY <1>0, <2>1 DEF ConfigInv, DiskInv, ToldInv, Config, diskVars
    <2>4. SendInv'
      BY <2>1, <2>2, HolderSends DEF SendInv
    <2>5. RequestInv' /\ ListenersAgree'
      BY <1>0, <2>1
         DEF ConfigInv, RequestInv, Covers, ListenersAgree
    <2> QED
      BY <2>3, <2>4, <2>5 DEF ConfigInv
  <1> QED
    BY <1>1, <1>2, <1>3 DEF Announce

\* The creation of the watcher, its rounds and the developer keep the
\* invariant.
LEMMA OthersKeepInv ==
  ASSUME TypeInv, TypeInv', ConfigInv, Watch \/ Poll \/ EditFile
  PROVE  ConfigInv'
  <1>0. ConfigTypeOK /\ ConfigTypeOK'
    BY DEF TypeInv
  <1>1. CASE Watch \/ PollLooks \/ PollCompares
    <2>1. UNCHANGED <<diskVars, manager, told, built, mine>>
      BY <1>1 DEF Watch, PollLooks, PollCompares
    <2>2. /\ \A t \in Threads :
               \/ pc'[t] = pc[t]
               \/ {pc[t], pc'[t]} \cap {"announcing", "building", "sending"} = {}
          /\ pc'["rpc"] = pc["rpc"] \/ pc["rpc"] = "watching"
      BY <1>0, <1>1 DEF Watch, PollLooks, PollCompares, ConfigTypeOK, Threads
    <2>3. SendInv'
      BY <2>1, <2>2 DEF ConfigInv, SendInv, diskVars
    <2>4. RequestInv' /\ ListenersAgree'
      BY <2>1, <2>2
         DEF ConfigInv, RequestInv, Covers, ListenersAgree, Announcing
    <2> QED
      BY <2>1, <2>3, <2>4 DEF ConfigInv, DiskInv, ToldInv, diskVars
  <1>2. CASE PollReloads
    <2>1. /\ Free /\ UNCHANGED <<diskVars, told, built, mine>>
          /\ pc' = [pc EXCEPT !["watcher"] = "announcing"]
          /\ manager' = Load(manager.root) /\ manager.root \in Roots
      BY <1>0, <1>2, OpenIsConfig
         DEF PollReloads, TypeInv, OpenFirst, Threads, Config
    <2>2. Newer
      BY <1>0, <2>1 DEF Newer, ConfigTypeOK, diskVars
    <2>3. DiskInv' /\ ToldInv' /\ Covers(manager', manager)
      BY <2>1, <2>2, LoadKeepsCopies
    <2>4. SendInv'
      BY <1>0, <2>1, HolderSends DEF SendInv, ConfigTypeOK, Threads
    <2>5. pc'["rpc"] = pc["rpc"] /\ Announcing'
      BY <1>0, <2>1 DEF Announcing, ConfigTypeOK, Threads
    <2>6. RequestInv'
      BY <1>0, <2>1, <2>3, <2>5
         DEF ConfigInv, RequestInv, Covers, ConfigTypeOK, Config, NoConfig
    <2> QED
      BY <2>3, <2>4, <2>5, <2>6 DEF ConfigInv, ListenersAgree
  <1>3. CASE EditFile
    <2>1. UNCHANGED <<manager, told, pc, built, mine>>
      BY <1>3 DEF EditFile, threadVars
    <2>2. Newer
      BY <1>0, <1>3 DEF EditFile, Newer, ConfigTypeOK
    <2>3. SendInv'
      BY <1>0, <2>1, <2>2, OpenIsConfig
         DEF ConfigInv, SendInv, Newer, TypeInv, OpenFirst, ConfigTypeOK, Config,
             Versions, NoFiles
    <2>4. RequestInv' /\ ListenersAgree'
      BY <2>1 DEF ConfigInv, RequestInv, Covers, ListenersAgree, Announcing
    <2> QED
      BY <2>1, <2>2, <2>3, <2>4, FilesKeepCopies DEF ConfigInv
  <1> QED
    BY <1>1, <1>2, <1>3 DEF Poll

\* The copies of the files stay in order: the disk, the manager, what is
\* being sent and what the listeners know.
THEOREM ConfigInvCorrect == ConfigSpec => []ConfigInv
  <1>1. ConfigInv /\ UNCHANGED configVars => ConfigInv'
    BY DEF configVars, diskVars, threadVars, ConfigInv, DiskInv, ToldInv, SendInv,
           RequestInv, Covers, ListenersAgree, Announcing
  <1>2. TypeInv /\ TypeInv' /\ ConfigInv /\ [ConfigNext]_configVars => ConfigInv'
    BY <1>1, RequestsKeepInv, AnnounceKeepsInv, OthersKeepInv DEF ConfigNext
  <1>3. ConfigSpec => []TypeInv
    BY ConfigTypeCorrect DEF TypeInv
  <1> QED
    BY <1>2, <1>3, InitConfigInv, PTL DEF ConfigSpec

\* When nobody is about to announce, the listeners know what the manager
\* holds (ConfigService::changed).
THEOREM ListenersAgreeCorrect == ConfigSpec => []ListenersAgree
  BY ConfigInvCorrect, PTL DEF ConfigInv

\* When a request is answered the listeners know what it read or wrote
\* (ConfigService::open, update).
THEOREM AnsweredIsToldCorrect == ConfigSpec => []AnsweredIsTold
  <1>1. ConfigInv => AnsweredIsTold
    BY DEF ConfigInv, RequestInv, AnsweredIsTold
  <1> QED
    BY <1>1, ConfigInvCorrect, PTL

\* The service implements the register: the listeners are told the open
\* project, and never an older file of it (ConfigService::changed, deliver).
THEOREM RegisterCorrect == ConfigSpec => OneRegister
  <1>1. ASSUME TypeInv, ConfigInv, [ConfigNext]_configVars
        PROVE  [Register!RegNext]_<<manager.root, told>>
    <2>1. ASSUME NEW t \in Threads, HandOver(t) PROVE Register!Tell
      <3>1. /\ UNCHANGED manager /\ told' = built[t] /\ pc[t] = "sending"
            /\ manager \in Config
        BY <1>1, <2>1, OpenIsConfig DEF HandOver, TypeInv, OpenFirst
      <3>2. /\ told'.root = manager.root
            /\ told.root = manager.root =>
                 /\ told'.user >= told.user /\ told'.project >= told.project
                 /\ told'.list >= told.list
        BY <1>1, <3>1
           DEF ConfigInv, SendInv, ToldInv, TypeInv, ConfigTypeOK, Config, Versions,
               NoFiles
      <3> QED
        BY <3>1, <3>2 DEF Register!Tell, Register!NotOlder
    <2>2. (\E t \in Threads : HandOver(t)) \/ UNCHANGED told
      BY <1>1
         DEF ConfigNext, configVars, ConfigRequests, Open, Reload, WriteKeys, UpdateNothing,
             Migrate, EnsureFiles, Request, Watch, Poll, PollLooks,
             PollCompares, PollReloads, EditFile, Announce, Stamp, Build
    <2> QED
      BY <2>1, <2>2 DEF Register!RegNext, Register!OpenProject
  <1>2. ConfigSpec => []TypeInv
    BY ConfigTypeCorrect DEF TypeInv
  <1> QED
    BY <1>1, <1>2, ConfigInvCorrect, PTL
       DEF ConfigSpec, OneRegister, Register!RegSpec, Register!regVars
=============================================================================
