--------------------------- MODULE ConfigService ----------------------------
(***************************************************************************)
(* The configuration of the open project: who reads it, who writes it and  *)
(* who is told (config/service.rs, config/manager.rs).                     *)
(*                                                                         *)
(*  - the RPC thread opens a project, writes keys, migrates lists, reloads *)
(*    and then announces what the manager holds;                           *)
(*  - the watcher compares the stamps of the files with those of the last  *)
(*    announcement and, when they differ, reloads and announces;           *)
(*  - the developer edits the files at any time.                           *)
(*                                                                         *)
(* A file is its version: every write gives it a new one, and its stamp is *)
(* that version (the clock of the file system tells two writes apart).     *)
(* Only the order of the accesses to one file matters, so the files are    *)
(* read together, and stamped together, in one step.  The mutex of the     *)
(* manager appears where a section holds it over several steps.            *)
(***************************************************************************)
EXTENDS Naturals

CONSTANTS
  Roots,      \* the folders of the projects
  NoRoot,     \* stands for no project
  MaxSaves,   \* bound: edits made by the developer
  MaxOps      \* bound: requests to the core

ASSUME ConfigAssumption ==
  /\ NoRoot \notin Roots
  /\ MaxSaves \in Nat /\ MaxOps \in Nat

VARIABLES
  \* the disk
  user,      \* version of ~/.pawnpro/config.json
  project,   \* version of .pawnpro/config.json of each project
  list,      \* version of its list of names; 0 when it does not exist
  \* ConfigService
  manager,   \* the two files as the manager read them
  seen,      \* the stamps the last announcement covered
  lock,      \* who holds the manager over several steps
  told,      \* what the listeners were told
  \* the threads
  pc,        \* where each of them is
  built,     \* the settings each of them built to hand to the listeners
  current,   \* the stamps the watcher found in this round
  opening,   \* is the request an open?
  mine,      \* what the manager held right after the last request
  ops,       \* requests so far
  edits      \* edits so far

diskVars   == <<user, project, list>>
threadVars == <<pc, built>>
countVars  == <<ops, edits>>
configVars == <<diskVars, manager, seen, lock, told, threadVars, current, opening,
          mine, countVars>>

-----------------------------------------------------------------------------
Threads == {"rpc", "watcher"}

\* "announcing" has changed the manager and waits to announce it; "building"
\* and "sending" hold the mutex; "none" is the watcher before it is spawned.
RpcState     == {"idle", "announcing", "building", "sending", "watching"}
WatcherState == {"none", "sleeping", "comparing", "reloading",
                 "announcing", "building", "sending"}

\* The files of a project, as versions: in the manager, in the stamps, in the
\* settings of the listeners.
Config == [root : Roots, user : Nat, project : Nat]
Versions  == [root : Roots, user : Nat, project : Nat, list : Nat]
NoConfig == [root |-> NoRoot, user |-> 0, project |-> 0]
NoFiles  == [root |-> NoRoot, user |-> 0, project |-> 0, list |-> 0]

ProjectOpen == manager # NoConfig
Free   == lock = "none"

ConfigInit ==
  /\ user = 0 /\ project = [r \in Roots |-> 0] /\ list = [r \in Roots |-> 0]
  /\ manager = NoConfig /\ seen = NoFiles /\ told = NoFiles
  /\ lock = "none"
  /\ pc = [t \in Threads |-> IF t = "rpc" THEN "idle" ELSE "none"]
  /\ built = [t \in Threads |-> NoFiles]
  /\ current = NoFiles /\ opening = FALSE /\ mine = NoConfig
  /\ ops = 0 /\ edits = 0

\* ConfigManager::reload, from the files as the step leaves them.
Load(r) == [root |-> r, user |-> user', project |-> project'[r]]

\* seen_of: the stamps of the files of the project the manager has open.
SeenOf == [root |-> manager.root, user |-> user,
           project |-> project[manager.root], list |-> list[manager.root]]

-----------------------------------------------------------------------------
(***************************************************************************)
(* The requests, up to the announcement.                                   *)
(***************************************************************************)
Request ==
  /\ pc["rpc"] = "idle"
  /\ Free
  /\ ops < MaxOps
  /\ ops' = ops + 1
  /\ UNCHANGED <<seen, lock, told, built, current, edits>>

\* Every change is announced, whether or not it read the files again.
Announced ==
  /\ pc' = [pc EXCEPT !["rpc"] = "announcing"]
  /\ mine' = manager'

\* open: config.open and engine.start.
Open(r) ==
  /\ Request
  /\ UNCHANGED diskVars
  /\ manager' = Load(r)
  /\ Announced
  /\ opening' = TRUE

\* reload: config.reload.
Reload ==
  /\ Request
  /\ ProjectOpen
  /\ UNCHANGED <<diskVars, opening>>
  /\ manager' = Load(manager.root)
  /\ Announced

\* A faulty write that leaves it to the watcher to announce it.
WriteKeysUnannounced ==
  /\ Request
  /\ ProjectOpen
  /\ \/ user' = user + 1 /\ UNCHANGED project
     \/ project' = [project EXCEPT ![manager.root] = @ + 1] /\ UNCHANGED user
  /\ manager' = Load(manager.root)
  /\ mine' = manager'
  /\ UNCHANGED <<list, opening, pc>>

\* set_keys, or delete_key of a key that is there, in either scope.
WriteKeys ==
  /\ Request
  /\ ProjectOpen
  /\ \/ user' = user + 1 /\ UNCHANGED project
     \/ project' = [project EXCEPT ![manager.root] = @ + 1] /\ UNCHANGED user
  /\ manager' = Load(manager.root)
  /\ Announced
  /\ UNCHANGED <<list, opening>>

\* An update that leaves before it reads the files again: an invalid key, a
\* write that fails, a key to delete that is not there, nothing to migrate.
UpdateNothing ==
  /\ Request
  /\ ProjectOpen
  /\ UNCHANGED <<diskVars, manager, opening>>
  /\ Announced

\* migrate_naming_lists: append to the list, whose failure is ignored, then
\* take the terms out of the configuration of the project, which may fail.
Migrate ==
  /\ Request
  /\ ProjectOpen
  /\ UNCHANGED <<user, opening>>
  /\ \/ UNCHANGED list
     \/ list' = [list EXCEPT ![manager.root] = @ + 1]
  /\ \/ UNCHANGED <<project, manager>>
     \/ /\ project' = [project EXCEPT ![manager.root] = @ + 1]
        /\ manager' = Load(manager.root)
  /\ Announced

\* ensure_naming_files creates the list, and tells nobody.
EnsureFiles ==
  /\ Request
  /\ ProjectOpen
  /\ list[manager.root] = 0
  /\ list' = [list EXCEPT ![manager.root] = 1]
  /\ UNCHANGED <<user, project, manager, pc, opening, mine>>

-----------------------------------------------------------------------------
(***************************************************************************)
(* changed: stamp the files, then hand the manager to the listeners, all   *)
(* under the mutex.                                                        *)
(***************************************************************************)

\* A faulty section that lets go of the manager before the listeners return.
StampAndRelease(t) ==
  /\ pc[t] = "announcing"
  /\ Free
  /\ lock' = "none"
  /\ seen' = SeenOf
  /\ pc' = [pc EXCEPT ![t] = "building"]
  /\ UNCHANGED <<diskVars, manager, told, built, current, opening, mine,
                 countVars>>

\* seen_of, with the mutex held from here on.
Stamp(t) ==
  /\ pc[t] = "announcing"
  /\ Free
  /\ lock' = t
  /\ seen' = SeenOf
  /\ pc' = [pc EXCEPT ![t] = "building"]
  /\ UNCHANGED <<diskVars, manager, told, built, current, opening, mine,
                 countVars>>

\* deliver: build_settings reads the list of the manager's project.
Build(t) ==
  /\ pc[t] = "building"
  /\ built' = [built EXCEPT ![t] =
       [root |-> manager.root, user |-> manager.user,
        project |-> manager.project, list |-> list[manager.root]]]
  /\ pc' = [pc EXCEPT ![t] = "sending"]
  /\ UNCHANGED <<diskVars, manager, seen, lock, told, current, opening, mine,
                 countVars>>

\* ... and send_replace hands it over.
HandOver(t) ==
  /\ pc[t] = "sending"
  /\ told' = built[t]
  /\ built' = [built EXCEPT ![t] = NoFiles]
  /\ lock' = "none"
  /\ pc' = [pc EXCEPT ![t] = IF t = "watcher" THEN "sleeping"
                             ELSE IF opening THEN "watching" ELSE "idle"]
  /\ UNCHANGED <<diskVars, manager, seen, current, opening, mine, countVars>>

\* watch: open makes sure there is a watcher, if the thread can be created.
Watch ==
  /\ pc["rpc"] = "watching"
  /\ opening' = FALSE
  /\ \/ pc' = [pc EXCEPT !["rpc"] = "idle"]
     \/ /\ pc["watcher"] = "none"
        /\ pc' = [pc EXCEPT !["rpc"] = "idle", !["watcher"] = "sleeping"]
  /\ UNCHANGED <<diskVars, manager, seen, lock, told, built, current, mine,
                 countVars>>

-----------------------------------------------------------------------------
(***************************************************************************)
(* The watcher: poll.                                                      *)
(***************************************************************************)
PollLooks ==
  /\ pc["watcher"] = "sleeping"
  /\ Free
  /\ current' = SeenOf
  /\ pc' = [pc EXCEPT !["watcher"] = "comparing"]
  /\ UNCHANGED <<diskVars, manager, seen, lock, told, built, opening, mine,
                 countVars>>

\* A faulty comparison that leaves the lists out.
PollComparesConfigs ==
  /\ pc["watcher"] = "comparing"
  /\ pc' = [pc EXCEPT !["watcher"] =
              IF [seen EXCEPT !.list = 0] = [current EXCEPT !.list = 0]
              THEN "sleeping" ELSE "reloading"]
  /\ current' = NoFiles
  /\ UNCHANGED <<diskVars, manager, seen, lock, told, built, opening, mine,
                 countVars>>

\* The comparison is made without the mutex of the manager.
PollCompares ==
  /\ pc["watcher"] = "comparing"
  /\ pc' = [pc EXCEPT !["watcher"] =
              IF seen = current THEN "sleeping" ELSE "reloading"]
  /\ current' = NoFiles
  /\ UNCHANGED <<diskVars, manager, seen, lock, told, built, opening, mine,
                 countVars>>

\* A faulty round that reloads and tells nobody.
PollReloadsQuietly ==
  /\ pc["watcher"] = "reloading"
  /\ Free
  /\ UNCHANGED <<diskVars, seen, lock, told, built, current, opening, mine,
                 countVars>>
  /\ manager' = Load(manager.root)
  /\ pc' = [pc EXCEPT !["watcher"] = "sleeping"]

PollReloads ==
  /\ pc["watcher"] = "reloading"
  /\ Free
  /\ UNCHANGED <<diskVars, seen, lock, told, built, current, opening, mine,
                 countVars>>
  /\ manager' = Load(manager.root)
  /\ pc' = [pc EXCEPT !["watcher"] = "announcing"]

-----------------------------------------------------------------------------
\* The developer saves one of the files.
EditFile ==
  /\ edits < MaxSaves
  /\ edits' = edits + 1
  /\ \/ user' = user + 1 /\ UNCHANGED <<project, list>>
     \/ \E r \in Roots :
          \/ /\ project' = [project EXCEPT ![r] = @ + 1]
             /\ UNCHANGED <<user, list>>
          \/ /\ list' = [list EXCEPT ![r] = @ + 1]
             /\ UNCHANGED <<user, project>>
  /\ UNCHANGED <<manager, seen, lock, told, threadVars, current, opening,
                 mine, ops>>

-----------------------------------------------------------------------------
ConfigRequests ==
  \/ \E r \in Roots : Open(r)
  \/ Reload \/ WriteKeys \/ UpdateNothing \/ Migrate \/ EnsureFiles

Announce(t) == Stamp(t) \/ Build(t) \/ HandOver(t)

Poll == PollLooks \/ PollCompares \/ PollReloads

ConfigNext == ConfigRequests \/ Watch \/ Poll \/ EditFile \/ \E t \in Threads : Announce(t)

\* Both threads go on; nothing makes a request or an edit come.
ConfigFairness ==
  /\ WF_configVars(Announce("rpc") \/ Watch)
  /\ WF_configVars(Announce("watcher") \/ Poll)

ConfigSpec     == ConfigInit /\ [][ConfigNext]_configVars
ConfigFairSpec == ConfigSpec /\ ConfigFairness

-----------------------------------------------------------------------------
(***************************************************************************)
(* Properties.                                                             *)
(***************************************************************************)

\* Every variable has its type, and a thread holds the mutex while it builds
\* and sends.
ConfigTypeOK ==
  /\ user \in Nat /\ project \in [Roots -> Nat] /\ list \in [Roots -> Nat]
  /\ manager \in Config \cup {NoConfig} /\ mine \in Config \cup {NoConfig}
  /\ seen \in Versions \cup {NoFiles} /\ told \in Versions \cup {NoFiles}
  /\ current \in Versions \cup {NoFiles}
  /\ lock \in Threads \cup {"none"}
  /\ pc \in [Threads -> RpcState \cup WatcherState]
  /\ pc["rpc"] \in RpcState /\ pc["watcher"] \in WatcherState
  /\ built \in [Threads -> Versions \cup {NoFiles}]
  /\ opening \in BOOLEAN /\ ops \in Nat /\ edits \in Nat
  /\ \A t \in Threads : lock = t <=> pc[t] \in {"building", "sending"}

\* Nobody announces or watches before a project is open.
OpenFirst ==
  (\E t \in Threads : pc[t] \notin {"idle", "none"}) => ProjectOpen

\* x was told, as far as the files of the manager go.
Covers(x, m) == x.root = m.root /\ x.user >= m.user /\ x.project >= m.project

\* A change not announced yet will be.
Announcing ==
  \E t \in Threads : pc[t] \in {"announcing", "building", "sending"}

\* When nobody is about to announce, the listeners know exactly what the
\* manager holds, whichever thread changed it last and whichever announced
\* last (ConfigService::changed).
ListenersAgree ==
  ~Announcing => /\ told.root = manager.root
                 /\ told.user = manager.user
                 /\ told.project = manager.project

\* When a request is answered, the listeners know at least what the manager
\* held right after it: a project that was opened, a key that was written;
\* the watcher never takes them back (ConfigService::update, open, poll).
AnsweredIsTold == pc["rpc"] = "idle" => Covers(told, mine)

\* What the watcher takes for announced is newer than what was read.
SeenAhead ==
  /\ seen.root = manager.root
  /\ seen.user > manager.user \/ seen.project > manager.project

\* The listeners know the files as they are.
UpToDate == ProjectOpen => told = SeenOf

\* The watcher runs.
Watched == pc["watcher"] # "none"

\* The listeners keep up with the disk, but for an edit that a stamp covered
\* without its content having been read (ConfigService::poll, changed).
EditsToldUnlessHidden == []<>(Watched => UpToDate \/ SeenAhead)

\* "Rereads and tells if something changed since the last announcement"
\* (the comment of poll): while the core runs, an edit is told.
EditsTold == []<>(Watched => UpToDate)

\* For its listeners the service is one register (ConfigRegister).
Register == INSTANCE ConfigRegister WITH open <- manager.root, told <- told
OneRegister == Register!RegSpec
=============================================================================
