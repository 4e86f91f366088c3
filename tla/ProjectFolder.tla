----------------------------- MODULE ProjectFolder -----------------------------
(***************************************************************************)
(* What the core finds in the folder of a project and what it makes of it: *)
(* the server and the debug plugin (server/config.rs, server/plugin.rs),   *)
(* the folders of includes and the SDK (project/includes.rs,               *)
(* supervisor/engine/settings.rs), the compiler and its command line       *)
(* (compiler/detect.rs, flags.rs, build.rs).                               *)
(*                                                                         *)
(* A path is a sequence of names; a folder is a record of what is in it.   *)
(***************************************************************************)
EXTENDS Integers, Sequences, SequencesExt, FiniteSets

FirstIn(seq, S) == LET found == SelectSeq(seq, LAMBDA x : x \in S)
                   IN  IF found = <<>> THEN <<>> ELSE Head(found)
Products(dirs, names, Join(_, _)) ==
    FlattenSeq([i \in DOMAIN dirs |-> [j \in DOMAIN names |-> Join(dirs[i], names[j])]])
Under(root, dirs, names) ==
    Products(dirs, names, LAMBDA d, n : root \o d \o <<n>>)

-----------------------------------------------------------------------------
(* The server, in the project or in one of the folders it is often in.     *)
OmpExe == "omp-server"
SampExes == {"samp03svr", "samp-server"}
ServerNames == <<OmpExe, "samp03svr", "samp-server">>
ServerDirs == <<<<>>, <<"server">>, <<"samp">>>>
DetectServerExecutable(w, root) ==
    IF root = <<>> THEN <<>> ELSE FirstIn(Under(root, ServerDirs, ServerNames), w.execs)

(* By the files that are there, executable or not; only open.mp writes its *)
(* keys into a config.json, at its first run.                              *)
DetectServerType(w, cwd) ==
    CASE Append(cwd, OmpExe) \in w.files -> "omp"
      [] \E x \in SampExes : Append(cwd, x) \in w.files -> "samp"
      [] Append(cwd, "components") \in w.dirs -> "omp"
      [] w.json.kind = "omp" -> "omp"
      [] OTHER -> "samp"

HostFromBind(b) == IF b \in {"", "0.0.0.0"} THEN "127.0.0.1" ELSE b
PortOrDefault(p) == IF p \in 1..65535 THEN p ELSE 7777
(* A line of the server.cfg has its words, a name and a value, of one word *)
(* where it says where the server listens, and those of its comment.       *)
LastOf(lines, key, none) ==
    LET said == SelectSeq([k \in DOMAIN lines |-> lines[k].code], LAMBDA l : l # <<>> /\ l[1] = key)
    IN  IF said = <<>> \/ Len(Last(said)) = 1 THEN none ELSE Last(said)[2]
LoadSampConfig(w) == [port |-> PortOrDefault(LastOf(w.cfg, "port", 0)), host |-> HostFromBind(LastOf(w.cfg, "bind", "")),
                      rcon |-> TRUE]
LoadOmpConfig(w) == [port |-> PortOrDefault(w.json.port), host |-> HostFromBind(w.json.bind), rcon |-> w.json.rcon]
LoadServerConfig(w, cwd, type) ==
    LET resolved == IF type = "auto" THEN DetectServerType(w, cwd) ELSE type
    IN  IF resolved = "omp" THEN LoadOmpConfig(w) ELSE LoadSampConfig(w)

(* Where it runs and where it logs.                                        *)
ResolveServerConfig(w, config, root) ==
    LET exe == IF config.path # <<>> THEN config.path ELSE DetectServerExecutable(w, root)
        cwd == IF config.cwd # <<>> THEN config.cwd ELSE IF exe # <<>> THEN Front(exe) ELSE root
        type == IF config.type = "auto" THEN DetectServerType(w, cwd) ELSE config.type
    IN  [exe |-> exe, cwd |-> cwd,
         log |-> IF config.log # <<>> THEN config.log
                 ELSE IF cwd = <<>> THEN <<>>
                 ELSE Append(cwd, IF type # "omp" THEN "server_log.txt"
                                  ELSE IF w.json.log = "" THEN "log.txt" ELSE w.json.log)]

-----------------------------------------------------------------------------
(* The debug plugin.                                                       *)
PluginName == "pawnpro_debug"
HasName == {PluginName, "pawnpro_debug.so", "old_pawnpro_debug"}

(* By the header: the class of an ELF, the machine of a PE.                *)
ArchitectureOf(header) ==
    CASE header.format = "elf" /\ header.machine = 1 -> "x86"
      [] header.format = "elf" /\ header.machine = 2 -> "x64"
      [] header.format = "pe" /\ header.machine = 332 -> "x86"
      [] header.format = "pe" /\ header.machine = 34404 -> "x64"
      [] OTHER -> "unknown"

ProbePluginFile(w, dir) == w.plugin[dir]
CheckArchitecture(w, cwd, dir) ==
    LET exe == DetectServerExecutable(w, cwd)
        plugin == IF w.plugin[dir] = "absent" THEN "unknown" ELSE ArchitectureOf(w.header[dir])
        server == ArchitectureOf(w.header["server"])
    IN  exe # <<>> /\ plugin # "unknown" /\ server # "unknown" /\ plugin # server
(* By the whole line, its comment too.                                     *)
Begins(line, keys) == line.code # <<>> /\ line.code[1] \in keys
RegisteredInSampCfg(w) ==
    \E k \in DOMAIN w.cfg : /\ Begins(w.cfg[k], {"plugins", "pluginsdir"})
                            /\ ToSet(w.cfg[k].code \o w.cfg[k].comment) \intersect HasName # {}
RegisteredInOmpLegacy(w) == w.json.legacy \intersect HasName # {}

CheckDebugPlugin(w, cwd) ==
    LET type == DetectServerType(w, cwd)
        plugins == ProbePluginFile(w, "plugins")
        components == ProbePluginFile(w, "components")
        registered == IF type # "omp" THEN RegisteredInSampCfg(w) ELSE RegisteredInOmpLegacy(w)
        mismatch == CheckArchitecture(w, cwd, "plugins")
        legacy == plugins = "official"
    IN  CASE type # "omp" ->
               [ok |-> legacy /\ registered /\ ~mismatch, recommended |-> "plugins", kind |-> "samp"]
          [] components = "official" ->
               [ok |-> ~CheckArchitecture(w, cwd, "components"), recommended |-> "components", kind |-> "component"]
          [] OTHER ->
               [ok |-> legacy /\ registered /\ ~mismatch, recommended |-> "components",
                kind |-> IF legacy THEN "legacy" ELSE "component"]

-----------------------------------------------------------------------------
(* The folders of includes; an argument of the compiler is what it begins  *)
(* with, its letter and its value, which may be a path.                    *)
IncludeSubdirs == <<<<"qawno", "include">>, <<"pawno", "include">>, <<"include">>>>
IncludePathsFromArgs(args) ==
    LET given == SelectSeq(args, LAMBDA a : a[1] = "-" /\ a[2] = "i" /\ a[3] # <<>>)
    IN  [k \in DOMAIN given |-> given[k][3]]
IncludesAt(w, dir) == SelectSeq([k \in DOMAIN IncludeSubdirs |-> dir \o IncludeSubdirs[k]], LAMBDA p : p \in w.dirs)

(* From the folder of a file up to the project, the first that has any.    *)
FindIncludeRootsFromDir(w, start, stop) ==
    LET levels == [k \in 1..Len(start) + 1 |-> SubSeq(start, 1, Len(start) + 1 - k)]
        until == {k \in DOMAIN levels : IncludesAt(w, levels[k]) # <<>> \/ levels[k] = stop}
    IN  IF until = {} THEN <<>> ELSE IncludesAt(w, levels[CHOOSE k \in until : \A j \in until : k <= j])

WithoutRepeats(seq) == FoldLeft(LAMBDA out, x : IF x \in ToSet(out) THEN out ELSE Append(out, x), <<>>, seq)
BuildIncludePaths(w, configured, args, root, fileDir) ==
    LET defaults == IncludesAt(w, IF root = <<>> THEN fileDir ELSE root)
        fallback == IF defaults = <<>> /\ fileDir # <<>> /\ root # <<>> THEN FindIncludeRootsFromDir(w, fileDir, root) ELSE <<>>
        all == configured \o IncludePathsFromArgs(args) \o defaults \o fallback
    IN  WithoutRepeats(SelectSeq(all, LAMBDA p : p \in w.dirs))

(* The file of the SDK: the one configured or none, and else only open.mp  *)
(* has one.                                                                *)
SdkFile == "open.mp.inc"
ResolveSdkFilePath(w, platform, configured, includes, root) ==
    IF platform = "none" THEN <<>>
    ELSE IF configured # <<>> THEN FirstIn(<<configured>>, w.files)
    ELSE IF platform = "samp" THEN <<>>
    ELSE FirstIn([k \in 1..Len(includes) + 1 |->
                    Append(IF k = 1 THEN root \o <<"qawno", "include">> ELSE includes[k - 1], SdkFile)], w.files)

-----------------------------------------------------------------------------
(* The compiler and its command line.                                      *)
CompilerDirs == <<<<"qawno">>, <<"pawno">>, <<"include">>, <<"tools">>, <<"bin">>>>
CommonDirs == <<<<"usr", "local", "bin">>, <<"usr", "bin">>, <<"opt", "pawn">>>>
DetectPawncc(w, env, configured, auto, root) ==
    LET own == IF configured \in w.dirs THEN Append(configured, "pawncc") ELSE configured
        common == Under(<<>>, CommonDirs, <<"pawncc">>)
        found == IF root = <<>> THEN common ELSE Under(root, CompilerDirs, <<"pawncc">>) \o common
    IN  IF env # <<>> /\ env \in w.execs THEN env
        ELSE IF configured # <<>> /\ own \in w.execs THEN own
        ELSE IF configured # <<>> /\ ~auto THEN <<>>
        ELSE FirstIn(w.searchPath \o found, w.execs)

(* What the compiler says it accepts, a letter or XD in each line.         *)
ParseHelp(lines) == {lines[k][2] : k \in {j \in DOMAIN lines : lines[j][1] \in {"-", "/"}}} \ {""}
ComputeMinimalArgs(supported) ==
    SelectSeq(<<<<"-", "d", <<"1">>>>, <<"-", "O", <<"1">>>>, <<"-", "(", <<"+">>>>, <<"-", ";", <<"+">>>>,
                <<"-", "w", <<"239">>>>>>,
              LAMBDA a : a[2] \in supported)
IsFlag(a) == a[1] = "-" /\ a[2] # ""
Normalized(a) == IF a[1] = "/" THEN <<"-", a[2], a[3]>> ELSE a
Opened(a) == IF IsFlag(a) /\ a[2] \in {"(", ";"} /\ a[3] = <<>> THEN <<"-", a[2], <<"+">>>> ELSE a
SanitizeUserArgs(base, supported) ==
    LET args == SelectSeq([k \in DOMAIN base |-> Opened(Normalized(base[k]))],
                          LAMBDA a : ~(IsFlag(a) /\ a[2] \in {"i", "o"}))
    IN  [kept |-> SelectSeq(args, LAMBDA a : IsFlag(a) => a[2] \in supported),
         removed |-> SelectSeq(args, LAMBDA a : IsFlag(a) /\ a[2] \notin supported)]

(* A program is debugged with the symbols of level three, no less.         *)
ForceDebugLevel(args) ==
    Append(SelectSeq(args, LAMBDA a : ~(a[1] = "-" /\ a[2] = "d" /\ a[3] # <<>>)), <<"-", "d", <<"3">>>>)
BuildCompileArgs(supported, configured, includes, file, forceDebug) ==
    LET raw == IF configured = <<>> THEN ComputeMinimalArgs(supported) ELSE configured
        clean == SanitizeUserArgs(IF forceDebug THEN ForceDebugLevel(raw) ELSE raw, supported)
    IN  [args |-> clean.kept \o [k \in DOMAIN includes |-> <<"-", "i", includes[k]>>]
                     \o <<<<"-", "o", Append(Front(file), "amx")>>, <<"", "", file>>>>,
         removed |-> clean.removed]

(* What a build is answered with: the compiler and its command line.       *)
BuildArgs(q) ==
    LET includes == BuildIncludePaths(q.w, q.configured, q.args, q.root, Front(q.file))
        built == BuildCompileArgs(q.supported, q.args, includes, q.file, q.debug)
    IN  [exe |-> DetectPawncc(q.w, q.compiler.env, q.compiler.configured, q.compiler.auto, q.root),
         args |-> built.args, removed |-> built.removed]

-----------------------------------------------------------------------------
(* What the servers do when they start: SA-MP loads from plugins/ what the *)
(* line "plugins" names, open.mp all of components/ and from plugins/ what *)
(* "legacy_plugins" names; neither loads another architecture.             *)
Loads(w) ==
    LET same(dir) == w.plugin[dir] = "official" /\ ArchitectureOf(w.header[dir]) = ArchitectureOf(w.header["server"])
        named == {PluginName, "pawnpro_debug.so"}
        listed == \E k \in DOMAIN w.cfg : Begins(w.cfg[k], {"plugins"}) /\ ToSet(w.cfg[k].code) \intersect named # {}
    IN  IF w.runs = "samp" THEN same("plugins") /\ listed
        ELSE same("components") \/ (same("plugins") /\ w.json.legacy \intersect named # {})
(* A name that holds that of the plugin passes for it, on any line that    *)
(* begins like the one of the plugins and in its comment (plugin.rs:184-6);*)
(* and what cannot be compared passes.                                     *)
KnownToPass(w, cwd) ==
    \/ \E k \in DOMAIN w.cfg : \/ ToSet(w.cfg[k].code) \intersect {"old_pawnpro_debug", "pluginsdir"} # {}
                               \/ ToSet(w.cfg[k].comment) \intersect HasName # {}
    \/ "old_pawnpro_debug" \in w.json.legacy
    \/ \E d \in DOMAIN w.header : ArchitectureOf(w.header[d]) = "unknown"
    \/ DetectServerExecutable(w, cwd) = <<>>

(* Doing what is recommended.                                              *)
Repaired(w, r) ==
    [w EXCEPT !.plugin[r.recommended] = "official", !.header[r.recommended] = w.header["server"],
              !.cfg = IF r.kind = "samp" THEN Append(@, [code |-> <<"plugins", PluginName>>, comment |-> <<>>]) ELSE @]

(* The core says a session can be debugged when the server loads the       *)
(* plugin, of whichever kind it is, and only then; what it recommends is   *)
(* enough.  A component of another architecture hides a plugin that loads. *)
PreflightAgrees(w, cwd, r) ==
    /\ DetectServerType(w, cwd) = w.runs
    /\ r.ok => Loads(w) \/ KnownToPass(w, cwd)
    /\ Loads(w) => r.ok \/ CheckArchitecture(w, cwd, "components")
    /\ Loads(Repaired(w, r)) /\ CheckDebugPlugin(Repaired(w, r), cwd).ok

(* What is compiled and what is analysed find the same includes, and the   *)
(* SDK is among them; no compiler replaces the one that is wanted unless   *)
(* that is allowed; it is given every include and nothing it does not      *)
(* know, the flags taken away are told, and a program to debug has the     *)
(* level of the debugger last or that is told too.  The includes of a file *)
(* in a project with none at its root are only compiled with, and a folder *)
(* given as /i is lost.                                                    *)
BuildAgrees(q, r) ==
    LET analysed == BuildIncludePaths(q.w, q.configured, q.args, q.root, <<>>)
        sdk == ResolveSdkFilePath(q.w, q.platform, <<>>, analysed, q.root)
        flags == {k \in DOMAIN r.args : r.args[k][1] = "-"}
        levels == {k \in flags : r.args[k][2] = "d"}
        folders == [k \in DOMAIN q.args |-> IF q.args[k][2] = "i" THEN q.args[k][3] ELSE <<>>]
        wanted == {q.compiler.configured, Append(q.compiler.configured, "pawncc")}
    IN  /\ r.exe = <<>> => q.w.execs = {} \/ ~q.compiler.auto
        /\ r.exe \notin wanted \union {<<>>} =>
               \/ r.exe = q.compiler.env
               \/ wanted \intersect q.w.execs = {} /\ (q.compiler.auto \/ q.compiler.configured = <<>>)
        /\ ToSet(analysed) \subseteq {r.args[k][3] : k \in {j \in flags : r.args[j][2] = "i"}}
        /\ IncludesAt(q.w, q.root) # <<>> =>
               analysed = [k \in DOMAIN analysed |-> SelectSeq(r.args, LAMBDA a : a[2] = "i")[k][3]]
        /\ sdk # <<>> => Front(sdk) \in ToSet(analysed)
        /\ Cardinality({k \in flags : r.args[k][2] = "o"}) = 1
        /\ \A k \in flags : r.args[k][2] \in q.supported \union {"i", "o"}
        /\ \A k \in DOMAIN q.args :
              \/ q.args[k][2] \in {"i", "o", "d"}
              \/ \E a \in ToSet(r.args) \union ToSet(r.removed) : a[2] = q.args[k][2]
        /\ q.debug => \/ \E k \in levels : r.args[k][3] = <<"3">> /\ \A j \in levels : j <= k
                      \/ <<"-", "d", <<"3">>>> \in ToSet(r.removed)
        /\ \A k \in DOMAIN folders :
              folders[k] \in q.w.dirs /\ q.args[k][1] = "-" => folders[k] \in ToSet(analysed)

(* A server runs in its own folder, unless it is told to run elsewhere; of *)
(* the kind it is taken for, it is addressed where it listens - the last   *)
(* word of its file counts, and all interfaces are this machine - and the  *)
(* log that is read is the one it writes.                                  *)
Listens(w) ==
    LET of(key) == {k \in DOMAIN w.cfg : Begins(w.cfg[k], {key})}
        ports == of("port")
        binds == of("bind")
        said(S) == LET k == CHOOSE k \in S : \A j \in S : j <= k IN w.cfg[k].code
        port == IF w.runs = "omp" THEN w.json.port
                ELSE IF ports # {} /\ Len(said(ports)) = 2 THEN said(ports)[2] ELSE 0
        bind == IF w.runs = "omp" THEN w.json.bind
                ELSE IF binds # {} THEN said(binds)[2] ELSE ""
    IN  [port |-> IF port \in 1..65535 THEN port ELSE 7777,
         host |-> IF bind = "10.0.0.1" THEN bind ELSE "127.0.0.1",
         rcon |-> w.runs = "omp" => w.json.rcon]
ServerAgrees(w, config, root, r) ==
    LET type == IF config.type = "auto" THEN DetectServerType(w, r.cwd) ELSE config.type
    IN  /\ config.path = <<>> /\ r.exe # <<>> => r.exe \in w.execs /\ SubSeq(r.exe, 1, Len(root)) = root
        /\ config.cwd = <<>> /\ r.exe # <<>> => r.cwd = Front(r.exe)
        /\ config = [path |-> <<>>, cwd |-> <<>>, log |-> <<>>, type |-> "auto"] /\ r.exe # <<>> => type = w.runs
        /\ type = w.runs => LoadServerConfig(w, r.cwd, config.type) = Listens(w)
        /\ config.log = <<>> /\ r.cwd # <<>> /\ type = w.runs =>
               r.log = Append(r.cwd, IF w.runs = "samp" THEN "server_log.txt"
                                     ELSE IF w.json.log = "" THEN "log.txt" ELSE w.json.log)
=============================================================================
