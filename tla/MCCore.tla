-------------------------------- MODULE MCCore --------------------------------
(* What the tools of the core are asked.                                   *)
EXTENDS Integers, Sequences, FiniteSets

Config == INSTANCE ConfigTree
Folder == INSTANCE ProjectFolder

-----------------------------------------------------------------------------
(* A file says nothing of a place, something of its type, or something     *)
(* else: a number, a list or an object can stand anywhere.                 *)
Absent == Config!Absent
Field(name, v) == Config!Object([k \in {name} |-> v])
Tree(locale, format, analysis) ==
    LET of == [k \in {"locale", "format", "analysis"} |->
                 CASE k = "locale" -> locale [] k = "format" -> format [] k = "analysis" -> analysis]
    IN  Config!Object([k \in {n \in DOMAIN of : of[n] # Absent} |-> of[k]])
Texts(s) == Config!List([k \in DOMAIN s |-> IF s[k] = "5" THEN Config!Number ELSE Config!Text(s[k])])
Naming(v) == Field("analysis", Field("naming", v))
Lists == {<<"a">>, <<"5">>, <<"a", "b">>, <<"#c", "a">>, <<"a", "5">>}
Analyses(lists) ==
    {Absent, Config!Text("x"), Config!List(<<>>)} \union
    {Field("naming", v) : v \in {Config!Number, Config!List(<<>>)} \union {Field("blocklist", Texts(l)) : l \in lists}} \union
    {Naming(Config!Object([k \in {"blocklist", "allowShortInLoops"} |-> Texts(<<IF k = "blocklist" THEN "a" ELSE "5">>)]))}
Formats == {Absent, Config!Number, Config!List(<<>>), Config!Object(Config!NoFields)}
    \union {Field("preset", v) : v \in {Config!Text("knr"), Config!Text("x"), Config!Number}}
Locales == {Absent, Config!Text("pt"), Field("x", Config!Number)}
Trees(locales, formats, lists) == {Tree(l, f, a) : l \in locales, f \in formats, a \in Analyses(lists)}
Few == {<<"a">>, <<"5">>}
Layers(n) == Trees({Absent}, Formats, Few) \X Trees({Absent}, Formats, Few)
              \union Trees(Locales, {Absent}, Few) \X Trees(Locales, {Absent}, Few)
              \union {Config!Number, Config!List(<<>>)} \X Trees(Locales, Formats, Lists)

Written == {<<"locale">>, <<"format">>, <<"format", "preset">>, <<"analysis", "naming">>,
            <<"analysis", "naming", "blocklist">>, <<"locale", "x">>, <<"format", "">>}
Entry(p, v) == [path |-> p, value |-> v]
Entries == {Entry(p, v) : p \in Written,
               v \in {Config!Text("knr"), Config!Number, Field("preset", Config!Text("knr")), Texts(<<"a">>)}}
Written2(n) == Trees(Locales, Formats, {<<"a">>}) \X {<<e>> : e \in Entries}
                  \union Trees({Absent}, {Absent, Config!Number}, {<<"a">>}) \X {<<d, e>> : d \in Entries, e \in Entries}
Deleted(n) == (Trees(Locales, Formats, Lists) \union {Config!Number}) \X (Written \union {<<"">>})

(* What a project says of its lists, what its file says of them by now,    *)
(* the files of the lists, and what cannot be written.                     *)
Fields(names, v) == Config!Object([k \in {n \in names : v[n] # Absent} |-> v[k]])
Named(blocklist, loops, file) ==
    Naming(Fields({"blocklist", "allowShortInLoops", "blocklistFile", "loopIndicesFile"},
                  [blocklist |-> blocklist, allowShortInLoops |-> loops, blocklistFile |-> file, loopIndicesFile |-> file]))
Loops == {Absent, Texts(<<"i">>), Texts(<<"#c", "i">>)}
Unsaved == {{}, {"blocklist"}, {"loopIndices"}}
Migrations(n) ==
    {Texts(l) : l \in Lists} \X Loops \X {Absent, Config!Text("")} \X {"same", "new", "gone"}
        \X ({<<>>, <<"#c", "", "b">>, <<"a">>, <<"b", "">>} \X {<<>>, <<"i">>})
        \X {{}, {"loopIndices"}, {"blocklist", "loopIndices"}} \X Unsaved
Migration(q) ==
    LET raw == Named(q[1], q[2], q[3])
        disk == CASE q[4] = "same" -> raw
                  [] q[4] = "new" -> Named(Texts(<<"new">>), Texts(<<"i", "new">>), q[3])
                  [] q[4] = "gone" -> Named(Absent, q[2], q[3])
    IN  [raw |-> raw, disk |-> disk, lines |-> [blocklist |-> q[5][1], loopIndices |-> q[5][2]],
         writable |-> q[6], failing |-> q[7], config |-> Config!Reload(Config!Number, raw, "w").config]

(* The lists a configuration gives a project, and which files are there.   *)
Seeds(n) == {m \in Migrations(0) : m[4] = "same" /\ m[7] = {}}
Seeded(x) == LET m == Migration(x) IN [m EXCEPT !.lines = [l \in DOMAIN @ |-> IF l \in m.writable THEN @[l] ELSE <<>>]]

-----------------------------------------------------------------------------
(* Installed servers: SA-MP or open.mp by its own name or another, before  *)
(* its first run or after it, with a config.json that may be of someone    *)
(* else; the plugin is in no folder, in one or in both.                    *)
Root == <<"w">>
Header(format, machine) == [format |-> format, machine |-> machine]
Elf32 == Header("elf", 1)
Elf64 == Header("elf", 2)
Json(kind, port, bind, rcon, legacy, log) ==
    [kind |-> kind, port |-> port, bind |-> bind, rcon |-> rcon, legacy |-> legacy, log |-> log]
NoJson == Json("none", 0, "", TRUE, {}, "")
(* The server is there and can be run, is only there, or is not.           *)
Exe(runs) == {Append(Root, IF runs = "omp" THEN "omp-server" ELSE "samp03svr")}
Exes(runs) == {[files |-> f, execs |-> x] : f \in {{}, Exe(runs)}, x \in {{}, Exe(runs)}} \ {[files |-> {}, execs |-> Exe(runs)]}
Runnable(x) == [files |-> x, execs |-> x]
Line(code) == [code |-> code, comment |-> <<>>]
Plugin == "pawnpro_debug.so"
Cfgs == {<<>>, <<Line(<<"pluginsdir", "pawnpro_debug">>)>>, <<Line(<<"plugins", "old_pawnpro_debug">>)>>,
         <<Line(<<"bind", "10.0.0.1">>), Line(<<"plugins", "other", Plugin>>)>>,
         <<Line(<<"plugins", "other">>), Line(<<>>), Line(<<"plugins", "pawnpro_debug">>)>>,
         <<[code |-> <<"plugins", "other">>, comment |-> <<Plugin>>]>>,
         <<[code |-> <<>>, comment |-> <<"plugins", Plugin>>]>>}
Jsons(runs) == IF runs = "samp" THEN {NoJson, Json("other", 0, "", TRUE, {}, "")}
               ELSE {NoJson} \union {Json("omp", 0, "", TRUE, l, "") : l \in SUBSET {"pawnpro_debug", "old_pawnpro_debug"}}
Installed(runs, exe, json, cfg, plugin, header) ==
    [runs |-> runs, files |-> exe.files, execs |-> exe.execs, dirs |-> IF runs = "omp" THEN {Append(Root, "components")} ELSE {},
     json |-> json, cfg |-> cfg, plugin |-> plugin, header |-> header]
Headers == [{"plugins", "components", "server"} -> {Elf32, Elf64}]
PluginDirs == {"plugins", "components"}
Plugins == [PluginDirs -> {"absent", "official", "clash"}]
Unread == {[h EXCEPT ![k] = Header("elf", 3)] : h \in {[d \in {"plugins", "components", "server"} |-> Elf32]},
              k \in {"plugins", "server"}}
Preflights(n) ==
    UNION {{Installed(runs, x, j, c, p, h) : x \in Exes(runs), j \in Jsons(runs), c \in Cfgs, p \in Plugins,
               h \in Headers \union Unread} : runs \in {"samp", "omp"}} \union
    {Installed("samp", [files |-> Exe("samp"), execs |-> x], Json("omp", 0, "", TRUE, {}, ""), c, [d \in PluginDirs |-> "official"], h) :
        x \in {{}, Exe("samp")}, c \in Cfgs, h \in Headers}

(* Where a server listens and logs, as its files and the settings say it.  *)
Port(p) == Line(<<"port", p>>)
Bind(b) == Line(<<"bind", b>>)
Addresses == {<<>>, <<Line(<<"port">>)>>, <<[Port(2) EXCEPT !.comment = <<"port", 3>>], [Line(<<>>) EXCEPT !.comment = Port(4).code]>>}
    \union {<<Bind(b)>> : b \in {"0.0.0.0", "10.0.0.1"}}
    \union {<<Port(1), Bind("10.0.0.1"), Port(p)>> : p \in {2, 0, 70000}}
Places(n) ==
    {Installed("samp", Runnable(x), j, c, [d \in {} |-> "absent"], [d \in {} |-> Elf32]) :
        x \in {{}, {<<"w", "samp03svr">>}, {<<"w", "server", "samp03svr">>}}, j \in Jsons("samp"), c \in Addresses} \union
    {Installed("omp", Runnable(x), j, <<>>, [d \in {} |-> "absent"], [d \in {} |-> Elf32]) :
        x \in {{}, {<<"w", "omp-server">>}, {<<"w", "server", "omp-server">>}},
        j \in {NoJson} \union {Json("omp", p, b, e, {}, l) : p \in {0, 2, 70000}, b \in {"", "0.0.0.0", "10.0.0.1"},
                                  e \in BOOLEAN, l \in {"", "my.txt"}}}
Server(path, cwd, log, type) == [path |-> path, cwd |-> cwd, log |-> log, type |-> type]
Servers(n) == Places(0) \X {Server(p, c, l, t) : p \in {<<>>, <<"opt", "omp-server">>}, c \in {<<>>, Root},
                               l \in {<<>>, <<"w", "x">>}, t \in {"auto", "samp", "omp"}} \X {Root, <<>>}

(* What a project is built of, and what it is asked to be built with.      *)
Libraries == {<<"w", "qawno", "include">>, <<"w", "include">>, <<"w", "src", "include">>, <<"x">>}
Sdks(dirs) == {{}} \union {{Append(d, "open.mp.inc") : d \in dirs}}
Argument(prefix, letter, value) == <<prefix, letter, value>>
Given == {Argument("-", "i", <<"x">>), Argument("/", "i", <<"x">>), Argument("-", "d", <<"1">>), Argument("/", "d", <<"3">>),
          Argument("-", "(", <<>>), Argument("-", "XD", <<"1">>), Argument("-", "o", <<"y">>), Argument("", "", <<"z">>)}
One(given) == {<<>>} \union {<<a>> : a \in given}
Two(given) == {<<a, b>> : a \in given, b \in given}
Help(letters) == <<<<"", "Usage">>, <<"-", "">>>> \o letters
Helps == {Help(<<>>), Help(<<<<"-", "d">>, <<"-", "w">>>>), Help(<<<<"/", "XD">>, <<"/", "(">>, <<"-", "i">>>>)}
Compilers == {[execs |-> {}, env |-> <<>>, configured |-> <<>>, auto |-> TRUE],
              [execs |-> {<<"w", "bin", "pawncc">>, <<"p", "pawncc">>, <<"e">>}, env |-> <<"e">>, configured |-> <<"x">>, auto |-> TRUE],
              [execs |-> {<<"w", "bin", "pawncc">>, <<"x", "pawncc">>}, env |-> <<"e">>, configured |-> <<"x">>, auto |-> FALSE],
              [execs |-> {<<"w", "bin", "pawncc">>, <<"p", "pawncc">>}, env |-> <<>>, configured |-> <<"x">>, auto |-> FALSE],
              [execs |-> {<<"usr", "bin", "pawncc">>}, env |-> <<>>, configured |-> <<"y">>, auto |-> TRUE]}
Build(dirs, files, compiler, configured, args, fileDir, platform, help, debug) ==
    [w |-> [dirs |-> dirs, files |-> files, execs |-> compiler.execs, searchPath |-> <<<<"p", "pawncc">>>>],
     compiler |-> compiler, configured |-> configured, args |-> args, root |-> Root, file |-> Append(fileDir, "main"),
     platform |-> platform, help |-> help, supported |-> Folder!ParseHelp(help), debug |-> debug]
Preferred == CHOOSE c \in Compilers : c.auto /\ c.env # <<>>
Source == <<"w", "src">>
Builds(given) ==
    UNION {{Build(dirs, files, Preferred, <<>>, args, Source, p, help, debug) : files \in Sdks(dirs), args \in One(given),
               p \in {"omp", "samp"}, help \in Helps, debug \in BOOLEAN} : dirs \in SUBSET Libraries} \union
    {Build(dirs, {}, Preferred, <<>>, args, Source, "omp", help, debug) :
        dirs \in {{}, Libraries}, args \in Two(given), help \in Helps, debug \in BOOLEAN} \union
    UNION {{Build(dirs, files, c, conf, <<>>, f, p, Help(<<>>), TRUE) : files \in Sdks(dirs), c \in Compilers,
               conf \in {<<>>, <<<<"w", "include">>, <<"x">>>>}, f \in {Root, Source}, p \in {"auto", "none"}} :
        dirs \in SUBSET Libraries}

-----------------------------------------------------------------------------
ToolNames == {"layers", "keys", "delete", "migrate", "seed", "preflight", "server", "build"}
Arguments(s) == CASE s = "layers" -> Layers(0)
                  [] s = "keys" -> Written2(0)
                  [] s = "delete" -> Deleted(0)
                  [] s = "migrate" -> Migrations(0)
                  [] s = "seed" -> Seeds(0)
                  [] s = "preflight" -> Preflights(0)
                  [] s = "server" -> Servers(0)
                  [] s = "build" -> Builds(Given)
Value(s, x) == CASE s = "layers" -> Config!Reload(x[1], x[2], "w")
                 [] s = "keys" -> Config!SetKeys(x[1], x[2])
                 [] s = "delete" -> Config!DeleteKey(x[1], x[2])
                 [] s = "migrate" -> Config!MigrateNamingLists(Migration(x))
                 [] s = "seed" -> Config!EnsureNamingFiles(Seeded(x).config, Seeded(x).writable, Seeded(x).lines)
                 [] s = "preflight" -> Folder!CheckDebugPlugin(x, Root)
                 [] s = "server" -> Folder!ResolveServerConfig(x[1], x[2], x[3])
                 [] s = "build" -> Folder!BuildArgs(x)
Right(s, x, r) == CASE s = "layers" -> Config!ConfigAgrees(x[1], x[2], "w", r)
                    [] s = "keys" -> Config!KeysAgree(x[1], x[2], r)
                    [] s = "delete" -> Config!DeleteAgrees(x[1], x[2], r)
                    [] s = "migrate" -> Config!MigrateAgrees(Migration(x), r)
                    [] s = "seed" -> Config!SeedAgrees(Seeded(x).config, Seeded(x).writable, Seeded(x).lines, r)
                    [] s = "preflight" -> Folder!PreflightAgrees(x, Root, r)
                    [] s = "server" -> Folder!ServerAgrees(x[1], x[2], x[3], r)
                    [] s = "build" -> Folder!BuildAgrees(x, r)
=============================================================================
