---------------------------- MODULE IncludeGraph ----------------------------
(***************************************************************************)
(* How the engine finds the file a directive names, and collects all that  *)
(* a program includes.                                                     *)
(*                                                                         *)
(* A file is a directory, a name, an extension and the case of its name; a *)
(* directive names one, between angles or quotes, perhaps as a try.        *)
(***************************************************************************)
EXTENDS Integers, Sequences, SequencesExt, FiniteSets, Functions, FiniteSetsExt

Extensions == <<"", ".inc", ".p", ".pawn", ".pwn">>
Nothing == <<>>

(* try_resolve: each extension is looked for in its case, then in any,     *)
(* before the next one.                                                    *)
TryResolve(disk, dir, asked) ==
    LET any(e) == {f \in disk : f.dir = dir /\ f.name = asked.name /\ f.ext = e}
        exact(e) == {f \in any(e) : f.case = asked.case}
        k == SelectInSeq(Extensions, LAMBDA e : any(e) # {})
        choices == IF exact(Extensions[k]) # {} THEN exact(Extensions[k]) ELSE any(Extensions[k])
    IN  IF k = 0 THEN Nothing ELSE <<CHOOSE f \in choices : TRUE>>

(* resolve_include: between quotes, beside the file first.                 *)
Places(asked, dir, paths) == IF asked.angle THEN paths ELSE <<dir>> \o paths
ResolveInclude(disk, asked, dir, paths) ==
    LET places == Places(asked, dir, paths)
        k == SelectInSeq(places, LAMBDA p : TryResolve(disk, p, asked) # Nothing)
    IN  IF k = 0 THEN Nothing ELSE TryResolve(disk, places[k], asked)

(* analyze_includes: what is not found, an error unless it was a try.      *)
Missing(disk, directives, dir, paths) ==
    {[at |-> k, severity |-> IF directives[k].try THEN "hint" ELSE "error"] :
        k \in {j \in DOMAIN directives : ResolveInclude(disk, directives[j], dir, paths) = Nothing}}

-----------------------------------------------------------------------------
(* collect_included_files_with: breadth first, so that the limit of files  *)
(* never takes a direct include for a deeper one.                          *)
CONSTANTS MaxDepth, MaxFiles

Take(project, st, directive, parent) ==
    LET found == ResolveInclude(project.disk, directive, parent.dir, project.paths)
        file == found[1]
        linked == [st EXCEPT !.links = @ \union {<<file, parent.file>>}]
        deeper == [file |-> file, dir |-> file.dir, depth |-> parent.depth + 1]
    IN  IF Len(st.ordered) >= MaxFiles \/ found = Nothing THEN st
        ELSE IF \E k \in DOMAIN st.ordered : st.ordered[k] = file THEN linked
        ELSE IF parent.depth < MaxDepth
             THEN [linked EXCEPT !.ordered = Append(@, file), !.parsed = @ \union {file},
                                 !.queue = Append(@, deeper)]
             ELSE [linked EXCEPT !.ordered = Append(@, file)]

RECURSIVE Collect(_, _)
Collect(project, st) ==
    LET parent == Head(st.queue)
        rest == [st EXCEPT !.queue = Tail(@)]
    IN  IF st.queue = <<>> THEN st
        ELSE Collect(project, FoldLeft(LAMBDA s, d : Take(project, s, d, parent), rest,
                                       project.asks[parent.file]))

CollectIncludedFiles(project) ==
    Collect(project, [ordered |-> <<>>, parsed |-> {}, links |-> {},
                      queue |-> <<[file |-> project.root, dir |-> project.root.dir, depth |-> 1]>>])

Collected(project) ==
    [collected |-> CollectIncludedFiles(project),
     missing |-> Missing(project.disk, project.asks[project.root], project.root.dir, project.paths)]

-----------------------------------------------------------------------------
(* The file a directive names: in the first place that has one, of the     *)
(* first extension there is, in its own case if there is such a file.      *)
Names(project, from, asked) ==
    LET places == Places(asked, from.dir, project.paths)
        place(f) == CHOOSE k \in DOMAIN places :
                       places[k] = f.dir /\ \A j \in 1..(k - 1) : places[j] # f.dir
        ext(f) == CHOOSE k \in DOMAIN Extensions : Extensions[k] = f.ext
        named == {f \in project.disk : f.name = asked.name /\ f.dir \in Range(places)}
        before(f, g) == \/ place(f) < place(g)
                        \/ place(f) = place(g) /\ ext(f) < ext(g)
                        \/ place(f) = place(g) /\ ext(f) = ext(g) /\ f.case = asked.case
    IN  {f \in named : \A g \in named \ {f} : before(f, g)}
Included(project, from) == UNION {Names(project, from, d) : d \in Range(project.asks[from])}

(* What is at most n includes away from the program, for each n; a file at *)
(* the last depth is not read.                                             *)
Within(project) ==
    FoldLeft(LAMBDA rings, n :
                Append(rings, Last(rings) \union
                   UNION {Included(project, f) : f \in {project.root} \union Last(rings)}),
             <<{}>>, [n \in 1..MaxDepth |-> n])

CollectionAgrees(project, r) ==
    LET ordered == r.collected.ordered
        within == Within(project)
        all == Last(within)
        readers == {project.root} \union r.collected.parsed
        links == UNION {{<<g, f>> : g \in Included(project, f)} : f \in readers}
    IN  /\ Range(ordered) \subseteq all /\ IsInjective(ordered)
        /\ Len(ordered) = IF Cardinality(all) < MaxFiles THEN Cardinality(all) ELSE MaxFiles
        /\ \A near \in Range(within), i, j \in DOMAIN ordered :
              i < j /\ ordered[j] \in near => ordered[i] \in near
        /\ r.collected.parsed = Range(ordered) \intersect within[MaxDepth]
        /\ r.collected.links \subseteq links
        /\ Cardinality(all) < MaxFiles => r.collected.links = links
        /\ {m.at : m \in r.missing} =
              {k \in DOMAIN project.asks[project.root] :
                  Names(project, project.root, project.asks[project.root][k]) = {}}
        /\ \A m \in r.missing : m.severity = "error" <=> ~project.asks[project.root][m.at].try
=============================================================================
