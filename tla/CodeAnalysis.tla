---------------------------- MODULE CodeAnalysis ----------------------------
(***************************************************************************)
(* What the engine warns of in a file, from its symbols, those of its      *)
(* includes and the words of each line.                                    *)
(*                                                                         *)
(* A line of SymbolParser, with its first word if that is a keyword, the   *)
(* words it has out of comments and strings, those followed by "(", those  *)
(* that are alone in a string, the parameters it declares, and whether the *)
(* text of a comment of several lines is all it has.                       *)
(***************************************************************************)
EXTENDS SymbolParser

Words(key, calls, words, quoted, params) ==
    [key |-> key, calls |-> calls, words |-> words \union calls, quoted |-> quoted,
     params |-> params]
IsDirective(l) == l.form \in {"define", "include", "pragma"}
(* The line as far as strip_line_comments leaves it when it is told that   *)
(* no comment is open.                                                     *)
LooksBlank(l) == l.form \in {"blank", "//"} \/ (l.form = "comment" /\ l.begins)

-----------------------------------------------------------------------------
(* unused.rs: collect_idents, each reading skipping lines of its own.      *)
Declaring == {"stock", "public", "static", "native", "forward"}
Calls(lines) ==
    UNION {l.calls : l \in {m \in Range(lines) : m.form # "define" /\ m.key \notin Declaring}}
AllIdents(lines) ==
    UNION {l.words \union l.quoted : l \in
              {m \in Range(lines) : /\ m.form # "define"
                                    /\ m.key \notin {"new", "const"}
                                    /\ m.key = "static" => m.calls # {}}}
IdentsNoDirectives(lines) ==
    UNION {l.words \union l.quoted : l \in {m \in Range(lines) : ~IsDirective(m)}}
BareMentions(lines) == UNION {l.words : l \in Range(lines)} \* a name in a string is none
Mentions(lines) == UNION {l.words \union l.quoted : l \in Range(lines)}

(* FileIdents: what the other files of the unit are asked.                 *)
FileIdents(lines) == [calls |-> Calls(lines), all |-> AllIdents(lines),
                      noDirectives |-> IdentsNoDirectives(lines)]

Private(name) == name[1] = "_"

(* collect_transitive_exports: what an include declares, and its includes. *)
RECURSIVE Reached(_, _)
Reached(parsed, paths) ==
    LET more == paths \union
                UNION {Range(parsed[p].includes) : p \in paths \intersect DOMAIN parsed}
    IN  IF more = paths THEN paths ELSE Reached(parsed, more)
Exported(parsed, path) ==
    UNION {{s.name : s \in Range(parsed[p].symbols)} \union Range(parsed[p].macros) :
              p \in Reached(parsed, {path}) \intersect DOMAIN parsed}

(* analyze_unused: kind by kind, what nothing uses; then the includes of   *)
(* which nothing is mentioned.                                             *)
UnusedSymbols(lines, parsed, others) ==
    LET idents == FileIdents(lines)
        called(n) == n \in idents.calls \union UNION {o.calls : o \in others}
        anywhere(n) == n \in idents.all \union UNION {o.all : o \in others}
        outside(n) == n \in idents.noDirectives \union UNION {o.noDirectives : o \in others}
        unused(s) == CASE s.kind = "variable" -> ~anywhere(s.name)
                       [] s.kind \in {"stock", "static", "native", "forward", "plain"} ->
                             ~called(s.name)
                       [] s.kind = "define" -> ~outside(s.name) /\ ~called(s.name)
                       [] OTHER -> FALSE
    IN  {s.name : s \in {t \in Range(parsed.symbols) : ~Private(t.name) /\ unused(t)}}

UnusedIncludes(lines, parsed, included) ==
    {p \in Range(parsed.includes) \intersect DOMAIN included :
        /\ Exported(included, p) # {}
        /\ Exported(included, p) \intersect Mentions(lines) = {}}

-----------------------------------------------------------------------------
(* deprecated.rs: collect_deprecated_includes.                             *)
DeprecatedStep(st, l) ==
    CASE l.form = "pragma" -> [st EXCEPT !.pending = TRUE]
      [] l.form \in {"blank"} \union Comments -> st
      [] OTHER -> [pending |-> FALSE,
                   files |-> IF st.pending /\ l.form = "include"
                             THEN st.files \union {l.names[1]} ELSE st.files]
DeprecatedIncludes(lines) ==
    FoldLeft(DeprecatedStep, [pending |-> FALSE, files |-> {}], lines).files

(* classify_sym: what is deprecated, the first entry of a name being the   *)
(* one that counts; the line is where it is declared in this file.         *)
Entry(class, name, line) == [class |-> class, name |-> name, line |-> line]
ClassOf(kind) == CASE kind = "define" -> "macro" [] kind = "variable" -> "variable"
                   [] OTHER -> "callable"
Entries(symbols, here) ==
    [k \in DOMAIN symbols |->
        Entry(ClassOf(symbols[k].kind), symbols[k].name, IF here THEN symbols[k].line ELSE 0)]
MacroEntries(names) == [k \in DOMAIN names |-> Entry("macro", names[k], 0)]

NamesOf(symbols, kind) == {s.name : s \in {t \in Range(symbols) : t.kind = kind /\ t.deprecated}}

(* analyze_deprecated: a forward and the public it announces share it.     *)
Deprecations(lines, parsed, paths, included) ==
    LET files == DeprecatedIncludes(lines)
        symbols == parsed.symbols
        marked == SelectSeq(symbols, LAMBDA s : s.deprecated)
        publics == NamesOf(symbols, "public")
        imported(p) == SelectSeq(included[p].symbols, LAMBDA s : s.deprecated \/ p \in files)
        forwards == NamesOf(symbols, "forward")
                    \union UNION {NamesOf(included[p].symbols, "forward") : p \in Range(paths)}
        twins(kind, names) ==
            SelectSeq(symbols, LAMBDA s : s.kind = kind /\ s.name \in names)
    IN  [entries |-> Entries(marked, TRUE)
                     \o MacroEntries(parsed.deprecatedMacros)
                     \o Entries(twins("forward", publics), TRUE)
                     \o FlattenSeq([k \in DOMAIN paths |->
                           Entries(imported(paths[k]), FALSE)
                             \o MacroEntries(included[paths[k]].deprecatedMacros)])
                     \o Entries(twins("public", forwards), TRUE),
         declared |-> {[line |-> s.line, name |-> s.name] : s \in
                          Range(marked \o twins("public", forwards) \o twins("forward", publics))}]

(* emit_deprecated_usages.                                                 *)
Found(entries, classes, name) ==
    SelectInSeq(entries, LAMBDA e : e.class \in classes /\ e.name = name)
DeclaredBy(l) == IF l.form \in {"func", "funcOpen"} /\ l.key \in Declaring
                 THEN {l.names[1]} ELSE {}
UsedOn(entries, lines, i) ==
    LET l == lines[i]
        elsewhere(classes, n) ==
            LET k == Found(entries, classes, n) IN k # 0 /\ entries[k].line # i
        value(n) == IF Found(entries, {"variable"}, n) # 0
                    THEN elsewhere({"variable"}, n) ELSE elsewhere({"macro"}, n)
    IN  {n \in l.calls \ DeclaredBy(l) : elsewhere({"callable"}, n)}
        \union (IF IsDirective(l) THEN {} ELSE {n \in l.words : value(n)})

DeprecatedUses(entries, lines) ==
    UNION {{[line |-> i, name |-> n] : n \in UsedOn(entries, lines, i)} : i \in DOMAIN lines}

-----------------------------------------------------------------------------
(* undefined.rs: the calls of a program that nothing it sees declares.     *)
Known(parsed) == {s.name : s \in {t \in Range(parsed.symbols) : t.kind # "variable"}}
                 \union Range(parsed.macros)
UndefinedCalls(lines, parsed, included) ==
    LET known == Known(parsed) \union UNION {Known(included[p]) : p \in DOMAIN included}
    IN  UNION {l.calls \ known : l \in {m \in Range(lines) : ~IsDirective(m)}}

-----------------------------------------------------------------------------
(* semantic.rs: next_nonempty_starts_brace, blind to a comment that is     *)
(* open, and the declarations with a body they cannot have, or without.    *)
NextStartsBrace(lines, i) ==
    LET next == SelectInSubSeq(lines, i + 1, Len(lines), LAMBDA l : ~LooksBlank(l))
    IN  next # 0 /\ lines[next].form = "{"

DepthBefore(lines, i) ==
    FoldLeft(LAMBDA d, l : LET up == d + (IF l.open THEN 1 ELSE 0)
                           IN  IF l.close /\ up > 0 THEN up - 1 ELSE up,
             0, SubSeq(lines, 1, i - 1))

BodyIssue(lines, i) ==
    LET l == lines[i]
        body == l.open \/ (~l.end /\ NextStartsBrace(lines, i))
    IN  /\ l.form = "func" /\ DepthBefore(lines, i) = 0
        /\ \/ l.key \in {"native", "forward"} /\ body
           \/ l.key \in {"public", "stock", "static"} /\ ~body
BodyIssues(lines) == {i \in DOMAIN lines : BodyIssue(lines, i)}

-----------------------------------------------------------------------------
(* hints.rs: extract_body_lines, to the brace that closes the first, and   *)
(* the parameters no line after the declaration's own mentions.            *)
BodyStep(st, l) ==
    LET up == st.depth + (IF l.open THEN 1 ELSE 0)
        down == IF l.close /\ up > 0 THEN up - 1 ELSE up
    IN  IF st.over THEN st
        ELSE [depth |-> down, opened |-> st.opened \/ l.open, count |-> st.count + 1,
              over |-> (st.opened \/ l.open) /\ down = 0]
BodyLines(lines, decl) ==
    LET end == FoldLeft(BodyStep, [depth |-> 0, opened |-> FALSE, count |-> 0, over |-> FALSE],
                        SubSeq(lines, decl, Len(lines)))
    IN  IF end.opened THEN decl..(decl + end.count - 1) ELSE {}

UnusedParams(lines, parsed) ==
    LET used(s) == UNION {lines[i].words \union lines[i].quoted :
                             i \in BodyLines(lines, s.line) \ {s.line}}
        params(s) == {p \in lines[s.line].params : ~Private(p)}
        funcs == {s \in Range(parsed.symbols) :
                     s.kind \in {"public", "stock", "static", "plain"}
                     /\ BodyLines(lines, s.line) # {}}
    IN  UNION {{[line |-> s.line, name |-> p] : p \in params(s) \ used(s)} : s \in funcs}

-----------------------------------------------------------------------------
(* WorkspaceState::analyze: a file, the includes collected for it, the     *)
(* first found first, and another file of the workspace.                   *)
Analyse(unit) ==
    LET lines == unit.lines
        parsed == ParseFile(lines)
        paths == unit.paths
        included == [p \in Range(paths) |-> ParseFile(unit.included[p])]
        others == {FileIdents(unit.included[p]) : p \in Range(paths)}
                  \union {FileIdents(unit.other)}
        deprecations == Deprecations(lines, parsed, paths, included)
        silent == unit.isInclude /\ ~unit.warnInInc
    IN  [unused |-> IF silent THEN {} ELSE UnusedSymbols(lines, parsed, others),
         needless |-> IF silent THEN {} ELSE UnusedIncludes(lines, parsed, included),
         deprecated |-> deprecations.declared,
         uses |-> DeprecatedUses(deprecations.entries, lines),
         undefined |-> IF unit.isInclude THEN {} ELSE UndefinedCalls(lines, parsed, included),
         bodies |-> BodyIssues(lines),
         params |-> UnusedParams(lines, parsed)]

-----------------------------------------------------------------------------
(* The same unit by its parts: what each declares is known, and a word on  *)
(* a line that does not declare it is a use.                               *)
Uses(l) == l.words \ Range(l.names)
Plainly(l) == l.key = "none" /\ ~IsDirective(l)

(* Warned of as unused is what no ordinary line uses, of this file or      *)
(* another; what no line at all mentions is warned of, if its declaration  *)
(* does not itself pass for a use.                                         *)
Watched == {"variable", "stock", "static", "native", "forward", "define"}
UnusedAgrees(unit, symbols, files, r) ==
    LET all == UNION {Range(f) : f \in files}
        watched == {s \in Range(symbols) : s.kind \in Watched /\ ~Private(s.name)}
        mentioned(n) == \E l \in all :
                          n \in l.quoted \union (IF Plainly(l) THEN l.words ELSE Uses(l))
        ordinary(s) == \E l \in {m \in all : Plainly(m)} :
                          s.name \in (IF s.kind \in {"variable", "define"} THEN l.words ELSE l.calls)
    IN  /\ \A n \in r.unused : \E s \in watched : s.name = n /\ ~ordinary(s)
        /\ \A s \in watched : ~mentioned(s.name) => s.name \in r.unused

(* An include is needed if anything of it or of what it includes is named. *)
NeedlessAgrees(unit, declared, r) ==
    \A p \in DOMAIN declared :
        LET own == {s.name : s \in Range(declared[p])}
            below == UNION {Range(l.names) : l \in {m \in Range(unit.included[p]) : m.form = "include"}}
            asked == \E l \in Range(unit.lines) : l.form = "include" /\ p = l.names[1]
            named(names) == \E l \in Range(unit.lines) :
                               names \intersect (l.words \union l.quoted) # {}
        IN  /\ p \in r.needless => asked /\ ~named(own)
            /\ asked /\ own # {} /\ below = {} /\ ~named(own) => p \in r.needless

(* Deprecated is what a pragma marks, the public of a forward and the      *)
(* forward of a public that are, and all of an include that is; each use   *)
(* of it is told, on its line, and the declaration is not a use.           *)
DeprecatedAgrees(unit, symbols, declared, marked, r) ==
    LET imported(kind) == UNION {{s \in Range(declared[p]) : s.kind = kind} : p \in DOMAIN declared}
        twin(s) == \E t \in Range(symbols) \union imported("forward") :
                      /\ t.deprecated /\ t.name = s.name
                      /\ \/ s.kind = "public" /\ t.kind = "forward"
                         \/ s.kind = "forward" /\ t.kind = "public"
        here == {s \in Range(symbols) : s.deprecated \/ twin(s)}
        there == UNION {{s \in Range(declared[p]) : s.deprecated \/ p \in marked} : p \in DOMAIN declared}
        is(n, class) == \E s \in here \union there : s.name = n /\ ClassOf(s.kind) = class
    IN  /\ r.deprecated = {[line |-> s.line, name |-> s.name] : s \in here}
        /\ \A i \in DOMAIN unit.lines :
              LET l == unit.lines[i]
              IN  \A n \in Uses(l) :
                     [line |-> i, name |-> n] \in r.uses <=>
                        \/ n \in l.calls /\ is(n, "callable")
                        \/ ~IsDirective(l) /\ (is(n, "variable") \/ is(n, "macro"))
        /\ \A u \in r.uses : unit.lines[u.line].key \in Declaring =>
                                u.name \in Uses(unit.lines[u.line])
        /\ \A s \in here : {t \in here \union there : t.name = s.name} = {s} =>
                             [line |-> s.line, name |-> s.name] \notin r.uses

UndefinedAgrees(unit, symbols, declared, r) ==
    LET known == {s.name : s \in {t \in UNION ({Range(symbols)} \union {Range(declared[p]) : p \in DOMAIN declared}) :
                                     t.kind # "variable"}}
    IN  ~unit.isInclude =>
            r.undefined = UNION {l.calls : l \in {m \in Range(unit.lines) : ~IsDirective(m)}} \ known

(* A function is one part: it has a body if a brace opens in it, and its   *)
(* parameters are used if a line after its first has them.                 *)
Function(part) == {i \in DOMAIN part.lines : part.lines[i].form = "func"}
BodiesAgree(parts, r) ==
    \A k \in DOMAIN parts : \A i \in Function(parts[k]) :
        LET l == parts[k].lines[i]
            body == \E m \in Range(parts[k].lines) : m.open
            hidden == \E j \in i..Len(parts[k].lines) : parts[k].lines[j].form = "comment"
        IN  ~hidden => (i + Offset(parts, k) \in r.bodies <=>
                          IF body THEN l.kind \in {"native", "forward"}
                          ELSE l.kind \in {"public", "stock", "static"})
ParamsAgree(parts, r) ==
    \A k \in DOMAIN parts : \A i \in Function(parts[k]) :
        LET lines == parts[k].lines
            body == \E l \in Range(lines) : l.open
            used(p) == \E j \in (i + 1)..Len(lines) : p \in lines[j].words \union lines[j].quoted
        IN  body => \A p \in lines[i].params :
                       [line |-> i + Offset(parts, k), name |-> p] \in r.params <=>
                           lines[i].kind \notin {"native", "forward"} /\ ~used(p)

(* A project: the parts of the file, of its includes and of another file.  *)
Unit(project) ==
    [lines |-> LinesOf(project.file), paths |-> project.paths, other |-> LinesOf(project.other),
     included |-> [p \in DOMAIN project.includes |-> LinesOf(project.includes[p])],
     isInclude |-> project.isInclude, warnInInc |-> project.warnInInc]

AnalysisAgrees(project, unit, r) ==
    LET symbols == DeclaredSymbols(project.file)
        declared == [p \in DOMAIN project.includes |-> DeclaredSymbols(project.includes[p])]
        marked == {p \in DOMAIN declared : \E k \in DOMAIN project.file :
                      LET ls == Range(project.file[k].lines)
                      IN  /\ \E l \in ls : l.form = "include" /\ l.names[1] = p
                          /\ \E l \in ls : l.form = "pragma"}
        files == {unit.lines, unit.other} \union {unit.included[p] : p \in DOMAIN declared}
        silent == unit.isInclude /\ ~unit.warnInInc
    IN  /\ IF silent THEN r.unused \union r.needless = {}
           ELSE UnusedAgrees(unit, symbols, files, r) /\ NeedlessAgrees(unit, declared, r)
        /\ DeprecatedAgrees(unit, symbols, declared, marked, r)
        /\ UndefinedAgrees(unit, symbols, declared, r)
        /\ BodiesAgree(project.file, r) /\ ParamsAgree(project.file, r)
=============================================================================
