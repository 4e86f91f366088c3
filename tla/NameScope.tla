----------------------------- MODULE NameScope -----------------------------
(***************************************************************************)
(* How far a name reaches: what the engine renames when the cursor is on   *)
(* it, and where it finds it declared.  A unit is a sequence of files that *)
(* are compiled together, a file a sequence of lines, a line one of words  *)
(* and marks, without comments; a string that is just a name is the name   *)
(* between quotes.                                                         *)
(***************************************************************************)
EXTENDS Integers, Sequences, SequencesExt, FiniteSets, FiniteSetsExt

Names == {"a", "b", "f", "g"}
Quoted == [n \in Names |-> CASE n = "f" -> "'f'" [] n = "a" -> "'a'" [] OTHER -> "''"]

At(atoms, i) == IF i \in DOMAIN atoms THEN atoms[i] ELSE "end"
Delta(atoms) == FoldLeft(LAMBDA n, c : CASE c = "{" -> n + 1 [] c = "}" -> n - 1 [] OTHER -> n, 0, atoms)
(* The braces that are open before each line, and after the last.          *)
Depths(text) == FoldLeft(LAMBDA ds, l : Append(ds, Last(ds) + Delta(l)), <<0>>, text)

-----------------------------------------------------------------------------
(* declared_names: the first word of each item of the lists that new or    *)
(* static begin, up to a semicolon or to the parenthesis around the list.  *)
ItemStep(atoms, st, i) ==
    LET c == atoms[i]
    IN  CASE ~st.on -> [st EXCEPT !.on = c \in {"new", "static"}, !.first = TRUE, !.depth = 0]
          [] st.on /\ st.depth = 0 /\ c \in {")", "]", "}", ";"} -> [st EXCEPT !.on = FALSE]
          [] OTHER -> [st EXCEPT !.depth = CASE c \in {"(", "[", "{"} -> @ + 1
                                             [] c \in {")", "]", "}"} -> @ - 1 [] OTHER -> @,
                                 !.first = c = "," /\ st.depth = 0,
                                 !.names = IF st.first /\ c \in Names THEN @ \union {c} ELSE @]
DeclaredNames(atoms) ==
    FoldLeftDomain(LAMBDA st, i : ItemStep(atoms, st, i),
                   [on |-> FALSE, depth |-> 0, first |-> FALSE, names |-> {}], atoms).names

(* What the parser finds in a file: functions, with their parameters, and  *)
(* the variables outside of them.                                          *)
Kinds == {"public", "forward"}
Symbols(text) ==
    LET depths == Depths(text)
        top(n) == depths[n] = 0
        nameAt(n) == IF At(text[n], 1) \in Kinds THEN 2 ELSE 1
        header(n) == At(text[n], nameAt(n)) \in Names /\ At(text[n], nameAt(n) + 1) = "("
        symbol(name, n, kind, params) == [name |-> name, line |-> n, kind |-> kind, params |-> params]
        found(n) == IF header(n)
                    THEN {symbol(text[n][nameAt(n)], n, IF nameAt(n) = 2 THEN text[n][1] ELSE "plain",
                                 {text[n][i] : i \in (nameAt(n) + 2)..Len(text[n])} \intersect Names)}
                    ELSE {symbol(w, n, "variable", {}) : w \in DeclaredNames(text[n])}
    IN  UNION {found(n) : n \in {m \in DOMAIN text : top(m)}}
(* A file as the engine keeps it.                                          *)
File(text) == [lines |-> text, symbols |-> Symbols(text), depths |-> Depths(text),
               declared |-> FoldLeft(LAMBDA out, l : Append(out, DeclaredNames(l)), <<>>, text)]
Named(file, name) == {s \in file.symbols : s.name = name}
NamedIn(unit, name) == UNION {Named(unit[f], name) : f \in DOMAIN unit}

(* locate_symbol: the first that is accepted, in the file itself or else   *)
(* in the others in their order.                                           *)
LocateSymbol(unit, file, name, kinds) ==
    LET at(f) == {s \in Named(unit[f], name) : s.kind \in kinds}
        files == SelectSeq(<<file>> \o [f \in DOMAIN unit |-> f], LAMBDA f : at(f) # {})
        first(S) == CHOOSE s \in S : \A t \in S : s.line <= t.line
    IN  IF files = <<>> THEN <<>> ELSE <<files[1], first(at(files[1]))>>
AllKinds == {"plain", "public", "forward", "variable"}

-----------------------------------------------------------------------------
(* enclosing_body: from the header, the last line out of braces before the *)
(* body is opened, to the line that closes it.                             *)
EnclosingBody(file, line) ==
    LET text == file.lines
        depths == file.depths
        out(n) == depths[n] = 0
        ends == {n \in DOMAIN text : depths[n + 1] = 0 /\ (~out(n) \/ Contains(text[n], "{"))}
        opens(n) == Max({m \in 1..n : out(m)})
        header(n) == Max({m \in 1..n : out(m) /\ At(text[m], 1) \notin {"{", "end"}} \union {1})
        around == {n \in ends : line \in header(opens(n))..n}
    IN  IF around = {} THEN <<>> ELSE <<header(opens(Min(around))), Min(around)>>

(* local_scope: of the declarations that are good at the line the last, to *)
(* the end of its block or of its for; the whole function for a parameter. *)
Closes(file, body, from, level) ==
    Min({n \in from..body[2] : file.depths[n + 1] < level} \union {body[2]})
ScopeEnd(file, body, n) ==
    LET depths == file.depths
        next == IF n < body[2] THEN n + 1 ELSE n
    IN  IF At(file.lines[n], 1) # "for" THEN Closes(file, body, n, depths[n])
        ELSE IF depths[n + 1] > depths[n] THEN Closes(file, body, n, depths[n + 1])
        ELSE IF Contains(file.lines[n], "{") THEN n
        ELSE IF next > n /\ At(file.lines[next], 1) = "{" THEN Closes(file, body, next, depths[next + 1])
        ELSE next
LocalScope(file, name, body, line) ==
    LET good == {n \in body[1]..line : name \in file.declared[n] /\ line <= ScopeEnd(file, body, n)}
    IN  IF good = {} THEN body[1]..body[2] ELSE Max(good)..ScopeEnd(file, body, Max(good))

(* scope_of: the unit, if the name is declared outside of functions.       *)
InUnit(unit, file, name) == LocateSymbol(unit, file, name, AllKinds) # <<>>

(* resolve_callable: a function if one is declared on the line, if it is   *)
(* called there, or if the name is nothing else.                           *)
ResolveCallable(unit, file, line, i, name) ==
    LET here == {s \in Named(unit[file], name) : s.line = line}
        function(s) == s.kind # "variable"
    IN  IF here # {} THEN \A s \in here : function(s)
        ELSE \/ At(unit[file].lines[line], i + 1) = "("
             \/ NamedIn(unit, name) # {} /\ \A s \in NamedIn(unit, name) : function(s)

Occurrences(unit, file, name, callable, quoted, lines) ==
    UNION {LET l == unit[file].lines[n]
           IN  {<<file, n, i>> : i \in {j \in DOMAIN l :
                    \/ l[j] = name /\ (callable => At(l, j + 1) = "(")
                    \/ quoted /\ l[j] = Quoted[name]}} : n \in lines}

GetReferences(unit, file, line, name, callable) ==
    LET body == EnclosingBody(unit[file], line)
        public == LocateSymbol(unit, file, name, {"public"}) # <<>>
    IN  CASE InUnit(unit, file, name) ->
                UNION {Occurrences(unit, f, name, callable, public, DOMAIN unit[f].lines) : f \in DOMAIN unit}
          [] ~InUnit(unit, file, name) /\ body # <<>> ->
                Occurrences(unit, file, name, FALSE, FALSE, LocalScope(unit[file], name, body, line))
          [] OTHER -> {}

(* local_named and refusal: a variable of the unit is not renamed when its *)
(* name is also that of a parameter or of a local.                         *)
LocalNamed(file, name) ==
    \/ \E s \in file.symbols : name \in s.params
    \/ \E n \in DOMAIN file.lines : file.depths[n] > 0 /\ name \in file.declared[n]
Refusal(unit, file, name, callable) ==
    /\ InUnit(unit, file, name) /\ ~callable
    /\ \E f \in DOMAIN unit : LocalNamed(unit[f], name)
(* The word under the cursor, of a name in a string too.                   *)
GetRename(unit, file, line, i, name) ==
    LET callable == ResolveCallable(unit, file, line, i, name)
    IN  IF Refusal(unit, file, name, callable) THEN [refused |-> TRUE, at |-> {}]
        ELSE [refused |-> FALSE, at |-> GetReferences(unit, file, line, name, callable)]

(* get_definition: the body of a function before what announces it.        *)
GetDefinition(unit, file, name) ==
    LET body == LocateSymbol(unit, file, name, AllKinds \ {"forward"})
    IN  IF body # <<>> THEN body ELSE LocateSymbol(unit, file, name, AllKinds)

-----------------------------------------------------------------------------
(* What every name stands for, by the scopes of the language: the tokens   *)
(* of a file one after the other, whatever lines they are on.              *)
Tokens(text, f) ==
    FoldLeftDomain(LAMBDA out, n : out \o [i \in DOMAIN text[n] |-> [c |-> text[n][i], at |-> <<f, n, i>>]],
                   <<>>, text)
Is(toks, p) == IF p \in DOMAIN toks THEN toks[p].c ELSE "end"
(* Where what opens at p closes.                                           *)
RECURSIVE Closing(_, _, _)
Closing(toks, p, depth) ==
    LET now == depth + (CASE Is(toks, p) \in {"(", "{"} -> 1 [] Is(toks, p) \in {")", "}"} -> -1 [] OTHER -> 0)
    IN  IF now <= 0 \/ p > Len(toks) THEN p ELSE Closing(toks, p + 1, now)
RECURSIVE StatementEnd(_, _)
StatementEnd(toks, p) ==
    CASE Is(toks, p) = "{" -> Closing(toks, p, 0)
      [] Is(toks, p) \in {"for", "if"} -> StatementEnd(toks, Closing(toks, p + 1, 0) + 1)
      [] OTHER -> Min({q \in p..Len(toks) : toks[q].c = ";"} \union {Len(toks)})

Declarations(toks) ==
    LET names == {p \in DOMAIN toks : toks[p].c \in Names}
        region(q, from) == [at |-> q, to |-> Closing(toks, from, 0)]
        blocks == {region(q, q) : q \in {r \in DOMAIN toks : toks[r].c = "{"}}
        heads == {region(q, q + 1) : q \in {r \in DOMAIN toks : toks[r].c = "for"}}
        around(regions, p) == {r \in regions : r.at < p /\ p < r.to}
        inner(regions, p) == CHOOSE r \in around(regions, p) : \A o \in around(regions, p) : o.at <= r.at
        listed == {p \in names : \/ Is(toks, p - 1) = "new"
                                 \/ Is(toks, p - 1) = "," /\ Is(toks, p - 3) = "new"}
        outer == {p \in names : around(blocks, p) = {}}
        decl(p, local, to) == [name |-> toks[p].c, at |-> p, local |-> local, to |-> to]
    IN  {decl(p, TRUE, IF around(heads, p) # {} THEN StatementEnd(toks, inner(heads, p).at)
                       ELSE inner(blocks, p).to) : p \in listed \ outer}
        \union {decl(p, TRUE, Closing(toks, p + 2, 0)) :
            p \in {q \in outer : Is(toks, q - 1) = "(" /\ Is(toks, q + 2) = "{"}}
        \union {decl(p, FALSE, Len(toks)) :
            p \in {q \in outer : q \in listed \/ Is(toks, q + 1) = "("}}

(* Every occurrence of a name and what it stands for: the declaration of a *)
(* local, the name of something of the unit, or nothing.                   *)
BoundTo(toks, decls, p, globals) ==
    LET name == toks[p].c
        seen == {d.at : d \in {e \in decls : e.local /\ e.name = name /\ p \in e.at..e.to}}
        called == Is(toks, p + 1) = "("
    IN  IF seen # {} /\ ~called THEN <<name, toks[Max(seen)].at>>
        ELSE IF <<name, called>> \in globals THEN <<name, <<>>>> ELSE <<>>
BoundIn(toks, decls, globals, publics) ==
    {[name |-> toks[p].c, at |-> toks[p].at, to |-> BoundTo(toks, decls, p, globals)] :
        p \in {q \in DOMAIN toks : toks[q].c \in Names}}
    \union UNION {{[name |-> n, at |-> toks[p].at, to |-> <<n, <<>>>>] :
        p \in {q \in DOMAIN toks : toks[q].c = Quoted[n]}} : n \in publics}
Bindings(unit) ==
    LET read == FoldLeftDomain(LAMBDA out, f : Append(out, Tokens(unit[f].lines, f)), <<>>, unit)
        decls == FoldLeft(LAMBDA out, toks : Append(out, Declarations(toks)), <<>>, read)
        globals == UNION {{<<d.name, Is(read[f], d.at + 1) = "(">> : d \in {e \in decls[f] : ~e.local}} :
                             f \in DOMAIN unit}
        publics == {s.name : s \in {t \in UNION {unit[f].symbols : f \in DOMAIN unit} : t.kind = "public"}}
    IN  UNION {BoundIn(read[f], decls[f], globals, publics) : f \in DOMAIN unit}

(* Where the engine misses, reading lines: a for that declares and whose   *)
(* body is on its line without braces, or is another control; a block that *)
(* declares and is on one line; a local that has the name of a function.   *)
KnownToMiss(unit, name) ==
    \/ \E f \in DOMAIN unit : \E n \in DOMAIN unit[f].lines :
          LET text == unit[f].lines
              first(m) == IF m \in DOMAIN text THEN At(text[m], 1) ELSE "end"
          IN  /\ name \in unit[f].declared[n]
              /\ \/ first(n) = "for" /\ (Last(text[n]) = ";" \/ first(n + 1) \in {"for", "if"})
                 \/ first(n) = "{"
    \/ /\ \E s \in NamedIn(unit, name) : s.kind # "variable"
       /\ \E f \in DOMAIN unit : LocalNamed(unit[f], name)

(* A rename takes what is under the cursor, and of what any name stands    *)
(* for every occurrence or none; that of something of the unit takes no    *)
(* local.  It is refused only if the name stands for more than one thing.  *)
RenameAgrees(unit, bindings, b, r) ==
    LET same == {c \in bindings : c.name = b.name /\ c.to # <<>>}
    IN  b.to # <<>> /\ ~KnownToMiss(unit, b.name) =>
          IF r.refused THEN \E c \in same : c.to # b.to
          ELSE /\ b.at \in r.at
               /\ b.to = <<b.name, <<>>>> => \A c \in same : c.at \in r.at => c.to = b.to
               /\ \A c, d \in same : c.to = d.to => (c.at \in r.at <=> d.at \in r.at)

(* The definition of a name is what bears it and has a body, if the unit   *)
(* has one.                                                                *)
DefinitionAgrees(unit, name, r) ==
    r # <<>> /\ r[2].kind = "forward" => \A s \in NamedIn(unit, name) : s.kind = "forward"
=============================================================================
