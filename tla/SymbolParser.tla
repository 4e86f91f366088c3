---------------------------- MODULE SymbolParser ----------------------------
(***************************************************************************)
(* The symbols of a file: a reading of its lines, one after the other,     *)
(* that remembers what the next lines may still decide.                    *)
(*                                                                         *)
(* A line is a record: its form (which expression of symbols.rs matches    *)
(* it), the names and the kind it has, and whether it holds "{", "}", ";"  *)
(* and the begin or the end of a block comment.  A name is a sequence, an  *)
(* alias of a namespace being put before it.                               *)
(***************************************************************************)
EXTENDS Integers, Sequences, SequencesExt, FiniteSets, Functions

Bare == [form |-> "blank", names |-> <<>>, kind |-> "none", ns |-> "none",
         open |-> FALSE, close |-> FALSE, end |-> FALSE, begins |-> FALSE, ends |-> FALSE]
Line(form) == [Bare EXCEPT !.form = form]
Comments == {"//", "comment"}

None == <<>>
Symbol(name, kind, deprecated, doc, line) ==
    [name |-> name, kind |-> kind, deprecated |-> deprecated, doc |-> doc, line |-> line]

-----------------------------------------------------------------------------
(* extract_doc: the comment just above the declaration, but for pragmas.   *)
RECURSIVE DocEnd(_, _), BlockDoc(_, _), LineDoc(_, _)
DocEnd(lines, i) ==
    IF i > 0 /\ lines[i].form = "pragma" THEN DocEnd(lines, i - 1) ELSE i
BlockDoc(lines, i) == CASE i = 0 -> 0
                        [] i > 0 -> IF lines[i].begins THEN i ELSE BlockDoc(lines, i - 1)
LineDoc(lines, i) ==
    IF i > 1 /\ lines[i - 1].form = "//" THEN LineDoc(lines, i - 1) ELSE i

ExtractDoc(lines, line) ==
    LET last == DocEnd(lines, line - 1)
    IN  IF last = 0 THEN None
        ELSE IF lines[last].ends
             THEN IF BlockDoc(lines, last) = 0 THEN None ELSE <<BlockDoc(lines, last), last>>
        ELSE IF lines[last].form = "//" THEN <<LineDoc(lines, last), last>> ELSE None

-----------------------------------------------------------------------------
(* ParserState.                                                            *)
Begin == [symbols |-> <<>>, includes |-> <<>>, macros |-> <<>>, deprecatedMacros |-> <<>>,
          prefixes |-> {}, aliases |-> <<>>,
          inBlock |-> FALSE, depth |-> 0, deprecated |-> FALSE,
          plain |-> None, multiline |-> None, multiVar |-> FALSE,
          inEnum |-> FALSE, enumOpen |-> FALSE, nsAlias |-> None]

Pushed(st, s) == [st EXCEPT !.symbols = Append(@, s)]
PushedAll(st, names, kind, deprecated, line) ==
    [st EXCEPT !.symbols = @ \o [k \in DOMAIN names |->
                                    Symbol(names[k], kind, deprecated, None, line)]]

Braces(st, l) ==
    LET opened == st.depth + (IF l.open THEN 1 ELSE 0)
    IN  [st EXCEPT !.depth = IF l.close /\ opened > 0 THEN opened - 1 ELSE opened]

AliasOf(st, ns) == IF ns \in DOMAIN st.aliases THEN <<st.aliases[ns]>> ELSE <<>>
EffectiveName(st, l) == AliasOf(st, l.ns) \o l.names[1]

(* continue_multiline_func: a declaration without a body is complete at    *)
(* the parenthesis, another at its brace.                                  *)
ContinueMultiline(st, l) ==
    LET f == st.multiline[1]
        bodyless == f.kind \in {"native", "forward"}
    IN  IF l.form # "paramsEnd" THEN st
        ELSE IF bodyless \/ l.open THEN Pushed([st EXCEPT !.multiline = None], f)
             ELSE [st EXCEPT !.multiline = None, !.plain = <<f>>]

(* #define: a macro that declares functions is a prefix, another a symbol, *)
(* and may be the alias of a namespace, here or on the next line.          *)
Define(st, l, deprecated, doc, line) ==
    LET name == l.names[1]
        named == [st EXCEPT !.macros = Append(@, name),
                            !.deprecatedMacros = IF deprecated THEN Append(@, name) ELSE @]
        symbol == Pushed(named, Symbol(name, "define", deprecated, doc, line))
    IN  CASE l.kind = "prefix" -> [named EXCEPT !.prefixes = @ \union {name}]
          [] l.kind = "alias" -> [symbol EXCEPT !.aliases = (name[1] :> l.names[2][1]) @@ @]
          [] l.kind = "aliasOpen" -> [symbol EXCEPT !.nsAlias = <<name[1]>>]
          [] OTHER -> symbol

Enum(st, l, deprecated, doc, line) ==
    LET named == IF l.names = <<>> THEN st
                 ELSE Pushed(st, Symbol(l.names[1], "enum", deprecated, doc, line))
        members == PushedAll(named, Tail(l.names), "const", FALSE, line)
    IN  IF ~l.open THEN [named EXCEPT !.enumOpen = TRUE]
        ELSE IF Len(l.names) < 2 THEN [named EXCEPT !.inEnum = TRUE]
        ELSE [members EXCEPT !.inEnum = ~l.close]

(* try_function_decl: a constant, a plain function, which waits for its    *)
(* brace, or a signature that goes on.                                     *)
OtherForms(st, l, symbol) ==
    CASE l.form = "func" /\ l.kind = "plain" ->
            IF l.open THEN Pushed(st, symbol) ELSE [st EXCEPT !.plain = <<symbol>>]
      [] l.form = "funcOpen" -> [st EXCEPT !.multiline = <<symbol>>]
      [] l.form = "const" \/ (l.form = "func" /\ l.kind # "plain") -> Pushed(st, symbol)
      [] OTHER -> st

(* Or the variables of a line, which no comment documents.                 *)
Declare(st, l, deprecated, doc, line) ==
    LET qualified == l.kind \in {"public", "stock"} \/ l.form = "funcOpen"
        name == IF qualified THEN EffectiveName(st, l) ELSE l.names[1]
    IN  IF l.form = "vars" THEN PushedAll(st, l.names, l.kind, deprecated, line)
        ELSE OtherForms(st, l, Symbol(name, l.kind, deprecated, doc, line))

TopLevel(st0, l, lines, line) ==
    LET st == [st0 EXCEPT !.inEnum = FALSE, !.enumOpen = FALSE]
        taken == [st EXCEPT !.deprecated = FALSE, !.plain = None]
        doc == ExtractDoc(lines, line)
    IN  IF st0.enumOpen /\ l.form = "{" THEN [st EXCEPT !.inEnum = TRUE, !.plain = None]
        ELSE IF st.multiVar
             THEN [PushedAll(st, l.names, "variable", st.deprecated, line) EXCEPT
                      !.plain = None, !.multiVar = ~(l.end \/ l.open)]
        ELSE IF l.form = "bareDecl" THEN [st EXCEPT !.multiVar = TRUE]
        ELSE IF st.plain # None /\ l.form = "{"
             THEN [Pushed(st, st.plain[1]) EXCEPT !.plain = None]
        ELSE CASE l.form = "include" -> [taken EXCEPT !.includes = Append(@, l.names[1])]
               [] l.form = "enum" -> Enum(taken, l, st.deprecated, doc, line)
               [] l.form = "define" -> Define(taken, l, st.deprecated, doc, line)
               [] OTHER -> Declare(taken, l, st.deprecated, doc, line)

Nested(st, l, line) ==
    LET left == [st EXCEPT !.deprecated = FALSE, !.multiVar = FALSE]
    IN  IF st.inEnum /\ st.depth = 1 /\ l.form = "names"
        THEN PushedAll(left, <<l.names[1]>>, "const", FALSE, line) ELSE left

(* process_line.                                                           *)
ProcessLine(st0, lines, line) ==
    LET l == lines[line]
        empty == l.form \in {"blank"} \union Comments \/ st0.inBlock
        st == [st0 EXCEPT !.inBlock = (@ \/ l.begins) /\ ~l.ends]
        alias == IF l.form = "names" THEN (st.nsAlias[1] :> l.names[1][1]) @@ st.aliases
                 ELSE st.aliases
    IN  IF l.form = "pragma" THEN [st EXCEPT !.deprecated = TRUE]
        ELSE IF st.multiline # None
             THEN Braces(IF empty THEN st ELSE ContinueMultiline(st, l), l)
        ELSE IF st.nsAlias # None THEN [st EXCEPT !.nsAlias = None, !.aliases = alias]
        ELSE IF empty THEN st
        ELSE Braces(IF st.depth = 0 THEN TopLevel(st, l, lines, line) ELSE Nested(st, l, line), l)

ParseFile(lines) ==
    FoldLeftDomain(LAMBDA st, i : ProcessLine(st, lines, i), Begin, lines)

-----------------------------------------------------------------------------
(* A file is made of parts.  A part has its lines and says what it         *)
(* declares: each name with its kind and the line of the part it is on,    *)
(* whether it is deprecated and which of its lines document it.            *)
RECURSIVE Offset(_, _)
Offset(parts, k) == IF k = 1 THEN 0 ELSE Offset(parts, k - 1) + Len(parts[k - 1].lines)

Shifted(s, n) == [s EXCEPT !.line = @ + n,
                           !.doc = IF @ = None THEN None ELSE <<@[1] + n, @[2] + n>>]

LinesOf(parts) == FlattenSeq([k \in DOMAIN parts |-> parts[k].lines])
DeclaredSymbols(parts) ==
    FlattenSeq([k \in DOMAIN parts |-> [j \in DOMAIN parts[k].declares |->
                   Shifted(parts[k].declares[j], Offset(parts, k))]])

(* The symbols of a file are those of its parts, in any order and in any   *)
(* company, and nothing stays open at the end.                             *)
SymbolsAgree(parts, result) ==
    /\ result.symbols = DeclaredSymbols(parts)
    /\ result.depth = 0 /\ ~result.inBlock /\ ~result.deprecated
    /\ result.plain = None /\ result.multiline = None /\ ~result.multiVar
=============================================================================
