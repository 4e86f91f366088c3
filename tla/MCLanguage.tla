----------------------------- MODULE MCLanguage -----------------------------
(* What the tools of the language are asked.                               *)
EXTENDS Integers, Sequences, SequencesExt, TLC

Reader == INSTANCE TokenLexer
Indent == INSTANCE StmtIndent
Symbols == INSTANCE SymbolParser
Code == INSTANCE CodeAnalysis

Lists(els, n) == UNION {[1..k -> els] : k \in 0..n}

-----------------------------------------------------------------------------
(* Texts of three characters, and of three pieces in which a literal, a    *)
(* comment, a line or a block is opened or closed.                         *)
TextPieces == {<<"\"", "a", "\"">>, <<"\"", "\\", "\"", "{", "\"">>, <<"'", "\"", "'">>,
               <<"/", "*">>, <<"*", "/">>, <<"/", "/">>, <<"\n">>, <<"{">>, <<"}">>, <<" ">>,
               <<"\t">>, <<"#", "b", "1">>, <<"a">>, <<"<", "<", "=">>}
SourceTexts(pieces) ==
    Lists({"\"", "'", "\\", "/", "*", "\n", "{", "a", " ", "#"}, 3)
        \union {FlattenSeq(s) : s \in Lists(pieces, 3)}
        \union {<<"{">> \o FlattenSeq(s) : s \in [1..4 -> {<<"/", "*">>, <<"*", "/">>, <<"\n">>, <<"}">>, <<"\t">>}]}

-----------------------------------------------------------------------------
(* Bodies of functions: a list of two, each in its place or too far in.    *)
S(form, head, i, parts) == [form |-> form, head |-> head, indent |-> i, parts |-> parts]
Calling == <<"ident", "(", "ident", "{", "ident", "}", ")", ";">>
Returning == <<"return", "ident", ";">>
Simple(ind) == {S("stmt", Calling, i, <<>>) : i \in ind}
Block(lists, i) == {S("block", <<>>, i, l) : l \in lists}
CaseOf(h, i) == <<S("case", h, i, <<>>), S("stmt", Returning, i, <<>>)>>
Cases == Block({CaseOf(<<"case", "ident", "?", "ident", ":", "ident", ":">>, i)
                  \o CaseOf(<<"default", ":">>, j) : i \in {4, 8}, j \in {4, 8}}, 4)
Bodies == Simple({4}) \union Block(Lists(Simple({4, 8}), 2), 4)
Under(head, i, bodies) == {S("if", head, i, <<p>>) : p \in bodies}
Nested == Under(<<"if", "(", "ident", ")">>, 8, Bodies)
Else == Under(<<"else">>, 4, Bodies)
Elements == Simple({4, 8}) \union {S("label", <<"ident", ":">>, 0, <<>>)}
    \union UNION {Under(<<"while", "(", "ident", "(", ")", ")">>, i, Bodies \union Nested) : i \in {4, 8}}
    \union Else \union Under(<<"switch", "(", "ident", ")">>, 4, Cases)
FunctionBodies(elements) ==
    {LET f == S("fn", <<"static", "const", "ident", "(", ")">>, 0, <<b>>)
     IN  [tree |-> f, tokens |-> Indent!Render(f)] :
        b \in Block(Lists(elements, 2) \union [1..3 -> Simple({4, 8}) \union Else], 0)}

-----------------------------------------------------------------------------
(* Files of two parts: a declaration, under a comment, a pragma, or both.  *)
N(s) == <<s>>
L(form) == Symbols!Line(form)
Named(form, names, kind) == [L(form) EXCEPT !.names = names, !.kind = kind]
Open(l) == [l EXCEPT !.open = TRUE]
Close(l) == [l EXCEPT !.close = TRUE]
End(l) == [l EXCEPT !.end = TRUE]
Fn(kind) == Named("func", <<N("f")>>, kind)
Body == <<End(L("stmt")), Close(L("}"))>>
Curly == Open(L("{"))
Stars == [L("comment") EXCEPT !.begins = TRUE]

Above == {[lines |-> c[1] \o p, deprecated |-> p # <<>>, doc |-> c[2]] :
            c \in {<< <<>>, <<>> >>, << <<L("//"), L("//")>>, <<1, 2>> >>,
                   << <<Stars, L("comment"), [L("comment") EXCEPT !.ends = TRUE]>>, <<1, 3>> >>,
                   << <<[Stars EXCEPT !.ends = TRUE], L("blank")>>, <<>> >>},
            p \in {<<>>, <<L("pragma")>>}}

(* A declaration: its lines, and the name, kind and line of each symbol;   *)
(* the first line's symbols take the pragma, and most of them the comment. *)
Form(lines, declares) == [lines |-> lines, declares |-> declares]
D(name, kind, line) == [name |-> name, kind |-> kind, line |-> line]
Forms == {
    Form(<<L("blank")>>, <<>>),
    Form(<<Named("include", <<N("i")>>, "none")>>, <<>>),
    Form(<<Named("define", <<N("m")>>, "prefix")>>, <<>>),
    Form(<<Named("define", <<N("m")>>, "macro")>>, <<D(N("m"), "define", 1)>>),
    Form(<<End(Fn("native"))>>, <<D(N("f"), "native", 1)>>),
    Form(<<Open(Fn("plain"))>> \o Body, <<D(N("f"), "plain", 1)>>),
    Form(<<Fn("plain"), L("blank"), Curly>> \o Body, <<D(N("f"), "plain", 1)>>),
    Form(<<Fn("public"), Curly, L("stmt"), Curly, L("stmt"), Close(L("}"))>> \o Body,
         <<D(N("f"), "public", 1)>>),
    Form(<<[Fn("public") EXCEPT !.ns = "NS"], Curly>> \o Body, <<D(N("f"), "public", 1)>>),
    Form(<<Named("funcOpen", <<N("f")>>, "stock"), L("params"), L("blank"), L("paramsEnd"), Curly>>
            \o Body, <<D(N("f"), "stock", 1)>>),
    Form(<<Named("funcOpen", <<N("f")>>, "plain"), Open(L("paramsEnd"))>> \o Body,
         <<D(N("f"), "plain", 1)>>),
    Form(<<Named("funcOpen", <<N("f")>>, "native"), End(L("paramsEnd"))>>,
         <<D(N("f"), "native", 1)>>),
    Form(<<Named("define", <<N("NA"), N("p")>>, "alias"), [Fn("public") EXCEPT !.ns = "NA"], Curly>>
            \o Body, <<D(N("NA"), "define", 1), D(<<"p", "f">>, "public", 2)>>),
    Form(<<Named("define", <<N("NT")>>, "aliasOpen"), Named("names", <<N("p")>>, "none"),
           [Named("funcOpen", <<N("f")>>, "public") EXCEPT !.ns = "NT"], L("paramsEnd"), Curly>>
            \o Body, <<D(N("NT"), "define", 1), D(<<"p", "f">>, "public", 3)>>),
    Form(<<End(Named("vars", <<N("a"), N("b")>>, "variable"))>>,
         <<D(N("a"), "variable", 1), D(N("b"), "variable", 1)>>),
    Form(<<End(Named("const", <<N("c")>>, "const"))>>, <<D(N("c"), "const", 1)>>),
    Form(<<Open(Named("enum", <<N("e")>>, "none")), Named("names", <<N("a")>>, "none"), L("//"),
           Named("names", <<N("b")>>, "none"), Close(End(L("}")))>>,
         <<D(N("e"), "enum", 1), D(N("a"), "const", 2), D(N("b"), "const", 4)>>),
    Form(<<Named("enum", <<N("e")>>, "none"), L("blank"), Curly, Named("names", <<N("a")>>, "none"),
           Close(End(L("}")))>>, <<D(N("e"), "enum", 1), D(N("a"), "const", 4)>>),
    Form(<<Close(End(Open(Named("enum", <<N("e"), N("a"), N("b")>>, "none"))))>>,
         <<D(N("e"), "enum", 1), D(N("a"), "member", 1), D(N("b"), "member", 1)>>)}
Bare == Form(<<L("bareDecl"), Named("names", <<N("a")>>, "none"), L("blank"),
               End(Named("names", <<N("b")>>, "none"))>>,
             <<D(N("a"), "variable", 2), D(N("b"), "variable", 4)>>)

Declared(d, a) ==
    LET first == d.line = 1 /\ d.kind # "member"
    IN  Symbols!Symbol(d.name, IF d.kind = "member" THEN "const" ELSE d.kind, first /\ a.deprecated,
                       IF first /\ d.kind # "variable" THEN a.doc ELSE <<>>, d.line + Len(a.lines))
FileParts == {[lines |-> p[1].lines \o p[2].lines,
               declares |-> [k \in DOMAIN p[2].declares |-> Declared(p[2].declares[k], p[1])]] :
              p \in {q \in Above \X (Forms \union {Bare}) :
                        q[1].deprecated => q[2].lines[1].form \notin {"blank", "bareDecl"}}}

-----------------------------------------------------------------------------
(* A file of an include, a declaration and a function that uses something, *)
(* the include declaring something too, or including another.              *)
F == N("f")
W(line, key, calls, words, params) == line @@ Code!Words(key, calls, words, {}, params)
Plain(line) == W(line, "none", {}, {}, {})
FnLine(name, kind) ==
    W(Named("func", <<name>>, kind), IF kind = "plain" THEN "none" ELSE kind, {name}, {}, {N("p")})
Stmt(key, calls, words) == W(End(L("stmt")), key, calls, words, {})
Quoting(names) == [Stmt("none", {}, {}) EXCEPT !.quoted = names]
FnBody(stmt) == <<Plain(Curly), stmt, Plain(Close(L("}")))>>
Empty == Stmt("none", {}, {})
Pragma == Plain(L("pragma"))
Variable(name) == W(End(Named("vars", <<name>>, "variable")), "new", {}, {name}, {})
Macro(name, uses) == W(Named("define", <<name>>, "macro"), "none", {}, {name} \union uses, {})
Part(lines, declares) ==
    [lines |-> lines, declares |-> [k \in DOMAIN declares |->
        Symbols!Symbol(declares[k].name, declares[k].kind, FALSE, <<>>, declares[k].line)]]
Marked(part) ==
    [lines |-> <<Pragma>> \o part.lines,
     declares |-> [k \in DOMAIN part.declares |->
        [part.declares[k] EXCEPT !.deprecated = TRUE, !.line = @ + 1]]]
Function(kind, lines) == Part(<<FnLine(F, kind)>> \o lines, <<D(F, kind, 1)>>)

DeclaringParts ==
    {Function(kind, FnBody(Empty)) : kind \in {"native", "public", "stock", "static", "plain"}}
    \union {Part(<<End(FnLine(F, kind))>>, <<D(F, kind, 1)>>) : kind \in {"native", "forward", "static"}}
    \union {Part(<<Close(Open(W(FnLine(F, "stock"), "stock", {N("g")}, {N("p")}, {})))>>, <<D(F, "stock", 1)>>),
            Function("public", <<Plain(Stars), Plain([L("comment") EXCEPT !.ends = TRUE])>> \o FnBody(Empty)),
            Function("stock", <<Plain(L("//"))>> \o FnBody(Stmt("none", {}, {N("p")}))),
            Part(<<Variable(N("a"))>>, <<D(N("a"), "variable", 1)>>),
            Part(<<Macro(N("m"), {})>>, <<D(N("m"), "define", 1)>>),
            Part(<<Macro(N("m"), {N("a")})>>, <<D(N("m"), "define", 1)>>)}
UsingParts ==
    {Part(<<FnLine(N("g"), "public")>> \o FnBody(use), <<D(N("g"), "public", 1)>>) : use \in
        {Empty, Quoting({F, N("a"), N("m")}), Stmt("none", {F}, {}), Stmt("new", {F}, {}),
         Stmt("none", {}, {N("a"), N("m")}), Stmt("new", {}, {N("a"), N("m"), N("p")}),
         Stmt("none", {N("h")}, {F}), Stmt("none", {F, N("g")}, {N("a"), N("b")})}}
Asking(p) == Part(<<Plain(L("blank")), W(Named("include", <<p>>, "none"), "none", {}, {}, {})>>, <<>>)
Offered == {Part(<<End(FnLine(F, "forward"))>>, <<D(F, "forward", 1)>>),
            Part(<<End(FnLine(N("h"), "native"))>>, <<D(N("h"), "native", 1)>>),
            Part(<<Variable(N("a"))>>, <<D(N("a"), "variable", 1)>>),
            Part(<<FnLine(N("h"), "stock")>> \o FnBody(Stmt("none", {F}, {N("a")})), <<D(N("h"), "stock", 1)>>)}
Offers == Offered \union {Marked(p) : p \in Offered}

Project(file, paths, includes, other, isInclude, warn) ==
    LET p == [file |-> file, paths |-> paths, includes |-> includes, other |-> other,
              isInclude |-> isInclude, warnInInc |-> warn]
    IN  [project |-> p, unit |-> Code!Unit(p)]
Projects(declarations) ==
    {Project(<<d, u>>, <<>>, <<>>, o, FALSE, FALSE) :
        d \in declarations, u \in UsingParts, o \in {<<>>} \union {<<v>> : v \in UsingParts}}
    \union {Project(<<a, d, u>>, <<"i">>, [x \in {"i"} |-> <<i>>], <<>>, FALSE, FALSE) :
        d \in declarations, u \in UsingParts, i \in Offers, a \in {Asking("i"), Marked(Asking("i"))}}
    \union {Project(<<a, u>>, <<"i", "j">>, [x \in {"i", "j"} |-> IF x = "i" THEN <<Asking("j"), i>> ELSE <<j>>],
                    <<>>, inc, warn) :
        u \in UsingParts, i \in Offers, j \in Offers, a \in {Asking("i"), Marked(Asking("i"))},
        inc \in BOOLEAN, warn \in BOOLEAN}

-----------------------------------------------------------------------------
ToolNames == {"tokens", "indentation", "symbols", "warnings"}
Tab == 4

Arguments(s) == CASE s = "tokens" -> SourceTexts(TextPieces)
                  [] s = "indentation" -> FunctionBodies(Elements)
                  [] s = "symbols" -> [1..2 -> FileParts]
                  [] s = "warnings" -> Projects(DeclaringParts \union {Marked(p) : p \in DeclaringParts})
                  [] OTHER -> {}
Value(s, x) == CASE s = "tokens" -> Reader!Tokenize(x, Tab)
                 [] s = "indentation" -> Indent!LooseIndentation(x.tokens)
                 [] s = "symbols" -> Symbols!ParseFile(x[1].lines \o x[2].lines)
                 [] s = "warnings" -> Code!Analyse(x.unit)
Right(s, x, r) == CASE s = "tokens" -> Reader!ReadersAgree(x, Tab, r)
                    [] s = "indentation" -> Indent!IndentationAgrees(x.tree, r)
                    [] s = "symbols" -> Symbols!SymbolsAgree(x, r)
                    [] s = "warnings" -> Code!AnalysisAgrees(x.project, x.unit, r)
=============================================================================
