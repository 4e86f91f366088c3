------------------------------ MODULE MCAdvice ------------------------------
(* What is asked about names, pragmas and includes.                        *)
EXTENDS Integers, Sequences, SequencesExt

Graph == INSTANCE IncludeGraph WITH MaxDepth <- 3, MaxFiles <- 5
Advice == INSTANCE NameAdvice

Lists(els, n) == UNION {[1..k -> els] : k \in 0..n}

-----------------------------------------------------------------------------
(* Every name of up to five characters, under a few configurations.        *)
NamesUpTo(n) == {s \in Lists({"a", "B", "1", "_"}, n) : s # <<>> /\ s[1] # "1"}
NameConfigs ==
    {[styles |-> styles, minLength |-> 2, blocklist |-> {<<"a", "b">>}, loopIndices |-> {<<"A">>}] :
        styles \in {{s} : s \in Advice!Cases} \union {{}, {"camel", "upper"}, {"snake", "capSnake"}}}
NameQueries(n) == {[name |-> s, inLoop |-> l, cfg |-> c] :
                      s \in NamesUpTo(n), l \in BOOLEAN, c \in NameConfigs}

(* Bodies of a few declarations, in a block, in the head of a loop or out  *)
(* of any block; an initial value may call a function of one argument.     *)
Tok(kind) == [kind |-> kind, role |-> "none"]
Toks(kinds) == [k \in DOMAIN kinds |-> Tok(kinds[k])]
Ident(role) == <<[kind |-> "ident", role |-> role]>>
Item(role) == {Ident(role), Toks(<<"ident", ":">>) \o Ident(role),
               Ident(role) \o Toks(<<"[", "number", "]">>),
               Ident(role) \o Toks(<<"=", "ident", "(", "ident", ")">>)}
Declaration(role) ==
    {Toks(<<w>>) \o a : w \in {"new", "decl", "static"}, a \in Item(role)}
    \union {Toks(<<"static", "const">>) \o a \o Toks(<<",">>) \o b : a \in Item(role), b \in Item(role)}
Statement ==
    {d \o Toks(<<";">>) : d \in Declaration("local")}
    \union {Toks(<<"for", "(">>) \o d \o Toks(<<";", "(", "ident", ")", ";", ")">>) : d \in Declaration("index")}
    \union {Toks(<<"for", "(", "ident", ";", ";", ")", "{">>) \o d \o Toks(<<";", "}">>) : d \in Declaration("local")}
TokenLists(statements) ==
    {Toks(<<"{">>) \o s \o t \o Toks(<<"}", "new", "ident", ";">>) : s \in statements, t \in statements}

Known == {<<"a", "a">>, <<"a", "b">>, <<"b", "b", "b", "a", "a">>}
Pragmas(args) == {[word |-> w, arg |-> a] :
                     w \in Lists({"a", "b"}, 5), a \in args}

-----------------------------------------------------------------------------
(* Disks of seven or eight files in two directories; each asks for some.    *)
Ask(name, ext, angle, try) ==
    [name |-> name, ext |-> ext, case |-> "lower", angle |-> angle, try |-> try]
DiskFile(dir, name, ext, case) == [dir |-> dir, name |-> name, ext |-> ext, case |-> case]
Program == DiskFile("here", "p", ".pwn", "lower")
Includable == {DiskFile("here", "a", ".inc", "lower"), DiskFile("here", "a", ".inc", "upper"),
               DiskFile("lib", "a", ".p", "upper"), DiskFile("lib", "b", ".inc", "lower"),
               DiskFile("here", "c", ".pwn", "upper"), DiskFile("lib", "c", ".inc", "lower"),
               DiskFile("lib", "d", ".inc", "lower")}
PartAsks == {<<>>, <<Ask("a", "", TRUE, FALSE)>>, <<Ask("b", "", FALSE, TRUE)>>,
         <<Ask("c", "", TRUE, FALSE), Ask("a", "", FALSE, FALSE)>>,
         <<Ask("p", "", FALSE, FALSE), Ask("b", "", TRUE, FALSE), Ask("c", "", FALSE, FALSE)>>}
Trees(files) ==
    UNION {{[disk |-> disk \union {Program}, root |-> Program, paths |-> <<"lib">>,
             asks |-> [f \in disk \union {Program} |->
                         IF f = Program THEN <<Ask("a", "", FALSE, FALSE)>> \o p
                         ELSE IF f.name = "a" THEN a ELSE IF f.name = "b" THEN b ELSE c]] :
              p \in PartAsks, a \in PartAsks, b \in {<<>>, <<Ask("c", "", FALSE, FALSE)>>},
              c \in {<<>>, <<Ask("d", "", TRUE, FALSE)>>}} :
           disk \in {files \ {f, g} : f \in files, g \in files} \union {files}}

-----------------------------------------------------------------------------
ToolNames == {"names", "locals", "pragmas", "includes"}
Arguments(s) == CASE s = "names" -> NameQueries(4)
                  [] s = "locals" -> TokenLists(Statement)
                  [] s = "pragmas" -> Pragmas({<<>>, <<"text">>, <<"quote", "text", "quote">>, <<"quote">>,
                                               <<"quote", "quote">>, <<"quote", "quote", "quote">>})
                  [] s = "includes" -> Trees(Includable)
Value(s, x) == CASE s = "names" -> Advice!Advice(x.name, x.inLoop, x.cfg)
                 [] s = "locals" -> Advice!CollectLocalDecls(x)
                 [] s = "pragmas" -> Advice!PragmaIssue(x, Known, <<"a", "b">>)
                 [] s = "includes" -> Graph!Collected(x)
Right(s, x, r) == CASE s = "names" -> Advice!AdviceAgrees(x.name, x.inLoop, x.cfg, r)
                    [] s = "locals" -> Advice!LocalsAgree(x, r)
                    [] s = "pragmas" -> Advice!PragmaAgrees(x, Known, <<"a", "b">>, r)
                    [] s = "includes" -> Graph!CollectionAgrees(x, r)
=============================================================================
