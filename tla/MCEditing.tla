------------------------------ MODULE MCEditing ------------------------------
(* What the tools that edit a text are asked.                              *)
EXTENDS Integers, Sequences, SequencesExt, FiniteSets

Layout == INSTANCE CodeLayout
Spacing == INSTANCE CodeSpacing
Scope == INSTANCE NameScope
Fix == INSTANCE QuickFix
Lists(els, n) == UNION {[1..k -> els] : k \in 0..n}

-----------------------------------------------------------------------------
(* A function of three lines, each of any form.                            *)
L(atoms) == Layout!Ln(0, atoms)
LineForms == <<
    L(<<"x", ";">>), L(<<"if", "(", "x", ")">>), L(<<"{">>), L(<<"}">>), L(<<"/*", "{">>), L(<<"}", "*/">>),
    L(<<"x", ";", "//", "{">>), L(<<"new", "x", ",">>), L(<<"new", "x", "=", "{">>),
    L(<<>>), L(<<"else">>), L(<<"if", "(", "x", ")", "{", "x", ";", "}">>),
    L(<<"while", "(", "x", ")", "{", "}">>), L(<<"//", "x">>), L(<<"case", "x", ":">>),
    L(<<"x", "(", "\"", "{", "\"", ",">>), L(<<"}", ";">>), L(<<"if", "(", "x", ")", "//", ")">>),
    Layout!Ln(3, <<"x", "=", "\"", "}", "\\">>), Layout!Ln(3, <<"{", "\"", ")", ";">>),
    L(<<"#", "define", "x", "{", "\\">>)>>
InFunction(m) == <<L(<<"x", "(", ")">>), L(<<"{">>)>> \o [k \in DOMAIN m |-> LineForms[m[k]]] \o <<L(<<"}">>)>>
LinesUpTo(n) == [1..2 -> 1..Len(LineForms)] \union [1..3 -> 1..n]
Formattings(n) == LinesUpTo(n) \X {<<"allman", TRUE>>, <<"knr", FALSE>>, <<"compact", FALSE>>}
Selections(n) == {s \in [1..2 -> 1..n] \X (1..5) \X (1..5) \X BOOLEAN : s[2] <= s[3]}

-----------------------------------------------------------------------------
(* Functions of statements in one another, with their braces on lines of   *)
(* their own or at the end of a line.                                      *)
N(form, head, parts) == [form |-> form, head |-> head, parts |-> parts]
X == N("stmt", <<"x", ";">>, <<>>)
Block(parts) == N("block", <<>>, parts)
Bodies == {X, Block(<<X>>), Block(<<X, Block(<<X>>)>>)}
Under(heads, bodies) == {N("control", h, <<b>>) : h \in heads, b \in bodies}
Headers == {<<"if", "(", "x", ")">>, <<"else">>, <<"for", "(", "new", "x", ";", ";", ")">>}
Controls(heads) == Under(heads, Bodies \union Under(heads, Bodies))
Case(parts) == N("case", <<"case", "x", ":">>, parts)
Switch(cases) == N("switch", <<"switch", "(", "x", ")">>, <<Block(cases)>>)
Switches(c) == {Switch(<<a, b>>) : a, b \in
                  {Case(<<>>), Case(<<X>>), Case(<<Block(<<X>>)>>)} \union {Case(<<p>>) : p \in c}}
Statements(c) == c \union Switches(Under({<<"else">>}, {X, Block(<<X>>)}))
Simple == {X, N("stmt", <<"#", "define", "x", "x", ";">>, <<>>)} \union Under({<<"else">>}, Bodies)
InBody(a, b) == Layout!TreeLines(N("stmt", <<"x", "(", ")">>, <<Block(<<a, b>>)>>), 0)
Given(lines, knr) == Layout!Flat(IF knr THEN Layout!JoinBracesKnr(lines, 1) ELSE lines)

-----------------------------------------------------------------------------
(* Lines of four characters, or of four pieces, in code or in what the     *)
(* line before left open.                                                  *)
LinePieces == <<<<"x">>, <<"-">>, <<" ">>, <<"=">>, <<">", ">">>, <<"if", "(">>, <<"/", "*">>, <<"*", "/">>,
                <<"\"">>, <<",">>, <<"-", "-">>, <<"&">>, <<";">>, <<")">>, <<"/", "/">>, <<"\\">>, <<"!">>,
                <<"1">>, <<".">>, <<"#">>, <<"'">>, <<":">>, <<"return">>>>
SpacingQueries(m, n) == [1..3 -> 1..m] \X {TRUE} \X {"code"}
                            \union [1..2 -> 1..n] \X BOOLEAN \X {"code", "block", "\""}
LineOf(q) == FoldLeft(LAMBDA l, k : l \o LinePieces[k], <<>>, q)

-----------------------------------------------------------------------------
(* A function of three lines, in a file and what is compiled with it.      *)
ScopeForms == <<<<"new", "a", ";">>, <<"a", "=", "a", ";">>, <<"{">>, <<"}">>,
                <<"for", "(", "new", "a", ";", "a", ";", "a", ")">>,
                <<"for", "(", "new", "a", ";", ";", ")", "{">>,
                <<"f", "(", "a", ")", ";">>, <<"new", "b", ",", "a", "=", "b", ";">>,
                <<"if", "(", "a", ")">>, <<"x", "(", "'f'", ")", ";">>,
                <<"for", "(", "new", "a", ";", ";", ")", "{", "a", "=", "a", ";", "}">>,
                <<"{", "new", "a", ";", "a", "=", "a", ";", "}">>,
                <<"for", "(", "new", "a", ";", ";", ")", "a", "=", "a", ";">>>>
Globals == <<<<>>, <<<<"new", "a", ";">>>>, <<<<"forward", "f", "(", "a", ")", ";">>>>>>
Heads == <<<<"f", "(", "a", ")">>, <<"public", "f", "(", ")">>, <<"g", "(", "b", ")">>>>
Others == <<<<>>,
            <<<<"g", "(", "a", ")">>, <<"{">>, <<"f", "(", "a", ")", ";">>, <<"a", "=", "'f'", ";">>, <<"}">>>>,
            <<<<"public", "f", "(", ")">>, <<"{">>, <<"a", "=", "a", ";">>, <<"}">>>>,
            <<<<"a", "(", ")">>, <<"{">>, <<"}">>>>>>
UnitOf(q) ==
    LET body == [k \in DOMAIN q[1] |-> ScopeForms[q[1][k]]]
    IN  <<Scope!File(Globals[q[2]] \o <<Heads[q[3]], <<"{">>>> \o body \o <<<<"}">>>>), Scope!File(Others[q[4]])>>

(* Blocks are closed, and the body of a control is a statement.            *)
Closed(body) ==
    LET lines == FoldLeft(LAMBDA out, k : Append(out, ScopeForms[k]), <<>>, body)
        depths == Scope!Depths(lines)
    IN  /\ Last(depths) = 0 /\ \A n \in DOMAIN depths : depths[n] >= 0
        /\ \A n \in DOMAIN lines : Head(lines[n]) \in {"for", "if"} /\ Last(lines[n]) = ")" =>
                n < Len(lines) /\ Head(lines[n + 1]) \notin {"new", "}"}
(* Nothing is declared twice in the unit.                                  *)
Twice == {<<2, 1, 4>>, <<2, 2, 4>>, <<2, 3, 4>>}
            \union {<<g, h, 3>> : g \in 1..3, h \in 1..2} \union {<<g, 3, 2>> : g \in 1..3}
ScopeQueries(m, n) ==
    {q \in {b \in [1..2 -> 1..n] \union [1..3 -> 1..m] : Closed(b)} \X (1..3) \X (1..3) \X (1..4) :
        <<q[2], q[3], q[4]>> \notin Twice}

Renaming(unit) ==
    LET all == Scope!Bindings(unit)
    IN  [all |-> all,
         renames |-> {<<b, Scope!GetRename(unit, b.at[1], b.at[2], b.at[3], b.name)>> : b \in all},
         definitions |-> {<<n, Scope!GetDefinition(unit, f, n)>> : n \in Scope!Names, f \in DOMAIN unit}]
RenamingAgrees(unit, r) ==
    /\ \A q \in r.renames : Scope!RenameAgrees(unit, r.all, q[1], q[2])
    /\ \A q \in r.definitions : Scope!DefinitionAgrees(unit, q[1], q[2])

-----------------------------------------------------------------------------
(* What is warned of, by code, line and place, and the lines after it.     *)
Warned(code, col, head) == [code |-> code, col |-> col, head |-> head]
FixHeads == <<
    Warned("PP0006", 1, <<"stock", "f", "(", ")">>), Warned("PP0006", 1, <<"static", "f", "(", ")", "{">>),
    Warned("PP0006", 1, <<"stock", "f", "(", ")", ";">>), Warned("PP0016", 0, <<"f", "(", ")", "{", "}">>),
    Warned("PP0006", 1, <<"stock", "f", "(", "a", ",">>), Warned("PP0016", 0, <<"f", "(", "/*">>),
    Warned("PP0005", 1, <<"new", "a", ";">>), Warned("PP0005", 2, <<" ", "static", "a", "=", "1", ";", " ">>),
    Warned("PP0005", 3, <<"new", "a", ",", "b", ";">>), Warned("PP0005", 1, <<"new", "a", ";", "//">>),
    Warned("PP0005", 1, <<"new", "a", ";", "x", ";">>), Warned("PP0005", 1, <<"new", "a", "=">>),
    Warned("PP0009", 2, <<"f", "(", "a", ",", " ", "b", ")">>), Warned("PP0009", 5, <<"f", "(", "a", ",", " ", "b", ")">>),
    Warned("PP0009", 2, <<"f", "(", "a", " ", ",", "b", ")", "{">>), Warned("PP0009", 2, <<"f", "(", "a", ")">>),
    Warned("PP0009", 4, <<"f", "(", "x", ":", "a", ",", "b", ")">>), Warned("PP0009", 4, <<"f", "(", "a", ",", "b", "=", "1", ")">>),
    Warned("PP0011", 2, <<"#", "define", "x", "{">>), Warned("PP0011", 3, <<" ", "#", "define", "x", "\\">>),
    Warned("PP0012", 0, <<"#", "include", "x">>),
    Warned("PP0002", 1, <<"native", "f", "(", ")", "{">>), Warned("PP0003", 1, <<"forward", "f", "(", ")">>),
    Warned("PP0002", 1, <<"native", "f", "(", ")", "{", "}">>),
    Warned("PP0004", 1, <<"public", "f", "(", ")", ";">>), Warned("PP0004", 2, <<" ", "stock", "f", "(", "a", ")", ";">>),
    Warned("PP0004", 1, <<"public", "f", "(", ")">>), Warned("PP0004", 1, <<"static", "f", "(", ")", ";">>),
    Warned("PP0010", 2, <<"x", "=", "a", "(", ")", ";">>)>>
FixForms == <<<<"{">>, <<"}">>, <<"x", ";">>, <<"x", "=", "\"", "{", "\"", ";">>, <<"'", "}", "'", ";">>,
              <<"x", ";", "//", "{">>, <<"{", "x", ";", "}">>, <<"\"", "\\", "\"", "}", "\"", ";">>,
              <<"x", "\\">>, <<"}", "x", ";">>, <<"/*", "x">>, <<"}", "*/">>, <<"b", ")">>>>
FixText(q) == <<<<"x", ";">>, FixHeads[q[1]].head>> \o [k \in DOMAIN q[2] |-> FixForms[q[2][k]]] \o <<<<"}">>>>
FixQueries(m, n) ==
    {q \in (1..Len(FixHeads)) \X ([1..3 -> 1..m] \union [1..2 -> 1..n]) :
        LET code == Fix!Code(FixText(q))
            head == FixHeads[q[1]]
        IN  /\ Last(head.head) = ")" /\ head.code \in {"PP0003", "PP0004"} =>
                  (head.code = "PP0003") = (Head(FixForms[q[2][1]]) = "{")
            /\ \A k \in DOMAIN code : Fix!Depth(code, k) >= 0
            /\ Fix!Depth(code, Len(code)) = 0}
FixAt(q) == [code |-> FixHeads[q[1]].code, line |-> 2, col |-> FixHeads[q[1]].col]

-----------------------------------------------------------------------------
ToolNames == {"spacing", "format", "selection", "levels", "scope", "fixes"}
Arguments(s) == CASE s = "spacing" -> SpacingQueries(19, Len(LinePieces))
                  [] s = "format" -> Formattings(9)
                  [] s = "selection" -> Selections(13)
                  [] s = "levels" -> Statements(Controls(Headers)) \X Simple \X BOOLEAN
                  [] s = "scope" -> ScopeQueries(8, Len(ScopeForms))
                  [] s = "fixes" -> FixQueries(10, Len(FixForms))
Value(s, x) == CASE s = "spacing" -> Spacing!FormatLine(LineOf(x[1]), x[2], x[3])
                 [] s = "format" -> Layout!Format(InFunction(x[1]), x[2][1], x[2][2], 0)
                 [] s = "selection" -> Layout!FormatRange(InFunction(x[1]), x[2], x[3], x[4], "compact", FALSE)
                 [] s = "levels" -> Layout!Format(Given(InBody(x[1], x[2]), x[3]), "allman", FALSE, 0)
                 [] s = "scope" -> Renaming(UnitOf(x))
                 [] s = "fixes" -> Fix!CodeActionsFor(FixText(x), FALSE, FixAt(x), "f")
Right(s, x, r) == CASE s = "spacing" -> Spacing!SpacingAgrees(LineOf(x[1]), x[2], x[3], r)
                    [] s = "format" -> Layout!FormatAgrees(InFunction(x[1]), x[2][1], x[2][2], r)
                    [] s = "selection" -> Layout!RangeAgrees(InFunction(x[1]), x[2], x[3], "compact", r)
                    [] s = "levels" -> r = InBody(x[1], x[2])
                    [] s = "scope" -> RenamingAgrees(UnitOf(x), r)
                    [] s = "fixes" -> Fix!FixAgrees(FixText(x), FixAt(x), r)
=============================================================================
