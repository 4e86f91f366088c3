----------------------------- MODULE MCWorkbench -----------------------------
EXTENDS Workbench, DebugExpr

(* Nine cells: data, a heap of one, a gap of three, a stack of two; the    *)
(* registers hold a valid address and an invalid one, the data both too.   *)
LineMemory == [a \in 0..8 |-> CASE a = 1 -> 1 [] a = 2 -> 4 [] a = 7 -> 1 [] OTHER -> 0]
LineOperands(op) == CASE op = "load" -> {2, 5}
                      [] op = "stor" -> {2}
                      [] op = "stack" -> {-2, 1}
                      [] op \in {"heap", "const"} -> {-2}
                      [] op \in {"loadalt", "constalt", "movealt", "popalt", "divalt"} -> {}
                      [] OTHER -> {0}

-----------------------------------------------------------------------------
(* A matrix and a scalar, a parameter by reference to an array of unknown  *)
(* size; elsewhere an array longer than what is shown.                     *)
Symbol(n, a, byRef, d) == [name |-> n, addr |-> a, ref |-> byRef, dims |-> d]
PanelStops == {<<<<Symbol("x", 0, FALSE, <<>>), Symbol("a", 1, FALSE, <<2, 2>>)>>,
                 <<Symbol("t", 7, TRUE, <<0>>)>>>>,
               <<<<Symbol("t", 3, FALSE, <<4>>), Symbol("x", 7, TRUE, <<>>)>>>>}
PanelMemory == [a \in 0..7 |-> CASE a = 0 -> 1 [] a = 1 -> 2
                                 [] a \in {2, 7} -> 3 [] OTHER -> 0]

(* Every expression of four symbols, and every pair of operands joined.    *)
Matrix(rows) == [name |-> "", value |-> <<>>, children |-> rows]
Shown == <<Matrix(<<Matrix(<<Leaf(Whole(0)), Leaf(Whole(1))>>),
                    Matrix(<<Leaf(Whole(2)), Leaf(<<>>)>>)>>),
           Leaf(Whole(1)), Leaf(Bool(TRUE)), Leaf(Float(1))>>
Panel == [i \in DOMAIN Shown |->
              [name |-> <<"a", "x", "t", "f">>[i],
               value |-> Shown[i].value, children |-> Shown[i].children]]
WatchOperands ==
    {<<"a", "[", i, "]", "[", j, "]">> : i \in {"1", "x", "2"}, j \in {"1", "x", "t"}}
        \union {<<"a", "[", "x", "-", "1", "]", "[", j, "]">> : j \in {"1", "x", "2"}}
        \union {<<"a", "[", "1", "]", "[", "a", "[", "1", "]", "[", "x", "-", "1", "]", "]">>}
        \union {<<s>> : s \in {"x", "t", "f", "1", "2"}} \union {<<"-", "1">>}
WatchExpressions(symbols) ==
    UNION {[1..n -> symbols] : n \in 1..4}
        \union {l \o <<o>> \o r : l \in WatchOperands, r \in WatchOperands, o \in Ops}

(* Files of three lines, edited before the session began, since, or both;  *)
(* the diff of the session finds any of the alignments.                    *)
Sources == INSTANCE SourceMap
Texts == UNION {[1..n -> {"p", "q"}] : n \in 0..3}
SourceFile(read, opened, from, now, to) ==
    [compiled |-> read, compiledAt |-> 1,
     session |-> [text |-> opened, date |-> from], now |-> [text |-> now, date |-> to]]
SourceEdits(texts) ==
    {<<SourceFile(s, s, from, s, from), {}>> : s \in texts, from \in 0..1} \union
           {<<SourceFile(read, s, 2, s, 2), {}>> : s \in texts, read \in texts} \union
           UNION {{<<SourceFile(s, s, from, now, from + 1), A>> :
                      from \in 0..1, A \in Sources!Alignments(s, now)} \union
                  {<<SourceFile(read, s, 2, now, 3), A>> :
                      read \in {<<>>, <<"p">>}, A \in Sources!Alignments(s, now)} :
                  s \in texts, now \in texts}
BuildFolder == <<"w", "src">>
BlockNames == {<<"m">>, <<"..", "m">>, <<"..", "inc", "m">>, <<"inc", "m">>, <<".", "m">>}
FileQueries == (UNION {[1..n -> BlockNames] : n \in 1..2})
                 \X {<<"w", "src", "m">>, <<"w", "m">>, <<"w", "inc", "m">>,
                     <<"w", "src", "inc", "m">>, <<"w", "x", "m">>}

(* Each condition, each count, logs among them; of two of one line the     *)
(* first is asked.                                                         *)
Bp(var, hits, logs) ==
    [addr |-> 1, condition |-> CHOOSE c \in Conditions : c.var = var,
     hitCondition |-> CHOOSE c \in HitConditions : <<c.op, c.n>> = hits, log |-> logs]
SomeBreakpoints ==
    {<<>>, <<Bp("none", <<"", 0>>, FALSE)>>, <<Bp("unknown", <<"%", 2>>, FALSE)>>,
     <<Bp("global", <<"%", 2>>, FALSE)>>, <<Bp("none", <<"<=", 1>>, FALSE)>>,
     <<Bp("none", <<"<=", 1>>, TRUE)>>, <<Bp("none", <<"%", 0>>, FALSE)>>,
     <<Bp("global", <<"", 0>>, TRUE), Bp("none", <<"", 0>>, FALSE)>>}

-----------------------------------------------------------------------------
DebuggerToolNames == {"watch", "sources", "file"}

Language == INSTANCE MCLanguage
Advice == INSTANCE MCAdvice
Editing == INSTANCE MCEditing
Core == INSTANCE MCCore
LanguageToolNames == Language!ToolNames \union Advice!ToolNames
EditToolNames == Editing!ToolNames
CoreToolNames == Core!ToolNames

ToolArguments(s) ==
    LET language == s \in Language!ToolNames
        advice == s \in Advice!ToolNames
        editing == s \in Editing!ToolNames
        core == s \in Core!ToolNames
    IN  CASE s = "watch" -> WatchExpressions({"a", "x", "t", "1", "-", "==", "[", "]"})
          [] s = "sources" -> SourceEdits(Texts)
          [] s = "file" -> FileQueries
          [] language -> Language!Arguments(s)
          [] advice -> Advice!Arguments(s)
          [] editing -> Editing!Arguments(s)
          [] core -> Core!Arguments(s)
ToolValue(s, x) ==
    LET language == s \in Language!ToolNames
        advice == s \in Advice!ToolNames
        editing == s \in Editing!ToolNames
        core == s \in Core!ToolNames
    IN  CASE s = "watch" -> EvalExpr(x, Panel)
          [] s = "sources" -> Sources!View(x[1], x[2])
          [] s = "file" -> Sources!FindFile(BuildFolder, x[1], x[2])
          [] language -> Language!Value(s, x)
          [] advice -> Advice!Value(s, x)
          [] editing -> Editing!Value(s, x)
          [] core -> Core!Value(s, x)
ToolRight(s, x, r) ==
    LET language == s \in Language!ToolNames
        advice == s \in Advice!ToolNames
        editing == s \in Editing!ToolNames
        core == s \in Core!ToolNames
    IN  CASE s = "watch" -> EvalAgrees(x, Panel, r)
          [] s = "sources" -> Sources!ViewAgrees(x[1], r)
          [] s = "file" -> Sources!FindAgrees(BuildFolder, x[1], x[2], r)
          [] language -> Language!Right(s, x, r)
          [] advice -> Advice!Right(s, x, r)
          [] editing -> Editing!Right(s, x, r)
          [] core -> Core!Right(s, x, r)

-----------------------------------------------------------------------------
(* The formatter says that what is on each line is preserved, comments     *)
(* included, and only moved (format_engine.rs:3-5): of any well-formed     *)
(* text, what it says is the same in its new layout.                       *)
OnlyFormat == {"format"}
LinesArePreserved ==
    subject = "format" /\ asked =>
        LET text == Editing!InFunction(input[1])
        IN  \A r \in {AnswerOf(subject, input)} :
                Editing!Layout!WellFormed(text) => Editing!Layout!Says(r) = Editing!Layout!Says(text)
=============================================================================
