------------------------------- MODULE QuickFix -------------------------------
(***************************************************************************)
(* The fixes the engine offers for what it warns of                        *)
(* (intellisense/quickfix.rs, the code actions of server.rs): the part of  *)
(* the text a fix takes, found by reading lines, against the declaration   *)
(* as the compiler reads it.                                               *)
(*                                                                         *)
(* A text is a sequence of lines, a line one of atoms; a place is a line   *)
(* and the number of atoms of it that come before.                         *)
(***************************************************************************)
EXTENDS Integers, Sequences, SequencesExt, FiniteSets

Names == {"f", "a", "b", "x", "1"}
Blank(l) == \A k \in DOMAIN l : l[k] = " "
Trimmed(l) == LET full == {k \in DOMAIN l : l[k] # " "}
              IN  IF full = {} THEN <<>>
                  ELSE SubSeq(l, CHOOSE k \in full : \A j \in full : k <= j,
                                 CHOOSE k \in full : \A j \in full : k >= j)
EndsIn(l, a) == Trimmed(l) # <<>> /\ Last(Trimmed(l)) = a
StartsWith(l, as) == Trimmed(l) # <<>> /\ Head(Trimmed(l)) \in as
Least(S) == CHOOSE k \in S : \A j \in S : k <= j

-----------------------------------------------------------------------------
(* An edit takes what is between two places and puts lines there.          *)
Edit(from, to, new) == [from |-> from, to |-> to, new |-> new]
WholeLine(n) == Edit(<<n, 0>>, <<n + 1, 0>>, <<<<>>>>)
Removal(from, to) == Edit(from, to, <<<<>>>>)
Apply(text, e) ==
    LET LineAt(n) == IF n \in DOMAIN text THEN text[n] ELSE <<>>
        before == SubSeq(LineAt(e.from[1]), 1, e.from[2])
        after == SubSeq(LineAt(e.to[1]), e.to[2] + 1, Len(LineAt(e.to[1])))
        joined == [k \in DOMAIN e.new |-> (IF k = 1 THEN before ELSE <<>>) \o e.new[k]
                                             \o (IF k = Len(e.new) THEN after ELSE <<>>)]
    IN  SubSeq(text, 1, e.from[1] - 1) \o joined \o SubSeq(text, e.to[1] + 1, Len(text))

-----------------------------------------------------------------------------
(* A line without literals and the comment that ends it: the quotes of a   *)
(* line are counted from its start, a comment over lines is not known.     *)
StripStep(s, a) ==
    CASE s.over -> s
      [] s.skip -> [s EXCEPT !.skip = FALSE]
      [] a \in {"\"", "'"} /\ s.in \in {"", a} -> [s EXCEPT !.in = IF @ = "" THEN a ELSE ""]
      [] a = "\\" /\ s.in # "" -> [s EXCEPT !.skip = TRUE]
      [] a = "//" /\ s.in = "" -> [s EXCEPT !.over = TRUE]
      [] s.in # "" -> s
      [] OTHER -> [s EXCEPT !.code = Append(@, a)]
StripForBraces(l) ==
    FoldLeft(StripStep, [in |-> "", skip |-> FALSE, over |-> FALSE, code |-> <<>>], l).code

Depth(code, k) == LET until == SubSeq(code, 1, k)
                  IN  Cardinality({j \in DOMAIN until : until[j] = "{"})
                        - Cardinality({j \in DOMAIN until : until[j] = "}"})
(* Where the block a sequence of atoms opens is closed: none, or the first *)
Closing(code) ==
    LET opened == {k \in DOMAIN code : code[k] = "{"}
    IN  {k \in DOMAIN code : code[k] = "}" /\ opened # {} /\ Least(opened) < k /\ Depth(code, k) = 0}

FunctionRange(text, at) ==
    LET code == [n \in at..Len(text) |-> StripForBraces(text[n])]
        Opened(n) == \E m \in at..n : "{" \in ToSet(code[m])
        Joined(n) == FlattenSeq(SubSeq([m \in 1..n |-> IF m < at THEN <<>> ELSE code[m]], 1, n))
        bodyless == {n \in at..Len(text) : ~Opened(n) /\ EndsIn(code[n], ";")}
        closed == {n \in at..Len(text) : Closing(Joined(n)) # {}}
    IN  IF bodyless # {} THEN <<WholeLine(at)>>
        ELSE IF closed = {} THEN <<>>
        ELSE <<Removal(<<at, 0>>, <<Least(closed), Len(text[Least(closed)])>>)>>

VariableRange(text, at) ==
    IF StartsWith(text[at], {"new", "static", "decl", "const"}) /\ EndsIn(text[at], ";")
    THEN <<WholeLine(at)>> ELSE <<>>

DirectiveRange(text, at) ==
    LET ends == {n \in at..Len(text) : n = Len(text) \/ ~EndsIn(text[n], "\\")}
    IN  IF StartsWith(text[at], {"#"}) THEN <<Removal(<<at, 0>>, <<Least(ends) + 1, 0>>)>> ELSE <<>>

(* The name, and the comma after it or else the one before.                *)
ParameterRange(text, at, col) ==
    LET l == text[at]
        after == {k \in col + 2..Len(l) : l[k] # " "}
        before == {k \in 1..col : l[k] # " " /\ \A j \in k + 1..col : l[j] = " "}
    IN  IF after # {} /\ l[Least(after)] = "," THEN <<Removal(<<at, col>>, <<at, Least(after)>>)>>
        ELSE IF \E k \in before : l[k] = ","
             THEN <<Removal(<<at, Least(before) - 1>>, <<at, col + 1>>)>>
             ELSE <<Removal(<<at, col>>, <<at, col + 1>>)>>

(* The braces of the lines are counted, in literals and comments too.      *)
IllegalBodyRange(text, at) ==
    LET lines == {n \in {at, at + 1} \intersect DOMAIN text : "{" \in ToSet(text[n])}
        open == Least(lines)
        Joined(n) == FlattenSeq(SubSeq([m \in 1..n |-> IF m < open THEN <<>> ELSE text[m]], 1, n))
        closed == {n \in open..Len(text) : Closing(Joined(n)) # {}}
        last == Least(closed)
        before == Len(Joined(last)) - Len(text[last])
    IN  IF lines = {} THEN <<>> ELSE IF closed = {} THEN <<>>
        ELSE <<Removal(<<open, Least({k \in DOMAIN text[open] : text[open][k] = "{"}) - 1>>,
                      <<last, Least(Closing(Joined(last))) - before>>)>>

RemovalKind(code) == CASE code = "PP0005" -> "variable"
                       [] code \in {"PP0006", "PP0016"} -> "function"
                       [] code = "PP0009" -> "parameter"
                       [] code \in {"PP0011", "PP0012"} -> "directive"
                       [] code \in {"PP0002", "PP0003"} -> "body"
                       [] OTHER -> "none"
RemovalRange(text, at, col, kind) ==
    CASE kind = "variable" -> VariableRange(text, at)
      [] kind = "function" -> FunctionRange(text, at)
      [] kind = "parameter" -> ParameterRange(text, at, col)
      [] kind = "directive" -> DirectiveRange(text, at)
      [] kind = "body" -> IllegalBodyRange(text, at)
      [] OTHER -> <<>>

(* What is unused in an include may be used by what includes it.           *)
RemovalActions(text, isInc, d) ==
    IF isInc /\ RemovalKind(d.code) # "body" THEN <<>>
    ELSE RemovalRange(text, d.line, d.col, RemovalKind(d.code))

(* A body for what lacks one, or a forward of it.                          *)
MissingBodyActions(text, d) ==
    LET l == text[d.line]
        indent == Least({k \in DOMAIN l : l[k] # " "}) - 1
        semi == Len(l) - 1
    IN  IF d.code # "PP0004" \/ ~EndsIn(l, ";") THEN <<>>
        ELSE <<Edit(<<d.line, semi>>, <<d.line, semi + 1>>, <<<<>>, <<"{">>, <<"}">>>>)>>
               \o (IF StartsWith(l, {"public", "stock"})
                   THEN <<Edit(<<d.line, indent>>, <<d.line, indent + 1>>, <<<<"forward">>>>)>>
                   ELSE <<>>)

(* A name written like one that is known.                                  *)
UndeclaredActions(d, suggestion) ==
    IF d.code # "PP0010" THEN <<>>
    ELSE <<Edit(<<d.line, d.col>>, <<d.line, d.col + 1>>, <<<<suggestion>>>>)>>

CodeActionsFor(text, isInc, d, suggestion) ==
    MissingBodyActions(text, d) \o UndeclaredActions(d, suggestion) \o RemovalActions(text, isInc, d)

-----------------------------------------------------------------------------
(* The code of a text: what is in no comment, a literal atom by atom.      *)
CodeStep(s, a) ==
    CASE s.skip -> [s EXCEPT !.skip = FALSE, !.code = Append(@, a)]
      [] s.in = "//" -> s
      [] s.in = "/*" -> IF a = "*/" THEN [s EXCEPT !.in = ""] ELSE s
      [] s.in = "" /\ a \in {"//", "/*"} -> [s EXCEPT !.in = a]
      [] s.in = "" /\ a = " " -> s
      [] OTHER -> [in |-> IF s.in = "" /\ a \in {"\"", "'"} THEN a ELSE IF s.in = a THEN "" ELSE s.in,
                   skip |-> a = "\\" /\ s.in # "",
                   (* what a literal holds is no punctuation *)
                   code |-> Append(s.code, IF s.in \in {"\"", "'"} /\ a # s.in THEN "lit" ELSE a)]
EndLine(s) == IF s.in = "//" THEN [s EXCEPT !.in = ""] ELSE s
Code(lines) == FoldLeft(LAMBDA s, l : EndLine(FoldLeft(CodeStep, s, l)),
                        [in |-> "", skip |-> FALSE, code |-> <<>>], lines).code

(* How much of the code from the declaration on is the declaration.        *)
Extent(code, kind) ==
    LET semis == {k \in DOMAIN code : code[k] = ";"}
        opens == {k \in DOMAIN code : code[k] = "{"}
    IN  CASE kind = "function" /\ semis # {} /\ (\A k \in opens : Least(semis) < k) -> {Least(semis)}
          [] kind \in {"function", "body"} -> IF Closing(code) = {} THEN {} ELSE {Least(Closing(code))}
          [] kind = "variable" -> IF semis = {} THEN {} ELSE {Least(semis)}

Without(code, from, to) == SubSeq(code, 1, from - 1) \o SubSeq(code, to + 1, Len(code))
(* The code that is left when a declaration is taken out of its text: none *)
(* when it does not end.                                                   *)
Expected(text, d) ==
    LET kind == RemovalKind(d.code)
        before == Code(SubSeq(text, 1, d.line - 1))
        rest == Code(SubSeq(text, d.line, Len(text)))
        name == Len(before) + Len(Code(<<SubSeq(text[d.line], 1, d.col)>>)) + 1
        all == before \o rest
        listed == kind = "parameter" \/ "," \in ToSet(text[d.line])
        separators == {k \in DOMAIN all : all[k] \in {"(", ",", ")", ";", "new"}}
        left == CHOOSE k \in separators : k < name /\ \A j \in separators : j < name => j <= k
        right == Least({k \in separators : k > name})
        continued == {n \in d.line..Len(text) : n = Len(text) \/ ~EndsIn(text[n], "\\")}
    IN  CASE kind = "function" \/ (kind = "variable" /\ ~listed) -> {before \o SubSeq(rest, n + 1, Len(rest)) : n \in Extent(rest, kind)}
          [] kind = "body" -> {before \o Without(rest, Least({k \in DOMAIN rest : rest[k] = "{"}), n) :
                                 n \in Extent(rest, kind)}
          [] kind \in {"variable", "parameter"} -> {IF all[right] = "," THEN Without(all, left + 1, right)
                                                  ELSE IF all[left] = "," THEN Without(all, left, right - 1)
                                                  ELSE Without(all, left + 1, right - 1)}
          [] kind = "directive" -> {before \o Code(SubSeq(text, Least(continued) + 1, Len(text)))}

(* What a fix is known to take too much or too little of: more than one    *)
(* thing on the line of a declaration, a function whose head or statement  *)
(* is on the next, a parameter with a tag or a value, and a comment over   *)
(* lines or a literal that holds a brace, where those are not told apart.  *)
KnownToMistake(text, d) ==
    LET kind == RemovalKind(d.code)
        own == text[d.line]
        has(atoms, l) == ToSet(l) \intersect atoms # {}
        lines == SubSeq(text, d.line, Len(text))
        Crowded(l) == \E k \in DOMAIN l : l[k] \in {"}", ";"} /\ k < Len(l) /\ l[k + 1] \notin {"//", "}", ";"}
    IN  CASE kind = "variable" -> has({","}, own) \/ Crowded(own)
          [] kind = "parameter" -> has({":", "="}, own)
          [] kind = "function" -> \/ \E n \in DOMAIN lines : has({"/*"}, lines[n]) \/ Crowded(lines[n])
                                  \/ ~has({"{", ";"}, own) /\ Extent(Code(lines), kind) # {}
                                       /\ Code(lines)[CHOOSE n \in Extent(Code(lines), kind) : TRUE] = ";"
          [] kind = "body" -> \E n \in DOMAIN lines : has({"\"", "'", "//", "/*"}, lines[n])
          [] kind = "directive" -> FALSE

(* A fix takes the declaration, all of it and nothing else; no part of a   *)
(* text is taken for a declaration that does not end, and a missing body   *)
(* or a forward leaves the rest of the declaration as it was.              *)
FixAgrees(text, d, edits) ==
    LET results == {Code(Apply(text, edits[k])) : k \in DOMAIN edits}
        rest == Code(text)
        kind == RemovalKind(d.code)
    IN  CASE kind # "none" ->
               \/ KnownToMistake(text, d)
               \/ edits # <<>> /\ results = Expected(text, d)
               \/ edits = <<>> /\ (Expected(text, d) = {} \/ (kind = "variable" /\ ~EndsIn(text[d.line], ";")))
          [] d.code = "PP0004" ->
               results \subseteq
                   {SubSeq(rest, 1, k - 1) \o <<"{", "}">> \o SubSeq(rest, k + 1, Len(rest)) :
                        k \in {j \in DOMAIN rest : rest[j] = ";"}}
                     \union {[rest EXCEPT ![k] = "forward"] : k \in {j \in DOMAIN rest : rest[j] \in {"public", "stock"}}}
          [] d.code = "PP0010" -> results = {[rest EXCEPT ![Len(Code(SubSeq(text, 1, d.line - 1)))
                                                + Len(Code(<<SubSeq(text[d.line], 1, d.col)>>)) + 1] = "f"]}
=============================================================================
