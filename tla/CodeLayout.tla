----------------------------- MODULE CodeLayout -----------------------------
(***************************************************************************)
(* The formatter of the engine, as far as it moves lines: every brace goes *)
(* to a line of its own, every line to the level of its statement, and the *)
(* style joins some of them again.  What it does within a line is          *)
(* CodeSpacing.                                                            *)
(*                                                                         *)
(* A line has an indentation and atoms: a word, a mark of punctuation, a   *)
(* quote, a backslash, what begins or ends a comment.                      *)
(***************************************************************************)
EXTENDS Integers, Sequences, SequencesExt

Stmts == INSTANCE StmtIndent

Quotes == {"\"", "'"}
Control == {"if", "for", "while", "else"}
Keywords == Control \union {"do", "switch", "case", "default", "new", "return"}
Unit == 4 \* the columns of a level

Ln(indent, atoms) == [indent |-> indent, atoms |-> atoms]
FirstOf(atoms) == IF atoms = <<>> THEN "" ELSE Head(atoms)
LastOf(atoms) == IF atoms = <<>> THEN "" ELSE Last(atoms)
IsBlank(l) == l.atoms = <<>>

-----------------------------------------------------------------------------
(* How each step reads a line: the mode every atom is in, from the one the *)
(* line begins in, and the one it ends in.  Some know no block comments.   *)
ModeStep(blocks, st, c) ==
    LET at(mode, then, skip) ==
            [modes |-> Append(st.modes, mode), end |-> then, skip |-> skip]
    IN  CASE st.skip -> at(st.end, st.end, FALSE)
          [] ~st.skip /\ st.end = "line" -> at("line", "line", FALSE)
          [] ~st.skip /\ st.end = "block" ->
                at("block", IF c = "*/" THEN "code" ELSE "block", FALSE)
          [] ~st.skip /\ st.end \in Quotes ->
                at(st.end, IF c = st.end THEN "code" ELSE st.end, c = "\\")
          [] OTHER -> LET mode == CASE c = "//" -> "line"
                                    [] c = "/*" /\ blocks -> "block"
                                    [] c \in Quotes -> c
                                    [] OTHER -> "code"
                      IN  at(mode, mode, FALSE)
Read(atoms, start, blocks) ==
    FoldLeft(LAMBDA st, c : ModeStep(blocks, st, c),
             [modes |-> <<>>, end |-> start, skip |-> FALSE], atoms)
(* The atoms of a line that are code for who knows no block comments.      *)
CodeOf(atoms) ==
    LET modes == Read(atoms, "code", FALSE).modes
        upTo == SelectInSeq(modes, LAMBDA m : m = "line")
        seen == IF upTo = 0 THEN atoms ELSE SubSeq(atoms, 1, upTo - 1)
    IN  FoldLeftDomain(LAMBDA out, i : IF modes[i] = "code" THEN Append(out, seen[i]) ELSE out,
                       <<>>, seen)
EndsWithLineComment(atoms) == Read(atoms, "code", FALSE).end = "line"
Balance(atoms, opening, closing) ==
    FoldLeft(LAMBDA n, c : IF c \in opening THEN n + 1 ELSE IF c \in closing THEN n - 1 ELSE n,
             0, CodeOf(atoms))
BraceDelta(atoms) == Balance(atoms, {"{"}, {"}"})
ParenDelta(atoms) == Balance(atoms, {"(", "["}, {")", "]"})
DeclOpen(atoms) == ~Contains(CodeOf(atoms), ";")
OpensArrayInit(atoms) ==
    LET code == CodeOf(atoms)
    IN  \E i, j \in DOMAIN code : i < j /\ code[i] = "=" /\ code[j] = "{"

-----------------------------------------------------------------------------
(* split_braces_to_own_lines: but for an empty block.  A line that goes on *)
(* with the string of the one before is added whole, after its braces.     *)
SplitAtom(modes, atoms, st, i) ==
    LET c == atoms[i]
        flushed == IF st.seg = <<>> THEN st.out ELSE Append(st.out, st.seg)
        code == modes[i] = "code"
    IN  CASE st.skip -> [st EXCEPT !.skip = FALSE]
          [] ~st.skip /\ code /\ c = "{" ->
                IF i < Len(atoms) /\ atoms[i + 1] = "}"
                THEN IF st.seg = <<>> THEN [st EXCEPT !.skip = TRUE, !.out = Append(@, <<"{", "}">>)]
                     ELSE [st EXCEPT !.skip = TRUE, !.seg = @ \o <<"{", "}">>]
                ELSE [st EXCEPT !.seg = <<>>, !.out = Append(flushed, <<"{">>)]
          [] ~st.skip /\ code /\ c = "}" ->
                [st EXCEPT !.seg = <<>>, !.out = Append(flushed, <<"}">>)]
          [] OTHER -> [st EXCEPT !.seg = Append(@, c)]

SplitLine(st, l) ==
    LET start == IF st.str THEN "\"" ELSE IF st.block THEN "block" ELSE "code"
        read == Read(l.atoms, start, TRUE)
        cut == FoldLeftDomain(LAMBDA s, i : SplitAtom(read.modes, l.atoms, s, i),
                              [out |-> <<>>, seg |-> <<>>, skip |-> FALSE], l.atoms)
        ended == IF st.str THEN Append([i \in DOMAIN cut.out |-> Ln(0, cut.out[i])], l)
                 ELSE [i \in DOMAIN cut.out |-> Ln(0, cut.out[i])]
                      \o (IF cut.seg # <<>> \/ IsBlank(l) THEN <<Ln(0, cut.seg)>> ELSE <<>>)
    IN  IF start = "code" /\ (st.directive \/ FirstOf(l.atoms) = "#")
        THEN [st EXCEPT !.directive = LastOf(l.atoms) = "\\", !.out = Append(@, Ln(0, l.atoms))]
        ELSE [str |-> read.end = "\"" /\ LastOf(l.atoms) = "\\", block |-> read.end = "block",
              directive |-> st.directive, out |-> st.out \o ended]

SplitBracesToOwnLines(text) ==
    FoldLeft(SplitLine, [str |-> FALSE, block |-> FALSE, directive |-> FALSE, out |-> <<>>], text).out

-----------------------------------------------------------------------------
(* The tokens of the lexer, with their lines: a literal is one token.      *)
TokenizeLine(text, st, n) ==
    LET atoms == text[n].atoms
        read == Read(atoms, st.end, TRUE)
        opens(i) == read.modes[i] \in Quotes /\ (i = 1 \/ read.modes[i - 1] # read.modes[i])
        kind(i) == IF opens(i) THEN "string"
                   ELSE IF i > 1 /\ atoms[i - 1] = "#" THEN "directive"
                   ELSE IF atoms[i] \in Keywords \/ atoms[i] \in {"#", "(", ")", "[", "]", "{", "}", ";", ":", "?"}
                        THEN atoms[i] ELSE IF atoms[i] = "\\" THEN "continuation" ELSE "ident"
        goesOn(i) == i = 1 /\ st.end # "code"
    IN  IF st.end # "code" /\ IsBlank(text[n]) THEN st
        ELSE [end |-> IF read.end = "line" THEN "code" ELSE read.end,
              tokens |-> st.tokens \o
                FoldLeftDomain(LAMBDA out, i :
                    IF read.modes[i] = "code" \/ (opens(i) /\ ~goesOn(i))
                    THEN Append(out, [kind |-> kind(i), indent |-> 0, line |-> n]) ELSE out,
                    <<>>, atoms)]
Tokenize(text) ==
    FoldLeftDomain(LAMBDA st, n : TokenizeLine(text, st, n),
                   [end |-> "code", tokens |-> <<>>], text).tokens

(* indent_levels: the braces that are open, and the controls whose body is *)
(* to come; a label is a control until the next one.                       *)
Labels == {"case", "default"}
LevelStep(st, s) ==
    LET depth == IF s.kind = "}" /\ st.depth > 0 THEN st.depth - 1 ELSE st.depth
        kept == SelectSeq(st.implicit, LAMBDA b : b.depth <= depth)
        others(b) == b.depth # depth
        here == SelectSeq(kept, LAMBDA b : b.depth = depth)
        extra == Len(SelectSeq(here, LAMBDA b : ~(s.kind \in Labels /\ b.label)))
        inside == IF st.blocks = <<>> THEN depth ELSE Last(st.blocks) + 1
        level == CASE s.kind = "}" -> IF st.blocks = <<>> THEN 0 ELSE Last(st.blocks)
                   [] s.kind = "{" -> inside + extra - (IF here = <<>> THEN 0 ELSE 1)
                   [] OTHER -> inside + extra
        body(label) == [depth |-> depth, label |-> label]
    IN  [depth |-> IF s.kind = "{" THEN depth + 1 ELSE depth,
         levels |-> Append(st.levels, level),
         blocks |-> CASE s.kind = "{" -> Append(st.blocks, level)
                      [] s.kind = "}" /\ st.blocks # <<>> -> Front(st.blocks)
                      [] OTHER -> st.blocks,
         implicit |-> CASE s.kind \in Labels -> Append(SelectSeq(kept, others), body(TRUE))
                        [] s.kind \in Control \union {"do"} -> Append(kept, body(FALSE))
                        [] s.kind = "}" -> SelectSeq(kept, others)
                        [] OTHER -> SelectSeq(kept, LAMBDA b : others(b) \/ b.label)]
IndentLevels(stmts) ==
    FoldLeft(LevelStep, [depth |-> 0, levels |-> <<>>, blocks |-> <<>>, implicit |-> <<>>], stmts).levels

(* analyze_lines: a comment has the level of the next statement, what goes *)
(* on in parentheses or in a list of variables one more than its statement.*)
AnalyzeLine(text, starts, levels, st, n) ==
    LET atoms == text[n].atoms
        isStart == n \in DOMAIN starts
        next == {m \in DOMAIN starts : m >= n}
        first(S) == CHOOSE m \in S : \A k \in S : m <= k
        isComment == FirstOf(atoms) \in {"//", "*", "*/"}
        base == CASE isStart -> levels[starts[n]]
                  [] ~isStart /\ isComment -> IF next = {} THEN 0 ELSE levels[starts[first(next)]]
                  [] OTHER -> st.last
        goesOn == st.paren > 0 \/ (st.decl /\ ~isStart /\ atoms # <<>>)
    IN  [last |-> IF isStart THEN base ELSE st.last,
         out |-> Append(st.out, base + IF goesOn /\ FirstOf(atoms) \notin {")", "]"} THEN 1 ELSE 0),
         decl |-> IF isStart /\ ~isComment THEN FirstOf(atoms) = "new" /\ DeclOpen(atoms)
                  ELSE st.decl /\ DeclOpen(atoms),
         paren |-> IF st.paren + ParenDelta(atoms) < 0 THEN 0 ELSE st.paren + ParenDelta(atoms)]
AnalyzeLines(text) ==
    LET tokens == Tokenize(text)
        stmts == Stmts!ParseStmts(tokens)
        levels == IndentLevels(stmts)
        lineOf(k) == tokens[stmts[k].at].line
        starts == [n \in {lineOf(k) : k \in DOMAIN stmts} |->
                     CHOOSE k \in DOMAIN stmts : lineOf(k) = n /\ \A j \in 1..(k - 1) : lineOf(j) # n]
    IN  FoldLeftDomain(LAMBDA st, n : AnalyzeLine(text, starts, levels, st, n),
                       [last |-> 0, out |-> <<>>, decl |-> FALSE, paren |-> 0], text).out

-----------------------------------------------------------------------------
(* collapse_braced_single, collapse_single_bodies, join_braces_knr: each   *)
(* joins lines that follow one another, from the top, and looks again from *)
(* the line before.                                                        *)
IsSimpleStatement(atoms) ==
    /\ LastOf(atoms) = ";" /\ ~Contains(atoms, "{") /\ ~Contains(atoms, "}")
    /\ Head(atoms) \notin Control \union {"do", "switch"}
HeaderTakesInlineBlock(atoms) ==
    /\ LastOf(atoms) # "{" /\ ~EndsWithLineComment(atoms)
    /\ FirstOf(atoms) \in Control \union Labels
    /\ LastOf(atoms) \in {")", ":"} \/ atoms = <<"else">>
IsControlHeader(atoms) ==
    (FirstOf(atoms) \in Control \ {"else"} /\ LastOf(atoms) = ")") \/ atoms = <<"else">>
TakesBrace(atoms) == atoms # <<>> /\ atoms # <<"{">> /\ ~EndsWithLineComment(atoms)

Joined(out, i, n, atoms) == \* n lines from i on become one
    SubSeq(out, 1, i - 1) \o <<Ln(out[i].indent, atoms)>> \o SubSeq(out, i + n, Len(out))
Back(i) == IF i > 1 THEN i - 1 ELSE 1

RECURSIVE CollapseBracedSingle(_, _)
CollapseBracedSingle(out, i) ==
    LET body == out[i + 1].atoms
        block == <<"{">> \o body \o <<"}">>
    IN  IF i + 2 > Len(out) THEN out
        ELSE IF out[i].atoms = <<"{">> /\ out[i + 2].atoms = <<"}">> /\ IsSimpleStatement(body)
        THEN IF i > 1 /\ HeaderTakesInlineBlock(out[i - 1].atoms)
             THEN CollapseBracedSingle(Joined(out, i - 1, 4, out[i - 1].atoms \o block), i - 1)
             ELSE CollapseBracedSingle(Joined(out, i, 3, block), i)
        ELSE CollapseBracedSingle(out, i + 1)

RECURSIVE CollapseSingleBodies(_, _)
CollapseSingleBodies(out, i) ==
    IF i + 1 > Len(out) THEN out
    ELSE IF IsControlHeader(out[i].atoms) /\ IsSimpleStatement(out[i + 1].atoms)
    THEN CollapseSingleBodies(Joined(out, i, 2, out[i].atoms \o out[i + 1].atoms), Back(i))
    ELSE CollapseSingleBodies(out, i + 1)

RECURSIVE JoinBracesKnr(_, _)
JoinBracesKnr(out, i) ==
    IF i > Len(out) THEN out
    ELSE IF out[i].atoms = <<"{">> /\ i > 1 /\ TakesBrace(out[i - 1].atoms)
    THEN JoinBracesKnr(Joined(out, i - 1, 2, out[i - 1].atoms \o <<"{">>), i)
    ELSE JoinBracesKnr(out, i + 1)

-----------------------------------------------------------------------------
(* format_with_base: a line within a string stays as it is, one within a   *)
(* macro is not read; of blank lines one is left, and none at the end.     *)
Collapses(style) == style = "compact"
SameLine(style) == style \in {"knr", "compact"}

FormatLine(lines, levels, base, st, n) ==
    LET l == lines[n]
        inMacro == (st.directive \/ FirstOf(l.atoms) = "#") /\ LastOf(l.atoms) = "\\"
        end == Read(l.atoms, st.carry, TRUE).end
        carry == CASE end = "\"" /\ LastOf(l.atoms) = "\\" -> end
                   [] end = "block" -> end
                   [] OTHER -> "code"
        level == (levels[n] + base) * Unit
    IN  CASE IsBlank(l) /\ st.carry # "\"" ->
                [st EXCEPT !.directive = FALSE,
                           !.out = IF @ # <<>> /\ IsBlank(Last(@)) THEN @ ELSE Append(@, Ln(0, <<>>))]
          [] st.carry = "\"" -> [st EXCEPT !.carry = carry, !.out = Append(@, l)]
          [] OTHER -> [directive |-> inMacro,
                       carry |-> IF st.directive THEN st.carry ELSE carry,
                       out |-> Append(st.out, Ln(level, l.atoms))]

WithoutEnd(out) ==
    SubSeq(out, 1, SelectLastInSeq(out, LAMBDA l : ~IsBlank(l)))

FormatWithBase(text, style, base) ==
    LET lines == SplitBracesToOwnLines(text)
        levels == AnalyzeLines(lines)
        laid == FoldLeftDomain(LAMBDA st, n : FormatLine(lines, levels, base, st, n),
                               [directive |-> FALSE, carry |-> "code", out |-> <<>>], lines).out
        collapsed == IF Collapses(style)
                     THEN CollapseSingleBodies(CollapseBracedSingle(laid, 1), 1) ELSE laid
    IN  WithoutEnd(IF SameLine(style) THEN JoinBracesKnr(collapsed, 1) ELSE collapsed)

(* array_init_blocks: the lines of an array that is given its values.      *)
RECURSIVE BlockEnd(_, _, _)
BlockEnd(text, n, depth) ==
    IF n > Len(text) \/ depth <= 0 THEN n - 1 ELSE BlockEnd(text, n + 1, depth + BraceDelta(text[n].atoms))
RECURSIVE ArrayInitBlocks(_, _)
ArrayInitBlocks(text, n) ==
    LET delta == BraceDelta(text[n].atoms)
        end == BlockEnd(text, n + 1, delta)
    IN  IF n > Len(text) THEN <<>>
        ELSE IF OpensArrayInit(text[n].atoms) /\ delta > 0
        THEN (IF end > n THEN << <<n, end>> >> ELSE <<>>) \o ArrayInitBlocks(text, end + 1)
        ELSE ArrayInitBlocks(text, n + 1)

(* format_preserving: each of them stands for a statement, and is put back *)
(* as it was, its first line where the statement has come to be.           *)
Placeholder(k) == [i \in 1..k |-> "array"] \o <<";">>
FormatPreserving(text, style, base, blocks) ==
    LET inBlock(n) == {k \in DOMAIN blocks : n \in blocks[k][1]..blocks[k][2]}
        reduced == FoldLeftDomain(
            LAMBDA out, n : IF inBlock(n) = {} THEN Append(out, text[n])
                            ELSE LET k == CHOOSE k \in inBlock(n) : TRUE
                                 IN  IF blocks[k][1] = n THEN Append(out, Ln(0, Placeholder(k))) ELSE out,
            <<>>, text)
        restored(l) ==
            LET ks == {k \in DOMAIN blocks : l.atoms = Placeholder(k)}
                b == blocks[CHOOSE k \in ks : TRUE]
            IN  IF ks = {} THEN <<l>>
                ELSE <<Ln(l.indent, text[b[1]].atoms)>> \o SubSeq(text, b[1] + 1, b[2])
    IN  FoldLeft(LAMBDA out, l : out \o restored(l), <<>>, FormatWithBase(reduced, style, base))

Format(text, style, preserve, base) ==
    LET blocks == ArrayInitBlocks(text, 1)
    IN  IF preserve /\ blocks # <<>> THEN FormatPreserving(text, style, base, blocks)
        ELSE FormatWithBase(text, style, base)

(* format_range: the lines selected, on the level of the braces that are   *)
(* open before them; not the line at whose beginning the selection ends.   *)
IndentStep(st, l) ==
    LET read == Read(l.atoms, IF st.block THEN "block" ELSE "code", TRUE)
        braces == {i \in DOMAIN l.atoms : read.modes[i] \notin {"line", "block"}
                                          /\ l.atoms[i] \in {"{", "}"}}
    IN  [block |-> read.end = "block",
         depth |-> FoldLeftDomain(LAMBDA d, i : CASE i \in braces /\ l.atoms[i] = "{" -> d + 1
                                                  [] i \in braces /\ l.atoms[i] = "}" /\ d > 0 -> d - 1
                                                  [] OTHER -> d, st.depth, l.atoms)]
ComputeIndent(text, n) ==
    FoldLeft(IndentStep, [block |-> FALSE, depth |-> 0], SubSeq(text, 1, n - 1)).depth
(* The text after the edit of a selection: from a line to the character at *)
(* a line.                                                                 *)
FormatRange(text, from, to, atStart, style, preserve) ==
    LET last == IF to > from /\ atStart THEN to - 1 ELSE to
        end == IF last < Len(text) THEN last ELSE Len(text)
    IN  SubSeq(text, 1, from - 1)
        \o Format(SubSeq(text, from, end), style, preserve, ComputeIndent(text, from))
        \o SubSeq(text, end + 1, Len(text))

-----------------------------------------------------------------------------
(* How the lines of a text are meant to be read.                           *)
ReadingStep(st, l) ==
    LET start == IF st.end = "line" THEN "code" ELSE st.end
        macro == st.macro \/ (start = "code" /\ FirstOf(l.atoms) = "#")
        read == Read(l.atoms, start, TRUE)
    IN  [end |-> read.end, macro |-> macro /\ LastOf(l.atoms) = "\\",
         lines |-> Append(st.lines, [atoms |-> l.atoms, indent |-> l.indent, start |-> start,
                                     macro |-> macro, modes |-> read.modes, end |-> read.end])]
Reading(text) == FoldLeft(ReadingStep, [end |-> "code", macro |-> FALSE, lines |-> <<>>], text).lines

(* What a text says whatever its layout: its atoms, a line ending where a  *)
(* comment, a macro or a line of a string does; a line that goes on with a *)
(* string has its indentation too.                                         *)
GoesOn(r) == r.start \in Quotes
Says(text) ==
    FoldLeft(LAMBDA out, r : out \o (IF GoesOn(r) THEN [i \in 1..r.indent |-> " "] ELSE <<>>) \o r.atoms
                            \o (IF r.macro \/ r.end \in {"line", "\""} THEN <<"eol">> ELSE <<>>),
             <<>>, Reading(text))

(* No line leaves a literal open, but for a string that goes on.           *)
WellFormed(text) ==
    LET rs == Reading(text)
    IN  \A n \in DOMAIN rs : /\ rs[n].end \in Quotes => LastOf(rs[n].atoms) = "\\"
                             /\ n = Len(rs) => rs[n].end \in {"code", "line"}

(* What the formatter is known to change: the braces after a string that   *)
(* goes on are written twice; such a string loses its indentation in a     *)
(* macro; and a line is joined to one of a macro, to the comment of a      *)
(* header, or to what stands for an array.                                 *)
KnownToChange(text, style, preserve) ==
    LET rs == Reading(text)
        strings == {n \in DOMAIN rs : GoesOn(rs[n])}
        braces(n) == \E i \in DOMAIN rs[n].atoms : rs[n].modes[i] = "code" /\ rs[n].atoms[i] \in {"{", "}"}
    IN  \/ \E n \in strings : rs[n].macro \/ braces(n)
        \/ /\ SameLine(style)
           /\ \/ preserve /\ ArrayInitBlocks(text, 1) # <<>>
              \/ \E n \in DOMAIN rs : \/ rs[n].macro \/ n \in strings
                                     \/ (EndsWithLineComment(rs[n].atoms) /\ IsControlHeader(rs[n].atoms))

(* The formatter changes nothing of what a text says, and nothing at all   *)
(* of what it has laid out.                                                *)
FormatAgrees(text, style, preserve, r) ==
    WellFormed(text) /\ ~KnownToChange(text, style, preserve) =>
        Says(r) = Says(text) /\ Format(r, style, preserve, 0) = r

(* So it is with lines that are selected, from code to code.               *)
RangeAgrees(text, from, to, style, r) ==
    LET rs == Reading(text)
    IN  WellFormed(text) /\ ~KnownToChange(text, style, FALSE)
            /\ rs[from].start = "code" /\ rs[to].end \in {"code", "line"} =>
        Says(r) = Says(text)

(* Of a body given as the tree of its statements: one level more than the  *)
(* block or the control it is in; the block of a control has its level.    *)
RECURSIVE TreeLines(_, _)
TreeLines(s, level) ==
    LET block == s.form = "block"
        parts == FoldLeft(LAMBDA out, p : out \o TreeLines(p, level + IF p.form = "block" /\ ~block THEN 0 ELSE 1),
                          <<>>, s.parts)
    IN  IF block THEN <<Ln(level * Unit, <<"{">>)>> \o parts \o <<Ln(level * Unit, <<"}">>)>>
        ELSE <<Ln(level * Unit, s.head)>> \o parts
Flat(lines) == [n \in DOMAIN lines |-> Ln(0, lines[n].atoms)]

=============================================================================
