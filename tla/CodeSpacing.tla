---------------------------- MODULE CodeSpacing ----------------------------
(***************************************************************************)
(* What the formatter of the engine does within a line: spaces around      *)
(* operators, after the keywords of controls, and no more than one.        *)
(* A line is a sequence of characters, a word being one; its literals and  *)
(* comments are masked by a mark each while the rest is formatted.         *)
(***************************************************************************)
EXTENDS Integers, Sequences, SequencesExt, FiniteSets

Quotes == {"\"", "'"}
Words == {"if", "return", "x", "1"}
KeywordsSpaced == {"if", "return"}
Mark == "literal" \* what stands for a masked piece

(* The operators that are spaced and those that are not; of either the     *)
(* longest that fits is taken, those that are not spaced before any other. *)
SpacedOps == {<<">", ">", ">", "=">>, <<">", ">", "=">>, <<">", ">", ">">>, <<">", ">">>,
              <<">", "=">>, <<">">>, <<"=", "=">>, <<"=">>, <<"-", "=">>, <<"&", "&">>, <<"&", "=">>,
              <<"&">>, <<"!", "=">>}
TightOps == {<<"-", "-">>, <<":", ":">>, <<".", ".">>, <<".", ".", ".">>}
Ambiguous == {"-", "*"}
BeforeUnary == {"(", "[", "{", ",", "=", "-", "*", "&", "!", ">", "?", ":", ";", "/"}

At(s, i) == IF i \in DOMAIN s THEN s[i] ELSE "end"
FitsAt(line, i, op) == \A k \in DOMAIN op : At(line, i + k - 1) = op[k]
Fitting(line, i, ops) == {op \in ops : FitsAt(line, i, op)}
Longest(ops) == CHOOSE op \in ops : \A o \in ops : Len(o) <= Len(op)
EndsWith(out, c) == out # <<>> /\ Last(out) = c

-----------------------------------------------------------------------------
(* mask_literals: the pieces of the line, and the line with their marks.   *)
MaskStep(line, st, i) ==
    LET c == line[i]
        piece == Append(st.piece, c)
        begin(mode) == [st EXCEPT !.mode = mode, !.piece = <<c>>]
        finish == [st EXCEPT !.mode = "code", !.piece = <<>>, !.pieces = Append(@, piece),
                             !.masked = Append(@, Mark)]
        more == [st EXCEPT !.piece = piece]
        closed == FitsAt(line, i - 1, <<"*", "/">>) /\ Len(st.piece) > 2
    IN  CASE st.mode = "comment" -> more
          [] st.mode = "block" -> IF closed \/ (st.carried /\ FitsAt(line, i - 1, <<"*", "/">>))
                                  THEN finish ELSE more
          [] st.mode \in Quotes ->
                IF st.escaped THEN [more EXCEPT !.escaped = FALSE]
                ELSE IF c = st.mode THEN finish ELSE [more EXCEPT !.escaped = c = "\\"]
          [] st.mode = "code" ->
                CASE FitsAt(line, i, <<"/", "/">>) -> begin("comment")
                  [] FitsAt(line, i, <<"/", "*">>) -> [begin("block") EXCEPT !.carried = FALSE]
                  [] c \in Quotes -> begin(c)
                  [] OTHER -> [st EXCEPT !.masked = Append(@, c)]

MaskLiterals(line, carry) ==
    LET end == FoldLeftDomain(LAMBDA st, i : MaskStep(line, st, i),
                   [mode |-> carry, carried |-> TRUE, escaped |-> FALSE, piece |-> <<>>,
                    pieces |-> <<>>, masked |-> <<>>], line)
        open == end.mode # "code"
    IN  [masked |-> IF open THEN Append(end.masked, Mark) ELSE end.masked,
         pieces |-> IF open THEN Append(end.pieces, end.piece) ELSE end.pieces,
         next |-> CASE end.mode = "block" -> "block"
                    [] end.mode = "\"" /\ EndsWith(line, "\\") -> "\""
                    [] OTHER -> "code"]

(* unmask: each mark is the piece of its turn.                             *)
Unmask(line, pieces) ==
    FoldLeft(LAMBDA st, c : IF c = Mark THEN [n |-> st.n + 1, out |-> st.out \o pieces[st.n + 1]]
                            ELSE [st EXCEPT !.out = Append(@, c)],
             [n |-> 0, out |-> <<>>], line).out

-----------------------------------------------------------------------------
(* format_operators, from the left; "skip" are characters already read, of *)
(* "spaces" none is written until something else comes.                    *)
SpaceBefore(out) == IF out = <<>> \/ EndsWith(out, " ") THEN out ELSE Append(out, " ")
WithoutSpaces(out) == SubSeq(out, 1, SelectLastInSeq(out, LAMBDA c : c # " "))
IsUnary(out) == LET bare == WithoutSpaces(out)
                IN  bare = <<>> \/ Last(bare) \in BeforeUnary

OperatorStep(line, st, i) ==
    LET c == line[i]
        tight == Fitting(line, i, TightOps)
        spaced == Fitting(line, i, SpacedOps)
        read(ops) == Len(Longest(ops)) - 1
        rest == SubSeq(line, i + 1, Len(line))
        next == SelectInSeq(rest, LAMBDA d : d # " ")
        more == next # 0 /\ rest[next] # ")"
    IN  CASE st.skip > 0 -> [st EXCEPT !.skip = @ - 1]
          [] st.skip = 0 /\ st.spaces /\ c = " " -> st
          [] st.skip = 0 /\ ~(st.spaces /\ c = " ") /\ tight # {} ->
                [skip |-> read(tight), spaces |-> FALSE, out |-> st.out \o Longest(tight)]
          [] st.skip = 0 /\ ~(st.spaces /\ c = " ") /\ tight = {} /\ spaced # {} ->
                [skip |-> read(spaced), spaces |-> TRUE,
                 out |-> SpaceBefore(st.out) \o Longest(spaced) \o <<" ">>]
          [] OTHER ->
                CASE c \in Ambiguous /\ ~IsUnary(st.out) ->
                        [skip |-> 0, spaces |-> TRUE, out |-> SpaceBefore(st.out) \o <<c, " ">>]
                  [] c = "," -> [skip |-> 0, spaces |-> TRUE, out |-> WithoutSpaces(st.out) \o <<",", " ">>]
                  [] c = ";" -> [skip |-> 0, spaces |-> TRUE,
                                 out |-> WithoutSpaces(st.out) \o IF more THEN <<";", " ">> ELSE <<";">>]
                  [] OTHER -> [skip |-> 0, spaces |-> FALSE, out |-> Append(st.out, c)]

FormatOperators(line) ==
    FoldLeftDomain(LAMBDA st, i : OperatorStep(line, st, i),
                   [skip |-> 0, spaces |-> FALSE, out |-> <<>>], line).out

(* format_keyword_spacing, collapse_spaces.                                *)
FormatKeywordSpacing(line) ==
    FoldLeftDomain(LAMBDA out, i : IF line[i] \in KeywordsSpaced /\ At(line, i + 1) = "("
                                   THEN out \o <<line[i], " ">> ELSE Append(out, line[i]), <<>>, line)
CollapseSpaces(line) ==
    WithoutSpaces(FoldLeft(LAMBDA out, c : IF c = " " /\ EndsWith(out, " ") THEN out ELSE Append(out, c),
                           <<>>, line))

FormatLine(line, spaceOps, carry) ==
    LET m == MaskLiterals(line, carry)
        onlyMasked == m.pieces # <<>> /\ \A i \in DOMAIN m.masked : m.masked[i] \in {" ", "1", Mark}
        spaced == IF spaceOps THEN FormatOperators(m.masked) ELSE m.masked
    IN  [text |-> IF onlyMasked \/ At(line, 1) \in {"*", "#"} THEN line
                  ELSE Unmask(CollapseSpaces(FormatKeywordSpacing(spaced)), m.pieces),
         next |-> m.next]

-----------------------------------------------------------------------------
(* The tokens of a line as the compiler cuts it: the longest operator, or  *)
(* a character; a literal and a comment whole.                             *)
Operators == SpacedOps \union TightOps
TokenStep(line, st, i) ==
    LET ops == Fitting(line, i, Operators)
    IN  CASE st.skip > 0 -> [st EXCEPT !.skip = @ - 1]
          [] st.skip = 0 /\ line[i] = " " -> st
          [] OTHER -> IF ops = {} THEN [st EXCEPT !.out = Append(@, <<line[i]>>)]
                      ELSE [skip |-> Len(Longest(ops)) - 1, out |-> Append(st.out, Longest(ops))]
Tokens(line, carry) ==
    LET m == MaskLiterals(line, carry)
    IN  <<FoldLeftDomain(LAMBDA st, i : TokenStep(m.masked, st, i), [skip |-> 0, out |-> <<>>],
                         m.masked).out, m.pieces, m.next>>

(* The spaces of a line may change, its tokens, literals and comments do   *)
(* not, nor where it ends; a line that is formatted stays as it is.        *)
SpacingAgrees(line, spaceOps, carry, r) ==
    /\ Tokens(r.text, carry) = Tokens(line, carry)
    /\ r.next = Tokens(line, carry)[3]
    /\ FormatLine(r.text, spaceOps, carry).text = r.text
=============================================================================
