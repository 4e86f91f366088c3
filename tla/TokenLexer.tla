----------------------------- MODULE TokenLexer -----------------------------
(***************************************************************************)
(* How the engine reads characters, twice: the lexer cuts a file into      *)
(* tokens with the indentation of their line; the reader of lines blanks   *)
(* the comments of one line after the other, remembering only whether a    *)
(* block is open, and counts the braces of what is left.                   *)
(*                                                                         *)
(* A text is a sequence of characters, one of each kind that matters; "\r" *)
(* is left out, and "#b" and a digit stand for #pragma tabsize.            *)
(***************************************************************************)
EXTENDS Integers, Sequences, SequencesExt, FiniteSetsExt

LOCAL NL == "\n"
Quotes == {"\"", "'"}
Letters == {"a", "b"}
Digits == {"1"}
DigitValue(d) == 1
Spaces == {" ", "\t"}

(* Punctuation, the longest that fits is one token.                        *)
Operators == {<<"/">>, <<"*">>, <<"{">>, <<"}">>, <<"<">>, <<"=">>, <<"<", "<">>,
              <<"<", "=">>, <<"<", "<", "=">>, <<"=", "=">>, <<".">>, <<".", ".", ".">>}

At(text, i) == IF i \in DOMAIN text THEN text[i] ELSE "eof"
Follows(text, i, s) == \A k \in DOMAIN s : At(text, i + k - 1) = s[k]
(* The first position from i on that satisfies Stop, the end otherwise.    *)
Until(text, i, Stop(_)) ==
    Min({j \in i..Len(text) : Stop(j)} \union {Len(text) + 1})

-----------------------------------------------------------------------------
(* lexer.rs: strip_line_comments.  A quote is escaped by the character     *)
(* before it, whatever that one is.                                        *)
StripStep(line, st, i) ==
    LET c == line[i]
        blank == [st EXCEPT !.text = Append(@, " ")]
        kept == [st EXCEPT !.text = Append(@, c)]
        closes == c = st.mode /\ At(line, i - 1) # "\\"
    IN  CASE st.skip -> [blank EXCEPT !.skip = FALSE]
          [] ~st.skip /\ st.mode = "block" ->
                IF Follows(line, i, <<"*", "/">>) THEN [blank EXCEPT !.mode = "code", !.skip = TRUE]
                ELSE blank
          [] ~st.skip /\ st.mode = "comment" -> blank
          [] ~st.skip /\ st.mode \in Quotes -> [kept EXCEPT !.mode = IF closes THEN "code" ELSE @]
          [] OTHER ->
                IF Follows(line, i, <<"/", "/">>) THEN [blank EXCEPT !.mode = "comment"]
                ELSE IF Follows(line, i, <<"/", "*">>)
                     THEN [blank EXCEPT !.mode = "block", !.skip = TRUE]
                     ELSE [kept EXCEPT !.mode = IF c \in Quotes THEN c ELSE @]

StripLineComments(line, inBlock) ==
    LET end == FoldLeftDomain(LAMBDA st, i : StripStep(line, st, i),
                   [mode |-> IF inBlock THEN "block" ELSE "code", skip |-> FALSE, text |-> <<>>],
                   line)
    IN  [text |-> end.text, inBlock |-> end.mode = "block"]

(* update_brace_depth: what is not in a literal, never below zero.         *)
BraceStep(line, st, i) ==
    LET c == line[i]
        bare == At(line, i - 1) # "\\"
    IN  CASE c \in Quotes /\ bare /\ st.mode \in {"code", c} ->
                [st EXCEPT !.mode = IF @ = c THEN "code" ELSE c]
          [] st.mode = "code" /\ c = "{" -> [st EXCEPT !.depth = @ + 1]
          [] st.mode = "code" /\ c = "}" -> [st EXCEPT !.depth = IF @ = 0 THEN 0 ELSE @ - 1]
          [] OTHER -> st
UpdateBraceDepth(line, depth) ==
    FoldLeftDomain(LAMBDA st, i : BraceStep(line, st, i),
                   [mode |-> "code", depth |-> depth], line).depth

(* mask_string_literals: an escape takes the character after it.           *)
MaskStep(line, st, i) ==
    LET c == line[i]
    IN  CASE st.mode = "code" -> [st EXCEPT !.mode = IF c \in Quotes THEN c ELSE @,
                                            !.text = Append(@, c)]
          [] st.mode # "code" /\ st.skip -> [st EXCEPT !.skip = FALSE, !.text = Append(@, " ")]
          [] OTHER -> [mode |-> IF c = st.mode THEN "code" ELSE st.mode, skip |-> c = "\\",
                       text |-> Append(st.text, IF c = st.mode THEN c ELSE " ")]
MaskStringLiterals(line) ==
    FoldLeftDomain(LAMBDA st, i : MaskStep(line, st, i),
                   [mode |-> "code", skip |-> FALSE, text |-> <<>>], line)

(* A file, line after line.                                                *)
Lines(text) ==
    LET ends == {i \in DOMAIN text : text[i] = NL} \union {Len(text) + 1}
        from(e) == Max({0} \union {k \in ends : k < e}) + 1
    IN  {[from |-> from(e), to |-> e - 1] : e \in ends}
RECURSIVE StripLines(_, _, _, _)
StripLines(text, from, inBlock, depth) ==
    LET end == Until(text, from, LAMBDA j : text[j] = NL)
        line == StripLineComments(SubSeq(text, from, end - 1), inBlock)
        below == UpdateBraceDepth(line.text, depth)
        rest == StripLines(text, end + 1, line.inBlock, below)
    IN  IF end > Len(text) THEN [text |-> line.text, depth |-> below]
        ELSE [text |-> line.text \o <<NL>> \o rest.text, depth |-> rest.depth]

-----------------------------------------------------------------------------
(* token_lexer.rs.  Where the lexer is: the next character, whether it is  *)
(* the first of its line, and the indentation of that line.                *)
Token(kind, from, to, indent) == [kind |-> kind, from |-> from, to |-> to, indent |-> indent]

(* advance over the characters i..j-1.                                     *)
Advance(text, st, j) ==
    IF \E k \in st.pos..(j - 1) : text[k] = NL
    THEN [st EXCEPT !.pos = j, !.atStart = TRUE, !.indent = 0]
    ELSE [st EXCEPT !.pos = j]

AddIndent(indent, c, tab) ==
    IF c = "\t" /\ tab > 0 THEN indent + (tab - ((indent + tab) % tab)) ELSE indent + 1

(* lex_string and lex_char: where the literal that opens at i ends.        *)
RECURSIVE LiteralEnd(_, _, _)
LiteralEnd(text, i, quote) ==
    IF i > Len(text) THEN i
    ELSE IF text[i] = "\\" THEN LiteralEnd(text, i + 2, quote)
    ELSE IF text[i] \in {quote, NL} THEN i + 1 ELSE LiteralEnd(text, i + 1, quote)

(* A literal that continues on the next line takes its indentation.        *)
RECURSIVE SpacesFrom(_, _, _, _)
SpacesFrom(text, i, indent, tab) ==
    IF At(text, i) \notin Spaces THEN indent
    ELSE SpacesFrom(text, i + 1, AddIndent(indent, text[i], tab), tab)
ContinuedIndent(text, st, to) ==
    LET ends == {k \in st.pos..(to - 1) : text[k] = NL /\ text[k - 1] = "\\"}
    IN  IF text[st.pos] # "\"" \/ ends = {} THEN st.indent
        ELSE SpacesFrom(text, Max(ends) + 1, 0, st.tab)

(* lex_directive: the rest of the line, and the lines it continues on.     *)
RECURSIVE DirectiveEnd(_, _)
DirectiveEnd(text, i) ==
    LET j == Until(text, i, LAMBDA k : text[k] \in {NL, "\\"})
    IN  IF At(text, j) # "\\" THEN j
        ELSE DirectiveEnd(text, IF At(text, j + 1) = NL THEN j + 2 ELSE j + 1)

TabSize(text, st) ==
    IF At(text, st.pos + 1) = "b" /\ At(text, st.pos + 2) \in Digits
    THEN DigitValue(text[st.pos + 2]) ELSE st.tab

NumberEnd(text, i) ==
    LET whole == Until(text, i, LAMBDA k : text[k] \notin Digits)
    IN  IF At(text, whole) = "." /\ At(text, whole + 1) \in Digits
        THEN Until(text, whole + 1, LAMBDA k : text[k] \notin Digits) ELSE whole

(* step: what begins at a character that is neither space nor line end.    *)
Piece(text, st) ==
    LET i == st.pos
        c == text[i]
        fits == {Len(o) : o \in {p \in Operators : Follows(text, i, p)}}
        past(n) == IF n > Len(text) + 1 THEN Len(text) + 1 ELSE n
        word == Until(text, i, LAMBDA k : text[k] \notin Letters \union Digits)
        block == Until(text, i + 2, LAMBDA k : Follows(text, k, <<"*", "/">>))
    IN  CASE Follows(text, i, <<"\\", NL>>) -> [kind |-> "continuation", to |-> i + 2]
          [] Follows(text, i, <<"/", "/">>) ->
                [kind |-> "none", to |-> Until(text, i, LAMBDA k : text[k] = NL)]
          [] Follows(text, i, <<"/", "*">>) -> [kind |-> "none", to |-> past(block + 2)]
          [] c = "#" /\ st.atStart -> [kind |-> "hash", to |-> DirectiveEnd(text, i + 1)]
          [] c \in Quotes -> [kind |-> "literal", to |-> past(LiteralEnd(text, i + 1, c))]
          [] c \in Digits -> [kind |-> "number", to |-> NumberEnd(text, i)]
          [] c \in Letters -> [kind |-> "ident", to |-> word]
          [] fits # {} -> [kind |-> "punct", to |-> i + IF fits = {} THEN 1 ELSE Max(fits)]
          [] OTHER -> [kind |-> "none", to |-> i + 1]

After(text, st, piece) ==
    LET next == Advance(text, [st EXCEPT !.atStart = FALSE], piece.to)
    IN  CASE piece.kind = "literal" ->
                [next EXCEPT !.atStart = FALSE, !.indent = IF next.atStart
                    THEN ContinuedIndent(text, [st EXCEPT !.indent = 0], piece.to) ELSE @]
          [] piece.kind = "continuation" -> [next EXCEPT !.atStart = FALSE]
          [] piece.kind = "hash" -> [next EXCEPT !.tab = TabSize(text, st)]
          [] OTHER -> next

RECURSIVE Lex(_, _)
Lex(text, st) ==
    LET c == text[st.pos]
        piece == Piece(text, st)
        space == IF c \in Spaces /\ st.atStart
                 THEN [st EXCEPT !.indent = AddIndent(@, c, st.tab)] ELSE st
    IN  IF st.pos > Len(text) THEN <<>>
        ELSE IF c \in Spaces \union {NL} THEN Lex(text, Advance(text, space, st.pos + 1))
        ELSE (IF piece.kind = "none" THEN <<>>
              ELSE <<Token(piece.kind, st.pos, piece.to - 1, st.indent)>>)
             \o Lex(text, After(text, st, piece))

Tokenize(text, tab) == Lex(text, [pos |-> 1, atStart |-> TRUE, indent |-> 0, tab |-> tab])

-----------------------------------------------------------------------------
(* Both readings of a file in which every literal ends on its line,        *)
(* nothing is escaped but a quote or a letter, and a directive is only     *)
(* words.                                                                  *)
Plain(text) ==
    LET stripped == StripLines(text, 1, FALSE, 0).text
    IN  /\ \A i \in DOMAIN text : text[i] = "\\" => At(text, i + 1) \in Quotes \union Letters
        /\ \A l \in Lines(text) :
              LET line == SubSeq(stripped, l.from, l.to)
              IN  /\ MaskStringLiterals(line).mode = "code"
                  /\ \A i \in DOMAIN line : line[i] = "#" =>
                        /\ \A k \in 1..(i - 1) : line[k] \in Spaces /\ text[l.from + k - 1] \in Spaces
                        /\ \A k \in (i + 1)..Len(line) :
                              text[l.from + k - 1] \in Letters \union Digits \union Spaces
                  /\ \A i \in DOMAIN line : line[i] = "\\" =>
                        \E k \in 1..(i - 1) : line[k] \in Quotes

(* The indentation of the whitespace a line begins with.                   *)
RECURSIVE Indentation(_, _)
Indentation(line, tab) ==
    IF line = <<>> \/ Last(line) \notin Spaces THEN 0
    ELSE LET before == Indentation(Front(line), tab)
         IN  IF Last(line) = "\t" /\ tab > 0 THEN (before \div tab + 1) * tab ELSE before + 1

(* The size of a tab is the last one a line before has set.                *)
TabAt(text, kept, l, tab) ==
    LET set == {k \in kept : k < l.from /\ text[k] = "#" /\ TabSize(text, [pos |-> k, tab |-> 0]) # 0}
    IN  IF set = {} THEN tab ELSE DigitValue(text[Max(set) + 2])

(* What one reads as code the other does; the braces nest alike; a token   *)
(* has the indentation of its line, whatever is before it.                 *)
ReadersAgree(text, tab, tokens) ==
    LET lines == StripLines(text, 1, FALSE, 0)
        covered == UNION {t.from..t.to : t \in Range(tokens)}
        kept == {i \in DOMAIN text : lines.text[i] \notin Spaces \union {NL}}
        braces == SelectSeq(tokens, LAMBDA t : text[t.from] \in {"{", "}"})
    IN  Plain(text) =>
          /\ \A i \in kept : i \in covered \/ text[i] = "\\"
          /\ \A i \in covered : i \in kept \/ text[i] \in Spaces
          /\ lines.depth = FoldLeft(LAMBDA d, t : IF text[t.from] = "{" THEN d + 1
                                                  ELSE IF d = 0 THEN 0 ELSE d - 1, 0, braces)
          /\ \A t \in Range(tokens), l \in Lines(text) :
                LET start == Until(text, l.from, LAMBDA i : text[i] \notin Spaces)
                IN  t.from \in l.from..l.to /\ start \in kept =>
                        t.indent = Indentation(SubSeq(text, l.from, start - 1), TabAt(text, kept, l, tab))
=============================================================================
