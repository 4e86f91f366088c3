----------------------------- MODULE StmtIndent -----------------------------
(***************************************************************************)
(* The statements the engine sees in a stream of tokens, and the warning   *)
(* it gives for loose indentation.  A token has a kind, a keyword being    *)
(* one of its own, and the indentation of its line.                        *)
(***************************************************************************)
EXTENDS Integers, Sequences, SequencesExt, FiniteSets

Qualifiers == {"native", "forward", "public", "stock", "static"}
WithHeader == {"if", "while", "for", "switch"}
ToTheEnd == Qualifiers \union
            {"return", "break", "continue", "exit", "goto", "new", "const", "enum"}

Kind(tokens, i) == IF i \in DOMAIN tokens THEN tokens[i].kind ELSE "eof"

(* skip_to_case_colon: past the colon of the label, which is not one of a  *)
(* ternary.                                                                *)
RECURSIVE SkipToCaseColon(_, _, _)
SkipToCaseColon(tokens, i, ternary) ==
    LET k == Kind(tokens, i)
    IN  IF k \in {"eof", ";", "{"} THEN i
        ELSE IF k = ":" /\ ternary = 0 THEN i + 1
        ELSE SkipToCaseColon(tokens, i + 1,
                CASE k = "?" -> ternary + 1 [] k = ":" -> ternary - 1 [] OTHER -> ternary)

(* skip_to_end_of_stmt: past a semicolon, or up to a brace, outside of     *)
(* parentheses; inside them braces are indices.                            *)
RECURSIVE SkipToEndOfStmt(_, _, _)
SkipToEndOfStmt(tokens, i, paren) ==
    LET k == Kind(tokens, i)
    IN  CASE k = "eof" -> i
          [] k = ";" /\ paren = 0 -> i + 1
          [] k \in {"(", "["} -> SkipToEndOfStmt(tokens, i + 1, paren + 1)
          [] k \in {")", "]"} ->
                IF paren = 1 /\ Kind(tokens, i + 1) \in {"{", "eof"} THEN i + 1
                ELSE SkipToEndOfStmt(tokens, i + 1, paren - 1)
          [] k \in {"{", "}"} /\ paren = 0 -> i
          [] OTHER -> SkipToEndOfStmt(tokens, i + 1, paren)

RECURSIVE SkipParenExpr(_, _, _)
SkipParenExpr(tokens, i, depth) ==
    LET k == Kind(tokens, i)
        now == depth + (IF k = "(" THEN 1 ELSE IF k = ")" THEN -1 ELSE 0)
    IN  IF k = "eof" \/ (depth = 0 /\ k # "(") THEN i
        ELSE IF k = ")" /\ now = 0 THEN i + 1
        ELSE SkipParenExpr(tokens, i + 1, now)

SkipQualifiers(tokens, i) ==
    SelectInSubSeq(tokens, i, Len(tokens),
                   LAMBDA t : t.kind \notin Qualifiers \union {"const"})

(* parse_one: the statement at i, if there is one, and where the next      *)
(* begins.                                                                 *)
ParseOne(tokens, i) ==
    LET k == Kind(tokens, i)
        stmt(kind, next) == [kind |-> kind, next |-> next]
    IN  CASE k \in {"continuation", ";"} -> stmt("none", i + 1)
          [] k \in {"{", "}"} -> stmt(k, i + 1)
          [] k = "#" -> IF Kind(tokens, i + 1) = "directive" THEN stmt("directive", i + 2)
                        ELSE stmt("none", i + 1)
          [] k \in WithHeader -> stmt(k, SkipParenExpr(tokens, i + 1, 0))
          [] k \in {"else", "do"} -> stmt(k, i + 1)
          [] k \in {"case", "default"} -> stmt(k, SkipToCaseColon(tokens, i + 1, 0))
          [] k \in Qualifiers ->
                stmt("decl", SkipToEndOfStmt(tokens, IF SkipQualifiers(tokens, i + 1) = 0
                                                     THEN Len(tokens) + 1
                                                     ELSE SkipQualifiers(tokens, i + 1), 0))
          [] k \in ToTheEnd \ Qualifiers -> stmt(k, SkipToEndOfStmt(tokens, i + 1, 0))
          [] k = "ident" /\ Kind(tokens, i + 1) = ":" -> stmt("label", i + 2)
          [] OTHER -> stmt("expr", SkipToEndOfStmt(tokens, i + 1, 0))

RECURSIVE StmtsFrom(_, _)
StmtsFrom(tokens, i) ==
    LET one == ParseOne(tokens, i)
    IN  IF i > Len(tokens) THEN <<>>
        ELSE (IF one.kind = "none" THEN <<>>
              ELSE <<[kind |-> one.kind, at |-> i, indent |-> tokens[i].indent]>>)
             \o StmtsFrom(tokens, one.next)
ParseStmts(tokens) == StmtsFrom(tokens, 1)

-----------------------------------------------------------------------------
(* analyze_indentation: a statement is compared with the first of its      *)
(* block, the body of a control without braces with nothing.               *)
Unset == -1
Controls == {"if", "while", "for", "else", "do"}

Analyse(stmts, st, i) ==
    LET s == stmts[i]
        implicit == s.kind \in Controls
                    /\ ~(i < Len(stmts) /\ stmts[i + 1].kind = "{")
        block == Len(st.blocks)
        first == st.blocks[block]
    IN  CASE s.kind = "{" -> [st EXCEPT !.skip = FALSE, !.blocks = Append(@, Unset)]
          [] s.kind = "}" ->
                [st EXCEPT !.skip = FALSE, !.blocks = IF block = 1 THEN @ ELSE Front(@)]
          [] s.kind \in {"directive", "label"} -> st
          [] s.kind \notin {"{", "}", "directive", "label"} ->
                IF st.skip \/ block = 1 THEN [st EXCEPT !.skip = implicit]
                ELSE [skip |-> implicit,
                      blocks |-> IF first = Unset THEN [st.blocks EXCEPT ![block] = s.indent]
                                 ELSE st.blocks,
                      found |-> st.found \union
                                (IF first \notin {Unset, s.indent} THEN {s.at} ELSE {})]

LooseIndentation(tokens) ==
    LET stmts == ParseStmts(tokens)
    IN  FoldLeftDomain(LAMBDA st, i : Analyse(stmts, st, i),
                       [skip |-> FALSE, blocks |-> <<Unset>>, found |-> {}], stmts).found

-----------------------------------------------------------------------------
(* A body is a tree: the tokens a statement begins with, then its parts, a *)
(* part being a statement or, in braces, a list of them.                   *)
Tokens(kinds, indent) == [i \in DOMAIN kinds |-> [kind |-> kinds[i], indent |-> indent]]

RECURSIVE Render(_)
RenderList(list) == FlattenSeq([i \in DOMAIN list |-> Render(list[i])])
Render(s) ==
    IF s.form = "block"
    THEN Tokens(<<"{">>, s.indent) \o RenderList(s.parts) \o Tokens(<<"}">>, s.indent)
    ELSE Tokens(s.head, s.indent) \o RenderList(s.parts)

(* Where the k-th part begins.                                             *)
PartAt(s, at, k) ==
    at + (IF s.form = "block" THEN 1 ELSE Len(s.head)) + Len(RenderList(SubSeq(s.parts, 1, k - 1)))

(* Labels apart, whoever is in the list of a block stands where its first  *)
(* does; an else stands in the list of its if, a part without braces does  *)
(* not.                                                                    *)
RECURSIVE Loose(_, _)
Loose(s, at) ==
    LET inner == UNION {Loose(s.parts[k], PartAt(s, at, k)) : k \in DOMAIN s.parts}
        listed == {k \in DOMAIN s.parts : s.parts[k].form # "label"}
        first == CHOOSE k \in listed : \A j \in listed : k <= j
    IN  inner \union
        (IF s.form # "block" THEN {}
         ELSE {PartAt(s, at, k) : k \in {j \in listed : s.parts[j].indent # s.parts[first].indent}})

IndentationAgrees(tree, found) == found = Loose(tree, 1)
=============================================================================
