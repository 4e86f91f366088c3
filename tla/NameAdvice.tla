----------------------------- MODULE NameAdvice -----------------------------
(***************************************************************************)
(* What the engine thinks of names: the locals it finds, whether a name    *)
(* has one of the styles asked for, how it would write it, and what a      *)
(* mistyped pragma may have meant.  A name is a sequence of characters:    *)
(* letters, small or capital, a digit, an underscore.                      *)
(***************************************************************************)
EXTENDS Integers, Sequences, SequencesExt, FiniteSets, FiniteSetsExt

Small == {"a", "b"}
Capital == {"A", "B"}
Upper(c) == CASE c = "a" -> "A" [] c = "b" -> "B" [] OTHER -> c
Lower(c) == CASE c = "A" -> "a" [] c = "B" -> "b" [] OTHER -> c
Letter == Small \union Capital
Has(s, class) == \E k \in DOMAIN s : s[k] \in class
Only(s, class) == \A k \in DOMAIN s : s[k] \in class

-----------------------------------------------------------------------------
(* style.rs.  The parts of a name between underscores.                     *)
Cases == {"camel", "snake", "pascal", "upper", "capSnake"}

RECURSIVE Segments(_)
Segments(s) ==
    LET k == SelectInSeq(s, LAMBDA c : c = "_")
    IN  IF k = 0 THEN <<s>>
        ELSE <<SubSeq(s, 1, k - 1)>> \o Segments(SubSeq(s, k + 1, Len(s)))

IsCapital(seg) == seg[1] \in Capital /\ ~Has(seg, {"_"}) /\ Has(seg, Small)

Matches(name, style) ==
    LET core == IF name # <<>> /\ name[1] = "_" THEN Tail(name) ELSE name
    IN  core = <<>> \/
        CASE style = "camel" -> core[1] \in Small /\ ~Has(core, {"_"})
          [] style = "pascal" -> IsCapital(core)
          [] style = "snake" -> ~Has(core, Capital) /\ Has(core, Small)
          [] style = "upper" -> ~Has(core, Small) /\ Has(core, Capital)
          [] style = "capSnake" -> /\ Has(core, Small)
                                   /\ \A k \in DOMAIN Segments(core) :
                                         Segments(core)[k] = <<>> \/ IsCapital(Segments(core)[k])

(* suggest.rs: split_words, a word ending before a capital that follows a  *)
(* small letter or a digit; join_words; to_style.                          *)
WordStep(st, c) ==
    LET ended == IF st.word = <<>> THEN st.words ELSE Append(st.words, st.word)
    IN  IF c = "_" THEN [words |-> ended, word |-> <<>>, low |-> FALSE]
        ELSE IF c \in Capital /\ st.low
             THEN [words |-> ended, word |-> <<Lower(c)>>, low |-> FALSE]
             ELSE [st EXCEPT !.word = Append(@, Lower(c)), !.low = c \notin Capital]
SplitWords(name) ==
    LET end == FoldLeft(WordStep, [words |-> <<>>, word |-> <<>>, low |-> FALSE], name)
    IN  IF end.word = <<>> THEN end.words ELSE Append(end.words, end.word)

Shout(w) == [k \in DOMAIN w |-> Upper(w[k])]
Capitalize(w) == [w EXCEPT ![1] = Upper(@)]
JoinWords(words, style) ==
    LET capitalized == [k \in DOMAIN words |-> Capitalize(words[k])]
        under(ws) == FlattenSeq([k \in DOMAIN ws |-> IF k = 1 THEN ws[k] ELSE <<"_">> \o ws[k]])
    IN  CASE style = "snake" -> under(words)
          [] style = "upper" -> Shout(under(words))
          [] style = "camel" -> words[1] \o FlattenSeq(Tail(capitalized))
          [] style = "pascal" -> FlattenSeq(capitalized)
          [] style = "capSnake" -> under(capitalized)

ToStyle(name, style) ==
    LET words == SplitWords(name)
    IN  IF words = <<>> \/ JoinWords(words, style) = name THEN <<>> ELSE <<JoinWords(words, style)>>

-----------------------------------------------------------------------------
(* rules.rs: a banned name, then a short one, then one of no style asked   *)
(* for; an index of a loop may be short.                                   *)
SameName(a, b) == [k \in DOMAIN a |-> Lower(a[k])] = [k \in DOMAIN b |-> Lower(b[k])]
Evaluate(name, inLoop, cfg) ==
    LET tolerated == name = <<"_">> \/ (inLoop /\ \E i \in cfg.loopIndices : SameName(i, name))
    IN  IF \E b \in cfg.blocklist : SameName(b, name) THEN "placeholder"
        ELSE IF ~tolerated /\ Len(name) < cfg.minLength THEN "short"
        ELSE IF /\ ~tolerated /\ cfg.styles # {}
                /\ ~\E s \in cfg.styles : Matches(name, s) THEN "style" ELSE "fine"

Suggestions(name, cfg) == UNION {ToSet(ToStyle(name, s)) : s \in cfg.styles}

Advice(name, inLoop, cfg) ==
    [issue |-> Evaluate(name, inLoop, cfg), suggestions |-> Suggestions(name, cfg)]

(* A suggestion keeps the letters of the name; taken, it ends a complaint  *)
(* about style, if no word is a single letter; and a name of the style is  *)
(* not rewritten to it, its underscores apart.                             *)
Letters(name) == SelectSeq([k \in DOMAIN name |-> Lower(name[k])], LAMBDA c : c # "_")
AdviceAgrees(name, inLoop, cfg, r) ==
    LET long == \A k \in DOMAIN SplitWords(name) :
                   SplitWords(name)[k][1] \in Letter /\ Cardinality({i \in DOMAIN SplitWords(name)[k] :
                                                  SplitWords(name)[k][i] \in Letter}) > 1
    IN  /\ \A s \in r.suggestions : s # name /\ Letters(s) = Letters(name)
        /\ long => \A s \in r.suggestions : Evaluate(s, inLoop, cfg) # "style"
        /\ r.issue = "style" /\ long /\ Letters(name) # <<>> => r.suggestions # {}

-----------------------------------------------------------------------------
(* locals.rs: collect_local_decls and collect_decl_names.  A token is its  *)
(* kind and, for a name, which one.                                        *)
Kind(tokens, i) == IF i \in DOMAIN tokens THEN tokens[i].kind ELSE "eof"
RECURSIVE DeclNames(_, _, _)
DeclNames(tokens, i, expect) ==
    LET k == Kind(tokens, i)
        rest == DeclNames(tokens, i + 1, FALSE)
    IN  CASE k \in {"eof", ";", "{", "}"} -> [next |-> i, at |-> {}]
          [] k = "," -> DeclNames(tokens, i + 1, TRUE)
          [] k = "const" /\ expect -> DeclNames(tokens, i + 1, TRUE)
          [] k = "ident" /\ expect ->
                IF Kind(tokens, i + 1) = ":" THEN DeclNames(tokens, i + 2, TRUE)
                ELSE [rest EXCEPT !.at = @ \union {i}]
          [] OTHER -> rest

NoFor == -1
RECURSIVE Locals(_, _, _)
Locals(tokens, i, st) ==
    LET k == Kind(tokens, i)
        names == DeclNames(tokens, i + 1, TRUE)
        after == [st EXCEPT !.brace = @ + (CASE k = "{" -> 1 [] k = "}" -> -1 [] OTHER -> 0),
                            !.paren = @ + (CASE k = "(" -> 1 [] k = ")" -> -1 [] OTHER -> 0)]
        header == CASE k = "for" -> st.paren
                    [] k = ")" /\ st.header = after.paren -> NoFor
                    [] OTHER -> st.header
    IN  IF k = "eof" THEN {}
        ELSE IF st.brace > 0 /\ k \in {"new", "decl", "static"}
             THEN {[at |-> a, loop |-> st.header # NoFor] : a \in names.at}
                  \union Locals(tokens, names.next, st)
             ELSE Locals(tokens, i + 1, [after EXCEPT !.header = header])
CollectLocalDecls(tokens) == Locals(tokens, 1, [brace |-> 0, paren |-> 0, header |-> NoFor])

(* A token knows whether it is the name of a local, and of a loop's.       *)
LocalsAgree(tokens, r) ==
    r = {[at |-> i, loop |-> tokens[i].role = "index"] :
            i \in {j \in DOMAIN tokens : tokens[j].role \in {"local", "index"}}}

-----------------------------------------------------------------------------
(* similar.rs: the distance of two words, row by row, up to a limit.       *)
Far == 99
EditDistanceWithin(a, b, max) ==
    LET row(prev, i) ==
            FoldLeftDomain(LAMBDA cur, j :
                Append(cur, Min({prev[j] + (IF a[i] = b[j] THEN 0 ELSE 1), cur[j] + 1, prev[j + 1] + 1})),
                <<i>>, b)
        last == FoldLeftDomain(row, [j \in 1..(Len(b) + 1) |-> j - 1], a)
        gap == IF Len(a) < Len(b) THEN Len(b) - Len(a) ELSE Len(a) - Len(b)
    IN  IF gap > max \/ last[Len(b) + 1] > max THEN Far ELSE last[Len(b) + 1]

ToleranceFor(word) == CASE Len(word) <= 4 -> 1 [] Len(word) \in 5..8 -> 2 [] OTHER -> 3

(* closest: the nearest, of these the shortest.                            *)
Closest(word, candidates) ==
    LET far(c) == EditDistanceWithin(word, c, ToleranceFor(word))
        near == {c \in candidates : far(c) \notin {0, Far}}
        best == {c \in near : \A d \in near : far(c) < far(d)
                                 \/ (far(c) = far(d) /\ Len(c) <= Len(d))}
    IN  IF near = {} THEN <<>> ELSE <<CHOOSE c \in best : TRUE>>

(* pragmas.rs: collect_issues, for the word of a pragma and what follows.  *)
Unquoted(arg) ==
    IF Len(arg) > 1 /\ arg[1] = "quote" /\ Last(arg) = "quote"
       /\ ~Has(SubSeq(arg, 2, Len(arg) - 1), {"quote"})
    THEN <<SubSeq(arg, 2, Len(arg) - 1)>> ELSE <<>>
PragmaIssue(p, known, deprecated) ==
    IF p.word = <<>> THEN [kind |-> "none", fix |-> <<>>]
    ELSE IF p.word \notin known THEN [kind |-> "unknown", fix |-> Closest(p.word, known)]
    ELSE IF p.word = deprecated /\ Unquoted(p.arg) # <<>>
         THEN [kind |-> "quoted", fix |-> Unquoted(p.arg)] ELSE [kind |-> "none", fix |-> <<>>]

(* The fix of an issue settles it, and another directive is proposed only  *)
(* if no other is nearer by insertions, removals and replacements.         *)
Fixed(p, issue) == IF issue.kind = "unknown" THEN [p EXCEPT !.word = issue.fix[1]]
                   ELSE [p EXCEPT !.arg = issue.fix[1]]
RECURSIVE Distance(_, _)
Distance(a, b) ==
    IF a = <<>> \/ b = <<>> THEN Len(a) + Len(b)
    ELSE Min({Distance(Tail(a), Tail(b)) + (IF a[1] = b[1] THEN 0 ELSE 1),
              Distance(Tail(a), b) + 1, Distance(a, Tail(b)) + 1})
PragmaAgrees(p, known, deprecated, r) ==
    /\ r.fix # <<>> => LET again == PragmaIssue(Fixed(p, r), known, deprecated)
                       IN  again.kind \in {"none"} \union
                                (IF r.kind = "unknown" THEN {"quoted"} ELSE {})
    /\ r.kind = "unknown" =>
          \A k \in known : Distance(p.word, k) <= ToleranceFor(p.word) =>
             r.fix # <<>> /\ Distance(p.word, r.fix[1]) <= Distance(p.word, k)
=============================================================================
