------------------------------ MODULE DebugExpr ------------------------------
(***************************************************************************)
(* The expressions a watch evaluates: an operand, or two with one operator *)
(* between them.  An expression is a sequence of symbols: names, digits,   *)
(* brackets and operators.  A variable is a tree, as the plugin built it.  *)
(***************************************************************************)
EXTENDS DebugValues

Ops == {"==", "<", "+", "-", "/"}
Digits == {"1", "2"}
Names == {"a", "x", "t", "f"}
DigitValue(d) == IF d = "1" THEN 1 ELSE 2

Truncated(a, b) == LET q == (IF a < 0 THEN -a ELSE a) \div (IF b < 0 THEN -b ELSE b)
                   IN  IF (a < 0) = (b < 0) THEN q ELSE -q

(* cmp and arith: truth values only compare with each other, and only for  *)
(* equality; integers divide as Pawn does; no division by zero.            *)
Apply(op, a, b) ==
    LET bools == {x \in {a, b} : x.kind = "bool"}
        ints == a.kind = "int" /\ b.kind = "int"
    IN  CASE op = "==" /\ (bools = {} \/ bools = {a, b}) -> Bool(a.n = b.n)
          [] op = "<" /\ bools = {} -> Bool(a.n < b.n)
          [] op = "+" /\ bools = {} -> Float(a.n + b.n)
          [] op = "-" /\ bools = {} -> Float(a.n - b.n)
          [] op = "/" /\ ints /\ b.n # 0 -> Whole(Truncated(a.n, b.n))
          [] OTHER -> Nothing

ParseValue(e) ==
    IF Len(e) = 1 /\ e[1] \in Digits THEN Whole(DigitValue(e[1]))
    ELSE IF Len(e) = 2 /\ e[1] \in {"-", "+"} /\ e[2] \in Digits
         THEN Whole(IF e[1] = "-" THEN -DigitValue(e[2]) ELSE DigitValue(e[2]))
         ELSE Nothing

Occurrences(e, s, n) == Cardinality({i \in 1..n : e[i] = s})
Depth(e, i) == Occurrences(e, "[", i - 1) - Occurrences(e, "]", i - 1)

(* split_binary: the first operator outside brackets with something before *)
(* it; 0 when there is none.                                               *)
SplitBinary(e) ==
    LET at == {i \in 2..Len(e) : e[i] \in Ops /\ Depth(e, i) = 0}
    IN  IF at = {} THEN 0 ELSE CHOOSE i \in at : \A k \in at : i <= k

(* split_indexed: a name and what is in each pair of balanced brackets.    *)
RECURSIVE Groups(_)
Groups(rest) ==
    IF rest = <<>> THEN <<<<>>>>
    ELSE LET closing == {j \in DOMAIN rest : rest[j] = "]" /\ Depth(rest, j) = 1}
             j == CHOOSE k \in closing : \A m \in closing : k <= m
             others == Groups(SubSeq(rest, j + 1, Len(rest)))
         IN  IF rest[1] # "[" \/ closing = {} \/ others = Nothing THEN Nothing
             ELSE <<<<SubSeq(rest, 2, j - 1)>> \o others[1]>>

SplitIndexed(e) ==
    LET open == SelectInSeq(e, LAMBDA s : s = "[")
        name == SubSeq(e, 1, open - 1)
        groups == Groups(SubSeq(e, open, Len(e)))
    IN  IF open < 2 \/ (\E i \in DOMAIN name : name[i] \notin Names \union Digits)
            \/ groups = Nothing THEN Nothing
        ELSE <<[name |-> name, indices |-> groups[1]]>>

RECURSIVE EvalExpr(_, _)

(* eval_path: every index is an integer that is not negative.              *)
EvalPath(indices, vars) ==
    LET values == [k \in DOMAIN indices |-> EvalExpr(indices[k], vars)]
    IN  IF \A v \in Range(values) : v # Nothing /\ v[1].kind = "int" /\ v[1].n >= 0
        THEN <<[k \in DOMAIN indices |-> values[k][1].n \div 2]>> ELSE Nothing

NodeAt(name, path, vars) ==
    LET i == IF Len(name) = 1 THEN Find(vars, name[1]) ELSE 0
    IN  IF i = 0 THEN Nothing ELSE Descend(vars[i], path)

EvalOperand(e, vars) ==
    LET indexed == SplitIndexed(e)
        path == EvalPath(indexed[1].indices, vars)
        node == IF indexed = Nothing THEN NodeAt(e, <<>>, vars)
                ELSE IF path = Nothing THEN Nothing
                     ELSE NodeAt(indexed[1].name, path[1], vars)
    IN  IF ParseValue(e) # Nothing THEN ParseValue(e)
        ELSE IF node = Nothing \/ node[1].children # <<>> THEN Nothing ELSE node[1].value

EvalExpr(e, vars) ==
    LET i == SplitBinary(e)
        left == EvalOperand(SubSeq(e, 1, i - 1), vars)
        right == EvalOperand(SubSeq(e, i + 1, Len(e)), vars)
    IN  IF i = 0 THEN EvalOperand(e, vars)
        ELSE IF left = Nothing \/ right = Nothing THEN Nothing ELSE Apply(e[i], left[1], right[1])

-----------------------------------------------------------------------------
(* What an expression means, by its grammar and in no order: the values of *)
(* all the ways to read it.                                                *)
RECURSIVE Meanings(_, _), Nodes(_, _)

(* The nodes an operand without an operator may denote: a name, or what is *)
(* before the last brackets, followed by the index they hold.              *)
Nodes(e, vars) ==
    {vars[i] : i \in {k \in DOMAIN vars : e = <<vars[k].name>>}} \union
    UNION {LET values == Meanings(SubSeq(e, k + 1, Len(e) - 1), vars)
           IN  {node.children[1 + v.n \div 2] :
                   node \in Nodes(SubSeq(e, 1, k - 1), vars),
                   v \in {w \in values : w.kind = "int"}} :
           k \in {k \in 2..Len(e) : e[k] = "[" /\ Last(e) = "]"
                     /\ \A v \in Meanings(SubSeq(e, k + 1, Len(e) - 1), vars) :
                            /\ v.n >= 0
                            /\ \A node \in Nodes(SubSeq(e, 1, k - 1), vars) :
                                   v.n \div 2 < Len(node.children)}}

Operands(e, vars) ==
    Range(ParseValue(e)) \union
    UNION {Range(node.value) : node \in {n \in Nodes(e, vars) : n.children = <<>>}}

Meanings(e, vars) ==
    Operands(e, vars) \union
    UNION {UNION {Range(Apply(e[i], a, b)) :
                     a \in Operands(SubSeq(e, 1, i - 1), vars),
                     b \in Operands(SubSeq(e, i + 1, Len(e)), vars)} :
           i \in {k \in DOMAIN e : e[k] \in Ops}}

(* An expression has the value of its only reading, or none.               *)
EvalAgrees(e, vars, result) == Range(result) = Meanings(e, vars)
=============================================================================
