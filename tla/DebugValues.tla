----------------------------- MODULE DebugValues -----------------------------
(***************************************************************************)
(* The values of the debugger and the trees they are kept in: a variable   *)
(* is a node, as the plugin built it.                                      *)
(*                                                                         *)
(* Numbers are counted in halves, so that a float may have a fraction.  A  *)
(* value is also its text: a float without a fraction has that of an int,  *)
(* and is one when it is read back.                                        *)
(***************************************************************************)
EXTENDS Integers, Sequences, SequencesExt, FiniteSets

Nothing == <<>>
Whole(i) == <<[kind |-> "int", n |-> 2 * i]>>
Bool(b) == <<[kind |-> "bool", n |-> IF b THEN 1 ELSE 0]>>
Float(halves) == <<[kind |-> IF halves % 2 = 0 THEN "int" ELSE "float", n |-> halves]>>

(* A node of a variable: a cell that can be read, or an array.             *)
Leaf(v) == [value |-> v, children |-> <<>>]
Find(vars, name) == SelectInSeq(vars, LAMBDA v : v.name = name)

Child(at, i) == IF at # Nothing /\ i + 1 \in DOMAIN at[1].children
                THEN <<at[1].children[i + 1]>> ELSE Nothing
Descend(node, path) ==
    LET at[k \in 0..Len(path)] == IF k = 0 THEN <<node>> ELSE Child(at[k - 1], path[k])
    IN  at[Len(path)]
=============================================================================
