------------------------- MODULE DebugPanel_proofs -------------------------
(***************************************************************************)
(* The panel shows the memory and an edit reaches its row: for any memory  *)
(* and any symbols of at most two dimensions, and any number of pauses,    *)
(* stack traces and edits.  First what the operators on trees and paths    *)
(* do, then the trees against the memory, then the rows and references,    *)
(* and then the steps of the panel, one lemma each.                        *)
(***************************************************************************)
EXTENDS DebugPanel, TLAPS, SequenceTheorems, WellFoundedInduction

(* Descending a tree, written out for the depths there are.                *)
LEMMA DescendAt ==
    ASSUME NEW node, NEW path \in Seq(Nat)
    PROVE  /\ Len(path) = 0 => Descend(node, path) = <<node>>
           /\ Len(path) = 1 => Descend(node, path) = Child(<<node>>, path[1])
           /\ Len(path) = 2 => Descend(node, path) = Child(Child(<<node>>, path[1]), path[2])
  <1>. DEFINE step(f) == [k \in 0..Len(path) |-> IF k = 0 THEN <<node>> ELSE Child(f[k - 1], path[k])]
              at == CHOOSE f : f = step(f)
              w == [k \in 0..Len(path) |-> IF k = 0 THEN <<node>>
                                           ELSE IF k = 1 THEN Child(<<node>>, path[1])
                                           ELSE Child(Child(<<node>>, path[1]), path[2])]
  <1>1. ASSUME w = step(w)
        PROVE  at = step(at)
    BY <1>1, Zenon
  <1>2. CASE Len(path) \in 0..2
    <2>1. w = step(w)
      BY <1>2
    <2>2. at = step(at)
      BY <1>1, <2>1
    <2>. HIDE DEF at
    <2>3. /\ at[0] = <<node>>
          /\ Len(path) \in 1..2 => at[1] = Child(at[0], path[1])
          /\ Len(path) = 2 => at[2] = Child(at[1], path[2])
      BY <1>2, <2>2
    <2>4. Descend(node, path) = at[Len(path)]
      BY DEF Descend, at
    <2>5. Len(path) = 0 => at[Len(path)] = <<node>>
      BY <2>3
    <2>6. Len(path) = 1 => at[Len(path)] = Child(<<node>>, path[1])
      BY <2>3
    <2>7. Len(path) = 2 => at[Len(path)] = Child(Child(<<node>>, path[1]), path[2])
      BY <2>3
    <2>. QED
      BY <2>4, <2>5, <2>6, <2>7
  <1>. QED
    BY <1>2

(* Where a path of indices leads: the steps of Locate, written out.        *)
Reached(sym, path) == IF Len(path) = 0 THEN Base(sym)
                      ELSE IF Len(path) = 1 THEN StepInto(sym, Base(sym), 1, path[1])
                      ELSE StepInto(sym, StepInto(sym, Base(sym), 1, path[1]), 2, path[2])

(* Locate is what its steps give, at the depths there are.                 *)
LEMMA LocateAt ==
    ASSUME NEW sym, NEW path \in Seq(Nat), Len(path) \in 0..2
    PROVE  Locate(sym, path) =
             IF Len(path) > Len(sym.dims) \/ Reached(sym, path) = Nothing THEN Nothing
             ELSE <<[addr |-> Reached(sym, path)[1], isCell |-> Len(path) = Len(sym.dims)]>>
  <1>. DEFINE step(f) == [k \in 0..Len(path) |->
                             IF k = 0 THEN Base(sym) ELSE StepInto(sym, f[k - 1], k, path[k])]
              at == CHOOSE f : f = step(f)
              w == [k \in 0..Len(path) |->
                       IF k = 0 THEN Base(sym)
                       ELSE IF k = 1 THEN StepInto(sym, Base(sym), 1, path[1])
                       ELSE StepInto(sym, StepInto(sym, Base(sym), 1, path[1]), 2, path[2])]
  <1>1. ASSUME w = step(w)
        PROVE  at = step(at)
    BY <1>1, Zenon
  <1>2. w = step(w)
    OBVIOUS
  <1>3. at = step(at)
    BY <1>1, <1>2
  <1>4. Locate(sym, path) = IF Len(path) > Len(sym.dims) \/ at[Len(path)] = Nothing THEN Nothing
             ELSE <<[addr |-> at[Len(path)][1], isCell |-> Len(path) = Len(sym.dims)]>>
    BY DEF Locate
  <1>. HIDE DEF at
  <1>5. at[Len(path)] = Reached(sym, path)
    <2>1. /\ at[0] = Base(sym)
          /\ Len(path) \in 1..2 => at[1] = StepInto(sym, at[0], 1, path[1])
          /\ Len(path) = 2 => at[2] = StepInto(sym, at[1], 2, path[2])
      BY <1>3
    <2>2. Len(path) = 0 => at[Len(path)] = Reached(sym, path)
      BY <2>1 DEF Reached
    <2>3. Len(path) = 1 => at[Len(path)] = Reached(sym, path)
      BY <2>1 DEF Reached
    <2>4. Len(path) = 2 => at[Len(path)] = Reached(sym, path)
      BY <2>1 DEF Reached
    <2>5. Len(path) = 0 \/ Len(path) = 1 \/ Len(path) = 2
      OBVIOUS
    <2>. HIDE DEF Reached
    <2>. QED
      BY <2>2, <2>3, <2>4, <2>5
  <1>. QED
    BY <1>4, <1>5

(* What build_level gives of a row of cells, and of rows behind a vector.  *)
LEMMA BuildAt ==
    ASSUME NEW dims \in Seq(Nat), NEW a \in Int,
           \A i \in Int : SubArray(i) # Nothing => SubArray(i)[1] \in Int
    PROVE  /\ Len(dims) = 1 => BuildArray(dims)[a] = CellsFrom(dims[1], a)
           /\ Len(dims) = 2 => BuildArray(dims)[a] =
                  [i \in 1..ElementsShown(dims[1]) |->
                      IF SubArray(a + i - 1) = Nothing THEN Leaf(Nothing)
                      ELSE [value |-> Nothing,
                            children |-> CellsFrom(dims[2], SubArray(a + i - 1)[1])]]
  <1>1. Len(dims) \in 1..2 => /\ Len(dims) \in 1..Len(dims)
                              /\ \A k \in 1..Len(dims) : k # Len(dims) => k + 1 = Len(dims)
    <2>1. \A n \in 1..2 : n \in 1..n /\ \A k \in 1..n : k # n => k + 1 = n
      OBVIOUS
    <2>. QED
      BY <2>1
  <1>. DEFINE step(f) == [k \in 1..Len(dims) |->
                [b \in Int |->
                    IF k = Len(dims) THEN CellsFrom(dims[k], b)
                    ELSE [i \in 1..ElementsShown(dims[k]) |->
                             IF SubArray(b + i - 1) = Nothing THEN Leaf(Nothing)
                             ELSE [value |-> Nothing, children |-> f[k + 1][SubArray(b + i - 1)[1]]]]]]
              level == CHOOSE f : f = step(f)
              last1 == [b \in Int |-> CellsFrom(dims[Len(dims)], b)]
              w == [k \in 1..Len(dims) |->
                      IF k = Len(dims) THEN last1
                      ELSE [b \in Int |->
                             [i \in 1..ElementsShown(dims[k]) |->
                                 IF SubArray(b + i - 1) = Nothing THEN Leaf(Nothing)
                                 ELSE [value |-> Nothing, children |-> last1[SubArray(b + i - 1)[1]]]]]]
  <1>2. ASSUME w = step(w)
        PROVE  level = step(level)
    BY <1>2, Zenon
  <1>3. CASE Len(dims) \in 1..2
    <2>1. w = step(w)
      <3>1. \A b \in Int : last1[b] = CellsFrom(dims[Len(dims)], b)
        OBVIOUS
      <3>2. w[Len(dims)] = last1
        <4>. HIDE DEF last1
        <4>. QED
          BY <1>1, <1>3
      <3>3. ASSUME NEW k \in 1..Len(dims)
            PROVE  w[k] = step(w)[k]
        <4>1. CASE k = Len(dims)
          BY <4>1
        <4>2. CASE k # Len(dims)
          <5>1. k + 1 = Len(dims)
            BY <4>2, <1>1, <1>3
          <5>2. w[k + 1] = last1
            BY <5>1, <3>2
          <5>3. w[k] = [b \in Int |->
                             [i \in 1..ElementsShown(dims[k]) |->
                                 IF SubArray(b + i - 1) = Nothing THEN Leaf(Nothing)
                                 ELSE [value |-> Nothing, children |-> last1[SubArray(b + i - 1)[1]]]]]
            BY <4>2
          <5>4. step(w)[k] = [b \in Int |->
                             [i \in 1..ElementsShown(dims[k]) |->
                                 IF SubArray(b + i - 1) = Nothing THEN Leaf(Nothing)
                                 ELSE [value |-> Nothing, children |-> w[k + 1][SubArray(b + i - 1)[1]]]]]
            BY <4>2
          <5>. HIDE DEF w, step, last1
          <5>. QED
            BY <5>2, <5>3, <5>4
        <4>. QED
          BY <4>1, <4>2
      <3>4. w = [k \in 1..Len(dims) |-> w[k]] /\ step(w) = [k \in 1..Len(dims) |-> step(w)[k]]
        OBVIOUS
      <3>. HIDE DEF w, step
      <3>. QED
        BY <3>3, <3>4
    <2>2. level = step(level)
      BY <1>2, <2>1
    <2>3. BuildArray(dims) = level[1]
      BY DEF BuildArray
    <2>. HIDE DEF level
    <2>4. Len(dims) = 1 => level[1][a] = CellsFrom(dims[1], a)
      BY <2>2
    <2>5. Len(dims) = 2 => \A b \in Int : level[2][b] = CellsFrom(dims[2], b)
      BY <2>2
    <2>6. Len(dims) = 2 => level[1][a] =
              [i \in 1..ElementsShown(dims[1]) |->
                             IF SubArray(a + i - 1) = Nothing THEN Leaf(Nothing)
                             ELSE [value |-> Nothing, children |-> level[2][SubArray(a + i - 1)[1]]]]
      <3>. SUFFICES ASSUME Len(dims) = 2
                    PROVE  level[1][a] =
                       [i \in 1..ElementsShown(dims[1]) |->
                             IF SubArray(a + i - 1) = Nothing THEN Leaf(Nothing)
                             ELSE [value |-> Nothing, children |-> level[2][SubArray(a + i - 1)[1]]]]
        OBVIOUS
      <3>1. level[1] = step(level)[1]
        BY <2>2
      <3>2. step(level)[1] = [b \in Int |->
                       [i \in 1..ElementsShown(dims[1]) |->
                             IF SubArray(b + i - 1) = Nothing THEN Leaf(Nothing)
                             ELSE [value |-> Nothing, children |-> level[2][SubArray(b + i - 1)[1]]]]]
        OBVIOUS
      <3>. HIDE DEF step
      <3>. QED
        BY <3>1, <3>2
    <2>7. \A i \in 1..ElementsShown(dims[1]) : a + i - 1 \in Int
      OBVIOUS
    <2>. QED
      BY <2>3, <2>4, <2>5, <2>6, <2>7
  <1>. QED
    BY <1>3

(* The beginning of a path.                                                *)
LEMMA Cut ==
    ASSUME NEW path \in Seq(Nat), NEW k \in 0..Len(path)
    PROVE  /\ SubSeq(path, 1, k) \in Seq(Nat) /\ Len(SubSeq(path, 1, k)) = k
           /\ \A i \in 1..k : SubSeq(path, 1, k)[i] = path[i]
  OBVIOUS

(* update_path, written out for the depths there are.                      *)
LEMMA UpdatedAt ==
    ASSUME NEW node, NEW path \in Seq(Nat), NEW v,
           NEW one, one = Child(<<node>>, path[1]), NEW two, two = Child(one, path[2])
    PROVE  /\ Len(path) = 0 => Updated(node, path, v) = Valued(node, v)
           /\ Len(path) = 1 => Updated(node, path, v) =
                  IF one = Nothing THEN node ELSE Grafted(node, path[1], Valued(one[1], v))
           /\ Len(path) = 2 => Updated(node, path, v) =
                  IF two = Nothing THEN node
                  ELSE Grafted(node, path[1], Grafted(one[1], path[2], Valued(two[1], v)))
  <1>. DEFINE to(k) == Descend(node, SubSeq(path, 1, k))
              step(f) == [k \in 0..Len(path) |->
                  IF k = Len(path) THEN Valued(to(k)[1], v)
                  ELSE Grafted(to(k)[1], path[k + 1], f[k + 1])]
              new == CHOOSE f : f = step(f)
              deep == Valued(to(Len(path))[1], v)
              mid == IF Len(path) = 1 THEN deep ELSE Grafted(to(1)[1], path[2], deep)
              w == [k \in 0..Len(path) |->
                      IF k = Len(path) THEN deep
                      ELSE IF k = 1 THEN mid
                      ELSE Grafted(to(0)[1], path[1], mid)]
  <1>1. ASSUME w = step(w)
        PROVE  new = step(new)
    BY <1>1, Zenon
  <1>2. Updated(node, path, v) = IF to(Len(path)) = Nothing THEN node ELSE new[0]
    BY DEF Updated
  <1>. HIDE DEF new
  <1>3. <<node>> # Nothing /\ <<node>>[1] = node
    BY DEF Nothing
  <1>4. ASSUME NEW k \in 0..2, k <= Len(path)
        PROVE  to(k) = IF k = 0 THEN <<node>> ELSE IF k = 1 THEN one ELSE two
    <2>. DEFINE q == SubSeq(path, 1, k)
    <2>1. q \in Seq(Nat) /\ Len(q) = k /\ \A i \in 1..k : q[i] = path[i]
      BY Cut, <1>4
    <2>. HIDE DEF q
    <2>2. /\ Len(q) = 0 => Descend(node, q) = <<node>>
          /\ Len(q) = 1 => Descend(node, q) = Child(<<node>>, q[1])
          /\ Len(q) = 2 => Descend(node, q) = Child(Child(<<node>>, q[1]), q[2])
      BY DescendAt, <2>1
    <2>3. k \in {0, 1, 2}
      OBVIOUS
    <2>4. Descend(node, q) = IF k = 0 THEN <<node>> ELSE IF k = 1 THEN one ELSE two
      BY <2>1, <2>2, <2>3
    <2>. QED
      BY <2>4 DEF q
  <1>5. CASE Len(path) = 0
    <2>1. w = step(w)
      BY <1>5
    <2>2. new = step(new)
      BY <1>1, <2>1
    <2>3. new[0] = Valued(to(0)[1], v)
      BY <1>5, <2>2
    <2>. HIDE DEF to
    <2>. QED
      BY <1>2, <1>3, <1>4, <1>5, <2>3
  <1>6. CASE Len(path) = 1
    <2>1. w = step(w)
      BY <1>6
    <2>2. new = step(new)
      BY <1>1, <2>1
    <2>3. new[1] = Valued(to(1)[1], v) /\ new[0] = Grafted(to(0)[1], path[1], new[1])
      BY <1>6, <2>2
    <2>. HIDE DEF to
    <2>4. to(1) = one /\ to(0) = <<node>>
      BY <1>4, <1>6
    <2>. QED
      BY <1>2, <1>3, <1>6, <2>3, <2>4
  <1>7. CASE Len(path) = 2
    <2>1. w = step(w)
      <3>1. \A k \in 0..2 : k + 1 \in 1..3 /\ (k = 0 => k + 1 = 1) /\ (k = 1 => k + 1 = 2)
        OBVIOUS
      <3>2. step(w) = [k \in 0..2 |->
                  IF k = 2 THEN Valued(to(k)[1], v)
                  ELSE Grafted(to(k)[1], path[k + 1], w[k + 1])]
        BY <1>7
      <3>3. \A k \in 0..2 : step(w)[k] = w[k]
        <4>1. w[0] = Grafted(to(0)[1], path[1], mid) /\ w[1] = mid /\ w[2] = deep
          BY <1>7
        <4>2. mid = Grafted(to(1)[1], path[2], deep) /\ deep = Valued(to(2)[1], v)
          BY <1>7
        <4>. HIDE DEF w, mid, deep, to
        <4>3. /\ step(w)[0] = Grafted(to(0)[1], path[1], w[1])
              /\ step(w)[1] = Grafted(to(1)[1], path[2], w[2])
              /\ step(w)[2] = Valued(to(2)[1], v)
          <5>. HIDE DEF step
          <5>1. 0 + 1 = 1 /\ 1 + 1 = 2 /\ 0 \in 0..2 /\ 1 \in 0..2 /\ 2 \in 0..2
            OBVIOUS
          <5>. QED
            BY <3>2, <5>1
        <4>4. \A k \in 0..2 : k = 0 \/ k = 1 \/ k = 2
          OBVIOUS
        <4>. HIDE DEF step
        <4>. QED
          BY <4>1, <4>2, <4>3, <4>4
      <3>. QED
        BY <1>7, <3>3
    <2>2. new = step(new)
      BY <1>1, <2>1
    <2>3. /\ new[2] = Valued(to(2)[1], v) /\ new[1] = Grafted(to(1)[1], path[2], new[2])
          /\ new[0] = Grafted(to(0)[1], path[1], new[1])
      <3>1. new = [k \in 0..2 |->
                  IF k = 2 THEN Valued(to(k)[1], v)
                  ELSE Grafted(to(k)[1], path[k + 1], new[k + 1])]
        BY <2>2, <1>7
      <3>. HIDE DEF to
      <3>. QED
        BY <3>1
    <2>. HIDE DEF to
    <2>4. to(2) = two /\ to(1) = one /\ to(0) = <<node>>
      BY <1>4, <1>7
    <2>. QED
      BY <1>2, <1>3, <1>7, <2>3, <2>4
  <1>. QED
    BY <1>5, <1>6, <1>7

(* A value of a cell, or none.                                             *)
CellValues == {Nothing} \union {Whole(i) : i \in Int}

(* The trees of the variables, by the depth of their symbol.               *)
Leaves == [value : CellValues, children : {<<>>}]
Below(n) == [value : CellValues, children : {<<>>} \union [1..n -> Leaves]]
Members(dims) == IF Len(dims) = 1 THEN Leaves ELSE Below(ElementsShown(dims[2]))
Children(dims) == {<<>>} \union
    (IF Len(dims) = 0 THEN {} ELSE [1..ElementsShown(dims[1]) -> Members(dims)])
Tree(sym) == [name : {sym.name}, value : CellValues, text : BOOLEAN, children : Children(sym.dims)]

(* The least of a set of numbers.                                          *)
LEMMA FirstOne ==
    ASSUME NEW S \in SUBSET Nat, S # {}
    PROVE  \E m \in S : Min(S) = m /\ \A k \in S : m <= k
  <1>1. PICK n \in S : TRUE
    OBVIOUS
  <1>. DEFINE R == {ss \in Nat \X Nat : ss[1] < ss[2]}
  <1>2. IsWellFoundedOn(R, Nat)
    BY NatLessThanWellFounded DEF OpToRel
  <1>. HIDE DEF R
  <1>3. \E x \in S : \A y \in S : ~(<<y, x>> \in R)
    BY <1>2, WFMin
  <1>4. \A x, y \in Nat : <<y, x>> \notin R => x <= y
    BY DEF R
  <1>5. \E m \in S : \A k \in S : m <= k
    BY <1>3, <1>4
  <1>6. Min(S) \in S /\ \A k \in S : Min(S) <= k
    BY <1>5 DEF Min
  <1>. QED
    BY <1>6

(* Finding a name gives the first one that has it.                         *)
LEMMA FindFirst ==
    ASSUME NEW list, Len(list) \in Nat, NEW name
    PROVE  LET i == SelectInSeq(list, LAMBDA x : x.name = name)
           IN  \/ i = 0 /\ \A k \in 1..Len(list) : list[k].name # name
               \/ /\ i \in 1..Len(list) /\ list[i].name = name
                  /\ \A k \in 1..Len(list) : k < i => list[k].name # name
  <1>. DEFINE I == {i \in 1..Len(list) : list[i].name = name}
              i == SelectInSeq(list, LAMBDA x : x.name = name)
  <1>1. i = IF I # {} THEN Min(I) ELSE 0
    BY Zenon DEF SelectInSeq
  <1>. HIDE DEF i
  <1>2. I \in SUBSET Nat
    OBVIOUS
  <1>3. I # {} => \E m \in I : Min(I) = m /\ \A k \in I : m <= k
    <2>. HIDE DEF I
    <2>. QED
      BY <1>2, FirstOne
  <1>4. CASE I # {}
    <2>1. PICK m \in I : Min(I) = m /\ \A k \in I : m <= k
      BY <1>3, <1>4
    <2>2. i = m
      BY <1>1, <1>4, <2>1
    <2>3. m \in 1..Len(list) /\ list[m].name = name
      BY <2>1
    <2>4. \A k \in 1..Len(list) : k < m => list[k].name # name
      BY <2>1
    <2>5. i \in 1..Len(list) /\ list[i].name = name /\ \A k \in 1..Len(list) : k < i => list[k].name # name
      BY <2>2, <2>3, <2>4
    <2>. QED
      BY <2>5, Zenon DEF i
  <1>5. CASE I = {}
    <2>1. i = 0
      BY <1>1, <1>5
    <2>2. \A k \in 1..Len(list) : list[k].name # name
      BY <1>5
    <2>. HIDE DEF I
    <2>. QED
      BY <2>1, <2>2, Zenon DEF i
  <1>. QED
    BY <1>4, <1>5

(* At least one element is shown, at most MaxElems and at most those there *)
(* are.                                                                    *)
LEMMA SizesShown ==
    ASSUME NEW size \in Nat
    PROVE  ElementsShown(size) \in 1..MaxElems /\ (size > 0 => ElementsShown(size) <= size)
  BY PanelAssumption DEF ElementsShown

(* The child at an index inside an array, counted from zero, is its        *)
(* element counted from one.                                               *)
LEMMA Inside ==
    ASSUME NEW node, NEW i \in Nat, NEW n \in Nat \ {0}, NEW S,
           node.children \in {<<>>} \union [1..n -> S]
    PROVE  Child(<<node>>, i) = IF node.children # <<>> /\ i < n THEN <<node.children[i + 1]>> ELSE Nothing
  <1>1. <<node>> # Nothing /\ <<node>>[1] = node
    BY DEF Nothing
  <1>2. DOMAIN <<>> = {}
    OBVIOUS
  <1>3. node.children # <<>> => DOMAIN node.children = 1..n
    OBVIOUS
  <1>. QED
    BY <1>1, <1>2, <1>3 DEF Child

(* What has not been found has no child.                                   *)
LEMMA ChildOfNothing == ASSUME NEW i PROVE Child(Nothing, i) = Nothing
  BY DEF Child

(* The length and the parts of a path.                                     *)
LEMMA Parts ==
    ASSUME NEW s \in Seq(Nat)
    PROVE  /\ Len(s) \in Nat
           /\ Len(s) <= 2 => Len(s) = 0 \/ Len(s) = 1 \/ Len(s) = 2
           /\ Len(s) = 1 => s[1] \in Nat
           /\ Len(s) = 2 => s[1] \in Nat /\ s[2] \in Nat
  <1>1. Len(s) \in Nat /\ s \in [1..Len(s) -> Nat]
    OBVIOUS
  <1>. DEFINE n == Len(s)
  <1>2. n \in Nat /\ s \in [1..n -> Nat]
    BY <1>1
  <1>. HIDE DEF n
  <1>3. n <= 2 => n = 0 \/ n = 1 \/ n = 2
    BY <1>2
  <1>4. n = 1 => s[1] \in Nat
    <2>1. 1 \in 1..1
      OBVIOUS
    <2>. QED
      BY <1>2, <2>1
  <1>5. n = 2 => s[1] \in Nat /\ s[2] \in Nat
    <2>1. 1 \in 1..2 /\ 2 \in 1..2
      OBVIOUS
    <2>. QED
      BY <1>2, <2>1
  <1>. QED
    BY <1>2, <1>3, <1>4, <1>5 DEF n

(* The dimensions of a symbol, and what is shown of each.                  *)
LEMMA SymbolDims ==
    ASSUME NEW sym \in Symbols
    PROVE  /\ sym.dims \in Seq(Nat)
           /\ Len(sym.dims) = 0 \/ Len(sym.dims) = 1 \/ Len(sym.dims) = 2
           /\ sym.addr \in Int /\ sym.ref \in BOOLEAN
           /\ Len(sym.dims) # 0 =>
                 /\ sym.dims[1] \in Nat /\ ElementsShown(sym.dims[1]) \in Nat \ {0}
                 /\ ElementsShown(sym.dims[1]) <= MaxElems
                 /\ sym.dims[1] > 0 => ElementsShown(sym.dims[1]) <= sym.dims[1]
           /\ Len(sym.dims) = 2 =>
                 /\ sym.dims[2] \in Nat /\ ElementsShown(sym.dims[2]) \in Nat \ {0}
                 /\ ElementsShown(sym.dims[2]) <= MaxElems
                 /\ sym.dims[2] > 0 => ElementsShown(sym.dims[2]) <= sym.dims[2]
  <1>1. sym.dims \in {d \in Seq(Nat) : Len(d) <= 2} /\ sym.addr \in Int /\ sym.ref \in BOOLEAN
    BY DEF Symbols
  <1>. DEFINE d == sym.dims
  <1>2. d \in Seq(Nat) /\ Len(d) <= 2
    BY <1>1
  <1>. HIDE DEF d
  <1>3. /\ Len(d) = 0 \/ Len(d) = 1 \/ Len(d) = 2
        /\ Len(d) # 0 => d[1] \in Nat
        /\ Len(d) = 2 => d[2] \in Nat
    BY <1>2, Parts
  <1>4. /\ d \in Seq(Nat)
        /\ Len(d) = 0 \/ Len(d) = 1 \/ Len(d) = 2
        /\ Len(d) # 0 =>
                 /\ d[1] \in Nat /\ ElementsShown(d[1]) \in Nat \ {0}
                 /\ ElementsShown(d[1]) <= MaxElems
                 /\ d[1] > 0 => ElementsShown(d[1]) <= d[1]
        /\ Len(d) = 2 =>
                 /\ d[2] \in Nat /\ ElementsShown(d[2]) \in Nat \ {0}
                 /\ ElementsShown(d[2]) <= MaxElems
                 /\ d[2] > 0 => ElementsShown(d[2]) <= d[2]
    <2>. DEFINE Good(size) == /\ size \in Nat /\ ElementsShown(size) \in Nat \ {0}
                              /\ ElementsShown(size) <= MaxElems
                              /\ size > 0 => ElementsShown(size) <= size
    <2>1. \A size \in Nat : Good(size)
      <3>1. ASSUME NEW size \in Nat
            PROVE  Good(size)
        BY <3>1, SizesShown, PanelAssumption
      <3>. QED
        BY <3>1
    <2>. HIDE DEF Good
    <2>2. (Len(d) # 0 => Good(d[1])) /\ (Len(d) = 2 => Good(d[2]))
      BY <1>3, <2>1
    <2>. QED
      BY <1>2, <1>3, <2>2, Zenon DEF Good
  <1>. QED
    BY <1>1, <1>4, Zenon DEF d

(* What is below the root of a variable.                                   *)
LEMMA TopOf ==
    ASSUME NEW sym \in Symbols, NEW t \in Tree(sym), NEW i \in Nat
    PROVE  /\ Len(sym.dims) = 0 => Child(<<t>>, i) = Nothing
           /\ Len(sym.dims) # 0 =>
                 Child(<<t>>, i) = IF t.children # <<>> /\ i < ElementsShown(sym.dims[1])
                                   THEN <<t.children[i + 1]>> ELSE Nothing
           /\ t.children # <<>> => t.children \in [1..ElementsShown(sym.dims[1]) -> Members(sym.dims)]
           /\ t.value \in CellValues
  <1>1. t.children \in Children(sym.dims) /\ t.value \in CellValues
    BY DEF Tree
  <1>2. Len(sym.dims) = 0 => t.children \in {<<>>} \union [1..1 -> Leaves] /\ t.children = <<>>
    BY <1>1 DEF Children
  <1>3. Len(sym.dims) = 0 => Child(<<t>>, i) = Nothing
    <2>1. 1 \in Nat \ {0}
      OBVIOUS
    <2>. QED
      BY <1>2, <2>1, Inside
  <1>4. Len(sym.dims) # 0 =>
            t.children \in {<<>>} \union [1..ElementsShown(sym.dims[1]) -> Members(sym.dims)]
    BY <1>1 DEF Children
  <1>5. Len(sym.dims) # 0 => ElementsShown(sym.dims[1]) \in Nat \ {0}
    BY SymbolDims
  <1>. QED
    BY <1>1, <1>2, <1>3, <1>4, <1>5, Inside

(* What is below an element of it.                                         *)
LEMMA LowOf ==
    ASSUME NEW sym \in Symbols, NEW n \in Members(sym.dims), NEW j \in Nat
    PROVE  /\ n.value \in CellValues
           /\ Len(sym.dims) = 1 => n \in Leaves /\ n.children = <<>> /\ Child(<<n>>, j) = Nothing
           /\ Len(sym.dims) = 2 =>
                /\ n \in Below(ElementsShown(sym.dims[2]))
                /\ Child(<<n>>, j) = IF n.children # <<>> /\ j < ElementsShown(sym.dims[2])
                                     THEN <<n.children[j + 1]>> ELSE Nothing
                /\ n.children # <<>> => n.children \in [1..ElementsShown(sym.dims[2]) -> Leaves]
  <1>1. n.value \in CellValues
    BY DEF Members, Below, Leaves
  <1>2. Len(sym.dims) = 1 => n \in Leaves /\ n.children \in {<<>>} \union [1..1 -> Leaves] /\ n.children = <<>>
    BY DEF Members, Leaves
  <1>3. Len(sym.dims) = 2 => n \in Below(ElementsShown(sym.dims[2]))
    BY DEF Members
  <1>4. Len(sym.dims) = 2 => n.children \in {<<>>} \union [1..ElementsShown(sym.dims[2]) -> Leaves]
    BY <1>3 DEF Below
  <1>5. Len(sym.dims) = 2 => ElementsShown(sym.dims[2]) \in Nat \ {0}
    BY SymbolDims
  <1>6. Len(sym.dims) = 1 => Child(<<n>>, j) = Nothing
    <2>1. 1 \in Nat \ {0}
      OBVIOUS
    <2>. QED
      BY <1>2, <2>1, Inside
  <1>. QED
    BY <1>1, <1>2, <1>3, <1>4, <1>5, <1>6, Inside

(* A cell that a path of full length finds is inside what is shown, and    *)
(* below nodes that were built.                                            *)
LEMMA TreeNode ==
    ASSUME NEW sym \in Symbols, NEW t \in Tree(sym), NEW path \in Seq(Nat), Len(path) = Len(sym.dims),
           Descend(t, path) # Nothing
    PROVE  /\ Len(path) = 0 => Descend(t, path) = <<t>>
           /\ Len(path) # 0 => /\ path[1] \in 0..(ElementsShown(sym.dims[1]) - 1)
                               /\ t.children # <<>>
                               /\ t.children[path[1] + 1] \in Members(sym.dims)
           /\ Len(path) = 1 => Descend(t, path) = <<t.children[path[1] + 1]>>
           /\ Len(path) = 2 => /\ path[2] \in 0..(ElementsShown(sym.dims[2]) - 1)
                               /\ t.children[path[1] + 1].children # <<>>
                               /\ Descend(t, path) = <<t.children[path[1] + 1].children[path[2] + 1]>>
  <1>1. Len(path) = 0 \/ Len(path) = 1 \/ Len(path) = 2
    BY SymbolDims
  <1>2. CASE Len(path) = 0
    <2>1. Descend(t, path) = <<t>>
      BY <1>2, DescendAt
    <2>. QED
      BY <1>2, <2>1
  <1>. DEFINE i == path[1]
              n == t.children[i + 1]
  <1>3. CASE Len(path) = 1
    <2>1. i \in Nat
      BY <1>3, Parts
    <2>2. Descend(t, path) = Child(<<t>>, i)
      BY <1>3, DescendAt
    <2>3. Child(<<t>>, i) = IF t.children # <<>> /\ i < ElementsShown(sym.dims[1]) THEN <<n>> ELSE Nothing
      <3>1. Len(sym.dims) # 0
        BY <1>3
      <3>. HIDE DEF i
      <3>. QED
        BY <2>1, <3>1, TopOf
    <2>4. t.children # <<>> /\ i < ElementsShown(sym.dims[1]) /\ Descend(t, path) = <<n>>
      BY <2>2, <2>3
    <2>5. Len(sym.dims) # 0
      BY <1>3
    <2>6. ElementsShown(sym.dims[1]) \in Nat
      BY <2>5, SymbolDims
    <2>7. i \in 0..(ElementsShown(sym.dims[1]) - 1) /\ i + 1 \in 1..ElementsShown(sym.dims[1])
      <3>. HIDE DEF i
      <3>. QED
        BY <2>1, <2>4, <2>6
    <2>8. t.children \in [1..ElementsShown(sym.dims[1]) -> Members(sym.dims)]
      BY <2>4, TopOf
    <2>9. n \in Members(sym.dims)
      BY <2>7, <2>8
    <2>. HIDE DEF n
    <2>10. Len(path) # 0 /\ Len(path) # 2
      BY <1>3
    <2>. QED
      BY <1>3, <2>4, <2>7, <2>9, <2>10 DEF n
  <1>4. CASE Len(path) = 2
    <2>. DEFINE j == path[2]
    <2>1. i \in Nat /\ j \in Nat
      BY <1>4, Parts
    <2>2. Descend(t, path) = Child(Child(<<t>>, i), j)
      BY <1>4, DescendAt
    <2>3. Child(<<t>>, i) = IF t.children # <<>> /\ i < ElementsShown(sym.dims[1]) THEN <<n>> ELSE Nothing
      <3>1. Len(sym.dims) # 0
        BY <1>4
      <3>. HIDE DEF i
      <3>. QED
        BY <2>1, <3>1, TopOf
    <2>4. t.children # <<>> /\ i < ElementsShown(sym.dims[1]) /\ Descend(t, path) = Child(<<n>>, j)
      BY <2>2, <2>3, ChildOfNothing
    <2>5. Len(sym.dims) # 0 /\ Len(sym.dims) = 2
      BY <1>4
    <2>6. ElementsShown(sym.dims[1]) \in Nat /\ ElementsShown(sym.dims[2]) \in Nat
      BY <2>5, SymbolDims
    <2>7. i \in 0..(ElementsShown(sym.dims[1]) - 1) /\ i + 1 \in 1..ElementsShown(sym.dims[1])
      <3>. HIDE DEF i
      <3>. QED
        BY <2>1, <2>4, <2>6
    <2>8. t.children \in [1..ElementsShown(sym.dims[1]) -> Members(sym.dims)]
      BY <2>4, TopOf
    <2>9. n \in Members(sym.dims)
      BY <2>7, <2>8
    <2>10. Child(<<n>>, j) = IF n.children # <<>> /\ j < ElementsShown(sym.dims[2])
                                      THEN <<n.children[j + 1]>> ELSE Nothing
      <3>1. Len(sym.dims) = 2
        BY <1>4
      <3>. HIDE DEF n, j
      <3>. QED
        BY <3>1, <2>1, <2>9, LowOf
    <2>11. j \in 0..(ElementsShown(sym.dims[2]) - 1)
      <3>. HIDE DEF n, j
      <3>. QED
        BY <2>1, <2>4, <2>6, <2>10
    <2>. QED
      BY <1>4, <2>4, <2>7, <2>9, <2>10, <2>11
  <1>. QED
    BY <1>1, <1>2, <1>3, <1>4

(* Changing a value keeps the kind of a node.                              *)
LEMMA ValuedTree ==
    ASSUME NEW sym \in Symbols, NEW v \in Int
    PROVE  /\ \A t \in Tree(sym) : /\ Valued(t, v) \in Tree(sym) /\ Valued(t, v).value = Whole(v)
                                   /\ Valued(t, v).children = t.children
           /\ \A n \in Members(sym.dims) :
                 /\ Valued(n, v) \in Members(sym.dims) /\ Valued(n, v).value = Whole(v)
                 /\ Valued(n, v).children = n.children
           /\ \A n \in Leaves : /\ Valued(n, v) \in Leaves /\ Valued(n, v).value = Whole(v)
  <1>1. Whole(v) \in CellValues
    BY DEF CellValues
  <1>2. ASSUME NEW t \in Tree(sym)
        PROVE  /\ Valued(t, v) \in Tree(sym) /\ Valued(t, v).value = Whole(v)
               /\ Valued(t, v).children = t.children
    BY <1>1 DEF Valued, Tree
  <1>3. ASSUME NEW n \in Leaves
        PROVE  /\ Valued(n, v) \in Leaves /\ Valued(n, v).value = Whole(v)
               /\ Valued(n, v).children = n.children
    BY <1>1 DEF Valued, Leaves
  <1>4. ASSUME NEW n, NEW k, n \in Below(k)
        PROVE  /\ Valued(n, v) \in Below(k) /\ Valued(n, v).value = Whole(v)
               /\ Valued(n, v).children = n.children
    BY <1>1, <1>4 DEF Valued, Below
  <1>. QED
    BY <1>2, <1>3, <1>4 DEF Members

(* Replacing an element of a variable changes that element and no other.   *)
LEMMA GraftedTop ==
    ASSUME NEW sym \in Symbols, NEW t \in Tree(sym), Len(sym.dims) # 0, t.children # <<>>,
           NEW i \in Nat, i < ElementsShown(sym.dims[1]), NEW c \in Members(sym.dims)
    PROVE  /\ Grafted(t, i, c) \in Tree(sym)
           /\ Grafted(t, i, c).children # <<>>
           /\ \A k \in Nat : k < ElementsShown(sym.dims[1]) =>
                 Grafted(t, i, c).children[k + 1] = IF k = i THEN c ELSE t.children[k + 1]
  <1>. DEFINE n == ElementsShown(sym.dims[1])
              M == Members(sym.dims)
              f == [t.children EXCEPT ![i + 1] = c]
  <1>1. n \in Nat \ {0}
    BY SymbolDims
  <1>2. t.children \in [1..n -> M]
    BY TopOf
  <1>. HIDE DEF n, M
  <1>3. f \in [1..n -> M] /\ f # <<>>
    <2>1. f \in [1..n -> M]
      BY <1>1, <1>2 DEF M
    <2>2. DOMAIN f = 1..n /\ DOMAIN <<>> = {} /\ 1 \in 1..n
      BY <1>1, <1>2
    <2>. QED
      BY <2>1, <2>2
  <1>4. ASSUME NEW k \in Nat, k < n
        PROVE  f[k + 1] = IF k = i THEN c ELSE t.children[k + 1]
    <2>1. k + 1 \in 1..n /\ (k + 1 = i + 1 <=> k = i)
      BY <1>1, <1>4
    <2>. QED
      BY <1>2, <2>1
  <1>5. f \in Children(sym.dims)
    BY <1>3 DEF Children, n, M
  <1>. HIDE DEF f
  <1>6. Grafted(t, i, c) = [t EXCEPT !.children = f]
    BY DEF Grafted, f
  <1>7. [t EXCEPT !.children = f] \in Tree(sym) /\ [t EXCEPT !.children = f].children = f
    BY <1>5 DEF Tree
  <1>. QED
    BY <1>3, <1>4, <1>6, <1>7 DEF n

(* Replacing an element of a row changes that element and no other.        *)
LEMMA GraftedLow ==
    ASSUME NEW n \in Nat \ {0}, NEW r \in Below(n), r.children # <<>>,
           NEW i \in Nat, i < n, NEW c \in Leaves
    PROVE  /\ Grafted(r, i, c) \in Below(n)
           /\ Grafted(r, i, c).children # <<>>
           /\ \A k \in Nat : k < n => Grafted(r, i, c).children[k + 1] = IF k = i THEN c ELSE r.children[k + 1]
  <1>. DEFINE f == [r.children EXCEPT ![i + 1] = c]
  <1>1. r.children \in [1..n -> Leaves]
    BY DEF Below
  <1>2. f \in [1..n -> Leaves] /\ f # <<>>
    <2>1. f \in [1..n -> Leaves]
      BY <1>1
    <2>2. DOMAIN f = 1..n /\ DOMAIN <<>> = {} /\ 1 \in 1..n
      BY <1>1
    <2>. QED
      BY <2>1, <2>2
  <1>3. ASSUME NEW k \in Nat, k < n
        PROVE  f[k + 1] = IF k = i THEN c ELSE r.children[k + 1]
    <2>1. k + 1 \in 1..n /\ (k + 1 = i + 1 <=> k = i)
      BY <1>3
    <2>. QED
      BY <1>1, <2>1
  <1>. HIDE DEF f
  <1>4. Grafted(r, i, c) = [r EXCEPT !.children = f]
    BY DEF Grafted, f
  <1>5. [r EXCEPT !.children = f] \in Below(n) /\ [r EXCEPT !.children = f].children = f
    BY <1>2 DEF Below
  <1>. QED
    BY <1>2, <1>3, <1>4, <1>5

(* And a cell inside what was built is found.                              *)
LEMMA TreeReach ==
    ASSUME NEW sym \in Symbols, NEW t \in Tree(sym), NEW path \in Seq(Nat), Len(path) = Len(sym.dims)
    PROVE  /\ Len(path) = 0 => Descend(t, path) = <<t>>
           /\ Len(path) = 1 /\ t.children # <<>> /\ path[1] < ElementsShown(sym.dims[1]) =>
                 Descend(t, path) = <<t.children[path[1] + 1]>>
           /\ Len(path) = 2 /\ t.children # <<>> /\ path[1] < ElementsShown(sym.dims[1])
                 /\ t.children[path[1] + 1].children # <<>> /\ path[2] < ElementsShown(sym.dims[2]) =>
                 Descend(t, path) = <<t.children[path[1] + 1].children[path[2] + 1]>>
  <1>1. Len(path) = 0 => Descend(t, path) = <<t>>
    BY DescendAt
  <1>. DEFINE i == path[1]
              n == t.children[i + 1]
              j == path[2]
  <1>2. ASSUME Len(path) # 0, t.children # <<>>, i < ElementsShown(sym.dims[1]), i \in Nat
        PROVE  Child(<<t>>, i) = <<n>> /\ n \in Members(sym.dims)
    <2>1. Len(sym.dims) # 0 /\ ElementsShown(sym.dims[1]) \in Nat
      BY <1>2, SymbolDims
    <2>2. t.children \in [1..ElementsShown(sym.dims[1]) -> Members(sym.dims)]
      BY <1>2, TopOf
    <2>3. Child(<<t>>, i) = IF t.children # <<>> /\ i < ElementsShown(sym.dims[1]) THEN <<n>> ELSE Nothing
      <3>. HIDE DEF i
      <3>. QED
        BY <1>2, <2>1, TopOf
    <2>4. i + 1 \in 1..ElementsShown(sym.dims[1])
      <3>. HIDE DEF i
      <3>. QED
        BY <1>2, <2>1
    <2>. QED
      BY <1>2, <2>2, <2>3, <2>4
  <1>3. CASE Len(path) = 1
    <2>1. i \in Nat /\ Len(path) # 0 /\ Len(path) # 2
      BY <1>3, Parts
    <2>2. Descend(t, path) = Child(<<t>>, i)
      BY <1>3, DescendAt
    <2>. HIDE DEF i, n
    <2>3. t.children # <<>> /\ i < ElementsShown(sym.dims[1]) => Descend(t, path) = <<n>>
      BY <1>2, <2>1, <2>2
    <2>. QED
      BY <1>3, <2>1, <2>3 DEF i, n
  <1>4. CASE Len(path) = 2
    <2>1. i \in Nat /\ j \in Nat /\ Len(path) # 0 /\ Len(path) # 1
      BY <1>4, Parts
    <2>2. Descend(t, path) = Child(Child(<<t>>, i), j)
      BY <1>4, DescendAt
    <2>. HIDE DEF i, n, j
    <2>3. t.children # <<>> /\ i < ElementsShown(sym.dims[1]) =>
             Descend(t, path) = Child(<<n>>, j) /\ n \in Members(sym.dims)
      BY <1>2, <2>1, <2>2
    <2>4. n \in Members(sym.dims) =>
             Child(<<n>>, j) = IF n.children # <<>> /\ j < ElementsShown(sym.dims[2])
                                     THEN <<n.children[j + 1]>> ELSE Nothing
      <3>1. Len(sym.dims) = 2
        BY <1>4
      <3>. QED
        BY <3>1, <2>1, LowOf
    <2>. QED
      BY <1>4, <2>1, <2>3, <2>4 DEF i, n, j
  <1>5. Len(path) = 0 \/ Len(path) = 1 \/ Len(path) = 2
    BY SymbolDims
  <1>6. Len(path) = 0 => Len(path) # 1 /\ Len(path) # 2
    OBVIOUS
  <1>. QED
    BY <1>1, <1>3, <1>4, <1>5, <1>6

(* Two paths, compared part by part.                                       *)
SamePath(p, q) == /\ Len(p) = Len(q)
                  /\ Len(p) # 0 => p[1] = q[1]
                  /\ Len(p) = 2 => p[2] = q[2]

(* Paths of the depths there are are one when their parts are.             *)
LEMMA SameShort ==
    ASSUME NEW p \in Seq(Nat), NEW q \in Seq(Nat), Len(p) <= 2
    PROVE  SamePath(p, q) <=> p = q
  <1>1. p \in [1..Len(p) -> Nat] /\ q \in [1..Len(q) -> Nat] /\ Len(p) \in Nat /\ Len(q) \in Nat
    OBVIOUS
  <1>. DEFINE n == Len(p)
  <1>2. \A k \in 1..n : n <= 2 => (k = 1 /\ n # 0) \/ (k = 2 /\ n = 2)
    <2>1. n \in Nat
      BY <1>1
    <2>. HIDE DEF n
    <2>. QED
      BY <2>1
  <1>3. SamePath(p, q) => p = q
    <2>. SUFFICES ASSUME SamePath(p, q) PROVE p = q
      OBVIOUS
    <2>1. Len(q) = n
      BY DEF SamePath
    <2>2. \A k \in 1..n : p[k] = q[k]
      BY <1>2 DEF SamePath
    <2>3. p \in [1..n -> Nat] /\ q \in [1..n -> Nat]
      BY <1>1, <2>1
    <2>. HIDE DEF n
    <2>4. p = [k \in 1..n |-> p[k]] /\ q = [k \in 1..n |-> q[k]]
      BY <2>3
    <2>. QED
      BY <2>2, <2>4
  <1>4. p = q => SamePath(p, q)
    BY DEF SamePath
  <1>. QED
    BY <1>3, <1>4

(* A tree after an edit: the edited cell has the new value, every other    *)
(* has the one it had, and no cell is new.                                 *)
Kept(sym, t, u, path, v) ==
    \A q \in Seq(Nat) : Len(q) = Len(sym.dims) /\ Descend(u, q) # Nothing =>
        /\ Descend(t, q) # Nothing
        /\ Descend(u, q)[1].value = IF SamePath(q, path) THEN Whole(v) ELSE Descend(t, q)[1].value

(* update_path changes the cell at its path and no other.                  *)
LEMMA UpdatedTree ==
    ASSUME NEW sym \in Symbols, NEW t \in Tree(sym), NEW path \in Seq(Nat), Len(path) <= 2, NEW v \in Int,
           Descend(t, path) # Nothing
    PROVE  Updated(t, path, v) \in Tree(sym) /\ Kept(sym, t, Updated(t, path, v), path, v)
  <1>. DEFINE u == Updated(t, path, v)
              i == path[1]
              j == path[2]
              n == t.children[i + 1]
              E1 == ElementsShown(sym.dims[1])
              E2 == ElementsShown(sym.dims[2])
              L == Len(sym.dims)
              P == Len(path)
  <1>. USE DEF Nothing
  <1>1. /\ L = 0 \/ L = 1 \/ L = 2
        /\ P = 0 \/ P = 1 \/ P = 2
        /\ P # 0 => i \in Nat
        /\ P = 2 => j \in Nat
        /\ L # 0 => E1 \in Nat \ {0}
        /\ L = 2 => E2 \in Nat \ {0}
    <2>1. /\ P = 0 \/ P = 1 \/ P = 2
          /\ P # 0 => i \in Nat
          /\ P = 2 => j \in Nat
      BY Parts
    <2>2. L = 0 \/ L = 1 \/ L = 2
      BY SymbolDims
    <2>3. (L # 0 => E1 \in Nat \ {0}) /\ (L = 2 => E2 \in Nat \ {0})
      BY SymbolDims
    <2>. QED
      BY <2>1, <2>2, <2>3
  <1>2. SUFFICES ASSUME TRUE PROVE u \in Tree(sym) /\ Kept(sym, t, u, path, v)
    OBVIOUS
  <1>3. CASE P = 0
    <2>1. u = Valued(t, v)
      <3>. DEFINE one == Child(<<t>>, path[1])
                  two == Child(one, path[2])
      <3>1. one = Child(<<t>>, path[1]) /\ two = Child(one, path[2])
        OBVIOUS
      <3>. HIDE DEF one, two
      <3>2. Len(path) = 0 => Updated(t, path, v) = Valued(t, v)
        BY <3>1, UpdatedAt
      <3>. QED
        BY <1>3, <3>2
    <2>2. u \in Tree(sym) /\ u.value = Whole(v) /\ u.children = t.children
      BY <2>1, ValuedTree
    <2>. HIDE DEF u
    <2>3. ASSUME NEW q \in Seq(Nat), Len(q) = L, Descend(u, q) # Nothing
          PROVE  /\ Descend(t, q) # Nothing
                 /\ Descend(u, q)[1].value = IF SamePath(q, path) THEN Whole(v) ELSE Descend(t, q)[1].value
      <3>1. CASE L = 0
        <4>1. Len(q) = 0 /\ Len(path) = 0 /\ Len(q) # 2
          BY <2>3, <3>1, <1>3
        <4>2. Descend(u, q) = <<u>> /\ Descend(t, q) = <<t>>
          BY <4>1, DescendAt
        <4>3. SamePath(q, path)
          BY <4>1 DEF SamePath
        <4>. QED
          BY <4>2, <4>3, <2>2
      <3>2. CASE L # 0
        <4>1. Descend(u, q) = Descend(t, q)
          <5>1. Child(<<u>>, q[1]) = Child(<<t>>, q[1])
            BY <2>2 DEF Child
          <5>2. Len(q) = 1 \/ Len(q) = 2
            BY <1>1, <2>3, <3>2
          <5>. QED
            BY <5>1, <5>2, DescendAt
        <4>2. ~SamePath(q, path)
          BY <1>3, <2>3, <3>2 DEF SamePath
        <4>. QED
          BY <2>3, <4>1, <4>2
      <3>. QED
        BY <3>1, <3>2
    <2>. QED
      BY <2>2, <2>3 DEF Kept
  <1>4. ASSUME P # 0
        PROVE  /\ L # 0 /\ t.children # <<>> /\ i < E1 /\ Child(<<t>>, i) = <<n>> /\ n \in Members(sym.dims)
    <2>1. i \in Nat
      BY <1>1, <1>4
    <2>2. Child(<<t>>, i) # Nothing
      <3>1. P = 1 => Descend(t, path) = Child(<<t>>, i)
        BY DescendAt
      <3>2. P = 2 => Descend(t, path) = Child(Child(<<t>>, i), j)
        BY DescendAt
      <3>. QED
        BY <1>1, <1>4, <3>1, <3>2, ChildOfNothing
    <2>3. L # 0
      <3>1. Len(sym.dims) = 0 => Child(<<t>>, i) = Nothing
        BY <2>1, TopOf
      <3>. QED
        BY <2>2, <3>1
    <2>4. Child(<<t>>, i) = IF t.children # <<>> /\ i < E1 THEN <<n>> ELSE Nothing
      <3>. HIDE DEF i
      <3>. QED
        BY <2>1, <2>3, TopOf
    <2>5. t.children # <<>> /\ i < E1 /\ Child(<<t>>, i) = <<n>>
      BY <2>2, <2>4
    <2>6. t.children \in [1..E1 -> Members(sym.dims)]
      BY <2>5, TopOf
    <2>7. i + 1 \in 1..E1
      <3>. HIDE DEF i, E1
      <3>. QED
        BY <1>1, <2>1, <2>3, <2>5
    <2>. QED
      BY <2>3, <2>5, <2>6, <2>7
  <1>5. CASE P = 1
    <2>. DEFINE c == Valued(n, v)
    <2>1. /\ L # 0 /\ t.children # <<>> /\ i < E1 /\ Child(<<t>>, i) = <<n>> /\ n \in Members(sym.dims)
          /\ i \in Nat
      BY <1>1, <1>4, <1>5
    <2>2. u = Grafted(t, i, c)
      <3>. DEFINE one == Child(<<t>>, path[1])
                  two == Child(one, path[2])
      <3>1. one = Child(<<t>>, path[1]) /\ two = Child(one, path[2]) /\ one = <<n>>
        BY <2>1
      <3>. HIDE DEF one, two, n
      <3>2. Len(path) = 1 => Updated(t, path, v) =
                  IF one = Nothing THEN t ELSE Grafted(t, path[1], Valued(one[1], v))
        BY <3>1, UpdatedAt
      <3>3. one # Nothing /\ one[1] = n
        BY <3>1
      <3>. QED
        BY <1>5, <3>2, <3>3
    <2>3. c \in Members(sym.dims) /\ c.value = Whole(v) /\ c.children = n.children
      BY <2>1, ValuedTree
    <2>. HIDE DEF c
    <2>4. /\ u \in Tree(sym)
          /\ \A k \in Nat : k < E1 => u.children[k + 1] = IF k = i THEN c ELSE t.children[k + 1]
      <3>. HIDE DEF i, u, n
      <3>. QED
        BY <2>1, <2>2, <2>3, GraftedTop
    <2>. HIDE DEF u
    <2>5. ASSUME NEW q \in Seq(Nat), Len(q) = L, Descend(u, q) # Nothing
          PROVE  /\ Descend(t, q) # Nothing
                 /\ Descend(u, q)[1].value = IF SamePath(q, path) THEN Whole(v) ELSE Descend(t, q)[1].value
      <3>1. Len(q) # 0 /\ Len(q) = Len(sym.dims) /\ q[1] \in Nat /\ q[1] < E1 /\ Len(path) = 1
        <4>1. Len(q) = Len(sym.dims) /\ Len(q) # 0
          BY <2>1, <2>5
        <4>2. q[1] \in 0..(E1 - 1)
          BY <2>4, <2>5, <4>1, TreeNode
        <4>3. q[1] \in Nat /\ q[1] < E1
          <5>. HIDE DEF E1
          <5>. QED
            BY <4>2, <1>1, <2>1
        <4>. QED
          BY <1>5, <4>1, <4>3
      <3>2. u.children[q[1] + 1] = IF q[1] = i THEN c ELSE t.children[q[1] + 1]
        BY <2>4, <3>1
      <3>3. CASE L = 1
        <4>1. Len(q) = 1 /\ Len(q) = Len(sym.dims)
          BY <2>5, <3>3
        <4>2. Descend(u, q) = <<u.children[q[1] + 1]>>
          BY <2>4, <2>5, <4>1, TreeNode
        <4>3. Descend(t, q) = <<t.children[q[1] + 1]>>
          BY <2>1, <3>1, <4>1, TreeReach
        <4>4. SamePath(q, path) <=> q[1] = i
          BY <4>1, <1>5 DEF SamePath
        <4>. HIDE DEF i, n
        <4>5. q[1] = i => t.children[q[1] + 1] = n
          BY DEF n
        <4>. QED
          BY <2>3, <3>2, <4>2, <4>3, <4>4
      <3>4. CASE L = 2
        <4>1. Len(q) = 2 /\ Len(q) = Len(sym.dims)
          BY <2>5, <3>4
        <4>2. /\ q[2] \in 0..(E2 - 1)
              /\ u.children[q[1] + 1].children # <<>>
              /\ Descend(u, q) = <<u.children[q[1] + 1].children[q[2] + 1]>>
          BY <2>4, <2>5, <4>1, TreeNode
        <4>3. u.children[q[1] + 1].children = t.children[q[1] + 1].children
          BY <2>3, <3>2
        <4>4. q[2] < E2
          <5>. HIDE DEF E2
          <5>. QED
            BY <1>1, <3>4, <4>2
        <4>5. Descend(t, q) = <<t.children[q[1] + 1].children[q[2] + 1]>>
          BY <2>1, <3>1, <4>1, <4>2, <4>3, <4>4, TreeReach
        <4>6. ~SamePath(q, path)
          BY <4>1, <1>5 DEF SamePath
        <4>. QED
          BY <4>2, <4>3, <4>5, <4>6
      <3>. QED
        BY <1>1, <2>1, <3>3, <3>4
    <2>. QED
      BY <2>4, <2>5 DEF Kept
  <1>6. CASE P = 2
    <2>. DEFINE m == n.children[j + 1]
                c == Grafted(n, j, Valued(m, v))
    <2>1. /\ L # 0 /\ t.children # <<>> /\ i < E1 /\ Child(<<t>>, i) = <<n>> /\ n \in Members(sym.dims)
          /\ i \in Nat /\ j \in Nat
      BY <1>1, <1>4, <1>6
    <2>2. Child(<<n>>, j) # Nothing
      <3>1. P = 2 => Descend(t, path) = Child(Child(<<t>>, i), j)
        BY DescendAt
      <3>. QED
        BY <2>1, <1>6, <3>1
    <2>3. L = 2 /\ n.children # <<>> /\ j < E2 /\ Child(<<n>>, j) = <<m>> /\ n \in Below(E2)
          /\ n.children \in [1..E2 -> Leaves]
      <3>. HIDE DEF n, j
      <3>1. L # 1
        <4>1. Len(sym.dims) = 1 => Child(<<n>>, j) = Nothing
          BY <2>1, LowOf
        <4>. QED
          BY <2>2, <4>1
      <3>2. L = 2
        BY <1>1, <2>1, <3>1
      <3>3. /\ n \in Below(E2)
            /\ Child(<<n>>, j) = IF n.children # <<>> /\ j < E2 THEN <<n.children[j + 1]>> ELSE Nothing
            /\ n.children # <<>> => n.children \in [1..E2 -> Leaves]
        BY <3>2, <2>1, LowOf
      <3>. QED
        BY <2>2, <3>2, <3>3
    <2>4. m \in Leaves
      <3>1. j + 1 \in 1..E2
        <4>. HIDE DEF j, E2
        <4>. QED
          BY <2>1, <2>3, <1>1
      <3>. HIDE DEF n
      <3>. QED
        BY <2>3, <3>1
    <2>5. Valued(m, v) \in Leaves /\ Valued(m, v).value = Whole(v)
      BY <2>4, ValuedTree
    <2>6. /\ c \in Below(E2) /\ c.children # <<>>
          /\ \A k \in Nat : k < E2 => c.children[k + 1] = IF k = j THEN Valued(m, v) ELSE n.children[k + 1]
      <3>1. E2 \in Nat \ {0}
        BY <1>1, <2>3
      <3>. HIDE DEF n, j, m, E2
      <3>. QED
        BY <2>1, <2>3, <2>5, <3>1, GraftedLow
    <2>7. c \in Members(sym.dims)
      <3>1. Members(sym.dims) = Below(E2)
        BY <2>3 DEF Members
      <3>. QED
        BY <2>6, <3>1
    <2>8. u = Grafted(t, i, c)
      <3>. DEFINE one == Child(<<t>>, path[1])
                  two == Child(one, path[2])
      <3>1. one = Child(<<t>>, path[1]) /\ two = Child(one, path[2]) /\ one = <<n>> /\ two = <<m>>
        BY <2>1, <2>3
      <3>. HIDE DEF one, two, n, m
      <3>2. Len(path) = 2 => Updated(t, path, v) =
                  IF two = Nothing THEN t
                  ELSE Grafted(t, path[1], Grafted(one[1], path[2], Valued(two[1], v)))
        BY <3>1, UpdatedAt
      <3>3. two # Nothing /\ two[1] = m /\ one[1] = n
        BY <3>1
      <3>. QED
        BY <1>6, <3>2, <3>3
    <2>. HIDE DEF c
    <2>9. /\ u \in Tree(sym)
          /\ \A k \in Nat : k < E1 => u.children[k + 1] = IF k = i THEN c ELSE t.children[k + 1]
      <3>. HIDE DEF i, u, n
      <3>. QED
        BY <2>1, <2>8, <2>7, GraftedTop
    <2>. HIDE DEF u
    <2>10. ASSUME NEW q \in Seq(Nat), Len(q) = L, Descend(u, q) # Nothing
           PROVE  /\ Descend(t, q) # Nothing
                  /\ Descend(u, q)[1].value = IF SamePath(q, path) THEN Whole(v) ELSE Descend(t, q)[1].value
      <3>1. Len(q) = 2 /\ Len(q) # 0 /\ Len(q) = Len(sym.dims)
        BY <2>3, <2>10
      <3>2. /\ q[1] \in 0..(E1 - 1) /\ q[2] \in 0..(E2 - 1)
            /\ u.children[q[1] + 1].children # <<>>
            /\ Descend(u, q) = <<u.children[q[1] + 1].children[q[2] + 1]>>
        BY <2>9, <2>10, <3>1, TreeNode
      <3>3. q[1] \in Nat /\ q[1] < E1 /\ q[2] \in Nat /\ q[2] < E2
        <4>1. \A k \in Nat \ {0} : \A a \in 0..(k - 1) : a \in Nat /\ a < k
          OBVIOUS
        <4>2. E1 \in Nat \ {0} /\ E2 \in Nat \ {0}
          BY <1>1, <2>1, <2>3
        <4>. HIDE DEF E1, E2
        <4>. QED
          BY <3>2, <4>1, <4>2
      <3>4. u.children[q[1] + 1] = IF q[1] = i THEN c ELSE t.children[q[1] + 1]
        BY <2>9, <3>3
      <3>5. q[1] = i => t.children[q[1] + 1] = n
        OBVIOUS
      <3>6. t.children[q[1] + 1].children # <<>>
        <4>. HIDE DEF n, i
        <4>. QED
          BY <2>3, <3>2, <3>4, <3>5
      <3>7. Descend(t, q) = <<t.children[q[1] + 1].children[q[2] + 1]>>
        BY <2>1, <3>1, <3>3, <3>6, TreeReach
      <3>8. SamePath(q, path) <=> q[1] = i /\ q[2] = j
        BY <3>1, <1>6 DEF SamePath
      <3>9. q[1] = i => u.children[q[1] + 1].children[q[2] + 1] =
               IF q[2] = j THEN Valued(m, v) ELSE n.children[q[2] + 1]
        <4>. HIDE DEF n, i, j, m
        <4>. QED
          BY <2>6, <3>3, <3>4
      <3>. HIDE DEF n, i, j, m
      <3>10. Descend(t, q) # Nothing
        BY <3>7
      <3>11. CASE q[1] = i /\ q[2] = j
        <4>1. Descend(u, q)[1] = Valued(m, v)
          BY <3>2, <3>9, <3>11
        <4>. QED
          BY <2>5, <3>8, <3>10, <3>11, <4>1
      <3>12. CASE ~(q[1] = i /\ q[2] = j)
        <4>1. Descend(u, q)[1] = Descend(t, q)[1]
          BY <3>2, <3>4, <3>5, <3>7, <3>9, <3>12
        <4>. QED
          BY <3>8, <3>10, <3>12, <4>1
      <3>. QED
        BY <3>11, <3>12
    <2>. QED
      BY <2>9, <2>10 DEF Kept
  <1>. QED
    BY <1>1, <1>3, <1>5, <1>6

(* The memory has the cells it began with.                                 *)
MemType == mem \in [DOMAIN Loaded -> Int]

(* What is read of memory: addresses, values, rows of leaves.              *)
LEMMA ReadAt ==
    ASSUME MemType
    PROVE  /\ \A sym \in Symbols : Base(sym) # Nothing =>
                 Base(sym) = <<Base(sym)[1]>> /\ Base(sym)[1] \in Int
           /\ \A a \in Int : SubArray(a) # Nothing =>
                 SubArray(a) = <<SubArray(a)[1]>> /\ SubArray(a)[1] \in Int
           /\ \A a : CellAt(a) \in CellValues
           /\ \A size \in Nat : \A a \in Int :
                 CellsFrom(size, a) \in [1..ElementsShown(size) -> Leaves]
  <1>1. ASSUME NEW a, a \in DOMAIN mem
        PROVE  mem[a] \in Int
    BY <1>1 DEF MemType
  <1>2. ASSUME NEW sym \in Symbols, Base(sym) # Nothing
        PROVE  Base(sym) = <<Base(sym)[1]>> /\ Base(sym)[1] \in Int
    BY <1>1, <1>2, SymbolDims DEF Base, Readable, Nothing
  <1>3. ASSUME NEW a \in Int, SubArray(a) # Nothing
        PROVE  SubArray(a) = <<SubArray(a)[1]>> /\ SubArray(a)[1] \in Int
    <2>1. a \in DOMAIN mem /\ SubArray(a) = <<a + mem[a]>>
      BY <1>3 DEF SubArray, Readable
    <2>. QED
      BY <1>1, <2>1
  <1>4. ASSUME NEW a
        PROVE  CellAt(a) \in CellValues
    BY <1>1 DEF CellAt, Readable, CellValues
  <1>5. ASSUME NEW size \in Nat, NEW a \in Int
        PROVE  CellsFrom(size, a) \in [1..ElementsShown(size) -> Leaves]
    BY <1>4 DEF CellsFrom, Leaf, Leaves
  <1>. QED
    BY <1>2, <1>3, <1>4, <1>5

(* A row shows the cells from its address on.                              *)
LEMMA CellsShown ==
    ASSUME NEW size \in Nat, NEW a \in Int, NEW k \in Nat, k < ElementsShown(size)
    PROVE  CellsFrom(size, a)[k + 1].value = CellAt(<<a + k>>)
  <1>1. ElementsShown(size) \in Nat
    BY SizesShown, PanelAssumption
  <1>2. k + 1 \in 1..ElementsShown(size) /\ a + (k + 1) - 1 = a + k
    BY <1>1
  <1>3. CellsFrom(size, a)[k + 1] = Leaf(CellAt(<<a + (k + 1) - 1>>))
    BY <1>2 DEF CellsFrom
  <1>. QED
    BY <1>2, <1>3 DEF Leaf

(* Where the cell of a path is, read from memory as it stands.             *)
Place(sym, q) == IF Len(q) = 0 THEN Base(sym)[1]
                 ELSE IF Len(q) = 1 THEN Base(sym)[1] + q[1]
                 ELSE SubArray(Base(sym)[1] + q[1])[1] + q[2]

(* A cell of a tree has the value in memory.                               *)
ShowsNow(sym, t, q) ==
    Base(sym) # Nothing =>
        /\ Len(q) = 2 => SubArray(Base(sym)[1] + q[1]) # Nothing
        /\ Descend(t, q)[1].value = CellAt(<<Place(sym, q)>>)

(* What build_level built is a tree of the symbol, whose rows are at the   *)
(* cells the vector leads to.                                              *)
LEMMA BuiltAt ==
    ASSUME MemType, NEW sym \in Symbols, Len(sym.dims) # 0, NEW a \in Int
    PROVE  /\ BuildArray(sym.dims)[a] \in [1..ElementsShown(sym.dims[1]) -> Members(sym.dims)]
           /\ BuildArray(sym.dims)[a] # <<>>
           /\ Len(sym.dims) = 1 => BuildArray(sym.dims)[a] = CellsFrom(sym.dims[1], a)
           /\ Len(sym.dims) = 2 => \A k \in Nat : k < ElementsShown(sym.dims[1]) =>
                 LET row == BuildArray(sym.dims)[a][k + 1]
                 IN  row.children # <<>> =>
                        SubArray(a + k) # Nothing /\ row.children = CellsFrom(sym.dims[2], SubArray(a + k)[1])
  <1>. DEFINE d == sym.dims
              E1 == ElementsShown(d[1])
              E2 == ElementsShown(d[2])
              b == BuildArray(d)[a]
  <1>1. /\ d \in Seq(Nat) /\ (Len(d) = 1 \/ Len(d) = 2) /\ d[1] \in Nat /\ E1 \in Nat \ {0}
        /\ Len(d) = 2 => d[2] \in Nat /\ E2 \in Nat \ {0}
    BY SymbolDims
  <1>2. \A i \in Int : SubArray(i) # Nothing => SubArray(i)[1] \in Int
    BY ReadAt
  <1>3. /\ Len(d) = 1 => b = CellsFrom(d[1], a)
        /\ Len(d) = 2 => b = [i \in 1..E1 |->
                      IF SubArray(a + i - 1) = Nothing THEN Leaf(Nothing)
                      ELSE [value |-> Nothing,
                            children |-> CellsFrom(d[2], SubArray(a + i - 1)[1])]]
    BY <1>1, <1>2, BuildAt
  <1>. HIDE DEF b
  <1>4. CASE Len(d) = 1
    <2>1. b \in [1..E1 -> Leaves]
      BY <1>1, <1>3, <1>4, ReadAt
    <2>2. Members(d) = Leaves
      BY <1>4 DEF Members
    <2>3. b # <<>>
      <3>1. DOMAIN b = 1..E1 /\ 1 \in 1..E1 /\ DOMAIN <<>> = {}
        BY <1>1, <2>1
      <3>. QED
        BY <3>1
    <2>. QED
      BY <1>3, <1>4, <2>1, <2>2, <2>3 DEF b
  <1>5. CASE Len(d) = 2
    <2>. DEFINE row(i) == IF SubArray(a + i - 1) = Nothing THEN Leaf(Nothing)
                          ELSE [value |-> Nothing, children |-> CellsFrom(d[2], SubArray(a + i - 1)[1])]
    <2>1. Members(d) = Below(E2)
      BY <1>5 DEF Members
    <2>2. b = [i \in 1..E1 |-> row(i)]
      BY <1>3, <1>5
    <2>3. ASSUME NEW i \in 1..E1
          PROVE  row(i) \in Below(E2)
      <3>1. a + i - 1 \in Int
        BY <1>1
      <3>2. Leaf(Nothing) \in Below(E2)
        BY DEF Leaf, Below, CellValues
      <3>3. SubArray(a + i - 1) # Nothing =>
               CellsFrom(d[2], SubArray(a + i - 1)[1]) \in [1..E2 -> Leaves]
        BY <1>1, <1>2, <1>5, <3>1, ReadAt
      <3>. DEFINE cells == CellsFrom(d[2], SubArray(a + i - 1)[1])
      <3>4. row(i) = IF SubArray(a + i - 1) = Nothing THEN Leaf(Nothing)
                     ELSE [value |-> Nothing, children |-> cells]
        OBVIOUS
      <3>5. Nothing \in CellValues
        BY DEF CellValues
      <3>. HIDE DEF cells, row
      <3>6. cells \in [1..E2 -> Leaves] => [value |-> Nothing, children |-> cells] \in Below(E2)
        BY <3>5 DEF Below
      <3>. QED
        BY <3>2, <3>3, <3>4, <3>6 DEF cells
    <2>4. ASSUME NEW k \in Nat, k < E1, b[k + 1].children # <<>>
          PROVE  SubArray(a + k) # Nothing /\ b[k + 1].children = CellsFrom(d[2], SubArray(a + k)[1])
      <3>1. k + 1 \in 1..E1 /\ a + (k + 1) - 1 = a + k
        BY <1>1, <2>4
      <3>2. b[k + 1] = row(k + 1)
        <4>. HIDE DEF row
        <4>. QED
          BY <2>2, <3>1
      <3>3. b[k + 1] = IF SubArray(a + k) = Nothing THEN Leaf(Nothing)
                       ELSE [value |-> Nothing, children |-> CellsFrom(d[2], SubArray(a + k)[1])]
        BY <3>1, <3>2
      <3>4. Leaf(Nothing).children = <<>>
        BY DEF Leaf
      <3>. QED
        BY <2>4, <3>3, <3>4
    <2>5. b \in [1..E1 -> Members(d)]
      <3>. HIDE DEF row
      <3>. QED
        BY <2>1, <2>2, <2>3
    <2>6. b # <<>>
      <3>1. DOMAIN b = 1..E1 /\ 1 \in 1..E1 /\ DOMAIN <<>> = {}
        <4>. HIDE DEF row
        <4>. QED
          BY <1>1, <2>2
      <3>. QED
        BY <3>1
    <2>. QED
      BY <1>5, <2>4, <2>5, <2>6 DEF b
  <1>. QED
    BY <1>1, <1>4, <1>5

(* A tree just collected shows the memory.                                 *)
LEMMA CollectedTree ==
    ASSUME MemType, NEW scope \in Seq(Symbols), NEW k \in DOMAIN scope
    PROVE  /\ Collect(scope)[k] \in Tree(scope[k])
           /\ \A q \in Seq(Nat) :
                 Len(q) = Len(scope[k].dims) /\ Descend(Collect(scope)[k], q) # Nothing =>
                     ShowsNow(scope[k], Collect(scope)[k], q)
  <1>. DEFINE sym == scope[k]
              base == Base(sym)
              t == Collect(scope)[k]
              d == sym.dims
  <1>1. sym \in Symbols
    OBVIOUS
  <1>2. t = [name |-> sym.name,
             value |-> IF IsArray(sym) THEN Nothing ELSE CellAt(base),
             text |-> Len(sym.dims) = 1 /\ base # Nothing /\ Summary(sym.dims, base[1]),
             children |-> IF IsArray(sym) /\ base # Nothing
                          THEN BuildArray(sym.dims)[base[1]] ELSE <<>>]
    BY DEF Collect
  <1>3. IsArray(sym) <=> Len(d) # 0
    <2>1. d \in Seq(Nat)
      BY <1>1, SymbolDims
    <2>. HIDE DEF d
    <2>2. d # <<>> <=> Len(d) # 0
      BY <2>1
    <2>. QED
      BY <2>2 DEF IsArray, d
  <1>. DEFINE b == BuildArray(d)[base[1]]
              text == Len(sym.dims) = 1 /\ base # Nothing /\ Summary(sym.dims, base[1])
  <1>4. base # Nothing => base = <<base[1]>> /\ base[1] \in Int
    BY <1>1, ReadAt
  <1>5. Len(d) # 0 /\ base # Nothing =>
           /\ b \in [1..ElementsShown(d[1]) -> Members(d)] /\ b # <<>>
           /\ Len(d) = 1 => b = CellsFrom(d[1], base[1])
           /\ Len(d) = 2 => \A i \in Nat : i < ElementsShown(d[1]) /\ b[i + 1].children # <<>> =>
                 /\ SubArray(base[1] + i) # Nothing
                 /\ b[i + 1].children = CellsFrom(d[2], SubArray(base[1] + i)[1])
    BY <1>1, <1>4, BuiltAt
  <1>6. text \in BOOLEAN
    BY Zenon DEF Summary, IsText
  <1>. HIDE DEF sym, base, t, b, text
  <1>7. /\ t.name = sym.name /\ t.text = text
        /\ t.value = IF Len(d) # 0 THEN Nothing ELSE CellAt(base)
        /\ t.children = IF Len(d) # 0 /\ base # Nothing THEN b ELSE <<>>
        /\ t = [name |-> t.name, value |-> t.value, text |-> t.text, children |-> t.children]
    BY <1>2, <1>3 DEF b, base, text
  <1>8. t.children \in Children(d)
    <2>. HIDE DEF d
    <2>. QED
      BY <1>5, <1>7 DEF Children
  <1>9. t.value \in CellValues
    <2>1. Nothing \in CellValues /\ CellAt(base) \in CellValues
      BY ReadAt DEF CellValues
    <2>. QED
      BY <1>7, <2>1
  <1>10. t \in Tree(sym)
    BY <1>6, <1>7, <1>8, <1>9 DEF Tree
  <1>11. ASSUME NEW q \in Seq(Nat), Len(q) = Len(d), Descend(t, q) # Nothing, base # Nothing
         PROVE  /\ Len(q) = 2 => SubArray(base[1] + q[1]) # Nothing
                /\ Descend(t, q)[1].value = CellAt(<<Place(sym, q)>>)
    <2>1. Len(d) = 0 \/ Len(d) = 1 \/ Len(d) = 2
      BY <1>1, SymbolDims
    <2>2. CASE Len(d) = 0
      <3>1. Len(q) = 0 /\ Len(q) # 2
        BY <1>11, <2>2
      <3>2. Descend(t, q) = <<t>>
        BY <3>1, DescendAt
      <3>3. t.value = CellAt(base)
        BY <1>7, <2>2
      <3>4. Place(sym, q) = base[1]
        BY <3>1 DEF Place, base
      <3>5. <<Place(sym, q)>> = base
        BY <1>4, <1>11, <3>4
      <3>. QED
        BY <3>1, <3>2, <3>3, <3>5
    <2>3. CASE Len(d) # 0
      <3>1. t.children = b
        BY <1>7, <1>11, <2>3
      <3>2. Len(q) = Len(sym.dims)
        BY <1>11
      <3>3. /\ q[1] \in 0..(ElementsShown(d[1]) - 1)
            /\ Len(q) = 1 => Descend(t, q) = <<t.children[q[1] + 1]>>
            /\ Len(q) = 2 => /\ q[2] \in 0..(ElementsShown(d[2]) - 1)
                             /\ t.children[q[1] + 1].children # <<>>
                             /\ Descend(t, q) = <<t.children[q[1] + 1].children[q[2] + 1]>>
        BY <1>1, <1>10, <1>11, <2>3, <3>2, TreeNode
      <3>4. /\ ElementsShown(d[1]) \in Nat \ {0} /\ d[1] \in Nat
            /\ Len(d) = 2 => ElementsShown(d[2]) \in Nat \ {0} /\ d[2] \in Nat
        BY <1>1, <2>3, SymbolDims
      <3>5. \A n \in Nat \ {0} : \A a \in 0..(n - 1) : a \in Nat /\ a < n
        OBVIOUS
      <3>6. q[1] \in Nat /\ q[1] < ElementsShown(d[1])
        BY <3>3, <3>4, <3>5
      <3>7. CASE Len(d) = 1
        <4>1. Len(q) = 1 /\ Len(q) # 2 /\ Len(q) # 0
          BY <1>11, <3>7
        <4>2. b = CellsFrom(d[1], base[1])
          BY <1>5, <1>11, <3>7, <2>3
        <4>3. CellsFrom(d[1], base[1])[q[1] + 1].value = CellAt(<<base[1] + q[1]>>)
          BY <1>4, <1>11, <3>4, <3>6, CellsShown
        <4>4. Descend(t, q)[1].value = CellAt(<<base[1] + q[1]>>)
          BY <3>1, <3>3, <4>1, <4>2, <4>3
        <4>5. Place(sym, q) = base[1] + q[1]
          BY <4>1 DEF Place, base
        <4>. QED
          BY <4>1, <4>4, <4>5
      <3>8. CASE Len(d) = 2
        <4>. DEFINE row == SubArray(base[1] + q[1])
        <4>1. Len(q) = 2 /\ Len(q) # 1 /\ Len(q) # 0
          BY <1>11, <3>8
        <4>2. t.children[q[1] + 1] = b[q[1] + 1] /\ b[q[1] + 1].children # <<>>
          BY <3>1, <3>3, <4>1
        <4>3. row # Nothing /\ b[q[1] + 1].children = CellsFrom(d[2], row[1])
          BY <1>5, <1>11, <2>3, <3>6, <3>8, <4>2
        <4>4. row[1] \in Int
          <5>1. base[1] + q[1] \in Int
            BY <1>4, <1>11, <3>6
          <5>. QED
            BY <4>3, <5>1, ReadAt
        <4>5. q[2] \in Nat /\ q[2] < ElementsShown(d[2])
          BY <3>3, <3>4, <3>5, <3>8, <4>1
        <4>6. Place(sym, q) = row[1] + q[2]
          BY <4>1 DEF Place, base
        <4>. HIDE DEF row
        <4>7. CellsFrom(d[2], row[1])[q[2] + 1].value = CellAt(<<row[1] + q[2]>>)
          BY <3>4, <3>8, <4>4, <4>5, CellsShown
        <4>. QED
          BY <3>3, <4>1, <4>2, <4>3, <4>6, <4>7 DEF row
      <3>. QED
        BY <2>1, <2>3, <3>7, <3>8
    <2>. QED
      BY <2>2, <2>3
  <1>. QED
    BY <1>10, <1>11 DEF ShowsNow, t, sym, base

(* The rows of a symbol are where the compiler put them.                   *)
Ordered(sym) == Len(sym.dims) = 2 /\ SizesKnown(sym) =>
          \A i \in 0..(ElementsShown(sym.dims[1]) - 1) :
              SubArray(Base(sym)[1] + i) = <<RowAt(sym, i)>>

(* Then a cell is where the compiler put it, and Locate finds it there.    *)
LEMMA PlaceIsAddress ==
    ASSUME MemType, NEW sym \in Symbols, NEW q \in Seq(Nat), Len(q) = Len(sym.dims),
           Base(sym) # Nothing, Ordered(sym),
           Len(q) # 0 => q[1] < ElementsShown(sym.dims[1]),
           Len(q) = 2 => q[2] < ElementsShown(sym.dims[2]) /\ SubArray(Base(sym)[1] + q[1]) # Nothing
    PROVE  /\ Place(sym, q) = AddressOf(sym, q) /\ Place(sym, q) \in Int
           /\ Locate(sym, q) = <<[addr |-> Place(sym, q), isCell |-> TRUE]>>
  <1>. DEFINE base == Base(sym)
              d == sym.dims
              i == q[1]
              j == q[2]
  <1>1. Len(q) = 0 \/ Len(q) = 1 \/ Len(q) = 2
    BY SymbolDims
  <1>2. base = <<base[1]>> /\ base[1] \in Int /\ base # Nothing
    BY ReadAt
  <1>3. /\ Len(q) # 0 => i \in Nat /\ d[1] \in Nat /\ (d[1] > 0 => i < d[1])
        /\ Len(q) = 2 => j \in Nat /\ d[2] \in Nat /\ (d[2] > 0 => j < d[2])
    <2>1. (Len(q) # 0 => i \in Nat) /\ (Len(q) = 2 => j \in Nat)
      BY <1>1, Parts
    <2>2. /\ Len(q) # 0 => /\ d[1] \in Nat /\ ElementsShown(d[1]) \in Nat
                           /\ d[1] > 0 => ElementsShown(d[1]) <= d[1]
          /\ Len(q) = 2 => /\ d[2] \in Nat /\ ElementsShown(d[2]) \in Nat
                           /\ d[2] > 0 => ElementsShown(d[2]) <= d[2]
      BY SymbolDims
    <2>3. \A x, n, s \in Nat : x < n /\ (s > 0 => n <= s) => (s > 0 => x < s)
      OBVIOUS
    <2>. HIDE DEF i, j, d
    <2>4. Len(q) # 0 => (d[1] > 0 => i < d[1])
      BY <2>1, <2>2, <2>3 DEF i, d
    <2>5. Len(q) = 2 => (d[2] > 0 => j < d[2])
      BY <2>1, <2>2, <2>3 DEF j, d
    <2>. QED
      BY <2>1, <2>2, <2>4, <2>5
  <1>4. Locate(sym, q) = IF Reached(sym, q) = Nothing THEN Nothing
             ELSE <<[addr |-> Reached(sym, q)[1], isCell |-> TRUE]>>
    <2>1. Len(q) \in 0..2 /\ ~(Len(q) > Len(sym.dims))
      BY <1>1
    <2>. QED
      BY <2>1, LocateAt
  <1>. USE DEF Nothing
  <1>5. CASE Len(q) = 0
    <2>1. Reached(sym, q) = base /\ Place(sym, q) = base[1] /\ AddressOf(sym, q) = base[1]
      BY <1>5 DEF Reached, Place, AddressOf
    <2>. QED
      BY <1>2, <1>4, <2>1
  <1>6. CASE Len(q) = 1
    <2>1. Len(q) # 0 /\ Len(sym.dims) = 1 /\ Len(sym.dims) # 0
      BY <1>6
    <2>2. Place(sym, q) = base[1] + i /\ AddressOf(sym, q) = base[1] + i
      BY <1>6, <2>1 DEF Place, AddressOf
    <2>3. Reached(sym, q) = StepInto(sym, base, 1, i)
      BY <1>6, <2>1 DEF Reached
    <2>4. ~(1 < Len(sym.dims)) /\ ~(d[1] > 0 /\ i >= d[1])
      <3>1. ~(1 < Len(sym.dims))
        BY <2>1
      <3>2. i \in Nat /\ d[1] \in Nat /\ (d[1] > 0 => i < d[1])
        BY <1>3, <2>1
      <3>. QED
        BY <3>1, <3>2
    <2>5. StepInto(sym, base, 1, i) = <<base[1] + i>>
      BY <1>2, <2>4 DEF StepInto
    <2>6. base[1] + i \in Int
      BY <1>2, <1>3, <2>1
    <2>7. Reached(sym, q) # Nothing /\ Reached(sym, q)[1] = Place(sym, q)
      BY <2>2, <2>3, <2>5
    <2>. QED
      BY <1>4, <2>2, <2>6, <2>7
  <1>7. CASE Len(q) = 2
    <2>. DEFINE row == SubArray(base[1] + i)
    <2>1. Len(q) # 0 /\ Len(q) # 1 /\ Len(sym.dims) = 2 /\ Len(sym.dims) # 0 /\ Len(sym.dims) # 1
      BY <1>7
    <2>2. row = <<row[1]>> /\ row[1] \in Int /\ row # Nothing
      <3>1. base[1] + i \in Int
        BY <1>2, <1>3, <2>1
      <3>. QED
        BY <1>7, <3>1, ReadAt
    <2>3. RowAt(sym, i) = row[1]
      <3>1. CASE SizesKnown(sym)
        <4>1. i \in 0..(ElementsShown(d[1]) - 1)
          <5>1. i < ElementsShown(d[1]) /\ i \in Nat /\ ElementsShown(d[1]) \in Nat
            BY <1>3, <2>1, SymbolDims
          <5>. HIDE DEF i, d
          <5>. QED
            BY <5>1
        <4>2. row = <<RowAt(sym, i)>>
          BY <2>1, <3>1, <4>1 DEF Ordered
        <4>. QED
          BY <4>2
      <3>2. CASE ~SizesKnown(sym)
        BY <3>2 DEF RowAt
      <3>. QED
        BY <3>1, <3>2
    <2>4. Place(sym, q) = row[1] + j /\ AddressOf(sym, q) = row[1] + j
      BY <2>1, <2>3 DEF Place, AddressOf
    <2>5. Reached(sym, q) = StepInto(sym, StepInto(sym, base, 1, i), 2, j)
      BY <2>1 DEF Reached
    <2>6. 1 < Len(sym.dims) /\ ~(2 < Len(sym.dims)) /\ ~(d[1] > 0 /\ i >= d[1]) /\ ~(d[2] > 0 /\ j >= d[2])
      <3>1. 1 < Len(sym.dims) /\ ~(2 < Len(sym.dims))
        BY <2>1
      <3>2. /\ i \in Nat /\ d[1] \in Nat /\ (d[1] > 0 => i < d[1])
            /\ j \in Nat /\ d[2] \in Nat /\ (d[2] > 0 => j < d[2])
        BY <1>3, <1>7, <2>1
      <3>. QED
        BY <3>1, <3>2
    <2>7. StepInto(sym, base, 1, i) = row
      BY <1>2, <2>6 DEF StepInto
    <2>. HIDE DEF row
    <2>8. StepInto(sym, row, 2, j) = <<row[1] + j>>
      BY <2>2, <2>6 DEF StepInto
    <2>9. row[1] + j \in Int
      BY <2>2, <1>3, <1>7
    <2>10. Reached(sym, q) # Nothing /\ Reached(sym, q)[1] = Place(sym, q)
      BY <2>4, <2>5, <2>7, <2>8
    <2>. QED
      BY <1>4, <2>4, <2>9, <2>10
  <1>. QED
    BY <1>1, <1>5, <1>6, <1>7

(* An edit of a path that is not in the tree leaves it; of any other,      *)
(* UpdatedTree says what it does.                                          *)
LEMMA UpdatedAny ==
    ASSUME NEW sym \in Symbols, NEW t \in Tree(sym), NEW path \in Seq(Nat), Len(path) <= 2, NEW v \in Int
    PROVE  Updated(t, path, v) \in Tree(sym) /\ Kept(sym, t, Updated(t, path, v), path, v)
  <1>1. CASE Descend(t, path) # Nothing
    BY <1>1, UpdatedTree
  <1>2. CASE Descend(t, path) = Nothing
    <2>. DEFINE one == Child(<<t>>, path[1])
                two == Child(one, path[2])
    <2>1. one = Child(<<t>>, path[1]) /\ two = Child(one, path[2])
      OBVIOUS
    <2>2. Len(path) = 0 \/ Len(path) = 1 \/ Len(path) = 2
      BY Parts
    <2>3. /\ Len(path) = 0 => Descend(t, path) = <<t>>
          /\ Len(path) = 1 => Descend(t, path) = one
          /\ Len(path) = 2 => Descend(t, path) = two
      BY DescendAt
    <2>. HIDE DEF one, two
    <2>4. /\ Len(path) = 1 => Updated(t, path, v) =
                  IF one = Nothing THEN t ELSE Grafted(t, path[1], Valued(one[1], v))
          /\ Len(path) = 2 => Updated(t, path, v) =
                  IF two = Nothing THEN t
                  ELSE Grafted(t, path[1], Grafted(one[1], path[2], Valued(two[1], v)))
      BY <2>1, UpdatedAt
    <2>5. <<t>> # Nothing
      BY DEF Nothing
    <2>6. Updated(t, path, v) = t
      BY <1>2, <2>2, <2>3, <2>4, <2>5
    <2>7. ASSUME NEW q \in Seq(Nat), Descend(t, q) # Nothing
          PROVE  ~SamePath(q, path)
      <3>1. q # path
        BY <1>2, <2>7
      <3>2. SamePath(q, path) => Len(q) <= 2
        BY DEF SamePath
      <3>. QED
        BY <3>1, <3>2, SameShort
    <2>. QED
      BY <2>6, <2>7 DEF Kept
  <1>. QED
    BY <1>1, <1>2

(* The kinds of the state of the panel.                                    *)
AnyTree == UNION {Tree(sym) : sym \in Symbols}
VarPaths == [frame : Nat, var : Nat, path : Seq(Nat)]
RefPaths == {p \in VarPaths : Len(p.path) <= 1}

(* A pause has a tree for each symbol in scope.                            *)
FramesMatch ==
    /\ frames \in Seq(Seq(AnyTree)) /\ Len(frames) = Len(scopes)
    /\ \A f \in DOMAIN scopes :
          /\ Len(frames[f]) = Len(scopes[f])
          /\ \A v \in DOMAIN scopes[f] : frames[f][v] \in Tree(scopes[f][v])

(* The type invariant, as strong as the proofs need it.                    *)
PanelTypes ==
    /\ MemType
    /\ scopes \in Seq(Seq(Symbols)) /\ \A f \in DOMAIN scopes : f < RefBase
    /\ count \in [pauses : Nat, traces : Nat, edits : Nat]
    /\ refs \in Seq(RefPaths)
    /\ DOMAIN edited \subseteq Int
    /\ IsPaused => FramesMatch

(* The tree of a variable shows the memory at a path, read as it stands.   *)
ShownAt(f, v, q) ==
    LET sym == scopes[f][v]
        p == VarPath(f, v, q)
        a == Place(sym, q)
    IN  Descend(frames[f][v], q) # Nothing /\ AsCompiled(sym) =>
            /\ Len(q) = 2 => SubArray(Base(sym)[1] + q[1]) # Nothing
            /\ FirstOfName(p) /\ (a \in DOMAIN edited => edited[a] = p) =>
                  Descend(frames[f][v], q)[1].value = CellAt(<<a>>)

(* It does for all variables and all paths: PanelShowsMemory, without the  *)
(* bound on the paths and with the cells not yet known to be where the     *)
(* compiler put them.                                                      *)
TreesShow ==
    IsPaused => \A f \in DOMAIN scopes : \A v \in DOMAIN scopes[f] : \A q \in Seq(Nat) :
                    Len(q) = Len(scopes[f][v].dims) => ShownAt(f, v, q)

(* What is known of a variable in scope.                                   *)
LEMMA InScope ==
    ASSUME PanelTypes, IsPaused, NEW f \in DOMAIN scopes, NEW v \in DOMAIN scopes[f]
    PROVE  /\ scopes[f] \in Seq(Symbols) /\ scopes[f][v] \in Symbols
           /\ DOMAIN frames = DOMAIN scopes /\ DOMAIN frames[f] = DOMAIN scopes[f]
           /\ frames[f] \in Seq(AnyTree)
           /\ frames[f][v] \in Tree(scopes[f][v])
           /\ frames[f][v].name = scopes[f][v].name
           /\ f \in Nat \ {0} /\ v \in Nat \ {0}
  <1>1. scopes \in Seq(Seq(Symbols)) /\ FramesMatch
    BY DEF PanelTypes
  <1>2. scopes[f] \in Seq(Symbols)
    BY <1>1
  <1>3. scopes[f][v] \in Symbols
    BY <1>2
  <1>4. DOMAIN scopes = 1..Len(scopes) /\ DOMAIN scopes[f] = 1..Len(scopes[f])
        /\ Len(scopes) \in Nat /\ Len(scopes[f]) \in Nat
    BY <1>1, <1>2
  <1>5. DOMAIN frames = 1..Len(frames) /\ Len(frames) = Len(scopes)
    BY <1>1 DEF FramesMatch
  <1>6. frames[f] \in Seq(AnyTree) /\ Len(frames[f]) = Len(scopes[f])
    BY <1>1, <1>4, <1>5 DEF FramesMatch
  <1>7. DOMAIN frames[f] = 1..Len(frames[f])
    BY <1>6
  <1>8. frames[f][v] \in Tree(scopes[f][v])
    BY <1>1 DEF FramesMatch
  <1>9. frames[f][v].name = scopes[f][v].name
    BY <1>8 DEF Tree
  <1>10. f \in Nat \ {0} /\ v \in Nat \ {0}
    BY <1>4
  <1>. QED
    BY <1>2, <1>3, <1>4, <1>5, <1>6, <1>7, <1>8, <1>9, <1>10

(* A cell in the tree of a symbol that is as compiled is found where the   *)
(* compiler put it.                                                        *)
LEMMA Located ==
    ASSUME PanelTypes, TreesShow, IsPaused, NEW f \in DOMAIN scopes, NEW v \in DOMAIN scopes[f],
           NEW q \in Seq(Nat), Len(q) = Len(scopes[f][v].dims),
           Descend(frames[f][v], q) # Nothing, AsCompiled(scopes[f][v])
    PROVE  LET sym == scopes[f][v]
           IN  /\ Place(sym, q) = AddressOf(sym, q) /\ Place(sym, q) \in Int
               /\ Locate(sym, q) = <<[addr |-> Place(sym, q), isCell |-> TRUE]>>
               /\ Len(q) # 0 => q[1] \in 0..(ElementsShown(sym.dims[1]) - 1)
               /\ Len(q) = 2 => q[2] \in 0..(ElementsShown(sym.dims[2]) - 1)
  <1>. DEFINE sym == scopes[f][v]
              t == frames[f][v]
  <1>1. sym \in Symbols /\ t \in Tree(sym) /\ MemType
    BY InScope DEF PanelTypes
  <1>2. Len(q) = Len(sym.dims) /\ Descend(t, q) # Nothing
    OBVIOUS
  <1>3. Len(q) = 2 => SubArray(Base(sym)[1] + q[1]) # Nothing
    BY <1>2 DEF TreesShow, ShownAt
  <1>4. Base(sym) # Nothing /\ Ordered(sym)
    BY DEF AsCompiled, Ordered
  <1>. HIDE DEF sym, t
  <1>5. /\ Len(q) # 0 => q[1] \in 0..(ElementsShown(sym.dims[1]) - 1)
        /\ Len(q) = 2 => q[2] \in 0..(ElementsShown(sym.dims[2]) - 1)
    <2>1. Len(q) = 0 \/ Len(q) = 1 \/ Len(q) = 2
      BY <1>1, <1>2, SymbolDims
    <2>. QED
      BY <1>1, <1>2, <2>1, TreeNode
  <1>6. /\ Len(q) # 0 => q[1] < ElementsShown(sym.dims[1])
        /\ Len(q) = 2 => q[2] < ElementsShown(sym.dims[2])
    <2>1. \A n \in Nat \ {0} : \A a \in 0..(n - 1) : a < n
      OBVIOUS
    <2>2. Len(q) # 0 => ElementsShown(sym.dims[1]) \in Nat \ {0}
      BY <1>1, <1>2, SymbolDims
    <2>3. Len(q) = 2 => ElementsShown(sym.dims[2]) \in Nat \ {0}
      BY <1>1, <1>2, SymbolDims
    <2>. QED
      BY <1>5, <2>1, <2>2, <2>3
  <1>7. /\ Place(sym, q) = AddressOf(sym, q) /\ Place(sym, q) \in Int
        /\ Locate(sym, q) = <<[addr |-> Place(sym, q), isCell |-> TRUE]>>
    BY <1>1, <1>2, <1>3, <1>4, <1>6, PlaceIsAddress
  <1>. QED
    BY <1>5, <1>7 DEF sym

(* So the panel shows the memory.                                          *)
LEMMA TreesShowMemory ==
    ASSUME PanelTypes, TreesShow
    PROVE  PanelShowsMemory
  <1>. SUFFICES ASSUME IsPaused, NEW p \in Paths, Node(p) # Nothing, AsCompiled(SymbolOf(p))
                PROVE  LET a == AddressOf(SymbolOf(p), p.path)
                       IN  /\ Locate(SymbolOf(p), p.path) = <<[addr |-> a, isCell |-> TRUE]>>
                           /\ FirstOfName(p) /\ (a \in DOMAIN edited => edited[a] = p) =>
                                 Node(p)[1].value = CellAt(<<a>>)
    BY DEF PanelShowsMemory
  <1>1. PICK f \in DOMAIN scopes : \E v \in DOMAIN scopes[f] : \E q \in IndexPaths :
                Len(q) = Len(scopes[f][v].dims) /\ p = VarPath(f, v, q)
    BY DEF Paths
  <1>2. PICK v \in DOMAIN scopes[f] : \E q \in IndexPaths :
                Len(q) = Len(scopes[f][v].dims) /\ p = VarPath(f, v, q)
    BY <1>1
  <1>3. PICK q \in IndexPaths : Len(q) = Len(scopes[f][v].dims) /\ p = VarPath(f, v, q)
    BY <1>2
  <1>4. q \in Seq(Nat)
    <2>1. PICK n \in 0..2 : q \in [1..n -> 0..(MaxElems - 1)]
      BY DEF IndexPaths
    <2>2. 0..(MaxElems - 1) \subseteq Nat
      BY PanelAssumption
    <2>. QED
      BY <2>1, <2>2
  <1>5. p.frame = f /\ p.var = v /\ p.path = q /\ SymbolOf(p) = scopes[f][v]
    BY <1>3 DEF VarPath, SymbolOf
  <1>6. Node(p) = Descend(frames[f][v], q)
    <2>1. FrameVars(f) = frames[f] /\ v \in DOMAIN frames[f]
      BY InScope DEF FrameVars
    <2>2. Root(p) = <<frames[f][v]>>
      BY <1>5, <2>1 DEF Root
    <2>. QED
      BY <1>5, <2>2 DEF Node, Nothing
  <1>7. /\ Place(scopes[f][v], q) = AddressOf(scopes[f][v], q)
        /\ Locate(scopes[f][v], q) = <<[addr |-> Place(scopes[f][v], q), isCell |-> TRUE]>>
    BY <1>3, <1>4, <1>5, <1>6, Located
  <1>8. ShownAt(f, v, q)
    BY <1>3, <1>4 DEF TreesShow
  <1>. QED
    BY <1>3, <1>5, <1>6, <1>7, <1>8 DEF ShownAt

(* A write spares what leads to the cells of a symbol that is still as     *)
(* compiled after it: its cells are where they were.                       *)
LEMMA Stable ==
    ASSUME MemType, NEW a0 \in DOMAIN Loaded, NEW val \in Int, mem' = [mem EXCEPT ![a0] = val],
           DOMAIN edited' = DOMAIN edited \union {a0}, NEW sym \in Symbols, AsCompiled(sym)'
    PROVE  /\ AsCompiled(sym) /\ Base(sym)' = Base(sym)
           /\ Len(sym.dims) = 2 => \A i \in 0..(ElementsShown(sym.dims[1]) - 1) :
                 /\ SubArray(Base(sym)[1] + i)' = SubArray(Base(sym)[1] + i)
                 /\ RowAt(sym, i)' = RowAt(sym, i)
           /\ \A q \in Seq(Nat) : Len(q) = Len(sym.dims)
                 /\ (Len(q) # 0 => q[1] \in 0..(ElementsShown(sym.dims[1]) - 1)) =>
                 Place(sym, q)' = Place(sym, q) /\ AddressOf(sym, q)' = AddressOf(sym, q)
  <1>1. /\ DOMAIN mem = DOMAIN Loaded /\ DOMAIN mem' = DOMAIN mem
        /\ \A a \in DOMAIN mem : a # a0 => mem'[a] = mem[a]
    BY DEF MemType
  <1>2. /\ Base(sym)' # Nothing
        /\ a0 \notin LeadingCells(sym)'
        /\ \A a \in LeadingCells(sym)' : a \notin DOMAIN edited
        /\ Len(sym.dims) = 2 /\ SizesKnown(sym) =>
              \A i \in 0..(ElementsShown(sym.dims[1]) - 1) :
                  SubArray(Base(sym)[1] + i)' = <<RowAt(sym, i)'>>
    BY DEF AsCompiled, SizesKnown
  <1>3. LeadingCells(sym)' = (IF sym.ref THEN {sym.addr} ELSE {}) \union
                             (IF Len(sym.dims) = 2 THEN Vector(sym)' ELSE {})
    BY DEF LeadingCells
  <1>4. Base(sym)' = Base(sym)
    <2>1. CASE ~sym.ref
      BY <2>1 DEF Base
    <2>2. CASE sym.ref
      <3>1. sym.addr # a0
        BY <1>2, <1>3, <2>2
      <3>2. sym.addr \in DOMAIN mem => mem'[sym.addr] = mem[sym.addr]
        BY <1>1, <3>1
      <3>. QED
        BY <1>1, <2>2, <3>2 DEF Base, Readable
    <2>. QED
      BY <2>1, <2>2
  <1>5. Vector(sym)' = Vector(sym) /\ LeadingCells(sym)' = LeadingCells(sym)
    <2>1. Vector(sym)' = Vector(sym)
      BY <1>4 DEF Vector
    <2>. QED
      BY <1>3, <2>1 DEF LeadingCells
  <1>6. ASSUME Len(sym.dims) = 2, NEW i \in 0..(ElementsShown(sym.dims[1]) - 1)
        PROVE  SubArray(Base(sym)[1] + i)' = SubArray(Base(sym)[1] + i)
    <2>. DEFINE a == Base(sym)[1] + i
    <2>1. a \in Vector(sym)
      BY DEF Vector
    <2>2. a # a0
      BY <1>2, <1>3, <1>5, <1>6, <2>1
    <2>3. a' = a
      BY <1>4
    <2>4. SubArray(Base(sym)[1] + i)' = IF a \in DOMAIN mem' THEN <<a + mem'[a]>> ELSE Nothing
      BY <2>3 DEF SubArray, Readable
    <2>. HIDE DEF a
    <2>5. SubArray(a) = IF a \in DOMAIN mem' THEN <<a + mem'[a]>> ELSE Nothing
      BY <1>1, <2>2 DEF SubArray, Readable
    <2>. QED
      BY <2>4, <2>5 DEF a
  <1>7. ASSUME Len(sym.dims) = 2, NEW i \in 0..(ElementsShown(sym.dims[1]) - 1)
        PROVE  RowAt(sym, i)' = RowAt(sym, i)
    BY <1>4, <1>6, <1>7 DEF RowAt, SizesKnown
  <1>8. AsCompiled(sym)
    <2>1. Base(sym) # Nothing
      BY <1>2, <1>4
    <2>2. LeadingCells(sym) \intersect DOMAIN edited = {}
      BY <1>2, <1>5
    <2>3. Len(sym.dims) = 2 /\ SizesKnown(sym) =>
              \A i \in 0..(ElementsShown(sym.dims[1]) - 1) :
                  SubArray(Base(sym)[1] + i) = <<RowAt(sym, i)>>
      BY <1>2, <1>6, <1>7
    <2>. QED
      BY <2>1, <2>2, <2>3 DEF AsCompiled
  <1>9. ASSUME NEW q \in Seq(Nat), Len(q) = Len(sym.dims),
               Len(q) # 0 => q[1] \in 0..(ElementsShown(sym.dims[1]) - 1)
        PROVE  Place(sym, q)' = Place(sym, q) /\ AddressOf(sym, q)' = AddressOf(sym, q)
    <2>1. Len(q) = 0 \/ Len(q) = 1 \/ Len(q) = 2
      BY <1>9, SymbolDims
    <2>2. CASE Len(q) = 0
      <3>1. Len(sym.dims) = 0
        BY <1>9, <2>2
      <3>. QED
        BY <1>4, <2>2, <3>1 DEF Place, AddressOf
    <2>3. CASE Len(q) = 1
      <3>1. Len(sym.dims) = 1 /\ Len(sym.dims) # 0 /\ Len(q) # 0
        BY <1>9, <2>3
      <3>. QED
        BY <1>4, <2>3, <3>1 DEF Place, AddressOf
    <2>4. CASE Len(q) = 2
      <3>1. Len(sym.dims) = 2 /\ Len(sym.dims) # 0 /\ Len(q) # 0 /\ Len(q) # 1 /\ Len(sym.dims) # 1
        BY <1>9, <2>4
      <3>2. SubArray(Base(sym)[1] + q[1])' = SubArray(Base(sym)[1] + q[1]) /\ RowAt(sym, q[1])' = RowAt(sym, q[1])
        BY <1>6, <1>7, <1>9, <3>1
      <3>. QED
        BY <3>1, <3>2 DEF Place, AddressOf
    <2>. QED
      BY <2>1, <2>2, <2>3, <2>4
  <1>. QED
    BY <1>4, <1>6, <1>7, <1>8, <1>9

(* What an edit did: the row is of variable v, the cell of variable i.     *)
Wrote(f, v, path, i, a0, val, from) ==
    LET p == VarPath(f, v, path)
    IN  /\ Locate(scopes[f][i], path) = <<[addr |-> a0, isCell |-> TRUE]>>
        /\ mem' = [mem EXCEPT ![a0] = val]
        /\ frames' = [frames EXCEPT ![f][v] = Updated(@, path, val)]
        /\ last' = <<[row |-> from, addr |-> a0]>>
        /\ edited' = [a \in DOMAIN edited \union {a0} |-> IF a = a0 THEN p ELSE edited[a]]

(* What Locate finds is a cell when the path is of full length.            *)
LEMMA LocateCell ==
    ASSUME NEW sym \in Symbols, NEW path \in Seq(Nat), Locate(sym, path) # Nothing
    PROVE  /\ Len(path) <= 2
           /\ Locate(sym, path) = <<[addr |-> Locate(sym, path)[1].addr, isCell |-> Len(path) = Len(sym.dims)]>>
  <1>. DEFINE n == Len(sym.dims)
              k == Len(path)
  <1>1. n = 0 \/ n = 1 \/ n = 2
    BY SymbolDims
  <1>2. k \in Nat
    BY Parts
  <1>3. ~(k > n)
    BY DEF Locate
  <1>. HIDE DEF n, k
  <1>4. k \in 0..2 /\ k <= 2
    BY <1>1, <1>2, <1>3
  <1>5. Locate(sym, path) = <<[addr |-> Reached(sym, path)[1], isCell |-> k = n]>>
    <2>1. Len(path) \in 0..2 /\ ~(Len(path) > Len(sym.dims))
      BY <1>3, <1>4 DEF k, n
    <2>2. Locate(sym, path) =
             IF Len(path) > Len(sym.dims) \/ Reached(sym, path) = Nothing THEN Nothing
             ELSE <<[addr |-> Reached(sym, path)[1], isCell |-> Len(path) = Len(sym.dims)]>>
      BY <2>1, LocateAt
    <2>. QED
      BY <2>1, <2>2 DEF k, n
  <1>6. Locate(sym, path)[1].addr = Reached(sym, path)[1]
    BY <1>5
  <1>. QED
    BY <1>4, <1>5, <1>6 DEF k, n

(* An edit writes nothing, or the cell of the first variable of its name.  *)
LEMMA WriteWrote ==
    ASSUME PanelTypes, IsPaused, NEW f \in DOMAIN scopes, NEW v \in DOMAIN scopes[f],
           NEW path \in Seq(Nat), NEW val, NEW from,
           Write(VarPath(f, v, path), scopes[f][v].name, val, from)
    PROVE  \/ UNCHANGED <<mem, frames, edited>> /\ last' = Nothing
           \/ \E i \in DOMAIN scopes[f] : \E a0 \in DOMAIN Loaded :
                /\ scopes[f][i].name = scopes[f][v].name
                /\ FirstOfName(VarPath(f, v, path)) => i = v
                /\ Len(path) = Len(scopes[f][i].dims) /\ Len(path) <= 2
                /\ Wrote(f, v, path, i, a0, val, from)
  <1>. DEFINE p == VarPath(f, v, path)
              name == scopes[f][v].name
              list == scopes[f]
              i == SelectInSeq(list, LAMBDA s : s.name = name)
              at == Target(f, name, path)
  <1>1. p.frame = f /\ p.var = v /\ p.path = path
    BY DEF VarPath
  <1>2. \/ /\ at # Nothing /\ at[1].isCell /\ Readable(at[1].addr)
           /\ mem' = [mem EXCEPT ![at[1].addr] = val]
           /\ frames' = [frames EXCEPT ![f][v] = Updated(@, path, val)]
           /\ last' = <<[row |-> from, addr |-> at[1].addr]>>
           /\ edited' = [a \in DOMAIN edited \union {at[1].addr} |->
                                  IF a = at[1].addr THEN p ELSE edited[a]]
        \/ UNCHANGED <<mem, frames, edited>> /\ last' = Nothing
    <2>. HIDE DEF p
    <2>. QED
      BY <1>1 DEF Write, p
  <1>3. CASE UNCHANGED <<mem, frames, edited>> /\ last' = Nothing
    BY <1>3
  <1>4. CASE /\ at # Nothing /\ at[1].isCell /\ Readable(at[1].addr)
             /\ mem' = [mem EXCEPT ![at[1].addr] = val]
             /\ frames' = [frames EXCEPT ![f][v] = Updated(@, path, val)]
             /\ last' = <<[row |-> from, addr |-> at[1].addr]>>
             /\ edited' = [a \in DOMAIN edited \union {at[1].addr} |->
                                  IF a = at[1].addr THEN p ELSE edited[a]]
    <2>1. list \in Seq(Symbols) /\ Len(list) \in Nat /\ DOMAIN list = 1..Len(list)
      BY InScope
    <2>2. \/ i = 0 /\ \A k \in 1..Len(list) : list[k].name # name
          \/ /\ i \in 1..Len(list) /\ list[i].name = name
             /\ \A k \in 1..Len(list) : k < i => list[k].name # name
      <3>. HIDE DEF list
      <3>. QED
        BY <2>1, FindFirst
    <2>3. at = IF f \notin DOMAIN scopes \/ i = 0 THEN Nothing ELSE Locate(scopes[f][i], path)
      BY Zenon DEF Target
    <2>. HIDE DEF i, at
    <2>4. i \in DOMAIN list /\ list[i].name = name /\ at = Locate(scopes[f][i], path)
      BY <1>4, <2>1, <2>2, <2>3
    <2>5. \A k \in DOMAIN list : k < i => list[k].name # name
      BY <2>1, <2>2, <2>4
    <2>6. scopes[f][i] \in Symbols
      BY <2>1, <2>4
    <2>7. /\ Len(path) = Len(scopes[f][i].dims) /\ Len(path) <= 2
          /\ Locate(scopes[f][i], path) = <<[addr |-> at[1].addr, isCell |-> TRUE]>>
      <3>1. /\ Len(path) <= 2
            /\ at = <<[addr |-> at[1].addr, isCell |-> Len(path) = Len(scopes[f][i].dims)]>>
        BY <1>4, <2>4, <2>6, LocateCell
      <3>2. at[1].isCell = (Len(path) = Len(scopes[f][i].dims))
        BY <3>1
      <3>3. Len(path) = Len(scopes[f][i].dims)
        BY <1>4, <3>2
      <3>. QED
        BY <2>4, <3>1, <3>3
    <2>8. at[1].addr \in DOMAIN Loaded
      BY <1>4 DEF PanelTypes, MemType, Readable
    <2>9. FirstOfName(p) => i = v
      <3>1. v \in DOMAIN list /\ list[v].name = name /\ v \in Nat /\ i \in Nat
        BY <2>1, <2>4
      <3>2. ~(v < i)
        BY <2>5, <3>1
      <3>3. FirstOfName(p) => ~(i < v)
        BY <1>1, <2>4 DEF FirstOfName, SymbolOf
      <3>. QED
        BY <3>1, <3>2, <3>3
    <2>10. Wrote(f, v, path, i, at[1].addr, val, from)
      BY <1>4, <2>7 DEF Wrote
    <2>. QED
      BY <2>4, <2>7, <2>8, <2>9, <2>10
  <1>. QED
    BY <1>2, <1>3, <1>4

(* The trees show the memory as long as neither changes.                   *)
LEMMA SameTrees ==
    ASSUME TreesShow, UNCHANGED <<mem, scopes, frames, edited>>
    PROVE  TreesShow'
  <1>1. IsPaused' = IsPaused
    BY DEF IsPaused
  <1>2. ASSUME NEW f, NEW v, NEW q
        PROVE  ShownAt(f, v, q)' <=> ShownAt(f, v, q)
    <2>. DEFINE sym == scopes[f][v]
                p == VarPath(f, v, q)
    <2>1. sym' = sym /\ (\A a : SubArray(a)' = SubArray(a)) /\ (\A a : CellAt(a)' = CellAt(a))
      BY DEF SubArray, CellAt, Readable
    <2>2. \A s : Base(s)' = Base(s)
      BY DEF Base, Readable
    <2>3. \A s, i : RowAt(s, i)' = RowAt(s, i)
      BY <2>1, <2>2 DEF RowAt
    <2>4. \A s : AsCompiled(s)' <=> AsCompiled(s)
      BY <2>1, <2>2, <2>3 DEF AsCompiled, LeadingCells, Vector
    <2>5. FirstOfName(p)' <=> FirstOfName(p)
      BY DEF FirstOfName, SymbolOf, VarPath
    <2>6. \A s : Place(s, q)' = Place(s, q)
      BY <2>1, <2>2 DEF Place
    <2>7. (AsCompiled(scopes[f][v]))' <=> AsCompiled(scopes[f][v])
      BY <2>4 DEF AsCompiled, Base, Readable, LeadingCells, Vector, RowAt, SubArray
    <2>. QED
      BY <2>1, <2>2, <2>5, <2>6, <2>7 DEF ShownAt
  <1>. QED
    BY <1>1, <1>2 DEF TreesShow

(* An edit keeps the kinds, and every tree but its own.                    *)
LEMMA WroteTypes ==
    ASSUME PanelTypes, IsPaused, NEW f \in DOMAIN scopes, NEW v \in DOMAIN scopes[f],
           NEW path \in Seq(Nat), Len(path) <= 2, NEW a0 \in DOMAIN Loaded, NEW val \in Int,
           mem' = [mem EXCEPT ![a0] = val], DOMAIN edited' = DOMAIN edited \union {a0},
           frames' = [frames EXCEPT ![f][v] = Updated(frames[f][v], path, val)], scopes' = scopes
    PROVE  /\ MemType' /\ DOMAIN edited' = DOMAIN edited \union {a0} /\ DOMAIN edited' \subseteq Int
           /\ FramesMatch'
           /\ frames'[f][v] = Updated(frames[f][v], path, val)
           /\ \A g \in DOMAIN scopes : \A w \in DOMAIN scopes[g] :
                 ~(g = f /\ w = v) => frames'[g][w] = frames[g][w]
  <1>. DEFINE u == Updated(frames[f][v], path, val)
              new == [frames[f] EXCEPT ![v] = u]
  <1>1. /\ mem' = [mem EXCEPT ![a0] = val]
        /\ frames' = [frames EXCEPT ![f] = new]
        /\ DOMAIN edited' = DOMAIN edited \union {a0}
    OBVIOUS
  <1>2. MemType' /\ DOMAIN edited' \subseteq Int
    BY <1>1, PanelAssumption DEF PanelTypes, MemType
  <1>3. u \in Tree(scopes[f][v]) /\ scopes[f][v] \in Symbols
    BY InScope, UpdatedAny
  <1>4. u \in AnyTree
    BY <1>3 DEF AnyTree
  <1>. HIDE DEF u
  <1>5. /\ frames \in Seq(Seq(AnyTree)) /\ Len(frames) = Len(scopes)
        /\ frames[f] \in Seq(AnyTree) /\ Len(frames[f]) = Len(scopes[f])
        /\ f \in 1..Len(frames) /\ v \in 1..Len(frames[f])
        /\ DOMAIN frames = DOMAIN scopes /\ DOMAIN frames[f] = DOMAIN scopes[f]
    <2>1. FramesMatch
      BY DEF PanelTypes
    <2>2. /\ DOMAIN frames = DOMAIN scopes /\ DOMAIN frames[f] = DOMAIN scopes[f]
          /\ frames[f] \in Seq(AnyTree)
      BY InScope
    <2>3. frames \in Seq(Seq(AnyTree)) /\ Len(frames) = Len(scopes) /\ Len(frames[f]) = Len(scopes[f])
      BY <2>1 DEF FramesMatch
    <2>. QED
      BY <2>2, <2>3
  <1>6. new \in Seq(AnyTree) /\ Len(new) = Len(frames[f]) /\ new[v] = u
        /\ \A w \in DOMAIN scopes[f] : w # v => new[w] = frames[f][w]
    <2>1. /\ new \in Seq(AnyTree) /\ Len(new) = Len(frames[f])
          /\ \A j \in 1..Len(frames[f]) : new[j] = IF j = v THEN u ELSE frames[f][j]
      BY <1>4, <1>5, ExceptSeq
    <2>. HIDE DEF new
    <2>2. DOMAIN scopes[f] = 1..Len(frames[f])
      BY <1>5
    <2>. QED
      BY <2>1, <2>2, <1>5
  <1>. HIDE DEF new
  <1>7. /\ frames' \in Seq(Seq(AnyTree)) /\ Len(frames') = Len(frames)
        /\ \A g \in 1..Len(frames) : frames'[g] = IF g = f THEN new ELSE frames[g]
    <2>. DEFINE next == [frames EXCEPT ![f] = new]
    <2>1. /\ next \in Seq(Seq(AnyTree)) /\ Len(next) = Len(frames)
          /\ \A g \in 1..Len(frames) : next[g] = IF g = f THEN new ELSE frames[g]
      BY <1>5, <1>6, ExceptSeq
    <2>. HIDE DEF next
    <2>2. frames' = next
      BY <1>1 DEF next
    <2>. QED
      BY <2>1, <2>2
  <1>8. \A g \in DOMAIN scopes : frames'[g] = IF g = f THEN new ELSE frames[g]
    <2>1. DOMAIN scopes = 1..Len(frames)
      BY <1>5
    <2>. QED
      BY <1>7, <2>1
  <1>9. frames'[f][v] = u
    BY <1>6, <1>8
  <1>10. \A g \in DOMAIN scopes : \A w \in DOMAIN scopes[g] :
                 ~(g = f /\ w = v) => frames'[g][w] = frames[g][w]
    BY <1>6, <1>8
  <1>11. ASSUME NEW g \in DOMAIN scopes
         PROVE  /\ Len(frames'[g]) = Len(scopes[g])
                /\ \A w \in DOMAIN scopes[g] : frames'[g][w] \in Tree(scopes[g][w])
    <2>1. /\ Len(frames[g]) = Len(scopes[g])
          /\ \A w \in DOMAIN scopes[g] : frames[g][w] \in Tree(scopes[g][w])
      BY DEF PanelTypes, FramesMatch
    <2>2. Len(frames'[g]) = Len(scopes[g])
      BY <1>5, <1>6, <1>8, <2>1
    <2>. QED
      BY <1>3, <1>9, <1>10, <2>1, <2>2
  <1>12. FramesMatch'
    BY <1>5, <1>7, <1>11 DEF FramesMatch
  <1>. QED
    BY <1>1, <1>2, <1>9, <1>10, <1>12 DEF u

(* After an edit the trees show the memory again: the cell was edited      *)
(* under no other name, or is not claimed to be shown.                     *)
LEMMA WroteShows ==
    ASSUME PanelTypes, TreesShow, IsPaused, NEW f \in DOMAIN scopes, NEW v \in DOMAIN scopes[f],
           NEW path \in Seq(Nat), Len(path) <= 2, NEW i \in DOMAIN scopes[f], NEW a0 \in DOMAIN Loaded,
           NEW val \in Int, NEW from, Wrote(f, v, path, i, a0, val, from), scopes' = scopes,
           FirstOfName(VarPath(f, v, path)) => i = v
    PROVE  TreesShow'
  <1>. DEFINE p == VarPath(f, v, path)
  <1>1. /\ MemType /\ mem' = [mem EXCEPT ![a0] = val]
        /\ DOMAIN edited' = DOMAIN edited \union {a0}
        /\ edited' = [a \in DOMAIN edited \union {a0} |-> IF a = a0 THEN p ELSE edited[a]]
        /\ Locate(scopes[f][i], path) = <<[addr |-> a0, isCell |-> TRUE]>>
    BY DEF PanelTypes, Wrote
  <1>2. /\ frames'[f][v] = Updated(frames[f][v], path, val)
        /\ \A g \in DOMAIN scopes : \A w \in DOMAIN scopes[g] :
                 ~(g = f /\ w = v) => frames'[g][w] = frames[g][w]
    <2>1. frames' = [frames EXCEPT ![f][v] = Updated(frames[f][v], path, val)]
      BY DEF Wrote
    <2>. HIDE DEF p
    <2>2. mem' = [mem EXCEPT ![a0] = val] /\ DOMAIN edited' = DOMAIN edited \union {a0}
      BY <1>1
    <2>3. /\ MemType' /\ DOMAIN edited' = DOMAIN edited \union {a0} /\ DOMAIN edited' \subseteq Int
          /\ FramesMatch'
          /\ frames'[f][v] = Updated(frames[f][v], path, val)
          /\ \A g \in DOMAIN scopes : \A w \in DOMAIN scopes[g] :
                 ~(g = f /\ w = v) => frames'[g][w] = frames[g][w]
      BY <2>1, <2>2, WroteTypes
    <2>. QED
      BY <2>3
  <1>3. Kept(scopes[f][v], frames[f][v], Updated(frames[f][v], path, val), path, val)
    BY InScope, UpdatedAny
  <1>. SUFFICES ASSUME NEW g \in DOMAIN scopes, NEW w \in DOMAIN scopes[g], NEW q \in Seq(Nat),
                       Len(q) = Len(scopes[g][w].dims)
                PROVE  ShownAt(g, w, q)'
    BY DEF TreesShow
  <1>. DEFINE r == VarPath(g, w, q)
  <1>a. PICK sym : sym = scopes[g][w]
    OBVIOUS
  <1>. SUFFICES ASSUME Descend(frames'[g][w], q) # Nothing, AsCompiled(sym)'
                PROVE  /\ Len(q) = 2 => SubArray(Base(sym)[1] + q[1])' # Nothing
                       /\ FirstOfName(r) /\ (Place(sym, q)' \in DOMAIN edited' => edited'[Place(sym, q)'] = r) =>
                             Descend(frames'[g][w], q)[1].value = CellAt(<<Place(sym, q)>>)'
    <2>1. FirstOfName(r)' <=> FirstOfName(r)
      BY DEF FirstOfName, SymbolOf, VarPath
    <2>2. scopes'[g][w] = sym
      BY <1>a
    <2>. HIDE DEF r
    <2>. QED
      BY <2>1, <2>2 DEF ShownAt, r, AsCompiled, Base, Readable, LeadingCells, Vector, RowAt, SubArray,
                       SizesKnown, Place, CellAt
  <1>4. sym \in Symbols
    BY <1>a, InScope
  <1>5. AsCompiled(sym) /\ Base(sym)' = Base(sym)
    BY <1>1, <1>4, Stable
  <1>6. /\ Descend(frames[g][w], q) # Nothing
        /\ Descend(frames'[g][w], q)[1].value =
              IF g = f /\ w = v /\ q = path THEN Whole(val) ELSE Descend(frames[g][w], q)[1].value
    <2>1. CASE g = f /\ w = v
      <3>1. SamePath(q, path) <=> q = path
        <4>1. SamePath(path, q) <=> path = q
          BY SameShort
        <4>2. SamePath(q, path) <=> SamePath(path, q)
          BY DEF SamePath
        <4>. QED
          BY <4>1, <4>2
      <3>. QED
        BY <1>2, <1>3, <2>1, <3>1 DEF Kept
    <2>2. CASE ~(g = f /\ w = v)
      BY <1>2, <2>2
    <2>. QED
      BY <2>1, <2>2
  <1>. DEFINE a == Place(sym, q)
  <1>7. /\ a = AddressOf(sym, q) /\ a \in Int
        /\ Locate(sym, q) = <<[addr |-> a, isCell |-> TRUE]>>
        /\ Len(q) # 0 => q[1] \in 0..(ElementsShown(sym.dims[1]) - 1)
    BY <1>a, <1>5, <1>6, Located
  <1>8. ShownAt(g, w, q)
    BY DEF TreesShow
  <1>9. /\ Len(q) = 2 => SubArray(Base(sym)[1] + q[1]) # Nothing
        /\ FirstOfName(r) /\ (a \in DOMAIN edited => edited[a] = r) =>
              Descend(frames[g][w], q)[1].value = CellAt(<<a>>)
    BY <1>a, <1>5, <1>6, <1>8 DEF ShownAt
  <1>10. Len(q) = Len(sym.dims)
    BY <1>a
  <1>11. a' = a
    <2>1. Place(sym, q)' = Place(sym, q)
      BY <1>1, <1>4, <1>7, <1>10, Stable
    <2>. QED
      BY <2>1
  <1>12. Len(q) = 2 => SubArray(Base(sym)[1] + q[1])' = SubArray(Base(sym)[1] + q[1])
    <2>. SUFFICES ASSUME Len(q) = 2 PROVE SubArray(Base(sym)[1] + q[1])' = SubArray(Base(sym)[1] + q[1])
      OBVIOUS
    <2>1. Len(sym.dims) = 2 /\ q[1] \in 0..(ElementsShown(sym.dims[1]) - 1)
      BY <1>7, <1>10
    <2>2. \A k \in 0..(ElementsShown(sym.dims[1]) - 1) :
             SubArray(Base(sym)[1] + k)' = SubArray(Base(sym)[1] + k)
      BY <1>1, <1>4, <2>1, Stable
    <2>. QED
      BY <2>1, <2>2
  <1>. HIDE DEF a
  <1>13. ASSUME FirstOfName(r), a \in DOMAIN edited' => edited'[a] = r
         PROVE  Descend(frames'[g][w], q)[1].value = CellAt(<<a>>)'
    <2>1. CellAt(<<a>>)' = IF a \in DOMAIN mem' THEN Whole(mem'[a]) ELSE Nothing
      BY <1>11 DEF CellAt, Readable, Nothing
    <2>2. CASE a = a0
      <3>1. r = p
        BY <1>1, <1>13, <2>2
      <3>2. g = f /\ w = v /\ q = path
        BY <3>1 DEF VarPath
      <3>3. CellAt(<<a>>)' = Whole(val)
        BY <1>1, <2>1, <2>2 DEF MemType
      <3>. QED
        BY <1>6, <3>2, <3>3
    <2>3. CASE a # a0
      <3>1. a \in DOMAIN edited => edited[a] = r
        BY <1>1, <1>13, <2>3
      <3>2. ~(g = f /\ w = v /\ q = path)
        <4>. SUFFICES ASSUME g = f /\ w = v /\ q = path PROVE FALSE
          OBVIOUS
        <4>1. i = v
          BY <1>13
        <4>2. Locate(sym, q) = <<[addr |-> a0, isCell |-> TRUE]>>
          BY <1>a, <1>1, <4>1
        <4>. QED
          BY <1>7, <2>3, <4>2
      <3>3. CellAt(<<a>>)' = CellAt(<<a>>)
        <4>1. CellAt(<<a>>) = IF a \in DOMAIN mem THEN Whole(mem[a]) ELSE Nothing
          BY DEF CellAt, Readable, Nothing
        <4>. QED
          BY <1>1, <2>1, <2>3, <4>1 DEF MemType
      <3>. QED
        BY <1>6, <1>9, <1>13, <3>1, <3>2, <3>3
    <2>. QED
      BY <2>2, <2>3
  <1>14. Len(q) = 2 => SubArray(Base(sym)[1] + q[1])' # Nothing
    BY <1>9, <1>12
  <1>15. FirstOfName(r) /\ (a' \in DOMAIN edited' => edited'[a'] = r) =>
             Descend(frames'[g][w], q)[1].value = CellAt(<<a>>)'
    BY <1>11, <1>13
  <1>. QED
    BY <1>14, <1>15 DEF a

(* The symbol of a variable.                                               *)
StandsAt(sym, f, v) == sym = scopes[f][v]

(* So an edit keeps the types and the trees, and reached the cell its path *)
(* stands for.                                                             *)
LEMMA WriteKeeps ==
    ASSUME PanelTypes, TreesShow, IsPaused, NEW f \in DOMAIN scopes, NEW v \in DOMAIN scopes[f],
           NEW sym, StandsAt(sym, f, v),
           NEW path \in Seq(Nat), NEW val \in Int, NEW from,
           Write(VarPath(f, v, path), sym.name, val, from)
    PROVE  /\ PanelTypes' /\ TreesShow'
           /\ UNCHANGED <<scopes, refs, held>>
           /\ count'.traces = count.traces /\ count'.pauses = count.pauses
           /\ last' # Nothing =>
                 /\ last'[1].row = from
                 /\ FirstOfName(VarPath(f, v, path)) /\ AsCompiled(sym)'
                       /\ Descend(frames[f][v], path) # Nothing =>
                       last'[1].addr = AddressOf(sym, path)'
  <1>. DEFINE p == VarPath(f, v, path)
  <1>. USE DEF StandsAt
  <1>1. UNCHANGED <<scopes, refs, held>> /\ count' = [count EXCEPT !.edits = @ + 1]
    BY DEF Write
  <1>2. /\ count' \in [pauses : Nat, traces : Nat, edits : Nat]
        /\ count'.traces = count.traces /\ count'.pauses = count.pauses
    <2>1. count \in [pauses : Nat, traces : Nat, edits : Nat]
      BY DEF PanelTypes
    <2>. QED
      BY <1>1, <2>1
  <1>3. /\ (\A g \in DOMAIN scopes' : g < RefBase) /\ scopes' \in Seq(Seq(Symbols))
        /\ refs' \in Seq(RefPaths)
    BY <1>1 DEF PanelTypes
  <1>4. \/ UNCHANGED <<mem, frames, edited>> /\ last' = Nothing
        \/ \E i \in DOMAIN scopes[f] : \E a0 \in DOMAIN Loaded :
                /\ scopes[f][i].name = scopes[f][v].name
                /\ FirstOfName(p) => i = v
                /\ Len(path) = Len(scopes[f][i].dims) /\ Len(path) <= 2
                /\ Wrote(f, v, path, i, a0, val, from)
    BY WriteWrote
  <1>5. CASE UNCHANGED <<mem, frames, edited>> /\ last' = Nothing
    <2>1. TreesShow'
      BY <1>1, <1>5, SameTrees
    <2>2. PanelTypes'
      BY <1>1, <1>2, <1>3, <1>5 DEF PanelTypes, MemType, IsPaused, FramesMatch
    <2>. QED
      BY <1>1, <1>2, <1>5, <2>1, <2>2
  <1>6. ASSUME NEW i \in DOMAIN scopes[f], NEW a0 \in DOMAIN Loaded,
               FirstOfName(p) => i = v,
               Len(path) = Len(scopes[f][i].dims), Len(path) <= 2,
               Wrote(f, v, path, i, a0, val, from)
        PROVE  /\ PanelTypes' /\ TreesShow'
               /\ last' # Nothing =>
                 /\ last'[1].row = from
                 /\ FirstOfName(p) /\ AsCompiled(sym)' /\ Descend(frames[f][v], path) # Nothing =>
                       last'[1].addr = AddressOf(sym, path)'
    <2>1. TreesShow'
      BY <1>1, <1>6, WroteShows
    <2>2. /\ mem' = [mem EXCEPT ![a0] = val] /\ DOMAIN edited' = DOMAIN edited \union {a0}
          /\ frames' = [frames EXCEPT ![f][v] = Updated(frames[f][v], path, val)]
          /\ scopes' = scopes
          /\ last' = <<[row |-> from, addr |-> a0]>>
          /\ Locate(scopes[f][i], path) = <<[addr |-> a0, isCell |-> TRUE]>>
      BY <1>1, <1>6 DEF Wrote
    <2>3. /\ MemType' /\ DOMAIN edited' \subseteq Int /\ FramesMatch'
      <3>1. /\ mem' = [mem EXCEPT ![a0] = val] /\ DOMAIN edited' = DOMAIN edited \union {a0}
            /\ frames' = [frames EXCEPT ![f][v] = Updated(frames[f][v], path, val)]
            /\ scopes' = scopes
        BY <2>2
      <3>2. /\ MemType' /\ DOMAIN edited' = DOMAIN edited \union {a0} /\ DOMAIN edited' \subseteq Int
            /\ FramesMatch'
            /\ frames'[f][v] = Updated(frames[f][v], path, val)
            /\ \A g \in DOMAIN scopes : \A w \in DOMAIN scopes[g] :
                 ~(g = f /\ w = v) => frames'[g][w] = frames[g][w]
        BY <3>1, <1>6, WroteTypes
      <3>. QED
        BY <3>2
    <2>4. PanelTypes'
      BY <1>2, <1>3, <2>3 DEF PanelTypes
    <2>5. ASSUME FirstOfName(p), AsCompiled(sym)', Descend(frames[f][v], path) # Nothing
          PROVE  a0 = AddressOf(sym, path)'
      <3>1. i = v /\ sym \in Symbols /\ MemType
        BY <1>6, <2>5, InScope DEF PanelTypes
      <3>2. Len(path) = Len(sym.dims)
        BY <1>6, <3>1
      <3>3. AsCompiled(sym)
        BY <2>2, <2>5, <3>1, Stable
      <3>4. /\ Place(sym, path) = AddressOf(sym, path)
            /\ Locate(sym, path) = <<[addr |-> Place(sym, path), isCell |-> TRUE]>>
            /\ Len(path) # 0 => path[1] \in 0..(ElementsShown(sym.dims[1]) - 1)
        BY <2>5, <3>2, <3>3, Located
      <3>5. a0 = AddressOf(sym, path)
        BY <2>2, <3>1, <3>4
      <3>6. AddressOf(sym, path)' = AddressOf(sym, path)
        BY <2>2, <2>5, <3>1, <3>2, <3>4, Stable
      <3>. QED
        BY <3>5, <3>6
    <2>. QED
      BY <2>1, <2>2, <2>4, <2>5
  <1>. QED
    BY <1>1, <1>2, <1>4, <1>5, <1>6

(* A row of this pause and this stack trace: its reference is the one the  *)
(* node it was made for has now.                                           *)
RowRight(r, row) ==
    \/ /\ r - RefBase + 1 \in DOMAIN refs /\ row.name = "[]"
       /\ row.stands = [refs[r - RefBase + 1] EXCEPT !.path = Append(@, row.index)]
    \/ /\ r < RefBase /\ FrameIndex(r) \in DOMAIN scopes
       /\ \E v \in DOMAIN scopes[FrameIndex(r)] :
             row.stands = VarPath(FrameIndex(r), v, <<>>) /\ row.name = scopes[FrameIndex(r)][v].name

(* The row in hand is one the session gave, and is right unless it has     *)
(* become stale.                                                           *)
HeldRight ==
    held # Nothing =>
        LET row == held[1]
        IN  /\ held = <<row>>
            /\ row.reference \in Int /\ row.index \in Nat
            /\ row.trace \in Nat /\ row.trace <= count.traces
            /\ row.pause \in Nat /\ row.pause <= count.pauses
            /\ row.trace = count.traces /\ row.pause = count.pauses => RowRight(row.reference, row)

(* The path of such a row is that of the node it was made for, if it has a *)
(* path.                                                                   *)
LEMMA RowPathRight ==
    ASSUME PanelTypes, HeldRight, IsPaused, held # Nothing, NEW row, row = held[1], RowPath(row) # Nothing
    PROVE  \E f \in DOMAIN scopes : \E v \in DOMAIN scopes[f] : \E path \in Seq(Nat) :
              /\ RowPath(row) = <<VarPath(f, v, path)>>
              /\ Root(VarPath(f, v, path)) = <<frames[f][v]>>
              /\ row.trace = count.traces /\ row.pause = count.pauses /\ FirstOfName(row.stands) =>
                    row.stands = VarPath(f, v, path) /\ Descend(frames[f][v], path) # Nothing
  <1>. DEFINE r == row.reference
              k == r - RefBase + 1
  <1>1. /\ r \in Int /\ row.index \in Nat
        /\ row.trace = count.traces /\ row.pause = count.pauses =>
                 \/ /\ k \in DOMAIN refs /\ row.name = "[]"
                    /\ row.stands = [refs[k] EXCEPT !.path = Append(@, row.index)]
                 \/ /\ r < RefBase /\ FrameIndex(r) \in DOMAIN scopes
                    /\ \E v \in DOMAIN scopes[FrameIndex(r)] :
                          row.stands = VarPath(FrameIndex(r), v, <<>>)
                             /\ row.name = scopes[FrameIndex(r)][v].name
    BY DEF HeldRight, RowRight
  <1>2. RefBase \in Nat /\ refs \in Seq(RefPaths) /\ DOMAIN frames = DOMAIN scopes
    BY PanelAssumption DEF PanelTypes, FramesMatch
  <1>. HIDE DEF r
  <1>3. ArrayAt(r) = IF k \in DOMAIN refs THEN <<refs[k]>> ELSE Nothing
    BY DEF ArrayAt
  <1>4. ASSUME NEW f, NEW v, v \in DOMAIN FrameVars(f)
        PROVE  /\ f \in DOMAIN scopes /\ v \in DOMAIN scopes[f] /\ FrameVars(f) = frames[f]
               /\ \A path : Root(VarPath(f, v, path)) = <<frames[f][v]>>
    <2>1. f \in DOMAIN frames /\ FrameVars(f) = frames[f]
      BY <1>4 DEF FrameVars
    <2>2. f \in DOMAIN scopes /\ DOMAIN frames[f] = DOMAIN scopes[f]
      <3>1. FramesMatch /\ f \in DOMAIN scopes
        BY <1>2, <2>1 DEF PanelTypes
      <3>2. Len(frames[f]) = Len(scopes[f]) /\ frames[f] \in Seq(AnyTree) /\ scopes[f] \in Seq(Symbols)
        BY <2>1, <3>1 DEF FramesMatch, PanelTypes
      <3>. QED
        BY <3>1, <3>2
    <2>3. \A path : Root(VarPath(f, v, path)) = <<frames[f][v]>>
      BY <1>4, <2>1 DEF Root, VarPath
    <2>. QED
      BY <1>4, <2>1, <2>2, <2>3
  <1>5. CASE k \in DOMAIN refs
    <2>. DEFINE path == Append(refs[k].path, row.index)
                f == refs[k].frame
                v == refs[k].var
                p == [refs[k] EXCEPT !.path = Append(@, row.index)]
    <2>1. refs[k] \in VarPaths
      BY <1>2, <1>5 DEF RefPaths
    <2>2. p = VarPath(f, v, path) /\ path \in Seq(Nat)
      <3>1. /\ refs[k] = [frame |-> f, var |-> v, path |-> refs[k].path]
            /\ refs[k].path \in Seq(Nat)
        BY <2>1 DEF VarPaths
      <3>2. path \in Seq(Nat)
        BY <1>1, <3>1, AppendProperties
      <3>3. p = [refs[k] EXCEPT !.path = path]
        OBVIOUS
      <3>. HIDE DEF p, path
      <3>4. p = [frame |-> f, var |-> v, path |-> path]
        BY <3>1, <3>3
      <3>. QED
        BY <3>2, <3>4 DEF VarPath
    <2>3. ArrayAt(r) = <<refs[k]>> /\ ArrayAt(r) # Nothing
      BY <1>3, <1>5 DEF Nothing
    <2>4. Element(r, row.index) = IF Node(p) = Nothing THEN Nothing
                                  ELSE IF Node(p)[1].children # <<>> THEN Nothing ELSE <<p>>
      BY <2>3 DEF Element
    <2>. HIDE DEF p
    <2>5. RowPath(row) = <<p>> /\ Node(p) # Nothing
      BY <2>3, <2>4 DEF RowPath, r
    <2>. HIDE DEF path, f, v
    <2>6. Root(p) # Nothing /\ Node(p) = Descend(Root(p)[1], path)
      BY <2>2, <2>5 DEF Node, VarPath
    <2>7. v \in DOMAIN FrameVars(f)
      BY <2>2, <2>6 DEF Root, VarPath
    <2>8. f \in DOMAIN scopes /\ v \in DOMAIN scopes[f] /\ Root(VarPath(f, v, path)) = <<frames[f][v]>>
      BY <1>4, <2>7
    <2>9. Descend(frames[f][v], path) # Nothing
      BY <2>2, <2>5, <2>6, <2>8
    <2>10. row.trace = count.traces /\ row.pause = count.pauses => row.stands = p
      <3>1. r < RefBase => k < 1
        BY <1>1, <1>2
      <3>2. ~(k < 1)
        BY <1>2, <1>5
      <3>. QED
        BY <1>1, <3>1, <3>2 DEF p
    <2>. QED
      BY <2>2, <2>5, <2>8, <2>9, <2>10
  <1>6. CASE k \notin DOMAIN refs
    <2>. DEFINE f == FrameIndex(r)
                v == Find(FrameVars(f), row.name)
    <2>1. ArrayAt(r) = Nothing
      BY <1>3, <1>6
    <2>2. v # 0 /\ RowPath(row) = <<VarPath(f, v, <<>>)>>
      BY <2>1 DEF RowPath, r
    <2>3. Len(FrameVars(f)) \in Nat /\ DOMAIN FrameVars(f) = 1..Len(FrameVars(f))
      <3>1. CASE f \in DOMAIN frames
        <4>1. frames[f] \in Seq(AnyTree)
          BY <3>1 DEF PanelTypes, FramesMatch
        <4>. HIDE DEF f
        <4>. QED
          BY <3>1, <4>1 DEF FrameVars
      <3>2. CASE f \notin DOMAIN frames
        <4>1. FrameVars(f) = <<>>
          BY <3>2 DEF FrameVars
        <4>2. Len(<<>>) = 0 /\ DOMAIN <<>> = 1..0
          OBVIOUS
        <4>. QED
          BY <4>1, <4>2
      <3>. QED
        BY <3>1, <3>2
    <2>. DEFINE list == FrameVars(f)
    <2>4. \/ v = 0 /\ \A n \in 1..Len(list) : list[n].name # row.name
          \/ /\ v \in 1..Len(list) /\ list[v].name = row.name
             /\ \A n \in 1..Len(list) : n < v => list[n].name # row.name
      <3>. DEFINE name == row.name
                  i == SelectInSeq(list, LAMBDA x : x.name = name)
      <3>1. v = i
        BY Zenon DEF Find
      <3>2. \/ i = 0 /\ \A n \in 1..Len(list) : list[n].name # name
            \/ /\ i \in 1..Len(list) /\ list[i].name = name
               /\ \A n \in 1..Len(list) : n < i => list[n].name # name
        <4>1. Len(list) \in Nat
          BY <2>3
        <4>. HIDE DEF list
        <4>. QED
          BY <4>1, FindFirst
      <3>. HIDE DEF v, i, list
      <3>. QED
        BY <3>1, <3>2
    <2>. HIDE DEF v, f
    <2>5. v \in DOMAIN FrameVars(f) /\ FrameVars(f)[v].name = row.name
          /\ \A n \in DOMAIN FrameVars(f) : n < v => FrameVars(f)[n].name # row.name
      BY <2>2, <2>3, <2>4
    <2>6. /\ f \in DOMAIN scopes /\ v \in DOMAIN scopes[f] /\ FrameVars(f) = frames[f]
          /\ Root(VarPath(f, v, <<>>)) = <<frames[f][v]>>
      BY <1>4, <2>5
    <2>7. \A n \in DOMAIN scopes[f] : n \in Nat /\ n \in DOMAIN frames[f] /\ frames[f][n].name = scopes[f][n].name
      BY <2>6, InScope
    <2>8. <<>> \in Seq(Nat)
      OBVIOUS
    <2>9. Descend(frames[f][v], <<>>) # Nothing
      <3>1. Len(<<>>) = 0
        OBVIOUS
      <3>2. Descend(frames[f][v], <<>>) = <<frames[f][v]>>
        BY <2>8, <3>1, DescendAt
      <3>. QED
        BY <3>2 DEF Nothing
    <2>10. ASSUME row.trace = count.traces, row.pause = count.pauses, FirstOfName(row.stands)
           PROVE  row.stands = VarPath(f, v, <<>>)
      <3>1. PICK w \in DOMAIN scopes[f] : row.stands = VarPath(f, w, <<>>) /\ row.name = scopes[f][w].name
        BY <1>1, <1>6, <2>10 DEF f
      <3>2. ~(w < v)
        BY <2>5, <2>6, <2>7, <3>1
      <3>3. ~(v < w)
        BY <2>5, <2>6, <2>7, <2>10, <3>1 DEF FirstOfName, SymbolOf, VarPath
      <3>. QED
        BY <2>6, <2>7, <3>1, <3>2, <3>3
    <2>. QED
      BY <2>2, <2>6, <2>8, <2>9, <2>10
  <1>. QED
    BY <1>5, <1>6

(* EditsReachTheirRow, of a row and an address that do not change.         *)
ReachesRow(row, addr) ==
    LET p == row.stands
    IN  row.trace = count.traces /\ row.pause = count.pauses
            /\ FirstOfName(p) /\ AsCompiled(SymbolOf(p)) => addr = AddressOf(SymbolOf(p), p.path)
EditReaches ==
    last # Nothing /\ last[1].row # Nothing =>
        \A row, addr : row = last[1].row[1] /\ addr = last[1].addr => ReachesRow(row, addr)

(* Said of the last edit, that is EditsReachTheirRow.                      *)
LEMMA EditsAreReached == EditReaches => EditsReachTheirRow
  BY DEF EditReaches, ReachesRow, EditsReachTheirRow

(* The inductive invariant. The two properties alone are not inductive:    *)
(* that an edit reaches its row rests on the references and the trees of   *)
(* the session.                                                            *)
PanelInv == PanelTypes /\ TreesShow /\ HeldRight /\ EditReaches

(* A row stays right while no reference changes.                           *)
LEMMA SameHeld ==
    ASSUME HeldRight, UNCHANGED <<held, refs, scopes>>,
           count'.traces = count.traces, count'.pauses = count.pauses
    PROVE  HeldRight'
  BY DEF HeldRight, RowRight, FrameIndex, VarPath

(* A step that edits nothing reaches no row.                               *)
LEMMA NothingWritten ==
    ASSUME last' = Nothing
    PROVE  EditReaches'
  BY DEF EditReaches

(* A function on 1..n is a sequence.                                       *)
LEMMA IsTuple ==
    ASSUME NEW n \in Nat, NEW S, NEW s \in [1..n -> S]
    PROVE  s \in Seq(S) /\ Len(s) = n
  <1>1. s \in Seq(S)
    BY SeqDef
  <1>2. DOMAIN s = 1..n /\ DOMAIN s = 1..Len(s) /\ Len(s) \in Nat
    BY <1>1
  <1>3. \A a, b \in Nat : 1..a = 1..b => a = b
    <2>. SUFFICES ASSUME NEW a \in Nat, NEW b \in Nat, 1..a = 1..b, a < b PROVE FALSE
      OBVIOUS
    <2>1. b \in 1..b /\ b \notin 1..a
      OBVIOUS
    <2>. QED
      BY <2>1
  <1>. QED
    BY <1>1, <1>2, <1>3

(* It holds before the first pause.                                        *)
LEMMA PanelStart == PanelInit => PanelInv
  <1>. SUFFICES ASSUME PanelInit PROVE PanelInv
    OBVIOUS
  <1>1. DOMAIN <<>> = {} /\ <<>> \in Seq(Seq(Symbols)) /\ <<>> \in Seq(RefPaths)
    OBVIOUS
  <1>2. PanelTypes
    BY <1>1, PanelAssumption DEF PanelInit, PanelTypes, MemType, IsPaused
  <1>. QED
    BY <1>2 DEF PanelInit, PanelInv, TreesShow, IsPaused, HeldRight, EditReaches

(* Pause: the trees are collected, and all earlier rows are of another     *)
(* pause.                                                                  *)
LEMMA PauseStep == PanelInv /\ Pause => PanelInv'
  <1>. SUFFICES ASSUME PanelInv, Pause PROVE PanelInv'
    OBVIOUS
  <1>1. PICK stop : stop = scopes'
    OBVIOUS
  <1>2. /\ stop \in Stops /\ stop \in Seq(Seq(Symbols)) /\ Len(stop) < RefBase
        /\ frames' = [f \in DOMAIN stop |-> Collect(stop[f])]
        /\ edited' = <<>> /\ DOMAIN edited' = {}
        /\ last' = Nothing /\ UNCHANGED <<mem, refs, held>>
    BY <1>1, PanelAssumption DEF Pause
  <1>3. /\ count \in [pauses : Nat, traces : Nat, edits : Nat]
        /\ count' = [count EXCEPT !.pauses = @ + 1]
    BY DEF PanelInv, PanelTypes, Pause
  <1>4. /\ count' \in [pauses : Nat, traces : Nat, edits : Nat]
        /\ count'.traces = count.traces /\ count'.pauses = count.pauses + 1
    BY <1>3
  <1>5. MemType
    BY DEF PanelInv, PanelTypes
  <1>6. ASSUME NEW f \in DOMAIN stop
        PROVE  /\ f < RefBase
               /\ stop[f] \in Seq(Symbols)
               /\ Collect(stop[f]) \in Seq(AnyTree) /\ Len(Collect(stop[f])) = Len(stop[f])
               /\ \A v \in DOMAIN stop[f] :
                     /\ Collect(stop[f])[v] \in Tree(stop[f][v]) /\ stop[f][v] \in Symbols
                     /\ \A q \in Seq(Nat) :
                          Len(q) = Len(stop[f][v].dims) /\ Descend(Collect(stop[f])[v], q) # Nothing =>
                             ShowsNow(stop[f][v], Collect(stop[f])[v], q)
    <2>1. stop[f] \in Seq(Symbols) /\ f \in 1..Len(stop)
      BY <1>2
    <2>2. f < RefBase
      BY <1>2, <2>1, PanelAssumption
    <2>. DEFINE scope == stop[f]
    <2>. HIDE DEF scope
    <2>3. scope \in Seq(Symbols)
      BY <2>1 DEF scope
    <2>4. \A v \in DOMAIN scope :
             /\ Collect(scope)[v] \in Tree(scope[v]) /\ scope[v] \in Symbols
             /\ \A q \in Seq(Nat) :
                   Len(q) = Len(scope[v].dims) /\ Descend(Collect(scope)[v], q) # Nothing =>
                       ShowsNow(scope[v], Collect(scope)[v], q)
      BY <1>5, <2>3, CollectedTree
    <2>5. Collect(scope) = [v \in DOMAIN scope |-> Collect(scope)[v]]
      BY DEF Collect
    <2>6. Len(scope) \in Nat /\ DOMAIN scope = 1..Len(scope)
      BY <2>3
    <2>7. Collect(scope) \in [1..Len(scope) -> AnyTree]
      BY <2>4, <2>5, <2>6 DEF AnyTree
    <2>8. Collect(scope) \in Seq(AnyTree) /\ Len(Collect(scope)) = Len(scope)
      BY <2>6, <2>7, IsTuple
    <2>. QED
      BY <2>2, <2>3, <2>4, <2>8 DEF scope
  <1>7. FramesMatch'
    <2>1. Len(stop) \in Nat /\ DOMAIN stop = 1..Len(stop)
      BY <1>2
    <2>2. frames' \in [1..Len(stop) -> Seq(AnyTree)]
      BY <1>2, <1>6, <2>1
    <2>3. frames' \in Seq(Seq(AnyTree)) /\ Len(frames') = Len(stop)
      BY <2>1, <2>2, IsTuple
    <2>4. \A f \in DOMAIN stop : frames'[f] = Collect(stop[f])
      BY <1>2
    <2>. QED
      BY <1>1, <1>6, <2>3, <2>4 DEF FramesMatch
  <1>8. PanelTypes'
    <2>1. MemType'
      BY <1>2, <1>5 DEF MemType
    <2>2. refs' \in Seq(RefPaths)
      BY <1>2 DEF PanelInv, PanelTypes
    <2>. QED
      BY <1>1, <1>2, <1>4, <1>6, <1>7, <2>1, <2>2 DEF PanelTypes
  <1>9. TreesShow'
    <2>. SUFFICES ASSUME NEW f \in DOMAIN stop, NEW v \in DOMAIN stop[f], NEW q \in Seq(Nat),
                         Len(q) = Len(stop[f][v].dims)
                  PROVE  ShownAt(f, v, q)'
      BY <1>1 DEF TreesShow
    <2>1. frames'[f][v] = Collect(stop[f])[v] /\ scopes'[f][v] = stop[f][v]
      BY <1>1, <1>2
    <2>. DEFINE t == Collect(stop[f])[v]
    <2>2. PICK sym : sym = stop[f][v]
      OBVIOUS
    <2>3. Descend(t, q) # Nothing => ShowsNow(sym, t, q)
      BY <1>6, <2>2
    <2>. HIDE DEF t
    <2>4. /\ Base(sym)' = Base(sym) /\ Place(sym, q)' = Place(sym, q)
          /\ SubArray(Base(sym)[1] + q[1])' = SubArray(Base(sym)[1] + q[1])
          /\ CellAt(<<Place(sym, q)>>)' = CellAt(<<Place(sym, q)>>)
      BY <1>2 DEF Base, Readable, Place, SubArray, CellAt
    <2>5. AsCompiled(sym)' => Base(sym) # Nothing
      BY <2>4 DEF AsCompiled
    <2>6. Descend(t, q) # Nothing /\ AsCompiled(sym)' =>
             /\ Len(q) = 2 => SubArray(Base(sym)[1] + q[1])' # Nothing
             /\ Descend(t, q)[1].value = CellAt(<<Place(sym, q)>>)'
      BY <2>3, <2>4, <2>5 DEF ShowsNow
    <2>7. scopes'[f][v] = sym /\ frames'[f][v] = t
      BY <2>1, <2>2 DEF t
    <2>. QED
      BY <2>6, <2>7 DEF ShownAt, AsCompiled, Base, Readable, LeadingCells, Vector, RowAt, SubArray,
                       SizesKnown, Place, CellAt
  <1>10. HeldRight'
    BY <1>2, <1>3, <1>4 DEF PanelInv, HeldRight
  <1>. QED
    BY <1>2, <1>8, <1>9, <1>10, NothingWritten DEF PanelInv

(* Resume: there are no trees.                                             *)
LEMMA ResumeStep == PanelInv /\ Resume => PanelInv'
  <1>. SUFFICES ASSUME PanelInv, Resume PROVE PanelInv'
    OBVIOUS
  <1>1. frames' = <<>> /\ last' = Nothing /\ UNCHANGED <<scopes, refs, held, edited, count>>
    BY DEF Resume
  <1>2. MemType'
    BY PanelAssumption DEF PanelInv, PanelTypes, MemType, Resume
  <1>3. PanelTypes'
    BY <1>1, <1>2 DEF PanelInv, PanelTypes, IsPaused
  <1>4. TreesShow'
    BY <1>1 DEF TreesShow, IsPaused
  <1>5. HeldRight'
    BY <1>1, SameHeld DEF PanelInv
  <1>. QED
    BY <1>1, <1>3, <1>4, <1>5, NothingWritten DEF PanelInv

(* stackTrace: the references begin again, and all earlier rows are stale. *)
LEMMA StackTraceStep == PanelInv /\ StackTrace => PanelInv'
  <1>. SUFFICES ASSUME PanelInv, StackTrace PROVE PanelInv'
    OBVIOUS
  <1>1. refs' = <<>> /\ last' = Nothing /\ UNCHANGED <<mem, scopes, frames, held, edited>>
    BY DEF StackTrace
  <1>2. /\ count \in [pauses : Nat, traces : Nat, edits : Nat]
        /\ count' = [count EXCEPT !.traces = @ + 1]
    BY DEF PanelInv, PanelTypes, StackTrace
  <1>3. /\ count' \in [pauses : Nat, traces : Nat, edits : Nat]
        /\ count'.pauses = count.pauses /\ count'.traces = count.traces + 1
    BY <1>2
  <1>4. <<>> \in Seq(RefPaths)
    OBVIOUS
  <1>5. PanelTypes'
    BY <1>1, <1>3, <1>4 DEF PanelInv, PanelTypes, MemType, IsPaused, FramesMatch
  <1>6. TreesShow'
    BY <1>1, SameTrees DEF PanelInv
  <1>7. HeldRight'
    BY <1>1, <1>2, <1>3 DEF PanelInv, HeldRight
  <1>. QED
    BY <1>1, <1>5, <1>6, <1>7, NothingWritten DEF PanelInv

(* The paths of the children of a node that has a reference, and which of  *)
(* them may get one.                                                       *)
LEMMA ChildNode ==
    ASSUME PanelTypes, IsPaused, NEW p \in RefPaths, Node(p) # Nothing
    PROVE  /\ Len(Node(p)[1].children) \in Nat
           /\ \A i \in 1..Len(Node(p)[1].children) :
                 LET m == [p EXCEPT !.path = Append(@, i - 1)]
                 IN  m \in VarPaths /\ (Node(m)[1].children # <<>> => m \in RefPaths)
  <1>. DEFINE f == p.frame
              v == p.var
              path == p.path
              t == frames[f][v]
              node == Node(p)[1]
  <1>1. /\ p = [frame |-> f, var |-> v, path |-> path]
        /\ f \in Nat /\ v \in Nat /\ path \in Seq(Nat) /\ Len(path) <= 1
    BY DEF RefPaths, VarPaths
  <1>2. Root(p) # Nothing /\ v \in DOMAIN FrameVars(f) /\ Root(p) = <<FrameVars(f)[v]>>
    BY DEF Node, Root
  <1>3. f \in DOMAIN frames /\ v \in DOMAIN frames[f] /\ Root(p) = <<t>>
    BY <1>2 DEF FrameVars
  <1>4. f \in DOMAIN scopes /\ v \in DOMAIN scopes[f]
    <2>1. /\ FramesMatch /\ frames \in Seq(Seq(AnyTree)) /\ Len(frames) = Len(scopes)
          /\ scopes \in Seq(Seq(Symbols))
      BY DEF PanelTypes, FramesMatch
    <2>2. f \in DOMAIN scopes
      BY <1>3, <2>1
    <2>3. Len(frames[f]) = Len(scopes[f]) /\ frames[f] \in Seq(AnyTree) /\ scopes[f] \in Seq(Symbols)
      BY <1>3, <2>1, <2>2 DEF FramesMatch
    <2>. QED
      BY <1>3, <2>2, <2>3
  <1>5. PICK sym \in Symbols : sym = scopes[f][v]
    BY <1>4, InScope
  <1>6. t \in Tree(sym)
    BY <1>4, <1>5, InScope
  <1>7. ASSUME NEW q
        PROVE  Node([frame |-> f, var |-> v, path |-> q]) = Descend(t, q)
    <2>. DEFINE r == [frame |-> f, var |-> v, path |-> q]
    <2>1. Root(r) = <<t>> /\ r.path = q
      BY <1>2, <1>3 DEF Root
    <2>. HIDE DEF r
    <2>. HIDE DEF t
    <2>2. <<t>> # Nothing /\ <<t>>[1] = t
      BY DEF Nothing
    <2>3. Node(r) = IF Root(r) = Nothing THEN Nothing ELSE Descend(Root(r)[1], r.path)
      BY Zenon DEF Node
    <2>4. Node(r) = Descend(Root(r)[1], r.path)
      BY <2>1, <2>2, <2>3
    <2>5. Root(r)[1] = t
      BY <2>1, <2>2
    <2>6. Node(r) = Descend(t, q)
      BY <2>1, <2>4, <2>5
    <2>. QED
      BY <2>6 DEF r
  <1>. HIDE DEF f, v, t
  <1>8. Node(p) = Descend(t, path)
    BY <1>1, <1>7
  <1>9. ASSUME NEW i \in Nat \ {0}
        PROVE  LET m == [p EXCEPT !.path = Append(@, i - 1)]
               IN  /\ m = [frame |-> f, var |-> v, path |-> Append(path, i - 1)]
                   /\ m \in VarPaths /\ m.path = Append(path, i - 1)
                   /\ Append(path, i - 1) \in Seq(Nat) /\ Len(Append(path, i - 1)) = Len(path) + 1
                   /\ Node(m) = Descend(t, Append(path, i - 1))
    <2>. DEFINE q == Append(path, i - 1)
                m == [p EXCEPT !.path = q]
    <2>1. i - 1 \in Nat
      OBVIOUS
    <2>2. q \in Seq(Nat) /\ Len(q) = Len(path) + 1
      BY <1>1, <2>1, AppendProperties
    <2>. HIDE DEF q, path
    <2>3. m = [frame |-> f, var |-> v, path |-> q]
      BY <1>1
    <2>4. m \in VarPaths
      BY <1>1, <2>2, <2>3 DEF VarPaths
    <2>5. Node(m) = Descend(t, q)
      BY <1>7, <2>3
    <2>6. m.path = q
      BY <2>3
    <2>. HIDE DEF m
    <2>. QED
      BY <2>2, <2>3, <2>4, <2>5, <2>6 DEF m, q, path
  <1>10. CASE Len(path) = 0
    <2>1. Node(p) = <<t>>
      BY <1>1, <1>8, <1>10, DescendAt
    <2>2. Len(t.children) \in Nat
      <3>1. t.children \in Children(sym.dims)
        BY <1>6 DEF Tree
      <3>2. t.children # <<>> => t.children \in [1..ElementsShown(sym.dims[1]) -> Members(sym.dims)]
                                 /\ Len(sym.dims) # 0
        BY <3>1 DEF Children
      <3>3. Len(sym.dims) # 0 => ElementsShown(sym.dims[1]) \in Nat
        BY SymbolDims
      <3>4. Len(<<>>) \in Nat
        OBVIOUS
      <3>. QED
        BY <3>2, <3>3, <3>4, IsTuple
    <2>3. ASSUME NEW i \in 1..Len(t.children)
          PROVE  LET m == [p EXCEPT !.path = Append(@, i - 1)]
                 IN  m \in VarPaths /\ m \in RefPaths
      <3>1. i \in Nat \ {0}
        BY <2>2
      <3>. DEFINE m == [p EXCEPT !.path = Append(@, i - 1)]
      <3>2. m \in VarPaths /\ m.path = Append(path, i - 1) /\ Len(Append(path, i - 1)) = Len(path) + 1
        BY <1>9, <3>1
      <3>. HIDE DEF m, path
      <3>3. Len(m.path) <= 1
        BY <1>10, <3>2
      <3>. QED
        BY <3>2, <3>3 DEF RefPaths, m
    <2>. QED
      BY <2>1, <2>2, <2>3
  <1>11. CASE Len(path) = 1
    <2>. DEFINE a == path[1]
                n == t.children[a + 1]
    <2>1. a \in Nat /\ Node(p) = Child(<<t>>, a)
      BY <1>1, <1>8, <1>11, DescendAt, Parts
    <2>. HIDE DEF a
    <2>2. Len(sym.dims) # 0 /\ t.children # <<>> /\ a < ElementsShown(sym.dims[1]) /\ Node(p) = <<n>>
      <3>1. Len(sym.dims) # 0
        BY <1>6, <2>1, TopOf
      <3>2. Child(<<t>>, a) = IF t.children # <<>> /\ a < ElementsShown(sym.dims[1]) THEN <<n>> ELSE Nothing
        BY <1>6, <2>1, <3>1, TopOf
      <3>. QED
        BY <2>1, <3>1, <3>2
    <2>3. n \in Members(sym.dims)
      <3>1. t.children \in [1..ElementsShown(sym.dims[1]) -> Members(sym.dims)]
        BY <1>6, <2>1, <2>2, TopOf
      <3>2. a + 1 \in 1..ElementsShown(sym.dims[1])
        <4>1. ElementsShown(sym.dims[1]) \in Nat
          BY <2>2, SymbolDims
        <4>. QED
          BY <2>1, <2>2, <4>1
      <3>. QED
        BY <3>1, <3>2
    <2>. HIDE DEF n
    <2>4. /\ Len(n.children) \in Nat
          /\ \A i \in 1..Len(n.children) :
                i \in DOMAIN n.children /\ n.children[i].children = <<>>
      <3>1. n.children # <<>> => n.children \in [1..ElementsShown(sym.dims[2]) -> Leaves] /\ ElementsShown(sym.dims[2]) \in Nat
        <4>1. Len(sym.dims) = 1 => n.children = <<>>
          BY <2>1, <2>3, LowOf
        <4>2. Len(sym.dims) = 2 /\ n.children # <<>> => n.children \in [1..ElementsShown(sym.dims[2]) -> Leaves]
          BY <2>1, <2>3, LowOf
        <4>. QED
          BY <2>2, <4>1, <4>2, SymbolDims
      <3>2. CASE n.children = <<>>
        <4>1. Len(<<>>) = 0
          OBVIOUS
        <4>. QED
          BY <3>2, <4>1
      <3>3. CASE n.children # <<>>
        <4>1. n.children \in Seq(Leaves) /\ Len(n.children) \in Nat
          BY <3>1, <3>3, IsTuple
        <4>2. \A x \in Leaves : x.children = <<>>
          BY DEF Leaves
        <4>. QED
          BY <4>1, <4>2
      <3>. QED
        BY <3>2, <3>3
    <2>5. ASSUME NEW i \in 1..Len(n.children)
          PROVE  LET m == [p EXCEPT !.path = Append(@, i - 1)]
                 IN  m \in VarPaths /\ Node(m)[1].children = <<>>
      <3>. DEFINE q == Append(path, i - 1)
      <3>1. i \in Nat \ {0} /\ i - 1 \in Nat /\ (i - 1) + 1 = i
        BY <2>4
      <3>2. /\ q \in Seq(Nat) /\ Len(q) = Len(path) + 1
            /\ LET m == [p EXCEPT !.path = Append(@, i - 1)] IN m \in VarPaths /\ Node(m) = Descend(t, q)
        BY <1>9, <3>1
      <3>3. Len(q) = 2 /\ q[1] = a /\ q[2] = i - 1
        <4>1. Len(path) + 1 = 2 /\ 1 \in 1..Len(path)
          BY <1>11
        <4>2. q[1] = path[1] /\ q[Len(path) + 1] = i - 1
          BY <1>1, <3>1, <4>1, AppendProperties
        <4>. QED
          BY <3>2, <4>1, <4>2 DEF a
      <3>4. Descend(t, q) = Child(Child(<<t>>, a), i - 1)
        <4>. HIDE DEF q
        <4>. QED
          BY <3>2, <3>3, DescendAt
      <3>5. Child(<<n>>, i - 1) = <<n.children[i]>>
        <4>1. <<n>> # Nothing /\ <<n>>[1] = n
          BY DEF Nothing
        <4>. QED
          BY <2>4, <3>1, <4>1 DEF Child
      <3>6. Descend(t, q) = <<n.children[i]>>
        BY <2>1, <2>2, <3>4, <3>5
      <3>. QED
        BY <2>4, <3>2, <3>6
    <2>6. node = n
      BY <2>2
    <2>. HIDE DEF node
    <2>7. Len(node.children) \in Nat
      BY <2>4, <2>6
    <2>8. ASSUME NEW i \in 1..Len(node.children)
          PROVE  LET m == [p EXCEPT !.path = Append(@, i - 1)]
                 IN  m \in VarPaths /\ (Node(m)[1].children # <<>> => m \in RefPaths)
      BY <2>5, <2>6, <2>8
    <2>. QED
      BY <2>7, <2>8 DEF node
  <1>12. Len(path) = 0 \/ Len(path) = 1
    <2>1. path \in Seq(Nat) /\ Len(path) <= 1
      BY <1>1
    <2>2. Len(path) \in Nat
      BY <2>1
    <2>. DEFINE n == Len(path)
    <2>. HIDE DEF n
    <2>3. n \in Nat /\ n <= 1
      BY <2>1, <2>2 DEF n
    <2>4. n = 0 \/ n = 1
      BY <2>3
    <2>. QED
      BY <2>4 DEF n
  <1>. QED
    BY <1>10, <1>11, <1>12

(* var_ref: the references there were stay the same.                       *)
LEMMA RegisteredNext ==
    ASSUME NEW members \in Seq(VarPaths), NEW opened, refs \in Seq(RefPaths), Registered(members, opened),
           \A i \in DOMAIN members : opened[i] => members[i] \in RefPaths
    PROVE  /\ refs' \in Seq(RefPaths)
           /\ \A k \in DOMAIN refs : k \in DOMAIN refs' /\ refs'[k] = refs[k]
  <1>1. PICK n \in 0..Len(members) : \E new \in [1..n -> DOMAIN members] :
            /\ Range(new) = {i \in DOMAIN members : opened[i] /\ members[i] \notin Range(refs)}
            /\ refs' = refs \o [k \in 1..n |-> members[new[k]]]
    BY Zenon DEF Registered
  <1>2. PICK new \in [1..n -> DOMAIN members] :
            /\ Range(new) = {i \in DOMAIN members : opened[i] /\ members[i] \notin Range(refs)}
            /\ refs' = refs \o [k \in 1..n |-> members[new[k]]]
    BY <1>1
  <1>. DEFINE more == [k \in 1..n |-> members[new[k]]]
  <1>3. n \in Nat
    BY <1>1
  <1>4. more \in Seq(RefPaths)
    <2>1. ASSUME NEW k \in 1..n
          PROVE  members[new[k]] \in RefPaths
      <3>1. new[k] \in Range(new)
        BY <1>2 DEF Range
      <3>2. new[k] \in DOMAIN members /\ opened[new[k]]
        BY <1>2, <3>1
      <3>. QED
        BY <3>2
    <2>2. more \in [1..n -> RefPaths]
      BY <2>1
    <2>. HIDE DEF more
    <2>. QED
      BY <1>3, <2>2, IsTuple
  <1>5. refs' = refs \o more
    BY <1>2
  <1>. HIDE DEF more
  <1>6. /\ refs' \in Seq(RefPaths) /\ Len(refs') = Len(refs) + Len(more)
        /\ \A k \in 1..(Len(refs) + Len(more)) :
              refs'[k] = IF k <= Len(refs) THEN refs[k] ELSE more[k - Len(refs)]
    BY <1>4, <1>5, ConcatProperties
  <1>7. /\ Len(refs) \in Nat /\ Len(more) \in Nat /\ DOMAIN refs = 1..Len(refs)
        /\ DOMAIN refs' = 1..Len(refs')
    BY <1>4, <1>6
  <1>. QED
    BY <1>6, <1>7

(* A reference the editor was given is that of an array, or of a frame of  *)
(* this pause.                                                             *)
LEMMA GivenKind ==
    ASSUME PanelTypes, IsPaused, NEW r \in Given
    PROVE  /\ r \in Int
           /\ r - RefBase + 1 \in DOMAIN refs \/ (r \in DOMAIN scopes /\ r < RefBase /\ r >= 1)
  <1>1. RefBase \in Nat /\ refs \in Seq(RefPaths) /\ DOMAIN frames = DOMAIN scopes
        /\ DOMAIN scopes = 1..Len(scopes) /\ Len(scopes) \in Nat
    BY PanelAssumption DEF PanelTypes, FramesMatch
  <1>2. CASE r \in DOMAIN frames
    <2>1. r \in DOMAIN scopes /\ r < RefBase /\ r \in Int /\ r >= 1
      BY <1>1, <1>2 DEF PanelTypes
    <2>. QED
      BY <2>1
  <1>3. CASE r \notin DOMAIN frames
    <2>1. PICK i \in DOMAIN refs : r = RefOf(refs[i], refs)
      BY <1>3 DEF Given
    <2>. DEFINE p == refs[i]
                I == {j \in 1..Len(refs) : refs[j] = p}
                k == SelectInSeq(refs, LAMBDA q : q = p)
    <2>2. k = IF I # {} THEN Min(I) ELSE 0
      BY Zenon DEF SelectInSeq
    <2>3. r = RefBase + k - 1
      BY <2>1, Zenon DEF RefOf
    <2>. HIDE DEF k
    <2>4. i \in I /\ I \in SUBSET Nat
      BY <1>1
    <2>5. \E m \in I : Min(I) = m
      <3>. HIDE DEF I
      <3>. QED
        BY <2>4, FirstOne
    <2>6. k \in 1..Len(refs)
      BY <2>2, <2>4, <2>5
    <2>7. r \in Int /\ r - RefBase + 1 = k
      BY <1>1, <2>3, <2>6
    <2>. QED
      BY <1>1, <2>6, <2>7
  <1>. QED
    BY <1>2, <1>3

(* A row stays right when references are only added.                       *)
LEMMA RowStaysRight ==
    ASSUME NEW r, NEW row, RowRight(r, row), UNCHANGED scopes,
           \A k \in DOMAIN refs : k \in DOMAIN refs' /\ refs'[k] = refs[k]
    PROVE  RowRight(r, row)'
  <1>1. CASE r - RefBase + 1 \in DOMAIN refs /\ row.name = "[]"
                /\ row.stands = [refs[r - RefBase + 1] EXCEPT !.path = Append(@, row.index)]
    <2>. DEFINE k == r - RefBase + 1
    <2>1. k \in DOMAIN refs' /\ refs'[k] = refs[k]
      BY <1>1
    <2>. QED
      BY <1>1, <2>1 DEF RowRight
  <1>2. CASE /\ r < RefBase /\ FrameIndex(r) \in DOMAIN scopes
             /\ \E v \in DOMAIN scopes[FrameIndex(r)] :
                   row.stands = VarPath(FrameIndex(r), v, <<>>) /\ row.name = scopes[FrameIndex(r)][v].name
    BY <1>2 DEF RowRight, FrameIndex, VarPath
  <1>. QED
    BY <1>1, <1>2 DEF RowRight

(* An answer that adds references, and a row that is right or none, keeps  *)
(* the invariant.                                                          *)
LEMMA OneMoreRow ==
    ASSUME PanelInv, IsPaused, UNCHANGED <<mem, scopes, frames, edited, count>>, last' = Nothing,
           refs' \in Seq(RefPaths),
           \A k \in DOMAIN refs : k \in DOMAIN refs' /\ refs'[k] = refs[k],
           NEW row,
           held' = held \/ (held' = <<row>> /\ RowRight(row.reference, row)),
           row.reference \in Int, row.index \in Nat, row.trace = count.traces, row.pause = count.pauses
    PROVE  PanelInv'
  <1>1. PanelTypes'
    BY DEF PanelInv, PanelTypes, MemType, IsPaused, FramesMatch
  <1>2. TreesShow'
    BY SameTrees DEF PanelInv
  <1>3. count.traces \in Nat /\ count.pauses \in Nat /\ count' = count
    BY DEF PanelInv, PanelTypes
  <1>4. CASE held' = held /\ held # Nothing
    <2>1. PICK old : old = held[1]
      OBVIOUS
    <2>2. /\ held = <<old>>
          /\ old.reference \in Int /\ old.index \in Nat
          /\ old.trace \in Nat /\ old.trace <= count.traces
          /\ old.pause \in Nat /\ old.pause <= count.pauses
          /\ old.trace = count.traces /\ old.pause = count.pauses => RowRight(old.reference, old)
      BY <1>4, <2>1 DEF PanelInv, HeldRight
    <2>3. held' = <<old>> /\ held'[1] = old
      BY <1>4, <2>2
    <2>4. old.trace = count.traces /\ old.pause = count.pauses => RowRight(old.reference, old)'
      BY <2>2, RowStaysRight
    <2>5. HeldRight'
      BY <1>3, <2>2, <2>3, <2>4 DEF HeldRight, RowRight
    <2>. QED
      BY <1>1, <1>2, <2>5, NothingWritten DEF PanelInv
  <1>5. CASE held' = held /\ held = Nothing
    <2>1. HeldRight'
      BY <1>5 DEF HeldRight
    <2>. QED
      BY <1>1, <1>2, <2>1, NothingWritten DEF PanelInv
  <1>6. CASE held' = <<row>> /\ RowRight(row.reference, row)
    <2>1. held' = <<row>> /\ held'[1] = row
      BY <1>6
    <2>2. RowRight(row.reference, row)'
      BY <1>6, RowStaysRight
    <2>3. HeldRight'
      BY <1>3, <2>1, <2>2 DEF HeldRight, RowRight
    <2>. QED
      BY <1>1, <1>2, <2>3, NothingWritten DEF PanelInv
  <1>. QED
    BY <1>4, <1>5, <1>6

(* variables: of an array that has a reference, or of a frame.             *)
LEMMA VariablesStep ==
    ASSUME PanelInv, NEW r \in Given, Variables(r)
    PROVE  PanelInv'
  <1>1. /\ IsPaused /\ PanelTypes /\ last' = Nothing /\ refs \in Seq(RefPaths)
        /\ UNCHANGED <<mem, scopes, frames, edited, count>>
    BY DEF PanelInv, PanelTypes, Variables
  <1>2. r \in Int /\ RefBase \in Nat
    BY <1>1, GivenKind, PanelAssumption
  <1>. DEFINE k == r - RefBase + 1
  <1>3. CASE k \in DOMAIN refs
    <2>. DEFINE p == refs[k]
                n == IF Node(p) = Nothing THEN 0 ELSE Len(Node(p)[1].children)
                members == [i \in 1..n |-> [p EXCEPT !.path = Append(@, i - 1)]]
                opened == [i \in DOMAIN members |-> Node(members[i])[1].children # <<>>]
    <2>1. ArrayAt(r) = <<p>> /\ ArrayAt(r) # Nothing /\ ArrayAt(r)[1] = p
      BY <1>3 DEF ArrayAt, Nothing
    <2>2. /\ Registered(members, opened)
          /\ held' \in {held} \union {<<Row(r, "[]", i - 1, members[i])>> : i \in DOMAIN members}
      BY <2>1 DEF Variables
    <2>3. p \in RefPaths
      BY <1>1, <1>3
    <2>. HIDE DEF p
    <2>4. /\ n \in Nat
          /\ \A i \in 1..n : LET m == [p EXCEPT !.path = Append(@, i - 1)]
                             IN  m \in VarPaths /\ (Node(m)[1].children # <<>> => m \in RefPaths)
      <3>1. CASE Node(p) = Nothing
        BY <3>1
      <3>2. CASE Node(p) # Nothing
        <4>1. n = Len(Node(p)[1].children)
          BY <3>2
        <4>. HIDE DEF n
        <4>2. /\ Len(Node(p)[1].children) \in Nat
              /\ \A i \in 1..Len(Node(p)[1].children) :
                 LET m == [p EXCEPT !.path = Append(@, i - 1)]
                 IN  m \in VarPaths /\ (Node(m)[1].children # <<>> => m \in RefPaths)
          BY <1>1, <2>3, <3>2, ChildNode
        <4>. QED
          BY <4>1, <4>2
      <3>. QED
        BY <3>1, <3>2
    <2>. HIDE DEF n
    <2>5. \A i \in 1..n : members[i] = [p EXCEPT !.path = Append(@, i - 1)]
      OBVIOUS
    <2>6. members \in [1..n -> VarPaths] /\ DOMAIN members = 1..n
      BY <2>4
    <2>7. \A i \in 1..n : opened[i] = (Node(members[i])[1].children # <<>>)
      BY <2>6
    <2>8. \A i \in DOMAIN members : opened[i] => members[i] \in RefPaths
      BY <2>4, <2>6, <2>7
    <2>. HIDE DEF members, opened
    <2>9. members \in Seq(VarPaths)
      BY <2>4, <2>6, IsTuple
    <2>10. /\ refs' \in Seq(RefPaths)
           /\ \A j \in DOMAIN refs : j \in DOMAIN refs' /\ refs'[j] = refs[j]
      BY <1>1, <2>2, <2>8, <2>9, RegisteredNext
    <2>11. CASE held' = held
      <3>. DEFINE row == Row(r, "[]", 0, p)
      <3>1. row.reference = r /\ row.index \in Nat /\ row.trace = count.traces /\ row.pause = count.pauses
        BY DEF Row
      <3>. HIDE DEF row
      <3>. QED
        BY <1>1, <1>2, <2>10, <2>11, <3>1, OneMoreRow
    <2>12. ASSUME NEW i \in 1..n, held' = <<Row(r, "[]", i - 1, members[i])>>
           PROVE  PanelInv'
      <3>. DEFINE row == Row(r, "[]", i - 1, members[i])
      <3>1. /\ row.reference = r /\ row.index = i - 1 /\ row.trace = count.traces
            /\ row.pause = count.pauses /\ row.name = "[]" /\ row.stands = members[i]
        BY DEF Row
      <3>2. held' = <<row>>
        BY <2>12
      <3>3. i - 1 \in Nat
        BY <2>4
      <3>. HIDE DEF row
      <3>4. row.stands = [refs[k] EXCEPT !.path = Append(@, row.index)]
        BY <2>5, <3>1 DEF p
      <3>5. RowRight(row.reference, row)
        BY <1>3, <3>1, <3>4 DEF RowRight
      <3>. QED
        BY <1>1, <1>2, <2>10, <3>1, <3>2, <3>3, <3>5, OneMoreRow
    <2>. QED
      BY <2>2, <2>6, <2>11, <2>12
  <1>4. CASE k \notin DOMAIN refs
    <2>. DEFINE vars == FrameVars(r)
                members == [v \in DOMAIN vars |-> VarPath(r, v, <<>>)]
                opened == [i \in DOMAIN members |-> Node(members[i])[1].children # <<>>]
    <2>1. r \in DOMAIN scopes /\ r < RefBase /\ r >= 1 /\ FrameIndex(r) = r
      BY <1>1, <1>2, <1>4, GivenKind DEF FrameIndex
    <2>2. ArrayAt(r) = Nothing
      BY <1>4 DEF ArrayAt
    <2>3. /\ Registered(members, opened)
          /\ held' \in {held} \union {<<Row(r, vars[i].name, 0, members[i])>> : i \in DOMAIN members}
      BY <2>1, <2>2 DEF Variables
    <2>4. /\ FramesMatch /\ scopes \in Seq(Seq(Symbols)) /\ Len(frames) = Len(scopes)
          /\ frames \in Seq(Seq(AnyTree))
      BY <1>1 DEF PanelTypes, FramesMatch
    <2>5. r \in DOMAIN frames /\ vars = frames[r]
      BY <2>1, <2>4 DEF FrameVars
    <2>6. Len(frames[r]) = Len(scopes[r]) /\ frames[r] \in Seq(AnyTree) /\ scopes[r] \in Seq(Symbols)
      BY <2>1, <2>4, <2>5 DEF FramesMatch
    <2>7. DOMAIN vars = DOMAIN scopes[r] /\ DOMAIN vars = 1..Len(scopes[r]) /\ Len(scopes[r]) \in Nat
      BY <2>5, <2>6
    <2>. HIDE DEF vars
    <2>8. \A v \in DOMAIN vars : members[v] = VarPath(r, v, <<>>) /\ members[v] \in RefPaths
      <3>. SUFFICES ASSUME NEW v \in DOMAIN vars PROVE VarPath(r, v, <<>>) \in RefPaths
        OBVIOUS
      <3>1. r \in Nat /\ v \in Nat
        BY <1>2, <2>1, <2>7
      <3>2. <<>> \in Seq(Nat) /\ Len(<<>>) <= 1
        OBVIOUS
      <3>. QED
        BY <3>1, <3>2 DEF VarPath, RefPaths, VarPaths
    <2>9. DOMAIN members = 1..Len(scopes[r]) /\ members \in [1..Len(scopes[r]) -> VarPaths]
      BY <2>7, <2>8 DEF RefPaths
    <2>10. \A i \in DOMAIN members : members[i] \in RefPaths
      BY <2>7, <2>8, <2>9
    <2>. HIDE DEF members, opened
    <2>11. members \in Seq(VarPaths)
      BY <2>7, <2>9, IsTuple
    <2>12. /\ refs' \in Seq(RefPaths)
           /\ \A j \in DOMAIN refs : j \in DOMAIN refs' /\ refs'[j] = refs[j]
      BY <1>1, <2>3, <2>10, <2>11, RegisteredNext
    <2>13. CASE held' = held
      <3>. DEFINE row == Row(r, "[]", 0, <<>>)
      <3>1. row.reference = r /\ row.index \in Nat /\ row.trace = count.traces /\ row.pause = count.pauses
        BY DEF Row
      <3>. HIDE DEF row
      <3>. QED
        BY <1>1, <1>2, <2>12, <2>13, <3>1, OneMoreRow
    <2>14. ASSUME NEW i \in DOMAIN members, held' = <<Row(r, vars[i].name, 0, members[i])>>
           PROVE  PanelInv'
      <3>. DEFINE row == Row(r, vars[i].name, 0, members[i])
      <3>1. /\ row.reference = r /\ row.index = 0 /\ row.index \in Nat /\ row.trace = count.traces
            /\ row.pause = count.pauses /\ row.name = vars[i].name /\ row.stands = members[i]
        BY DEF Row
      <3>2. held' = <<row>>
        BY <2>14
      <3>. HIDE DEF row
      <3>3. i \in DOMAIN scopes[r] /\ members[i] = VarPath(r, i, <<>>)
        BY <2>7, <2>8, <2>9
      <3>4. vars[i].name = scopes[r][i].name
        BY <1>1, <2>1, <2>5, <3>3, InScope
      <3>5. RowRight(row.reference, row)
        BY <2>1, <3>1, <3>3, <3>4 DEF RowRight
      <3>. QED
        BY <1>1, <1>2, <2>12, <3>1, <3>2, <3>5, OneMoreRow
    <2>15. held' = held \/ \E i \in DOMAIN members : held' = <<Row(r, vars[i].name, 0, members[i])>>
      BY <2>3
    <2>. QED
      BY <2>13, <2>14, <2>15
  <1>. QED
    BY <1>3, <1>4

(* setVariable, of a row that may be stale.                                *)
LEMMA SetVariableStep ==
    ASSUME PanelInv, NEW row \in Range(held), NEW val \in Int, SetVariable(row, val)
    PROVE  PanelInv'
  <1>1. PanelTypes /\ TreesShow /\ HeldRight /\ IsPaused /\ RowPath(row) # Nothing
    BY DEF PanelInv, SetVariable
  <1>2. held # Nothing /\ row = held[1]
    <2>1. PICK i \in DOMAIN held : row = held[i]
      BY DEF Range
    <2>2. held # Nothing
      BY <2>1 DEF Nothing
    <2>3. held = <<held[1]>>
      BY <1>1, <2>2 DEF HeldRight
    <2>4. DOMAIN held = {1}
      BY <2>3
    <2>. QED
      BY <2>1, <2>2, <2>4
  <1>3. PICK f \in DOMAIN scopes : \E v \in DOMAIN scopes[f] : \E path \in Seq(Nat) :
              /\ RowPath(row) = <<VarPath(f, v, path)>>
              /\ Root(VarPath(f, v, path)) = <<frames[f][v]>>
              /\ row.trace = count.traces /\ row.pause = count.pauses /\ FirstOfName(row.stands) =>
                    row.stands = VarPath(f, v, path) /\ Descend(frames[f][v], path) # Nothing
    BY <1>1, <1>2, RowPathRight
  <1>4. PICK v \in DOMAIN scopes[f] : \E path \in Seq(Nat) :
              /\ RowPath(row) = <<VarPath(f, v, path)>>
              /\ Root(VarPath(f, v, path)) = <<frames[f][v]>>
              /\ row.trace = count.traces /\ row.pause = count.pauses /\ FirstOfName(row.stands) =>
                    row.stands = VarPath(f, v, path) /\ Descend(frames[f][v], path) # Nothing
    BY <1>3
  <1>5. PICK path \in Seq(Nat) :
              /\ RowPath(row) = <<VarPath(f, v, path)>>
              /\ Root(VarPath(f, v, path)) = <<frames[f][v]>>
              /\ row.trace = count.traces /\ row.pause = count.pauses /\ FirstOfName(row.stands) =>
                    row.stands = VarPath(f, v, path) /\ Descend(frames[f][v], path) # Nothing
    BY <1>4
  <1>6. PICK sym : sym = scopes[f][v]
    OBVIOUS
  <1>7. frames[f][v].name = sym.name
    BY <1>1, <1>6, InScope
  <1>8. Write(VarPath(f, v, path), sym.name, val, <<row>>)
    <2>1. /\ RowPath(row)[1] = VarPath(f, v, path)
          /\ Root(VarPath(f, v, path))[1] = frames[f][v]
      BY <1>5
    <2>. QED
      BY <1>7, <2>1 DEF SetVariable
  <1>9. path \in Seq(Nat)
    BY <1>5
  <1>10. /\ PanelTypes' /\ TreesShow'
         /\ UNCHANGED <<scopes, refs, held>>
         /\ count'.traces = count.traces /\ count'.pauses = count.pauses
         /\ last' # Nothing =>
                  /\ last'[1].row = <<row>>
                  /\ FirstOfName(VarPath(f, v, path)) /\ AsCompiled(sym)'
                        /\ Descend(frames[f][v], path) # Nothing =>
                        last'[1].addr = AddressOf(sym, path)'
    <2>. DEFINE from == <<row>>
    <2>. HIDE DEF from
    <2>1. PanelTypes /\ TreesShow /\ IsPaused /\ f \in DOMAIN scopes /\ v \in DOMAIN scopes[f]
          /\ StandsAt(sym, f, v) /\ path \in Seq(Nat) /\ val \in Int
      BY <1>1, <1>3, <1>4, <1>6, <1>9 DEF StandsAt
    <2>2. Write(VarPath(f, v, path), sym.name, val, from)
      BY <1>8 DEF from
    <2>3. PanelTypes' /\ TreesShow'
      BY <2>1, <2>2, WriteKeeps
    <2>4. UNCHANGED <<scopes, refs, held>>
      BY <2>1, <2>2, WriteKeeps
    <2>5. count'.traces = count.traces /\ count'.pauses = count.pauses
      BY <2>1, <2>2, WriteKeeps
    <2>6. last' # Nothing => last'[1].row = from
      BY <2>1, <2>2, WriteKeeps
    <2>7. ASSUME last' # Nothing, FirstOfName(VarPath(f, v, path)), AsCompiled(sym)',
                 Descend(frames[f][v], path) # Nothing
          PROVE  last'[1].addr = AddressOf(sym, path)'
      BY <2>1, <2>2, <2>7, WriteKeeps
    <2>. QED
      BY <2>3, <2>4, <2>5, <2>6, <2>7 DEF from
  <1>11. HeldRight'
    BY <1>1, <1>10, SameHeld
  <1>12. ASSUME NEW told, NEW addr, last' # Nothing, told = last'[1].row[1], addr = last'[1].addr
         PROVE  ReachesRow(told, addr)'
    <2>1. told = row
      BY <1>10, <1>12
    <2>. DEFINE p == row.stands
    <2>2. ASSUME row.trace = count'.traces, row.pause = count'.pauses,
                 FirstOfName(p)', AsCompiled(SymbolOf(p))'
          PROVE  addr = AddressOf(SymbolOf(p), p.path)'
      <3>1. FirstOfName(p)
        BY <1>10, <2>2 DEF FirstOfName, SymbolOf
      <3>2. p = VarPath(f, v, path) /\ Descend(frames[f][v], path) # Nothing
        BY <1>5, <1>10, <2>2, <3>1
      <3>3. p.path = path /\ SymbolOf(p)' = sym
        BY <1>6, <1>10, <3>2 DEF SymbolOf, VarPath
      <3>4. AsCompiled(sym)'
        BY <2>2, <3>3 DEF AsCompiled, Base, Readable, LeadingCells, Vector, RowAt, SubArray, SizesKnown
      <3>5. last'[1].addr = AddressOf(sym, path)'
        BY <1>10, <1>12, <3>1, <3>2, <3>4
      <3>6. AddressOf(SymbolOf(p), p.path)' = AddressOf(sym, path)'
        BY <3>3 DEF AddressOf, Base, Readable, RowAt, SubArray, SizesKnown
      <3>. QED
        BY <1>12, <3>5, <3>6
    <2>. QED
      BY <2>1, <2>2 DEF ReachesRow
  <1>. QED
    BY <1>10, <1>11, <1>12 DEF PanelInv, EditReaches

(* setExpression, of a path the expression names.                          *)
LEMMA SetExpressionStep ==
    ASSUME PanelInv, NEW f \in DOMAIN frames, NEW e, NEW val \in Int, SetExpression(f, e, val)
    PROVE  PanelInv'
  <1>1. PanelTypes /\ TreesShow /\ HeldRight /\ IsPaused
    BY DEF PanelInv, SetExpression
  <1>2. \E name, path : /\ path \in Seq(Nat) /\ Find(FrameVars(f), name) # 0
                        /\ Write(VarPath(f, Find(FrameVars(f), name), path), name, val, Nothing)
    <2>1. PICK indexed, path :
             LET name == IF indexed = Nothing THEN e ELSE indexed[1].name
                 var == Find(FrameVars(f), name[1])
             IN  /\ path[1] \in Seq(Nat) /\ var # 0
                 /\ Write(VarPath(f, var, path[1]), name[1], val, Nothing)
      BY Zenon DEF SetExpression
    <2>. DEFINE name == (IF indexed = Nothing THEN e ELSE indexed[1].name)[1]
    <2>2. /\ path[1] \in Seq(Nat) /\ Find(FrameVars(f), name) # 0
          /\ Write(VarPath(f, Find(FrameVars(f), name), path[1]), name, val, Nothing)
      BY <2>1
    <2>. HIDE DEF name
    <2>. QED
      BY <2>2
  <1>3. PICK name, path : /\ path \in Seq(Nat) /\ Find(FrameVars(f), name) # 0
                          /\ Write(VarPath(f, Find(FrameVars(f), name), path), name, val, Nothing)
    BY <1>2
  <1>. DEFINE list == FrameVars(f)
              v == Find(list, name)
  <1>4. /\ FramesMatch /\ frames \in Seq(Seq(AnyTree)) /\ Len(frames) = Len(scopes)
        /\ scopes \in Seq(Seq(Symbols))
    BY <1>1 DEF PanelTypes, FramesMatch
  <1>5. f \in DOMAIN scopes /\ list = frames[f]
    BY <1>4 DEF FrameVars
  <1>6. Len(frames[f]) = Len(scopes[f]) /\ frames[f] \in Seq(AnyTree) /\ scopes[f] \in Seq(Symbols)
    BY <1>4, <1>5 DEF FramesMatch
  <1>7. Len(list) \in Nat /\ Len(list) = Len(scopes[f]) /\ DOMAIN scopes[f] = 1..Len(scopes[f])
    BY <1>5, <1>6
  <1>. HIDE DEF list
  <1>8. v \in DOMAIN scopes[f] /\ list[v].name = name
    <2>. DEFINE i == SelectInSeq(list, LAMBDA x : x.name = name)
    <2>1. v = i
      BY Zenon DEF Find
    <2>2. \/ i = 0 /\ \A k \in 1..Len(list) : list[k].name # name
          \/ /\ i \in 1..Len(list) /\ list[i].name = name
             /\ \A k \in 1..Len(list) : k < i => list[k].name # name
      BY <1>7, FindFirst
    <2>3. v # 0
      BY <1>3 DEF list
    <2>. HIDE DEF v, i
    <2>. QED
      BY <1>7, <2>1, <2>2, <2>3
  <1>9. Write(VarPath(f, v, path), name, val, Nothing)
    BY <1>3 DEF list
  <1>. HIDE DEF v
  <1>10. PICK sym : sym = scopes[f][v]
    OBVIOUS
  <1>11. name = sym.name
    BY <1>1, <1>5, <1>8, <1>10, InScope
  <1>12. PICK w : w = v
    OBVIOUS
  <1>13. /\ Write(VarPath(f, w, path), sym.name, val, Nothing) /\ w \in DOMAIN scopes[f] /\ StandsAt(sym, f, w)
    BY <1>8, <1>9, <1>10, <1>11, <1>12 DEF StandsAt
  <1>14. path \in Seq(Nat)
    BY <1>3
  <1>15. /\ PanelTypes' /\ TreesShow'
         /\ UNCHANGED <<scopes, refs, held>>
         /\ count'.traces = count.traces /\ count'.pauses = count.pauses
         /\ last' # Nothing =>
                 /\ last'[1].row = Nothing
                 /\ FirstOfName(VarPath(f, w, path)) /\ AsCompiled(sym)'
                       /\ Descend(frames[f][w], path) # Nothing =>
                       last'[1].addr = AddressOf(sym, path)'
    BY <1>1, <1>5, <1>13, <1>14, WriteKeeps
  <1>16. HeldRight'
    BY <1>1, <1>15, SameHeld
  <1>17. EditReaches'
    BY <1>15 DEF EditReaches
  <1>. QED
    BY <1>15, <1>16, <1>17 DEF PanelInv

(* A step of something else.                                               *)
LEMMA PanelStutters ==
    ASSUME PanelInv, UNCHANGED panelVars
    PROVE  PanelInv'
  <1>1. UNCHANGED <<mem, scopes, frames, refs, held, last, edited, count>>
    BY DEF panelVars
  <1>2. PanelTypes'
    BY <1>1 DEF PanelInv, PanelTypes, MemType, IsPaused, FramesMatch
  <1>3. TreesShow'
    BY <1>1, SameTrees DEF PanelInv
  <1>4. HeldRight'
    BY <1>1, SameHeld DEF PanelInv
  <1>5. ASSUME EditReaches, NEW row, NEW addr, ReachesRow(row, addr)
        PROVE  ReachesRow(row, addr)'
    BY <1>1, <1>5 DEF ReachesRow, FirstOfName, SymbolOf, AsCompiled, AddressOf, Base, Readable,
                LeadingCells, Vector, RowAt, SubArray, SizesKnown
  <1>6. EditReaches'
    BY <1>1, <1>5 DEF PanelInv, EditReaches
  <1>. QED
    BY <1>2, <1>3, <1>4, <1>6 DEF PanelInv

(* Every step of the panel keeps the invariant.                            *)
LEMMA PanelKept == PanelInv /\ [PanelNext]_panelVars => PanelInv'
  <1>. SUFFICES ASSUME PanelInv, [PanelNext]_panelVars PROVE PanelInv'
    OBVIOUS
  <1>1. CASE Edit
    <2>1. PICK val \in Values : \/ \E row \in Range(held) : SetVariable(row, val)
                                \/ \E f \in DOMAIN frames, e \in Expressions : SetExpression(f, e, val)
      BY <1>1 DEF Edit
    <2>2. val \in Int
      BY PanelAssumption
    <2>. QED
      BY <2>1, <2>2, SetVariableStep, SetExpressionStep
  <1>2. CASE \E r \in Given : Variables(r)
    BY <1>2, VariablesStep
  <1>. QED
    BY <1>1, <1>2, PauseStep, ResumeStep, StackTraceStep, PanelStutters DEF PanelNext

(* It holds always.                                                        *)
LEMMA PanelAlways == PanelSpec => []PanelInv
  BY PanelStart, PanelKept, PTL DEF PanelSpec

(* For any program with arrays of at most two dimensions, any memory, any  *)
(* stops and any number of pauses, stack traces and edits: the panel shows *)
(* what the memory holds, and an edit reaches the cell of its row.         *)
THEOREM PanelIsRight == PanelSpec => [](PanelShowsMemory /\ EditsReachTheirRow)
  <1>1. PanelInv => PanelShowsMemory /\ EditsReachTheirRow
    BY TreesShowMemory, EditsAreReached DEF PanelInv
  <1>. QED
    BY PanelAlways, <1>1, PTL
=============================================================================
