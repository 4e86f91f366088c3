----------------------------- MODULE DebugPanel -----------------------------
(***************************************************************************)
(* The variables of a pause: what the plugin reads of the memory of the    *)
(* VM, the tree the session keeps of it, the references it hands to the    *)
(* editor, and the way back, from a row of the panel, an expression or a   *)
(* name to the cell that is written, watched or read.                      *)
(*                                                                         *)
(* A cell is one unit.  Threads and lost answers are DebugPause's: here a  *)
(* request is answered at once.                                            *)
(***************************************************************************)
EXTENDS DebugValues

CONSTANTS Stops,     \* where the VM may pause: what is in scope in each frame,
                     \* symbols [name, addr, ref, dims], dimension 0 unknown
          Loaded,     \* the memory when the program begins
          WrittenCells, \* bound: the cells the VM writes
          Values,    \* what the VM and the editor write
          PrintedCells, \* the cells that print
          MaxElems,  \* elements shown of a dimension
          RefBase,   \* where the references of arrays begin
          MaxPauses, MaxTraces, MaxEdits, \* bounds
          Indexed(_), Indices(_, _) \* how an expression names a cell: DebugExpr's
                                   \* SplitIndexed and EvalPath

Symbols == [name : STRING, addr : Int, ref : BOOLEAN, dims : {d \in Seq(Nat) : Len(d) <= 2}]

(* A program has arrays of at most two dimensions here, a bound of the     *)
(* model; the references of arrays begin behind those of the frames.       *)
ASSUME PanelAssumption ==
    /\ Loaded \in [DOMAIN Loaded -> Int] /\ DOMAIN Loaded \subseteq Int
    /\ WrittenCells \subseteq DOMAIN Loaded /\ Values \subseteq Int
    /\ MaxElems \in Nat \ {0}
    /\ RefBase \in Nat
    /\ \A stop \in Stops : stop \in Seq(Seq(Symbols)) /\ Len(stop) < RefBase

VARIABLES mem,    \* the cells of the VM
          scopes, \* the symbols in scope in each frame of the pause
          frames, \* FrameCache: the variables of each frame, or none
          refs,   \* var_refs
          held,   \* the row the user has in hand, with the node it was made for
          last,   \* the edit just made: its row, the cell it wrote
          edited, \* the path each cell was last edited by, in this pause
          count   \* pauses, stack traces, edits so far

panelVars == <<mem, scopes, frames, refs, held, last, edited, count>>

IsPaused == frames # <<>>
Readable(a) == a \in DOMAIN mem
IsArray(sym) == sym.dims # <<>>

-----------------------------------------------------------------------------
(* The plugin: where a symbol begins, and what is at a path of indices.    *)

Base(sym) == IF ~sym.ref THEN <<sym.addr>>
             ELSE IF Readable(sym.addr) THEN <<mem[sym.addr]>> ELSE Nothing
SubArray(a) == IF Readable(a) THEN <<a + mem[a]>> ELSE Nothing

StepInto(sym, at, level, index) ==
    LET size == sym.dims[level]
        cell == at[1] + index
    IN  IF at = Nothing \/ (size > 0 /\ index >= size) THEN Nothing
        ELSE IF level < Len(sym.dims) THEN SubArray(cell) ELSE <<cell>>

Locate(sym, path) ==
    IF Len(path) > Len(sym.dims) THEN Nothing
    ELSE LET at[k \in 0..Len(path)] ==
                 IF k = 0 THEN Base(sym) ELSE StepInto(sym, at[k - 1], k, path[k])
             found == at[Len(path)]
         IN  IF found = Nothing THEN Nothing
             ELSE <<[addr |-> found[1], isCell |-> Len(path) = Len(sym.dims)]>>

CellAt(a) == IF a # Nothing /\ Readable(a[1]) THEN Whole(mem[a[1]]) ELSE Nothing

(* as_string: two letters or more, up to a terminator.                     *)
ReadUntilZero(a) ==
    LET stops == {i \in 0..(MaxElems - 1) : CellAt(<<a + i>>) \in {Nothing, Whole(0)}}
        n == IF stops = {} THEN MaxElems
             ELSE 1 + CHOOSE i \in stops : \A k \in stops : i <= k
    IN  [i \in 1..n |-> CellAt(<<a + i - 1>>)]
IsText(cells) ==
    \E n \in DOMAIN cells : /\ n > 2 /\ cells[n] = Whole(0)
                            /\ \A i \in 1..(n - 1) : \E c \in PrintedCells : cells[i] = Whole(c)

(* build_level: a node for each element shown; one when the size is not    *)
(* known.  The summary of a row of cells says whether they are a text.     *)
ElementsShown(size) == IF size = 0 THEN 1 ELSE IF size < MaxElems THEN size ELSE MaxElems
CellsFrom(size, a) == [i \in 1..ElementsShown(size) |-> Leaf(CellAt(<<a + i - 1>>))]
BuildArray(dims) ==
    LET level[k \in 1..Len(dims)] ==
            [a \in Int |->
                IF k = Len(dims) THEN CellsFrom(dims[k], a)
                ELSE [i \in 1..ElementsShown(dims[k]) |->
                         LET row == SubArray(a + i - 1)
                         IN  IF row = Nothing THEN Leaf(Nothing)
                             ELSE [value |-> Nothing, children |-> level[k + 1][row[1]]]]]
    IN  level[1]
Summary(dims, a) ==
    IsText(IF dims[Len(dims)] = 0 THEN ReadUntilZero(a)
           ELSE [i \in 1..ElementsShown(dims[Len(dims)]) |-> CellAt(<<a + i - 1>>)])

Collect(scope) ==
    [k \in DOMAIN scope |->
        LET sym == scope[k]
            base == Base(sym)
        IN  [name |-> sym.name,
             value |-> IF IsArray(sym) THEN Nothing ELSE CellAt(base),
             text |-> Len(sym.dims) = 1 /\ base # Nothing /\ Summary(sym.dims, base[1]),
             children |-> IF IsArray(sym) /\ base # Nothing
                          THEN BuildArray(sym.dims)[base[1]] ELSE <<>>]]

-----------------------------------------------------------------------------
PanelInit ==
    /\ mem = Loaded
    /\ scopes = <<>>
    /\ frames = <<>>
    /\ edited = <<>>
    /\ refs = <<>>
    /\ held = Nothing
    /\ last = Nothing
    /\ count = [pauses |-> 0, traces |-> 0, edits |-> 0]

FrameVars(f) == IF f \in DOMAIN frames THEN frames[f] ELSE <<>>
VarPath(f, var, path) == [frame |-> f, var |-> var, path |-> path]
Root(p) == LET vars == FrameVars(p.frame) IN IF p.var \in DOMAIN vars THEN <<vars[p.var]>> ELSE Nothing
Node(p) == IF Root(p) = Nothing THEN Nothing ELSE Descend(Root(p)[1], p.path)

Pause ==
    /\ ~IsPaused /\ count.pauses < MaxPauses
    /\ scopes' \in Stops
    /\ frames' = [f \in DOMAIN scopes' |-> Collect(scopes'[f])]
    /\ edited' = <<>>
    /\ count' = [count EXCEPT !.pauses = @ + 1]
    /\ last' = Nothing
    /\ UNCHANGED <<mem, refs, held>>

(* The VM runs, and may write to its cells.                                *)
Resume ==
    /\ IsPaused
    /\ frames' = <<>>
    /\ \E a \in WrittenCells, v \in Values : mem' = [mem EXCEPT ![a] = v]
    /\ last' = Nothing
    /\ UNCHANGED <<scopes, refs, held, edited, count>>

(* stackTrace: the references of arrays begin again.                       *)
StackTrace ==
    /\ count.traces < MaxTraces
    /\ refs' = <<>>
    /\ count' = [count EXCEPT !.traces = @ + 1]
    /\ last' = Nothing
    /\ UNCHANGED <<mem, scopes, frames, held, edited>>

(* variables: of an array that has a reference, or of a frame.             *)
ArrayAt(r) == IF r - RefBase + 1 \in DOMAIN refs THEN <<refs[r - RefBase + 1]>> ELSE Nothing
FrameIndex(r) == IF r >= 1 THEN r ELSE 1
RefOf(p, table) == RefBase + SelectInSeq(table, LAMBDA q : q = p) - 1

(* var_ref: a path that has a reference keeps it, a new one has the next.  *)
Registered(members, opened) ==
    \E n \in 0..Len(members) : \E new \in [1..n -> DOMAIN members] :
        /\ \A i, k \in 1..n : i < k => new[i] < new[k]
        /\ Range(new) = {i \in DOMAIN members : opened[i] /\ members[i] \notin Range(refs)}
        /\ refs' = refs \o [k \in 1..n |-> members[new[k]]]
Row(r, name, index, p) == [reference |-> r, name |-> name, index |-> index,
                           stands |-> p, trace |-> count.traces, pause |-> count.pauses]

Variables(r) ==
    /\ IsPaused
    /\ LET array == ArrayAt(r)
           f == FrameIndex(r)
           members ==
               IF array # Nothing
               THEN LET node == Node(array[1])
                    IN  [i \in 1..(IF node = Nothing THEN 0 ELSE Len(node[1].children)) |->
                            [array[1] EXCEPT !.path = Append(@, i - 1)]]
               ELSE [v \in DOMAIN FrameVars(f) |-> VarPath(f, v, <<>>)]
       IN  /\ Registered(members, [i \in DOMAIN members |-> Node(members[i])[1].children # <<>>])
           /\ held' \in {held} \union
                  {IF array # Nothing THEN <<Row(r, "[]", i - 1, members[i])>>
                   ELSE <<Row(r, FrameVars(f)[i].name, 0, members[i])>> : i \in DOMAIN members}
    /\ last' = Nothing
    /\ UNCHANGED <<mem, scopes, frames, edited, count>>

(* The references the editor was given: of frames and of arrays.           *)
Given == DOMAIN frames \union {RefOf(refs[i], refs) : i \in DOMAIN refs}

(* The plugin finds the variable by its name, the first in scope, and      *)
(* writes only a cell.                                                     *)
Target(f, name, path) ==
    LET i == SelectInSeq(scopes[f], LAMBDA s : s.name = name)
    IN  IF f \notin DOMAIN scopes \/ i = 0 THEN Nothing ELSE Locate(scopes[f][i], path)

(* update_path: the tree of the session follows, the summaries above the   *)
(* cell do not.                                                            *)
Valued(node, v) == [node EXCEPT !.value = Whole(v)]
Grafted(node, i, child) == [node EXCEPT !.children[i + 1] = child]
Updated(node, path, v) ==
    LET at(k) == Descend(node, SubSeq(path, 1, k))
        new[k \in 0..Len(path)] == IF k = Len(path) THEN Valued(at(k)[1], v)
                                   ELSE Grafted(at(k)[1], path[k + 1], new[k + 1])
    IN  IF at(Len(path)) = Nothing THEN node ELSE new[0]

Write(p, name, v, from) ==
    LET at == Target(p.frame, name, p.path)
    IN  /\ count' = [count EXCEPT !.edits = @ + 1]
        /\ IF at # Nothing /\ at[1].isCell /\ Readable(at[1].addr)
           THEN /\ mem' = [mem EXCEPT ![at[1].addr] = v]
                /\ frames' = [frames EXCEPT ![p.frame][p.var] = Updated(@, p.path, v)]
                /\ last' = <<[row |-> from, addr |-> at[1].addr]>>
                /\ edited' = [a \in DOMAIN edited \union {at[1].addr} |->
                                  IF a = at[1].addr THEN p ELSE edited[a]]
           ELSE UNCHANGED <<mem, frames, edited>> /\ last' = Nothing
        /\ UNCHANGED <<scopes, refs, held>>

(* element: the cell `index` of an array that has a reference.             *)
Element(r, index) ==
    LET p == [ArrayAt(r)[1] EXCEPT !.path = Append(@, index)]
    IN  IF Node(p) = Nothing THEN Nothing
        ELSE IF Node(p)[1].children # <<>> THEN Nothing ELSE <<p>>

(* The cell a row is about, by its reference and its name: an element, or  *)
(* a variable of a frame that has no elements.                             *)
RowPath(row) ==
    LET f == FrameIndex(row.reference)
        var == Find(FrameVars(f), row.name)
    IN  IF ArrayAt(row.reference) # Nothing
        THEN IF row.name = "[]" THEN Element(row.reference, row.index) ELSE Nothing
        ELSE IF var = 0 THEN Nothing
             ELSE IF FrameVars(f)[var].children # <<>> THEN Nothing
                  ELSE <<VarPath(f, var, <<>>)>>

(* setVariable, of a row of this pause or of another.                      *)
SetVariable(row, v) ==
    /\ IsPaused /\ RowPath(row) # Nothing
    /\ Write(RowPath(row)[1], Root(RowPath(row)[1])[1].name, v, <<row>>)

(* setExpression: a name, or an element by indices that are expressions,   *)
(* none of them negative (eval_path).                                      *)
SetExpression(f, e, v) ==
    /\ IsPaused
    /\ \E indexed \in {Indexed(e)} :
       \E path \in {IF indexed = Nothing THEN <<<<>>>> ELSE Indices(indexed[1].indices, FrameVars(f))} :
          LET name == IF indexed = Nothing THEN e ELSE indexed[1].name
              var == Find(FrameVars(f), name[1])
          IN  /\ Len(name) = 1 /\ path # Nothing /\ path[1] \in Seq(Nat) /\ var # 0
              /\ Write(VarPath(f, var, path[1]), name[1], v, Nothing)

Expressions == {<<"x">>, <<"a", "[", "1", "]", "[", "x", "]">>, <<"t", "[", "2", "]">>}
Edit ==
    /\ count.edits < MaxEdits
    /\ \E v \in Values :
          \/ \E row \in Range(held) : SetVariable(row, v)
          \/ \E f \in DOMAIN frames, e \in Expressions : SetExpression(f, e, v)

PanelNext == \/ Pause \/ Resume \/ StackTrace \/ Edit
        \/ \E r \in Given : Variables(r)

PanelSpec == PanelInit /\ [][PanelNext]_panelVars

-----------------------------------------------------------------------------
IndexPaths == UNION {[1..n -> 0..(MaxElems - 1)] : n \in 0..2}
Paths == UNION {UNION {{VarPath(f, v, p) : p \in
            {q \in IndexPaths : Len(q) = Len(scopes[f][v].dims)}} :
                v \in DOMAIN scopes[f]} : f \in DOMAIN scopes}
SymbolOf(p) == scopes[p.frame][p.var]

(* Where the compiler puts an element: rows one after the other, behind    *)
(* the vector that leads to them; rows of sizes it does not know are where *)
(* the vector says.                                                        *)
SizesKnown(sym) == sym.dims[1] > 0 /\ sym.dims[2] > 0
RowAt(sym, i) == IF SizesKnown(sym) THEN Base(sym)[1] + sym.dims[1] + i * sym.dims[2]
                 ELSE SubArray(Base(sym)[1] + i)[1]
AddressOf(sym, path) == IF Len(sym.dims) = 0 THEN Base(sym)[1]
                        ELSE IF Len(sym.dims) = 1 THEN Base(sym)[1] + path[1]
                        ELSE RowAt(sym, path[1]) + path[2]

(* The cells that lead to those of a variable, a reference and a vector,   *)
(* are those of the compiler, which no edit of this pause has written to:  *)
(* the panel cannot follow one that did.                                   *)
Vector(sym) == {Base(sym)[1] + i : i \in 0..(ElementsShown(sym.dims[1]) - 1)}
LeadingCells(sym) == (IF sym.ref THEN {sym.addr} ELSE {}) \union
                     (IF Len(sym.dims) = 2 THEN Vector(sym) ELSE {})
AsCompiled(sym) ==
    /\ Base(sym) # Nothing
    /\ LeadingCells(sym) \intersect DOMAIN edited = {}
    /\ Len(sym.dims) = 2 /\ SizesKnown(sym) =>
          \A i \in 0..(ElementsShown(sym.dims[1]) - 1) :
              SubArray(Base(sym)[1] + i) = <<RowAt(sym, i)>>

(* The plugin writes by name: of two variables of one name it writes to    *)
(* the first, whichever the panel shows.                                   *)
FirstOfName(p) ==
    \A v \in DOMAIN scopes[p.frame] :
        v < p.var => scopes[p.frame][v].name # SymbolOf(p).name

(* The panel shows what the memory holds: every cell in the tree is where  *)
(* the compiler put it and has the value it has now, also after edits,     *)
(* unless it was edited under another name.                                *)
PanelShowsMemory ==
    IsPaused => \A p \in Paths :
        Node(p) # Nothing /\ AsCompiled(SymbolOf(p)) =>
            LET a == AddressOf(SymbolOf(p), p.path)
            IN  /\ Locate(SymbolOf(p), p.path) = <<[addr |-> a, isCell |-> TRUE]>>
                /\ FirstOfName(p) /\ (a \in DOMAIN edited => edited[a] = p) =>
                       Node(p)[1].value = CellAt(<<a>>)

(* An edit reaches the cell of its row, and no other, while the stack has  *)
(* not been asked for again since the row was given.                       *)
EditsReachTheirRow ==
    last # Nothing /\ last[1].row # Nothing =>
        LET row == last[1].row[1]
            p == row.stands
        IN  row.trace = count.traces /\ row.pause = count.pauses
                /\ FirstOfName(p) /\ AsCompiled(SymbolOf(p)) =>
                last[1].addr = AddressOf(SymbolOf(p), p.path)
=============================================================================
