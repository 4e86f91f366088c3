------------------------------ MODULE SourceMap ------------------------------
(***************************************************************************)
(* Which line of the compiled program a line of the editor is, and which   *)
(* file of the debug block a file of the editor is.                        *)
(*                                                                         *)
(* A text is a sequence of lines; a path a sequence of components from the *)
(* root, a name of the debug block one from the folder of the .amx.        *)
(***************************************************************************)
EXTENDS Integers, Sequences, SequencesExt, FiniteSets

None == <<>>

(* The diff may align the two texts in any way that keeps the order and    *)
(* the lines: what it gives past its deadline is only less than it could.  *)
Alignments(old, new) ==
    {A \in SUBSET ((DOMAIN old) \X (DOMAIN new)) :
        /\ \A p \in A : old[p[1]] = new[p[2]]
        /\ \A p, q \in A : p # q => p[1] # q[1] /\ (p[1] < q[1] <=> p[2] < q[2])}

(* LineMap: both tables, filled from the lines that are equal.             *)
Unfilled(n) == [k \in 1..n |-> None]
Between(old, new, aligned) ==
    [compiled |-> [k \in DOMAIN new |->
                      IF \E p \in aligned : p[2] = k
                      THEN <<CHOOSE i \in DOMAIN old : <<i, k>> \in aligned>> ELSE None],
     current |-> [k \in DOMAIN old |->
                      IF \E p \in aligned : p[1] = k
                      THEN <<CHOOSE i \in DOMAIN new : <<k, i>> \in aligned>> ELSE None]]

Lookup(table, line) == IF line \in DOMAIN table THEN table[line] ELSE None

(* capture: the text is kept only if the file is not newer than the .amx.  *)
(* A file: what it held, and since when, at the compilation, when the      *)
(* session began and now.                                                  *)
Snapshot(file) == IF file.session.date <= file.compiledAt THEN <<file.session.text>> ELSE None

View(file, aligned) ==
    LET kept == Snapshot(file)
    IN  IF kept = None
        THEN [kind |-> IF file.now.date <= file.compiledAt THEN "unchanged" ELSE "unknown",
              map |-> None]
        ELSE IF file.now.text = kept[1] THEN [kind |-> "unchanged", map |-> None]
        ELSE [kind |-> "changed", map |-> <<Between(kept[1], file.now.text, aligned)>>]

ToCompiled(view, line) == CASE view.kind = "unchanged" -> <<line>>
                            [] view.kind = "changed" -> Lookup(view.map[1].compiled, line)
                            [] OTHER -> None
ToCurrent(view, line) == CASE view.kind = "unchanged" -> <<line>>
                           [] view.kind = "changed" -> Lookup(view.map[1].current, line)
                           [] OTHER -> None

(* What the compiler read: the file as it was when the .amx was written.   *)
(* A line stands for the same code in both directions, never for another.  *)
ViewAgrees(file, view) ==
    LET lines == 0..(Len(file.compiled) + Len(file.now.text) + 1)
        sameLine(i, k) == i \in DOMAIN file.compiled /\ k \in DOMAIN file.now.text
                              => file.compiled[i] = file.now.text[k]
    IN  /\ \A k \in lines : \A i \in Range(ToCompiled(view, k)) :
               sameLine(i, k) /\ ToCurrent(view, i) = <<k>>
        /\ \A i \in lines : \A k \in Range(ToCurrent(view, i)) : ToCompiled(view, k) = <<i>>
        /\ \A k, m \in lines : \A i \in Range(ToCompiled(view, k)), j \in Range(ToCompiled(view, m)) :
               k < m => i < j

-----------------------------------------------------------------------------
Parent == ".."

(* normalize: by the text of the path.  A parent removes what is before it *)
(* whatever that is, another parent included.                              *)
Normalize(path) ==
    FoldLeft(LAMBDA out, part : CASE part = "." -> out
                                  [] part = Parent /\ out # <<>> -> Front(out)
                                  [] OTHER -> Append(out, part),
             <<>>, path)

DiskPath(base, name) == Normalize(base \o name)

(* file_name_matches: one ends with the other, at a folder.                *)
FileNameMatches(name, path) == IsSuffix(name, path) \/ IsSuffix(path, name)

(* find: by the path on the disk; only when none has it, by the suffix.    *)
FindFile(base, names, path) ==
    LET exact == SelectInSeq(names, LAMBDA n : DiskPath(base, n) = Normalize(path))
    IN  IF exact # 0 THEN exact
        ELSE SelectInSeq(names, LAMBDA n : FileNameMatches(n, path))

(* Where a walk from folder to folder ends.                                *)
Walk(from, path) ==
    FoldLeft(LAMBDA at, part : CASE part = "." -> at
                                 [] part = Parent -> Front(at)
                                 [] OTHER -> Append(at, part),
             from, path)

(* A file of the program is found by where it is, whatever other file has  *)
(* a name that ends like its own.                                          *)
FindAgrees(base, names, path, found) ==
    /\ (\E k \in DOMAIN names : Walk(base, names[k]) = path) =>
           found # 0 /\ Walk(base, names[found]) = path
    /\ found # 0 /\ Walk(base, names[found]) # path => FileNameMatches(names[found], path)
=============================================================================
