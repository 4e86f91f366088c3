------------------------------ MODULE ConfigTree ------------------------------
(***************************************************************************)
(* What the configuration says: two trees written by hand, one of the user *)
(* and one of the project, over the defaults (config/manager.rs,           *)
(* config/types.rs); the lists of names that move out of it                *)
(* (config/naming_lists.rs); and what the engine is given of it all        *)
(* (supervisor/engine/settings.rs).                                        *)
(*                                                                         *)
(* A value is a record of its kind: a text and a number have a content, a  *)
(* list has items, an object has fields.                                   *)
(***************************************************************************)
EXTENDS Integers, Sequences, SequencesExt, FiniteSets, TLC

Value(kind, content, items, fields) ==
    [kind |-> kind, content |-> content, items |-> items, fields |-> fields]
NoFields == [k \in {} |-> 0]
Text(s) == Value("text", s, <<>>, NoFields)
Number == Value("number", "5", <<>>, NoFields)
List(items) == Value("list", "", items, NoFields)
Object(fields) == Value("object", "", <<>>, fields)
Absent == Value("absent", "", <<>>, NoFields)
IsObject(v) == v.kind = "object"
Field(v, k) == IF IsObject(v) /\ k \in DOMAIN v.fields THEN v.fields[k] ELSE Absent
With(v, k, new) == Object((k :> new) @@ v.fields)
Minus(v, k) == Object([j \in DOMAIN v.fields \ {k} |-> v.fields[j]])

-----------------------------------------------------------------------------
(* The configuration, a section for each of its shapes: a text, a value of *)
(* a closed set, a list, a text with the folder of the project in it.      *)
InFolder(root) == Text(root \o "/.pawnpro")
Folder == "${workspaceFolder}"
Schema == [
    locale   |-> [path |-> <<"locale">>, type |-> "text", default |-> Text("")],
    preset   |-> [path |-> <<"format", "preset">>, type |-> "preset", default |-> Text("allman")],
    blocklist |-> [path |-> <<"analysis", "naming", "blocklist">>, type |-> "texts",
                   default |-> List(<<Text("tmp")>>)],
    blocklistFile |-> [path |-> <<"analysis", "naming", "blocklistFile">>, type |-> "text",
                       default |-> InFolder(Folder)],
    loopIndices |-> [path |-> <<"analysis", "naming", "allowShortInLoops">>, type |-> "texts",
                     default |-> List(<<Text("k")>>)],
    loopIndicesFile |-> [path |-> <<"analysis", "naming", "loopIndicesFile">>, type |-> "text",
                         default |-> InFolder(Folder)]]
Keys == DOMAIN Schema
(* The lists of names, in the order they are moved, and the file of each.  *)
Lists == <<"blocklist", "loopIndices">>
FileOf == [blocklist |-> "blocklistFile", loopIndices |-> "loopIndicesFile"]
Sections == {<<"format">>, <<"analysis">>, <<"analysis", "naming">>}
Paths == Sections \union {Schema[k].path : k \in Keys}
At(path) == CHOOSE k \in Keys : Schema[k].path = path

PawnProConfigDefault ==
    LET naming == Object("blocklist" :> Schema.blocklist.default
                            @@ "blocklistFile" :> Schema.blocklistFile.default
                            @@ "allowShortInLoops" :> Schema.loopIndices.default
                            @@ "loopIndicesFile" :> Schema.loopIndicesFile.default)
    IN  Object("locale" :> Schema.locale.default
               @@ "format" :> Object("preset" :> Schema.preset.default)
               @@ "analysis" :> Object("naming" :> naming))

(* What a value is accepted for; a section given as a list is read as its  *)
(* fields in order, those it lacks from the defaults.                      *)
Fits(path, v) ==
    IF path \in Sections THEN v.kind = "list" /\ v.items = <<>>
    ELSE CASE Schema[At(path)].type = "text" -> v.kind = "text"
           [] Schema[At(path)].type = "preset" -> v.kind = "text" /\ v.content \in {"allman", "knr"}
           [] Schema[At(path)].type = "texts" ->
                v.kind = "list" /\ \A k \in DOMAIN v.items : v.items[k].kind = "text"

-----------------------------------------------------------------------------
RECURSIVE DeepMerge(_, _), Substitute(_, _), Read(_, _), InsertPath(_, _, _), DeleteAt(_, _), MergeLeniently(_, _, _)

Read(v, path) == IF path = <<>> THEN v ELSE Read(Field(v, Head(path)), Tail(path))

DeepMerge(base, overlay) ==
    Object([k \in DOMAIN base.fields \union DOMAIN overlay.fields |->
              IF IsObject(Field(base, k)) /\ IsObject(Field(overlay, k))
              THEN DeepMerge(base.fields[k], overlay.fields[k])
              ELSE IF k \in DOMAIN overlay.fields THEN overlay.fields[k] ELSE base.fields[k]])

Substitute(v, root) ==
    CASE v = InFolder(Folder) -> InFolder(root)
      [] v.kind = "list" -> List([k \in DOMAIN v.items |-> Substitute(v.items[k], root)])
      [] IsObject(v) -> Object([k \in DOMAIN v.fields |-> Substitute(v.fields[k], root)])
      [] OTHER -> v

(* A faulty merge: the tree is taken as a whole or not at all.             *)
MergeAtOnce(root, path, overlay) ==
    LET wrong == {k \in Keys : LET v == Read(overlay, Schema[k].path) IN v # Absent /\ ~Fits(Schema[k].path, v)}
    IN  [root |-> IF wrong = {} THEN DeepMerge(root, overlay) ELSE root,
         rejected |-> {Schema[k].path : k \in wrong}]

(* The configuration so far, and the keys whose value it refused.          *)
MergeLeniently(root, path, overlay) ==
    FoldLeft(LAMBDA s, k :
               LET previous == Field(s.root, k)
                   incoming == overlay.fields[k]
                   here == Append(path, k)
                   nested == MergeLeniently(previous, here, incoming)
               IN  CASE previous = Absent -> s
                     [] IsObject(previous) /\ IsObject(incoming) ->
                          [root |-> With(s.root, k, nested.root), rejected |-> s.rejected \union nested.rejected]
                     [] Fits(here, incoming) -> [s EXCEPT !.root = With(@, k, incoming)]
                     [] OTHER -> [s EXCEPT !.rejected = @ \union {here}],
             [root |-> root, rejected |-> {}], SetToSeq(DOMAIN overlay.fields))

(* What is missing when the tree is read as a configuration is filled in   *)
(* from the defaults, as they are written.                                 *)
LenientConfig(merged, root) ==
    LET merge == MergeLeniently(PawnProConfigDefault, <<>>, merged)
        resolved == Substitute(merge.root, root)
    IN  [config |-> [k \in Keys |-> LET v == Read(resolved, Schema[k].path)
                                    IN  IF v = Absent THEN Schema[k].default ELSE v],
         rejected |-> merge.rejected]

(* A file that is no object is an empty one.                               *)
ReadJsonObject(v) == IF IsObject(v) THEN v ELSE Object(NoFields)
Reload(global, project, root) ==
    LenientConfig(DeepMerge(ReadJsonObject(global), ReadJsonObject(project)), root)

-----------------------------------------------------------------------------
(* Writing: a segment that is no object becomes one.                       *)
InsertPath(tree, path, v) ==
    IF Len(path) = 1 THEN With(tree, Head(path), v)
    ELSE LET next == Field(tree, Head(path))
         IN  With(tree, Head(path), InsertPath(IF IsObject(next) THEN next ELSE Object(NoFields), Tail(path), v))

Valid(path) == path # <<>> /\ \A k \in DOMAIN path : path[k] # ""
SetKeys(file, entries) ==
    IF \E k \in DOMAIN entries : ~Valid(entries[k].path) THEN [file |-> file, ok |-> FALSE]
    ELSE [file |-> FoldLeft(LAMBDA t, e : InsertPath(t, e.path, e.value), ReadJsonObject(file), entries),
          ok |-> TRUE]

DeleteAt(tree, path) ==
    IF Len(path) = 1 THEN Minus(tree, Head(path))
    ELSE LET next == Field(tree, Head(path))
         IN  IF IsObject(next) THEN With(tree, Head(path), DeleteAt(next, Tail(path))) ELSE tree
DeleteKey(file, path) ==
    LET current == ReadJsonObject(file)
    IN  IF ~Valid(path) \/ Read(current, path) = Absent THEN file ELSE DeleteAt(current, path)

-----------------------------------------------------------------------------
(* The lists of names.  A list file is the sequence of its lines; a blank  *)
(* one and a comment are no term.                                          *)
IsTerm(l) == l \notin {"", "#c"}
ReadListFile(lines, tooBig) == IF tooBig THEN <<>> ELSE SelectSeq(lines, IsTerm)
RawProjectNamingList(raw, list) ==
    LET texts == SelectSeq(Read(raw, Schema[list].path).items, LAMBDA v : v.kind = "text")
    IN  [k \in DOMAIN texts |-> texts[k].content]

(* A faulty append: the file of terms is written over.                     *)
WriteListFile(lines, items) == <<"#c", "">> \o items

AppendListFile(lines, items) ==
    LET present == ToSet(SelectSeq(lines, IsTerm))
        fresh == SelectSeq(items, LAMBDA t : t \notin present)
        base == IF lines = <<>> THEN <<"#c", "">> ELSE lines
    IN  IF fresh = <<>> THEN lines ELSE base \o fresh
(* A list file that is not there is made of what the configuration holds.  *)
SeedListFile(config, list, exists, lines) ==
    IF config[FileOf[list]] = Text("") \/ exists THEN lines
    ELSE <<"#c", "">> \o [k \in DOMAIN config[list].items |-> config[list].items[k].content]
EnsureNamingFiles(config, exists, lines) ==
    [list \in ToSet(Lists) |-> SeedListFile(config, list, list \in exists, lines[list])]

(* What a migration finds: what the manager read of the project (raw) and  *)
(* what its file holds by now (disk), the lines of the list files, those   *)
(* that can be written, and the lists whose deletion fails to be saved.    *)
Takes(q, list) == q.config[FileOf[list]] # Text("") /\ list \in q.writable

(* The terms the manager read are appended, and what the file of the       *)
(* configuration now holds of the list is deleted and the file read again; *)
(* a list file that cannot be written, or has no name, takes nothing.  A   *)
(* deletion that cannot be saved leaves the file as it was and ends the    *)
(* migration.                                                              *)
MoveList(q, s, list) ==
    LET items == RawProjectNamingList(q.raw, list)
        after == DeleteKey(s.disk, Schema[list].path)
        saved == after # s.disk /\ list \notin q.failing
    IN  IF ~s.ok \/ items = <<>> THEN s
        ELSE [lines |-> IF Takes(q, list) THEN [s.lines EXCEPT ![list] = AppendListFile(@, items)] ELSE s.lines,
              disk |-> IF saved THEN after ELSE s.disk,
              raw |-> IF saved THEN after ELSE s.raw,
              ok |-> saved \/ after = s.disk]
MigrateNamingLists(q) ==
    FoldLeft(LAMBDA s, list : MoveList(q, s, list),
             [lines |-> q.lines, disk |-> q.disk, raw |-> q.raw, ok |-> TRUE], Lists)

(* The engine is given each list of its file, or that of the configuration *)
(* when the file has none.                                                 *)
BuildNaming(config, list, lines) ==
    LET terms == IF config[FileOf[list]] = Text("") THEN <<>> ELSE ReadListFile(lines, FALSE)
    IN  IF terms # <<>> THEN ToSet(terms)
        ELSE {config[list].items[k].content : k \in DOMAIN config[list].items}

-----------------------------------------------------------------------------
(* What the files say of a place: what the project says, or when it leaves *)
(* the way there to the user, what the user says.                          *)
Cut(tree, path) == \E p \in Prefixes(path) \ {path} : Read(tree, p) # Absent /\ ~IsObject(Read(tree, p))
Said(global, project, path) ==
    LET own == Read(ReadJsonObject(project), path)
    IN  IF own # Absent \/ Cut(ReadJsonObject(project), path) THEN own
        ELSE Read(ReadJsonObject(global), path)

(* A wrong value costs its own setting and no other.  Every setting is     *)
(* what is said of it, if that is a value of it, and else its default: a   *)
(* wrong value of the project hides even a right one of the user, for the  *)
(* layers are merged before anything is refused (manager.rs:283-287).      *)
(* What is refused is what is said and does not fit.  No path is left with *)
(* the name of the folder in place of the folder - but in a section given  *)
(* as a list, whose defaults are filled in after the substitution.         *)
ConfigAgrees(global, project, root, r) ==
    /\ \A k \in Keys :
          LET said == Said(global, project, Schema[k].path)
              fits == said # Absent /\ Fits(Schema[k].path, said)
              value == IF fits THEN said ELSE Schema[k].default
              asList == \E s \in Sections : IsPrefix(s, Schema[k].path) /\ Said(global, project, s).kind = "list"
          IN  r.config[k] = IF asList THEN value ELSE Substitute(value, root)
    /\ r.rejected = {p \in Paths : LET said == Said(global, project, p)
                                   IN  said # Absent /\ ~Fits(p, said) /\ (p \in Sections => ~IsObject(said))}

(* What is written is read back, the last of two writes when they meet; a  *)
(* place no write is about says what it said, and one bad name writes      *)
(* nothing at all.                                                         *)
Meets(p, q) == IsPrefix(p, q) \/ IsPrefix(q, p)
KeysAgree(file, entries, r) ==
    IF ~r.ok THEN r.file = file /\ \E k \in DOMAIN entries : "" \in ToSet(entries[k].path)
    ELSE \A p \in Paths :
           LET met == {k \in DOMAIN entries : Meets(entries[k].path, p)}
               n == CHOOSE k \in met : \A j \in met : j <= k
               e == entries[n]
           IN  IF met = {} THEN Read(r.file, p) = Read(ReadJsonObject(file), p)
               ELSE IF IsPrefix(e.path, p)
                    THEN Read(r.file, p) = Read(e.value, SubSeq(p, Len(e.path) + 1, Len(p)))
                    ELSE IsObject(Read(r.file, p)) /\ Read(r.file, e.path) = e.value
DeleteAgrees(file, path, r) ==
    /\ \A p \in Paths : Read(r, p) =
          IF IsPrefix(path, p) THEN Absent
          ELSE IF IsPrefix(p, path) /\ Read(file, path) # Absent
               THEN DeleteAt(Read(file, p), SubSeq(path, Len(p) + 1, Len(path)))
          ELSE Read(file, p)
    /\ (~Valid(path) \/ Read(file, path) = Absent) => r = file

(* What a migration does to a list it comes to.  The terms the manager     *)
(* read are in the list file when it takes any, after every line the       *)
(* developer wrote there.  A term is lost only of a list that was deleted, *)
(* and then it is one the manager had not read, or any that the file did   *)
(* not take (naming_lists.rs ignores a write that fails).  The engine is   *)
(* given at least the names it was given, but for those, for the names of  *)
(* a comment, and for the defaults that stood in for a refused list.       *)
ListAgrees(q, r, list) ==
    LET items == ToSet(RawProjectNamingList(q.raw, list))
        unread == ToSet(RawProjectNamingList(q.disk, list)) \ items
        deleted == Read(r.disk, Schema[list].path) = Absent
        untaken == IF Takes(q, list) THEN {} ELSE items
        kept == ToSet(r.lines[list]) \union ToSet(RawProjectNamingList(r.disk, list))
        before == {t \in BuildNaming(q.config, list, q.lines[list]) : IsTerm(t)}
        after == BuildNaming(Reload(Object(NoFields), r.raw, "w").config, list, r.lines[list])
        refused == ~Fits(Schema[list].path, Read(q.raw, Schema[list].path))
    IN  /\ IsPrefix(q.lines[list], r.lines[list])
        /\ items \ untaken \subseteq ToSet(r.lines[list])
        /\ (items \union unread) \ kept \subseteq untaken \union (IF deleted THEN unread ELSE {})
        /\ r.ok => deleted
        /\ before \ after \subseteq
              untaken \union (IF refused THEN {v.content : v \in ToSet(Schema[list].default.items)} ELSE {})

(* A list it does not come to is as it was: one of which the manager read  *)
(* nothing, and one behind a deletion that failed.  Migrating again, after *)
(* a failure or not, finishes it and writes no term twice - but for one    *)
(* that begins like a comment, which the file does not show as present.    *)
Times(lines, t) == Len(SelectSeq(lines, LAMBDA l : l = t))
MigrateAgrees(q, r) ==
    LET read == {list \in ToSet(Lists) : RawProjectNamingList(q.raw, list) # <<>>}
        held(list) == Read(q.disk, Schema[list].path) # Absent
        first == {list \in read \intersect q.failing : held(list)}
        reached == IF "blocklist" \in first THEN {"blocklist"} ELSE read
        again == MigrateNamingLists([q EXCEPT !.raw = r.raw, !.disk = r.disk, !.lines = r.lines, !.failing = {},
                                              !.config = Reload(Object(NoFields), r.raw, "w").config])
    IN  /\ r.ok = (first = {})
        /\ \A list \in reached : ListAgrees(q, r, list)
        /\ \A list \in ToSet(Lists) \ reached :
              r.lines[list] = q.lines[list] /\ Read(r.disk, Schema[list].path) = Read(q.disk, Schema[list].path)
        /\ again.ok
        /\ \A list \in read :
              /\ RawProjectNamingList(again.disk, list) = <<>>
              /\ \A t \in ToSet(r.lines[list]) :
                    IsTerm(t) => Times(again.lines[list], t) = Times(r.lines[list], t)

(* A file that is there stays as its owner left it; one that is made gives *)
(* the engine the names it was given without it, and the engine is given   *)
(* what the owner writes there from then on.                               *)
SeedAgrees(config, exists, lines, r) ==
    \A list \in ToSet(Lists) :
        LET there == list \in exists
            before == BuildNaming(config, list, IF there THEN lines[list] ELSE <<>>)
            ownTerm == Append(r[list], "own")
        IN  /\ there => r[list] = lines[list]
            /\ {t \in before : IsTerm(t)} = {t \in BuildNaming(config, list, r[list]) : IsTerm(t)}
            /\ config[FileOf[list]] # Text("") =>
                  ToSet(SelectSeq(ownTerm, IsTerm)) = BuildNaming(config, list, ownTerm)
=============================================================================
