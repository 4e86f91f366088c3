--------------------------- MODULE EngineDocuments ---------------------------
(***************************************************************************)
(* The engine behind the LSP: the texts the editor has open, what is kept  *)
(* of each file, the analyses and the requests running on the blocking     *)
(* threads, and the settings the core delivers while they run.             *)
(*                                                                         *)
(* A text is the number of the edit that made it.  An analysis holds the   *)
(* read lock of the state, which open, change and close take too: only     *)
(* the settings take the write lock.  So the texts may change between the  *)
(* moment an analysis takes its own text (Begin) and the moment it has     *)
(* read its includes (Finish), and anything may happen before it looks at  *)
(* the version (Check) and before the editor gets the result (Publish).    *)
(* A request that finds no parse of its file reads the text (BeginRequest) *)
(* and keeps its own parse of it later (EndRequest), under the same lock.  *)
(* Opening and changing a document are one step each: the parse goes just  *)
(* before the text comes; what a request keeps in between is as if it were *)
(* kept after, and one that begins there is a part of the step             *)
(* (AskedMeanwhile).                                                       *)
(***************************************************************************)
EXTENDS Naturals, Sequences, FiniteSets, Bags

CONSTANTS Files,       \* the paths of the workspace
          Includes,    \* the files each file includes, in [Files -> SUBSET Files]
          IncFiles,    \* those with the extension of an include
          Published,   \* bound: the settings the core publishes
          Requests,    \* bound: the requests that may be parsing at once
          MaxEvents,   \* bound: what the editor, the disk and the core do
          MaxJobs      \* bound: analyses and requests under way when they do it

Settings == [suppress: BOOLEAN, style: BOOLEAN]

ASSUME DocumentsAssumption ==
    /\ Includes \in [Files -> SUBSET Files]
    /\ IncFiles \subseteq Files
    /\ Published \subseteq Settings
    /\ MaxEvents \in Nat /\ MaxJobs \in Nat

VARIABLES docs,       \* open_docs: what the editor has open
          disk,       \* the files on the disk
          parsed,     \* parsed_cache: the text whose parse is kept
          dependents, \* dep_graph: who includes a file, as analyses found it
          idents,     \* ident_cache: the text and the date it was read at
          channel,    \* the settings: delivered, applied, and taken by whom
          targets,    \* handlers that have still to ask who depends on a file
          jobs,       \* the bag of the publish_diagnostics_for that are running
          requests,   \* the get_parsed that are parsing, and what they read
          shown,      \* the diagnostics the editor shows
          history,    \* the open documents that were answered with their text
                      \* and with the settings, those with a result overtaken
                      \* after it was decided, those edited during a parse
          events      \* what the editor, the disk and the core have done

vars == <<docs, disk, parsed, dependents, idents, channel, targets, jobs,
          requests, shown, history, events>>

None == 0                       \* no text: texts are numbered from 1
Closed == [text |-> None, version |-> 0]
NoSettings == [suppress |-> FALSE, style |-> FALSE]
IsOpen(f) == docs[f] # Closed
Opened == {f \in Files : IsOpen(f)}

(* A text nobody has yet: the editor's and the disk's come from one count. *)
FreshText == events + 2

(* text_at: the text as the user sees it, the editor's before the disk's. *)
TextAt(f) == IF IsOpen(f) THEN docs[f].text ELSE disk[f].text

(* idents_of: of an open file those of its text; of another those kept, if *)
(* the date of the file is still the one they were read at.                *)
IdentsOf(f) ==
    IF IsOpen(f) THEN docs[f].text
    ELSE IF idents[f].text # None /\ idents[f].date = disk[f].date
         THEN idents[f].text
         ELSE disk[f].text

(* unit_files: what is compiled together with f, through the programs no   *)
(* other file includes.                                                    *)
Reach(edge, f) ==
    {g \in Files : \A S \in SUBSET Files :
        (f \in S /\ \A x \in S : edge[x] \subseteq S) => g \in S}
IncludeClosure == [f \in Files |-> Reach(Includes, f)]
Programs == {p \in Files \ IncFiles : \A g \in Files : p \notin Includes[g]}
UnitFiles ==
    [f \in Files |->
        LET units == {IncludeClosure[p] : p \in
                        {q \in Programs : f \in IncludeClosure[q]}}
        IN  IF units = {} THEN IncludeClosure[f] ELSE UNION units]

(* open_dependents: the open files from which f is reached in the graph.   *)
OpenDependents(f) == Reach(dependents, f) \intersect Opened

(* What is left of the parses when f changes: evict_dependents.            *)
Evicted(f) == [g \in Files |->
                IF g \in Reach(dependents, f) THEN None ELSE parsed[g]]

Job(f) == [file |-> f, phase |-> "queued", own |-> None, version |-> 0,
           seen |-> [g \in Files |-> None], idents |-> [g \in Files |-> None],
           suppress |-> FALSE]
Enqueue(S) == jobs' = jobs (+) SetToBag({Job(f) : f \in S})

(* A change of what an analysis reads makes the results decided before it  *)
(* outdated: those past their check, and, since the check compares only    *)
(* the version of the document itself, those that took another file's text *)
(* or the settings before the change.                                      *)
Outdated(reads(_)) ==
    {j.file : j \in {k \in BagToSet(jobs) : k.phase # "queued" /\ reads(k)}}
Readers(f) == Outdated(LAMBDA j : IF j.file = f
                                  THEN j.phase = "checked" \/ j.version = 0
                                  ELSE f \in UnitFiles[j.file])
Parsing(f) == \/ \E j \in BagToSet(jobs) : j.file = f /\ j.phase = "read"
              \/ \E r \in requests' : r.file = f
Changed(f, S) ==
    history' = [overtaken |-> history.overtaken \union S,
                crossed |-> IF Parsing(f) THEN history.crossed \union {f}
                                          ELSE history.crossed,
                answered |-> history.answered \ {f},
                informed |-> IF IsOpen(f) THEN history.informed
                                          ELSE history.informed \ {f}]

TypeOK ==
    /\ docs \in [Files -> [text: Nat, version: Nat]]
    /\ parsed \in [Files -> Nat]
    /\ dependents \in [Files -> SUBSET Files]
    /\ history \in [{"overtaken", "crossed", "answered", "informed"} -> SUBSET Files]
    /\ \A j \in DOMAIN jobs : j.phase \in {"queued", "read", "done", "checked"}
    /\ requests \subseteq [by: Requests, file: Files, text: Nat]

Init ==
    /\ docs = [f \in Files |-> Closed]
    /\ disk = [f \in Files |-> [text |-> 1, date |-> 1]]
    /\ parsed = [f \in Files |-> None]
    /\ dependents = [f \in Files |-> {}]
    /\ idents = [f \in Files |-> [text |-> None, date |-> 0]]
    /\ channel = [delivered |-> NoSettings, fresh |-> FALSE, taken |-> <<>>,
                  applied |-> NoSettings, borrowed |-> <<>>, ready |-> FALSE,
                  overwritten |-> FALSE, republish |-> FALSE]
    /\ targets = {}
    /\ jobs = EmptyBag
    /\ requests = {}
    /\ shown = [f \in Files |-> Job(f)]
    /\ history = [overtaken |-> {}, crossed |-> {}, answered |-> {}, informed |-> {}]
    /\ events = 0

Event ==
    /\ events < MaxEvents
    /\ BagCardinality(jobs) + Cardinality(requests) <= MaxJobs
    /\ events' = events + 1

-----------------------------------------------------------------------------
(* The handshake and the settings.                                         *)

(* The core publishes settings; the channel keeps the last one.            *)
Deliver ==
    /\ Event
    /\ \E s \in Published \ {channel.delivered} :
           channel' = [channel EXCEPT !.delivered = s, !.fresh = TRUE]
    /\ UNCHANGED <<requests, docs, disk, parsed, dependents, idents, targets, jobs,
                   shown, history>>

(* initialize copies the settings of the moment...                         *)
Initialize ==
    /\ ~channel.ready /\ channel.borrowed = <<>>
    /\ channel' = [channel EXCEPT !.borrowed = <<channel.delivered>>]
    /\ UNCHANGED <<requests, docs, disk, parsed, dependents, idents, targets, jobs,
                   shown, history, events>>

(* ...and applies them once it has the write lock: the task that follows   *)
(* the channel may have had it in between, with newer ones.                *)
ApplyInit ==
    /\ channel.borrowed # <<>>
    /\ channel' = [channel EXCEPT
            !.applied = channel.borrowed[1], !.borrowed = <<>>, !.ready = TRUE,
            !.overwritten = channel.borrowed[1] # channel.delivered /\ ~channel.fresh
                                /\ channel.taken = <<>>]
    /\ UNCHANGED <<requests, docs, disk, parsed, dependents, idents, targets, jobs,
                   shown, history, events>>

(* follow_the_core: takes what the channel holds...                        *)
FollowTake ==
    /\ channel.fresh /\ channel.taken = <<>> /\ ~channel.republish
    /\ channel' = [channel EXCEPT !.fresh = FALSE, !.taken = <<channel.delivered>>]
    /\ UNCHANGED <<requests, docs, disk, parsed, dependents, idents, targets, jobs,
                   shown, history, events>>

Reading == requests # {} \/ \E j \in DOMAIN jobs : j.phase = "read"

ApplyChangeInSilence ==
    /\ channel.taken # <<>> /\ ~Reading
    /\ channel' = [channel EXCEPT !.applied = channel.taken[1], !.taken = <<>>,
                                  !.overwritten = FALSE]
    /\ history' = IF channel.taken[1].suppress # channel.applied.suppress
                  THEN [history EXCEPT !.informed = {}] ELSE history
    /\ UNCHANGED <<requests, docs, disk, parsed, dependents, idents, targets, jobs,
                   shown, events>>

(* ...applies it with the write lock, when nobody holds the other; what    *)
(* changes only the style of the formatter republishes nothing...          *)
ApplyChange ==
    /\ channel.taken # <<>> /\ ~Reading
    /\ LET s == channel.taken[1]
           changed == s.suppress # channel.applied.suppress
       IN  /\ channel' = [channel EXCEPT !.applied = s, !.taken = <<>>,
                                         !.republish = changed,
                                         !.overwritten = FALSE]
           /\ history' = IF changed
                         THEN [history EXCEPT !.informed = {},
                                  !.overtaken = @ \union Outdated(LAMBDA j : TRUE)]
                         ELSE history
    /\ UNCHANGED <<requests, docs, disk, parsed, dependents, idents, targets, jobs,
                   shown, events>>

(* ...and republishes all that is open: republish_all.                     *)
RepublishAll ==
    /\ channel.republish
    /\ Enqueue(Opened)
    /\ channel' = [channel EXCEPT !.republish = FALSE]
    /\ UNCHANGED <<requests, docs, disk, parsed, dependents, idents, targets, shown,
                   history, events>>

-----------------------------------------------------------------------------
(* The notifications of the editor.                                        *)

(* A request that runs beside the handler of an edit, between the eviction *)
(* of the parse and the new text, finds no parse and reads the text that   *)
(* goes; bound: with nothing else under way.                               *)
AskedMeanwhile(f) ==
    \/ UNCHANGED requests
    \/ \E q \in Requests :
          /\ \A r \in requests : r.by # q
          /\ BagCardinality(jobs) + Cardinality(requests) < MaxJobs
          /\ requests' = requests \union {[by |-> q, file |-> f, text |-> TextAt(f)]}

(* did_open: the text is the editor's, which may have restored one that    *)
(* was never saved; only the file itself is published, so those who        *)
(* include it keep the diagnostics of what the disk has.                   *)
DidOpen(f) ==
    /\ channel.ready /\ ~IsOpen(f) /\ Event
    /\ AskedMeanwhile(f)
    /\ \E text \in {disk[f].text, FreshText} :
        /\ docs' = [docs EXCEPT ![f] = [text |-> text, version |-> 1]]
        /\ Changed(f, Outdated(LAMBDA j : j.file = f) \union
                         IF text = disk[f].text THEN {}
                         ELSE {g \in Files \ {f} : f \in UnitFiles[g]})
    /\ parsed' = [parsed EXCEPT ![f] = None]
    /\ Enqueue({f})
    /\ UNCHANGED <<disk, dependents, idents, channel, targets, shown>>

(* change_document: the parse of the file and of all that depends on it    *)
(* goes; who depends on it is asked after the next await.                  *)
DidChange(f) ==
    /\ IsOpen(f) /\ Event
    /\ AskedMeanwhile(f)
    /\ docs' = [docs EXCEPT ![f] = [text |-> FreshText, version |-> @.version + 1]]
    /\ parsed' = Evicted(f)
    /\ targets' = targets \union {f}
    /\ Changed(f, Readers(f))
    /\ UNCHANGED <<disk, dependents, idents, channel, jobs, shown>>

(* The disk gets the text of the editor, and did_save publishes as a       *)
(* change does.                                                            *)
DidSave(f) ==
    /\ IsOpen(f) /\ docs[f].text # disk[f].text /\ Event
    /\ disk' = [disk EXCEPT ![f] = [text |-> docs[f].text, date |-> @.date + 1]]
    /\ targets' = targets \union {f}
    /\ UNCHANGED <<requests, docs, parsed, dependents, idents, channel, jobs, shown,
                   history>>

WatchedFilesKeepIdents(f) ==
    /\ channel.ready /\ Event
    /\ UNCHANGED requests
    /\ \E date \in {disk[f].date, disk[f].date + 1} :
           disk' = [disk EXCEPT ![f] = [text |-> FreshText, date |-> date]]
    /\ parsed' = Evicted(f)
    /\ Enqueue(IF OpenDependents(f) = {} THEN {f} ELSE OpenDependents(f))
    /\ IF IsOpen(f) THEN UNCHANGED history ELSE Changed(f, Readers(f))
    /\ UNCHANGED <<docs, idents, dependents, channel, targets, shown>>

(* Another program writes the file and the editor's watcher reports it:    *)
(* what is kept of the file goes, the identifiers with it, since two       *)
(* writes of the same instant have the same date.                          *)
DidChangeWatchedFiles(f) ==
    /\ channel.ready /\ Event
    /\ UNCHANGED requests
    /\ \E date \in {disk[f].date, disk[f].date + 1} :
           disk' = [disk EXCEPT ![f] = [text |-> FreshText, date |-> date]]
    /\ parsed' = Evicted(f)
    /\ idents' = [idents EXCEPT ![f] = [text |-> None, date |-> 0]]
    /\ Enqueue(IF OpenDependents(f) = {} THEN {f} ELSE OpenDependents(f))
    /\ IF IsOpen(f) THEN UNCHANGED history ELSE Changed(f, Readers(f))
    /\ UNCHANGED <<docs, dependents, channel, targets, shown>>

(* did_close: the diagnostics go at once, whatever is still being analysed,*)
(* and nobody who includes the file is told that its text is now the       *)
(* disk's: their diagnostics stay those of the text that was dropped.      *)
DidClose(f) ==
    /\ IsOpen(f) /\ Event
    /\ UNCHANGED requests
    /\ docs' = [docs EXCEPT ![f] = Closed]
    /\ parsed' = [parsed EXCEPT ![f] = None]
    /\ shown' = [shown EXCEPT ![f] = Job(f)]
    /\ Changed(f, Readers(f) \union
                     IF docs[f].text = disk[f].text THEN {}
                     ELSE {g \in Files \ {f} : f \in UnitFiles[g]})
    /\ UNCHANGED <<disk, dependents, idents, channel, targets, jobs>>

(* The rest of did_change and did_save: whoever depends on the file and is *)
(* open, or the file itself when nothing does.                             *)
SpawnTargets(f) ==
    /\ f \in targets
    /\ targets' = targets \ {f}
    /\ Enqueue(IF OpenDependents(f) = {} THEN {f} ELSE OpenDependents(f))
    /\ UNCHANGED <<requests, docs, disk, parsed, dependents, idents, channel, shown,
                   history, events>>

(* A hover, a completion, any request that reads a file through            *)
(* get_parsed, of a document the editor has open: where no parse is kept   *)
(* it reads the text...                                                    *)
BeginRequest(q, f) ==
    /\ events < MaxEvents \* bound: after the last event nothing can cross it
    /\ IsOpen(f) /\ parsed[f] = None /\ \A r \in requests : r.by # q
    /\ requests' = requests \union {[by |-> q, file |-> f, text |-> TextAt(f)]}
    /\ UNCHANGED <<docs, disk, parsed, dependents, idents, channel, targets, jobs,
                   shown, history, events>>

(* ...and keeps the parse of what it read, whatever came in between.       *)
EndRequest(r) ==
    /\ parsed' = [parsed EXCEPT ![r.file] = r.text]
    /\ requests' = requests \ {r}
    /\ UNCHANGED <<docs, disk, dependents, idents, channel, targets, jobs, shown,
                   history, events>>

-----------------------------------------------------------------------------
(* The analysis of one file, on a blocking thread.                         *)

Turn(j, into) == jobs' = (jobs (-) SetToBag({j})) (+) into
Becomes(j, k) == Turn(j, SetToBag({k}))
Drop(j) == Turn(j, EmptyBag)

(* analyze_versioned takes the text and the version together: version 0    *)
(* for a file that is not open.                                            *)
Begin(j) ==
    /\ j.phase = "queued"
    /\ Becomes(j, [j EXCEPT !.phase = "read", !.own = TextAt(j.file),
                            !.version = docs[j.file].version,
                            !.suppress = channel.applied.suppress])
    /\ UNCHANGED <<requests, docs, disk, parsed, dependents, idents, channel, targets,
                   shown, history, events>>

(* The rest of it: the includes as the user sees them, the identifiers of  *)
(* the compilation unit, the graph and the parse that is kept.  With the   *)
(* diagnostics of includes off it returns before any of that.              *)
Finish(j) ==
    /\ j.phase = "read"
    /\ LET included == IncludeClosure[j.file] \ {j.file}
           others == UnitFiles[j.file] \ {j.file}
       IN  IF j.suppress /\ j.file \in IncFiles
           THEN /\ Becomes(j, [j EXCEPT !.phase = "done"])
                /\ UNCHANGED <<parsed, dependents, idents>>
           ELSE /\ Becomes(j, [j EXCEPT !.phase = "done",
                       !.seen = [g \in Files |->
                                   IF g \in included THEN TextAt(g) ELSE None],
                       !.idents = [g \in Files |->
                                   IF g \in others THEN IdentsOf(g) ELSE None]])
                /\ parsed' = [parsed EXCEPT ![j.file] = j.own]
                /\ dependents' = [g \in Files |-> dependents[g] \union
                      {h \in included \union {j.file} : g \in Includes[h]}]
                /\ idents' = [g \in Files |->
                      IF g \in others /\ ~IsOpen(g)
                      THEN [text |-> IdentsOf(g), date |-> disk[g].date]
                      ELSE idents[g]]
    /\ UNCHANGED <<requests, docs, disk, channel, targets, shown, history, events>>

CheckLaterOnly(j) ==
    /\ j.phase = "done"
    /\ IF j.version # 0 /\ docs[j.file].version >= j.version
       THEN Drop(j)
       ELSE Becomes(j, [j EXCEPT !.phase = "checked"])
    /\ UNCHANGED <<requests, docs, disk, parsed, dependents, idents, channel, targets,
                   shown, history, events>>

CheckNothing(j) ==
    /\ j.phase = "done"
    /\ Becomes(j, [j EXCEPT !.phase = "checked"])
    /\ UNCHANGED <<requests, docs, disk, parsed, dependents, idents, channel, targets,
                   shown, history, events>>

(* publish_diagnostics_for, back from the thread: a result of a version    *)
(* the document no longer has is dropped.                                  *)
Check(j) ==
    /\ j.phase = "done"
    /\ IF j.version # 0 /\ docs[j.file].version # j.version
       THEN Drop(j)
       ELSE Becomes(j, [j EXCEPT !.phase = "checked"])
    /\ UNCHANGED <<requests, docs, disk, parsed, dependents, idents, channel, targets,
                   shown, history, events>>

Publish(j) ==
    /\ j.phase = "checked"
    /\ shown' = [shown EXCEPT ![j.file] = j]
    /\ history' = [history EXCEPT
            !.answered = IF j.own = TextAt(j.file) THEN @ \union {j.file} ELSE @,
            !.informed = IF j.suppress = channel.applied.suppress
                         THEN @ \union {j.file} ELSE @]
    /\ Drop(j)
    /\ UNCHANGED <<requests, docs, disk, parsed, dependents, idents, channel, targets,
                   events>>

Analysis ==
    \E j \in BagToSet(jobs) : Begin(j) \/ Finish(j) \/ Check(j) \/ Publish(j)
EndRequests == \E r \in requests : EndRequest(r)
Handshake == Initialize \/ ApplyInit
Follow == FollowTake \/ ApplyChange \/ RepublishAll
Editor == \E f \in Files : \/ DidOpen(f) \/ DidChange(f) \/ DidSave(f)
                           \/ DidChangeWatchedFiles(f) \/ DidClose(f)

Next == \/ Deliver \/ Handshake \/ Follow \/ Editor \/ Analysis
        \/ \E f \in Files : SpawnTargets(f)
        \/ \E q \in Requests, f \in Files : BeginRequest(q, f)
        \/ EndRequests

(* The runtime polls every task it has: the analyses, the requests, the    *)
(* handlers and the task that follows the core all go on.  The editor, the *)
(* disk and the core owe nothing.                                          *)
Fairness ==
    /\ WF_vars(Analysis \/ EndRequests)
    /\ WF_vars(\E f \in Files : SpawnTargets(f))
    /\ WF_vars(Handshake)
    /\ WF_vars(Follow)

Spec == Init /\ [][Next]_vars /\ Fairness

-----------------------------------------------------------------------------
Quiet == jobs = EmptyBag /\ targets = {} /\ ~channel.republish

(* When nothing is running, an open document shows the diagnostics of its  *)
(* own text and of the includes and settings there are now: whatever the   *)
(* order of the edits, the saves and the analyses, unless a result was     *)
(* overtaken after the check of its version, or read an include or the     *)
(* settings before they changed, or an include was opened or closed with   *)
(* a text other than the disk's, which did_open and did_close tell nobody. *)
QuietShowsTheLatest ==
    Quiet => \A f \in Opened \ history.overtaken :
        /\ shown[f].own = docs[f].text
        /\ shown[f].suppress = channel.applied.suppress
        /\ ~(shown[f].suppress /\ f \in IncFiles) =>
               \A g \in IncludeClosure[f] \ {f} :
                   /\ shown[f].seen[g] = TextAt(g)
                   /\ shown[f].idents[g] = TextAt(g)

(* What is kept of a file is what the file is: the parse that requests     *)
(* read is that of the editor's text, unless it was edited, opened or      *)
(* closed while an analysis or a request was parsing it; identifiers of    *)
(* the date of the file are those of its text, even when two writes have   *)
(* one date; and diagnostics under the version of a document are of its    *)
(* text, unless it was reopened meanwhile and its versions began again.    *)
KeptIsCurrent ==
    \A f \in Files :
        /\ IsOpen(f) /\ f \notin history.overtaken
           /\ shown[f].version = docs[f].version => shown[f].own = docs[f].text
        /\ IsOpen(f) /\ f \notin history.crossed => parsed[f] \in {None, docs[f].text}
        /\ idents[f].text # None /\ idents[f].date = disk[f].date =>
               idents[f].text = disk[f].text

(* Every edit is answered: once the editor stops, each open document has   *)
(* been shown the diagnostics of the text it kept.                         *)
EditsAreAnswered == []<>(Opened \subseteq history.answered)

(* The settings the core keeps are applied and reach every open document,  *)
(* unless initialize put older ones over them.                             *)
SettingsReachTheScreen ==
    []<>(\/ channel.overwritten
         \/ channel.applied = channel.delivered /\ Opened \subseteq history.informed)
=============================================================================
