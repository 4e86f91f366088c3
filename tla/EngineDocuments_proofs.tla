----------------------- MODULE EngineDocuments_proofs -----------------------
(***************************************************************************)
(* What the engine keeps of a file is what the file is: for any files and  *)
(* includes, any number of events, and any number of analyses under way.   *)
(***************************************************************************)
EXTENDS EngineDocuments, TLAPS

Fields == {"file", "phase", "own", "version", "seen", "idents", "suppress"}
Phases == {"queued", "read", "done", "checked"}

(* A document has a version exactly while it is open.                      *)
DocsInv ==
    /\ docs \in [Files -> [text: Nat, version: Nat]]
    /\ disk \in [Files -> [text: Nat, date: Nat]]
    /\ events \in Nat
    /\ DOMAIN history = {"overtaken", "crossed", "answered", "informed"}
    /\ \A f \in Files : docs[f].version = 0 => docs[f] = Closed

(* An analysis that took the version of its document took its text, and a  *)
(* result that passed the check is of the version the document still has:  *)
(* unless it was overtaken.                                                *)
SoundJob(j) ==
    /\ DOMAIN j = Fields /\ j.file \in Files /\ j.phase \in Phases /\ j.version \in Nat
    /\ j.phase # "queued" /\ IsOpen(j.file) /\ j.file \notin history.overtaken =>
           /\ j.version <= docs[j.file].version
           /\ j.version = docs[j.file].version => j.own = docs[j.file].text
    /\ j.phase = "checked" /\ j.version # 0 /\ j.file \notin history.overtaken =>
           IsOpen(j.file) /\ j.version = docs[j.file].version
    /\ j.phase = "read" /\ IsOpen(j.file) /\ j.file \notin history.crossed =>
           j.own = docs[j.file].text
JobInv == \A j \in BagToSet(jobs) : SoundJob(j)

(* What is shown under a version is not ahead of the document, and nothing *)
(* is shown under a version of a closed one.                               *)
ShownInv ==
    /\ shown = [f \in Files |-> shown[f]]
    /\ \A f \in Files :
         /\ shown[f].version \in Nat
         /\ f \notin history.overtaken =>
                /\ ~IsOpen(f) => shown[f].version = 0
                /\ IsOpen(f) => shown[f].version <= docs[f].version
                /\ IsOpen(f) /\ shown[f].version = docs[f].version =>
                       shown[f].own = docs[f].text

(* The parse kept of an open document is of its text, unless it was edited *)
(* during a parse.                                                         *)
ParsedInv ==
    /\ parsed = [f \in Files |-> parsed[f]]
    /\ \A f \in Files : IsOpen(f) /\ f \notin history.crossed =>
           parsed[f] \in {None, docs[f].text}

(* The identifiers kept are not younger than the file.                     *)
IdentsInv ==
    /\ idents = [f \in Files |-> idents[f]]
    /\ \A f \in Files :
         /\ idents[f].date \in Nat /\ idents[f].date <= disk[f].date
         /\ idents[f].text # None /\ idents[f].date = disk[f].date =>
                idents[f].text = disk[f].text

KeptInv == DocsInv /\ JobInv /\ ShownInv /\ ParsedInv /\ IdentsInv

(* What a request read is the text of the document, unless it was edited   *)
(* since.                                                                  *)
RequestsInv == \A r \in requests :
    /\ r.file \in Files
    /\ IsOpen(r.file) /\ r.file \notin history.crossed => r.text = docs[r.file].text

-----------------------------------------------------------------------------
(* What joins the bag of the analyses.                                     *)
LEMMA BagJoins ==
    ASSUME NEW A, NEW S
    PROVE  BagToSet(A (+) SetToBag(S)) = BagToSet(A) \union S
BY DEF BagToSet, SetToBag, (+)

(* Nothing else is in it when some leave.                                  *)
LEMMA BagLeaves ==
    ASSUME NEW A, NEW B
    PROVE  BagToSet(A (-) B) \subseteq BagToSet(A)
BY DEF BagToSet, (-)

(* An analysis that was started has not begun (publish_diagnostics_for).   *)
LEMMA StartJobs ==
    ASSUME NEW S, Enqueue(S)
    PROVE  BagToSet(jobs') = BagToSet(jobs) \union {Job(f) : f \in S}
<1>1. jobs' = jobs (+) SetToBag({Job(f) : f \in S})
  BY DEF Enqueue
<1>2. BagToSet(jobs') = BagToSet(jobs (+) SetToBag({Job(f) : f \in S}))
  BY <1>1
<1> QED
  BY <1>2, BagJoins

(* One analysis goes on, or is over.                                       *)
LEMMA BecomesJobs ==
    ASSUME NEW j, NEW k, Becomes(j, k)
    PROVE  BagToSet(jobs') \subseteq BagToSet(jobs) \union {k}
<1>1. jobs' = (jobs (-) SetToBag({j})) (+) SetToBag({k})
  BY DEF Becomes, Turn
<1> QED
  BY <1>1, BagJoins, BagLeaves

(* Dropping one leaves the others.                                         *)
LEMMA DropJobs ==
    ASSUME NEW j, Drop(j)
    PROVE  BagToSet(jobs') \subseteq BagToSet(jobs)
<1>1. jobs' = (jobs (-) SetToBag({j})) (+) SetToBag({})
  BY DEF Drop, Turn, EmptyBag
<1> QED
  BY <1>1, BagJoins, BagLeaves

(* An analysis that has not begun is sound whatever the documents are.     *)
LEMMA QueuedIsSound ==
    ASSUME NEW f \in Files
    PROVE  SoundJob(Job(f)) /\ SoundJob(Job(f))'
BY DEF SoundJob, Job, Fields, Phases, None

(* A file is reached from itself, so a change of it drops its own parse.   *)
LEMMA EvictedParse ==
    ASSUME NEW f \in Files
    PROVE  Evicted(f)[f] = None /\ \A g \in Files : Evicted(f)[g] \in {None, parsed[g]}
<1>1. f \in Reach(dependents, f)
  BY DEF Reach
<1> QED
  BY <1>1 DEF Evicted

(* What the ghosts record of a change.                                     *)
LEMMA ChangedHistory ==
    ASSUME NEW f, NEW S, Changed(f, S)
    PROVE  /\ DOMAIN history' = {"overtaken", "crossed", "answered", "informed"}
           /\ history'.overtaken = history.overtaken \union S
           /\ history.crossed \subseteq history'.crossed
           /\ Parsing(f) => f \in history'.crossed
BY DEF Changed

(* A change of a document overtakes the results already checked and those  *)
(* of a text that was not the editor's.                                    *)
LEMMA ReadersOfOwn ==
    ASSUME NEW j \in BagToSet(jobs), j.phase # "queued",
           j.phase = "checked" \/ j.version = 0
    PROVE  j.file \in Readers(j.file)
BY DEF Readers, Outdated

-----------------------------------------------------------------------------
(* At first nothing is open, running, kept or shown.                       *)
LEMMA InitKept == Init => KeptInv
<1> SUFFICES ASSUME Init PROVE KeptInv
  OBVIOUS
<1>1. DocsInv
  BY DEF Init, DocsInv, Closed, None
<1>2. JobInv
  BY DEF Init, JobInv, BagToSet, EmptyBag, SetToBag
<1>3. ShownInv /\ ParsedInv /\ IdentsInv
  BY DEF Init, ShownInv, ParsedInv, IdentsInv, Job, IsOpen, None, Closed
<1> QED
  BY <1>1, <1>2, <1>3 DEF KeptInv

(* A step of the settings or of a handler that only starts analyses.       *)
LEMMA StartKept ==
    ASSUME KeptInv, UNCHANGED <<docs, disk, parsed, idents, shown>>, events' \in Nat,
           DOMAIN history' = DOMAIN history,
           history.overtaken \subseteq history'.overtaken,
           history.crossed \subseteq history'.crossed,
           BagToSet(jobs') \subseteq BagToSet(jobs) \union {Job(f) : f \in Files}
    PROVE  KeptInv'
<1>1. DocsInv'
  BY DEF KeptInv, DocsInv
<1>2. JobInv'
  <2> SUFFICES ASSUME NEW j \in BagToSet(jobs') PROVE SoundJob(j)'
    BY DEF JobInv
  <2>1. CASE j \in BagToSet(jobs)
    BY <2>1 DEF KeptInv, JobInv, SoundJob, IsOpen
  <2>2. CASE j \in {Job(f) : f \in Files}
    BY <2>2, QueuedIsSound
  <2> QED
    BY <2>1, <2>2
<1>3. ShownInv' /\ ParsedInv' /\ IdentsInv'
  BY DEF KeptInv, ShownInv, ParsedInv, IdentsInv, IsOpen
<1> QED
  BY <1>1, <1>2, <1>3 DEF KeptInv

(* The handshake, the settings and the handlers (server.rs).               *)
LEMMA SettingsKept ==
    ASSUME KeptInv,
           Deliver \/ Handshake \/ Follow \/ \E f \in Files : SpawnTargets(f)
    PROVE  KeptInv'
<1>1. events \in Nat /\ DOMAIN history = {"overtaken", "crossed", "answered", "informed"}
  BY DEF KeptInv, DocsInv
<1>2. CASE Deliver \/ Handshake \/ FollowTake
  <2>1. CASE Deliver
    <3>1. UNCHANGED <<docs, disk, parsed, idents, shown, jobs, history>>
      BY <2>1 DEF Deliver
    <3>2. events' = events + 1
      BY <2>1 DEF Deliver, Event
    <3> QED
      BY <1>1, <3>1, <3>2, StartKept
  <2>2. CASE Handshake \/ FollowTake
    <3>1. UNCHANGED <<docs, disk, parsed, idents, shown, jobs, history, events>>
      <4>1. CASE Initialize
        BY <4>1 DEF Initialize
      <4>2. CASE ApplyInit
        BY <4>2 DEF ApplyInit
      <4>3. CASE FollowTake
        BY <4>3 DEF FollowTake
      <4> QED
        BY <2>2, <4>1, <4>2, <4>3 DEF Handshake
    <3> QED
      BY <1>1, <3>1, StartKept
  <2> QED
    BY <1>2, <2>1, <2>2
<1>3. CASE ApplyChange
  <2>1. /\ DOMAIN history' = DOMAIN history
        /\ history.overtaken \subseteq history'.overtaken
        /\ history.crossed \subseteq history'.crossed
    BY <1>1, <1>3 DEF ApplyChange
  <2> QED
    BY <1>1, <1>3, <2>1, StartKept DEF ApplyChange
<1>4. CASE RepublishAll
  <2>1. BagToSet(jobs') = BagToSet(jobs) \union {Job(f) : f \in Opened}
    BY <1>4, StartJobs DEF RepublishAll
  <2>2. BagToSet(jobs') \subseteq BagToSet(jobs) \union {Job(f) : f \in Files}
    BY <2>1 DEF Opened
  <2> QED
    BY <1>1, <1>4, <2>2, StartKept DEF RepublishAll
<1>5. ASSUME NEW f \in Files, SpawnTargets(f)
      PROVE  KeptInv'
  <2> DEFINE S == IF OpenDependents(f) = {} THEN {f} ELSE OpenDependents(f)
  <2>1. BagToSet(jobs') = BagToSet(jobs) \union {Job(g) : g \in S}
    BY <1>5, StartJobs DEF SpawnTargets
  <2>2. S \subseteq Files
    BY DEF OpenDependents, Reach
  <2> HIDE DEF S
  <2>3. BagToSet(jobs') \subseteq BagToSet(jobs) \union {Job(g) : g \in Files}
    BY <2>1, <2>2
  <2> QED
    BY <1>1, <1>5, <2>3, StartKept DEF SpawnTargets
<1> QED
  BY <1>2, <1>3, <1>4, <1>5 DEF Follow

-----------------------------------------------------------------------------
(***************************************************************************)
(* The notifications of the editor (server.rs, workspace.rs).              *)
(***************************************************************************)

(* The document begins at version 1, as it may have done before: whatever  *)
(* is running for it is overtaken.                                         *)
LEMMA OpenKept == ASSUME KeptInv, NEW f \in Files, DidOpen(f) PROVE KeptInv'
<1> DEFINE late == Outdated(LAMBDA j : j.file = f)
           more(t) == IF t = disk[f].text THEN {}
                      ELSE {g \in Files \ {f} : f \in UnitFiles[g]}
<1>12. PICK text \in {disk[f].text, FreshText} :
        /\ docs' = [docs EXCEPT ![f] = [text |-> text, version |-> 1]]
        /\ Changed(f, late \union more(text))
  BY DEF DidOpen
<1> HIDE DEF late, more
<1>1. /\ docs' = [docs EXCEPT ![f] = [text |-> text, version |-> 1]]
      /\ parsed' = [parsed EXCEPT ![f] = None] /\ ~IsOpen(f)
      /\ UNCHANGED <<disk, idents, shown>> /\ events' = events + 1
  BY <1>12 DEF DidOpen, Event
<1>2. /\ docs \in [Files -> [text: Nat, version: Nat]]
      /\ disk \in [Files -> [text: Nat, date: Nat]] /\ events \in Nat /\ text \in Nat
  BY DEF KeptInv, DocsInv, FreshText
<1>3. /\ docs'[f] = [text |-> text, version |-> 1]
      /\ \A g \in Files : g # f => docs'[g] = docs[g]
      /\ docs' \in [Files -> [text: Nat, version: Nat]]
  BY <1>1, <1>2
<1>4. /\ DOMAIN history' = {"overtaken", "crossed", "answered", "informed"}
      /\ history.overtaken \subseteq history'.overtaken
      /\ history.crossed \subseteq history'.crossed
      /\ Parsing(f) => f \in history'.crossed
      /\ late \subseteq history'.overtaken
  BY <1>12, ChangedHistory
<1>5. \A j \in BagToSet(jobs) : j.phase # "queued" /\ j.file = f => f \in history'.overtaken
  BY <1>4 DEF late, Outdated
<1>6. \A j \in BagToSet(jobs) : j.phase = "read" /\ j.file = f => f \in history'.crossed
  BY <1>4 DEF Parsing
<1>7. DocsInv'
  BY <1>1, <1>2, <1>3, <1>4 DEF KeptInv, DocsInv, Closed
<1>8. JobInv'
  <2>1. BagToSet(jobs') = BagToSet(jobs) \union {Job(g) : g \in {f}}
    BY StartJobs DEF DidOpen
  <2> SUFFICES ASSUME NEW j \in BagToSet(jobs') PROVE SoundJob(j)'
    BY DEF JobInv
  <2>2. CASE j \in BagToSet(jobs)
    <3>1. SoundJob(j)
      BY <2>2 DEF KeptInv, JobInv
    <3>2. CASE j.file = f
      BY <2>2, <3>1, <3>2, <1>5, <1>6 DEF SoundJob, Phases
    <3>3. CASE j.file # f
      BY <3>1, <3>3, <1>3, <1>4 DEF SoundJob, IsOpen
    <3> QED
      BY <3>2, <3>3
  <2>3. CASE j = Job(f)
    BY <2>3, QueuedIsSound
  <2> QED
    BY <2>1, <2>2, <2>3
<1>9. ShownInv'
  BY <1>1, <1>3, <1>4 DEF KeptInv, ShownInv, IsOpen
<1>10. ParsedInv'
  BY <1>1, <1>3, <1>4 DEF KeptInv, ParsedInv, IsOpen
<1>11. IdentsInv'
  BY <1>1 DEF KeptInv, IdentsInv
<1> QED
  BY <1>7, <1>8, <1>9, <1>10, <1>11 DEF KeptInv

(* An edit: its version is new, so what was shown or taken before is of an *)
(* older one, and the parse goes.                                          *)
LEMMA ChangeKept == ASSUME KeptInv, NEW f \in Files, DidChange(f) PROVE KeptInv'
<1>1. /\ docs' = [docs EXCEPT ![f] = [text |-> FreshText, version |-> @.version + 1]]
      /\ parsed' = Evicted(f) /\ IsOpen(f)
      /\ UNCHANGED <<disk, idents, jobs, shown>> /\ events' = events + 1
  BY DEF DidChange, Event
<1>2. /\ docs \in [Files -> [text: Nat, version: Nat]]
      /\ disk \in [Files -> [text: Nat, date: Nat]] /\ events \in Nat /\ FreshText \in Nat
  BY DEF KeptInv, DocsInv, FreshText
<1>3. /\ docs'[f] = [text |-> FreshText, version |-> docs[f].version + 1]
      /\ \A g \in Files : g # f => docs'[g] = docs[g]
      /\ docs' \in [Files -> [text: Nat, version: Nat]]
      /\ docs[f].version \in Nat
  BY <1>1, <1>2
<1>4. /\ DOMAIN history' = {"overtaken", "crossed", "answered", "informed"}
      /\ history.overtaken \subseteq history'.overtaken
      /\ history.crossed \subseteq history'.crossed
      /\ Parsing(f) => f \in history'.crossed
      /\ Readers(f) \subseteq history'.overtaken
  BY ChangedHistory DEF DidChange
<1>5. \A j \in BagToSet(jobs) :
        j.phase # "queued" /\ j.file = f /\ (j.phase = "checked" \/ j.version = 0) =>
            f \in history'.overtaken
  BY <1>4, ReadersOfOwn
<1>6. \A j \in BagToSet(jobs) : j.phase = "read" /\ j.file = f => f \in history'.crossed
  BY <1>4 DEF Parsing
<1>7. DocsInv'
  BY <1>1, <1>2, <1>3, <1>4 DEF KeptInv, DocsInv, Closed
<1>8. JobInv'
  <2> SUFFICES ASSUME NEW j \in BagToSet(jobs) PROVE SoundJob(j)'
    BY <1>1 DEF JobInv
  <2>1. SoundJob(j)
    BY DEF KeptInv, JobInv
  <2>2. CASE j.file = f
    <3>1. j.phase # "queued" /\ f \notin history'.overtaken => j.version < docs'[f].version
      BY <1>1, <1>3, <1>4, <2>1, <2>2 DEF SoundJob
    <3>2. f \notin history'.overtaken => j.phase # "checked"
      BY <1>5, <2>2
    <3>3. j.phase = "read" => f \in history'.crossed
      BY <1>6, <2>2
    <3> QED
      BY <1>3, <2>1, <2>2, <3>1, <3>2, <3>3 DEF SoundJob
  <2>3. CASE j.file # f
    BY <2>1, <2>3, <1>3, <1>4 DEF SoundJob, IsOpen
  <2> QED
    BY <2>2, <2>3
<1>9. ShownInv'
  <2>1. shown' = [g \in Files |-> shown'[g]]
    BY <1>1 DEF KeptInv, ShownInv
  <2> SUFFICES ASSUME NEW g \in Files
               PROVE  /\ shown[g].version \in Nat
                      /\ g \notin history'.overtaken =>
                             /\ ~IsOpen(g)' => shown[g].version = 0
                             /\ IsOpen(g)' => shown[g].version <= docs'[g].version
                             /\ IsOpen(g)' /\ shown[g].version = docs'[g].version =>
                                    shown[g].own = docs'[g].text
    BY <1>1, <2>1 DEF ShownInv
  <2>2. /\ shown[g].version \in Nat
        /\ g \notin history.overtaken =>
               /\ ~IsOpen(g) => shown[g].version = 0
               /\ IsOpen(g) => shown[g].version <= docs[g].version
               /\ IsOpen(g) /\ shown[g].version = docs[g].version =>
                      shown[g].own = docs[g].text
    BY DEF KeptInv, ShownInv
  <2>3. CASE g = f
    <3>1. docs'[f].version = docs[f].version + 1
      BY <1>3
    <3>2. g \notin history'.overtaken => shown[g].version < docs'[g].version
      BY <1>1, <1>3, <1>4, <2>2, <2>3, <3>1
    <3>3. docs'[f].version # 0 /\ docs'[f].version \in Nat
      BY <1>3, <3>1
    <3>4. IsOpen(f)'
      BY <3>3 DEF IsOpen, Closed
    <3> QED
      BY <2>2, <2>3, <3>2, <3>3, <3>4
  <2>4. CASE g # f
    BY <1>3, <1>4, <2>2, <2>4 DEF IsOpen
  <2> QED
    BY <2>3, <2>4
<1>10. ParsedInv'
  <2>1. parsed' = [g \in Files |-> parsed'[g]] /\ parsed'[f] = None
        /\ \A g \in Files : parsed'[g] \in {None, parsed[g]}
    BY <1>1, EvictedParse DEF Evicted
  <2> QED
    BY <2>1, <1>3, <1>4 DEF KeptInv, ParsedInv, IsOpen
<1>11. IdentsInv'
  BY <1>1 DEF KeptInv, IdentsInv
<1> QED
  BY <1>7, <1>8, <1>9, <1>10, <1>11 DEF KeptInv

(* A save: the file is younger than what is kept of it.                    *)
LEMMA SaveKept == ASSUME KeptInv, NEW f \in Files, DidSave(f) PROVE KeptInv'
<1>1. /\ disk' = [disk EXCEPT ![f] = [text |-> docs[f].text, date |-> @.date + 1]]
      /\ UNCHANGED <<docs, parsed, idents, jobs, shown, history>> /\ events' = events + 1
  BY DEF DidSave, Event
<1>2. /\ docs \in [Files -> [text: Nat, version: Nat]]
      /\ disk \in [Files -> [text: Nat, date: Nat]] /\ events \in Nat
  BY DEF KeptInv, DocsInv
<1>3. /\ disk'[f].date = disk[f].date + 1 /\ disk[f].date \in Nat
      /\ \A g \in Files : g # f => disk'[g] = disk[g]
      /\ disk' \in [Files -> [text: Nat, date: Nat]]
  BY <1>1, <1>2
<1>4. DocsInv'
  BY <1>1, <1>2, <1>3 DEF KeptInv, DocsInv
<1>5. JobInv' /\ ShownInv' /\ ParsedInv'
  BY <1>1 DEF KeptInv, JobInv, SoundJob, ShownInv, ParsedInv, IsOpen
<1>6. IdentsInv'
  BY <1>1, <1>3 DEF KeptInv, IdentsInv
<1> QED
  BY <1>4, <1>5, <1>6 DEF KeptInv

(* Another program writes the file: what is kept of it goes, since the     *)
(* date may be the one it had.                                             *)
LEMMA WatchedKept == ASSUME KeptInv, NEW f \in Files, DidChangeWatchedFiles(f) PROVE KeptInv'
<1>1. PICK date \in {disk[f].date, disk[f].date + 1} :
        disk' = [disk EXCEPT ![f] = [text |-> FreshText, date |-> date]]
  BY DEF DidChangeWatchedFiles
<1>2. /\ docs \in [Files -> [text: Nat, version: Nat]]
      /\ disk \in [Files -> [text: Nat, date: Nat]] /\ events \in Nat /\ FreshText \in Nat
  BY DEF KeptInv, DocsInv, FreshText
<1>3. date \in Nat
  BY <1>2
<1>4. /\ disk'[f].date = date
      /\ \A g \in Files : g # f => disk'[g] = disk[g]
      /\ disk' \in [Files -> [text: Nat, date: Nat]]
  BY <1>1, <1>2, <1>3
<1>5. /\ parsed' = Evicted(f) /\ idents' = [idents EXCEPT ![f] = [text |-> None, date |-> 0]]
      /\ UNCHANGED <<docs, shown>> /\ events' = events + 1
  BY DEF DidChangeWatchedFiles, Event
<1>6. /\ DOMAIN history' = {"overtaken", "crossed", "answered", "informed"}
      /\ history.overtaken \subseteq history'.overtaken
      /\ history.crossed \subseteq history'.crossed
  BY ChangedHistory DEF DidChangeWatchedFiles, KeptInv, DocsInv
<1>7. DocsInv'
  BY <1>2, <1>4, <1>5, <1>6 DEF KeptInv, DocsInv
<1>8. JobInv'
  <2> DEFINE S == IF OpenDependents(f) = {} THEN {f} ELSE OpenDependents(f)
  <2>1. BagToSet(jobs') = BagToSet(jobs) \union {Job(g) : g \in S}
    BY StartJobs DEF DidChangeWatchedFiles
  <2>2. S \subseteq Files
    BY DEF OpenDependents, Reach
  <2> HIDE DEF S
  <2> SUFFICES ASSUME NEW j \in BagToSet(jobs') PROVE SoundJob(j)'
    BY DEF JobInv
  <2>3. CASE j \in BagToSet(jobs)
    BY <1>5, <1>6, <2>3 DEF KeptInv, JobInv, SoundJob, IsOpen
  <2>4. CASE j \in {Job(g) : g \in S}
    BY <2>2, <2>4, QueuedIsSound
  <2> QED
    BY <2>1, <2>3, <2>4
<1>9. ShownInv'
  BY <1>5, <1>6 DEF KeptInv, ShownInv, IsOpen
<1>10. ParsedInv'
  <2>1. parsed' = [g \in Files |-> parsed'[g]]
        /\ \A g \in Files : parsed'[g] \in {None, parsed[g]}
    BY <1>5, EvictedParse DEF Evicted
  <2> QED
    BY <2>1, <1>5, <1>6 DEF KeptInv, ParsedInv, IsOpen
<1>11. IdentsInv'
  BY <1>3, <1>4, <1>5 DEF KeptInv, IdentsInv
<1> QED
  BY <1>7, <1>8, <1>9, <1>10, <1>11 DEF KeptInv

(* A close: nothing is shown; a result that passed its check is overtaken. *)
LEMMA CloseKept == ASSUME KeptInv, NEW f \in Files, DidClose(f) PROVE KeptInv'
<1>1. /\ docs' = [docs EXCEPT ![f] = Closed] /\ parsed' = [parsed EXCEPT ![f] = None]
      /\ shown' = [shown EXCEPT ![f] = Job(f)]
      /\ UNCHANGED <<disk, idents, jobs>> /\ events' = events + 1
  BY DEF DidClose, Event
<1>2. docs \in [Files -> [text: Nat, version: Nat]] /\ events \in Nat
  BY DEF KeptInv, DocsInv
<1>3. /\ docs'[f] = Closed /\ \A g \in Files : g # f => docs'[g] = docs[g]
      /\ docs' \in [Files -> [text: Nat, version: Nat]]
  BY <1>1, <1>2 DEF Closed, None
<1>4. /\ DOMAIN history' = {"overtaken", "crossed", "answered", "informed"}
      /\ history.overtaken \subseteq history'.overtaken
      /\ history.crossed \subseteq history'.crossed
      /\ Readers(f) \subseteq history'.overtaken
  BY ChangedHistory DEF DidClose
<1>5. \A j \in BagToSet(jobs) :
        j.phase = "checked" /\ j.file = f => f \in history'.overtaken
  BY <1>4, ReadersOfOwn
<1>6. DocsInv'
  BY <1>1, <1>2, <1>3, <1>4 DEF KeptInv, DocsInv
<1>7. JobInv'
  <2> SUFFICES ASSUME NEW j \in BagToSet(jobs) PROVE SoundJob(j)'
    BY <1>1 DEF JobInv
  <2>1. SoundJob(j)
    BY DEF KeptInv, JobInv
  <2>2. CASE j.file = f
    BY <1>3, <1>5, <2>1, <2>2 DEF SoundJob, IsOpen
  <2>3. CASE j.file # f
    BY <2>1, <2>3, <1>3, <1>4 DEF SoundJob, IsOpen
  <2> QED
    BY <2>2, <2>3
<1>8. ShownInv'
  <2>1. Job(f).version = 0
    BY DEF Job
  <2> QED
    BY <1>1, <1>3, <1>4, <2>1 DEF KeptInv, ShownInv, IsOpen
<1>9. ParsedInv' /\ IdentsInv'
  BY <1>1, <1>3, <1>4 DEF KeptInv, ParsedInv, IdentsInv, IsOpen
<1> QED
  BY <1>6, <1>7, <1>8, <1>9 DEF KeptInv

(* A request reads the text the user sees (get_parsed)...                  *)
LEMMA BeginRequestKept ==
    ASSUME KeptInv, NEW q, NEW f \in Files, BeginRequest(q, f)
    PROVE  KeptInv'
BY DEF BeginRequest, KeptInv, DocsInv, JobInv, SoundJob, ShownInv, ParsedInv, IdentsInv,
       IsOpen

(* ...and keeps the parse of what it read.                                 *)
LEMMA EndRequestKept ==
    ASSUME KeptInv, RequestsInv, NEW r \in requests, EndRequest(r)
    PROVE  KeptInv'
<1>1. /\ parsed' = [parsed EXCEPT ![r.file] = r.text]
      /\ UNCHANGED <<docs, disk, idents, jobs, shown, history, events>>
  BY DEF EndRequest
<1>2. DocsInv' /\ JobInv' /\ ShownInv' /\ IdentsInv'
  BY <1>1 DEF KeptInv, DocsInv, JobInv, SoundJob, ShownInv, IdentsInv, IsOpen
<1>3. ParsedInv'
  <2>1. /\ r.file \in Files
        /\ IsOpen(r.file) /\ r.file \notin history.crossed => r.text = docs[r.file].text
    BY DEF RequestsInv
  <2> QED
    BY <1>1, <2>1 DEF KeptInv, ParsedInv, IsOpen
<1> QED
  BY <1>2, <1>3 DEF KeptInv

-----------------------------------------------------------------------------
(***************************************************************************)
(* The analysis of one file (publish_diagnostics_for, analyze_versioned).  *)
(***************************************************************************)

(* A step of an analysis that leaves the documents alone is sound when     *)
(* what the analysis becomes is.                                           *)
LEMMA TurnKept ==
    ASSUME KeptInv, NEW k, SoundJob(k), UNCHANGED <<docs, history>>,
           BagToSet(jobs') \subseteq BagToSet(jobs) \union {k}
    PROVE  JobInv'
<1>1. \A j : SoundJob(j) => SoundJob(j)'
  BY DEF SoundJob, IsOpen
<1> QED
  BY <1>1 DEF KeptInv, JobInv

(* The text and the version are taken together.                            *)
LEMMA BeginKept ==
    ASSUME KeptInv, NEW j \in BagToSet(jobs), Begin(j)
    PROVE  KeptInv'
<1> DEFINE k == [j EXCEPT !.phase = "read", !.own = TextAt(j.file),
                          !.version = docs[j.file].version,
                          !.suppress = channel.applied.suppress]
<1>1. /\ j.phase = "queued" /\ Becomes(j, k)
      /\ UNCHANGED <<docs, disk, parsed, idents, shown, history, events>>
  BY DEF Begin
<1>2. SoundJob(j)
  BY DEF KeptInv, JobInv
<1>3. /\ DOMAIN k = Fields /\ k.file = j.file /\ k.phase = "read"
      /\ k.own = TextAt(j.file) /\ k.version = docs[j.file].version
  BY <1>2 DEF SoundJob, Fields
<1>4. BagToSet(jobs') \subseteq BagToSet(jobs) \union {k}
  BY <1>1, BecomesJobs
<1> HIDE DEF k
<1>5. docs[j.file].version \in Nat
  BY <1>2 DEF KeptInv, DocsInv, SoundJob
<1>6. SoundJob(k)
  BY <1>2, <1>3, <1>5 DEF SoundJob, Phases, TextAt
<1>7. JobInv'
  BY <1>1, <1>4, <1>6, TurnKept
<1>8. DocsInv' /\ ShownInv' /\ ParsedInv' /\ IdentsInv'
  BY <1>1 DEF KeptInv, DocsInv, ShownInv, ParsedInv, IdentsInv, IsOpen
<1> QED
  BY <1>7, <1>8 DEF KeptInv

(* The parse that is kept is of the text it took; the identifiers that are *)
(* kept are of the text the file has, and of its date.                     *)
LEMMA FinishKept ==
    ASSUME KeptInv, NEW j \in BagToSet(jobs), Finish(j)
    PROVE  KeptInv'
<1>1. j.phase = "read" /\ UNCHANGED <<docs, disk, shown, history, events>>
  BY DEF Finish
<1>2. SoundJob(j)
  BY DEF KeptInv, JobInv
<1> DEFINE seen == [g \in Files |-> IF g \in IncludeClosure[j.file] \ {j.file}
                                   THEN TextAt(g) ELSE None]
           others == UnitFiles[j.file] \ {j.file}
           names == [g \in Files |-> IF g \in others THEN IdentsOf(g) ELSE None]
           short == [j EXCEPT !.phase = "done"]
           long == [j EXCEPT !.phase = "done", !.seen = seen, !.idents = names]
           now == [g \in Files |->
                    IF g \in others /\ ~IsOpen(g)
                    THEN [text |-> IdentsOf(g), date |-> disk[g].date] ELSE idents[g]]
<1>3. \/ Becomes(j, short) /\ UNCHANGED <<parsed, idents>>
      \/ /\ Becomes(j, long) /\ parsed' = [parsed EXCEPT ![j.file] = j.own]
         /\ idents' = now
  BY DEF Finish
<1>4. \A k \in {short, long} :
        /\ DOMAIN k = Fields /\ k.file = j.file /\ k.phase = "done"
        /\ k.own = j.own /\ k.version = j.version
  BY <1>2 DEF SoundJob, Fields
<1>5. \A k \in {short, long} : SoundJob(k)
  <2> HIDE DEF short, long
  <2> QED
    BY <1>1, <1>2, <1>4 DEF SoundJob, Phases
<1>6. JobInv'
  <2>1. CASE Becomes(j, short)
    BY <1>1, <1>5, <2>1, BecomesJobs, TurnKept
  <2>2. CASE Becomes(j, long)
    BY <1>1, <1>5, <2>2, BecomesJobs, TurnKept
  <2> QED
    BY <1>3, <2>1, <2>2
<1>7. DocsInv' /\ ShownInv'
  BY <1>1 DEF KeptInv, DocsInv, ShownInv, IsOpen
<1>8. ParsedInv'
  <2>1. parsed' = parsed \/ parsed' = [parsed EXCEPT ![j.file] = j.own]
    BY <1>3
  <2>2. IsOpen(j.file) /\ j.file \notin history.crossed => j.own = docs[j.file].text
    BY <1>1, <1>2 DEF SoundJob
  <2> QED
    BY <1>1, <2>1, <2>2 DEF KeptInv, ParsedInv, IsOpen
<1>9. IdentsInv'
  <2>1. CASE idents' = idents
    BY <1>1, <2>1 DEF KeptInv, IdentsInv
  <2>2. CASE idents' = now
    <3> SUFFICES ASSUME NEW g \in Files
                 PROVE  /\ now[g].date \in Nat /\ now[g].date <= disk[g].date
                        /\ now[g].text # None /\ now[g].date = disk[g].date =>
                               now[g].text = disk[g].text
      BY <1>1, <2>2 DEF IdentsInv
    <3>1. CASE now[g] = idents[g]
      BY <3>1 DEF KeptInv, IdentsInv
    <3>2. CASE ~IsOpen(g) /\ now[g] = [text |-> IdentsOf(g), date |-> disk[g].date]
      <4>1. IdentsOf(g) = disk[g].text
        BY <3>2 DEF IdentsOf, KeptInv, IdentsInv
      <4>2. disk[g].date \in Nat
        BY DEF KeptInv, DocsInv
      <4> HIDE DEF now
      <4> QED
        BY <3>2, <4>1, <4>2
    <3> QED
      BY <3>1, <3>2
  <2> QED
    BY <1>3, <2>1, <2>2
<1> QED
  BY <1>6, <1>7, <1>8, <1>9 DEF KeptInv

(* A result passes only with the version its document has: one of an open  *)
(* document, since a closed one has none.                                  *)
LEMMA CheckKept ==
    ASSUME KeptInv, NEW j \in BagToSet(jobs), Check(j)
    PROVE  KeptInv'
<1> DEFINE k == [j EXCEPT !.phase = "checked"]
<1>1. /\ j.phase = "done"
      /\ UNCHANGED <<docs, disk, parsed, idents, shown, history, events>>
      /\ \/ Drop(j)
         \/ (j.version = 0 \/ docs[j.file].version = j.version) /\ Becomes(j, k)
  BY DEF Check
<1>2. SoundJob(j)
  BY DEF KeptInv, JobInv
<1>3. /\ DOMAIN k = Fields /\ k.file = j.file /\ k.phase = "checked"
      /\ k.own = j.own /\ k.version = j.version
  BY <1>2 DEF SoundJob, Fields
<1>4. JobInv'
  <2>1. CASE Drop(j)
    <3>1. BagToSet(jobs') \subseteq BagToSet(jobs) \union {j}
      BY <2>1, DropJobs
    <3> QED
      BY <1>1, <1>2, <3>1, TurnKept
  <2>2. CASE (j.version = 0 \/ docs[j.file].version = j.version) /\ Becomes(j, k)
    <3>1. BagToSet(jobs') \subseteq BagToSet(jobs) \union {k}
      BY <2>2, BecomesJobs
    <3> HIDE DEF k
    <3>2. j.version # 0 => IsOpen(j.file)
      BY <2>2 DEF IsOpen, Closed
    <3>3. SoundJob(k)
      BY <1>1, <1>2, <1>3, <2>2, <3>2 DEF SoundJob, Phases
    <3> QED
      BY <1>1, <3>1, <3>3, TurnKept
  <2> QED
    BY <1>1, <2>1, <2>2
<1>5. DocsInv' /\ ShownInv' /\ ParsedInv' /\ IdentsInv'
  BY <1>1 DEF KeptInv, DocsInv, ShownInv, ParsedInv, IdentsInv, IsOpen
<1> QED
  BY <1>4, <1>5 DEF KeptInv

(* What is shown is a result that passed its check.                        *)
LEMMA PublishKept ==
    ASSUME KeptInv, NEW j \in BagToSet(jobs), Publish(j)
    PROVE  KeptInv'
<1>1. /\ j.phase = "checked" /\ Drop(j)
      /\ shown' = [shown EXCEPT ![j.file] = j]
      /\ UNCHANGED <<docs, disk, parsed, idents, events>>
  BY DEF Publish
<1>2. SoundJob(j)
  BY DEF KeptInv, JobInv
<1>3. /\ DOMAIN history' = DOMAIN history
      /\ history'.overtaken = history.overtaken
      /\ history'.crossed = history.crossed
  BY DEF Publish, KeptInv, DocsInv
<1>4. DocsInv'
  BY <1>1, <1>3 DEF KeptInv, DocsInv
<1>5. JobInv'
  <2> SUFFICES ASSUME NEW k \in BagToSet(jobs) PROVE SoundJob(k)'
    BY <1>1, DropJobs DEF JobInv
  <2>1. SoundJob(k)
    BY DEF KeptInv, JobInv
  <2> QED
    BY <1>1, <1>3, <2>1 DEF SoundJob, IsOpen
<1>6. ShownInv'
  <2>1. j.file \in Files /\ j.version \in Nat
    BY <1>2 DEF SoundJob
  <2>2. j.file \notin history.overtaken =>
          /\ ~IsOpen(j.file) => j.version = 0
          /\ IsOpen(j.file) => j.version <= docs[j.file].version
          /\ IsOpen(j.file) /\ j.version = docs[j.file].version =>
                 j.own = docs[j.file].text
    BY <1>1, <1>2 DEF SoundJob
  <2> QED
    BY <1>1, <1>3, <2>1, <2>2 DEF KeptInv, ShownInv, IsOpen
<1>7. ParsedInv' /\ IdentsInv'
  BY <1>1, <1>3 DEF KeptInv, ParsedInv, IdentsInv, IsOpen
<1> QED
  BY <1>4, <1>5, <1>6, <1>7 DEF KeptInv

-----------------------------------------------------------------------------
(* A change of the document while a request parses it is recorded, also of *)
(* a request that came while it changed.                                   *)
LEMMA ReadByRequests ==
    ASSUME RequestsInv, NEW f \in Files, UNCHANGED requests \/ AskedMeanwhile(f),
           history.crossed \subseteq history'.crossed,
           Parsing(f) => f \in history'.crossed,
           \A g \in Files : g # f => docs'[g] = docs[g]
    PROVE  RequestsInv'
<1> SUFFICES ASSUME NEW r \in requests'
             PROVE  /\ r.file \in Files
                    /\ IsOpen(r.file)' /\ r.file \notin history'.crossed =>
                           r.text = docs'[r.file].text
  BY DEF RequestsInv
<1>1. CASE r.file = f
  BY <1>1 DEF Parsing
<1>2. CASE r.file # f
  <2>1. r \in requests
    BY <1>2 DEF AskedMeanwhile
  <2>2. /\ r.file \in Files
        /\ IsOpen(r.file) /\ r.file \notin history.crossed => r.text = docs[r.file].text
    BY <2>1 DEF RequestsInv
  <2> QED
    BY <1>2, <2>2 DEF IsOpen
<1> QED
  BY <1>1, <1>2

(* Every step of the editor keeps what the requests read, or records it.   *)
LEMMA EditorReads ==
    ASSUME KeptInv, RequestsInv, Editor
    PROVE  RequestsInv'
<1>1. docs \in [Files -> [text: Nat, version: Nat]] /\ disk \in [Files -> [text: Nat, date: Nat]]
  BY DEF KeptInv, DocsInv
<1>2. ASSUME NEW f \in Files, DidOpen(f)
      PROVE  RequestsInv'
  <2>1. PICK text, S : docs' = [docs EXCEPT ![f] = [text |-> text, version |-> 1]]
                       /\ Changed(f, S)
    BY <1>2 DEF DidOpen
  <2>2. AskedMeanwhile(f)
    BY <1>2 DEF DidOpen
  <2>3. \A g \in Files : g # f => docs'[g] = docs[g]
    BY <1>1, <2>1
  <2> QED
    BY <2>1, <2>2, <2>3, ChangedHistory, ReadByRequests
<1>3. ASSUME NEW f \in Files, DidChange(f)
      PROVE  RequestsInv'
  <2>1. /\ docs' = [docs EXCEPT ![f] = [text |-> FreshText, version |-> @.version + 1]]
        /\ Changed(f, Readers(f)) /\ AskedMeanwhile(f)
    BY <1>3 DEF DidChange
  <2>2. \A g \in Files : g # f => docs'[g] = docs[g]
    BY <1>1, <2>1
  <2> QED
    BY <2>1, <2>2, ChangedHistory, ReadByRequests
<1>4. ASSUME NEW f \in Files, DidSave(f)
      PROVE  RequestsInv'
  BY <1>4 DEF DidSave, RequestsInv, IsOpen
<1>5. ASSUME NEW f \in Files, DidChangeWatchedFiles(f)
      PROVE  RequestsInv'
  <2>1. UNCHANGED <<docs, requests>> /\ (UNCHANGED history \/ Changed(f, Readers(f)))
    BY <1>5 DEF DidChangeWatchedFiles
  <2>2. history.crossed \subseteq history'.crossed
    BY <2>1, ChangedHistory
  <2> QED
    BY <2>1, <2>2 DEF RequestsInv, IsOpen
<1>6. ASSUME NEW f \in Files, DidClose(f)
      PROVE  RequestsInv'
  <2>1. PICK S : Changed(f, S)
    BY <1>6 DEF DidClose
  <2>2. docs' = [docs EXCEPT ![f] = Closed] /\ UNCHANGED requests
    BY <1>6 DEF DidClose
  <2>3. \A g \in Files : g # f => docs'[g] = docs[g]
    BY <1>1, <2>2
  <2> QED
    BY <2>1, <2>2, <2>3, ChangedHistory, ReadByRequests
<1> QED
  BY <1>2, <1>3, <1>4, <1>5, <1>6 DEF Editor

(* So does every other step.                                               *)
LEMMA NextReads == KeptInv /\ RequestsInv /\ [Next]_vars => RequestsInv'
<1> SUFFICES ASSUME KeptInv, RequestsInv, [Next]_vars PROVE RequestsInv'
  OBVIOUS
<1>1. CASE Editor
  BY <1>1, EditorReads
<1>2. CASE UNCHANGED <<docs, requests>> /\ history'.crossed = history.crossed
  BY <1>2 DEF RequestsInv, IsOpen
<1>3. DOMAIN history = {"overtaken", "crossed", "answered", "informed"}
  BY DEF KeptInv, DocsInv
<1>4. CASE Deliver \/ Handshake \/ Follow
  <2>1. CASE ApplyChange
    BY <1>2, <1>3, <2>1 DEF ApplyChange
  <2> QED
    BY <1>2, <1>4, <2>1 DEF Deliver, Handshake, Initialize, ApplyInit, Follow, FollowTake,
                            RepublishAll
<1>5. CASE Analysis
  <2>1. PICK j \in BagToSet(jobs) : Begin(j) \/ Finish(j) \/ Check(j) \/ Publish(j)
    BY <1>5 DEF Analysis
  <2>2. CASE Begin(j) \/ Finish(j) \/ Check(j)
    BY <1>2, <2>2 DEF Begin, Finish, Check
  <2>3. CASE Publish(j)
    BY <1>2, <1>3, <2>3 DEF Publish
  <2> QED
    BY <2>1, <2>2, <2>3
<1>6. CASE \E f \in Files : SpawnTargets(f)
  BY <1>2, <1>6 DEF SpawnTargets
<1>7. ASSUME NEW q, NEW f \in Files, BeginRequest(q, f)
      PROVE  RequestsInv'
  <2>1. /\ requests' = requests \union {[by |-> q, file |-> f, text |-> TextAt(f)]}
        /\ IsOpen(f) /\ UNCHANGED <<docs, history>>
    BY <1>7 DEF BeginRequest
  <2> QED
    BY <2>1 DEF RequestsInv, IsOpen, TextAt
<1>8. ASSUME NEW r \in requests, EndRequest(r)
      PROVE  RequestsInv'
  <2>1. requests' \subseteq requests /\ UNCHANGED <<docs, history>>
    BY <1>8 DEF EndRequest
  <2> QED
    BY <2>1 DEF RequestsInv, IsOpen
<1> QED
  BY <1>1, <1>2, <1>4, <1>5, <1>6, <1>7, <1>8 DEF Next, EndRequests, vars

(* Every step keeps what is kept.                                          *)
LEMMA NextKept == KeptInv /\ RequestsInv /\ [Next]_vars => KeptInv'
<1> SUFFICES ASSUME KeptInv, RequestsInv, [Next]_vars PROVE KeptInv'
  OBVIOUS
<1>1. CASE Deliver \/ Handshake \/ Follow \/ \E f \in Files : SpawnTargets(f)
  BY <1>1, SettingsKept
<1>2. CASE Editor
  BY <1>2, OpenKept, ChangeKept, SaveKept, WatchedKept, CloseKept DEF Editor
<1>3. CASE Analysis
  BY <1>3, BeginKept, FinishKept, CheckKept, PublishKept DEF Analysis
<1>4. CASE (\E q \in Requests, f \in Files : BeginRequest(q, f)) \/ EndRequests
  BY <1>4, BeginRequestKept, EndRequestKept DEF EndRequests
<1>5. CASE UNCHANGED vars
  BY <1>5 DEF vars, KeptInv, DocsInv, JobInv, SoundJob, ShownInv, ParsedInv,
              IdentsInv, IsOpen
<1> QED
  BY <1>1, <1>2, <1>3, <1>4, <1>5 DEF Next

(* KeptInv and RequestsInv are together an inductive invariant of the      *)
(* documents of the engine, with or without fairness.                      *)
THEOREM KeptInvCorrect == Spec => [](KeptInv /\ RequestsInv)
<1>1. Init => KeptInv /\ RequestsInv
  BY InitKept DEF Init, RequestsInv
<1>2. KeptInv /\ RequestsInv /\ [Next]_vars => (KeptInv /\ RequestsInv)'
  BY NextKept, NextReads
<1> QED
  BY <1>1, <1>2, PTL DEF Spec

(* The parse that requests read is of the editor's text unless it was      *)
(* edited during a parse, identifiers of the file's date are those of its  *)
(* text, and diagnostics under the version of a document are of its text   *)
(* unless it was overtaken: for any workspace, however many analyses run.  *)
THEOREM KeptCorrect == Spec => []KeptIsCurrent
<1>1. KeptInv => KeptIsCurrent
  BY DEF KeptInv, ShownInv, ParsedInv, IdentsInv, KeptIsCurrent
<1> QED
  BY <1>1, KeptInvCorrect, PTL

-----------------------------------------------------------------------------
(***************************************************************************)
(* When nothing runs, what is shown is the latest.                         *)
(***************************************************************************)

(* A result that read its includes read the texts there are now, and the   *)
(* graph leads from each of them back to the file, so that an edit of one  *)
(* finds it.                                                               *)
OfIncludes(j) ==
    \/ j.suppress /\ j.file \in IncFiles
    \/ \A g \in IncludeClosure[j.file] \ {j.file} :
           /\ j.seen[g] = TextAt(g) /\ j.idents[g] = TextAt(g)
           /\ j.file \in Reach(dependents, g)

OfNow(j) ==
    j.own = docs[j.file].text /\ j.suppress = channel.applied.suppress

(* An analysis that will be shown as it is, or that the check will drop.   *)
Current(j) ==
    /\ OfNow(j) /\ j.version = docs[j.file].version
    /\ j.phase # "read" => OfIncludes(j)
Stale(j) == j.phase # "checked" /\ j.version # 0 /\ j.version # docs[j.file].version

(* An analysis of the file is under way or will be asked for.              *)
Due(f) ==
    \/ channel.republish
    \/ \E j \in BagToSet(jobs) : j.file = f /\ (j.phase = "queued" \/ Current(j))
    \/ \E g \in targets : f \in Reach(dependents, g)

Latest(f) ==
    /\ \A j \in BagToSet(jobs) :
           j.file = f /\ j.phase # "queued" => Stale(j) \/ Current(j)
    /\ Due(f) \/ (shown[f].file = f /\ OfNow(shown[f]) /\ OfIncludes(shown[f]))

(* Nothing is open before the handshake is over; the settings are not      *)
(* taken again before they are republished.                                *)
ChannelInv ==
    /\ DOMAIN channel = {"delivered", "fresh", "taken", "applied", "borrowed",
                         "ready", "overwritten", "republish"}
    /\ ~channel.ready => Opened = {}
    /\ channel.borrowed # <<>> => ~channel.ready
    /\ channel.republish => channel.taken = <<>>

WorkInv ==
    /\ jobs \in [DOMAIN jobs -> Nat \ {0}]
    /\ dependents \in [Files -> SUBSET Files]
    /\ targets \subseteq Files

LatestInv ==
    /\ ChannelInv /\ WorkInv
    /\ \A f \in Files : IsOpen(f) /\ f \notin history.overtaken => Latest(f)

-----------------------------------------------------------------------------
(* The graph of the includes.                                              *)

(* A file is reached from itself.                                          *)
LEMMA ReachSelf ==
    ASSUME NEW e, NEW f \in Files
    PROVE  f \in Reach(e, f) /\ Reach(e, f) \subseteq Files
BY DEF Reach

(* What an edge leads to from a file that is reached is reached.           *)
LEMMA ReachStep ==
    ASSUME NEW e, NEW f \in Files, NEW h \in Reach(e, f), NEW g \in Files, g \in e[h]
    PROVE  g \in Reach(e, f)
BY DEF Reach

(* And so is what is reached from it.                                      *)
LEMMA ReachTrans ==
    ASSUME NEW e, NEW f \in Files, NEW h \in Reach(e, f), NEW g \in Reach(e, h)
    PROVE  g \in Reach(e, f)
BY DEF Reach

(* More edges reach no less.                                               *)
LEMMA ReachMore ==
    ASSUME NEW e, NEW d, \A x \in Files : e[x] \subseteq d[x], NEW f \in Files
    PROVE  Reach(e, f) \subseteq Reach(d, f)
<1> SUFFICES ASSUME NEW g \in Reach(e, f), NEW S \in SUBSET Files,
                    f \in S, \A x \in S : d[x] \subseteq S
             PROVE  g \in S
  BY DEF Reach
<1>1. \A x \in S : e[x] \subseteq S
  OBVIOUS
<1> QED
  BY <1>1 DEF Reach

(* Turned round, the edges of what a file reaches lead back to it.         *)
LEMMA ReachBack ==
    ASSUME NEW e \in [Files -> SUBSET Files], NEW d, NEW f \in Files,
           \A g \in Files : {h \in Reach(e, f) : g \in e[h]} \subseteq d[g]
    PROVE  \A g \in Reach(e, f) : f \in Reach(d, g)
<1> DEFINE S == {g \in Reach(e, f) : f \in Reach(d, g)}
<1>1. f \in S /\ S \in SUBSET Files
  BY ReachSelf
<1>2. ASSUME NEW x \in S, NEW y \in e[x]
      PROVE  y \in S
  <2>1. x \in Files /\ y \in Files
    BY <1>1
  <2>2. y \in Reach(e, f)
    BY <2>1, ReachStep
  <2>3. x \in d[y]
    BY <2>1
  <2>4. x \in Reach(d, y)
    BY <2>1, <2>3, ReachSelf, ReachStep
  <2>5. f \in Reach(d, y)
    BY <2>1, <2>4, ReachTrans
  <2> QED
    BY <2>2, <2>5
<1>3. \A g \in Reach(e, f) : g \in S
  <2> HIDE DEF S
  <2> QED
    BY <1>1, <1>2 DEF Reach
<1> QED
  BY <1>3

(* A file is compiled together with all it includes (unit_files).          *)
LEMMA ClosureInUnit ==
    ASSUME NEW f \in Files
    PROVE  /\ IncludeClosure[f] \subseteq UnitFiles[f] /\ IncludeClosure[f] \subseteq Files
           /\ f \in IncludeClosure[f]
<1>1. \A p \in Programs : f \in IncludeClosure[p] => IncludeClosure[f] \subseteq IncludeClosure[p]
  BY ReachTrans DEF IncludeClosure, Programs
<1> DEFINE units == {IncludeClosure[p] : p \in {q \in Programs : f \in IncludeClosure[q]}}
<1>2. UnitFiles[f] = IF units = {} THEN IncludeClosure[f] ELSE UNION units
  BY DEF UnitFiles
<1>3. \A u \in units : IncludeClosure[f] \subseteq u
  BY <1>1
<1>4. IncludeClosure[f] = Reach(Includes, f)
  BY DEF IncludeClosure
<1> HIDE DEF units
<1> QED
  BY <1>2, <1>3, <1>4, ReachSelf

-----------------------------------------------------------------------------
(* The bag of the analyses, when some begin and one goes on.               *)

(* What is started joins those that are there.                             *)
LEMMA StartBag ==
    ASSUME NEW S, Enqueue(S), WorkInv
    PROVE  jobs' \in [DOMAIN jobs' -> Nat \ {0}]
<1>1. jobs' = jobs (+) SetToBag({Job(f) : f \in S})
  BY DEF Enqueue
<1> QED
  BY <1>1 DEF WorkInv, (+), SetToBag

(* One that goes on leaves the others where they are.                      *)
LEMMA TurnBag ==
    ASSUME NEW j \in BagToSet(jobs), NEW T, jobs' = (jobs (-) SetToBag({j})) (+) SetToBag(T), WorkInv
    PROVE  /\ jobs' \in [DOMAIN jobs' -> Nat \ {0}]
           /\ T \subseteq BagToSet(jobs')
           /\ \A k \in BagToSet(jobs) : k # j => k \in BagToSet(jobs')
           /\ BagToSet(jobs') \subseteq BagToSet(jobs) \union T
<1> DEFINE left == jobs (-) SetToBag({j})
<1>1. /\ left \in [DOMAIN left -> Nat \ {0}]
      /\ DOMAIN left \subseteq DOMAIN jobs
      /\ \A k \in DOMAIN jobs : k # j => k \in DOMAIN left
  BY DEF WorkInv, (-), SetToBag, BagToSet
<1> HIDE DEF left
<1>2. /\ DOMAIN jobs' = DOMAIN left \union T
      /\ jobs' \in [DOMAIN jobs' -> Nat \ {0}]
  <2>1. jobs' = left (+) SetToBag(T)
    BY DEF left
  <2> QED
    BY <1>1, <2>1 DEF (+), SetToBag
<1> QED
  BY <1>1, <1>2 DEF BagToSet

-----------------------------------------------------------------------------
(* What other steps leave of a file.                                       *)

(* The step keeps what the file has asked for: what was due still is.      *)
StillDue(f) ==
    \/ \E k \in BagToSet(jobs') : k.file = f /\ k.phase = "queued"
    \/ /\ channel.republish => channel'.republish
       /\ \A g \in targets : f \in Reach(dependents, g) => g \in targets'

(* The step has none of its analyses go on.                                *)
NoneGoesOn(f) ==
    /\ BagToSet(jobs) \subseteq BagToSet(jobs')
    /\ \A k \in BagToSet(jobs') \ BagToSet(jobs) : k.file = f => k.phase = "queued"

(* The file itself, what is shown of it and its settings stay; edges are   *)
(* only added.                                                             *)
SameFile(f) ==
    /\ docs'[f] = docs[f] /\ shown'[f] = shown[f]
    /\ channel'.applied.suppress = channel.applied.suppress
    /\ \A g \in Files : dependents[g] \subseteq dependents'[g]

SameIncludes(f) == \A g \in IncludeClosure[f] \ {f} : TextAt(g)' = TextAt(g)

(* What read the includes as they still are has read the latest.           *)
LEMMA IncludesKept ==
    ASSUME NEW f \in Files, NEW j, j.file = f, OfIncludes(j), SameFile(f), SameIncludes(f)
    PROVE  OfIncludes(j)'
<1>1. \A g \in IncludeClosure[f] : g \in Files /\ Reach(dependents, g) \subseteq Reach(dependents', g)
  BY ClosureInUnit, ReachMore DEF SameFile
<1> QED
  BY <1>1 DEF OfIncludes, SameIncludes

(* What was due and is not shown is due, when the step keeps the includes. *)
LEMMA DueKept ==
    ASSUME NEW f \in Files, Due(f), WorkInv, SameFile(f), StillDue(f),
           \A j \in BagToSet(jobs) : j.file = f /\ Current(j) =>
               \E k \in BagToSet(jobs') : k.file = f /\ (k.phase = "queued" \/ Current(k)'),
           \A j \in BagToSet(jobs) : j.file = f /\ j.phase = "queued" =>
               \E k \in BagToSet(jobs') : k.file = f /\ (k.phase = "queued" \/ Current(k)')
    PROVE  Due(f)'
<1>1. \A g \in targets : Reach(dependents, g) \subseteq Reach(dependents', g)
  BY ReachMore DEF SameFile, WorkInv
<1> QED
  BY <1>1 DEF Due, StillDue

(* A step elsewhere keeps it all.                                          *)
LEMMA ElsewhereKept ==
    ASSUME NEW f \in Files, Latest(f), WorkInv, SameFile(f), SameIncludes(f), StillDue(f),
           NoneGoesOn(f)
    PROVE  Latest(f)'
<1>1. \A j : j.file = f /\ Current(j) => Current(j)'
  <2> SUFFICES ASSUME NEW j, j.file = f, Current(j) PROVE Current(j)'
    OBVIOUS
  <2>1. OfIncludes(j) => OfIncludes(j)'
    BY IncludesKept
  <2> QED
    BY <2>1 DEF Current, OfNow, SameFile
<1>2. \A j : j.file = f /\ Stale(j) => Stale(j)'
  BY DEF Stale, SameFile
<1>3. \A j \in BagToSet(jobs') : j.file = f /\ j.phase # "queued" => (Stale(j) \/ Current(j))'
  BY <1>1, <1>2 DEF Latest, NoneGoesOn
<1>4. Due(f) => Due(f)'
  BY <1>1, DueKept DEF NoneGoesOn
<1>5. shown[f].file = f /\ OfNow(shown[f]) /\ OfIncludes(shown[f]) =>
        (shown[f].file = f /\ OfNow(shown[f]) /\ OfIncludes(shown[f]))'
  BY IncludesKept DEF OfNow, SameFile
<1> QED
  BY <1>3, <1>4, <1>5 DEF Latest

(* A change of an include overtakes what was running; what is shown read   *)
(* the old text, and the graph has told the file.                          *)
LEMMA IncludeChanged ==
    ASSUME NEW f \in Files, NEW h \in Files \ {f}, Latest(f), WorkInv, SameFile(f), StillDue(f),
           NoneGoesOn(f), \A g \in Files \ {h} : TextAt(g)' = TextAt(g),
           h \in UnitFiles[f] =>
               \A j \in BagToSet(jobs) : j.file = f => j.phase = "queued",
           f \in Reach(dependents, h) =>
               \/ h \in targets'
               \/ \E k \in BagToSet(jobs') : k.file = f /\ k.phase = "queued"
    PROVE  Latest(f)'
<1>1. CASE h \notin IncludeClosure[f]
  <2>1. SameIncludes(f)
    BY <1>1, ClosureInUnit DEF SameIncludes
  <2> QED
    BY <2>1, ElsewhereKept
<1>2. CASE h \in IncludeClosure[f]
  <2>1. \A j \in BagToSet(jobs) : j.file = f => j.phase = "queued"
    BY <1>2, ClosureInUnit
  <2>2. \A j \in BagToSet(jobs') : j.file = f => j.phase = "queued"
    BY <2>1 DEF NoneGoesOn
  <2>3. Due(f) => Due(f)'
    BY <2>1, DueKept DEF NoneGoesOn
  <2>4. CASE f \in Reach(dependents, h)
    <3>1. f \in Reach(dependents', h)
      BY <2>4, ReachMore DEF SameFile
    <3>2. Due(f)'
      BY <2>4, <3>1 DEF Due
    <3> QED
      BY <2>2, <3>2 DEF Latest
  <2>5. CASE f \notin Reach(dependents, h)
    <3>1. shown[f].file = f /\ OfIncludes(shown[f]) => shown[f].suppress /\ f \in IncFiles
      BY <1>2, <2>5 DEF OfIncludes
    <3>2. shown[f].file = f /\ OfNow(shown[f]) /\ OfIncludes(shown[f]) =>
            (shown[f].file = f /\ OfNow(shown[f]) /\ OfIncludes(shown[f]))'
      BY <3>1 DEF OfNow, OfIncludes, SameFile
    <3> QED
      BY <2>2, <2>3, <3>2 DEF Latest
  <2> QED
    BY <2>4, <2>5
<1> QED
  BY <1>1, <1>2

(* What the rest of an analysis does (analyze_versioned): with the         *)
(* diagnostics of includes off, nothing of an include.                     *)
LEMMA FinishDoes ==
    ASSUME KeptInv, NEW j \in BagToSet(jobs), Finish(j)
    PROVE  /\ j.file \in Files /\ j.phase = "read"
           /\ UNCHANGED <<docs, disk, channel, targets, shown, history>>
           /\ \E k : /\ Becomes(j, k) /\ k.file = j.file /\ k.phase = "done" /\ k.own = j.own
                     /\ k.version = j.version /\ k.suppress = j.suppress
                     /\ \/ j.suppress /\ j.file \in IncFiles /\ dependents' = dependents
                        \/ /\ \A g \in IncludeClosure[j.file] \ {j.file} :
                                 k.seen[g] = TextAt(g) /\ k.idents[g] = IdentsOf(g)
                           /\ dependents' = [g \in Files |-> dependents[g] \union
                                 {h \in IncludeClosure[j.file] : g \in Includes[h]}]
<1>1. /\ j.phase = "read" /\ UNCHANGED <<docs, disk, channel, targets, shown, history>>
  BY DEF Finish
<1>2. j.file \in Files /\ DOMAIN j = Fields
  BY DEF KeptInv, JobInv, SoundJob
<1> DEFINE included == IncludeClosure[j.file] \ {j.file}
           others == UnitFiles[j.file] \ {j.file}
           seen == [g \in Files |-> IF g \in included THEN TextAt(g) ELSE None]
           names == [g \in Files |-> IF g \in others THEN IdentsOf(g) ELSE None]
           short == [j EXCEPT !.phase = "done"]
           long == [j EXCEPT !.phase = "done", !.seen = seen, !.idents = names]
<1>3. \/ j.suppress /\ j.file \in IncFiles /\ Becomes(j, short) /\ dependents' = dependents
      \/ /\ Becomes(j, long)
         /\ dependents' = [g \in Files |-> dependents[g] \union
               {h \in included \union {j.file} : g \in Includes[h]}]
  BY DEF Finish
<1>4. included \union {j.file} = IncludeClosure[j.file]
  BY <1>2, ClosureInUnit
<1>5. /\ short.file = j.file /\ short.phase = "done" /\ short.own = j.own
      /\ short.version = j.version /\ short.suppress = j.suppress
  BY <1>2 DEF Fields
<1>6. /\ long.file = j.file /\ long.phase = "done" /\ long.own = j.own
      /\ long.version = j.version /\ long.suppress = j.suppress
      /\ long.seen = seen /\ long.idents = names
  BY <1>2 DEF Fields
<1>7. \A g \in included : seen[g] = TextAt(g) /\ names[g] = IdentsOf(g)
  BY <1>2, ClosureInUnit
<1> HIDE DEF short, long, seen, names
<1> QED
  BY <1>1, <1>2, <1>3, <1>4, <1>5, <1>6, <1>7

-----------------------------------------------------------------------------
(* The types of the work, step by step.                                    *)

(* Whoever starts, goes on or ends, the analyses stay a bag and the graph  *)
(* a graph.                                                                *)
LEMMA WorkKept ==
    ASSUME KeptInv, WorkInv, Next
    PROVE  WorkInv'
<1>1. CASE Deliver \/ Handshake \/ FollowTake \/ ApplyChange
  <2>1. UNCHANGED <<jobs, dependents, targets>>
    <3>1. CASE Deliver
      BY <3>1 DEF Deliver
    <3>2. CASE Handshake
      BY <3>2 DEF Handshake, Initialize, ApplyInit
    <3>3. CASE FollowTake
      BY <3>3 DEF FollowTake
    <3>4. CASE ApplyChange
      BY <3>4 DEF ApplyChange
    <3> QED
      BY <1>1, <3>1, <3>2, <3>3, <3>4
  <2> QED
    BY <2>1 DEF WorkInv
<1>2. CASE RepublishAll
  BY <1>2, StartBag DEF RepublishAll, WorkInv
<1>3. ASSUME NEW f \in Files, DidOpen(f) \/ DidChangeWatchedFiles(f) \/ SpawnTargets(f)
      PROVE  WorkInv'
  <2>1. \E S : Enqueue(S)
    BY <1>3 DEF DidOpen, DidChangeWatchedFiles, SpawnTargets
  <2>2. jobs' \in [DOMAIN jobs' -> Nat \ {0}]
    BY <2>1, StartBag
  <2>3. dependents' = dependents /\ targets' \subseteq targets
    BY <1>3 DEF DidOpen, DidChangeWatchedFiles, SpawnTargets
  <2> QED
    BY <2>2, <2>3 DEF WorkInv
<1>4. ASSUME NEW f \in Files, DidChange(f) \/ DidSave(f) \/ DidClose(f)
      PROVE  WorkInv'
  <2>1. UNCHANGED <<jobs, dependents>> /\ targets' \subseteq targets \union {f}
    BY <1>4 DEF DidChange, DidSave, DidClose
  <2> QED
    BY <2>1 DEF WorkInv
<1>6. CASE (\E q \in Requests, f \in Files : BeginRequest(q, f)) \/ EndRequests
  <2>1. UNCHANGED <<jobs, dependents, targets>>
    BY <1>6 DEF BeginRequest, EndRequests, EndRequest
  <2> QED
    BY <2>1 DEF WorkInv
<1>5. ASSUME NEW j \in BagToSet(jobs), Begin(j) \/ Finish(j) \/ Check(j) \/ Publish(j)
      PROVE  WorkInv'
  <2>1. targets' = targets
    BY <1>5 DEF Begin, Finish, Check, Publish
  <2>2. \E T : jobs' = (jobs (-) SetToBag({j})) (+) SetToBag(T)
    <3>1. CASE Begin(j)
      BY <3>1 DEF Begin, Becomes, Turn
    <3>2. CASE Finish(j)
      <4>1. PICK k : Becomes(j, k)
        BY <3>2, FinishDoes
      <4> QED
        BY <4>1 DEF Becomes, Turn
    <3>3. CASE Check(j)
      BY <3>3 DEF Check, Becomes, Drop, Turn, EmptyBag
    <3>4. CASE Publish(j)
      BY <3>4 DEF Publish, Drop, Turn, EmptyBag
    <3> QED
      BY <1>5, <3>1, <3>2, <3>3, <3>4
  <2>3. jobs' \in [DOMAIN jobs' -> Nat \ {0}]
    BY <2>2, TurnBag
  <2>4. dependents' \in [Files -> SUBSET Files]
    <3>1. CASE ~Finish(j)
      BY <1>5, <3>1 DEF Begin, Check, Publish, WorkInv
    <3>2. CASE Finish(j)
      BY <3>2, FinishDoes, ClosureInUnit DEF WorkInv
    <3> QED
      BY <3>1, <3>2
  <2> QED
    BY <2>1, <2>3, <2>4 DEF WorkInv
<1> QED
  BY <1>1, <1>2, <1>3, <1>4, <1>5, <1>6 DEF Next, Follow, Editor, Analysis

(* Nobody opens a document before the handshake is over.                   *)
LEMMA ChannelKept ==
    ASSUME ChannelInv, Next
    PROVE  ChannelInv'
<1>1. CASE Deliver
  BY <1>1 DEF Deliver, ChannelInv, Opened, IsOpen
<1>2. CASE Initialize
  BY <1>2 DEF Initialize, ChannelInv, Opened, IsOpen
<1>3. CASE ApplyInit
  BY <1>3 DEF ApplyInit, ChannelInv, Opened, IsOpen
<1>4. CASE FollowTake
  BY <1>4 DEF FollowTake, ChannelInv, Opened, IsOpen
<1>5. CASE ApplyChange
  BY <1>5 DEF ApplyChange, ChannelInv, Opened, IsOpen
<1>6. CASE RepublishAll
  BY <1>6 DEF RepublishAll, ChannelInv, Opened, IsOpen
<1>7. ASSUME NEW f \in Files, DidOpen(f)
      PROVE  ChannelInv'
  BY <1>7 DEF DidOpen, ChannelInv
<1>8. ASSUME NEW f \in Files, DidClose(f) \/ DidChange(f)
      PROVE  ChannelInv'
  <2>1. channel' = channel /\ IsOpen(f)
    BY <1>8 DEF DidClose, DidChange
  <2> QED
    BY <2>1 DEF ChannelInv, Opened
<1>9. CASE UNCHANGED <<docs, channel>>
  BY <1>9 DEF ChannelInv, Opened, IsOpen
<1>10. ASSUME NEW f \in Files,
              DidSave(f) \/ DidChangeWatchedFiles(f) \/ SpawnTargets(f)
       PROVE  UNCHANGED <<docs, channel>>
  BY <1>10 DEF DidSave, DidChangeWatchedFiles, SpawnTargets
<1>12. CASE (\E q \in Requests, f \in Files : BeginRequest(q, f)) \/ EndRequests
  BY <1>9, <1>12 DEF BeginRequest, EndRequests, EndRequest
<1>11. CASE Analysis
  BY <1>9, <1>11 DEF Analysis, Begin, Finish, Check, Publish
<1> QED
  BY <1>1, <1>2, <1>3, <1>4, <1>5, <1>6, <1>7, <1>8, <1>9, <1>10, <1>11, <1>12
     DEF Next, Handshake, Follow, Editor

-----------------------------------------------------------------------------
(* What each step leaves of an open document.                              *)

(* The handshake and the settings: a change of what they say overtakes     *)
(* what was running, and everything is to be republished.                  *)
LEMMA SettingsLatest ==
    ASSUME KeptInv, LatestInv, Deliver \/ Handshake \/ Follow,
           NEW f \in Files, IsOpen(f)', f \notin history'.overtaken
    PROVE  Latest(f)'
<1>1. UNCHANGED <<docs, disk, dependents, shown, targets>>
  <2>1. CASE Deliver
    BY <2>1, Zenon DEF Deliver
  <2>2. CASE Handshake
    BY <2>2 DEF Handshake, Initialize, ApplyInit
  <2>3. CASE FollowTake
    BY <2>3 DEF FollowTake
  <2>4. CASE ApplyChange
    BY <2>4 DEF ApplyChange
  <2>5. CASE RepublishAll
    BY <2>5 DEF RepublishAll
  <2> QED
    BY <2>1, <2>2, <2>3, <2>4, <2>5 DEF Follow
<1>2. IsOpen(f) /\ f \in Opened
  BY <1>1 DEF IsOpen, Opened
<1>3. WorkInv /\ ChannelInv /\ channel.ready
  BY <1>2 DEF LatestInv, ChannelInv
<1>4. SameIncludes(f)
  BY <1>1 DEF SameIncludes, TextAt, IsOpen
<1>5. channel.borrowed = <<>>
  BY <1>3 DEF ChannelInv
<1>6. CASE Deliver \/ FollowTake
  <2>1. /\ channel'.applied = channel.applied /\ channel'.republish = channel.republish
        /\ jobs' = jobs /\ history' = history
    <3>1. CASE Deliver
      <4>1. PICK s : channel' = [channel EXCEPT !.delivered = s, !.fresh = TRUE]
        BY <3>1, Zenon DEF Deliver
      <4>2. jobs' = jobs /\ history' = history
        BY <3>1, Zenon DEF Deliver
      <4> QED
        BY <1>3, <4>1, <4>2 DEF ChannelInv
    <3>2. CASE FollowTake
      BY <1>3, <3>2 DEF FollowTake, ChannelInv
    <3> QED
      BY <1>6, <3>1, <3>2
  <2>2. Latest(f)
    BY <1>2, <2>1 DEF LatestInv
  <2> QED
    BY <1>1, <1>3, <1>4, <2>1, <2>2, ElsewhereKept DEF SameFile, StillDue, NoneGoesOn
<1>7. ~Handshake
  BY <1>3, <1>5 DEF Handshake, Initialize, ApplyInit
<1>8. CASE ApplyChange
  <2> DEFINE s == channel.taken[1]
             changed == s.suppress # channel.applied.suppress
  <2>1. /\ channel'.applied = s /\ channel'.republish = changed /\ channel.taken # <<>>
        /\ jobs' = jobs
    BY <1>3, <1>8 DEF ApplyChange, ChannelInv
  <2>2. history' = IF changed
                   THEN [history EXCEPT !.informed = {},
                            !.overtaken = @ \union Outdated(LAMBDA j : TRUE)]
                   ELSE history
    BY <1>8 DEF ApplyChange
  <2> HIDE DEF s
  <2>3. CASE changed
    <3>1. history'.overtaken = history.overtaken \union Outdated(LAMBDA j : TRUE)
      BY <2>2, <2>3 DEF KeptInv, DocsInv
    <3>2. \A j \in BagToSet(jobs) : j.file = f => j.phase = "queued"
      BY <3>1 DEF Outdated
    <3>3. Due(f)'
      BY <2>1, <2>3 DEF Due
    <3> QED
      BY <2>1, <3>2, <3>3 DEF Latest
  <2>4. CASE ~changed
    <3>1. Latest(f)
      BY <1>2, <2>2, <2>4 DEF LatestInv
    <3>2. ~channel.republish
      BY <1>3, <2>1 DEF ChannelInv
    <3> QED
      BY <1>1, <1>3, <1>4, <2>1, <2>4, <3>1, <3>2, ElsewhereKept
         DEF SameFile, StillDue, NoneGoesOn
  <2> QED
    BY <2>3, <2>4
<1>9. CASE RepublishAll
  <2>1. BagToSet(jobs') = BagToSet(jobs) \union {Job(g) : g \in Opened}
    BY <1>9, StartJobs DEF RepublishAll
  <2>2. channel'.applied = channel.applied /\ history' = history
    BY <1>3, <1>9 DEF RepublishAll, ChannelInv
  <2>3. \A g : Job(g).file = g /\ Job(g).phase = "queued"
    BY DEF Job
  <2>4. Latest(f)
    BY <1>2, <2>2 DEF LatestInv
  <2> QED
    BY <1>1, <1>2, <1>3, <1>4, <2>1, <2>2, <2>3, <2>4, ElsewhereKept
       DEF SameFile, StillDue, NoneGoesOn
<1> QED
  BY <1>6, <1>7, <1>8, <1>9 DEF Follow

(* What is opened is analysed; whoever includes it reads what it read, or, *)
(* when the text is not the disk's, is overtaken.                          *)
LEMMA OpenLatest ==
    ASSUME KeptInv, LatestInv, NEW h \in Files, DidOpen(h),
           NEW f \in Files, IsOpen(f)', f \notin history'.overtaken
    PROVE  Latest(f)'
<1> DEFINE late == Outdated(LAMBDA j : j.file = h)
           more(t) == IF t = disk[h].text THEN {}
                      ELSE {g \in Files \ {h} : h \in UnitFiles[g]}
<1>1. PICK text \in {disk[h].text, FreshText} :
        /\ docs' = [docs EXCEPT ![h] = [text |-> text, version |-> 1]]
        /\ Changed(h, late \union more(text))
  BY DEF DidOpen
<1>2. ~IsOpen(h) /\ UNCHANGED <<disk, dependents, channel, targets, shown>>
  BY DEF DidOpen
<1>3. /\ docs'[h] = [text |-> text, version |-> 1]
      /\ \A g \in Files : g # h => docs'[g] = docs[g]
  BY <1>1 DEF KeptInv, DocsInv
<1> HIDE DEF late
<1>4. /\ history.overtaken \subseteq history'.overtaken
      /\ late \subseteq history'.overtaken
      /\ text # disk[h].text =>
             {g \in Files \ {h} : h \in UnitFiles[g]} \subseteq history'.overtaken
  BY <1>1, ChangedHistory
<1>5. BagToSet(jobs') = BagToSet(jobs) \union {Job(g) : g \in {h}}
  BY StartJobs DEF DidOpen
<1>6. Job(h).file = h /\ Job(h).phase = "queued"
  BY DEF Job
<1>7. CASE f = h
  <2>1. \A j \in BagToSet(jobs) : j.file = f => j.phase = "queued"
    BY <1>4, <1>7 DEF late, Outdated
  <2>2. \A j \in BagToSet(jobs') : j.file = f => j.phase = "queued"
    BY <1>5, <1>6, <2>1
  <2>3. Due(f)'
    BY <1>5, <1>6, <1>7 DEF Due
  <2> QED
    BY <2>2, <2>3 DEF Latest
<1>8. CASE f # h
  <2>1. Latest(f) /\ WorkInv
    BY <1>3, <1>4, <1>8 DEF LatestInv, IsOpen
  <2>2. \A g \in Files \ {h} : TextAt(g)' = TextAt(g)
    BY <1>2, <1>3 DEF TextAt, IsOpen
  <2>3. text = disk[h].text => TextAt(h)' = TextAt(h)
    <3>1. IsOpen(h)'
      BY <1>3 DEF IsOpen, Closed
    <3> QED
      BY <1>2, <1>3, <3>1 DEF TextAt
  <2>4. SameIncludes(f)
    BY <1>4, <1>8, <2>2, <2>3, ClosureInUnit DEF SameIncludes
  <2> QED
    BY <1>2, <1>3, <1>5, <1>6, <1>8, <2>1, <2>4, ElsewhereKept DEF SameFile, StillDue, NoneGoesOn
<1> QED
  BY <1>7, <1>8

(* After an edit the results taken before are of an old version, and the   *)
(* handler has still to ask for the new ones.                              *)
LEMMA ChangeLatest ==
    ASSUME KeptInv, LatestInv, NEW h \in Files, DidChange(h),
           NEW f \in Files, IsOpen(f)', f \notin history'.overtaken
    PROVE  Latest(f)'
<1>1. /\ docs' = [docs EXCEPT ![h] = [text |-> FreshText, version |-> @.version + 1]]
      /\ targets' = targets \union {h} /\ IsOpen(h)
      /\ UNCHANGED <<disk, dependents, channel, jobs, shown>>
  BY DEF DidChange
<1>2. /\ docs'[h] = [text |-> FreshText, version |-> docs[h].version + 1]
      /\ \A g \in Files : g # h => docs'[g] = docs[g]
      /\ docs[h].version \in Nat
  BY <1>1 DEF KeptInv, DocsInv
<1>3. \A g \in Files \ {h} : TextAt(g)' = TextAt(g)
  BY <1>1, <1>2 DEF TextAt, IsOpen
<1>4. /\ history.overtaken \subseteq history'.overtaken
      /\ Readers(h) \subseteq history'.overtaken
  BY ChangedHistory DEF DidChange
<1>5. CASE f = h
  <2>1. ASSUME NEW j \in BagToSet(jobs), j.file = f, j.phase # "queued"
        PROVE  Stale(j)'
    <3>1. j.phase # "checked" /\ j.version # 0
      BY <1>4, <1>5, <2>1, ReadersOfOwn
    <3>2. f \notin history.overtaken
      BY <1>4
    <3>3. j.version \in Nat /\ j.version <= docs[f].version
      BY <1>1, <1>5, <2>1, <3>2 DEF KeptInv, JobInv, SoundJob
    <3>4. docs'[f].version = docs[f].version + 1
      BY <1>2, <1>5
    <3>5. j.version # docs'[j.file].version
      BY <1>2, <1>5, <2>1, <3>3, <3>4
    <3> QED
      BY <3>1, <3>5 DEF Stale
  <2>2. Due(f)'
    BY <1>1, <1>5, ReachSelf DEF Due
  <2> QED
    BY <1>1, <2>1, <2>2 DEF Latest
<1>6. CASE f # h
  <2>1. Latest(f) /\ WorkInv
    BY <1>2, <1>4, <1>6 DEF LatestInv, IsOpen
  <2>2. h \in UnitFiles[f] => \A j \in BagToSet(jobs) : j.file = f => j.phase = "queued"
    BY <1>4, <1>6 DEF Readers, Outdated
  <2> QED
    BY <1>1, <1>2, <1>3, <1>6, <2>1, <2>2, IncludeChanged DEF SameFile, StillDue, NoneGoesOn
<1> QED
  BY <1>5, <1>6

(* A save changes no text an open document shows.                          *)
LEMMA SaveLatest ==
    ASSUME KeptInv, LatestInv, NEW h \in Files, DidSave(h),
           NEW f \in Files, IsOpen(f)', f \notin history'.overtaken
    PROVE  Latest(f)'
<1>1. /\ disk' = [disk EXCEPT ![h] = [text |-> docs[h].text, date |-> @.date + 1]]
      /\ targets' = targets \union {h} /\ IsOpen(h)
      /\ UNCHANGED <<docs, dependents, channel, jobs, shown, history>>
  BY DEF DidSave
<1>2. \A g \in Files : g # h => disk'[g] = disk[g]
  BY <1>1 DEF KeptInv, DocsInv
<1>3. \A g \in Files : TextAt(g)' = TextAt(g)
  BY <1>1, <1>2 DEF TextAt, IsOpen
<1>4. Latest(f) /\ WorkInv
  BY <1>1 DEF LatestInv, IsOpen
<1>5. SameIncludes(f)
  BY <1>3, ClosureInUnit DEF SameIncludes
<1> QED
  BY <1>1, <1>4, <1>5, ElsewhereKept DEF SameFile, StillDue, NoneGoesOn

(* The watcher: whoever includes the file is analysed again.               *)
LEMMA WatchedLatest ==
    ASSUME KeptInv, LatestInv, NEW h \in Files, DidChangeWatchedFiles(h),
           NEW f \in Files, IsOpen(f)', f \notin history'.overtaken
    PROVE  Latest(f)'
<1>1. PICK date : disk' = [disk EXCEPT ![h] = [text |-> FreshText, date |-> date]]
  BY DEF DidChangeWatchedFiles
<1>2. UNCHANGED <<docs, dependents, channel, targets, shown>>
  BY DEF DidChangeWatchedFiles
<1>3. \A g \in Files : g # h => disk'[g] = disk[g]
  BY <1>1 DEF KeptInv, DocsInv
<1>4. \A g \in Files \ {h} : TextAt(g)' = TextAt(g)
  BY <1>2, <1>3 DEF TextAt, IsOpen
<1> DEFINE S == IF OpenDependents(h) = {} THEN {h} ELSE OpenDependents(h)
<1>5. BagToSet(jobs') = BagToSet(jobs) \union {Job(g) : g \in S}
  BY StartJobs DEF DidChangeWatchedFiles
<1>6. \A g : Job(g).file = g /\ Job(g).phase = "queued"
  BY DEF Job
<1>7. f \in Opened
  BY <1>2 DEF Opened, IsOpen
<1>8. f \in Reach(dependents, h) => f \in S
  BY <1>7 DEF OpenDependents
<1> HIDE DEF S
<1>9. NoneGoesOn(f)
  BY <1>5, <1>6 DEF NoneGoesOn
<1>10. SameFile(f) /\ StillDue(f)
  BY <1>2 DEF SameFile, StillDue
<1>11. CASE IsOpen(h)
  <2>1. history' = history
    BY <1>11 DEF DidChangeWatchedFiles
  <2>2. TextAt(h)' = TextAt(h)
    BY <1>2, <1>11 DEF TextAt, IsOpen
  <2>3. SameIncludes(f)
    BY <1>4, <2>2, ClosureInUnit DEF SameIncludes
  <2>4. Latest(f) /\ WorkInv
    BY <1>7, <2>1 DEF LatestInv, Opened
  <2> QED
    BY <1>9, <1>10, <2>3, <2>4, ElsewhereKept
<1>12. CASE ~IsOpen(h)
  <2>1. history.overtaken \subseteq history'.overtaken /\ Readers(h) \subseteq history'.overtaken
    BY <1>12, ChangedHistory DEF DidChangeWatchedFiles
  <2>2. f # h
    BY <1>7, <1>12 DEF Opened
  <2>3. Latest(f) /\ WorkInv
    BY <1>7, <2>1 DEF LatestInv, Opened
  <2>4. h \in UnitFiles[f] => \A j \in BagToSet(jobs) : j.file = f => j.phase = "queued"
    BY <2>1, <2>2 DEF Readers, Outdated
  <2>5. f \in Reach(dependents, h) =>
          \E k \in BagToSet(jobs') : k.file = f /\ k.phase = "queued"
    BY <1>5, <1>6, <1>8
  <2> QED
    BY <1>4, <1>9, <1>10, <2>2, <2>3, <2>4, <2>5, IncludeChanged
<1> QED
  BY <1>11, <1>12

(* A close: who had read the text that is dropped is overtaken.            *)
LEMMA CloseLatest ==
    ASSUME KeptInv, LatestInv, NEW h \in Files, DidClose(h),
           NEW f \in Files, IsOpen(f)', f \notin history'.overtaken
    PROVE  Latest(f)'
<1>1. /\ docs' = [docs EXCEPT ![h] = Closed] /\ shown' = [shown EXCEPT ![h] = Job(h)]
      /\ UNCHANGED <<disk, dependents, channel, targets, jobs>> /\ IsOpen(h)
  BY DEF DidClose
<1>2. docs'[h] = Closed /\ \A g \in Files : g # h => docs'[g] = docs[g]
  BY <1>1 DEF KeptInv, DocsInv
<1>3. f # h
  BY <1>2 DEF IsOpen
<1>4. shown'[f] = shown[f]
  BY <1>1, <1>3 DEF KeptInv, ShownInv
<1>5. /\ history.overtaken \subseteq history'.overtaken
      /\ docs[h].text # disk[h].text =>
             {g \in Files \ {h} : h \in UnitFiles[g]} \subseteq history'.overtaken
  BY ChangedHistory DEF DidClose
<1>6. \A g \in Files \ {h} : TextAt(g)' = TextAt(g)
  BY <1>1, <1>2 DEF TextAt, IsOpen
<1>7. docs[h].text = disk[h].text => TextAt(h)' = TextAt(h)
  BY <1>1, <1>2 DEF TextAt, IsOpen
<1>8. SameIncludes(f)
  BY <1>3, <1>5, <1>6, <1>7, ClosureInUnit DEF SameIncludes
<1>9. Latest(f) /\ WorkInv
  BY <1>2, <1>3, <1>5 DEF LatestInv, IsOpen
<1> QED
  BY <1>1, <1>2, <1>3, <1>4, <1>8, <1>9, ElsewhereKept DEF SameFile, StillDue, NoneGoesOn

(* The handler asks for what it was to ask for.                            *)
LEMMA SpawnLatest ==
    ASSUME KeptInv, LatestInv, NEW h \in Files, SpawnTargets(h),
           NEW f \in Files, IsOpen(f)', f \notin history'.overtaken
    PROVE  Latest(f)'
<1>1. targets' = targets \ {h} /\ UNCHANGED <<docs, disk, dependents, channel, shown, history>>
  BY DEF SpawnTargets
<1> DEFINE S == IF OpenDependents(h) = {} THEN {h} ELSE OpenDependents(h)
<1>2. BagToSet(jobs') = BagToSet(jobs) \union {Job(g) : g \in S}
  BY StartJobs DEF SpawnTargets
<1>3. \A g : Job(g).file = g /\ Job(g).phase = "queued"
  BY DEF Job
<1>4. f \in Opened /\ Latest(f) /\ WorkInv
  BY <1>1 DEF LatestInv, Opened, IsOpen
<1>5. f \in Reach(dependents, h) => f \in S
  BY <1>4 DEF OpenDependents
<1> HIDE DEF S
<1>6. NoneGoesOn(f)
  BY <1>2, <1>3 DEF NoneGoesOn
<1>7. StillDue(f)
  <2>1. CASE f \in Reach(dependents, h)
    BY <1>2, <1>3, <1>5, <2>1 DEF StillDue
  <2>2. CASE f \notin Reach(dependents, h)
    BY <1>1, <2>2 DEF StillDue
  <2> QED
    BY <2>1, <2>2
<1>8. SameFile(f) /\ SameIncludes(f)
  BY <1>1 DEF SameFile, SameIncludes, TextAt, IsOpen
<1> QED
  BY <1>4, <1>6, <1>7, <1>8, ElsewhereKept

(* A step of an analysis: one of the file goes on as what will be shown.   *)
LEMMA TurnLatest ==
    ASSUME NEW f \in Files, Latest(f), WorkInv, SameFile(f), SameIncludes(f),
           UNCHANGED <<channel, targets>>,
           NEW j \in BagToSet(jobs), NEW T, jobs' = (jobs (-) SetToBag({j})) (+) SetToBag(T),
           \A k \in T : k.file = f => (Stale(k) \/ Current(k))',
           j.file = f /\ (j.phase = "queued" \/ Current(j)) =>
               \E k \in T : k.file = f /\ Current(k)'
    PROVE  Latest(f)'
<1>1. /\ T \subseteq BagToSet(jobs')
      /\ \A k \in BagToSet(jobs) : k # j => k \in BagToSet(jobs')
      /\ BagToSet(jobs') \subseteq BagToSet(jobs) \union T
  BY TurnBag
<1>2. \A k : k.file = f /\ Current(k) => Current(k)'
  <2> SUFFICES ASSUME NEW k, k.file = f, Current(k) PROVE Current(k)'
    OBVIOUS
  <2>1. OfIncludes(k) => OfIncludes(k)'
    BY IncludesKept
  <2> QED
    BY <2>1 DEF Current, OfNow, SameFile
<1>3. \A k : k.file = f /\ Stale(k) => Stale(k)'
  BY DEF Stale, SameFile
<1>4. \A k \in BagToSet(jobs') : k.file = f /\ k.phase # "queued" => (Stale(k) \/ Current(k))'
  BY <1>1, <1>2, <1>3 DEF Latest
<1>5. StillDue(f)
  BY DEF StillDue
<1>6. Due(f) => Due(f)'
  BY <1>1, <1>2, <1>5, DueKept
<1>7. shown[f].file = f /\ OfNow(shown[f]) /\ OfIncludes(shown[f]) =>
        (shown[f].file = f /\ OfNow(shown[f]) /\ OfIncludes(shown[f]))'
  BY IncludesKept DEF OfNow, SameFile
<1> QED
  BY <1>4, <1>6, <1>7 DEF Latest

(* The text and the version it takes are those of the moment.              *)
LEMMA BeginLatest ==
    ASSUME KeptInv, LatestInv, NEW j \in BagToSet(jobs), Begin(j),
           NEW f \in Files, IsOpen(f)', f \notin history'.overtaken
    PROVE  Latest(f)'
<1>1. UNCHANGED <<docs, disk, dependents, channel, targets, shown, history>>
  BY DEF Begin
<1>2. PICK k : /\ Becomes(j, k) /\ k.file = j.file /\ k.phase = "read"
               /\ k.own = TextAt(j.file) /\ k.version = docs[j.file].version
               /\ k.suppress = channel.applied.suppress
  <2> DEFINE k == [j EXCEPT !.phase = "read", !.own = TextAt(j.file),
                            !.version = docs[j.file].version,
                            !.suppress = channel.applied.suppress]
  <2>1. Becomes(j, k)
    BY DEF Begin
  <2>2. /\ k.file = j.file /\ k.phase = "read" /\ k.own = TextAt(j.file)
        /\ k.version = docs[j.file].version /\ k.suppress = channel.applied.suppress
    BY DEF KeptInv, JobInv, SoundJob, Fields
  <2> HIDE DEF k
  <2> QED
    BY <2>1, <2>2
<1>3. jobs' = (jobs (-) SetToBag({j})) (+) SetToBag({k})
  BY <1>2 DEF Becomes, Turn
<1>4. IsOpen(f) /\ Latest(f) /\ WorkInv
  BY <1>1 DEF LatestInv, IsOpen
<1>5. k.file = f => Current(k)'
  BY <1>1, <1>2, <1>4 DEF Current, OfNow, TextAt
<1>6. SameFile(f) /\ SameIncludes(f)
  BY <1>1 DEF SameFile, SameIncludes, TextAt, IsOpen
<1> QED
  BY <1>1, <1>2, <1>3, <1>4, <1>5, <1>6, TurnLatest

(* The texts of the includes are read as they are, and the graph knows the *)
(* way back.                                                               *)
LEMMA FinishLatest ==
    ASSUME KeptInv, LatestInv, NEW j \in BagToSet(jobs), Finish(j),
           NEW f \in Files, IsOpen(f)', f \notin history'.overtaken
    PROVE  Latest(f)'
<1>1. /\ j.file \in Files /\ j.phase = "read"
      /\ UNCHANGED <<docs, disk, channel, targets, shown, history>>
  BY FinishDoes
<1>2. PICK k : /\ Becomes(j, k) /\ k.file = j.file /\ k.phase = "done" /\ k.own = j.own
               /\ k.version = j.version /\ k.suppress = j.suppress
               /\ \/ j.suppress /\ j.file \in IncFiles /\ dependents' = dependents
                  \/ /\ \A g \in IncludeClosure[j.file] \ {j.file} :
                           k.seen[g] = TextAt(g) /\ k.idents[g] = IdentsOf(g)
                     /\ dependents' = [g \in Files |-> dependents[g] \union
                           {h \in IncludeClosure[j.file] : g \in Includes[h]}]
  BY FinishDoes
<1>3. IsOpen(f) /\ Latest(f) /\ WorkInv
  BY <1>1 DEF LatestInv, IsOpen
<1>4. \A g \in Files : TextAt(g)' = TextAt(g)
  BY <1>1 DEF TextAt, IsOpen
<1>5. SameFile(f) /\ SameIncludes(f)
  <2>1. \A g \in Files : dependents[g] \subseteq dependents'[g]
    BY <1>2
  <2> QED
    BY <1>1, <1>4, <2>1, ClosureInUnit DEF SameFile, SameIncludes
<1>6. OfIncludes(k)'
  <2>1. CASE j.suppress /\ j.file \in IncFiles
    BY <1>2, <2>1 DEF OfIncludes
  <2>2. CASE ~(j.suppress /\ j.file \in IncFiles)
    <3> SUFFICES ASSUME NEW g \in IncludeClosure[k.file] \ {k.file}
                 PROVE  /\ k.seen[g] = TextAt(g)' /\ k.idents[g] = TextAt(g)'
                        /\ k.file \in Reach(dependents', g)
      BY DEF OfIncludes
    <3>1. g \in Files
      BY <1>1, <1>2, ClosureInUnit
    <3>2. IdentsOf(g) = TextAt(g)
      BY <3>1 DEF IdentsOf, TextAt, KeptInv, IdentsInv
    <3>3. IncludeClosure[j.file] = Reach(Includes, j.file)
      BY <1>1 DEF IncludeClosure
    <3>4. \A x \in Files : {h \in Reach(Includes, j.file) : x \in Includes[h]} \subseteq dependents'[x]
      BY <1>2, <2>2, <3>3
    <3>5. Includes \in [Files -> SUBSET Files]
      BY DocumentsAssumption
    <3>6. \A x \in Reach(Includes, j.file) : j.file \in Reach(dependents', x)
      BY <1>1, <3>4, <3>5, ReachBack
    <3> QED
      BY <1>2, <1>4, <2>2, <3>1, <3>2, <3>3, <3>6
  <2> QED
    BY <2>1, <2>2
<1>7. jobs' = (jobs (-) SetToBag({j})) (+) SetToBag({k})
  BY <1>2 DEF Becomes, Turn
<1>8. k.file = f /\ Current(j) => Current(k)'
  BY <1>1, <1>2, <1>6 DEF Current, OfNow
<1>9. k.file = f /\ Stale(j) => Stale(k)'
  BY <1>1, <1>2 DEF Stale
<1>10. k.file = f => (Stale(k) \/ Current(k))'
  BY <1>1, <1>2, <1>3, <1>8, <1>9 DEF Latest
<1> QED
  BY <1>1, <1>2, <1>3, <1>5, <1>7, <1>8, <1>10, TurnLatest

(* What the check drops was not going to be shown.                         *)
LEMMA CheckLatest ==
    ASSUME KeptInv, LatestInv, NEW j \in BagToSet(jobs), Check(j),
           NEW f \in Files, IsOpen(f)', f \notin history'.overtaken
    PROVE  Latest(f)'
<1> DEFINE k == [j EXCEPT !.phase = "checked"]
<1>1. /\ j.phase = "done"
      /\ UNCHANGED <<docs, disk, dependents, channel, targets, shown, history>>
      /\ \/ Drop(j) /\ docs[j.file].version # j.version
         \/ (j.version = 0 \/ docs[j.file].version = j.version) /\ Becomes(j, k)
  BY DEF Check
<1>2. /\ k.file = j.file /\ k.phase = "checked" /\ k.own = j.own /\ k.version = j.version
      /\ k.suppress = j.suppress /\ k.seen = j.seen /\ k.idents = j.idents
  BY DEF KeptInv, JobInv, SoundJob, Fields
<1> HIDE DEF k
<1>3. IsOpen(f) /\ Latest(f) /\ WorkInv
  BY <1>1 DEF LatestInv, IsOpen
<1>4. SameFile(f) /\ SameIncludes(f)
  BY <1>1 DEF SameFile, SameIncludes, TextAt, IsOpen
<1>5. CASE Drop(j) /\ docs[j.file].version # j.version
  <2>1. jobs' = (jobs (-) SetToBag({j})) (+) SetToBag({})
    BY <1>5 DEF Drop, Turn, EmptyBag
  <2>2. ~Current(j) /\ j.phase # "queued"
    BY <1>1, <1>5 DEF Current
  <2> QED
    BY <1>1, <1>3, <1>4, <2>1, <2>2, TurnLatest
<1>6. CASE (j.version = 0 \/ docs[j.file].version = j.version) /\ Becomes(j, k)
  <2>1. jobs' = (jobs (-) SetToBag({j})) (+) SetToBag({k})
    BY <1>6 DEF Becomes, Turn
  <2>2. j.file = f => Current(j)
    BY <1>1, <1>3, <1>6 DEF Latest, Stale
  <2>3. j.file = f => Current(k)'
    <3>1. OfIncludes(j) => OfIncludes(k)'
      BY <1>1, <1>2 DEF OfIncludes, TextAt, IsOpen
    <3> QED
      BY <1>1, <1>2, <2>2, <3>1 DEF Current, OfNow
  <2> QED
    BY <1>1, <1>2, <1>3, <1>4, <2>1, <2>3, TurnLatest
<1> QED
  BY <1>1, <1>5, <1>6

(* What is shown passed the check: it is the latest.                       *)
LEMMA PublishLatest ==
    ASSUME KeptInv, LatestInv, NEW j \in BagToSet(jobs), Publish(j),
           NEW f \in Files, IsOpen(f)', f \notin history'.overtaken
    PROVE  Latest(f)'
<1>1. /\ j.phase = "checked" /\ shown' = [shown EXCEPT ![j.file] = j]
      /\ UNCHANGED <<docs, disk, dependents, channel, targets>>
  BY DEF Publish
<1>2. jobs' = (jobs (-) SetToBag({j})) (+) SetToBag({})
  BY DEF Publish, Drop, Turn, EmptyBag
<1>3. history'.overtaken = history.overtaken
  BY DEF Publish, KeptInv, DocsInv
<1>4. IsOpen(f) /\ Latest(f) /\ WorkInv
  BY <1>1, <1>3 DEF LatestInv, IsOpen
<1>5. j.file \in Files /\ shown = [g \in Files |-> shown[g]]
  BY DEF KeptInv, JobInv, SoundJob, ShownInv
<1>6. CASE j.file # f
  <2>1. SameFile(f) /\ SameIncludes(f)
    BY <1>1, <1>5, <1>6 DEF SameFile, SameIncludes, TextAt, IsOpen
  <2> QED
    BY <1>1, <1>2, <1>4, <1>6, <2>1, TurnLatest
<1>7. CASE j.file = f
  <2>1. Current(j)
    BY <1>1, <1>4, <1>7 DEF Latest, Stale
  <2>2. shown'[f] = j
    BY <1>1, <1>5, <1>7
  <2>3. OfNow(j)' /\ OfIncludes(j)'
    BY <1>1, <2>1 DEF Current, OfNow, OfIncludes, TextAt, IsOpen
  <2>4. BagToSet(jobs') \subseteq BagToSet(jobs)
    BY DropJobs DEF Publish
  <2>5. \A k \in BagToSet(jobs') : k.file = f /\ k.phase # "queued" => (Stale(k) \/ Current(k))'
    BY <1>1, <1>4, <2>4 DEF Latest, Stale, Current, OfNow, OfIncludes, TextAt, IsOpen
  <2> QED
    BY <1>7, <2>2, <2>3, <2>5 DEF Latest
<1> QED
  BY <1>6, <1>7

-----------------------------------------------------------------------------
(* At first nothing is open.                                               *)
LEMMA InitLatest == Init => LatestInv
<1> SUFFICES ASSUME Init PROVE LatestInv
  OBVIOUS
<1>1. Opened = {} /\ \A f \in Files : ~IsOpen(f)
  BY DEF Init, Opened, IsOpen
<1>2. ChannelInv
  BY <1>1 DEF Init, ChannelInv
<1>3. WorkInv
  BY DEF Init, WorkInv, EmptyBag, SetToBag
<1> QED
  BY <1>1, <1>2, <1>3 DEF LatestInv

(* Every step keeps it.                                                    *)
LEMMA NextLatest == KeptInv /\ LatestInv /\ [Next]_vars => LatestInv'
<1> SUFFICES ASSUME KeptInv, LatestInv, [Next]_vars PROVE LatestInv'
  OBVIOUS
<1>1. CASE Next
  <2>1. ChannelInv' /\ WorkInv'
    BY <1>1, ChannelKept, WorkKept DEF LatestInv
  <2> SUFFICES ASSUME NEW f \in Files, IsOpen(f)', f \notin history'.overtaken
               PROVE  Latest(f)'
    BY <2>1 DEF LatestInv
  <2>2. CASE Deliver \/ Handshake \/ Follow
    BY <2>2, SettingsLatest
  <2>3. CASE Editor
    BY <2>3, OpenLatest, ChangeLatest, SaveLatest, WatchedLatest, CloseLatest DEF Editor
  <2>4. CASE Analysis
    BY <2>4, BeginLatest, FinishLatest, CheckLatest, PublishLatest DEF Analysis
  <2>5. ASSUME NEW h \in Files, SpawnTargets(h)
        PROVE  Latest(f)'
    BY <2>5, SpawnLatest
  <2>6. CASE (\E q \in Requests, h \in Files : BeginRequest(q, h)) \/ EndRequests
    <3>1. UNCHANGED <<docs, disk, dependents, channel, targets, jobs, shown, history>>
      BY <2>6 DEF BeginRequest, EndRequests, EndRequest
    <3>2. Latest(f) /\ WorkInv
      BY <3>1 DEF LatestInv, IsOpen
    <3> QED
      BY <3>1, <3>2, ElsewhereKept
         DEF SameFile, SameIncludes, StillDue, NoneGoesOn, TextAt, IsOpen
  <2> QED
    BY <1>1, <2>2, <2>3, <2>4, <2>5, <2>6 DEF Next
<1>2. CASE UNCHANGED vars
  <2>1. UNCHANGED <<docs, disk, dependents, channel, targets, jobs, shown, history>>
    BY <1>2 DEF vars
  <2>2. ChannelInv' /\ WorkInv'
    BY <2>1 DEF LatestInv, ChannelInv, WorkInv, Opened, IsOpen
  <2>3. \A f \in Files : Latest(f) => Latest(f)'
    BY <2>1 DEF Latest, Due, Stale, Current, OfNow, OfIncludes, TextAt, IsOpen
  <2> QED
    BY <2>1, <2>2, <2>3 DEF LatestInv, IsOpen
<1> QED
  BY <1>1, <1>2

(* LatestInv is inductive beside KeptInv: for any workspace and includes,  *)
(* any number of events and of analyses under way, with or without         *)
(* fairness.                                                               *)
THEOREM LatestInvCorrect == Spec => []LatestInv
<1>1. Init => LatestInv
  BY InitLatest
<1>2. KeptInv /\ LatestInv /\ [Next]_vars => LatestInv'
  BY NextLatest
<1> QED
  BY <1>1, <1>2, KeptInvCorrect, PTL DEF Spec

(* When nothing is running, an open document shows the diagnostics of its  *)
(* text, of the texts and identifiers of all it includes, and of the       *)
(* settings applied, unless one of its results was overtaken.              *)
THEOREM QuietCorrect == Spec => []QuietShowsTheLatest
<1>1. LatestInv => QuietShowsTheLatest
  <2> SUFFICES ASSUME LatestInv, Quiet, NEW f \in Opened \ history.overtaken
               PROVE  /\ shown[f].own = docs[f].text
                      /\ shown[f].suppress = channel.applied.suppress
                      /\ ~(shown[f].suppress /\ f \in IncFiles) =>
                             \A g \in IncludeClosure[f] \ {f} :
                                 /\ shown[f].seen[g] = TextAt(g)
                                 /\ shown[f].idents[g] = TextAt(g)
    BY DEF QuietShowsTheLatest
  <2>1. Latest(f)
    BY DEF LatestInv, Opened
  <2>2. ~Due(f)
    BY DEF Due, Quiet, BagToSet, EmptyBag, SetToBag
  <2> QED
    BY <2>1, <2>2 DEF Latest, OfNow, OfIncludes
<1> QED
  BY <1>1, LatestInvCorrect, PTL

=============================================================================
