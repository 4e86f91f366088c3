----------------------------- MODULE CoreRequests -----------------------------
(***************************************************************************)
(* The cores of the windows of one project, at work (rpc/mod.rs): a core   *)
(* reads one request at a time from its extension, runs a compilation on a *)
(* thread of its own, and answers.  Two of the requests meet others on the *)
(* disk between their steps: the state of the project (project/state.rs),  *)
(* which every window writes, and the log of the server (server/log.rs),   *)
(* which the server writes and starts anew.                                *)
(*                                                                         *)
(* A file is a number, so that a name may come to stand for another one    *)
(* while it is open; its content is the value written last, and a value is *)
(* as long as it is great.  The log is the run of the server that wrote it *)
(* and how many lines it has.                                              *)
(***************************************************************************)
EXTENDS Integers, Sequences, SequencesExt

CONSTANTS Windows,
          Asks,        \* what the windows may ask
          MaxRequests, \* bound: requests of all windows
          MaxLog       \* bound: lines and runs of the server, where a window asks for them

Methods == {"state", "log", "compile", "unknown", "malformed"}
ASSUME AsksAssumption == Asks \subseteq [Windows -> SUBSET Methods]

VARIABLES asks,   \* what each window asks, in this behaviour
          cores,  \* of each window: requests waiting, those with an answer due, the one at hand, threads, answers
          panels, \* what the window shows of the log, and the position it keeps
          files,  \* the names of the state and of its temporary, and the contents
          log,    \* the run and its lines
          sent    \* requests so far

deskVars == <<asks, cores, panels, files, log, sent>>

NoId == 0
NoFile == 0
Emptied == 0
Torn == -1
NoPosition == -1
Idle == [step |-> "idle", id |-> NoId, value |-> 0, file |-> NoFile, size |-> 0, from |-> NoPosition, run |-> 0]

DeskInit ==
    /\ asks \in Asks
    /\ cores = [w \in Windows |-> [inbox |-> <<>>, asked |-> {}, work |-> Idle, jobs |-> {}, answers |-> <<>>,
                                   open |-> TRUE, alive |-> TRUE]]
    /\ panels = [w \in Windows |-> [at |-> NoPosition, run |-> 0, shown |-> <<>>, since |-> <<0, 0>>, slipped |-> FALSE]]
    /\ files = [state |-> NoFile, tmp |-> NoFile, content |-> <<>>, overlapped |-> FALSE]
    /\ log = [run |-> 1, lines |-> 0, steps |-> 0]
    /\ sent = 0

Alive(w) == cores[w].alive
At(w, step) == Alive(w) /\ cores[w].work.step = step
Goes(w, step) == cores' = [cores EXCEPT ![w].work.step = step]
Answered(c, id) == IF id = NoId THEN c ELSE [c EXCEPT !.answers = Append(@, id)]

-----------------------------------------------------------------------------
(* The extension: a line with a request, a notification or neither.  What  *)
(* it saves and reads it asks as a request; it reads the log again when it *)
(* has been answered, from where it was told.                              *)
Send(w) ==
    /\ Alive(w) /\ cores[w].open /\ sent < MaxRequests
    /\ sent' = sent + 1
    /\ \E method \in asks[w], id \in {NoId, sent + 1} :
          /\ method \in {"state", "log"} => id # NoId
          /\ method = "log" => /\ cores[w].work.step \notin {"measure", "read"}
                               /\ \A k \in DOMAIN cores[w].inbox : cores[w].inbox[k].method # "log"
          /\ cores' = [cores EXCEPT ![w].inbox = Append(@, [method |-> method, id |-> id, value |-> sent + 1]),
                                    ![w].asked = IF method = "malformed" THEN @ ELSE @ \union ({id} \ {NoId})]
    /\ UNCHANGED <<asks, panels, files, log>>

(* Closing stdin ends the core, once it has done what was sent.            *)
Close(w) ==
    /\ Alive(w) /\ cores[w].open /\ sent > 0
    /\ cores' = [cores EXCEPT ![w].open = FALSE]
    /\ UNCHANGED <<asks, panels, files, log, sent>>

(* A core may die at any step, of a request or between two.                *)
Crash(w) ==
    /\ Alive(w) /\ sent > 0
    /\ cores' = [cores EXCEPT ![w] = [@ EXCEPT !.inbox = <<>>, !.work = Idle, !.jobs = {}, !.alive = FALSE]]
    /\ UNCHANGED <<asks, panels, files, log, sent>>

Followed == \E w \in Windows : "log" \in asks[w]
ServerWrites ==
    /\ Followed /\ log.steps < MaxLog
    /\ log' = [log EXCEPT !.lines = @ + 1, !.steps = @ + 1]
    /\ UNCHANGED <<asks, cores, panels, files, sent>>
ServerRestarts ==
    /\ Followed /\ log.steps < MaxLog /\ log.lines > 0
    /\ log' = [run |-> log.run + 1, lines |-> 0, steps |-> log.steps + 1]
    /\ UNCHANGED <<asks, cores, panels, files, sent>>

-----------------------------------------------------------------------------
(* The loop: one request at a time.  A line that is no request is ignored; *)
(* a compilation leaves for a thread, or is refused when there is none.    *)
Serve(w) ==
    /\ At(w, "idle") /\ cores[w].inbox # <<>>
    /\ LET r == Head(cores[w].inbox)
           c == [cores[w] EXCEPT !.inbox = Tail(@)]
           begun(step) == [c EXCEPT !.work = [Idle EXCEPT !.step = step, !.id = r.id, !.value = r.value]]
       IN  \/ r.method = "malformed" /\ cores' = [cores EXCEPT ![w] = c]
           \/ r.method = "unknown" /\ cores' = [cores EXCEPT ![w] = Answered(c, r.id)]
           \/ r.method = "compile" /\ cores' = [cores EXCEPT ![w] = [c EXCEPT !.jobs = @ \union {r}]]
           \/ r.method = "compile" /\ cores' = [cores EXCEPT ![w] = Answered(c, r.id)]
           \/ r.method = "state" /\ cores' = [cores EXCEPT ![w] = begun("open")]
           \/ r.method = "log" /\ cores' = [cores EXCEPT ![w] = begun("measure")]
    /\ UNCHANGED <<asks, panels, files, log, sent>>

(* A compilation that ends is answered by its thread, among other answers. *)
CompileDone(w) ==
    /\ Alive(w)
    /\ \E r \in cores[w].jobs :
          cores' = [cores EXCEPT ![w] = Answered([cores[w] EXCEPT !.jobs = @ \ {r}], r.id)]
    /\ UNCHANGED <<asks, panels, files, log, sent>>

(* No more lines: the process ends, with the threads it still has.         *)
Exit(w) ==
    /\ At(w, "idle") /\ ~cores[w].open /\ cores[w].inbox = <<>>
    /\ cores' = [cores EXCEPT ![w] = [@ EXCEPT !.jobs = {}, !.alive = FALSE]]
    /\ UNCHANGED <<asks, panels, files, log, sent>>

Respond(w) == cores' = [cores EXCEPT ![w] = Answered([cores[w] EXCEPT !.work = Idle], cores[w].work.id)]

-----------------------------------------------------------------------------
(* write_state: the temporary is opened, which empties it when it is       *)
(* there; it is written; and it takes the name of the state, if it still   *)
(* has its own.                                                            *)
Writing(w) == At(w, "write") \/ At(w, "rename")
OpenTmp(w) ==
    /\ At(w, "open")
    /\ LET fresh == files.tmp = NoFile
           file == IF fresh THEN Len(files.content) + 1 ELSE files.tmp
       IN  /\ files' = [files EXCEPT !.tmp = file,
                            !.content = IF fresh THEN Append(@, Emptied) ELSE [@ EXCEPT ![file] = Emptied],
                            !.overlapped = @ \/ \E v \in Windows \ {w} : Writing(v)]
           /\ cores' = [cores EXCEPT ![w].work = [@ EXCEPT !.step = "write", !.file = file]]
    /\ UNCHANGED <<asks, panels, log, sent>>
WriteTmp(w) ==
    /\ At(w, "write")
    /\ LET file == cores[w].work.file
           value == cores[w].work.value
       IN  files' = [files EXCEPT !.content[file] = IF @ \in Emptied..value THEN value ELSE Torn]
    /\ Goes(w, "rename")
    /\ UNCHANGED <<asks, panels, log, sent>>
RenameTmp(w) ==
    /\ At(w, "rename")
    /\ files' = IF files.tmp = NoFile THEN files ELSE [files EXCEPT !.state = files.tmp, !.tmp = NoFile]
    /\ Respond(w)
    /\ UNCHANGED <<asks, panels, log, sent>>

-----------------------------------------------------------------------------
(* read_since: the log is measured...                                      *)
Measure(w) ==
    /\ At(w, "measure")
    /\ cores' = [cores EXCEPT ![w].work = [@ EXCEPT !.step = "read", !.size = log.lines, !.run = log.run,
                     !.from = IF panels[w].at = NoPosition THEN NoPosition ELSE IF log.lines < panels[w].at THEN 0 ELSE panels[w].at]]
    /\ UNCHANGED <<asks, panels, files, log, sent>>

Lines(run, from, to) == [k \in 1..(IF to < from THEN 0 ELSE to - from) |-> <<run, from + k>>]

(* ...and read up to there, as far as it still goes; the window is told    *)
(* the measure.  A window with no position is only told where the log is.  *)
WholeLog(size) == log.lines
EndOf(size) == IF log.lines < size THEN log.lines ELSE size
ReadLog(w) ==
    /\ At(w, "read")
    /\ LET work == cores[w].work
           p == panels[w]
       IN  panels' = [panels EXCEPT ![w] =
              IF work.from = NoPosition
              THEN [p EXCEPT !.at = work.size, !.run = work.run, !.since = <<work.run, work.size>>]
              ELSE [p EXCEPT !.at = work.size, !.run = work.run,
                       !.shown = p.shown \o Lines(log.run, work.from, EndOf(work.size)),
                       !.slipped = \/ p.slipped \/ work.run # log.run
                                   \/ p.at > 0 /\ work.run # p.run /\ work.size >= p.at]]
    /\ Respond(w)
    /\ UNCHANGED <<asks, files, log, sent>>

-----------------------------------------------------------------------------
Loop(w) == \/ Serve(w) \/ Exit(w) \/ OpenTmp(w) \/ WriteTmp(w) \/ RenameTmp(w)
           \/ Measure(w) \/ ReadLog(w)
DeskNext == \/ ServerWrites \/ ServerRestarts
        \/ \E w \in Windows : Send(w) \/ Close(w) \/ Crash(w) \/ Loop(w) \/ CompileDone(w)

(* The loop and the threads go on while the process lives, and a compiler  *)
(* ends; the extension and the server owe nothing.                         *)
DeskFairness == \A w \in Windows : WF_deskVars(Loop(w)) /\ WF_deskVars(CompileDone(w))
DeskSpec == DeskInit /\ [][DeskNext]_deskVars /\ DeskFairness

-----------------------------------------------------------------------------
(* Whatever dies between two steps, the state of the project is a value    *)
(* that a window saved, whole - unless two windows were saving at once:    *)
(* they have the same temporary.                                           *)
StateFileIsWhole ==
    files.state # NoFile /\ ~files.overlapped => files.content[files.state] \notin {Emptied, Torn}

(* The window shows every line of the run of the server it is at, once and *)
(* in order, from where it began to look or from the first of the run -    *)
(* unless the log was started anew during a read, or grew again past the   *)
(* position before the next.                                               *)
Before(l, m) == l[1] < m[1] \/ (l[1] = m[1] /\ l[2] < m[2])
LogIsFollowed ==
    \A w \in Windows :
        LET p == panels[w]
            base == IF p.since[1] = p.run THEN p.since[2] ELSE 0
        IN  ~p.slipped =>
               /\ p.at = NoPosition => p.shown = <<>>
               /\ p.at # NoPosition =>
                     \E old \in 0..Len(p.shown) :
                        /\ Len(p.shown) = old + (p.at - base)
                        /\ \A i \in 1..old : p.shown[i][1] < p.run
                        /\ \A k \in 1..(p.at - base) : p.shown[old + k] = <<p.run, base + k>>
               /\ \A i, j \in DOMAIN p.shown : i < j => Before(p.shown[i], p.shown[j])

(* No request has two answers, and no notification or ignored line has one.*)
NoAnswerTwice == \A w \in Windows : IsInjective(cores[w].answers) /\ ToSet(cores[w].answers) \subseteq 1..sent

(* What a core tells its window is so: the state it saves is whole, the    *)
(* log it follows has no line lost or told twice, and no request is        *)
(* answered twice.                                                         *)
CoreKeepsItsWord == StateFileIsWhole /\ LogIsFollowed /\ NoAnswerTwice

(* What a core is asked it answers, or it is no longer there.              *)
RequestsAreAnswered ==
    []<>(\A w \in Windows : Alive(w) => cores[w].asked \subseteq ToSet(cores[w].answers))
=============================================================================
