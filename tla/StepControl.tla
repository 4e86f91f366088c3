----------------------------- MODULE StepControl -----------------------------
(***************************************************************************)
(* The decision the debugger plugin takes at every line the VM executes:   *)
(* runtime error, data breakpoint, breakpoint (condition, count, log), and *)
(* the step that is pending, in this order.  The VM calls, returns and     *)
(* writes its memory as it likes between two lines.                        *)
(*                                                                         *)
(* A frame is known to the code by its base address only (frm), which      *)
(* another frame has again later; its identity here is `id`.  The stack    *)
(* grows downwards, and the local of a frame lives at its base.            *)
(***************************************************************************)
EXTENDS Integers, Sequences, SequencesExt, FiniteSets

CONSTANTS Top,        \* base of the first frame: frames are below, the global at 0
          CodeAddrs,  \* code addresses that begin a line
          BreakpointLists, \* what the editor may set
          MaxDepth,   \* bound: frames on the stack
          MaxMoves,   \* bound: calls, returns, writes and lines of the VM
          MaxOrders   \* bound: what the editor asks for

ASSUME TopAssumption == Top \in Nat \ {0}

VARIABLES stack,    \* the frames of the VM, the top one last
          memory,   \* the cells of the data segment
          ctrl,     \* the Controller shared with the thread of the socket
          stop,     \* what the VM is paused for
          born,     \* identity of the frame created last
          moves, orders

stepsVars == <<stack, memory, ctrl, stop, born, moves, orders>>

Running == "running"
Cells == 0..Top
TopFrame == Last(stack)
LiveBases == {stack[i].frm : i \in DOMAIN stack}
LiveIds == {stack[i].id : i \in DOMAIN stack}
Fresh == [mode |-> "run", stepFrame |-> 0, from |-> 0, started |-> FALSE,
          bps |-> <<>>, watches |-> <<>>]

(* The texts of the editor, as far as the code can read them: a condition  *)
(* on a variable (the global, or one that is not in scope), a condition on *)
(* the count of hits, and anything else.                                   *)
NoCondition == [var |-> "none", op |-> "", n |-> 0]
Conditions == {NoCondition, [var |-> "global", op |-> "==", n |-> 1],
               [var |-> "unknown", op |-> "==", n |-> 1]}
HitConditions == {NoCondition, [var |-> "hits", op |-> "%", n |-> 2],
                  [var |-> "hits", op |-> "<=", n |-> 1],
                  [var |-> "hits", op |-> "%", n |-> 0]}
Breakpoints == [addr : CodeAddrs, condition : Conditions,
                hitCondition : HitConditions, log : BOOLEAN]
ASSUME ListsAssumption == BreakpointLists \subseteq Seq(Breakpoints)

StepsInit ==
    /\ stack = <<[frm |-> Top, id |-> 1]>>
    /\ memory = [a \in Cells |-> 0]
    /\ ctrl = Fresh
    /\ stop = Running
    /\ born = 1
    /\ moves = 0
    /\ orders = 0

IsRunning == stop = Running
VMMoves == IsRunning /\ moves < MaxMoves /\ moves' = moves + 1

-----------------------------------------------------------------------------
(* The VM between two lines.                                               *)

Call ==
    /\ VMMoves
    /\ Len(stack) < MaxDepth
    /\ \E size \in 1..2 :
           /\ TopFrame.frm - size > 0
           /\ stack' = Append(stack, [frm |-> TopFrame.frm - size, id |-> born + 1])
    /\ born' = born + 1
    /\ UNCHANGED <<memory, ctrl, stop, orders>>

Return ==
    /\ VMMoves
    /\ Len(stack) > 1
    /\ stack' = Front(stack)
    /\ UNCHANGED <<memory, ctrl, stop, born, orders>>

Store ==
    /\ VMMoves
    /\ \E a \in {0, TopFrame.frm} : memory' = [memory EXCEPT ![a] = 1 - @]
    /\ UNCHANGED <<stack, ctrl, stop, born, orders>>

-----------------------------------------------------------------------------
(* Controller.                                                             *)

Compare(a, op, b) == CASE op = "==" -> a = b
                       [] op = "!=" -> a # b
                       [] op = "<=" -> a <= b
                       [] op = ">=" -> a >= b
                       [] op = "<" -> a < b
                       [] op = ">" -> a > b

(* eval_condition: what cannot be resolved stops the VM.                   *)
EvalCondition(c) ==
    c.var = "global" => Compare(memory[0], c.op, c.n)

(* hit_passes: "%0" is never reached, what cannot be read always is.       *)
HitPasses(c, hits) ==
    IF c = NoCondition THEN TRUE
    ELSE IF c.op = "%" THEN c.n # 0 /\ hits % c.n = 0
    ELSE Compare(hits, c.op, c.n)

(* on_hit: the first breakpoint of the address; a condition that fails is  *)
(* no hit, the count is taken before its own condition, and a logpoint     *)
(* never pauses.                                                           *)
HitIndex(cip) == SelectInSeq(ctrl.bps, LAMBDA b : b.addr = cip)
OnHit(cip) ==
    LET i == HitIndex(cip)
        counts == i # 0 /\ EvalCondition(ctrl.bps[i].condition)
        bp == ctrl.bps[i]
        bps == IF counts THEN [ctrl.bps EXCEPT ![i].hits = @ + 1] ELSE ctrl.bps
        action == IF ~counts \/ ~HitPasses(bp.hitCondition, bps[i].hits) THEN "none"
                  ELSE IF bp.log THEN "log" ELSE "pause"
    IN  [action |-> action, bps |-> bps]

(* check_data_watches: the watches of frames that are gone are dropped - a *)
(* frame lives as long as its base is that of one - and the first of the   *)
(* others whose cell changed takes the new value and reports.  A watch     *)
(* keeps its place in the list that was set.                               *)
BaseLives(w) == w.base = 0 \/ w.base \in LiveBases
KeptWatches == [i \in {j \in DOMAIN ctrl.watches : BaseLives(ctrl.watches[j])} |-> ctrl.watches[i]]
Seen(w) == [w EXCEPT !.last = memory[w.addr]]
ChangedPlaces == {i \in DOMAIN KeptWatches : memory[KeptWatches[i].addr] # KeptWatches[i].last}
TakeAllChanges ==
    [hit |-> ChangedPlaces # {}, watches |-> [i \in DOMAIN KeptWatches |-> Seen(KeptWatches[i])]]
CheckDataWatches ==
    [hit |-> ChangedPlaces # {},
     watches |-> [i \in DOMAIN KeptWatches |->
                    IF i \in ChangedPlaces /\ \A j \in ChangedPlaces : i <= j
                    THEN Seen(KeptWatches[i]) ELSE KeptWatches[i]]]

ArrivedBelow(frm) == CASE ctrl.mode = "run" -> FALSE
                       [] ctrl.mode = "in" -> TRUE
                       [] ctrl.mode = "over" -> frm >= ctrl.stepFrame
                       [] ctrl.mode = "out" -> frm >= ctrl.stepFrame

(* should_stop, for the mode that is pending.                              *)
Arrived(frm) == CASE ctrl.mode = "run" -> FALSE
                  [] ctrl.mode = "in" -> TRUE
                  [] ctrl.mode = "over" -> frm >= ctrl.stepFrame
                  [] ctrl.mode = "out" -> frm > ctrl.stepFrame

(* hit_breakpoint, and what should_stop does when it stops.                *)
Started(c) == [c EXCEPT !.mode = "run", !.started = TRUE]

(* on_break.  `fails` is the verdict of the scan of the line.              *)
Line(cip, fails) ==
    /\ VMMoves
    /\ LET data == CheckDataWatches
           hit == OnHit(cip)
           seen == [ctrl EXCEPT !.watches = data.watches]
           passed == [seen EXCEPT !.bps = hit.bps]
       IN  \/ fails /\ stop' = "exception" /\ ctrl' = Started(ctrl)
           \/ ~fails /\ data.hit /\ stop' = "data breakpoint" /\ ctrl' = Started(seen)
           \/ /\ ~fails /\ ~data.hit /\ hit.action = "pause"
              /\ stop' = "breakpoint" /\ ctrl' = Started(passed)
           \/ /\ ~fails /\ ~data.hit /\ hit.action # "pause" /\ Arrived(TopFrame.frm)
              /\ stop' = (IF ctrl.started THEN "step" ELSE "entry")
              /\ ctrl' = Started(passed)
           \/ /\ ~fails /\ ~data.hit /\ hit.action # "pause" /\ ~Arrived(TopFrame.frm)
              /\ ctrl' = passed /\ UNCHANGED stop
    /\ UNCHANGED <<stack, memory, born, orders>>

-----------------------------------------------------------------------------
(* The orders of the editor, on the thread of the socket.                  *)

Order == orders < MaxOrders /\ orders' = orders + 1

(* The end of on_pause: continue, or a step relative to the frame the VM   *)
(* is in.                                                                  *)
RequestStep(mode) ==
    /\ ~IsRunning
    /\ ctrl' = IF mode = "run" THEN [ctrl EXCEPT !.mode = "run"]
               ELSE [ctrl EXCEPT !.mode = mode, !.stepFrame = TopFrame.frm,
                                 !.from = TopFrame.id]
    /\ stop' = Running
    /\ UNCHANGED <<stack, memory, born, moves, orders>>

(* set_breakpoints: the counts begin again.                                *)
SetBreakpoints ==
    /\ Order
    /\ \E list \in BreakpointLists :
           ctrl' = [ctrl EXCEPT !.bps =
               [i \in DOMAIN list |-> [addr |-> list[i].addr, condition |-> list[i].condition,
                         hitCondition |-> list[i].hitCondition,
                         log |-> list[i].log, hits |-> 0]]]
    /\ UNCHANGED <<stack, memory, stop, born, moves>>

(* resolve_data_watches: against the pause of the moment; without one,     *)
(* nothing resolves and the list is empty.  The global is cell 0.          *)
WatchOf(i) == [addr |-> stack[i].frm, base |-> stack[i].frm, owner |-> stack[i].id,
               last |-> memory[stack[i].frm]]
GlobalWatch == [addr |-> 0, base |-> 0, owner |-> 0, last |-> memory[0]]
SetDataBreakpoints ==
    /\ Order
    /\ \E list \in {<<>>, <<GlobalWatch>>} \union {<<WatchOf(i), GlobalWatch>> : i \in DOMAIN stack} :
           ctrl' = [ctrl EXCEPT !.watches = IF IsRunning THEN <<>> ELSE list]
    /\ UNCHANGED <<stack, memory, stop, born, moves>>

(* set_variable: a cell of a frame of the pause.                           *)
StoreVariable ==
    /\ ~IsRunning /\ Order
    /\ \E a \in {0} \union LiveBases : memory' = [memory EXCEPT ![a] = 1 - @]
    /\ UNCHANGED <<stack, ctrl, stop, born, moves>>

StepsNext ==
    \/ Call \/ Return \/ Store
    \/ \E cip \in CodeAddrs, fails \in BOOLEAN : Line(cip, fails)
    \/ \E mode \in {"run", "in", "over", "out"} : RequestStep(mode)
    \/ SetBreakpoints \/ SetDataBreakpoints \/ StoreVariable

StepsSpec == StepsInit /\ [][StepsNext]_stepsVars

-----------------------------------------------------------------------------
LineStep == moves' # moves /\ UNCHANGED <<stack, memory>>

(* A step ends where its frame says, whatever the VM calls and returns     *)
(* from, and whatever else stops it in between.  It never stops in a       *)
(* function the frame called while that frame lives, and a step out never  *)
(* while it lives; it never passes a line of the frame itself (a step out  *)
(* apart) or of one that called it; and no step survives a stop.           *)
StepsEndInReach ==
    [][LineStep =>
        /\ stop' = "step" =>
               /\ ctrl.mode # "run"
               /\ ctrl.mode = "over" /\ ctrl.from \in LiveIds => TopFrame.id <= ctrl.from
               /\ ctrl.mode = "out" => ctrl.from \notin LiveIds
        /\ stop' = Running =>
               /\ ctrl.mode # "in"
               /\ ctrl.mode = "over" => TopFrame.id > ctrl.from
               /\ ctrl.mode = "out" => TopFrame.id >= ctrl.from
        /\ stop' # Running => ctrl'.mode = "run"]_stepsVars

(* A watched cell that changed is never passed in silence.  The watch of a *)
(* frame that lives is not dropped, and a line goes by only when its cell  *)
(* has the value last reported; a stop at a data breakpoint takes one      *)
(* change and leaves the others to be reported.                            *)
OwnerLives(w) == w.owner = 0 \/ w.owner \in LiveIds
NoChangePassesUnseen ==
    [][LineStep =>
        LET before == ctrl.watches
            after == ctrl'.watches
            taken == {i \in DOMAIN after : after[i] # before[i]}
        IN  /\ DOMAIN after \subseteq DOMAIN before
            /\ \A i \in DOMAIN before : OwnerLives(before[i]) =>
                   /\ i \in DOMAIN after
                   /\ stop' \notin {"exception", "data breakpoint"} => memory[before[i].addr] = before[i].last
            /\ \A i \in taken : after[i] = Seen(before[i])
            /\ Cardinality(taken) = IF stop' = "data breakpoint" THEN 1 ELSE 0]_stepsVars
=============================================================================
