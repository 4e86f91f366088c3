----------------------------- MODULE RuntimeScan -----------------------------
(***************************************************************************)
(* scan_line: before the VM executes a line, the plugin runs through its   *)
(* instructions with a copy of the registers and says whether one of them  *)
(* will abort.  Beside it, the VM itself, which executes the same line: a  *)
(* step is one instruction, as the scan takes it and as the VM does.       *)
(*                                                                         *)
(* Cells are one unit apart.  An instruction stands for its family: load   *)
(* for load.pri and load.s.pri, const for const and zero, stor for those   *)
(* that write to the cell of their operand, other for the ones the scan    *)
(* does not follow, jump for those that leave the line.                    *)
(***************************************************************************)
EXTENDS Integers, Sequences, SequencesExt

CONSTANTS Memory,     \* the data segment when the line begins
          Frm, Stk, Hea, Hlw, Stp, Margin, \* frame, stack, heap and its low mark
          Pri, Alt,   \* the registers when the line begins
          OperandsOf(_), \* what an instruction of a family may have as its operand
          Results,    \* what an instruction the scan does not follow computes
          MaxSteps    \* the instructions the scan looks at; it foresees nothing of
                      \* those behind them

Families == {"load", "loadalt", "const", "constalt", "move", "movealt", "xchg",
        "addr", "idxaddr", "loadi", "stori", "stor", "lidx", "push", "pushc", "pushes",
        "pop", "popalt", "stack", "heap", "proc", "call", "jump", "other",
        "div", "divalt", "bounds"}

ASSUME MachineAssumption ==
    /\ Memory \in [DOMAIN Memory -> Int] /\ DOMAIN Memory \subseteq Int
    /\ \A c \in {Frm, Stk, Hea, Hlw, Stp, Margin, Pri, Alt} : c \in Int
    /\ \A o \in Families : OperandsOf(o) \subseteq Int
    /\ Results \subseteq Int
    /\ MaxSteps \in Nat

VARIABLES steps,    \* the instructions so far
          scan,     \* the scan: registers, stack and heap, verdict
          machine,  \* the VM
          followed  \* whether the scan was exact so far

scanVars == <<steps, scan, machine, followed>>

CellOf(mem, a) == IF a \in DOMAIN mem THEN mem[a] ELSE 0
InData(a) == a \in DOMAIN Memory

(* VERIFYADDRESS: the gap between heap and stack, or what is not below the *)
(* top, negative addresses among them since they are compared unsigned.    *)
MemInvalid(a, hea, stk) == (a >= hea /\ a < stk) \/ a < 0 \/ a >= Stp
Above(a, limit) == a < 0 \/ a > limit

Collides(hea, stk) == hea + Margin > stk

-----------------------------------------------------------------------------
(* What the scan knows: the registers and whether they are exact, the      *)
(* stack and heap while nothing unknown touched them (reliable), and what  *)
(* was pushed in this line.  What the code does not keep: the cells that   *)
(* were pushed to (covered); `guessed`, that it took something for exact   *)
(* that need not be - memory after a store, a cell pushed to, a register   *)
(* pushed that was not exact, what was pushed once the stack moved under   *)
(* it; and `sound`, that the value the verdict rests on is the one the VM  *)
(* will have.                                                              *)
LineStart == [pri |-> Pri, priKnown |-> TRUE, alt |-> Alt, altKnown |-> TRUE,
          stk |-> Stk, hea |-> Hea, reliable |-> TRUE, pushed |-> <<>>,
          covered |-> {}, guessed |-> FALSE, error |-> "none", sound |-> TRUE]

(* The check before the effect.  Those of the division and of the bounds   *)
(* use the register whether it is exact or not.                            *)
Fault(s, e, known) == [s EXCEPT !.error = e, !.sound = known /\ s.reliable /\ ~s.guessed]
Foresee(s, i) ==
    LET memory(a) == MemInvalid(a, s.hea, s.stk)
    IN  CASE i.op = "div" /\ s.alt = 0 -> Fault(s, "divide", s.altKnown)
          [] i.op = "divalt" /\ s.pri = 0 -> Fault(s, "divide", s.priKnown)
          [] i.op = "bounds" /\ Above(s.pri, i.n) -> Fault(s, "bounds", s.priKnown)
          [] i.op = "loadi" /\ s.reliable /\ s.priKnown /\ memory(s.pri) ->
                 Fault(s, "memory", TRUE)
          [] i.op = "stori" /\ s.reliable /\ s.altKnown /\ memory(s.alt) ->
                 Fault(s, "memory", TRUE)
          [] i.op = "lidx" /\ s.reliable /\ s.priKnown /\ s.altKnown
                 /\ memory(s.pri + s.alt) -> Fault(s, "memory", TRUE)
          [] OTHER -> s

SetPri(s, v, known) == [s EXCEPT !.pri = v, !.priKnown = known]
SetAlt(s, v, known) == [s EXCEPT !.alt = v, !.altKnown = known]
Pushing(s, v) == [s EXCEPT !.pushed = Append(@, v), !.stk = @ - 1,
                           !.covered = @ \union {s.stk - 1}]

(* The cell of the operand, as it was when the line began.                 *)
Guessing(s, a) == [s EXCEPT !.guessed = @ \/ a \in s.covered]
Data(a, otherwise) == IF InData(a) THEN Memory[a] ELSE otherwise

OldestPushed(s) == IF s.pushed = <<>> THEN <<>> ELSE Head(s.pushed)

(* A pop of what was pushed before the line leaves the register as it was. *)
Popped(s) == IF s.pushed = <<>> THEN <<>> ELSE Last(s.pushed)
Popping(s) == [s EXCEPT !.pushed = IF @ = <<>> THEN @ ELSE Front(@), !.stk = @ + 1]

(* The stack moves, and what was pushed is no longer on top of it.         *)
Moving(s, n) == [s EXCEPT !.stk = @ + n, !.guessed = @ \/ s.pushed # <<>>]

Overflow(s) ==
    IF s.reliable /\ Collides(s.hea, s.stk) THEN Fault(s, "stack", TRUE) ELSE s

Effect(s, i) ==
    CASE i.op = "load" -> SetPri(Guessing(s, i.n), Data(i.n, s.pri), InData(i.n))
      [] i.op = "loadalt" -> SetAlt(Guessing(s, i.n), Data(i.n, s.alt), InData(i.n))
      [] i.op = "const" -> SetPri(s, i.n, TRUE)
      [] i.op = "constalt" -> SetAlt(s, i.n, TRUE)
      [] i.op = "move" -> SetPri(s, s.alt, s.altKnown)
      [] i.op = "movealt" -> SetAlt(s, s.pri, s.priKnown)
      [] i.op = "xchg" -> SetPri(SetAlt(s, s.pri, s.priKnown), s.alt, s.altKnown)
      [] i.op = "addr" -> SetPri(s, Frm + i.n, TRUE)
      [] i.op = "idxaddr" -> SetPri(s, s.pri + s.alt, s.priKnown /\ s.altKnown)
      [] i.op \in {"loadi", "lidx"} -> SetPri(s, Data(s.pri, s.pri), FALSE)
      [] i.op = "push" -> [Pushing(s, <<s.pri>>) EXCEPT !.guessed = @ \/ ~s.priKnown]
      [] i.op = "pushc" -> Pushing(s, <<i.n>>)
      [] i.op = "pushes" -> Pushing(Pushing(s, <<>>), <<>>)
      [] i.op = "pop" ->
             LET v == Popped(s)
             IN  SetPri(Popping(s), IF v = <<>> THEN s.pri ELSE v[1], v # <<>>)
      [] i.op = "popalt" ->
             LET v == Popped(s)
             IN  SetAlt(Popping(s), IF v = <<>> THEN s.alt ELSE v[1], v # <<>>)
      [] i.op = "stack" -> Overflow(Moving(SetAlt(s, s.stk, TRUE), i.n))
      [] i.op = "heap" ->
             LET t == [SetAlt(s, s.hea, TRUE) EXCEPT !.hea = @ + i.n]
             IN  IF Overflow(t).error = "none" /\ t.reliable /\ t.hea < Hlw
                 THEN Fault(t, "heap", TRUE) ELSE Overflow(t)
      [] i.op = "proc" ->
             Overflow([Moving(s, -1) EXCEPT !.covered = @ \union {s.stk - 1}])
      [] i.op = "call" ->
             [Overflow([s EXCEPT !.stk = @ - 2]) EXCEPT !.reliable = FALSE, !.stk = s.stk]
      [] i.op = "jump" -> [s EXCEPT !.reliable = FALSE, !.priKnown = FALSE, !.altKnown = FALSE]
      [] i.op \in {"stori", "stor"} ->
             [s EXCEPT !.priKnown = FALSE, !.altKnown = FALSE, !.guessed = TRUE]
      [] OTHER -> [s EXCEPT !.priKnown = FALSE, !.altKnown = FALSE]

Scanned(s, i) == LET c == Foresee(s, i) IN IF c.error # "none" THEN c ELSE Effect(s, i)

-----------------------------------------------------------------------------
(* The VM of the AMX, until it leaves the line or aborts.                  *)
Registers == [pri |-> Pri, alt |-> Alt, stk |-> Stk, hea |-> Hea, mem |-> Memory,
              error |-> "none", left |-> FALSE]

Written(mem, a, v) == [c \in DOMAIN mem \union {a} |-> IF c = a THEN v ELSE mem[c]]
VMPush(m, v) == [m EXCEPT !.stk = @ - 1, !.mem = Written(@, m.stk - 1, v)]
Aborts(m, e) == [m EXCEPT !.error = e]
Margins(m) == IF Collides(m.hea, m.stk) THEN Aborts(m, "stack") ELSE m

(* An instruction with what it computes when the scan does not follow it.  *)
Execute(m, i, p, a) ==
    LET invalid(at) == MemInvalid(at, m.hea, m.stk)
    IN  CASE i.op = "load" -> [m EXCEPT !.pri = CellOf(m.mem, i.n)]
          [] i.op = "loadalt" -> [m EXCEPT !.alt = CellOf(m.mem, i.n)]
          [] i.op = "const" -> [m EXCEPT !.pri = i.n]
          [] i.op = "constalt" -> [m EXCEPT !.alt = i.n]
          [] i.op = "move" -> [m EXCEPT !.pri = m.alt]
          [] i.op = "movealt" -> [m EXCEPT !.alt = m.pri]
          [] i.op = "xchg" -> [m EXCEPT !.pri = m.alt, !.alt = m.pri]
          [] i.op = "addr" -> [m EXCEPT !.pri = Frm + i.n]
          [] i.op = "idxaddr" -> [m EXCEPT !.pri = m.pri + m.alt]
          [] i.op = "loadi" -> IF invalid(m.pri) THEN Aborts(m, "memory")
                               ELSE [m EXCEPT !.pri = CellOf(m.mem, m.pri)]
          [] i.op = "stori" -> IF invalid(m.alt) THEN Aborts(m, "memory")
                               ELSE [m EXCEPT !.mem = Written(@, m.alt, m.pri)]
          [] i.op = "stor" -> [m EXCEPT !.mem = Written(@, i.n, m.pri)]
          [] i.op = "lidx" -> IF invalid(m.pri + m.alt) THEN Aborts(m, "memory")
                              ELSE [m EXCEPT !.pri = CellOf(m.mem, m.pri + m.alt)]
          [] i.op = "push" -> VMPush(m, m.pri)
          [] i.op = "pushc" -> VMPush(m, i.n)
          [] i.op = "pushes" -> VMPush(VMPush(m, p), a)
          [] i.op = "pop" -> [m EXCEPT !.pri = CellOf(m.mem, m.stk), !.stk = @ + 1]
          [] i.op = "popalt" -> [m EXCEPT !.alt = CellOf(m.mem, m.stk), !.stk = @ + 1]
          [] i.op = "stack" -> Margins([m EXCEPT !.alt = m.stk, !.stk = @ + i.n])
          [] i.op = "heap" ->
                 LET t == [m EXCEPT !.alt = m.hea, !.hea = @ + i.n]
                 IN  IF Margins(t).error # "none" THEN Margins(t)
                     ELSE IF t.hea < Hlw THEN Aborts(t, "heap") ELSE t
          [] i.op = "proc" -> Margins(VMPush(m, Frm))
          [] i.op = "call" -> [Margins(VMPush(VMPush(m, p), Frm)) EXCEPT !.left = TRUE]
          [] i.op = "jump" -> [m EXCEPT !.left = TRUE]
          [] i.op = "div" /\ m.alt = 0 -> Aborts(m, "divide")
          [] i.op = "divalt" /\ m.pri = 0 -> Aborts(m, "divide")
          [] i.op = "bounds" -> IF Above(m.pri, i.n) THEN Aborts(m, "bounds") ELSE m
          [] OTHER -> [m EXCEPT !.pri = p, !.alt = a]

-----------------------------------------------------------------------------
ScanInit == /\ steps = 0
            /\ scan = LineStart
            /\ machine = Registers
            /\ followed = TRUE

Exact(s) == s.reliable /\ s.priKnown /\ s.altKnown /\ ~s.guessed

(* The next instruction of the line, while the scan has found nothing.     *)
Instruction(i) ==
    /\ steps < MaxSteps /\ scan.error = "none"
    /\ steps' = steps + 1
    /\ scan' = Scanned(scan, i)
    /\ \E p, a \in Results :
          machine' = IF machine.error # "none" \/ machine.left THEN machine
                     ELSE Execute(machine, i, p, a)
    /\ followed' = (followed /\ Exact(scan))

ScanNext == \E o \in Families : \E n \in OperandsOf(o) : Instruction([op |-> o, n |-> n])

ScanSpec == ScanInit /\ [][ScanNext]_scanVars

(* A line the scan announces as failing fails, if it reached its verdict   *)
(* with exact registers, before anything left the line and without having  *)
(* guessed.  And an abort it does not miss, nor misname, when it was exact *)
(* up to there.                                                            *)
PredictionsAreRight ==
    /\ scan.error # "none" /\ scan.sound => machine.error # "none"
    /\ followed /\ machine.error # "none" => scan.error = machine.error
=============================================================================
