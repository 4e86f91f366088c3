--------------------------- MODULE Workbench_proofs ---------------------------
(***************************************************************************)
(* What the debugger says of a program is so.  The steps of the VM, for    *)
(* any depth of the stack, any number of moves and of orders of the        *)
(* editor, and any breakpoints and watches (StepControl); the scan of a    *)
(* line, for any data, registers and operands, instruction by instruction  *)
(* (RuntimeScan); and, with the panel (DebugPanel_proofs), the workbench   *)
(* they stand on.                                                          *)
(***************************************************************************)
EXTENDS Workbench, DebugPanel_proofs, FiniteSetTheorems

-----------------------------------------------------------------------------
(* Where a step ends (StepControl).                                        *)

Frames == [frm : 1..Top, id : Nat]
Modes == {"run", "in", "over", "out"}

(* Frames go down as they get younger.                                     *)
StackInv ==
    /\ stack \in Seq(Frames) /\ stack # <<>>
    /\ born \in Nat
    /\ \A i \in DOMAIN stack : stack[i].id <= born /\ stack[i].id # 0
    /\ \A i, j \in DOMAIN stack :
          i < j => stack[j].frm < stack[i].frm /\ stack[i].id < stack[j].id

MemoryInv == memory \in [Cells -> Int] /\ moves \in Nat

ControlInv ==
    /\ DOMAIN ctrl = DOMAIN Fresh
    /\ ctrl.mode \in Modes
    /\ ctrl.stepFrame \in Int /\ ctrl.from \in Nat

(* What is left of the stack of the order: the frame of the step has its   *)
(* base, those that called it are above.  Whoever came later is younger.   *)
StepInv ==
    /\ ctrl.from <= born
    /\ ctrl.mode # "run" =>
          \A i \in DOMAIN stack :
             /\ stack[i].id = ctrl.from => stack[i].frm = ctrl.stepFrame
             /\ stack[i].id < ctrl.from => stack[i].frm > ctrl.stepFrame

Inv == StackInv /\ MemoryInv /\ ControlInv /\ StepInv

(* The top frame is the youngest and the lowest.                           *)
LEMMA TopIsLast ==
    ASSUME StackInv, Top \in Nat
    PROVE  /\ TopFrame = stack[Len(stack)]
           /\ Len(stack) \in DOMAIN stack /\ TopFrame \in Frames
           /\ \A i \in DOMAIN stack : TopFrame.frm <= stack[i].frm /\ stack[i].id <= TopFrame.id
<1>1. Len(stack) \in Nat /\ DOMAIN stack = 1..Len(stack) /\ Len(stack) # 0
  BY DEF StackInv
<1>2. Len(stack) \in DOMAIN stack
  BY <1>1
<1>3. TopFrame = stack[Len(stack)] /\ stack[Len(stack)] \in Frames
  BY <1>2 DEF TopFrame, Last, StackInv
<1>4. ASSUME NEW i \in DOMAIN stack
      PROVE  TopFrame.frm <= stack[i].frm /\ stack[i].id <= TopFrame.id
  <2>1. stack[i] \in Frames
    BY DEF StackInv
  <2>2. CASE i = Len(stack)
    BY <2>2, <2>1, <1>3 DEF Frames
  <2>3. CASE i < Len(stack)
    BY <2>3, <2>1, <1>2, <1>3 DEF StackInv, Frames
  <2>4. QED
    BY <1>1, <2>2, <2>3
<1>5. QED
  BY <1>2, <1>3, <1>4

(* At first there is one frame and no order.                               *)
LEMMA InitInv == ASSUME Top \in Nat \ {0}, StepsInit PROVE Inv
<1>1. StackInv
  BY DEF StepsInit, StackInv, Frames
<1>2. MemoryInv /\ ControlInv
  BY DEF StepsInit, MemoryInv, ControlInv, Fresh, Modes, Cells
<1>3. StepInv
  BY DEF StepsInit, StepInv, Fresh
<1>4. QED
  BY <1>1, <1>2, <1>3 DEF Inv

(* A call: the new frame is below all others, and younger than the step.   *)
LEMMA CallInv == ASSUME Top \in Nat, Inv, Call PROVE Inv'
<1> DEFINE n == Len(stack)
<1>1. PICK size \in 1..2 : /\ TopFrame.frm - size > 0
                           /\ stack' = Append(stack, [frm |-> TopFrame.frm - size, id |-> born + 1])
  BY DEF Call
<1> DEFINE f == [frm |-> TopFrame.frm - size, id |-> born + 1]
<1>2. /\ TopFrame \in Frames
      /\ \A i \in DOMAIN stack : TopFrame.frm <= stack[i].frm /\ stack[i].id <= TopFrame.id
  BY TopIsLast DEF Inv
<1>3. f \in Frames /\ f.frm < TopFrame.frm /\ f.id = born + 1 /\ born \in Nat
  BY <1>1, <1>2 DEF Frames, Inv, StackInv
<1>4. stack \in Seq(Frames) /\ n \in Nat /\ DOMAIN stack = 1..n
  BY DEF Inv, StackInv
<1>5. /\ stack' \in Seq(Frames) /\ DOMAIN stack' = 1..(n + 1)
      /\ stack'[n + 1] = f /\ \A i \in 1..n : stack'[i] = stack[i]
  <2> HIDE DEF f
  <2>1. stack' = Append(stack, f)
    BY <1>1 DEF f
  <2>2. QED
    BY <2>1, <1>3, <1>4
<1>6. \A i \in 1..n : stack[i] \in Frames
  BY <1>4
<1> HIDE DEF f, n
<1>7. UNCHANGED <<memory, ctrl>> /\ born' = born + 1 /\ moves' = moves + 1
  BY DEF Call, VMMoves
<1>8. StackInv'
  <2>1. stack' # <<>>
    BY <1>4, <1>5
  <2>2. \A i \in DOMAIN stack' : stack'[i].id <= born' /\ stack'[i].id # 0
    <3>1. \A i \in 1..n : stack[i].id <= born /\ stack[i].id \in Nat \ {0}
      BY <1>4, <1>6 DEF Inv, StackInv, Frames
    <3>2. \A i \in 1..(n + 1) : i = n + 1 \/ i \in 1..n
      BY <1>4
    <3>3. QED
      BY <3>1, <3>2, <1>3, <1>5, <1>7
  <2>3. ASSUME NEW i \in DOMAIN stack', NEW j \in DOMAIN stack', i < j
        PROVE  stack'[j].frm < stack'[i].frm /\ stack'[i].id < stack'[j].id
    <3>1. i \in 1..n /\ j \in 1..(n + 1)
      BY <2>3, <1>4, <1>5
    <3>2. CASE j \in 1..n
      BY <3>1, <3>2, <2>3, <1>4, <1>5 DEF Inv, StackInv
    <3>3. CASE j = n + 1
      BY <3>1, <3>3, <1>2, <1>3, <1>4, <1>5, <1>6 DEF Inv, StackInv, Frames
    <3>4. QED
      BY <3>1, <3>2, <3>3, <1>4
  <2>4. QED
    BY <2>1, <2>2, <2>3, <1>3, <1>5, <1>7 DEF StackInv
<1>9. MemoryInv' /\ ControlInv'
  BY <1>7 DEF Inv, MemoryInv, ControlInv
<1>10. StepInv'
  BY <1>3, <1>4, <1>5, <1>7 DEF Inv, StepInv, ControlInv
<1>11. QED
  BY <1>8, <1>9, <1>10 DEF Inv

(* A return: the frames that are left keep their order.                    *)
LEMMA ReturnInv == ASSUME Top \in Nat, Inv, Return PROVE Inv'
<1> DEFINE n == Len(stack)
<1>1. stack \in Seq(Frames) /\ n \in Nat /\ n > 1 /\ DOMAIN stack = 1..n
  BY DEF Inv, StackInv, Return
<1>2. UNCHANGED <<memory, ctrl, born>> /\ moves' = moves + 1
  BY DEF Return, VMMoves
<1>3. /\ stack' \in Seq(Frames) /\ DOMAIN stack' = 1..(n - 1)
      /\ \A i \in 1..(n - 1) : stack'[i] = stack[i]
  BY <1>1 DEF Return, Front
<1> HIDE DEF n
<1>4. StackInv'
  BY <1>1, <1>2, <1>3 DEF Inv, StackInv
<1>5. MemoryInv' /\ ControlInv' /\ StepInv'
  BY <1>1, <1>2, <1>3 DEF Inv, MemoryInv, ControlInv, StepInv
<1>6. QED
  BY <1>4, <1>5 DEF Inv

(* A line: the step goes on as it was, or is over.                         *)
LEMMA LineInv ==
    ASSUME Top \in Nat, Inv, NEW cip, NEW fails, Line(cip, fails)
    PROVE  Inv'
<1>1. UNCHANGED <<stack, memory, born>> /\ moves' = moves + 1
  BY DEF Line, VMMoves
<1>2. /\ DOMAIN ctrl' = DOMAIN ctrl
      /\ ctrl'.mode = "run" \/ ctrl'.mode = ctrl.mode
      /\ ctrl'.stepFrame = ctrl.stepFrame /\ ctrl'.from = ctrl.from
  BY DEF Line, Started, Inv, ControlInv, Fresh
<1>3. QED
  BY <1>1, <1>2 DEF Inv, StackInv, MemoryInv, ControlInv, StepInv, Modes

(* The order of a step: relative to the top frame.                         *)
LEMMA ResumeInv ==
    ASSUME Top \in Nat, Inv, NEW mode \in Modes, RequestStep(mode)
    PROVE  Inv'
<1>1. UNCHANGED <<stack, memory, born, moves>>
  BY DEF RequestStep
<1>2. /\ TopFrame = stack[Len(stack)] /\ Len(stack) \in DOMAIN stack /\ TopFrame \in Frames
      /\ \A i \in DOMAIN stack : TopFrame.frm <= stack[i].frm /\ stack[i].id <= TopFrame.id
  BY TopIsLast DEF Inv
<1>3. CASE mode = "run"
  <2>1. DOMAIN ctrl' = DOMAIN ctrl /\ ctrl'.mode = "run"
        /\ ctrl'.stepFrame = ctrl.stepFrame /\ ctrl'.from = ctrl.from
    BY <1>3 DEF RequestStep, Inv, ControlInv, Fresh
  <2>2. QED
    BY <2>1, <1>1 DEF Inv, StackInv, MemoryInv, ControlInv, StepInv, Modes
<1>4. CASE mode # "run"
  <2>1. DOMAIN ctrl' = DOMAIN ctrl /\ ctrl'.mode = mode
        /\ ctrl'.stepFrame = TopFrame.frm /\ ctrl'.from = TopFrame.id
    BY <1>4 DEF RequestStep, Inv, ControlInv, Fresh
  <2>2. StackInv' /\ MemoryInv' /\ ControlInv'
    BY <2>1, <1>1, <1>2 DEF Inv, StackInv, MemoryInv, ControlInv, Frames
  <2>3. TopFrame.id <= born
    BY <1>2 DEF Inv, StackInv
  <2>4. ASSUME NEW i \in DOMAIN stack
        PROVE  /\ stack[i].id = TopFrame.id => stack[i].frm = TopFrame.frm
               /\ stack[i].id < TopFrame.id => stack[i].frm > TopFrame.frm
    <3>1. DOMAIN stack = 1..Len(stack) /\ Len(stack) \in Nat /\ stack[i] \in Frames
      BY DEF Inv, StackInv
    <3>2. CASE i = Len(stack)
      BY <3>2, <1>2 DEF Frames
    <3>3. CASE i < Len(stack)
      BY <3>1, <3>3, <1>2 DEF Inv, StackInv, Frames
    <3>4. QED
      BY <3>1, <3>2, <3>3
  <2>5. StepInv'
    BY <2>1, <2>3, <2>4, <1>1 DEF StepInv
  <2>6. QED
    BY <2>2, <2>5 DEF Inv
<1>5. QED
  BY <1>3, <1>4

(* What leaves frames and step alone.                                      *)
LEMMA OtherInv ==
    ASSUME Top \in Nat, Inv, Store \/ SetBreakpoints \/ SetDataBreakpoints \/ StoreVariable
    PROVE  Inv'
<1>1. UNCHANGED <<stack, born>> /\ moves' \in Nat
  BY DEF Store, SetBreakpoints, SetDataBreakpoints, StoreVariable, VMMoves, Inv, MemoryInv
<1>2. /\ DOMAIN ctrl' = DOMAIN ctrl /\ ctrl'.mode = ctrl.mode
      /\ ctrl'.stepFrame = ctrl.stepFrame /\ ctrl'.from = ctrl.from
  BY DEF Store, SetBreakpoints, SetDataBreakpoints, StoreVariable, Inv, ControlInv, Fresh
<1>3. memory' \in [Cells -> Int]
  <2>1. memory \in [Cells -> Int] /\ 0 \in Cells
    BY DEF Inv, MemoryInv, Cells
  <2>2. \A a \in Cells : [memory EXCEPT ![a] = 1 - @] \in [Cells -> Int]
    BY <2>1
  <2>3. TopFrame.frm \in Cells
    BY TopIsLast DEF Inv, Frames, Cells
  <2>4. LiveBases \subseteq Cells
    <3>1. \A i \in DOMAIN stack : stack[i] \in Frames
      BY DEF Inv, StackInv
    <3>2. \A f \in Frames : f.frm \in Cells
      BY DEF Frames, Cells
    <3>3. QED
      BY <3>1, <3>2 DEF LiveBases
  <2>5. QED
    BY <2>1, <2>2, <2>3, <2>4 DEF Store, SetBreakpoints, SetDataBreakpoints, StoreVariable
<1>4. QED
  BY <1>1, <1>2, <1>3 DEF Inv, StackInv, MemoryInv, ControlInv, StepInv

(* Every move of the VM and every order of the editor keeps it.            *)
LEMMA NextInv == ASSUME Top \in Nat, Inv, [StepsNext]_stepsVars PROVE Inv'
<1>1. CASE UNCHANGED stepsVars
  BY <1>1 DEF stepsVars, Inv, StackInv, MemoryInv, ControlInv, StepInv
<1>2. CASE StepsNext
  BY <1>2, CallInv, ReturnInv, LineInv, ResumeInv, OtherInv DEF StepsNext, Modes
<1>3. QED
  BY <1>1, <1>2

(* In a line, the base of the top frame says where the step is: not below  *)
(* the frame it was ordered in when it is not younger, and the converse as *)
(* long as that frame lives.                                               *)
LEMMA BaseTells ==
    ASSUME Top \in Nat, Inv, ctrl.mode # "run"
    PROVE  /\ TopFrame.frm >= ctrl.stepFrame /\ ctrl.from \in LiveIds => TopFrame.id <= ctrl.from
           /\ TopFrame.frm > ctrl.stepFrame => ctrl.from \notin LiveIds
           /\ TopFrame.frm < ctrl.stepFrame => TopFrame.id > ctrl.from
           /\ TopFrame.frm <= ctrl.stepFrame => TopFrame.id >= ctrl.from
<1>1. /\ TopFrame = stack[Len(stack)] /\ Len(stack) \in DOMAIN stack /\ TopFrame \in Frames
      /\ \A i \in DOMAIN stack : TopFrame.frm <= stack[i].frm /\ stack[i].id <= TopFrame.id
  BY TopIsLast DEF Inv
<1>2. ctrl.from \in Nat /\ ctrl.stepFrame \in Int /\ TopFrame.id \in Nat /\ TopFrame.frm \in Int
  BY <1>1 DEF Inv, ControlInv, Frames
<1>3. /\ TopFrame.id = ctrl.from => TopFrame.frm = ctrl.stepFrame
      /\ TopFrame.id < ctrl.from => TopFrame.frm > ctrl.stepFrame
  BY <1>1 DEF Inv, StepInv
<1>4. ASSUME ctrl.from \in LiveIds
      PROVE  TopFrame.frm <= ctrl.stepFrame
             /\ (TopFrame.frm >= ctrl.stepFrame => TopFrame.id <= ctrl.from)
  <2>1. PICK i \in DOMAIN stack : stack[i].id = ctrl.from
    BY <1>4 DEF LiveIds
  <2>2. stack[i].frm = ctrl.stepFrame
    BY <2>1 DEF Inv, StepInv
  <2>3. i = Len(stack) \/ TopFrame.frm < stack[i].frm
    BY <1>1 DEF Inv, StackInv
  <2>4. QED
    BY <2>1, <2>2, <2>3, <1>1, <1>2
<1>5. QED
  BY <1>2, <1>3, <1>4

(* A move that leaves stack and memory alone is a line.                    *)
LEMMA OnlyLines ==
    ASSUME Top \in Nat, Inv, StepsNext, LineStep
    PROVE  \E cip \in CodeAddrs, fails \in BOOLEAN : Line(cip, fails)
<1>1. ~Call /\ ~Return
  <2>1. stack \in Seq(Frames) /\ stack' = stack
    BY DEF Inv, StackInv, LineStep
  <2>2. QED
    BY <2>1 DEF Call, Return, Front
<1>2. ~Store
  <2>1. memory \in [Cells -> Int] /\ memory' = memory /\ 0 \in Cells /\ TopFrame.frm \in Cells
    BY TopIsLast DEF Inv, MemoryInv, LineStep, Cells, Frames
  <2>2. \A a \in Cells : [memory EXCEPT ![a] = 1 - @] # memory
    BY <2>1
  <2>3. QED
    BY <2>1, <2>2 DEF Store
<1>3. moves' # moves
  BY DEF LineStep
<1>4. QED
  BY <1>1, <1>2, <1>3 DEF StepsNext, RequestStep, SetBreakpoints, SetDataBreakpoints, StoreVariable

(* A step ends where its frame says (should_stop of control.rs), for every *)
(* stack and every program: the inequality of bases is what the code has,  *)
(* and it is enough although a base comes back.                            *)
THEOREM StepsEndInReachCorrect == StepsSpec => StepsEndInReach
<1> USE TopAssumption
<1>1. StepsInit => Inv
  BY InitInv
<1>2. Inv /\ [StepsNext]_stepsVars => Inv'
  BY NextInv
<1> DEFINE Step ==
      LineStep =>
        /\ stop' = "step" =>
               /\ ctrl.mode # "run"
               /\ ctrl.mode = "over" /\ ctrl.from \in LiveIds => TopFrame.id <= ctrl.from
               /\ ctrl.mode = "out" => ctrl.from \notin LiveIds
        /\ stop' = Running =>
               /\ ctrl.mode # "in"
               /\ ctrl.mode = "over" => TopFrame.id > ctrl.from
               /\ ctrl.mode = "out" => TopFrame.id >= ctrl.from
        /\ stop' # Running => ctrl'.mode = "run"
<1>3. Inv /\ [StepsNext]_stepsVars => [Step]_stepsVars
  <2> SUFFICES ASSUME Inv, StepsNext, LineStep
               PROVE  Step
    OBVIOUS
  <2>1. PICK cip \in CodeAddrs, fails \in BOOLEAN : Line(cip, fails)
    BY OnlyLines
  <2>2. "mode" \in DOMAIN ctrl /\ ctrl.mode \in Modes
    BY DEF Inv, ControlInv, Fresh
  <2>3. ctrl.stepFrame \in Int /\ TopFrame.frm \in Int
    BY TopIsLast DEF Inv, ControlInv, Frames
  <2>4. /\ stop' # Running => ctrl'.mode = "run"
        /\ stop' = "step" => Arrived(TopFrame.frm)
        /\ stop' = Running => ~Arrived(TopFrame.frm)
    BY <2>1, <2>2 DEF Line, Started, Running, VMMoves, IsRunning, Inv, ControlInv, Fresh
  <2>5. /\ ctrl.mode = "run" => ~Arrived(TopFrame.frm)
        /\ ctrl.mode = "in" => Arrived(TopFrame.frm)
        /\ ctrl.mode = "over" => (Arrived(TopFrame.frm) <=> TopFrame.frm >= ctrl.stepFrame)
        /\ ctrl.mode = "out" => (Arrived(TopFrame.frm) <=> TopFrame.frm > ctrl.stepFrame)
    BY DEF Arrived
  <2>6. ctrl.mode # "run" =>
           /\ TopFrame.frm >= ctrl.stepFrame /\ ctrl.from \in LiveIds => TopFrame.id <= ctrl.from
           /\ TopFrame.frm > ctrl.stepFrame => ctrl.from \notin LiveIds
           /\ ~(TopFrame.frm >= ctrl.stepFrame) => TopFrame.id > ctrl.from
           /\ ~(TopFrame.frm > ctrl.stepFrame) => TopFrame.id >= ctrl.from
    BY <2>3, BaseTells
  <2>7. ASSUME stop' = "step"
        PROVE  /\ ctrl.mode # "run"
               /\ ctrl.mode = "over" /\ ctrl.from \in LiveIds => TopFrame.id <= ctrl.from
               /\ ctrl.mode = "out" => ctrl.from \notin LiveIds
    BY <2>4, <2>5, <2>6, <2>7
  <2>8. ASSUME stop' = Running
        PROVE  /\ ctrl.mode # "in"
               /\ ctrl.mode = "over" => TopFrame.id > ctrl.from
               /\ ctrl.mode = "out" => TopFrame.id >= ctrl.from
    BY <2>4, <2>5, <2>6, <2>8
  <2>9. QED
    BY <2>4, <2>7, <2>8
<1>4. QED
  BY <1>1, <1>2, <1>3, PTL DEF StepsSpec, StepsEndInReach

-----------------------------------------------------------------------------
(* A watch knows the base of its frame: as long as that one lives, the     *)
(* frame with that base.                                                   *)
Watches == [addr : Cells, base : 0..Top, owner : Nat, last : Int]
OfItsFrame(w, deep, youngest) ==
    /\ w \in Watches /\ w.owner <= youngest
    /\ w.owner = 0 => w.base = 0
    /\ w.owner # 0 => \A k \in DOMAIN deep : deep[k].id = w.owner => deep[k].frm = w.base
WatchInv ==
    /\ DOMAIN ctrl.watches \subseteq {1, 2}
    /\ \A i \in DOMAIN ctrl.watches : OfItsFrame(ctrl.watches[i], stack, born)

(* What check_data_watches tells and leaves, against what was watched.     *)
Checked(hit, before, after) ==
    /\ DOMAIN after \subseteq DOMAIN before
    /\ \A i \in DOMAIN before : OwnerLives(before[i]) => i \in DOMAIN after
    /\ ~hit => \A i \in DOMAIN after : memory[before[i].addr] = before[i].last
    /\ \A i \in DOMAIN after : after[i] # before[i] => after[i] = Seen(before[i])
    /\ Cardinality({i \in DOMAIN after : after[i] # before[i]}) = IF hit THEN 1 ELSE 0

(* A watch that is told the value of its cell has only that value changed. *)
LEMMA SeenIs ==
    ASSUME MemoryInv, NEW w \in Watches
    PROVE  /\ Seen(w) \in Watches /\ Seen(w).owner = w.owner /\ Seen(w).base = w.base
           /\ Seen(w).last = memory[w.addr] /\ (memory[w.addr] # w.last => Seen(w) # w)
<1>1. w.addr \in Cells /\ memory[w.addr] \in Int
  BY DEF Watches, MemoryInv
<1>2. QED
  BY <1>1 DEF Seen, Watches

(* The watch of a frame that lives has a base that lives.                  *)
LEMMA BaseOfOwner ==
    ASSUME NEW w, OfItsFrame(w, stack, born), OwnerLives(w)
    PROVE  BaseLives(w)
<1>1. CASE w.owner = 0
  BY <1>1 DEF OfItsFrame, BaseLives
<1>2. CASE w.owner # 0
  <2>1. PICK k \in DOMAIN stack : stack[k].id = w.owner
    BY <1>2 DEF OwnerLives, LiveIds
  <2>2. stack[k].frm = w.base
    BY <1>2, <2>1 DEF OfItsFrame
  <2>3. QED
    BY <2>2 DEF BaseLives, LiveBases
<1>3. QED
  BY <1>1, <1>2

(* check_data_watches keeps the watches of living frames, tells whether a  *)
(* cell changed, and takes one change when one did.                        *)
LEMMA WatchesChecked ==
    ASSUME MemoryInv, WatchInv
    PROVE  Checked(CheckDataWatches.hit, ctrl.watches, CheckDataWatches.watches)
<1> DEFINE before == ctrl.watches
           after == CheckDataWatches.watches
           hit == CheckDataWatches.hit
           first(i) == i \in ChangedPlaces /\ \A j \in ChangedPlaces : i <= j
<1>1. /\ DOMAIN KeptWatches = {i \in DOMAIN before : BaseLives(before[i])}
      /\ \A i \in DOMAIN KeptWatches : KeptWatches[i] = before[i]
  BY DEF KeptWatches
<1>2. /\ hit = (ChangedPlaces # {}) /\ DOMAIN after = DOMAIN KeptWatches
      /\ \A i \in DOMAIN after : after[i] = IF first(i) THEN Seen(before[i]) ELSE before[i]
  BY <1>1 DEF CheckDataWatches
<1>3. \A i \in DOMAIN after : i \in ChangedPlaces <=> memory[before[i].addr] # before[i].last
  BY <1>1, <1>2 DEF ChangedPlaces
<1>4. ChangedPlaces \subseteq DOMAIN after /\ ChangedPlaces \subseteq {1, 2}
  BY <1>1, <1>2 DEF ChangedPlaces, WatchInv
<1> HIDE DEF after, hit
<1>5. \A i \in DOMAIN after : after[i] # before[i] <=> first(i)
  <2>1. \A i \in DOMAIN after : before[i] \in Watches
    BY <1>1, <1>2 DEF WatchInv, OfItsFrame
  <2>2. ASSUME NEW i \in DOMAIN after, first(i) PROVE after[i] # before[i]
    BY <1>2, <1>3, <2>1, <2>2, SeenIs
  <2>3. QED
    BY <1>2, <2>2
<1>6. Cardinality({i \in DOMAIN after : after[i] # before[i]}) = IF hit THEN 1 ELSE 0
  <2>1. {i \in DOMAIN after : after[i] # before[i]} = {i \in DOMAIN after : first(i)}
    BY <1>5
  <2>2. CASE hit
    <3>1. \E i \in ChangedPlaces : \A j \in ChangedPlaces : i <= j
      <4> ChangedPlaces # {}
        BY <1>2, <2>2, Zenon
      <4>1. CASE 1 \in ChangedPlaces
        BY <1>4, <4>1
      <4>2. CASE 1 \notin ChangedPlaces
        BY <1>4, <4>2
      <4>3. QED
        BY <4>1, <4>2
    <3>2. PICK i \in ChangedPlaces : first(i)
      BY <3>1
    <3>3. \A j \in ChangedPlaces : first(j) => j = i
      BY <3>2, <1>4
    <3>4. {k \in DOMAIN after : first(k)} = {i}
      BY <3>2, <3>3, <1>4
    <3>5. QED
      BY <2>1, <2>2, <3>4, FS_Singleton
  <2>3. CASE ~hit
    <3>1. {i \in DOMAIN after : first(i)} = {}
      BY <1>2, <2>3
    <3>2. QED
      BY <2>1, <2>3, <3>1, FS_EmptySet
  <2>4. QED
    BY <2>2, <2>3, <1>2
<1>7. \A i \in DOMAIN before : OwnerLives(before[i]) => i \in DOMAIN after
  BY <1>1, <1>2, BaseOfOwner DEF WatchInv
<1>8. ~hit => \A i \in DOMAIN after : memory[before[i].addr] = before[i].last
  BY <1>2, <1>3
<1>9. QED
  BY <1>1, <1>2, <1>6, <1>7, <1>8 DEF Checked, after, hit

(* A line: what is watched from then on, and what for the VM stops.        *)
LEMMA LineChecks ==
    ASSUME Inv, NEW cip, NEW fails, Line(cip, fails)
    PROVE  \/ stop' = "exception" /\ ctrl'.watches = ctrl.watches
           \/ /\ stop' = "data breakpoint" /\ CheckDataWatches.hit
              /\ ctrl'.watches = CheckDataWatches.watches
           \/ /\ stop' \notin {"exception", "data breakpoint"} /\ ~CheckDataWatches.hit
              /\ ctrl'.watches = CheckDataWatches.watches
<1>1. "watches" \in DOMAIN ctrl /\ stop = "running"
  BY DEF Inv, ControlInv, Fresh, Line, VMMoves, IsRunning, Running
<1>2. QED
  BY <1>1 DEF Line, Started

(* The watches of a frame stay those of its base, whatever comes and goes. *)
LEMMA WatchNext ==
    ASSUME Top \in Nat, Inv, WatchInv, [StepsNext]_stepsVars
    PROVE  WatchInv'
<1> USE DEF WatchInv
<1>1. CASE UNCHANGED stepsVars
  BY <1>1 DEF stepsVars, OfItsFrame
<1>2. CASE Call
  <2>1. PICK f : stack' = Append(stack, f) /\ f.id = born + 1
    BY <1>2 DEF Call
  <2>2. /\ born \in Nat /\ born' = born + 1 /\ ctrl' = ctrl
        /\ stack \in Seq(Frames) /\ Len(stack) \in Nat
    BY <1>2 DEF Call, Inv, StackInv
  <2>3. \A k \in DOMAIN stack' : (k \in DOMAIN stack /\ stack'[k] = stack[k]) \/ stack'[k].id = born + 1
    BY <2>1, <2>2
  <2>4. ASSUME NEW w, OfItsFrame(w, stack, born) PROVE OfItsFrame(w, stack', born')
    <3>1. w.owner \in Nat /\ w.owner <= born
      BY <2>4 DEF OfItsFrame, Watches
    <3>2. QED
      BY <2>2, <2>3, <2>4, <3>1 DEF OfItsFrame
  <2>5. QED
    BY <2>2, <2>4
<1>3. CASE Return
  <2>1. /\ born' = born /\ ctrl' = ctrl /\ stack \in Seq(Frames)
        /\ DOMAIN stack' \subseteq DOMAIN stack /\ \A k \in DOMAIN stack' : stack'[k] = stack[k]
    BY <1>3 DEF Return, Front, Inv, StackInv
  <2>2. QED
    BY <2>1 DEF OfItsFrame
<1>4. ASSUME NEW cip, NEW fails, Line(cip, fails) PROVE WatchInv'
  <2>1. UNCHANGED <<stack, born>>
    BY <1>4 DEF Line
  <2>2. /\ DOMAIN ctrl'.watches \subseteq DOMAIN ctrl.watches
        /\ \A i \in DOMAIN ctrl'.watches : ctrl'.watches[i] \in {ctrl.watches[i], Seen(ctrl.watches[i])}
    BY <1>4, LineChecks, WatchesChecked DEF Checked, Inv
  <2>3. ASSUME NEW w, OfItsFrame(w, stack, born) PROVE OfItsFrame(Seen(w), stack, born)
    BY <2>3, SeenIs DEF OfItsFrame, Inv
  <2>4. \A i \in DOMAIN ctrl'.watches : OfItsFrame(ctrl'.watches[i], stack, born)
    <3>1. SUFFICES ASSUME NEW i \in DOMAIN ctrl'.watches
                   PROVE  OfItsFrame(ctrl'.watches[i], stack, born)
      OBVIOUS
    <3>2. OfItsFrame(ctrl.watches[i], stack, born)
      BY <2>2
    <3>3. OfItsFrame(Seen(ctrl.watches[i]), stack, born)
      BY <2>3, <3>2
    <3>4. QED
      BY <2>2, <3>2, <3>3
  <2>5. QED
    BY <2>1, <2>2, <2>4
<1>5. CASE SetDataBreakpoints
  <2>1. UNCHANGED <<stack, born>> /\ born \in Nat
    BY <1>5 DEF SetDataBreakpoints, Inv, StackInv
  <2>2. PICK armed \in {<<>>, <<GlobalWatch>>} \union {<<WatchOf(i), GlobalWatch>> : i \in DOMAIN stack} :
              ctrl' = [ctrl EXCEPT !.watches = IF IsRunning THEN <<>> ELSE armed]
    BY <1>5 DEF SetDataBreakpoints
  <2>3. ctrl'.watches = IF IsRunning THEN <<>> ELSE armed
    BY <2>2 DEF Inv, ControlInv, Fresh
  <2>4. OfItsFrame(GlobalWatch, stack, born)
    BY <2>1 DEF OfItsFrame, GlobalWatch, Watches, Cells, Inv, MemoryInv
  <2>5. ASSUME NEW i \in DOMAIN stack PROVE OfItsFrame(WatchOf(i), stack, born)
    <3>1. /\ stack[i] \in Frames /\ stack[i].id <= born
          /\ \A k \in DOMAIN stack : stack[k].id = stack[i].id => k = i
      <4>1. /\ stack \in Seq(Frames) /\ Len(stack) \in Nat /\ DOMAIN stack = 1..Len(stack)
            /\ \A k \in DOMAIN stack : stack[k] \in Frames
        BY DEF Inv, StackInv
      <4>2. \A k \in DOMAIN stack : k < i \/ i < k => stack[k].id # stack[i].id
        BY <4>1 DEF Inv, StackInv, Frames
      <4>3. QED
        BY <4>1, <4>2 DEF Inv, StackInv
    <3>2. stack[i].frm \in Cells /\ stack[i].id \in Nat /\ memory[stack[i].frm] \in Int
      BY <3>1 DEF Frames, Cells, Inv, MemoryInv
    <3>3. /\ WatchOf(i) \in Watches /\ WatchOf(i).owner = stack[i].id /\ WatchOf(i).base = stack[i].frm
      BY <3>2 DEF WatchOf, Watches, Cells
    <3>4. stack[i].id # 0
      BY DEF Inv, StackInv
    <3>5. QED
      BY <3>1, <3>3, <3>4 DEF OfItsFrame
  <2>6. /\ DOMAIN ctrl'.watches \subseteq {1, 2}
        /\ \A i \in DOMAIN ctrl'.watches : OfItsFrame(ctrl'.watches[i], stack, born)
    <3>1. CASE ctrl'.watches = <<>>
      BY <3>1
    <3>2. CASE ctrl'.watches = <<GlobalWatch>>
      BY <3>2, <2>4
    <3>3. ASSUME NEW k \in DOMAIN stack, ctrl'.watches = <<WatchOf(k), GlobalWatch>>
          PROVE  /\ DOMAIN ctrl'.watches \subseteq {1, 2}
                 /\ \A i \in DOMAIN ctrl'.watches : OfItsFrame(ctrl'.watches[i], stack, born)
      BY <3>3, <2>4, <2>5
    <3>4. QED
      BY <2>2, <2>3, <3>1, <3>2, <3>3
  <2>7. QED
    BY <2>1, <2>6
<1>6. CASE Store \/ SetBreakpoints \/ StoreVariable \/ \E mode \in {"run", "in", "over", "out"} : RequestStep(mode)
  <2>1. UNCHANGED <<stack, born>> /\ ctrl'.watches = ctrl.watches
    BY <1>6 DEF Store, SetBreakpoints, StoreVariable, RequestStep, Inv, ControlInv, Fresh
  <2>2. QED
    BY <2>1 DEF OfItsFrame
<1>7. QED
  BY <1>1, <1>2, <1>3, <1>4, <1>5, <1>6 DEF StepsNext

(* No change of a watched cell passes unseen (check_data_watches of        *)
(* control.rs, as on_break calls it): for every stack and every program, a *)
(* line is passed, or stopped at for anything but an error, only when each *)
(* watch of a living frame has the value of its cell; and a change is told *)
(* once, the others after it.                                              *)
THEOREM NoChangePassesUnseenCorrect == StepsSpec => NoChangePassesUnseen
<1> USE TopAssumption
<1> DEFINE Guarded == Inv /\ WatchInv
           Step ==
      LineStep =>
        LET before == ctrl.watches
            after == ctrl'.watches
            taken == {i \in DOMAIN after : after[i] # before[i]}
        IN  /\ DOMAIN after \subseteq DOMAIN before
            /\ \A i \in DOMAIN before : OwnerLives(before[i]) =>
                   /\ i \in DOMAIN after
                   /\ stop' \notin {"exception", "data breakpoint"} => memory[before[i].addr] = before[i].last
            /\ \A i \in taken : after[i] = Seen(before[i])
            /\ Cardinality(taken) = IF stop' = "data breakpoint" THEN 1 ELSE 0
<1>1. StepsInit => Guarded
  BY InitInv DEF StepsInit, WatchInv, Fresh
<1>2. Guarded /\ [StepsNext]_stepsVars => Guarded'
  BY NextInv, WatchNext
<1>3. Guarded /\ [StepsNext]_stepsVars => [Step]_stepsVars
  <2> SUFFICES ASSUME Inv, WatchInv, StepsNext, LineStep
               PROVE  Step
    OBVIOUS
  <2>1. PICK cip \in CodeAddrs, fails \in BOOLEAN : Line(cip, fails)
    BY OnlyLines
  <2>2. Checked(CheckDataWatches.hit, ctrl.watches, CheckDataWatches.watches)
    BY WatchesChecked DEF Inv
  <2>3. CASE stop' = "exception" /\ ctrl'.watches = ctrl.watches
    <3>1. {i \in DOMAIN ctrl'.watches : ctrl'.watches[i] # ctrl.watches[i]} = {}
      BY <2>3
    <3>2. QED
      BY <2>3, <3>1, FS_EmptySet
  <2>4. CASE /\ stop' = "data breakpoint" /\ CheckDataWatches.hit
             /\ ctrl'.watches = CheckDataWatches.watches
    BY <2>2, <2>4 DEF Checked
  <2>5. CASE /\ stop' \notin {"exception", "data breakpoint"} /\ ~CheckDataWatches.hit
             /\ ctrl'.watches = CheckDataWatches.watches
    BY <2>2, <2>5 DEF Checked
  <2>6. QED
    BY <2>1, <2>3, <2>4, <2>5, LineChecks
<1>4. QED
  BY <1>1, <1>2, <1>3, PTL DEF StepsSpec, NoChangePassesUnseen

-----------------------------------------------------------------------------
(* The scan of a line and the VM (RuntimeScan).                            *)

(* What can be announced of a line.                                        *)
Errors == {"none", "divide", "bounds", "memory", "stack", "heap"}

(* Any assignment of values to cells.                                      *)
Memories == UNION {[D -> Int] : D \in SUBSET Int}

(* The registers, stack and verdict of the scan.                           *)
ScanTypes(s) ==
    s \in [pri : Int, priKnown : BOOLEAN, alt : Int, altKnown : BOOLEAN,
           stk : Int, hea : Int, reliable : BOOLEAN, pushed : Seq(Seq(Int)),
           covered : SUBSET Int, guessed : BOOLEAN, error : Errors, sound : BOOLEAN]

(* The registers and memory of the VM.                                     *)
MachineTypes(m) ==
    m \in [pri : Int, alt : Int, stk : Int, hea : Int, mem : Memories,
           error : Errors, left : BOOLEAN]

(* What was pushed is on top of the stack, the last on the first cell; and *)
(* no cell that was not pushed to has changed.                             *)
PushedAt(pushed, stk, cells) ==
    \A k \in 1..Len(pushed) : pushed[k] # <<>> =>
        CellOf(cells, stk + Len(pushed) - k) = pushed[k][1]
DataAt(covered, cells) == \A a \in DOMAIN Memory \ covered : CellOf(cells, a) = Memory[a]

(* While nothing unknown moved the stack, the scan has the stack and heap  *)
(* of the VM; and as long as it guessed nothing, the registers it holds    *)
(* for exact, what it pushed and the cells it did not write are those of   *)
(* the VM.                                                                 *)
Lockstep(s, m) ==
    /\ s.reliable
    /\ s.stk = m.stk /\ s.hea = m.hea
    /\ ~s.guessed => /\ s.priKnown => s.pri = m.pri
                     /\ s.altKnown => s.alt = m.alt
                     /\ PushedAt(s.pushed, s.stk, m.mem)
                     /\ DataAt(s.covered, m.mem)

(* Once it lost the stack, no verdict it gives is a sound one.             *)
Parted(s) == ~s.reliable /\ (s.error # "none" => ~s.sound)

(* The two halves of PredictionsAreRight.                                  *)
Right(f, s, m) ==
    /\ s.error # "none" /\ s.sound => m.error # "none"
    /\ f /\ m.error # "none" => s.error = m.error

(* Scan and VM agree after an instruction: in lockstep while the line      *)
(* runs, parted once the VM left it, and right.                            *)
Agreeing(f, t, n) ==
    /\ t.error = "none" /\ n.error = "none" /\ ~n.left => Lockstep(t, n)
    /\ n.error = "none" /\ n.left => Parted(t)
    /\ Right(f, t, n)

(* One instruction, taken by the scan from s to t and by the VM to n.      *)
StepIsRight(s, m, t, n) ==
    /\ ScanTypes(t)
    /\ ~s.reliable => Parted(t)
    /\ m.error = "none" /\ ~m.left /\ Lockstep(s, m) => Agreeing(Exact(s), t, n)

(* The scan, with no verdict yet, and the VM before an instruction.        *)
Ready(s, m, i, p, a) ==
    /\ ScanTypes(s) /\ MachineTypes(m) /\ s.error = "none"
    /\ i \in [op : Families, n : Int] /\ p \in Int /\ a \in Int

(* What an effect leaves as it was.                                        *)
SamePri(t, s) == t.pri = s.pri /\ t.priKnown = s.priKnown
SameAlt(t, s) == t.alt = s.alt /\ t.altKnown = s.altKnown
SamePushed(t, s) == t.pushed = s.pushed /\ t.covered = s.covered
SameVerdict(t, s) == t.reliable = s.reliable /\ t.error = s.error /\ t.sound = s.sound

(* A cell has a number, also where nothing was ever written.               *)
LEMMA CellIsInt ==
    ASSUME NEW cells \in Memories, NEW a
    PROVE  CellOf(cells, a) \in Int
  <1>1. PICK D \in SUBSET Int : cells \in [D -> Int]
    BY DEF Memories
  <1>2. CASE a \in DOMAIN cells
    <2>1. cells[a] \in Int
      BY <1>1, <1>2
    <2>. QED
      BY <1>2, <2>1 DEF CellOf
  <1>. QED
    BY <1>2 DEF CellOf

(* A write to memory gives a memory.                                       *)
LEMMA WrittenIsMemory ==
    ASSUME NEW cells \in Memories, NEW a \in Int, NEW v \in Int
    PROVE  Written(cells, a, v) \in Memories
  <1>1. PICK D \in SUBSET Int : cells \in [D -> Int]
    BY DEF Memories
  <1>2. Written(cells, a, v) \in [D \union {a} -> Int]
    BY <1>1 DEF Written
  <1>3. D \union {a} \in SUBSET Int
    OBVIOUS
  <1>. QED
    BY <1>2, <1>3 DEF Memories

(* A write changes its cell and no other.                                  *)
LEMMA WrittenCell ==
    ASSUME NEW f, NEW x, NEW v, NEW a
    PROVE  CellOf(Written(f, x, v), a) = IF a = x THEN v ELSE CellOf(f, a)
  BY DEF CellOf, Written

(* A push keeps what was pushed on top of the stack.                       *)
LEMMA PushedMore ==
    ASSUME NEW q \in Seq(Seq(Int)), NEW stk \in Int, NEW cells, NEW v \in Seq(Int), NEW x,
           PushedAt(q, stk, cells), v # <<>> => v[1] = x
    PROVE  PushedAt(Append(q, v), stk - 1, Written(cells, stk - 1, x))
  <1>. DEFINE r == Append(q, v)
  <1>1. Len(r) = Len(q) + 1 /\ r[Len(q) + 1] = v /\ \A k \in 1..Len(q) : r[k] = q[k]
    OBVIOUS
  <1>. SUFFICES ASSUME NEW k \in 1..Len(r), r[k] # <<>>
                PROVE  CellOf(Written(cells, stk - 1, x), stk - 1 + Len(r) - k) = r[k][1]
    BY DEF PushedAt
  <1>. HIDE DEF r
  <1>2. CASE k = Len(q) + 1
    <2>1. stk - 1 + Len(r) - k = stk - 1
      BY <1>1, <1>2
    <2>. QED
      BY <1>1, <1>2, <2>1, WrittenCell
  <1>3. CASE k \in 1..Len(q)
    <2>1. stk - 1 + Len(r) - k = stk + Len(q) - k /\ stk - 1 + Len(r) - k # stk - 1
      <3>. DEFINE n == Len(q)
                  l == Len(r)
      <3>1. n \in Nat /\ l = n + 1 /\ k \in 1..n
        BY <1>1, <1>3
      <3>. HIDE DEF n, l
      <3>2. stk - 1 + l - k = stk + n - k /\ stk - 1 + l - k # stk - 1
        BY <3>1
      <3>. QED
        BY <3>2 DEF n, l
    <2>2. CellOf(cells, stk + Len(q) - k) = q[k][1]
      BY <1>1, <1>3 DEF PushedAt
    <2>. QED
      BY <1>1, <1>3, <2>1, <2>2, WrittenCell
  <1>. QED
    BY <1>1, <1>2, <1>3

(* A pop gives the value pushed last, and leaves the others on top of the  *)
(* stack: what takes the oldest for the last would break.                  *)
LEMMA PushedLess ==
    ASSUME NEW q \in Seq(Seq(Int)), NEW stk \in Int, NEW cells,
           PushedAt(q, stk, cells), q # <<>>
    PROVE  /\ PushedAt(Front(q), stk + 1, cells)
           /\ Last(q) # <<>> => CellOf(cells, stk) = Last(q)[1]
  <1>1. /\ Len(q) \in Nat /\ Len(q) > 0
        /\ Len(Front(q)) = Len(q) - 1
        /\ \A k \in 1..(Len(q) - 1) : Front(q)[k] = q[k]
    <2>1. /\ Len(q) \in Nat /\ Len(q) > 0
          /\ \A k \in 1..(Len(q) - 1) : q[k] \in Seq(Int)
      OBVIOUS
    <2>2. /\ Len(SubSeq(q, 1, Len(q) - 1)) = Len(q) - 1
          /\ \A k \in 1..(Len(q) - 1) : SubSeq(q, 1, Len(q) - 1)[k] = q[k]
      <3>. DEFINE n == Len(q) - 1
                  f == SubSeq(q, 1, n)
      <3>1. n \in Int /\ n >= 0 /\ 1 \in Int /\ n - 1 + 1 = n /\ \A k \in 1..n : 1 + k - 1 = k
        BY <2>1
      <3>. HIDE DEF n
      <3>2. /\ Len(f) = IF 1 <= n THEN n - 1 + 1 ELSE 0
            /\ \A k \in 1..(n - 1 + 1) : f[k] = q[1 + k - 1]
        BY <2>1, <3>1, SubSeqProperties
      <3>. HIDE DEF f
      <3>3. Len(f) = n /\ \A k \in 1..n : f[k] = q[k]
        BY <3>1, <3>2
      <3>. QED
        BY <3>3 DEF f, n
    <2>. QED
      BY <2>1, <2>2 DEF Front
  <1>2. ASSUME NEW k \in 1..Len(Front(q)), Front(q)[k] # <<>>
        PROVE  CellOf(cells, stk + 1 + Len(Front(q)) - k) = Front(q)[k][1]
    <2>1. k \in 1..Len(q) /\ Front(q)[k] = q[k]
      BY <1>1
    <2>2. stk + 1 + Len(Front(q)) - k = stk + Len(q) - k
      BY <1>1
    <2>. QED
      BY <2>1, <2>2, <1>2 DEF PushedAt
  <1>3. ASSUME Last(q) # <<>>
        PROVE  CellOf(cells, stk) = Last(q)[1]
    <2>1. Len(q) \in 1..Len(q) /\ stk + Len(q) - Len(q) = stk /\ Last(q) = q[Len(q)]
      BY <1>1 DEF Last
    <2>. QED
      BY <2>1, <1>3 DEF PushedAt
  <1>. QED
    BY <1>2, <1>3 DEF PushedAt

(* A push only changes a cell that it adds to those covered.               *)
LEMMA DataCovered ==
    ASSUME NEW c, NEW cells, NEW x, NEW v, DataAt(c, cells)
    PROVE  DataAt(c \union {x}, Written(cells, x, v))
  BY WrittenCell DEF DataAt

(* A value that is popped was the last one pushed.                         *)
LEMMA PoppedValue ==
    ASSUME NEW s, ScanTypes(s)
    PROVE  /\ Popped(s) \in Seq(Int)
           /\ Popped(s) # <<>> => s.pushed # <<>> /\ Popped(s) = Last(s.pushed) /\ Popped(s)[1] \in Int
  <1>1. s.pushed \in Seq(Seq(Int))
    BY DEF ScanTypes
  <1>2. CASE s.pushed = <<>>
    BY <1>2 DEF Popped
  <1>3. CASE s.pushed # <<>>
    <2>1. Len(s.pushed) \in 1..Len(s.pushed)
      BY <1>1, <1>3
    <2>2. Last(s.pushed) \in Seq(Int)
      BY <1>1, <2>1 DEF Last
    <2>. QED
      BY <1>3, <2>2 DEF Popped
  <1>. QED
    BY <1>2, <1>3

(* What setting the primary register changes, and what it leaves.          *)
LEMMA SetPriFields ==
    ASSUME NEW s, ScanTypes(s), NEW v \in Int, NEW k \in BOOLEAN
    PROVE  LET t == SetPri(s, v, k)
           IN  /\ ScanTypes(t)
               /\ t.pri = v
               /\ t.priKnown <=> k
               /\ SameAlt(t, s)
               /\ t.stk = s.stk /\ t.hea = s.hea
               /\ SamePushed(t, s)
               /\ t.guessed = s.guessed
               /\ SameVerdict(t, s)
  BY DEF SetPri, ScanTypes, SamePri, SameAlt, SamePushed, SameVerdict

(* What setting the alternate register changes, and what it leaves.        *)
LEMMA SetAltFields ==
    ASSUME NEW s, ScanTypes(s), NEW v \in Int, NEW k \in BOOLEAN
    PROVE  LET t == SetAlt(s, v, k)
           IN  /\ ScanTypes(t)
               /\ t.alt = v
               /\ t.altKnown <=> k
               /\ SamePri(t, s)
               /\ t.stk = s.stk /\ t.hea = s.hea
               /\ SamePushed(t, s)
               /\ t.guessed = s.guessed
               /\ SameVerdict(t, s)
  BY DEF SetAlt, ScanTypes, SamePri, SameAlt, SamePushed, SameVerdict

(* A load may make the scan guess, and changes nothing else.               *)
LEMMA GuessingFields ==
    ASSUME NEW s, ScanTypes(s), NEW c \in Int
    PROVE  LET t == Guessing(s, c)
           IN  /\ ScanTypes(t)
               /\ t.guessed <=> s.guessed \/ c \in s.covered
               /\ SamePri(t, s)
               /\ SameAlt(t, s)
               /\ t.stk = s.stk /\ t.hea = s.hea
               /\ SamePushed(t, s)
               /\ SameVerdict(t, s)
  BY DEF Guessing, ScanTypes, SamePri, SameAlt, SamePushed, SameVerdict

(* A move of the stack makes the scan guess of what was pushed, and keeps  *)
(* the rest.                                                               *)
LEMMA MovingFields ==
    ASSUME NEW s, ScanTypes(s), NEW c \in Int
    PROVE  LET t == Moving(s, c)
           IN  /\ ScanTypes(t)
               /\ t.stk = s.stk + c
               /\ t.hea = s.hea
               /\ t.guessed <=> s.guessed \/ s.pushed # <<>>
               /\ SamePri(t, s)
               /\ SameAlt(t, s)
               /\ SamePushed(t, s)
               /\ SameVerdict(t, s)
  <1>. DEFINE g == s.guessed \/ s.pushed # <<>>
  <1>1. g \in BOOLEAN /\ s.stk + c \in Int
    BY DEF ScanTypes, Front
  <1>2. Moving(s, c) = [s EXCEPT !.stk = s.stk + c, !.guessed = g]
    BY DEF Moving, ScanTypes
  <1>. HIDE DEF g
  <1>3. ScanTypes(Moving(s, c))
    BY <1>1, <1>2 DEF ScanTypes
  <1>. QED
    BY <1>1, <1>2, <1>3 DEF ScanTypes, SamePri, SameAlt, SamePushed, SameVerdict, g

(* What a push changes in the scan, and what it leaves.                    *)
LEMMA PushingFields ==
    ASSUME NEW s, ScanTypes(s), NEW v \in Seq(Int)
    PROVE  LET t == Pushing(s, v)
           IN  /\ ScanTypes(t)
               /\ t.stk = s.stk - 1
               /\ t.hea = s.hea
               /\ t.pushed = Append(s.pushed, v)
               /\ t.covered = s.covered \union {s.stk - 1}
               /\ SamePri(t, s)
               /\ SameAlt(t, s)
               /\ t.guessed = s.guessed
               /\ SameVerdict(t, s)
  <1>. DEFINE q == Append(s.pushed, v)
              c == s.covered \union {s.stk - 1}
  <1>1. q \in Seq(Seq(Int)) /\ c \in SUBSET Int /\ s.stk - 1 \in Int
    BY DEF ScanTypes, Front
  <1>2. Pushing(s, v) = [s EXCEPT !.stk = s.stk - 1, !.pushed = q, !.covered = c]
    BY DEF Pushing, ScanTypes
  <1>. HIDE DEF q, c
  <1>3. ScanTypes(Pushing(s, v))
    BY <1>1, <1>2 DEF ScanTypes
  <1>. QED
    BY <1>1, <1>2, <1>3 DEF ScanTypes, SamePri, SameAlt, SamePushed, SameVerdict, q, c

(* What a pop changes in the scan, and what it leaves.                     *)
LEMMA PoppingFields ==
    ASSUME NEW s, ScanTypes(s)
    PROVE  LET t == Popping(s)
           IN  /\ ScanTypes(t)
               /\ t.stk = s.stk + 1
               /\ t.hea = s.hea
               /\ t.pushed = IF s.pushed = <<>> THEN <<>> ELSE Front(s.pushed)
               /\ t.covered = s.covered
               /\ SamePri(t, s)
               /\ SameAlt(t, s)
               /\ t.guessed = s.guessed
               /\ SameVerdict(t, s)
  <1>. DEFINE q == IF s.pushed = <<>> THEN <<>> ELSE Front(s.pushed)
  <1>1. q \in Seq(Seq(Int)) /\ s.stk + 1 \in Int
    BY DEF ScanTypes, Front
  <1>2. Popping(s) = [s EXCEPT !.stk = s.stk + 1, !.pushed = q]
    BY DEF Popping, ScanTypes
  <1>. HIDE DEF q
  <1>3. ScanTypes(Popping(s))
    BY <1>1, <1>2 DEF ScanTypes
  <1>. QED
    BY <1>1, <1>2, <1>3 DEF ScanTypes, SamePri, SameAlt, SamePushed, SameVerdict, q

(* A verdict, and what it is sound on.                                     *)
LEMMA FaultFields ==
    ASSUME NEW s, ScanTypes(s), NEW e \in Errors, NEW k \in BOOLEAN
    PROVE  LET t == Fault(s, e, k)
           IN  /\ ScanTypes(t)
               /\ t.error = e
               /\ t.sound <=> k /\ s.reliable /\ ~s.guessed
               /\ t.reliable = s.reliable
               /\ SamePri(t, s)
               /\ SameAlt(t, s)
               /\ t.stk = s.stk /\ t.hea = s.hea
               /\ SamePushed(t, s)
               /\ t.guessed = s.guessed
  BY DEF Fault, ScanTypes, SamePri, SameAlt, SamePushed, SameVerdict

(* The check of stack against heap gives a verdict when they collide, and  *)
(* changes nothing otherwise.                                              *)
LEMMA OverflowFields ==
    ASSUME NEW s, ScanTypes(s)
    PROVE  LET t == Overflow(s)
           IN  /\ ScanTypes(t)
               /\ s.reliable /\ Collides(s.hea, s.stk) => t.error = "stack" /\ (t.sound <=> ~s.guessed)
               /\ ~(s.reliable /\ Collides(s.hea, s.stk)) => t = s
               /\ t.reliable = s.reliable
               /\ SamePri(t, s)
               /\ SameAlt(t, s)
               /\ t.stk = s.stk /\ t.hea = s.hea
               /\ SamePushed(t, s)
               /\ t.guessed = s.guessed
  <1>1. CASE s.reliable /\ Collides(s.hea, s.stk)
    <2>1. Overflow(s) = Fault(s, "stack", TRUE) /\ "stack" \in Errors
      BY <1>1 DEF Overflow, Errors
    <2>. DEFINE t == Fault(s, "stack", TRUE)
    <2>2. /\ ScanTypes(t) /\ t.error = "stack" /\ (t.sound <=> TRUE /\ s.reliable /\ ~s.guessed)
          /\ t.reliable = s.reliable /\ SamePri(t, s) /\ SameAlt(t, s)
          /\ t.stk = s.stk /\ t.hea = s.hea /\ SamePushed(t, s) /\ t.guessed = s.guessed
      BY <2>1, FaultFields, Zenon
    <2>. QED
      BY <1>1, <2>1, <2>2
  <1>2. CASE ~(s.reliable /\ Collides(s.hea, s.stk))
    <2>1. Overflow(s) = s
      BY <1>2 DEF Overflow
    <2>. QED
      BY <1>2, <2>1 DEF SamePri, SameAlt, SamePushed
  <1>. QED
    BY <1>1, <1>2

(* What a push changes in the VM.                                          *)
LEMMA VMPushFields ==
    ASSUME NEW m, MachineTypes(m), NEW v \in Int
    PROVE  LET t == VMPush(m, v)
           IN  /\ MachineTypes(t)
               /\ t.pri = m.pri
               /\ t.alt = m.alt
               /\ t.stk = m.stk - 1
               /\ t.hea = m.hea
               /\ t.mem = Written(m.mem, m.stk - 1, v)
               /\ t.error = m.error
               /\ t.left = m.left
  <1>1. m.stk - 1 \in Int /\ m.mem \in Memories
    BY DEF MachineTypes
  <1>2. Written(m.mem, m.stk - 1, v) \in Memories
    BY <1>1, WrittenIsMemory
  <1>. QED
    BY <1>1, <1>2 DEF VMPush, MachineTypes

(* An abort of the VM, and nothing else.                                   *)
LEMMA AbortsFields ==
    ASSUME NEW m, MachineTypes(m), NEW e \in Errors
    PROVE  LET t == Aborts(m, e)
           IN  /\ MachineTypes(t)
               /\ t.pri = m.pri
               /\ t.alt = m.alt
               /\ t.stk = m.stk
               /\ t.hea = m.hea
               /\ t.mem = m.mem
               /\ t.error = e
               /\ t.left = m.left
  BY DEF Aborts, MachineTypes

(* The check of stack against heap in the VM.                              *)
LEMMA MarginsFields ==
    ASSUME NEW m, MachineTypes(m)
    PROVE  LET t == Margins(m)
           IN  /\ MachineTypes(t)
               /\ t.pri = m.pri
               /\ t.alt = m.alt
               /\ t.stk = m.stk
               /\ t.hea = m.hea
               /\ t.mem = m.mem
               /\ t.error = IF Collides(m.hea, m.stk) THEN "stack" ELSE m.error
               /\ t.left = m.left
  <1>1. CASE Collides(m.hea, m.stk)
    <2>1. Margins(m) = Aborts(m, "stack")
      BY <1>1 DEF Margins
    <2>. QED
      BY <1>1, <2>1, AbortsFields DEF Errors
  <1>2. CASE ~Collides(m.hea, m.stk)
    BY <1>2 DEF Margins
  <1>. QED
    BY <1>1, <1>2

(* An instruction without a verdict is right when, unless the scan         *)
(* guessed, what it holds for exact is.                                    *)
LEMMA QuietStep ==
    ASSUME NEW s, NEW m, ScanTypes(s), s.error = "none",
           NEW t, ScanTypes(t), NEW n, MachineTypes(n),
           t.stk = s.stk, t.hea = s.hea, SamePushed(t, s), SameVerdict(t, s),
           n.stk = m.stk, n.hea = m.hea, n.error = m.error, n.left = m.left,
           ~t.guessed => ~s.guessed /\ n.mem = m.mem,
           Lockstep(s, m) /\ ~t.guessed => /\ t.priKnown => t.pri = n.pri
                                           /\ t.altKnown => t.alt = n.alt
    PROVE  StepIsRight(s, m, t, n)
  <1>1. Lockstep(s, m) => Lockstep(t, n)
    BY DEF Lockstep, SamePushed, SameVerdict
  <1>. QED
    BY <1>1 DEF StepIsRight, Agreeing, Parted, Right, SameVerdict

(* A verdict is right when the VM can abort with no other error, and       *)
(* aborts with this one if the value it rests on is exact.                 *)
LEMMA FaultStep ==
    ASSUME NEW s, NEW m, ScanTypes(s), s.error = "none", NEW n,
           NEW e \in Errors \ {"none"}, NEW k \in BOOLEAN, NEW t, t = Fault(s, e, k),
           Lockstep(s, m) /\ m.error = "none" /\ ~m.left =>
               ~n.left /\ n.error \in {"none", e} /\ (k /\ ~s.guessed => n.error = e)
    PROVE  StepIsRight(s, m, t, n)
  <1>1. /\ ScanTypes(t) /\ t.error = e /\ (t.sound <=> k /\ s.reliable /\ ~s.guessed)
        /\ t.reliable = s.reliable
    BY FaultFields
  <1>. QED
    BY <1>1 DEF StepIsRight, Agreeing, Parted, Right

(* An abort may be missed by a scan that was not exact.                    *)
LEMMA MissedStep ==
    ASSUME NEW s, NEW m, s.error = "none", NEW n, NEW t,
           ScanTypes(t), SameVerdict(t, s),
           Lockstep(s, m) => n.error # "none" /\ ~Exact(s)
    PROVE  StepIsRight(s, m, t, n)
  BY DEF StepIsRight, Agreeing, Parted, Right, SameVerdict

(* An instruction that sets the primary register is right when the value   *)
(* is, if it is held for exact.                                            *)
LEMMA PriStep ==
    ASSUME NEW s, NEW m, NEW i, NEW p, NEW a, Ready(s, m, i, p, a),
           NEW v \in Int, NEW k \in BOOLEAN, NEW t, t = SetPri(s, v, k),
           NEW w \in Int, NEW n, n = [m EXCEPT !.pri = w],
           Lockstep(s, m) /\ ~s.guessed /\ k => v = w
    PROVE  MachineTypes(n) /\ StepIsRight(s, m, t, n)
  <1>1. /\ ScanTypes(t) /\ t.pri = v /\ (t.priKnown <=> k) /\ SameAlt(t, s)
        /\ t.stk = s.stk /\ t.hea = s.hea /\ SamePushed(t, s) /\ t.guessed = s.guessed /\ SameVerdict(t, s)
    BY SetPriFields DEF Ready
  <1>2. /\ MachineTypes(n) /\ n.pri = w /\ n.alt = m.alt /\ n.stk = m.stk /\ n.hea = m.hea
        /\ n.mem = m.mem /\ n.error = m.error /\ n.left = m.left
    BY DEF Ready, MachineTypes
  <1>3. Lockstep(s, m) /\ ~t.guessed => /\ t.priKnown => t.pri = n.pri
                                        /\ t.altKnown => t.alt = n.alt
    BY <1>1, <1>2 DEF Lockstep, SameAlt
  <1>. QED
    BY <1>1, <1>2, <1>3, QuietStep DEF Ready

(* The same of the alternate register.                                     *)
LEMMA AltStep ==
    ASSUME NEW s, NEW m, NEW i, NEW p, NEW a, Ready(s, m, i, p, a),
           NEW v \in Int, NEW k \in BOOLEAN, NEW t, t = SetAlt(s, v, k),
           NEW w \in Int, NEW n, n = [m EXCEPT !.alt = w],
           Lockstep(s, m) /\ ~s.guessed /\ k => v = w
    PROVE  MachineTypes(n) /\ StepIsRight(s, m, t, n)
  <1>1. /\ ScanTypes(t) /\ t.alt = v /\ (t.altKnown <=> k) /\ SamePri(t, s)
        /\ t.stk = s.stk /\ t.hea = s.hea /\ SamePushed(t, s) /\ t.guessed = s.guessed /\ SameVerdict(t, s)
    BY SetAltFields DEF Ready
  <1>2. /\ MachineTypes(n) /\ n.alt = w /\ n.pri = m.pri /\ n.stk = m.stk /\ n.hea = m.hea
        /\ n.mem = m.mem /\ n.error = m.error /\ n.left = m.left
    BY DEF Ready, MachineTypes
  <1>3. Lockstep(s, m) /\ ~t.guessed => /\ t.priKnown => t.pri = n.pri
                                        /\ t.altKnown => t.alt = n.alt
    BY <1>1, <1>2 DEF Lockstep, SamePri
  <1>. QED
    BY <1>1, <1>2, <1>3, QuietStep DEF Ready

(* Loads of a cell, into either register.                                  *)
LEMMA StepLoad ==
    ASSUME NEW s, NEW m, NEW i, NEW p, NEW a, Ready(s, m, i, p, a), i.op \in {"load", "loadalt"},
           NEW t, t = Scanned(s, i), NEW n, n = Execute(m, i, p, a)
    PROVE  MachineTypes(n) /\ StepIsRight(s, m, t, n)
  <1>. DEFINE g == Guessing(s, i.n)
              v == Data(i.n, IF i.op = "load" THEN s.pri ELSE s.alt)
              w == CellOf(m.mem, i.n)
              k == InData(i.n)
  <1>1. /\ i.op = "load" => t = SetPri(g, v, k) /\ n = [m EXCEPT !.pri = w]
        /\ i.op = "loadalt" => t = SetAlt(g, v, k) /\ n = [m EXCEPT !.alt = w]
    BY DEF Ready, Scanned, Foresee, Effect, Execute
  <1>2. i.n \in Int /\ s.pri \in Int /\ s.alt \in Int /\ m.mem \in Memories
    BY DEF Ready, ScanTypes, MachineTypes
  <1>3. v \in Int /\ w \in Int /\ k \in BOOLEAN
    BY <1>2, CellIsInt, MachineAssumption DEF Data, InData
  <1>4. /\ ScanTypes(g) /\ (g.guessed <=> s.guessed \/ i.n \in s.covered)
        /\ SamePri(g, s) /\ SameAlt(g, s) /\ g.stk = s.stk /\ g.hea = s.hea /\ SamePushed(g, s)
        /\ SameVerdict(g, s)
    BY <1>2, GuessingFields DEF Ready
  <1>5. k /\ DataAt(s.covered, m.mem) /\ i.n \notin s.covered => v = w
    BY DEF DataAt, Data, InData
  <1>. HIDE DEF g, v, w, k
  <1>6. CASE i.op = "load"
    <2>1. /\ ScanTypes(t) /\ t.pri = v /\ (t.priKnown <=> k)
          /\ SameAlt(t, g) /\ t.stk = g.stk /\ t.hea = g.hea /\ SamePushed(t, g) /\ t.guessed = g.guessed
          /\ SameVerdict(t, g)
      BY <1>1, <1>3, <1>4, <1>6, SetPriFields
    <2>2. /\ MachineTypes(n) /\ n.pri = w /\ n.alt = m.alt /\ n.stk = m.stk /\ n.hea = m.hea
          /\ n.mem = m.mem /\ n.error = m.error /\ n.left = m.left
      BY <1>1, <1>3, <1>6 DEF Ready, MachineTypes
    <2>3. Lockstep(s, m) /\ ~t.guessed => /\ t.priKnown => t.pri = n.pri
                                          /\ t.altKnown => t.alt = n.alt
      BY <1>4, <1>5, <2>1, <2>2 DEF Lockstep, SameAlt
    <2>. QED
      BY <1>4, <2>1, <2>2, <2>3, QuietStep DEF Ready, SamePushed, SameVerdict
  <1>7. CASE i.op = "loadalt"
    <2>1. /\ ScanTypes(t) /\ t.alt = v /\ (t.altKnown <=> k)
          /\ SamePri(t, g) /\ t.stk = g.stk /\ t.hea = g.hea /\ SamePushed(t, g) /\ t.guessed = g.guessed
          /\ SameVerdict(t, g)
      BY <1>1, <1>3, <1>4, <1>7, SetAltFields
    <2>2. /\ MachineTypes(n) /\ n.alt = w /\ n.pri = m.pri /\ n.stk = m.stk /\ n.hea = m.hea
          /\ n.mem = m.mem /\ n.error = m.error /\ n.left = m.left
      BY <1>1, <1>3, <1>7 DEF Ready, MachineTypes
    <2>3. Lockstep(s, m) /\ ~t.guessed => /\ t.priKnown => t.pri = n.pri
                                          /\ t.altKnown => t.alt = n.alt
      BY <1>4, <1>5, <2>1, <2>2 DEF Lockstep, SamePri
    <2>. QED
      BY <1>4, <2>1, <2>2, <2>3, QuietStep DEF Ready, SamePushed, SameVerdict
  <1>. QED
    BY <1>6, <1>7

(* Constants, moves and addresses.                                         *)
LEMMA StepRegisters ==
    ASSUME NEW s, NEW m, NEW i, NEW p, NEW a, Ready(s, m, i, p, a),
           i.op \in {"const", "constalt", "move", "movealt", "xchg", "addr", "idxaddr"},
           NEW t, t = Scanned(s, i), NEW n, n = Execute(m, i, p, a)
    PROVE  MachineTypes(n) /\ StepIsRight(s, m, t, n)
  <1>. DEFINE yes == TRUE
  <1>1. /\ i.n \in Int /\ Frm + i.n \in Int /\ yes \in BOOLEAN /\ yes
        /\ s.pri \in Int /\ s.alt \in Int /\ s.priKnown \in BOOLEAN /\ s.altKnown \in BOOLEAN
        /\ m.pri \in Int /\ m.alt \in Int
    <2>1. Frm \in Int
      BY MachineAssumption
    <2>. QED
      BY <2>1 DEF Ready, ScanTypes, MachineTypes
  <1>. HIDE DEF yes
  <1>2. CASE i.op \in {"const", "addr"}
    <2>. DEFINE v == IF i.op = "const" THEN i.n ELSE Frm + i.n
    <2>1. t = SetPri(s, v, yes) /\ n = [m EXCEPT !.pri = v] /\ v \in Int
      BY <1>1, <1>2 DEF Ready, Scanned, Foresee, Effect, Execute, yes
    <2>. HIDE DEF v
    <2>. QED
      BY <1>1, <2>1, PriStep
  <1>3. CASE i.op = "constalt"
    <2>1. t = SetAlt(s, i.n, yes) /\ n = [m EXCEPT !.alt = i.n]
      BY <1>3 DEF Ready, Scanned, Foresee, Effect, Execute, yes
    <2>. QED
      BY <1>1, <2>1, AltStep
  <1>4. CASE i.op = "move"
    <2>1. t = SetPri(s, s.alt, s.altKnown) /\ n = [m EXCEPT !.pri = m.alt]
      BY <1>4 DEF Ready, Scanned, Foresee, Effect, Execute
    <2>2. Lockstep(s, m) /\ ~s.guessed /\ s.altKnown => s.alt = m.alt
      BY DEF Lockstep
    <2>. QED
      BY <1>1, <2>1, <2>2, PriStep
  <1>5. CASE i.op = "movealt"
    <2>1. t = SetAlt(s, s.pri, s.priKnown) /\ n = [m EXCEPT !.alt = m.pri]
      BY <1>5 DEF Ready, Scanned, Foresee, Effect, Execute
    <2>2. Lockstep(s, m) /\ ~s.guessed /\ s.priKnown => s.pri = m.pri
      BY DEF Lockstep
    <2>. QED
      BY <1>1, <2>1, <2>2, AltStep
  <1>6. CASE i.op = "idxaddr"
    <2>. DEFINE v == s.pri + s.alt
                w == m.pri + m.alt
                k == s.priKnown /\ s.altKnown
    <2>1. t = SetPri(s, v, k) /\ n = [m EXCEPT !.pri = w]
      BY <1>6 DEF Ready, Scanned, Foresee, Effect, Execute
    <2>2. v \in Int /\ w \in Int /\ k \in BOOLEAN /\ (Lockstep(s, m) /\ ~s.guessed /\ k => v = w)
      BY <1>1 DEF Lockstep
    <2>. HIDE DEF v, w, k
    <2>. QED
      BY <2>1, <2>2, PriStep
  <1>7. CASE i.op = "xchg"
    <2>. DEFINE u == SetAlt(s, s.pri, s.priKnown)
    <2>1. t = SetPri(u, s.alt, s.altKnown) /\ n = [m EXCEPT !.pri = m.alt, !.alt = m.pri]
      BY <1>7 DEF Ready, Scanned, Foresee, Effect, Execute
    <2>2. /\ ScanTypes(u) /\ u.alt = s.pri /\ (u.altKnown <=> s.priKnown)
          /\ u.stk = s.stk /\ u.hea = s.hea /\ SamePushed(u, s) /\ u.guessed = s.guessed /\ SameVerdict(u, s)
      BY <1>1, SetAltFields DEF Ready
    <2>. HIDE DEF u
    <2>3. /\ ScanTypes(t) /\ t.pri = s.alt /\ (t.priKnown <=> s.altKnown) /\ SameAlt(t, u)
          /\ t.stk = u.stk /\ t.hea = u.hea /\ SamePushed(t, u) /\ t.guessed = u.guessed /\ SameVerdict(t, u)
      <3>1. ScanTypes(u) /\ s.alt \in Int /\ s.altKnown \in BOOLEAN /\ t = SetPri(u, s.alt, s.altKnown)
        BY <1>1, <2>1, <2>2
      <3>. QED
        BY <3>1, SetPriFields
    <2>4. /\ MachineTypes(n) /\ n.alt = m.pri /\ n.pri = m.alt /\ n.stk = m.stk /\ n.hea = m.hea
          /\ n.mem = m.mem /\ n.error = m.error /\ n.left = m.left
      BY <2>1 DEF Ready, MachineTypes
    <2>5. Lockstep(s, m) /\ ~t.guessed => /\ t.priKnown => t.pri = n.pri
                                          /\ t.altKnown => t.alt = n.alt
      BY <2>2, <2>3, <2>4 DEF Lockstep, SameAlt
    <2>. QED
      BY <2>2, <2>3, <2>4, <2>5, QuietStep DEF Ready, SamePushed, SameVerdict
  <1>. QED
    BY <1>2, <1>3, <1>4, <1>5, <1>6, <1>7

(* What forgetting both registers changes.                                 *)
LEMMA ForgetFields ==
    ASSUME NEW s, ScanTypes(s), NEW g \in BOOLEAN,
           NEW t, t = [s EXCEPT !.priKnown = FALSE, !.altKnown = FALSE, !.guessed = g]
    PROVE  /\ ScanTypes(t) /\ ~t.priKnown /\ ~t.altKnown /\ t.guessed = g
           /\ t.stk = s.stk /\ t.hea = s.hea /\ SamePushed(t, s) /\ SameVerdict(t, s)
  BY DEF ScanTypes, SamePushed, SameVerdict

(* An instruction after which the scan knows no register is right, unless  *)
(* the VM aborts where the scan was exact.                                 *)
LEMMA ForgetStep ==
    ASSUME NEW s, NEW m, NEW i, NEW p, NEW a, Ready(s, m, i, p, a),
           NEW t, ScanTypes(t), ~t.priKnown, ~t.altKnown, t.guessed = s.guessed,
           t.stk = s.stk, t.hea = s.hea, SamePushed(t, s), SameVerdict(t, s),
           NEW n, MachineTypes(n),
           n.stk = m.stk, n.hea = m.hea, n.mem = m.mem, n.left = m.left,
           n.error = m.error \/ (n.error # "none" /\ (Lockstep(s, m) => ~Exact(s)))
    PROVE  StepIsRight(s, m, t, n)
  <1>1. CASE n.error = m.error
    BY <1>1, QuietStep DEF Ready
  <1>2. CASE n.error # "none" /\ (Lockstep(s, m) => ~Exact(s))
    BY <1>2, MissedStep DEF Ready
  <1>. QED
    BY <1>1, <1>2

(* Loads through a register: the verdict on the address, and the value not *)
(* followed.                                                               *)
LEMMA StepIndirectLoad ==
    ASSUME NEW s, NEW m, NEW i, NEW p, NEW a, Ready(s, m, i, p, a), i.op \in {"loadi", "lidx"},
           NEW t, t = Scanned(s, i), NEW n, n = Execute(m, i, p, a)
    PROVE  MachineTypes(n) /\ StepIsRight(s, m, t, n)
  <1>. DEFINE at(r) == IF i.op = "loadi" THEN r.pri ELSE r.pri + r.alt
              known == s.priKnown /\ (i.op = "loadi" \/ s.altKnown)
              fault == s.reliable /\ known /\ MemInvalid(at(s), s.hea, s.stk)
              aborts == MemInvalid(at(m), m.hea, m.stk)
              v == Data(s.pri, s.pri)
              w == CellOf(m.mem, at(m))
              yes == TRUE
              no == FALSE
  <1>1. t = IF fault THEN Fault(s, "memory", yes) ELSE SetPri(s, v, no)
    <2>1. CASE fault
      <3>1. Foresee(s, i) = Fault(s, "memory", TRUE)
        BY <2>1 DEF Foresee
      <3>2. Fault(s, "memory", TRUE).error = "memory"
        BY DEF Fault, Ready, ScanTypes
      <3>. QED
        BY <2>1, <3>1, <3>2 DEF Scanned
    <2>2. CASE ~fault
      BY <2>2 DEF Ready, Scanned, Foresee, Effect
    <2>. QED
      BY <2>1, <2>2
  <1>2. n = IF aborts THEN Aborts(m, "memory") ELSE [m EXCEPT !.pri = w]
    BY DEF Execute
  <1>3. /\ s.pri \in Int /\ v \in Int /\ w \in Int /\ yes \in BOOLEAN /\ yes /\ no \in BOOLEAN /\ ~no
        /\ "memory" \in Errors \ {"none"}
    <2>1. s.pri \in Int /\ m.mem \in Memories
      BY DEF Ready, ScanTypes, MachineTypes
    <2>. QED
      BY <2>1, CellIsInt, MachineAssumption DEF Data, InData, Errors
  <1>4. Lockstep(s, m) /\ ~s.guessed /\ known /\ s.reliable => (fault <=> aborts)
    BY DEF Lockstep
  <1>5. Exact(s) => ~s.guessed /\ known /\ s.reliable
    BY DEF Exact
  <1>6. fault => s.reliable /\ known
    OBVIOUS
  <1>. HIDE DEF known, fault, aborts, v, w, yes, no, at
  <1>7. MachineTypes(n)
    BY <1>2, <1>3, AbortsFields DEF Ready, MachineTypes
  <1>8. CASE fault
    <2>1. m.error = "none" /\ ~m.left => ~n.left /\ n.error \in {"none", "memory"}
      BY <1>2, <1>3, AbortsFields DEF Ready, MachineTypes
    <2>2. Lockstep(s, m) /\ ~s.guessed => n.error = "memory"
      BY <1>2, <1>3, <1>4, <1>6, <1>8, AbortsFields DEF Ready
    <2>3. t = Fault(s, "memory", yes)
      BY <1>1, <1>8
    <2>. QED
      BY <1>3, <1>7, <2>1, <2>2, <2>3, FaultStep DEF Ready
  <1>9. CASE ~fault /\ ~aborts
    <2>1. t = SetPri(s, v, no) /\ n = [m EXCEPT !.pri = w]
      BY <1>1, <1>2, <1>9
    <2>. QED
      BY <1>3, <2>1, PriStep
  <1>10. CASE ~fault /\ aborts
    <2>1. ScanTypes(t) /\ SameVerdict(t, s)
      BY <1>1, <1>3, <1>10, SetPriFields DEF Ready
    <2>2. n.error = "memory"
      BY <1>2, <1>3, <1>10, AbortsFields DEF Ready
    <2>. QED
      BY <1>4, <1>5, <1>7, <1>10, <2>1, <2>2, MissedStep DEF Ready
  <1>. QED
    BY <1>8, <1>9, <1>10

(* Stores: the verdict on the address, and memory no longer known.         *)
LEMMA StepStore ==
    ASSUME NEW s, NEW m, NEW i, NEW p, NEW a, Ready(s, m, i, p, a), i.op \in {"stori", "stor"},
           NEW t, t = Scanned(s, i), NEW n, n = Execute(m, i, p, a)
    PROVE  MachineTypes(n) /\ StepIsRight(s, m, t, n)
  <1>. DEFINE fault == i.op = "stori" /\ s.reliable /\ s.altKnown /\ MemInvalid(s.alt, s.hea, s.stk)
              aborts == i.op = "stori" /\ MemInvalid(m.alt, m.hea, m.stk)
              w == Written(m.mem, IF i.op = "stori" THEN m.alt ELSE i.n, m.pri)
              yes == TRUE
  <1>1. t = IF fault THEN Fault(s, "memory", yes)
            ELSE [s EXCEPT !.priKnown = FALSE, !.altKnown = FALSE, !.guessed = yes]
    <2>1. CASE fault
      <3>1. Foresee(s, i) = Fault(s, "memory", TRUE)
        BY <2>1 DEF Foresee
      <3>2. Fault(s, "memory", TRUE).error = "memory"
        BY DEF Fault, Ready, ScanTypes
      <3>. QED
        BY <2>1, <3>1, <3>2 DEF Scanned
    <2>2. CASE ~fault
      BY <2>2 DEF Ready, Scanned, Foresee, Effect
    <2>. QED
      BY <2>1, <2>2
  <1>2. n = IF aborts THEN Aborts(m, "memory") ELSE [m EXCEPT !.mem = w]
    BY DEF Execute
  <1>3. w \in Memories /\ yes \in BOOLEAN /\ yes /\ "memory" \in Errors \ {"none"}
    <2>1. i.n \in Int /\ m.alt \in Int /\ m.pri \in Int /\ m.mem \in Memories
      BY DEF Ready, MachineTypes
    <2>. QED
      BY <2>1, WrittenIsMemory DEF Errors
  <1>4. Lockstep(s, m) /\ ~s.guessed /\ s.altKnown => (fault <=> aborts)
    BY DEF Lockstep
  <1>5. fault => s.altKnown
    OBVIOUS
  <1>. HIDE DEF fault, aborts, w, yes
  <1>6. MachineTypes(n)
    BY <1>2, <1>3, AbortsFields DEF Ready, MachineTypes
  <1>7. CASE fault
    <2>1. m.error = "none" /\ ~m.left => ~n.left /\ n.error \in {"none", "memory"}
      BY <1>2, <1>3, AbortsFields DEF Ready, MachineTypes
    <2>2. Lockstep(s, m) /\ ~s.guessed => n.error = "memory"
      BY <1>2, <1>3, <1>4, <1>5, <1>7, AbortsFields DEF Ready
    <2>3. t = Fault(s, "memory", yes)
      BY <1>1, <1>7
    <2>. QED
      BY <1>3, <1>6, <2>1, <2>2, <2>3, FaultStep DEF Ready
  <1>8. CASE ~fault
    <2>1. /\ ScanTypes(t) /\ t.guessed /\ ~t.priKnown /\ ~t.altKnown
          /\ t.stk = s.stk /\ t.hea = s.hea /\ SamePushed(t, s) /\ SameVerdict(t, s)
      BY <1>1, <1>3, <1>8, ForgetFields DEF Ready
    <2>2. CASE ~aborts
      <3>1. n.stk = m.stk /\ n.hea = m.hea /\ n.error = m.error /\ n.left = m.left
        BY <1>2, <2>2 DEF Ready, MachineTypes
      <3>. QED
        BY <1>6, <2>1, <3>1, QuietStep DEF Ready
    <2>3. CASE aborts
      <3>1. n.error = "memory"
        BY <1>2, <1>3, <2>3, AbortsFields DEF Ready
      <3>2. Lockstep(s, m) => ~Exact(s)
        BY <1>4, <1>8, <2>3 DEF Exact
      <3>. QED
        BY <1>6, <2>1, <3>1, <3>2, MissedStep DEF Ready
    <2>. QED
      BY <2>2, <2>3
  <1>. QED
    BY <1>7, <1>8

(* Divisions and bounds: the verdict is given on a register that may not   *)
(* be exact, and is then not sound.                                        *)
LEMMA StepChecked ==
    ASSUME NEW s, NEW m, NEW i, NEW p, NEW a, Ready(s, m, i, p, a), i.op \in {"div", "divalt", "bounds"},
           NEW t, t = Scanned(s, i), NEW n, n = Execute(m, i, p, a)
    PROVE  MachineTypes(n) /\ StepIsRight(s, m, t, n)
  <1>. DEFINE fails(r) == CASE i.op = "div" -> r.alt = 0
                            [] i.op = "divalt" -> r.pri = 0
                            [] OTHER -> Above(r.pri, i.n)
              fault == fails(s)
              aborts == fails(m)
              e == IF i.op = "bounds" THEN "bounds" ELSE "divide"
              k == IF i.op = "div" THEN s.altKnown ELSE s.priKnown
  <1>1. t = IF fault THEN Fault(s, e, k) ELSE [s EXCEPT !.priKnown = FALSE, !.altKnown = FALSE]
    <2>1. CASE fault
      <3>1. Foresee(s, i) = Fault(s, e, k)
        BY <2>1 DEF Foresee
      <3>2. Fault(s, e, k).error = e /\ e # "none"
        BY DEF Fault, Ready, ScanTypes
      <3>. QED
        BY <2>1, <3>1, <3>2 DEF Scanned
    <2>2. CASE ~fault
      BY <2>2 DEF Ready, Scanned, Foresee, Effect
    <2>. QED
      BY <2>1, <2>2
  <1>2. n = IF aborts THEN Aborts(m, e)
            ELSE IF i.op = "bounds" THEN m ELSE [m EXCEPT !.pri = p, !.alt = a]
    BY DEF Execute
  <1>3. e \in Errors \ {"none"} /\ k \in BOOLEAN /\ p \in Int /\ a \in Int
    BY DEF Ready, ScanTypes, Errors
  <1>4. Lockstep(s, m) /\ ~s.guessed /\ k => (fault <=> aborts)
    BY DEF Lockstep
  <1>5. Exact(s) => ~s.guessed /\ k
    BY DEF Exact
  <1>. HIDE DEF fails, fault, aborts, e, k
  <1>6. /\ MachineTypes(n)
        /\ n.stk = m.stk /\ n.hea = m.hea /\ n.mem = m.mem /\ n.left = m.left
        /\ n.error = IF aborts THEN e ELSE m.error
    <2>1. CASE aborts
      BY <1>2, <1>3, <2>1, AbortsFields DEF Ready
    <2>2. CASE ~aborts /\ i.op = "bounds"
      BY <1>2, <2>2 DEF Ready
    <2>3. CASE ~aborts /\ i.op # "bounds"
      BY <1>2, <1>3, <2>3 DEF Ready, MachineTypes
    <2>. QED
      BY <2>1, <2>2, <2>3
  <1>7. CASE fault
    <2>1. m.error = "none" /\ ~m.left => ~n.left /\ n.error \in {"none", e}
      BY <1>6
    <2>2. Lockstep(s, m) /\ ~s.guessed /\ k => n.error = e
      BY <1>4, <1>6, <1>7
    <2>3. t = Fault(s, e, k)
      BY <1>1, <1>7
    <2>. QED
      BY <1>3, <2>1, <2>2, <2>3, <1>6, FaultStep DEF Ready
  <1>8. CASE ~fault
    <2>1. /\ ScanTypes(t) /\ ~t.priKnown /\ ~t.altKnown /\ t.guessed = s.guessed
          /\ t.stk = s.stk /\ t.hea = s.hea /\ SamePushed(t, s) /\ SameVerdict(t, s)
      BY <1>1, <1>8 DEF Ready, ScanTypes, SamePushed, SameVerdict
    <2>2. n.error = m.error \/ (n.error # "none" /\ (Lockstep(s, m) => ~Exact(s)))
      BY <1>3, <1>4, <1>5, <1>6, <1>8
    <2>. QED
      BY <1>6, <2>1, <2>2, ForgetStep
  <1>. QED
    BY <1>7, <1>8

(* What the scan does not follow.                                          *)
LEMMA StepOther ==
    ASSUME NEW s, NEW m, NEW i, NEW p, NEW a, Ready(s, m, i, p, a), i.op = "other",
           NEW t, t = Scanned(s, i), NEW n, n = Execute(m, i, p, a)
    PROVE  MachineTypes(n) /\ StepIsRight(s, m, t, n)
  <1>1. t = [s EXCEPT !.priKnown = FALSE, !.altKnown = FALSE]
    BY DEF Ready, Scanned, Foresee, Effect
  <1>2. n = [m EXCEPT !.pri = p, !.alt = a]
    BY DEF Execute
  <1>3. /\ MachineTypes(n) /\ n.stk = m.stk /\ n.hea = m.hea /\ n.mem = m.mem
        /\ n.error = m.error /\ n.left = m.left
    BY <1>2 DEF Ready, MachineTypes
  <1>4. /\ ScanTypes(t) /\ ~t.priKnown /\ ~t.altKnown /\ t.guessed = s.guessed
        /\ t.stk = s.stk /\ t.hea = s.hea /\ SamePushed(t, s) /\ SameVerdict(t, s)
    BY <1>1 DEF Ready, ScanTypes, SamePushed, SameVerdict
  <1>. QED
    BY <1>3, <1>4, ForgetStep

(* A jump leaves the line, and every verdict after it is unsound.          *)
LEMMA StepJump ==
    ASSUME NEW s, NEW m, NEW i, NEW p, NEW a, Ready(s, m, i, p, a), i.op = "jump",
           NEW t, t = Scanned(s, i), NEW n, n = Execute(m, i, p, a)
    PROVE  MachineTypes(n) /\ StepIsRight(s, m, t, n)
  <1>1. t = [s EXCEPT !.reliable = FALSE, !.priKnown = FALSE, !.altKnown = FALSE]
    BY DEF Ready, Scanned, Foresee, Effect
  <1>2. n = [m EXCEPT !.left = TRUE]
    BY DEF Execute
  <1>3. MachineTypes(n) /\ n.left /\ n.error = m.error
    BY <1>2 DEF Ready, MachineTypes
  <1>4. ScanTypes(t) /\ ~t.reliable /\ t.error = "none"
    BY <1>1 DEF Ready, ScanTypes
  <1>. QED
    BY <1>3, <1>4 DEF StepIsRight, Agreeing, Parted, Right

(* A push of what is exact keeps scan and VM in lockstep.                  *)
LEMMA PushKeepsLockstep ==
    ASSUME NEW s, ScanTypes(s), NEW m, MachineTypes(m), NEW v \in Seq(Int), NEW x \in Int,
           NEW t, t.stk = s.stk - 1, t.hea = s.hea, t.pushed = Append(s.pushed, v),
           t.covered = s.covered \union {s.stk - 1}, t.reliable = s.reliable,
           SamePri(t, s), SameAlt(t, s), ~t.guessed => ~s.guessed,
           NEW n, n = VMPush(m, x),
           Lockstep(s, m) /\ ~t.guessed /\ v # <<>> => v[1] = x,
           Lockstep(s, m)
    PROVE  Lockstep(t, n)
  <1>1. /\ n.pri = m.pri /\ n.alt = m.alt /\ n.stk = m.stk - 1 /\ n.hea = m.hea
        /\ n.mem = Written(m.mem, m.stk - 1, x)
    BY VMPushFields
  <1>2. s.stk = m.stk /\ s.stk \in Int /\ s.pushed \in Seq(Seq(Int))
    BY DEF Lockstep, ScanTypes
  <1>3. ASSUME ~t.guessed
        PROVE  PushedAt(t.pushed, t.stk, n.mem) /\ DataAt(t.covered, n.mem)
    <2>1. PushedAt(s.pushed, s.stk, m.mem) /\ DataAt(s.covered, m.mem)
      BY <1>3 DEF Lockstep
    <2>2. v # <<>> => v[1] = x
      BY <1>3
    <2>3. PushedAt(Append(s.pushed, v), s.stk - 1, Written(m.mem, s.stk - 1, x))
      BY <1>2, <2>1, <2>2, PushedMore
    <2>4. DataAt(s.covered \union {s.stk - 1}, Written(m.mem, s.stk - 1, x))
      BY <2>1, DataCovered
    <2>. QED
      BY <1>1, <1>2, <2>3, <2>4
  <1>. QED
    BY <1>1, <1>2, <1>3 DEF Lockstep, SamePri, SameAlt

(* Pushes of a register and of a constant.                                 *)
LEMMA StepPush ==
    ASSUME NEW s, NEW m, NEW i, NEW p, NEW a, Ready(s, m, i, p, a), i.op \in {"push", "pushc"},
           NEW t, t = Scanned(s, i), NEW n, n = Execute(m, i, p, a)
    PROVE  MachineTypes(n) /\ StepIsRight(s, m, t, n)
  <1>. DEFINE v == IF i.op = "push" THEN <<s.pri>> ELSE <<i.n>>
              x == IF i.op = "push" THEN m.pri ELSE i.n
              g == s.guessed \/ (i.op = "push" /\ ~s.priKnown)
              u == Pushing(s, v)
  <1>1. v \in Seq(Int) /\ x \in Int /\ g \in BOOLEAN
    BY DEF Ready, ScanTypes, MachineTypes
  <1>2. /\ ScanTypes(u) /\ u.stk = s.stk - 1 /\ u.hea = s.hea /\ u.pushed = Append(s.pushed, v)
        /\ u.covered = s.covered \union {s.stk - 1}
        /\ SamePri(u, s) /\ SameAlt(u, s) /\ u.guessed = s.guessed /\ SameVerdict(u, s)
    BY <1>1, PushingFields DEF Ready
  <1>3. t = [u EXCEPT !.guessed = g]
    <2>1. CASE i.op = "push"
      <3>1. t = [u EXCEPT !.guessed = u.guessed \/ ~s.priKnown]
        BY <2>1, <1>2 DEF Ready, Scanned, Foresee, Effect, ScanTypes
      <3>2. (u.guessed \/ ~s.priKnown) = g
        BY <1>2, <2>1 DEF Ready, ScanTypes
      <3>. QED
        BY <3>1, <3>2
    <2>2. CASE i.op = "pushc"
      <3>1. t = u
        BY <2>2 DEF Ready, Scanned, Foresee, Effect
      <3>2. g = u.guessed
        BY <1>2, <2>2 DEF Ready, ScanTypes
      <3>. HIDE DEF u, g
      <3>. QED
        BY <3>1, <3>2, <1>2 DEF ScanTypes
    <2>. QED
      BY <2>1, <2>2
  <1>4. n = VMPush(m, x)
    BY DEF Execute
  <1>5. Lockstep(s, m) /\ ~g => v[1] = x /\ ~s.guessed
    BY DEF Lockstep, Ready, ScanTypes
  <1>. HIDE DEF v, x, g, u
  <1>6. /\ ScanTypes(t) /\ t.stk = s.stk - 1 /\ t.hea = s.hea /\ t.pushed = Append(s.pushed, v)
        /\ t.covered = s.covered \union {s.stk - 1} /\ t.guessed = g
        /\ SamePri(t, s) /\ SameAlt(t, s) /\ SameVerdict(t, s)
    BY <1>1, <1>2, <1>3 DEF ScanTypes, SamePri, SameAlt, SameVerdict
  <1>7. MachineTypes(n) /\ n.error = m.error /\ n.left = m.left
    <2>1. MachineTypes(m) /\ x \in Int /\ n = VMPush(m, x)
      BY <1>1, <1>4 DEF Ready
    <2>. QED
      BY <2>1, VMPushFields
  <1>8. t.reliable = s.reliable /\ (~t.guessed => ~s.guessed)
    BY <1>3, <1>6 DEF SameVerdict, g
  <1>9. Lockstep(s, m) => Lockstep(t, n)
    BY <1>1, <1>4, <1>5, <1>6, <1>8, PushKeepsLockstep DEF Ready
  <1>. QED
    BY <1>6, <1>7, <1>9 DEF Ready, StepIsRight, Agreeing, Parted, Right, SameVerdict

(* A push of two values that are not followed.                             *)
LEMMA StepPushes ==
    ASSUME NEW s, NEW m, NEW i, NEW p, NEW a, Ready(s, m, i, p, a), i.op = "pushes",
           NEW t, t = Scanned(s, i), NEW n, n = Execute(m, i, p, a)
    PROVE  MachineTypes(n) /\ StepIsRight(s, m, t, n)
  <1>. DEFINE u == Pushing(s, <<>>)
              h == VMPush(m, p)
  <1>1. t = Pushing(u, <<>>) /\ n = VMPush(h, a)
    BY DEF Ready, Scanned, Foresee, Effect, Execute
  <1>2. ScanTypes(s) /\ MachineTypes(m) /\ <<>> \in Seq(Int) /\ p \in Int /\ a \in Int /\ s.error = "none"
    BY DEF Ready
  <1>3. /\ ScanTypes(u) /\ u.stk = s.stk - 1 /\ u.hea = s.hea /\ u.pushed = Append(s.pushed, <<>>)
        /\ u.covered = s.covered \union {s.stk - 1}
        /\ SamePri(u, s) /\ SameAlt(u, s) /\ u.guessed = s.guessed /\ SameVerdict(u, s)
    BY <1>2, PushingFields
  <1>4. MachineTypes(h) /\ h.error = m.error /\ h.left = m.left
    BY <1>2, VMPushFields
  <1>5. Lockstep(s, m) => Lockstep(u, h)
    BY <1>2, <1>3, PushKeepsLockstep DEF SameVerdict
  <1>. HIDE DEF u, h
  <1>6. /\ ScanTypes(t) /\ t.stk = u.stk - 1 /\ t.hea = u.hea /\ t.pushed = Append(u.pushed, <<>>)
        /\ t.covered = u.covered \union {u.stk - 1}
        /\ SamePri(t, u) /\ SameAlt(t, u) /\ t.guessed = u.guessed /\ SameVerdict(t, u)
    <2>1. ScanTypes(u) /\ <<>> \in Seq(Int) /\ t = Pushing(u, <<>>)
      BY <1>1, <1>2, <1>3
    <2>. QED
      BY <2>1, PushingFields
  <1>7. MachineTypes(n) /\ n.error = h.error /\ n.left = h.left
    BY <1>1, <1>2, <1>4, VMPushFields
  <1>8. Lockstep(u, h) => Lockstep(t, n)
    BY <1>1, <1>2, <1>3, <1>4, <1>6, PushKeepsLockstep DEF SameVerdict
  <1>. QED
    BY <1>2, <1>3, <1>4, <1>5, <1>6, <1>7, <1>8 DEF StepIsRight, Agreeing, Parted, Right, SameVerdict

(* A pop gives both the same value.                                        *)
LEMMA PopKeepsLockstep ==
    ASSUME NEW s, ScanTypes(s), NEW m, MachineTypes(m), Lockstep(s, m),
           NEW u, u = Popping(s), NEW v, v = Popped(s), ~s.guessed
    PROVE  /\ PushedAt(u.pushed, u.stk, m.mem)
           /\ v # <<>> => CellOf(m.mem, m.stk) = v[1]
  <1>1. u.stk = s.stk + 1 /\ u.pushed = IF s.pushed = <<>> THEN <<>> ELSE Front(s.pushed)
    BY PoppingFields
  <1>2. s.stk = m.stk /\ s.stk \in Int /\ s.pushed \in Seq(Seq(Int)) /\ PushedAt(s.pushed, s.stk, m.mem)
    BY DEF Lockstep, ScanTypes
  <1>3. CASE s.pushed = <<>>
    <2>1. u.pushed = <<>> /\ v = <<>>
      BY <1>1, <1>3 DEF Popped
    <2>. QED
      BY <2>1 DEF PushedAt
  <1>4. CASE s.pushed # <<>>
    <2>1. v = Last(s.pushed) /\ u.pushed = Front(s.pushed)
      BY <1>1, <1>4 DEF Popped
    <2>2. /\ PushedAt(Front(s.pushed), s.stk + 1, m.mem)
          /\ Last(s.pushed) # <<>> => CellOf(m.mem, s.stk) = Last(s.pushed)[1]
      BY <1>2, <1>4, PushedLess
    <2>. QED
      BY <1>1, <1>2, <2>1, <2>2
  <1>. QED
    BY <1>3, <1>4

(* Pops into either register.                                              *)
LEMMA StepPop ==
    ASSUME NEW s, NEW m, NEW i, NEW p, NEW a, Ready(s, m, i, p, a), i.op \in {"pop", "popalt"},
           NEW t, t = Scanned(s, i), NEW n, n = Execute(m, i, p, a)
    PROVE  MachineTypes(n) /\ StepIsRight(s, m, t, n)
  <1>. DEFINE u == Popping(s)
              q == Popped(s)
              k == q # <<>>
              v == IF q = <<>> THEN IF i.op = "pop" THEN s.pri ELSE s.alt ELSE q[1]
              w == CellOf(m.mem, m.stk)
  <1>1. /\ i.op = "pop" => t = SetPri(u, v, k) /\ n = [m EXCEPT !.pri = w, !.stk = m.stk + 1]
        /\ i.op = "popalt" => t = SetAlt(u, v, k) /\ n = [m EXCEPT !.alt = w, !.stk = m.stk + 1]
    BY DEF Ready, Scanned, Foresee, Effect, Execute, MachineTypes
  <1>2. /\ ScanTypes(s) /\ MachineTypes(m) /\ s.error = "none"
        /\ s.pri \in Int /\ s.alt \in Int /\ m.mem \in Memories /\ m.stk \in Int
    BY DEF Ready, ScanTypes, MachineTypes
  <1>3. v \in Int /\ w \in Int /\ k \in BOOLEAN /\ m.stk + 1 \in Int
    BY <1>2, PoppedValue, CellIsInt
  <1>4. /\ ScanTypes(u) /\ u.stk = s.stk + 1 /\ u.hea = s.hea /\ u.covered = s.covered
        /\ SamePri(u, s) /\ SameAlt(u, s) /\ u.guessed = s.guessed /\ SameVerdict(u, s)
    BY <1>2, PoppingFields
  <1>5. Lockstep(s, m) /\ ~s.guessed => PushedAt(u.pushed, u.stk, m.mem) /\ (k => v = w)
    BY <1>2, PopKeepsLockstep
  <1>. HIDE DEF u, q, k, v, w
  <1>6. CASE i.op = "pop"
    <2>1. /\ ScanTypes(t) /\ t.pri = v /\ (t.priKnown <=> k) /\ SameAlt(t, u)
          /\ t.stk = u.stk /\ t.hea = u.hea /\ SamePushed(t, u) /\ t.guessed = u.guessed /\ SameVerdict(t, u)
      BY <1>1, <1>3, <1>4, <1>6, SetPriFields
    <2>2. /\ MachineTypes(n) /\ n.pri = w /\ n.alt = m.alt /\ n.stk = m.stk + 1 /\ n.hea = m.hea
          /\ n.mem = m.mem /\ n.error = m.error /\ n.left = m.left
      BY <1>1, <1>2, <1>3, <1>6 DEF MachineTypes
    <2>3. Lockstep(s, m) => Lockstep(t, n)
      BY <1>4, <1>5, <2>1, <2>2 DEF Lockstep, SamePushed, SameAlt, SameVerdict
    <2>. QED
      BY <1>2, <1>4, <2>1, <2>2, <2>3 DEF StepIsRight, Agreeing, Parted, Right, SameVerdict
  <1>7. CASE i.op = "popalt"
    <2>1. /\ ScanTypes(t) /\ t.alt = v /\ (t.altKnown <=> k) /\ SamePri(t, u)
          /\ t.stk = u.stk /\ t.hea = u.hea /\ SamePushed(t, u) /\ t.guessed = u.guessed /\ SameVerdict(t, u)
      BY <1>1, <1>3, <1>4, <1>7, SetAltFields
    <2>2. /\ MachineTypes(n) /\ n.alt = w /\ n.pri = m.pri /\ n.stk = m.stk + 1 /\ n.hea = m.hea
          /\ n.mem = m.mem /\ n.error = m.error /\ n.left = m.left
      BY <1>1, <1>2, <1>3, <1>7 DEF MachineTypes
    <2>3. Lockstep(s, m) => Lockstep(t, n)
      BY <1>4, <1>5, <2>1, <2>2 DEF Lockstep, SamePushed, SamePri, SameVerdict
    <2>. QED
      BY <1>2, <1>4, <2>1, <2>2, <2>3 DEF StepIsRight, Agreeing, Parted, Right, SameVerdict
  <1>. QED
    BY <1>6, <1>7

(* The check of stack against heap is right if both hold the same stack    *)
(* and heap.                                                               *)
LEMMA OverflowStep ==
    ASSUME NEW s, NEW m, NEW u, ScanTypes(u), u.error = "none", u.reliable = s.reliable,
           NEW h, MachineTypes(h), h.error = m.error, h.left = m.left,
           Lockstep(s, m) => Lockstep(u, h),
           NEW t, t = Overflow(u), NEW n, n = Margins(h)
    PROVE  MachineTypes(n) /\ StepIsRight(s, m, t, n)
  <1>1. /\ ScanTypes(t) /\ t.reliable = u.reliable
        /\ u.reliable /\ Collides(u.hea, u.stk) => t.error = "stack"
        /\ ~(u.reliable /\ Collides(u.hea, u.stk)) => t = u
    BY OverflowFields
  <1>2. /\ MachineTypes(n) /\ n.stk = h.stk /\ n.hea = h.hea /\ n.left = h.left
        /\ n.error = IF Collides(h.hea, h.stk) THEN "stack" ELSE h.error
    BY MarginsFields
  <1>3. ~Collides(h.hea, h.stk) => n = h
    BY DEF Margins
  <1>4. CASE Lockstep(s, m)
    <2>1. u.reliable /\ u.hea = h.hea /\ u.stk = h.stk /\ Lockstep(u, h)
      BY <1>4 DEF Lockstep
    <2>2. CASE Collides(h.hea, h.stk)
      BY <1>1, <1>2, <2>1, <2>2 DEF StepIsRight, Agreeing, Parted, Right
    <2>3. CASE ~Collides(h.hea, h.stk)
      BY <1>1, <1>2, <1>3, <2>1, <2>3 DEF StepIsRight, Agreeing, Parted, Right
    <2>. QED
      BY <2>2, <2>3
  <1>5. CASE ~Lockstep(s, m)
    BY <1>1, <1>2, <1>5 DEF StepIsRight, Agreeing, Parted
  <1>. QED
    BY <1>4, <1>5

(* A move of the stack, with the check of it against the heap.             *)
LEMMA StepStack ==
    ASSUME NEW s, NEW m, NEW i, NEW p, NEW a, Ready(s, m, i, p, a), i.op = "stack",
           NEW t, t = Scanned(s, i), NEW n, n = Execute(m, i, p, a)
    PROVE  MachineTypes(n) /\ StepIsRight(s, m, t, n)
  <1>. DEFINE yes == TRUE
              b == SetAlt(s, s.stk, yes)
              u == Moving(b, i.n)
              h == [m EXCEPT !.alt = m.stk, !.stk = m.stk + i.n]
  <1>1. t = Overflow(u) /\ n = Margins(h)
    BY DEF Ready, Scanned, Foresee, Effect, Execute, MachineTypes
  <1>2. /\ ScanTypes(s) /\ s.error = "none" /\ s.stk \in Int /\ s.pushed \in Seq(Seq(Int))
        /\ i.n \in Int /\ yes \in BOOLEAN /\ yes
    BY DEF Ready, ScanTypes
  <1>3. /\ MachineTypes(h) /\ h.pri = m.pri /\ h.alt = m.stk /\ h.stk = m.stk + i.n /\ h.hea = m.hea
        /\ h.mem = m.mem /\ h.error = m.error /\ h.left = m.left
    <2>1. MachineTypes(m) /\ m.stk \in Int /\ m.stk + i.n \in Int
      BY <1>2 DEF Ready, MachineTypes
    <2>. QED
      BY <2>1 DEF MachineTypes
  <1>. HIDE DEF yes
  <1>4. /\ ScanTypes(b) /\ b.alt = s.stk /\ (b.altKnown <=> yes) /\ SamePri(b, s)
        /\ b.stk = s.stk /\ b.hea = s.hea /\ SamePushed(b, s) /\ b.guessed = s.guessed /\ SameVerdict(b, s)
    BY <1>2, SetAltFields
  <1>. HIDE DEF b, h
  <1>5. /\ ScanTypes(u) /\ u.stk = b.stk + i.n /\ u.hea = b.hea
        /\ (u.guessed <=> b.guessed \/ b.pushed # <<>>)
        /\ SamePri(u, b) /\ SameAlt(u, b) /\ SamePushed(u, b) /\ SameVerdict(u, b)
    BY <1>2, <1>4, MovingFields
  <1>. HIDE DEF u
  <1>6. ASSUME Lockstep(s, m)
        PROVE  Lockstep(u, h)
    <2>1. ~u.guessed => PushedAt(u.pushed, u.stk, h.mem)
      BY <1>4, <1>5 DEF SamePushed, PushedAt
    <2>. QED
      BY <1>2, <1>3, <1>4, <1>5, <1>6, <2>1
         DEF Lockstep, SamePri, SameAlt, SamePushed, SameVerdict
  <1>7. u.error = "none" /\ u.reliable = s.reliable
    BY <1>2, <1>4, <1>5 DEF SameVerdict
  <1>. QED
    BY <1>1, <1>3, <1>5, <1>6, <1>7, OverflowStep

(* The frame pushed by a function that begins.                             *)
LEMMA StepProc ==
    ASSUME NEW s, NEW m, NEW i, NEW p, NEW a, Ready(s, m, i, p, a), i.op = "proc",
           NEW t, t = Scanned(s, i), NEW n, n = Execute(m, i, p, a)
    PROVE  MachineTypes(n) /\ StepIsRight(s, m, t, n)
  <1>. DEFINE b == Moving(s, -1)
              c == s.covered \union {s.stk - 1}
              u == [b EXCEPT !.covered = c]
              h == VMPush(m, Frm)
  <1>1. /\ ScanTypes(s) /\ MachineTypes(m) /\ s.error = "none" /\ s.stk \in Int
        /\ s.pushed \in Seq(Seq(Int)) /\ -1 \in Int /\ Frm \in Int /\ c \in SUBSET Int
    BY MachineAssumption DEF Ready, ScanTypes
  <1>2. /\ ScanTypes(b) /\ b.stk = s.stk + (-1) /\ b.hea = s.hea
        /\ (b.guessed <=> s.guessed \/ s.pushed # <<>>)
        /\ SamePri(b, s) /\ SameAlt(b, s) /\ SamePushed(b, s) /\ SameVerdict(b, s)
    BY <1>1, MovingFields
  <1>3. t = Overflow(u) /\ n = Margins(h)
    <2>1. t = Overflow([b EXCEPT !.covered = b.covered \union {s.stk - 1}])
      BY <1>2 DEF Ready, Scanned, Foresee, Effect, ScanTypes
    <2>2. b.covered = s.covered
      BY <1>2 DEF SamePushed
    <2>3. n = Margins(h)
      BY DEF Execute
    <2>. QED
      BY <2>1, <2>2, <2>3
  <1>4. /\ MachineTypes(h) /\ h.pri = m.pri /\ h.alt = m.alt /\ h.stk = m.stk - 1 /\ h.hea = m.hea
        /\ h.mem = Written(m.mem, m.stk - 1, Frm) /\ h.error = m.error /\ h.left = m.left
    BY <1>1, VMPushFields
  <1>. HIDE DEF b, c, h
  <1>5. /\ ScanTypes(u) /\ u.stk = s.stk - 1 /\ u.hea = s.hea /\ u.pushed = s.pushed /\ u.covered = c
        /\ (u.guessed <=> s.guessed \/ s.pushed # <<>>)
        /\ SamePri(u, s) /\ SameAlt(u, s) /\ SameVerdict(u, s)
    BY <1>1, <1>2 DEF ScanTypes, SamePri, SameAlt, SamePushed, SameVerdict
  <1>. HIDE DEF u
  <1>6. ASSUME Lockstep(s, m)
        PROVE  Lockstep(u, h)
    <2>1. ~u.guessed => PushedAt(u.pushed, u.stk, h.mem)
      BY <1>5 DEF PushedAt
    <2>2. s.stk = m.stk
      BY <1>6 DEF Lockstep
    <2>3. ~u.guessed => DataAt(u.covered, h.mem)
      BY <1>4, <1>5, <1>6, <2>2, DataCovered DEF Lockstep, c
    <2>. QED
      BY <1>4, <1>5, <1>6, <2>1, <2>2, <2>3 DEF Lockstep, SamePri, SameAlt, SameVerdict
  <1>7. u.error = "none" /\ u.reliable = s.reliable
    BY <1>1, <1>5 DEF SameVerdict
  <1>. QED
    BY <1>3, <1>4, <1>5, <1>6, <1>7, OverflowStep

(* A move of the heap: the check against the stack comes before that of    *)
(* its low mark, in both.                                                  *)
LEMMA StepHeap ==
    ASSUME NEW s, NEW m, NEW i, NEW p, NEW a, Ready(s, m, i, p, a), i.op = "heap",
           NEW t, t = Scanned(s, i), NEW n, n = Execute(m, i, p, a)
    PROVE  MachineTypes(n) /\ StepIsRight(s, m, t, n)
  <1>. DEFINE yes == TRUE
              b == SetAlt(s, s.hea, yes)
              u == [b EXCEPT !.hea = s.hea + i.n]
              h == [m EXCEPT !.alt = m.hea, !.hea = m.hea + i.n]
  <1>1. /\ ScanTypes(s) /\ s.error = "none" /\ s.hea \in Int /\ s.hea + i.n \in Int
        /\ i.n \in Int /\ yes \in BOOLEAN /\ yes
    BY DEF Ready, ScanTypes
  <1>. HIDE DEF yes
  <1>2. /\ ScanTypes(b) /\ b.alt = s.hea /\ (b.altKnown <=> yes) /\ SamePri(b, s)
        /\ b.stk = s.stk /\ b.hea = s.hea /\ SamePushed(b, s) /\ b.guessed = s.guessed /\ SameVerdict(b, s)
    BY <1>1, SetAltFields
  <1>3. t = IF Overflow(u).error = "none" /\ u.reliable /\ u.hea < Hlw
            THEN Fault(u, "heap", yes) ELSE Overflow(u)
    <2>1. u = [b EXCEPT !.hea = @ + i.n]
      BY <1>2 DEF ScanTypes
    <2>2. s.error = "none" /\ Foresee(s, i) = s
      BY <1>1 DEF Foresee
    <2>3. Scanned(s, i) = Effect(s, i)
      BY <2>2 DEF Scanned
    <2>. HIDE DEF u
    <2>. QED
      BY <2>1, <2>3 DEF Effect, yes
  <1>4. n = IF Margins(h).error # "none" THEN Margins(h)
            ELSE IF h.hea < Hlw THEN Aborts(h, "heap") ELSE h
    BY DEF Execute, Ready, MachineTypes
  <1>5. /\ MachineTypes(h) /\ h.pri = m.pri /\ h.alt = m.hea /\ h.stk = m.stk /\ h.hea = m.hea + i.n
        /\ h.mem = m.mem /\ h.error = m.error /\ h.left = m.left
    <2>1. MachineTypes(m) /\ m.hea \in Int /\ m.hea + i.n \in Int
      BY <1>1 DEF Ready, MachineTypes
    <2>. QED
      BY <2>1 DEF MachineTypes
  <1>. HIDE DEF b, h
  <1>6. /\ ScanTypes(u) /\ u.stk = s.stk /\ u.hea = s.hea + i.n /\ u.alt = s.hea /\ u.altKnown
        /\ SamePri(u, s) /\ SamePushed(u, s) /\ u.guessed = s.guessed /\ SameVerdict(u, s)
    BY <1>1, <1>2 DEF ScanTypes, SamePri, SamePushed, SameVerdict
  <1>. HIDE DEF u
  <1>7. Lockstep(s, m) => Lockstep(u, h)
    BY <1>5, <1>6 DEF Lockstep, SamePri, SamePushed, SameVerdict
  <1>8. u.error = "none" /\ u.reliable = s.reliable
    BY <1>1, <1>6 DEF SameVerdict
  <1>9. /\ MachineTypes(Margins(h)) /\ StepIsRight(s, m, Overflow(u), Margins(h))
    BY <1>5, <1>6, <1>7, <1>8, OverflowStep
  <1>10. /\ "heap" \in Errors /\ MachineTypes(Aborts(h, "heap"))
         /\ Aborts(h, "heap").error = "heap" /\ Aborts(h, "heap").left = m.left
    BY <1>5, AbortsFields DEF Errors
  <1>11. /\ ScanTypes(Fault(u, "heap", yes)) /\ Fault(u, "heap", yes).error = "heap"
         /\ Fault(u, "heap", yes).reliable = s.reliable
    <2>1. ScanTypes(u) /\ "heap" \in Errors /\ yes \in BOOLEAN
      BY <1>1, <1>6, <1>10
    <2>. QED
      BY <2>1, <1>8, FaultFields
  <1>12. MachineTypes(n)
    BY <1>4, <1>5, <1>9, <1>10
  <1>13. /\ ScanTypes(t) /\ (~s.reliable => Parted(t))
    BY <1>3, <1>8, <1>9, <1>11 DEF StepIsRight
  <1>14. ASSUME Lockstep(s, m), m.error = "none", ~m.left
         PROVE  Agreeing(Exact(s), t, n)
    <2>1. u.reliable /\ u.hea = h.hea /\ u.stk = h.stk /\ h.error = "none" /\ ~h.left
      BY <1>5, <1>7, <1>14 DEF Lockstep
    <2>2. CASE Collides(h.hea, h.stk)
      <3>1. Overflow(u).error = "stack" /\ Margins(h).error = "stack"
        BY <1>5, <1>6, <2>1, <2>2, OverflowFields, MarginsFields
      <3>2. t = Overflow(u) /\ n = Margins(h)
        BY <1>3, <1>4, <3>1
      <3>. QED
        BY <1>9, <1>14, <3>2 DEF StepIsRight
    <2>3. CASE ~Collides(h.hea, h.stk)
      <3>1. Overflow(u) = u /\ Margins(h) = h
        BY <2>1, <2>3 DEF Overflow, Margins
      <3>2. CASE h.hea < Hlw
        <4>1. t = Fault(u, "heap", yes) /\ n = Aborts(h, "heap")
          BY <1>3, <1>4, <1>8, <2>1, <3>1, <3>2
        <4>. QED
          BY <1>10, <1>11, <4>1 DEF Agreeing, Right
      <3>3. CASE ~(h.hea < Hlw)
        <4>1. t = Overflow(u) /\ n = Margins(h)
          BY <1>3, <1>4, <2>1, <3>1, <3>3
        <4>. QED
          BY <1>9, <1>14, <4>1 DEF StepIsRight
      <3>. QED
        BY <3>2, <3>3
    <2>. QED
      BY <2>2, <2>3
  <1>. QED
    BY <1>12, <1>13, <1>14 DEF StepIsRight

(* A call, which checks the stack and leaves the line.                     *)
LEMMA StepCall ==
    ASSUME NEW s, NEW m, NEW i, NEW p, NEW a, Ready(s, m, i, p, a), i.op = "call",
           NEW t, t = Scanned(s, i), NEW n, n = Execute(m, i, p, a)
    PROVE  MachineTypes(n) /\ StepIsRight(s, m, t, n)
  <1>. DEFINE u == [s EXCEPT !.stk = s.stk - 2]
              v == Overflow(u)
              g == VMPush(m, p)
              h == VMPush(g, Frm)
              k == Margins(h)
  <1>1. /\ ScanTypes(s) /\ MachineTypes(m) /\ s.error = "none" /\ s.stk \in Int /\ m.stk \in Int
        /\ p \in Int /\ Frm \in Int
    BY MachineAssumption DEF Ready, ScanTypes, MachineTypes
  <1>2. t = [v EXCEPT !.reliable = FALSE, !.stk = s.stk] /\ n = [k EXCEPT !.left = TRUE]
    <2>1. t = Effect(s, i) /\ u = [s EXCEPT !.stk = @ - 2]
      BY <1>1 DEF Scanned, Foresee, ScanTypes
    <2>2. n = [k EXCEPT !.left = TRUE]
      BY DEF Execute
    <2>. HIDE DEF u
    <2>. QED
      BY <2>1, <2>2 DEF Effect
  <1>3. ScanTypes(u) /\ u.stk = s.stk - 2 /\ u.hea = s.hea /\ u.error = "none" /\ u.reliable = s.reliable
    <2>1. s.stk - 2 \in Int
      BY <1>1
    <2>. QED
      BY <1>1, <2>1 DEF ScanTypes
  <1>4. MachineTypes(g) /\ g.stk = m.stk - 1 /\ g.hea = m.hea /\ g.error = m.error /\ g.left = m.left
    BY <1>1, VMPushFields
  <1>. HIDE DEF u, g
  <1>5. MachineTypes(h) /\ h.stk = g.stk - 1 /\ h.hea = m.hea /\ h.error = m.error /\ h.left = m.left
    BY <1>1, <1>4, VMPushFields
  <1>. HIDE DEF h
  <1>6. MachineTypes(k) /\ k.error = IF Collides(h.hea, h.stk) THEN "stack" ELSE h.error
    BY <1>5, MarginsFields
  <1>7. /\ ScanTypes(v) /\ v.reliable = u.reliable
        /\ u.reliable /\ Collides(u.hea, u.stk) => v.error = "stack"
        /\ ~(u.reliable /\ Collides(u.hea, u.stk)) => v = u
    BY <1>3, OverflowFields
  <1>. HIDE DEF v, k
  <1>8. ScanTypes(t) /\ ~t.reliable /\ t.error = v.error
    BY <1>1, <1>2, <1>7 DEF ScanTypes
  <1>9. MachineTypes(n) /\ n.left /\ n.error = k.error
    BY <1>2, <1>6 DEF MachineTypes
  <1>10. ASSUME Lockstep(s, m), m.error = "none"
         PROVE  t.error = n.error
    <2>1. u.reliable /\ u.hea = h.hea /\ u.stk = h.stk
      BY <1>1, <1>3, <1>4, <1>5, <1>10 DEF Lockstep
    <2>. QED
      BY <1>3, <1>5, <1>6, <1>7, <1>8, <1>9, <1>10, <2>1
  <1>11. ~s.reliable => t.error = "none"
    BY <1>3, <1>7, <1>8
  <1>. QED
    BY <1>8, <1>9, <1>10, <1>11 DEF StepIsRight, Agreeing, Parted, Right

(* Whatever the instruction, the step of the scan is right about that of   *)
(* the VM.                                                                 *)
LEMMA EveryStepIsRight ==
    ASSUME NEW s, NEW m, NEW i, NEW p, NEW a, Ready(s, m, i, p, a)
    PROVE  /\ MachineTypes(Execute(m, i, p, a))
           /\ StepIsRight(s, m, Scanned(s, i), Execute(m, i, p, a))
  <1>1. i.op \in Families
    BY DEF Ready
  <1>. QED
    BY <1>1, StepLoad, StepRegisters, StepIndirectLoad, StepStore, StepChecked, StepOther, StepJump,
       StepPush, StepPushes, StepPop, StepStack, StepProc, StepHeap, StepCall DEF Families

(* The inductive invariant. PredictionsAreRight alone is not inductive:    *)
(* that no abort is foreseen wrongly rests on the registers, the stack and *)
(* the cells that scan and VM have in common.                              *)
ScanInv == /\ ScanTypes(scan) /\ MachineTypes(machine) /\ followed \in BOOLEAN
           /\ Agreeing(followed, scan, machine)

(* The line begins with the scan on a copy of the registers of the VM.     *)
LEMMA ScanInvInit == ScanInit => ScanInv
  <1>. SUFFICES ASSUME ScanInit
                PROVE  ScanInv
    OBVIOUS
  <1>1. /\ Pri \in Int /\ Alt \in Int /\ Stk \in Int /\ Hea \in Int
        /\ Memory \in [DOMAIN Memory -> Int] /\ DOMAIN Memory \in SUBSET Int
    BY MachineAssumption
  <1>2. Memory \in Memories
    BY <1>1 DEF Memories
  <1>3. ScanTypes(scan) /\ MachineTypes(machine)
    BY <1>1, <1>2 DEF ScanInit, LineStart, Registers, ScanTypes, MachineTypes, Errors
  <1>4. PushedAt(<<>>, Stk, Memory) /\ DataAt({}, Memory)
    BY DEF PushedAt, DataAt, CellOf
  <1>5. Lockstep(scan, machine)
    BY <1>4 DEF ScanInit, LineStart, Registers, Lockstep
  <1>. QED
    BY <1>3, <1>5 DEF ScanInv, ScanInit, LineStart, Registers, Agreeing, Right

(* An instruction keeps them in agreement, and after an abort of the VM or *)
(* a line that was left the scan stays right.                              *)
LEMMA ScanInvStep == ScanInv /\ [ScanNext]_scanVars => ScanInv'
  <1>. SUFFICES ASSUME ScanInv, [ScanNext]_scanVars
                PROVE  ScanInv'
    OBVIOUS
  <1>1. CASE UNCHANGED scanVars
    BY <1>1 DEF ScanInv, scanVars
  <1>2. ASSUME NEW o \in Families, NEW k \in OperandsOf(o), Instruction([op |-> o, n |-> k])
        PROVE  ScanInv'
    <2>. DEFINE i == [op |-> o, n |-> k]
    <2>1. PICK p \in Results, a \in Results :
             machine' = IF machine.error # "none" \/ machine.left THEN machine
                        ELSE Execute(machine, i, p, a)
      BY <1>2 DEF Instruction
    <2>2. k \in Int /\ p \in Int /\ a \in Int
      BY MachineAssumption
    <2>3. /\ scan.error = "none" /\ scan' = Scanned(scan, i)
          /\ followed' = (followed /\ Exact(scan))
      BY <1>2 DEF Instruction
    <2>4. Ready(scan, machine, i, p, a)
      BY <2>2, <2>3 DEF ScanInv, Ready
    <2>. HIDE DEF i
    <2>5. /\ MachineTypes(Execute(machine, i, p, a))
          /\ StepIsRight(scan, machine, scan', Execute(machine, i, p, a))
      BY <2>3, <2>4, EveryStepIsRight
    <2>6. ScanTypes(scan') /\ MachineTypes(machine') /\ followed' \in BOOLEAN
      BY <2>1, <2>3, <2>5 DEF ScanInv, StepIsRight
    <2>7. CASE machine.error # "none"
      BY <2>1, <2>3, <2>6, <2>7 DEF ScanInv, Agreeing, Right
    <2>8. CASE machine.error = "none" /\ machine.left
      <3>1. machine' = machine /\ Parted(scan)
        BY <2>1, <2>8 DEF ScanInv, Agreeing
      <3>2. Parted(scan')
        BY <2>5, <3>1 DEF StepIsRight, Parted
      <3>. QED
        BY <2>6, <2>8, <3>1, <3>2 DEF ScanInv, Agreeing, Right, Parted
    <2>9. CASE machine.error = "none" /\ ~machine.left
      <3>1. Lockstep(scan, machine) /\ machine' = Execute(machine, i, p, a)
        BY <2>1, <2>3, <2>9 DEF ScanInv, Agreeing
      <3>2. Agreeing(Exact(scan), scan', machine')
        BY <2>5, <2>9, <3>1 DEF StepIsRight
      <3>. QED
        BY <2>3, <2>6, <3>2 DEF ScanInv, Agreeing, Right
    <2>. QED
      BY <2>7, <2>8, <2>9
  <1>. QED
    BY <1>1, <1>2 DEF ScanNext

(* For any memory, registers, stack and heap, and any instructions in any  *)
(* number: an abort that is announced on exact values happens, and one     *)
(* that happens while the scan is exact is announced under its name.       *)
THEOREM AnnouncedAbortsHappen == ScanSpec => []PredictionsAreRight
  <1>1. ScanInv => PredictionsAreRight
    BY DEF ScanInv, Agreeing, Right, PredictionsAreRight
  <1>. QED
    BY ScanInvInit, ScanInvStep, <1>1, PTL DEF ScanSpec

-----------------------------------------------------------------------------
(* The workbench: whatever its subject, no other subject moves.            *)

(* Its start is one of the panel and of the scan.                          *)
LEMMA WorkbenchStart == WorkbenchInit => PanelInv /\ ScanInv
  BY PanelStart, ScanInvInit DEF WorkbenchInit

(* A step of it is one of the panel, or leaves the panel alone.            *)
LEMMA PanelOfWorkbench == [WorkbenchNext]_allVars => [PanelNext]_panelVars
  BY DEF WorkbenchNext, allVars, OfConfig, Stepping, Inspecting, Foreseeing, Evaluate

(* The same of the scan.                                                   *)
LEMMA ScanOfWorkbench == [WorkbenchNext]_allVars => [ScanNext]_scanVars
  BY DEF WorkbenchNext, allVars, OfConfig, Stepping, Inspecting, Foreseeing, Evaluate

(* What the debugger says of a paused program is so: for any program with  *)
(* arrays of at most two dimensions, any memory, stops and edits, and any  *)
(* instructions, registers, stack and heap.                                *)
THEOREM DebuggerTellsTheTruthCorrect == WorkbenchSpec => []DebuggerTellsTheTruth
  <1>1. PanelInv /\ ScanInv => DebuggerTellsTheTruth
    BY TreesShowMemory, EditsAreReached
       DEF PanelInv, ScanInv, Agreeing, Right, PredictionsAreRight, DebuggerTellsTheTruth
  <1>2. PanelInv /\ ScanInv /\ [WorkbenchNext]_allVars => (PanelInv /\ ScanInv)'
    BY PanelOfWorkbench, ScanOfWorkbench, PanelKept, ScanInvStep
  <1>. QED
    BY WorkbenchStart, <1>1, <1>2, PTL DEF WorkbenchSpec
===============================================================================
