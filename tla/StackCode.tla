----------------------------- MODULE StackCode -----------------------------
(***************************************************************************)
(* The stack code of src/codegen.go, down to the Brainfuck text, and runs  *)
(* of it and of the arithmetic code on the machine: what a program does    *)
(* between two looks at the tape is one operation's text.                  *)
(***************************************************************************)
EXTENDS ArithCode

CONSTANTS
    MaxSlots,       \* bound: how high the stack may grow
    Operations,     \* the operations a program may use (StackMemory)
    Layouts,        \* the tapes a run starts from
    MaxOps          \* bound: operations in a run

VARIABLES
    m,          \* the machine
    text,       \* what it runs: [code, partners]
    pos,        \* g.pos, when nothing is being emitted
    op,         \* the operation whose text runs, or Idle
    ops,        \* how many have run
    cpu, stack  \* what the tape held after the last of them

vars == <<m, text, pos, op, ops, cpu, stack>>

-----------------------------------------------------------------------------
(* Stack operations. *)

\* [[>>>+<<<-]>>>-]: carries a counter up the zero column, as far as it says.
CounterWalk == Loop(Loop(<<Move(3), Add(1), Move(-3), Add(-1)>>) \o <<Move(3), Add(-1)>>)

\* The value goes into the zero cell, and from a value cell back to its guard.
SetAside == <<Add(-1), Move(1), Add(1), Move(-2)>>

\* Mutant of PutBack: the zero cell is not moved back into the value cell.
LeaveAside == <<Move(1), Move(-2)>>

\* From the value cell: the zero cell is moved back; ends at the guard.
PutBack == <<Move(1)>> \o Loop(<<Move(-1), Add(1), Move(1), Add(-1)>>) \o <<Move(-2)>>

WalkToSlotAndBreadcrumb(slot) ==
    LET f == MulFactors(slot + 1)
    IN IF GuardPos(slot) - SentinelFwd <= 24
       THEN <<ToSentinel, To(GuardPos(slot)), Add(-1)>>
       ELSE <<ToSentinel>>
            \o (IF slot + 1 > 12
                THEN <<To(PadCell - 1)>> \o Adds(f[1])
                     \o Loop(<<Move(1)>> \o Adds(f[2]) \o <<Move(-1), Add(-1)>>)
                     \o <<Move(1)>> \o Adds(f[3])
                ELSE <<To(PadCell), Add(slot + 1)>>)
            \o CounterWalk \o <<Move(-2), Add(-1)>>

\* The copy loop of a load: from the value cell, with its guard a breadcrumb.
CopyOut(dst) ==
    Loop(SetAside \o HomeFromBreadcrumb \o Incr(dst) \o GoToBreadcrumb \o <<Move(1)>>)

\* The copy loop of a store, to the breadcrumb; src is kept in tmp.
CopyIn(src, tmp) ==
    While(src, Decr(src) \o Incr(tmp) \o GoToBreadcrumb \o <<Move(1), Add(1), Move(-1)>>
               \o HomeFromBreadcrumb)

\* Clears the value next to the guard the pointer is on.
ClearValue == <<Move(1)>> \o Loop(<<Add(-1)>>) \o <<Move(-1)>>

LoadFromStack(rp, slot) ==
    LET there == <<ToSentinel, To(StackValuePos(slot))>>
    IN Clear(rp)
       \o (IF slot < 7
           THEN there \o Loop(SetAside \o Home \o Incr(rp) \o there) \o PutBack
           ELSE WalkToSlotAndBreadcrumb(slot) \o <<Move(1)>> \o CopyOut(rp) \o PutBack
                \o <<Add(1)>>)
       \o Home

StoreToStack(used, slot, rp) ==
    LET t == Alloc(used)
        there == <<ToSentinel, To(StackValuePos(slot))>>
    IN Clear(t)
       \o (IF slot < 7
           THEN there \o Loop(<<Add(-1)>>) \o <<Move(-1)>> \o Home
                \o While(rp, Decr(rp) \o Incr(t) \o there \o <<Add(1), Move(-1)>> \o Home)
           ELSE WalkToSlotAndBreadcrumb(slot) \o ClearValue \o HomeFromBreadcrumb
                \o CopyIn(rp, t) \o RestoreBreadcrumb)
       \o MoveValue(rp, t)

\* Mutant of GenFramePush: one slot too many.
PushOneMore(slots) ==
    GoToBreadcrumb \o FlattenSeq([i \in 1 .. slots + 1 |-> <<Add(1), Move(3)>>]) \o <<Move(-3)>>
    \o Home

GenFramePush(slots) ==
    GoToBreadcrumb
    \o (IF slots <= 3
        THEN FlattenSeq([i \in 1 .. slots |-> <<Add(1), Move(3)>>]) \o <<Move(-3)>>
        ELSE <<Move(-1)>> \o SetViaMul(slots)
             \o Loop(<<Move(1), Add(1), Move(-1), Add(-1)>>
                     \o Loop(<<Move(3), Add(1), Move(-3), Add(-1)>>) \o <<Move(3)>>)
             \o <<Move(-2)>>)
    \o Home

GenFramePop(slots) ==
    GoToBreadcrumb \o <<Move(-1)>> \o SetViaMul(slots)
    \o Loop(<<Move(-1)>> \o Loop(<<Add(-1)>>) \o <<Move(-1), Add(-1), Move(2)>>
            \o Loop(<<Move(-3), Add(1), Move(3), Add(-1)>>) \o <<Move(-3), Add(-1)>>)
    \o <<Move(-2)>> \o Home

GenFramePushDyn(src) == While(src, GoToBreadcrumb \o <<Add(1)>> \o Home \o Decr(src))

GenFramePopDyn(src) ==
    While(src, GoToBreadcrumb \o <<Move(-2)>> \o Loop(<<Add(-1)>>)
               \o <<Move(-1), Add(-1), Move(-3)>> \o Home \o Decr(src))

\* From the stack's end down to a slot of the topmost frame, whose guard becomes
\* the breadcrumb.
ToFrameSlot(slot, frameSize) ==
    GoToBreadcrumb \o Moves(-3 * (frameSize - slot)) \o <<Add(-1)>>

GenLoadFrame(dst, slot, frameSize) ==
    Clear(dst) \o ToFrameSlot(slot, frameSize) \o <<Move(1)>> \o CopyOut(dst) \o PutBack
    \o <<Add(1)>> \o Home

GenStoreFrame(used, slot, src, frameSize) ==
    LET tmp == AllocNear(used, src)
    IN Clear(tmp) \o ToFrameSlot(slot, frameSize) \o ClearValue \o HomeFromBreadcrumb
       \o CopyIn(src, tmp) \o MoveValue(src, tmp) \o <<ToSentinel>> \o RestoreBreadcrumb

\* walkToDynSlot: up the zero column to the guard of slot base + index.
WalkToDynSlot(used, base, idx) ==
    LET dist == Alloc(used)
        tmp == Alloc(used \cup {dist})
    IN CopyValue(dist, idx, tmp) \o EmitAdd(used \cup {dist}, dist, base)
       \o MoveValue(PadCell, dist) \o <<ToSentinel, To(PadCell)>> \o CounterWalk \o <<Move(1)>>

GenDynLoad(used, dst, base, idx) ==
    Clear(dst) \o WalkToDynSlot(used, base, idx) \o <<Add(-1), Move(1)>> \o CopyOut(dst)
    \o PutBack \o <<Add(1)>> \o Home

GenDynStore(used, base, idx, src) ==
    LET tmp == Alloc(used)
    IN Clear(tmp) \o WalkToDynSlot(used \cup {tmp}, base, idx) \o <<Add(-1)>> \o ClearValue
       \o HomeFromBreadcrumb \o CopyIn(src, tmp) \o MoveValue(src, tmp) \o RestoreBreadcrumb

\* Mutant of GenHighwayMarkers: the sentinel is marked too.
MarkersToSentinel == FlattenSeq([i \in 1 .. SentinelFwd \div HighwayStride |->
                                    Incr(i * HighwayStride)])

\* genHighwayMarkers: one by one, or for five and more with a walking counter.
GenHighwayMarkers ==
    LET n == SentinelFwd \div HighwayStride - 1
    IN IF n < 5 THEN FlattenSeq([i \in 1 .. n |-> Incr(i * HighwayStride)])
       ELSE EmitAdd({}, HighwayStride - 1, n)
            \o Loop(<<Move(1), Add(1), Move(-1), Add(-1)>>
                    \o Loop(<<Move(HighwayStride), Add(1), Move(-HighwayStride), Add(-1)>>)
                    \o <<Move(HighwayStride)>>)
            \o <<NowAt(SentinelFwd - 1)>>

\* What Generate emits before the program.
GenBoot(slots) == GenHighwayMarkers \o (IF slots > 0 THEN GenFramePush(slots) ELSE <<>>)

-----------------------------------------------------------------------------
(* Operations run. *)

Idle == [name |-> "idle"]

Memory == INSTANCE StackMemory

\* The text of one node, while the temps `used' are held.
GenNode(used, o) ==
    CASE o.name = "boot"       -> GenBoot(o.slots)
      [] o.name = "set"        -> SetValue(used, o.cell, o.value)
      [] o.name = "load"       -> LoadFromStack(o.cell, o.slot)
      [] o.name = "store"      -> StoreToStack(used, o.slot, o.cell)
      [] o.name = "push"       -> GenFramePush(o.slots)
      [] o.name = "pop"        -> GenFramePop(o.slots)
      [] o.name = "pushDyn"    -> GenFramePushDyn(o.cell)
      [] o.name = "popDyn"     -> GenFramePopDyn(o.cell)
      [] o.name = "loadFrame"  -> GenLoadFrame(o.cell, o.slot, o.size)
      [] o.name = "storeFrame" -> GenStoreFrame(used, o.slot, o.cell, o.size)
      [] o.name = "dynLoad"    -> GenDynLoad(used, o.cell, o.base, o.index)
      [] o.name = "dynStore"   -> GenDynStore(used, o.base, o.index, o.cell)
      [] o.name = "add"        -> GenAdd(used, o.dst, o.src1, o.src2)
      [] o.name = "sub"        -> GenSub(used, o.dst, o.src1, o.src2)
      [] o.name = "mul"        -> GenMul(used, o.dst, o.src1, o.src2)
      [] o.name = "div"        -> GenDivMod(used, o.dst, -1, o.src1, o.src2)
      [] o.name = "mod"        -> GenDivMod(used, -1, o.dst, o.src1, o.src2)
      [] o.name = "divMod"     -> GenDivMod(used, o.dst, o.rem, o.src1, o.src2)
      [] o.name \in Memory!BitwiseOp  -> GenBitwise(used, o.name, o.dst, o.src1, o.src2)
      [] o.name \in Memory!Comparison -> Compare(used, o.name, o.dst, o.src1, o.src2)
      [] o.name = "not"        -> GenNot(used, o.dst, o.src)

\* A node in if-else statements, the outermost first, with nothing in their other
\* branches.
Held(around, used) ==
    IF around.branch = "then" THEN HeldInThen(used) ELSE HeldInElse(used)

\* The temps held in the first i of them.
HeldWithin(around, i) == FoldLeft(LAMBDA h, a : Held(a, h), {}, SubSeq(around, 1, i))

InBranch(used, around, body) ==
    IfElse(used, around.cond, IF around.branch = "then" THEN body ELSE <<>>,
           IF around.branch = "then" THEN <<>> ELSE body)

Nested(around, o) ==
    FoldRight(LAMBDA i, body : InBranch(HeldWithin(around, i - 1), around[i], body),
              [i \in DOMAIN around |-> i], GenNode(HeldWithin(around, Len(around)), o))

Gen(o) ==
    Nested(IF o.name = "ifElse" THEN o.around ELSE <<>>, IF o.name = "ifElse" THEN o.op ELSE o)

\* What is emitted for an operation with the pointer at p: its text, and where
\* the generator believes the pointer to be at its end.
Generated(o, p) == Emitted(p, Gen(o))
Text(code) == [code |-> code, partners |-> Partners(code)]

\* What a tape holds: the CPU cells, and the slots up to the first guard of 0.
SlotCount(tape) == Min({s \in 0 .. (MaxSlots + 1) : tape[GuardPos(s)] = 0})
CpuOf(tape) == [c \in CpuCells |-> tape[c]]
StackOf(tape) == [i \in 1 .. SlotCount(tape) |-> tape[StackValuePos(i - 1)]]

\* A tape from which a program may go on: values in the CPU cells and slots,
\* left-overs in the algo temps.
TapeOf(l) ==
    [p \in Cells |->
        IF p \in CpuCells THEN l.cpu[p]
        ELSE IF p \in AlgoTemps THEN l.scratch
        ELSE IF p \in Markers THEN 1
        ELSE IF \E s \in 0 .. (Len(l.stack) - 1) : p = GuardPos(s) THEN 1
        ELSE IF \E s \in 0 .. (Len(l.stack) - 1) : p = StackValuePos(s)
        THEN l.stack[(p - SentinelFwd - 4) \div 3 + 1]
        ELSE 0]

\* Generate drops the boot text of a program that calls neither loadFromStack nor
\* storeToStack (which IRDynLoad does with its result).
StackUsed == \E o \in Operations : o.name \in {"load", "store", "dynLoad"}
NoText == [code |-> <<>>, partners |-> <<>>]

Init ==
    /\ ops = 0
    /\ \/ \E l \in Layouts :                              \* in the midst of a program
            /\ m = [Boot(<<>>) EXCEPT !.tape = TapeOf(l), !.ptr = l.pos]
            /\ text = NoText
            /\ pos = l.pos /\ op = Idle
            /\ cpu = l.cpu /\ stack = l.stack
       \/ \E o \in {b \in Operations : b.name = "boot"} :   \* at its beginning
            /\ m = Boot(<<>>)
            /\ cpu = [c \in CpuCells |-> 0] /\ stack = <<>>
            /\ LET boot == Generated(o, 0)
               IN /\ pos = boot.pos
                  /\ \/ StackUsed /\ text = Text(boot.code) /\ op = o
                     \/ ~StackUsed /\ text = NoText /\ op = Idle

\* The generator emits the text of the next operation.
Generate(o) ==
    /\ op = Idle /\ ops < MaxOps
    /\ o.name # "boot" /\ Memory!Defined(o)
    /\ op' = o
    /\ LET generated == Generated(o, pos)
       IN text' = Text(generated.code) /\ pos' = generated.pos
    /\ m' = [m EXCEPT !.pc = 1]
    /\ UNCHANGED <<ops, cpu, stack>>

\* One instruction of the text runs.
Run ==
    /\ op # Idle /\ ~Halted(text.code, m)
    /\ m' = Execute(text.code, text.partners, m)
    /\ UNCHANGED <<text, pos, op, ops, cpu, stack>>

\* It has ended; the tape is looked at.
End ==
    /\ op # Idle /\ Halted(text.code, m) /\ ~m.failed
    /\ op' = Idle /\ ops' = ops + 1
    /\ cpu' = CpuOf(m.tape) /\ stack' = StackOf(m.tape)
    /\ UNCHANGED <<m, text, pos>>

Next == Run \/ End \/ \E o \in Operations : Generate(o)

Spec == Init /\ [][Next]_vars /\ WF_vars(Run) /\ WF_vars(End)

-----------------------------------------------------------------------------
\* Every variable has its type, and no operation pushes beyond what it is asked to.
TypeOK ==
    /\ m.tape \in [Cells -> Byte] /\ m.ptr \in Int /\ m.pc \in Nat /\ m.failed \in BOOLEAN
    /\ pos \in Cells /\ op \in Operations \cup {Idle} /\ ops \in 0 .. MaxOps + 1
    /\ Memory!MemoryTypeOK

\* Between operations the pointer is where the generator believes it to be: no scan
\* of a highway or of the guards stopped at another cell than it was meant to.
PointerKnown == op = Idle => ~m.failed /\ m.ptr = pos

\* And the tape is fit for every walk: the sentinels, the pads and the zero column
\* are 0, the markers 1, the guards 1 up to the stack's end and 0 beyond.
LayoutIntact ==
    /\ PointerKnown
    /\ op = Idle =>
        /\ \A p \in {SentinelBack, SentinelFwd, SentinelFwd + 1, PadCell} : m.tape[p] = 0
        /\ \A p \in Markers : m.tape[p] = 1
        /\ \A s \in 0 .. (MaxSlots - 1) :
            /\ m.tape[GuardPos(s)] = IF s < Len(stack) THEN 1 ELSE 0
            /\ m.tape[ZeroPos(s)] = 0
            /\ s >= Len(stack) => m.tape[StackValuePos(s)] = 0

\* The text of an operation does to registers, phase temps and slots what this
\* operation is for, and changes no other of them.
ImplementsStack ==
    /\ Memory!Spec
    /\ [][op # Idle /\ op' = Idle => Memory!Perform(op)]_vars

\* Every operation's text ends: no scan runs past what it looks for.
OperationsEnd == []<>(op = Idle)
=============================================================================
