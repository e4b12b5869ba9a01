---------------------------- MODULE StackMemory ----------------------------
(***************************************************************************)
(* What the register cache takes the stack code of src/codegen.go to do:   *)
(* CPU cells (registers and phase temps) and a stack of bytes, no tape.    *)
(*                                                                         *)
(* An operation on a slot means nothing when the slot is not allocated.    *)
(***************************************************************************)
EXTENDS Integers, Sequences
LOCAL INSTANCE Bitwise

CONSTANTS
    CpuCells,   \* the tape positions of registers and phase temps
    Registers,  \* those of the registers alone
    Mod,        \* the byte modulus; 256 in the program
    MaxSlots,   \* bound: how high the stack may grow
    Operations  \* the operations a program uses: records, with a name and arguments

Byte == 0 .. (Mod - 1)

VARIABLES
    cpu,        \* the value of each CPU cell
    stack       \* the values of the allocated slots; slot s is stack[s + 1]

memory == <<cpu, stack>>

\* CPU cells and slots hold bytes.
MemoryTypeOK ==
    /\ cpu \in [CpuCells -> Byte]
    /\ stack \in Seq(Byte) /\ Len(stack) <= MaxSlots

Zeros(n) == [i \in 1 .. n |-> 0]
Assign(c, v) == cpu' = [cpu EXCEPT ![c] = v]
Allocated(slot) == slot + 1 \in DOMAIN stack

\* What `stack' is after n slots were pushed, or popped.
Pushed(n) == Len(stack) + n <= MaxSlots /\ stack' = stack \o Zeros(n)
Popped(n) == n <= Len(stack) /\ stack' = SubSeq(stack, 1, Len(stack) - n)

\* The stack slot of a frame's slot, the frame being the topmost `size' slots.
InFrame(slot, size) == Len(stack) - size + slot

LoadSlot(c, slot) == Allocated(slot) /\ Assign(c, stack[slot + 1]) /\ UNCHANGED stack
StoreSlot(slot, c) ==
    Allocated(slot) /\ stack' = [stack EXCEPT ![slot + 1] = cpu[c]] /\ UNCHANGED cpu

BitwiseOp == {"and", "or", "xor"}
Comparison == {"eq", "ne", "lt", "gt", "le", "ge"}
Truth(b) == IF b THEN 1 ELSE 0

Binary(name, a, b) ==
    CASE name = "add" -> (a + b) % Mod
      [] name = "sub" -> (a - b) % Mod
      [] name = "mul" -> (a * b) % Mod
      [] name = "div" -> a \div b
      [] name = "mod" -> a % b
      [] name = "and" -> a & b
      [] name = "or"  -> a | b
      [] name = "xor" -> a ^^ b
      [] name = "eq"  -> Truth(a = b)
      [] name = "ne"  -> Truth(a # b)
      [] name = "lt"  -> Truth(a < b)
      [] name = "gt"  -> Truth(a > b)
      [] name = "le"  -> Truth(a <= b)
      [] name = "ge"  -> Truth(a >= b)

Quotients == {"div", "mod", "divMod"}
Arithmetic == {"add", "sub", "mul", "div", "mod"} \cup BitwiseOp

\* A comparison uses up one operand that is a register: the cache has given it up.
UsedUp(op) ==
    LET src == IF op.name \in {"gt", "le"} THEN op.src1 ELSE op.src2
    IN IF src \in Registers THEN [cpu EXCEPT ![src] = 0] ELSE cpu

\* A program uses an operation only where it means something: its slots are
\* allocated, the stack is neither popped below its bottom nor filled up, and a
\* quotient has a divisor (the text is not right for 1).
DefinedNode(op) ==
    CASE op.name \in {"load", "store"}           -> Allocated(op.slot)
      [] op.name \in {"boot", "push"}            -> Len(stack) + op.slots <= MaxSlots
      [] op.name = "pop"                         -> op.slots <= Len(stack)
      [] op.name = "pushDyn"                     -> Len(stack) + cpu[op.cell] <= MaxSlots
      [] op.name = "popDyn"                      -> cpu[op.cell] <= Len(stack)
      [] op.name \in {"loadFrame", "storeFrame"} -> op.slot < op.size /\ op.size <= Len(stack)
      [] op.name \in {"dynLoad", "dynStore"}     -> Allocated(op.base + cpu[op.index])
      [] op.name \in Quotients                   -> cpu[op.src2] > 1
      [] OTHER                                   -> TRUE

PerformNode(op) ==
    CASE op.name = "set"                -> Assign(op.cell, op.value) /\ UNCHANGED stack
      [] op.name = "load"               -> LoadSlot(op.cell, op.slot)
      [] op.name = "store"              -> StoreSlot(op.slot, op.cell)
      [] op.name \in {"boot", "push"}   -> Pushed(op.slots) /\ UNCHANGED cpu
      [] op.name = "pop"                -> Popped(op.slots) /\ UNCHANGED cpu
      [] op.name = "pushDyn"            -> Pushed(cpu[op.cell]) /\ Assign(op.cell, 0)
      [] op.name = "popDyn"             -> Popped(cpu[op.cell]) /\ Assign(op.cell, 0)
      [] op.name = "loadFrame"          -> LoadSlot(op.cell, InFrame(op.slot, op.size))
      [] op.name = "storeFrame"         -> StoreSlot(InFrame(op.slot, op.size), op.cell)
      [] op.name = "dynLoad"            -> LoadSlot(op.cell, op.base + cpu[op.index])
      [] op.name = "dynStore"           -> StoreSlot(op.base + cpu[op.index], op.cell)
      [] op.name \in Arithmetic         ->
             Assign(op.dst, Binary(op.name, cpu[op.src1], cpu[op.src2])) /\ UNCHANGED stack
      [] op.name = "divMod"             ->
             /\ cpu' = [cpu EXCEPT ![op.dst] = cpu[op.src1] \div cpu[op.src2],
                                   ![op.rem] = cpu[op.src1] % cpu[op.src2]]
             /\ UNCHANGED stack
      [] op.name \in Comparison         ->
             /\ cpu' = [UsedUp(op) EXCEPT ![op.dst] = Binary(op.name, cpu[op.src1], cpu[op.src2])]
             /\ UNCHANGED stack
      [] op.name = "not"                -> Assign(op.dst, Truth(cpu[op.src] = 0)) /\ UNCHANGED stack

\* An operation in if-else statements is performed if it is in the branches they take.
Taken(around) == \A i \in DOMAIN around : (cpu[around[i].cond] # 0) <=> (around[i].branch = "then")

Defined(op) ==
    IF op.name = "ifElse" THEN Taken(op.around) => DefinedNode(op.op) ELSE DefinedNode(op)

Perform(op) ==
    IF op.name # "ifElse" THEN PerformNode(op)
    ELSE IF Taken(op.around) THEN PerformNode(op.op) ELSE UNCHANGED memory

\* A program starts with any memory: what came before it is not looked at.
Init == MemoryTypeOK

Next == \E op \in Operations : Defined(op) /\ Perform(op)

Spec == Init /\ [][Next]_memory
=============================================================================
