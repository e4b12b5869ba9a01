# A verification project for go2bf

go2bf compiles a subset of Go to Brainfuck and runs the result. This directory
holds TLA+ models of its parts, the TLC runs that check them on small
instances, and TLAPS proofs of what matters most for every instance. It is
written to be read beside `src/`; `PROJECT.json` maps every definition to the
lines it stands for.

## The system

    Go files -> Parse -> Analyze -> Lower -> OptimizeIR -> Generate -> Optimize -> Interpret
                          FuncInfo   IR tree    IR tree     Brainfuck   Brainfuck

| Component | Source | State | Operations | What is hard |
| --- | --- | --- | --- | --- |
| IR | `ir.go` | cells (bytes) | 32 node types | which cells a node may read; moves and frees end a cell's life |
| IR optimizer | `ir_optimizer.go` | `known` constants, `everWritten` cells | one walk over the tree | facts that outlive the code that made them true |
| Register cache | `codegen.go` 182-334, 650-681 | slot and dirty bit of five registers, round-robin index | ensure, assign, evict, flush, invalidate, flushCell, dropCell, allocNeighbor | eviction while operands are being placed; code that may not run |
| Node code | `codegen.go` 685-940 | the cache, the tape | `genNode`, one case per node | operands that are the same cell; operands the code consumes; branches and loops |
| Tape layout | `codegen.go` 547-606, 1255-1602 | highway markers, guards, breadcrumbs, stack triples | load, store, frames, run-time index | a walk that stops at the wrong zero |
| Arithmetic code | `codegen.go` 968-1253 | registers, algo temps | add, sub, mul, divmod, bitwise, compare, if-else | scratch cells left non-zero |
| Algo temps | `codegen.go` 87-180 | free positions | alloc, allocNear, allocConsecutive, free | the pool running out; order of release |
| Brainfuck optimizer | `optimizer.go` | token list | merge, dead loops, highway round trips | what may be assumed of the tape |
| Interpreter | `interpreter.go` | tape, pointer, instructions | compile, run | multiplication and walk loops recognised by shape |
| Lowerer: cells | `lowerer.go` 374-520 | next cell, free list, scopes | allocCell(s), freeCell, push/popScope | a cell freed while in use, or twice |
| Lowerer: control flow | `lowerer.go` 5900-7600 | break, skip, return, goto and tail-call flags, deferred calls | loops, switch, goto, return, defer, inlining | flags tested after every statement; order of deferred calls |
| Lowerer: heap | `lowerer.go` 990-2000, 3800-3930 | heap pointer, slice headers | make, append, copy, free at the top | aliasing of backing arrays; overlap |
| Lowerer: integers | `lowerer.go` 2050-3660, 8900-10977 | byte cells | 16- to 64-bit arithmetic, conversions, pointers, println | carries, borrows, shifts by whole bytes; temporaries that are also operands |
| Recursive lowering | `lowerer_rec.go` | phases, frame slots, phase temps | buildPhases, enterPhase, dispatch | what survives a recursive call |
| Analyzer | `analyzer.go` | function table, call graph | detect recursion, tail recursion | cycles through several functions |
| Driver | `compiler.go` | `sentinelFwd` (a global) | retry Lower with a larger pool | state left by a failed attempt |

Everything runs in one thread. What makes the program hard to test is the
distance between a decision and its effect: the code generator decides once,
while it walks the IR, where each value lives; the text it emits then runs along
any path, with loops repeated and branches skipped; and a wrong decision shows
only when an evicted register, a reused cell or a second iteration meets it.

## Modules

| Module | What it is |
| --- | --- |
| `IRMemory` | the abstract specification: cells, and what each IR node does to them |
| `RegCache` | the register cache and `genNode`, in lockstep with `IRMemory` |
| `MCRegCache` | small instances of `RegCache` for TLC |
| `RegCacheProofs` | what each operation of the cache and the code of each node do to the cells; the inductive invariant, the theorems and the refinement |
| `IROptimizer` | `optimizeBlock` and `markBlockDsts`, in lockstep with `IRMemory` |
| `MCIROptimizer` | small instances of `IROptimizer` for TLC |
| `IROptimizerProofs` | the inductive invariant and the theorems |
| `Brainfuck` | the Brainfuck machine: instructions, brackets, one step |
| `BrainfuckLemmas` | induction on numbers, brackets and their partners, bytes, what each instruction does |
| `StackMemory` | the abstract specification of the stack code: CPU cells and a stack of bytes |
| `TapeText` | where everything is on the tape, the temp pool, the text of a move and of loops on single cells |
| `ArithCode` | the text of arithmetic, comparisons and if-else |
| `StackCode` | the text of every stack operation, and runs of it and of arithmetic on the machine |
| `MCStackCode` | layouts and operations for TLC |
| `BFOptimizer` | `Optimize`, and the program before and after it |
| `MCBFOptimizer` | programs for TLC |
| `BFOptimizerProofs` | that each pass keeps what a program does; the invariant and the theorems |
| `Interpreter` | `compileBF` and `Interpret`, in lockstep with the plain machine |
| `MCInterpreter` | programs for TLC |
| `InterpreterCompile` | what `compileBF` makes of any program: instructions laid out over pieces of the text |
| `InterpreterProofs` | that each of them does what its piece of the text does; the invariant and the theorems |
| `SliceHeap` | statements on slices and strings on the heap, beside Go's slices and arrays |
| `MCSliceHeap` | names and statements for TLC |
| `SliceHeapLemmas` | what it means that a heap is sound, and that each way to change it keeps it so; the heap operations: cells stored and copied, temporaries, views, element writes, copies, append and += |
| `SliceHeapProofs` | values that are assigned, comparisons, swaps; the inductive invariant and the theorems |
| `IntegerCode` | the IR of every integer operation, as lists of nodes on bytes |
| `MultiByte` | statements on integers: their IR on cells, beside Go's whole numbers |
| `MCMultiByte` | statements and values for TLC |
| `ControlFlow` | the IR of statements, jumps, scopes and calls, run on `IRMemory`, beside what Go prints |
| `MCControlFlow` | programs without general recursion |
| `PhaseCode` | recursive functions in phases on frames, the compile driver, and the specification that runs the code of both |
| `MCPhaseCode` | programs with recursive functions; all programs for TLC |

### IRMemory

`mem` is the value of each cell, `live` the set of cells a program may read. A
cell is a stack slot (`Slots`) or a phase temp (`Temps`); a cell given back by
IRFree and the source of an IRMove are not live until written again. Bytes wrap
at `Mod`. An array access is meaningful only when it stays among the slots: the
lowerer emits no bounds check and neither does the model define one.

### RegCache

`gen` is the generator's cache (`regs`, `next`) together with the tape it
describes (`cpu`: registers and phase temps; `stack`: the slots). Each operator
on `gen` is one method of `regCache`, named after it. Each action is one case of
`genNode` with every cache call it makes, and runs the emitted code at once.

The state is a point on a run-time path. `ctrl` holds the open If and Loop
bodies with the register their condition was tested in. A branch that is not
taken was still walked by the generator; every body ends with
flushAndInvalidate, so all it can leave behind is a round-robin index, which
`Elsewhere` chooses freely. A loop body is generated once; at its back edge the
index goes back to what it was and `Elsewhere` covers that too. What a node
shows to the world (a printed byte, a byte saved to a frame, a tested condition)
is recorded in `obs` for both machines.

What is left out: the Brainfuck text itself (a load is an assignment, an
addition adds), scratch cells outside the registers, debug comments. Kept from
the text is what its scratch cells do to registers: `Scratch` (allocNeighbor),
`WalkScratch` (the base addition of the array walk), the operand a comparison
runs down to 0, and the condition an If without Else consumes.

Restrictions a program obeys because of the lowerer that emits it: the operand
a comparison consumes is not its destination; IRFramePushDyn and IRFramePopDyn
size cells are stack slots; IRLoadFrame loads phase temps; phases of a recursive
function name phase temps only.

### IROptimizer

The program as it was lowered is the state of `IRMemory`; `out` is what the
optimized program holds in its cells and `touched` the cells it has ever
written. `opt` is what `optimizeBlock` knows when it walks the node that runs
next: `known`, the constants it has recorded, and `everWritten`. Each action is
one case of its switch: what the node does to the lowered program, what the node
that replaces it does to the optimized one, and what the walk records.

`bodies` holds the open bodies. Each remembers what the surrounding call of
`optimizeBlock` knew when it met the body (`before`). A body was walked once, so
a second pass of a loop starts as the first did, and a dispatch goes on with any
phase. What `markBlockDsts` finds in a body (`dsts`, and `phase` for
the phase that runs) bounds what its nodes may write (`MayWrite`); code that is
walked and not run adds any set of such cells to `everWritten`.

A cell that no longer holds a value of the program (a moved slot, a freed cell)
may hold any older value of its slot or register if it was ever written, and is
0 if not (`Stale`). That is why `optimizeBlock` never drops a zero as redundant
and why a fresh zero may only be dropped once.

A store through an index or a pointer goes to a cell that was written before:
the lowerer initialises every variable and array. `StoresToKnown` says whether
such a store may hit a cell with a recorded constant.

### Brainfuck

The reference machine: the six opcodes of `interpreter.go` that no pattern
replaces. The pointer may leave the tape; the program fails when it then uses a
cell. A run of equal characters may be one instruction. `StackCode`,
`BFOptimizer` and `Interpreter` extend it.

### StackMemory, TapeText, ArithCode and StackCode

These are the layer under `RegCache`: where that module says that a load is an
assignment and that an addition adds, these generate the text of the load and of
the addition and run it. An operator
named after a method of `Generator` is the sequence of what the method does:
instructions it emits, and calls of `moveTo`, `moveToSentinel` and `backToHome`
(`To`, `ToSentinel`, `ToHome`). `Emitted` carries `g.pos` through the sequence and
gives the text. `Generate` emits an operation's text, `Run` executes one
instruction of it, `End` looks at the tape. Registers the cache holds no slot in
(`FreeRegs`) are scratch, as in `allocTemp`.

`TapeText` has the tape, laid out from `SentinelFwd` as in the program: markers every 8 cells,
the interleaved algo temps, phase temps between 25 and the sentinel, two pads,
then three cells (guard, value, zero) for each slot. Only the tape's end and the
byte width are smaller. The temps in use (`used`) are an argument of every
operator that takes some, so a position is what the pool really hands out there.
`ArithCode` has the arithmetic, with what the if-else statements around an
operation hold, and what it leaves in the temps it gives back (`Leftovers`).

`StackMemory` is what the layer promises: CPU cells, a
stack of bytes, and each operation as one step; `ImplementsStack` is the
refinement, with `cpu` and `stack` read off the tape when an operation ends: every step is
one of memory, and the step at an operation's end is that operation (a text that
does nothing, or does what another operation is for, would be a step of memory too).

An operation is used only where it means something (`Defined`): its slots are
allocated, the stack does not run past `MaxSlots`, a divisor is not 0 and, because of
the mistake under Findings, not 1, and the pool has the temps it takes.

### BFOptimizer

`Optimize` works on tokens; comments are tokens (`Note`). Both programs run, the
original first until it prints or halts, the optimized one until it has caught
up. `source` is what `tokenize` makes of the text; `mergeTokens`, `eliminateDeadLoops`,
`eliminateHighwayRoundTrips` and `render` are folds over the tokens, with one operator
(`Merge`, `DropDeadLoop`, `DropRoundTrip`, `Idle`) for what a pass does at a token.

### Interpreter

`compiled` is what `compileBF` makes of `source`. `Interpret` executes one
instruction of it and `Follow` one character of the program as written; `at`, the
character each instruction was compiled from, says when the two are level. A
loop that one instruction replaced takes the plain machine many steps, and
`CatchesUp` says that they end. What the instruction does is a function of the tape
(`Scan`, `Walk`, `Multiply`, `DivMod`); what the text does is what it says.

Three kinds of program are run differently from their text, and left out (`Mistaken`,
admitted by `Miscompiled`): a loop that also adds to its own counter while it multiplies
(counterTouched, under Findings); a division whose four cells behind the operands are not
all clear (usedTemps); and one by a divisor of 0 or 1 (smallDivisor), where the text
does not end or ends elsewhere. A division by 1 is one that the code generator emits (under
Findings too).

### SliceHeap

A slice or string is a header of three cells; its elements are on the heap, the
part of the stack above the static slots, where `heapPtr` says what is taken. A
step is one statement with everything the lowerer emits for it: the temporary headers,
the growth of a full buffer, the copies in the direction the code chooses, and what
it gives back when the buffer is the last one. `header` and `stack` are the cells;
`go` is the Go program: arrays that nobody frees and slices that are views of them.
The two are related by reading: `SameContents` compares what every slice shows,
`OneHomePerArray` says which arrays share storage, for every
assignment made later through one and read through another.

The body of a loop is entered and left: its variables are released at the end in
the order of `popScope`, unless a statement of the body, executed or not, marks
their buffer as escaping. A program decides at its start which of them it declares.

A program is a set of statements that Go's types allow (`WellTyped`); a step that Go
would panic at is not taken (`Panics`). The static slots are not empty, as in every
program that uses the heap (slot 0 is never an address of an element), and the stack
stays below the largest byte: the cells are bytes, and neither the code nor the model
does anything about a heap that outgrows them. `Peak` applies the bound `MaxSlots` also to
the height that the stack reaches within a statement.

### IntegerCode and MultiByte

`IntegerCode` is the byte code of the lowerer: each operator gives the list of IR
nodes of the method it is named after, and `Run` says what a list does. `t` is the
first cell that may serve for temporaries; they begin with `Stale` values, so an
operation that relies on a zero it did not write is found. `MultiByte` has
expressions and statements on top: what size an untyped constant takes, which
operand is used in place, when a cell is a temporary and may be consumed, and for
assignments whether the target may be written while it is read. Each step takes a
statement and input values, runs its IR on the cells and does the Go statement on
whole numbers; `SameValues` compares every variable, element and pointee.
`spent` chooses whether a consumed cell keeps its value or becomes 0.

### ControlFlow

`lower` is the lowerer as a function from a program to IR: `l` is its state (the
nodes so far, free cells and next cell, scopes, flags of the loops, switch,
function and goto around, deferred calls) and every operator is the method of its
name. A jump is no node: it sets flags, statements after it are wrapped in a test
of them, loops test them between rounds. One action
for each kind of node runs the IR on the cells of `IRMemory`, and `expected`
is what a reference interpreter of Go statements (`go`) prints. The specification
is in `PhaseCode`, which adds recursive functions to the same language.

Variables are bytes or structs of one byte (the latter are returned
and assigned by moves of their cells, as composite values are); conditions, call
arguments and results are any of their expressions.

### PhaseCode

`lowerer_rec.go` lowers a recursive function twice over. `splitAtCalls` cuts its body
at the recursive calls, takes calls out of expressions and makes ifs and switches
guards or conditional calls; each piece with the call that ends it becomes a phase.
The second lowering (`RecStmtCode`, `RecExprCode`) makes a phase: a variable is a
slot of the frame, `loadedMap` says which slots have a copy in a cell, and loops,
branches and calls store and drop those copies. `frames` is what the frames on the stack hold,
`Dispatch` the loop that runs the phase the topmost one asks for.

A phase has the cells between 25 and `sentinelFwd` without the markers and the cells
below them. `compile` is the driver: it lowers anew with 8 more cells while a phase
needs more, up to 8 times, and rejects more than 255 stack slots. The stack slots are
numbered from a fixed cell (`FirstSlot`) so that a cell keeps its number whatever
`sentinelFwd` is.

The functions of the two lowerings call each other through one dispatcher (`phase`),
where the code has methods of two receivers. The reference is `ControlFlow`'s `go`,
which has a call stack. A program calls recursive functions from the statements of
main, which then has no jumps; all programs that `ControlFlow` is about are in
the same run.

### Mistakes

Where the code does something else than Go for a kind of program, the kind has a
name and a definition in the module (`Mistaken` of `SliceHeap`, `Mistakes` of
`MultiByte` and `ControlFlow`), and a program of the kind is skipped unless the
kind is in the constant `Miscompiled`. The configurations leave it empty; a kind added
to it makes TLC print the program that shows it. They are listed under Findings.

## Runs

In the `RegCache` runs all values are single bits (`Mod = 2`): coherence
compares values and the two instance functions (less-than, sum) tell operands
and their order apart. `IROptimizer` needs three values where a constant is
turned into an addition of the difference of two non-zero constants.

| Run | Instance | Shows |
| --- | --- | --- |
| `RegCacheOperands` | 4 registers, 2 slots, 1 temp, every straight-line, array and frame node | every choice of operands, equal ones included: TypeOK, Coherent, ImplementsIR |
| `RegCacheControl` | 2 registers, 3 slots, 1 temp, nesting 1 | bodies taken, skipped and repeated with more slots than registers, conditions in slots and in phase temps: NoAlias, CleanMatchesStack, Coherent, ObservationsAgree |
| `IROptimizer` | 2 slots, 1 temp, values 0..2, every node; 1 slot, 1 temp, bits, bodies in bodies | facts do not cross a body, no zero of a repeated body is dropped, inner bodies are known to outer walks: TypeOK, SameValues, KnownIsTrue, FreshIsZero |
| `IROptimizerStoredKnown` (violation) | the first of these, `StoresToKnown` | an assignment is dropped after a store through a pointer |
| `StackCodeNear` | sentinel 24, stacks of 0, 1, 3, 7, 14 slots, one operation | each text on both sides of every limit, and every arithmetic operation on edge values: TypeOK, LayoutIntact, ImplementsStack, OperationsEnd |
| `StackCodeFar` | sentinel 64, phase temps, two operations in a row, from an empty tape or mid-program | the walking counter that sets the markers, the first frame, bitwise operations in nested if-else, and that what one operation leaves is fit for the next: LayoutIntact, ImplementsStack |
| `StackCodeNested` (violation) | a division two then branches deep, a bitwise operation in an else branch | the remainder the division left is added to a bit |
| `BFOptimizer` | values 0..3, 20 cells | TypeOK, SameOutcome, KeepsUp over all short programs and combinations of loops and trips |
| `Interpreter` | values 0..3, 9 cells | TypeOK, RejectsUnbalanced, SameMachine, CatchesUp over all short texts and all recognised shapes |
| `SliceHeap` | 4 names, a struct field, 2 names of a body; up to 5 statements of 61; 26 slots | reading any slice after any of them gives what Go gives: TypeOK, HeapTop, SameContents, SameResult, OneHomePerArray |
| `MultiByte` | 80 statements on integers of 1, 2 and 3 bytes of 4 bits, edge values | every operation and the code around it: TypeOK, SameValues, SamePrinted |
| `PhaseCode` | 1174 programs of up to about ten statements, 241 of them with general recursion, bytes of 3 bits, 104 cells | what is printed is what Go prints, no dead cell is read, no valid program is rejected, all code ends, frames are pushed and popped in pairs, the pool grows by whole strides and its markers stay free: PhaseTypeOK, SameOutput, ReadsLive, Accepted, Ends, FramesMatch, PoolKept |

Bounds: `MaxNest` bounds the open bodies; everything else is finite because the
constants are. Two registers are the fewest a node's operands fit in, and a third
slot is what makes nodes evict a register that was just filled. Four registers
for two slots leave `Scratch` registers to borrow, which is the other hazard.
More registers and slots than that, three operands that evict a fourth slot, and
bodies in bodies are beyond an exhaustive run; the theorems below cover them for
every number of registers and every nesting.
Registers sit at the positions of the program (1, 2, 4, 5), so that pairs of
them are neighbours for `Scratch` and others are not.

The `IROptimizer` instance with bodies uses the nodes that write, move, free and
store constants and unknown data; the other nodes with a destination differ from
`Getc` only in the value. Two cells suffice because the walk keeps its facts cell
by cell and only a move or a copy relates two of them; three values are needed only
for additions outside bodies.

The slot counts of `StackCodeNear` put every operation on both sides of the
limits of the code: direct access below slot 7, a direct walk up to slot 7, a
counter from slot 8, a multiplied counter from slot 12; frames of up to three
slots unrolled, larger ones counted, more than 12 multiplied. `MaxSlots` is 17 so
that a push can fill the stack. The tape ends a few cells above the last slot.
`MaxOps` is 1 where all layouts are enumerated, and 2 where the point is what
one operation leaves to the next. Operands are the values on both sides of 0, of
half the range and of its end, and the ones where a bit or a quotient changes.

Two slices, one of them wider, a view, a self-append and a body are what a shared
or freed buffer needs to show; five statements are enough to make an array, view
it, grow it, write through one name and read the other. Integers of 4-bit bytes
have every carry and shift by whole and part bytes that those of 8 bits have,
three bytes make a middle one; printing is also evaluated at
the program's own widths (`PrintsAnyWidth`). The programs of `MCControlFlow` are
products of small sets of statements at the places where they may interfere:
every jump from every loop, switch and branch, two statements at a time; every
order of three statements around a defer; every argument list of a tail call.
Counts go to 3, so a loop has a first, a middle and a last round. The recursive
programs of `MCPhaseCode` put every kind of statement before and after every form of
call and into every branch around one, with one, several, named or no results;
three calls deep is enough for a frame below, a frame of its own and a frame above,
and the code of a phase does not depend on the depth. `Wide` has functions with 8, 24
and 40 locals, for which the pool grows up to its limit. `Fuel` bounds the Go
statements of a program (a program that needs more is skipped), far above what these take.

The tapes of `BFOptimizer` (20 cells, strides 2 and 3) and `Interpreter` (9 cells)
are long enough for every shape they recognise and short enough that pointers
fall off both ends. Four byte values tell a wrapped value from a small one and a
factor of 2 from one of 1 and 3. `MaxOut` stops programs that print for ever.

Fairness: a single thread runs the text, so a machine that can take a step takes
it. `StackCode` assumes it of `Run` and `End`, `BFOptimizer` of the optimized
program (`StepAfter`), `Interpreter` of the plain machine (`Follow`); none is
assumed of the program under which the property is stated, which may loop for
ever when its source does. `PhaseCode` assumes it of `ExecPhase`: compiled code runs
on; its programs end in Go, and `Ends` says that their code does. `RegCache` and `IROptimizer` state no liveness: their
actions are nodes of a program that need not end.

## Proofs

`RegCacheProofs` proves, for every number of registers (at least 2), every set
of slots and temps, every byte width, nesting depth and set of binary functions:

    Spec => []TypeOK, []NoAlias, []CleanMatchesStack, []Coherent, []ObservationsAgree
    Spec => ImplementsIR

under two assumptions: `~LargeBases` (array bases below 20) and `~ReadAfterMove`
(no program reads the source of an IRMove). The first excludes a bug of the
code (`LargeBases = TRUE` in `RegCacheOperands.cfg` shows what happens without
it), the second a contradiction between a comment and the code (see Findings).

The invariant `IInv` is Coherent strengthened by what makes it inductive: the
generator state is `Good` (well typed, free registers clean, no slot in two
registers, clean registers equal to their slots), the control stack remembers a
register for each slot condition, and the last observation agrees. Coherent
alone is not inductive: a write through one of two registers for the same slot
would leave the other stale, and evicting a clean register whose slot differs
would change a value. The lemmas say of each operation which cells it may
change (`SameValues`, `Writes`) and which operands stay where they were
(`StillKeeps`); a node's lemma chains them in the order of the code.

The refinement maps `mem` to the contents of the live cells. A dead cell is 0 in
`IRMemory`, which is what makes the mapping exact.

`IROptimizerProofs` proves, for every set of cells, byte width, set of binary
functions and nesting of bodies,

    Spec => []TypeOK, []SameValues, []KnownIsTrue, []FreshIsZero

under the assumption `~StoresToKnown`, which excludes the bug below. SameValues
needs KnownIsTrue where a constant is dropped and FreshIsZero where a zero is.
FreshIsZero is not inductive: a loop's next pass starts with the `everWritten` of
its first, so the invariant says that it already held all that the passes may
write. `Marks` is that statement: every cell the run has touched that a node may
write here is in `everWritten`; for each open loop or dispatch, what the
surrounding bodies let a node write and the run has touched is in what
`markBlockDsts` marked; and inner bodies write and mark no more than outer ones.
`MarksPush` and `MarksPop` carry it over the edges of a body. The constants of
`known` need no such history, since every body starts and ends without any.

`SliceHeapProofs` proves, for every set of names and element sizes, every byte
width, heap start, array variable and bound, and every set of well-typed
statements (`StatementsAssumption`),

    Spec => []TypeOK, []HeapTop, []SameContents, []SameResult, []OneHomePerArray

under the assumption `Miscompiled = {}`: no statement of the program is of a kind
listed as a mistake. Each of these kinds breaks a property, as TLC shows when the
constant admits it. One of them was found by the proof: the swap of a body's
variable, of which `popScope` knows nothing (swapped, under Findings).

SameContents is not inductive, nor is its conjunction with the other four: they
compare what names read now, and a statement writes through one name to what
others read later, or frees what a scope thinks is its own. `IInv` therefore says
where everything is. There is a `home`, a slot for each array of the Go program, such
that in every state (`Sound`)

* an array that a name can reach lies at its home, byte for byte, below the top of
  the stack, and all but the array variable above the static slots (`Housed`);
* a header shows its slice there: its pointer is the home plus the slice's offset, its
  length and capacity are Go's (`Readable`);
* no string shares an array with a slice, whose elements may be written (`TextsApart`);
* two homes share no slot, unless both belong to strings (`Separate`);
* the array of a variable that `popScope` may free belongs to that variable alone, and
  its home to no other array (`Owned`).

`Held` are the names that a statement may meet and `Own` those that `popScope` may
free; the rest of `IInv` says how they follow the scope (`Scoped`) and that the
registers of both programs agree (`Paired`). `SliceHeapLemmas` has one lemma for each way
to change a sound heap: a new array (`SoundNew`), another name for an array
(`SoundAlias`), a write (`SoundWrite`), a buffer extended at the top (`SoundExtend`),
a buffer given back (`SoundShrink`), two headers exchanged (`SoundSwap`), a name
forgotten (`SoundForget`). The rest shows that each statement is made of these: that the source of
a copy is not overwritten while it is read, that a temporary is the last
buffer when it is given back, and that what is freed as a temporary is reached by no
name. The escape analysis enters in `SharedIsMarked`: a statement
that lets two names share an array marks both, so what is `Own` stays owned.
What a copy loop leaves in a slot is a function of the slot (`SourceOffset`), so it needs no
induction; the comparison of strings needs that there is a first position where they differ.

`InterpreterCompile` and `InterpreterProofs` prove, for every set of programs (sequences
of the eight characters) and inputs, every tape size and byte modulus (at least 2),

    Spec => []TypeOK, []RejectsUnbalanced
    Spec => []SameMachine        if Miscompiled = {}

The first part is about `compileBF` alone. Each pass is a scan of a sequence
(`Rewrite`), and the invariant of the scan is that what it has emitted tiles what it has
read (`Tiles`): an instruction stands for a piece of the text, brackets for the same
bracket, any other for a piece that closes what it opens. So both programs have their brackets in the
same places, and the jump table's stack holds exactly the brackets that are open
(`LinkedTo`). `CompileLayout` puts the passes together: where each instruction
starts in the text, and of what text it was made (`Placed`).

The second part runs the text. `Reaches(s, p, S, m, w)` says that the plain machine
gets from m to w through instructions of the set S only; it is composed along the text and, for
loops, by induction on the counter. There is one lemma for each recognised loop: a clear, a scan, a
walk, a multiplication, and the division, whose text is followed character by
character. The invariant `IInv` says that the program is laid out
(`InLayout`) and that the two machines are joined (`Joined`): the plain machine is on its way from the start of
the piece to its end, and gets there without leaving the piece. Without the last part
SameMachine would not be inductive: `CaughtUp` looks at the position only, and a plain
machine that passed the end of the piece earlier, with another tape, would count as level.

`BFOptimizerProofs` proves, for every set of programs and inputs, every tape size and
byte modulus (at least 2),

    Spec => []TypeOK, []SameOutcome

under the assumption `CasesAssumption`: programs are made of the tokens that `tokenize`
makes, with their brackets in pairs, and read bytes. A program that dies off the tape as
it was emitted is excepted in SameOutcome itself: the optimizer may drop the very trip
on which it dies.

The passes are taken apart into replacements. In a `Cut`, a piece of a program P that opens
what it closes is replaced by one token or none, and Q is the result. `Does(P, Q)` says that Q keeps what P
does: every place of Q stands for a place of P, the end for the end, and where a step of
Q leads, P comes to the place that it leads to, with the same tape, pointer, output and
input, unless it dies first. `CutDoes` reduces that to the piece: outside, brackets keep
their partners, since the piece keeps its loops to itself (`CutCloses`), and it is enough
that the token comes to what the piece comes to. There are four kinds of piece: a token
that is idle, two runs of the same kind (`MergeRuns`), a loop behind a `]`, whose cell
is 0 (`DropDead`), and the round trip (`DropRound`). The last is the hard one: the scan
back stops at a zero or dies at the end of the tape, because the tape is finite; if it stops, the cells
it passed are not 0 and the cell that it left is, so the scan forth stops there.

A pass keeps `Does` from the program it reads to what it has made so far with the
rest of the program behind it (`Done`), and `Does` is transitive (`DoesTrans`). The theorem
`OptimizeDoes` puts the passes together; what `before` runs is itself
rendered, so `render` is needed in both directions.

SameOutcome is not inductive: it compares outputs, and a machine may print
anything next. `Inv` says that the programs are related (`Ready`), that both machines have come
from the same start (`Come`), and that the optimized program never prints first
(`Behind`). From these, `before` and the image of `after` are both on the one run of the emitted
program, so that one of them is ahead of the other (`ReachLinear`), and what the one behind has
printed is the beginning of what the other has (`ReachPrints`).

The library's induction theorems take an operator, which the provers cannot
instantiate. The induction in these proofs is on a set of numbers instead (`BoundedInd`,
`NatInd`: a set that holds 0 and, with a number, the next one, holds them all), which
they can; recursive functions are unfolded the same way (`Iterates`).

Proved is what these theorems name. Model-checked only are the properties of
`StackCode`, `MultiByte` and `PhaseCode` (with `ControlFlow`), their
refinement and liveness included, and the liveness of the others: `CatchesUp` of `Interpreter` and
`KeepsUp` of `BFOptimizer`. The text of `StackCode` uses bit operations, the
node lists of `MultiByte` and `PhaseCode` recursive operators, and liveness is out of the prover's reach.

## Findings

* `src/ir_optimizer.go:142`: `optimizeBlock` resets nothing at a store through an
  index or a pointer, though `src/ir_optimizer.go:24` and `src/docs/ir.md:158`
  say `known` is reset at unknown nodes. With `x` a uint16 and `p := &x`,
  `x = 5; *p = 7; x = 5` leaves 7 in `x`: the second `x = 5` is dropped (run
  `IROptimizerStoredKnown`).
* `src/codegen.go:1073`: `genDivMod2`, the halving step of the bitwise operations,
  moves the remainder onto a temp it has not cleared, and divisions leave theirs
  non-zero. `if a { if b { x = x / d } else {} } else {}` and then `if x {} else
  { y = a & b }` take the same temp: 1 & 3 becomes 2 (run `StackCodeNested`).

Met while modelling, without a run of their own. In the code generator:

* `src/codegen.go:357`: `Generate` drops the text that sets the markers when the
  program neither loads nor stores a slot, though frames and far moves scan the
  markers too. `src/docs/pipeline.md:133` says that it does so when the stack is never
  accessed. A recursive function without parameters, called as a statement,
  ends up there: its frames are not at the stack but at the first marker, on the
  temps at 11 and 14. `StackUsed` is the criterion of the code; with `Operations <-
  UnbootedOperations` and `Layouts <- NoLayouts` in `StackCodeNested.cfg`, TLC finds
  `ImplementsStack` violated by the first push.
* `src/codegen.go:1595`: `walkToDynSlot` adds the array base with a scratch
  register that the emptied cache reports as free while it still holds the value
  to store, so a store at a base of 20 and more may store 0 (`LargeBases = TRUE` in
  `RegCacheOperands.cfg`), against `src/docs/ir.md:87`.
* `src/codegen.go:1039`: the division text with divisor 1 ends three cells to the
  left of where `src/codegen.go:1033` says; the interpreter hides it by
  recognising the text.
* `src/codegen.go:100`: the pool of 16 temps is not enough for a bitwise operation
  three then branches deep, or in the fourth case of a switch: the compiler panics.
  Each then branch around it holds two temps, each else branch one, and the
  operation takes twelve; a division takes six adjacent ones and one more.
* `src/codegen.go:706`: `IRMove` leaves a stack-slot source at its last stored
  value, though `src/ir.go:46` says it becomes 0. With `ReadAfterMove = TRUE` in
  `RegCacheOperands.cfg`, TLC finds a program that reads the old value.
* `src/interpreter.go:151`: `isMultLoop` accepts a loop whose pairs come back to
  the counter, such as `[->+<->+<]`, which takes 2 off the counter each time,
  against `src/interpreter.go:117`. The generator emits no such loop, and
  `MCCases` has none.
* `src/codegen.go:1447`: `genFramePop` clears the values that its comment
  (`src/codegen.go:1439`) says it leaves as they are; a later push relies on the
  clearing, as `StackMemory` states it.

In slices and strings (the names are the kinds of `SliceHeap`):

* selfConcat (`src/lowerer.go:1053`): `s += s` copies from the header it has
  already changed.
* cutString (`src/lowerer.go:1053`, `1076`): `p = p[:1]; p += x` writes into the
  buffer of the string `p` was cut from.
* viewSpread (`src/lowerer.go:1893`): `append(b, s[i:j]...)` frees the tail of a
  buffer that is in use, against `src/lowerer.go:988` and `src/docs/lowering.md:594`.
* overlap (`src/lowerer.go:1886`): `append(b[:1], c...)` copies forwards over its own
  source, against `src/docs/lowering.md:519`.
* fieldTaken (`src/lowerer.go:563`): a buffer that a struct field took over is freed
  with the variable it came from.
* swapped (`src/lowerer.go:4443`): `t, b = b, t` of a body's variable with another marks
  nothing as escaped, and the body's end frees the buffer that the other one got.
* skippedDeclaration (`src/lowerer.go:703`): a body left by `continue` before
  `s := ...` frees what an older round's header says.

In integers (kinds of `MultiByte`):

* dividendOverwritten (`src/lowerer.go:3009`): a division whose target is also an operand
  reads it after writing it, against `src/docs/lowering.md:1585`.
* returnedLiteral (`src/lowerer.go:6848`): a constant returned as a wide integer has
  the size of its value.
* literalFirst (`src/lowerer.go:10158`): `c op x` with a constant first takes
  its size from the constant.
* elementStep (`src/lowerer.go:5473`): `a[i]++` on wide elements steps the low byte
  only, against `src/README.md:446` and `489`.
* shiftedConstant: a shifted constant is computed in the size of the constant.
* A tuple assignment `i, a[i] = 1, x` uses the new `i`.

In statements (kinds of `ControlFlow`):

* rangeLimit (`src/lowerer.go:6089`): `range n` reads `n` again in each round.
* rangeKey (`src/lowerer.go:6089`): an assignment to the key changes the iteration.
* postAfterLeave (`src/lowerer.go:6048`): a return or goto out of a `for` still runs
  its post statement and condition.
* namedTailCall (`src/lowerer.go:7450`): a named result keeps its value from one round
  of a tail recursion to the next.
* namedSwap (`src/lowerer.go:6720`): `return b, a` with results a and b gives b, b.
* returnedVariable (`src/lowerer.go:6894`): returning a global struct moves its cells away.
* callersVariable (`src/lowerer.go:7106`): an inlined function sees its caller's local
  of the name of a global.
* maskedParameter (`src/lowerer.go:4140`): `x := f(x)` hides f's parameter x from f.
* deferInCalledLoop (`src/lowerer.go:6912`): a function with a defer is rejected when
  called in a loop.
* deferAgain (`src/lowerer.go:6912`): a defer's flag stays 1 when its function runs
  again in a loop, against `src/docs/lowering.md:1527`.
* deferInSwitch (`src/lowerer.go:6912`): a deferred function reads the freed flag of the switch.
* labelTaken (`src/lowerer.go:6415`): a loop in a function called from the head of a
  labelled loop takes its label.
* deferInInit (`src/lowerer.go:301`): the deferred calls of init run at the end of main,
  and a goto in init is rejected.
* structRedefined (`src/lowerer.go:4840`): an assignment of a struct in an inner scope
  makes a new variable.

In recursive functions (the programs of `MCPhaseCode` keep clear of these; each is
a program that prints something else than in Go or reads a dead cell):

* `src/lowerer_rec.go:1929`: a return inside a loop does not leave the loop, and the
  loop goes on without its frame.
* `src/lowerer_rec.go:1693`: a branch that returns from within, in an inner if, stores its
  cells afterwards, into the frame of the caller, against `src/lowerer_rec.go:1685`.
* `src/lowerer_rec.go:1264`: a variable first loaded in the right operand of `&&` or `||`
  counts as loaded when that operand was not run; so does one first loaded in a loop
  body that ran no round.
* `src/lowerer_rec.go:1730`: `if b` with a variable and no else sets `b` to 0.
* `src/lowerer_rec.go:838`: when only one branch recurses, the guard made of the other one
  has to return; if it does not, the recursive call is made all the same.
* `src/lowerer_rec.go:916`: with calls in both branches the statements before the call of the
  first branch run in any case; and a conditional call that is not made stores the
  result of an earlier call all the same.
* `src/lowerer_rec.go:1208`: of two conditional calls in a branch, the second finds the
  condition in a cell whose load is thrown away (`l.nodes = nil` follows it), against
  the comment at `src/lowerer_rec.go:1203`.
* `src/lowerer_rec.go:763`: `putchar(f(n - 1))` as a statement loses the putchar.
* `src/lowerer_rec.go:1046`: a recursive call in the right operand of `&&` or `||` is always
  made, and recursive calls are made before the other calls of their expression.
* `src/lowerer_rec.go:587`: after `a, b := f(...)`, `a, c := f(...)` puts the results
  in slots that are not adjacent.
* `src/lowerer_rec.go:1467`: an inlined function's named results have no cells, and its defers
  are run at the end of main.
* `src/lowerer_rec.go:1737`: `break` in a switch is rejected, or leaves the loop around it.
* `src/lowerer_rec.go:2074`: a defer in a branch runs at every return that comes after it in the
  text; one in a loop runs once.
* `src/docs/recursion.md:311` says that the pool grows at most 5 times, `src/codegen.go:58` says 8.
  `src/docs/recursion.md` also says that a switch with recursive calls in several
  cases is rejected; the code accepts it, and what it makes of it is right.

## Plan

In this order, each with its runs and, where marked P, its proofs:

Done: the register cache and node code, the IR optimizer, the stack and
arithmetic code with its temps, the Brainfuck optimizer, the interpreter, slices
and strings with their proofs, integers, statements with scopes, cells and calls, recursive functions
and the compile driver. Still to come:

1. Calls of recursive functions from loops and branches, integers wider than a byte in
   frames, and named kinds for the mistakes of recursive functions, in `PhaseCode`.
2. Maps, slices of slices, of structs and of arrays in `SliceHeap`; range over slices
   in `ControlFlow`.
3. Proofs about `StackMemory` and the helpers of `TapeText` that need no
   induction: the layout's regions are disjoint for every sentinel, `allocNear`
   gives a free temp.


## Not modelled

The parser (a library call), the command line (I/O), and the syntax tests of the
analyzer (one-line tests of a syntax tree). Of the lowerer, composite values wider than
a byte (arrays, structs of several fields, maps), methods, closures' rejection and
pointers to composites. Of recursive functions, integers wider than a byte (16 and 32
bits are one slot for each byte), the dispatch cells that a function with bitwise operators
gets in the pool (`hasBitwise`), and a depth of 255 calls, which the counter of frames cannot
hold and `src/docs/recursion.md` states as a limitation. Local variables with the
same name share a slot, which it states as well.
