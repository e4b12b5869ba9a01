----------------------------- MODULE TapeText -----------------------------
(***************************************************************************)
(* The tape of a compiled program and the text src/codegen.go emits to     *)
(* move on it: where registers, temps, markers and slots are, which temp   *)
(* the pool hands out, how a cell is reached, and the loops on single cells *)
(* that everything else is made of.                                        *)
(*                                                                         *)
(* An operator named after a method of Generator is the sequence of what   *)
(* the method does: instructions it emits, and calls of moveTo and its like, *)
(* which emit what it takes from where the generator believes the pointer  *)
(* to be.  `Emitted' carries that position through the sequence.           *)
(***************************************************************************)
EXTENDS Brainfuck, FiniteSetsExt

CONSTANTS
    SentinelFwd,    \* the forward sentinel: 24, 32, .. 88 in the program
    FreeRegs        \* the registers the cache holds no slot in

-----------------------------------------------------------------------------
(* The layout of the tape. *)

HighwayStride == 8
PhaseTempBase == 25
SentinelBack == 0
Registers == {1, 2, 4, 5, 7}
Markers == {p \in 1 .. (SentinelFwd - 1) : p % HighwayStride = 0}
AlgoTemps == {3, 6} \cup 9 .. 15 \cup 17 .. 23
             \cup {p - 1 : p \in {n \in Markers \cup {SentinelFwd} : n - 1 >= PhaseTempBase}}
PhaseTemps == (PhaseTempBase .. (SentinelFwd - 1)) \ (Markers \cup AlgoTemps)
\* A register the cache holds no slot in is scratch.
CpuCells == (Registers \ FreeRegs) \cup PhaseTemps

StackValuePos(slot) == SentinelFwd + 4 + 3 * slot
GuardPos(slot) == StackValuePos(slot) - 1
ZeroPos(slot) == StackValuePos(slot) + 1
PadCell == SentinelFwd + 2

-----------------------------------------------------------------------------
(* The algo-temp pool; `used' are the temps in use: by the operation itself, and *)
(* by the if-else statements it is nested in.                                     *)

Distance(a, b) == IF a < b THEN b - a ELSE a - b

\* The temps from the closest to a phase temp on; for any other cell from the left.
TempsFrom == [cell \in 0 .. SentinelFwd |->
    LET Far(t) == IF cell < PhaseTempBase THEN 0 ELSE Distance(cell, t)
        Before(a, b) == Far(a) < Far(b) \/ (Far(a) = Far(b) /\ a < b)
    IN [i \in 1 .. Cardinality(AlgoTemps) |->
           CHOOSE t \in AlgoTemps : Cardinality({u \in AlgoTemps : Before(u, t)}) = i - 1]]

\* The free temps in the order allocNear hands them out near some cells: the first
\* phase temp among them counts.
FreeNear(used, cells) ==
    SelectSeq(TempsFrom[Head(SelectSeq(cells, LAMBDA c : c >= PhaseTempBase) \o <<0>>)],
              LAMBDA t : t \notin used)

AllocNear(used, cell) == FreeNear(used, <<cell>>)[1]

\* alloc: the first free temp, n times.
Free(used) == FreeNear(used, <<>>)
Alloc(used) == Free(used)[1]

\* allocConsecutive: the first n free temps in a row.
AllocConsecutive(used, n) ==
    Min({t \in AlgoTemps : t .. (t + n - 1) \subseteq AlgoTemps \ used})

\* allocTemp: a register next to the cell that holds no slot, the backward
\* sentinel for register 1, or an algo temp.
AllocTemp(used, cell) ==
    LET neighbors == {r \in FreeRegs : Distance(r, cell) = 1}
    IN IF neighbors # {} THEN Min(neighbors)
       ELSE IF cell = 1 THEN SentinelBack
       ELSE AllocNear(used, cell)

-----------------------------------------------------------------------------
(* Navigation: what is emitted with the pointer at `from' to reach a cell. *)

\* n times the same character, as one instruction.
Moves(n) == IF n = 0 THEN <<>> ELSE <<Move(n)>>
Adds(n) == IF n = 0 THEN <<>> ELSE <<Add(n)>>

ScanFwd == Loop(<<Move(HighwayStride)>>)
ScanBack == Loop(<<Move(-HighwayStride)>>)
LenScan == HighwayStride + 2

Go(from, cell) == Moves(cell - from)

MoveToSentinel(from) ==
    LET marker == Max({((from + HighwayStride - 1) \div HighwayStride) * HighwayStride,
                       HighwayStride})
    IN Go(from, marker) \o (IF marker < SentinelFwd THEN ScanFwd ELSE <<>>)

BackToHome(from) ==
    LET marker == Min({(from \div HighwayStride) * HighwayStride, SentinelFwd - HighwayStride})
    IN Go(from, marker) \o (IF marker > SentinelBack THEN ScanBack ELSE <<>>)

\* moveTo takes the highway where that is shorter.  The moves to a marker and
\* from a sentinel that this takes are direct: their detour would be longer.
MoveTo(from, cell) ==
    IF /\ cell > from /\ from < HighwayStride
       /\ HighwayStride - from + LenScan + Distance(SentinelFwd, cell) < cell - from
    THEN MoveToSentinel(from) \o Go(SentinelFwd, cell)
    ELSE IF /\ cell < from /\ from >= SentinelFwd
            /\ from - (SentinelFwd - HighwayStride) + LenScan + cell < from - cell
    THEN BackToHome(from) \o Go(SentinelBack, cell)
    ELSE Go(from, cell)

\* Calls of moveTo, moveToSentinel and backToHome, and assignments to g.pos.
To(cell)    == [op |-> "to", arg |-> cell]
ToSentinel  == [op |-> "toSentinel", arg |-> SentinelFwd]
ToHome      == [op |-> "toHome", arg |-> SentinelBack]
NowAt(cell) == [op |-> "nowAt", arg |-> cell]

\* FlattenSeq, a piece at a time: the text of a long operation is too much for one.
Piece == 100
Joined(seqs) ==
    FlattenSeq([k \in 1 .. (Len(seqs) + Piece - 1) \div Piece |->
        FlattenSeq(SubSeq(seqs, (k - 1) * Piece + 1, Min({k * Piece, Len(seqs)})))])

\* What a sequence of steps emits with the pointer at p, and where the generator
\* believes it to be afterwards: each call leaves g.pos at its argument.
Emitted(p, steps) ==
    LET calls == {i \in DOMAIN steps : steps[i].op \in {"to", "toSentinel", "toHome", "nowAt"}}
        LastCall(i) == i - CHOOSE d \in 0 .. i : /\ d = i \/ i - d \in calls
                                                /\ \A j \in (i - d + 1) .. i : j \notin calls
        PosAfter(i) == IF LastCall(i) = 0 THEN p ELSE steps[LastCall(i)].arg
        TextOf(i) == CASE steps[i].op = "to"         -> MoveTo(PosAfter(i - 1), steps[i].arg)
                       [] steps[i].op = "toSentinel" -> MoveToSentinel(PosAfter(i - 1))
                       [] steps[i].op = "toHome"     -> BackToHome(PosAfter(i - 1))
                       [] steps[i].op = "nowAt"      -> <<>>
                       [] OTHER                      -> <<steps[i]>>
    IN [code |-> Joined([i \in DOMAIN steps |-> TextOf(i)]), pos |-> PosAfter(Len(steps))]

BackToSentinel == Loop(<<Move(-3)>>) \o <<NowAt(SentinelFwd)>>
Home == BackToSentinel \o <<ToHome>>
\* Mutant of HomeFromBreadcrumb: the breadcrumb is not stepped over first.
HomeFromGuard == Home

HomeFromBreadcrumb == <<Move(-3)>> \o Home
GoToBreadcrumb == <<ToSentinel, Move(3)>> \o Loop(<<Move(3)>>)
RestoreBreadcrumb == GoToBreadcrumb \o <<Add(1)>> \o Home

-----------------------------------------------------------------------------
(* Loops and arithmetic on one cell. *)

Incr(cell) == <<To(cell), Add(1)>>
Decr(cell) == <<To(cell), Add(-1)>>
Clear(cell) == <<To(cell)>> \o Loop(<<Add(-1)>>)
While(cond, body) == <<To(cond), Open>> \o body \o <<To(cond), Close>>

MoveValue(dst, src) == While(src, Incr(dst) \o Decr(src))
CopyValue(dst, src, temp) ==
    Clear(dst) \o Clear(temp) \o While(src, Incr(dst) \o Incr(temp) \o Decr(src))
    \o MoveValue(src, temp)

\* mulFactors: a * b + r = n with the least a + b + r, the first of several.
MulFactors(n) ==
    LET Sum(a) == a + (n \div a) + (n % a)
        better == {a \in 2 .. n : a * a <= n /\ Sum(a) < n}
        best == Min({a \in better : \A b \in better : Sum(a) <= Sum(b)})
    IN IF better = {} THEN <<0, 0, n>> ELSE <<best, n \div best, n % best>>

\* emitDelta with "+": v is added at once, or in a loop if that is shorter.
EmitAdd(used, cell, v) ==
    LET f == MulFactors(v)
        t == AllocTemp(used, cell)
        dist == Distance(cell, t)
        cost == 3 * dist + 6 + f[1] + f[2] + f[3] + (IF f[3] > 0 THEN dist ELSE 0)
    IN IF v <= 0 THEN <<>>
       ELSE IF v <= 12 \/ cost >= v THEN <<To(cell), Add(v)>>
       ELSE Clear(t) \o Adds(f[1]) \o While(t, <<To(cell)>> \o Adds(f[2]) \o Decr(t))
            \o (IF f[3] = 0 THEN <<>> ELSE <<To(cell), Add(f[3])>>)

SetValue(used, cell, v) == Clear(cell) \o EmitAdd(used, cell, v)

\* emitSetViaMul: the cell under the pointer gets n, the one right of it helps.
SetViaMul(n) ==
    LET f == MulFactors(n)
    IN IF n <= 12 THEN Adds(n)
       ELSE <<Move(1)>> \o Adds(f[1]) \o Loop(<<Move(-1)>> \o Adds(f[2]) \o <<Move(1), Add(-1)>>)
            \o <<Move(-1)>> \o Adds(f[3])
=============================================================================
