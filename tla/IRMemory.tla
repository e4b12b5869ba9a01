----------------------------- MODULE IRMemory -----------------------------
(***************************************************************************)
(* The abstract cell machine of the intermediate representation: what the  *)
(* IR nodes of src/ir.go mean to the lowerer that emits them and to the IR *)
(* optimizer that rewrites them.  A cell is a byte of memory; a node reads *)
(* cells and writes cells; nothing here knows of registers, of the stack   *)
(* or of the tape.                                                         *)
(*                                                                         *)
(* `live' is the set of cells the program may read: a cell given back with *)
(* IRFree, and the source of an IRMove, hold nothing until written again.  *)
(* A never written cell is live and holds 0 (the tape starts at zero).     *)
(***************************************************************************)
EXTENDS Integers, FiniteSetsExt

CONSTANTS
    Slots,      \* the stack slots: cells above sentinelFwd, numbered from 0
    Temps,      \* the phase-temp cells (cells up to sentinelFwd)
    Mod,        \* the byte modulus; 256 in the program
    BinaryFns   \* the functions of IRAdd .. IRXor and of the six IRCmp

Byte == 0 .. (Mod - 1)
Cells == Slots \cup Temps

ASSUME IRAssumption ==
    /\ Mod \in Nat /\ Mod >= 2
    /\ Slots \subseteq Nat
    /\ Temps \cap Int = {}
    /\ BinaryFns \subseteq [Byte \X Byte -> Byte]

VARIABLES
    mem,        \* the value of every cell; 0 where the cell is not live
    live        \* the cells a program may read

memVars == <<mem, live>>

MemTypeOK ==
    /\ mem \in [Cells -> Byte]
    /\ live \subseteq Cells

MemInit ==
    /\ mem = [c \in Cells |-> 0]
    /\ live = Cells

-----------------------------------------------------------------------------
(* What one node does to the cells. *)

\* A node that writes v to cell d.
Put(d, v) ==
    /\ mem' = [mem EXCEPT ![d] = v]
    /\ live' = live \cup {d}

Result(f, x, y) == f[<<x, y>>]

NotOf(v) == IF v = 0 THEN 1 ELSE 0

MemConst(d, v) == Put(d, v)

MemAddI(d, v) == d \in live /\ Put(d, (mem[d] + v) % Mod)
MemSubI(d, v) == d \in live /\ Put(d, (mem[d] - v) % Mod)

\* `kept' says the program may still read the source, which is then 0.
MemMove(d, s, kept) ==
    /\ s \in live /\ d # s
    /\ mem' = [mem EXCEPT ![d] = mem[s], ![s] = 0]
    /\ live' = IF kept THEN live \cup {d} ELSE (live \cup {d}) \ {s}

MemCopy(d, s) == s \in live /\ Put(d, mem[s])

MemBinary(d, a, b, f) == {a, b} \subseteq live /\ Put(d, Result(f, mem[a], mem[b]))

MemDivMod(q, r, a, b, f, g) ==
    /\ {a, b} \subseteq live /\ q # r
    /\ mem' = [mem EXCEPT ![q] = Result(f, mem[a], mem[b]), ![r] = Result(g, mem[a], mem[b])]
    /\ live' = live \cup {q, r}

MemNot(d, s) == s \in live /\ Put(d, NotOf(mem[s]))

\* stack[base + idx] is a slot of the array: the lowerer emits no bounds check
\* and a program that leaves its array has no meaning here.
MemDynLoad(d, base, i) ==
    /\ i \in live /\ base + mem[i] \in live
    /\ Put(d, mem[base + mem[i]])

MemDynStore(base, i, s) ==
    /\ {i, s} \subseteq live /\ base + mem[i] \in Slots
    /\ Put(base + mem[i], mem[s])

MemFree(c) ==
    /\ mem' = [mem EXCEPT ![c] = 0]
    /\ live' = live \ {c}

\* IRPutc, a condition, an IRStoreFrame: the cell is read and nothing changes.
MemRead(c) == c \in live /\ UNCHANGED memVars

-----------------------------------------------------------------------------
MemNext ==
    \/ \E d \in Cells, v \in Byte : MemConst(d, v) \/ MemAddI(d, v) \/ MemSubI(d, v)
    \/ \E d, s \in Cells : MemCopy(d, s) \/ MemNot(d, s)
    \/ \E d, s \in Cells, kept \in BOOLEAN : MemMove(d, s, kept)
    \/ \E d, a, b \in Cells, f \in BinaryFns : MemBinary(d, a, b, f)
    \/ \E q, r, a, b \in Cells, f, g \in BinaryFns : MemDivMod(q, r, a, b, f, g)
    \/ \E d, i \in Cells, base \in Slots : MemDynLoad(d, base, i)
    \/ \E i, s \in Cells, base \in Slots : MemDynStore(base, i, s)
    \/ \E c \in Cells : MemFree(c)

MemSpec == MemInit /\ [][MemNext]_memVars
=============================================================================
