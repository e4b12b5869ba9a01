----------------------------- MODULE ArithCode -----------------------------
(***************************************************************************)
(* The arithmetic of src/codegen.go as text: sums, products, quotients,    *)
(* bits, comparisons and if-else on the registers and phase temps of the   *)
(* tape, with the algo temps for everything in between.                    *)
(*                                                                         *)
(* `used' are the algo temps held by the if-else statements around an      *)
(* operation: they decide which temps it gets, and what these still hold.  *)
(***************************************************************************)
EXTENDS TapeText

CONSTANT Bits   \* the bits of a byte; 8 in the program

ASSUME BitsAssumption == Bits \in Nat /\ Mod = 2 ^ Bits

-----------------------------------------------------------------------------
(* Control flow. *)

If(cond, body) == While(cond, body \o Clear(cond))

\* What emitIfElse holds while a branch runs: its condition's copy and the mark of
\* the else branch, then the mark alone.
HeldInThen(used) == used \cup {Free(used)[1], Free(used)[2]}
HeldInElse(used) == used \cup {Free(used)[2]}

IfElseWith(t, u, cond, then, else) ==
    CopyValue(t, cond, u) \o Incr(u) \o If(t, then \o Decr(u)) \o While(u, else \o Decr(u))

IfElse(used, cond, then, else) ==
    IfElseWith(Free(used)[1], Free(used)[2], cond, then, else)

-----------------------------------------------------------------------------
(* Sums and products. *)

Subtract(dst, src) == While(src, Decr(dst) \o Decr(src))

AddOnto(dst, src, t) == CopyValue(t[2], src, t[1]) \o MoveValue(dst, t[2])

AddWith(t, dst, src1, src2) ==
    IF dst = src2 /\ dst # src1 THEN AddOnto(dst, src1, t)
    ELSE (IF dst = src1 THEN <<>> ELSE CopyValue(dst, src1, t[1])) \o AddOnto(dst, src2, t)

GenAdd(used, dst, src1, src2) ==
    AddWith(FreeNear(used, <<dst, src1, src2>>), dst, src1, src2)

SubWith(t, dst, src1, src2) ==
    (IF dst = src1 THEN <<>> ELSE CopyValue(dst, src1, t[1]))
    \o CopyValue(t[2], src2, t[1]) \o Subtract(dst, t[2])

GenSub(used, dst, src1, src2) ==
    SubWith(FreeNear(used, <<dst, src1, src2>>), dst, src1, src2)

MulWith(t, dst, src1, src2) ==
    CopyValue(t[1], src1, t[3]) \o Clear(dst)
    \o While(t[1], Decr(t[1]) \o CopyValue(t[2], src2, t[3]) \o MoveValue(dst, t[2]))

GenMul(used, dst, src1, src2) ==
    MulWith(FreeNear(used, <<dst, src1, src2>>), dst, src1, src2)

-----------------------------------------------------------------------------
(* Quotients. *)

\* [->-[>+>>]>[+[-<+>]>+>>]<<<<<], on cells holding n, d, 0, 0, 0, 0: they end with
\* 0, d - n % d, n % d, n / d, 0, 0.
DivModCode ==
    Loop(<<Add(-1), Move(1), Add(-1)>> \o Loop(<<Move(1), Add(1), Move(2)>>) \o <<Move(1)>>
         \o Loop(<<Add(1)>> \o Loop(<<Add(-1), Move(-1), Add(1), Move(1)>>)
                 \o <<Move(1), Add(1), Move(2)>>)
         \o <<Move(-5)>>)

\* Mutant of ClearedForDivMod: the remainder's cell is taken to be 0.
ClearedButRemainder(base) == FlattenSeq([i \in 1 .. 3 |-> Clear(base + 2 + i)])

ClearedForDivMod(base) == FlattenSeq([i \in 1 .. 4 |-> Clear(base + 1 + i)])

\* What leaves results in their cells; -1 is no cell.
Result(dst, cell) == IF dst < 0 THEN <<>> ELSE Clear(dst) \o MoveValue(dst, cell)

DivModOn(base, t, quotDst, remDst, src1, src2) ==
    CopyValue(base, src1, t) \o CopyValue(base + 1, src2, t) \o ClearedForDivMod(base)
    \o <<To(base)>> \o DivModCode \o Result(remDst, base + 2) \o Result(quotDst, base + 3)

DivModWith(used, base, quotDst, remDst, src1, src2) ==
    DivModOn(base, Alloc(used \cup base .. (base + 5)), quotDst, remDst, src1, src2)

GenDivMod(used, quotDst, remDst, src1, src2) ==
    DivModWith(used, AllocConsecutive(used, 6), quotDst, remDst, src1, src2)

-----------------------------------------------------------------------------
(* Bits. *)

\* Half of src, and its lowest bit; src is consumed.
HalveWith(prev, quotient, remainder, src) ==
    Clear(quotient) \o Clear(remainder)
    \o While(src, Decr(src) \o MoveValue(prev, remainder) \o Incr(remainder)
                  \o If(prev, Incr(quotient) \o Decr(remainder)))

GenDivMod2(used, quotient, remainder, src) == HalveWith(Alloc(used), quotient, remainder, src)

\* The bit an operation makes of two, whose product is in prod.
CombineBits(used, name, bit, bitA, bitB, prod) ==
    IF name = "and" THEN Clear(bit) \o MoveValue(bit, prod)
    ELSE GenAdd(used, bit, bitA, bitB)
         \o FlattenSeq([i \in 1 .. (IF name = "or" THEN 1 ELSE 2) |-> GenSub(used, bit, bit, prod)])

\* Takes the lowest bit off an operand.
TakeBit(held, tmp, operand, bit) ==
    MoveValue(tmp, operand) \o GenDivMod2(held \cup {tmp}, operand, bit, tmp)

OneBit(held, t, name, dst) ==
    Clear(t[9]) \o TakeBit(held, t[9], t[1], t[3]) \o TakeBit(held, t[9], t[2], t[4])
    \o GenMul(held, t[5], t[3], t[4]) \o CombineBits(held, name, t[8], t[3], t[4], t[5])
    \o GenMul(held \cup {t[9]}, t[9], t[6], t[8]) \o GenAdd(held \cup {t[9]}, dst, dst, t[9])
    \o GenAdd(held, t[6], t[6], t[6])

\* The temps t are a, b, bitA, bitB, prod, weight, ct, bit and, for a moment each,
\* tmp and t2.
BitwiseWith(held, t, name, dst, src1, src2) ==
    CopyValue(t[1], src1, t[7]) \o CopyValue(t[2], src2, t[7]) \o Clear(dst)
    \o SetValue(held, t[6], 1) \o FlattenSeq([i \in 1 .. Bits |-> OneBit(held, t, name, dst)])

GenBitwise(used, name, dst, src1, src2) ==
    BitwiseWith(used \cup {Free(used)[i] : i \in 1 .. 8}, Free(used), name, dst, src1, src2)

-----------------------------------------------------------------------------
(* Comparisons. *)

\* b is consumed.
EqualWith(t, ct, dst, a, b, eq) ==
    CopyValue(t, a, ct) \o Subtract(t, b)
    \o SetValue({t, ct}, dst, IF eq THEN 1 ELSE 0) \o If(t, IF eq THEN Decr(dst) ELSE Incr(dst))

EqualNear(used, t, dst, a, b, eq) ==
    EqualWith(t, FreeNear(used \cup {t}, <<a, t>>)[1], dst, a, b, eq)

GenEqual(used, dst, a, b, eq) == EqualNear(used, FreeNear(used, <<dst, a, b>>)[1], dst, a, b, eq)

\* a and b are counted down together; b is consumed.
OrderWith(x, t, flag, dst, a, b, ge) ==
    CopyValue(x, a, t) \o SetValue({x, t, flag}, dst, IF ge THEN 1 ELSE 0)
    \o While(b, SetValue({x, t, flag}, flag, 1) \o MoveValue(t, x)
                \o While(t, Decr(t) \o MoveValue(x, t) \o Decr(b) \o Clear(flag))
                \o If(flag, (IF ge THEN Decr(dst) ELSE Incr(dst)) \o Clear(b)))

OrderNear(t, dst, a, b, ge) == OrderWith(t[1], t[2], t[3], dst, a, b, ge)

GenOrder(used, dst, a, b, ge) == OrderNear(FreeNear(used, <<dst, a, b>>), dst, a, b, ge)

Swapped(cmp) == cmp \in {"gt", "le"}

GenCmp(used, cmp, dst, src1, src2) ==
    IF cmp \in {"eq", "ne"} THEN GenEqual(used, dst, src1, src2, cmp = "eq")
    ELSE GenOrder(used, dst, IF Swapped(cmp) THEN src2 ELSE src1,
                  IF Swapped(cmp) THEN src1 ELSE src2, cmp \in {"le", "ge"})

\* The operand GenCmp consumes.
Consumed(cmp, src1, src2) == IF Swapped(cmp) THEN src1 ELSE src2

\* genNode compares a copy of it when it is a phase temp.
CopyOf(used, src) ==
    IF src \in Registers THEN src ELSE FreeNear(used, <<src>>)[1]

CompareWith(used, cmp, dst, src1, src2, t) ==
    IF t = Consumed(cmp, src1, src2) THEN GenCmp(used, cmp, dst, src1, src2)
    ELSE CopyValue(t, Consumed(cmp, src1, src2),
                   FreeNear(used \cup {t}, <<Consumed(cmp, src1, src2), t>>)[1])
         \o GenCmp(used \cup {t}, cmp, dst, IF Swapped(cmp) THEN t ELSE src1,
                   IF Swapped(cmp) THEN src2 ELSE t)

Compare(used, cmp, dst, src1, src2) ==
    CompareWith(used, cmp, dst, src1, src2, CopyOf(used, Consumed(cmp, src1, src2)))

NotWith(t, dst, src) ==
    CopyValue(t[1], src, t[2]) \o SetValue({t[1]}, dst, 1) \o While(t[1], Decr(dst) \o Clear(t[1]))

GenNot(used, dst, src) == NotWith(FreeNear(used, <<dst, src>>), dst, src)
=============================================================================
