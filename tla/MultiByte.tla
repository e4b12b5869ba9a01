----------------------------- MODULE MultiByte -----------------------------
(***************************************************************************)
(* Statements on integers of src/lowerer.go: expressions of every operator *)
(* on bytes and on wider integers, constants, conversions, elements of     *)
(* arrays and slices, pointers, assignments, steps and println.            *)
(*                                                                         *)
(* lowerExpr and lowerStmt give the IR of a piece of a program.  A         *)
(* statement is one step: its IR runs on the cells, and beside it `go'     *)
(* does what the Go statement means on whole numbers.                      *)
(***************************************************************************)
EXTENDS IntegerCode, TLC
LOCAL INSTANCE Bitwise

CONSTANTS
    CharSpace,   \* the characters that println prints between and after numbers
    CharNewline,
    Home,        \* the first cell of every variable
    Counts,      \* the elements of every variable: 1, or more for an array
    Temps,       \* the first cell of temporaries
    LastCell,    \* and the last one
    Stale,       \* what temporaries hold at first
    Statements,  \* for each size, a sequence of statements on numbers of that size
    Inputs,      \* for each size, the values that the variables begin with
    Miscompiled  \* the mistakes of the code that programs may run into

Cell == 0 .. LastCell

VARIABLES
    mem,    \* the cells
    out,    \* what was printed
    go,     \* the Go program: for each variable the sequence of its elements
    shown,  \* and what it has printed
    size,   \* the size of the wide variables
    target, \* the variable and the element p points to
    spent,  \* whether a cell whose value was used up is 0 or keeps it
    done    \* a statement was executed

vars == <<mem, out, go, shown, size, target, spent, done>>

-----------------------------------------------------------------------------
(* What an expression gives: the nodes that compute it, the cell and the size *)
(* of its value, whether the cell is a temporary, the value of an untyped     *)
(* constant, and the next free cell.                                          *)

NoLit == -1
Result(nodes, cell, n, temp, next) ==
    [nodes |-> nodes, cell |-> cell, size |-> n, temp |-> temp, lit |-> NoLit, next |-> next]
Temporary(nodes, cell, n, next) == Result(nodes, cell, n, TRUE, next)

\* The smallest size a constant fits in.
literalSize(v) == CHOOSE s \in Sizes : v < Mod ^ s /\ \A other \in Sizes : v < Mod ^ other => s <= other

lowerLiteral(v, t) ==
    LET n == literalSize(v)
    IN  [Temporary(Constant(t, n, v), t, n, t + n) EXCEPT !.lit = v]

\* A constant in more cells; anything else is left as it is.
widenIntegerLiteral(r, n, t) ==
    IF r.lit = NoLit \/ r.size = n THEN [r EXCEPT !.nodes = <<>>, !.next = t]
    ELSE [Temporary(Constant(t, n, r.lit), t, n, t + n) EXCEPT !.lit = r.lit]

emitCopyOrMove(dst, r) ==
    IF r.cell = dst THEN <<>>
    ELSE Up(r.size, LAMBDA j : <<IF r.temp THEN IRMove(dst + j, r.cell + j)
                                 ELSE IRCopy(dst + j, r.cell + j)>>)

ensureTemp(r, t) ==
    IF r.temp THEN [r EXCEPT !.nodes = <<>>, !.next = t]
    ELSE Temporary(Up(r.size, LAMBDA j : <<IRCopy(t + j, r.cell + j)>>), t, r.size, t + r.size)

lowerUnaryByte(op, x, t) ==
    CASE op = "!" -> <<IRNot(t, x)>>
      [] op = "-" -> <<IRZero(t + 1), IRSub(t, t + 1, x)>>
      [] op = "^" -> <<IRConst(t + 1, Mod - 1), IRSub(t, t + 1, x)>>

\* -x is the complement of x and 1.
lowerUnaryInt(op, x, n, t) ==
    LET complement == <<IRConst(t + n, Mod - 1)>> \o Up(n, LAMBDA j : <<IRSub(t + j, t + n, x + j)>>)
    IN  IF op = "-" THEN complement \o emitIncInt(t, n, t + n) ELSE complement

Orderings == {"==", "!=", "<", ">", "<=", ">="}
Arithmetic == {"+", "-", "*", "/", "%", "&", "|", "^", "&^", "<<", ">>"}

\* Constants are computed at compile time, in 64 bits.
evalBinaryOp(op, x, y) ==
    CASE op = "+" -> x + y
      [] op = "-" -> (x - y) % (Mod ^ MaxSize)
      [] op = "*" -> x * y
      [] op = "/" -> x \div y
      [] op = "%" -> x % y
      [] op = "&" -> x & y
      [] op = "|" -> x | y
      [] op = "^" -> x ^^ y
      [] op = "&^" -> x - (x & y)
      [] op = "<<" -> x * 2 ^ y
      [] op = ">>" -> x \div 2 ^ y

\* Both operands are bytes; a shift is a multiplication or division by a power
\* of 2, which is 0 when the count is large.
lowerBinaryByte(op, left, right, t) ==
    LET a == left.cell
        b == right.cell
        pow == t + 1
        cnt == t + 2
        Power == <<IRConst(pow, 1)>> \o emitCopyOrMove(cnt, right)
                 \o <<IRLoop(cnt, <<IRAdd(pow, pow, pow), IRSubI(cnt, 1)>>)>>
    IN  CASE op = "<<" -> Append(Power, IRMul(t, a, pow))
          [] op = ">>" -> Append(Power, IRBin("/", t, a, pow))
          [] op = "&^" -> <<IRConst(t + 2, Mod - 1), IRSub(t + 1, t + 2, b), IRAnd(t, a, t + 1)>>
          [] OTHER     -> <<IRBin(op, t, a, b)>>

lowerBinaryInt(op, left, right, t) ==
    LET n == left.size
        a == left.cell
        b == right.cell
        free == t + n
    IN  CASE op = "+" -> emitAddInt(t, a, b, n, free)
          [] op = "-" -> emitSubInt(t, a, b, n, free)
          [] op = "*" -> emitMulInt(t, a, b, n, free)
          [] op \in {"/", "%"} -> emitDivModInt(t, a, b, n, op = "%", free)
          [] op \in {"&", "|", "^"} -> Up(n, LAMBDA j : <<IRBin(op, t + j, a + j, b + j)>>)
          [] op = "&^" ->
                <<IRConst(free, Mod - 1)>>
                \o Up(n, LAMBDA j : <<IRSub(free + 1, free, b + j), IRAnd(t + j, a + j, free + 1)>>)
          [] op \in {"<<", ">>"} -> emitShiftInt(t, a, b, n, op = ">>", free)
          [] op \in Orderings -> emitCmpInt(t, op, a, b, n, free)

\* The larger of two sizes.
Wider(m, n) == IF m < n THEN n ELSE m

\* The operator on two operands whose nodes have been emitted.
Combined(op, left, right, t) ==
    LET n == Wider(left.size, right.size)
        isShift == op \in {"<<", ">>"}
        l == widenIntegerLiteral(left, IF isShift THEN left.size ELSE n, t)
        r == widenIntegerLiteral(right, IF isShift THEN right.size ELSE n, l.next)
        nodes == left.nodes \o right.nodes
        folded == evalBinaryOp(op, left.lit, right.lit)
        wide == n > 1
    IN  IF NoLit \notin {left.lit, right.lit} /\ op \in Arithmetic
           /\ ~(op \in {"/", "%"} /\ right.lit = 0)
        THEN LET c == lowerLiteral(folded, t) IN [c EXCEPT !.nodes = nodes \o c.nodes]
        ELSE IF wide
        THEN Temporary(nodes \o l.nodes \o r.nodes \o lowerBinaryInt(op, l, r, r.next), r.next,
                       IF op \in Orderings THEN 1 ELSE l.size, r.next + l.size)
        ELSE Temporary(nodes \o lowerBinaryByte(op, left, right, t), t, 1, t + 1)

-----------------------------------------------------------------------------
(* Elements of arrays, through an index or a pointer.                        *)

ptrLoad(d, i) == <<IRDynLoad(d, 0, i)>>
ptrStore(i, s) == <<IRDynStore(0, i, s)>>

mulByConst(dst, src, c, t) ==
    IF c = 1 THEN <<IRCopy(dst, src)>> ELSE <<IRConst(t, c), IRMul(dst, src, t)>>

\* n cells from a run-time place on; the index is stepped along.
loadConsecutiveViaPtr(idx, dst, n) ==
    Up(n, LAMBDA j : ptrLoad(dst + j, idx) \o (IF j < n - 1 THEN <<IRAddI(idx, 1)>> ELSE <<>>))
storeConsecutiveViaPtr(idx, src, n) ==
    Up(n, LAMBDA j : ptrStore(idx, src + j) \o (IF j < n - 1 THEN <<IRAddI(idx, 1)>> ELSE <<>>))

loadConsecutiveViaIndex(base, row, dst, n, t) ==
    <<IRCopy(t, row)>>
    \o Up(n, LAMBDA j : <<IRDynLoad(dst + j, base, t)>> \o (IF j < n - 1 THEN <<IRAddI(t, 1)>> ELSE <<>>))
storeConsecutiveViaIndex(base, row, src, n, t) ==
    <<IRCopy(t, row)>>
    \o Up(n, LAMBDA j : <<IRDynStore(base, t, src + j)>> \o (IF j < n - 1 THEN <<IRAddI(t, 1)>> ELSE <<>>))

\* The cells of *p in temporaries; p itself is not stepped.
materializePtrComposite(ptr, n, t) ==
    Temporary(<<IRCopy(t + n, ptr)>> \o loadConsecutiveViaPtr(t + n, t, n), t, n, t + n)

-----------------------------------------------------------------------------
(* Expressions: records with a kind k and operands.                          *)

IsLit(e) == e.k = "lit"
IsWide(r) == r.size > 1

RECURSIVE lowerExpr(_, _)

\* The offset of an element in its array: the index, lowered or a constant, times
\* the size of an element.
ScaledIndex(r, n, t) == Temporary(r.nodes \o mulByConst(t, r.cell, n, r.next), t, 1, t + 1)
flatIdxFor(ix, n, t) ==
    IF IsLit(ix) THEN Temporary(<<IRConst(t, ix.v * n)>>, t, 1, t + 1)
    ELSE ScaledIndex(lowerExpr(ix, t + 1), n, t)

\* The slot of an element behind a pointer.
Displaced(r, ptr, n, t) ==
    Temporary(ScaledIndex(r, n, t).nodes \o <<IRCopy(r.next, ptr), IRAdd(t, t, r.next)>>, t, 1, t + 1)
ptrDynIndex(ptr, ix, n, t) ==
    IF IsLit(ix)
    THEN Temporary(<<IRCopy(t, ptr)>> \o (IF ix.v * n > 0 THEN <<IRAddI(t, ix.v * n)>> ELSE <<>>),
                   t, 1, t + 1)
    ELSE Displaced(lowerExpr(ix, t + 1), ptr, n, t)

readMultiByteIntFromFlat(base, idx, n, t) ==
    Temporary(idx.nodes \o loadConsecutiveViaIndex(base, idx.cell, t, n, idx.next), t, n, t + n)
writeMultiByteIntToFlat(base, idx, val) ==
    idx.nodes \o storeConsecutiveViaIndex(base, idx.cell, val.cell, val.size, idx.next)

\* An element of a slice, through its pointer.
LoadElement(idx, n, t) ==
    LET Take(j) == ptrLoad(idx.next, idx.cell) \o <<IRMove(t + j, idx.next)>>
                   \o (IF j < n - 1 THEN <<IRAddI(idx.cell, 1)>> ELSE <<>>)
    IN  Temporary(idx.nodes \o (IF n = 1 THEN ptrLoad(t, idx.cell) ELSE Up(n, Take)), t, n, t + n)
StoreElement(idx, val, n) ==
    idx.nodes \o IF n > 1 THEN storeConsecutiveViaPtr(idx.cell, val.cell, n)
                 ELSE emitCopyOrMove(idx.next, val) \o ptrStore(idx.cell, idx.next)

\* A byte of an array, by a walk to it.
LoadByte(home, ix, t) == Temporary(Append(ix.nodes, IRDynLoad(t, home, ix.cell)), t, 1, t + 1)
StoreByte(home, ix, val) == Append(ix.nodes, IRDynStore(home, ix.cell, val.cell))

indexInto(e, t) ==
    LET n == e.size
        home == Home[e.of]
    IN  CASE e.slice -> LoadElement(ptrDynIndex(home, e.ix, n, t + n), n, t)
          [] ~e.slice /\ IsLit(e.ix) -> Result(<<>>, home + e.ix.v * n, n, FALSE, t)
          [] ~e.slice /\ ~IsLit(e.ix) /\ n > 1 -> readMultiByteIntFromFlat(home, flatIdxFor(e.ix, n, t + n), n, t)
          [] OTHER -> LoadByte(home, lowerExpr(e.ix, t + 1), t)

writeInto(e, val, t) ==
    LET n == e.size
        home == Home[e.of]
    IN  CASE e.slice -> StoreElement(ptrDynIndex(home, e.ix, n, t), val, n)
          [] ~e.slice /\ IsLit(e.ix) -> emitCopyOrMove(home + e.ix.v * n, val)
          [] ~e.slice /\ ~IsLit(e.ix) /\ n > 1 -> writeMultiByteIntToFlat(home, flatIdxFor(e.ix, n, t), val)
          [] OTHER -> StoreByte(home, lowerExpr(e.ix, t), val)

lowerDeref(e, t) ==
    IF e.size > 1 THEN materializePtrComposite(Home[e.of], e.size, t)
    ELSE Temporary(ptrLoad(t, Home[e.of]), t, 1, t + 1)

\* The right operand is computed in the branch that needs it.
lowerLogical(e, t) ==
    LET left == lowerExpr(e.x, t)
        result == left.next
        right == lowerExpr(e.y, result + 1)
        evaluated == right.nodes \o emitCopyOrMove(result, right)
    IN  Temporary(left.nodes \o
                  <<IF e.op = "&&" THEN IRIfElse(left.cell, evaluated, <<IRConst(result, 0)>>)
                    ELSE IRIfElse(left.cell, <<IRConst(result, 1)>>, evaluated)>>,
                  result, 1, result + 1)

lowerUnary(e, t) ==
    LET x == lowerExpr(e.x, t)
        n == x.size
    IN  IF e.op = "+" THEN x
        ELSE Temporary(x.nodes \o (IF IsWide(x) THEN lowerUnaryInt(e.op, x.cell, n, x.next)
                                   ELSE lowerUnaryByte(e.op, x.cell, x.next)),
                       x.next, n, x.next + n)

lowerBinary(e, t) ==
    LET left == lowerExpr(e.x, t)
        right == lowerExpr(e.y, left.next)
    IN  Combined(e.op, left, right, right.next)

\* uint16(x) and the like: fewer cells of the same value, or zeros behind it.
lowerConversion(e, t) ==
    LET x == lowerExpr(e.x, t)
        n == e.size
    IN  IF IsLit(e.x) /\ n > 1 THEN Temporary(Constant(t, n, e.x.v), t, n, t + n)
        ELSE IF x.size >= n THEN [x EXCEPT !.size = n, !.lit = NoLit]
        ELSE Temporary(x.nodes \o emitCopyOrMove(x.next, x)
                       \o Up(n - x.size, LAMBDA j : <<IRZero(x.next + x.size + j)>>),
                       x.next, n, x.next + n)

\* min(x, y) and max(x, y), by the size of x.
lowerMinMax(e, t) ==
    LET x == lowerExpr(e.x, t)
        n == x.size
        best == x.next
        y == lowerExpr(e.y, best + n)
        wideY == widenIntegerLiteral(y, n, y.next)
        cond == wideY.next
        Take(r) == <<IRIf(cond, Up(n, LAMBDA j : <<IRCopy(best + j, r.cell + j)>>))>>
        better ==
            IF IsWide(x)
            THEN wideY.nodes
                 \o (IF e.op = "min" THEN emitCmpGeqInt(cond, best, wideY.cell, n, cond + 1)
                     ELSE emitCmpLtInt(cond, best, wideY.cell, n, cond + 1))
                 \o Take(wideY)
            ELSE <<IRCmp(IF e.op = "min" THEN "<=" ELSE ">=", cond, y.cell, best)>> \o Take(y)
    IN  Temporary(x.nodes \o emitCopyOrMove(best, x) \o y.nodes \o better, best, n, best + n)

lowerExpr(e, t) ==
    CASE e.k = "var"    -> Result(<<>>, Home[e.of], e.size, FALSE, t)
      [] e.k = "lit"    -> lowerLiteral(e.v, t)
      [] e.k = "at"     -> indexInto(e, t)
      [] e.k = "deref"  -> lowerDeref(e, t)
      [] e.k = "unary"  -> lowerUnary(e, t)
      [] e.k = "binary" -> IF e.op \in {"&&", "||"} THEN lowerLogical(e, t) ELSE lowerBinary(e, t)
      [] e.k = "conv"   -> lowerConversion(e, t)
      [] e.k = "choice" -> lowerMinMax(e, t)

-----------------------------------------------------------------------------
(* Statements.                                                               *)

\* r is the value of the right hand side, rhs.  What it does not cover of a
\* variable of n cells becomes 0.
lowerVarInit(base, n, rhs, r) ==
    IF IsLit(rhs) /\ n > 1 THEN Constant(base, n, rhs.v)
    ELSE r.nodes \o emitCopyOrMove(base, r)
         \o Up(IF r.size < n THEN n - r.size ELSE 0, LAMBDA j : <<IRZero(base + r.size + j)>>)

\* A value in no less than n cells.
AtLeast(r, n) == IF r.size < n THEN widenIntegerLiteral(r, n, r.next) ELSE [r EXCEPT !.nodes = <<>>]

lowerArrayAssign(e, r, wide) == r.nodes \o wide.nodes \o writeInto(e, wide, wide.next)

lowerDerefAssign(e, r, wide) ==
    r.nodes \o wide.nodes
    \o IF e.size > 1
       THEN <<IRCopy(wide.next, Home[e.of])>> \o storeConsecutiveViaPtr(wide.next, wide.cell, e.size)
       ELSE emitCopyOrMove(wide.next, wide) \o ptrStore(Home[e.of], wide.next)

lowerAssign(dst, rhs, r) ==
    CASE dst.k = "var"   -> lowerVarInit(Home[dst.of], dst.size, rhs, r)
      [] dst.k = "at"    -> lowerArrayAssign(dst, r, AtLeast(r, dst.size))
      [] dst.k = "deref" -> lowerDerefAssign(dst, r, AtLeast(r, dst.size))

\* n cells at *ptr, changed in temporaries and stored from the last one down.
ptrIncDecInt(ptr, n, inc, t) ==
    LET idx == t + n
    IN  <<IRCopy(idx, ptr)>> \o loadConsecutiveViaPtr(idx, t, n)
        \o (IF inc THEN emitIncInt(t, n, t + n + 1) ELSE emitDecInt(t, n, t + n + 1))
        \o Down(n, LAMBDA j : ptrStore(idx, t + j) \o (IF j > 0 THEN <<IRSubI(idx, 1)>> ELSE <<>>))

IncDec(c, inc) == <<IF inc THEN IRAddI(c, 1) ELSE IRSubI(c, 1)>>
ptrIncDecByte(ptr, inc, t) == ptrLoad(t, ptr) \o IncDec(t, inc) \o ptrStore(ptr, t)

\* x++ and x--.  r is the value of an element; only its first cell is changed.
lowerIncDec(dst, inc, r, t) ==
    LET home == Home[dst.of]
    IN  CASE dst.k = "var" ->
                IF dst.size > 1
                THEN IF inc THEN emitIncInt(home, dst.size, t) ELSE emitDecInt(home, dst.size, t)
                ELSE IncDec(home, inc)
          [] dst.k = "at" -> r.nodes \o IncDec(r.cell, inc)
                             \o IF r.temp THEN writeInto(dst, r, r.next) ELSE <<>>
          [] dst.k = "deref" -> IF dst.size > 1 THEN ptrIncDecInt(home, dst.size, inc, t)
                                ELSE ptrIncDecByte(home, inc, t)

\* println: the numbers with a space between them.
PrintValue(r) ==
    r.nodes \o IF IsWide(r) THEN emitPrintInt(r.cell, r.size, r.next) ELSE emitPrintByte(r.cell, r.next)
lowerPrint(args, t) ==
    LET Arg(j) == (IF j > 0 THEN emitPutcLiteral(CharSpace, t) ELSE <<>>) \o PrintValue(lowerExpr(args[j + 1], t))
    IN  Up(Len(args), Arg) \o emitPutcLiteral(CharNewline, t)

\* Identifiers and literals that are written alike.
sameExpr(x, y) == x.k = y.k /\ x.k \in {"var", "lit"} /\ x = y
IsDivision(e) == e.k = "binary" /\ e.op \in {"/", "%"}
Fusable(e, f) ==
    IsDivision(e) /\ IsDivision(f) /\ e.op # f.op /\ sameExpr(e.x, f.x) /\ sameExpr(e.y, f.y)

\* A pair of assignments to variables that is lowered at once.
Fused(st) == st.a.dst.k = "var" /\ st.b.dst.k = "var" /\ Fusable(st.a.rhs, st.b.rhs)

\* Quotient and remainder of two expressions at once.
FusedDivMod(quot, rem, src1, src2, t) ==
    IF IsWide(src1) THEN emitDivModIntFused(quot, rem, src1.cell, src2.cell, src1.size, t)
    ELSE <<IRDivMod(quot, rem, src1.cell, src2.cell)>>

\* q = x / y; r = x % y, in either order; the operands are src1 and src2.
DivModWidened(quot, rem, src1, src2, wide1, wide2, copied) ==
    src1.nodes \o src2.nodes \o wide1.nodes \o wide2.nodes \o copied.nodes
    \o FusedDivMod(quot, rem, wide1, copied, copied.next)
DivModOperands(quot, rem, src1, src2) ==
    LET n == Wider(src1.size, src2.size)
        wide1 == widenIntegerLiteral(src1, n, src2.next)
        wide2 == widenIntegerLiteral(src2, n, wide1.next)
    IN  DivModWidened(quot, rem, src1, src2, wide1, wide2, ensureTemp(wide2, wide2.next))
tryLowerDivModAssign(a, b, src1) ==
    LET quot == IF a.rhs.op = "/" THEN a.dst ELSE b.dst
        rem == IF a.rhs.op = "/" THEN b.dst ELSE a.dst
    IN  DivModOperands(Home[quot.of], Home[rem.of], src1, lowerExpr(a.rhs.y, src1.next))

\* return x / y, x % y, in either order; the constants are not widened.
ReturnedDivMod(op, src1, src2, copied) ==
    LET first == Home["ret"]
        second == first + src1.size
    IN  src1.nodes \o src2.nodes \o copied.nodes
        \o IF op = "/" THEN FusedDivMod(first, second, src1, copied, copied.next)
           ELSE FusedDivMod(second, first, src1, copied, copied.next)
ReturnedOperands(op, src1, src2) == ReturnedDivMod(op, src1, src2, ensureTemp(src2, src2.next))
tryReturnDivMod(a, src1) == ReturnedOperands(a.op, src1, lowerExpr(a.y, src1.next))

\* A result of a return statement, in the cells of its declared size.
ReturnedValue(dst, r, wide) == r.nodes \o wide.nodes \o emitCopyOrMove(dst, wide)
ReturnedResult(dst, n, r) == ReturnedValue(dst, r, AtLeast(r, n))
lowerReturn(results, n, t) ==
    Up(Len(results), LAMBDA j : ReturnedResult(Home["ret"] + j * n, n, lowerExpr(results[j + 1], t)))

Each(assigns, t) ==
    Up(Len(assigns),
       LAMBDA j : lowerAssign(assigns[j + 1].dst, assigns[j + 1].rhs, lowerExpr(assigns[j + 1].rhs, t)))

lowerStmt(st, n) ==
    CASE st.op = "assign" -> Each(<<st>>, Temps)
      [] st.op = "incdec" -> lowerIncDec(st.dst, st.inc, lowerExpr(st.dst, Temps), Temps)
      [] st.op = "print"  -> lowerPrint(st.args, Temps)
      [] st.op = "both"   ->
            IF Fused(st)
            THEN tryLowerDivModAssign(st.a, st.b, lowerExpr(st.a.rhs.x, Temps))
            ELSE Each(<<st.a, st.b>>, Temps)
      [] st.op = "return" ->
            IF Fusable(st.a, st.b) THEN tryReturnDivMod(st.a, lowerExpr(st.a.x, Temps))
            ELSE lowerReturn(<<st.a, st.b>>, n, Temps)

\* The IR of every statement.
Lowered == [n \in DOMAIN Statements |-> [i \in DOMAIN Statements[n] |-> lowerStmt(Statements[n][i], n)]]

-----------------------------------------------------------------------------
(* What the Go program means.                                                *)

Narrow == {"b", "c", "i"}   \* the variables of bytes
SizeOf(name) == IF name \in Narrow THEN 1 ELSE size

RECURSIVE GoSize(_)
RECURSIVE GoValue(_, _, _)

\* The size of an expression's type; 0 when it is an untyped constant.
GoSize(e) ==
    CASE e.k = "lit" -> 0
      [] e.k = "unary" -> IF e.op = "!" THEN 1 ELSE GoSize(e.x)
      [] e.k = "binary" -> IF e.op \in Orderings \cup {"&&", "||"} THEN 1
                           ELSE IF e.op \in {"<<", ">>"} THEN GoSize(e.x)
                           ELSE Wider(GoSize(e.x), GoSize(e.y))
      [] e.k = "choice" -> Wider(GoSize(e.x), GoSize(e.y))
      [] OTHER -> e.size

\* The variable and the element that a place is.
Element(e, g) ==
    CASE e.k = "var"   -> <<e.of, 1>>
      [] e.k = "at"    -> <<IF e.slice THEN "a" ELSE e.of, 1 + GoValue(e.ix, 1, g)>>
      [] e.k = "deref" -> IF e.of = "q" THEN <<"b", 1>> ELSE target

GoOperation(op, x, y) ==
    CASE op = "&^" -> x - (x & y)
      [] op = "<<" -> IF y >= ByteBits * MaxSize THEN 0 ELSE x * 2 ^ y
      [] op = ">>" -> IF y >= ByteBits * MaxSize THEN 0 ELSE x \div 2 ^ y
      [] OTHER     -> Compute(op, x, y)

\* The value of an expression; an untyped constant takes n bytes.
GoValue(e, n, g) ==
    LET own == IF GoSize(e) = 0 THEN n ELSE GoSize(e)
        operands == LET wide == Wider(GoSize(e.x), GoSize(e.y)) IN IF wide = 0 THEN n ELSE wide
        x == GoValue(e.x, operands, g)
        y == GoValue(e.y, operands, g)
    IN  CASE e.k \in {"var", "at", "deref"} -> LET place == Element(e, g) IN g[place[1]][place[2]]
          [] e.k = "lit"  -> e.v
          [] e.k = "conv" -> GoValue(e.x, n, g) % (Mod ^ e.size)
          [] e.k = "unary" ->
                LET v == GoValue(e.x, own, g)
                IN (CASE e.op = "!" -> 1 - v
                      [] e.op = "-" -> (0 - v) % (Mod ^ own)
                      [] e.op = "^" -> Mod ^ own - 1 - v
                      [] e.op = "+" -> v)
          [] e.k = "binary" ->
               (CASE e.op = "&&" -> IF x = 0 THEN 0 ELSE y
                  [] e.op = "||" -> IF x = 1 THEN 1 ELSE y
                  [] e.op \in {"<<", ">>"} ->
                        GoOperation(e.op, GoValue(e.x, own, g), GoValue(e.y, 1, g)) % (Mod ^ own)
                  [] e.op \in Orderings -> Compute(e.op, x, y)
                  [] OTHER -> GoOperation(e.op, x, y) % (Mod ^ own))
          [] e.k = "choice" -> IF (x <= y) = (e.op = "min") THEN x ELSE y

\* A program that would stop here: a division by 0, or an index out of range.
RECURSIVE Panics(_, _)
Panics(e, g) ==
    CASE e.k \in {"var", "lit", "deref"} -> FALSE
      [] e.k = "at" -> Panics(e.ix, g) \/ Element(e, g)[2] > Counts[Element(e, g)[1]]
      [] e.k \in {"unary", "conv"} -> Panics(e.x, g)
      [] e.k = "choice" -> Panics(e.x, g) \/ Panics(e.y, g)
      [] e.k = "binary" ->
            \/ Panics(e.x, g)
            \/ e.op \in {"&&", "||"} /\ GoValue(e.x, 1, g) = Truth(e.op = "&&") /\ Panics(e.y, g)
            \/ e.op \notin {"&&", "||"} /\ Panics(e.y, g)
            \/ IsDivision(e) /\ GoValue(e.y, 1, g) = 0

\* The variables after an assignment.
GoAssigned(dst, rhs, g) ==
    LET place == Element(dst, g)
        v == GoValue(rhs, dst.size, g) IN [g EXCEPT ![place[1]][place[2]] = v]

Stepped(dst, inc, g) ==
    LET place == Element(dst, g) IN
    [g EXCEPT ![place[1]][place[2]] = (IF inc THEN @ + 1 ELSE @ - 1) % (Mod ^ dst.size)]

\* The variables after a statement: the second of two assignments reads what the
\* first one set, the results of a return are computed from the same values.
GoAfter(st, g) ==
    CASE st.op = "assign" -> GoAssigned(st.dst, st.rhs, g)
      [] st.op = "incdec" -> Stepped(st.dst, st.inc, g)
      [] st.op = "print"  -> g
      [] st.op = "both"   -> GoAssigned(st.b.dst, st.b.rhs, GoAssigned(st.a.dst, st.a.rhs, g))
      [] st.op = "return" -> [g EXCEPT !["ret"] = <<GoValue(st.a, size, g), GoValue(st.b, size, g)>>]

\* What println prints.
Digit(d) == CharZero + d
GoNumber(v) == IF v = 0 THEN <<Digit(0)>>
               ELSE LET ds == DigitsOf(v) IN [i \in 1 .. Len(ds) |-> Digit(ds[Len(ds) + 1 - i])]
GoShown(st, g) ==
    IF st.op # "print" THEN <<>>
    ELSE FlattenSeq([i \in 1 .. Len(st.args) |->
                       (IF i > 1 THEN <<CharSpace>> ELSE <<>>) \o GoNumber(GoValue(st.args[i], 1, g))])
         \o <<CharNewline>>

StopsEarly(st, g) ==
    CASE st.op = "assign" -> Panics(st.dst, g) \/ Panics(st.rhs, g)
      [] st.op = "incdec" -> Panics(st.dst, g)
      [] st.op = "print"  -> \E i \in DOMAIN st.args : Panics(st.args[i], g)
      [] st.op = "both"   -> Panics(st.a.rhs, g) \/ Panics(st.b.rhs, GoAssigned(st.a.dst, st.a.rhs, g))
      [] st.op = "return" -> Panics(st.a, g) \/ Panics(st.b, g)

-----------------------------------------------------------------------------
(* Statements that the code is known to get wrong.                           *)

RECURSIVE Parts(_)
Parts(e) ==
    {e} \cup CASE e.k \in {"var", "lit", "deref"} -> {}
              [] e.k = "at" -> Parts(e.ix)
              [] e.k \in {"unary", "conv"} -> Parts(e.x)
              [] OTHER -> Parts(e.x) \cup Parts(e.y)

Expressions(st) ==
    CASE st.op = "assign" -> {st.dst, st.rhs}
      [] st.op = "incdec" -> {st.dst}
      [] st.op = "print"  -> {st.args[i] : i \in DOMAIN st.args}
      [] st.op = "both"   -> {st.a.rhs, st.b.rhs}
      [] st.op = "return" -> {st.a, st.b}

Mistakes(st) ==
    LET parts == UNION {Parts(e) : e \in Expressions(st)} IN
    \* q = x / y; r = x % y where q is x, y or r
    (IF st.op = "both" /\ Fused(st) /\ st.a.dst \in {st.a.rhs.x, st.a.rhs.y, st.b.dst}
     THEN {"dividendOverwritten"} ELSE {})
    \* return x / 3, x % 3
    \cup (IF st.op = "return" /\ Fusable(st.a, st.b) /\ size > 1 /\ (IsLit(st.a.x) \/ IsLit(st.a.y))
          THEN {"returnedLiteral"} ELSE {})
    \* min(3, x)
    \cup (IF \E e \in parts : e.k = "choice" /\ IsLit(e.x) /\ GoSize(e.y) > 1 THEN {"literalFirst"} ELSE {})
    \* a[i]++
    \cup (IF st.op = "incdec" /\ st.dst.k = "at" /\ st.dst.size > 1 THEN {"elementStep"} ELSE {})
    \* 1 << i, where the context asks for more than a byte
    \cup (IF \E e \in parts : e.k = "binary" /\ e.op \in {"<<", ">>"} /\ IsLit(e.x) /\ ~IsLit(e.y) /\ size > 1
          THEN {"shiftedConstant"} ELSE {})

-----------------------------------------------------------------------------
Pointers == {"p", "q", "s"}
Address(place) == Home[place[1]] + (place[2] - 1) * SizeOf(place[1])
PointsTo == "p" :> Address(target) @@ "q" :> Home["b"] @@ "s" :> Home["a"]

\* The variable, the element and the byte that a cell is for, for every size.
Layout ==
    [n \in Sizes |->
        LET Width(name) == IF name \in Narrow \cup Pointers THEN 1 ELSE n
            Places == UNION {{<<name, k, j>> : k \in 1 .. Counts[name], j \in 0 .. Width(name) - 1} : name \in DOMAIN Home}
            At(pl) == Home[pl[1]] + (pl[2] - 1) * Width(pl[1]) + pl[3]
        IN  [c \in {At(pl) : pl \in Places} |-> CHOOSE pl \in Places : At(pl) = c]]

\* What the cells of the variables hold.
Stored(g) ==
    [c \in DOMAIN Layout[size] |->
        LET pl == Layout[size][c]
        IN  IF pl[1] \in Pointers THEN PointsTo[pl[1]] ELSE (g[pl[1]][pl[2]] \div (Mod ^ pl[3])) % Mod]

TypeOK ==
    /\ mem \in [Cell -> Byte]
    /\ out \in Seq(Byte) /\ shown \in Seq(Byte)
    /\ size \in Sizes /\ spent \in BOOLEAN /\ done \in BOOLEAN
    /\ \A name \in DOMAIN go : \A k \in 1 .. Counts[name] : go[name][k] \in 0 .. (Mod ^ SizeOf(name) - 1)

Init ==
    /\ size \in DOMAIN Statements
    /\ go \in Inputs[size]
    /\ target \in {<<"x", 1>>, <<"a", 2>>}
    /\ spent \in BOOLEAN
    /\ mem = Stored(go) @@ [c \in Cell |-> Stale]
    /\ out = <<>> /\ shown = <<>>
    /\ done = FALSE

\* A statement that Go can finish, run by the code that was made of it.
Statement(st, code) ==
    /\ ~done
    /\ Mistakes(st) \subseteq Miscompiled
    /\ ~StopsEarly(st, go)
    /\ \E m \in {Run(code, 1, Len(code), [mem |-> mem, out |-> out, spent |-> spent])} :
          mem' = m.mem /\ out' = m.out
    /\ go' = GoAfter(st, go)
    /\ shown' = shown \o GoShown(st, go)
    /\ done' = TRUE
    /\ UNCHANGED <<size, target, spent>>

Next == \E i \in DOMAIN Statements[size] : Statement(Statements[size][i], Lowered[size][i])

Spec == Init /\ [][Next]_vars

-----------------------------------------------------------------------------
\* After a statement every variable holds the number it has in Go, in every byte,
\* and no other variable, element or pointer was touched on the way (lowerer.go:9411
\* and what it calls: a carry, a borrow or a cell of a neighbour is easily lost).
SameValues == \A c \in DOMAIN Layout[size] : mem[c] = Stored(go)[c]

\* What is printed is the number in decimal, without leading zeros (lowerer.go:3637:
\* the digits of each byte are added up in cells that must not overflow).
SamePrinted == out = shown
=============================================================================
