---------------------------- MODULE IntegerCode ----------------------------
(***************************************************************************)
(* Integers of src/lowerer.go as lists of IR nodes on bytes.  A byte is a  *)
(* cell; a wider integer is a run of cells, low byte first, and an         *)
(* operation on it is a list of nodes with carries, borrows and loops of   *)
(* its own.  The operators are named after the methods that emit the       *)
(* lists; t is the first cell they may use for temporaries, which still    *)
(* hold what earlier code left.  Run says what a list does to the cells.   *)
(***************************************************************************)
EXTENDS Integers, Sequences, SequencesExt
LOCAL INSTANCE Bitwise

CONSTANTS
    ByteBits,    \* the bits of a cell; 8 in the program
    Base,        \* the base numbers are printed in; 10
    Digits,      \* how many digits a number of each size may have
    CharZero,    \* the character 0; the other digits follow it
    Sizes        \* the sizes of integers: 1, and those of uint16, uint32, uint64

Mod == 2 ^ ByteBits
Byte == 0 .. (Mod - 1)
MaxSize == CHOOSE s \in Sizes : \A other \in Sizes : other <= s

ASSUME IntegerAssumption ==
    /\ ByteBits \in Nat \ {0} /\ Base \in Nat \ {0, 1} /\ 1 \in Sizes
    /\ ByteBits * MaxSize < Mod /\ Mod <= Base ^ 3

-----------------------------------------------------------------------------
(* IR nodes, and lists of them.                                              *)

IRZero(d) == [op |-> "const", d |-> d, v |-> 0]
IRConst(d, v) == [op |-> "const", d |-> d, v |-> v % Mod]
IRAddI(d, v) == [op |-> "addI", d |-> d, v |-> v]
IRSubI(d, v) == [op |-> "subI", d |-> d, v |-> v]
IRCopy(d, a) == [op |-> "copy", d |-> d, a |-> a]
IRMove(d, a) == [op |-> "move", d |-> d, a |-> a]
IRNot(d, a) == [op |-> "not", d |-> d, a |-> a]
IRBin(op, d, a, b) == [op |-> op, d |-> d, a |-> a, b |-> b]
IRAdd(d, a, b) == IRBin("+", d, a, b)
IRSub(d, a, b) == IRBin("-", d, a, b)
IRMul(d, a, b) == IRBin("*", d, a, b)
IRAnd(d, a, b) == IRBin("&", d, a, b)
IRCmp(op, d, a, b) == IRBin(op, d, a, b)
IRDivMod(q, r, a, b) == [op |-> "divmod", d |-> q, r |-> r, a |-> a, b |-> b]
IRDynLoad(d, base, i) == [op |-> "load", d |-> d, base |-> base, a |-> i]
IRDynStore(base, i, s) == [op |-> "store", base |-> base, a |-> i, s |-> s]
IRPutc(s) == [op |-> "putc", a |-> s]
IRIf(c, then) == [op |-> "if", a |-> c, then |-> then]
IRIfElse(c, then, else) == [op |-> "ifelse", a |-> c, then |-> then, else |-> else]
IRLoop(c, body) == [op |-> "loop", a |-> c, body |-> body]

\* The nodes F(0), F(1) .. F(n - 1), or F(n - 1) .. F(0).
Up(n, F(_)) == FlattenSeq([j \in 1 .. n |-> F(j - 1)])
Down(n, F(_)) == FlattenSeq([j \in 1 .. n |-> F(n - j)])

\* d = x or y, of flags.
Either(d, x, y, t) == <<IRAdd(t, x, y), IRMul(t + 1, x, y), IRSub(d, t, t + 1)>>

Constant(base, n, v) == Up(n, LAMBDA j : <<IRConst(base + j, v \div (Mod ^ j))>>)

-----------------------------------------------------------------------------
(* Addition and subtraction, with a chained carry.                           *)

emitAddInt(r, a, b, n, t) ==
    LET carry == t  old == t + 1  cond == t + 2  c1 == t + 3  c2 == t + 4
        ByteOf(j) ==
            <<IRAdd(r + j, a + j, b + j), IRCopy(old, r + j), IRCopy(cond, carry),
              IRIf(cond, <<IRAddI(r + j, 1)>>)>>
            \o IF j = n - 1 THEN <<>>
               ELSE <<IRCmp("<", c1, old, a + j),
                      IRCopy(c2, r + j), IRNot(c2, c2), IRMul(c2, c2, carry)>>
                    \o Either(carry, c1, c2, t + 5)
    IN  <<IRZero(carry)>> \o Up(n, ByteOf)

\* A mutant of emitSubInt: a borrow that runs through a zero byte is forgotten.
SubIntUnchained(r, a, b, n, t) ==
    LET borrow == t  cond == t + 1
        ByteOf(j) ==
            <<IRSub(r + j, a + j, b + j), IRCopy(cond, borrow),
              IRCmp("<", borrow, a + j, b + j), IRIf(cond, <<IRSubI(r + j, 1)>>)>>
    IN  <<IRCmp("<", borrow, a, b), IRSub(r, a, b)>> \o Up(n - 1, LAMBDA j : ByteOf(j + 1))

emitSubInt(r, a, b, n, t) ==
    LET borrow == t  cond == t + 1  isZero == t + 2  newBorrow == t + 3  freshBorrow == t + 4
        ByteOf(j) ==
            <<IRSub(r + j, a + j, b + j), IRCopy(cond, borrow)>>
            \o (IF j = n - 1 THEN <<>>
                ELSE <<IRCopy(isZero, r + j), IRNot(isZero, isZero),
                       IRMul(newBorrow, borrow, isZero), IRCmp("<", freshBorrow, a + j, b + j)>>
                     \o Either(borrow, newBorrow, freshBorrow, t + 5))
            \o <<IRIf(cond, <<IRSubI(r + j, 1)>>)>>
    IN  <<IRCmp("<", borrow, a, b), IRSub(r, a, b)>> \o Up(n - 1, LAMBDA j : ByteOf(j + 1))

\* The borrow is found after the fact: the byte became the largest one.
emitSubIntInPlace(a, b, n, t) ==
    LET borrow == t  old == t + 1  nv == t + 2  cond == t + 3  fresh == t + 4  c255 == t + 5
        wrapped == t + 6
        ByteOf(j) ==
            <<IRCopy(old, a + j), IRSub(nv, a + j, b + j), IRMove(a + j, nv),
              IRCopy(cond, borrow), IRIf(cond, <<IRSubI(a + j, 1)>>)>>
            \o IF j = n - 1 THEN <<>>
               ELSE <<IRCmp("<", fresh, old, b + j), IRConst(c255, Mod - 1),
                      IRCmp("==", wrapped, a + j, c255), IRMul(wrapped, wrapped, borrow)>>
                    \o Either(borrow, fresh, wrapped, t + 7)
    IN  <<IRCmp("<", borrow, a, b), IRSub(nv, a, b), IRMove(a, nv)>>
        \o Up(n - 1, LAMBDA j : ByteOf(j + 1))

emitIncInt(base, n, t) ==
    LET carry == t  cond == t + 1  isZero == t + 2
        ByteOf(j) ==
            <<IRCopy(cond, carry), IRIf(cond, <<IRAddI(base + j, 1)>>)>>
            \o IF j = n - 1 THEN <<>>
               ELSE <<IRCopy(isZero, base + j), IRNot(isZero, isZero), IRMul(carry, carry, isZero)>>
    IN  <<IRAddI(base, 1), IRCopy(carry, base), IRNot(carry, carry)>>
        \o Up(n - 1, LAMBDA j : ByteOf(j + 1))

emitDecInt(base, n, t) ==
    LET borrow == t  cond == t + 1  isZero == t + 2
        ByteOf(j) ==
            <<IRCopy(cond, borrow)>>
            \o (IF j = n - 1 THEN <<>>
                ELSE <<IRCopy(isZero, base + j), IRNot(isZero, isZero), IRMul(borrow, borrow, isZero)>>)
            \o <<IRIf(cond, <<IRSubI(base + j, 1)>>)>>
    IN  <<IRCopy(borrow, base), IRNot(borrow, borrow), IRSubI(base, 1)>>
        \o Up(n - 1, LAMBDA j : ByteOf(j + 1))

-----------------------------------------------------------------------------
(* Comparison, multiplication, shifts and division.                          *)

\* From the high byte down; the first bytes that differ decide.
emitCmpOrderInt(dst, a, b, n, op, initVal, t) ==
    LET finished == t  notDone == t + 1  eq == t + 2  cond == t + 3
        ByteOf(j) ==
            <<IRCopy(notDone, finished), IRNot(notDone, notDone),
              IRCmp("==", eq, a + j, b + j), IRNot(eq, eq), IRMul(cond, notDone, eq),
              IRIf(cond, <<IRCmp(op, dst, a + j, b + j), IRConst(finished, 1)>>)>>
    IN  <<IRConst(dst, initVal), IRZero(finished)>> \o Down(n, ByteOf)

emitCmpLtInt(dst, a, b, n, t) == emitCmpOrderInt(dst, a, b, n, "<", 0, t)
emitCmpGeqInt(dst, a, b, n, t) == emitCmpOrderInt(dst, a, b, n, ">=", 1, t)

emitCmpInt(dst, op, a, b, n, t) ==
    LET equal == <<IRConst(dst, 1)>>
                 \o Up(n, LAMBDA j : <<IRCmp("==", t, a + j, b + j), IRMul(dst, dst, t)>>)
    IN  CASE op = "==" -> equal
          [] op = "!=" -> Append(equal, IRNot(dst, dst))
          [] op = "<"  -> emitCmpLtInt(dst, a, b, n, t)
          [] op = ">"  -> emitCmpLtInt(dst, b, a, n, t)
          [] op = "<=" -> emitCmpGeqInt(dst, b, a, n, t)
          [] op = ">=" -> emitCmpGeqInt(dst, a, b, n, t)

\* a[i] is added to r[i + j] as often as b[j] says, with a carry through the
\* bytes above; each byte's carry is the condition of the next one's.
emitMulInt(r, a, b, n, t) ==
    LET cnt == t  old == t + 1  tmp == t + 2  carry(k) == t + 3 + k
        Carry(k) ==
            IF k = n - 1 THEN <<IRIf(carry(k), <<IRAddI(r + k, 1)>>)>>
            ELSE <<IRZero(carry(k + 1)),
                   IRIf(carry(k), <<IRAddI(r + k, 1), IRNot(carry(k + 1), r + k)>>)>>
        Pair(i, j) ==
            LET k == i + j
                body == <<IRCopy(old, r + k), IRAdd(tmp, r + k, a + i), IRMove(r + k, tmp)>>
                        \o (IF k = n - 1 THEN <<>>
                            ELSE <<IRCmp("<", carry(k + 1), r + k, old)>>
                                 \o Up(n - 1 - k, LAMBDA m : Carry(k + 1 + m)))
                        \o <<IRSubI(cnt, 1)>>
            IN  <<IRCopy(cnt, b + j), IRLoop(cnt, body)>>
    IN  Up(n, LAMBDA j : <<IRZero(r + j)>>)
        \o Up(n, LAMBDA j : Up(n - j, LAMBDA i : Pair(i, j)))

emitShiftLeftIntByByte(a, n) ==
    Down(n - 1, LAMBDA j : <<IRMove(a + j + 1, a + j)>>) \o <<IRZero(a)>>
emitShiftRightIntByByte(a, n) ==
    Up(n - 1, LAMBDA j : <<IRMove(a + j, a + j + 1)>>) \o <<IRZero(a + n - 1)>>

emitShiftLeftIntByOne(a, n, t) ==
    LET carry == t  c128 == t + 1  newVal == t + 1
        Double(j) == <<IRAdd(newVal, a + j, a + j), IRMove(a + j, newVal)>>
        ByteOf(j) ==
            IF j = 0 THEN Double(0)
            ELSE <<IRConst(c128, Mod \div 2), IRCmp(">=", carry, a + j - 1, c128)>> \o Double(j)
                 \o <<IRIf(carry, <<IRAddI(a + j, 1)>>)>>
    IN  Down(n, ByteOf)

emitShiftRightIntByOne(r, n, t) ==
    LET carry == t  one == t + 1  newVal == t + 1  two == t + 2
        Halve(j) == <<IRConst(two, 2), IRDivMod(newVal, two, r + j, two), IRMove(r + j, newVal)>>
        ByteOf(j) ==
            IF j = n - 1 THEN Halve(j)
            ELSE <<IRConst(one, 1), IRAnd(carry, r + j + 1, one)>> \o Halve(j)
                 \o <<IRIf(carry, <<IRAddI(r + j, Mod \div 2)>>)>>
    IN  Up(n, ByteOf)

\* Whole bytes first, then the bits that are left.
emitShiftInt(r, a, cnt, n, right, t) ==
    LET byteCount == t  bitCount == t + 1  eight == t + 2
        byByte == IF right THEN emitShiftRightIntByByte(r, n) ELSE emitShiftLeftIntByByte(r, n)
        byOne == IF right THEN emitShiftRightIntByOne(r, n, t + 2)
                 ELSE emitShiftLeftIntByOne(r, n, t + 2)
    IN  Up(n, LAMBDA j : <<IRCopy(r + j, a + j)>>)
        \o <<IRConst(eight, ByteBits), IRDivMod(byteCount, bitCount, cnt, eight),
             IRLoop(byteCount, Append(byByte, IRSubI(byteCount, 1))),
             IRLoop(bitCount, Append(byOne, IRSubI(bitCount, 1)))>>

\* Long division, bit by bit: quotient and remainder are one register that is
\* shifted left; the quotient moves in from below.
emitDivModIntFused(quotDst, remDst, a, b, n, t) ==
    LET quot == t  rem == t + n  counter == t + 2 * n  over == counter + 1  cmp == counter + 2
        should == counter + 3  free == counter + 4
        body == <<IRConst(free, Mod \div 2), IRCmp(">=", over, rem + n - 1, free)>>
                \o emitShiftLeftIntByOne(quot, 2 * n, free)
                \o emitCmpGeqInt(cmp, rem, b, n, free)
                \o Either(should, over, cmp, free)
                \o <<IRIf(should, Append(emitSubIntInPlace(rem, b, n, free), IRAddI(quot, 1))),
                     IRSubI(counter, 1)>>
    IN  Up(n, LAMBDA j : <<IRCopy(quot + j, a + j), IRZero(rem + j)>>)
        \o <<IRConst(counter, ByteBits * n), IRLoop(counter, body)>>
        \o Up(n, LAMBDA j : <<IRMove(quotDst + j, quot + j), IRMove(remDst + j, rem + j)>>)

emitDivModInt(r, a, b, n, isMod, t) ==
    IF isMod THEN emitDivModIntFused(t, r, a, b, n, t + n)
    ELSE emitDivModIntFused(r, t, a, b, n, t + n)

-----------------------------------------------------------------------------
(* Printing.                                                                 *)

\* The digits of n in Base, least significant first.
RECURSIVE DigitsOf(_)
DigitsOf(n) == IF n = 0 THEN <<>> ELSE <<n % Base>> \o DigitsOf(n \div Base)

\* The digits of the number that the digits ds stand for, times Mod, plus c.
RECURSIVE TimesMod(_, _)
TimesMod(ds, c) ==
    IF ds = <<>> THEN DigitsOf(c)
    ELSE LET v == Head(ds) * Mod + c IN <<v % Base>> \o TimesMod(Tail(ds), v \div Base)

decimalDigits[k \in 0 .. MaxSize - 1] == IF k = 0 THEN <<1>> ELSE TimesMod(decimalDigits[k - 1], 0)
numDecDigits(n) == Digits[n]

emitPutcLiteral(char, t) == <<IRConst(t, char), IRPutc(t)>>

\* A mutant of emitPrintByte: a 0 in the middle is taken for one in front.
PrintByteSparse(src, t) ==
    LET d == t  q == t + 1  r == t + 2  h == t + 3  tens == t + 4
        Show(c) == <<IRAddI(c, CharZero), IRPutc(c)>>
        ShowUnlessZero(c) == <<IRCopy(t + 5, c), IRIf(t + 5, Show(c))>>
    IN  <<IRConst(d, Base), IRDivMod(q, r, src, d), IRDivMod(h, tens, q, d)>>
        \o ShowUnlessZero(h) \o ShowUnlessZero(tens) \o Show(r)

emitPrintByte(src, t) ==
    LET d == t  q == t + 1  r == t + 2  h == t + 3  tens == t + 4  d2 == t + 5  hCond == t + 6
        Show(c) == <<IRAddI(c, CharZero), IRPutc(c)>>
    IN  <<IRConst(d, Base), IRDivMod(q, r, src, d), IRCopy(d, q),
          IRIf(d, <<IRConst(d2, Base), IRDivMod(h, tens, q, d2), IRCopy(hCond, h),
                    IRIf(hCond, Show(h))>> \o Show(tens))>>
        \o Show(r)

\* The digits that the carries of byte k may reach.
NormalizeLimit(k, n) ==
    LET limit == Len(decimalDigits[k]) + 1
        last == numDecDigits(n) - 1
    IN  IF k = n - 1 \/ limit > last THEN last ELSE limit

\* Every byte is three digits; each adds its share of 256^k to the digits of the
\* number, and the carries are propagated before the next byte.
emitPrintInt(base, n, t) ==
    LET nd == numDecDigits(n)
        acc == t
        ten == t + nd  o == ten + 1  q == ten + 2  tens == ten + 3  h == ten + 4
        free == ten + 5  carry == free  rem == free + 1  started == ten  dCond == ten + 1
        Share(k, j, dv, d) ==
            LET coeff == decimalDigits[k][d - j + 1]
            IN  CASE coeff = 0 -> <<>>
                  [] coeff = 1 -> <<IRAdd(acc + d, acc + d, dv)>>
                  [] OTHER -> <<IRConst(free, coeff), IRMul(free + 1, dv, free),
                                IRAdd(acc + d, acc + d, free + 1)>>
        Shares(k, j, dv) ==
            Up(nd, LAMBDA d : IF d - j \in 0 .. (Len(decimalDigits[k]) - 1)
                              THEN Share(k, j, dv, d) ELSE <<>>)
        Normalize(d) ==
            <<IRDivMod(carry, rem, acc + d, ten), IRMove(acc + d, rem),
              IRAdd(acc + d + 1, acc + d + 1, carry)>>
        ByteOf(k) ==
            <<IRCopy(free, base + k), IRDivMod(q, o, free, ten), IRDivMod(h, tens, q, ten)>>
            \o Shares(k, 0, o) \o Shares(k, 1, tens) \o Shares(k, 2, h)
            \o (IF k = 0 THEN <<>> ELSE Up(NormalizeLimit(k, n), Normalize))
        Digit(d) ==
            <<IRCopy(dCond, acc + d), IRIf(dCond, <<IRConst(started, 1)>>),
              IRCopy(dCond, started), IRIf(dCond, <<IRAddI(acc + d, CharZero), IRPutc(acc + d)>>)>>
    IN  Up(nd, LAMBDA d : <<IRZero(acc + d)>>) \o <<IRConst(ten, Base)>>
        \o Up(n, ByteOf)
        \o <<IRZero(started)>> \o Down(nd - 1, LAMBDA d : Digit(d + 1))
        \o <<IRAddI(acc, CharZero), IRPutc(acc)>>

-----------------------------------------------------------------------------
(* What the IR does.  m: the cells, what was printed, and whether a value    *)
(* that is used up leaves its cell.                                          *)

\* A mutant of Sets: a sum may leave the byte.
SetsWide(m, d, v) == [m EXCEPT !.mem[d] = v]

Sets(m, d, v) == [m EXCEPT !.mem[d] = v % Mod]
Uses(m, c) == IF m.spent THEN [m EXCEPT !.mem[c] = 0] ELSE m
Truth(b) == IF b THEN 1 ELSE 0

Compute(op, x, y) ==
    CASE op = "+"  -> x + y
      [] op = "-"  -> x - y
      [] op = "*"  -> x * y
      [] op = "/"  -> IF y = 0 THEN 0 ELSE x \div y
      [] op = "%"  -> IF y = 0 THEN x ELSE x % y
      [] op = "&"  -> x & y
      [] op = "|"  -> x | y
      [] op = "^"  -> x ^^ y
      [] op = "==" -> Truth(x = y)
      [] op = "!=" -> Truth(x # y)
      [] op = "<"  -> Truth(x < y)
      [] op = ">"  -> Truth(x > y)
      [] op = "<=" -> Truth(x <= y)
      [] op = ">=" -> Truth(x >= y)

RECURSIVE Run(_, _, _, _)
RECURSIVE Repeat(_, _, _)

Exec(node, m) ==
    LET at(c) == m.mem[c]
        slot == (node.base + at(node.a)) % Mod
    IN  CASE node.op = "const"  -> Sets(m, node.d, node.v)
          [] node.op = "addI"   -> Sets(m, node.d, at(node.d) + node.v)
          [] node.op = "subI"   -> Sets(m, node.d, at(node.d) - node.v)
          [] node.op = "copy"   -> Sets(m, node.d, at(node.a))
          [] node.op = "move"   -> Uses(Sets(m, node.d, at(node.a)), node.a)
          [] node.op = "not"    -> Sets(m, node.d, Truth(at(node.a) = 0))
          [] node.op = "divmod" -> Sets(Sets(m, node.d, Compute("/", at(node.a), at(node.b))),
                                        node.r, Compute("%", at(node.a), at(node.b)))
          [] node.op = "load"   -> Sets(m, node.d, at(slot))
          [] node.op = "store"  -> Sets(m, slot, at(node.s))
          [] node.op = "putc"   -> [m EXCEPT !.out = Append(@, at(node.a))]
          [] node.op = "if"     -> IF at(node.a) = 0 THEN m
                                   ELSE Run(node.then, 1, Len(node.then), Uses(m, node.a))
          [] node.op = "ifelse" -> IF at(node.a) = 0 THEN Run(node.else, 1, Len(node.else), m)
                                   ELSE Run(node.then, 1, Len(node.then), Uses(m, node.a))
          [] node.op = "loop"   -> Repeat(node.a, node.body, m)
          [] OTHER              -> Sets(m, node.d, Compute(node.op, at(node.a), at(node.b)))

Repeat(c, body, m) ==
    IF m.mem[c] = 0 THEN m ELSE Repeat(c, body, Run(body, 1, Len(body), m))

\* The nodes from the first to the last: the first half, and then, on the one
\* result h of it, the second.
Run(nodes, first, last, m) ==
    LET middle == (first + last) \div 2
    IN  IF first > last THEN m
        ELSE IF first = last THEN Exec(nodes[first], m)
        ELSE CHOOSE r \in {Run(nodes, middle + 1, last, h) : h \in {Run(nodes, first, middle, m)}} : TRUE
=============================================================================
