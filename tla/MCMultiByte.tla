---------------------------- MODULE MCMultiByte ----------------------------
(* Statements on numbers of one, two and three bytes of 4 bits: wide variables *)
(* x, y and z, an array a of two of them with a slice s of it, bytes b and i and  *)
(* an array c of two bytes, and pointers p to a wide place and q to b.         *)
EXTENDS MultiByte

MCHome == "x" :> 1 @@ "y" :> 4 @@ "a" :> 7 @@ "c" :> 13 @@ "b" :> 15 @@ "i" :> 16
          @@ "p" :> 17 @@ "q" :> 18 @@ "s" :> 19 @@ "z" :> 20 @@ "ret" :> 23
MCCounts == [v \in DOMAIN MCHome |-> IF v \in {"a", "c", "ret"} THEN 2 ELSE 1]
MCDigits == <<3, 6, 8>>

Var(v, n) == [k |-> "var", of |-> v, size |-> n]
Lit(v) == [k |-> "lit", v |-> v]
Un(op, x) == [k |-> "unary", op |-> op, x |-> x]
Bin(op, x, y) == [k |-> "binary", op |-> op, x |-> x, y |-> y]
Conv(n, x) == [k |-> "conv", size |-> n, x |-> x]
Choice(op, x, y) == [k |-> "choice", op |-> op, x |-> x, y |-> y]
At(v, ix, n) == [k |-> "at", of |-> v, size |-> n, ix |-> ix, slice |-> v = "s"]
Deref(v, n) == [k |-> "deref", of |-> v, size |-> n]

Assign(dst, rhs) == [op |-> "assign", dst |-> dst, rhs |-> rhs]
Step(dst, inc) == [op |-> "incdec", dst |-> dst, inc |-> inc]
Println(args) == [op |-> "print", args |-> args]
Both(d, x, e, y) == [op |-> "both", a |-> [dst |-> d, rhs |-> x], b |-> [dst |-> e, rhs |-> y]]
Return(x, y) == [op |-> "return", a |-> x, b |-> y]

B == Var("b", 1)
I == Var("i", 1)

\* Statements whose operands are of size n.
StatementsOf(n) ==
    LET X == Var("x", n)  Y == Var("y", n)  Z == Var("z", n)  P == Deref("p", n)  Q == Deref("q", 1)
        AI == At("a", I, n)  SI == At("s", I, n)  CI == At("c", I, 1)
        Large == Lit(Mod ^ n - 2)
    IN  [j \in 1 .. 11 |-> Assign(Y, Bin(<<"+", "-", "*", "/", "%", "&", "|", "^", "&^", "<<", ">>">>[j],
                                         X, IF j > 9 THEN B ELSE Y))]
        \o [j \in 1 .. 6 |-> Assign(B, Bin(<<"==", "!=", "<", ">", "<=", ">=">>[j], X, Y))]
        \o <<\* constants
             Assign(X, Large), Assign(X, Bin("+", X, Lit(1))), Assign(X, Bin("-", Lit(3), X)),
             Assign(X, Bin("*", X, Lit(5))), Assign(B, Bin("<", X, Lit(7))),
             Assign(X, Bin("-", Bin("*", Lit(2), Lit(3)), Lit(1))), Assign(X, Bin("<<", X, Lit(5))),
             Assign(X, Bin("<<", Lit(1), B)),
             \* longer expressions
             Assign(X, Un("-", X)), Assign(Y, Un("^", X)), Assign(X, Bin("-", Bin("+", X, Y), Un("+", X))),
             Assign(B, Bin("&&", Bin("!=", Y, Lit(0)), Bin(">", Bin("/", X, Y), Lit(1)))),
             Assign(B, Bin("||", Bin("==", Y, Lit(0)), Bin("<", X, Y))), Assign(B, Un("!", Bin("<", X, Y))),
             \* conversions
             Assign(B, Conv(1, X)), Assign(X, Conv(n, B)), Assign(X, Conv(n, Lit(9))),
             Assign(B, Bin("-", Conv(1, Bin("+", X, Y)), B)),
             \* min and max
             Assign(X, Choice("min", X, Y)), Assign(X, Choice("max", Y, Lit(6))), Assign(X, Choice("min", Lit(6), Y)),
             \* elements and pointers
             Assign(AI, X), Assign(AI, Lit(3)), Assign(X, AI), Assign(SI, Bin("+", SI, Y)),
             Assign(At("s", Lit(1), n), X), Assign(At("a", Lit(1), n), At("s", Lit(0), n)),
             Assign(AI, At("a", Bin("-", Lit(1), I), n)), Assign(P, Bin("+", P, X)), Assign(P, Lit(2)),
             Assign(X, P), Assign(Q, Bin("+", Q, Lit(1))), Assign(CI, At("c", Lit(0), 1)), Assign(At("c", Lit(1), 1), CI),
             Assign(B, At("c", Bin("^", I, Lit(1)), 1)),
             \* steps
             Step(X, TRUE), Step(X, FALSE), Step(P, TRUE), Step(P, FALSE), Step(Q, TRUE), Step(B, FALSE),
             Step(CI, TRUE), Step(AI, TRUE), Step(At("a", Lit(1), n), FALSE),
             \* quotient and remainder at once
             Both(Z, Bin("/", X, Y), Y, Bin("%", X, Y)), Both(Z, Bin("%", X, Y), X, Bin("/", X, Y)),
             Both(Z, Bin("/", X, Lit(3)), X, Bin("%", X, Lit(3))), Both(X, Bin("/", X, Y), Y, Bin("%", X, Y)),
             Both(Z, Bin("/", X, Y), Z, Bin("%", X, Y)), Both(At("a", Lit(0), n), Bin("/", X, Y), Z, Bin("%", X, Y)),
             Return(Bin("%", X, Y), Bin("/", X, Y)), Return(Bin("/", X, Lit(3)), Bin("%", X, Lit(3))),
             Return(Bin("+", X, Y), Lit(1)),
             \* printing
             Println(<<X>>), Println(<<B, Bin("+", X, Y)>>)>>
MCStatements == [n \in Sizes |-> StatementsOf(n)]

\* Numbers made of bytes at the edges.
RECURSIVE Numbers(_, _)
Numbers(n, edges) == IF n = 1 THEN edges ELSE {v + Mod * w : v \in edges, w \in Numbers(n - 1, edges)}

Input(x, y, b, i) ==
    "x" :> <<x>> @@ "y" :> <<y>> @@ "a" :> <<y, x>> @@ "c" :> <<b, 5>> @@ "b" :> <<b>> @@ "i" :> <<i>>
    @@ "ret" :> <<0, 0>> @@ "z" :> <<7>>
MCInputs ==
    [n \in Sizes |->
        CASE n = 1 -> {Input(x, y, y, x % 2) : x \in Byte, y \in {0, 1, 2, 3, 7, 8, 15}}
          [] n = 2 -> {Input(x, y, (x + 5 * y) % 10, y % 2) : x \in Numbers(2, {0, 1, 8, 15}), y \in {0, 1, 15, 16, 128, 143, 240, 255}}
          [] n = 3 -> {Input(x, y, (x + 3 * y) % 13, y % 2) :
                         x \in Numbers(3, {0, 8, 15}), y \in {0, 1, 16, 255, 2048, 4095}}]

-----------------------------------------------------------------------------
(* Printing at full width: bytes of 8 bits, decimal digits, and the three     *)
(* sizes of the program, for numbers whose bytes have many large digits.      *)

Wide == INSTANCE IntegerCode WITH ByteBits <- 8, Base <- 10, CharZero <- 48, Sizes <- {1, 2, 4, 8},
                                  Digits <- [n \in {2, 4, 8} |-> CASE n = 2 -> 5 [] n = 4 -> 10 [] n = 8 -> 20]

Steep == {0, 9, 99, 199, 249, 255}
WideNumbers ==
    UNION {{[j \in 1 .. n |-> IF j <= low THEN v ELSE w] : v \in Steep, w \in Steep, low \in 1 .. n}
           : n \in {2, 4, 8}}

\* The digits of a number by Horner's rule, without the zeros in front.
RECURSIVE DigitsOfBytes(_)
DigitsOfBytes(bytes) == IF bytes = <<>> THEN <<>> ELSE Wide!TimesMod(DigitsOfBytes(Tail(bytes)), Head(bytes))

Printed(bytes) ==
    LET n == Len(bytes)
        code == Wide!emitPrintInt(0, n, n)
    IN  Wide!Run(code, 1, Len(code),
                 [mem |-> [c \in 0 .. 40 |-> IF c < n THEN bytes[c + 1] ELSE 11], out |-> <<>>, spent |-> TRUE]).out

Decimal(bytes) ==
    LET ds == IF \A j \in DOMAIN bytes : bytes[j] = 0 THEN <<0>> ELSE Reverse(DigitsOfBytes(bytes))
    IN  [j \in 1 .. Len(ds) |-> 48 + ds[j]]

\* No sum of digits overflows its cell and no digit is lost at any size.
ASSUME PrintsAnyWidth == \A bytes \in WideNumbers : Printed(bytes) = Decimal(bytes)
=============================================================================
