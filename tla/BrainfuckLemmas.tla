--------------------------- MODULE BrainfuckLemmas ---------------------------
(***************************************************************************)
(* What holds of every Brainfuck program whose brackets pair up, and of    *)
(* the machine that runs it: how deep a program is at each place, that     *)
(* each bracket has one partner, and what each instruction leaves behind.  *)
(***************************************************************************)
EXTENDS Brainfuck, FiniteSetTheorems, SequenceTheorems, WellFoundedInduction, TLAPS

-----------------------------------------------------------------------------
(* Natural numbers.                                                          *)

\* A set of numbers has a least one.
LEMMA LeastNumber ==
    ASSUME NEW S \in SUBSET Nat, S # {}
    PROVE  \E f \in S : \A j \in S : f <= j
<1> DEFINE Less == {p \in Nat \X Nat : p[1] < p[2]}
<1>1. IsWellFoundedOn(Less, Nat)
    BY NatLessThanWellFounded DEF OpToRel
<1>2. \A i, j \in Nat : <<i, j>> \notin Less => j <= i
    OBVIOUS
<1> HIDE DEF Less
<1>3. PICK f \in S : \A j \in S : ~(<<j, f>> \in Less)
    BY <1>1, WFMin
<1> QED
    BY <1>2, <1>3

\* Induction: a set that has 0, and with a number the next, has all.
LEMMA NatInd ==
    ASSUME NEW S, 0 \in S, \A n \in Nat : n \in S => n + 1 \in S
    PROVE  Nat \subseteq S
<1> SUFFICES ASSUME Nat \ S # {} PROVE FALSE
    OBVIOUS
<1>1. PICK f \in Nat \ S : \A j \in Nat \ S : f <= j
    <2>1. Nat \ S \in SUBSET Nat
        OBVIOUS
    <2> QED
        BY <2>1, LeastNumber
<1>2. f - 1 \in Nat /\ f - 1 \in S /\ f - 1 + 1 = f
    BY <1>1
<1> QED
    BY <1>1, <1>2

\* Induction up to a bound.
LEMMA BoundedInd ==
    ASSUME NEW S, NEW N \in Nat, 0 \in S, \A n \in 0 .. (N - 1) : n \in S => n + 1 \in S
    PROVE  0 .. N \subseteq S
<1> DEFINE T == {n \in Nat : n <= N => n \in S}
<1>1. 0 \in T
    OBVIOUS
<1>2. \A n \in Nat : n \in T => n + 1 \in T
    OBVIOUS
<1> HIDE DEF T
<1>3. Nat \subseteq T
    BY <1>1, <1>2, NatInd
<1> QED
    BY <1>3 DEF T

\* The values of a step, repeated from a first value.
Iterated(h, N, S, b, f) ==
    /\ h \in [0 .. N -> S]
    /\ h[0] = b /\ \A i \in 1 .. N : h[i] = f[i][h[i - 1]]

LEMMA Iterates ==
    ASSUME NEW N \in Nat, NEW S, NEW b \in S, NEW f \in [1 .. N -> [S -> S]]
    PROVE  \E h : Iterated(h, N, S, b, f)
<1> DEFINE Upto(n, h) == h[0] = b /\ \A i \in 1 .. n : h[i] = f[i][h[i - 1]]
           T == {n \in 0 .. N : \E h \in [0 .. n -> S] : Upto(n, h)}
<1>1. 0 \in T
    <2> DEFINE h == [i \in 0 .. 0 |-> b]
    <2>1. h \in [0 .. 0 -> S] /\ Upto(0, h)
        OBVIOUS
    <2> HIDE DEF h
    <2> QED
        BY <2>1
<1>2. ASSUME NEW n \in 0 .. (N - 1), n \in T PROVE n + 1 \in T
    <2>1. PICK h \in [0 .. n -> S] : Upto(n, h)
        BY <1>2
    <2> DEFINE g == [i \in 0 .. (n + 1) |-> IF i = n + 1 THEN f[n + 1][h[n]] ELSE h[i]]
    <2>2. f[n + 1] \in [S -> S] /\ h[n] \in S
        OBVIOUS
    <2>3. \A i \in 0 .. (n + 1) : i # n + 1 => i \in 0 .. n
        OBVIOUS
    <2>4. g \in [0 .. (n + 1) -> S]
        BY <2>2, <2>3
    <2>5. g[0] = b
        BY <2>1
    <2>6. ASSUME NEW i \in 1 .. (n + 1) PROVE g[i] = f[i][g[i - 1]]
        <3>1. i - 1 \in 0 .. n /\ g[i - 1] = h[i - 1]
            OBVIOUS
        <3>2. CASE i = n + 1
            BY <3>1, <3>2
        <3>3. CASE i # n + 1
            <4>1. i \in 1 .. n /\ g[i] = h[i]
                BY <3>3
            <4> QED
                BY <2>1, <3>1, <4>1
        <3> QED
            BY <3>2, <3>3
    <2>7. Upto(n + 1, g)
        BY <2>5, <2>6
    <2> HIDE DEF g
    <2> QED
        BY <2>4, <2>7
<1> HIDE DEF T
<1>3. 0 .. N \subseteq T
    BY <1>1, <1>2, BoundedInd
<1> QED
    BY <1>3 DEF T, Iterated

-----------------------------------------------------------------------------
(* Brackets.                                                                 *)

\* How an instruction changes the number of open brackets.
Turn(ins) == IF ins.op = "open" THEN 1 ELSE IF ins.op = "close" THEN -1 ELSE 0

\* Counting positions, one after the other.
LEMMA UpToStep ==
    ASSUME NEW n \in Nat, NEW B \in SUBSET (1 .. n)
    PROVE  /\ UpTo(B, 0) = 0
           /\ \A i \in 0 .. n : UpTo(B, i) \in Nat
           /\ \A i \in 1 .. n : UpTo(B, i) = UpTo(B, i - 1) + (IF i \in B THEN 1 ELSE 0)
<1> DEFINE U(i) == {b \in B : b <= i}
<1>1. \A i \in 0 .. n : IsFiniteSet(U(i)) /\ Cardinality(U(i)) \in Nat
    <2> TAKE i \in 0 .. n
    <2>1. IsFiniteSet(1 .. n)
        BY FS_Interval
    <2>2. U(i) \subseteq 1 .. n
        OBVIOUS
    <2> HIDE DEF U
    <2> QED
        BY <2>1, <2>2, FS_Subset, FS_CardinalityType
<1>a. \A b \in B : b \in Int /\ 1 <= b
    OBVIOUS
<1>2. U(0) = {} /\ Cardinality(U(0)) = 0
    <2>1. \A b \in B : ~(b <= 0)
        BY <1>a
    <2>2. U(0) = {}
        BY <2>1, Zenon
    <2> HIDE DEF U
    <2> QED
        BY <2>2, FS_EmptySet
<1>3. ASSUME NEW i \in 1 .. n
      PROVE  Cardinality(U(i)) = Cardinality(U(i - 1)) + (IF i \in B THEN 1 ELSE 0)
    <2>a. \A b \in B : b <= i <=> b <= i - 1 \/ b = i
        BY <1>a
    <2>b. i <= i
        OBVIOUS
    <2>1. CASE i \in B
        <3>1. U(i) = U(i - 1) \cup {i}
            BY <2>a, <2>b, <2>1, Zenon
        <3>2. i \notin U(i - 1) /\ i - 1 \in 0 .. n
            OBVIOUS
        <3> HIDE DEF U
        <3> QED
            BY <1>1, <2>1, <3>1, <3>2, FS_AddElement
    <2>2. CASE i \notin B
        <3>1. U(i) = U(i - 1)
            BY <2>a, <2>2, Zenon
        <3>2. i - 1 \in 0 .. n
            OBVIOUS
        <3> HIDE DEF U
        <3> QED
            BY <1>1, <2>2, <3>1, <3>2
    <2> QED
        BY <2>1, <2>2
<1> QED
    BY <1>1, <1>2, <1>3 DEF UpTo

\* The depth of a program changes at its brackets.
LEMMA DepthStep ==
    ASSUME NEW code, NEW n \in Nat, n = Len(code), DOMAIN code = 1 .. n
    PROVE  /\ Depth(code, 0) = 0
           /\ \A i \in 0 .. n : Depth(code, i) \in Int
           /\ \A i \in 1 .. n : Depth(code, i) = Depth(code, i - 1) + Turn(code[i])
<1> DEFINE O == Brackets(code, "open")
           C == Brackets(code, "close")
<1>1. /\ O \in SUBSET (1 .. n) /\ C \in SUBSET (1 .. n)
      /\ \A i \in 1 .. n : (i \in O <=> code[i].op = "open") /\ (i \in C <=> code[i].op = "close")
    BY DEF Brackets
<1>2. \A i : Depth(code, i) = UpTo(O, i) - UpTo(C, i)
    BY DEF Depth
<1> HIDE DEF O, C
<1>3. /\ UpTo(O, 0) = 0 /\ \A i \in 0 .. n : UpTo(O, i) \in Nat
      /\ \A i \in 1 .. n : UpTo(O, i) = UpTo(O, i - 1) + (IF i \in O THEN 1 ELSE 0)
    BY <1>1, UpToStep
<1>4. /\ UpTo(C, 0) = 0 /\ \A i \in 0 .. n : UpTo(C, i) \in Nat
      /\ \A i \in 1 .. n : UpTo(C, i) = UpTo(C, i - 1) + (IF i \in C THEN 1 ELSE 0)
    BY <1>1, UpToStep
<1>5. ASSUME NEW i \in 1 .. n PROVE Depth(code, i) = Depth(code, i - 1) + Turn(code[i])
    <2>1. i \in 0 .. n /\ i - 1 \in 0 .. n
        OBVIOUS
    <2>2. /\ UpTo(O, i) \in Nat /\ UpTo(O, i - 1) \in Nat /\ UpTo(C, i) \in Nat /\ UpTo(C, i - 1) \in Nat
          /\ UpTo(O, i) = UpTo(O, i - 1) + (IF i \in O THEN 1 ELSE 0)
          /\ UpTo(C, i) = UpTo(C, i - 1) + (IF i \in C THEN 1 ELSE 0)
        BY <1>3, <1>4, <2>1
    <2> QED
        BY <1>1, <1>2, <2>2 DEF Turn
<1>6. ASSUME NEW i \in 0 .. n PROVE Depth(code, i) \in Int
    <2>1. UpTo(O, i) \in Nat /\ UpTo(C, i) \in Nat
        BY <1>3, <1>4
    <2> QED
        BY <1>2, <2>1
<1> QED
    BY <1>2, <1>3, <1>4, <1>5, <1>6

\* The bracket at j closes the one at i.
Closes(code, i, j) ==
    /\ i \in Brackets(code, "open") /\ j \in Brackets(code, "close") /\ i < j
    /\ Depth(code, j) = Depth(code, i) - 1
    /\ \A k \in i .. (j - 1) : Depth(code, k) >= Depth(code, i)

\* It is the only one to do so, and closes no other.
LEMMA ClosesOnce ==
    ASSUME NEW code, NEW n \in Nat, n = Len(code), DOMAIN code = 1 .. n,
           NEW i, NEW j, NEW k, NEW l, Closes(code, i, j), Closes(code, k, l)
    PROVE  i = k <=> j = l
<1>1. /\ i \in 1 .. n /\ j \in 1 .. n /\ k \in 1 .. n /\ l \in 1 .. n /\ i < j /\ k < l
      /\ \A p \in 0 .. n : Depth(code, p) \in Int
      /\ Turn(code[i]) = 1 /\ Turn(code[k]) = 1
    BY DepthStep DEF Closes, Brackets, Turn
<1>2. /\ Depth(code, i) = Depth(code, i - 1) + 1 /\ Depth(code, k) = Depth(code, k - 1) + 1
    BY <1>1, DepthStep
<1>3. /\ Depth(code, j) = Depth(code, i) - 1 /\ \A p \in i .. (j - 1) : Depth(code, p) >= Depth(code, i)
      /\ Depth(code, l) = Depth(code, k) - 1 /\ \A p \in k .. (l - 1) : Depth(code, p) >= Depth(code, k)
    BY DEF Closes
<1>4. ASSUME i = k, j < l PROVE FALSE
    BY <1>1, <1>3, <1>4
<1>5. ASSUME i = k, l < j PROVE FALSE
    BY <1>1, <1>3, <1>5
<1>6. ASSUME j = l, i < k PROVE FALSE
    <2>1. k - 1 \in i .. (j - 1) /\ Depth(code, k - 1) = Depth(code, k) - 1
        BY <1>1, <1>2, <1>6
    <2> QED
        BY <1>1, <1>3, <1>6, <2>1
<1>7. ASSUME j = l, k < i PROVE FALSE
    <2>1. i - 1 \in k .. (l - 1) /\ Depth(code, i - 1) = Depth(code, i) - 1
        BY <1>1, <1>2, <1>7
    <2> QED
        BY <1>1, <1>3, <1>7, <2>1
<1> QED
    BY <1>1, <1>4, <1>5, <1>6, <1>7

\* A program pairs up when no bracket closes more than are open, and none is left.
LEMMA BalancedDepth ==
    ASSUME NEW code, NEW n \in Nat, n = Len(code), DOMAIN code = 1 .. n
    PROVE  Balanced(code) <=> (\A i \in 0 .. n : Depth(code, i) >= 0) /\ Depth(code, n) = 0
<1>1. /\ \A i \in 0 .. n : Depth(code, i) \in Int
      /\ \A i \in 1 .. n : Depth(code, i) = Depth(code, i - 1) + Turn(code[i])
    BY DepthStep
<1>2. ASSUME Balanced(code) PROVE \A i \in 0 .. n : Depth(code, i) >= 0
    <2> DEFINE S == {i \in 0 .. n : Depth(code, i) >= 0}
    <2>1. 0 \in S
        BY DepthStep
    <2>2. ASSUME NEW i \in 0 .. (n - 1), i \in S PROVE i + 1 \in S
        <3>1. i + 1 \in 1 .. n /\ i + 1 \in 0 .. n /\ i + 1 - 1 = i
            OBVIOUS
        <3>2. Depth(code, i + 1) = Depth(code, i) + Turn(code[i + 1])
            BY <3>1, <1>1
        <3>3. CASE code[i + 1].op = "close"
            BY <1>2, <3>1, <3>3 DEF Balanced, Brackets
        <3>4. CASE code[i + 1].op # "close"
            BY <1>1, <2>2, <3>1, <3>2, <3>4 DEF Turn
        <3> QED
            BY <3>3, <3>4
    <2> HIDE DEF S
    <2>3. 0 .. n \subseteq S
        BY <2>1, <2>2, BoundedInd
    <2> QED
        BY <2>3 DEF S
<1>3. Brackets(code, "close") \subseteq 0 .. n
    BY DEF Brackets
<1> QED
    BY <1>2, <1>3 DEF Balanced

\* In such a program every opened bracket is closed.
LEMMA OpenIsClosed ==
    ASSUME NEW code, NEW n \in Nat, n = Len(code), DOMAIN code = 1 .. n, Balanced(code),
           NEW i \in Brackets(code, "open")
    PROVE  \E j \in Brackets(code, "close") : Closes(code, i, j)
<1>a. /\ i \in 1 .. n /\ i \in 0 .. n /\ i - 1 \in 0 .. n /\ Turn(code[i]) = 1
    BY DEF Brackets, Turn
<1>b. /\ \A p \in 0 .. n : Depth(code, p) \in Int
      /\ \A p \in 1 .. n : Depth(code, p) = Depth(code, p - 1) + Turn(code[p])
    BY DepthStep
<1>c. /\ \A p \in 0 .. n : Depth(code, p) >= 0
      /\ Depth(code, n) = 0
    BY BalancedDepth
<1>1. /\ i \in 1 .. n /\ i \in 0 .. n /\ i - 1 \in 0 .. n /\ Turn(code[i]) = 1
      /\ \A p \in 0 .. n : Depth(code, p) \in Int
      /\ \A p \in 1 .. n : Depth(code, p) = Depth(code, p - 1) + Turn(code[p])
      /\ \A p \in 0 .. n : Depth(code, p) >= 0
      /\ Depth(code, n) = 0
    BY <1>a, <1>b, <1>c
<1>2. Depth(code, i) = Depth(code, i - 1) + 1
    BY <1>1
<1> DEFINE S == {j \in (i + 1) .. n : Depth(code, j) < Depth(code, i)}
<1>3. n \in S /\ S \in SUBSET Nat
    BY <1>1, <1>2
<1>4. PICK j \in S : \A k \in S : j <= k
    BY <1>3, LeastNumber
<1>d. j \in (i + 1) .. n /\ Depth(code, j) < Depth(code, i)
    OBVIOUS
<1>e. ASSUME NEW k \in i .. (j - 1) PROVE Depth(code, k) >= Depth(code, i)
    <2>1. k \in Int /\ k \in 0 .. n /\ (k = i \/ k \in (i + 1) .. n)
        BY <1>1, <1>d
    <2>2. k \notin S
        BY <1>1, <1>4, <1>d, <2>1
    <2> QED
        BY <1>1, <2>1, <2>2
<1>5. /\ j \in (i + 1) .. n /\ Depth(code, j) < Depth(code, i)
      /\ \A k \in i .. (j - 1) : Depth(code, k) >= Depth(code, i)
    BY <1>d, <1>e
<1> HIDE DEF S
<1>6. /\ j \in 1 .. n /\ j - 1 \in 0 .. n /\ j - 1 \in i .. (j - 1)
      /\ Depth(code, j) = Depth(code, j - 1) + Turn(code[j])
    BY <1>1, <1>5
<1>7. Turn(code[j]) = -1 /\ Depth(code, j) = Depth(code, i) - 1
    <2>1. Depth(code, j - 1) >= Depth(code, i) /\ Depth(code, j) < Depth(code, i)
        BY <1>5, <1>6
    <2>2. Depth(code, j - 1) \in Int /\ Depth(code, i) \in Int /\ Depth(code, j) \in Int
        BY <1>1, <1>6
    <2>3. Turn(code[j]) \in {-1, 0, 1}
        BY DEF Turn
    <2> QED
        BY <1>6, <2>1, <2>2, <2>3
<1>8. j \in Brackets(code, "close")
    BY <1>6, <1>7 DEF Turn, Brackets
<1> QED
    BY <1>1, <1>5, <1>7, <1>8 DEF Closes

\* And every bracket that closes closes one.
LEMMA CloseIsOpened ==
    ASSUME NEW code, NEW n \in Nat, n = Len(code), DOMAIN code = 1 .. n, Balanced(code),
           NEW j \in Brackets(code, "close")
    PROVE  \E i \in Brackets(code, "open") : Closes(code, i, j)
<1>1. /\ j \in 1 .. n /\ j \in 0 .. n /\ j - 1 \in 0 .. n /\ Turn(code[j]) = -1
    BY DEF Brackets, Turn
<1>2. /\ \A p \in 0 .. n : Depth(code, p) \in Int
      /\ \A p \in 1 .. n : Depth(code, p) = Depth(code, p - 1) + Turn(code[p])
      /\ Depth(code, 0) = 0
    BY DepthStep
<1>3. \A p \in 0 .. n : Depth(code, p) >= 0
    BY BalancedDepth
<1> DEFINE S == {q \in 1 .. j : Depth(code, j - q) <= Depth(code, j)}
<1>4. j \in S /\ S \in SUBSET Nat
    BY <1>1, <1>2, <1>3
<1>5. PICK q \in S : \A k \in S : q <= k
    BY <1>4, LeastNumber
<1> DEFINE i == j - q + 1
<1>6. /\ q \in 1 .. j /\ Depth(code, i - 1) <= Depth(code, j) /\ i - 1 \in 0 .. n
      /\ i \in Int /\ i - 1 = j - q
    BY <1>1, <1>5
<1>7. ASSUME NEW p \in i .. (j - 1) PROVE Depth(code, p) >= Depth(code, j) + 1
    <2>1. p \in 0 .. n /\ j - p \in 1 .. j /\ j - p < q /\ j - (j - p) = p
        BY <1>1, <1>6
    <2>2. j - p \notin S
        BY <1>5, <1>6, <2>1
    <2>3. ~(Depth(code, p) <= Depth(code, j))
        BY <2>1, <2>2
    <2> QED
        BY <1>1, <1>2, <2>1, <2>3
<1> HIDE DEF S
<1>8. Depth(code, j - 1) = Depth(code, j) + 1
    BY <1>1, <1>2
<1>9. i \in 1 .. n /\ i <= j - 1 /\ i \in 0 .. n
    <2>1. CASE q = 1
        <3>1. i - 1 = j - 1
            BY <1>1, <2>1
        <3> QED
            BY <1>1, <1>2, <1>6, <1>8, <3>1
    <2>2. CASE q # 1
        BY <1>1, <1>6, <2>2
    <2> QED
        BY <2>1, <2>2
<1>10. Depth(code, i) >= Depth(code, j) + 1 /\ Depth(code, i) = Depth(code, i - 1) + Turn(code[i])
    BY <1>1, <1>2, <1>7, <1>9
<1> HIDE DEF i
<1>11. Turn(code[i]) \in {-1, 0, 1} /\ (Turn(code[i]) = 1 => code[i].op = "open")
    BY DEF Turn
<1>12. Depth(code, i) \in Int /\ Depth(code, i - 1) \in Int /\ Depth(code, j) \in Int
    BY <1>1, <1>2, <1>6, <1>9
<1>13. Turn(code[i]) = 1 /\ Depth(code, i) = Depth(code, j) + 1
    BY <1>6, <1>10, <1>11, <1>12
<1>14. i \in Brackets(code, "open")
    BY <1>9, <1>11, <1>13 DEF Brackets
<1> QED
    BY <1>1, <1>7, <1>9, <1>12, <1>13, <1>14 DEF Closes

\* Partners pairs the brackets with those that close them.
LEMMA PartnersClose ==
    ASSUME NEW code, NEW n \in Nat, n = Len(code), DOMAIN code = 1 .. n, Balanced(code),
           NEW i, NEW j, Closes(code, i, j)
    PROVE  Partners(code)[i] = j /\ Partners(code)[j] = i
<1> DEFINE opens == Brackets(code, "open")
           closes == Brackets(code, "close")
           Ends(a, b) == b \in closes /\ Depth(code, b) < Depth(code, a)
           First(a, k) == Ends(a, a + k) /\ \A l \in 1 .. (k - 1) : ~Ends(a, a + l)
           End(a) == a + CHOOSE k \in 1 .. (n - a) : First(a, k)
           pairs == {<<a, End(a)>> : a \in opens}
           Pair(a) == CHOOSE p \in pairs : a \in {p[1], p[2]}
<1>1. Partners(code) = [a \in opens \cup closes |-> IF a = Pair(a)[1] THEN Pair(a)[2] ELSE Pair(a)[1]]
    BY DEF Partners, Depth
<1>2. /\ \A a \in opens : a \in 1 .. n /\ code[a].op = "open"
      /\ \A a \in closes : a \in 1 .. n /\ code[a].op = "close"
      /\ \A p \in 0 .. n : Depth(code, p) \in Int
    BY DepthStep DEF Brackets
<1>3. ASSUME NEW a \in opens, NEW b \in closes, Closes(code, a, b) PROVE End(a) = b
    <2>1. /\ a < b /\ Depth(code, b) < Depth(code, a)
          /\ \A k \in a .. (b - 1) : Depth(code, k) >= Depth(code, a)
        BY <1>2, <1>3 DEF Closes
    <2>2. a \in 1 .. n /\ b \in 1 .. n
        BY <1>2
    <2>3. b - a \in 1 .. (n - a) /\ a + (b - a) = b
        BY <2>1, <2>2
    <2>4. \A k \in 1 .. (b - a - 1) : a + k \in a .. (b - 1) /\ a + k \in 0 .. n
        BY <2>1, <2>2
    <2>5. \A k \in 1 .. (b - a - 1) : ~Ends(a, a + k)
        BY <1>2, <2>1, <2>2, <2>4
    <2>6. First(a, b - a)
        BY <2>1, <2>3, <2>5
    <2>7. ASSUME NEW k \in 1 .. (n - a), First(a, k) PROVE k = b - a
        <3>1. ~(k < b - a)
            BY <2>2, <2>5, <2>7
        <3>2. ASSUME b - a < k PROVE FALSE
            <4>1. b - a \in 1 .. (k - 1)
                BY <2>2, <2>3, <3>2
            <4>2. ~Ends(a, a + (b - a))
                BY <2>7, <4>1
            <4> QED
                BY <2>6, <4>2
        <3> QED
            BY <2>2, <3>1, <3>2
    <2> HIDE DEF First
    <2>8. (CHOOSE k \in 1 .. (n - a) : First(a, k)) = b - a
        BY <2>3, <2>6, <2>7
    <2> QED
        BY <2>3, <2>8
<1>4. ASSUME NEW a \in opens PROVE Closes(code, a, End(a)) /\ End(a) \in closes
    <2>1. PICK b \in closes : Closes(code, a, b)
        BY OpenIsClosed
    <2> HIDE DEF End
    <2> QED
        BY <1>3, <2>1
<1> HIDE DEF End
<1>5. i \in opens /\ j \in closes /\ i \notin closes /\ j \notin opens /\ End(i) = j
    BY <1>2, <1>3 DEF Closes
<1> HIDE DEF opens, closes
<1>6. <<i, j>> \in pairs
    BY <1>5
<1>7. ASSUME NEW p \in pairs, i \in {p[1], p[2]} \/ j \in {p[1], p[2]} PROVE p = <<i, j>>
    <2>1. PICK a \in opens : p = <<a, End(a)>>
        BY <1>7
    <2>2. Closes(code, a, End(a)) /\ End(a) \in closes
        BY <1>4
    <2>3. a = i <=> End(a) = j
        BY <2>2, ClosesOnce
    <2>4. a = i \/ End(a) = j
        BY <1>5, <1>7, <2>1, <2>2
    <2> QED
        BY <2>1, <2>3, <2>4
<1> HIDE DEF pairs
<1>8. Pair(i) = <<i, j>> /\ Pair(j) = <<i, j>>
    <2>1. i \in {<<i, j>>[1], <<i, j>>[2]} /\ j \in {<<i, j>>[1], <<i, j>>[2]}
        OBVIOUS
    <2>2. Pair(i) \in pairs /\ i \in {Pair(i)[1], Pair(i)[2]}
        BY <1>6, <2>1
    <2>3. Pair(j) \in pairs /\ j \in {Pair(j)[1], Pair(j)[2]}
        BY <1>6, <2>1
    <2> HIDE DEF Pair
    <2> QED
        BY <1>7, <2>2, <2>3
<1> HIDE DEF Pair
<1> QED
    BY <1>1, <1>5, <1>8

\* Brackets and their depth depend on what the instructions are, not on their arguments.
LEMMA AlikeDepth ==
    ASSUME NEW n \in Nat, NEW a, NEW b, n = Len(a), DOMAIN a = 1 .. n, n = Len(b), DOMAIN b = 1 .. n,
           \A k \in 1 .. n : a[k].op = b[k].op
    PROVE  /\ \A op : Brackets(a, op) = Brackets(b, op)
           /\ \A p : Depth(a, p) = Depth(b, p)
           /\ \A i, j : Closes(a, i, j) <=> Closes(b, i, j)
           /\ Balanced(a) <=> Balanced(b)
<1>1. \A op : Brackets(a, op) = Brackets(b, op)
    BY DEF Brackets
<1>2. \A p : Depth(a, p) = Depth(b, p)
    BY <1>1 DEF Depth
<1>3. \A i, j : Closes(a, i, j) <=> Closes(b, i, j)
    BY <1>1, <1>2 DEF Closes
<1>4. Balanced(a) <=> Balanced(b)
    BY <1>1, <1>2 DEF Balanced
<1> QED
    BY <1>1, <1>2, <1>3, <1>4

-----------------------------------------------------------------------------
(* Bytes.                                                                    *)

\* What is left of a number by the modulus is a byte.
LEMMA ModByte == 0 \in Byte /\ \A x \in Int : x % Mod \in Byte
<1>1. Mod \in Nat /\ Mod >= 2
    BY MachineAssumption
<1> QED
    BY ONLY <1>1 DEF Byte

\* A number is as many times the modulus as it is divided by, and what is left of it.
LEMMA ModParts ==
    ASSUME NEW x \in Int
    PROVE  /\ x % Mod \in Byte /\ x \div Mod \in Int
           /\ x = Mod * (x \div Mod) + (x % Mod)
<1>1. Mod \in Nat /\ Mod >= 2
    BY MachineAssumption
<1> QED
    BY ONLY <1>1, x \in Int DEF Byte

\* There is only one way to do that.
LEMMA ModUnique ==
    ASSUME NEW q \in Int, NEW r \in Byte
    PROVE  (Mod * q + r) % Mod = r
<1>1. Mod \in Nat /\ Mod >= 2 /\ r \in Int /\ r >= 0 /\ r < Mod
    BY MachineAssumption DEF Byte
<1> DEFINE y == Mod * q + r
           p == y \div Mod
           k == y % Mod
<1>2. y \in Int
    BY <1>1
<1>3. k \in Int /\ k >= 0 /\ k < Mod /\ p \in Int /\ y = Mod * p + k
    <2> HIDE DEF y
    <2>1. k \in Byte /\ p \in Int /\ y = Mod * p + k
        BY ONLY <1>2, ModParts
    <2> QED
        BY ONLY <1>1, <2>1 DEF Byte
<1> HIDE DEF p, k
<1>4. Mod * (q - p) = k - r
    BY <1>1, <1>3
<1>5. \A z \in Int : (z >= 1 => Mod * z >= Mod) /\ (z <= -1 => Mod * z <= -Mod)
    BY <1>1
<1>6. q - p \in Int /\ ~(q - p >= 1) /\ ~(q - p <= -1)
    BY <1>1, <1>3, <1>4, <1>5
<1>7. q - p = 0
    BY <1>6
<1> QED
    BY <1>1, <1>3, <1>4, <1>7 DEF k

\* Additions to a byte may be reduced one by one.
LEMMA ModAdd ==
    ASSUME NEW x \in Int, NEW a \in Int
    PROVE  ((x % Mod) + a) % Mod = (x + a) % Mod
<1> DEFINE q == x \div Mod
           r == x % Mod
<1>1. Mod \in Int /\ r \in Int /\ q \in Int /\ x = Mod * q + r
    BY MachineAssumption, ModParts DEF Byte
<1> HIDE DEF q, r
<1> DEFINE y == r + a
           p == y \div Mod
           k == y % Mod
<1>a. y \in Int /\ y = r + a
    BY <1>1
<1> HIDE DEF y
<1>2. k \in Byte /\ p \in Int /\ r + a = Mod * p + k /\ k \in Int
    BY <1>a, ModParts DEF Byte
<1> HIDE DEF p, k
<1>3. x + a = Mod * (q + p) + k /\ q + p \in Int
    BY <1>1, <1>2
<1>4. (Mod * (q + p) + k) % Mod = k
    BY <1>2, <1>3, ModUnique
<1> QED
    BY <1>3, <1>4 DEF k, r, y

\* So may the factors of what is added.
LEMMA ModTimes ==
    ASSUME NEW x \in Int, NEW v \in Int, NEW a \in Int
    PROVE  (x + v * (a % Mod)) % Mod = (x + v * a) % Mod
<1> DEFINE q == a \div Mod
           r == a % Mod
<1>1. Mod \in Int /\ r \in Int /\ q \in Int /\ a = Mod * q + r
    BY MachineAssumption, ModParts DEF Byte
<1> HIDE DEF q, r
<1> DEFINE y == x + v * r
           p == y \div Mod
           k == y % Mod
<1>a. y \in Int /\ y = x + v * r
    BY <1>1
<1> HIDE DEF y
<1>2. k \in Byte /\ p \in Int /\ x + v * r = Mod * p + k /\ k \in Int
    BY <1>a, ModParts DEF Byte
<1> HIDE DEF p, k
<1>3. v * a = Mod * (v * q) + v * r
    BY <1>1
<1>4. x + v * a = Mod * (v * q + p) + k /\ v * q + p \in Int
    BY <1>1, <1>2, <1>3
<1>5. (Mod * (v * q + p) + k) % Mod = k
    BY <1>2, <1>4, ModUnique
<1> QED
    BY <1>4, <1>5 DEF k, r, y

\* A byte is left as it is.
LEMMA ModSmall ==
    ASSUME NEW b \in Byte
    PROVE  b % Mod = b
<1>1. Mod * 0 + b = b
    BY MachineAssumption DEF Byte
<1>2. (Mod * 0 + b) % Mod = b
    BY ModUnique
<1> QED
    BY <1>1, <1>2

-----------------------------------------------------------------------------
(* Machines.                                                                 *)

Tapes == [Cells -> Byte]

Machines == [tape : Tapes, ptr : Int, pc : Nat, out : Seq(Byte), in : Seq(Byte), failed : BOOLEAN]

\* A machine that has not failed.
Mk(t, q, c, o, i) == [tape |-> t, ptr |-> q, pc |-> c, out |-> o, in |-> i, failed |-> FALSE]

\* The tape with another byte in one cell.
Put(t, q, v) == [t EXCEPT ![q] = v]

LEMMA PutIs ==
    ASSUME NEW t \in Tapes, NEW q \in Cells, NEW v \in Byte
    PROVE  /\ Put(t, q, v) \in Tapes /\ Put(t, q, v)[q] = v
           /\ \A c \in Cells : c # q => Put(t, q, v)[c] = t[c]
           /\ \A w : Put(Put(t, q, v), q, w) = Put(t, q, w)
           /\ v = t[q] => Put(t, q, v) = t
BY DEF Put, Tapes

\* Two tapes are the same when every cell is.
LEMMA SameTape ==
    ASSUME NEW t \in Tapes, NEW u \in Tapes, \A c \in Cells : t[c] = u[c]
    PROVE  t = u
BY DEF Tapes

LEMMA CellByte ==
    ASSUME NEW t \in Tapes, NEW q \in Cells
    PROVE  t[q] \in Byte /\ t[q] \in Int
BY DEF Tapes, Byte

LEMMA MkIs ==
    ASSUME NEW t \in Tapes, NEW q \in Int, NEW c \in Nat, NEW o \in Seq(Byte), NEW i \in Seq(Byte)
    PROVE  /\ Mk(t, q, c, o, i) \in Machines
           /\ Mk(t, q, c, o, i).tape = t /\ Mk(t, q, c, o, i).ptr = q /\ Mk(t, q, c, o, i).pc = c
           /\ Mk(t, q, c, o, i).out = o /\ Mk(t, q, c, o, i).in = i /\ ~Mk(t, q, c, o, i).failed
BY DEF Mk, Machines

LEMMA MachineIs ==
    ASSUME NEW m \in Machines
    PROVE  /\ m.tape \in Tapes /\ m.ptr \in Int /\ m.pc \in Nat /\ m.out \in Seq(Byte) /\ m.in \in Seq(Byte)
           /\ m.failed \in BOOLEAN
           /\ ~m.failed => m = Mk(m.tape, m.ptr, m.pc, m.out, m.in)
BY DEF Mk, Machines

-----------------------------------------------------------------------------
(* What one instruction does to a machine that has not failed.               *)

LEMMA DoMove ==
    ASSUME NEW code, NEW links, NEW c, NEW t, NEW q, NEW o, NEW i, code[c].op = "move"
    PROVE  Execute(code, links, Mk(t, q, c, o, i)) = Mk(t, q + code[c].arg, c + 1, o, i)
BY DEF Execute, Mk

LEMMA DoAdd ==
    ASSUME NEW code, NEW links, NEW c, NEW t, NEW q \in Cells, NEW o, NEW i, code[c].op = "add"
    PROVE  Execute(code, links, Mk(t, q, c, o, i)) = Mk(Put(t, q, (t[q] + code[c].arg) % Mod), q, c + 1, o, i)
BY DEF Execute, Mk, OnTape, SetCurrent, Current, Put

LEMMA DoOut ==
    ASSUME NEW code, NEW links, NEW c, NEW t, NEW q \in Cells, NEW o, NEW i, code[c].op = "out"
    PROVE  Execute(code, links, Mk(t, q, c, o, i)) = Mk(t, q, c + 1, Append(o, t[q]), i)
BY DEF Execute, Mk, OnTape, Current

LEMMA SetCurrentMk ==
    ASSUME NEW t, NEW q, NEW c, NEW o, NEW i, NEW v
    PROVE  SetCurrent(Mk(t, q, c, o, i), v) = Mk(Put(t, q, v % Mod), q, c, o, i)
<1> DEFINE m == Mk(t, q, c, o, i)
           u == Put(t, q, v % Mod)
           n == [m EXCEPT !.tape = u]
<1>1. m.tape = t /\ m.ptr = q
    BY DEF Mk
<1>2. SetCurrent(m, v) = n
    <2> HIDE DEF m
    <2> QED
        BY <1>1 DEF SetCurrent, Put
<1>3. m = Mk(t, q, c, o, i) /\ n = [m EXCEPT !.tape = u]
    OBVIOUS
<1> HIDE DEF m, n, u
<1>4. n = Mk(u, q, c, o, i)
    BY ONLY <1>3 DEF Mk
<1> QED
    BY <1>2, <1>4 DEF m, u

LEMMA DoIn ==
    ASSUME NEW code, NEW links, NEW c, NEW t, NEW q \in Cells, NEW o, NEW i, code[c].op = "in"
    PROVE  Execute(code, links, Mk(t, q, c, o, i)) =
                IF i = <<>> THEN Mk(Put(t, q, 0 % Mod), q, c + 1, o, i)
                ELSE Mk(Put(t, q, Head(i) % Mod), q, c + 1, o, Tail(i))
<1> DEFINE m == Mk(t, q, c, o, i)
           n == IF i = <<>> THEN Mk(Put(t, q, 0 % Mod), q, c, o, i)
                ELSE Mk(Put(t, q, Head(i) % Mod), q, c, o, Tail(i))
<1>1. ReadByte(m) = n
    <2>0. m.in = i
        BY DEF Mk
    <2>1. CASE i = <<>>
        BY <2>0, <2>1, SetCurrentMk DEF ReadByte
    <2>2. CASE i # <<>>
        <3>1. SetCurrent(m, Head(i)) = Mk(Put(t, q, Head(i) % Mod), q, c, o, i)
            BY SetCurrentMk
        <3>2. ReadByte(m) = [SetCurrent(m, Head(i)) EXCEPT !.in = Tail(i)]
            BY <2>0, <2>2 DEF ReadByte
        <3>3. ReadByte(m) = [Mk(Put(t, q, Head(i) % Mod), q, c, o, i) EXCEPT !.in = Tail(i)]
            BY <3>1, <3>2
        <3> DEFINE a == Mk(Put(t, q, Head(i) % Mod), q, c, o, i)
                   b == [a EXCEPT !.in = Tail(i)]
                   u == Put(t, q, Head(i) % Mod)
                   y == Tail(i)
        <3>4. a = Mk(u, q, c, o, i) /\ b = [a EXCEPT !.in = y]
            OBVIOUS
        <3> HIDE DEF a, b, u, y
        <3>5. b = Mk(u, q, c, o, y)
            BY ONLY <3>4 DEF Mk
        <3> QED
            BY <2>2, <3>3, <3>5 DEF a, b, u, y
    <2> QED
        BY <2>1, <2>2
<1>2. m.pc = c /\ OnTape(m)
    BY DEF Mk, OnTape
<1>3. Execute(code, links, m) = [ReadByte(m) EXCEPT !.pc = c + 1]
    <2> HIDE DEF m
    <2> QED
        BY <1>2 DEF Execute
<1>4. Execute(code, links, m) = [n EXCEPT !.pc = c + 1]
    BY <1>1, <1>3
<1> QED
    BY <1>4 DEF Mk

LEMMA DoOpen ==
    ASSUME NEW code, NEW links, NEW c, NEW t, NEW q \in Cells, NEW o, NEW i, code[c].op = "open"
    PROVE  Execute(code, links, Mk(t, q, c, o, i)) =
                IF t[q] = 0 THEN Mk(t, q, links[c] + 1, o, i) ELSE Mk(t, q, c + 1, o, i)
<1> DEFINE m == Mk(t, q, c, o, i)
<1>1. m.pc = c /\ OnTape(m) /\ Current(m) = t[q]
    BY DEF Mk, OnTape, Current
<1>2. Execute(code, links, m) = IF t[q] = 0 THEN [m EXCEPT !.pc = links[c] + 1] ELSE [m EXCEPT !.pc = c + 1]
    <2> HIDE DEF m
    <2> QED
        BY <1>1 DEF Execute
<1> QED
    BY <1>2 DEF Mk

LEMMA DoClose ==
    ASSUME NEW code, NEW links, NEW c, NEW t, NEW q \in Cells, NEW o, NEW i, code[c].op = "close"
    PROVE  Execute(code, links, Mk(t, q, c, o, i)) =
                Mk(t, q, (IF t[q] = 0 THEN c ELSE links[c]) + 1, o, i)
<1> DEFINE m == Mk(t, q, c, o, i)
<1>1. m.pc = c /\ OnTape(m) /\ Current(m) = t[q]
    BY DEF Mk, OnTape, Current
<1>2. Execute(code, links, m) = IF t[q] = 0 THEN [m EXCEPT !.pc = c + 1] ELSE [m EXCEPT !.pc = links[c] + 1]
    <2> HIDE DEF m
    <2> QED
        BY <1>1 DEF Execute
<1> QED
    BY <1>2 DEF Mk

-----------------------------------------------------------------------------
(* What the other instructions leave.                                        *)

\* A machine that has died, or goes on elsewhere.
Pass(m, c) == [m EXCEPT !.pc = c]

LEMMA PassMk ==
    ASSUME NEW t, NEW q, NEW c, NEW o, NEW n, NEW e
    PROVE  Pass(Mk(t, q, c, o, n), e) = Mk(t, q, e, o, n)
<1> DEFINE m == Mk(t, q, c, o, n)
           r == Pass(m, e)
<1>1. m = Mk(t, q, c, o, n) /\ r = Pass(m, e)
    OBVIOUS
<1> HIDE DEF m, r
<1>2. r = Mk(t, q, e, o, n)
    BY ONLY <1>1 DEF Mk, Pass
<1> QED
    BY <1>2 DEF m, r

LEMMA FailIs ==
    ASSUME NEW m \in Machines
    PROVE  Fail(m) \in Machines /\ Fail(m).failed /\ Fail(m).pc = m.pc
BY DEF Fail, Machines

LEMMA DoFails ==
    ASSUME NEW code, NEW links, NEW c, NEW t, NEW q, NEW o, NEW n, code[c].op # "move", q \notin Cells
    PROVE  Execute(code, links, Mk(t, q, c, o, n)) = Fail(Mk(t, q, c, o, n))
BY DEF Execute, OnTape, Mk

\* What reading leaves: the tape, and the input.
ReadTape(t, q, n) == IF n = <<>> THEN Put(t, q, 0) ELSE Put(t, q, Head(n))
ReadRest(n) == IF n = <<>> THEN <<>> ELSE Tail(n)

LEMMA DoRead ==
    ASSUME NEW code, NEW links, NEW c, NEW t \in Tapes, NEW q \in Cells, NEW o, NEW n \in Seq(Byte), code[c].op = "in"
    PROVE  /\ Execute(code, links, Mk(t, q, c, o, n)) = Mk(ReadTape(t, q, n), q, c + 1, o, ReadRest(n))
           /\ ReadTape(t, q, n) \in Tapes /\ ReadRest(n) \in Seq(Byte)
<1>1. Execute(code, links, Mk(t, q, c, o, n)) =
                IF n = <<>> THEN Mk(Put(t, q, 0 % Mod), q, c + 1, o, n)
                ELSE Mk(Put(t, q, Head(n) % Mod), q, c + 1, o, Tail(n))
    BY DoIn
<1>2. CASE n = <<>>
    <2>1. 0 \in Byte /\ 0 % Mod = 0
        BY ModByte, ModSmall
    <2> QED
        BY <1>1, <1>2, <2>1, PutIs DEF ReadTape, ReadRest
<1>3. CASE n # <<>>
    <2>1. Head(n) \in Byte /\ Tail(n) \in Seq(Byte)
        BY <1>3
    <2>2. Head(n) % Mod = Head(n)
        BY <2>1, ModSmall
    <2> QED
        BY <1>1, <1>3, <2>1, <2>2, PutIs DEF ReadTape, ReadRest
<1> QED
    BY <1>2, <1>3

\* The machine jumps with the table of the program that is run.
LEMMA DoJump ==
    ASSUME NEW code, NEW links, NEW c, NEW t, NEW q \in Cells, NEW o, NEW n, NEW e,
           \/ code[c].op = "open" /\ e = (IF t[q] = 0 THEN links[c] ELSE c)
           \/ code[c].op = "close" /\ e = (IF t[q] = 0 THEN c ELSE links[c])
    PROVE  Execute(code, links, Mk(t, q, c, o, n)) = Mk(t, q, e + 1, o, n)
<1> DEFINE m == Mk(t, q, c, o, n)
<1>1. m.pc = c /\ OnTape(m) /\ Current(m) = t[q]
    BY DEF Mk, OnTape, Current
<1>2. Pass(m, e + 1) = Mk(t, q, e + 1, o, n)
    BY PassMk
<1> HIDE DEF m
<1>3. CASE code[c].op = "open"
    <2>1. e = IF t[q] = 0 THEN links[c] ELSE c
        BY <1>3
    <2>2. Execute(code, links, m) = Pass(m, e + 1)
        BY <1>1, <1>3, <2>1 DEF Execute, Pass
    <2> QED
        BY <1>2, <2>2 DEF m
<1>4. CASE code[c].op = "close"
    <2>1. e = IF t[q] = 0 THEN c ELSE links[c]
        BY <1>4
    <2>2. Execute(code, links, m) = Pass(m, e + 1)
        BY <1>1, <1>4, <2>1 DEF Execute, Pass
    <2> QED
        BY <1>2, <2>2 DEF m
<1> QED
    BY <1>3, <1>4

\* A bracket leads behind itself or behind its partner.
JumpsOn(code, links, c, t, q, o, n) ==
    \E e \in {c, links[c]} : Execute(code, links, Mk(t, q, c, o, n)) = Mk(t, q, e + 1, o, n)

LEMMA Jumps ==
    ASSUME NEW code, NEW links, NEW c, NEW t, NEW q \in Cells, NEW o, NEW n, code[c].op \in {"open", "close"}
    PROVE  JumpsOn(code, links, c, t, q, o, n)
<1>1. ASSUME NEW e, code[c].op = "open", e = (IF t[q] = 0 THEN links[c] ELSE c)
      PROVE  Execute(code, links, Mk(t, q, c, o, n)) = Mk(t, q, e + 1, o, n)
    BY <1>1, DoJump
<1>2. ASSUME NEW e, code[c].op = "close", e = (IF t[q] = 0 THEN c ELSE links[c])
      PROVE  Execute(code, links, Mk(t, q, c, o, n)) = Mk(t, q, e + 1, o, n)
    BY <1>2, DoJump
<1> QED
    BY <1>1, <1>2 DEF JumpsOn

\* A program that a Brainfuck machine runs.
PlainInstrs == [op : {"move", "add", "out", "in", "open", "close"}, arg : Int]

Runnable(s, p) == s \in Seq(PlainInstrs) /\ Balanced(s) /\ p = Partners(s)

\* Every instruction of a program that pairs up leaves a machine of the same type.
LEMMA PlainTyped ==
    ASSUME NEW s, NEW p, Runnable(s, p), NEW m \in Machines, m.pc >= 1, ~Halted(s, m)
    PROVE  Execute(s, p, m) \in Machines /\ Execute(s, p, m).pc >= 1
<1> DEFINE t == m.tape
           q == m.ptr
           c == m.pc
           o == m.out
           n == m.in
           r == Execute(s, p, m)
           Good(x) == x \in Machines /\ x.pc >= 1
<1>1. /\ t \in Tapes /\ q \in Int /\ c \in Nat /\ o \in Seq(Byte) /\ n \in Seq(Byte) /\ ~m.failed
      /\ m = Mk(t, q, c, o, n)
    BY MachineIs DEF Halted
<1>2. s \in Seq(PlainInstrs) /\ Balanced(s) /\ p = Partners(s) /\ Len(s) \in Nat /\ DOMAIN s = 1 .. Len(s)
    BY DEF Runnable
<1>3. c \in 1 .. Len(s) /\ s[c] \in PlainInstrs
    BY <1>1, <1>2 DEF Halted
<1>4. r = Execute(s, p, Mk(t, q, c, o, n))
    BY <1>1
<1>0. m \in Machines /\ m.pc = c /\ c >= 1
    OBVIOUS
<1> SUFFICES Good(r)
    OBVIOUS
<1> HIDE DEF t, q, c, o, n, r
<1>5. ASSUME NEW u \in Tapes, NEW x \in Int, NEW e \in Nat, e >= 1, NEW v \in Seq(Byte), NEW w \in Seq(Byte)
      PROVE  Good(Mk(u, x, e, v, w))
    BY <1>5, MkIs
<1>6. s[c].op \in {"move", "add", "out", "in", "open", "close"} /\ s[c].arg \in Int /\ c + 1 \in Nat /\ c + 1 >= 1
    BY <1>1, <1>3 DEF PlainInstrs
<1> HIDE DEF Good
<1>7. CASE s[c].op = "move"
    BY <1>1, <1>4, <1>5, <1>6, <1>7, DoMove
<1>8. CASE s[c].op # "move" /\ q \notin Cells
    <2>1. r = Fail(Mk(t, q, c, o, n))
        BY <1>4, <1>8, DoFails
    <2>2. Good(Fail(m))
        BY <1>0, FailIs DEF Good
    <2> QED
        BY <1>1, <2>1, <2>2
<1>9. CASE s[c].op = "add" /\ q \in Cells
    <2>1. r = Mk(Put(t, q, (t[q] + s[c].arg) % Mod), q, c + 1, o, n)
        BY <1>4, <1>9, DoAdd
    <2>2. t[q] + s[c].arg \in Int
        BY <1>1, <1>6, <1>9, CellByte
    <2>3. Put(t, q, (t[q] + s[c].arg) % Mod) \in Tapes
        BY <1>1, <1>9, <2>2, ModByte, PutIs
    <2> QED
        BY <1>1, <1>5, <1>6, <2>1, <2>3
<1>10. CASE s[c].op = "out" /\ q \in Cells
    <2>1. r = Mk(t, q, c + 1, Append(o, t[q]), n)
        BY <1>4, <1>10, DoOut
    <2>2. Append(o, t[q]) \in Seq(Byte)
        BY <1>1, <1>10, CellByte
    <2> QED
        BY <1>1, <1>5, <1>6, <2>1, <2>2
<1>11. CASE s[c].op = "in" /\ q \in Cells
    <2>1. /\ r = Mk(ReadTape(t, q, n), q, c + 1, o, ReadRest(n))
          /\ ReadTape(t, q, n) \in Tapes /\ ReadRest(n) \in Seq(Byte)
        BY <1>1, <1>4, <1>11, DoRead
    <2> QED
        BY <1>1, <1>5, <1>6, <2>1
<1>12. CASE s[c].op \in {"open", "close"} /\ q \in Cells
    <2>1. p[c] \in Nat
        <3>1. \E e \in Nat : Closes(s, c, e) \/ Closes(s, e, c)
            <4>1. CASE s[c].op = "open"
                <5>1. c \in Brackets(s, "open")
                    BY <1>2, <1>3, <4>1 DEF Brackets
                <5> QED
                    BY <1>2, <5>1, OpenIsClosed DEF Brackets
            <4>2. CASE s[c].op = "close"
                <5>1. c \in Brackets(s, "close")
                    BY <1>2, <1>3, <4>2 DEF Brackets
                <5> QED
                    BY <1>2, <5>1, CloseIsOpened DEF Brackets
            <4> QED
                BY <1>12, <4>1, <4>2
        <3> QED
            BY <1>2, <3>1, PartnersClose
    <2>2. JumpsOn(s, p, c, t, q, o, n)
        BY <1>12, Jumps
    <2>3. PICK e \in {c, p[c]} : r = Mk(t, q, e + 1, o, n)
        BY <1>4, <2>2 DEF JumpsOn
    <2>4. e + 1 \in Nat /\ e + 1 >= 1
        BY <1>1, <2>1
    <2> QED
        BY <1>1, <1>5, <2>3, <2>4
<1> QED
    BY <1>6, <1>7, <1>8, <1>9, <1>10, <1>11, <1>12

LEMMA BootIs ==
    ASSUME NEW i \in Seq(Byte)
    PROVE  Boot(i) = Mk([c \in Cells |-> 0], 0, 1, <<>>, i) /\ Boot(i) \in Machines
<1> DEFINE t == [c \in Cells |-> 0]
           o == <<>>
<1>1. t \in Tapes /\ o \in Seq(Byte) /\ 0 \in Int /\ 1 \in Nat
    BY ModByte DEF Tapes
<1>2. Boot(i) = Mk(t, 0, 1, o, i)
    BY DEF Boot, Mk
<1>3. Boot(i) = Mk([c \in Cells |-> 0], 0, 1, <<>>, i)
    BY <1>2
<1> HIDE DEF t, o
<1>4. Mk(t, 0, 1, o, i) \in Machines
    BY <1>1, MkIs
<1> QED
    BY <1>2, <1>3, <1>4
=============================================================================
