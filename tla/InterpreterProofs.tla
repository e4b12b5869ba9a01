------------------------- MODULE InterpreterProofs -------------------------
(***************************************************************************)
(* The interpreter runs a program as it is written, whatever compileBF     *)
(* replaced in it: instruction by instruction, the characters an           *)
(* instruction stands for take the Brainfuck machine to where the one      *)
(* instruction takes the interpreter.  That is shown for every program,    *)
(* every input, every byte modulus and every length of the tape.           *)
(***************************************************************************)
EXTENDS InterpreterCompile

-----------------------------------------------------------------------------
(* Where a machine gets to.                                                  *)

\* The machine m runs to n, and until it is n it stands at the characters S: m is in
\* every set that has n, and whatever steps into the set from there.
Reaches(s, p, S, m, n) ==
    \A Q \in SUBSET Machines :
        /\ n \in Q
        /\ \A x \in Machines :
            x.pc \in S /\ ~Halted(s, x) /\ Execute(s, p, x) \in Q => x \in Q
        => m \in Q

LEMMA ReachRefl ==
    ASSUME NEW s, NEW p, NEW S, NEW m
    PROVE  Reaches(s, p, S, m, m)
BY DEF Reaches

LEMMA ReachStep ==
    ASSUME NEW s, NEW p, NEW S, NEW m \in Machines, NEW n,
           m.pc \in S, ~Halted(s, m), Reaches(s, p, S, Execute(s, p, m), n)
    PROVE  Reaches(s, p, S, m, n)
<1> SUFFICES ASSUME NEW Q \in SUBSET Machines, n \in Q,
                    \A x \in Machines :
                        x.pc \in S /\ ~Halted(s, x) /\ Execute(s, p, x) \in Q => x \in Q
             PROVE  m \in Q
    BY DEF Reaches
<1>1. Execute(s, p, m) \in Q
    BY DEF Reaches
<1> QED
    BY <1>1

LEMMA ReachTrans ==
    ASSUME NEW s, NEW p, NEW S, NEW m, NEW n, NEW r, Reaches(s, p, S, m, n), Reaches(s, p, S, n, r)
    PROVE  Reaches(s, p, S, m, r)
<1> SUFFICES ASSUME NEW Q \in SUBSET Machines, r \in Q,
                    \A x \in Machines :
                        x.pc \in S /\ ~Halted(s, x) /\ Execute(s, p, x) \in Q => x \in Q
             PROVE  m \in Q
    BY DEF Reaches
<1>1. n \in Q
    BY DEF Reaches
<1> QED
    BY <1>1 DEF Reaches

LEMMA ReachWider ==
    ASSUME NEW s, NEW p, NEW S, NEW T, NEW m, NEW n, Reaches(s, p, S, m, n), S \subseteq T
    PROVE  Reaches(s, p, T, m, n)
<1> SUFFICES ASSUME NEW Q \in SUBSET Machines, n \in Q,
                    \A x \in Machines :
                        x.pc \in T /\ ~Halted(s, x) /\ Execute(s, p, x) \in Q => x \in Q
             PROVE  m \in Q
    BY DEF Reaches
<1>1. \A x \in Machines : x.pc \in S /\ ~Halted(s, x) /\ Execute(s, p, x) \in Q => x \in Q
    OBVIOUS
<1> QED
    BY <1>1 DEF Reaches

\* It has arrived, or its next step is towards n.
LEMMA ReachUnfold ==
    ASSUME NEW s, NEW p, NEW S, NEW m, NEW n \in Machines, Reaches(s, p, S, m, n)
    PROVE  \/ m = n
           \/ /\ m \in Machines /\ m.pc \in S /\ ~Halted(s, m)
              /\ Reaches(s, p, S, Execute(s, p, m), n)
<1> DEFINE Q == {x \in Machines :
                    \/ x = n
                    \/ x.pc \in S /\ ~Halted(s, x) /\ Reaches(s, p, S, Execute(s, p, x), n)}
<1>1. n \in Q /\ Q \in SUBSET Machines
    OBVIOUS
<1>2. ASSUME NEW x \in Machines, x.pc \in S, ~Halted(s, x), Execute(s, p, x) \in Q
      PROVE  x \in Q
    <2> DEFINE y == Execute(s, p, x)
    <2>1. /\ y \in Machines
          /\ y = n \/ (y.pc \in S /\ ~Halted(s, y) /\ Reaches(s, p, S, Execute(s, p, y), n))
        BY <1>2
    <2> HIDE DEF y
    <2>2. Reaches(s, p, S, y, n)
        BY <2>1, ReachRefl, ReachStep
    <2> QED
        BY <1>2, <2>2 DEF y
<1> HIDE DEF Q
<1>3. m \in Q
    BY <1>1, <1>2 DEF Reaches
<1> QED
    BY <1>3 DEF Q

-----------------------------------------------------------------------------
(* What the characters of a program do.                                      *)

\* One more time is one more.
LEMMA OneMore ==
    ASSUME NEW x \in Int, NEW k \in Int, NEW d \in Int
    PROVE  k * d \in Int /\ x + k * d \in Int /\ x + k * d + d = x + (k + 1) * d /\ x + 0 * d = x
OBVIOUS

\* A program whose brackets pair up, with its bracket table.
Program(s, p) == s \in Seq(Characters) /\ Balanced(s) /\ p = Partners(s)

\* A machine at the character c of the program, which is one of S.
Ready(s, S, t, q, c, o, i) ==
    /\ c \in 1 .. Len(s) /\ c \in S
    /\ t \in Tapes /\ q \in Int /\ o \in Seq(Byte) /\ i \in Seq(Byte)

LEMMA ReachOne ==
    ASSUME NEW s \in Seq(Characters), NEW p, NEW S, NEW t, NEW q, NEW c, NEW o, NEW i,
           Ready(s, S, t, q, c, o, i), NEW n, n = Execute(s, p, Mk(t, q, c, o, i))
    PROVE  Reaches(s, p, S, Mk(t, q, c, o, i), n)
<1> DEFINE m == Mk(t, q, c, o, i)
<1>1. Len(s) \in Nat /\ c \in Nat /\ c <= Len(s)
    BY DEF Ready
<1>a. t \in Tapes /\ q \in Int /\ c \in Nat /\ o \in Seq(Byte) /\ i \in Seq(Byte)
    BY <1>1 DEF Ready
<1>2. m \in Machines /\ m.pc = c /\ ~m.failed
    BY ONLY <1>a, MkIs
<1>3. ~Halted(s, m)
    BY <1>1, <1>2 DEF Halted
<1> HIDE DEF m
<1>4. Reaches(s, p, S, Execute(s, p, m), n)
    BY ReachRefl DEF m
<1> QED
    BY <1>2, <1>3, <1>4, ReachStep DEF m, Ready

LEMMA CharMove ==
    ASSUME NEW s \in Seq(Characters), NEW p, NEW S, NEW t, NEW q, NEW c, NEW o, NEW i,
           Ready(s, S, t, q, c, o, i), s[c].op = "move"
    PROVE  Reaches(s, p, S, Mk(t, q, c, o, i), Mk(t, q + s[c].arg, c + 1, o, i))
<1>1. Execute(s, p, Mk(t, q, c, o, i)) = Mk(t, q + s[c].arg, c + 1, o, i)
    BY DoMove
<1> QED
    BY <1>1, ReachOne

LEMMA CharAdd ==
    ASSUME NEW s \in Seq(Characters), NEW p, NEW S, NEW t, NEW q \in Cells, NEW c, NEW o, NEW i,
           Ready(s, S, t, q, c, o, i), s[c].op = "add"
    PROVE  Reaches(s, p, S, Mk(t, q, c, o, i), Mk(Put(t, q, (t[q] + s[c].arg) % Mod), q, c + 1, o, i))
<1>1. Execute(s, p, Mk(t, q, c, o, i)) = Mk(Put(t, q, (t[q] + s[c].arg) % Mod), q, c + 1, o, i)
    BY DoAdd
<1> QED
    BY <1>1, ReachOne

\* An opening bracket is passed when the cell is not 0; otherwise the loop is skipped.
LEMMA CharOpen ==
    ASSUME NEW s, NEW p, Program(s, p), NEW S, NEW t, NEW q \in Cells, NEW c, NEW o, NEW i,
           Ready(s, S, t, q, c, o, i), NEW e, Closes(s, c, e)
    PROVE  Reaches(s, p, S, Mk(t, q, c, o, i), Mk(t, q, (IF t[q] = 0 THEN e ELSE c) + 1, o, i))
<1>1. s \in Seq(Characters) /\ Balanced(s) /\ p = Partners(s) /\ Len(s) \in Nat /\ DOMAIN s = 1 .. Len(s)
    BY DEF Program
<1>2. p[c] = e
    BY <1>1, PartnersClose
<1>3. s[c].op = "open"
    BY DEF Closes, Brackets
<1>4. Execute(s, p, Mk(t, q, c, o, i)) = Mk(t, q, (IF t[q] = 0 THEN e ELSE c) + 1, o, i)
    BY <1>2, <1>3, DoOpen
<1> QED
    BY <1>1, <1>4, ReachOne

\* A closing bracket is passed when the cell is 0; otherwise the loop is entered again.
LEMMA CharClose ==
    ASSUME NEW s, NEW p, Program(s, p), NEW S, NEW t, NEW q \in Cells, NEW c, NEW o, NEW i,
           Ready(s, S, t, q, c, o, i), NEW b, Closes(s, b, c)
    PROVE  Reaches(s, p, S, Mk(t, q, c, o, i), Mk(t, q, (IF t[q] = 0 THEN c ELSE b) + 1, o, i))
<1>1. s \in Seq(Characters) /\ Balanced(s) /\ p = Partners(s) /\ Len(s) \in Nat /\ DOMAIN s = 1 .. Len(s)
    BY DEF Program
<1>2. p[c] = b
    BY <1>1, PartnersClose
<1>3. s[c].op = "close"
    BY DEF Closes, Brackets
<1>4. Execute(s, p, Mk(t, q, c, o, i)) = Mk(t, q, (IF t[q] = 0 THEN c ELSE b) + 1, o, i)
    BY <1>2, <1>3, DoClose
<1> QED
    BY <1>1, <1>4, ReachOne

\* A run of the same move.
LEMMA CharMoves ==
    ASSUME NEW s \in Seq(Characters), NEW p, NEW S, NEW t \in Tapes, NEW q \in Int, NEW o \in Seq(Byte),
           NEW i \in Seq(Byte), NEW a \in 1 .. Len(s), NEW b \in Nat, a <= b, b <= Len(s) + 1,
           a .. (b - 1) \subseteq S, NEW d \in Int,
           \A c \in a .. (b - 1) : s[c].op = "move" /\ s[c].arg = d
    PROVE  Reaches(s, p, S, Mk(t, q, a, o, i), Mk(t, q + (b - a) * d, b, o, i))
<1> DEFINE Here(k) == Mk(t, q + k * d, a + k, o, i)
           G == {k \in 0 .. (b - a) : Reaches(s, p, S, Here(0), Here(k))}
<1>0. Len(s) \in Nat /\ b - a \in Nat /\ a \in Int
    OBVIOUS
<1>1. 0 \in G
    BY <1>0, ReachRefl
<1>2. ASSUME NEW k \in 0 .. (b - a - 1), k \in G PROVE k + 1 \in G
    <2>1. /\ a + k \in a .. (b - 1) /\ a + k \in 1 .. Len(s) /\ q + k * d \in Int /\ k + 1 \in 0 .. (b - a)
          /\ a + k + 1 = a + (k + 1) /\ q + k * d + d = q + (k + 1) * d
        BY <1>0
    <2>2. s[a + k].op = "move" /\ s[a + k].arg = d /\ a + k \in S
        BY <2>1
    <2>3. Ready(s, S, t, q + k * d, a + k, o, i)
        BY <2>1, <2>2 DEF Ready
    <2>4. Reaches(s, p, S, Mk(t, q + k * d, a + k, o, i), Mk(t, q + k * d + d, a + k + 1, o, i))
        BY <2>2, <2>3, CharMove
    <2>5. Reaches(s, p, S, Here(k), Here(k + 1))
        BY <2>1, <2>4
    <2>6. Reaches(s, p, S, Here(0), Here(k))
        BY <1>2
    <2> HIDE DEF Here
    <2>7. Reaches(s, p, S, Here(0), Here(k + 1))
        BY <2>5, <2>6, ReachTrans
    <2> QED
        BY <2>1, <2>7
<1> HIDE DEF G
<1>3. b - a \in G
    <2>1. 0 .. (b - a) \subseteq G
        BY <1>0, <1>1, <1>2, BoundedInd
    <2> QED
        BY <1>0, <2>1
<1>4. Here(0) = Mk(t, q, a, o, i) /\ Here(b - a) = Mk(t, q + (b - a) * d, b, o, i)
    <2>1. q + 0 * d = q /\ a + 0 = a /\ a + (b - a) = b
        BY <1>0
    <2> QED
        BY <2>1
<1> QED
    BY <1>3, <1>4 DEF G

\* A run of the same addition.
LEMMA CharAdds ==
    ASSUME NEW s \in Seq(Characters), NEW p, NEW S, NEW t \in Tapes, NEW q \in Cells, NEW o \in Seq(Byte),
           NEW i \in Seq(Byte), NEW a \in 1 .. Len(s), NEW b \in Nat, a <= b, b <= Len(s) + 1,
           a .. (b - 1) \subseteq S, NEW d \in Int,
           \A c \in a .. (b - 1) : s[c].op = "add" /\ s[c].arg = d
    PROVE  Reaches(s, p, S, Mk(t, q, a, o, i), Mk(Put(t, q, (t[q] + (b - a) * d) % Mod), q, b, o, i))
<1> DEFINE V(k) == (t[q] + k * d) % Mod
           Here(k) == Mk(Put(t, q, V(k)), q, a + k, o, i)
           G == {k \in 0 .. (b - a) : Reaches(s, p, S, Here(0), Here(k))}
<1>0. Len(s) \in Nat /\ b - a \in Nat /\ a \in Int /\ q \in Int /\ t[q] \in Byte /\ t[q] \in Int
    BY CellByte DEF Cells
<1>a. ASSUME NEW k \in Int PROVE k * d \in Int /\ t[q] + k * d \in Int /\ V(k) \in Byte
    <2>1. k * d \in Int /\ t[q] + k * d \in Int
        BY <1>0, OneMore
    <2> QED
        BY <2>1, ModByte
<1>b. \A k \in Int : (V(k) + d) % Mod = V(k + 1)
    <2> TAKE k \in Int
    <2>1. t[q] + k * d + d = t[q] + (k + 1) * d /\ t[q] + k * d \in Int
        BY <1>0, OneMore
    <2> DEFINE x == t[q] + k * d
    <2>2. x \in Int /\ x + d = t[q] + (k + 1) * d
        BY <2>1
    <2> HIDE DEF x
    <2>3. ((x % Mod) + d) % Mod = (x + d) % Mod
        BY <2>2, ModAdd
    <2> QED
        BY <2>2, <2>3 DEF x
<1> HIDE DEF V
<1>1. 0 \in G
    BY <1>0, ReachRefl
<1>2. ASSUME NEW k \in 0 .. (b - a - 1), k \in G PROVE k + 1 \in G
    <2>1. /\ a + k \in a .. (b - 1) /\ a + k \in 1 .. Len(s) /\ k + 1 \in 0 .. (b - a)
          /\ a + k + 1 = a + (k + 1) /\ k \in Int /\ k + 1 \in Int
        BY <1>0
    <2>2. s[a + k].op = "add" /\ s[a + k].arg = d /\ a + k \in S
        BY <2>1
    <2> DEFINE u == Put(t, q, V(k))
    <2>3. u \in Tapes /\ u[q] = V(k) /\ Put(u, q, V(k + 1)) = Put(t, q, V(k + 1))
        <3>1. V(k) \in Byte /\ V(k + 1) \in Byte
            BY <1>a, <2>1
        <3> QED
            BY <3>1, PutIs
    <2> HIDE DEF u
    <2>4. Ready(s, S, u, q, a + k, o, i)
        BY <1>0, <2>1, <2>2, <2>3 DEF Ready
    <2>5. Reaches(s, p, S, Mk(u, q, a + k, o, i), Mk(Put(u, q, (u[q] + d) % Mod), q, a + k + 1, o, i))
        BY <2>2, <2>4, CharAdd
    <2>6. (u[q] + d) % Mod = V(k + 1)
        BY <1>b, <2>1, <2>3
    <2>7. Reaches(s, p, S, Here(k), Here(k + 1))
        BY <2>1, <2>3, <2>5, <2>6 DEF u
    <2>8. Reaches(s, p, S, Here(0), Here(k))
        BY <1>2
    <2> HIDE DEF Here
    <2>9. Reaches(s, p, S, Here(0), Here(k + 1))
        BY <2>7, <2>8, ReachTrans
    <2> QED
        BY <2>1, <2>9
<1> HIDE DEF G
<1>3. b - a \in G
    <2>1. 0 .. (b - a) \subseteq G
        BY <1>0, <1>1, <1>2, BoundedInd
    <2> QED
        BY <1>0, <2>1
<1>4. Here(0) = Mk(t, q, a, o, i) /\ Here(b - a) = Mk(Put(t, q, V(b - a)), q, b, o, i)
    <2>1. t[q] + 0 * d = t[q] /\ a + 0 = a /\ a + (b - a) = b
        BY <1>0
    <2>2. V(0) = t[q]
        BY <1>0, <2>1, ModSmall DEF V
    <2>3. Put(t, q, V(0)) = t
        BY <1>0, <2>2, PutIs
    <2> QED
        BY <2>1, <2>3
<1> QED
    BY <1>3, <1>4 DEF G, V

-----------------------------------------------------------------------------
(* What the instructions do, as the characters they are parsed from.         *)

\* A program with its instructions; the i-th is written from the character from[i] on.
Coded(s, p, lk, from) ==
    /\ Program(s, p) /\ Linked(lk) /\ Tiles(lk, s, from)
    /\ \A i \in 1 .. Len(lk) : Written(lk[i], s, from[i], from[i + 1])

\* The characters of the instructions from a up to, but not including, b.
Span(from, a, b) == from[a] .. (from[b] - 1)

LEMMA CodedIs ==
    ASSUME NEW s, NEW p, NEW lk, NEW from, Coded(s, p, lk, from)
    PROVE  /\ s \in Seq(Characters) /\ Len(s) \in Nat /\ DOMAIN s = 1 .. Len(s)
           /\ lk \in Seq(Instrs) /\ Len(lk) \in Nat /\ DOMAIN lk = 1 .. Len(lk)
           /\ from \in [1 .. (Len(lk) + 1) -> 1 .. (Len(s) + 1)]
           /\ \A k, l : Closes(lk, k, l) => Closes(s, from[k], from[l])
           /\ \A l \in 1 .. (Len(lk) + 1) : \A k \in 1 .. l : from[k] <= from[l]
<1>1. /\ s \in Seq(Characters) /\ Len(s) \in Nat /\ DOMAIN s = 1 .. Len(s)
      /\ lk \in Seq(Instrs) /\ Len(lk) \in Nat /\ DOMAIN lk = 1 .. Len(lk) /\ Tiles(lk, s, from)
    BY DEF Coded, Program, Linked
<1>2. /\ from \in [1 .. (Len(lk) + 1) -> 1 .. (Len(s) + 1)]
      /\ from[1] = 1 /\ \A k \in 1 .. Len(lk) : from[k] <= from[k + 1]
    BY <1>1 DEF Tiles
<1>3. \A k, l : Closes(lk, k, l) => Closes(s, from[k], from[l])
    BY <1>1, TilesPairUp
<1>4. \A l \in 1 .. (Len(lk) + 1) : \A k \in 1 .. l : from[k] <= from[l]
    BY <1>1, <1>2, TilesInOrder
<1> QED
    BY <1>1, <1>2, <1>3, <1>4

\* Where an instruction is written.
LEMMA PlaceIs ==
    ASSUME NEW s, NEW p, NEW lk, NEW from, Coded(s, p, lk, from), NEW i \in 1 .. Len(lk)
    PROVE  /\ from[i] \in 1 .. Len(s) /\ from[i] \in Int /\ from[i + 1] \in Nat
           /\ from[i] < from[i + 1] /\ from[i + 1] <= Len(s) + 1
           /\ lk[i] \in Instrs /\ Written(lk[i], s, from[i], from[i + 1])
<1>1. i \in 1 .. (Len(lk) + 1) /\ i + 1 \in 1 .. (Len(lk) + 1)
    BY CodedIs
<1>a. from \in [1 .. (Len(lk) + 1) -> 1 .. (Len(s) + 1)] /\ Len(s) \in Nat
    BY CodedIs
<1>2. from[i] \in 1 .. (Len(s) + 1) /\ from[i + 1] \in 1 .. (Len(s) + 1)
    BY ONLY <1>1, <1>a
<1>3. Written(lk[i], s, from[i], from[i + 1])
    BY DEF Coded
<1>4. from[i] < from[i + 1] /\ from[i + 1] <= Len(s) + 1
    BY <1>3 DEF Written
<1>5. lk[i] \in Instrs
    BY CodedIs
<1>6. Len(s) \in Nat
    BY <1>a
<1> QED
    BY ONLY <1>2, <1>3, <1>4, <1>5, <1>6

LEMMA InSpan ==
    ASSUME NEW s, NEW p, NEW lk, NEW from, Coded(s, p, lk, from), NEW i \in 1 .. Len(lk),
           NEW a \in 1 .. i, NEW b \in (i + 1) .. (Len(lk) + 1)
    PROVE  Span(from, i, i + 1) \subseteq Span(from, a, b) /\ from[i] \in Span(from, a, b)
<1>1. /\ i \in 1 .. (Len(lk) + 1) /\ i + 1 \in 1 .. (Len(lk) + 1) /\ Len(lk) \in Nat
      /\ a \in 1 .. (Len(lk) + 1) /\ b \in 1 .. (Len(lk) + 1) /\ i + 1 \in 1 .. b
    BY CodedIs
<1>2. from[a] <= from[i] /\ from[i + 1] <= from[b]
    <2>1. \A l \in 1 .. (Len(lk) + 1) : \A k \in 1 .. l : from[k] <= from[l]
        BY CodedIs
    <2> QED
        BY ONLY <1>1, <2>1, a \in 1 .. i
<1>3. from[a] \in Int /\ from[b] \in Int
    BY <1>1, CodedIs
<1>4. from[i] \in Int /\ from[i + 1] \in Int /\ from[i] < from[i + 1]
    BY PlaceIs
<1>5. \A w, x, y, z \in Int : w <= x /\ x < y /\ y <= z => x \in w .. (z - 1) /\ x .. (y - 1) \subseteq w .. (z - 1)
    OBVIOUS
<1> DEFINE w == from[a]
           x == from[i]
           y == from[i + 1]
           z == from[b]
<1>6. w \in Int /\ x \in Int /\ y \in Int /\ z \in Int /\ w <= x /\ x < y /\ y <= z
    BY ONLY <1>2, <1>3, <1>4
<1> HIDE DEF w, x, y, z
<1>7. x \in w .. (z - 1) /\ x .. (y - 1) \subseteq w .. (z - 1)
    BY ONLY <1>5, <1>6
<1> QED
    BY <1>7 DEF w, x, y, z, Span

LEMMA OpMove ==
    ASSUME NEW s, NEW p, NEW lk, NEW from, Coded(s, p, lk, from), NEW i \in 1 .. Len(lk),
           lk[i].op = "move", NEW S, Span(from, i, i + 1) \subseteq S,
           NEW t \in Tapes, NEW q \in Int, NEW o \in Seq(Byte), NEW n \in Seq(Byte)
    PROVE  Reaches(s, p, S, Mk(t, q, from[i], o, n), Mk(t, q + lk[i].arg, from[i + 1], o, n))
<1> DEFINE a == from[i]
           b == from[i + 1]
           d == s[a].arg
<1>1. /\ s \in Seq(Characters) /\ a \in 1 .. Len(s) /\ b \in Nat /\ a <= b /\ b <= Len(s) + 1
      /\ Written(lk[i], s, a, b)
    <2>1. s \in Seq(Characters)
        BY CodedIs
    <2>2. a \in 1 .. Len(s) /\ b \in Nat /\ a < b /\ b <= Len(s) + 1 /\ Written(lk[i], s, a, b)
        BY PlaceIs
    <2> QED
        BY ONLY <2>1, <2>2
<1>2. a .. (b - 1) \subseteq S
    BY DEF Span
<1> HIDE DEF a, b
<1>3. /\ \A c \in a .. (b - 1) : s[c] = s[a]
      /\ s[a].op = "move" /\ d \in {1, -1} /\ lk[i].arg = (b - a) * d
    BY <1>1 DEF Written
<1>4. d \in Int /\ \A c \in a .. (b - 1) : s[c].op = "move" /\ s[c].arg = d
    BY <1>3
<1> HIDE DEF d
<1>5. Reaches(s, p, S, Mk(t, q, a, o, n), Mk(t, q + (b - a) * d, b, o, n))
    BY <1>1, <1>2, <1>4, CharMoves
<1> QED
    BY <1>3, <1>5 DEF a, b

LEMMA OpAdd ==
    ASSUME NEW s, NEW p, NEW lk, NEW from, Coded(s, p, lk, from), NEW i \in 1 .. Len(lk),
           lk[i].op = "add", NEW S, Span(from, i, i + 1) \subseteq S,
           NEW t \in Tapes, NEW q \in Cells, NEW o \in Seq(Byte), NEW n \in Seq(Byte)
    PROVE  Reaches(s, p, S, Mk(t, q, from[i], o, n),
                   Mk(Put(t, q, (t[q] + lk[i].arg) % Mod), q, from[i + 1], o, n))
<1> DEFINE a == from[i]
           b == from[i + 1]
           d == s[a].arg
<1>1. /\ s \in Seq(Characters) /\ a \in 1 .. Len(s) /\ b \in Nat /\ a <= b /\ b <= Len(s) + 1
      /\ Written(lk[i], s, a, b)
    <2>1. s \in Seq(Characters)
        BY CodedIs
    <2>2. a \in 1 .. Len(s) /\ b \in Nat /\ a < b /\ b <= Len(s) + 1 /\ Written(lk[i], s, a, b)
        BY PlaceIs
    <2> QED
        BY ONLY <2>1, <2>2
<1>2. a .. (b - 1) \subseteq S
    BY DEF Span
<1> HIDE DEF a, b
<1>3. /\ \A c \in a .. (b - 1) : s[c] = s[a]
      /\ s[a].op = "add" /\ d \in {1, -1} /\ lk[i].arg = (b - a) * d
    BY <1>1 DEF Written
<1>4. d \in Int /\ \A c \in a .. (b - 1) : s[c].op = "add" /\ s[c].arg = d
    BY <1>3
<1> HIDE DEF d
<1>5. Reaches(s, p, S, Mk(t, q, a, o, n), Mk(Put(t, q, (t[q] + (b - a) * d) % Mod), q, b, o, n))
    BY <1>1, <1>2, <1>4, CharAdds
<1> QED
    BY <1>3, <1>5 DEF a, b

LEMMA OpOpen ==
    ASSUME NEW s, NEW p, NEW lk, NEW from, Coded(s, p, lk, from), NEW i \in 1 .. Len(lk),
           lk[i].op = "open", NEW S, Span(from, i, i + 1) \subseteq S,
           NEW t \in Tapes, NEW q \in Cells, NEW o \in Seq(Byte), NEW n \in Seq(Byte)
    PROVE  /\ lk[i].arg \in (i + 1) .. Len(lk) /\ lk[lk[i].arg].op = "close"
           /\ Reaches(s, p, S, Mk(t, q, from[i], o, n),
                      Mk(t, q, from[(IF t[q] = 0 THEN lk[i].arg ELSE i) + 1], o, n))
<1> DEFINE z == lk[i].arg
           a == from[i]
           e == from[z]
<1>1. Program(s, p) /\ Linked(lk) /\ i \in Brackets(lk, "open")
    BY CodedIs DEF Coded, Brackets
<1>2. Closes(lk, i, z)
    BY <1>1 DEF Linked
<1>3. z \in (i + 1) .. Len(lk) /\ z \in 1 .. Len(lk) /\ lk[z].op = "close"
    BY <1>2, CodedIs DEF Closes, Brackets
<1>4. Closes(s, a, e)
    BY <1>2, CodedIs
<1>5. /\ a \in 1 .. Len(s) /\ a \in S /\ from[i + 1] = a + 1
    <2>1. /\ a \in 1 .. Len(s) /\ a \in Int /\ a < from[i + 1] /\ from[i + 1] \in Nat
          /\ Written(lk[i], s, a, from[i + 1])
        BY PlaceIs
    <2>2. a \in Span(from, i, i + 1)
        BY <2>1 DEF Span
    <2> HIDE DEF a
    <2>3. from[i + 1] = a + 1
        BY <2>1 DEF Written
    <2> QED
        BY <2>1, <2>2, <2>3
<1>6. from[z + 1] = e + 1
    <2>1. Written(lk[z], s, e, from[z + 1])
        BY <1>3, PlaceIs
    <2> HIDE DEF e, z
    <2> QED
        BY <1>3, <2>1 DEF Written
<1> HIDE DEF a, e, z
<1>7. Ready(s, S, t, q, a, o, n)
    BY <1>5 DEF Ready, Cells
<1>8. Reaches(s, p, S, Mk(t, q, a, o, n), Mk(t, q, (IF t[q] = 0 THEN e ELSE a) + 1, o, n))
    BY <1>1, <1>4, <1>7, CharOpen
<1>9. (IF t[q] = 0 THEN e ELSE a) + 1 = from[(IF t[q] = 0 THEN z ELSE i) + 1]
    BY <1>5, <1>6
<1>10. Reaches(s, p, S, Mk(t, q, a, o, n), Mk(t, q, from[(IF t[q] = 0 THEN z ELSE i) + 1], o, n))
    BY <1>8, <1>9
<1> QED
    BY <1>3, <1>10 DEF z, a

LEMMA OpClose ==
    ASSUME NEW s, NEW p, NEW lk, NEW from, Coded(s, p, lk, from), NEW i \in 1 .. Len(lk),
           lk[i].op = "close", NEW S, Span(from, i, i + 1) \subseteq S,
           NEW t \in Tapes, NEW q \in Cells, NEW o \in Seq(Byte), NEW n \in Seq(Byte)
    PROVE  /\ lk[i].arg \in 1 .. (i - 1) /\ lk[lk[i].arg].op = "open"
           /\ Reaches(s, p, S, Mk(t, q, from[i], o, n),
                      Mk(t, q, from[(IF t[q] = 0 THEN i ELSE lk[i].arg) + 1], o, n))
<1> DEFINE z == lk[i].arg
           a == from[i]
           e == from[z]
<1>1. Program(s, p) /\ Linked(lk) /\ i \in Brackets(lk, "close")
    BY CodedIs DEF Coded, Brackets
<1>2. Closes(lk, z, i)
    BY <1>1 DEF Linked
<1>3. z \in 1 .. (i - 1) /\ z \in 1 .. Len(lk) /\ lk[z].op = "open"
    BY <1>2, CodedIs DEF Closes, Brackets
<1>4. Closes(s, e, a)
    BY <1>2, CodedIs
<1>5. /\ a \in 1 .. Len(s) /\ a \in S /\ from[i + 1] = a + 1
    <2>1. /\ a \in 1 .. Len(s) /\ a \in Int /\ a < from[i + 1] /\ from[i + 1] \in Nat
          /\ Written(lk[i], s, a, from[i + 1])
        BY PlaceIs
    <2>2. a \in Span(from, i, i + 1)
        BY <2>1 DEF Span
    <2> HIDE DEF a
    <2>3. from[i + 1] = a + 1
        BY <2>1 DEF Written
    <2> QED
        BY <2>1, <2>2, <2>3
<1>6. from[z + 1] = e + 1
    <2>1. Written(lk[z], s, e, from[z + 1])
        BY <1>3, PlaceIs
    <2> HIDE DEF e, z
    <2> QED
        BY <1>3, <2>1 DEF Written
<1> HIDE DEF a, e, z
<1>7. Ready(s, S, t, q, a, o, n)
    BY <1>5 DEF Ready, Cells
<1>8. Reaches(s, p, S, Mk(t, q, a, o, n), Mk(t, q, (IF t[q] = 0 THEN a ELSE e) + 1, o, n))
    BY <1>1, <1>4, <1>7, CharClose
<1>9. (IF t[q] = 0 THEN a ELSE e) + 1 = from[(IF t[q] = 0 THEN i ELSE z) + 1]
    BY <1>5, <1>6
<1>10. Reaches(s, p, S, Mk(t, q, a, o, n), Mk(t, q, from[(IF t[q] = 0 THEN i ELSE z) + 1], o, n))
    BY <1>8, <1>9
<1> QED
    BY <1>3, <1>10 DEF z, a

\* The brackets of a loop know each other.
LEMMA PartnerOf ==
    ASSUME NEW s, NEW p, NEW lk, NEW from, Coded(s, p, lk, from), NEW i \in 1 .. Len(lk),
           lk[i].op = "open", NEW z, z = lk[i].arg
    PROVE  z \in (i + 1) .. Len(lk) /\ lk[z].op = "close" /\ lk[z].arg = i
<1>1. i \in Brackets(lk, "open") /\ Linked(lk) /\ Len(lk) \in Nat /\ DOMAIN lk = 1 .. Len(lk)
    BY CodedIs DEF Coded, Brackets
<1>2. Closes(lk, i, z)
    BY <1>1 DEF Linked
<1>3. z \in (i + 1) .. Len(lk) /\ lk[z].op = "close" /\ z \in Brackets(lk, "close")
    BY <1>1, <1>2 DEF Closes, Brackets
<1>4. Closes(lk, lk[z].arg, z)
    BY <1>1, <1>3 DEF Linked
<1>5. lk[z].arg = i
    BY <1>1, <1>2, <1>4, ClosesOnce
<1> QED
    BY <1>3, <1>5

\* A loop that only counts its cell down, or up, leaves it at 0.
LEMMA ClearLoop ==
    ASSUME NEW s, NEW p, NEW lk, NEW from, Coded(s, p, lk, from), NEW i \in 1 .. Len(lk),
           lk[i].op = "open", IsClearLoop(lk, i), NEW S, Span(from, i, i + 3) \subseteq S,
           NEW t \in Tapes, NEW q \in Cells, NEW o \in Seq(Byte), NEW n \in Seq(Byte)
    PROVE  Reaches(s, p, S, Mk(t, q, from[i], o, n), Mk(Put(t, q, 0), q, from[i + 3], o, n))
<1>1. /\ lk[i].arg = i + 2 /\ lk[i + 1].op = "add" /\ lk[i + 1].arg \in {-1, 1}
      /\ i + 2 \in (i + 1) .. Len(lk) /\ lk[i + 2].op = "close" /\ lk[i + 2].arg = i
    BY PartnerOf DEF IsClearLoop
<1>2. /\ i \in 1 .. i /\ i + 1 \in 1 .. Len(lk) /\ i + 2 \in 1 .. Len(lk) /\ i + 2 + 1 = i + 3 /\ i + 1 + 1 = i + 2
      /\ i + 3 \in (i + 1) .. (Len(lk) + 1) /\ i + 3 \in (i + 2) .. (Len(lk) + 1) /\ i + 3 \in (i + 3) .. (Len(lk) + 1)
      /\ i \in 1 .. (i + 1) /\ i \in 1 .. (i + 2)
    BY <1>1, CodedIs
<1>3. /\ Span(from, i, i + 1) \subseteq S /\ Span(from, i + 1, i + 2) \subseteq S
      /\ Span(from, i + 2, i + 3) \subseteq S
    <2>1. Span(from, i, i + 1) \subseteq Span(from, i, i + 3)
        BY <1>2, InSpan
    <2>2. Span(from, i + 1, i + 1 + 1) \subseteq Span(from, i, i + 3)
        BY <1>2, InSpan
    <2>3. Span(from, i + 2, i + 2 + 1) \subseteq Span(from, i, i + 3)
        BY <1>2, InSpan
    <2> QED
        BY <1>2, <2>1, <2>2, <2>3
<1> DEFINE d == lk[i + 1].arg
           V(w) == IF d = -1 THEN w ELSE (Mod - w) % Mod
           Inside(w) == Mk(Put(t, q, V(w)), q, from[i + 1], o, n)
           End == Mk(Put(t, q, 0), q, from[i + 3], o, n)
           G == {w \in 0 .. (Mod - 1) : w = 0 \/ Reaches(s, p, S, Inside(w), End)}
<1>4. Mod \in Nat /\ Mod >= 2 /\ q \in Int /\ t[q] \in Byte /\ d \in {-1, 1}
    BY <1>1, MachineAssumption, CellByte DEF Cells
<1>5. ASSUME NEW w \in 0 .. (Mod - 1)
      PROVE  V(w) \in Byte /\ (V(w) = 0 <=> w = 0)
    <2>1. CASE d = -1
        BY <1>4, <2>1 DEF Byte
    <2>2. CASE d # -1 /\ w = 0
        <3>1. Mod * 1 + 0 = Mod - w /\ 0 \in Byte
            BY <1>4, <2>2 DEF Byte
        <3>2. (Mod - w) % Mod = 0
            BY <3>1, ModUnique
        <3> QED
            BY <2>2, <3>1, <3>2
    <2>3. CASE d # -1 /\ w # 0
        <3>1. Mod - w \in Byte /\ Mod - w # 0
            BY <1>4, <2>3 DEF Byte
        <3>2. (Mod - w) % Mod = Mod - w
            BY <3>1, ModSmall
        <3> QED
            BY <2>3, <3>1, <3>2
    <2> QED
        BY <2>1, <2>2, <2>3
<1>6. ASSUME NEW w \in 0 .. (Mod - 2)
      PROVE  (V(w + 1) + d) % Mod = V(w)
    <2>0. w + 1 - 1 = w /\ w \in Byte /\ w + 1 \in Byte /\ w + 1 \in Int
        BY <1>4 DEF Byte
    <2>1. CASE d = -1
        <3>1. V(w + 1) + d = w /\ V(w) = w
            BY <2>0, <2>1
        <3> QED
            BY <2>0, <3>1, ModSmall
    <2>2. CASE d = 1
        <3> DEFINE x == Mod - (w + 1)
        <3>1. x \in Int /\ x + 1 = Mod - w
            BY <1>4, <2>0
        <3>2. V(w + 1) = x % Mod /\ V(w) = (x + 1) % Mod
            BY <2>2, <3>1
        <3> HIDE DEF x, V
        <3>3. ((x % Mod) + 1) % Mod = (x + 1) % Mod
            BY <3>1, ModAdd
        <3> QED
            BY <2>2, <3>2, <3>3
    <2> QED
        BY <1>4, <2>1, <2>2
<1> HIDE DEF V, d
<1>7. ASSUME NEW w \in 0 .. (Mod - 2), w \in G PROVE w + 1 \in G
    <2>0. w + 1 \in 0 .. (Mod - 1) /\ w \in 0 .. (Mod - 1) /\ w + 1 # 0
        BY <1>4
    <2> DEFINE u == Put(t, q, V(w + 1))
    <2>1. V(w) \in Byte /\ V(w + 1) \in Byte
        BY <1>5, <2>0
    <2>2. /\ u \in Tapes /\ u[q] = V(w + 1) /\ Put(u, q, V(w)) = Put(t, q, V(w))
          /\ Put(t, q, V(w)) \in Tapes /\ Put(t, q, V(w))[q] = V(w)
        BY <2>1, PutIs
    <2> HIDE DEF u
    <2>3. Reaches(s, p, S, Mk(u, q, from[i + 1], o, n), Mk(Put(u, q, (u[q] + lk[i + 1].arg) % Mod), q, from[i + 1 + 1], o, n))
        BY <1>1, <1>2, <1>3, <2>2, OpAdd
    <2>4. (u[q] + lk[i + 1].arg) % Mod = V(w)
        BY <1>6, <2>2 DEF d
    <2> DEFINE v == Put(t, q, V(w))
               close == Mk(v, q, from[i + 2], o, n)
    <2>5. Reaches(s, p, S, Inside(w + 1), close)
        BY <1>2, <2>2, <2>3, <2>4 DEF u
    <2> HIDE DEF v
    <2>6. v \in Tapes /\ v[q] = V(w)
        BY <2>2 DEF v
    <2>7. Reaches(s, p, S, close, Mk(v, q, from[(IF v[q] = 0 THEN i + 2 ELSE lk[i + 2].arg) + 1], o, n))
        BY <1>1, <1>2, <1>3, <2>6, OpClose
    <2> HIDE DEF close
    <2>8. CASE w = 0
        <3>1. V(w) = 0
            BY <1>5, <2>0, <2>8
        <3>2. Mk(v, q, from[(IF v[q] = 0 THEN i + 2 ELSE lk[i + 2].arg) + 1], o, n) = End
            BY <1>2, <2>6, <3>1 DEF v
        <3>3. Reaches(s, p, S, Inside(w + 1), End)
            BY <2>5, <2>7, <3>2, ReachTrans
        <3> QED
            BY <2>0, <3>3
    <2>9. CASE w # 0
        <3>1. V(w) # 0
            BY <1>5, <2>0, <2>9
        <3>2. Mk(v, q, from[(IF v[q] = 0 THEN i + 2 ELSE lk[i + 2].arg) + 1], o, n) = Inside(w)
            BY <1>1, <2>6, <3>1 DEF v
        <3>3. Reaches(s, p, S, Inside(w), End)
            BY <1>7, <2>9
        <3>4. Reaches(s, p, S, Inside(w + 1), Inside(w))
            BY <2>5, <2>7, <3>2, ReachTrans
        <3>5. Reaches(s, p, S, Inside(w + 1), End)
            BY <3>3, <3>4, ReachTrans
        <3> QED
            BY <2>0, <3>5
    <2> QED
        BY <2>8, <2>9
<1> HIDE DEF G
<1>8. 0 .. (Mod - 1) \subseteq G
    <2>1. 0 \in G
        BY <1>4 DEF G
    <2>2. Mod - 1 \in Nat /\ Mod - 1 - 1 = Mod - 2
        BY <1>4
    <2> QED
        BY <1>7, <2>1, <2>2, BoundedInd
<1>9. Reaches(s, p, S, Mk(t, q, from[i], o, n),
              Mk(t, q, from[(IF t[q] = 0 THEN lk[i].arg ELSE i) + 1], o, n))
    BY <1>3, OpOpen
<1>10. CASE t[q] = 0
    <2>1. Put(t, q, 0) = t
        BY <1>4, <1>10, PutIs
    <2> QED
        BY <1>1, <1>2, <1>9, <1>10, <2>1
<1>11. CASE t[q] # 0
    <2> DEFINE w == IF d = -1 THEN t[q] ELSE Mod - t[q]
    <2>1. w \in 0 .. (Mod - 1) /\ w # 0 /\ w \in Int
        BY <1>4, <1>11 DEF Byte
    <2>2. V(w) = t[q]
        <3>1. CASE d = -1
            BY <3>1 DEF V
        <3>2. CASE d # -1
            <4>1. Mod - w = t[q]
                BY <1>4, <3>2 DEF Byte
            <4> QED
                BY <1>4, <3>2, <4>1, ModSmall DEF V
        <3> QED
            BY <3>1, <3>2
    <2> HIDE DEF w
    <2>3. Put(t, q, V(w)) = t
        BY <1>4, <2>2, PutIs
    <2>4. Reaches(s, p, S, Inside(w), End)
        BY <1>8, <2>1 DEF G
    <2>5. Reaches(s, p, S, Mk(t, q, from[i], o, n), Inside(w))
        BY <1>9, <1>11, <2>3
    <2> QED
        BY <2>4, <2>5, ReachTrans
<1> QED
    BY <1>10, <1>11

\* Each instruction of a loop lies within the loop.
LEMMA Pieces ==
    ASSUME NEW s, NEW p, NEW lk, NEW from, Coded(s, p, lk, from), NEW i \in 1 .. Len(lk),
           NEW e \in (i + 1) .. (Len(lk) + 1), NEW S, Span(from, i, e) \subseteq S
    PROVE  \A j \in i .. (e - 1) : j \in 1 .. Len(lk) /\ Span(from, j, j + 1) \subseteq S
<1> TAKE j \in i .. (e - 1)
<1>1. Len(lk) \in Nat
    BY CodedIs
<1>2. j \in 1 .. Len(lk) /\ i \in 1 .. j /\ e \in (j + 1) .. (Len(lk) + 1)
    BY <1>1
<1>3. Span(from, j, j + 1) \subseteq Span(from, i, e)
    BY <1>2, InSpan
<1> QED
    BY <1>2, <1>3

\* A loop that only moves goes on to the first cell that is 0.
LEMMA ScanLoop ==
    ASSUME NEW s, NEW p, NEW lk, NEW from, Coded(s, p, lk, from), NEW i \in 1 .. Len(lk),
           lk[i].op = "open", IsScanLoop(lk, i), NEW S, Span(from, i, i + 3) \subseteq S,
           NEW t \in Tapes, NEW q \in Int, NEW o \in Seq(Byte), NEW n \in Seq(Byte),
           NEW d \in Int, d = lk[i + 1].arg, NEW k \in Nat, \A j \in 0 .. k : q + j * d \in Cells,
           \A j \in 0 .. (k - 1) : t[q + j * d] # 0, t[q + k * d] = 0
    PROVE  Reaches(s, p, S, Mk(t, q, from[i], o, n), Mk(t, q + k * d, from[i + 3], o, n))
<1>1. /\ lk[i].arg = i + 2 /\ lk[i + 1].op = "move"
      /\ i + 2 \in (i + 1) .. Len(lk) /\ lk[i + 2].op = "close" /\ lk[i + 2].arg = i
    BY PartnerOf DEF IsScanLoop
<1>2. /\ i + 2 + 1 = i + 3 /\ i + 1 + 1 = i + 2 /\ i + 3 \in (i + 1) .. (Len(lk) + 1)
      /\ i \in i .. (i + 3 - 1) /\ i + 1 \in i .. (i + 3 - 1) /\ i + 2 \in i .. (i + 3 - 1)
    <2>1. Len(lk) \in Nat /\ i \in 1 .. Len(lk) /\ i + 2 \in (i + 1) .. Len(lk)
        BY <1>1, CodedIs
    <2> QED
        BY ONLY <2>1
<1>3. /\ i + 1 \in 1 .. Len(lk) /\ i + 2 \in 1 .. Len(lk) /\ Span(from, i, i + 1) \subseteq S
      /\ Span(from, i + 1, i + 2) \subseteq S /\ Span(from, i + 2, i + 2 + 1) \subseteq S
    <2>1. \A j \in i .. (i + 3 - 1) : j \in 1 .. Len(lk) /\ Span(from, j, j + 1) \subseteq S
        BY <1>2, Pieces
    <2> QED
        BY <1>2, <2>1
<1> DEFINE Start == Mk(t, q, from[i], o, n)
           Inside(j) == Mk(t, q + j * d, from[i + 1], o, n)
           End == Mk(t, q + k * d, from[i + 3], o, n)
           G == {j \in 0 .. (k - 1) : Reaches(s, p, S, Start, Inside(j))}
<1>4. q + 0 * d = q /\ \A j \in Int : q + j * d \in Int /\ q + j * d + d = q + (j + 1) * d
    <2>1. q + 0 * d = q
        BY OneMore
    <2>2. ASSUME NEW j \in Int PROVE q + j * d \in Int /\ q + j * d + d = q + (j + 1) * d
        <3>1. q \in Int /\ d \in Int /\ j \in Int
            OBVIOUS
        <3> QED
            BY ONLY <3>1, OneMore
    <2> QED
        BY <2>1, <2>2
<1>5. 0 \in 0 .. k /\ q \in Cells
    <2>1. 0 \in 0 .. k
        OBVIOUS
    <2>2. q + 0 * d \in Cells
        BY <2>1
    <2>3. q \in Cells
        BY ONLY <2>2, <1>4
    <2> QED
        BY <2>1, <2>3
<1>6. Reaches(s, p, S, Start, Mk(t, q, from[(IF t[q] = 0 THEN lk[i].arg ELSE i) + 1], o, n))
    BY <1>3, <1>5, OpOpen
<1>7. ASSUME NEW j \in 0 .. (k - 1)
      PROVE  Reaches(s, p, S, Inside(j), IF j = k - 1 THEN End ELSE Inside(j + 1))
    <2>1. j \in Int /\ j + 1 \in 0 .. k /\ (j # k - 1 => j + 1 \in 0 .. (k - 1)) /\ (j = k - 1 => j + 1 = k)
        <3>1. j \in 0 .. (k - 1) /\ k \in Nat
            OBVIOUS
        <3> QED
            BY ONLY <3>1
    <2> DEFINE x == q + (j + 1) * d
    <2>2. x \in Cells /\ q + j * d \in Int /\ q + j * d + d = x
        BY <1>4, <2>1
    <2>3. t[x] = 0 <=> j = k - 1
        BY <2>1
    <2>4. x = q + (j + 1) * d
        OBVIOUS
    <2> HIDE DEF x
    <2>5. Reaches(s, p, S, Inside(j), Mk(t, q + j * d + d, from[i + 1 + 1], o, n))
        BY <1>1, <1>3, <1>2, <2>2, OpMove
    <2>6. Reaches(s, p, S, Mk(t, x, from[i + 2], o, n),
                  Mk(t, x, from[(IF t[x] = 0 THEN i + 2 ELSE lk[i + 2].arg) + 1], o, n))
        <3>1. i + 2 \in 1 .. Len(lk) /\ lk[i + 2].op = "close" /\ Span(from, i + 2, i + 2 + 1) \subseteq S
            BY <1>1, <1>3
        <3>2. Coded(s, p, lk, from) /\ t \in Tapes /\ o \in Seq(Byte) /\ n \in Seq(Byte) /\ x \in Cells
            BY <2>2
        <3> QED
            BY ONLY <3>1, <3>2, OpClose
    <2>7. Mk(t, x, from[(IF t[x] = 0 THEN i + 2 ELSE lk[i + 2].arg) + 1], o, n) =
                IF j = k - 1 THEN End ELSE Inside(j + 1)
        BY <1>1, <1>2, <2>1, <2>3, <2>4
    <2>8. Mk(t, q + j * d + d, from[i + 1 + 1], o, n) = Mk(t, x, from[i + 2], o, n)
        BY <1>2, <2>2
    <2> HIDE DEF End, Inside
    <2> QED
        BY <2>5, <2>6, <2>7, <2>8, ReachTrans
<1> HIDE DEF End, Inside, Start
<1>8. CASE k = 0
    <2>1. t[q] = 0 /\ q + k * d = q
        BY <1>4, <1>8
    <2> QED
        BY <1>1, <1>2, <1>6, <2>1 DEF Start
<1>9. CASE k # 0
    <2>1. k - 1 \in Nat /\ 0 \in 0 .. (k - 1) /\ k - 1 \in 0 .. (k - 1)
        BY <1>9
    <2>2. t[q] # 0
        <3>1. t[q + 0 * d] # 0
            BY <2>1, Zenon
        <3> QED
            BY ONLY <3>1, <1>4
    <2>3. 0 \in G
        BY <1>4, <1>6, <2>1, <2>2 DEF Inside
    <2>4. ASSUME NEW j \in 0 .. (k - 1 - 1), j \in G PROVE j + 1 \in G
        <3>0. j \in 0 .. (k - 1 - 1) /\ k \in Nat
            OBVIOUS
        <3>1. j \in 0 .. (k - 1) /\ j # k - 1 /\ j + 1 \in 0 .. (k - 1)
            BY ONLY <3>0
        <3>2. Reaches(s, p, S, Inside(j), Inside(j + 1))
            BY <1>7, <3>1
        <3> QED
            BY <2>4, <3>1, <3>2, ReachTrans
    <2> HIDE DEF G
    <2>5. 0 .. (k - 1) \subseteq G
        BY <2>1, <2>3, <2>4, BoundedInd
    <2>6. Reaches(s, p, S, Start, Inside(k - 1)) /\ Reaches(s, p, S, Inside(k - 1), End)
        BY <1>7, <2>1, <2>5 DEF G
    <2>7. Reaches(s, p, S, Start, End)
        BY <2>6, ReachTrans
    <2> QED
        BY <2>7 DEF Start, End
<1> QED
    BY <1>8, <1>9

\* Who moves as often as there are cells has left the tape.
LEMMA OffTape ==
    ASSUME NEW q \in Cells, NEW d \in Int, d # 0
    PROVE  q + TapeSize * d \notin Cells
<1>1. TapeSize \in Nat /\ TapeSize >= 1 /\ q \in Int /\ q >= 0 /\ q < TapeSize
    BY MachineAssumption DEF Cells
<1>2. CASE d >= 1
    <2>1. TapeSize * d >= TapeSize * 1
        BY <1>1, <1>2
    <2> QED
        BY <1>1, <2>1 DEF Cells
<1>3. CASE d <= -1
    <2>1. TapeSize * d <= TapeSize * (-1)
        BY <1>1, <1>3
    <2> QED
        BY <1>1, <2>1 DEF Cells
<1> QED
    BY <1>2, <1>3

LEMMA MovedIs ==
    ASSUME NEW t, NEW q, NEW c, NEW o, NEW i, NEW w
    PROVE  [Mk(t, q, c, o, i) EXCEPT !.ptr = w] = Mk(t, w, c, o, i)
<1> DEFINE m == Mk(t, q, c, o, i)
           n == [m EXCEPT !.ptr = w]
<1>1. m = Mk(t, q, c, o, i) /\ n = [m EXCEPT !.ptr = w]
    OBVIOUS
<1> HIDE DEF m, n
<1>2. n = Mk(t, w, c, o, i)
    BY ONLY <1>1 DEF Mk
<1> QED
    BY <1>2 DEF m, n

\* The cell the interpreter scans on to.
ScanEnds(t, q, c, o, n, d) ==
    \/ \E x \in Int : Scan(Mk(t, q, c, o, n), d) = Fail(Mk(t, x, c, o, n))
    \/ \E k \in Nat :
         /\ \A j \in 0 .. k : q + j * d \in Cells
         /\ \A j \in 0 .. (k - 1) : t[q + j * d] # 0
         /\ t[q + k * d] = 0
         /\ Scan(Mk(t, q, c, o, n), d) = Mk(t, q + k * d, c, o, n)

LEMMA ScanIs ==
    ASSUME NEW t \in Tapes, NEW q \in Cells, NEW c, NEW o, NEW n, NEW d \in Int, d # 0
    PROVE  ScanEnds(t, q, c, o, n, d)
<1> DEFINE m == Mk(t, q, c, o, n)
           Cell(k) == m.ptr + k * d
           Stops(k) == Cell(k) \in Cells => m.tape[Cell(k)] = 0
           Is0(k) == k \in 0 .. TapeSize /\ Stops(k) /\ \A i \in 0 .. (k - 1) : ~Stops(i)
           z == CHOOSE k \in 0 .. TapeSize : Stops(k) /\ \A i \in 0 .. (k - 1) : ~Stops(i)
           there == [m EXCEPT !.ptr = Cell(z)]
           H == {k \in 0 .. TapeSize : Stops(k)}
<1>1. TapeSize \in Nat /\ TapeSize >= 1 /\ q \in Int /\ q >= 0 /\ q < TapeSize
    BY MachineAssumption DEF Cells
<1>2. m.ptr = q /\ m.tape = t /\ ~m.failed
    BY DEF Mk
<1>3. TapeSize \in H
    <2>1. q + TapeSize * d \notin Cells
        BY OffTape
    <2> QED
        BY <1>1, <1>2, <2>1
<1>4. PICK f \in H : \A j \in H : f <= j
    <2>1. H \in SUBSET Nat /\ H # {}
        BY <1>1, <1>3
    <2> HIDE DEF H
    <2> QED
        BY <2>1, LeastNumber
<1>5. \E k \in 0 .. TapeSize : Stops(k) /\ \A i \in 0 .. (k - 1) : ~Stops(i)
    <2>1. f \in 0 .. TapeSize /\ Stops(f)
        OBVIOUS
    <2>2. \A i \in 0 .. (f - 1) : i \in 0 .. TapeSize /\ ~(f <= i)
        BY <1>1, <2>1
    <2>3. \A i \in 0 .. (f - 1) : ~Stops(i)
        BY <1>4, <2>2
    <2> QED
        BY <2>1, <2>3
<1>6. z \in 0 .. TapeSize /\ Stops(z) /\ \A i \in 0 .. (z - 1) : ~Stops(i)
    <2> HIDE DEF Stops, m
    <2> QED
        BY <1>5
<1>7. z \in Nat
    BY <1>1, <1>6
<1>8. Scan(m, d) = IF OnTape(there) THEN there ELSE Fail(there)
    BY DEF Scan
<1>9. there = Mk(t, q + z * d, c, o, n)
    <2>1. Cell(z) = q + z * d
        BY <1>2
    <2> HIDE DEF z
    <2> QED
        BY <2>1, MovedIs
<1> HIDE DEF z, there
<1>10. CASE q + z * d \notin Cells
    <2>1. q + z * d \in Int
        BY <1>1, <1>7
    <2>2. ~OnTape(there)
        BY <1>9, <1>10 DEF OnTape, Mk
    <2>3. Scan(m, d) = Fail(Mk(t, q + z * d, c, o, n))
        BY <1>8, <1>9, <2>2
    <2> QED
        BY <2>1, <2>3 DEF ScanEnds
<1>11. CASE q + z * d \in Cells
    <2>1. t[q + z * d] = 0
        BY <1>2, <1>6, <1>11
    <2>2. \A j \in 0 .. (z - 1) : q + j * d \in Cells /\ t[q + j * d] # 0
        BY <1>2, <1>6
    <2>3. \A j \in 0 .. z : j = z \/ j \in 0 .. (z - 1)
        BY <1>7
    <2>4. \A j \in 0 .. z : q + j * d \in Cells
        BY <1>11, <2>2, <2>3
    <2>5. OnTape(there)
        BY <1>9, <1>11 DEF OnTape, Mk
    <2>6. Scan(m, d) = Mk(t, q + z * d, c, o, n)
        BY <1>8, <1>9, <2>5
    <2> QED
        BY <1>7, <2>1, <2>2, <2>4, <2>6 DEF ScanEnds
<1> QED
    BY <1>10, <1>11

\* The instructions of a counter-walk.
WalkLoopIs(lk, from, S, i, d) ==
    /\ lk[i].op = "open" /\ lk[i].arg = i + 9
    /\ lk[i + 1].op = "open" /\ lk[i + 1].arg = i + 6
    /\ lk[i + 2].op = "move" /\ lk[i + 2].arg = d
    /\ lk[i + 3].op = "add" /\ lk[i + 3].arg = 1
    /\ lk[i + 4].op = "move" /\ lk[i + 4].arg = -d
    /\ lk[i + 5].op = "add" /\ lk[i + 5].arg = -1
    /\ lk[i + 6].op = "close" /\ lk[i + 6].arg = i + 1
    /\ lk[i + 7].op = "move" /\ lk[i + 7].arg = d
    /\ lk[i + 8].op = "add" /\ lk[i + 8].arg = -1
    /\ lk[i + 9].op = "close" /\ lk[i + 9].arg = i
    /\ i \in Nat /\ d \in Int /\ d # 0
    /\ \A j \in i .. (i + 9) : j \in 1 .. Len(lk) /\ Span(from, j, j + 1) \subseteq S

LEMMA WalkParts ==
    ASSUME NEW s, NEW p, NEW lk, NEW from, Coded(s, p, lk, from), NEW i \in 1 .. Len(lk),
           lk[i].op = "open", IsWalkLoop(lk, i), NEW S, Span(from, i, i + 10) \subseteq S,
           NEW d, d = lk[i + 2].arg
    PROVE  WalkLoopIs(lk, from, S, i, d)
<1>1. /\ lk[i].arg = i + 9 /\ lk[i + 1].op = "open" /\ lk[i + 1].arg = i + 6
      /\ lk[i + 2].op = "move" /\ d # 0 /\ lk[i + 3].op = "add" /\ lk[i + 3].arg = 1
      /\ lk[i + 4].op = "move" /\ lk[i + 4].arg = -d /\ lk[i + 5].op = "add" /\ lk[i + 5].arg = -1
      /\ lk[i + 6].op = "close" /\ lk[i + 7].op = "move" /\ lk[i + 7].arg = d
      /\ lk[i + 8].op = "add" /\ lk[i + 8].arg = -1
    BY DEF IsWalkLoop, Is
<1>2. i + 9 \in (i + 1) .. Len(lk) /\ lk[i + 9].op = "close" /\ lk[i + 9].arg = i
    <2>1. i + 9 = lk[i].arg
        BY ONLY <1>1
    <2> QED
        BY ONLY <2>1, Coded(s, p, lk, from), i \in 1 .. Len(lk), lk[i].op = "open", PartnerOf
<1>3. Len(lk) \in Nat /\ lk \in Seq(Instrs)
    BY CodedIs
<1>4. i + 10 \in (i + 1) .. (Len(lk) + 1) /\ i + 1 \in 1 .. Len(lk) /\ i + 2 \in 1 .. Len(lk) /\ i \in Nat
      /\ i + 10 - 1 = i + 9
    <2>1. i \in 1 .. Len(lk)
        OBVIOUS
    <2> QED
        BY ONLY <1>2, <1>3, <2>1
<1>5. \A j \in i .. (i + 10 - 1) : j \in 1 .. Len(lk) /\ Span(from, j, j + 1) \subseteq S
    BY <1>4, Pieces
<1>6. lk[i + 6].arg = i + 1
    <2> DEFINE a == i + 1
    <2>1. a \in 1 .. Len(lk) /\ lk[a].op = "open" /\ i + 6 = lk[a].arg
        BY <1>1, <1>4
    <2> HIDE DEF a
    <2>2. lk[i + 6].arg = a
        BY <2>1, PartnerOf
    <2> QED
        BY <2>2 DEF a
<1>7. d \in Int
    BY <1>3, <1>4, InstrFields
<1> QED
    BY <1>1, <1>2, <1>4, <1>5, <1>6, <1>7 DEF WalkLoopIs

\* The inner loop of a counter-walk adds the cell to the one behind it, and clears it.
LEMMA WalkInner ==
    ASSUME NEW s, NEW p, NEW lk, NEW from, Coded(s, p, lk, from), NEW i, NEW S, NEW d,
           WalkLoopIs(lk, from, S, i, d), NEW t \in Tapes, NEW q \in Cells, q + d \in Cells,
           NEW o \in Seq(Byte), NEW n \in Seq(Byte)
    PROVE  Reaches(s, p, S, Mk(t, q, from[i + 1], o, n),
                   Mk(Put(Put(t, q + d, (t[q + d] + t[q]) % Mod), q, 0), q, from[i + 7], o, n))
<1> DEFINE x == q + d
           Moved(u, w) == Put(Put(u, x, (u[x] + w) % Mod), q, 0)
           Inside(u) == Mk(u, q, from[i + 2], o, n)
           End(u, w) == Mk(Moved(u, w), q, from[i + 7], o, n)
           G == {w \in 0 .. (Mod - 1) : w = 0 \/ \A u \in Tapes : u[q] = w => Reaches(s, p, S, Inside(u), End(u, w))}
<1>1. /\ i \in Nat /\ d \in Int /\ d # 0 /\ q \in Int /\ x \in Cells /\ x \in Int /\ x # q /\ q + d = x /\ x + (-d) = q
      /\ -d \in Int /\ Mod \in Nat /\ Mod >= 2
    BY MachineAssumption DEF WalkLoopIs, Cells
<1>2. /\ i + 1 + 1 = i + 2 /\ i + 2 + 1 = i + 3 /\ i + 3 + 1 = i + 4 /\ i + 4 + 1 = i + 5 /\ i + 5 + 1 = i + 6 /\ i + 6 + 1 = i + 7
      /\ i + 1 \in i .. (i + 9) /\ i + 2 \in i .. (i + 9) /\ i + 3 \in i .. (i + 9) /\ i + 4 \in i .. (i + 9)
      /\ i + 5 \in i .. (i + 9) /\ i + 6 \in i .. (i + 9)
    BY ONLY <1>1
<1>3. \A j \in i .. (i + 9) : j \in 1 .. Len(lk) /\ Span(from, j, j + 1) \subseteq S
    BY DEF WalkLoopIs
<1> HIDE DEF x
<1>4. ASSUME NEW u \in Tapes, NEW w \in 0 .. (Mod - 2), u[q] = w + 1
      PROVE  LET r == Put(Put(u, x, (u[x] + 1) % Mod), q, w)
             IN /\ r \in Tapes /\ r[q] = w /\ Moved(r, w) = Moved(u, w + 1)
                /\ Reaches(s, p, S, Inside(u), Mk(r, q, from[(IF w = 0 THEN i + 6 ELSE i + 1) + 1], o, n))
    <2> DEFINE a == (u[x] + 1) % Mod
               v == Put(u, x, a)
               r == Put(v, q, w)
    <2>1. w \in Byte /\ w + 1 \in Byte /\ w + 1 + (-1) = w /\ w \in Int /\ w % Mod = w /\ 0 \in Byte
        <3>1. w \in Byte /\ w + 1 \in Byte /\ w + 1 + (-1) = w /\ w \in Int /\ 0 \in Byte
            BY <1>1 DEF Byte
        <3> QED
            BY <3>1, ModSmall
    <2>2. u[x] \in Int
        BY <1>1, CellByte
    <2>3. a \in Byte
        BY <2>2, ModByte
    <2>4. v \in Tapes /\ v[x] = a /\ \A c \in Cells : c # x => v[c] = u[c]
        <3> HIDE DEF a
        <3> QED
            BY <1>1, <2>3, PutIs
    <2>5. r \in Tapes /\ r[q] = w /\ \A c \in Cells : c # q => r[c] = v[c]
        <3> HIDE DEF v
        <3> QED
            BY <2>1, <2>4, PutIs
    <2>6. Moved(r, w) = Moved(u, w + 1)
        <3>1. r[x] = a
            BY <1>1, <2>4, <2>5
        <3>2. (a + w) % Mod = (u[x] + (w + 1)) % Mod
            <4>1. u[x] + 1 \in Int /\ u[x] + 1 + w = u[x] + (w + 1)
                BY <2>1, <2>2
            <4> QED
                BY <2>1, <4>1, ModAdd
        <3> DEFINE b == (u[x] + (w + 1)) % Mod
        <3>3. b \in Byte
            <4>1. u[x] + (w + 1) \in Int
                BY <2>1, <2>2
            <4> QED
                BY <4>1, ModByte
        <3>4. (r[x] + w) % Mod = b
            BY <3>1, <3>2
        <3> DEFINE y == Put(Put(r, x, b), q, 0)
                   z == Put(Put(u, x, b), q, 0)
        <3> HIDE DEF a, b, r, v
        <3>5. Put(r, x, b) \in Tapes /\ Put(r, x, b)[x] = b /\ \A c \in Cells : c # x => Put(r, x, b)[c] = r[c]
            BY <1>1, <2>5, <3>3, PutIs
        <3>6. Put(u, x, b) \in Tapes /\ Put(u, x, b)[x] = b /\ \A c \in Cells : c # x => Put(u, x, b)[c] = u[c]
            BY <1>1, <3>3, PutIs
        <3>7. y \in Tapes /\ y[q] = 0 /\ \A c \in Cells : c # q => y[c] = Put(r, x, b)[c]
            BY <2>1, <3>5, PutIs
        <3>8. z \in Tapes /\ z[q] = 0 /\ \A c \in Cells : c # q => z[c] = Put(u, x, b)[c]
            BY <2>1, <3>6, PutIs
        <3> HIDE DEF y, z
        <3>9. \A c \in Cells : y[c] = z[c]
            BY <2>4, <2>5, <3>5, <3>6, <3>7, <3>8
        <3>10. y = z
            BY <3>7, <3>8, <3>9, SameTape
        <3> QED
            BY <3>4, <3>10 DEF y, z, b
    <2>7. Reaches(s, p, S, Inside(u), Mk(u, x, from[i + 3], o, n))
        <3>1. Reaches(s, p, S, Mk(u, q, from[i + 2], o, n), Mk(u, q + lk[i + 2].arg, from[i + 2 + 1], o, n))
            BY <1>1, <1>2, <1>3, OpMove DEF WalkLoopIs
        <3> QED
            BY <1>1, <1>2, <3>1 DEF WalkLoopIs
    <2>8. Reaches(s, p, S, Mk(u, x, from[i + 3], o, n), Mk(v, x, from[i + 4], o, n))
        <3>1. Reaches(s, p, S, Mk(u, x, from[i + 3], o, n),
                      Mk(Put(u, x, (u[x] + lk[i + 3].arg) % Mod), x, from[i + 3 + 1], o, n))
            BY <1>1, <1>2, <1>3, OpAdd DEF WalkLoopIs
        <3> QED
            BY <1>2, <3>1 DEF WalkLoopIs
    <2> HIDE DEF v
    <2>9. Reaches(s, p, S, Mk(v, x, from[i + 4], o, n), Mk(v, q, from[i + 5], o, n))
        <3>1. Reaches(s, p, S, Mk(v, x, from[i + 4], o, n), Mk(v, x + lk[i + 4].arg, from[i + 4 + 1], o, n))
            BY <1>1, <1>2, <1>3, <2>4, OpMove DEF WalkLoopIs
        <3> QED
            BY <1>1, <1>2, <3>1 DEF WalkLoopIs
    <2>10. Reaches(s, p, S, Mk(v, q, from[i + 5], o, n), Mk(r, q, from[i + 6], o, n))
        <3>1. Reaches(s, p, S, Mk(v, q, from[i + 5], o, n),
                      Mk(Put(v, q, (v[q] + lk[i + 5].arg) % Mod), q, from[i + 5 + 1], o, n))
            BY <1>1, <1>2, <1>3, <2>4, OpAdd DEF WalkLoopIs
        <3>2. v[q] = w + 1 /\ lk[i + 5].arg = -1
            BY <1>1, <1>4, <2>4 DEF WalkLoopIs
        <3>3. (v[q] + lk[i + 5].arg) % Mod = w
            BY <2>1, <3>2
        <3> QED
            BY <1>2, <3>1, <3>3
    <2> HIDE DEF r
    <2>11. Reaches(s, p, S, Mk(r, q, from[i + 6], o, n), Mk(r, q, from[(IF w = 0 THEN i + 6 ELSE i + 1) + 1], o, n))
        <3>1. Reaches(s, p, S, Mk(r, q, from[i + 6], o, n),
                      Mk(r, q, from[(IF r[q] = 0 THEN i + 6 ELSE lk[i + 6].arg) + 1], o, n))
            BY <1>1, <1>2, <1>3, <2>5, OpClose DEF WalkLoopIs
        <3> QED
            BY <2>5, <3>1 DEF WalkLoopIs
    <2>12. Reaches(s, p, S, Inside(u), Mk(r, q, from[(IF w = 0 THEN i + 6 ELSE i + 1) + 1], o, n))
        <3>1. Reaches(s, p, S, Inside(u), Mk(v, x, from[i + 4], o, n))
            BY <2>7, <2>8, ReachTrans
        <3>2. Reaches(s, p, S, Inside(u), Mk(v, q, from[i + 5], o, n))
            BY <2>9, <3>1, ReachTrans
        <3>3. Reaches(s, p, S, Inside(u), Mk(r, q, from[i + 6], o, n))
            BY <2>10, <3>2, ReachTrans
        <3> QED
            BY <2>11, <3>3, ReachTrans
    <2> QED
        BY <2>5, <2>6, <2>12 DEF r, v
<1> HIDE DEF Moved
<1>5. ASSUME NEW w \in 0 .. (Mod - 2), w \in G PROVE w + 1 \in G
    <2>0. w + 1 \in 0 .. (Mod - 1)
        BY <1>1
    <2>1. ASSUME NEW u \in Tapes, u[q] = w + 1 PROVE Reaches(s, p, S, Inside(u), End(u, w + 1))
        <3> DEFINE r == Put(Put(u, x, (u[x] + 1) % Mod), q, w)
        <3>1. /\ r \in Tapes /\ r[q] = w /\ Moved(r, w) = Moved(u, w + 1)
              /\ Reaches(s, p, S, Inside(u), Mk(r, q, from[(IF w = 0 THEN i + 6 ELSE i + 1) + 1], o, n))
            BY <1>4, <2>1
        <3> HIDE DEF r
        <3>2. CASE w = 0
            <4>1. Moved(r, w) = r
                <5>1. r[x] \in Byte /\ 0 \in Byte
                    BY <1>1, <3>1, CellByte, ModByte
                <5>2. (r[x] + 0) % Mod = r[x]
                    <6>1. r[x] + 0 = r[x]
                        BY <5>1 DEF Byte
                    <6> QED
                        BY <5>1, <6>1, ModSmall
                <5>3. Put(r, x, r[x]) = r /\ Put(r, q, 0) = r
                    <6>1. r \in Tapes /\ x \in Cells /\ q \in Cells /\ r[q] = 0
                        BY <1>1, <3>1, <3>2
                    <6> QED
                        BY ONLY <5>1, <6>1, PutIs
                <5> QED
                    BY <3>2, <5>2, <5>3 DEF Moved
            <4>2. Mk(r, q, from[(IF w = 0 THEN i + 6 ELSE i + 1) + 1], o, n) = End(u, w + 1)
                BY <1>2, <3>1, <3>2, <4>1
            <4> QED
                BY <3>1, <4>2
        <3>3. CASE w # 0
            <4>1. Mk(r, q, from[(IF w = 0 THEN i + 6 ELSE i + 1) + 1], o, n) = Inside(r)
                BY <1>2, <3>3
            <4>2. Reaches(s, p, S, Inside(r), End(r, w))
                BY <1>5, <3>1, <3>3
            <4>3. End(r, w) = End(u, w + 1)
                BY <3>1
            <4> HIDE DEF End, Inside
            <4> QED
                BY <3>1, <4>1, <4>2, <4>3, ReachTrans
        <3> QED
            BY <3>2, <3>3
    <2> HIDE DEF End, Inside
    <2> QED
        BY <2>0, <2>1
<1>6. 0 .. (Mod - 1) \subseteq G
    <2>1. 0 \in G
        BY <1>1
    <2>2. Mod - 1 \in Nat /\ Mod - 1 - 1 = Mod - 2
        BY <1>1
    <2> HIDE DEF G
    <2> QED
        BY <1>5, <2>1, <2>2, BoundedInd
<1>7. Reaches(s, p, S, Mk(t, q, from[i + 1], o, n),
              Mk(t, q, from[(IF t[q] = 0 THEN i + 6 ELSE i + 1) + 1], o, n))
    <2>1. Reaches(s, p, S, Mk(t, q, from[i + 1], o, n),
                  Mk(t, q, from[(IF t[q] = 0 THEN lk[i + 1].arg ELSE i + 1) + 1], o, n))
        BY <1>2, <1>3, OpOpen DEF WalkLoopIs
    <2> QED
        BY <2>1 DEF WalkLoopIs
<1>8. Reaches(s, p, S, Mk(t, q, from[i + 1], o, n), End(t, t[q]))
    <2>1. t[q] \in Byte /\ t[x] \in Byte /\ 0 \in Byte
        BY <1>1, CellByte, ModByte
    <2>2. CASE t[q] = 0
        <3>1. t[x] + t[q] = t[x]
            BY <2>1, <2>2 DEF Byte
        <3>2. (t[x] + t[q]) % Mod = t[x]
            BY <2>1, <3>1, ModSmall
        <3>3. Put(t, x, t[x]) = t /\ Put(t, q, 0) = t
            BY <1>1, <2>1, <2>2, PutIs
        <3>4. Moved(t, t[q]) = t
            BY <3>2, <3>3 DEF Moved
        <3> QED
            BY <1>2, <1>7, <2>2, <3>4
    <2>3. CASE t[q] # 0
        <3>1. Reaches(s, p, S, Inside(t), End(t, t[q]))
            <4>1. t[q] \in G
                BY <1>6, <2>1 DEF Byte
            <4> QED
                BY <2>3, <4>1
        <3>2. Reaches(s, p, S, Mk(t, q, from[i + 1], o, n), Inside(t))
            BY <1>2, <1>7, <2>3
        <3> HIDE DEF End, Inside
        <3> QED
            BY <3>1, <3>2, ReachTrans
    <2> QED
        BY <2>2, <2>3
<1> QED
    BY <1>8 DEF Moved, x

\* Machines that have died, or stand on the tape.
Standing == {m \in Machines : m.failed \/ m.ptr \in Cells}

\* The tape after a pass of the counter-walk.
Walked(t, q, d) == Put(Put(t, q, 0), q + d, (t[q + d] + t[q] - 1) % Mod)

LEMMA WalkedIs ==
    ASSUME NEW t \in Tapes, NEW q \in Cells, NEW d \in Int, d # 0, q + d \in Cells
    PROVE  /\ Walked(t, q, d) \in Tapes
           /\ Walked(t, q, d) = [[t EXCEPT ![q] = 0] EXCEPT ![q + d] = (@ + t[q] - 1) % Mod]
<1>1. t[q] \in Int /\ t[q + d] \in Int /\ 0 \in Byte
    BY CellByte, ModByte
<1>2. (t[q + d] + t[q] - 1) % Mod \in Byte
    <2>1. t[q + d] + t[q] - 1 \in Int
        BY <1>1
    <2> QED
        BY <2>1, ModByte
<1>3. q + d # q
    BY DEF Cells
<1> DEFINE b == (t[q + d] + t[q] - 1) % Mod
           x == q + d
           u == Put(t, q, 0)
<1>4. u \in Tapes /\ u[x] = t[x]
    BY <1>1, <1>3, PutIs
<1>5. b \in Byte /\ x \in Cells
    BY <1>2
<1>6. b = (u[x] + t[q] - 1) % Mod
    BY <1>4
<1>7. [u EXCEPT ![x] = (@ + t[q] - 1) % Mod] = [u EXCEPT ![x] = b]
    BY <1>4, <1>5, <1>6 DEF Tapes
<1> HIDE DEF b, x, u
<1>8. Put(u, x, b) \in Tapes
    BY <1>4, <1>5, PutIs
<1> QED
    BY <1>7, <1>8 DEF Walked, b, x, u, Put

\* One pass, from a machine that has not died.
LEMMA WalkOnIs ==
    ASSUME NEW t \in Tapes, NEW q \in Cells, NEW c, NEW o, NEW n, NEW d \in Int, d # 0,
           NEW m, m = Mk(t, q, c, o, n)
    PROVE  /\ t[q] = 0 => WalkOn(m, d) = m
           /\ t[q] # 0 /\ q + d \notin Cells => WalkOn(m, d) = Fail(m)
           /\ t[q] # 0 /\ q + d \in Cells => WalkOn(m, d) = Mk(Walked(t, q, d), q + d, c, o, n)
<1>1. m.ptr = q /\ m.tape = t /\ ~m.failed /\ Current(m) = t[q]
    BY DEF Mk, Current
<1>2. CASE t[q] = 0
    BY <1>1, <1>2 DEF WalkOn
<1>3. CASE t[q] # 0 /\ q + d \notin Cells
    BY <1>1, <1>3 DEF WalkOn
<1>4. CASE t[q] # 0 /\ q + d \in Cells
    <2> DEFINE x == q + d
               w == [[t EXCEPT ![q] = 0] EXCEPT ![x] = (@ + t[q] - 1) % Mod]
               r == [m EXCEPT !.ptr = x, !.tape = w]
    <2>1. WalkOn(m, d) = r
        BY <1>1, <1>4 DEF WalkOn
    <2>2. w = Walked(t, q, d)
        BY <1>4, WalkedIs
    <2>3. m = Mk(t, q, c, o, n) /\ r = [m EXCEPT !.ptr = x, !.tape = w]
        OBVIOUS
    <2> HIDE DEF x, w, r
    <2>4. r = Mk(w, x, c, o, n)
        BY ONLY <2>3 DEF Mk
    <2>5. WalkOn(m, d) = Mk(Walked(t, q, d), q + d, c, o, n)
        BY <2>1, <2>2, <2>4 DEF x
    <2> QED
        BY <1>4, <2>5
<1> QED
    BY <1>2, <1>3, <1>4

LEMMA WalkOnTyped ==
    ASSUME NEW m \in Standing, NEW d \in Int, d # 0
    PROVE  WalkOn(m, d) \in Standing
<1>1. m \in Machines
    BY DEF Standing
<1>2. CASE m.failed
    BY <1>2 DEF WalkOn
<1>3. CASE ~m.failed
    <2> DEFINE t == m.tape
               q == m.ptr
    <2>1. t \in Tapes /\ q \in Cells /\ m.out \in Seq(Byte) /\ m.in \in Seq(Byte) /\ m.pc \in Nat
          /\ m = Mk(t, q, m.pc, m.out, m.in)
        BY <1>1, <1>3, MachineIs DEF Standing
    <2> HIDE DEF t, q
    <2>2. /\ t[q] = 0 => WalkOn(m, d) = m
          /\ t[q] # 0 /\ q + d \notin Cells => WalkOn(m, d) = Fail(m)
          /\ t[q] # 0 /\ q + d \in Cells => WalkOn(m, d) = Mk(Walked(t, q, d), q + d, m.pc, m.out, m.in)
        BY <2>1, WalkOnIs
    <2>3. Fail(m) \in Standing
        BY <1>1 DEF Fail, Standing, Machines
    <2>4. CASE t[q] # 0 /\ q + d \in Cells
        <3>1. Walked(t, q, d) \in Tapes /\ q + d \in Int
            BY <2>1, <2>4, WalkedIs DEF Cells
        <3> DEFINE w == Walked(t, q, d)
                   x == q + d
                   r == Mk(w, x, m.pc, m.out, m.in)
        <3> HIDE DEF w, x
        <3>2. r \in Machines /\ r.ptr = x
            <4>1. w \in Tapes /\ x \in Int
                BY <3>1 DEF w, x
            <4> QED
                BY ONLY <2>1, <4>1, MkIs
        <3> HIDE DEF r
        <3>3. r \in Standing
            BY <2>4, <3>2 DEF Standing, x
        <3> QED
            BY <2>2, <2>4, <3>3 DEF r, w, x
    <2> QED
        BY <2>2, <2>3, <2>4
<1> QED
    BY <1>2, <1>3

\* The passes of a counter-walk.
LEMMA WalkPasses ==
    ASSUME NEW m \in Standing, NEW d \in Int, d # 0
    PROVE  \E after \in [0 .. TapeSize -> Standing] :
                /\ after[0] = m /\ after[TapeSize] = Walk(m, d)
                /\ \A k \in 1 .. TapeSize : after[k] = WalkOn(after[k - 1], d)
<1> DEFINE N == TapeSize
           f == [k \in 1 .. N |-> [x \in Standing |-> WalkOn(x, d)]]
           Steps(g) == g = [k \in 0 .. N |-> IF k = 0 THEN m ELSE WalkOn(g[k - 1], d)]
<1>1. N \in Nat
    BY MachineAssumption
<1>2. Walk(m, d) = (CHOOSE g : Steps(g))[N]
    BY DEF Walk
<1> HIDE DEF N
<1>3. f \in [1 .. N -> [Standing -> Standing]] /\ m \in Standing
    BY WalkOnTyped
<1> HIDE DEF f
<1>4. PICK h : Iterated(h, N, Standing, m, f)
    BY ONLY <1>1, <1>3, Iterates
<1>5. h \in [0 .. N -> Standing] /\ h[0] = m /\ \A k \in 1 .. N : h[k] = f[k][h[k - 1]]
    BY <1>4 DEF Iterated
<1>6. ASSUME NEW k \in 1 .. N PROVE h[k] = WalkOn(h[k - 1], d)
    <2>1. k - 1 \in 0 .. N
        BY <1>1
    <2> QED
        BY <1>5, <2>1 DEF f
<1>7. \A k \in 0 .. N : k # 0 => k \in 1 .. N
    BY <1>1
<1>8. Steps(h)
    BY <1>5, <1>6, <1>7
<1> DEFINE after == CHOOSE g : Steps(g)
<1>9. Steps(after)
    BY <1>8
<1>10. Walk(m, d) = after[N]
    BY <1>2
<1> HIDE DEF after
<1>11. after[0] = m /\ \A k \in 1 .. N : after[k] = WalkOn(after[k - 1], d)
    <2>1. \A k \in 0 .. N : after[k] = IF k = 0 THEN m ELSE WalkOn(after[k - 1], d)
        BY <1>9
    <2>2. 0 \in 0 .. N /\ \A k \in 1 .. N : k \in 0 .. N /\ k # 0
        BY <1>1
    <2> QED
        BY <2>1, <2>2
<1>12. \A k \in 0 .. N : after[k] \in Standing
    <2> DEFINE T == {k \in 0 .. N : after[k] \in Standing}
    <2>1. 0 \in T
        BY <1>1, <1>11
    <2>2. ASSUME NEW k \in 0 .. (N - 1), k \in T PROVE k + 1 \in T
        <3>1. k + 1 \in 1 .. N /\ k + 1 \in 0 .. N /\ k + 1 - 1 = k
            BY <1>1
        <3> QED
            BY <1>11, <2>2, <3>1, WalkOnTyped
    <2> HIDE DEF T
    <2>3. 0 .. N \subseteq T
        BY <1>1, <2>1, <2>2, BoundedInd
    <2> QED
        BY <2>3 DEF T
<1>13. after \in [0 .. N -> Standing]
    BY <1>9, <1>12
<1> QED
    BY <1>10, <1>11, <1>13 DEF N

\* A pass of the counter-walk, from the inner loop to the closing bracket and back.
LEMMA WalkPass ==
    ASSUME NEW s, NEW p, NEW lk, NEW from, Coded(s, p, lk, from), NEW i, NEW S, NEW d,
           WalkLoopIs(lk, from, S, i, d), NEW t \in Tapes, NEW q \in Cells, NEW x \in Cells, x = q + d,
           NEW o \in Seq(Byte), NEW n \in Seq(Byte), NEW u, u = Walked(t, q, d)
    PROVE  Reaches(s, p, S, Mk(t, q, from[i + 1], o, n), Mk(u, x, from[(IF u[x] = 0 THEN i + 9 ELSE i) + 1], o, n))
<1>1. /\ i \in Nat /\ d \in Int /\ d # 0 /\ q \in Int /\ x \in Int /\ x # q /\ q + d = x /\ q + d \in Cells
    BY DEF WalkLoopIs, Cells
<1>2. /\ i + 7 + 1 = i + 8 /\ i + 8 + 1 = i + 9
      /\ i + 7 \in i .. (i + 9) /\ i + 8 \in i .. (i + 9) /\ i + 9 \in i .. (i + 9)
    BY ONLY <1>1
<1>3. \A j \in i .. (i + 9) : j \in 1 .. Len(lk) /\ Span(from, j, j + 1) \subseteq S
    BY DEF WalkLoopIs
<1> DEFINE a == (t[x] + t[q]) % Mod
           w == Put(t, x, a)
           v == Put(w, q, 0)
<1>4. t[x] \in Int /\ t[q] \in Int /\ t[x] + t[q] \in Int /\ 0 \in Byte /\ a \in Byte
    <2>1. t[x] \in Int /\ t[q] \in Int
        BY CellByte
    <2> QED
        BY <2>1, ModByte
<1>5. Reaches(s, p, S, Mk(t, q, from[i + 1], o, n), Mk(v, q, from[i + 7], o, n))
    <2>1. Reaches(s, p, S, Mk(t, q, from[i + 1], o, n),
                   Mk(Put(Put(t, q + d, (t[q + d] + t[q]) % Mod), q, 0), q, from[i + 7], o, n))
        BY <1>1, WalkInner
    <2> QED
        BY <1>1, <2>1
<1> HIDE DEF a
<1>6. w \in Tapes /\ w[x] = a /\ \A c \in Cells : c # x => w[c] = t[c]
    BY <1>4, PutIs
<1> HIDE DEF w
<1>7. v \in Tapes /\ v[q] = 0 /\ v[x] = a /\ \A c \in Cells : c # q => v[c] = w[c]
    BY <1>1, <1>4, <1>6, PutIs
<1> HIDE DEF v
<1>8. Reaches(s, p, S, Mk(v, q, from[i + 7], o, n), Mk(v, x, from[i + 8], o, n))
    <2>1. Reaches(s, p, S, Mk(v, q, from[i + 7], o, n), Mk(v, q + lk[i + 7].arg, from[i + 7 + 1], o, n))
        BY <1>1, <1>2, <1>3, <1>7, OpMove DEF WalkLoopIs
    <2> QED
        BY <1>1, <1>2, <2>1 DEF WalkLoopIs
<1> DEFINE b == (t[x] + t[q] - 1) % Mod
<1>9. (v[x] + lk[i + 8].arg) % Mod = b
    <2>1. (a + (-1)) % Mod = (t[x] + t[q] + (-1)) % Mod
        BY <1>4, ModAdd DEF a
    <2>2. t[x] + t[q] + (-1) = t[x] + t[q] - 1
        BY <1>4
    <2> QED
        BY <1>7, <2>1, <2>2 DEF WalkLoopIs
<1>10. b \in Byte
    <2>1. t[x] + t[q] - 1 \in Int
        BY <1>4
    <2> QED
        BY <2>1, ModByte
<1>11. u = Put(Put(t, q, 0), x, b)
    BY <1>1 DEF Walked
<1> HIDE DEF b
<1>12. Put(v, x, b) = u
    <2> DEFINE y == Put(v, x, b)
               z == Put(t, q, 0)
    <2>1. y \in Tapes /\ y[x] = b /\ \A c \in Cells : c # x => y[c] = v[c]
        BY <1>7, <1>10, PutIs
    <2>2. z \in Tapes /\ z[q] = 0 /\ \A c \in Cells : c # q => z[c] = t[c]
        BY <1>4, PutIs
    <2> HIDE DEF y, z
    <2>3. Put(z, x, b) \in Tapes /\ Put(z, x, b)[x] = b /\ \A c \in Cells : c # x => Put(z, x, b)[c] = z[c]
        BY <1>10, <2>2, PutIs
    <2>4. \A c \in Cells : y[c] = Put(z, x, b)[c]
        BY <1>6, <1>7, <2>1, <2>2, <2>3
    <2>5. y = Put(z, x, b)
        BY <2>1, <2>3, <2>4, SameTape
    <2> QED
        BY <1>11, <2>5 DEF y, z
<1>13. Reaches(s, p, S, Mk(v, x, from[i + 8], o, n), Mk(u, x, from[i + 9], o, n))
    <2>1. Reaches(s, p, S, Mk(v, x, from[i + 8], o, n),
                  Mk(Put(v, x, (v[x] + lk[i + 8].arg) % Mod), x, from[i + 8 + 1], o, n))
        BY <1>2, <1>3, <1>7, OpAdd DEF WalkLoopIs
    <2> QED
        BY <1>2, <1>9, <1>12, <2>1
<1>14. u \in Tapes
    BY <1>1, WalkedIs
<1>15. Reaches(s, p, S, Mk(u, x, from[i + 9], o, n), Mk(u, x, from[(IF u[x] = 0 THEN i + 9 ELSE i) + 1], o, n))
    <2>1. Reaches(s, p, S, Mk(u, x, from[i + 9], o, n),
                  Mk(u, x, from[(IF u[x] = 0 THEN i + 9 ELSE lk[i + 9].arg) + 1], o, n))
        <3>1. i + 9 \in 1 .. Len(lk) /\ Span(from, i + 9, i + 9 + 1) \subseteq S /\ lk[i + 9].op = "close"
            BY <1>2, <1>3 DEF WalkLoopIs
        <3>2. Coded(s, p, lk, from) /\ u \in Tapes /\ x \in Cells /\ o \in Seq(Byte) /\ n \in Seq(Byte)
            BY <1>14
        <3> QED
            BY ONLY <3>1, <3>2, OpClose
    <2> QED
        BY <2>1 DEF WalkLoopIs
<1>16. Reaches(s, p, S, Mk(t, q, from[i + 1], o, n), Mk(v, x, from[i + 8], o, n))
    BY <1>5, <1>8, ReachTrans
<1>17. Reaches(s, p, S, Mk(t, q, from[i + 1], o, n), Mk(u, x, from[i + 9], o, n))
    BY <1>13, <1>16, ReachTrans
<1> QED
    BY <1>15, <1>17, ReachTrans

\* A counter-walk that does not leave the tape ends where the interpreter's walk does.
WalkEnds(s, p, S, from, i, t, q, c, o, n, d) ==
    \/ Walk(Mk(t, q, c, o, n), d).failed
    \/ \E u \in Tapes, x \in Cells :
         /\ Walk(Mk(t, q, c, o, n), d) = Mk(u, x, c, o, n)
         /\ Reaches(s, p, S, Mk(t, q, from[i], o, n), Mk(u, x, from[i + 10], o, n))

LEMMA WalkLoop ==
    ASSUME NEW s, NEW p, NEW lk, NEW from, Coded(s, p, lk, from), NEW i \in 1 .. Len(lk),
           lk[i].op = "open", IsWalkLoop(lk, i), NEW S, Span(from, i, i + 10) \subseteq S,
           NEW d, d = lk[i + 2].arg, NEW t \in Tapes, NEW q \in Cells, NEW o \in Seq(Byte), NEW n \in Seq(Byte),
           NEW c \in Nat
    PROVE  WalkEnds(s, p, S, from, i, t, q, c, o, n, d)
<1>1. WalkLoopIs(lk, from, S, i, d)
    BY WalkParts
<1>2. i \in Nat /\ d \in Int /\ d # 0 /\ i \in 1 .. Len(lk) /\ Span(from, i, i + 1) \subseteq S /\ lk[i].arg = i + 9
    <2>1. i \in Nat /\ i \in i .. (i + 9)
        BY <1>1 DEF WalkLoopIs
    <2> QED
        BY <1>1, <2>1 DEF WalkLoopIs
<1> DEFINE Start == Mk(t, q, from[i], o, n)
           m == Mk(t, q, c, o, n)
           There(u, x) == Mk(u, x, from[(IF u[x] = 0 THEN i + 9 ELSE i) + 1], o, n)
           At1(k, a, u, x) ==
                a = Mk(u, x, c, o, n) /\ Reaches(s, p, S, Start, There(u, x)) /\ (u[x] # 0 => x = q + k * d)
<1>3. m \in Standing
    <2>1. q \in Int
        BY DEF Cells
    <2>2. m \in Machines /\ m.ptr = q
        BY <2>1, MkIs
    <2> QED
        BY <2>2 DEF Standing
<1>4. PICK after \in [0 .. TapeSize -> Standing] :
            /\ after[0] = m /\ after[TapeSize] = Walk(m, d)
            /\ \A k \in 1 .. TapeSize : after[k] = WalkOn(after[k - 1], d)
    BY <1>2, <1>3, WalkPasses
<1>5. TapeSize \in Nat /\ TapeSize >= 1 /\ q \in Int /\ q >= 0 /\ q < TapeSize
    BY MachineAssumption DEF Cells
<1> DEFINE T == {k \in 0 .. TapeSize : after[k].failed \/ \E u \in Tapes, x \in Cells : At1(k, after[k], u, x)}
<1> HIDE DEF m
<1>6. 0 \in T
    <2>1. Reaches(s, p, S, Start, Mk(t, q, from[(IF t[q] = 0 THEN lk[i].arg ELSE i) + 1], o, n))
        BY <1>1, <1>2, OpOpen
    <2>2. q = q + 0 * d
        BY ONLY <1>2, <1>5
    <2>3. At1(0, after[0], t, q)
        BY <1>2, <1>4, <2>1, <2>2 DEF m
    <2> HIDE DEF At1
    <2> QED
        BY <1>5, <2>3
<1>7. ASSUME NEW k \in 0 .. (TapeSize - 1), k \in T PROVE k + 1 \in T
    <2>1. k + 1 \in 1 .. TapeSize /\ k + 1 \in 0 .. TapeSize /\ k + 1 - 1 = k /\ k \in Int
        BY ONLY <1>5, k \in 0 .. (TapeSize - 1)
    <2>2. after[k + 1] = WalkOn(after[k], d)
        BY ONLY <1>4, <2>1
    <2>3. CASE after[k].failed
        <3>1. after[k + 1].failed
            BY <2>2, <2>3 DEF WalkOn
        <3> QED
            BY <2>1, <3>1
    <2>4. CASE ~after[k].failed
        <3>1. PICK u \in Tapes, x \in Cells : At1(k, after[k], u, x)
            BY <1>7, <2>4
        <3> DEFINE a == after[k]
        <3>2. a = Mk(u, x, c, o, n) /\ Reaches(s, p, S, Start, There(u, x)) /\ (u[x] # 0 => x = q + k * d)
            BY <3>1
        <3> HIDE DEF a
        <3>3. /\ u[x] = 0 => WalkOn(a, d) = a
              /\ u[x] # 0 /\ x + d \notin Cells => WalkOn(a, d) = Fail(a)
              /\ u[x] # 0 /\ x + d \in Cells => WalkOn(a, d) = Mk(Walked(u, x, d), x + d, c, o, n)
            <4>1. u \in Tapes /\ x \in Cells /\ d \in Int /\ d # 0 /\ a = Mk(u, x, c, o, n)
                BY <1>2, <3>2
            <4> QED
                BY ONLY <4>1, WalkOnIs
        <3>4. CASE u[x] = 0
            <4>1. At1(k + 1, after[k + 1], u, x)
                BY <2>2, <3>2, <3>3, <3>4 DEF a
            <4> HIDE DEF At1
            <4> QED
                BY <2>1, <4>1
        <3>5. CASE u[x] # 0 /\ x + d \notin Cells
            <4>1. Fail(a).failed
                BY <3>2 DEF Fail, Mk
            <4> QED
                BY <2>1, <2>2, <3>3, <3>5, <4>1 DEF a
        <3>6. CASE u[x] # 0 /\ x + d \in Cells
            <4> DEFINE y == x + d
                       w == Walked(u, x, d)
            <4>1. y \in Cells /\ w \in Tapes /\ y = x + d
                BY <1>2, <3>6, WalkedIs
            <4>2. after[k + 1] = Mk(w, y, c, o, n)
                BY <2>2, <3>3, <3>6 DEF a
            <4>3. Reaches(s, p, S, Mk(u, x, from[i + 1], o, n), There(w, y))
                <5>1. w = Walked(u, x, d)
                    OBVIOUS
                <5>2. Coded(s, p, lk, from) /\ u \in Tapes /\ x \in Cells /\ o \in Seq(Byte) /\ n \in Seq(Byte)
                    OBVIOUS
                <5> HIDE DEF w, y
                <5> QED
                    BY ONLY <1>1, <4>1, <5>1, <5>2, WalkPass
            <4>4. There(u, x) = Mk(u, x, from[i + 1], o, n)
                BY <3>6
            <4>5. Reaches(s, p, S, Start, There(w, y))
                BY <3>2, <4>3, <4>4, ReachTrans
            <4>6. y = q + (k + 1) * d
                <5>1. q + k * d + d = q + (k + 1) * d
                    BY ONLY <1>2, <1>5, <2>1, OneMore
                <5>2. x = q + k * d
                    BY <3>2, <3>6
                <5> QED
                    BY <4>1, <5>1, <5>2
            <4> HIDE DEF w, y
            <4>7. At1(k + 1, after[k + 1], w, y)
                BY <4>2, <4>5, <4>6
            <4> HIDE DEF At1
            <4> QED
                BY <2>1, <4>1, <4>7
        <3> QED
            BY <3>4, <3>5, <3>6
    <2> QED
        BY <2>3, <2>4
<1> HIDE DEF T
<1>8. 0 .. TapeSize \subseteq T
    BY <1>5, <1>6, <1>7, BoundedInd
<1>9. CASE after[TapeSize].failed
    BY <1>4, <1>9 DEF m, WalkEnds
<1>10. CASE ~after[TapeSize].failed
    <2>1. TapeSize \in T
        BY <1>5, <1>8
    <2>2. PICK u \in Tapes, x \in Cells : At1(TapeSize, after[TapeSize], u, x)
        BY <1>10, <2>1 DEF T
    <2>3. u[x] = 0
        <3>1. SUFFICES ASSUME u[x] # 0 PROVE FALSE
            OBVIOUS
        <3>2. x = q + TapeSize * d
            BY <2>2, <3>1
        <3>3. q + TapeSize * d \notin Cells
            BY ONLY <1>2, q \in Cells, OffTape
        <3> QED
            BY <3>2, <3>3
    <2>4. Walk(m, d) = Mk(u, x, c, o, n) /\ Reaches(s, p, S, Start, Mk(u, x, from[i + 10], o, n))
        <3>1. i + 9 + 1 = i + 10
            BY <1>2
        <3> QED
            BY <1>4, <2>2, <2>3, <3>1
    <2> QED
        BY <2>4 DEF m, Start, WalkEnds
<1> QED
    BY <1>9, <1>10

-----------------------------------------------------------------------------
(* A loop that multiplies. *)

\* What the first j of the pairs add to the cell at offset x.
Gain(pairs, x, j) ==
    LET sum[k \in 0 .. Len(pairs)] ==
            IF k = 0 THEN 0
            ELSE sum[k - 1] + (IF pairs[k].op = "add" /\ Offset(pairs, k) = x THEN pairs[k].arg ELSE 0)
    IN sum[j]

LEMMA GainStep ==
    ASSUME NEW pairs \in Seq(Instrs), NEW x
    PROVE  /\ Gain(pairs, x, 0) = 0
           /\ \A j \in 0 .. Len(pairs) : Gain(pairs, x, j) \in Int
           /\ \A j \in 1 .. Len(pairs) :
                Gain(pairs, x, j) =
                    Gain(pairs, x, j - 1)
                    + (IF pairs[j].op = "add" /\ Offset(pairs, j) = x THEN pairs[j].arg ELSE 0)
<1> DEFINE n == Len(pairs)
           by(k) == IF pairs[k].op = "add" /\ Offset(pairs, k) = x THEN pairs[k].arg ELSE 0
           f == [k \in 1 .. n |-> [y \in Int |-> y + by(k)]]
           Steps(g) == g = [k \in 0 .. n |-> IF k = 0 THEN 0 ELSE g[k - 1] + by(k)]
<1>1. n \in Nat /\ n = Len(pairs)
    OBVIOUS
<1>2. ASSUME NEW k \in 1 .. n PROVE by(k) \in Int
    <2>1. pairs[k] \in Instrs
        OBVIOUS
    <2> QED
        BY <2>1 DEF Instrs
<1>3. \A j : Gain(pairs, x, j) = (CHOOSE g : Steps(g))[j]
    BY DEF Gain
<1> HIDE DEF n, by
<1>4. f \in [1 .. n -> [Int -> Int]] /\ 0 \in Int
    BY <1>2
<1> HIDE DEF f
<1>5. PICK h : Iterated(h, n, Int, 0, f)
    BY ONLY <1>1, <1>4, Iterates
<1>6. h \in [0 .. n -> Int] /\ h[0] = 0 /\ \A k \in 1 .. n : h[k] = f[k][h[k - 1]]
    BY <1>5 DEF Iterated
<1>7. ASSUME NEW k \in 1 .. n PROVE h[k] = h[k - 1] + by(k)
    <2>1. k - 1 \in 0 .. n
        BY <1>1
    <2> QED
        BY <1>6, <2>1 DEF f
<1>8. Steps(h)
    <2>1. \A k \in 0 .. n : k # 0 => k \in 1 .. n
        BY <1>1
    <2> QED
        BY <1>6, <1>7, <2>1
<1> DEFINE sum == CHOOSE g : Steps(g)
<1>9. Steps(sum)
    BY <1>8
<1>10. \A j : Gain(pairs, x, j) = sum[j]
    BY <1>3
<1> HIDE DEF sum
<1>11. sum[0] = 0 /\ \A k \in 1 .. n : sum[k] = sum[k - 1] + by(k)
    <2>1. \A k \in 0 .. n : sum[k] = IF k = 0 THEN 0 ELSE sum[k - 1] + by(k)
        BY <1>9
    <2>2. 0 \in 0 .. n /\ \A k \in 1 .. n : k \in 0 .. n /\ k # 0
        BY <1>1
    <2> QED
        BY <2>1, <2>2
<1>12. \A k \in 0 .. n : sum[k] \in Int
    <2> DEFINE T == {k \in 0 .. n : sum[k] \in Int}
    <2>1. 0 \in T
        BY <1>1, <1>11
    <2>2. ASSUME NEW k \in 0 .. (n - 1), k \in T PROVE k + 1 \in T
        <3>1. k + 1 \in 1 .. n /\ k + 1 \in 0 .. n /\ k + 1 - 1 = k
            BY <1>1
        <3> QED
            BY <1>2, <1>11, <2>2, <3>1
    <2> HIDE DEF T
    <2>3. 0 .. n \subseteq T
        BY <1>1, <2>1, <2>2, BoundedInd
    <2> QED
        BY <2>3 DEF T
<1> QED
    BY <1>10, <1>11, <1>12 DEF n, by

\* The tape after the first j of the pairs.
Passed(u, q, pairs, j) == [c \in Cells |-> (u[c] + Gain(pairs, c - q, j)) % Mod]

LEMMA PassedIs ==
    ASSUME NEW u \in Tapes, NEW q \in Int, NEW pairs \in Seq(Instrs), NEW j \in 0 .. Len(pairs)
    PROVE  /\ Passed(u, q, pairs, j) \in Tapes
           /\ \A c \in Cells : /\ u[c] + Gain(pairs, c - q, j) \in Int
                               /\ Passed(u, q, pairs, j)[c] = (u[c] + Gain(pairs, c - q, j)) % Mod
<1>1. ASSUME NEW c \in Cells PROVE u[c] + Gain(pairs, c - q, j) \in Int
    <2>1. u[c] \in Int
        BY CellByte
    <2>2. Gain(pairs, c - q, j) \in Int
        BY GainStep
    <2> QED
        BY <2>1, <2>2
<1>2. \A c \in Cells : (u[c] + Gain(pairs, c - q, j)) % Mod \in Byte
    BY <1>1, ModByte
<1> QED
    BY <1>1, <1>2 DEF Passed, Tapes

\* One more of the pairs.
LEMMA PassedStep ==
    ASSUME NEW u \in Tapes, NEW q \in Int, NEW pairs \in Seq(Instrs), NEW j \in 1 .. Len(pairs)
    PROVE  /\ pairs[j].op # "add" => Passed(u, q, pairs, j) = Passed(u, q, pairs, j - 1)
           /\ pairs[j].op = "add" /\ q + Offset(pairs, j) \in Cells =>
                Passed(u, q, pairs, j) =
                    Put(Passed(u, q, pairs, j - 1), q + Offset(pairs, j),
                        (Passed(u, q, pairs, j - 1)[q + Offset(pairs, j)] + pairs[j].arg) % Mod)
<1>0. Len(pairs) \in Nat /\ j - 1 \in 0 .. Len(pairs) /\ j \in 0 .. Len(pairs)
    OBVIOUS
<1>1. \A x : Gain(pairs, x, j) = Gain(pairs, x, j - 1)
                + (IF pairs[j].op = "add" /\ Offset(pairs, j) = x THEN pairs[j].arg ELSE 0)
    BY GainStep
<1>2. \A x : Gain(pairs, x, j - 1) \in Int
    BY <1>0, GainStep
<1>3. pairs[j].arg \in Int /\ Offset(pairs, j) \in Int
    BY <1>0, OffsetStep, InstrFields
<1> DEFINE v == Passed(u, q, pairs, j - 1)
           w == Passed(u, q, pairs, j)
<1>4. v \in Tapes /\ \A c \in Cells : /\ u[c] + Gain(pairs, c - q, j - 1) \in Int
                                      /\ v[c] = (u[c] + Gain(pairs, c - q, j - 1)) % Mod
    BY <1>0, PassedIs
<1>5. w \in Tapes /\ \A c \in Cells : w[c] = (u[c] + Gain(pairs, c - q, j)) % Mod
    BY <1>0, PassedIs
<1>6. \A c \in Cells : u[c] \in Int /\ c \in Int
    BY CellByte DEF Cells
<1> HIDE DEF v, w
<1>7. CASE pairs[j].op # "add"
    <2>1. \A x : Gain(pairs, x, j) = Gain(pairs, x, j - 1)
        BY <1>1, <1>2, <1>7
    <2>2. \A c \in Cells : w[c] = v[c]
        BY <1>4, <1>5, <2>1
    <2> QED
        BY <1>4, <1>5, <1>7, <2>2, SameTape DEF v, w
<1>8. CASE pairs[j].op = "add" /\ q + Offset(pairs, j) \in Cells
    <2> DEFINE x == q + Offset(pairs, j)
               b == (v[x] + pairs[j].arg) % Mod
    <2>1. x \in Cells /\ x \in Int /\ x - q = Offset(pairs, j) /\ (\A c \in Cells : c - q = Offset(pairs, j) => c = x)
        BY <1>3, <1>6, <1>8
    <2>2. v[x] \in Int
        BY <1>4, <2>1, CellByte
    <2> HIDE DEF x
    <2>3. b \in Byte
        <3>1. v[x] + pairs[j].arg \in Int
            BY <1>3, <2>2
        <3> QED
            BY <3>1, ModByte
    <2>4. b = w[x]
        <3> DEFINE y == u[x] + Gain(pairs, x - q, j - 1)
        <3>1. y \in Int /\ v[x] = y % Mod
            BY <1>4, <2>1
        <3>2. w[x] = (u[x] + Gain(pairs, x - q, j)) % Mod
            BY <1>5, <2>1
        <3>3. Gain(pairs, x - q, j) = Gain(pairs, x - q, j - 1) + pairs[j].arg
            BY <1>1, <1>8, <2>1
        <3>4. u[x] + Gain(pairs, x - q, j) = y + pairs[j].arg
            BY <1>2, <1>3, <1>6, <2>1, <3>3
        <3> HIDE DEF y
        <3>5. ((y % Mod) + pairs[j].arg) % Mod = (y + pairs[j].arg) % Mod
            BY <1>3, <3>1, ModAdd
        <3> QED
            BY <3>1, <3>2, <3>4, <3>5
    <2>5. ASSUME NEW c \in Cells, c # x PROVE w[c] = v[c]
        <3>1. Gain(pairs, c - q, j) = Gain(pairs, c - q, j - 1)
            <4>1. Offset(pairs, j) # c - q
                BY <2>1, <2>5
            <4>2. Gain(pairs, c - q, j) = Gain(pairs, c - q, j - 1) + 0
                BY <1>1, <4>1
            <4> QED
                BY <1>2, <4>2
        <3> QED
            BY <1>4, <1>5, <3>1
    <2> HIDE DEF b
    <2>6. Put(v, x, b) \in Tapes /\ Put(v, x, b)[x] = b /\ \A c \in Cells : c # x => Put(v, x, b)[c] = v[c]
        BY <1>4, <2>1, <2>3, PutIs
    <2>7. \A c \in Cells : w[c] = Put(v, x, b)[c]
        BY <2>4, <2>5, <2>6
    <2>8. w = Put(v, x, b)
        BY <1>5, <2>6, <2>7, SameTape
    <2> QED
        BY <1>8, <2>8 DEF v, w, x, b
<1> QED
    BY <1>7, <1>8

\* The pairs of a loop, written from the instruction a on.
PairsAt(lk, from, S, pairs, a) ==
    /\ pairs \in Seq(Instrs) /\ a \in Nat
    /\ \A j \in 1 .. Len(pairs) :
        /\ pairs[j].op \in {"move", "add"} /\ a + j - 1 \in 1 .. Len(lk) /\ lk[a + j - 1] = pairs[j]
        /\ Span(from, a + j - 1, a + j) \subseteq S

\* Running them moves the pointer to where their moves lead, and adds what they add.
LEMMA RunPairs ==
    ASSUME NEW s, NEW p, NEW lk, NEW from, Coded(s, p, lk, from), NEW S, NEW pairs, NEW a,
           PairsAt(lk, from, S, pairs, a), NEW u \in Tapes, NEW q \in Int,
           \A j \in 1 .. Len(pairs) : pairs[j].op = "add" => q + Offset(pairs, j) \in Cells,
           NEW o \in Seq(Byte), NEW n \in Seq(Byte), NEW N, N = Len(pairs)
    PROVE  Reaches(s, p, S, Mk(u, q, from[a], o, n),
                   Mk(Passed(u, q, pairs, N), q + Offset(pairs, N), from[a + N], o, n))
<1>1. pairs \in Seq(Instrs) /\ N \in Nat /\ a \in Nat /\ N = Len(pairs)
    BY DEF PairsAt
<1> DEFINE Here(j) == Mk(Passed(u, q, pairs, j), q + Offset(pairs, j), from[a + j], o, n)
           T == {j \in 0 .. N : Reaches(s, p, S, Here(0), Here(j))}
<1>2. 0 \in T
    BY <1>1, ReachRefl
<1>3. ASSUME NEW j \in 1 .. N PROVE Reaches(s, p, S, Here(j - 1), Here(j))
    <2> DEFINE i == a + j - 1
               v == Passed(u, q, pairs, j - 1)
               x == q + Offset(pairs, j - 1)
    <2>0. j \in 1 .. N
        OBVIOUS
    <2>1. i \in Int /\ i = a + (j - 1) /\ i + 1 = a + j /\ j \in 1 .. Len(pairs) /\ j - 1 \in 0 .. Len(pairs)
        BY ONLY <1>1, <2>0
    <2>2. pairs[j].op \in {"move", "add"} /\ i \in 1 .. Len(lk) /\ lk[i] = pairs[j] /\ Span(from, i, a + j) \subseteq S
        BY <2>1 DEF PairsAt
    <2>3. v \in Tapes
        BY <1>1, <2>1, PassedIs
    <2>4. Offset(pairs, j - 1) \in Int /\ x \in Int /\ pairs[j].arg \in Int
        BY <1>1, <2>1, OffsetStep, InstrFields
    <2>5. Offset(pairs, j) = Offset(pairs, j - 1) + (IF pairs[j].op = "move" THEN pairs[j].arg ELSE 0)
        BY <1>1, <2>1, OffsetStep
    <2>6. /\ pairs[j].op # "add" => Passed(u, q, pairs, j) = v
          /\ pairs[j].op = "add" /\ q + Offset(pairs, j) \in Cells =>
                Passed(u, q, pairs, j) =
                    Put(v, q + Offset(pairs, j), (v[q + Offset(pairs, j)] + pairs[j].arg) % Mod)
        BY <1>1, <2>1, PassedStep
    <2>7. Here(j - 1) = Mk(v, x, from[i], o, n)
        BY <2>1
    <2>8. Span(from, i, i + 1) \subseteq S
        BY <2>1, <2>2
    <2> HIDE DEF i, v
    <2>9. CASE pairs[j].op = "move"
        <3>1. Reaches(s, p, S, Mk(v, x, from[i], o, n), Mk(v, x + lk[i].arg, from[i + 1], o, n))
            <4>1. lk[i].op = "move"
                BY <2>2, <2>9
            <4> HIDE DEF x
            <4> QED
                BY <2>2, <2>3, <2>4, <2>8, <4>1, OpMove
        <3>2. x + lk[i].arg = q + Offset(pairs, j)
            <4>1. q \in Int /\ lk[i].arg = pairs[j].arg
                BY <2>2
            <4>2. Offset(pairs, j) = Offset(pairs, j - 1) + pairs[j].arg
                BY <2>5, <2>9
            <4> QED
                BY ONLY <2>4, <4>1, <4>2
        <3>3. Passed(u, q, pairs, j) = v
            BY <2>6, <2>9
        <3>4. Mk(v, x + lk[i].arg, from[i + 1], o, n) = Here(j)
            BY <2>1, <3>2, <3>3
        <3> QED
            BY <2>7, <3>1, <3>4
    <2>10. CASE pairs[j].op = "add"
        <3>1. q + Offset(pairs, j) \in Cells /\ q + Offset(pairs, j) = x
            <4>1. q \in Int
                OBVIOUS
            <4>2. Offset(pairs, j) = Offset(pairs, j - 1) + 0
                BY <2>5, <2>10
            <4>3. q + Offset(pairs, j) = x
                BY ONLY <2>4, <4>1, <4>2
            <4> QED
                BY <2>1, <2>10, <4>3
        <3>2. Reaches(s, p, S, Mk(v, x, from[i], o, n),
                      Mk(Put(v, x, (v[x] + lk[i].arg) % Mod), x, from[i + 1], o, n))
            <4>1. lk[i].op = "add" /\ x \in Cells
                BY <2>2, <2>10, <3>1
            <4> HIDE DEF x
            <4> QED
                BY <2>2, <2>3, <2>8, <4>1, OpAdd
        <3>3. Passed(u, q, pairs, j) = Put(v, x, (v[x] + lk[i].arg) % Mod)
            BY <2>2, <2>6, <2>10, <3>1
        <3>4. Mk(Put(v, x, (v[x] + lk[i].arg) % Mod), x, from[i + 1], o, n) = Here(j)
            BY <2>1, <3>1, <3>3
        <3> QED
            BY <2>7, <3>2, <3>4
    <2> QED
        BY <2>2, <2>9, <2>10
<1>4. ASSUME NEW j \in 0 .. (N - 1), j \in T PROVE j + 1 \in T
    <2>1. j + 1 \in 1 .. N /\ j + 1 - 1 = j /\ j + 1 \in 0 .. N
        BY <1>1
    <2> HIDE DEF Here
    <2>2. Reaches(s, p, S, Here(j), Here(j + 1))
        BY <1>3, <2>1
    <2> QED
        BY <1>4, <2>1, <2>2, ReachTrans
<1> HIDE DEF T
<1>5. Reaches(s, p, S, Here(0), Here(N))
    <2>1. 0 .. N \subseteq T
        BY <1>1, <1>2, <1>4, BoundedInd
    <2>2. N \in T
        BY <1>1, <2>1
    <2> HIDE DEF Here
    <2> QED
        BY <2>2 DEF T
<1>6. Here(0) = Mk(u, q, from[a], o, n)
    <2>1. Offset(pairs, 0) = 0 /\ q + 0 = q /\ a + 0 = a
        BY <1>1, OffsetStep
    <2>2. Passed(u, q, pairs, 0) = u
        <3>1. 0 \in 0 .. Len(pairs)
            BY <1>1
        <3>2. \A c \in Cells : Passed(u, q, pairs, 0)[c] = u[c]
            <4> TAKE c \in Cells
            <4>1. Gain(pairs, c - q, 0) = 0 /\ u[c] \in Byte /\ u[c] \in Int
                BY <1>1, GainStep, CellByte
            <4>2. u[c] + Gain(pairs, c - q, 0) = u[c]
                BY <4>1
            <4>3. Passed(u, q, pairs, 0)[c] = (u[c] + Gain(pairs, c - q, 0)) % Mod
                BY <1>1, <3>1, PassedIs
            <4> QED
                BY <4>1, <4>2, <4>3, ModSmall
        <3>3. Passed(u, q, pairs, 0) \in Tapes
            BY <1>1, <3>1, PassedIs
        <3> QED
            BY <3>2, <3>3, SameTape
    <2> QED
        BY <2>1, <2>2
<1> QED
    BY <1>5, <1>6

\* A loop that multiplies: 2h + 1 instructions move and add, ending where they began, and
\* one counts down, before them or behind them.
MultLoopIs(lk, from, S, i, pairs, h, z) ==
    /\ i \in Nat /\ h \in Nat /\ h >= 1 /\ z = i + 2 * h + 3
    /\ pairs \in Seq(Instrs) /\ Len(pairs) = 2 * h + 1 /\ Offset(pairs, 2 * h + 1) = 0
    /\ \A j \in 1 .. (2 * h + 1) : pairs[j].op = IF j % 2 = 1 THEN "move" ELSE "add"
    /\ lk[i].op = "open" /\ lk[i].arg = z /\ lk[z].op = "close" /\ lk[z].arg = i
    /\ \A j \in i .. z : j \in 1 .. Len(lk) /\ Span(from, j, j + 1) \subseteq S
    /\ \/ /\ lk[i + 1].op = "add" /\ lk[i + 1].arg = -1
          /\ \A j \in 1 .. (2 * h + 1) : pairs[j] = lk[i + 1 + j]
       \/ /\ lk[z - 1].op = "add" /\ lk[z - 1].arg = -1
          /\ \A j \in 1 .. (2 * h + 1) : pairs[j] = lk[i + j]

LEMMA MultParts ==
    ASSUME NEW s, NEW p, NEW lk, NEW from, Coded(s, p, lk, from), NEW i \in 1 .. Len(lk),
           lk[i].op = "open", IsMultLoop(lk, i), NEW S, NEW z, z = lk[i].arg, Span(from, i, z + 1) \subseteq S,
           NEW pairs, pairs = Pairs(Body(lk, i)), NEW h, h = Len(pairs) \div 2
    PROVE  MultLoopIs(lk, from, S, i, pairs, h, z)
<1>1. z \in (i + 1) .. Len(lk) /\ lk[z].op = "close" /\ lk[z].arg = i
    BY PartnerOf
<1>2. lk \in Seq(Instrs) /\ Len(lk) \in Nat
    BY CodedIs
<1>3. h \in Nat /\ h >= 1 /\ Len(pairs) = 2 * h + 1
    BY <1>1, <1>2, MultOpsIs
<1>4. /\ Len(Body(lk, i)) >= 3 /\ (CountsDownFirst(Body(lk, i)) \/ CountsDownLast(Body(lk, i)))
      /\ \A j \in DOMAIN pairs : pairs[j].op = IF j % 2 = 1 THEN "move" ELSE "add"
      /\ Offset(pairs, Len(pairs)) = 0
    BY DEF IsMultLoop
<1>5. /\ pairs \in Seq(Instrs) /\ z = i + Len(pairs) + 2
      /\ \/ /\ lk[i + 1].op = "add" /\ lk[i + 1].arg = -1
            /\ \A k \in 1 .. Len(pairs) : pairs[k] = lk[i + 1 + k]
         \/ /\ lk[i + Len(pairs) + 1].op = "add" /\ lk[i + Len(pairs) + 1].arg = -1
            /\ \A k \in 1 .. Len(pairs) : pairs[k] = lk[i + k]
    <2>1. i \in 1 .. Len(lk) /\ lk[i].arg = z /\ pairs = Pairs(Body(lk, i)) /\ lk[i].arg \in (i + 1) .. Len(lk)
        BY <1>1
    <2> QED
        <3> DEFINE r == Pairs(Body(lk, i))
        <3>1. /\ r \in Seq(Instrs) /\ lk[i].arg = i + Len(r) + 2
              /\ \/ /\ lk[i + 1].op = "add" /\ lk[i + 1].arg = -1
                    /\ \A k \in 1 .. Len(r) : r[k] = lk[i + 1 + k]
                 \/ /\ lk[i + Len(r) + 1].op = "add" /\ lk[i + Len(r) + 1].arg = -1
                    /\ \A k \in 1 .. Len(r) : r[k] = lk[i + k]
            BY ONLY <1>2, <1>4, <2>1, PairsOf
        <3>2. pairs = r
            BY <2>1
        <3> HIDE DEF r
        <3> QED
            BY ONLY <2>1, <3>1, <3>2
<1>6. z = i + 2 * h + 3 /\ i + Len(pairs) + 1 = z - 1 /\ i \in Nat /\ z + 1 \in (i + 1) .. (Len(lk) + 1) /\ z + 1 - 1 = z
    <2>1. i \in 1 .. Len(lk)
        OBVIOUS
    <2>2. z = i + Len(pairs) + 2
        BY <1>5
    <2> QED
        BY ONLY <1>1, <1>2, <1>3, <2>1, <2>2
<1>7. \A j \in i .. (z + 1 - 1) : j \in 1 .. Len(lk) /\ Span(from, j, j + 1) \subseteq S
    <2> DEFINE e == z + 1
    <2>1. e \in (i + 1) .. (Len(lk) + 1) /\ Span(from, i, e) \subseteq S
        BY <1>6
    <2> HIDE DEF e
    <2>2. \A j \in i .. (e - 1) : j \in 1 .. Len(lk) /\ Span(from, j, j + 1) \subseteq S
        BY <2>1, Pieces
    <2>3. e - 1 = z
        BY <1>6 DEF e
    <2> QED
        BY ONLY <1>6, <2>2, <2>3
<1>8. DOMAIN pairs = 1 .. Len(pairs)
    BY <1>5
<1>9. /\ \A j \in 1 .. (2 * h + 1) : pairs[j].op = IF j % 2 = 1 THEN "move" ELSE "add"
      /\ Offset(pairs, 2 * h + 1) = 0
    BY <1>3, <1>4, <1>8
<1>10. \/ /\ lk[i + 1].op = "add" /\ lk[i + 1].arg = -1
          /\ \A j \in 1 .. (2 * h + 1) : pairs[j] = lk[i + 1 + j]
       \/ /\ lk[z - 1].op = "add" /\ lk[z - 1].arg = -1
          /\ \A j \in 1 .. (2 * h + 1) : pairs[j] = lk[i + j]
    BY <1>3, <1>5, <1>6
<1> QED
    BY <1>1, <1>3, <1>5, <1>6, <1>7, <1>9, <1>10 DEF MultLoopIs

\* The cells a multiplication adds to are on the tape, and none is the counter.
Targets(pairs, h, q) ==
    \A k \in 1 .. h : q + Offset(pairs, 2 * k - 1) \in Cells /\ Offset(pairs, 2 * k - 1) # 0

LEMMA TargetsAdd ==
    ASSUME NEW lk, NEW from, NEW S, NEW i, NEW pairs, NEW h, NEW z, MultLoopIs(lk, from, S, i, pairs, h, z),
           NEW q \in Cells, Targets(pairs, h, q)
    PROVE  /\ \A j \in 1 .. (2 * h + 1) :
                pairs[j].op = "add" => q + Offset(pairs, j) \in Cells /\ Offset(pairs, j) # 0
           /\ \A j \in 0 .. (2 * h + 1) : Gain(pairs, 0, j) = 0
<1>1. /\ h \in Nat /\ pairs \in Seq(Instrs) /\ Len(pairs) = 2 * h + 1
      /\ \A j \in 1 .. (2 * h + 1) : pairs[j].op = IF j % 2 = 1 THEN "move" ELSE "add"
    BY DEF MultLoopIs
<1>2. ASSUME NEW j \in 1 .. (2 * h + 1), pairs[j].op = "add"
      PROVE  q + Offset(pairs, j) \in Cells /\ Offset(pairs, j) # 0
    <2>1. j % 2 # 1
        BY <1>1, <1>2
    <2>2. \E k \in 1 .. h : j = 2 * k
        <3>1. j \in 1 .. (2 * h + 1)
            OBVIOUS
        <3>2. j \div 2 \in 1 .. h /\ j = 2 * (j \div 2)
            BY ONLY <1>1, <2>1, <3>1
        <3> QED
            BY <3>2
    <2>3. PICK k \in 1 .. h : j = 2 * k
        BY <2>2
    <2>4. j \in 1 .. Len(pairs) /\ j - 1 = 2 * k - 1 /\ j - 1 \in 0 .. Len(pairs)
        BY <1>1, <2>3
    <2>5. Offset(pairs, j) = Offset(pairs, j - 1) + 0 /\ Offset(pairs, j - 1) \in Int
        BY <1>1, <1>2, <2>4, OffsetStep
    <2>6. Offset(pairs, j) = Offset(pairs, 2 * k - 1)
        BY <2>4, <2>5
    <2> QED
        BY <2>6 DEF Targets
<1> DEFINE N == 2 * h + 1
           T == {j \in 0 .. N : Gain(pairs, 0, j) = 0}
<1>9. N \in Nat /\ N = Len(pairs)
    BY <1>1
<1> HIDE DEF N
<1>3. 0 \in T
    BY <1>1, <1>9, GainStep
<1>4. ASSUME NEW j \in 0 .. (N - 1), j \in T PROVE j + 1 \in T
    <2>1. j + 1 \in 1 .. N /\ j + 1 - 1 = j /\ j + 1 \in 0 .. N
        <3>1. j \in 0 .. (N - 1)
            OBVIOUS
        <3> QED
            BY ONLY <1>9, <3>1
    <2> DEFINE k == j + 1
               g == IF pairs[k].op = "add" /\ Offset(pairs, k) = 0 THEN pairs[k].arg ELSE 0
    <2>2. g = 0
        BY <1>2, <2>1 DEF N
    <2>3. Gain(pairs, 0, k) = Gain(pairs, 0, k - 1) + g
        <3>1. k \in 1 .. Len(pairs)
            BY <1>9, <2>1
        <3> HIDE DEF k
        <3> QED
            BY ONLY <1>1, <3>1, GainStep DEF g
    <2>4. Gain(pairs, 0, k) = 0
        BY <1>4, <2>1, <2>2, <2>3
    <2> QED
        BY <2>1, <2>4
<1> HIDE DEF T
<1>5. 0 .. N \subseteq T
    BY <1>9, <1>3, <1>4, BoundedInd
<1> QED
    BY <1>2, <1>5 DEF T, N

\* A turn of the loop, up to the closing bracket.
LEMMA MultTurn ==
    ASSUME NEW s, NEW p, NEW lk, NEW from, Coded(s, p, lk, from), NEW S, NEW i, NEW pairs, NEW h, NEW z,
           MultLoopIs(lk, from, S, i, pairs, h, z), NEW q \in Cells, Targets(pairs, h, q),
           NEW u \in Tapes, NEW w \in Byte, u[q] = w + 1, NEW o \in Seq(Byte), NEW n \in Seq(Byte),
           NEW N, N = 2 * h + 1, NEW v, v = Passed(u, q, pairs, N)
    PROVE  /\ v \in Tapes
           /\ Reaches(s, p, S, Mk(u, q, from[i + 1], o, n), Mk(Put(v, q, w), q, from[z], o, n))
<1>1. /\ i \in Nat /\ h \in Nat /\ h >= 1 /\ z = i + 2 * h + 3 /\ pairs \in Seq(Instrs) /\ Len(pairs) = N
      /\ N \in Nat /\ Offset(pairs, N) = 0 /\ N \in 0 .. Len(pairs) /\ z = i + N + 2
    BY DEF MultLoopIs
<1>2. /\ \A j \in i .. z : j \in 1 .. Len(lk) /\ Span(from, j, j + 1) \subseteq S
      /\ \A j \in 1 .. N : pairs[j].op \in {"move", "add"}
    BY DEF MultLoopIs
<1>3. /\ \A j \in 1 .. N : pairs[j].op = "add" => q + Offset(pairs, j) \in Cells
      /\ Gain(pairs, 0, N) = 0
    <2>1. /\ \A j \in 1 .. (2 * h + 1) :
                pairs[j].op = "add" => q + Offset(pairs, j) \in Cells /\ Offset(pairs, j) # 0
          /\ \A j \in 0 .. (2 * h + 1) : Gain(pairs, 0, j) = 0
        BY TargetsAdd
    <2>2. N \in 0 .. (2 * h + 1)
        BY <1>1
    <2> QED
        BY <2>1, <2>2
<1>4. /\ q \in Int /\ q + 0 = q /\ q - q = 0 /\ w \in Int /\ w + 1 + (-1) = w /\ w % Mod = w /\ u[q] \in Byte
      /\ u[q] + 0 = u[q] /\ u[q] % Mod = u[q] /\ w + 0 = w
    <2>1. w % Mod = w /\ u[q] \in Byte /\ u[q] % Mod = u[q]
        BY CellByte, ModSmall
    <2>2. q \in Int /\ w \in Int /\ u[q] \in Int
        BY <2>1 DEF Cells, Byte
    <2> QED
        BY <2>1, <2>2
<1>5. v \in Tapes /\ \A c \in Cells : v[c] = (u[c] + Gain(pairs, c - q, N)) % Mod
    BY <1>1, <1>4, PassedIs
<1>6. ASSUME NEW a \in Nat, NEW j \in 1 .. N, a \in {i + 1, i + 2} PROVE a + j - 1 \in i .. z /\ a + j = a + j - 1 + 1
    BY <1>1, <1>6
<1>7. CASE /\ lk[i + 1].op = "add" /\ lk[i + 1].arg = -1
           /\ \A j \in 1 .. N : pairs[j] = lk[i + 1 + j]
    <2> DEFINE x == Put(u, q, w)
    <2>1. x \in Tapes /\ x[q] = w /\ \A c \in Cells : c # q => x[c] = u[c]
        BY PutIs
    <2> HIDE DEF x
    <2>2. PairsAt(lk, from, S, pairs, i + 2)
        <3>1. ASSUME NEW j \in 1 .. N
              PROVE  /\ i + 2 + j - 1 \in 1 .. Len(lk) /\ lk[i + 2 + j - 1] = pairs[j]
                     /\ Span(from, i + 2 + j - 1, i + 2 + j) \subseteq S
            <4>1. i + 2 + j - 1 \in i .. z /\ i + 2 + j = i + 2 + j - 1 + 1 /\ i + 2 + j - 1 = i + 1 + j
                BY <1>1, <1>6
            <4> QED
                BY <1>2, <1>7, <4>1
        <3>2. i + 2 \in Nat
            BY <1>1
        <3> QED
            BY ONLY <1>1, <1>2, <3>1, <3>2 DEF PairsAt
    <2>3. Reaches(s, p, S, Mk(u, q, from[i + 1], o, n), Mk(x, q, from[i + 2], o, n))
        <3>1. i + 1 \in 1 .. Len(lk) /\ Span(from, i + 1, i + 1 + 1) \subseteq S /\ i + 1 + 1 = i + 2
            <4>1. i + 1 \in i .. z /\ i + 1 + 1 = i + 2
                BY <1>1
            <4> QED
                BY <1>2, <4>1
        <3>2. Reaches(s, p, S, Mk(u, q, from[i + 1], o, n),
                      Mk(Put(u, q, (u[q] + lk[i + 1].arg) % Mod), q, from[i + 1 + 1], o, n))
            BY <1>7, <3>1, OpAdd
        <3>3. (u[q] + lk[i + 1].arg) % Mod = w
            BY <1>4, <1>7
        <3> QED
            BY <3>1, <3>2, <3>3 DEF x
    <2>4. Reaches(s, p, S, Mk(x, q, from[i + 2], o, n), Mk(Passed(x, q, pairs, N), q, from[z], o, n))
        <3>1. Reaches(s, p, S, Mk(x, q, from[i + 2], o, n),
                      Mk(Passed(x, q, pairs, N), q + Offset(pairs, N), from[i + 2 + N], o, n))
            BY <1>1, <1>3, <1>4, <2>1, <2>2, RunPairs
        <3>2. i + 2 + N = z /\ q + Offset(pairs, N) = q
            BY <1>1, <1>4
        <3> QED
            BY <3>1, <3>2
    <2>5. Passed(x, q, pairs, N) = Put(v, q, w)
        <3> DEFINE y == Passed(x, q, pairs, N)
        <3>1. y \in Tapes /\ \A c \in Cells : y[c] = (x[c] + Gain(pairs, c - q, N)) % Mod
            BY <1>1, <1>4, <2>1, PassedIs
        <3>2. Put(v, q, w) \in Tapes /\ Put(v, q, w)[q] = w /\ \A c \in Cells : c # q => Put(v, q, w)[c] = v[c]
            BY <1>5, PutIs
        <3> HIDE DEF y
        <3>3. y[q] = w
            BY <1>3, <1>4, <2>1, <3>1
        <3>4. \A c \in Cells : y[c] = Put(v, q, w)[c]
            BY <1>5, <2>1, <3>1, <3>2, <3>3
        <3> QED
            BY <3>1, <3>2, <3>4, SameTape DEF y
    <2>6. Reaches(s, p, S, Mk(x, q, from[i + 2], o, n), Mk(Put(v, q, w), q, from[z], o, n))
        BY <2>4, <2>5
    <2> QED
        BY <1>5, <2>3, <2>6, ReachTrans
<1>8. CASE /\ lk[z - 1].op = "add" /\ lk[z - 1].arg = -1
           /\ \A j \in 1 .. N : pairs[j] = lk[i + j]
    <2>1. PairsAt(lk, from, S, pairs, i + 1)
        <3>1. ASSUME NEW j \in 1 .. N
              PROVE  /\ i + 1 + j - 1 \in 1 .. Len(lk) /\ lk[i + 1 + j - 1] = pairs[j]
                     /\ Span(from, i + 1 + j - 1, i + 1 + j) \subseteq S
            <4>1. i + 1 + j - 1 \in i .. z /\ i + 1 + j = i + 1 + j - 1 + 1 /\ i + 1 + j - 1 = i + j
                BY <1>1, <1>6
            <4> QED
                BY <1>2, <1>8, <4>1
        <3>2. i + 1 \in Nat /\ pairs \in Seq(Instrs) /\ Len(pairs) = N
            BY <1>1
        <3>3. \A j \in 1 .. N : pairs[j].op \in {"move", "add"}
            BY <1>2
        <3> QED
            BY ONLY <3>1, <3>2, <3>3 DEF PairsAt
    <2>2. Reaches(s, p, S, Mk(u, q, from[i + 1], o, n), Mk(v, q, from[z - 1], o, n))
        <3>1. Reaches(s, p, S, Mk(u, q, from[i + 1], o, n),
                      Mk(Passed(u, q, pairs, N), q + Offset(pairs, N), from[i + 1 + N], o, n))
            BY <1>1, <1>3, <1>4, <2>1, RunPairs
        <3>2. i + 1 + N = z - 1 /\ q + Offset(pairs, N) = q
            BY <1>1, <1>4
        <3> QED
            BY <3>1, <3>2
    <2>3. v[q] = w + 1
        BY <1>3, <1>4, <1>5
    <2>4. Reaches(s, p, S, Mk(v, q, from[z - 1], o, n), Mk(Put(v, q, w), q, from[z], o, n))
        <3> DEFINE y == z - 1
        <3>1. y \in 1 .. Len(lk) /\ Span(from, y, y + 1) \subseteq S /\ y + 1 = z
            <4>1. y \in i .. z /\ y + 1 = z
                BY <1>1
            <4> QED
                BY <1>2, <4>1
        <3>2. lk[y].op = "add" /\ lk[y].arg = -1
            BY <1>8
        <3> HIDE DEF y
        <3>3. Reaches(s, p, S, Mk(v, q, from[y], o, n),
                      Mk(Put(v, q, (v[q] + lk[y].arg) % Mod), q, from[y + 1], o, n))
            BY <1>5, <3>1, <3>2, OpAdd
        <3>4. (v[q] + lk[y].arg) % Mod = w
            BY <1>4, <2>3, <3>2
        <3>5. Reaches(s, p, S, Mk(v, q, from[y], o, n), Mk(Put(v, q, w), q, from[z], o, n))
            BY <3>1, <3>3, <3>4
        <3> QED
            BY <3>5 DEF y
    <2> QED
        BY <1>5, <2>2, <2>4, ReachTrans
<1> QED
    BY <1>7, <1>8 DEF MultLoopIs

\* The tape after w turns that count the cell down to 0.
Times(u, q, pairs, N, w) ==
    [c \in Cells |-> IF c = q THEN 0 ELSE (u[c] + w * Gain(pairs, c - q, N)) % Mod]

IsTimes(t, u, q, pairs, N, w) ==
    /\ t \in Tapes
    /\ \A c \in Cells : t[c] = IF c = q THEN 0 ELSE (u[c] + w * Gain(pairs, c - q, N)) % Mod

LEMMA TimesIs ==
    ASSUME NEW u \in Tapes, NEW q \in Int, NEW pairs \in Seq(Instrs), NEW N \in 0 .. Len(pairs), NEW w \in Int
    PROVE  IsTimes(Times(u, q, pairs, N, w), u, q, pairs, N, w)
<1>1. ASSUME NEW c \in Cells PROVE (u[c] + w * Gain(pairs, c - q, N)) % Mod \in Byte
    <2>1. u[c] \in Int /\ Gain(pairs, c - q, N) \in Int
        BY CellByte, GainStep
    <2>2. u[c] + w * Gain(pairs, c - q, N) \in Int
        BY <2>1
    <2> QED
        BY <2>2, ModByte
<1>2. 0 \in Byte
    BY ModByte
<1> QED
    BY <1>1, <1>2 DEF Times, Tapes, IsTimes

\* A turn, and w more.
LEMMA TimesStep ==
    ASSUME NEW u \in Tapes, NEW q \in Cells, NEW pairs \in Seq(Instrs), NEW N \in 0 .. Len(pairs), NEW w \in Byte,
           NEW r, r = Put(Passed(u, q, pairs, N), q, w)
    PROVE  /\ r \in Tapes /\ r[q] = w
           /\ Times(r, q, pairs, N, w) = Times(u, q, pairs, N, w + 1)
<1>1. q \in Int /\ w \in Int /\ w + 1 \in Int
    BY DEF Cells, Byte
<1> DEFINE v == Passed(u, q, pairs, N)
           y == Times(r, q, pairs, N, w)
           z == Times(u, q, pairs, N, w + 1)
<1>2. v \in Tapes /\ \A c \in Cells : v[c] = (u[c] + Gain(pairs, c - q, N)) % Mod
    BY <1>1, PassedIs
<1>3. r \in Tapes /\ r[q] = w /\ \A c \in Cells : c # q => r[c] = v[c]
    <2> HIDE DEF v
    <2>1. r = Put(v, q, w)
        BY DEF v
    <2> QED
        BY <1>2, <2>1, PutIs
<1>4. y \in Tapes /\ \A c \in Cells : y[c] = IF c = q THEN 0 ELSE (r[c] + w * Gain(pairs, c - q, N)) % Mod
    <2>1. pairs \in Seq(Instrs) /\ N \in 0 .. Len(pairs)
        OBVIOUS
    <2>2. IsTimes(y, r, q, pairs, N, w)
        BY ONLY <1>1, <1>3, <2>1, TimesIs
    <2> QED
        BY <2>2 DEF IsTimes
<1>5. z \in Tapes /\ \A c \in Cells : z[c] = IF c = q THEN 0 ELSE (u[c] + (w + 1) * Gain(pairs, c - q, N)) % Mod
    <2>1. pairs \in Seq(Instrs) /\ N \in 0 .. Len(pairs) /\ u \in Tapes
        OBVIOUS
    <2> QED
        <3>1. IsTimes(z, u, q, pairs, N, w + 1)
            BY ONLY <1>1, <2>1, TimesIs
        <3> QED
            BY <3>1 DEF IsTimes
<1> HIDE DEF v, y, z
<1>6. ASSUME NEW c \in Cells, c # q PROVE y[c] = z[c]
    <2> DEFINE g == Gain(pairs, c - q, N)
               x == u[c]
    <2>1. g \in Int /\ x \in Int
        BY CellByte, GainStep
    <2>2. r[c] = (x + g) % Mod
        BY <1>2, <1>3, <1>6
    <2>3. y[c] = (r[c] + w * g) % Mod /\ z[c] = (x + (w + 1) * g) % Mod
        BY <1>4, <1>5, <1>6
    <2> HIDE DEF g, x
    <2>4. x + g \in Int /\ w * g \in Int /\ x + g + w * g = x + (w + 1) * g
        <3>1. w * g \in Int /\ (w + 1) * g = w * g + g
            BY ONLY <1>1, <2>1
        <3> DEFINE e == w * g
                   f == (w + 1) * g
        <3>2. e \in Int /\ f = e + g
            BY <3>1
        <3> HIDE DEF e, f
        <3>3. x + g \in Int /\ x + g + e = x + f
            BY ONLY <2>1, <3>2
        <3> QED
            BY <3>2, <3>3 DEF e, f
    <2>5. (((x + g) % Mod) + w * g) % Mod = (x + g + w * g) % Mod
        BY <2>4, ModAdd
    <2> QED
        BY <2>2, <2>3, <2>4, <2>5
<1>7. \A c \in Cells : y[c] = z[c]
    BY <1>4, <1>5, <1>6
<1> QED
    BY <1>3, <1>4, <1>5, <1>7, SameTape DEF y, z

\* The whole loop, from a cell that is not 0.
LEMMA MultTurns ==
    ASSUME NEW s, NEW p, NEW lk, NEW from, Coded(s, p, lk, from), NEW S, NEW i, NEW pairs, NEW h, NEW z,
           MultLoopIs(lk, from, S, i, pairs, h, z), NEW q \in Cells, Targets(pairs, h, q),
           NEW t \in Tapes, NEW o \in Seq(Byte), NEW n \in Seq(Byte), NEW N, N = 2 * h + 1, t[q] # 0
    PROVE  Reaches(s, p, S, Mk(t, q, from[i], o, n), Mk(Times(t, q, pairs, N, t[q]), q, from[z + 1], o, n))
<1>1. /\ i \in Nat /\ h \in Nat /\ z = i + 2 * h + 3 /\ pairs \in Seq(Instrs) /\ N \in 0 .. Len(pairs)
      /\ z \in i .. z /\ i \in i .. z /\ Mod \in Nat /\ Mod >= 2 /\ q \in Int
    BY MachineAssumption DEF MultLoopIs, Cells
<1>2. \A j \in i .. z : j \in 1 .. Len(lk) /\ Span(from, j, j + 1) \subseteq S
    BY DEF MultLoopIs
<1>3. lk[i].op = "open" /\ lk[z].op = "close" /\ lk[z].arg = i
    BY DEF MultLoopIs
<1> DEFINE Inside(u) == Mk(u, q, from[i + 1], o, n)
           Total(u, w) == Times(u, q, pairs, N, w)
           End(u, w) == Mk(Total(u, w), q, from[z + 1], o, n)
           G == {w \in 0 .. (Mod - 1) : w = 0 \/ \A u \in Tapes : u[q] = w => Reaches(s, p, S, Inside(u), End(u, w))}
<1>4. ASSUME NEW w \in 0 .. (Mod - 2), w \in G PROVE w + 1 \in G
    <2>0. w + 1 \in 0 .. (Mod - 1) /\ w \in Byte
        BY <1>1 DEF Byte
    <2>1. ASSUME NEW u \in Tapes, u[q] = w + 1 PROVE Reaches(s, p, S, Inside(u), End(u, w + 1))
        <3> DEFINE r == Put(Passed(u, q, pairs, N), q, w)
        <3>1. r \in Tapes /\ r[q] = w /\ Total(r, w) = Total(u, w + 1)
            BY <1>1, <2>0, TimesStep
        <3>2. Reaches(s, p, S, Mk(u, q, from[i + 1], o, n), Mk(r, q, from[z], o, n))
            BY <2>0, <2>1, MultTurn
        <3> HIDE DEF r, Total
        <3>3. Reaches(s, p, S, Mk(r, q, from[z], o, n),
                      Mk(r, q, from[(IF r[q] = 0 THEN z ELSE lk[z].arg) + 1], o, n))
            <4>1. /\ z \in 1 .. Len(lk) /\ Span(from, z, z + 1) \subseteq S /\ Coded(s, p, lk, from) /\ q \in Cells
                  /\ o \in Seq(Byte) /\ n \in Seq(Byte)
                BY <1>1, <1>2
            <4> QED
                BY ONLY <1>3, <3>1, <4>1, OpClose
        <3>4. CASE w = 0
            <4>0. IsTimes(Total(r, w), r, q, pairs, N, w)
                BY <1>1, <3>1, <3>4, TimesIs DEF Total
            <4>1. Total(r, w) = r
                <5>1. \A c \in Cells : Total(r, w)[c] = r[c]
                    <6> TAKE c \in Cells
                    <6>1. Total(r, w)[c] = IF c = q THEN 0 ELSE (r[c] + w * Gain(pairs, c - q, N)) % Mod
                        BY <4>0 DEF IsTimes
                    <6>2. Gain(pairs, c - q, N) \in Int /\ r[c] \in Byte /\ r[c] \in Int
                        BY <1>1, <3>1, GainStep, CellByte
                    <6>3. r[c] + w * Gain(pairs, c - q, N) = r[c]
                        BY <3>4, <6>2
                    <6>4. r[c] % Mod = r[c]
                        BY <6>2, ModSmall
                    <6> QED
                        BY <3>1, <3>4, <6>1, <6>3, <6>4
                <5>2. Total(r, w) \in Tapes
                    BY <4>0 DEF IsTimes
                <5> QED
                    BY <3>1, <5>1, <5>2, SameTape
            <4>2. Mk(r, q, from[(IF r[q] = 0 THEN z ELSE lk[z].arg) + 1], o, n) = End(u, w + 1)
                BY <3>1, <3>4, <4>1
            <4> HIDE DEF End
            <4> QED
                BY <3>2, <3>3, <4>2, ReachTrans
        <3>5. CASE w # 0
            <4>1. Mk(r, q, from[(IF r[q] = 0 THEN z ELSE lk[z].arg) + 1], o, n) = Inside(r)
                BY <1>3, <3>1, <3>5
            <4>2. Reaches(s, p, S, Inside(r), End(r, w))
                BY <1>4, <3>1, <3>5
            <4>3. End(r, w) = End(u, w + 1)
                BY <3>1
            <4>4. Reaches(s, p, S, Inside(u), Inside(r))
                BY <3>2, <3>3, <4>1, ReachTrans
            <4> HIDE DEF End, Inside
            <4> QED
                BY <4>2, <4>3, <4>4, ReachTrans
        <3> QED
            BY <3>4, <3>5
    <2> HIDE DEF End, Inside
    <2> QED
        BY <2>0, <2>1
<1>5. 0 .. (Mod - 1) \subseteq G
    <2>1. 0 \in G
        BY <1>1
    <2>2. Mod - 1 \in Nat /\ Mod - 1 - 1 = Mod - 2
        BY <1>1
    <2> HIDE DEF G
    <2> QED
        BY <1>4, <2>1, <2>2, BoundedInd
<1>6. Reaches(s, p, S, Inside(t), End(t, t[q]))
    <2>1. t[q] \in G
        BY <1>5, CellByte DEF Byte
    <2> QED
        BY <2>1
<1>7. Reaches(s, p, S, Mk(t, q, from[i], o, n), Inside(t))
    <2>1. Reaches(s, p, S, Mk(t, q, from[i], o, n), Mk(t, q, from[(IF t[q] = 0 THEN lk[i].arg ELSE i) + 1], o, n))
        BY <1>1, <1>2, <1>3, OpOpen
    <2> QED
        BY <2>1
<1> QED
    BY <1>6, <1>7, ReachTrans

\* One opMult, on a tape.
AddTo(x, q, v, ins) == [x EXCEPT ![q + ins.arg] = (@ + v * ins.factor) % Mod]

LEMMA AddToIs ==
    ASSUME NEW x \in Tapes, NEW q \in Int, NEW v \in Int, NEW ins \in Instrs, NEW e, e = q + ins.arg, e \in Cells
    PROVE  /\ AddTo(x, q, v, ins) \in Tapes /\ AddTo(x, q, v, ins)[e] = (x[e] + v * ins.factor) % Mod
           /\ \A c \in Cells : c # e => AddTo(x, q, v, ins)[c] = x[c]
<1>1. x[e] \in Int /\ ins.factor \in Int
    BY CellByte, InstrFields DEF Byte
<1> DEFINE b == (x[e] + v * ins.factor) % Mod
<1>2. b \in Byte
    <2>1. v * ins.factor \in Int
        BY <1>1
    <2>2. x[e] + v * ins.factor \in Int
        BY <1>1, <2>1
    <2> QED
        BY <2>2, ModByte
<1>3. AddTo(x, q, v, ins) = Put(x, e, b)
    BY DEF AddTo, Put, Tapes
<1> HIDE DEF b
<1>4. Put(x, e, b) \in Tapes /\ Put(x, e, b)[e] = b /\ \A c \in Cells : c # e => Put(x, e, b)[c] = x[c]
    BY <1>2, PutIs
<1> QED
    BY <1>3, <1>4 DEF b

\* The tapes of a run of opMults.
Adds(added, t, q, mults, h) ==
    /\ added \in [0 .. h -> Tapes] /\ added[0] = t
    /\ \A k \in 1 .. h : added[k] = AddTo(added[k - 1], q, t[q], mults[k])

\* A run of h opMults left the tape u.
Multiplied(ops, m, t, q, c, o, n, h, u) == Multiply(ops, m) = Mk(u, q, c + h + 1, o, n)

AddsUp(ops, m, t, q, c, o, n, mults, h) ==
    \E added : Adds(added, t, q, mults, h) /\ Multiplied(ops, m, t, q, c, o, n, h, Put(added[h], q, 0))

\* What the interpreter does for a run of opMults.
LEMMA MultiplySteps ==
    ASSUME NEW ops, NEW t \in Tapes, NEW q \in Cells, NEW c, NEW o, NEW n, NEW m, m = Mk(t, q, c, o, n),
           NEW mults \in Seq(Instrs), Mults(ops, m) = mults, NEW h, h = Len(mults), t[q] # 0,
           \A k \in 1 .. h : q + mults[k].arg \in Cells
    PROVE  AddsUp(ops, m, t, q, c, o, n, mults, h)
<1> DEFINE v == t[q]
           f == [k \in 1 .. h |-> [x \in Tapes |-> AddTo(x, q, v, mults[k])]]
           Steps(g) == g = [k \in 0 .. h |-> IF k = 0 THEN t ELSE AddTo(g[k - 1], q, v, mults[k])]
           added == CHOOSE g : Steps(g)
           next == [m EXCEPT !.pc = @ + h + 1]
<1>1. h \in Nat /\ q \in Int /\ v \in Int /\ v # 0 /\ DOMAIN mults = 1 .. h
    BY CellByte DEF Cells
<1>2. m.tape = t /\ m.ptr = q /\ Current(m) = v /\ m.pc = c
    BY DEF Mk, Current
<1>3. ~(\E k \in DOMAIN mults : q + mults[k].arg \notin Cells)
    BY <1>1
<1>4. Multiply(ops, m) = [next EXCEPT !.tape = [added[h] EXCEPT ![q] = 0]]
    <2> HIDE DEF v
    <2> QED
        BY <1>1, <1>2, <1>3 DEF Multiply, AddTo
<1>5. \A k \in 1 .. h : mults[k] \in Instrs /\ q + mults[k].arg \in Cells
    BY <1>1
<1> HIDE DEF v
<1>6. f \in [1 .. h -> [Tapes -> Tapes]] /\ t \in Tapes
    <2>1. ASSUME NEW k \in 1 .. h, NEW x \in Tapes PROVE AddTo(x, q, v, mults[k]) \in Tapes
        BY <1>1, <1>5, AddToIs
    <2> QED
        BY <2>1
<1> HIDE DEF f
<1>7. PICK g : Iterated(g, h, Tapes, t, f)
    BY ONLY <1>1, <1>6, Iterates
<1>8. g \in [0 .. h -> Tapes] /\ g[0] = t /\ \A k \in 1 .. h : g[k] = f[k][g[k - 1]]
    BY <1>7 DEF Iterated
<1>9. ASSUME NEW k \in 1 .. h PROVE g[k] = AddTo(g[k - 1], q, v, mults[k])
    <2>1. k - 1 \in 0 .. h
        BY <1>1
    <2> QED
        BY <1>8, <2>1 DEF f
<1>10. Steps(g)
    <2>1. \A k \in 0 .. h : k # 0 => k \in 1 .. h
        BY <1>1
    <2> QED
        BY <1>8, <1>9, <2>1
<1>11. Steps(added)
    BY <1>10
<1> HIDE DEF added
<1>12. added[0] = t /\ \A k \in 1 .. h : added[k] = AddTo(added[k - 1], q, v, mults[k])
    <2>1. \A k \in 0 .. h : added[k] = IF k = 0 THEN t ELSE AddTo(added[k - 1], q, v, mults[k])
        BY <1>11
    <2>2. 0 \in 0 .. h /\ \A k \in 1 .. h : k \in 0 .. h /\ k # 0
        BY <1>1
    <2> QED
        BY <2>1, <2>2
<1>13. \A k \in 0 .. h : added[k] \in Tapes
    <2> DEFINE T == {k \in 0 .. h : added[k] \in Tapes}
    <2>1. 0 \in T
        BY <1>1, <1>12
    <2>2. ASSUME NEW k \in 0 .. (h - 1), k \in T PROVE k + 1 \in T
        <3>1. k + 1 \in 1 .. h /\ k + 1 \in 0 .. h /\ k + 1 - 1 = k
            BY <1>1
        <3> DEFINE j == k + 1
        <3>2. added[j] = AddTo(added[k], q, v, mults[j])
            BY <1>12, <3>1
        <3>3. mults[j] \in Instrs /\ q + mults[j].arg \in Cells
            BY <1>5, <3>1
        <3> HIDE DEF j
        <3>4. AddTo(added[k], q, v, mults[j]) \in Tapes
            BY <1>1, <2>2, <3>3, AddToIs
        <3> QED
            BY <3>1, <3>2, <3>4 DEF j
    <2> HIDE DEF T
    <2>3. 0 .. h \subseteq T
        BY <1>1, <2>1, <2>2, BoundedInd
    <2> QED
        BY <2>3 DEF T
<1>14. added \in [0 .. h -> Tapes]
    BY <1>11, <1>13
<1>15. Multiply(ops, m) = Mk(Put(added[h], q, 0), q, c + h + 1, o, n)
    <2> DEFINE u == Put(added[h], q, 0)
               r == [next EXCEPT !.tape = u]
               y == c + h + 1
    <2>1. Multiply(ops, m) = r
        BY <1>4 DEF Put
    <2>2. next = [m EXCEPT !.pc = y]
        BY <1>2
    <2>3. m = Mk(t, q, c, o, n) /\ r = [next EXCEPT !.tape = u]
        OBVIOUS
    <2> HIDE DEF u, r, y, next
    <2>4. next = Mk(t, q, y, o, n)
        BY ONLY <2>2, <2>3 DEF Mk
    <2>5. r = Mk(u, q, y, o, n)
        BY ONLY <2>3, <2>4 DEF Mk
    <2> QED
        BY <2>1, <2>5 DEF u, y
<1>16. Adds(added, t, q, mults, h)
    BY <1>12, <1>14 DEF v, Adds
<1> QED
    BY <1>15, <1>16 DEF AddsUp, Multiplied

\* What a pair adds: nothing by its move, and the argument of its addition.
LEMMA GainPair ==
    ASSUME NEW lk, NEW from, NEW S, NEW i, NEW pairs, NEW h, NEW z, MultLoopIs(lk, from, S, i, pairs, h, z),
           NEW k \in 1 .. h, NEW x
    PROVE  /\ Gain(pairs, x, 2 * k) = Gain(pairs, x, 2 * (k - 1))
                                        + (IF Offset(pairs, 2 * k - 1) = x THEN pairs[2 * k].arg ELSE 0)
           /\ pairs[2 * k].arg \in Int /\ Offset(pairs, 2 * k - 1) \in Int /\ Gain(pairs, x, 2 * (k - 1)) \in Int
<1>1. /\ h \in Nat /\ pairs \in Seq(Instrs) /\ Len(pairs) = 2 * h + 1
      /\ \A j \in 1 .. (2 * h + 1) : pairs[j].op = IF j % 2 = 1 THEN "move" ELSE "add"
    BY DEF MultLoopIs
<1> DEFINE a == 2 * k - 1
           b == 2 * k
<1>2. /\ a \in 1 .. (2 * h + 1) /\ b \in 1 .. (2 * h + 1) /\ a % 2 = 1 /\ b % 2 # 1
      /\ b - 1 = a /\ a - 1 = 2 * (k - 1) /\ a - 1 \in 0 .. (2 * h + 1) /\ a \in 0 .. (2 * h + 1)
    BY <1>1
<1> HIDE DEF a, b
<1>3. pairs[a].op = "move" /\ pairs[b].op = "add"
    BY <1>1, <1>2
<1>4. a \in 1 .. Len(pairs) /\ b \in 1 .. Len(pairs) /\ a - 1 \in 0 .. Len(pairs) /\ a \in 0 .. Len(pairs)
    BY <1>1, <1>2
<1>5. Gain(pairs, x, a) = Gain(pairs, x, a - 1) + 0 /\ Gain(pairs, x, a - 1) \in Int
    BY <1>1, <1>3, <1>4, GainStep
<1>6. Gain(pairs, x, b) = Gain(pairs, x, a) + (IF Offset(pairs, b) = x THEN pairs[b].arg ELSE 0)
    BY <1>1, <1>2, <1>3, <1>4, GainStep
<1>7. Offset(pairs, b) = Offset(pairs, a) + 0 /\ Offset(pairs, a) \in Int
    BY <1>1, <1>2, <1>3, <1>4, OffsetStep
<1>8. Offset(pairs, b) = Offset(pairs, a)
    BY <1>7
<1>9. pairs[b].arg \in Int
    BY <1>1, <1>4, InstrFields
<1>10. Gain(pairs, x, a) = Gain(pairs, x, a - 1)
    BY <1>5
<1>11. Gain(pairs, x, b) = Gain(pairs, x, a - 1) + (IF Offset(pairs, a) = x THEN pairs[b].arg ELSE 0)
    BY <1>6, <1>8, <1>10
<1> QED
    BY <1>2, <1>5, <1>7, <1>9, <1>11 DEF a, b

\* The interpreter's multiplication is the turns of the loop.
LEMMA MultiplyIs ==
    ASSUME NEW lk, NEW from, NEW S, NEW i, NEW pairs, NEW h, NEW z, MultLoopIs(lk, from, S, i, pairs, h, z),
           NEW ops, NEW t \in Tapes, NEW q \in Cells, Targets(pairs, h, q), NEW c, NEW o, NEW n,
           NEW m, m = Mk(t, q, c, o, n), NEW mults \in Seq(Instrs), Mults(ops, m) = mults, h = Len(mults),
           \A k \in 1 .. h : mults[k].arg = Offset(pairs, 2 * k - 1) /\ mults[k].factor = pairs[2 * k].arg % Mod,
           t[q] # 0
    PROVE  Multiplied(ops, m, t, q, c, o, n, h, Times(t, q, pairs, 2 * h + 1, t[q]))
<1> DEFINE v == t[q]
           N == 2 * h + 1
<1>1. /\ h \in Nat /\ pairs \in Seq(Instrs) /\ Len(pairs) = N /\ N \in 0 .. Len(pairs) /\ N \in 1 .. Len(pairs)
      /\ N - 1 = 2 * h /\ N % 2 = 1 /\ 2 * h \in 0 .. Len(pairs)
      /\ \A j \in 1 .. N : pairs[j].op = IF j % 2 = 1 THEN "move" ELSE "add"
    <2>1. h \in Nat /\ pairs \in Seq(Instrs) /\ Len(pairs) = N
          /\ \A j \in 1 .. N : pairs[j].op = IF j % 2 = 1 THEN "move" ELSE "add"
        BY DEF MultLoopIs
    <2>2. N \in 0 .. N /\ N \in 1 .. N /\ N - 1 = 2 * h /\ N % 2 = 1 /\ 2 * h \in 0 .. N
        BY <2>1
    <2> QED
        BY <2>1, <2>2
<1>2. q \in Int /\ v \in Int
    BY CellByte DEF Cells
<1>3. \A k \in 1 .. h : q + mults[k].arg \in Cells
    BY DEF Targets
<1>0. PICK added : Adds(added, t, q, mults, h) /\ Multiplied(ops, m, t, q, c, o, n, h, Put(added[h], q, 0))
    <2>1. /\ t \in Tapes /\ q \in Cells /\ m = Mk(t, q, c, o, n) /\ mults \in Seq(Instrs) /\ Mults(ops, m) = mults
          /\ h = Len(mults) /\ t[q] # 0
        OBVIOUS
    <2> QED
        BY ONLY <1>3, <2>1, MultiplySteps DEF AddsUp
<1>4. /\ added \in [0 .. h -> Tapes] /\ added[0] = t
      /\ \A k \in 1 .. h : added[k] = AddTo(added[k - 1], q, v, mults[k])
      /\ Multiply(ops, m) = Mk(Put(added[h], q, 0), q, c + h + 1, o, n)
    BY <1>0 DEF Adds, Multiplied
<1> HIDE DEF v, N
<1> DEFINE Sum(x, k) == v * Gain(pairs, x - q, 2 * k)
           T == {k \in 0 .. h : \A x \in Cells : added[k][x] = (t[x] + Sum(x, k)) % Mod}
<1>5. 0 \in T
    <2>1. ASSUME NEW x \in Cells PROVE added[0][x] = (t[x] + Sum(x, 0)) % Mod
        <3>1. t[x] \in Byte /\ t[x] \in Int
            BY CellByte
        <3>2. Gain(pairs, x - q, 2 * 0) = 0
            BY <1>1, GainStep
        <3>3. t[x] + Sum(x, 0) = t[x]
            BY <1>2, <3>1, <3>2
        <3> QED
            BY <1>4, <3>1, <3>3, ModSmall
    <2> QED
        BY <1>1, <2>1
<1>6. ASSUME NEW k \in 0 .. (h - 1), k \in T PROVE k + 1 \in T
    <2> DEFINE j == k + 1
    <2>1. j \in 1 .. h /\ j \in 0 .. h /\ j - 1 = k /\ k \in 0 .. h
        BY <1>1
    <2> HIDE DEF j
    <2> DEFINE e == q + mults[j].arg
               d == Offset(pairs, 2 * j - 1)
               a == pairs[2 * j].arg
               g(x) == Gain(pairs, x - q, 2 * k)
    <2>2. /\ mults[j] \in Instrs /\ mults[j].arg = d /\ mults[j].factor = a % Mod /\ e \in Cells
          /\ added[k] \in Tapes /\ added[j] = AddTo(added[k], q, v, mults[j]) /\ added[j] \in Tapes
        <3>1. mults[j] \in Instrs
            BY <2>1
        <3>2. mults[j].arg = d /\ mults[j].factor = a % Mod /\ e \in Cells
            BY <1>3, <2>1
        <3>3. added[j] = AddTo(added[j - 1], q, v, mults[j])
            BY <1>4, <2>1
        <3>4. added[k] \in Tapes /\ added[j] \in Tapes
            BY <1>4, <2>1
        <3>5. added[j] = AddTo(added[k], q, v, mults[j])
            BY ONLY <2>1, <3>3
        <3> QED
            BY <3>1, <3>2, <3>4, <3>5
    <2>3. /\ a \in Int /\ d \in Int
          /\ \A x : Gain(pairs, x - q, 2 * j) = g(x) + (IF d = x - q THEN a ELSE 0) /\ g(x) \in Int
        BY <2>1, GainPair
    <2>4. e = q + d
        BY <2>2
    <2> HIDE DEF e, d, a
    <2>5. /\ AddTo(added[k], q, v, mults[j])[e] = (added[k][e] + v * mults[j].factor) % Mod
          /\ \A x \in Cells : x # e => AddTo(added[k], q, v, mults[j])[x] = added[k][x]
        <3>1. e = q + mults[j].arg
            BY DEF e
        <3> QED
            BY ONLY <1>2, <2>2, <3>1, AddToIs
    <2>6. added[j][e] = (added[k][e] + v * (a % Mod)) % Mod /\ \A x \in Cells : x # e => added[j][x] = added[k][x]
        BY <2>2, <2>5
    <2>7. ASSUME NEW x \in Cells PROVE added[j][x] = (t[x] + Sum(x, j)) % Mod
        <3>1. t[x] \in Int /\ x \in Int /\ g(x) \in Int
            <4>1. t[x] \in Int /\ x \in Int
                BY CellByte DEF Cells
            <4>2. g(x) \in Int
                BY <2>3
            <4> QED
                BY <4>1, <4>2
        <3>2. added[k][x] = (t[x] + v * g(x)) % Mod
            BY <1>6
        <3> HIDE DEF g
        <3>3. CASE x = e
            <4>1. Gain(pairs, x - q, 2 * j) = g(x) + a
                <5>1. d = x - q
                    BY <1>2, <2>3, <2>4, <3>1, <3>3
                <5> QED
                    BY <2>3, <5>1
            <4> DEFINE y == t[x] + v * g(x)
            <4>2. y \in Int /\ y + v * a = t[x] + v * (g(x) + a)
                <5>1. v * g(x) \in Int /\ v * a \in Int /\ v * (g(x) + a) = v * g(x) + v * a
                    <6>1. v \in Int /\ g(x) \in Int /\ a \in Int
                        BY <1>2, <2>3, <3>1
                    <6> DEFINE b == g(x)
                    <6> HIDE DEF b
                    <6>2. v * b \in Int /\ v * a \in Int /\ v * (b + a) = v * b + v * a
                        BY ONLY <6>1 DEF b
                    <6> QED
                        BY <6>2 DEF b
                <5> DEFINE b == v * g(x)
                           f == v * a
                           w == v * (g(x) + a)
                <5>2. b \in Int /\ f \in Int /\ w = b + f
                    BY <5>1
                <5> HIDE DEF b, f, w
                <5>3. t[x] + b \in Int /\ t[x] + b + f = t[x] + w
                    <6>1. t[x] \in Int
                        BY <3>1
                    <6> QED
                        BY ONLY <5>2, <6>1
                <5> QED
                    BY <5>3 DEF b, f, w
            <4>3. added[k][x] \in Int
                BY <2>2, CellByte
            <4>4. added[j][x] = (added[k][x] + v * a) % Mod
                BY <1>2, <2>3, <2>6, <3>3, <4>3, ModTimes
            <4>5. added[k][x] = y % Mod
                BY <3>2
            <4>6. v * a \in Int
                BY <1>2, <2>3
            <4> HIDE DEF y
            <4>7. added[j][x] = (y + v * a) % Mod
                BY <4>2, <4>4, <4>5, <4>6, ModAdd
            <4> QED
                BY <4>1, <4>2, <4>7
        <3>4. CASE x # e
            <4>1. d # x - q
                BY <1>2, <2>3, <2>4, <3>1, <3>4
            <4>2. Gain(pairs, x - q, 2 * j) = g(x) + 0
                BY <2>3, <4>1
            <4>3. Gain(pairs, x - q, 2 * j) = g(x)
                BY <3>1, <4>2
            <4> QED
                BY <2>6, <3>2, <3>4, <4>3
        <3> QED
            BY <3>3, <3>4
    <2> HIDE DEF Sum
    <2> QED
        BY <2>1, <2>7 DEF j
<1> HIDE DEF T
<1>7. h \in T
    <2>1. 0 .. h \subseteq T
        BY <1>1, <1>5, <1>6, BoundedInd
    <2> QED
        BY <1>1, <2>1
<1>8. \A x \in Cells : added[h][x] = (t[x] + v * Gain(pairs, x - q, 2 * h)) % Mod
    BY <1>7 DEF T
<1>9. added[h] \in Tapes /\ 0 \in Byte
    BY <1>1, <1>4, ModByte
<1>10. IsTimes(Times(t, q, pairs, N, v), t, q, pairs, N, v)
    BY <1>1, <1>2, TimesIs
<1>11. Put(added[h], q, 0) = Times(t, q, pairs, N, v)
    <2> DEFINE y == Put(added[h], q, 0)
               w == Times(t, q, pairs, N, v)
    <2>1. y \in Tapes /\ y[q] = 0 /\ \A x \in Cells : x # q => y[x] = added[h][x]
        BY <1>9, PutIs
    <2>2. w \in Tapes /\ \A x \in Cells : w[x] = IF x = q THEN 0 ELSE (t[x] + v * Gain(pairs, x - q, N)) % Mod
        BY <1>10 DEF IsTimes
    <2>3. \A x : Gain(pairs, x, N) = Gain(pairs, x, 2 * h)
        <3> TAKE x
        <3>1. pairs[N].op # "add"
            BY <1>1
        <3>2. Gain(pairs, x, N) = Gain(pairs, x, N - 1) + 0
            <4>1. Gain(pairs, x, N) = Gain(pairs, x, N - 1)
                        + (IF pairs[N].op = "add" /\ Offset(pairs, N) = x THEN pairs[N].arg ELSE 0)
                BY ONLY <1>1, GainStep
            <4> QED
                BY <3>1, <4>1
        <3>3. Gain(pairs, x, 2 * h) \in Int
            <4> DEFINE j == 2 * h
            <4>1. j \in 0 .. Len(pairs)
                BY <1>1
            <4> HIDE DEF j
            <4>2. Gain(pairs, x, j) \in Int
                BY <1>1, <4>1, GainStep
            <4> QED
                BY <4>2 DEF j
        <3> QED
            BY <1>1, <3>2, <3>3
    <2> HIDE DEF y, w
    <2>4. \A x \in Cells : y[x] = w[x]
        BY <1>8, <2>1, <2>2, <2>3
    <2> QED
        BY <2>1, <2>2, <2>4, SameTape DEF y, w
<1> QED
    BY <1>4, <1>11 DEF N, v, Multiplied

-----------------------------------------------------------------------------
(* A division, character by character. *)

\* Its text stands at a.
Divides(s, p, S, a) ==
    /\ Program(s, p) /\ a \in Nat /\ a >= 1
    /\ \A k \in 1 .. 30 : a + k - 1 \in 1 .. Len(s) /\ a + k - 1 \in S /\ s[a + k - 1] = DivModCode[k]

\* The machine at its k-th character.
Dm(a, u, x, k, o, n) == Mk(u, x, a + k - 1, o, n)

\* Where it stands then, c, and what is there.
DmIs(s, p, S, a, u, x, k, c, o, n) ==
    /\ s \in Seq(Characters) /\ Program(s, p) /\ Ready(s, S, u, x, c, o, n) /\ s[c] = DivModCode[k]
    /\ a \in Nat /\ a >= 1 /\ c + 1 = a + (k + 1) - 1

LEMMA DmReady ==
    ASSUME NEW s, NEW p, NEW S, NEW a, Divides(s, p, S, a), NEW k \in 1 .. 30, NEW u \in Tapes, NEW x \in Int,
           NEW o \in Seq(Byte), NEW n \in Seq(Byte)
    PROVE  DmIs(s, p, S, a, u, x, k, a + k - 1, o, n)
<1> DEFINE c == a + k - 1
<1>1. Program(s, p) /\ a \in Nat /\ a >= 1
    BY DEF Divides
<1>2. c \in 1 .. Len(s) /\ c \in S /\ s[c] = DivModCode[k]
    BY DEF Divides
<1>3. s \in Seq(Characters)
    BY <1>1 DEF Program
<1>4. c + 1 = a + (k + 1) - 1
    BY <1>1
<1> QED
    BY <1>1, <1>2, <1>3, <1>4 DEF Ready, DmIs

LEMMA DmMove ==
    ASSUME NEW s, NEW p, NEW S, NEW a, Divides(s, p, S, a), NEW k \in 1 .. 30, NEW d \in Int,
           DivModCode[k] = Move(d), NEW u \in Tapes, NEW x \in Int, NEW o \in Seq(Byte), NEW n \in Seq(Byte)
    PROVE  Reaches(s, p, S, Dm(a, u, x, k, o, n), Dm(a, u, x + d, k + 1, o, n))
<1> DEFINE c == a + k - 1
<1>0. /\ Divides(s, p, S, a) /\ k \in 1 .. 30 /\ u \in Tapes /\ x \in Int /\ o \in Seq(Byte) /\ n \in Seq(Byte)
      /\ c = a + k - 1
    OBVIOUS
<1> HIDE DEF c
<1>1. s \in Seq(Characters) /\ Ready(s, S, u, x, c, o, n) /\ s[c] = Move(d) /\ c + 1 = a + (k + 1) - 1
    <2>1. DmIs(s, p, S, a, u, x, k, c, o, n)
        BY ONLY <1>0, DmReady
    <2> QED
        BY <2>1 DEF DmIs
<1>2. s[c].op = "move" /\ s[c].arg = d
    BY <1>1 DEF Move
<1> HIDE DEF c
<1>3. Reaches(s, p, S, Mk(u, x, c, o, n), Mk(u, x + s[c].arg, c + 1, o, n))
    BY <1>1, <1>2, CharMove
<1> QED
    BY <1>1, <1>2, <1>3 DEF Dm, c

LEMMA DmAdd ==
    ASSUME NEW s, NEW p, NEW S, NEW a, Divides(s, p, S, a), NEW k \in 1 .. 30, NEW d \in Int,
           DivModCode[k] = Add(d), NEW u \in Tapes, NEW x \in Cells, NEW o \in Seq(Byte), NEW n \in Seq(Byte),
           NEW v, (u[x] + d) % Mod = v
    PROVE  Reaches(s, p, S, Dm(a, u, x, k, o, n), Dm(a, Put(u, x, v), x, k + 1, o, n))
<1> DEFINE c == a + k - 1
<1>0. /\ Divides(s, p, S, a) /\ k \in 1 .. 30 /\ u \in Tapes /\ x \in Int /\ o \in Seq(Byte) /\ n \in Seq(Byte)
      /\ c = a + k - 1
    BY DEF Cells
<1> HIDE DEF c
<1>1. s \in Seq(Characters) /\ Ready(s, S, u, x, c, o, n) /\ s[c] = Add(d) /\ c + 1 = a + (k + 1) - 1
    <2>1. DmIs(s, p, S, a, u, x, k, c, o, n)
        BY ONLY <1>0, DmReady
    <2> QED
        BY <2>1 DEF DmIs
<1>2. s[c].op = "add" /\ s[c].arg = d
    BY <1>1 DEF Add
<1> HIDE DEF c
<1>3. Reaches(s, p, S, Mk(u, x, c, o, n), Mk(Put(u, x, (u[x] + s[c].arg) % Mod), x, c + 1, o, n))
    BY <1>1, <1>2, CharAdd
<1>4. (u[x] + s[c].arg) % Mod = v
    BY <1>2
<1> QED
    BY <1>1, <1>3, <1>4 DEF Dm, c

\* The pairs of brackets of a division.
LEMMA DmCloses ==
    ASSUME NEW s, NEW p, NEW S, NEW a, Divides(s, p, S, a), NEW b \in 1 .. 30, NEW e \in 1 .. 30, b < e,
           DivModCode[b] = Open, DivModCode[e] = Close, Height(e) = Height(b) - 1,
           \A k \in b .. (e - 1) : Height(k) >= Height(b)
    PROVE  Closes(s, a + b - 1, a + e - 1)
<1>1. s \in Seq(Characters) /\ Len(s) \in Nat /\ DOMAIN s = 1 .. Len(s) /\ a \in Nat /\ a >= 1
    <2>1. s \in Seq(Characters) /\ a \in Nat /\ a >= 1
        BY DEF Divides, Program
    <2> QED
        BY ONLY <2>1
<1>2. \A k \in 1 .. 30 : a + k - 1 \in 1 .. Len(s) /\ s[a + k - 1] = DivModCode[k]
    BY DEF Divides
<1>3. a \in 1 .. Len(s) /\ a + 30 <= Len(s) + 1
    <2>1. a + 30 - 1 \in 1 .. Len(s)
        BY <1>2
    <2> QED
        BY ONLY <1>1, <2>1
<1>4. \A k \in 0 .. 30 : Depth(s, a - 1 + k) = Depth(s, a - 1) + Height(k)
    BY <1>1, <1>2, <1>3, DivModDepth
<1>5. Depth(s, a - 1) \in Int
    <2>1. a - 1 \in 0 .. Len(s)
        BY <1>1, <1>3
    <2> QED
        BY <1>1, <2>1, DepthStep
<1> DEFINE D == Depth(s, a - 1)
           x == a + b - 1
           y == a + e - 1
<1>6. \A k \in 0 .. 30 : Height(k) \in Int
    BY DEF Height
<1>7. ASSUME NEW k \in b .. (e - 1) PROVE k \in 0 .. 30 /\ Height(k) >= Height(b) /\ b \in 0 .. 30 /\ e \in 0 .. 30
    OBVIOUS
<1>8. /\ a - 1 + b = x /\ a - 1 + e = y /\ x < y
      /\ \A j \in x .. (y - 1) : j - (a - 1) \in b .. (e - 1) /\ a - 1 + (j - (a - 1)) = j
    BY <1>1
<1> HIDE DEF D, x, y
<1>9. \A k \in 0 .. 30 : Depth(s, a - 1 + k) = D + Height(k)
    BY <1>4 DEF D
<1>10. Depth(s, x) = D + Height(b) /\ Depth(s, y) = D + Height(e) /\ D \in Int /\ Height(b) \in Int
    BY <1>5, <1>6, <1>8, <1>9 DEF D
<1>11. Depth(s, y) = Depth(s, x) - 1
    BY <1>10
<1>12. ASSUME NEW j \in x .. (y - 1) PROVE Depth(s, j) >= Depth(s, x)
    <2> DEFINE k == j - (a - 1)
    <2>1. k \in b .. (e - 1) /\ a - 1 + k = j
        BY <1>8
    <2> HIDE DEF k
    <2>2. Depth(s, j) = D + Height(k) /\ Height(k) >= Height(b) /\ Height(k) \in Int
        BY <1>6, <1>7, <1>9, <2>1
    <2> QED
        BY <1>10, <2>2
<1>13. x \in Brackets(s, "open") /\ y \in Brackets(s, "close")
    <2>1. x \in DOMAIN s /\ s[x] = Open /\ y \in DOMAIN s /\ s[y] = Close
        BY <1>1, <1>2 DEF x, y
    <2> QED
        BY <2>1 DEF Brackets, Open, Close
<1>14. Closes(s, x, y)
    BY <1>8, <1>11, <1>12, <1>13 DEF Closes
<1> QED
    BY <1>14 DEF x, y

Around(b, e) ==
    /\ b \in 1 .. 30 /\ e \in 1 .. 30 /\ b < e /\ DivModCode[b] = Open /\ DivModCode[e] = Close
    /\ Height(e) = Height(b) - 1 /\ \A k \in b .. (e - 1) : Height(k) >= Height(b)

LEMMA DmPairs == Around(1, 30) /\ Around(5, 10) /\ Around(12, 24) /\ Around(14, 19)
<1>1. Around(1, 30)
    BY DEF Around, DivModCode, Height
<1>2. Around(5, 10)
    BY DEF Around, DivModCode, Height
<1>3. Around(12, 24)
    BY DEF Around, DivModCode, Height
<1>4. Around(14, 19)
    BY DEF Around, DivModCode, Height
<1> QED
    BY <1>1, <1>2, <1>3, <1>4

LEMMA DmOpen ==
    ASSUME NEW s, NEW p, NEW S, NEW a, Divides(s, p, S, a), NEW b, NEW e, Around(b, e),
           NEW u \in Tapes, NEW x \in Cells, NEW o \in Seq(Byte), NEW n \in Seq(Byte),
           NEW k, k = (IF u[x] = 0 THEN e ELSE b) + 1
    PROVE  Reaches(s, p, S, Dm(a, u, x, b, o, n), Dm(a, u, x, k, o, n))
<1> DEFINE c == a + b - 1
           f == a + e - 1
<1>0. /\ Divides(s, p, S, a) /\ b \in 1 .. 30 /\ e \in 1 .. 30 /\ u \in Tapes /\ x \in Int
      /\ o \in Seq(Byte) /\ n \in Seq(Byte) /\ c = a + b - 1 /\ f = a + e - 1
      /\ k = (IF u[x] = 0 THEN e ELSE b) + 1
    BY DEF Cells, Around
<1>2. Closes(s, c, f)
    BY DmCloses DEF Around
<1> HIDE DEF c, f
<1>1. /\ Program(s, p) /\ Ready(s, S, u, x, c, o, n)
      /\ (IF u[x] = 0 THEN f ELSE c) + 1 = a + k - 1
    <2>1. DmIs(s, p, S, a, u, x, b, c, o, n)
        BY ONLY <1>0, DmReady
    <2> QED
        BY ONLY <1>0, <2>1 DEF DmIs
<1>3. Reaches(s, p, S, Mk(u, x, c, o, n), Mk(u, x, (IF u[x] = 0 THEN f ELSE c) + 1, o, n))
    BY <1>1, <1>2, CharOpen
<1> QED
    BY <1>1, <1>3 DEF Dm, c

LEMMA DmClose ==
    ASSUME NEW s, NEW p, NEW S, NEW a, Divides(s, p, S, a), NEW b, NEW e, Around(b, e),
           NEW u \in Tapes, NEW x \in Cells, NEW o \in Seq(Byte), NEW n \in Seq(Byte),
           NEW k, k = (IF u[x] = 0 THEN e ELSE b) + 1
    PROVE  Reaches(s, p, S, Dm(a, u, x, e, o, n), Dm(a, u, x, k, o, n))
<1> DEFINE c == a + b - 1
           f == a + e - 1
<1>0. /\ Divides(s, p, S, a) /\ b \in 1 .. 30 /\ e \in 1 .. 30 /\ u \in Tapes /\ x \in Int
      /\ o \in Seq(Byte) /\ n \in Seq(Byte) /\ c = a + b - 1 /\ f = a + e - 1
      /\ k = (IF u[x] = 0 THEN e ELSE b) + 1
    BY DEF Cells, Around
<1>2. Closes(s, c, f)
    BY DmCloses DEF Around
<1> HIDE DEF c, f
<1>1. /\ Program(s, p) /\ Ready(s, S, u, x, f, o, n)
      /\ (IF u[x] = 0 THEN f ELSE c) + 1 = a + k - 1
    <2>1. DmIs(s, p, S, a, u, x, e, f, o, n)
        BY ONLY <1>0, DmReady
    <2> QED
        BY ONLY <1>0, <2>1 DEF DmIs
<1>3. Reaches(s, p, S, Mk(u, x, f, o, n), Mk(u, x, (IF u[x] = 0 THEN f ELSE c) + 1, o, n))
    BY <1>1, <1>2, CharClose
<1> QED
    BY <1>1, <1>3 DEF Dm, f

\* The tape with other bytes in the four cells a division writes.
Quad(t, q, x, y, z, w) ==
    [c \in Cells |-> IF c = q THEN x ELSE IF c = q + 1 THEN y ELSE IF c = q + 2 THEN z
                     ELSE IF c = q + 3 THEN w ELSE t[c]]

IsQuad(u, t, q, x, y, z, w) ==
    /\ u \in Tapes /\ u[q] = x /\ u[q + 1] = y /\ u[q + 2] = z /\ u[q + 3] = w
    /\ \A c \in Cells : c \notin q .. (q + 3) => u[c] = t[c]

\* The six cells a division uses are on the tape, and the last two are clear.
Operands(t, q) ==
    /\ t \in Tapes /\ q \in Int /\ \A j \in 0 .. 5 : q + j \in Cells
    /\ t[q + 4] = 0 /\ t[q + 5] = 0

LEMMA QuadIs ==
    ASSUME NEW t, NEW q, Operands(t, q), NEW x \in Byte, NEW y \in Byte, NEW z \in Byte, NEW w \in Byte
    PROVE  IsQuad(Quad(t, q, x, y, z, w), t, q, x, y, z, w)
<1>1. t \in Tapes /\ q \in Int /\ \A j \in 0 .. 5 : q + j \in Cells
    BY DEF Operands
<1>2. q \in Cells /\ q + 1 \in Cells /\ q + 2 \in Cells /\ q + 3 \in Cells
    <2>1. q + 0 = q
        BY <1>1
    <2> QED
        BY <1>1, <2>1
<1>3. \A c \in Cells : c \in Int
    BY DEF Cells
<1>4. Quad(t, q, x, y, z, w) \in Tapes
    BY <1>1, <1>3 DEF Quad, Tapes
<1> QED
    BY <1>1, <1>2, <1>3, <1>4 DEF IsQuad, Quad

LEMMA QuadPuts ==
    ASSUME NEW t, NEW q, Operands(t, q), NEW x \in Byte, NEW y \in Byte, NEW z \in Byte, NEW w \in Byte, NEW v \in Byte
    PROVE  /\ Put(Quad(t, q, x, y, z, w), q, v) = Quad(t, q, v, y, z, w)
           /\ Put(Quad(t, q, x, y, z, w), q + 1, v) = Quad(t, q, x, v, z, w)
           /\ Put(Quad(t, q, x, y, z, w), q + 2, v) = Quad(t, q, x, y, v, w)
           /\ Put(Quad(t, q, x, y, z, w), q + 3, v) = Quad(t, q, x, y, z, v)
<1> DEFINE u == Quad(t, q, x, y, z, w)
           v0 == Quad(t, q, v, y, z, w)
           v1 == Quad(t, q, x, v, z, w)
           v2 == Quad(t, q, x, y, v, w)
           v3 == Quad(t, q, x, y, z, v)
<1>1. q \in Int /\ q \in Cells /\ q + 1 \in Cells /\ q + 2 \in Cells /\ q + 3 \in Cells
    <2>1. q \in Int /\ \A j \in 0 .. 5 : q + j \in Cells
        BY DEF Operands
    <2>2. q + 0 = q
        BY <2>1
    <2> QED
        BY <2>1, <2>2
<1>2. \A c \in Cells : c \in Int
    BY DEF Cells
<1>3. IsQuad(u, t, q, x, y, z, w) /\ IsQuad(v0, t, q, v, y, z, w) /\ IsQuad(v1, t, q, x, v, z, w)
    BY QuadIs
<1>4. IsQuad(v2, t, q, x, y, v, w) /\ IsQuad(v3, t, q, x, y, z, v)
    BY QuadIs
<1> HIDE DEF u, v0, v1, v2, v3
<1>5. /\ Put(u, q, v) \in Tapes /\ Put(u, q + 1, v) \in Tapes /\ Put(u, q + 2, v) \in Tapes
      /\ Put(u, q + 3, v) \in Tapes
    BY <1>1, <1>3, PutIs DEF IsQuad
<1>6. ASSUME NEW c \in Cells
      PROVE  /\ Put(u, q, v)[c] = v0[c] /\ Put(u, q + 1, v)[c] = v1[c]
             /\ Put(u, q + 2, v)[c] = v2[c] /\ Put(u, q + 3, v)[c] = v3[c]
    <2>1. /\ Put(u, q, v)[c] = (IF c = q THEN v ELSE u[c])
          /\ Put(u, q + 1, v)[c] = (IF c = q + 1 THEN v ELSE u[c])
          /\ Put(u, q + 2, v)[c] = (IF c = q + 2 THEN v ELSE u[c])
          /\ Put(u, q + 3, v)[c] = (IF c = q + 3 THEN v ELSE u[c])
        BY <1>3 DEF Put, IsQuad, Tapes
    <2>2. c \in Int /\ (c = q \/ c = q + 1 \/ c = q + 2 \/ c = q + 3 \/ c \notin q .. (q + 3))
        BY <1>1, <1>2
    <2>3. /\ u[q] = x /\ u[q + 1] = y /\ u[q + 2] = z /\ u[q + 3] = w
          /\ v0[q] = v /\ v0[q + 1] = y /\ v0[q + 2] = z /\ v0[q + 3] = w
          /\ v1[q] = x /\ v1[q + 1] = v /\ v1[q + 2] = z /\ v1[q + 3] = w
        BY <1>3 DEF IsQuad
    <2>4. /\ v2[q] = x /\ v2[q + 1] = y /\ v2[q + 2] = v /\ v2[q + 3] = w
          /\ v3[q] = x /\ v3[q + 1] = y /\ v3[q + 2] = z /\ v3[q + 3] = v
        BY <1>4 DEF IsQuad
    <2>5. CASE c \notin q .. (q + 3)
        <3>1. c # q /\ c # q + 1 /\ c # q + 2 /\ c # q + 3
            BY <1>1, <2>2, <2>5
        <3>2. u[c] = t[c] /\ v0[c] = t[c] /\ v1[c] = t[c] /\ v2[c] = t[c] /\ v3[c] = t[c]
            BY <1>3, <1>4, <2>5 DEF IsQuad
        <3> QED
            BY <2>1, <3>1, <3>2
    <2>6. CASE c = q
        <3>1. c # q + 1 /\ c # q + 2 /\ c # q + 3
            BY <1>1, <2>6
        <3> QED
            BY <2>1, <2>3, <2>4, <2>6, <3>1
    <2>7. CASE c = q + 1
        <3>1. c # q /\ c # q + 2 /\ c # q + 3
            BY <1>1, <2>7
        <3> QED
            BY <2>1, <2>3, <2>4, <2>7, <3>1
    <2>8. CASE c = q + 2
        <3>1. c # q /\ c # q + 1 /\ c # q + 3
            BY <1>1, <2>8
        <3> QED
            BY <2>1, <2>3, <2>4, <2>8, <3>1
    <2>9. CASE c = q + 3
        <3>1. c # q /\ c # q + 1 /\ c # q + 2
            BY <1>1, <2>9
        <3> QED
            BY <2>1, <2>3, <2>4, <2>9, <3>1
    <2> QED
        BY <2>2, <2>5, <2>6, <2>7, <2>8, <2>9
<1>7. v0 \in Tapes /\ v1 \in Tapes /\ v2 \in Tapes /\ v3 \in Tapes
    BY <1>3, <1>4 DEF IsQuad
<1>8. Put(u, q, v) = v0 /\ Put(u, q + 1, v) = v1
    BY <1>5, <1>6, <1>7, SameTape
<1>9. Put(u, q + 2, v) = v2 /\ Put(u, q + 3, v) = v3
    BY <1>5, <1>6, <1>7, SameTape
<1> QED
    BY <1>8, <1>9 DEF u, v0, v1, v2, v3

\* The operands as they are.
LEMMA QuadSame ==
    ASSUME NEW t, NEW q, Operands(t, q)
    PROVE  Quad(t, q, t[q], t[q + 1], t[q + 2], t[q + 3]) = t
<1>1. t \in [Cells -> Byte] /\ q \in Int /\ \A c \in Cells : c \in Int
    BY DEF Operands, Tapes, Cells
<1> QED
    BY <1>1 DEF Quad

\* A division's machine, before its k-th character at the j-th operand, and its steps.
DivAt(a, t, q, o, n, x, y, z, w, j, k) == Dm(a, Quad(t, q, x, y, z, w), q + j, k, o, n)

Dividing(s, p, S, a, t, q, o, n) ==
    Divides(s, p, S, a) /\ Operands(t, q) /\ o \in Seq(Byte) /\ n \in Seq(Byte)

LEMMA DivMove ==
    ASSUME NEW s, NEW p, NEW S, NEW a, NEW t, NEW q, NEW o, NEW n, Dividing(s, p, S, a, t, q, o, n),
           NEW x \in Byte, NEW y \in Byte, NEW z \in Byte, NEW w \in Byte,
           NEW k \in 1 .. 30, NEW j \in Int, NEW i \in Int, DivModCode[k] = Move(i - j), NEW l, l = k + 1
    PROVE  Reaches(s, p, S, DivAt(a, t, q, o, n, x, y, z, w, j, k), DivAt(a, t, q, o, n, x, y, z, w, i, l))
<1> DEFINE u == Quad(t, q, x, y, z, w)
           d == i - j
           b == q + j
           c == q + i
<1>1. Divides(s, p, S, a) /\ o \in Seq(Byte) /\ n \in Seq(Byte) /\ u \in Tapes /\ q \in Int
    BY QuadIs DEF Dividing, IsQuad, Operands
<1>2. b \in Int /\ c = b + d /\ d \in Int /\ DivModCode[k] = Move(d)
    BY <1>1
<1> HIDE DEF u, b, c, d
<1>3. Reaches(s, p, S, Dm(a, u, b, k, o, n), Dm(a, u, b + d, k + 1, o, n))
    BY <1>1, <1>2, DmMove
<1> QED
    BY <1>2, <1>3 DEF DivAt, u, b, c

LEMMA DivRight ==
    ASSUME NEW s, NEW p, NEW S, NEW a, NEW t, NEW q, NEW o, NEW n, Dividing(s, p, S, a, t, q, o, n),
           NEW x \in Byte, NEW y \in Byte, NEW z \in Byte, NEW w \in Byte,
           NEW k, k \in 1 .. 30, DivModCode[k] = Move(1), NEW l, l = k + 1, NEW j, j \in 0 .. 5, NEW i, i \in 0 .. 5, i = j + 1
    PROVE  Reaches(s, p, S, DivAt(a, t, q, o, n, x, y, z, w, j, k), DivAt(a, t, q, o, n, x, y, z, w, i, l))
<1>1. i - j = 1
    OBVIOUS
<1> QED
    BY <1>1, DivMove

LEMMA DivLeft ==
    ASSUME NEW s, NEW p, NEW S, NEW a, NEW t, NEW q, NEW o, NEW n, Dividing(s, p, S, a, t, q, o, n),
           NEW x \in Byte, NEW y \in Byte, NEW z \in Byte, NEW w \in Byte,
           NEW k, k \in 1 .. 30, DivModCode[k] = Move(-1), NEW l, l = k + 1, NEW j, j \in 0 .. 5, NEW i, i \in 0 .. 5, i = j - 1
    PROVE  Reaches(s, p, S, DivAt(a, t, q, o, n, x, y, z, w, j, k), DivAt(a, t, q, o, n, x, y, z, w, i, l))
<1>1. i - j = -1
    OBVIOUS
<1> QED
    BY <1>1, DivMove

\* A bracket at the j-th cell from the first operand.
LEMMA DivOpen ==
    ASSUME NEW s, NEW p, NEW S, NEW a, NEW t, NEW q, NEW o, NEW n, Dividing(s, p, S, a, t, q, o, n),
           NEW x \in Byte, NEW y \in Byte, NEW z \in Byte, NEW w \in Byte, NEW j, j \in 0 .. 5,
           NEW b, NEW e, Around(b, e),
           NEW l, l = (IF Quad(t, q, x, y, z, w)[q + j] = 0 THEN e ELSE b) + 1
    PROVE  Reaches(s, p, S, DivAt(a, t, q, o, n, x, y, z, w, j, b), DivAt(a, t, q, o, n, x, y, z, w, j, l))
<1> DEFINE u == Quad(t, q, x, y, z, w)
           c == q + j
<1>1. Divides(s, p, S, a) /\ Operands(t, q) /\ o \in Seq(Byte) /\ n \in Seq(Byte)
    BY DEF Dividing
<1>2. IsQuad(u, t, q, x, y, z, w)
    BY <1>1, QuadIs
<1>3. u \in Tapes /\ c \in Cells
    BY <1>1, <1>2 DEF IsQuad, Operands
<1>4. Around(b, e) /\ l = (IF u[c] = 0 THEN e ELSE b) + 1
    OBVIOUS
<1> HIDE DEF u, c
<1>5. Reaches(s, p, S, Dm(a, u, c, b, o, n), Dm(a, u, c, l, o, n))
    BY ONLY <1>1, <1>3, <1>4, DmOpen
<1> QED
    BY <1>5 DEF DivAt, u, c

LEMMA DivClose ==
    ASSUME NEW s, NEW p, NEW S, NEW a, NEW t, NEW q, NEW o, NEW n, Dividing(s, p, S, a, t, q, o, n),
           NEW x \in Byte, NEW y \in Byte, NEW z \in Byte, NEW w \in Byte, NEW j, j \in 0 .. 5,
           NEW b, NEW e, Around(b, e),
           NEW l, l = (IF Quad(t, q, x, y, z, w)[q + j] = 0 THEN e ELSE b) + 1
    PROVE  Reaches(s, p, S, DivAt(a, t, q, o, n, x, y, z, w, j, e), DivAt(a, t, q, o, n, x, y, z, w, j, l))
<1> DEFINE u == Quad(t, q, x, y, z, w)
           c == q + j
<1>1. Divides(s, p, S, a) /\ Operands(t, q) /\ o \in Seq(Byte) /\ n \in Seq(Byte)
    BY DEF Dividing
<1>2. IsQuad(u, t, q, x, y, z, w)
    BY <1>1, QuadIs
<1>3. u \in Tapes /\ c \in Cells
    BY <1>1, <1>2 DEF IsQuad, Operands
<1>4. Around(b, e) /\ l = (IF u[c] = 0 THEN e ELSE b) + 1
    OBVIOUS
<1> HIDE DEF u, c
<1>5. Reaches(s, p, S, Dm(a, u, c, e, o, n), Dm(a, u, c, l, o, n))
    BY ONLY <1>1, <1>3, <1>4, DmClose
<1> QED
    BY <1>5 DEF DivAt, u, c

\* An addition to the cell b, and to each of the four.
LEMMA DivAdd ==
    ASSUME NEW s, NEW p, NEW S, NEW a, NEW t, NEW q, NEW o, NEW n, Dividing(s, p, S, a, t, q, o, n),
           NEW x \in Byte, NEW y \in Byte, NEW z \in Byte, NEW w \in Byte,
           NEW k, k \in 1 .. 30, NEW l, l = k + 1, NEW v \in Byte, NEW b \in Cells,
           DivModCode[k] = Add(v - Quad(t, q, x, y, z, w)[b])
    PROVE  Reaches(s, p, S, Dm(a, Quad(t, q, x, y, z, w), b, k, o, n),
                   Dm(a, Put(Quad(t, q, x, y, z, w), b, v), b, l, o, n))
<1> DEFINE u == Quad(t, q, x, y, z, w)
           d == v - u[b]
<1>1. Divides(s, p, S, a) /\ o \in Seq(Byte) /\ n \in Seq(Byte) /\ u \in Tapes
    BY QuadIs DEF Dividing, IsQuad
<1> HIDE DEF u
<1>2. u[b] + d = v /\ d \in Int
    <2>1. u[b] \in Int /\ v \in Int
        BY <1>1, CellByte DEF Byte
    <2> QED
        BY <2>1
<1>3. (u[b] + d) % Mod = v
    BY <1>2, ModSmall
<1>4. DivModCode[k] = Add(d)
    BY DEF u
<1> HIDE DEF d
<1>5. Reaches(s, p, S, Dm(a, u, b, k, o, n), Dm(a, Put(u, b, v), b, k + 1, o, n))
    BY <1>1, <1>2, <1>3, <1>4, DmAdd
<1> QED
    BY <1>5 DEF u

LEMMA DivAddFirst ==
    ASSUME NEW s, NEW p, NEW S, NEW a, NEW t, NEW q, NEW o, NEW n, Dividing(s, p, S, a, t, q, o, n),
           NEW x \in Byte, NEW y \in Byte, NEW z \in Byte, NEW w \in Byte,
           NEW k, k \in 1 .. 30, NEW l, l = k + 1, NEW v \in Byte, DivModCode[k] = Add(v - x)
    PROVE  Reaches(s, p, S, DivAt(a, t, q, o, n, x, y, z, w, 0, k), DivAt(a, t, q, o, n, v, y, z, w, 0, l))
<1> DEFINE u == Quad(t, q, x, y, z, w)
           b == q
<1>1. b \in Cells /\ b = q + 0
    BY DEF Dividing, Operands
<1>2. u[b] = x
    BY QuadIs DEF Dividing, IsQuad
<1>3. Put(u, b, v) = Quad(t, q, v, y, z, w)
    BY QuadPuts DEF Dividing
<1> HIDE DEF b
<1>4. Reaches(s, p, S, Dm(a, u, b, k, o, n), Dm(a, Put(u, b, v), b, l, o, n))
    BY <1>1, <1>2, DivAdd
<1> QED
    BY <1>1, <1>3, <1>4 DEF DivAt

LEMMA DivAddSecond ==
    ASSUME NEW s, NEW p, NEW S, NEW a, NEW t, NEW q, NEW o, NEW n, Dividing(s, p, S, a, t, q, o, n),
           NEW x \in Byte, NEW y \in Byte, NEW z \in Byte, NEW w \in Byte,
           NEW k, k \in 1 .. 30, NEW l, l = k + 1, NEW v \in Byte, DivModCode[k] = Add(v - y)
    PROVE  Reaches(s, p, S, DivAt(a, t, q, o, n, x, y, z, w, 1, k), DivAt(a, t, q, o, n, x, v, z, w, 1, l))
<1> DEFINE u == Quad(t, q, x, y, z, w)
           b == q + 1
<1>1. b \in Cells /\ b = q + 1
    BY DEF Dividing, Operands
<1>2. u[b] = y
    BY QuadIs DEF Dividing, IsQuad
<1>3. Put(u, b, v) = Quad(t, q, x, v, z, w)
    BY QuadPuts DEF Dividing
<1> HIDE DEF b
<1>4. Reaches(s, p, S, Dm(a, u, b, k, o, n), Dm(a, Put(u, b, v), b, l, o, n))
    BY <1>1, <1>2, DivAdd
<1> QED
    BY <1>1, <1>3, <1>4 DEF DivAt

LEMMA DivAddThird ==
    ASSUME NEW s, NEW p, NEW S, NEW a, NEW t, NEW q, NEW o, NEW n, Dividing(s, p, S, a, t, q, o, n),
           NEW x \in Byte, NEW y \in Byte, NEW z \in Byte, NEW w \in Byte,
           NEW k, k \in 1 .. 30, NEW l, l = k + 1, NEW v \in Byte, DivModCode[k] = Add(v - z)
    PROVE  Reaches(s, p, S, DivAt(a, t, q, o, n, x, y, z, w, 2, k), DivAt(a, t, q, o, n, x, y, v, w, 2, l))
<1> DEFINE u == Quad(t, q, x, y, z, w)
           b == q + 2
<1>1. b \in Cells /\ b = q + 2
    BY DEF Dividing, Operands
<1>2. u[b] = z
    BY QuadIs DEF Dividing, IsQuad
<1>3. Put(u, b, v) = Quad(t, q, x, y, v, w)
    BY QuadPuts DEF Dividing
<1> HIDE DEF b
<1>4. Reaches(s, p, S, Dm(a, u, b, k, o, n), Dm(a, Put(u, b, v), b, l, o, n))
    BY <1>1, <1>2, DivAdd
<1> QED
    BY <1>1, <1>3, <1>4 DEF DivAt

LEMMA DivAddFourth ==
    ASSUME NEW s, NEW p, NEW S, NEW a, NEW t, NEW q, NEW o, NEW n, Dividing(s, p, S, a, t, q, o, n),
           NEW x \in Byte, NEW y \in Byte, NEW z \in Byte, NEW w \in Byte,
           NEW k, k \in 1 .. 30, NEW l, l = k + 1, NEW v \in Byte, DivModCode[k] = Add(v - w)
    PROVE  Reaches(s, p, S, DivAt(a, t, q, o, n, x, y, z, w, 3, k), DivAt(a, t, q, o, n, x, y, z, v, 3, l))
<1> DEFINE u == Quad(t, q, x, y, z, w)
           b == q + 3
<1>1. b \in Cells /\ b = q + 3
    BY DEF Dividing, Operands
<1>2. u[b] = w
    BY QuadIs DEF Dividing, IsQuad
<1>3. Put(u, b, v) = Quad(t, q, x, y, z, v)
    BY QuadPuts DEF Dividing
<1> HIDE DEF b
<1>4. Reaches(s, p, S, Dm(a, u, b, k, o, n), Dm(a, Put(u, b, v), b, l, o, n))
    <2>1. /\ Dividing(s, p, S, a, t, q, o, n) /\ x \in Byte /\ y \in Byte /\ z \in Byte /\ w \in Byte
          /\ v \in Byte /\ k \in 1 .. 30 /\ l = k + 1 /\ b \in Cells
          /\ DivModCode[k] = Add(v - Quad(t, q, x, y, z, w)[b])
        BY <1>1, <1>2
    <2> QED
        BY ONLY <2>1, DivAdd
<1> QED
    BY <1>1, <1>3, <1>4 DEF DivAt

\* The characters of a division, one by one.
LEMMA DivText ==
    /\ DivModCode[2] = Add(-1) /\ DivModCode[3] = Move(1) /\ DivModCode[4] = Add(-1) /\ DivModCode[6] = Move(1)
    /\ DivModCode[7] = Add(1) /\ DivModCode[8] = Move(1) /\ DivModCode[9] = Move(1) /\ DivModCode[11] = Move(1)
    /\ DivModCode[13] = Add(1) /\ DivModCode[15] = Add(-1) /\ DivModCode[16] = Move(-1)
    /\ DivModCode[17] = Add(1) /\ DivModCode[18] = Move(1) /\ DivModCode[20] = Move(1)
    /\ DivModCode[21] = Add(1) /\ DivModCode[22] = Move(1) /\ DivModCode[23] = Move(1)
    /\ DivModCode[25] = Move(-1) /\ DivModCode[26] = Move(-1) /\ DivModCode[27] = Move(-1)
    /\ DivModCode[28] = Move(-1) /\ DivModCode[29] = Move(-1)
BY DEF DivModCode, R, L, P, M

\* One turn of the loop that empties the third cell into the second.
LEMMA DivPour ==
    ASSUME NEW s, NEW p, NEW S, NEW a, NEW t, NEW q, NEW o, NEW n, Dividing(s, p, S, a, t, q, o, n),
           NEW x \in Byte, NEW y \in Byte, NEW z \in Byte, NEW w \in Byte, NEW v \in Byte, NEW u \in Byte,
           v = y + 1, u = z + (-1)
    PROVE  Reaches(s, p, S, DivAt(a, t, q, o, n, x, y, z, w, 2, 15),
                   DivAt(a, t, q, o, n, x, v, u, w, 2, IF u = 0 THEN 20 ELSE 15))
<1>0. v - y = 1 /\ u - z = -1
    BY DEF Byte
<1>1. Reaches(s, p, S, DivAt(a, t, q, o, n, x, y, z, w, 2, 15), DivAt(a, t, q, o, n, x, y, u, w, 2, 16))
    <2>1. DivModCode[15] = Add(u - z) /\ 16 = 15 + 1 /\ 15 \in 1 .. 30
        BY <1>0, DivText
    <2>2. /\ Dividing(s, p, S, a, t, q, o, n) /\ x \in Byte /\ y \in Byte /\ u \in Byte /\ w \in Byte
          /\ z \in Byte
        OBVIOUS
    <2> QED
        BY ONLY <2>1, <2>2, DivAddThird
<1>2. Reaches(s, p, S, DivAt(a, t, q, o, n, x, y, u, w, 2, 16), DivAt(a, t, q, o, n, x, y, u, w, 1, 17))
    <2>1. DivModCode[16] = Move(-1) /\ 17 = 16 + 1 /\ 16 \in 1 .. 30 /\ 2 = 1 + 1
        BY DivText
    <2>2. Dividing(s, p, S, a, t, q, o, n) /\ x \in Byte /\ y \in Byte /\ u \in Byte /\ w \in Byte
        OBVIOUS
    <2> QED
        BY ONLY <2>1, <2>2, DivLeft
<1>3. Reaches(s, p, S, DivAt(a, t, q, o, n, x, y, u, w, 1, 17), DivAt(a, t, q, o, n, x, v, u, w, 1, 18))
    <2>1. DivModCode[17] = Add(v - y) /\ 18 = 17 + 1 /\ 17 \in 1 .. 30
        BY <1>0, DivText
    <2>2. /\ Dividing(s, p, S, a, t, q, o, n) /\ x \in Byte /\ y \in Byte /\ u \in Byte /\ w \in Byte
          /\ v \in Byte
        OBVIOUS
    <2> QED
        BY ONLY <2>1, <2>2, DivAddSecond
<1>4. Reaches(s, p, S, DivAt(a, t, q, o, n, x, v, u, w, 1, 18), DivAt(a, t, q, o, n, x, v, u, w, 2, 19))
    <2>1. DivModCode[18] = Move(1) /\ 19 = 18 + 1 /\ 18 \in 1 .. 30 /\ 2 = 1 + 1
        BY DivText
    <2>2. Dividing(s, p, S, a, t, q, o, n) /\ x \in Byte /\ v \in Byte /\ u \in Byte /\ w \in Byte
        OBVIOUS
    <2> QED
        BY ONLY <2>1, <2>2, DivRight
<1>5. Reaches(s, p, S, DivAt(a, t, q, o, n, x, v, u, w, 2, 19),
              DivAt(a, t, q, o, n, x, v, u, w, 2, IF u = 0 THEN 20 ELSE 15))
    <2>1. Around(14, 19)
        BY DmPairs
    <2>2. u = Quad(t, q, x, v, u, w)[q + 2]
        <3>1. Operands(t, q)
            BY DEF Dividing
        <3>2. IsQuad(Quad(t, q, x, v, u, w), t, q, x, v, u, w)
            BY <3>1, QuadIs
        <3> QED
            BY <3>2 DEF IsQuad
    <2> DEFINE l == IF u = 0 THEN 20 ELSE 15
    <2>3. l = (IF Quad(t, q, x, v, u, w)[q + 2] = 0 THEN 19 ELSE 14) + 1
        BY <2>2
    <2>4. /\ Dividing(s, p, S, a, t, q, o, n) /\ x \in Byte /\ v \in Byte /\ u \in Byte /\ w \in Byte
          /\ 2 \in 0 .. 5
        OBVIOUS
    <2> HIDE DEF l
    <2>5. Reaches(s, p, S, DivAt(a, t, q, o, n, x, v, u, w, 2, 19), DivAt(a, t, q, o, n, x, v, u, w, 2, l))
        BY ONLY <2>1, <2>3, <2>4, DivClose
    <2> QED
        BY <2>5 DEF l
<1> QED
    BY ONLY <1>1, <1>2, <1>3, <1>4, <1>5, ReachTrans

\* A loop that empties the third cell into the second.
LEMMA DivPours ==
    ASSUME NEW s, NEW p, NEW S, NEW a, NEW t, NEW q, NEW o, NEW n, Dividing(s, p, S, a, t, q, o, n),
           NEW x \in Byte, NEW y \in Byte, NEW z \in Byte, NEW w \in Byte, z # 0, y + z < Mod
    PROVE  Reaches(s, p, S, DivAt(a, t, q, o, n, x, y, z, w, 2, 15), DivAt(a, t, q, o, n, x, y + z, 0, w, 2, 20))
<1> DEFINE At2(y1, z1, j, k) == DivAt(a, t, q, o, n, x, y1, z1, w, j, k)
           To(m1, m2) == Reaches(s, p, S, m1, m2)
           G == {z1 \in Nat : z1 # 0 => \A y1 \in Byte : y1 + z1 < Mod => To(At2(y1, z1, 2, 15), At2(y1 + z1, 0, 2, 20))}
<1>1. Mod \in Nat /\ Mod >= 2 /\ Byte = 0 .. (Mod - 1)
    BY MachineAssumption DEF Byte
<1>2. ASSUME NEW z1 \in Nat, z1 \in G, NEW y1 \in Byte, y1 + (z1 + 1) < Mod
      PROVE  To(At2(y1, z1 + 1, 2, 15), At2(y1 + (z1 + 1), 0, 2, 20))
    <2> DEFINE y2 == y1 + 1
               z2 == z1 + 1
    <2>1. /\ y2 \in Byte /\ z1 \in Byte /\ z2 \in Byte /\ z1 = z2 + (-1) /\ y2 = y1 + 1 /\ y2 + z1 = y1 + (z1 + 1)
          /\ y2 + z1 < Mod /\ z2 = z1 + 1
        BY <1>1, <1>2
    <2> HIDE DEF y2, z2
    <2>0. Dividing(s, p, S, a, t, q, o, n) /\ x \in Byte /\ w \in Byte /\ y1 \in Byte
        OBVIOUS
    <2>7. To(At2(y1, z2, 2, 15), At2(y2, z1, 2, IF z1 = 0 THEN 20 ELSE 15))
        BY ONLY <2>0, <2>1, DivPour
    <2> HIDE DEF To, At2
    <2>8. CASE z1 = 0
        <3>1. y2 + z1 = y2
            BY <1>1, <2>1, <2>8
        <3> QED
            BY <2>1, <2>7, <2>8, <3>1
    <2>9. CASE z1 # 0
        <3>1. To(At2(y2, z1, 2, 15), At2(y2 + z1, 0, 2, 20))
            BY <1>2, <2>1, <2>9
        <3> QED
            BY <2>1, <2>7, <2>9, <3>1, ReachTrans DEF To
    <2> QED
        BY <2>8, <2>9
<1> HIDE DEF To, At2
<1>3. 0 \in G
    OBVIOUS
<1>4. \A z1 \in Nat : z1 \in G => z1 + 1 \in G
    BY <1>2
<1> HIDE DEF G
<1>5. Nat \subseteq G
    BY <1>3, <1>4, NatInd
<1>6. z \in G
    BY <1>1, <1>5
<1> QED
    BY <1>6 DEF G, To, At2

\* The dividend and the divisor count down.
LEMMA DivCounts ==
    ASSUME NEW s, NEW p, NEW S, NEW a, NEW t, NEW q, NEW o, NEW n, Dividing(s, p, S, a, t, q, o, n),
           NEW x \in Byte, NEW y \in Byte, NEW z \in Byte, NEW w \in Byte, NEW u \in Byte, NEW v \in Byte, u = x + (-1), v = y + (-1)
    PROVE  Reaches(s, p, S, DivAt(a, t, q, o, n, x, y, z, w, 0, 2), DivAt(a, t, q, o, n, u, v, z, w, 1, 5))
<1>0. Dividing(s, p, S, a, t, q, o, n) /\ x \in Byte /\ y \in Byte /\ z \in Byte /\ w \in Byte /\ u \in Byte /\ v \in Byte
    OBVIOUS
<1>1. DivModCode[2] = Add(u - x) /\ DivModCode[3] = Move(1) /\ DivModCode[4] = Add(v - y)
    <2>1. u - x = -1 /\ v - y = -1
        BY DEF Byte
    <2> QED
        BY <2>1, DivText
<1>2. Reaches(s, p, S, DivAt(a, t, q, o, n, x, y, z, w, 0, 2), DivAt(a, t, q, o, n, u, y, z, w, 0, 3))
    BY ONLY <1>0, <1>1, DivAddFirst
<1>3. Reaches(s, p, S, DivAt(a, t, q, o, n, u, y, z, w, 0, 3), DivAt(a, t, q, o, n, u, y, z, w, 1, 4))
    BY ONLY <1>0, <1>1, DivRight
<1>4. Reaches(s, p, S, DivAt(a, t, q, o, n, u, y, z, w, 1, 4), DivAt(a, t, q, o, n, u, v, z, w, 1, 5))
    BY ONLY <1>0, <1>1, DivAddSecond
<1> QED
    BY ONLY <1>2, <1>3, <1>4, ReachTrans

\* The remainder counts up.
LEMMA DivNext ==
    ASSUME NEW s, NEW p, NEW S, NEW a, NEW t, NEW q, NEW o, NEW n, Dividing(s, p, S, a, t, q, o, n),
           NEW x \in Byte, NEW y \in Byte, NEW z \in Byte, NEW w \in Byte, NEW u \in Byte, u = z + 1
    PROVE  Reaches(s, p, S, DivAt(a, t, q, o, n, x, y, z, w, 1, 6), DivAt(a, t, q, o, n, x, y, u, w, 4, 10))
<1>0. Dividing(s, p, S, a, t, q, o, n) /\ x \in Byte /\ y \in Byte /\ z \in Byte /\ w \in Byte /\ u \in Byte
    OBVIOUS
<1>1. DivModCode[6] = Move(1) /\ DivModCode[7] = Add(u - z) /\ DivModCode[8] = Move(1) /\ DivModCode[9] = Move(1)
    <2>1. u - z = 1
        BY DEF Byte
    <2> QED
        BY <2>1, DivText
<1>2. Reaches(s, p, S, DivAt(a, t, q, o, n, x, y, z, w, 1, 6), DivAt(a, t, q, o, n, x, y, z, w, 2, 7))
    BY ONLY <1>0, <1>1, DivRight
<1>3. Reaches(s, p, S, DivAt(a, t, q, o, n, x, y, z, w, 2, 7), DivAt(a, t, q, o, n, x, y, u, w, 2, 8))
    BY ONLY <1>0, <1>1, DivAddThird
<1>4. Reaches(s, p, S, DivAt(a, t, q, o, n, x, y, u, w, 2, 8), DivAt(a, t, q, o, n, x, y, u, w, 3, 9))
    BY ONLY <1>0, <1>1, DivRight
<1>5. Reaches(s, p, S, DivAt(a, t, q, o, n, x, y, u, w, 3, 9), DivAt(a, t, q, o, n, x, y, u, w, 4, 10))
    BY ONLY <1>0, <1>1, DivRight
<1> QED
    BY ONLY <1>2, <1>3, <1>4, <1>5, ReachTrans

\* Back to the dividend.
LEMMA DivBack ==
    ASSUME NEW s, NEW p, NEW S, NEW a, NEW t, NEW q, NEW o, NEW n, Dividing(s, p, S, a, t, q, o, n),
           NEW x \in Byte, NEW y \in Byte, NEW z \in Byte, NEW w \in Byte
    PROVE  Reaches(s, p, S, DivAt(a, t, q, o, n, x, y, z, w, 5, 25), DivAt(a, t, q, o, n, x, y, z, w, 0, 30))
<1>0. Dividing(s, p, S, a, t, q, o, n) /\ x \in Byte /\ y \in Byte /\ z \in Byte /\ w \in Byte
    OBVIOUS
<1>1. DivModCode[25] = Move(-1) /\ DivModCode[26] = Move(-1) /\ DivModCode[27] = Move(-1) /\ DivModCode[28] = Move(-1) /\ DivModCode[29] = Move(-1)
    BY DivText
<1>2. Reaches(s, p, S, DivAt(a, t, q, o, n, x, y, z, w, 5, 25), DivAt(a, t, q, o, n, x, y, z, w, 4, 26))
    BY ONLY <1>0, <1>1, DivLeft
<1>3. Reaches(s, p, S, DivAt(a, t, q, o, n, x, y, z, w, 4, 26), DivAt(a, t, q, o, n, x, y, z, w, 3, 27))
    BY ONLY <1>0, <1>1, DivLeft
<1>4. Reaches(s, p, S, DivAt(a, t, q, o, n, x, y, z, w, 3, 27), DivAt(a, t, q, o, n, x, y, z, w, 2, 28))
    BY ONLY <1>0, <1>1, DivLeft
<1>5. Reaches(s, p, S, DivAt(a, t, q, o, n, x, y, z, w, 2, 28), DivAt(a, t, q, o, n, x, y, z, w, 1, 29))
    BY ONLY <1>0, <1>1, DivLeft
<1>6. Reaches(s, p, S, DivAt(a, t, q, o, n, x, y, z, w, 1, 29), DivAt(a, t, q, o, n, x, y, z, w, 0, 30))
    BY ONLY <1>0, <1>1, DivLeft
<1> QED
    BY ONLY <1>2, <1>3, <1>4, <1>5, <1>6, ReachTrans

\* The quotient counts up.
LEMMA DivEnds ==
    ASSUME NEW s, NEW p, NEW S, NEW a, NEW t, NEW q, NEW o, NEW n, Dividing(s, p, S, a, t, q, o, n),
           NEW x \in Byte, NEW y \in Byte, NEW z \in Byte, NEW w \in Byte, NEW u \in Byte, u = w + 1
    PROVE  Reaches(s, p, S, DivAt(a, t, q, o, n, x, y, z, w, 2, 20), DivAt(a, t, q, o, n, x, y, z, u, 5, 24))
<1>0. Dividing(s, p, S, a, t, q, o, n) /\ x \in Byte /\ y \in Byte /\ z \in Byte /\ w \in Byte /\ u \in Byte
    OBVIOUS
<1>1. DivModCode[20] = Move(1) /\ DivModCode[21] = Add(u - w) /\ DivModCode[22] = Move(1) /\ DivModCode[23] = Move(1)
    <2>1. u - w = 1
        BY DEF Byte
    <2> QED
        BY <2>1, DivText
<1>2. Reaches(s, p, S, DivAt(a, t, q, o, n, x, y, z, w, 2, 20), DivAt(a, t, q, o, n, x, y, z, w, 3, 21))
    BY ONLY <1>0, <1>1, DivRight
<1>3. Reaches(s, p, S, DivAt(a, t, q, o, n, x, y, z, w, 3, 21), DivAt(a, t, q, o, n, x, y, z, u, 3, 22))
    BY ONLY <1>0, <1>1, DivAddFourth
<1>4. Reaches(s, p, S, DivAt(a, t, q, o, n, x, y, z, u, 3, 22), DivAt(a, t, q, o, n, x, y, z, u, 4, 23))
    BY ONLY <1>0, <1>1, DivRight
<1>5. Reaches(s, p, S, DivAt(a, t, q, o, n, x, y, z, u, 4, 23), DivAt(a, t, q, o, n, x, y, z, u, 5, 24))
    BY ONLY <1>0, <1>1, DivRight
<1> QED
    BY ONLY <1>2, <1>3, <1>4, <1>5, ReachTrans

\* What the brackets of a division look at.
LEMMA DivCells ==
    ASSUME NEW t, NEW q, Operands(t, q), NEW x \in Byte, NEW y \in Byte, NEW z \in Byte, NEW w \in Byte
    PROVE  /\ Quad(t, q, x, y, z, w)[q + 0] = x /\ Quad(t, q, x, y, z, w)[q + 1] = y
           /\ Quad(t, q, x, y, z, w)[q + 2] = z
           /\ Quad(t, q, x, y, z, w)[q + 4] = 0 /\ Quad(t, q, x, y, z, w)[q + 5] = 0
<1> DEFINE u == Quad(t, q, x, y, z, w)
<1>1. /\ t \in Tapes /\ q \in Int /\ q + 4 \in Cells /\ q + 5 \in Cells
      /\ t[q + 4] = 0 /\ t[q + 5] = 0
    BY DEF Operands
<1>2. IsQuad(u, t, q, x, y, z, w)
    BY QuadIs
<1> HIDE DEF u
<1>3. q + 4 \notin q .. (q + 3) /\ q + 5 \notin q .. (q + 3) /\ q + 0 = q
    BY <1>1
<1> QED
    BY <1>1, <1>2, <1>3 DEF IsQuad, u

\* A turn of a division whose divisor does not run out.
LEMMA DivTurn ==
    ASSUME NEW s, NEW p, NEW S, NEW a, NEW t, NEW q, NEW o, NEW n, Dividing(s, p, S, a, t, q, o, n),
           NEW x \in Byte, NEW y \in Byte, NEW z \in Byte, NEW w \in Byte,
           NEW u \in Byte, NEW v \in Byte, NEW r \in Byte, u = x + (-1), v = y + (-1), r = z + 1, v # 0
    PROVE  Reaches(s, p, S, DivAt(a, t, q, o, n, x, y, z, w, 0, 2), DivAt(a, t, q, o, n, u, v, r, w, 0, 30))
<1>0. /\ Dividing(s, p, S, a, t, q, o, n) /\ x \in Byte /\ y \in Byte /\ z \in Byte /\ w \in Byte
      /\ u \in Byte /\ v \in Byte /\ r \in Byte
    OBVIOUS
<1>1. Operands(t, q)
    BY DEF Dividing
<1>2. /\ Quad(t, q, u, v, z, w)[q + 1] = v
      /\ Quad(t, q, u, v, r, w)[q + 4] = 0 /\ Quad(t, q, u, v, r, w)[q + 5] = 0
    BY ONLY <1>0, <1>1, DivCells
<1>3. Reaches(s, p, S, DivAt(a, t, q, o, n, x, y, z, w, 0, 2), DivAt(a, t, q, o, n, u, v, z, w, 1, 5))
    BY DivCounts
<1>4. Reaches(s, p, S, DivAt(a, t, q, o, n, u, v, z, w, 1, 5), DivAt(a, t, q, o, n, u, v, z, w, 1, 6))
    <2>1. Around(5, 10) /\ 1 \in 0 .. 5 /\ 6 = (IF Quad(t, q, u, v, z, w)[q + 1] = 0 THEN 10 ELSE 5) + 1
        BY <1>2, DmPairs
    <2> QED
        BY ONLY <1>0, <2>1, DivOpen
<1>5. Reaches(s, p, S, DivAt(a, t, q, o, n, u, v, z, w, 1, 6), DivAt(a, t, q, o, n, u, v, r, w, 4, 10))
    BY DivNext
<1>6. Reaches(s, p, S, DivAt(a, t, q, o, n, u, v, r, w, 4, 10), DivAt(a, t, q, o, n, u, v, r, w, 4, 11))
    <2>1. Around(5, 10) /\ 4 \in 0 .. 5 /\ 11 = (IF Quad(t, q, u, v, r, w)[q + 4] = 0 THEN 10 ELSE 5) + 1
        BY <1>2, DmPairs
    <2> QED
        BY ONLY <1>0, <2>1, DivClose, SMTT(20)
<1>7. Reaches(s, p, S, DivAt(a, t, q, o, n, u, v, r, w, 4, 11), DivAt(a, t, q, o, n, u, v, r, w, 5, 12))
    <2>1. DivModCode[11] = Move(1)
        BY DivText
    <2> QED
        BY ONLY <1>0, <2>1, DivRight, SMTT(20)
<1>8. Reaches(s, p, S, DivAt(a, t, q, o, n, u, v, r, w, 5, 12), DivAt(a, t, q, o, n, u, v, r, w, 5, 25))
    <2>1. Around(12, 24) /\ 5 \in 0 .. 5 /\ 25 = (IF Quad(t, q, u, v, r, w)[q + 5] = 0 THEN 24 ELSE 12) + 1
        BY <1>2, DmPairs
    <2> QED
        BY ONLY <1>0, <2>1, DivOpen
<1>9. Reaches(s, p, S, DivAt(a, t, q, o, n, u, v, r, w, 5, 25), DivAt(a, t, q, o, n, u, v, r, w, 0, 30))
    BY DivBack
<1> QED
    BY ONLY <1>3, <1>4, <1>5, <1>6, <1>7, <1>8, <1>9, ReachTrans

\* A turn that uses the divisor up: the remainder becomes the divisor again.
LEMMA DivTurnOver ==
    ASSUME NEW s, NEW p, NEW S, NEW a, NEW t, NEW q, NEW o, NEW n, Dividing(s, p, S, a, t, q, o, n),
           NEW x \in Byte, NEW y \in Byte, NEW z \in Byte, NEW w \in Byte,
           NEW u \in Byte, NEW v \in Byte, NEW r \in Byte, NEW k \in Byte,
           u = x + (-1), v = y + (-1), v = 0, z # 0, r = z + 1, k = w + 1
    PROVE  Reaches(s, p, S, DivAt(a, t, q, o, n, x, y, z, w, 0, 2), DivAt(a, t, q, o, n, u, r, 0, k, 0, 30))
<1>0. /\ Dividing(s, p, S, a, t, q, o, n) /\ x \in Byte /\ y \in Byte /\ z \in Byte /\ w \in Byte
      /\ u \in Byte /\ v \in Byte /\ r \in Byte /\ k \in Byte /\ 0 \in Byte
    BY ModByte
<1>1. Operands(t, q) /\ v + r = r /\ r < Mod /\ r # 0 /\ Mod \in Int
    BY MachineAssumption DEF Dividing, Byte
<1>2. /\ Quad(t, q, u, v, z, w)[q + 1] = v /\ Quad(t, q, u, v, z, w)[q + 2] = z
      /\ Quad(t, q, u, v, r, w)[q + 2] = r /\ Quad(t, q, u, r, 0, k)[q + 5] = 0
    BY ONLY <1>0, <1>1, DivCells
<1>3. Reaches(s, p, S, DivAt(a, t, q, o, n, x, y, z, w, 0, 2), DivAt(a, t, q, o, n, u, v, z, w, 1, 5))
    BY DivCounts
<1>4. Reaches(s, p, S, DivAt(a, t, q, o, n, u, v, z, w, 1, 5), DivAt(a, t, q, o, n, u, v, z, w, 1, 11))
    <2>1. Around(5, 10) /\ 1 \in 0 .. 5 /\ 11 = (IF Quad(t, q, u, v, z, w)[q + 1] = 0 THEN 10 ELSE 5) + 1
        BY <1>2, DmPairs
    <2> QED
        BY ONLY <1>0, <2>1, DivOpen
<1>5. Reaches(s, p, S, DivAt(a, t, q, o, n, u, v, z, w, 1, 11), DivAt(a, t, q, o, n, u, v, z, w, 2, 12))
    <2>1. DivModCode[11] = Move(1)
        BY DivText
    <2> QED
        BY ONLY <1>0, <2>1, DivRight, SMTT(20)
<1>6. Reaches(s, p, S, DivAt(a, t, q, o, n, u, v, z, w, 2, 12), DivAt(a, t, q, o, n, u, v, z, w, 2, 13))
    <2>1. Around(12, 24) /\ 2 \in 0 .. 5 /\ 13 = (IF Quad(t, q, u, v, z, w)[q + 2] = 0 THEN 24 ELSE 12) + 1
        BY <1>2, DmPairs
    <2> QED
        BY ONLY <1>0, <2>1, DivOpen
<1>7. Reaches(s, p, S, DivAt(a, t, q, o, n, u, v, z, w, 2, 13), DivAt(a, t, q, o, n, u, v, r, w, 2, 14))
    <2>1. DivModCode[13] = Add(r - z)
        <3>1. r - z = 1
            BY DEF Byte
        <3> QED
            BY <3>1, DivText
    <2> QED
        BY ONLY <1>0, <2>1, DivAddThird, SMTT(20)
<1>8. Reaches(s, p, S, DivAt(a, t, q, o, n, u, v, r, w, 2, 14), DivAt(a, t, q, o, n, u, v, r, w, 2, 15))
    <2>1. Around(14, 19) /\ 2 \in 0 .. 5 /\ 15 = (IF Quad(t, q, u, v, r, w)[q + 2] = 0 THEN 19 ELSE 14) + 1
        BY <1>1, <1>2, DmPairs
    <2> QED
        BY ONLY <1>0, <2>1, DivOpen
<1>9. Reaches(s, p, S, DivAt(a, t, q, o, n, u, v, r, w, 2, 15), DivAt(a, t, q, o, n, u, r, 0, w, 2, 20))
    BY <1>1, DivPours
<1>10. Reaches(s, p, S, DivAt(a, t, q, o, n, u, r, 0, w, 2, 20), DivAt(a, t, q, o, n, u, r, 0, k, 5, 24))
    <2>1. k = w + 1
        OBVIOUS
    <2> QED
        BY ONLY <1>0, <2>1, DivEnds
<1>11. Reaches(s, p, S, DivAt(a, t, q, o, n, u, r, 0, k, 5, 24), DivAt(a, t, q, o, n, u, r, 0, k, 5, 25))
    <2>1. Around(12, 24) /\ 5 \in 0 .. 5 /\ 25 = (IF Quad(t, q, u, r, 0, k)[q + 5] = 0 THEN 24 ELSE 12) + 1
        BY <1>2, DmPairs
    <2> QED
        BY ONLY <1>0, <2>1, DivClose, SMTT(20)
<1>12. Reaches(s, p, S, DivAt(a, t, q, o, n, u, r, 0, k, 5, 25), DivAt(a, t, q, o, n, u, r, 0, k, 0, 30))
    BY ONLY <1>0, DivBack
<1> QED
    BY ONLY <1>3, <1>4, <1>5, <1>6, <1>7, <1>8, <1>9, <1>10, <1>11, <1>12, ReachTrans
\* Quotient and remainder are what they are.
LEMMA DivUnique ==
    ASSUME NEW x \in Nat, NEW d \in Nat, d # 0, NEW k \in Nat, NEW r \in Nat, r < d, x = d * k + r
    PROVE  x % d = r /\ x \div d = k
<1> DEFINE i == x \div d
           j == x % d
<1>1. j \in Int /\ j >= 0 /\ j < d /\ i \in Int /\ x = d * i + j
    BY ONLY x \in Nat, d \in Nat, d # 0
<1> HIDE DEF i, j
<1>2. d * (i - k) = r - j
    BY <1>1
<1>3. \A z \in Int : (z >= 1 => d * z >= d) /\ (z <= -1 => d * z <= -d)
    OBVIOUS
<1>4. i - k \in Int /\ ~(i - k >= 1) /\ ~(i - k <= -1)
    BY <1>1, <1>2, <1>3
<1>5. i - k = 0
    BY <1>4
<1> QED
    BY <1>1, <1>2, <1>5 DEF i, j

\* After a turn of a division, n - x has been divided by d.
Divided(d, n, x, k, r) == k \in Byte /\ r \in Byte /\ r < d /\ n - x = d * k + r

LEMMA DivStep ==
    ASSUME NEW s, NEW p, NEW S, NEW a, NEW t, NEW q, NEW o, NEW n, Dividing(s, p, S, a, t, q, o, n),
           NEW b \in Byte, NEW d \in Byte, d >= 2, NEW x \in Byte, x # 0, x <= b,
           NEW k, NEW r, Divided(d, b, x, k, r)
    PROVE  \E k2, r2 : /\ Divided(d, b, x - 1, k2, r2)
                       /\ Reaches(s, p, S, DivAt(a, t, q, o, n, x, d - r, r, k, 0, 2),
                                           DivAt(a, t, q, o, n, x - 1, d - r2, r2, k2, 0, 30))
<1> DEFINE u == x - 1
           y == d - r
           v == y - 1
<1>1. Byte = 0 .. (Mod - 1) /\ Mod \in Nat /\ Mod >= 2
    BY MachineAssumption DEF Byte
<1>2. k \in Byte /\ r \in Byte /\ r < d /\ b - x = d * k + r
    BY DEF Divided
<1>3. d * k \in Int /\ d * k >= k
    <2>1. k \in Nat /\ d \in Nat /\ d >= 2
        BY <1>1, <1>2
    <2> QED
        BY ONLY <2>1
<1>4. /\ u \in Byte /\ y \in Byte /\ v \in Byte /\ u = x + (-1) /\ v = y + (-1)
      /\ y # 0 /\ v = d - (r + 1)
    BY <1>1, <1>2
<1>5. b - u = d * k + (r + 1)
    <2> DEFINE z == d * k
    <2>1. z \in Int /\ b - x = z + r /\ b \in Int /\ x \in Int /\ r \in Int
        BY <1>1, <1>2, <1>3
    <2> HIDE DEF z
    <2>2. b - (x - 1) = z + (r + 1)
        BY <2>1
    <2> QED
        BY <2>2 DEF z
<1>6. 0 \in Byte
    BY ModByte
<1> HIDE DEF u, y, v
<1>7. CASE v # 0
    <2> DEFINE r2 == r + 1
    <2>1. r2 \in Byte /\ r2 < d /\ r2 = r + 1
        BY <1>1, <1>2, <1>4, <1>7
    <2>2. Divided(d, b, u, k, r2)
        BY <1>2, <1>5, <2>1 DEF Divided
    <2>3. d - r2 = v
        BY <1>4
    <2>4. /\ Dividing(s, p, S, a, t, q, o, n) /\ x \in Byte /\ y \in Byte /\ r \in Byte /\ k \in Byte
          /\ u \in Byte /\ v \in Byte /\ r2 \in Byte /\ u = x + (-1) /\ v = y + (-1) /\ r2 = r + 1 /\ v # 0
        BY <1>2, <1>4, <1>7, <2>1
    <2> HIDE DEF r2
    <2>5. Reaches(s, p, S, DivAt(a, t, q, o, n, x, y, r, k, 0, 2), DivAt(a, t, q, o, n, u, v, r2, k, 0, 30))
        BY ONLY <2>4, DivTurn
    <2> QED
        BY <2>2, <2>3, <2>5 DEF u, y
<1>8. CASE v = 0
    <2> DEFINE r2 == r + 1
               k2 == k + 1
    <2>1. r2 = d /\ r2 \in Byte /\ r # 0 /\ k2 \in Byte
        <3>1. r2 = d /\ r # 0
            BY <1>1, <1>2, <1>4, <1>8
        <3>2. k2 \in Byte
            <4> DEFINE z == d * k
            <4>1. z \in Int /\ z >= k /\ b - u = z + (r + 1) /\ b < Mod /\ u >= 0 /\ k >= 0 /\ r >= 0 
                  /\ b \in Int /\ u \in Int /\ k \in Int /\ r \in Int
                BY <1>1, <1>2, <1>3, <1>4, <1>5
            <4> HIDE DEF z
            <4>2. k2 \in 0 .. (Mod - 1)
                BY <1>1, <4>1
            <4> QED
                BY <1>1, <4>2
        <3> QED
            BY <3>1, <3>2
    <2>2. b - u = d * k2 + 0
        <3>1. d \in Int /\ k \in Int
            BY <1>1, <1>2
        <3>2. d * (k + 1) = d * k + d /\ d * k \in Int
            BY ONLY <3>1
        <3>3. b - u = d * k + d
            BY <1>5, <2>1
        <3> QED
            BY <1>3, <3>1, <3>2, <3>3
    <2>3. Divided(d, b, u, k2, 0)
        BY <1>1, <1>6, <2>1, <2>2 DEF Divided
    <2>4. /\ Dividing(s, p, S, a, t, q, o, n) /\ x \in Byte /\ y \in Byte /\ r \in Byte /\ k \in Byte
          /\ u \in Byte /\ v \in Byte /\ r2 \in Byte /\ k2 \in Byte /\ u = x + (-1) /\ v = y + (-1) /\ r2 = r + 1
          /\ v = 0 /\ r # 0 /\ k2 = k + 1
        BY <1>2, <1>4, <1>8, <2>1
    <2>5. d - 0 = r2
        BY <1>1, <2>1
    <2> HIDE DEF r2, k2
    <2>6. Reaches(s, p, S, DivAt(a, t, q, o, n, x, y, r, k, 0, 2), DivAt(a, t, q, o, n, u, r2, 0, k2, 0, 30))
        BY ONLY <2>4, DivTurnOver
    <2> QED
        BY <2>3, <2>5, <2>6 DEF u, y
<1> QED
    BY <1>7, <1>8
\* All turns of a division.
LEMMA DivTurns ==
    ASSUME NEW s, NEW p, NEW S, NEW a, NEW t, NEW q, NEW o, NEW n, Dividing(s, p, S, a, t, q, o, n),
           t[q + 2] = 0, t[q + 3] = 0, NEW b, NEW d, b = t[q], d = t[q + 1], b # 0, d >= 2
    PROVE  /\ b % d \in Byte /\ b \div d \in Byte /\ d - (b % d) \in Byte
           /\ Reaches(s, p, S, Dm(a, t, q, 1, o, n),
                      Dm(a, Quad(t, q, 0, d - (b % d), b % d, b \div d), q, 31, o, n))
<1>1. Byte = 0 .. (Mod - 1) /\ Mod \in Nat /\ Mod >= 2 /\ 0 \in Byte
    BY MachineAssumption, ModByte DEF Byte
<1>2. Operands(t, q) /\ t \in Tapes /\ q \in Int /\ q + 0 \in Cells /\ q + 1 \in Cells /\ q + 0 = q
    BY DEF Dividing, Operands
<1>3. b \in Byte /\ d \in Byte /\ q \in Cells
    BY <1>2, CellByte
<1>4. Quad(t, q, b, d, 0, 0) = t
    BY <1>2, QuadSame
<1> DEFINE Z(x, y, z, w, k) == DivAt(a, t, q, o, n, x, y, z, w, 0, k)
           To(m1, m2) == Reaches(s, p, S, m1, m2)
           G == {m \in Nat : m < b => \E k, r : Divided(d, b, b - m, k, r) /\ To(Z(b, d, 0, 0, 1), Z(b - m, d - r, r, k, 2))}
<1>5. Z(b, d, 0, 0, 1) = Dm(a, t, q, 1, o, n)
    BY <1>2, <1>4 DEF DivAt
<1>6. To(Z(b, d, 0, 0, 1), Z(b, d, 0, 0, 2))
    <2>1. Quad(t, q, b, d, 0, 0)[q + 0] # 0
        BY <1>2, <1>4
    <2>2. Around(1, 30) /\ 0 \in 0 .. 5 /\ 2 = (IF Quad(t, q, b, d, 0, 0)[q + 0] = 0 THEN 30 ELSE 1) + 1
        BY <2>1, DmPairs
    <2>3. Dividing(s, p, S, a, t, q, o, n) /\ b \in Byte /\ d \in Byte /\ 0 \in Byte
        BY <1>1, <1>3
    <2> QED
        BY ONLY <2>2, <2>3, DivOpen
<1>7. ASSUME NEW x \in Byte, x # 0, x <= b, NEW k, NEW r, Divided(d, b, x, k, r),
             To(Z(b, d, 0, 0, 1), Z(x, d - r, r, k, 2))
      PROVE  \E k2, r2 : /\ Divided(d, b, x - 1, k2, r2) /\ d - r2 \in Byte
                         /\ To(Z(b, d, 0, 0, 1), Z(x - 1, d - r2, r2, k2, IF x - 1 = 0 THEN 31 ELSE 2))
    <2>1. PICK k2, r2 : /\ Divided(d, b, x - 1, k2, r2)
                        /\ To(Z(x, d - r, r, k, 2), Z(x - 1, d - r2, r2, k2, 30))
        <3>1. Dividing(s, p, S, a, t, q, o, n) /\ b \in Byte /\ d \in Byte /\ d >= 2 /\ x \in Byte /\ x # 0 /\ x <= b
            BY <1>3, <1>7
        <3> QED
            BY <1>7, <3>1, DivStep
    <2> DEFINE u == x - 1
               v == d - r2
               l == IF u = 0 THEN 31 ELSE 2
    <2>2. u \in Byte /\ v \in Byte /\ k2 \in Byte /\ r2 \in Byte
        <3>1. k2 \in Byte /\ r2 \in Byte /\ r2 < d
            BY <2>1 DEF Divided
        <3>2. x \in Byte /\ x # 0 /\ d \in Byte
            BY <1>3, <1>7
        <3>3. x - 1 \in Byte /\ d - r2 \in Byte
            BY ONLY <1>1, <3>1, <3>2
        <3> QED
            BY <3>1, <3>3
    <2>3. Divided(d, b, u, k2, r2) /\ To(Z(x, d - r, r, k, 2), Z(u, v, r2, k2, 30))
        BY <2>1
    <2>4. l = (IF u = 0 THEN 30 ELSE 1) + 1
        OBVIOUS
    <2> HIDE DEF u, v, l
    <2>5. Quad(t, q, u, v, r2, k2)[q + 0] = u
        <3>1. Operands(t, q)
            BY <1>2
        <3> QED
            BY ONLY <2>2, <3>1, DivCells
    <2>6. To(Z(u, v, r2, k2, 30), Z(u, v, r2, k2, l))
        <3>1. /\ Around(1, 30) /\ 0 \in 0 .. 5 /\ l = (IF Quad(t, q, u, v, r2, k2)[q + 0] = 0 THEN 30 ELSE 1) + 1
              /\ Dividing(s, p, S, a, t, q, o, n)
            BY <2>4, <2>5, DmPairs
        <3> QED
            BY ONLY <2>2, <3>1, DivClose
    <2> HIDE DEF Z
    <2>7. To(Z(b, d, 0, 0, 1), Z(u, v, r2, k2, l))
        BY ONLY <1>7, <2>3, <2>6, ReachTrans DEF To
    <2> HIDE DEF To
    <2> QED
        BY <2>2, <2>3, <2>7 DEF u, v, l
<1> HIDE DEF Z, To
<1>8. 0 \in G
    <2>1. Divided(d, b, b - 0, 0, 0)
        BY <1>1, <1>3 DEF Divided
    <2>2. b - 0 = b /\ d - 0 = d
        BY <1>1, <1>3
    <2> QED
        BY <1>6, <2>1, <2>2
<1>9. ASSUME NEW m \in Nat, m \in G PROVE m + 1 \in G
    <2>1. SUFFICES ASSUME m + 1 < b
                   PROVE  \E k, r : /\ Divided(d, b, b - (m + 1), k, r)
                                    /\ To(Z(b, d, 0, 0, 1), Z(b - (m + 1), d - r, r, k, 2))
        OBVIOUS
    <2> DEFINE x == b - m
    <2>2. m < b /\ x \in Byte /\ x # 0 /\ x <= b /\ x - 1 = b - (m + 1) /\ x - 1 # 0
        <3>1. m \in Nat /\ b \in Byte /\ m + 1 < b
            BY <1>3, <2>1
        <3>2. m < b /\ b - m \in Byte /\ b - m # 0 /\ b - m <= b /\ (b - m) - 1 = b - (m + 1) /\ (b - m) - 1 # 0
            BY ONLY <1>1, <3>1
        <3> QED
            BY <3>2
    <2>3. PICK k, r : Divided(d, b, x, k, r) /\ To(Z(b, d, 0, 0, 1), Z(x, d - r, r, k, 2))
        BY <1>9, <2>2
    <2> HIDE DEF x
    <2>4. \E k2, r2 : /\ Divided(d, b, x - 1, k2, r2) /\ d - r2 \in Byte
                      /\ To(Z(b, d, 0, 0, 1), Z(x - 1, d - r2, r2, k2, IF x - 1 = 0 THEN 31 ELSE 2))
        BY <1>7, <2>2, <2>3
    <2> QED
        BY <2>2, <2>4
<1> HIDE DEF G
<1>10. Nat \subseteq G
    BY <1>8, <1>9, NatInd
<1>11. PICK k, r : Divided(d, b, 1, k, r) /\ To(Z(b, d, 0, 0, 1), Z(1, d - r, r, k, 2))
    <2> DEFINE m == b - 1
    <2>1. m \in Nat /\ m < b /\ b - m = 1
        BY <1>1, <1>3
    <2> HIDE DEF m
    <2> QED
        BY <1>10, <2>1 DEF G
<1>12. PICK k2, r2 : /\ Divided(d, b, 0, k2, r2) /\ d - r2 \in Byte
                     /\ To(Z(b, d, 0, 0, 1), Z(0, d - r2, r2, k2, 31))
    <2>1. 1 \in Byte /\ 1 # 0 /\ 1 <= b /\ 1 - 1 = 0
        BY <1>1, <1>3
    <2> QED
        BY <1>7, <1>11, <2>1
<1>13. b % d = r2 /\ b \div d = k2
    <2>1. k2 \in Nat /\ r2 \in Nat /\ r2 < d /\ b = d * k2 + r2 /\ b \in Nat /\ d \in Nat /\ d # 0
        <3>1. k2 \in Byte /\ r2 \in Byte /\ r2 < d /\ b - 0 = d * k2 + r2
            BY <1>12 DEF Divided
        <3>2. b \in Byte /\ d \in Byte /\ d >= 2
            BY <1>3
        <3>3. b - 0 = b
            BY ONLY <1>1, <3>2
        <3>4. k2 \in Nat /\ r2 \in Nat /\ b \in Nat /\ d \in Nat /\ d # 0
            BY ONLY <1>1, <3>1, <3>2
        <3> QED
            BY ONLY <3>1, <3>3, <3>4
    <2> QED
        BY ONLY <2>1, DivUnique
<1>14. Z(0, d - r2, r2, k2, 31) = Dm(a, Quad(t, q, 0, d - r2, r2, k2), q, 31, o, n)
    BY <1>2 DEF Z, DivAt
<1>15. k2 \in Byte /\ r2 \in Byte
    BY <1>12 DEF Divided
<1> QED
    BY <1>5, <1>12, <1>13, <1>14, <1>15 DEF To
\* The four cells, written one after the other.
LEMMA QuadWrites ==
    ASSUME NEW t, NEW q, Operands(t, q), NEW x \in Byte, NEW y \in Byte, NEW z \in Byte, NEW w \in Byte
    PROVE  [t EXCEPT ![q] = x, ![q + 1] = y, ![q + 2] = z, ![q + 3] = w] = Quad(t, q, x, y, z, w)
<1> DEFINE e == [t EXCEPT ![q] = x, ![q + 1] = y, ![q + 2] = z, ![q + 3] = w]
           u == Quad(t, q, x, y, z, w)
<1>1. t \in [Cells -> Byte] /\ q \in Int
    BY DEF Operands, Tapes
<1>2. e \in Tapes
    BY <1>1 DEF Tapes
<1>3. u \in Tapes
    BY QuadIs DEF IsQuad
<1>4. \A c \in Cells : e[c] = u[c]
    <2> TAKE c \in Cells
    <2>1. e[c] = IF c = q + 3 THEN w ELSE IF c = q + 2 THEN z ELSE IF c = q + 1 THEN y ELSE IF c = q THEN x ELSE t[c]
        BY <1>1
    <2>2. u[c] = IF c = q THEN x ELSE IF c = q + 1 THEN y ELSE IF c = q + 2 THEN z ELSE IF c = q + 3 THEN w ELSE t[c]
        BY DEF Quad
    <2>3. c \in Int
        BY DEF Cells
    <2> HIDE DEF e, u
    <2> QED
        BY <1>1, <2>1, <2>2, <2>3
<1> HIDE DEF e, u
<1>5. e = u
    BY <1>2, <1>3, <1>4, SameTape
<1> QED
    BY <1>5 DEF e, u

\* Division and text lead to the same machine.
DividesTo(s, p, S, from, i, t, q, c, o, n) ==
    \E u \in Tapes : /\ DivMod(Mk(t, q, c, o, n)) = Mk(u, q, c, o, n)
                     /\ Reaches(s, p, S, Mk(t, q, from[i], o, n), Mk(u, q, from[i + 1], o, n))

\* A division is what its text does, unless the cells behind the operands are in use
\* or the divisor is too small.
LEMMA OpDivMod ==
    ASSUME NEW s, NEW p, NEW lk, NEW from, Coded(s, p, lk, from), NEW i, i \in 1 .. Len(lk), lk[i].op = "divmod",
           NEW S, Span(from, i, i + 1) \subseteq S,
           NEW t \in Tapes, NEW q \in Cells, NEW o \in Seq(Byte), NEW n \in Seq(Byte), NEW c,
           \A k \in (q + 2) .. (q + 5) : k \in Cells /\ t[k] = 0,
           t[q] = 0 \/ t[q + 1] >= 2
    PROVE  DividesTo(s, p, S, from, i, t, q, c, o, n)
<1> DEFINE a == from[i]
           b == t[q]
           d == t[q + 1]
           m == Mk(t, q, c, o, n)
<1>1. Divides(s, p, S, a) /\ from[i + 1] = a + 30
    <2> DEFINE e == from[i + 1]
    <2>1. /\ a \in 1 .. Len(s) /\ e <= Len(s) + 1 /\ Written(lk[i], s, a, e) /\ Len(s) \in Nat
          /\ a .. (e - 1) \subseteq S /\ Program(s, p) /\ lk[i].op = "divmod"
        BY PlaceIs, CodedIs DEF Span, Coded
    <2> HIDE DEF a, e
    <2>2. e = a + 30 /\ \A k \in 1 .. 30 : s[a + k - 1] = DivModCode[k]
        BY ONLY <2>1 DEF Written
    <2>3. a \in Nat /\ a >= 1 /\ \A k \in 1 .. 30 : a + k - 1 \in 1 .. Len(s) /\ a + k - 1 \in a .. (e - 1)
        <3>1. a \in 1 .. Len(s) /\ e <= Len(s) + 1 /\ Len(s) \in Nat /\ e = a + 30
            BY <2>1, <2>2
        <3> QED
            BY ONLY <3>1
    <2>4. Divides(s, p, S, a)
        BY ONLY <2>1, <2>2, <2>3 DEF Divides
    <2> QED
        BY <2>2, <2>4 DEF e
<1>2. Operands(t, q) /\ q \in Int /\ q + 1 \in Cells /\ q + 3 \in Cells /\ t[q + 2] = 0 /\ t[q + 3] = 0
    <2>1. q \in Int /\ \A k \in Cells : k \in 0 .. (TapeSize - 1)
        BY DEF Cells
    <2>2. TapeSize \in Nat
        BY MachineAssumption
    <2>3. /\ q + 2 \in Cells /\ q + 3 \in Cells /\ q + 4 \in Cells /\ q + 5 \in Cells
          /\ t[q + 2] = 0 /\ t[q + 3] = 0 /\ t[q + 4] = 0 /\ t[q + 5] = 0
        BY <2>1
    <2>4. q + 1 \in Cells /\ q + 0 \in Cells
        BY <2>1, <2>2, <2>3 DEF Cells
    <2>5. \A j \in 0 .. 5 : q + j \in Cells
        BY <2>3, <2>4
    <2> QED
        BY <2>1, <2>3, <2>4, <2>5 DEF Operands
<1>3. Dividing(s, p, S, a, t, q, o, n)
    BY <1>1, <1>2 DEF Dividing
<1>4. b \in Byte /\ d \in Byte /\ 0 \in Byte /\ Byte = 0 .. (Mod - 1) /\ Mod \in Nat /\ Mod >= 2
    BY <1>2, CellByte, ModByte, MachineAssumption DEF Byte
<1>5. m.tape = t /\ m.ptr = q
    BY DEF Mk
<1>6. a \in Nat
    BY <1>1 DEF Divides
<1>7. ASSUME NEW y \in Byte, NEW z \in Byte, NEW w \in Byte, d # 0, y = d - (b % d), z = b % d, w = b \div d
      PROVE  DivMod(m) = Mk(Quad(t, q, 0, y, z, w), q, c, o, n)
    <2> DEFINE u == Quad(t, q, 0, y, z, w)
               e == [t EXCEPT ![q] = 0, ![q + 1] = y, ![q + 2] = z, ![q + 3] = w]
               r == [m EXCEPT !.tape = e]
    <2>1. DivMod(m) = r
        <3> HIDE DEF m
        <3> QED
            BY <1>2, <1>5, <1>7 DEF DivMod
    <2>2. e = u
        <3>1. Operands(t, q) /\ 0 \in Byte
            BY <1>2, <1>4
        <3> HIDE DEF m, r
        <3> QED
            BY <3>1, QuadWrites
    <2>3. m = Mk(t, q, c, o, n) /\ r = [m EXCEPT !.tape = e]
        OBVIOUS
    <2> HIDE DEF r, e, m
    <2>4. r = Mk(e, q, c, o, n)
        BY ONLY <2>3 DEF Mk
    <2> QED
        BY <2>1, <2>2, <2>4
<1>8. CASE b = 0
    <2>1. Reaches(s, p, S, Mk(t, q, a, o, n), Mk(t, q, a + 30, o, n))
        <3>1. Around(1, 30) /\ 31 = (IF t[q] = 0 THEN 30 ELSE 1) + 1
            BY <1>8, DmPairs
        <3>2. Divides(s, p, S, a) /\ t \in Tapes /\ q \in Cells /\ o \in Seq(Byte) /\ n \in Seq(Byte)
            BY <1>1
        <3>3. Reaches(s, p, S, Dm(a, t, q, 1, o, n), Dm(a, t, q, 31, o, n))
            BY ONLY <3>1, <3>2, DmOpen
        <3>4. a + 1 - 1 = a /\ a + 31 - 1 = a + 30
            BY <1>6
        <3> QED
            BY <3>3, <3>4 DEF Dm
    <2>2. DivMod(m) = Mk(t, q, c, o, n)
        <3>1. CASE d = 0
            <4>1. DivMod(m) = SetCurrent(m, 0)
                <5> HIDE DEF m
                <5> QED
                    BY <1>2, <1>5, <3>1 DEF DivMod
            <4>2. SetCurrent(m, 0) = Mk(Put(t, q, 0 % Mod), q, c, o, n)
                BY SetCurrentMk
            <4>3. 0 % Mod = 0 /\ Put(t, q, 0) = t
                BY <1>4, <1>8, ModSmall, PutIs
            <4> QED
                BY <4>1, <4>2, <4>3
        <3>2. CASE d # 0
            <4>1. b % d = 0 /\ b \div d = 0
                <5>1. d \in Nat /\ d # 0 /\ b = 0
                    BY <1>4, <1>8, <3>2
                <5>2. 0 \in Nat /\ 0 < d /\ 0 = d * 0 + 0
                    BY <5>1
                <5> QED
                    BY ONLY <5>1, <5>2, DivUnique
            <4>2. d = d - (b % d)
                BY <1>4, <4>1
            <4>3. DivMod(m) = Mk(Quad(t, q, 0, d, 0, 0), q, c, o, n)
                BY <1>4, <1>7, <3>2, <4>1, <4>2
            <4>4. Quad(t, q, 0, d, 0, 0) = t
                BY <1>2, <1>8, QuadSame
            <4> QED
                BY <4>3, <4>4
        <3> QED
            BY <3>1, <3>2
    <2> QED
        BY <1>1, <2>1, <2>2 DEF DividesTo
<1>9. CASE b # 0
    <2> DEFINE y == d - (b % d)
               z == b % d
               w == b \div d
               u == Quad(t, q, 0, y, z, w)
    <2>1. d >= 2 /\ d # 0
        BY <1>4, <1>9
    <2>2. y \in Byte /\ z \in Byte /\ w \in Byte /\ Reaches(s, p, S, Dm(a, t, q, 1, o, n), Dm(a, u, q, 31, o, n))
        BY <1>2, <1>3, <1>9, <2>1, DivTurns
    <2>3. u \in Tapes
        <3> HIDE DEF y, z, w
        <3> QED
            BY <1>2, <1>4, <2>2, QuadIs DEF IsQuad
    <2>4. DivMod(m) = Mk(u, q, c, o, n)
        BY <1>7, <2>1, <2>2
    <2>5. a + 1 - 1 = a /\ a + 31 - 1 = a + 30
        BY <1>6
    <2> HIDE DEF u
    <2>6. Reaches(s, p, S, Mk(t, q, a, o, n), Mk(u, q, a + 30, o, n))
        BY <2>2, <2>5 DEF Dm
    <2> QED
        BY <1>1, <2>3, <2>4, <2>6 DEF DividesTo
<1> QED
    BY <1>8, <1>9

\* Printing and reading.
LEMMA OpOut ==
    ASSUME NEW s, NEW p, NEW lk, NEW from, Coded(s, p, lk, from), NEW i \in 1 .. Len(lk),
           lk[i].op = "out", NEW S, Span(from, i, i + 1) \subseteq S,
           NEW t \in Tapes, NEW q \in Cells, NEW o \in Seq(Byte), NEW n \in Seq(Byte)
    PROVE  Reaches(s, p, S, Mk(t, q, from[i], o, n), Mk(t, q, from[i + 1], Append(o, t[q]), n))
<1> DEFINE a == from[i]
           b == from[i + 1]
           v == Append(o, t[q])
<1>1. /\ s \in Seq(Characters) /\ a \in 1 .. Len(s) /\ Written(lk[i], s, a, b) /\ Len(s) \in Nat
      /\ q \in Int
    BY PlaceIs, CodedIs DEF Cells
<1>2. a .. (b - 1) \subseteq S
    BY DEF Span
<1> HIDE DEF a, b
<1>3. b = a + 1 /\ s[a].op = "out"
    BY <1>1 DEF Written
<1>4. Ready(s, S, t, q, a, o, n)
    <2>1. a \in a .. (b - 1)
        BY <1>1, <1>3
    <2> QED
        BY <1>1, <1>2, <2>1 DEF Ready
<1>5. v \in Seq(Byte)
    BY CellByte
<1>6. Execute(s, p, Mk(t, q, a, o, n)) = Mk(t, q, a + 1, v, n)
    BY <1>3, DoOut
<1> HIDE DEF v
<1>7. Reaches(s, p, S, Mk(t, q, a, o, n), Mk(t, q, a + 1, v, n))
    BY <1>1, <1>4, <1>6, ReachOne
<1> QED
    BY <1>3, <1>7 DEF a, b, v

LEMMA OpIn ==
    ASSUME NEW s, NEW p, NEW lk, NEW from, Coded(s, p, lk, from), NEW i \in 1 .. Len(lk),
           lk[i].op = "in", NEW S, Span(from, i, i + 1) \subseteq S,
           NEW t \in Tapes, NEW q \in Cells, NEW o \in Seq(Byte), NEW n \in Seq(Byte)
    PROVE  Reaches(s, p, S, Mk(t, q, from[i], o, n), Mk(ReadTape(t, q, n), q, from[i + 1], o, ReadRest(n)))
<1> DEFINE a == from[i]
           b == from[i + 1]
           u == ReadTape(t, q, n)
           v == ReadRest(n)
<1>1. /\ s \in Seq(Characters) /\ a \in 1 .. Len(s) /\ Written(lk[i], s, a, b) /\ Len(s) \in Nat
      /\ q \in Int
    BY PlaceIs, CodedIs DEF Cells
<1>2. a .. (b - 1) \subseteq S
    BY DEF Span
<1> HIDE DEF a, b
<1>3. b = a + 1 /\ s[a].op = "in"
    BY <1>1 DEF Written
<1>4. Ready(s, S, t, q, a, o, n)
    <2>1. a \in a .. (b - 1)
        BY <1>1, <1>3
    <2> QED
        BY <1>1, <1>2, <2>1 DEF Ready
<1>5. /\ Execute(s, p, Mk(t, q, a, o, n)) = Mk(u, q, a + 1, o, v)
      /\ u \in Tapes /\ v \in Seq(Byte)
    BY <1>3, DoRead
<1> HIDE DEF u, v
<1>6. Reaches(s, p, S, Mk(t, q, a, o, n), Mk(u, q, a + 1, o, v))
    BY <1>1, <1>4, <1>5, ReachOne
<1> QED
    BY <1>3, <1>6 DEF a, b, u, v

-----------------------------------------------------------------------------
(* One instruction of the compiled program. *)

\* The program is run as `ops', which is laid out on its characters.
Sound(s, p, ops, lk, from, start, off) == Program(s, p) /\ Layout(s, lk, from, ops, start, off)

LEMMA SoundIs ==
    ASSUME NEW s, NEW p, NEW ops, NEW lk, NEW from, NEW start, NEW off, Sound(s, p, ops, lk, from, start, off)
    PROVE  /\ Coded(s, p, lk, from) /\ Linked(lk) /\ Linked(ops) /\ Tiles(ops, lk, start)
           /\ Placed(ops, lk, start, off)
           /\ ops \in Seq(Instrs) /\ Len(ops) \in Nat /\ DOMAIN ops = 1 .. Len(ops)
           /\ lk \in Seq(Instrs) /\ Len(lk) \in Nat /\ DOMAIN lk = 1 .. Len(lk)
           /\ start \in [1 .. (Len(ops) + 1) -> 1 .. (Len(lk) + 1)]
           /\ start[1] = 1 /\ start[Len(ops) + 1] = Len(lk) + 1
           /\ from[1] = 1 /\ from[Len(lk) + 1] = Len(s) + 1
           /\ off[1] = 1 /\ off[Len(ops) + 1] = 1
           /\ \A c \in 1 .. Len(ops) : start[c] \in 1 .. Len(lk) /\ ops[c] \in Instrs /\ ops[c].at = from[start[c]]
<1>1. /\ Program(s, p) /\ Linked(lk) /\ Tiles(lk, s, from) /\ Linked(ops) /\ Tiles(ops, lk, start)
      /\ Placed(ops, lk, start, off)
      /\ \A i \in 1 .. Len(lk) : Written(lk[i], s, from[i], from[i + 1])
      /\ \A c \in 1 .. Len(ops) : ops[c].at = from[start[c]]
    BY DEF Sound, Layout
<1>2. Coded(s, p, lk, from)
    BY <1>1 DEF Coded
<1>3. lk \in Seq(Instrs) /\ ops \in Seq(Instrs)
    BY <1>1 DEF Linked
<1>4. /\ Len(ops) \in Nat /\ DOMAIN ops = 1 .. Len(ops) /\ Len(lk) \in Nat /\ DOMAIN lk = 1 .. Len(lk)
      /\ \A c \in 1 .. Len(ops) : ops[c] \in Instrs
    BY <1>3
<1>5. /\ start \in [1 .. (Len(ops) + 1) -> 1 .. (Len(lk) + 1)]
      /\ start[1] = 1 /\ start[Len(ops) + 1] = Len(lk) + 1
      /\ from[1] = 1 /\ from[Len(lk) + 1] = Len(s) + 1
    BY <1>1 DEF Tiles
<1>6. /\ off[1] = 1 /\ off[Len(ops) + 1] = 1 /\ \A c \in 1 .. Len(ops) : start[c] \in 1 .. Len(lk)
    BY <1>1 DEF Placed
<1> QED
    BY <1>1, <1>2, <1>3, <1>4, <1>5, <1>6

\* An instruction that replaces nothing stands for one instruction.
LEMMA Kept ==
    ASSUME NEW s, NEW p, NEW ops, NEW lk, NEW from, NEW start, NEW off, Sound(s, p, ops, lk, from, start, off),
           NEW c \in 1 .. Len(ops), NEW i, i = start[c], ~Replaced(lk, i)
    PROVE  /\ ops[c].op = lk[i].op /\ (lk[i].op \notin {"open", "close"} => ops[c] = lk[i])
           /\ off[c] = 1 /\ start[c + 1] = i + 1 /\ off[c + 1] = 1
<1>1. Placed(ops, lk, start, off)
    BY SoundIs
<1>2. Same(ops[c], lk, i) /\ off[c] = 1 /\ start[c + 1] = i + 1 /\ off[c + 1] = 1
    BY <1>1 DEF Placed
<1> QED
    BY <1>2 DEF Same, Alike

\* A bracket is one.
LEMMA BracketKept ==
    ASSUME NEW s, NEW p, NEW ops, NEW lk, NEW from, NEW start, NEW off, Sound(s, p, ops, lk, from, start, off),
           NEW c \in 1 .. Len(ops), ops[c].op \in {"open", "close"}
    PROVE  ~Replaced(lk, start[c])
<1> DEFINE i == start[c]
<1>1. SUFFICES ASSUME Replaced(lk, i) PROVE FALSE
    OBVIOUS
<1>2. /\ Placed(ops, lk, start, off) /\ Coded(s, p, lk, from) /\ i \in 1 .. Len(lk) /\ lk \in Seq(Instrs)
    BY SoundIs
<1>3. off[c] \in 1 .. Len(Replacement(lk, i)) /\ ops[c] = Replacement(lk, i)[off[c]]
    BY <1>1, <1>2 DEF Placed
<1>4. lk[i].op = "open"
    BY <1>1 DEF Replaced
<1> HIDE DEF i
<1>5. lk[i].arg \in (i + 1) .. Len(lk)
    BY <1>2, <1>4, PartnerOf
<1>6. \A k \in 1 .. Len(Replacement(lk, i)) : Replacement(lk, i)[k].op \notin {"open", "close"}
    BY <1>1, <1>2, <1>5, ReplacementIs
<1> QED
    BY <1>3, <1>6

\* The brackets of the program that is run jump where those it stands for do.
LEMMA JumpsTo ==
    ASSUME NEW s, NEW p, NEW ops, NEW lk, NEW from, NEW start, NEW off, Sound(s, p, ops, lk, from, start, off),
           NEW c \in 1 .. Len(ops), ops[c].op \in {"open", "close"}, NEW i, i = start[c], NEW e, e = ops[c].arg
    PROVE  /\ lk[i].op = ops[c].op /\ e \in 1 .. Len(ops) /\ start[e] = lk[i].arg
           /\ start[e + 1] = lk[i].arg + 1 /\ off[e + 1] = 1
<1>1. /\ Linked(ops) /\ Linked(lk) /\ Tiles(ops, lk, start) /\ i \in 1 .. Len(lk)
      /\ Len(ops) \in Nat /\ DOMAIN ops = 1 .. Len(ops)
      /\ Len(lk) \in Nat /\ DOMAIN lk = 1 .. Len(lk)
    BY SoundIs
<1>2. lk[i].op = ops[c].op
    BY BracketKept, Kept
<1>3. \A k, l : Closes(ops, k, l) => Closes(lk, start[k], start[l])
    BY <1>1, TilesPairUp
<1>4. e \in 1 .. Len(ops) /\ ops[e].op \in {"open", "close"} /\ start[e] = lk[i].arg
    <2>1. CASE ops[c].op = "open"
        <3>1. Closes(ops, c, e) /\ Closes(lk, i, lk[i].arg)
            BY <1>1, <1>2, <2>1 DEF Linked, Brackets
        <3>2. Closes(lk, i, start[e])
            BY <1>3, <3>1
        <3>3. start[e] = lk[i].arg
            BY <1>1, <3>1, <3>2, ClosesOnce
        <3> QED
            BY <1>1, <3>1, <3>3 DEF Closes, Brackets
    <2>2. CASE ops[c].op = "close"
        <3>1. Closes(ops, e, c) /\ Closes(lk, lk[i].arg, i)
            BY <1>1, <1>2, <2>2 DEF Linked, Brackets
        <3>2. Closes(lk, start[e], i)
            BY <1>3, <3>1
        <3>3. start[e] = lk[i].arg
            BY <1>1, <3>1, <3>2, ClosesOnce
        <3> QED
            BY <1>1, <3>1, <3>3 DEF Closes, Brackets
    <2> QED
        BY <2>1, <2>2
<1>5. start[e + 1] = lk[i].arg + 1 /\ off[e + 1] = 1
    BY <1>4, BracketKept, Kept
<1> QED
    BY <1>2, <1>4, <1>5

\* The instructions that replace a loop come one behind the other, and stand for the loop.
InPlaceOf(ops, lk, start, off, c, i, N) ==
    /\ N \in Nat /\ N >= 1 /\ c + N \in 1 .. (Len(ops) + 1)
    /\ start[c + N] = lk[i].arg + 1 /\ off[c + N] = 1
    /\ \A k \in 1 .. N : c + k - 1 \in 1 .. Len(ops) /\ ops[c + k - 1] = Replacement(lk, i)[k]

LEMMA ReplacedAs ==
    ASSUME NEW s, NEW p, NEW ops, NEW lk, NEW from, NEW start, NEW off, Sound(s, p, ops, lk, from, start, off),
           NEW c, c \in 1 .. Len(ops), off[c] = 1, NEW i, i = start[c], Replaced(lk, i),
           NEW N, N = Len(Replacement(lk, i))
    PROVE  InPlaceOf(ops, lk, start, off, c, i, N)
<1>1. /\ Placed(ops, lk, start, off) /\ Coded(s, p, lk, from) /\ i \in 1 .. Len(lk) /\ lk \in Seq(Instrs)
      /\ off[Len(ops) + 1] = 1 /\ Len(ops) \in Nat
    BY SoundIs
<1>2. lk[i].op = "open"
    BY DEF Replaced
<1>3. lk[i].arg \in (i + 1) .. Len(lk)
    BY <1>1, <1>2, PartnerOf
<1>4. N \in Nat /\ N >= 1
    BY <1>1, <1>3, ReplacementIs
<1>5. \A d \in 1 .. Len(ops) : start[d] = i =>
          /\ off[d] \in 1 .. N /\ ops[d] = Replacement(lk, i)[off[d]]
          /\ IF off[d] < N THEN start[d + 1] = i /\ off[d + 1] = off[d] + 1
             ELSE start[d + 1] = lk[i].arg + 1 /\ off[d + 1] = 1
    BY <1>1 DEF Placed
<1> DEFINE T == {k \in 0 .. (N - 1) : c + k \in 1 .. Len(ops) /\ start[c + k] = i /\ off[c + k] = k + 1}
<1>6. \A k \in 0 .. (N - 1) : k \in T
    <2>1. 0 \in T
        BY <1>4, c + 0 = c
    <2>2. \A k \in 0 .. (N - 1 - 1) : k \in T => k + 1 \in T
        <3> TAKE k \in 0 .. (N - 1 - 1)
        <3> HAVE k \in T
        <3> DEFINE d == c + k
        <3>1. d \in 1 .. Len(ops) /\ start[d] = i /\ off[d] = k + 1 /\ k + 1 < N /\ k \in Nat
            BY <1>4
        <3>2. start[d + 1] = i /\ off[d + 1] = k + 1 + 1
            BY <1>5, <3>1
        <3>3. d + 1 # Len(ops) + 1
            BY <1>1, <3>1, <3>2
        <3>4. d \in Int /\ c \in Int
            BY <3>1
        <3>5. c + (k + 1) = d + 1 /\ k + 1 \in 0 .. (N - 1)
            BY <1>4, <3>1, <3>4
        <3> HIDE DEF d
        <3>6. d + 1 \in 1 .. Len(ops)
            BY <1>1, <3>1, <3>3
        <3> QED
            BY <3>2, <3>5, <3>6
    <2> HIDE DEF T
    <2>3. N - 1 \in Nat
        BY <1>4
    <2>4. 0 .. (N - 1) \subseteq T
        BY <2>1, <2>2, <2>3, BoundedInd
    <2> QED
        BY <2>4
<1>7. ASSUME NEW k \in 1 .. N
      PROVE  c + k - 1 \in 1 .. Len(ops) /\ start[c + k - 1] = i /\ off[c + k - 1] = k
    <2>1. k - 1 \in 0 .. (N - 1) /\ c + (k - 1) = c + k - 1 /\ k - 1 + 1 = k
        BY <1>4
    <2> QED
        BY <1>6, <2>1
<1>8. ASSUME NEW k \in 1 .. N
      PROVE  ops[c + k - 1] = Replacement(lk, i)[k]
    <2> DEFINE d == c + k - 1
    <2>1. d \in 1 .. Len(ops) /\ start[d] = i /\ off[d] = k
        BY <1>7
    <2> HIDE DEF d
    <2>2. ops[d] = Replacement(lk, i)[k]
        BY <1>5, <2>1
    <2> QED
        BY <2>2 DEF d
<1>9. c + N \in 1 .. (Len(ops) + 1) /\ start[c + N] = lk[i].arg + 1 /\ off[c + N] = 1
    <2> DEFINE d == c + N - 1
    <2>1. d \in 1 .. Len(ops) /\ start[d] = i /\ off[d] = N
        BY <1>4, <1>7
    <2>2. start[d + 1] = lk[i].arg + 1 /\ off[d + 1] = 1
        BY <1>5, <2>1, <1>4
    <2>3. d + 1 = c + N
        BY <1>1, <1>4
    <2> HIDE DEF d
    <2>4. d + 1 \in 1 .. (Len(ops) + 1)
        BY <1>1, <2>1
    <2> QED
        BY <2>2, <2>3, <2>4
<1> QED
    BY <1>4, <1>7, <1>8, <1>9 DEF InPlaceOf

LEMMA PassIs ==
    ASSUME NEW m \in Machines, NEW c \in Nat
    PROVE  Pass(m, c) \in Machines /\ (Pass(m, c).failed <=> m.failed) /\ Pass(m, c).pc = c
BY DEF Pass, Machines

\* What the interpreter does for an instruction.
LEMMA RunsPlain ==
    ASSUME NEW ops, NEW t, NEW q, NEW c, NEW o, NEW n,
           ops[c].op \in {"move", "add", "out", "in", "open", "close"}
    PROVE  ExecuteOp(ops, Mk(t, q, c, o, n)) = Execute(ops, [i \in DOMAIN ops |-> ops[i].arg], Mk(t, q, c, o, n))
<1> DEFINE m == Mk(t, q, c, o, n)
<1>1. m.pc = c
    BY DEF Mk
<1> HIDE DEF m
<1>2. ExecuteOp(ops, m) = Execute(ops, [i \in DOMAIN ops |-> ops[i].arg], m)
    BY <1>1 DEF ExecuteOp
<1> QED
    BY <1>2 DEF m

LEMMA RunsOff ==
    ASSUME NEW ops, NEW t, NEW q, NEW c, NEW o, NEW n, q \notin Cells,
           ops[c].op \notin {"move", "add", "out", "in", "open", "close"}
    PROVE  ExecuteOp(ops, Mk(t, q, c, o, n)) = Fail(Mk(t, q, c, o, n))
<1> DEFINE m == Mk(t, q, c, o, n)
<1>1. m.pc = c /\ ~OnTape(m)
    BY DEF Mk, OnTape
<1> HIDE DEF m
<1>2. ExecuteOp(ops, m) = Fail(m)
    BY <1>1 DEF ExecuteOp
<1> QED
    BY <1>2 DEF m

LEMMA RunsOn ==
    ASSUME NEW ops, NEW t, NEW q \in Cells, NEW c, NEW o, NEW n, NEW m, m = Mk(t, q, c, o, n)
    PROVE  /\ ops[c].op = "clear" => ExecuteOp(ops, m) = Pass(SetCurrent(m, 0), c + 1)
           /\ ops[c].op = "mult" => ExecuteOp(ops, m) = Multiply(ops, m)
           /\ ops[c].op = "scan" => ExecuteOp(ops, m) = Pass(Scan(m, ops[c].arg), c + 1)
           /\ ops[c].op = "walk" => ExecuteOp(ops, m) = Pass(Walk(m, ops[c].arg), c + 1)
           /\ ops[c].op = "divmod" => ExecuteOp(ops, m) = Pass(DivMod(m), c + 1)
<1>1. m.pc = c /\ OnTape(m)
    BY DEF Mk, OnTape
<1>2. ASSUME ops[c].op = "clear" PROVE ExecuteOp(ops, m) = Pass(SetCurrent(m, 0), c + 1)
    BY <1>1, <1>2 DEF ExecuteOp, Pass
<1>3. ASSUME ops[c].op = "mult" PROVE ExecuteOp(ops, m) = Multiply(ops, m)
    BY <1>1, <1>3 DEF ExecuteOp
<1>4. ASSUME ops[c].op = "scan" PROVE ExecuteOp(ops, m) = Pass(Scan(m, ops[c].arg), c + 1)
    BY <1>1, <1>4 DEF ExecuteOp, Pass
<1>5. ASSUME ops[c].op = "walk" PROVE ExecuteOp(ops, m) = Pass(Walk(m, ops[c].arg), c + 1)
    BY <1>1, <1>5 DEF ExecuteOp, Pass
<1>6. ASSUME ops[c].op = "divmod" PROVE ExecuteOp(ops, m) = Pass(DivMod(m), c + 1)
    BY <1>1, <1>6 DEF ExecuteOp, Pass
<1> QED
    BY <1>2, <1>3, <1>4, <1>5, <1>6

\* What an instruction may make of a machine: one that stands before the next instruction,
\* or behind a jump, and never amid the instructions that replace a loop.
Typed(ops, off, r) ==
    r \in Machines /\ r.pc \in 1 .. (Len(ops) + 1) /\ (r.failed \/ off[r.pc] = 1)

\* The machine, at the character its instruction is written from.
AsWritten(m, from, start) == Mk(m.tape, m.ptr, from[start[m.pc]], m.out, m.in)

\* From there, the program as it is written runs to where the interpreter is afterwards,
\* and is not there before.
Follows(s, p, from, start, m, r) ==
    r.failed \/ \E S : /\ from[start[r.pc]] \notin S
                       /\ Reaches(s, p, S, AsWritten(m, from, start), AsWritten(r, from, start))

LEMMA TypedMk ==
    ASSUME NEW ops, NEW off, NEW t \in Tapes, NEW q \in Int, NEW c \in 1 .. (Len(ops) + 1), Len(ops) \in Nat,
           NEW o \in Seq(Byte), NEW n \in Seq(Byte), off[c] = 1
    PROVE  Typed(ops, off, Mk(t, q, c, o, n))
<1>1. c \in Nat
    OBVIOUS
<1> QED
    BY <1>1, MkIs DEF Typed

LEMMA TypedFail ==
    ASSUME NEW ops, NEW off, NEW m \in Machines, m.pc \in 1 .. (Len(ops) + 1)
    PROVE  Typed(ops, off, Fail(m)) /\ \A s, p, from, start, l : Follows(s, p, from, start, l, Fail(m))
<1>1. Fail(m) \in Machines /\ Fail(m).failed /\ Fail(m).pc = m.pc
    BY FailIs
<1> QED
    BY <1>1 DEF Typed, Follows

LEMMA FollowsMk ==
    ASSUME NEW s, NEW p, NEW from, NEW start, NEW S, NEW t, NEW q, NEW c, NEW o, NEW n,
           NEW u, NEW x, NEW e, NEW v, NEW w, from[start[e]] \notin S,
           Reaches(s, p, S, Mk(t, q, from[start[c]], o, n), Mk(u, x, from[start[e]], v, w))
    PROVE  Follows(s, p, from, start, Mk(t, q, c, o, n), Mk(u, x, e, v, w))
<1>1. AsWritten(Mk(t, q, c, o, n), from, start) = Mk(t, q, from[start[c]], o, n)
    BY DEF AsWritten, Mk
<1>2. AsWritten(Mk(u, x, e, v, w), from, start) = Mk(u, x, from[start[e]], v, w)
    BY DEF AsWritten, Mk
<1>3. Mk(u, x, e, v, w).pc = e
    BY DEF Mk
<1> QED
    BY <1>1, <1>2, <1>3 DEF Follows

\* A machine that has not died, at the instruction c.
Before(s, p, ops, lk, from, start, off, t, q, c, o, n) ==
    /\ Sound(s, p, ops, lk, from, start, off)
    /\ c \in 1 .. Len(ops) /\ off[c] = 1
    /\ t \in Tapes /\ q \in Int /\ o \in Seq(Byte) /\ n \in Seq(Byte)

\* The instruction makes r of it, as the program does unless the instruction is mistaken.
Steps(s, p, ops, from, start, off, m, r) ==
    Typed(ops, off, r) /\ (Mistaken(ops, m) = {} => Follows(s, p, from, start, m, r))

LEMMA StepMk ==
    ASSUME NEW s, NEW p, NEW ops, NEW lk, NEW from, NEW start, NEW off, NEW t, NEW q, NEW c, NEW o, NEW n,
           Before(s, p, ops, lk, from, start, off, t, q, c, o, n),
           NEW u \in Tapes, NEW x \in Int, NEW e \in 1 .. (Len(ops) + 1), NEW v \in Seq(Byte), NEW w \in Seq(Byte),
           off[e] = 1, NEW S, from[start[e]] \notin S,
           Reaches(s, p, S, Mk(t, q, from[start[c]], o, n), Mk(u, x, from[start[e]], v, w))
    PROVE  Steps(s, p, ops, from, start, off, Mk(t, q, c, o, n), Mk(u, x, e, v, w))
<1>1. Len(ops) \in Nat
    BY SoundIs DEF Before
<1>2. Typed(ops, off, Mk(u, x, e, v, w))
    BY <1>1, TypedMk
<1>3. Follows(s, p, from, start, Mk(t, q, c, o, n), Mk(u, x, e, v, w))
    BY FollowsMk
<1> QED
    BY <1>2, <1>3 DEF Steps

LEMMA StepFail ==
    ASSUME NEW s, NEW p, NEW ops, NEW from, NEW start, NEW off, NEW l, NEW m \in Machines, m.pc \in 1 .. (Len(ops) + 1)
    PROVE  Steps(s, p, ops, from, start, off, l, Fail(m))
BY TypedFail DEF Steps

\* Where an instruction that replaces nothing stands.
LEMMA KeptAt ==
    ASSUME NEW s, NEW p, NEW ops, NEW lk, NEW from, NEW start, NEW off, NEW t, NEW q, NEW c, NEW o, NEW n,
           Before(s, p, ops, lk, from, start, off, t, q, c, o, n), NEW i, i = start[c], ~Replaced(lk, i)
    PROVE  /\ Coded(s, p, lk, from) /\ i \in 1 .. Len(lk) /\ Span(from, i, i + 1) \subseteq Span(from, i, i + 1)
           /\ ops[c].op = lk[i].op /\ (lk[i].op \notin {"open", "close"} => ops[c] = lk[i])
           /\ c + 1 \in 1 .. (Len(ops) + 1) /\ start[c + 1] = i + 1 /\ off[c + 1] = 1
           /\ from[i + 1] \notin Span(from, i, i + 1)
           /\ Mk(t, q, c, o, n) \in Machines /\ Mk(t, q, c, o, n).pc \in 1 .. (Len(ops) + 1)
<1>1. Sound(s, p, ops, lk, from, start, off) /\ c \in 1 .. Len(ops)
    BY DEF Before
<1>2. Coded(s, p, lk, from) /\ i \in 1 .. Len(lk) /\ Len(ops) \in Nat
    BY <1>1, SoundIs
<1>3. /\ ops[c].op = lk[i].op /\ (lk[i].op \notin {"open", "close"} => ops[c] = lk[i])
      /\ start[c + 1] = i + 1 /\ off[c + 1] = 1
    BY <1>1, Kept
<1>4. from[i + 1] \in Nat /\ from[i] \in Int
    BY <1>2, PlaceIs
<1>5. from[i + 1] \notin Span(from, i, i + 1)
    BY <1>4 DEF Span
<1>6. c \in Nat /\ c \in 1 .. (Len(ops) + 1) /\ c + 1 \in 1 .. (Len(ops) + 1)
    BY <1>1, <1>2
<1>7. Mk(t, q, c, o, n) \in Machines /\ Mk(t, q, c, o, n).pc = c
    BY <1>6, MkIs DEF Before
<1> QED
    BY <1>2, <1>3, <1>5, <1>6, <1>7

LEMMA StepMove ==
    ASSUME NEW s, NEW p, NEW ops, NEW lk, NEW from, NEW start, NEW off, NEW t, NEW q, NEW c, NEW o, NEW n,
           Before(s, p, ops, lk, from, start, off, t, q, c, o, n), ~Replaced(lk, start[c]), ops[c].op = "move"
    PROVE  Steps(s, p, ops, from, start, off, Mk(t, q, c, o, n), ExecuteOp(ops, Mk(t, q, c, o, n)))
<1> DEFINE i == start[c]
           S == Span(from, i, i + 1)
           e == c + 1
           x == q + ops[c].arg
<1>1. /\ Coded(s, p, lk, from) /\ i \in 1 .. Len(lk) /\ S \subseteq S /\ ops[c] = lk[i]
      /\ e \in 1 .. (Len(ops) + 1) /\ start[e] = i + 1 /\ off[e] = 1 /\ from[i + 1] \notin S
    BY KeptAt
<1>2. t \in Tapes /\ q \in Int /\ o \in Seq(Byte) /\ n \in Seq(Byte)
    BY DEF Before
<1>3. x \in Int
    <2>1. lk[i] \in Instrs
        BY <1>1, PlaceIs
    <2>2. ops[c].arg \in Int
        BY <1>1, <2>1, InstrFields
    <2> QED
        BY <1>2, <2>2
<1>4. ExecuteOp(ops, Mk(t, q, c, o, n)) = Mk(t, x, e, o, n)
    <2>1. Execute(ops, [k \in DOMAIN ops |-> ops[k].arg], Mk(t, q, c, o, n)) = Mk(t, x, e, o, n)
        BY DoMove
    <2> QED
        BY <2>1, RunsPlain
<1> HIDE DEF S, e
<1>5. Reaches(s, p, S, Mk(t, q, from[i], o, n), Mk(t, x, from[i + 1], o, n))
    BY <1>1, <1>2, OpMove DEF S
<1> HIDE DEF x
<1>6. Steps(s, p, ops, from, start, off, Mk(t, q, c, o, n), Mk(t, x, e, o, n))
    BY <1>1, <1>2, <1>3, <1>5, StepMk
<1> QED
    BY <1>4, <1>6

LEMMA StepAdd ==
    ASSUME NEW s, NEW p, NEW ops, NEW lk, NEW from, NEW start, NEW off, NEW t, NEW q, NEW c, NEW o, NEW n,
           Before(s, p, ops, lk, from, start, off, t, q, c, o, n), ~Replaced(lk, start[c]), ops[c].op = "add", q \in Cells
    PROVE  Steps(s, p, ops, from, start, off, Mk(t, q, c, o, n), ExecuteOp(ops, Mk(t, q, c, o, n)))
<1> DEFINE i == start[c]
           S == Span(from, i, i + 1)
           e == c + 1
           u == Put(t, q, (t[q] + ops[c].arg) % Mod)
<1>1. /\ Coded(s, p, lk, from) /\ i \in 1 .. Len(lk) /\ S \subseteq S /\ ops[c] = lk[i]
      /\ e \in 1 .. (Len(ops) + 1) /\ start[e] = i + 1 /\ off[e] = 1 /\ from[i + 1] \notin S
    BY KeptAt
<1>2. t \in Tapes /\ q \in Int /\ o \in Seq(Byte) /\ n \in Seq(Byte)
    BY DEF Before
<1>3. u \in Tapes
    <2>1. ops[c].arg \in Int /\ t[q] \in Int
        BY <1>1, <1>2, PlaceIs, InstrFields, CellByte
    <2>2. (t[q] + ops[c].arg) % Mod \in Byte
        BY <2>1, ModByte
    <2> QED
        BY <1>2, <2>2, PutIs
<1>4. ExecuteOp(ops, Mk(t, q, c, o, n)) = Mk(u, q, e, o, n)
    <2>1. Execute(ops, [k \in DOMAIN ops |-> ops[k].arg], Mk(t, q, c, o, n)) = Mk(u, q, e, o, n)
        BY DoAdd
    <2> QED
        BY <2>1, RunsPlain
<1> HIDE DEF S, e
<1>5. Reaches(s, p, S, Mk(t, q, from[i], o, n), Mk(u, q, from[i + 1], o, n))
    BY <1>1, <1>2, OpAdd DEF S
<1> HIDE DEF u
<1>6. Steps(s, p, ops, from, start, off, Mk(t, q, c, o, n), Mk(u, q, e, o, n))
    BY <1>1, <1>2, <1>3, <1>5, StepMk
<1> QED
    BY <1>4, <1>6

LEMMA StepOut ==
    ASSUME NEW s, NEW p, NEW ops, NEW lk, NEW from, NEW start, NEW off, NEW t, NEW q, NEW c, NEW o, NEW n,
           Before(s, p, ops, lk, from, start, off, t, q, c, o, n), ~Replaced(lk, start[c]), ops[c].op = "out", q \in Cells
    PROVE  Steps(s, p, ops, from, start, off, Mk(t, q, c, o, n), ExecuteOp(ops, Mk(t, q, c, o, n)))
<1> DEFINE i == start[c]
           S == Span(from, i, i + 1)
           e == c + 1
           v == Append(o, t[q])
<1>1. /\ Coded(s, p, lk, from) /\ i \in 1 .. Len(lk) /\ S \subseteq S /\ ops[c] = lk[i]
      /\ e \in 1 .. (Len(ops) + 1) /\ start[e] = i + 1 /\ off[e] = 1 /\ from[i + 1] \notin S
    BY KeptAt
<1>2. t \in Tapes /\ q \in Int /\ o \in Seq(Byte) /\ n \in Seq(Byte)
    BY DEF Before
<1>3. v \in Seq(Byte)
    BY <1>2, CellByte
<1>4. ExecuteOp(ops, Mk(t, q, c, o, n)) = Mk(t, q, e, v, n)
    <2>1. Execute(ops, [k \in DOMAIN ops |-> ops[k].arg], Mk(t, q, c, o, n)) = Mk(t, q, e, v, n)
        BY DoOut
    <2> QED
        BY <2>1, RunsPlain
<1> HIDE DEF S, e
<1>5. Reaches(s, p, S, Mk(t, q, from[i], o, n), Mk(t, q, from[i + 1], v, n))
    BY <1>1, <1>2, OpOut DEF S
<1> HIDE DEF v
<1>6. Steps(s, p, ops, from, start, off, Mk(t, q, c, o, n), Mk(t, q, e, v, n))
    BY <1>1, <1>2, <1>3, <1>5, StepMk
<1> QED
    BY <1>4, <1>6

LEMMA StepIn ==
    ASSUME NEW s, NEW p, NEW ops, NEW lk, NEW from, NEW start, NEW off, NEW t, NEW q, NEW c, NEW o, NEW n,
           Before(s, p, ops, lk, from, start, off, t, q, c, o, n), ~Replaced(lk, start[c]), ops[c].op = "in", q \in Cells
    PROVE  Steps(s, p, ops, from, start, off, Mk(t, q, c, o, n), ExecuteOp(ops, Mk(t, q, c, o, n)))
<1> DEFINE i == start[c]
           S == Span(from, i, i + 1)
           e == c + 1
           u == ReadTape(t, q, n)
           w == ReadRest(n)
<1>1. /\ Coded(s, p, lk, from) /\ i \in 1 .. Len(lk) /\ S \subseteq S /\ ops[c] = lk[i]
      /\ e \in 1 .. (Len(ops) + 1) /\ start[e] = i + 1 /\ off[e] = 1 /\ from[i + 1] \notin S
    BY KeptAt
<1>2. t \in Tapes /\ q \in Int /\ o \in Seq(Byte) /\ n \in Seq(Byte)
    BY DEF Before
<1>3. /\ u \in Tapes /\ w \in Seq(Byte)
      /\ Execute(ops, [k \in DOMAIN ops |-> ops[k].arg], Mk(t, q, c, o, n)) = Mk(u, q, e, o, w)
    BY <1>2, DoRead
<1>4. ExecuteOp(ops, Mk(t, q, c, o, n)) = Mk(u, q, e, o, w)
    BY <1>3, RunsPlain
<1> HIDE DEF S, e
<1>5. Reaches(s, p, S, Mk(t, q, from[i], o, n), Mk(u, q, from[i + 1], o, w))
    BY <1>1, <1>2, OpIn DEF S
<1> HIDE DEF u, w
<1>6. Steps(s, p, ops, from, start, off, Mk(t, q, c, o, n), Mk(u, q, e, o, w))
    BY <1>1, <1>2, <1>3, <1>5, StepMk
<1> QED
    BY <1>4, <1>6

\* The place behind one.
LEMMA NextPlace ==
    ASSUME NEW N \in Nat, NEW a, a \in 1 .. N
    PROVE  a + 1 \in 1 .. (N + 1)
OBVIOUS

LEMMA RunsJump ==
    ASSUME NEW ops, NEW t, NEW q \in Cells, NEW c, c \in DOMAIN ops, NEW o, NEW n, NEW e,
           \/ ops[c].op = "open" /\ e = (IF t[q] = 0 THEN ops[c].arg ELSE c)
           \/ ops[c].op = "close" /\ e = (IF t[q] = 0 THEN c ELSE ops[c].arg)
    PROVE  ExecuteOp(ops, Mk(t, q, c, o, n)) = Mk(t, q, e + 1, o, n)
<1> DEFINE links == [k \in DOMAIN ops |-> ops[k].arg]
<1>1. links[c] = ops[c].arg
    OBVIOUS
<1>2. ExecuteOp(ops, Mk(t, q, c, o, n)) = Execute(ops, links, Mk(t, q, c, o, n))
    BY RunsPlain
<1> HIDE DEF links
<1>3. \/ ops[c].op = "open" /\ e = (IF t[q] = 0 THEN links[c] ELSE c)
      \/ ops[c].op = "close" /\ e = (IF t[q] = 0 THEN c ELSE links[c])
    BY <1>1
<1>4. Execute(ops, links, Mk(t, q, c, o, n)) = Mk(t, q, e + 1, o, n)
    BY <1>3, DoJump
<1> QED
    BY <1>2, <1>4

\* What comes later in the instructions is not among the characters of an earlier one.
LEMMA Later ==
    ASSUME NEW s, NEW p, NEW lk, NEW from, Coded(s, p, lk, from), NEW i \in 1 .. Len(lk),
           NEW a \in 1 .. (Len(lk) + 1), NEW b \in 1 .. (Len(lk) + 1), b <= a \/ a < i
    PROVE  from[a] \notin Span(from, i, b)
<1>1. from \in [1 .. (Len(lk) + 1) -> 1 .. (Len(s) + 1)] /\ Len(lk) \in Nat /\ Len(s) \in Nat
    BY CodedIs
<1>2. \A l \in 1 .. (Len(lk) + 1) : \A k \in 1 .. l : from[k] <= from[l]
    BY CodedIs
<1>3. from[a] \in Int /\ from[b] \in Int /\ from[i] \in Int
    BY <1>1
<1>4. CASE b <= a
    <2>1. from[b] <= from[a]
        BY <1>2, <1>4
    <2> QED
        BY <1>3, <2>1 DEF Span
<1>5. CASE a < i
    <2>1. a \in 1 .. Len(lk) /\ from[a] < from[a + 1] /\ from[a + 1] \in Int
        BY <1>1, <1>5, PlaceIs
    <2>2. i \in 1 .. (Len(lk) + 1) /\ a + 1 \in 1 .. i
        BY <1>1, <1>5
    <2>3. from[a + 1] <= from[i]
        BY <1>2, <2>2
    <2>4. from[a] < from[i]
        BY <1>3, <2>1, <2>3
    <2> QED
        BY <1>3, <2>4 DEF Span
<1> QED
    BY <1>4, <1>5

LEMMA StepOpen ==
    ASSUME NEW s, NEW p, NEW ops, NEW lk, NEW from, NEW start, NEW off, NEW t, NEW q, NEW c, NEW o, NEW n,
           Before(s, p, ops, lk, from, start, off, t, q, c, o, n), ops[c].op = "open", q \in Cells
    PROVE  Steps(s, p, ops, from, start, off, Mk(t, q, c, o, n), ExecuteOp(ops, Mk(t, q, c, o, n)))
<1> DEFINE i == start[c]
           S == Span(from, i, i + 1)
           d == IF t[q] = 0 THEN ops[c].arg ELSE c
           l == IF t[q] = 0 THEN lk[i].arg ELSE i
<1>1. /\ Sound(s, p, ops, lk, from, start, off) /\ c \in 1 .. Len(ops)
      /\ t \in Tapes /\ q \in Int /\ o \in Seq(Byte) /\ n \in Seq(Byte)
    BY DEF Before
<1>2. ~Replaced(lk, i) /\ ops \in Seq(Instrs)
    BY <1>1, BracketKept, SoundIs
<1>0. Len(ops) \in Nat /\ Len(lk) \in Nat /\ DOMAIN ops = 1 .. Len(ops)
    BY <1>1, SoundIs
<1>3. /\ Coded(s, p, lk, from) /\ i \in 1 .. Len(lk) /\ S \subseteq S /\ lk[i].op = "open"
      /\ c + 1 \in 1 .. (Len(ops) + 1) /\ start[c + 1] = i + 1 /\ off[c + 1] = 1
    BY <1>2, KeptAt
<1>4. /\ ops[c].arg \in 1 .. Len(ops) /\ start[ops[c].arg + 1] = lk[i].arg + 1 /\ off[ops[c].arg + 1] = 1
    BY <1>1, JumpsTo
<1>5. /\ lk[i].arg \in (i + 1) .. Len(lk)
      /\ Reaches(s, p, S, Mk(t, q, from[i], o, n), Mk(t, q, from[l + 1], o, n))
    BY <1>1, <1>3, OpOpen
<1>6. ExecuteOp(ops, Mk(t, q, c, o, n)) = Mk(t, q, d + 1, o, n)
    <2>1. c \in DOMAIN ops
        BY <1>0, <1>1
    <2> QED
        BY <2>1, RunsJump
<1>7. d + 1 \in 1 .. (Len(ops) + 1) /\ start[d + 1] = l + 1 /\ off[d + 1] = 1
    <2>1. CASE t[q] = 0
        <3>1. d = ops[c].arg /\ l = lk[i].arg
            BY <2>1
        <3> HIDE DEF d, l
        <3>2. d + 1 \in 1 .. (Len(ops) + 1)
            BY <1>0, <1>4, <3>1, NextPlace
        <3> QED
            BY <1>4, <3>1, <3>2
    <2>2. CASE t[q] # 0
        <3>1. d = c /\ l = i
            BY <2>2
        <3> HIDE DEF d, l
        <3> QED
            BY <1>3, <3>1
    <2> QED
        BY <2>1, <2>2
<1>8. l \in i .. Len(lk)
    <2>1. l = lk[i].arg \/ l = i
        OBVIOUS
    <2> HIDE DEF l, i
    <2> QED
        <3>1. i \in 1 .. Len(lk) /\ lk[i].arg \in (i + 1) .. Len(lk)
            BY <1>3, <1>5
        <3> QED
            BY ONLY <1>0, <2>1, <3>1
<1> HIDE DEF d, l, i
<1>9. l + 1 \in 1 .. (Len(lk) + 1) /\ i + 1 \in 1 .. (Len(lk) + 1) /\ i + 1 <= l + 1
    BY ONLY <1>0, <1>3, <1>8
<1>10. from[l + 1] \notin S
    BY <1>3, <1>9, Later
<1> HIDE DEF S
<1> DEFINE e == d + 1
<1>11. e \in 1 .. (Len(ops) + 1) /\ from[start[e]] = from[l + 1] /\ off[e] = 1
    BY <1>7
<1> HIDE DEF e
<1>12. Steps(s, p, ops, from, start, off, Mk(t, q, c, o, n), Mk(t, q, e, o, n))
    BY <1>1, <1>5, <1>10, <1>11, StepMk DEF i
<1> QED
    BY <1>6, <1>12 DEF e

LEMMA StepClose ==
    ASSUME NEW s, NEW p, NEW ops, NEW lk, NEW from, NEW start, NEW off, NEW t, NEW q, NEW c, NEW o, NEW n,
           Before(s, p, ops, lk, from, start, off, t, q, c, o, n), ops[c].op = "close", q \in Cells
    PROVE  Steps(s, p, ops, from, start, off, Mk(t, q, c, o, n), ExecuteOp(ops, Mk(t, q, c, o, n)))
<1> DEFINE i == start[c]
           S == Span(from, i, i + 1)
           d == IF t[q] = 0 THEN c ELSE ops[c].arg
           l == IF t[q] = 0 THEN i ELSE lk[i].arg
<1>1. /\ Sound(s, p, ops, lk, from, start, off) /\ c \in 1 .. Len(ops)
      /\ t \in Tapes /\ q \in Int /\ o \in Seq(Byte) /\ n \in Seq(Byte)
    BY DEF Before
<1>2. ~Replaced(lk, i) /\ ops \in Seq(Instrs)
    BY <1>1, BracketKept, SoundIs
<1>0. Len(ops) \in Nat /\ Len(lk) \in Nat /\ DOMAIN ops = 1 .. Len(ops)
    BY <1>1, SoundIs
<1>3. /\ Coded(s, p, lk, from) /\ i \in 1 .. Len(lk) /\ S \subseteq S /\ lk[i].op = "close"
      /\ c + 1 \in 1 .. (Len(ops) + 1) /\ start[c + 1] = i + 1 /\ off[c + 1] = 1
    BY <1>2, KeptAt
<1>4. /\ ops[c].arg \in 1 .. Len(ops) /\ start[ops[c].arg + 1] = lk[i].arg + 1 /\ off[ops[c].arg + 1] = 1
    BY <1>1, JumpsTo
<1>5. /\ lk[i].arg \in 1 .. (i - 1)
      /\ Reaches(s, p, S, Mk(t, q, from[i], o, n), Mk(t, q, from[l + 1], o, n))
    BY <1>1, <1>3, OpClose
<1>6. ExecuteOp(ops, Mk(t, q, c, o, n)) = Mk(t, q, d + 1, o, n)
    <2>1. c \in DOMAIN ops
        BY <1>0, <1>1
    <2> QED
        BY <2>1, RunsJump
<1>7. d + 1 \in 1 .. (Len(ops) + 1) /\ start[d + 1] = l + 1 /\ off[d + 1] = 1
    <2>1. CASE t[q] = 0
        <3>1. d = c /\ l = i
            BY <2>1
        <3> HIDE DEF d, l
        <3> QED
            BY <1>3, <3>1
    <2>2. CASE t[q] # 0
        <3>1. d = ops[c].arg /\ l = lk[i].arg
            BY <2>2
        <3> HIDE DEF d, l
        <3>2. d + 1 \in 1 .. (Len(ops) + 1)
            BY <1>0, <1>4, <3>1, NextPlace
        <3> QED
            BY <1>4, <3>1, <3>2
    <2> QED
        BY <2>1, <2>2
<1>8. l \in 1 .. i
    <2>1. l = lk[i].arg \/ l = i
        OBVIOUS
    <2> HIDE DEF l, i
    <2> QED
        <3>1. i \in 1 .. Len(lk) /\ lk[i].arg \in 1 .. (i - 1)
            BY <1>3, <1>5
        <3> QED
            BY ONLY <1>0, <2>1, <3>1
<1> HIDE DEF d, l, i
<1>9. l + 1 \in 1 .. (Len(lk) + 1) /\ i + 1 \in 1 .. (Len(lk) + 1)
    BY ONLY <1>0, <1>3, <1>8
<1> DEFINE e == d + 1
<1>10. e \in 1 .. (Len(ops) + 1) /\ from[start[e]] = from[l + 1] /\ off[e] = 1
    BY <1>7
<1> HIDE DEF e
<1>11. Steps(s, p, ops, from, start, off, Mk(t, q, c, o, n), Mk(t, q, e, o, n))
    <2>1. CASE l + 1 = i
        <3>1. from[start[e]] \notin {}
            OBVIOUS
        <3>2. Reaches(s, p, {}, Mk(t, q, from[start[c]], o, n), Mk(t, q, from[start[e]], o, n))
            BY <1>10, <2>1, ReachRefl DEF i
        <3> QED
            BY <1>1, <1>10, <3>1, <3>2, StepMk
    <2>2. CASE l + 1 # i
        <3>1. i + 1 <= l + 1 \/ l + 1 < i
            BY ONLY <1>0, <1>3, <1>8, <2>2
        <3>2. from[l + 1] \notin S
            BY <1>3, <1>9, <3>1, Later
        <3> HIDE DEF S
        <3> QED
            BY <1>1, <1>5, <1>10, <3>2, StepMk DEF i
    <2> QED
        BY <2>1, <2>2
<1> QED
    BY <1>6, <1>11 DEF e

\* The numbers of a division are bytes, whatever they are.
LEMMA DivModTyped ==
    ASSUME NEW t \in Tapes, NEW q \in Cells, NEW c \in Nat, NEW o \in Seq(Byte), NEW n \in Seq(Byte),
           NEW m, m = Mk(t, q, c, o, n)
    PROVE  \/ DivMod(m) = Fail(m)
           \/ \E u \in Tapes : DivMod(m) = Mk(u, q, c, o, n)
<1> DEFINE b == t[q]
           d == t[q + 1]
<1>1. m.tape = t /\ m.ptr = q /\ m \in Machines /\ q \in Int
    BY MkIs DEF Cells
<1>2. CASE q + 1 \notin Cells
    BY <1>1, <1>2 DEF DivMod
<1>3. CASE q + 1 \in Cells /\ d = 0
    <2>1. DivMod(m) = Mk(Put(t, q, 0 % Mod), q, c, o, n)
        BY <1>1, <1>3, SetCurrentMk DEF DivMod
    <2>2. 0 % Mod \in Byte
        BY ModByte
    <2>3. Put(t, q, 0 % Mod) \in Tapes
        BY <2>2, PutIs
    <2> QED
        BY <2>1, <2>3
<1>4. CASE q + 1 \in Cells /\ d # 0 /\ q + 3 \notin Cells
    BY <1>1, <1>4 DEF DivMod
<1>5. CASE q + 1 \in Cells /\ d # 0 /\ q + 3 \in Cells
    <2> DEFINE u == [t EXCEPT ![q] = 0, ![q + 1] = d - (b % d), ![q + 2] = b % d, ![q + 3] = b \div d]
               r == [m EXCEPT !.tape = u]
    <2>1. DivMod(m) = r
        BY <1>1, <1>5 DEF DivMod
    <2>2. d \in Byte /\ b \in Byte
        BY <1>5, CellByte
    <2>3. 0 \in Byte /\ d - (b % d) \in Byte /\ b % d \in Byte /\ b \div d \in Byte
        <3>1. d \in 1 .. (Mod - 1) /\ b \in 0 .. (Mod - 1) /\ Mod \in Nat
            BY <1>5, <2>2, MachineAssumption DEF Byte
        <3> HIDE DEF b, d
        <3>2. /\ b % d \in 0 .. (d - 1) /\ b \div d \in Int /\ b = d * (b \div d) + (b % d)
            BY <3>1
        <3> DEFINE x == b % d
                   y == b \div d
                   z == d * y
        <3>3. x \in 0 .. (d - 1) /\ y \in Int /\ b = z + x /\ z \in Int
            BY <3>1, <3>2
        <3>4. y >= 0 /\ y <= b
            <4>1. y < 0 => z <= -d
                BY <3>1, <3>3
            <4>2. y >= 0 => z >= y
                BY <3>1, <3>3
            <4> HIDE DEF x, y, z
            <4> QED
                BY <3>1, <3>3, <4>1, <4>2
        <3> HIDE DEF x, y, z
        <3>5. x \in Byte /\ y \in Byte /\ d - x \in Byte /\ 0 \in Byte
            BY <3>1, <3>3, <3>4 DEF Byte
        <3> QED
            BY <3>5 DEF x, y
    <2> DEFINE x == d - (b % d)
               y == b % d
               z == b \div d
    <2>4. x \in Byte /\ y \in Byte /\ z \in Byte /\ 0 \in Byte
        BY <2>3
    <2>5. u = [t EXCEPT ![q] = 0, ![q + 1] = x, ![q + 2] = y, ![q + 3] = z]
        OBVIOUS
    <2> HIDE DEF u, x, y, z
    <2>6. u \in Tapes
        BY <2>4, <2>5 DEF Tapes
    <2>7. m = Mk(t, q, c, o, n) /\ r = [m EXCEPT !.tape = u]
        OBVIOUS
    <2> HIDE DEF r
    <2>8. r = Mk(u, q, c, o, n)
        BY ONLY <2>7 DEF Mk
    <2> QED
        BY <2>1, <2>6, <2>8
<1> QED
    BY <1>2, <1>3, <1>4, <1>5

\* What an instruction is when it is not mistaken.
LEMMA NotMistaken ==
    ASSUME NEW ops, NEW t \in Tapes, NEW q \in Cells, NEW c, NEW o, NEW n, NEW m, m = Mk(t, q, c, o, n),
           Mistaken(ops, m) = {}
    PROVE  /\ ops[c].op = "divmod" => /\ \A k \in (q + 2) .. (q + 5) : k \in Cells /\ t[k] = 0
                                      /\ t[q] = 0 \/ t[q + 1] >= 2
           /\ ops[c].op = "mult" => t[q] = 0 \/ \A k \in DOMAIN Mults(ops, m) : Mults(ops, m)[k].arg # 0
<1>1. OnTape(m) /\ m.pc = c /\ m.ptr = q /\ m.tape = t /\ Current(m) = t[q]
    BY DEF OnTape, Current, Mk
<1>2. "counterTouched" \notin Mistaken(ops, m) /\ "usedTemps" \notin Mistaken(ops, m) /\ "smallDivisor" \notin Mistaken(ops, m)
    OBVIOUS
<1> DEFINE clear == \A k \in (q + 2) .. (q + 5) : k \in Cells /\ t[k] = 0
<1>3. ops[c].op = "divmod" => clear
    BY <1>1, <1>2 DEF Mistaken
<1>4. ops[c].op = "divmod" => t[q] = 0 \/ ~(t[q + 1] < 2)
    BY <1>1, <1>2, <1>3 DEF Mistaken
<1>5. ops[c].op = "mult" => t[q] = 0 \/ \A k \in DOMAIN Mults(ops, m) : Mults(ops, m)[k].arg # 0
    BY <1>1, <1>2 DEF Mistaken
<1>6. ASSUME ops[c].op = "divmod" PROVE t[q + 1] \in Int
    <2>1. q \in 0 .. (TapeSize - 1) /\ TapeSize \in Nat
        BY MachineAssumption DEF Cells
    <2>2. q + 2 \in (q + 2) .. (q + 5)
        BY <2>1
    <2>3. q + 2 \in Cells
        BY <1>3, <1>6, <2>2
    <2>4. q + 1 \in Cells
        BY <2>1, <2>3 DEF Cells
    <2> QED
        BY <2>4, CellByte
<1> QED
    BY <1>3, <1>4, <1>5, <1>6

LEMMA StepPass ==
    ASSUME NEW s, NEW p, NEW ops, NEW from, NEW start, NEW off, NEW l, NEW m \in Machines, m.failed,
           NEW e, e \in Nat, e \in 1 .. (Len(ops) + 1)
    PROVE  Steps(s, p, ops, from, start, off, l, Pass(m, e))
<1>1. Pass(m, e) \in Machines /\ Pass(m, e).failed /\ Pass(m, e).pc = e
    BY PassIs
<1> QED
    BY <1>1 DEF Steps, Typed, Follows

LEMMA StepDivMod ==
    ASSUME NEW s, NEW p, NEW ops, NEW lk, NEW from, NEW start, NEW off, NEW t, NEW q, NEW c, NEW o, NEW n,
           Before(s, p, ops, lk, from, start, off, t, q, c, o, n), ~Replaced(lk, start[c]),
           ops[c].op = "divmod", q \in Cells
    PROVE  Steps(s, p, ops, from, start, off, Mk(t, q, c, o, n), ExecuteOp(ops, Mk(t, q, c, o, n)))
<1> DEFINE i == start[c]
           S == Span(from, i, i + 1)
           e == c + 1
           m == Mk(t, q, c, o, n)
<1>1. /\ Coded(s, p, lk, from) /\ i \in 1 .. Len(lk) /\ S \subseteq S /\ lk[i].op = "divmod"
      /\ e \in 1 .. (Len(ops) + 1) /\ start[e] = i + 1 /\ off[e] = 1 /\ from[i + 1] \notin S
      /\ m \in Machines
    BY KeptAt
<1>2. t \in Tapes /\ q \in Int /\ o \in Seq(Byte) /\ n \in Seq(Byte) /\ c \in Nat /\ e \in Nat
    BY DEF Before
<1>3. ExecuteOp(ops, m) = Pass(DivMod(m), e)
    BY RunsOn
<1>4. m = Mk(t, q, c, o, n)
    OBVIOUS
<1> HIDE DEF S, e, m
<1>5. CASE Mistaken(ops, m) = {}
    <2>1. (\A k \in (q + 2) .. (q + 5) : k \in Cells /\ t[k] = 0) /\ (t[q] = 0 \/ t[q + 1] >= 2)
        BY <1>2, <1>4, <1>5, NotMistaken
    <2>2. PICK u \in Tapes : /\ DivMod(Mk(t, q, c, o, n)) = Mk(u, q, c, o, n)
                             /\ Reaches(s, p, S, Mk(t, q, from[i], o, n), Mk(u, q, from[i + 1], o, n))
        <3>1. /\ Coded(s, p, lk, from) /\ i \in 1 .. Len(lk) /\ lk[i].op = "divmod" /\ Span(from, i, i + 1) \subseteq S
              /\ t \in Tapes /\ q \in Cells /\ o \in Seq(Byte) /\ n \in Seq(Byte)
            BY <1>1, <1>2 DEF S
        <3> HIDE DEF i
        <3>2. DividesTo(s, p, S, from, i, t, q, c, o, n)
            BY ONLY <2>1, <3>1, OpDivMod
        <3> QED
            BY <3>2 DEF DividesTo
    <2>3. Steps(s, p, ops, from, start, off, Mk(t, q, c, o, n), Mk(u, q, e, o, n))
        BY <1>1, <1>2, <2>2, StepMk
    <2>4. ExecuteOp(ops, m) = Mk(u, q, e, o, n)
        BY <1>3, <1>4, <2>2, PassMk
    <2> QED
        BY <1>4, <2>3, <2>4
<1>6. CASE Mistaken(ops, m) # {}
    <2>1. CASE DivMod(m) = Fail(m)
        <3>1. DivMod(m) \in Machines /\ DivMod(m).failed
            BY <1>1, <2>1, FailIs
        <3>2. Steps(s, p, ops, from, start, off, m, Pass(DivMod(m), e))
            BY <1>1, <1>2, <3>1, StepPass
        <3> QED
            BY <1>3, <1>4, <3>2
    <2>2. ASSUME NEW u \in Tapes, DivMod(m) = Mk(u, q, c, o, n)
          PROVE  Steps(s, p, ops, from, start, off, m, ExecuteOp(ops, m))
        <3>1. ExecuteOp(ops, m) = Mk(u, q, e, o, n)
            BY <1>3, <2>2, PassMk
        <3>2. Len(ops) \in Nat
            BY SoundIs DEF Before
        <3>3. Typed(ops, off, ExecuteOp(ops, m))
            BY <1>1, <1>2, <3>1, <3>2, TypedMk
        <3> QED
            BY <1>6, <3>3 DEF Steps
    <2> QED
        BY <1>2, <1>4, <2>1, <2>2, DivModTyped
<1> QED
    BY <1>5, <1>6

\* A machine before the instructions that replace the loop from i to z.
AtLoop(s, p, ops, lk, from, t, q, c, o, n, i, z) ==
    /\ Coded(s, p, lk, from) /\ i \in 1 .. Len(lk) /\ lk \in Seq(Instrs) /\ Len(lk) \in Nat
    /\ lk[i].op = "open" /\ z \in (i + 1) .. Len(lk)
    /\ from[z + 1] \notin Span(from, i, z + 1)
    /\ t \in Tapes /\ q \in Int /\ o \in Seq(Byte) /\ n \in Seq(Byte) /\ c \in Nat /\ Len(ops) \in Nat
    /\ Mk(t, q, c, o, n) \in Machines

LEMMA ReplacedAt ==
    ASSUME NEW s, NEW p, NEW ops, NEW lk, NEW from, NEW start, NEW off, NEW t, NEW q, NEW c, NEW o, NEW n,
           Before(s, p, ops, lk, from, start, off, t, q, c, o, n), NEW i, i = start[c], Replaced(lk, i),
           NEW z, z = lk[i].arg, NEW N, N = Len(Replacement(lk, i))
    PROVE  /\ AtLoop(s, p, ops, lk, from, t, q, c, o, n, i, z)
           /\ InPlaceOf(ops, lk, start, off, c, i, N)
<1>1. /\ Sound(s, p, ops, lk, from, start, off) /\ c \in 1 .. Len(ops) /\ off[c] = 1
      /\ t \in Tapes /\ q \in Int /\ o \in Seq(Byte) /\ n \in Seq(Byte)
    BY DEF Before
<1>2. Coded(s, p, lk, from) /\ i \in 1 .. Len(lk) /\ lk \in Seq(Instrs) /\ Len(lk) \in Nat /\ Len(ops) \in Nat
    BY <1>1, SoundIs
<1>3. lk[i].op = "open"
    BY DEF Replaced
<1>4. z \in (i + 1) .. Len(lk)
    BY <1>2, <1>3, PartnerOf
<1>5. InPlaceOf(ops, lk, start, off, c, i, N)
    BY <1>1, ReplacedAs
<1>6. from[z + 1] \notin Span(from, i, z + 1)
    <2>1. z + 1 \in 1 .. (Len(lk) + 1) /\ z + 1 <= z + 1
        BY ONLY <1>2, <1>4
    <2> QED
        BY <1>2, <2>1, Later
<1>7. c \in Nat
    BY <1>1
<1>8. Mk(t, q, c, o, n) \in Machines
    BY <1>1, <1>7, MkIs
<1> QED
    BY <1>1, <1>2, <1>3, <1>4, <1>5, <1>6, <1>7, <1>8 DEF AtLoop

\* A loop is replaced by one instruction, unless it multiplies.
OneFor(ops, start, off, c, z, op, arg) ==
    /\ ops[c].op = op /\ ops[c].arg = arg
    /\ c + 1 \in 1 .. (Len(ops) + 1) /\ start[c + 1] = z + 1 /\ off[c + 1] = 1

LEMMA ReplacedOnce ==
    ASSUME NEW s, NEW p, NEW ops, NEW lk, NEW from, NEW start, NEW off, NEW t, NEW q, NEW c, NEW o, NEW n,
           Before(s, p, ops, lk, from, start, off, t, q, c, o, n), NEW i, i = start[c], Replaced(lk, i),
           NEW z, z = lk[i].arg, NEW op, NEW arg, Replacement(lk, i) = <<Op(op, arg, lk[i].at)>>
    PROVE  OneFor(ops, start, off, c, z, op, arg)
<1> DEFINE x == Op(op, arg, lk[i].at)
           N == Len(Replacement(lk, i))
<1>1. N = 1 /\ Replacement(lk, i)[1] = x
    OBVIOUS
<1>2. x.op = op /\ x.arg = arg
    BY DEF Op
<1> HIDE DEF x
<1>3. /\ c + N \in 1 .. (Len(ops) + 1) /\ start[c + N] = z + 1 /\ off[c + N] = 1 /\ c \in Nat
      /\ \A k \in 1 .. N : ops[c + k - 1] = Replacement(lk, i)[k]
    <2>1. InPlaceOf(ops, lk, start, off, c, i, N) /\ c \in Nat
        <3>1. /\ Sound(s, p, ops, lk, from, start, off) /\ c \in 1 .. Len(ops) /\ off[c] = 1
              /\ N = Len(Replacement(lk, i)) /\ i = start[c] /\ Replaced(lk, i)
            BY DEF Before
        <3>2. c \in Nat
            BY <3>1
        <3> HIDE DEF N
        <3>3. InPlaceOf(ops, lk, start, off, c, i, N)
            BY ONLY <3>1, ReplacedAs
        <3> QED
            BY <3>2, <3>3
    <2> QED
        BY <2>1 DEF InPlaceOf
<1>4. ops[c + 1 - 1] = x
    BY <1>1, <1>3
<1>5. c + 1 - 1 = c
    BY <1>3
<1> QED
    BY <1>1, <1>2, <1>3, <1>4, <1>5 DEF OneFor

LEMMA StepClear ==
    ASSUME NEW s, NEW p, NEW ops, NEW lk, NEW from, NEW start, NEW off, NEW t, NEW q, NEW c, NEW o, NEW n,
           Before(s, p, ops, lk, from, start, off, t, q, c, o, n), Replaced(lk, start[c]),
           IsClearLoop(lk, start[c]), q \in Cells
    PROVE  Steps(s, p, ops, from, start, off, Mk(t, q, c, o, n), ExecuteOp(ops, Mk(t, q, c, o, n)))
<1> DEFINE i == start[c]
           z == lk[i].arg
           S == Span(from, i, z + 1)
           e == c + 1
           u == Put(t, q, 0)
<1>0. /\ i = start[c] /\ z = lk[i].arg /\ Before(s, p, ops, lk, from, start, off, t, q, c, o, n)
      /\ Replaced(lk, i)
    OBVIOUS
<1>1. /\ Coded(s, p, lk, from) /\ i \in 1 .. Len(lk) /\ lk \in Seq(Instrs) /\ lk[i].op = "open"
      /\ from[z + 1] \notin S /\ S \subseteq S /\ t \in Tapes /\ o \in Seq(Byte) /\ n \in Seq(Byte)
    <2> HIDE DEF i, z
    <2>1. AtLoop(s, p, ops, lk, from, t, q, c, o, n, i, z)
        BY <1>0, ReplacedAt
    <2> QED
        BY <2>1 DEF AtLoop
<1>2. /\ ops[c].op = "clear" /\ e \in 1 .. (Len(ops) + 1) /\ start[e] = z + 1 /\ off[e] = 1
    <2>1. Replacement(lk, i) = <<Op("clear", 0, lk[i].at)>>
        BY DEF Replacement
    <2> HIDE DEF i, z
    <2>2. OneFor(ops, start, off, c, z, "clear", 0)
        BY <1>0, <2>1, ReplacedOnce
    <2> QED
        BY <2>2 DEF OneFor
<1>3. z + 1 = i + 3
    BY <1>1 DEF IsClearLoop
<1>4. u \in Tapes /\ q \in Int
    <2>1. 0 \in Byte
        BY ModByte
    <2> QED
        BY <1>1, <2>1, PutIs DEF Cells
<1>5. ExecuteOp(ops, Mk(t, q, c, o, n)) = Mk(u, q, e, o, n)
    <2>1. ExecuteOp(ops, Mk(t, q, c, o, n)) = Pass(SetCurrent(Mk(t, q, c, o, n), 0), e)
        BY <1>2, RunsOn
    <2>2. 0 % Mod = 0
        BY ModByte, ModSmall
    <2> HIDE DEF u, e
    <2>3. SetCurrent(Mk(t, q, c, o, n), 0) = Mk(u, q, c, o, n)
        BY <2>2, SetCurrentMk DEF u
    <2> QED
        BY <2>1, <2>3, PassMk
<1> HIDE DEF S, e, z
<1>6. Reaches(s, p, S, Mk(t, q, from[i], o, n), Mk(u, q, from[z + 1], o, n))
    <2>1. Span(from, i, i + 3) \subseteq S
        BY <1>1, <1>3 DEF S
    <2> QED
        BY <1>1, <1>3, <2>1, ClearLoop
<1> HIDE DEF u
<1>7. Steps(s, p, ops, from, start, off, Mk(t, q, c, o, n), Mk(u, q, e, o, n))
    BY <1>1, <1>2, <1>4, <1>6, StepMk
<1> QED
    BY <1>5, <1>7

LEMMA StepScan ==
    ASSUME NEW s, NEW p, NEW ops, NEW lk, NEW from, NEW start, NEW off, NEW t, NEW q, NEW c, NEW o, NEW n,
           Before(s, p, ops, lk, from, start, off, t, q, c, o, n), Replaced(lk, start[c]),
           ~IsClearLoop(lk, start[c]), ~IsMultLoop(lk, start[c]), IsScanLoop(lk, start[c]), q \in Cells
    PROVE  Steps(s, p, ops, from, start, off, Mk(t, q, c, o, n), ExecuteOp(ops, Mk(t, q, c, o, n)))
<1> DEFINE i == start[c]
           z == lk[i].arg
           S == Span(from, i, z + 1)
           e == c + 1
           d == lk[i + 1].arg
           m == Mk(t, q, c, o, n)
<1>0. /\ i = start[c] /\ z = lk[i].arg /\ Before(s, p, ops, lk, from, start, off, t, q, c, o, n)
      /\ Replaced(lk, i)
    OBVIOUS
<1>1. /\ Coded(s, p, lk, from) /\ i \in 1 .. Len(lk) /\ lk \in Seq(Instrs) /\ lk[i].op = "open" /\ z \in (i + 1) .. Len(lk)
      /\ Len(lk) \in Nat /\ from[z + 1] \notin S /\ S \subseteq S /\ t \in Tapes /\ o \in Seq(Byte) /\ n \in Seq(Byte) /\ c \in Nat
    <2> HIDE DEF i, z
    <2>1. AtLoop(s, p, ops, lk, from, t, q, c, o, n, i, z)
        BY <1>0, ReplacedAt
    <2> QED
        BY <2>1 DEF AtLoop
<1>2. /\ ops[c].op = "scan" /\ ops[c].arg = d /\ e \in 1 .. (Len(ops) + 1) /\ start[e] = z + 1 /\ off[e] = 1
    <2>1. Replacement(lk, i) = <<Op("scan", d, lk[i].at)>>
        BY DEF Replacement
    <2> HIDE DEF i, z, d
    <2>2. OneFor(ops, start, off, c, z, "scan", d)
        BY <1>0, <2>1, ReplacedOnce
    <2> QED
        BY <2>2 DEF OneFor
<1>3. z + 1 = i + 3 /\ lk[i + 1].op = "move" /\ i + 1 \in 1 .. Len(lk)
    <2>1. z = i + 2 /\ lk[i + 1].op = "move"
        BY DEF IsScanLoop
    <2> HIDE DEF i, z
    <2>2. i \in 1 .. Len(lk) /\ z \in (i + 1) .. Len(lk) /\ Len(lk) \in Nat
        BY <1>1
    <2> QED
        BY ONLY <2>1, <2>2
<1>4. d \in Int /\ d # 0
    <2> DEFINE j == i + 1
    <2>1. j \in 1 .. Len(lk) /\ lk[j].op = "move"
        BY <1>3
    <2> HIDE DEF j
    <2>2. lk[j] \in Instrs /\ Written(lk[j], s, from[j], from[j + 1]) /\ from[j] < from[j + 1] /\ from[j] \in Int /\ from[j + 1] \in Int
        BY <1>1, <2>1, PlaceIs
    <2>3. lk[j].arg \in Int
        BY <2>2, InstrFields
    <2>4. lk[j].arg = (from[j + 1] - from[j]) * s[from[j]].arg /\ s[from[j]].arg \in {1, -1}
        BY <2>1, <2>2 DEF Written
    <2>5. lk[j].arg # 0
        BY <2>2, <2>4
    <2> QED
        BY <2>3, <2>5 DEF j
<1>5. ExecuteOp(ops, m) = Pass(Scan(m, d), e)
    BY <1>2, RunsOn
<1>6. m = Mk(t, q, c, o, n) /\ q \in Int /\ e \in Nat /\ d = lk[i + 1].arg
    <2>1. q \in Int
        BY DEF Cells
    <2>2. e \in Nat
        BY <1>1
    <2> QED
        BY <2>1, <2>2
<1> HIDE DEF S, e, z, d, m
<1>7. CASE \E x \in Int : Scan(m, d) = Fail(Mk(t, x, c, o, n))
    <2>1. PICK x \in Int : Scan(m, d) = Fail(Mk(t, x, c, o, n))
        BY <1>7
    <2>2. Mk(t, x, c, o, n) \in Machines
        BY <1>1, MkIs
    <2>3. Scan(m, d) \in Machines /\ Scan(m, d).failed
        BY <2>1, <2>2, FailIs
    <2>4. Steps(s, p, ops, from, start, off, m, Pass(Scan(m, d), e))
        BY <1>2, <1>6, <2>3, StepPass
    <2> QED
        BY <1>5, <1>6, <2>4
<1>8. ASSUME NEW k \in Nat, \A j \in 0 .. k : q + j * d \in Cells, \A j \in 0 .. (k - 1) : t[q + j * d] # 0,
             t[q + k * d] = 0, Scan(m, d) = Mk(t, q + k * d, c, o, n)
      PROVE  Steps(s, p, ops, from, start, off, m, ExecuteOp(ops, m))
    <2>1. Span(from, i, i + 3) \subseteq S
        BY <1>1, <1>3 DEF S
    <2>2. Reaches(s, p, S, Mk(t, q, from[i], o, n), Mk(t, q + k * d, from[i + 3], o, n))
        BY <1>1, <1>4, <1>6, <1>8, <2>1, ScanLoop
    <2> DEFINE x == q + k * d
    <2>3. x \in Int
        BY <1>4, <1>6, <1>8
    <2>4. ExecuteOp(ops, m) = Mk(t, x, e, o, n)
        BY <1>5, <1>8, PassMk
    <2> HIDE DEF x
    <2>5. Reaches(s, p, S, Mk(t, q, from[i], o, n), Mk(t, x, from[z + 1], o, n))
        BY <1>3, <2>2 DEF x
    <2>6. Steps(s, p, ops, from, start, off, Mk(t, q, c, o, n), Mk(t, x, e, o, n))
        BY <1>1, <1>2, <1>6, <2>3, <2>5, StepMk
    <2> QED
        BY <1>6, <2>4, <2>6
<1> QED
    <2>1. ScanEnds(t, q, c, o, n, d)
        BY <1>1, <1>4, <1>6, ScanIs
    <2> QED
        BY <1>6, <1>7, <1>8, <2>1 DEF ScanEnds

LEMMA StepWalk ==
    ASSUME NEW s, NEW p, NEW ops, NEW lk, NEW from, NEW start, NEW off, NEW t, NEW q, NEW c, NEW o, NEW n,
           Before(s, p, ops, lk, from, start, off, t, q, c, o, n), Replaced(lk, start[c]),
           ~IsClearLoop(lk, start[c]), ~IsMultLoop(lk, start[c]), ~IsScanLoop(lk, start[c]), q \in Cells
    PROVE  Steps(s, p, ops, from, start, off, Mk(t, q, c, o, n), ExecuteOp(ops, Mk(t, q, c, o, n)))
<1> DEFINE i == start[c]
           z == lk[i].arg
           S == Span(from, i, z + 1)
           e == c + 1
           d == lk[i + 2].arg
           m == Mk(t, q, c, o, n)
<1>0. /\ i = start[c] /\ z = lk[i].arg /\ Before(s, p, ops, lk, from, start, off, t, q, c, o, n)
      /\ Replaced(lk, i)
    OBVIOUS
<1>1. /\ Coded(s, p, lk, from) /\ i \in 1 .. Len(lk) /\ lk \in Seq(Instrs) /\ lk[i].op = "open" /\ z \in (i + 1) .. Len(lk)
      /\ Len(lk) \in Nat /\ from[z + 1] \notin S /\ S \subseteq S /\ t \in Tapes /\ o \in Seq(Byte) /\ n \in Seq(Byte) /\ c \in Nat
      /\ m \in Machines
    <2> HIDE DEF i, z
    <2>1. AtLoop(s, p, ops, lk, from, t, q, c, o, n, i, z)
        BY <1>0, ReplacedAt
    <2> QED
        BY <2>1 DEF AtLoop
<1>2. /\ ops[c].op = "walk" /\ ops[c].arg = d /\ e \in 1 .. (Len(ops) + 1) /\ start[e] = z + 1 /\ off[e] = 1
    <2>1. Replacement(lk, i) = <<Op("walk", d, lk[i].at)>>
        BY DEF Replacement
    <2> HIDE DEF i, z, d
    <2>2. OneFor(ops, start, off, c, z, "walk", d)
        BY <1>0, <2>1, ReplacedOnce
    <2> QED
        BY <2>2 DEF OneFor
<1>3. IsWalkLoop(lk, i)
    BY DEF Replaced
<1>4. z + 1 = i + 10 /\ i + 2 \in 1 .. Len(lk) /\ d # 0
    <2>1. z = i + 9 /\ d # 0
        BY <1>3 DEF IsWalkLoop
    <2> HIDE DEF i, z, d
    <2>2. i \in 1 .. Len(lk) /\ z \in (i + 1) .. Len(lk) /\ Len(lk) \in Nat
        BY <1>1
    <2> QED
        BY ONLY <2>1, <2>2
<1>5. d \in Int
    <2> DEFINE j == i + 2
    <2>1. j \in 1 .. Len(lk) /\ lk \in Seq(Instrs)
        BY <1>1, <1>4
    <2> HIDE DEF j
    <2>2. lk[j] \in Instrs
        BY ONLY <2>1
    <2> QED
        BY <2>2, InstrFields DEF j
<1>6. ExecuteOp(ops, m) = Pass(Walk(m, d), e)
    BY <1>2, RunsOn
<1>7. m = Mk(t, q, c, o, n) /\ q \in Int /\ e \in Nat /\ d = lk[i + 2].arg /\ m.ptr \in Cells
    <2>1. q \in Int
        BY DEF Cells
    <2>2. e \in Nat
        BY <1>1
    <2>3. m.ptr = q
        BY DEF Mk
    <2> QED
        BY <2>1, <2>2, <2>3
<1> HIDE DEF S, e, z, d, m
<1>8. CASE Walk(m, d).failed
    <2>1. Walk(m, d) \in Machines
        <3>1. m \in Standing
            BY <1>1, <1>7 DEF Standing
        <3>2. PICK after \in [0 .. TapeSize -> Standing] : after[TapeSize] = Walk(m, d)
            BY <1>4, <1>5, <3>1, WalkPasses
        <3>3. TapeSize \in 0 .. TapeSize
            BY MachineAssumption
        <3> QED
            BY <3>2, <3>3 DEF Standing
    <2>2. Steps(s, p, ops, from, start, off, m, Pass(Walk(m, d), e))
        BY <1>2, <1>7, <1>8, <2>1, StepPass
    <2> QED
        BY <1>6, <1>7, <2>2
<1>9. ASSUME NEW u \in Tapes, NEW x \in Cells, Walk(m, d) = Mk(u, x, c, o, n),
             Reaches(s, p, S, Mk(t, q, from[i], o, n), Mk(u, x, from[i + 10], o, n))
      PROVE  Steps(s, p, ops, from, start, off, m, ExecuteOp(ops, m))
    <2>1. ExecuteOp(ops, m) = Mk(u, x, e, o, n)
        BY <1>6, <1>9, PassMk
    <2>2. Reaches(s, p, S, Mk(t, q, from[i], o, n), Mk(u, x, from[z + 1], o, n)) /\ x \in Int
        BY <1>4, <1>9 DEF Cells
    <2>3. Steps(s, p, ops, from, start, off, Mk(t, q, c, o, n), Mk(u, x, e, o, n))
        BY <1>1, <1>2, <1>7, <2>2, StepMk
    <2> QED
        BY <1>7, <2>1, <2>3
<1> QED
    <2>1. Span(from, i, i + 10) \subseteq S
        BY <1>1, <1>4 DEF S
    <2>2. WalkEnds(s, p, S, from, i, t, q, c, o, n, d)
        <3> HIDE DEF i
        <3> QED
            BY <1>1, <1>3, <1>7, <2>1, WalkLoop
    <2> QED
        BY <1>7, <1>8, <1>9, <2>2 DEF WalkEnds

\* The opMults of a loop are those that follow each other.
AreMults(mults, ops, c, h) ==
    mults \in Seq(Instrs) /\ Len(mults) = h /\ \A k \in 1 .. h : mults[k] = ops[c + k - 1]

LEMMA MultsAre ==
    ASSUME NEW ops \in Seq(Instrs), NEW c \in Nat, NEW h \in Nat, c >= 1, h >= 1, c + h \in 1 .. Len(ops),
           \A k \in 1 .. h : ops[c + k - 1].op = "mult", ops[c + h].op # "mult", NEW m, m.pc = c
    PROVE  AreMults(Mults(ops, m), ops, c, h)
<1> DEFINE Run(n) == (\A k \in c .. (c + n - 1) : ops[k].op = "mult") /\ ops[c + n].op # "mult"
           z == CHOOSE n \in 1 .. Len(ops) : Run(n)
<1>1. Len(ops) \in Nat /\ h \in 1 .. Len(ops)
    OBVIOUS
<1>2. Run(h)
    <2>1. ASSUME NEW k \in c .. (c + h - 1) PROVE ops[k].op = "mult"
        <3>1. k - c + 1 \in 1 .. h /\ c + (k - c + 1) - 1 = k
            OBVIOUS
        <3> QED
            BY <3>1
    <2> QED
        BY <2>1
<1>3. ASSUME NEW n \in 1 .. Len(ops), Run(n) PROVE n = h
    <2>1. ~(n < h)
        <3>1. SUFFICES ASSUME n < h PROVE FALSE
            OBVIOUS
        <3>2. c + n \in c .. (c + h - 1)
            BY <1>1, <3>1
        <3> QED
            BY <1>2, <1>3, <3>2
    <2>2. ~(h < n)
        <3>1. SUFFICES ASSUME h < n PROVE FALSE
            OBVIOUS
        <3>2. c + h \in c .. (c + n - 1)
            BY <1>1, <3>1
        <3> QED
            BY <1>2, <1>3, <3>2
    <2> QED
        BY <1>1, <2>1, <2>2
<1>4. z = h
    <2>1. z \in 1 .. Len(ops) /\ Run(z)
        <3> HIDE DEF Run
        <3> QED
            BY <1>1, <1>2
    <2> HIDE DEF z
    <2> QED
        BY <1>3, <2>1
<1>5. Mults(ops, m) = SubSeq(ops, c, c - 1 + z)
    BY DEF Mults
<1> HIDE DEF z
<1>6. c - 1 + h \in 0 .. Len(ops) /\ c \in 1 .. (c - 1 + h) /\ c - 1 + h = c + h - 1
    BY <1>1
<1> DEFINE x == SubSeq(ops, c, c + h - 1)
<1>7. Mults(ops, m) = x
    BY <1>4, <1>5, <1>6
<1>8. x \in Seq(Instrs) /\ Len(x) = h /\ \A k \in 1 .. h : x[k] = ops[c + k - 1]
    <2>1. c \in 1 .. Len(ops) /\ c + h - 1 \in 1 .. Len(ops) /\ c + h - 1 - c + 1 = h
        BY <1>1
    <2>2. x \in Seq(Instrs)
        BY <2>1
    <2>3. Len(x) = h
        BY <1>1, <2>1
    <2>4. ASSUME NEW k \in 1 .. h PROVE x[k] = ops[c + k - 1]
        BY <1>1, <2>1
    <2> QED
        BY <2>2, <2>3, <2>4
<1> QED
    BY <1>7, <1>8 DEF AreMults

\* The h opMults for the pairs of a loop, `mults', and where they go on.
MultsFor(ops, start, off, c, z, pairs, h, mults) ==
    /\ mults \in Seq(Instrs) /\ Len(mults) = h /\ ops[c].op = "mult"
    /\ \A k \in 1 .. h : mults[k].arg = Offset(pairs, 2 * k - 1) /\ mults[k].factor = pairs[2 * k].arg % Mod
    /\ c + h + 1 \in 1 .. (Len(ops) + 1) /\ start[c + h + 1] = z + 1 /\ off[c + h + 1] = 1

LEMMA MultsAt ==
    ASSUME NEW ops, NEW lk, NEW start, NEW off, NEW c, c \in Nat, c >= 1, NEW i, ops \in Seq(Instrs),
           lk \in Seq(Instrs), i \in 1 .. Len(lk), NEW z, z = lk[i].arg, z \in (i + 1) .. Len(lk), IsMultLoop(lk, i),
           NEW pairs, pairs = Pairs(Body(lk, i)), NEW h, h = Len(pairs) \div 2,
           NEW N, N = Len(MultOps(lk, i)), Replacement(lk, i) = MultOps(lk, i),
           InPlaceOf(ops, lk, start, off, c, i, N), NEW m, m.pc = c
    PROVE  MultsFor(ops, start, off, c, z, pairs, h, Mults(ops, m))
<1> DEFINE x == MultOps(lk, i)
           mults == Mults(ops, m)
<1>1. /\ h \in Nat /\ h >= 1 /\ Len(x) = h + 1
      /\ \A k \in 1 .. h : x[k] = MultOp(lk, i, k)
      /\ x[h + 1] = Op("clear", 0, lk[i].at)
    BY MultOpsIs
<1>2. /\ c + (h + 1) \in 1 .. (Len(ops) + 1) /\ start[c + (h + 1)] = z + 1 /\ off[c + (h + 1)] = 1
      /\ \A k \in 1 .. (h + 1) : c + k - 1 \in 1 .. Len(ops) /\ ops[c + k - 1] = x[k]
    BY <1>1 DEF InPlaceOf
<1> HIDE DEF x
<1>3. ASSUME NEW k \in 1 .. h
      PROVE  /\ ops[c + k - 1].op = "mult" /\ ops[c + k - 1].arg = Offset(pairs, 2 * k - 1)
             /\ ops[c + k - 1].factor = pairs[2 * k].arg % Mod
    <2>1. k \in 1 .. (h + 1)
        BY <1>1
    <2>2. ops[c + k - 1] = MultOp(lk, i, k)
        BY <1>1, <1>2, <2>1
    <2> QED
        BY <2>2 DEF MultOp
<1>4. c + h \in 1 .. Len(ops) /\ ops[c + h].op = "clear" /\ c + (h + 1) = c + h + 1
    <2>1. h + 1 \in 1 .. (h + 1) /\ c + (h + 1) - 1 = c + h /\ c + (h + 1) = c + h + 1
        BY <1>1
    <2>2. c + h \in 1 .. Len(ops) /\ ops[c + h] = Op("clear", 0, lk[i].at)
        BY <1>1, <1>2, <2>1
    <2> QED
        BY <2>1, <2>2 DEF Op
<1>5. AreMults(mults, ops, c, h)
    <2>1. ops[c + h].op # "mult"
        BY <1>4
    <2> QED
        BY <1>1, <1>3, <1>4, <2>1, MultsAre
<1>6. ops[c].op = "mult"
    <2>1. 1 \in 1 .. h /\ c + 1 - 1 = c
        BY <1>1
    <2> QED
        BY <1>3, <2>1
<1> HIDE DEF mults
<1>7. MultsFor(ops, start, off, c, z, pairs, h, mults)
    BY <1>2, <1>3, <1>4, <1>5, <1>6 DEF MultsFor, AreMults
<1> QED
    BY <1>7 DEF mults

\* A multiplication from a cell that is 0 does nothing.
LEMMA MultiplyNone ==
    ASSUME NEW ops, NEW t, NEW q, NEW c, c \in Nat, NEW o, NEW n, NEW m, m = Mk(t, q, c, o, n), t[q] = 0,
           NEW h, h \in Nat, Len(Mults(ops, m)) = h
    PROVE  Multiplied(ops, m, t, q, c, o, n, h, t)
<1>1. m.pc = c /\ Current(m) = 0
    BY DEF Mk, Current
<1>2. Multiply(ops, m) = Pass(m, m.pc + Len(Mults(ops, m)) + 1)
    BY ONLY <1>1 DEF Multiply, Pass
<1> DEFINE e == c + h + 1
<1>3. Multiply(ops, m) = Pass(m, e)
    BY <1>1, <1>2
<1> HIDE DEF e
<1>4. Multiply(ops, m) = Mk(t, q, e, o, n)
    BY <1>3, PassMk
<1> QED
    BY <1>4 DEF Multiplied, e

\* One whose loop does not touch its counter.
LEMMA CounterUntouched ==
    ASSUME NEW ops, NEW m, OnTape(m), Mistaken(ops, m) = {}, ops[m.pc].op = "mult", Current(m) # 0,
           NEW k, k \in DOMAIN Mults(ops, m)
    PROVE  Mults(ops, m)[k].arg # 0
BY DEF Mistaken

\* One that would add outside the tape dies.
LEMMA MultiplyFails ==
    ASSUME NEW ops, NEW t, NEW q, NEW c, NEW o, NEW n, NEW m, m = Mk(t, q, c, o, n), t[q] # 0,
           NEW mults, Mults(ops, m) = mults, NEW k \in DOMAIN mults, q + mults[k].arg \notin Cells
    PROVE  Multiply(ops, m) = Fail(m)
<1>1. m.ptr = q /\ Current(m) # 0
    BY DEF Mk, Current
<1> QED
    BY <1>1 DEF Multiply

LEMMA StepMult ==
    ASSUME NEW s, NEW p, NEW ops, NEW lk, NEW from, NEW start, NEW off, NEW t, NEW q, NEW c, NEW o, NEW n,
           Before(s, p, ops, lk, from, start, off, t, q, c, o, n), Replaced(lk, start[c]),
           ~IsClearLoop(lk, start[c]), IsMultLoop(lk, start[c]), q \in Cells
    PROVE  Steps(s, p, ops, from, start, off, Mk(t, q, c, o, n), ExecuteOp(ops, Mk(t, q, c, o, n)))
<1> DEFINE i == start[c]
           z == lk[i].arg
           S == Span(from, i, z + 1)
           pairs == Pairs(Body(lk, i))
           h == Len(pairs) \div 2
           N == Len(MultOps(lk, i))
           m == Mk(t, q, c, o, n)
           mults == Mults(ops, m)
           e == c + h + 1
<1>0. /\ i = start[c] /\ z = lk[i].arg /\ Before(s, p, ops, lk, from, start, off, t, q, c, o, n)
      /\ Replaced(lk, i) /\ IsMultLoop(lk, i) /\ Replacement(lk, i) = MultOps(lk, i)
      /\ N = Len(MultOps(lk, i)) /\ m = Mk(t, q, c, o, n) /\ pairs = Pairs(Body(lk, i)) /\ h = Len(pairs) \div 2
      /\ mults = Mults(ops, m) /\ e = c + h + 1 /\ S = Span(from, i, z + 1)
    BY DEF Replacement
<1> HIDE DEF i, z, S, pairs, h, N, m, mults, e
<1>1. AtLoop(s, p, ops, lk, from, t, q, c, o, n, i, z) /\ InPlaceOf(ops, lk, start, off, c, i, N)
    BY <1>0, ReplacedAt
<1>2. /\ Coded(s, p, lk, from) /\ i \in 1 .. Len(lk) /\ lk \in Seq(Instrs) /\ lk[i].op = "open" /\ z \in (i + 1) .. Len(lk)
      /\ Len(lk) \in Nat /\ from[z + 1] \notin S /\ S \subseteq S /\ Span(from, i, z + 1) \subseteq S
      /\ t \in Tapes /\ q \in Int /\ o \in Seq(Byte) /\ n \in Seq(Byte) /\ c \in Nat
      /\ Len(ops) \in Nat /\ m \in Machines
    BY <1>0, <1>1 DEF AtLoop
<1>3. ops \in Seq(Instrs) /\ c \in 1 .. Len(ops) /\ c >= 1 /\ m.pc = c /\ Current(m) = t[q]
    BY <1>0, SoundIs DEF Before, Mk, Current
<1>4. MultsFor(ops, start, off, c, z, pairs, h, mults)
    BY <1>0, <1>1, <1>2, <1>3, MultsAt
<1>5. /\ mults \in Seq(Instrs) /\ Len(mults) = h /\ ops[c].op = "mult" /\ DOMAIN mults = 1 .. h /\ h \in Nat
      /\ \A k \in 1 .. h : mults[k].arg = Offset(pairs, 2 * k - 1) /\ mults[k].factor = pairs[2 * k].arg % Mod
      /\ e \in 1 .. (Len(ops) + 1) /\ start[e] = z + 1 /\ off[e] = 1
    BY <1>0, <1>4 DEF MultsFor
<1>6. MultLoopIs(lk, from, S, i, pairs, h, z)
    BY <1>0, <1>2, MultParts
<1>7. ExecuteOp(ops, m) = Multiply(ops, m)
    BY <1>0, <1>5, RunsOn
<1>8. CASE t[q] = 0
    <2>1. Multiply(ops, m) = Mk(t, q, e, o, n)
        <3>1. m = Mk(t, q, c, o, n) /\ Len(Mults(ops, m)) = h /\ e = c + h + 1 /\ h \in Nat /\ c \in Nat
            BY <1>0, <1>2, <1>5
        <3> QED
            <4>1. Multiplied(ops, m, t, q, c, o, n, h, t)
                BY ONLY <1>8, <3>1, MultiplyNone
            <4> QED
                BY <3>1, <4>1 DEF Multiplied
    <2>2. Reaches(s, p, S, Mk(t, q, from[i], o, n), Mk(t, q, from[z + 1], o, n))
        <3>1. Span(from, i, i + 1) \subseteq S
            <4>1. z + 1 \in (i + 1) .. (Len(lk) + 1) /\ i \in i .. (z + 1 - 1)
                BY ONLY <1>2
            <4> QED
                BY <1>2, <4>1, Pieces
        <3>2. Reaches(s, p, S, Mk(t, q, from[i], o, n), Mk(t, q, from[(IF t[q] = 0 THEN lk[i].arg ELSE i) + 1], o, n))
            BY <1>2, <3>1, OpOpen
        <3> QED
            BY <1>0, <1>8, <3>2
    <2>3. Steps(s, p, ops, from, start, off, Mk(t, q, c, o, n), Mk(t, q, e, o, n))
        BY <1>0, <1>2, <1>5, <2>2, StepMk
    <2> QED
        BY <1>0, <1>7, <2>1, <2>3
<1>9. CASE t[q] # 0 /\ \E k \in 1 .. h : q + mults[k].arg \notin Cells
    <2>1. Multiply(ops, m) = Fail(m)
        BY <1>0, <1>5, <1>9, MultiplyFails
    <2>2. m.pc \in 1 .. (Len(ops) + 1)
        BY <1>2, <1>3
    <2>3. Steps(s, p, ops, from, start, off, m, Fail(m))
        BY <1>2, <2>2, StepFail
    <2> QED
        BY <1>0, <1>7, <2>1, <2>3
<1>10. CASE t[q] # 0 /\ \A k \in 1 .. h : q + mults[k].arg \in Cells
    <2>1. CASE Mistaken(ops, m) = {}
        <3>1. \A k \in 1 .. h : mults[k].arg # 0
            <4>1. m.ptr = q
                BY <1>0 DEF Mk
            <4>2. mults = Mults(ops, m) /\ DOMAIN mults = 1 .. h /\ ops[m.pc].op = "mult" /\ Current(m) # 0 /\ OnTape(m)
                BY <1>0, <1>3, <1>5, <1>10, <4>1 DEF OnTape
            <4> QED
                BY ONLY <2>1, <4>2, CounterUntouched
        <3>2. Targets(pairs, h, q)
            BY <1>5, <1>10, <3>1 DEF Targets
        <3> DEFINE u == Times(t, q, pairs, 2 * h + 1, t[q])
        <3>3. Multiply(ops, m) = Mk(u, q, e, o, n)
            <4>1. Multiplied(ops, m, t, q, c, o, n, h, u)
                <5>1. m = Mk(t, q, c, o, n) /\ Mults(ops, m) = mults /\ h = Len(mults)
                    BY <1>0, <1>5
                <5> QED
                    BY ONLY <1>2, <1>5, <1>6, <1>10, <3>2, <5>1, q \in Cells, MultiplyIs
            <4> QED
                BY <1>0, <4>1 DEF Multiplied
        <3>4. Reaches(s, p, S, Mk(t, q, from[i], o, n), Mk(u, q, from[z + 1], o, n))
            BY <1>2, <1>6, <1>10, <3>2, MultTurns
        <3>5. u \in Tapes
            <4>1. pairs \in Seq(Instrs) /\ Len(pairs) = 2 * h + 1 /\ h \in Nat /\ t[q] \in Int
                BY <1>2, <1>5, <1>6, CellByte DEF MultLoopIs
            <4>2. 2 * h + 1 \in 0 .. Len(pairs)
                BY <4>1
            <4> QED
                BY <1>2, <4>1, <4>2, TimesIs DEF IsTimes
        <3> HIDE DEF u
        <3>6. Steps(s, p, ops, from, start, off, Mk(t, q, c, o, n), Mk(u, q, e, o, n))
            BY <1>0, <1>2, <1>5, <3>4, <3>5, StepMk
        <3> QED
            BY <1>0, <1>7, <3>3, <3>6
    <2>2. CASE Mistaken(ops, m) # {}
        <3>1. PICK added : /\ Adds(added, t, q, mults, h)
                           /\ Multiply(ops, m) = Mk(Put(added[h], q, 0), q, e, o, n)
            <4>1. m = Mk(t, q, c, o, n) /\ Mults(ops, m) = mults /\ h = Len(mults)
                BY <1>0, <1>5
            <4>2. AddsUp(ops, m, t, q, c, o, n, mults, h)
                BY ONLY <1>2, <1>5, <1>10, <4>1, q \in Cells, MultiplySteps
            <4> QED
                BY <1>0, <4>2 DEF AddsUp, Multiplied
        <3> DEFINE u == Put(added[h], q, 0)
        <3>2. u \in Tapes
            <4>1. added[h] \in Tapes
                BY <1>5, <3>1 DEF Adds
            <4> QED
                BY <4>1, ModByte, PutIs
        <3>3. ExecuteOp(ops, m) = Mk(u, q, e, o, n)
            BY <1>7, <3>1
        <3> HIDE DEF u
        <3>4. Typed(ops, off, ExecuteOp(ops, m))
            <4>1. q \in Int /\ e \in 1 .. (Len(ops) + 1) /\ Len(ops) \in Nat /\ off[e] = 1
                BY <1>2, <1>5
            <4>2. Typed(ops, off, Mk(u, q, e, o, n))
                BY ONLY <1>2, <3>2, <4>1, TypedMk
            <4> QED
                BY ONLY <3>3, <4>2
        <3> QED
            BY <1>0, <2>2, <3>4 DEF Steps
    <2> QED
        BY <2>1, <2>2
<1> QED
    BY <1>8, <1>9, <1>10

\* Every instruction.
LEMMA StepOp ==
    ASSUME NEW s, NEW p, NEW ops, NEW lk, NEW from, NEW start, NEW off, NEW t, NEW q, NEW c, NEW o, NEW n,
           Before(s, p, ops, lk, from, start, off, t, q, c, o, n)
    PROVE  Steps(s, p, ops, from, start, off, Mk(t, q, c, o, n), ExecuteOp(ops, Mk(t, q, c, o, n)))
<1> DEFINE m == Mk(t, q, c, o, n)
           i == start[c]
<1>1. /\ Sound(s, p, ops, lk, from, start, off) /\ c \in 1 .. Len(ops)
      /\ t \in Tapes /\ q \in Int /\ o \in Seq(Byte) /\ n \in Seq(Byte)
    BY DEF Before
<1>2. Len(ops) \in Nat /\ c \in Nat /\ c \in 1 .. (Len(ops) + 1) /\ lk \in Seq(Instrs) /\ i \in 1 .. Len(lk)
    BY <1>1, SoundIs
<1>3. m \in Machines /\ m.pc = c
    BY <1>1, <1>2, MkIs
<1>4. CASE ops[c].op # "move" /\ q \notin Cells
    <2>1. ExecuteOp(ops, m) = Fail(m)
        <3>1. CASE ops[c].op \in {"add", "out", "in", "open", "close"}
            <4>1. ExecuteOp(ops, m) = Execute(ops, [k \in DOMAIN ops |-> ops[k].arg], m)
                BY <3>1, RunsPlain
            <4>2. Execute(ops, [k \in DOMAIN ops |-> ops[k].arg], m) = Fail(m)
                BY <1>4, DoFails
            <4> QED
                BY <4>1, <4>2
        <3>2. CASE ops[c].op \notin {"add", "out", "in", "open", "close"}
            BY <1>4, <3>2, RunsOff
        <3> QED
            BY <3>1, <3>2
    <2>2. m.pc \in 1 .. (Len(ops) + 1)
        BY <1>2, <1>3
    <2> HIDE DEF m
    <2>3. Steps(s, p, ops, from, start, off, m, Fail(m))
        BY <1>3, <2>2, StepFail
    <2> QED
        BY <2>1, <2>3 DEF m
<1>5. CASE ops[c].op = "move" \/ q \in Cells
    <2>1. CASE Replaced(lk, i)
        <3>1. ops[c].op # "move"
            <4>1. CASE IsMultLoop(lk, i) /\ ~IsClearLoop(lk, i)
                <5>1. ops[c].op = "mult"
                    <6> DEFINE z == lk[i].arg
                               N == Len(Replacement(lk, i))
                               pairs == Pairs(Body(lk, i))
                               h == Len(pairs) \div 2
                    <6>1. /\ i = start[c] /\ z = lk[i].arg /\ N = Len(MultOps(lk, i)) /\ N = Len(Replacement(lk, i))
                          /\ Replacement(lk, i) = MultOps(lk, i) /\ pairs = Pairs(Body(lk, i)) /\ h = Len(pairs) \div 2
                          /\ Replaced(lk, i) /\ IsMultLoop(lk, i)
                        BY <2>1, <4>1 DEF Replacement
                    <6>2. ops \in Seq(Instrs) /\ c >= 1
                        BY <1>1, SoundIs
                    <6> HIDE DEF i, z, N, pairs, h, m
                    <6>3. AtLoop(s, p, ops, lk, from, t, q, c, o, n, i, z) /\ InPlaceOf(ops, lk, start, off, c, i, N)
                        BY <6>1, ReplacedAt
                    <6>4. z \in (i + 1) .. Len(lk)
                        BY <6>3 DEF AtLoop
                    <6>5. MultsFor(ops, start, off, c, z, pairs, h, Mults(ops, m))
                        BY <1>2, <1>3, <6>1, <6>2, <6>3, <6>4, MultsAt
                    <6> QED
                        BY <6>5 DEF MultsFor
                <5> QED
                    BY <5>1
            <4>2. CASE IsClearLoop(lk, i) \/ ~IsMultLoop(lk, i)
                <5>0. \E op \in {"clear", "scan", "walk"} : \E arg : Replacement(lk, i) = <<Op(op, arg, lk[i].at)>>
                    BY <2>1, <4>2 DEF Replacement
                <5>1. PICK op, arg : op \in {"clear", "scan", "walk"} /\ Replacement(lk, i) = <<Op(op, arg, lk[i].at)>>
                    BY <5>0
                <5> DEFINE z == lk[i].arg
                <5>2. i = start[c] /\ z = lk[i].arg
                    OBVIOUS
                <5> HIDE DEF i, z
                <5>3. OneFor(ops, start, off, c, z, op, arg)
                    BY <2>1, <5>1, <5>2, ReplacedOnce
                <5> QED
                    BY <5>1, <5>3 DEF OneFor
            <4> QED
                BY <4>1, <4>2
        <3>2. q \in Cells
            BY <1>5, <3>1
        <3> QED
            BY <2>1, <3>2, StepClear, StepMult, StepScan, StepWalk
    <2>2. CASE ~Replaced(lk, i)
        <3>1. ops[c].op = lk[i].op
            BY <1>1, <2>2, Kept
        <3>2. ops[c].op \in {"move", "add", "out", "in", "open", "close", "divmod"}
            <4>1. Coded(s, p, lk, from)
                BY <1>1, SoundIs
            <4>2. Written(lk[i], s, from[i], from[i + 1])
                BY <1>2, <4>1, PlaceIs
            <4> QED
                BY <3>1, <4>2 DEF Written
        <3>3. CASE ops[c].op = "move"
            BY <2>2, <3>3, StepMove
        <3>4. CASE ops[c].op = "add"
            BY <1>5, <2>2, <3>4, StepAdd
        <3>5. CASE ops[c].op = "out"
            BY <1>5, <2>2, <3>5, StepOut
        <3>6. CASE ops[c].op = "in"
            BY <1>5, <2>2, <3>6, StepIn
        <3>7. CASE ops[c].op = "open"
            BY <1>5, <3>7, StepOpen
        <3>8. CASE ops[c].op = "close"
            BY <1>5, <3>8, StepClose
        <3>9. CASE ops[c].op = "divmod"
            BY <1>5, <2>2, <3>9, StepDivMod
        <3> QED
            BY <3>2, <3>3, <3>4, <3>5, <3>6, <3>7, <3>8, <3>9
    <2> QED
        BY <2>1, <2>2
<1> QED
    BY <1>4, <1>5

-----------------------------------------------------------------------------
(* The two machines. *)

\* The plain machine has run, or runs, to the character that the interpreter's instruction
\* is written from, and is not there before.
Joined(from, start) ==
    run.failed \/ \E S : from[start[run.pc]] \notin S /\ Reaches(source, partners, S, plain, AsWritten(run, from, start))

\* The interpreter stands at the first instruction of a loop it replaced, or at one it did
\* not replace; and as it makes no mistakes, the plain machine joins it.
InLayout(lk, from, start, off) ==
    /\ Sound(source, partners, compiled.ops, lk, from, start, off)
    /\ run.failed \/ off[run.pc] = 1
    /\ Miscompiled = {} => Joined(from, start)

\* The inductive invariant of the interpreter.
IInv ==
    /\ source \in Seq(Characters) /\ compiled = CompileBF(source)
    /\ run \in Machines /\ run.pc \in 1 .. (Len(compiled.ops) + 1)
    /\ plain \in Machines /\ plain.pc >= 1
    /\ compiled.ok => \E lk, from, start, off : InLayout(lk, from, start, off)

LEMMA InitInv == Init => IInv
<1> SUFFICES ASSUME Init PROVE IInv
    OBVIOUS
<1>1. PICK c \in Cases : /\ source = c.source /\ partners = (IF Balanced(c.source) THEN Partners(c.source) ELSE <<>>)
                         /\ compiled = CompileBF(c.source) /\ run = Boot(c.input) /\ plain = Boot(c.input)
    BY DEF Init
<1>2. source \in Seq(Characters) /\ c.input \in Seq(Byte) /\ compiled = CompileBF(source)
    BY <1>1, CasesAssumption
<1>3. run = Mk([x \in Cells |-> 0], 0, 1, <<>>, c.input) /\ run \in Machines /\ plain = run
    BY <1>1, <1>2, BootIs
<1>4. run.pc = 1 /\ run.tape = [x \in Cells |-> 0] /\ run.ptr = 0 /\ run.out = <<>> /\ run.in = c.input /\ ~run.failed
    BY <1>3 DEF Mk
<1>5. compiled.ops \in Seq(Instrs) /\ Len(compiled.ops) \in Nat /\ (compiled.ok <=> Balanced(source))
    BY <1>2, CompileLayout
<1>6. run.pc \in 1 .. (Len(compiled.ops) + 1)
    BY <1>4, <1>5
<1>7. ASSUME compiled.ok PROVE \E lk, from, start, off : InLayout(lk, from, start, off)
    <2>1. Program(source, partners)
        BY <1>1, <1>2, <1>5, <1>7 DEF Program
    <2>2. PICK lk, from, start, off : Layout(source, lk, from, compiled.ops, start, off)
        BY <1>2, <1>5, <1>7, CompileLayout
    <2>3. Sound(source, partners, compiled.ops, lk, from, start, off)
        BY <2>1, <2>2 DEF Sound
    <2>4. off[1] = 1 /\ start[1] = 1 /\ from[1] = 1
        BY <2>3, SoundIs
    <2>5. AsWritten(run, from, start) = plain
        BY <1>3, <1>4, <2>4 DEF AsWritten
    <2>6. Reaches(source, partners, {}, plain, AsWritten(run, from, start))
        BY <2>5, ReachRefl
    <2>7. Joined(from, start)
        BY <2>6 DEF Joined
    <2>8. InLayout(lk, from, start, off)
        BY <1>4, <2>3, <2>4, <2>7 DEF InLayout
    <2> QED
        BY <2>8
<1> QED
    BY <1>2, <1>3, <1>4, <1>6, <1>7 DEF IInv

\* Where the interpreter's instruction is written from.
LEMMA AtIs ==
    ASSUME IInv, NEW lk, NEW from, NEW start, NEW off, InLayout(lk, from, start, off)
    PROVE  /\ At(run.pc) = from[start[run.pc]] /\ from[start[run.pc]] \in Nat
           /\ AsWritten(run, from, start) \in Machines
           /\ AsWritten(run, from, start).pc = At(run.pc) /\ ~AsWritten(run, from, start).failed
<1> DEFINE N == Len(compiled.ops)
           a == from[start[run.pc]]
<1>1. Sound(source, partners, compiled.ops, lk, from, start, off) /\ run \in Machines /\ run.pc \in 1 .. (N + 1)
    BY DEF IInv, InLayout
<1>2. /\ Coded(source, partners, lk, from) /\ N \in Nat /\ Len(lk) \in Nat
      /\ start \in [1 .. (N + 1) -> 1 .. (Len(lk) + 1)] /\ start[N + 1] = Len(lk) + 1
      /\ from[Len(lk) + 1] = Len(source) + 1
      /\ \A c \in 1 .. N : compiled.ops[c].at = from[start[c]]
    BY <1>1, SoundIs
<1>3. from \in [1 .. (Len(lk) + 1) -> 1 .. (Len(source) + 1)] /\ Len(source) \in Nat
    BY <1>2, CodedIs
<1>4. a \in Nat
    <2>1. start[run.pc] \in 1 .. (Len(lk) + 1)
        BY <1>1, <1>2
    <2>2. from[start[run.pc]] \in 1 .. (Len(source) + 1)
        BY <1>3, <2>1
    <2> QED
        BY <1>3, <2>2
<1>5. At(run.pc) = a
    <2>1. CASE run.pc \in 1 .. N
        BY <1>2, <2>1 DEF At
    <2>2. CASE run.pc = N + 1
        BY <1>2, <2>2 DEF At
    <2> QED
        BY <1>1, <1>2, <2>1, <2>2
<1> HIDE DEF a
<1>6. AsWritten(run, from, start) = Mk(run.tape, run.ptr, a, run.out, run.in)
    BY DEF AsWritten, a
<1>7. run.tape \in Tapes /\ run.ptr \in Int /\ run.out \in Seq(Byte) /\ run.in \in Seq(Byte)
    BY <1>1, MachineIs
<1> DEFINE t == run.tape
           q == run.ptr
           o == run.out
           i == run.in
<1>8. t \in Tapes /\ q \in Int /\ o \in Seq(Byte) /\ i \in Seq(Byte) /\ AsWritten(run, from, start) = Mk(t, q, a, o, i)
    BY <1>6, <1>7
<1> HIDE DEF t, q, o, i
<1>9. Mk(t, q, a, o, i) \in Machines /\ Mk(t, q, a, o, i).pc = a /\ ~Mk(t, q, a, o, i).failed
    BY <1>4, <1>8, MkIs
<1> QED
    BY <1>4, <1>5, <1>8, <1>9 DEF a

\* Once level, the plain machine is the interpreter, at the character it is written from.
LEMMA LevelIs ==
    ASSUME IInv, NEW lk, NEW from, NEW start, NEW off, InLayout(lk, from, start, off),
           Joined(from, start), CaughtUp, ~run.failed
    PROVE  plain = AsWritten(run, from, start)
<1>1. PICK S : from[start[run.pc]] \notin S /\ Reaches(source, partners, S, plain, AsWritten(run, from, start))
    BY DEF Joined
<1>2. plain.pc = from[start[run.pc]]
    BY AtIs DEF CaughtUp
<1>3. AsWritten(run, from, start) \in Machines
    BY AtIs
<1> DEFINE m == AsWritten(run, from, start)
<1>4. m \in Machines /\ Reaches(source, partners, S, plain, m) /\ plain.pc \notin S
    BY <1>1, <1>2, <1>3
<1> HIDE DEF m
<1>5. plain = m
    BY ONLY <1>4, ReachUnfold
<1> QED
    BY <1>5 DEF m

\* An instruction of the interpreter.
LEMMA InterpretInv == IInv /\ Interpret => IInv'
<1> SUFFICES ASSUME IInv, Interpret PROVE IInv'
    OBVIOUS
<1> DEFINE N == Len(compiled.ops)
<1>1. /\ compiled.ok /\ CaughtUp /\ ~run.failed /\ ~(run.pc > N)
      /\ Mistaken(compiled.ops, run) \subseteq Miscompiled
      /\ run' = ExecuteOp(compiled.ops, run)
      /\ source' = source /\ partners' = partners /\ compiled' = compiled /\ plain' = plain
    BY DEF Interpret, Halted
<1>2. PICK lk, from, start, off : InLayout(lk, from, start, off)
    BY <1>1 DEF IInv
<1>3. /\ source \in Seq(Characters) /\ compiled = CompileBF(source) /\ run \in Machines /\ run.pc \in 1 .. (N + 1)
      /\ plain \in Machines /\ plain.pc >= 1
    BY DEF IInv
<1>4. Sound(source, partners, compiled.ops, lk, from, start, off) /\ off[run.pc] = 1
    BY <1>1, <1>2 DEF InLayout
<1>5. N \in Nat
    BY <1>4, SoundIs
<1>6. run.pc \in 1 .. N
    BY <1>1, <1>3, <1>5
<1>7. Steps(source, partners, compiled.ops, from, start, off, run, run')
    <2> DEFINE t == run.tape
               q == run.ptr
               c == run.pc
               o == run.out
               n == run.in
               s == source
               p == partners
               ops == compiled.ops
    <2>1. run = Mk(t, q, c, o, n) /\ Before(s, p, ops, lk, from, start, off, t, q, c, o, n)
        BY <1>1, <1>3, <1>4, <1>6, MachineIs DEF Before
    <2>2. run' = ExecuteOp(ops, Mk(t, q, c, o, n))
        BY <1>1, <2>1
    <2> HIDE DEF t, q, c, o, n, s, p, ops
    <2>3. Steps(s, p, ops, from, start, off, Mk(t, q, c, o, n), ExecuteOp(ops, Mk(t, q, c, o, n)))
        BY <2>1, StepOp
    <2>4. Steps(s, p, ops, from, start, off, run, run')
        BY <2>1, <2>2, <2>3
    <2> QED
        BY <2>4 DEF s, p, ops
<1>8. run' \in Machines /\ run'.pc \in 1 .. (N + 1) /\ (run'.failed \/ off[run'.pc] = 1)
    BY <1>7 DEF Steps, Typed
<1>9. ASSUME Miscompiled = {} PROVE Joined(from, start)'
    <2>1. Mistaken(compiled.ops, run) = {}
        BY <1>1, <1>9
    <2>2. Follows(source, partners, from, start, run, run')
        BY <1>7, <2>1 DEF Steps
    <2>3. plain = AsWritten(run, from, start)
        <3>1. Joined(from, start)
            BY <1>2, <1>9 DEF InLayout
        <3> QED
            BY <1>1, <1>2, <3>1, LevelIs
    <2>4. run'.failed \/ \E S : /\ from[start[run'.pc]] \notin S
                                /\ Reaches(source, partners, S, plain, AsWritten(run', from, start))
        BY <2>2, <2>3 DEF Follows
    <2> QED
        BY <1>1, <2>4 DEF Joined, AsWritten
<1>10. InLayout(lk, from, start, off)'
    BY <1>1, <1>4, <1>8, <1>9 DEF InLayout
<1>11. (compiled.ok => \E l, f, b, d : InLayout(l, f, b, d))'
    BY <1>10
<1> QED
    BY <1>1, <1>3, <1>8, <1>11 DEF IInv

\* A character of the plain machine.
LEMMA FollowInv == IInv /\ Follow => IInv'
<1> SUFFICES ASSUME IInv, Follow PROVE IInv'
    OBVIOUS
<1>1. /\ compiled.ok /\ ~CaughtUp /\ ~Halted(source, plain) /\ plain' = Execute(source, partners, plain)
      /\ source' = source /\ partners' = partners /\ compiled' = compiled /\ run' = run
    BY DEF Follow
<1>2. PICK lk, from, start, off : InLayout(lk, from, start, off)
    BY <1>1 DEF IInv
<1>3. /\ source \in Seq(Characters) /\ compiled = CompileBF(source)
      /\ run \in Machines /\ run.pc \in 1 .. (Len(compiled.ops) + 1)
      /\ plain \in Machines /\ plain.pc >= 1
    BY DEF IInv
<1>4. Sound(source, partners, compiled.ops, lk, from, start, off) /\ (run.failed \/ off[run.pc] = 1)
    BY <1>2 DEF InLayout
<1>5. plain' \in Machines /\ plain'.pc >= 1
    <2>1. Runnable(source, partners)
        <3>1. Program(source, partners)
            BY <1>4 DEF Sound
        <3>2. Characters \subseteq PlainInstrs
            BY DEF Characters, PlainInstrs, R, L, P, M, Move, Add, Out, In, Open, Close
        <3> QED
            BY <1>3, <3>1, <3>2 DEF Program, Runnable
    <2>2. Execute(source, partners, plain) \in Machines /\ Execute(source, partners, plain).pc >= 1
        BY <1>1, <1>3, <2>1, PlainTyped
    <2> QED
        BY <1>1, <2>2
<1>6. ASSUME Miscompiled = {}, ~run.failed
      PROVE  \E S : from[start[run.pc]] \notin S /\ Reaches(source, partners, S, plain', AsWritten(run, from, start))
    <2> DEFINE m == AsWritten(run, from, start)
    <2>1. PICK S : from[start[run.pc]] \notin S /\ Reaches(source, partners, S, plain, m)
        BY <1>2, <1>6 DEF InLayout, Joined
    <2>2. m \in Machines /\ m.pc = At(run.pc) /\ ~m.failed
        BY <1>2, AtIs
    <2>3. plain # m
        <3> HIDE DEF m
        <3> QED
            BY <1>1, <1>6, <2>2 DEF CaughtUp
    <2> HIDE DEF m
    <2>4. Reaches(source, partners, S, Execute(source, partners, plain), m)
        BY ONLY <2>1, <2>2, <2>3, ReachUnfold
    <2> QED
        BY <1>1, <2>1, <2>4 DEF m
<1>7. Miscompiled = {} => Joined(from, start)'
    BY <1>1, <1>6 DEF Joined, AsWritten
<1>8. InLayout(lk, from, start, off)'
    BY <1>1, <1>4, <1>7 DEF InLayout
<1>9. (compiled.ok => \E l, f, b, d : InLayout(l, f, b, d))'
    BY <1>8
<1> QED
    BY <1>1, <1>3, <1>5, <1>9 DEF IInv

LEMMA Inductive == Spec => []IInv
<1>1. IInv /\ [Next]_vars => IInv'
    <2> SUFFICES ASSUME IInv, [Next]_vars PROVE IInv'
        OBVIOUS
    <2>1. CASE Interpret
        BY <2>1, InterpretInv
    <2>2. CASE Follow
        BY <2>2, FollowInv
    <2>3. CASE UNCHANGED vars
        BY <2>3 DEF vars, IInv, InLayout, Joined, AsWritten
    <2> QED
        BY <2>1, <2>2, <2>3 DEF Next
<1> QED
    BY InitInv, <1>1, PTL DEF Spec

\* Whatever a program replaces, jumps over or runs into, the interpreter stays in its
\* program, at or one behind its instructions, and both machines' tapes hold bytes.
THEOREM TypeCorrect == Spec => []TypeOK
<1>1. IInv => TypeOK
    <2> SUFFICES ASSUME IInv PROVE TypeOK
        OBVIOUS
    <2>1. /\ source \in Seq(Characters) /\ compiled = CompileBF(source) /\ run \in Machines /\ plain \in Machines
          /\ run.pc \in 1 .. (Len(compiled.ops) + 1)
        BY DEF IInv
    <2>2. compiled.ok \in BOOLEAN
        BY <2>1, CompileLayout
    <2>3. ASSUME NEW m \in {run, plain}
          PROVE  /\ m.tape \in [Cells -> Byte] /\ m.ptr \in Int /\ m.pc \in Nat /\ m.failed \in BOOLEAN
                 /\ m.out \in Seq(Byte) /\ m.in \in Seq(Byte)
        <3>1. m \in Machines
            BY <2>1
        <3> QED
            BY <3>1, MachineIs DEF Tapes
    <2> QED
        BY <2>1, <2>2, <2>3 DEF TypeOK
<1> QED
    BY Inductive, <1>1, PTL

\* As long as no mistaken instruction is run, the interpreter's program is the program as it
\* was written: clears, multiplications, scans, walks and divisions included, for every
\* program, every input, every tape and every modulus.
THEOREM SameMachineAlways ==
    ASSUME Miscompiled = {}
    PROVE  Spec => []SameMachine
<1>1. IInv => SameMachine
    <2> SUFFICES ASSUME IInv, compiled.ok, CaughtUp, ~run.failed
                 PROVE  /\ plain.tape = run.tape /\ plain.ptr = run.ptr
                        /\ plain.out = run.out /\ plain.in = run.in
        BY DEF SameMachine
    <2>1. PICK lk, from, start, off : InLayout(lk, from, start, off)
        BY DEF IInv
    <2>2. Joined(from, start)
        BY <2>1 DEF InLayout
    <2>3. plain = AsWritten(run, from, start)
        BY <2>1, <2>2, LevelIs
    <2> QED
        BY <2>3 DEF AsWritten, Mk
<1> QED
    BY Inductive, <1>1, PTL
=============================================================================
