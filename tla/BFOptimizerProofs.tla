------------------------- MODULE BFOptimizerProofs -------------------------
(***************************************************************************)
(* The Brainfuck optimizer keeps what every program with paired brackets   *)
(* does, for every input, tape size and byte modulus.                      *)
(***************************************************************************)
EXTENDS BFOptimizer, BrainfuckLemmas

-----------------------------------------------------------------------------
(* Outputs that go on from others.                                           *)

\* s is printed before t is: t begins with s.
Upto(s, t) == Len(s) <= Len(t) /\ \A k \in 1 .. Len(s) : s[k] = t[k]

\* What it means for IsPrefix, and for outputs of the same length.
LEMMA UptoIs ==
    ASSUME NEW s \in Seq(Byte), NEW t \in Seq(Byte)
    PROVE  /\ Upto(s, s)
           /\ Upto(s, t) => IsPrefix(s, t)
           /\ Upto(s, t) /\ Len(t) <= Len(s) => s = t
<1>1. Len(s) \in Nat /\ Len(t) \in Nat /\ DOMAIN s = 1 .. Len(s) /\ DOMAIN t = 1 .. Len(t)
    OBVIOUS
<1>2. Upto(s, s)
    BY <1>1 DEF Upto
<1>3. ASSUME Upto(s, t) PROVE IsPrefix(s, t)
    <2>1. SubSeq(s, 1, Len(s)) = [k \in 1 .. Len(s) |-> s[k]]
        BY <1>1
    <2>2. SubSeq(t, 1, Len(s)) = [k \in 1 .. Len(s) |-> t[k]]
        BY <1>1, <1>3 DEF Upto
    <2> QED
        BY <1>3, <2>1, <2>2 DEF Upto, IsPrefix
<1>4. ASSUME Upto(s, t), Len(t) <= Len(s) PROVE s = t
    BY <1>1, <1>4 DEF Upto
<1> QED
    BY <1>2, <1>3, <1>4

LEMMA UptoTrans ==
    ASSUME NEW s \in Seq(Byte), NEW t \in Seq(Byte), NEW u \in Seq(Byte), Upto(s, t), Upto(t, u)
    PROVE  Upto(s, u)
BY DEF Upto

LEMMA UptoAppend ==
    ASSUME NEW s \in Seq(Byte), NEW b \in Byte
    PROVE  Append(s, b) \in Seq(Byte) /\ Upto(s, Append(s, b)) /\ Len(Append(s, b)) = Len(s) + 1
BY DEF Upto

-----------------------------------------------------------------------------
(* What a machine does that passes over idle tokens.                         *)

\* What a pass reads or makes: tokens of any argument.
Toks == [op : {"move", "add", "out", "in", "open", "close", "note"}, arg : Int]

\* A program with its brackets in pairs.
Prog(c) == c \in Seq(Toks) /\ Balanced(c)

\* One step of a program that still has idle tokens: those it passes over.
Do(c, m) == IF Idle(c[m.pc]) THEN Pass(m, m.pc + 1) ELSE Execute(c, Partners(c), m)

\* The machines that stand somewhere in a program, or behind it.
Within(c) == {m \in Machines : m.pc \in 1 .. (Len(c) + 1)}

IsBracket(t) == t.op \in {"open", "close"}

LEMMA PassIs ==
    ASSUME NEW m \in Machines, NEW i \in Nat
    PROVE  /\ Pass(m, i) \in Machines /\ Pass(m, i).pc = i /\ Pass(m, i).failed = m.failed
           /\ Pass(m, i).tape = m.tape /\ Pass(m, i).ptr = m.ptr
           /\ Pass(m, i).out = m.out /\ Pass(m, i).in = m.in
           /\ \A j : Pass(Pass(m, i), j) = Pass(m, j)
           /\ Pass(m, m.pc) = m
BY DEF Pass, Machines

LEMMA PassOf ==
    ASSUME NEW m \in Machines, ~m.failed, NEW i
    PROVE  Pass(m, i) = Mk(m.tape, m.ptr, i, m.out, m.in)
<1> DEFINE t == m.tape
           q == m.ptr
           c == m.pc
           o == m.out
           n == m.in
<1>1. m = Mk(t, q, c, o, n)
    BY MachineIs
<1> HIDE DEF t, q, c, o, n
<1>2. Pass(m, i) = Mk(t, q, i, o, n)
    BY ONLY <1>1, PassMk
<1> QED
    BY <1>2 DEF t, q, o, n

LEMMA FailPass ==
    ASSUME NEW m \in Machines, NEW i \in Nat
    PROVE  /\ Fail(Pass(m, i)) \in Machines /\ Fail(Pass(m, i)).failed /\ Fail(Pass(m, i)).pc = i
           /\ Fail(Pass(m, i)).out = m.out
           /\ \A j : Pass(Fail(Pass(m, i)), j) = Fail(Pass(m, j))
BY DEF Pass, Fail, Machines

\* A token that is no bracket does the same wherever it stands: it leaves r, and goes on
\* behind it, or the machine dies.
Effect(t, x, r) ==
    /\ r \in Machines /\ Upto(x.out, r.out) /\ Len(r.out) <= Len(x.out) + 1
    /\ r.failed => r = Fail(x)
    /\ \A c : \A i \in Nat :
            c[i] = t => Do(c, Pass(x, i)) = IF r.failed THEN Fail(Pass(x, i)) ELSE Pass(r, i + 1)

\* It leaves a tape, a pointer, an output and an input, wherever it stands.
Leaves(tok, x, t, q, o, n) ==
    \A c : \A i \in Nat :
        c[i] = tok => Execute(c, Partners(c), Mk(x.tape, x.ptr, i, x.out, x.in)) = Mk(t, q, i + 1, o, n)

\* A token that leaves something has an effect.
LEMMA EffectMk ==
    ASSUME NEW x \in Machines, NEW tok, ~Idle(tok), ~x.failed,
           NEW t \in Tapes, NEW q \in Int, NEW o \in Seq(Byte), NEW n \in Seq(Byte),
           Upto(x.out, o), Len(o) <= Len(x.out) + 1, Leaves(tok, x, t, q, o, n)
    PROVE  \E r : Effect(tok, x, r)
<1> DEFINE r == Mk(t, q, x.pc, o, n)
<1>1. r \in Machines /\ r.out = o /\ ~r.failed
    <2>1. x.pc \in Nat
        BY MachineIs
    <2> QED
        BY <2>1, MkIs
<1>2. ASSUME NEW i PROVE Pass(r, i) = Mk(t, q, i, o, n)
    BY PassMk
<1> HIDE DEF r
<1>3. ASSUME NEW c, NEW i \in Nat, c[i] = tok PROVE Do(c, Pass(x, i)) = Pass(r, i + 1)
    <2>1. Pass(x, i) = Mk(x.tape, x.ptr, i, x.out, x.in) /\ Pass(x, i).pc = i
        BY PassIs, PassOf
    <2>2. Do(c, Pass(x, i)) = Execute(c, Partners(c), Pass(x, i))
        BY ONLY <1>3, <2>1, ~Idle(tok) DEF Do
    <2>3. Execute(c, Partners(c), Mk(x.tape, x.ptr, i, x.out, x.in)) = Mk(t, q, i + 1, o, n)
        BY <1>3 DEF Leaves
    <2> QED
        BY <1>2, <2>1, <2>2, <2>3
<1>4. Effect(tok, x, r)
    BY <1>1, <1>3 DEF Effect
<1> QED
    BY <1>4

\* Every token but a bracket has an effect.
LEMMA HasEffect ==
    ASSUME NEW x \in Machines, ~x.failed, NEW tok \in Toks, ~IsBracket(tok)
    PROVE  \E r : Effect(tok, x, r)
<1> DEFINE t == x.tape
           q == x.ptr
           o == x.out
           n == x.in
<1>1. t \in Tapes /\ q \in Int /\ o \in Seq(Byte) /\ n \in Seq(Byte) /\ x.pc \in Nat
    BY MachineIs
<1>2. tok.op \in {"move", "add", "out", "in", "note"} /\ tok.arg \in Int
    BY DEF Toks, IsBracket
<1>3. CASE Idle(tok)
    <2>1. ASSUME NEW c, NEW i \in Nat, c[i] = tok PROVE Do(c, Pass(x, i)) = Pass(x, i + 1)
        <3>1. Pass(x, i).pc = i /\ Pass(Pass(x, i), i + 1) = Pass(x, i + 1)
            BY PassIs
        <3> QED
            BY ONLY <1>3, <2>1, <3>1 DEF Do
    <2>2. Upto(x.out, x.out) /\ Len(x.out) <= Len(x.out) + 1
        BY <1>1, UptoIs
    <2>3. Effect(tok, x, x)
        BY <2>1, <2>2 DEF Effect
    <2> QED
        BY <2>3
<1>4. CASE ~Idle(tok) /\ tok.op = "move"
    <2>1. Leaves(tok, x, t, q + tok.arg, o, n)
        BY <1>4, DoMove DEF Leaves
    <2>2. Upto(o, o) /\ Len(o) <= Len(o) + 1 /\ q + tok.arg \in Int
        BY <1>1, <1>2, UptoIs
    <2> QED
        BY <1>1, <1>4, <2>1, <2>2, EffectMk
<1>5. CASE ~Idle(tok) /\ tok.op # "move" /\ q \notin Cells
    <2>1. ASSUME NEW c, NEW i \in Nat, c[i] = tok PROVE Do(c, Pass(x, i)) = Fail(Pass(x, i))
        <3>1. Pass(x, i) = Mk(t, q, i, o, n) /\ Pass(x, i).pc = i
            BY PassIs, PassOf
        <3>2. Do(c, Pass(x, i)) = Execute(c, Partners(c), Pass(x, i))
            BY ONLY <1>5, <2>1, <3>1 DEF Do
        <3>3. Execute(c, Partners(c), Mk(t, q, i, o, n)) = Fail(Mk(t, q, i, o, n))
            BY <1>5, <2>1, DoFails
        <3> QED
            BY ONLY <3>1, <3>2, <3>3
    <2>2. Fail(x) \in Machines /\ Fail(x).failed /\ Fail(x).out = o
        BY FailIs DEF Fail, Machines
    <2>3. Upto(o, o) /\ Len(o) <= Len(o) + 1
        BY <1>1, UptoIs
    <2>4. Effect(tok, x, Fail(x))
        BY <2>1, <2>2, <2>3 DEF Effect
    <2> QED
        BY <2>4
<1>6. CASE ~Idle(tok) /\ tok.op = "add" /\ q \in Cells
    <2> DEFINE u == Put(t, q, (t[q] + tok.arg) % Mod)
    <2>1. Leaves(tok, x, u, q, o, n)
        BY <1>6, DoAdd DEF Leaves
    <2>2. u \in Tapes
        <3>1. t[q] + tok.arg \in Int
            BY <1>1, <1>2, <1>6, CellByte
        <3> QED
            BY <1>1, <1>6, <3>1, ModByte, PutIs
    <2>3. Upto(o, o) /\ Len(o) <= Len(o) + 1
        BY <1>1, UptoIs
    <2> HIDE DEF u
    <2> QED
        BY <1>1, <1>6, <2>1, <2>2, <2>3, EffectMk
<1>7. CASE ~Idle(tok) /\ tok.op = "out" /\ q \in Cells
    <2> DEFINE p == Append(o, t[q])
    <2>1. Leaves(tok, x, t, q, p, n)
        BY <1>7, DoOut DEF Leaves
    <2>2. p \in Seq(Byte) /\ Upto(o, p) /\ Len(p) <= Len(o) + 1
        <3>1. t[q] \in Byte
            BY <1>1, <1>7, CellByte
        <3>2. p \in Seq(Byte) /\ Upto(o, p) /\ Len(p) = Len(o) + 1
            BY <1>1, <3>1, UptoAppend
        <3> HIDE DEF p
        <3> QED
            BY <1>1, <3>2
    <2> HIDE DEF p
    <2> QED
        BY <1>1, <1>7, <2>1, <2>2, EffectMk
<1>8. CASE ~Idle(tok) /\ tok.op = "in" /\ q \in Cells
    <2>1. Leaves(tok, x, ReadTape(t, q, n), q, o, ReadRest(n))
        BY <1>1, <1>8, DoRead DEF Leaves
    <2>2. ReadTape(t, q, n) \in Tapes /\ ReadRest(n) \in Seq(Byte)
        <3> DEFINE c == [k \in {1} |-> tok]
        <3>1. c[1] = tok
            OBVIOUS
        <3> HIDE DEF c
        <3>2. c[1].op = "in"
            BY <1>8, <3>1
        <3> QED
            BY <1>1, <1>8, <3>2, DoRead
    <2>3. Upto(o, o) /\ Len(o) <= Len(o) + 1
        BY <1>1, UptoIs
    <2> QED
        BY <1>1, <1>8, <2>1, <2>2, <2>3, EffectMk
<1>9. tok.op = "note" => Idle(tok)
    BY DEF Idle, IsNote
<1> QED
    BY <1>2, <1>3, <1>4, <1>5, <1>6, <1>7, <1>8, <1>9

\* A bracket leads behind itself or behind the bracket that belongs to it.
Paired(c, i, e) == Closes(c, i, e) \/ Closes(c, e, i)

\* Behind which of its two brackets that is.
Landing(tok, i, e, x) == IF tok.op = "open" THEN IF x.tape[x.ptr] = 0 THEN e ELSE i
                         ELSE IF x.tape[x.ptr] = 0 THEN i ELSE e

LEMMA ProgIs ==
    ASSUME NEW c, Prog(c)
    PROVE  /\ c \in Seq(Toks) /\ Balanced(c) /\ Len(c) \in Nat /\ DOMAIN c = 1 .. Len(c)
           /\ \A i \in 1 .. Len(c) : c[i] \in Toks
BY DEF Prog

\* Every bracket has a partner,
LEMMA HasPair ==
    ASSUME NEW c, Prog(c), NEW i \in 1 .. Len(c), IsBracket(c[i])
    PROVE  \E e \in 1 .. Len(c) : Paired(c, i, e)
<1>1. Balanced(c) /\ Len(c) \in Nat /\ DOMAIN c = 1 .. Len(c)
    BY ProgIs
<1>2. CASE c[i].op = "open"
    <2>1. i \in Brackets(c, "open")
        BY <1>1, <1>2 DEF Brackets
    <2>2. PICK e \in Brackets(c, "close") : Closes(c, i, e)
        BY <1>1, <2>1, OpenIsClosed
    <2> QED
        BY <1>1, <2>2 DEF Paired, Brackets
<1>3. CASE c[i].op = "close"
    <2>1. i \in Brackets(c, "close")
        BY <1>1, <1>3 DEF Brackets
    <2>2. PICK e \in Brackets(c, "open") : Closes(c, e, i)
        BY <1>1, <2>1, CloseIsOpened
    <2> QED
        BY <1>1, <2>2 DEF Paired, Brackets
<1> QED
    BY <1>2, <1>3 DEF IsBracket

\* Where a bracket on the tape leads, by the table of brackets.
Goes(c, links, i, t, q, o, n) ==
    /\ c[i].op = "open" /\ t[q] = 0 => Execute(c, links, Mk(t, q, i, o, n)) = Mk(t, q, links[i] + 1, o, n)
    /\ c[i].op = "open" /\ t[q] # 0 => Execute(c, links, Mk(t, q, i, o, n)) = Mk(t, q, i + 1, o, n)
    /\ c[i].op = "close" /\ t[q] = 0 => Execute(c, links, Mk(t, q, i, o, n)) = Mk(t, q, i + 1, o, n)
    /\ c[i].op = "close" /\ t[q] # 0 => Execute(c, links, Mk(t, q, i, o, n)) = Mk(t, q, links[i] + 1, o, n)

LEMMA BracketGoes ==
    ASSUME NEW c, NEW links, NEW i, NEW t, NEW q \in Cells, NEW o, NEW n
    PROVE  Goes(c, links, i, t, q, o, n)
<1> DEFINE m == Mk(t, q, i, o, n)
<1>1. m.pc = i /\ OnTape(m) /\ Current(m) = t[q]
    BY DEF Mk, OnTape, Current
<1>2. Pass(m, i + 1) = Mk(t, q, i + 1, o, n) /\ Pass(m, links[i] + 1) = Mk(t, q, links[i] + 1, o, n)
    BY PassMk
<1> HIDE DEF m
<1>3. ASSUME c[i].op = "open" PROVE Execute(c, links, m) = IF t[q] = 0 THEN Pass(m, links[i] + 1) ELSE Pass(m, i + 1)
    BY ONLY <1>1, <1>3 DEF Execute, Pass
<1>4. ASSUME c[i].op = "close" PROVE Execute(c, links, m) = IF t[q] = 0 THEN Pass(m, i + 1) ELSE Pass(m, links[i] + 1)
    BY ONLY <1>1, <1>4 DEF Execute, Pass
<1>5. /\ c[i].op = "open" /\ t[q] = 0 => Execute(c, links, m) = Mk(t, q, links[i] + 1, o, n)
      /\ c[i].op = "open" /\ t[q] # 0 => Execute(c, links, m) = Mk(t, q, i + 1, o, n)
      /\ c[i].op = "close" /\ t[q] = 0 => Execute(c, links, m) = Mk(t, q, i + 1, o, n)
      /\ c[i].op = "close" /\ t[q] # 0 => Execute(c, links, m) = Mk(t, q, links[i] + 1, o, n)
    BY ONLY <1>2, <1>3, <1>4
<1> QED
    BY ONLY <1>5 DEF Goes, m

\* What a machine does at a bracket that belongs to the one at e.
BracketMoves(c, i, e, x) ==
    Do(c, Pass(x, i)) = IF x.ptr \notin Cells THEN Fail(Pass(x, i)) ELSE Pass(x, Landing(c[i], i, e, x) + 1)

\* and leads behind one of the two.
LEMMA BracketDoes ==
    ASSUME NEW c, Prog(c), NEW i \in 1 .. Len(c), IsBracket(c[i]), NEW e \in 1 .. Len(c), Paired(c, i, e),
           NEW x \in Machines, ~x.failed
    PROVE  BracketMoves(c, i, e, x)
<1> DEFINE t == x.tape
           q == x.ptr
           o == x.out
           n == x.in
           p == Partners(c)
           k == Landing(c[i], i, e, x)
<1>1. p[i] = e
    <2>1. Balanced(c) /\ Len(c) \in Nat /\ DOMAIN c = 1 .. Len(c)
        BY ProgIs
    <2>2. CASE Closes(c, i, e)
        BY <2>1, <2>2, PartnersClose
    <2>3. CASE Closes(c, e, i)
        BY <2>1, <2>3, PartnersClose
    <2> QED
        BY <2>2, <2>3 DEF Paired
<1>2. ~Idle(c[i])
    BY DEF IsBracket, Idle, IsNote, IsRun
<1>3. Pass(x, i) = Mk(t, q, i, o, n) /\ Pass(x, i).pc = i
    BY PassIs, PassOf
<1> HIDE DEF p
<1>4. Do(c, Pass(x, i)) = Execute(c, p, Mk(t, q, i, o, n))
    BY <1>2, <1>3 DEF Do, p
<1>5. CASE q \notin Cells
    <2>1. Execute(c, p, Mk(t, q, i, o, n)) = Fail(Mk(t, q, i, o, n))
        BY <1>5, DoFails DEF IsBracket
    <2> QED
        BY <1>3, <1>4, <1>5, <2>1 DEF BracketMoves
<1>6. CASE q \in Cells
    <2>1. /\ c[i].op = "open" => k = (IF t[q] = 0 THEN p[i] ELSE i)
          /\ c[i].op # "open" => k = (IF t[q] = 0 THEN i ELSE p[i])
        BY <1>1 DEF Landing
    <2>2. Pass(x, k + 1) = Mk(t, q, k + 1, o, n)
        BY PassOf
    <2> HIDE DEF k, t, q, o, n
    <2>3. Execute(c, p, Mk(t, q, i, o, n)) = Mk(t, q, k + 1, o, n)
        <3>1. Goes(c, p, i, t, q, o, n)
            BY ONLY <1>6, BracketGoes
        <3>2. c[i].op = "open" \/ c[i].op = "close"
            BY DEF IsBracket
        <3> QED
            BY ONLY <2>1, <3>1, <3>2 DEF Goes
    <2>4. Do(c, Pass(x, i)) = Pass(x, k + 1)
        BY <1>4, <2>2, <2>3
    <2> QED
        BY <1>6, <2>4 DEF BracketMoves, k, q
<1> QED
    BY <1>5, <1>6

\* A step stays in the program, and prints at most one byte; none when the machine dies.
StepIs(c, x, y) ==
    /\ y \in Within(c) /\ Upto(x.out, y.out) /\ Len(y.out) <= Len(x.out) + 1
    /\ y.failed => y.out = x.out

\* Every step is one.
LEMMA DoIs ==
    ASSUME NEW c, Prog(c), NEW x \in Within(c), ~Halted(c, x)
    PROVE  StepIs(c, x, Do(c, x))
<1> DEFINE i == x.pc
           y == Do(c, x)
<1>1. x \in Machines /\ i \in 1 .. Len(c) /\ i \in Nat /\ ~x.failed /\ Len(c) \in Nat
    BY ProgIs DEF Within, Halted, Machines
<1>2. Pass(x, i) = x /\ x.out \in Seq(Byte)
    BY <1>1, PassIs, MachineIs
<1>3. c[i] \in Toks
    BY <1>1, ProgIs
<1>4. Fail(x) \in Machines /\ Fail(x).failed /\ Fail(x).pc = i /\ Fail(x).out = x.out
    BY <1>1, FailIs DEF Fail, Machines
<1>5. Upto(x.out, x.out) /\ Len(x.out) <= Len(x.out) + 1
    BY <1>2, UptoIs
<1>6. CASE y = Fail(x)
    <2>1. Fail(x) \in Within(c)
        BY <1>1, <1>4 DEF Within
    <2> QED
        BY <1>4, <1>5, <1>6, <2>1 DEF StepIs
<1>7. ASSUME NEW r \in Machines, NEW k \in 1 .. Len(c), y = Pass(r, k + 1), ~r.failed,
             Upto(x.out, r.out), Len(r.out) <= Len(x.out) + 1
      PROVE  StepIs(c, x, y)
    <2>1. k + 1 \in Nat /\ k + 1 \in 1 .. (Len(c) + 1)
        BY <1>1
    <2>2. y \in Machines /\ y.pc = k + 1 /\ ~y.failed /\ y.out = r.out
        BY <1>7, <2>1, PassIs
    <2> HIDE DEF y
    <2> QED
        BY <1>7, <2>1, <2>2 DEF StepIs, Within
<1> HIDE DEF i, y
<1>8. CASE IsBracket(c[i])
    <2>1. PICK e \in 1 .. Len(c) : Paired(c, i, e)
        BY <1>1, <1>8, HasPair
    <2>2. BracketMoves(c, i, e, x)
        BY <1>1, <1>8, <2>1, BracketDoes
    <2>3. y = IF x.ptr \notin Cells THEN Fail(x) ELSE Pass(x, Landing(c[i], i, e, x) + 1)
        BY <1>2, <2>2 DEF BracketMoves, i, y
    <2>4. Landing(c[i], i, e, x) \in 1 .. Len(c)
        BY <1>1, <2>1 DEF Landing
    <2> QED
        BY <1>1, <1>5, <1>6, <1>7, <2>3, <2>4 DEF y
<1>9. CASE ~IsBracket(c[i])
    <2>1. PICK r : Effect(c[i], x, r)
        BY <1>1, <1>3, <1>9, HasEffect
    <2>2. y = IF r.failed THEN Fail(x) ELSE Pass(r, i + 1)
        BY <1>1, <1>2, <2>1 DEF Effect, i, y
    <2>3. r \in Machines /\ Upto(x.out, r.out) /\ Len(r.out) <= Len(x.out) + 1
        BY <2>1 DEF Effect
    <2> QED
        BY <1>1, <1>6, <1>7, <2>2, <2>3 DEF y
<1> QED
    BY <1>8, <1>9 DEF y

-----------------------------------------------------------------------------
(* Where a machine gets to.                                                  *)

\* A set of machines that holds where its own machines go.
Closed(c, S) == S \subseteq Within(c) /\ \A x \in S : ~Halted(c, x) => Do(c, x) \in S

\* From m, program c comes to w, in some number of steps.
Reach(c, m, w) == \A S : m \in S /\ Closed(c, S) => w \in S

LEMMA WithinClosed ==
    ASSUME NEW c, Prog(c)
    PROVE  Closed(c, Within(c))
<1>1. ASSUME NEW x \in Within(c), ~Halted(c, x) PROVE Do(c, x) \in Within(c)
    BY <1>1, DoIs DEF StepIs
<1> QED
    BY ONLY <1>1 DEF Closed

\* A machine does not leave its program.
LEMMA ReachIn ==
    ASSUME NEW c, Prog(c), NEW m \in Within(c), NEW w, Reach(c, m, w)
    PROVE  w \in Within(c)
<1>1. Closed(c, Within(c))
    BY WithinClosed
<1> QED
    BY ONLY m \in Within(c), Reach(c, m, w), <1>1 DEF Reach

LEMMA ReachSelf ==
    ASSUME NEW c, NEW m
    PROVE  Reach(c, m, m)
BY ONLY DEF Reach

\* It comes to its next step,
LEMMA ReachOn ==
    ASSUME NEW c, NEW m, NEW w, Reach(c, m, w), ~Halted(c, w)
    PROVE  Reach(c, m, Do(c, w))
<1>1. ASSUME NEW S, m \in S, Closed(c, S) PROVE Do(c, w) \in S
    <2>1. w \in S
        BY ONLY <1>1, Reach(c, m, w) DEF Reach
    <2> QED
        BY ONLY <1>1, <2>1, ~Halted(c, w) DEF Closed
<1> QED
    BY ONLY <1>1 DEF Reach

\* and from there to where that leads.
LEMMA ReachTrans ==
    ASSUME NEW c, NEW m, NEW w, NEW z, Reach(c, m, w), Reach(c, w, z)
    PROVE  Reach(c, m, z)
<1>1. ASSUME NEW S, m \in S, Closed(c, S) PROVE z \in S
    <2>1. w \in S
        BY ONLY <1>1, Reach(c, m, w) DEF Reach
    <2> QED
        BY ONLY <1>1, <2>1, Reach(c, w, z) DEF Reach
<1> QED
    BY ONLY <1>1 DEF Reach

\* A machine that gets somewhere is there, or gets there from its next step.
LEMMA ReachFirst ==
    ASSUME NEW c, Prog(c), NEW m \in Within(c), NEW w, Reach(c, m, w), w # m
    PROVE  ~Halted(c, m) /\ Reach(c, Do(c, m), w)
<1> DEFINE S == {x \in Within(c) : x = m \/ (~Halted(c, m) /\ Reach(c, Do(c, m), x))}
<1>1. m \in S
    OBVIOUS
<1>2. ASSUME NEW x \in S, ~Halted(c, x) PROVE Do(c, x) \in S
    <2>1. Do(c, x) \in Within(c)
        BY <1>2, DoIs DEF StepIs
    <2>2. CASE x = m
        <3>1. Reach(c, Do(c, m), Do(c, x))
            BY <2>2, ReachSelf
        <3> QED
            BY <1>2, <2>1, <2>2, <3>1
    <2>3. CASE x # m
        <3>1. ~Halted(c, m) /\ Reach(c, Do(c, m), x)
            BY <2>3
        <3>2. Reach(c, Do(c, m), Do(c, x))
            BY ONLY <1>2, <3>1, ReachOn
        <3> QED
            BY <2>1, <3>1, <3>2
    <2> QED
        BY <2>2, <2>3
<1>3. S \subseteq Within(c)
    OBVIOUS
<1>4. w \in S => ~Halted(c, m) /\ Reach(c, Do(c, m), w)
    OBVIOUS
<1> HIDE DEF S
<1>5. Closed(c, S)
    BY ONLY <1>2, <1>3 DEF Closed
<1>6. w \in S
    BY ONLY <1>1, <1>5, Reach(c, m, w) DEF Reach
<1> QED
    BY ONLY <1>4, <1>6

\* A machine that has halted goes nowhere.
LEMMA ReachHalted ==
    ASSUME NEW c, Prog(c), NEW m \in Within(c), NEW w, Reach(c, m, w), Halted(c, m)
    PROVE  w = m
BY ReachFirst

\* Of two places a machine gets to, it gets to one on its way to the other.
LEMMA ReachLinear ==
    ASSUME NEW c, Prog(c), NEW m \in Within(c), NEW w, NEW z, Reach(c, m, w), Reach(c, m, z)
    PROVE  Reach(c, w, z) \/ Reach(c, z, w)
<1> DEFINE S == {x \in Within(c) : Reach(c, x, z) \/ Reach(c, z, x)}
<1>1. m \in S
    OBVIOUS
<1>2. ASSUME NEW x \in S, ~Halted(c, x) PROVE Do(c, x) \in S
    <2>1. Do(c, x) \in Within(c)
        BY <1>2, DoIs DEF StepIs
    <2>2. CASE Reach(c, x, z) /\ x # z
        <3>1. Reach(c, Do(c, x), z)
            BY <2>2, ReachFirst
        <3> QED
            BY <2>1, <3>1
    <2>3. CASE Reach(c, z, x) \/ x = z
        <3>1. Reach(c, z, x)
            BY <2>3, ReachSelf
        <3>2. Reach(c, z, Do(c, x))
            BY ONLY <1>2, <3>1, ReachOn
        <3> QED
            BY <2>1, <3>2
    <2> QED
        BY <2>2, <2>3
<1>3. S \subseteq Within(c)
    OBVIOUS
<1>4. w \in S => Reach(c, w, z) \/ Reach(c, z, w)
    OBVIOUS
<1> HIDE DEF S
<1>5. Closed(c, S)
    BY ONLY <1>2, <1>3 DEF Closed
<1>6. w \in S
    BY ONLY <1>1, <1>5, Reach(c, m, w) DEF Reach
<1> QED
    BY ONLY <1>4, <1>6

\* What is printed stays printed.
LEMMA ReachPrints ==
    ASSUME NEW c, Prog(c), NEW m \in Within(c), NEW w, Reach(c, m, w)
    PROVE  Upto(m.out, w.out)
<1> DEFINE S == {x \in Within(c) : Upto(m.out, x.out)}
<1>a. \A x \in Within(c) : x.out \in Seq(Byte)
    BY MachineIs DEF Within
<1>1. m \in S
    BY <1>a, UptoIs
<1>2. ASSUME NEW x \in S, ~Halted(c, x) PROVE Do(c, x) \in S
    <2>1. Do(c, x) \in Within(c) /\ Upto(x.out, Do(c, x).out)
        BY <1>2, DoIs DEF StepIs
    <2>2. m.out \in Seq(Byte) /\ x.out \in Seq(Byte) /\ Do(c, x).out \in Seq(Byte) /\ Upto(m.out, x.out)
        BY <1>a, <2>1
    <2>3. Upto(m.out, Do(c, x).out)
        BY ONLY <2>1, <2>2, UptoTrans
    <2> QED
        BY <2>1, <2>3
<1>3. S \subseteq Within(c)
    OBVIOUS
<1>4. w \in S => Upto(m.out, w.out)
    OBVIOUS
<1> HIDE DEF S
<1>5. Closed(c, S)
    BY ONLY <1>2, <1>3 DEF Closed
<1>6. w \in S
    BY ONLY <1>1, <1>5, Reach(c, m, w) DEF Reach
<1> QED
    BY ONLY <1>4, <1>6

\* A machine gets to w, or dies on its way.
Dies(c, m, w) == \E f : Reach(c, m, f) /\ f.failed /\ Upto(f.out, w.out)

Gets(c, m, w) == Reach(c, m, w) \/ Dies(c, m, w)

LEMMA GetsSelf ==
    ASSUME NEW c, NEW m
    PROVE  Gets(c, m, m)
BY ReachSelf DEF Gets

LEMMA GetsOn ==
    ASSUME NEW c, NEW m, ~Halted(c, m)
    PROVE  Gets(c, m, Do(c, m))
<1>1. Reach(c, m, Do(c, m))
    BY ReachSelf, ReachOn
<1> QED
    BY ONLY <1>1 DEF Gets

\* The same of getting there, where nothing printed is taken back.
LEMMA GetsTrans ==
    ASSUME NEW c, Prog(c), NEW m \in Within(c), NEW w \in Machines, NEW z \in Machines,
           Gets(c, m, w), Gets(c, w, z), Upto(w.out, z.out)
    PROVE  Gets(c, m, z)
<1>a. w.out \in Seq(Byte) /\ z.out \in Seq(Byte)
    BY MachineIs
<1>1. CASE Reach(c, m, w)
    <2>1. CASE Reach(c, w, z)
        <3>1. Reach(c, m, z)
            BY ONLY <1>1, <2>1, ReachTrans
        <3> QED
            BY ONLY <3>1 DEF Gets
    <2>2. CASE Dies(c, w, z)
        <3>1. PICK f : Reach(c, w, f) /\ f.failed /\ Upto(f.out, z.out)
            BY ONLY <2>2 DEF Dies
        <3>2. Reach(c, m, f)
            BY ONLY <1>1, <3>1, ReachTrans
        <3> QED
            BY ONLY <3>1, <3>2 DEF Gets, Dies
    <2> QED
        BY <2>1, <2>2 DEF Gets
<1>2. CASE Dies(c, m, w)
    <2>1. PICK f : Reach(c, m, f) /\ f.failed /\ Upto(f.out, w.out)
        BY ONLY <1>2 DEF Dies
    <2>2. f.out \in Seq(Byte)
        <3>1. f \in Within(c)
            BY <2>1, ReachIn
        <3> QED
            BY <3>1, MachineIs DEF Within
    <2>3. Upto(f.out, z.out)
        BY ONLY <1>a, <2>1, <2>2, Upto(w.out, z.out), UptoTrans
    <2> QED
        BY ONLY <2>1, <2>3 DEF Gets, Dies
<1> QED
    BY <1>1, <1>2 DEF Gets

-----------------------------------------------------------------------------
(* One program does what another does.                                       *)

\* Before a machine has run, and with every step that it takes in Q, it gets as far
\* in P: a place j of Q stands for the place at[j] of P.
Starts(P, Q, at) == \A d \in Machines : ~d.failed => Gets(P, Pass(d, 1), Pass(d, at[1]))

Follows(P, Q, at) ==
    \A x \in Within(Q) :
        ~Halted(Q, x) => Gets(P, Pass(x, at[x.pc]), Pass(Do(Q, x), at[Do(Q, x).pc]))

\* `at' puts the whole of Q into P, its end to the end of P.
Simulates(P, Q, at) ==
    /\ at \in [1 .. (Len(Q) + 1) -> 1 .. (Len(P) + 1)] /\ at[Len(Q) + 1] = Len(P) + 1
    /\ Starts(P, Q, at) /\ Follows(P, Q, at)

\* The programs that do what P does.
Does(P, Q) == Prog(Q) /\ \E at : Simulates(P, Q, at)

LEMMA PlaceIs ==
    ASSUME NEW P, Prog(P), NEW Q, Prog(Q), NEW at \in [1 .. (Len(Q) + 1) -> 1 .. (Len(P) + 1)], NEW x \in Within(Q)
    PROVE  /\ x \in Machines /\ x.pc \in 1 .. (Len(Q) + 1) /\ x.out \in Seq(Byte)
           /\ at[x.pc] \in Nat
           /\ Pass(x, at[x.pc]) \in Within(P) /\ Pass(x, at[x.pc]) \in Machines
           /\ Pass(x, at[x.pc]).out = x.out /\ Pass(x, at[x.pc]).failed = x.failed
<1>1. x \in Machines /\ x.pc \in 1 .. (Len(Q) + 1)
    BY DEF Within
<1>2. at[x.pc] \in Nat /\ at[x.pc] \in 1 .. (Len(P) + 1)
    BY <1>1, ProgIs
<1>3. /\ Pass(x, at[x.pc]) \in Machines /\ Pass(x, at[x.pc]).pc = at[x.pc]
      /\ Pass(x, at[x.pc]).out = x.out /\ Pass(x, at[x.pc]).failed = x.failed
    BY <1>1, <1>2, PassIs
<1>4. x.out \in Seq(Byte)
    BY <1>1, MachineIs
<1> QED
    BY <1>1, <1>2, <1>3, <1>4 DEF Within

\* Where Q comes to in any number of steps, P comes to the place of.
LEMMA FollowsReach ==
    ASSUME NEW P, Prog(P), NEW Q, Prog(Q), NEW at, Simulates(P, Q, at),
           NEW x \in Within(Q), NEW y, Reach(Q, x, y)
    PROVE  Gets(P, Pass(x, at[x.pc]), Pass(y, at[y.pc]))
<1> DEFINE V(u) == Pass(u, at[u.pc])
           S == {u \in Within(Q) : Gets(P, V(x), V(u))}
<1>a. at \in [1 .. (Len(Q) + 1) -> 1 .. (Len(P) + 1)] /\ Follows(P, Q, at)
    BY DEF Simulates
<1>b. \A u \in Within(Q) : /\ V(u) \in Within(P) /\ V(u) \in Machines /\ V(u).out = u.out
                           /\ u.out \in Seq(Byte)
    BY <1>a, PlaceIs
<1>c. \A u \in Within(Q) : ~Halted(Q, u) => Gets(P, V(u), V(Do(Q, u)))
    BY <1>a DEF Follows
<1> HIDE DEF V
<1>1. x \in S
    BY GetsSelf
<1>2. ASSUME NEW u \in S, ~Halted(Q, u) PROVE Do(Q, u) \in S
    <2>1. u \in Within(Q) /\ Gets(P, V(x), V(u))
        OBVIOUS
    <2>2. Do(Q, u) \in Within(Q) /\ Upto(u.out, Do(Q, u).out)
        BY <1>2, <2>1, DoIs DEF StepIs
    <2>3. Gets(P, V(u), V(Do(Q, u)))
        BY <1>c, <1>2, <2>1
    <2>4. Upto(V(u).out, V(Do(Q, u)).out)
        BY <1>b, <2>1, <2>2
    <2>5. V(x) \in Within(P) /\ V(u) \in Machines /\ V(Do(Q, u)) \in Machines
        BY <1>b, <2>1, <2>2
    <2>6. Gets(P, V(x), V(Do(Q, u)))
        BY ONLY Prog(P), <2>1, <2>3, <2>4, <2>5, GetsTrans
    <2> QED
        BY <2>2, <2>6
<1>3. S \subseteq Within(Q)
    OBVIOUS
<1>4. y \in S => Gets(P, V(x), V(y))
    OBVIOUS
<1> HIDE DEF S
<1>5. Closed(Q, S)
    BY ONLY <1>2, <1>3 DEF Closed
<1>6. y \in S
    BY ONLY <1>1, <1>5, Reach(Q, x, y) DEF Reach
<1> QED
    BY ONLY <1>4, <1>6 DEF V

\* The same when Q may die on its way.
LEMMA FollowsGets ==
    ASSUME NEW P, Prog(P), NEW Q, Prog(Q), NEW at, Simulates(P, Q, at),
           NEW x \in Within(Q), NEW y \in Within(Q), Gets(Q, x, y)
    PROVE  Gets(P, Pass(x, at[x.pc]), Pass(y, at[y.pc]))
<1>1. CASE Reach(Q, x, y)
    BY <1>1, FollowsReach
<1>2. CASE Dies(Q, x, y)
    <2> DEFINE V(u) == Pass(u, at[u.pc])
    <2>1. PICK f : Reach(Q, x, f) /\ f.failed /\ Upto(f.out, y.out)
        BY ONLY <1>2 DEF Dies
    <2>2. f \in Within(Q)
        BY <2>1, ReachIn
    <2>3. at \in [1 .. (Len(Q) + 1) -> 1 .. (Len(P) + 1)]
        BY DEF Simulates
    <2>4. \A u \in Within(Q) : /\ V(u) \in Within(P) /\ V(u) \in Machines /\ V(u).out = u.out
                               /\ V(u).failed = u.failed
        BY <2>3, PlaceIs
    <2>5. Gets(P, V(x), V(f))
        BY <2>1, FollowsReach
    <2> HIDE DEF V
    <2>6. Upto(V(f).out, V(y).out) /\ V(f).failed
        BY <2>1, <2>2, <2>4
    <2>7. Gets(P, V(f), V(y))
        BY <2>6, ReachSelf DEF Gets, Dies
    <2>8. V(x) \in Within(P) /\ V(f) \in Machines /\ V(y) \in Machines
        BY <2>2, <2>4
    <2>9. Gets(P, V(x), V(y))
        BY ONLY Prog(P), <2>5, <2>6, <2>7, <2>8, GetsTrans
    <2> QED
        BY ONLY <2>9 DEF V
<1> QED
    BY <1>1, <1>2 DEF Gets

\* Every program does what it does itself,
LEMMA DoesSelf ==
    ASSUME NEW P, Prog(P)
    PROVE  Does(P, P)
<1> DEFINE at == [j \in 1 .. (Len(P) + 1) |-> j]
<1>1. at \in [1 .. (Len(P) + 1) -> 1 .. (Len(P) + 1)] /\ at[Len(P) + 1] = Len(P) + 1 /\ at[1] = 1
      /\ \A x \in Within(P) : at[x.pc] = x.pc
    BY ProgIs DEF Within
<1> HIDE DEF at
<1>2. Starts(P, P, at)
    BY <1>1, GetsSelf DEF Starts
<1>3. ASSUME NEW x \in Within(P), ~Halted(P, x)
      PROVE  Gets(P, Pass(x, at[x.pc]), Pass(Do(P, x), at[Do(P, x).pc]))
    <2>1. Do(P, x) \in Within(P)
        BY <1>3, DoIs DEF StepIs
    <2>2. \A u \in Within(P) : Pass(u, u.pc) = u
        BY MachineIs, PassIs DEF Within
    <2>3. Gets(P, x, Do(P, x))
        BY ONLY <1>3, GetsOn
    <2> QED
        BY <1>1, <2>1, <2>2, <2>3
<1>4. Simulates(P, P, at)
    BY ONLY <1>1, <1>2, <1>3 DEF Simulates, Follows
<1> QED
    BY ONLY <1>4, Prog(P) DEF Does

\* and what is done by a program that is done by another is done by that one.
LEMMA DoesTrans ==
    ASSUME NEW P, Prog(P), NEW Q, NEW R, Does(P, Q), Does(Q, R)
    PROVE  Does(P, R)
<1>1. PICK f : Simulates(P, Q, f)
    BY DEF Does
<1>2. PICK g : Simulates(Q, R, g)
    BY DEF Does
<1>a. Prog(Q) /\ Prog(R)
    BY DEF Does
<1>b. /\ f \in [1 .. (Len(Q) + 1) -> 1 .. (Len(P) + 1)] /\ f[Len(Q) + 1] = Len(P) + 1
      /\ g \in [1 .. (Len(R) + 1) -> 1 .. (Len(Q) + 1)] /\ g[Len(R) + 1] = Len(Q) + 1
      /\ Len(P) \in Nat /\ Len(Q) \in Nat /\ Len(R) \in Nat
    BY <1>1, <1>2, <1>a, ProgIs DEF Simulates
<1> DEFINE at == [j \in 1 .. (Len(R) + 1) |-> f[g[j]]]
<1>3. /\ at \in [1 .. (Len(R) + 1) -> 1 .. (Len(P) + 1)] /\ at[Len(R) + 1] = Len(P) + 1
      /\ \A j \in 1 .. (Len(R) + 1) : at[j] = f[g[j]]
    BY <1>b
<1> HIDE DEF at
<1>4. ASSUME NEW d \in Machines, ~d.failed PROVE Gets(P, Pass(d, 1), Pass(d, at[1]))
    <2>1. Gets(P, Pass(d, 1), Pass(d, f[1])) /\ Gets(Q, Pass(d, 1), Pass(d, g[1]))
        BY <1>1, <1>2, <1>4 DEF Simulates, Starts
    <2>2. /\ 1 \in 1 .. (Len(R) + 1) /\ 1 \in 1 .. (Len(Q) + 1) /\ 1 \in 1 .. (Len(P) + 1)
          /\ g[1] \in 1 .. (Len(Q) + 1) /\ f[1] \in 1 .. (Len(P) + 1) /\ f[g[1]] \in 1 .. (Len(P) + 1)
          /\ at[1] = f[g[1]]
        BY <1>b, <1>3
    <2>3. ASSUME NEW i \in Nat
          PROVE  /\ Pass(d, i) \in Machines /\ Pass(d, i).pc = i /\ Pass(d, i).out = d.out
                 /\ \A j : Pass(Pass(d, i), j) = Pass(d, j)
        BY PassIs
    <2>4. g[1] \in Nat /\ f[1] \in Nat /\ f[g[1]] \in Nat
        BY <1>b, <2>2
    <2>5. Pass(d, 1) \in Within(Q) /\ Pass(d, g[1]) \in Within(Q) /\ Pass(d, 1) \in Within(P)
        BY <2>2, <2>3, <2>4 DEF Within
    <2>6. Gets(P, Pass(Pass(d, 1), f[Pass(d, 1).pc]), Pass(Pass(d, g[1]), f[Pass(d, g[1]).pc]))
        BY <1>1, <1>a, <2>1, <2>5, FollowsGets
    <2>7. Gets(P, Pass(d, f[1]), Pass(d, f[g[1]]))
        BY <2>3, <2>4, <2>6
    <2>8. Upto(d.out, d.out)
        BY MachineIs, UptoIs
    <2>9. Gets(P, Pass(d, 1), Pass(d, f[g[1]]))
        BY <2>1, <2>3, <2>4, <2>5, <2>7, <2>8, GetsTrans
    <2> QED
        BY ONLY <2>2, <2>9
<1>5. ASSUME NEW x \in Within(R), ~Halted(R, x)
      PROVE  Gets(P, Pass(x, at[x.pc]), Pass(Do(R, x), at[Do(R, x).pc]))
    <2> DEFINE y == Do(R, x)
    <2>1. y \in Within(R)
        BY <1>5, <1>a, DoIs DEF StepIs
    <2>2. Gets(Q, Pass(x, g[x.pc]), Pass(y, g[y.pc]))
        BY <1>2, <1>5 DEF Simulates, Follows
    <2> HIDE DEF y
    <2>3. ASSUME NEW u \in Within(R)
          PROVE  /\ Pass(u, g[u.pc]) \in Within(Q) /\ Pass(u, g[u.pc]).pc = g[u.pc]
                 /\ \A j : Pass(Pass(u, g[u.pc]), j) = Pass(u, j)
                 /\ at[u.pc] = f[g[u.pc]]
        <3>1. Pass(u, g[u.pc]) \in Within(Q) /\ g[u.pc] \in Nat /\ u \in Machines /\ u.pc \in 1 .. (Len(R) + 1)
            BY <1>a, <1>b, PlaceIs
        <3>2. Pass(u, g[u.pc]).pc = g[u.pc] /\ \A j : Pass(Pass(u, g[u.pc]), j) = Pass(u, j)
            BY <3>1, PassIs
        <3> QED
            BY <1>3, <3>1, <3>2
    <2>4. Gets(P, Pass(Pass(x, g[x.pc]), f[Pass(x, g[x.pc]).pc]), Pass(Pass(y, g[y.pc]), f[Pass(y, g[y.pc]).pc]))
        BY <1>1, <1>a, <2>1, <2>2, <2>3, FollowsGets
    <2>5. Gets(P, Pass(x, at[x.pc]), Pass(y, at[y.pc]))
        BY <2>1, <2>3, <2>4
    <2> QED
        BY ONLY <2>5 DEF y
<1>6. Simulates(P, R, at)
    BY ONLY <1>3, <1>4, <1>5 DEF Simulates, Starts, Follows
<1> QED
    BY ONLY <1>a, <1>6 DEF Does

-----------------------------------------------------------------------------
(* A piece of a program is replaced.                                         *)

\* Over equal pieces the depth changes alike.
SamePieces(c, i, d, j, N) == \A k \in 1 .. N : c[i + k] = d[j + k]

\* Between i and i + N the depth of c changes as that of d does behind j.
AlikeDeep(c, i, d, j, N) ==
    \A k \in 0 .. N : Depth(c, i + k) - Depth(c, i) = Depth(d, j + k) - Depth(d, j)

\* By induction over the pieces.
LEMMA DepthAlike ==
    ASSUME NEW c, NEW l \in Nat, l = Len(c), DOMAIN c = 1 .. l,
           NEW d, NEW n \in Nat, n = Len(d), DOMAIN d = 1 .. n,
           NEW i \in Nat, NEW j \in Nat, NEW N \in Nat, i + N <= l, j + N <= n,
           SamePieces(c, i, d, j, N)
    PROVE  AlikeDeep(c, i, d, j, N)
<1>1. /\ \A p \in 0 .. l : Depth(c, p) \in Int
      /\ \A p \in 1 .. l : Depth(c, p) = Depth(c, p - 1) + Turn(c[p])
    BY DepthStep
<1>2. /\ \A p \in 0 .. n : Depth(d, p) \in Int
      /\ \A p \in 1 .. n : Depth(d, p) = Depth(d, p - 1) + Turn(d[p])
    BY DepthStep
<1>a. \A t : Turn(t) \in Int
    BY DEF Turn
<1> DEFINE S == {k \in 0 .. N : Depth(c, i + k) - Depth(c, i) = Depth(d, j + k) - Depth(d, j)}
<1>3. 0 \in S
    <2>1. i + 0 = i /\ j + 0 = j /\ i \in 0 .. l /\ j \in 0 .. n
        OBVIOUS
    <2> QED
        BY <1>1, <1>2, <2>1
<1>4. ASSUME NEW k \in 0 .. (N - 1), k \in S PROVE k + 1 \in S
    <2>1. /\ k + 1 \in 1 .. N /\ i + (k + 1) \in 1 .. l /\ j + (k + 1) \in 1 .. n
          /\ i + (k + 1) - 1 = i + k /\ j + (k + 1) - 1 = j + k
          /\ i + k \in 0 .. l /\ j + k \in 0 .. n /\ i \in 0 .. l /\ j \in 0 .. n
        OBVIOUS
    <2>2. c[i + (k + 1)] = d[j + (k + 1)]
        BY <2>1 DEF SamePieces
    <2>3. Depth(c, i + (k + 1)) = Depth(c, i + k) + Turn(c[i + (k + 1)])
        BY <1>1, <2>1
    <2>4. Depth(d, j + (k + 1)) = Depth(d, j + k) + Turn(c[i + (k + 1)])
        BY <1>2, <2>1, <2>2
    <2>5. Depth(c, i + k) \in Int /\ Depth(d, j + k) \in Int /\ Depth(c, i) \in Int /\ Depth(d, j) \in Int
        BY <1>1, <1>2, <2>1
    <2>6. Depth(c, i + k) - Depth(c, i) = Depth(d, j + k) - Depth(d, j)
        BY <1>4
    <2>7. Depth(c, i + (k + 1)) - Depth(c, i) = Depth(d, j + (k + 1)) - Depth(d, j)
        BY ONLY <1>a, <2>3, <2>4, <2>5, <2>6
    <2> QED
        BY <2>7
<1> HIDE DEF S
<1>5. 0 .. N \subseteq S
    BY ONLY <1>3, <1>4, N \in Nat, BoundedInd
<1> QED
    BY <1>5 DEF S, AlikeDeep

\* Behind its first a tokens, X tokens of P are replaced by Y tokens, none or one; the
\* X tokens keep to themselves the loops that start in them, and the one is no bracket.
Cut(P, Q, a, X, Y) ==
    /\ a \in Nat /\ X \in Nat /\ Y \in {0, 1}
    /\ a + X <= Len(P) /\ Len(Q) = Len(P) - X + Y
    /\ Q \in Seq(Toks)
    /\ \A j \in 1 .. a : Q[j] = P[j]
    /\ \A j \in (a + X + 1) .. Len(P) : Q[j - X + Y] = P[j]
    /\ Depth(P, a + X) = Depth(P, a) /\ \A k \in a .. (a + X) : Depth(P, k) >= Depth(P, a)
    /\ Y = 1 => ~IsBracket(Q[a + 1])

\* Where the places of Q are in P.
Old(a, X, Y, j) == IF j <= a + Y THEN j ELSE j + X - Y

\* Outside the piece, Q is as deep as P is at the same token.
KeepsDepth(P, Q, a, X, Y) ==
    /\ \A i \in 0 .. a : Depth(Q, i) = Depth(P, i)
    /\ \A i \in (a + Y) .. Len(Q) : Depth(Q, i) = Depth(P, i + X - Y)

\* A program that is cut keeps its depth, and its brackets in pairs.
LEMMA CutDepth ==
    ASSUME NEW P, Prog(P), NEW Q, NEW a, NEW X, NEW Y, Cut(P, Q, a, X, Y)
    PROVE  KeepsDepth(P, Q, a, X, Y) /\ Prog(Q)
<1> DEFINE l == Len(P)
           n == Len(Q)
<1>1. /\ l \in Nat /\ l = Len(P) /\ DOMAIN P = 1 .. l /\ n \in Nat /\ n = Len(Q) /\ DOMAIN Q = 1 .. n
      /\ a \in Nat /\ X \in Nat /\ Y \in {0, 1} /\ Y \in Nat /\ a + X <= l /\ n = l - X + Y
    BY ProgIs DEF Cut
<1>2. /\ \A p \in 0 .. l : Depth(P, p) \in Int
      /\ Depth(P, 0) = 0
    BY <1>1, DepthStep
<1>3. /\ \A p \in 0 .. n : Depth(Q, p) \in Int
      /\ \A p \in 1 .. n : Depth(Q, p) = Depth(Q, p - 1) + Turn(Q[p])
      /\ Depth(Q, 0) = 0
    BY <1>1, DepthStep
<1> HIDE DEF l, n
<1>4. ASSUME NEW i \in 0 .. a PROVE Depth(Q, i) = Depth(P, i)
    <2>1. SamePieces(P, 0, Q, 0, a)
        BY <1>1 DEF Cut, SamePieces
    <2>2. AlikeDeep(P, 0, Q, 0, a)
        BY <1>1, <2>1, DepthAlike
    <2>3. i \in 0 .. l /\ i \in 0 .. n /\ 0 + i = i
        BY <1>1
    <2>4. Depth(P, i) - Depth(P, 0) = Depth(Q, i) - Depth(Q, 0)
        BY <2>2, <2>3 DEF AlikeDeep
    <2>5. Depth(P, i) \in Int /\ Depth(Q, i) \in Int
        BY <1>2, <1>3, <2>3
    <2> QED
        BY ONLY <1>2, <1>3, <2>4, <2>5
<1>5. Depth(Q, a + Y) = Depth(P, a + X)
    <2>1. Depth(P, a + X) = Depth(P, a) /\ Depth(Q, a) = Depth(P, a)
        BY <1>1, <1>4 DEF Cut
    <2>2. CASE Y = 0
        BY <1>1, <2>1, <2>2
    <2>3. CASE Y = 1
        <3>1. Turn(Q[a + 1]) = 0
            BY <2>3 DEF Cut, IsBracket, Turn
        <3>2. a + 1 \in 1 .. n /\ a + 1 - 1 = a /\ a \in 0 .. n
            BY <1>1, <2>3
        <3> QED
            BY <1>3, <2>1, <2>3, <3>1, <3>2
    <2> QED
        BY <1>1, <2>2, <2>3
<1>6. ASSUME NEW i \in (a + Y) .. n PROVE Depth(Q, i) = Depth(P, i + X - Y)
    <2> DEFINE N == l - (a + X)
    <2>1. N \in Nat /\ (a + X) + N <= l /\ (a + Y) + N <= n /\ a + X \in Nat /\ a + Y \in Nat
        BY <1>1
    <2>2. SamePieces(P, a + X, Q, a + Y, N)
        <3>1. ASSUME NEW k \in 1 .. N PROVE P[(a + X) + k] = Q[(a + Y) + k]
            <4>1. a + X + k \in (a + X + 1) .. l /\ (a + X + k) - X + Y = (a + Y) + k
                BY <1>1
            <4> QED
                BY <1>1, <4>1 DEF Cut
        <3> QED
            BY ONLY <3>1 DEF SamePieces
    <2>3. i - (a + Y) \in 0 .. N /\ (a + X) + (i - (a + Y)) = i + X - Y /\ (a + Y) + (i - (a + Y)) = i
        BY <1>1
    <2> HIDE DEF N
    <2>4. AlikeDeep(P, a + X, Q, a + Y, N)
        BY <1>1, <2>1, <2>2, DepthAlike
    <2>5. Depth(P, i + X - Y) - Depth(P, a + X) = Depth(Q, i) - Depth(Q, a + Y)
        BY <2>3, <2>4 DEF AlikeDeep
    <2>6. i + X - Y \in 0 .. l /\ a + X \in 0 .. l /\ i \in 0 .. n /\ a + Y \in 0 .. n
        BY <1>1
    <2>7. Depth(P, i + X - Y) \in Int /\ Depth(P, a + X) \in Int /\ Depth(Q, i) \in Int /\ Depth(Q, a + Y) \in Int
        BY <1>2, <1>3, <2>6
    <2> QED
        BY ONLY <1>5, <2>5, <2>7
<1>7. Prog(Q)
    <2>1. (\A i \in 0 .. l : Depth(P, i) >= 0) /\ Depth(P, l) = 0
        BY <1>1, ProgIs, BalancedDepth
    <2>2. ASSUME NEW i \in 0 .. n PROVE Depth(Q, i) >= 0
        <3>1. CASE i <= a
            <4>1. i \in 0 .. a /\ i \in 0 .. l
                BY <1>1, <3>1
            <4> QED
                BY <1>4, <2>1, <4>1
        <3>2. CASE i > a
            <4>1. i \in (a + Y) .. n /\ i + X - Y \in 0 .. l
                BY <1>1, <3>2
            <4> QED
                BY <1>6, <2>1, <4>1
        <3> QED
            BY <1>1, <3>1, <3>2
    <2>3. Depth(Q, n) = 0
        <3>1. n \in (a + Y) .. n /\ n + X - Y = l
            BY <1>1
        <3> QED
            BY <1>6, <2>1, <3>1
    <2>4. Balanced(Q)
        BY <1>1, <2>2, <2>3, BalancedDepth
    <2> QED
        BY <2>4 DEF Prog, Cut
<1>8. KeepsDepth(P, Q, a, X, Y)
    BY ONLY <1>4, <1>6 DEF KeepsDepth, n
<1> QED
    BY ONLY <1>7, <1>8

\* The numbers of a cut.
CutIs(P, Q, a, X, Y) ==
    /\ Len(P) \in Nat /\ DOMAIN P = 1 .. Len(P) /\ Len(Q) \in Nat /\ DOMAIN Q = 1 .. Len(Q)
    /\ a \in Nat /\ X \in Nat /\ Y \in Nat /\ Y \in {0, 1} /\ a + X <= Len(P) /\ Len(Q) = Len(P) - X + Y
    /\ \A p \in 0 .. Len(P) : Depth(P, p) \in Int

LEMMA CutNumbers ==
    ASSUME NEW P, Prog(P), NEW Q, NEW a, NEW X, NEW Y, Cut(P, Q, a, X, Y)
    PROVE  CutIs(P, Q, a, X, Y)
<1>1. /\ Len(P) \in Nat /\ DOMAIN P = 1 .. Len(P) /\ Len(Q) \in Nat /\ DOMAIN Q = 1 .. Len(Q)
      /\ a \in Nat /\ X \in Nat /\ Y \in Nat /\ Y \in {0, 1} /\ a + X <= Len(P) /\ Len(Q) = Len(P) - X + Y
    BY ProgIs DEF Cut
<1>2. \A p \in 0 .. Len(P) : Depth(P, p) \in Int
    BY <1>1, DepthStep
<1> QED
    BY ONLY <1>1, <1>2 DEF CutIs

\* Outside the piece the tokens are the same, and as deep.
LEMMA CutSame ==
    ASSUME NEW P, Prog(P), NEW Q, NEW a, NEW X, NEW Y, Cut(P, Q, a, X, Y),
           NEW i \in 1 .. Len(Q), Y = 0 \/ i # a + 1
    PROVE  /\ Old(a, X, Y, i) \in 1 .. Len(P) /\ P[Old(a, X, Y, i)] = Q[i]
           /\ Depth(Q, i) = Depth(P, Old(a, X, Y, i))
<1>1. CutIs(P, Q, a, X, Y)
    BY CutNumbers
<1>d. KeepsDepth(P, Q, a, X, Y)
    BY CutDepth
<1>2. CASE i <= a
    <2>1. i \in 1 .. a /\ i \in 0 .. a /\ Old(a, X, Y, i) = i /\ i \in 1 .. Len(P)
        BY <1>1, <1>2 DEF Old, CutIs
    <2>2. Depth(Q, i) = Depth(P, i)
        BY ONLY <1>d, <2>1 DEF KeepsDepth
    <2>3. Q[i] = P[i]
        BY <2>1 DEF Cut
    <2> QED
        BY <2>1, <2>2, <2>3
<1>3. CASE i > a
    <2>0. i > a + Y
        BY <1>1, <1>3 DEF CutIs
    <2>1. i \in (a + Y) .. Len(Q) /\ Old(a, X, Y, i) = i + X - Y
        BY ONLY i \in 1 .. Len(Q), <1>1, <2>0 DEF Old, CutIs
    <2>a. /\ i + X - Y \in (a + X + 1) .. Len(P) /\ i + X - Y \in 1 .. Len(P)
          /\ (i + X - Y) - X + Y = i
        BY ONLY i \in 1 .. Len(Q), <1>1, <2>0 DEF CutIs
    <2>2. Depth(Q, i) = Depth(P, i + X - Y)
        BY ONLY <1>d, <2>1 DEF KeepsDepth
    <2>3. Q[i] = P[i + X - Y]
        BY ONLY <2>a, Cut(P, Q, a, X, Y) DEF Cut
    <2> QED
        BY ONLY <2>1, <2>a, <2>2, <2>3
<1> QED
    BY <1>1, <1>2, <1>3 DEF CutIs

\* A loop of Q is a loop of P.
LEMMA CutCloses ==
    ASSUME NEW P, Prog(P), NEW Q, NEW a, NEW X, NEW Y, Cut(P, Q, a, X, Y),
           NEW i, NEW j, Closes(Q, i, j)
    PROVE  Closes(P, Old(a, X, Y, i), Old(a, X, Y, j))
<1>1. CutIs(P, Q, a, X, Y)
    BY CutNumbers
<1>d. KeepsDepth(P, Q, a, X, Y)
    BY CutDepth
<1>2. i \in 1 .. Len(Q) /\ j \in 1 .. Len(Q) /\ IsBracket(Q[i]) /\ IsBracket(Q[j]) /\ i < j
    BY <1>1 DEF Closes, Brackets, IsBracket, CutIs
<1>3. (Y = 0 \/ i # a + 1) /\ (Y = 0 \/ j # a + 1)
    BY <1>1, <1>2 DEF Cut, CutIs
<1> DEFINE u == Old(a, X, Y, i)
           v == Old(a, X, Y, j)
<1>4. u \in 1 .. Len(P) /\ P[u] = Q[i] /\ Depth(Q, i) = Depth(P, u)
    BY <1>2, <1>3, CutSame
<1>5. v \in 1 .. Len(P) /\ P[v] = Q[j] /\ Depth(Q, j) = Depth(P, v)
    BY <1>2, <1>3, CutSame
<1>6. u \in Brackets(P, "open") /\ v \in Brackets(P, "close")
    BY <1>1, <1>4, <1>5 DEF Closes, Brackets, CutIs
<1>n. /\ i \in Nat /\ j \in Nat /\ i < j /\ a \in Nat /\ X \in Nat /\ Y \in {0, 1} /\ j <= Len(Q)
      /\ Len(P) \in Nat /\ Len(Q) = Len(P) - X + Y /\ a + X <= Len(P) /\ u \in 1 .. Len(P) /\ v \in 1 .. Len(P)
    <2>1. Len(Q) \in Nat
        BY <1>1 DEF CutIs
    <2>2. i \in Nat /\ j \in Nat /\ i < j /\ j <= Len(Q)
        BY ONLY <1>2, <2>1
    <2> QED
        BY ONLY <1>1, <1>4, <1>5, <2>2 DEF CutIs
<1>o. /\ i <= a + Y => u = i
      /\ ~(i <= a + Y) => u = i + X - Y
      /\ j <= a + Y => v = j
      /\ ~(j <= a + Y) => v = j + X - Y
    BY DEF Old
<1>e. (Y = 0 \/ i # a + 1) /\ (Y = 0 \/ j # a + 1)
    BY <1>3
<1> HIDE DEF u, v
<1>7. u < v
    BY ONLY <1>n, <1>o, <1>e
<1>a. \A k \in i .. (j - 1) : Depth(Q, k) >= Depth(Q, i)
    BY DEF Closes
<1>8. ASSUME NEW k \in u .. (v - 1) PROVE Depth(P, k) >= Depth(P, u)
    <2>0. \A k1 \in 0 .. Len(P) : Depth(P, k1) \in Int
        BY <1>1 DEF CutIs
    <2>1. CASE k <= a
        <3>1. k \in 0 .. a /\ k \in i .. (j - 1)
            BY ONLY <1>n, <1>o, <1>e, <2>1, k \in u .. (v - 1)
        <3>2. Depth(Q, k) = Depth(P, k)
            BY ONLY <1>d, <3>1 DEF KeepsDepth
        <3> QED
            BY <1>4, <1>a, <3>1, <3>2
    <2>2. CASE k > a /\ k <= a + X
        <3>a. a \in 0 .. a /\ k \in a .. (a + X) /\ a \in 0 .. Len(P) /\ k \in 0 .. Len(P) /\ u \in 0 .. Len(P)
            BY ONLY <1>n, <2>2, k \in u .. (v - 1)
        <3>b. a \in i .. (j - 1)
            BY ONLY <1>n, <1>o, <1>e, <2>2, k \in u .. (v - 1)
        <3>1. /\ a \in 0 .. a /\ a \in i .. (j - 1) /\ k \in a .. (a + X)
              /\ a \in 0 .. Len(P) /\ k \in 0 .. Len(P) /\ u \in 0 .. Len(P)
            BY ONLY <3>a, <3>b
        <3>2. Depth(Q, a) = Depth(P, a)
            BY ONLY <1>d, <3>1 DEF KeepsDepth
        <3>3. Depth(P, k) >= Depth(P, a)
            BY ONLY Cut(P, Q, a, X, Y), <3>1 DEF Cut
        <3>4. Depth(P, a) >= Depth(P, u)
            BY ONLY <1>4, <1>a, <3>1, <3>2
        <3> QED
            BY ONLY <2>0, <3>1, <3>3, <3>4
    <2>3. CASE k > a + X
        <3>1. k - X + Y \in (a + Y) .. Len(Q) /\ (k - X + Y) + X - Y = k /\ k - X + Y \in i .. (j - 1)
            BY ONLY <1>n, <1>o, <1>e, <2>3, k \in u .. (v - 1)
        <3>2. Depth(Q, k - X + Y) = Depth(P, k)
            BY ONLY <1>d, <3>1 DEF KeepsDepth
        <3> QED
            BY <1>4, <1>a, <3>1, <3>2
    <2>4. k \in Int
        BY ONLY <1>n, k \in u .. (v - 1)
    <2> QED
        BY ONLY <1>n, <2>1, <2>2, <2>3, <2>4
<1>9. Depth(P, v) = Depth(P, u) - 1
    BY <1>4, <1>5 DEF Closes
<1>10. Closes(P, u, v)
    BY <1>6, <1>7, <1>8, <1>9 DEF Closes
<1> QED
    BY <1>10 DEF u, v

\* Behind a `]' the current cell is 0.
Cleared(P, a, d) == a >= 1 /\ P[a].op = "close" => d.ptr \in Cells /\ d.tape[d.ptr] = 0

\* Nothing comes of the X tokens behind the first a.
Skips(P, a, X) ==
    \A d \in Machines : ~d.failed /\ Cleared(P, a, d) => Gets(P, Pass(d, a + 1), Pass(d, a + X + 1))

\* What comes of them is what comes of the one token in their place.
Then(y, i) == IF y.failed THEN y ELSE Pass(y, i)

\* From before the X tokens P comes to where the one token of Q leads, behind them.
Acts(P, Q, a, X) ==
    \A d \in Machines : ~d.failed => Gets(P, Pass(d, a + 1), Then(Do(Q, Pass(d, a + 1)), a + X + 1))

\* A cut that changes nothing of what the program does.
Replaces(P, Q, a, X, Y) ==
    /\ Cut(P, Q, a, X, Y)
    /\ Y = 0 => Skips(P, a, X)
    /\ Y = 1 => Acts(P, Q, a, X)

\* Wherever a step of Q leads, P comes to the place of.
LEMMA Lands ==
    ASSUME NEW P, Prog(P), NEW Q, NEW a, NEW X, NEW Y, Replaces(P, Q, a, X, Y),
           NEW k \in 0 .. Len(Q), Y = 0 \/ k # a + 1,
           NEW d \in Machines, ~d.failed, k = a => Cleared(P, a, d)
    PROVE  Gets(P, Pass(d, Old(a, X, Y, k) + 1), Pass(d, Old(a, X, Y, k + 1)))
<1>1. CutIs(P, Q, a, X, Y)
    BY CutNumbers DEF Replaces
<1>2. CASE k = a /\ Y = 0
    <2>1. Old(a, X, Y, k) + 1 = a + 1 /\ Old(a, X, Y, k + 1) = a + X + 1
        BY <1>1, <1>2 DEF Old, CutIs
    <2>2. Gets(P, Pass(d, a + 1), Pass(d, a + X + 1))
        BY <1>2 DEF Replaces, Skips
    <2> QED
        BY ONLY <2>1, <2>2
<1>3. CASE ~(k = a /\ Y = 0)
    <2>1. Old(a, X, Y, k) + 1 = Old(a, X, Y, k + 1)
        <3>1. CASE k + 1 <= a + Y
            BY <1>1, <3>1 DEF Old, CutIs
        <3>2. CASE k + 1 > a + Y
            <4>a. k \in Int /\ a \in Int /\ (Y = 0 \/ Y = 1)
                BY <1>1 DEF CutIs
            <4>1. k > a + Y
                BY ONLY <4>a, <1>3, <3>2, Y = 0 \/ k # a + 1
            <4> QED
                BY <1>1, <3>2, <4>1 DEF Old, CutIs
        <3> QED
            BY <1>1, <3>1, <3>2 DEF CutIs
    <2> QED
        BY ONLY <2>1, GetsSelf
<1> QED
    BY <1>2, <1>3

LEMMA CutPaired ==
    ASSUME NEW P, Prog(P), NEW Q, NEW a, NEW X, NEW Y, Cut(P, Q, a, X, Y),
           NEW i, NEW e, Paired(Q, i, e)
    PROVE  Paired(P, Old(a, X, Y, i), Old(a, X, Y, e))
<1>1. CASE Closes(Q, i, e)
    <2>1. Closes(P, Old(a, X, Y, i), Old(a, X, Y, e))
        BY <1>1, CutCloses
    <2> QED
        BY ONLY <2>1 DEF Paired
<1>2. CASE Closes(Q, e, i)
    <2>1. Closes(P, Old(a, X, Y, e), Old(a, X, Y, i))
        BY <1>2, CutCloses
    <2> QED
        BY ONLY <2>1 DEF Paired
<1> QED
    BY <1>1, <1>2 DEF Paired

LEMMA PairedIs ==
    ASSUME NEW c, Prog(c), NEW i, NEW e, Paired(c, i, e)
    PROVE  /\ i \in 1 .. Len(c) /\ e \in 1 .. Len(c)
           /\ c[i].op = "open" <=> c[e].op = "close"
           /\ c[i].op = "close" <=> c[e].op = "open"
           /\ IsBracket(c[i]) /\ IsBracket(c[e])
BY ProgIs DEF Paired, Closes, Brackets, IsBracket

\* What a step does in Q it does in P.
LEMMA CutFollows ==
    ASSUME NEW P, Prog(P), NEW Q, Prog(Q), NEW a, NEW X, NEW Y, Replaces(P, Q, a, X, Y),
           NEW x \in Within(Q), ~Halted(Q, x)
    PROVE  Gets(P, Pass(x, Old(a, X, Y, x.pc)), Pass(Do(Q, x), Old(a, X, Y, Do(Q, x).pc)))
<1> DEFINE i == x.pc
           y == Do(Q, x)
           O(k) == Old(a, X, Y, k)
<1>0. CutIs(P, Q, a, X, Y) /\ Cut(P, Q, a, X, Y)
    BY CutNumbers DEF Replaces
<1>1. x \in Machines /\ i \in 1 .. Len(Q) /\ i \in Nat /\ ~x.failed /\ x.out \in Seq(Byte)
    BY <1>0, MachineIs DEF Within, Halted, CutIs
<1>2. Pass(x, i) = x
    BY <1>1, PassIs
<1>3. Q[i] \in Toks
    BY <1>1, ProgIs
<1>4. CASE Y = 1 /\ i = a + 1
    <2>1. Gets(P, x, Then(y, a + X + 1))
        BY <1>1, <1>2, <1>4 DEF Replaces, Acts
    <2>2. Pass(x, O(i)) = x
        BY <1>0, <1>2, <1>4 DEF Old, CutIs
    <2>3. Pass(y, O(y.pc)) = Then(y, a + X + 1)
        <3>1. ~IsBracket(Q[i])
            BY <1>0, <1>4 DEF Cut
        <3>2. PICK r : Effect(Q[i], x, r)
            BY <1>1, <1>3, <3>1, HasEffect
        <3>3. y = IF r.failed THEN Fail(x) ELSE Pass(r, i + 1)
            BY <1>1, <1>2, <3>2 DEF Effect
        <3>4. r \in Machines
            BY <3>2 DEF Effect
        <3>5. CASE r.failed
            <4>1. y = Fail(x) /\ y \in Machines /\ y.failed /\ y.pc = i
                BY <1>1, <3>3, <3>5, FailIs
            <4>2. O(y.pc) = y.pc
                BY <1>0, <1>4, <4>1 DEF Old, CutIs
            <4>3. Pass(y, y.pc) = y
                BY <1>1, <4>1, PassIs
            <4> QED
                BY <4>1, <4>2, <4>3 DEF Then
        <3>6. CASE ~r.failed
            <4>1. y = Pass(r, i + 1) /\ i + 1 \in Nat
                BY <1>1, <3>3, <3>6
            <4>2. y.pc = i + 1 /\ ~y.failed
                BY <3>4, <3>6, <4>1, PassIs
            <4>3. O(i + 1) = a + X + 1
                BY <1>0, <1>4 DEF Old, CutIs
            <4> HIDE DEF y, O
            <4> QED
                BY <4>2, <4>3 DEF Then
        <3> QED
            BY <3>5, <3>6
    <2> QED
        BY <2>1, <2>2, <2>3
<1> SUFFICES ASSUME Y = 0 \/ i # a + 1 PROVE Gets(P, Pass(x, O(i)), Pass(y, O(y.pc)))
    BY <1>0, <1>4 DEF CutIs
<1>5. O(i) \in 1 .. Len(P) /\ P[O(i)] = Q[i]
    BY <1>0, <1>1, CutSame
<1>6. O(i) \in Nat
    BY <1>0, <1>5 DEF CutIs
<1>7. Pass(x, O(i)) \in Within(P) /\ ~Halted(P, Pass(x, O(i)))
    <2>1. /\ Pass(x, O(i)) \in Machines /\ Pass(x, O(i)).pc = O(i) /\ ~Pass(x, O(i)).failed
        BY <1>1, <1>6, PassIs
    <2> HIDE DEF O
    <2>a. Len(P) \in Nat
        BY <1>0 DEF CutIs
    <2>2. O(i) \in 1 .. (Len(P) + 1) /\ ~(O(i) > Len(P))
        BY ONLY <2>a, <1>5
    <2> QED
        BY ONLY <2>1, <2>2 DEF Within, Halted
<1>8. Gets(P, Pass(x, O(i)), Do(P, Pass(x, O(i))))
    BY ONLY <1>7, GetsOn
<1>9. ASSUME y = Fail(x), Do(P, Pass(x, O(i))) = Fail(Pass(x, O(i)))
       PROVE  Gets(P, Pass(x, O(i)), Pass(y, O(y.pc)))
    <2>1. y.pc = i
        BY <1>1, <1>9, FailIs
    <2>2. Pass(y, O(i)) = Fail(Pass(x, O(i)))
        BY <1>1, <1>2, <1>6, <1>9, FailPass
    <2> QED
        BY ONLY <1>8, <1>9, <2>1, <2>2
<1>10. ASSUME NEW r \in Machines, ~r.failed, Upto(x.out, r.out), NEW k \in 1 .. Len(Q), Y = 0 \/ k # a + 1,
              y = Pass(r, k + 1), Do(P, Pass(x, O(i))) = Pass(r, O(k) + 1), k = a => Cleared(P, a, r)
       PROVE  Gets(P, Pass(x, O(i)), Pass(y, O(y.pc)))
    <2>1. Gets(P, Pass(r, O(k) + 1), Pass(r, O(k + 1)))
        BY <1>10, Lands
    <2>2. O(k) \in Nat /\ O(k + 1) \in Nat /\ k + 1 \in Nat
        BY <1>0, <1>10, CutSame DEF Old, CutIs
    <2>3. y.pc = k + 1 /\ Pass(y, O(k + 1)) = Pass(r, O(k + 1))
        BY <1>10, <2>2, PassIs
    <2>4. /\ Pass(r, O(k) + 1) \in Machines /\ Pass(r, O(k) + 1).out = r.out
          /\ Pass(r, O(k + 1)) \in Machines /\ Pass(r, O(k + 1)).out = r.out
        BY <1>10, <2>2, PassIs
    <2>5. Upto(r.out, r.out)
        BY <1>10, MachineIs, UptoIs
    <2> HIDE DEF O, y, i
    <2>6. Gets(P, Pass(x, O(i)), Pass(r, O(k) + 1))
        BY ONLY <1>8, <1>10
    <2>7. Gets(P, Pass(x, O(i)), Pass(r, O(k + 1)))
        BY ONLY Prog(P), <1>7, <2>1, <2>4, <2>5, <2>6, GetsTrans
    <2> QED
        BY ONLY <2>3, <2>7
<1> HIDE DEF i, y, O
<1>11. CASE IsBracket(Q[i])
    <2>1. PICK e \in 1 .. Len(Q) : Paired(Q, i, e)
        BY <1>1, <1>11, HasPair
    <2>2. Paired(P, O(i), O(e))
        BY <1>0, <2>1, CutPaired DEF O
    <2>3. /\ O(i) \in 1 .. Len(P) /\ O(e) \in 1 .. Len(P) /\ IsBracket(P[O(i)])
        BY <2>2, PairedIs
    <2>4. /\ IsBracket(Q[e]) /\ (Q[i].op = "open" <=> Q[e].op = "close") /\ (Q[i].op = "close" <=> Q[e].op = "open")
        BY <2>1, PairedIs
    <2>5. Y = 0 \/ e # a + 1
        BY <1>0, <2>4 DEF Cut, CutIs
    <2>6. BracketMoves(Q, i, e, x) /\ BracketMoves(P, O(i), O(e), x)
        BY <1>1, <1>11, <2>1, <2>2, <2>3, BracketDoes
    <2>7. CASE x.ptr \notin Cells
        <3>1. y = Fail(x) /\ Do(P, Pass(x, O(i))) = Fail(Pass(x, O(i)))
            BY <1>2, <2>6, <2>7 DEF BracketMoves, y, i
        <3> QED
            BY ONLY <1>9, <3>1
    <2>8. CASE x.ptr \in Cells
        <3> DEFINE k == Landing(Q[i], i, e, x)
        <3>1. y = Pass(x, k + 1)
            BY <1>2, <2>6, <2>8 DEF BracketMoves, y, i
        <3>2. k \in {i, e} /\ (Q[k].op = "close" => x.tape[x.ptr] = 0)
            BY <1>11, <2>4 DEF Landing, IsBracket
        <3>3. Landing(P[O(i)], O(i), O(e), x) = O(k)
            BY <1>5 DEF Landing
        <3> HIDE DEF k
        <3>4. Do(P, Pass(x, O(i))) = Pass(x, O(k) + 1)
            BY <2>6, <2>8, <3>3 DEF BracketMoves
        <3>5. k \in 1 .. Len(Q) /\ (Y = 0 \/ k # a + 1)
            BY <1>1, <2>5, <3>2
        <3>6. k = a => Cleared(P, a, x)
            <4>1. k = a => P[a] = Q[a]
                BY <1>0, <3>5 DEF Cut, CutIs
            <4> QED
                BY <2>8, <3>2, <4>1 DEF Cleared
        <3>7. Upto(x.out, x.out)
            BY <1>1, UptoIs
        <3> QED
            BY ONLY <1>1, <1>10, <3>1, <3>4, <3>5, <3>6, <3>7
    <2> QED
        BY <2>7, <2>8
<1>12. CASE ~IsBracket(Q[i])
    <2>1. PICK r : Effect(Q[i], x, r)
        BY <1>1, <1>3, <1>12, HasEffect
    <2>2. r \in Machines /\ Upto(x.out, r.out) /\ (r.failed => r = Fail(x))
        BY <2>1 DEF Effect
    <2>3. Do(Q, Pass(x, i)) = IF r.failed THEN Fail(Pass(x, i)) ELSE Pass(r, i + 1)
        BY <1>1, <2>1 DEF Effect
    <2>4. Do(P, Pass(x, O(i))) = IF r.failed THEN Fail(Pass(x, O(i))) ELSE Pass(r, O(i) + 1)
        BY <1>5, <1>6, <2>1 DEF Effect
    <2>5. CASE r.failed
        <3>1. y = Fail(x) /\ Do(P, Pass(x, O(i))) = Fail(Pass(x, O(i)))
            BY <1>2, <2>3, <2>4, <2>5 DEF y
        <3> QED
            BY ONLY <1>9, <3>1
    <2>6. CASE ~r.failed
        <3>1. y = Pass(r, i + 1) /\ Do(P, Pass(x, O(i))) = Pass(r, O(i) + 1)
            BY <1>2, <2>3, <2>4, <2>6 DEF y
        <3>2. i = a => Cleared(P, a, r)
            <4>1. i = a => P[a] = Q[a]
                BY <1>0, <1>1 DEF Cut, CutIs
            <4> QED
                BY <1>12, <4>1 DEF Cleared, IsBracket
        <3> QED
            BY ONLY <1>1, <1>10, <2>2, <2>6, <3>1, <3>2, (Y = 0 \/ i # a + 1)
    <2> QED
        BY <2>5, <2>6
<1> QED
    BY <1>11, <1>12

\* A piece may be replaced by what comes to the same.
LEMMA CutDoes ==
    ASSUME NEW P, Prog(P), NEW Q, NEW a, NEW X, NEW Y, Replaces(P, Q, a, X, Y)
    PROVE  Does(P, Q)
<1>1. Prog(Q)
    BY CutDepth DEF Replaces
<1>2. CutIs(P, Q, a, X, Y)
    BY CutNumbers DEF Replaces
<1> DEFINE at == [j \in 1 .. (Len(Q) + 1) |-> Old(a, X, Y, j)]
<1>3. ASSUME NEW j \in 1 .. (Len(Q) + 1) PROVE Old(a, X, Y, j) \in 1 .. (Len(P) + 1)
    <2>1. CASE j <= a + Y
        BY <1>2, <2>1 DEF Old, CutIs
    <2>2. CASE j > a + Y
        BY <1>2, <2>2 DEF Old, CutIs
    <2> QED
        BY <1>2, <2>1, <2>2 DEF CutIs
<1>4. Old(a, X, Y, Len(Q) + 1) = Len(P) + 1 /\ Old(a, X, Y, 0) = 0
    BY <1>2 DEF Old, CutIs
<1>5. 1 \in 1 .. (Len(Q) + 1) /\ Len(Q) + 1 \in 1 .. (Len(Q) + 1) /\ 0 \in 0 .. Len(Q) /\ 0 # a + 1
    BY <1>2 DEF CutIs
<1>6. /\ at \in [1 .. (Len(Q) + 1) -> 1 .. (Len(P) + 1)] /\ at[Len(Q) + 1] = Len(P) + 1
      /\ \A j \in 1 .. (Len(Q) + 1) : at[j] = Old(a, X, Y, j)
    BY <1>3, <1>4, <1>5
<1> HIDE DEF at
<1>7. ASSUME NEW d \in Machines, ~d.failed PROVE Gets(P, Pass(d, 1), Pass(d, at[1]))
    <2>1. 0 = a => Cleared(P, a, d)
        BY DEF Cleared
    <2>2. Gets(P, Pass(d, Old(a, X, Y, 0) + 1), Pass(d, Old(a, X, Y, 0 + 1)))
        BY <1>5, <1>7, <2>1, Lands
    <2>3. 0 + 1 = 1 /\ at[1] = Old(a, X, Y, 1)
        BY <1>5, <1>6
    <2> QED
        BY <1>4, <2>2, <2>3
<1>8. ASSUME NEW x \in Within(Q), ~Halted(Q, x)
      PROVE  Gets(P, Pass(x, at[x.pc]), Pass(Do(Q, x), at[Do(Q, x).pc]))
    <2>1. Gets(P, Pass(x, Old(a, X, Y, x.pc)), Pass(Do(Q, x), Old(a, X, Y, Do(Q, x).pc)))
        BY <1>1, <1>8, CutFollows
    <2>2. Do(Q, x) \in Within(Q)
        BY <1>1, <1>8, DoIs DEF StepIs
    <2>3. at[x.pc] = Old(a, X, Y, x.pc) /\ at[Do(Q, x).pc] = Old(a, X, Y, Do(Q, x).pc)
        BY <1>6, <1>8, <2>2 DEF Within
    <2> QED
        BY ONLY <2>1, <2>3
<1>9. Simulates(P, Q, at)
    BY ONLY <1>6, <1>7, <1>8 DEF Simulates, Starts, Follows
<1> QED
    BY ONLY <1>1, <1>9 DEF Does

-----------------------------------------------------------------------------
(* What the optimizer replaces.                                              *)

\* A step at an idle token.
LEMMA IdleDoes ==
    ASSUME NEW c, NEW x \in Machines, NEW i \in Nat, Idle(c[i])
    PROVE  Do(c, Pass(x, i)) = Pass(x, i + 1)
<1>1. Pass(x, i).pc = i /\ Pass(Pass(x, i), i + 1) = Pass(x, i + 1)
    BY PassIs
<1> QED
    BY ONLY <1>1, Idle(c[i]) DEF Do

\* A machine that stands at a token has not halted.
LEMMA Stands ==
    ASSUME NEW c, Prog(c), NEW x \in Machines, ~x.failed, NEW i \in 1 .. Len(c)
    PROVE  ~Halted(c, Pass(x, i)) /\ Pass(x, i) \in Within(c) /\ i \in Nat
<1>1. i \in Nat /\ i \in 1 .. (Len(c) + 1) /\ ~(i > Len(c))
    BY ProgIs
<1>2. Pass(x, i) \in Machines /\ Pass(x, i).pc = i /\ ~Pass(x, i).failed
    BY <1>1, PassIs
<1> QED
    BY ONLY <1>1, <1>2 DEF Halted, Within

\* An idle token is left out.
LEMMA DropIdle ==
    ASSUME NEW P, Prog(P), NEW Q, NEW a, Cut(P, Q, a, 1, 0), Idle(P[a + 1])
    PROVE  Does(P, Q)
<1>1. ASSUME NEW d \in Machines, ~d.failed PROVE Gets(P, Pass(d, a + 1), Pass(d, a + 1 + 1))
    <2>1. a + 1 \in 1 .. Len(P) /\ a + 1 \in Nat
        BY ProgIs DEF Cut
    <2>2. ~Halted(P, Pass(d, a + 1))
        BY <1>1, <2>1, Stands
    <2>3. Do(P, Pass(d, a + 1)) = Pass(d, a + 1 + 1)
        BY <2>1, IdleDoes
    <2> QED
        BY <2>2, <2>3, GetsOn
<1>2. Replaces(P, Q, a, 1, 0)
    BY <1>1 DEF Replaces, Skips
<1> QED
    BY <1>2, CutDoes

\* An idle token is put in.
LEMMA PutIdle ==
    ASSUME NEW P, Prog(P), NEW Q, NEW a, Cut(P, Q, a, 0, 1), Idle(Q[a + 1])
    PROVE  Does(P, Q)
<1>1. ASSUME NEW d \in Machines, ~d.failed
      PROVE  Gets(P, Pass(d, a + 1), Then(Do(Q, Pass(d, a + 1)), a + 0 + 1))
    <2>1. a + 1 \in Nat /\ a + 1 + 1 \in Nat /\ a + 0 + 1 = a + 1
        BY DEF Cut
    <2>2. Do(Q, Pass(d, a + 1)) = Pass(d, a + 1 + 1)
        BY <2>1, IdleDoes
    <2>3. ~Pass(d, a + 1 + 1).failed /\ Pass(Pass(d, a + 1 + 1), a + 1) = Pass(d, a + 1)
        BY <1>1, <2>1, PassIs
    <2>4. Then(Do(Q, Pass(d, a + 1)), a + 0 + 1) = Pass(d, a + 1)
        BY <2>1, <2>2, <2>3 DEF Then
    <2> QED
        BY <2>4, GetsSelf
<1>2. Replaces(P, Q, a, 0, 1)
    BY <1>1 DEF Replaces, Acts
<1> QED
    BY <1>2, CutDoes

\* A machine with its pointer moved, and one with its cell changed.
Shifted(x, n) == Mk(x.tape, x.ptr + n, x.pc, x.out, x.in)

Raised(x, n) == Mk(Put(x.tape, x.ptr, (x.tape[x.ptr] + n) % Mod), x.ptr, x.pc, x.out, x.in)

\* The parts of a machine that has not failed.
Made(m, t, q, c, o, i) ==
    /\ m \in Machines /\ m.tape = t /\ m.ptr = q /\ m.pc = c /\ m.out = o /\ m.in = i /\ ~m.failed

LEMMA MkMade ==
    ASSUME NEW t \in Tapes, NEW q \in Int, NEW c \in Nat, NEW o \in Seq(Byte), NEW i \in Seq(Byte)
    PROVE  Made(Mk(t, q, c, o, i), t, q, c, o, i)
BY MkIs DEF Made

\* Moves add up,
LEMMA ShiftedIs ==
    ASSUME NEW x \in Machines, ~x.failed, NEW m \in Int, NEW n \in Int
    PROVE  /\ Shifted(x, n) \in Machines /\ ~Shifted(x, n).failed /\ Shifted(x, n).out = x.out
           /\ Shifted(x, n).ptr = x.ptr + n /\ Shifted(x, n).tape = x.tape
           /\ Shifted(x, 0) = x /\ Shifted(Shifted(x, m), n) = Shifted(x, m + n)
<1>1. x.tape \in Tapes /\ x.ptr \in Int /\ x.pc \in Nat /\ x.out \in Seq(Byte) /\ x.in \in Seq(Byte)
    BY MachineIs
<1>2. x.ptr + m \in Int /\ x.ptr + n \in Int /\ x.ptr + 0 = x.ptr /\ (x.ptr + m) + n = x.ptr + (m + n)
    BY ONLY <1>1, m \in Int, n \in Int
<1>a. ASSUME NEW k \in Int PROVE Made(Shifted(x, k), x.tape, x.ptr + k, x.pc, x.out, x.in)
    <2>1. x.ptr + k \in Int
        BY <1>1
    <2> QED
        BY <1>1, <2>1, MkMade DEF Shifted
<1>3. /\ Shifted(x, n) \in Machines /\ ~Shifted(x, n).failed /\ Shifted(x, n).out = x.out
      /\ Shifted(x, n).ptr = x.ptr + n /\ Shifted(x, n).tape = x.tape
    BY <1>a DEF Made
<1>4. Shifted(x, 0) = x
    BY <1>2, MachineIs DEF Shifted
<1>5. Shifted(Shifted(x, m), n) = Shifted(x, m + n)
    <2>1. /\ Shifted(x, m).tape = x.tape /\ Shifted(x, m).ptr = x.ptr + m /\ Shifted(x, m).pc = x.pc
          /\ Shifted(x, m).out = x.out /\ Shifted(x, m).in = x.in
        BY <1>a DEF Made
    <2> QED
        BY ONLY <1>2, <2>1 DEF Shifted
<1> QED
    BY <1>3, <1>4, <1>5

\* and a run of moves makes one.
LEMMA MoveDoes ==
    ASSUME NEW c, NEW x \in Machines, ~x.failed, NEW i \in Nat, c[i].op = "move", c[i].arg \in Int
    PROVE  Do(c, Pass(x, i)) = Pass(Shifted(x, c[i].arg), i + 1)
<1>1. CASE Idle(c[i])
    <2>1. c[i].arg = 0
        BY <1>1 DEF Idle, IsNote, IsRun
    <2>2. Shifted(x, 0) = x
        BY ShiftedIs
    <2>3. Do(c, Pass(x, i)) = Pass(x, i + 1)
        BY <1>1, IdleDoes
    <2> QED
        BY ONLY <2>1, <2>2, <2>3
<1>2. CASE ~Idle(c[i])
    <2>1. Pass(x, i) = Mk(x.tape, x.ptr, i, x.out, x.in) /\ Pass(x, i).pc = i
        BY PassIs, PassOf
    <2>2. Do(c, Pass(x, i)) = Execute(c, Partners(c), Mk(x.tape, x.ptr, i, x.out, x.in))
        BY ONLY <1>2, <2>1 DEF Do
    <2>3. Execute(c, Partners(c), Mk(x.tape, x.ptr, i, x.out, x.in)) = Mk(x.tape, x.ptr + c[i].arg, i + 1, x.out, x.in)
        BY DoMove
    <2>4. Pass(Shifted(x, c[i].arg), i + 1) = Mk(x.tape, x.ptr + c[i].arg, i + 1, x.out, x.in)
        BY PassMk DEF Shifted
    <2> QED
        BY ONLY <2>2, <2>3, <2>4
<1> QED
    BY <1>1, <1>2

\* Additions add up, around the width of a cell,
LEMMA RaisedIs ==
    ASSUME NEW x \in Machines, ~x.failed, x.ptr \in Cells, NEW m \in Int, NEW n \in Int
    PROVE  /\ Raised(x, n) \in Machines /\ ~Raised(x, n).failed /\ Raised(x, n).out = x.out
           /\ Raised(x, n).ptr = x.ptr
           /\ Raised(x, 0) = x /\ Raised(Raised(x, m), n) = Raised(x, m + n)
<1> DEFINE t == x.tape
           q == x.ptr
           u(k) == Put(t, q, (t[q] + k) % Mod)
<1>1. t \in Tapes /\ q \in Int /\ x.pc \in Nat /\ x.out \in Seq(Byte) /\ x.in \in Seq(Byte) /\ t[q] \in Byte /\ t[q] \in Int
    BY MachineIs, CellByte
<1>2. ASSUME NEW k \in Int
      PROVE  /\ (t[q] + k) % Mod \in Byte /\ u(k) \in Tapes /\ u(k)[q] = (t[q] + k) % Mod
             /\ \A w : Put(u(k), q, w) = Put(t, q, w)
    <2>1. (t[q] + k) % Mod \in Byte
        <3>1. t[q] + k \in Int
            BY <1>1
        <3> QED
            BY <3>1, ModByte
    <2> QED
        BY <1>1, <2>1, PutIs
<1>3. ASSUME NEW k \in Int
      PROVE  /\ Raised(x, k) \in Machines /\ ~Raised(x, k).failed /\ Raised(x, k).out = x.out
             /\ Raised(x, k).ptr = q /\ Raised(x, k).tape = u(k) /\ Raised(x, k).pc = x.pc /\ Raised(x, k).in = x.in
    <2>1. Made(Raised(x, k), u(k), q, x.pc, x.out, x.in)
        BY <1>1, <1>2, MkMade DEF Raised
    <2> HIDE DEF u, q
    <2> QED
        BY ONLY <2>1 DEF Made
<1>4. Raised(x, 0) = x
    <2>1. (t[q] + 0) % Mod = t[q]
        BY <1>1, ModSmall
    <2>2. Put(t, q, t[q]) = t
        BY <1>1, PutIs
    <2>3. x = Mk(t, q, x.pc, x.out, x.in)
        BY ONLY x \in Machines, ~x.failed, MachineIs
    <2> QED
        BY ONLY <2>1, <2>2, <2>3 DEF Raised
<1>5. Raised(Raised(x, m), n) = Raised(x, m + n)
    <2>1. (((t[q] + m) % Mod) + n) % Mod = (t[q] + (m + n)) % Mod
        <3>1. t[q] + m \in Int /\ (t[q] + m) + n = t[q] + (m + n)
            BY <1>1
        <3>2. (((t[q] + m) % Mod) + n) % Mod = ((t[q] + m) + n) % Mod
            BY <3>1, ModAdd
        <3> QED
            BY ONLY <3>1, <3>2
    <2>2. Put(u(m), q, (u(m)[q] + n) % Mod) = u(m + n)
        BY <1>2, <2>1
    <2> HIDE DEF u, t, q
    <2>3. Raised(Raised(x, m), n) = Mk(Put(u(m), q, (u(m)[q] + n) % Mod), q, x.pc, x.out, x.in)
        BY ONLY <1>3, m \in Int DEF Raised
    <2> QED
        BY ONLY <2>2, <2>3 DEF Raised, u, t, q
<1> QED
    BY <1>3, <1>4, <1>5

\* and a run of them makes one, on the tape.
LEMMA AddDoes ==
    ASSUME NEW c, NEW x \in Machines, ~x.failed, NEW i \in Nat, c[i].op = "add", c[i].arg \in Int
    PROVE  Do(c, Pass(x, i)) =
                IF x.ptr \in Cells THEN Pass(Raised(x, c[i].arg), i + 1)
                ELSE IF c[i].arg = 0 THEN Pass(x, i + 1) ELSE Fail(Pass(x, i))
<1>1. CASE Idle(c[i])
    <2>1. c[i].arg = 0
        BY <1>1 DEF Idle, IsNote, IsRun
    <2>2. x.ptr \in Cells => Raised(x, 0) = x
        BY RaisedIs
    <2>3. Do(c, Pass(x, i)) = Pass(x, i + 1)
        BY <1>1, IdleDoes
    <2> QED
        BY ONLY <2>1, <2>2, <2>3
<1>2. CASE ~Idle(c[i])
    <2>1. Pass(x, i) = Mk(x.tape, x.ptr, i, x.out, x.in) /\ Pass(x, i).pc = i
        BY PassIs, PassOf
    <2>2. Do(c, Pass(x, i)) = Execute(c, Partners(c), Mk(x.tape, x.ptr, i, x.out, x.in))
        BY ONLY <1>2, <2>1 DEF Do
    <2>3. c[i].arg # 0
        BY <1>2 DEF Idle, IsRun
    <2>4. CASE x.ptr \in Cells
        <3>1. Execute(c, Partners(c), Mk(x.tape, x.ptr, i, x.out, x.in)) =
                    Mk(Put(x.tape, x.ptr, (x.tape[x.ptr] + c[i].arg) % Mod), x.ptr, i + 1, x.out, x.in)
            BY <2>4, DoAdd
        <3>2. Pass(Raised(x, c[i].arg), i + 1) =
                    Mk(Put(x.tape, x.ptr, (x.tape[x.ptr] + c[i].arg) % Mod), x.ptr, i + 1, x.out, x.in)
            BY PassMk DEF Raised
        <3> QED
            BY ONLY <2>2, <2>4, <3>1, <3>2
    <2>5. CASE x.ptr \notin Cells
        <3>1. Execute(c, Partners(c), Mk(x.tape, x.ptr, i, x.out, x.in)) = Fail(Mk(x.tape, x.ptr, i, x.out, x.in))
            BY <2>5, DoFails
        <3> QED
            BY ONLY <2>1, <2>2, <2>3, <2>5, <3>1
    <2> QED
        BY ONLY <2>4, <2>5
<1> QED
    BY <1>1, <1>2

\* The first step from a token.
LEMMA OneStep ==
    ASSUME NEW c, Prog(c), NEW d \in Machines, ~d.failed, NEW i \in 1 .. Len(c)
    PROVE  Reach(c, Pass(d, i), Do(c, Pass(d, i)))
<1>1. ~Halted(c, Pass(d, i))
    BY Stands
<1> QED
    BY ONLY <1>1, ReachSelf, ReachOn

LEMMA TwoSteps ==
    ASSUME NEW c, Prog(c), NEW d \in Machines, ~d.failed, NEW i \in 1 .. Len(c), i + 1 \in 1 .. Len(c),
           NEW r \in Machines, ~r.failed, Do(c, Pass(d, i)) = Pass(r, i + 1)
    PROVE  Reach(c, Pass(d, i), Do(c, Pass(r, i + 1)))
<1>1. Reach(c, Pass(d, i), Pass(r, i + 1))
    BY OneStep
<1>2. Reach(c, Pass(r, i + 1), Do(c, Pass(r, i + 1)))
    BY OneStep
<1> QED
    BY ONLY <1>1, <1>2, ReachTrans

\* Two runs of the same kind are made one.
LEMMA MergeRuns ==
    ASSUME NEW P, Prog(P), NEW Q, NEW a, Cut(P, Q, a, 2, 1),
           IsRun(P[a + 1]), P[a + 2].op = P[a + 1].op, Q[a + 1].op = P[a + 1].op,
           Q[a + 1].arg = P[a + 1].arg + P[a + 2].arg
    PROVE  Does(P, Q)
<1> DEFINE m == P[a + 1].arg
           n == P[a + 2].arg
           i == a + 1
<1>1. /\ i \in 1 .. Len(P) /\ i + 1 \in 1 .. Len(P) /\ i \in Nat /\ i + 1 \in Nat /\ a + 2 = i + 1
      /\ a + 2 + 1 = i + 2 /\ i + 2 \in Nat /\ i + 1 + 1 = i + 2
    BY ProgIs DEF Cut
<1>2. m \in Int /\ n \in Int /\ m + n \in Int
    BY <1>1, ProgIs DEF Toks
<1>3. ASSUME NEW d \in Machines, ~d.failed
      PROVE  Gets(P, Pass(d, i), Then(Do(Q, Pass(d, i)), i + 2))
    <2>1. CASE P[i].op = "move"
        <3>a. ASSUME NEW k \in Int PROVE Shifted(d, k) \in Machines /\ ~Shifted(d, k).failed
            BY ONLY <1>3, <3>a, 0 \in Int, ShiftedIs
        <3>2. /\ Shifted(d, m) \in Machines /\ ~Shifted(d, m).failed
              /\ Shifted(d, m + n) \in Machines /\ ~Shifted(d, m + n).failed
              /\ Shifted(Shifted(d, m), n) = Shifted(d, m + n)
            <4>1. Shifted(Shifted(d, m), n) = Shifted(d, m + n)
                BY ONLY <1>2, <1>3, ShiftedIs
            <4>2. Shifted(d, m) \in Machines /\ ~Shifted(d, m).failed
                BY ONLY <1>2, <3>a
            <4>3. Shifted(d, m + n) \in Machines /\ ~Shifted(d, m + n).failed
                BY ONLY <1>2, <3>a
            <4> QED
                BY ONLY <4>1, <4>2, <4>3
        <3>b. Do(P, Pass(d, i)) = Pass(Shifted(d, m), i + 1)
            BY <1>1, <1>2, <1>3, <2>1, MoveDoes
        <3>c. Do(P, Pass(Shifted(d, m), i + 1)) = Pass(Shifted(Shifted(d, m), n), i + 1 + 1)
            BY <1>1, <1>2, <2>1, <3>2, MoveDoes
        <3>d. Do(Q, Pass(d, i)) = Pass(Shifted(d, m + n), i + 1)
            BY <1>1, <1>2, <1>3, <2>1, MoveDoes
        <3>1. /\ Do(P, Pass(d, i)) = Pass(Shifted(d, m), i + 1)
              /\ Do(P, Pass(Shifted(d, m), i + 1)) = Pass(Shifted(Shifted(d, m), n), i + 1 + 1)
              /\ Do(Q, Pass(d, i)) = Pass(Shifted(d, m + n), i + 1)
            BY ONLY <3>b, <3>c, <3>d
        <3>3. Reach(P, Pass(d, i), Do(P, Pass(Shifted(d, m), i + 1)))
            BY <1>1, <1>3, <3>1, <3>2, TwoSteps
        <3>4. Then(Do(Q, Pass(d, i)), i + 2) = Pass(Shifted(d, m + n), i + 2)
            BY <1>1, <3>1, <3>2, PassIs DEF Then
        <3> HIDE DEF i, m, n
        <3> QED
            BY ONLY <1>1, <3>1, <3>2, <3>3, <3>4 DEF Gets
    <2>2. CASE P[i].op = "add" /\ d.ptr \in Cells
        <3>1. /\ Raised(d, m) \in Machines /\ ~Raised(d, m).failed /\ Raised(d, m).ptr \in Cells
              /\ Raised(d, m + n) \in Machines /\ ~Raised(d, m + n).failed
              /\ Raised(Raised(d, m), n) = Raised(d, m + n)
            BY <1>2, <1>3, <2>2, RaisedIs
        <3>a. Do(P, Pass(d, i)) = Pass(Raised(d, m), i + 1)
            BY <1>1, <1>2, <1>3, <2>2, AddDoes
        <3>b. Do(P, Pass(Raised(d, m), i + 1)) = Pass(Raised(Raised(d, m), n), i + 1 + 1)
            BY <1>1, <1>2, <2>2, <3>1, AddDoes
        <3>c. Do(Q, Pass(d, i)) = Pass(Raised(d, m + n), i + 1)
            BY <1>1, <1>2, <1>3, <2>2, AddDoes
        <3>2. /\ Do(P, Pass(d, i)) = Pass(Raised(d, m), i + 1)
              /\ Do(P, Pass(Raised(d, m), i + 1)) = Pass(Raised(Raised(d, m), n), i + 1 + 1)
              /\ Do(Q, Pass(d, i)) = Pass(Raised(d, m + n), i + 1)
            BY ONLY <3>a, <3>b, <3>c
        <3>3. Reach(P, Pass(d, i), Do(P, Pass(Raised(d, m), i + 1)))
            BY <1>1, <1>3, <3>1, <3>2, TwoSteps
        <3>4. Then(Do(Q, Pass(d, i)), i + 2) = Pass(Raised(d, m + n), i + 2)
            BY <1>1, <3>1, <3>2, PassIs DEF Then
        <3> HIDE DEF i, m, n
        <3> QED
            BY ONLY <1>1, <3>1, <3>2, <3>3, <3>4 DEF Gets
    <2>3. CASE P[i].op = "add" /\ d.ptr \notin Cells
        <3> DEFINE z == Then(Do(Q, Pass(d, i)), i + 2)
        <3>1. /\ Do(P, Pass(d, i)) = IF m = 0 THEN Pass(d, i + 1) ELSE Fail(Pass(d, i))
              /\ Do(P, Pass(d, i + 1)) = IF n = 0 THEN Pass(d, i + 1 + 1) ELSE Fail(Pass(d, i + 1))
              /\ Do(Q, Pass(d, i)) = IF m + n = 0 THEN Pass(d, i + 1) ELSE Fail(Pass(d, i))
            BY <1>1, <1>2, <1>3, <2>3, AddDoes
        <3>2. ASSUME NEW k \in Nat
              PROVE  /\ Fail(Pass(d, k)).failed /\ Fail(Pass(d, k)).out = d.out
                     /\ ~Pass(d, k).failed /\ Pass(d, k).out = d.out
                     /\ \A j : Pass(Pass(d, k), j) = Pass(d, j)
            BY <1>3, PassIs, FailPass
        <3>3. z = IF m + n = 0 THEN Pass(d, i + 2) ELSE Fail(Pass(d, i))
            BY <1>1, <3>1, <3>2 DEF Then
        <3>4. z.out = d.out /\ Upto(d.out, d.out)
            BY <1>1, <1>3, <3>2, <3>3, MachineIs, UptoIs
        <3> HIDE DEF z, i, m, n
        <3>5. CASE m # 0
            <4>1. Reach(P, Pass(d, i), Fail(Pass(d, i)))
                BY <1>1, <1>3, <3>1, <3>5, OneStep
            <4> QED
                BY ONLY <1>1, <3>2, <3>4, <4>1 DEF Gets, Dies, z
        <3>6. CASE m = 0
            <4>1. Reach(P, Pass(d, i), Do(P, Pass(d, i + 1)))
                BY <1>1, <1>3, <3>1, <3>6, TwoSteps
            <4>2. CASE n = 0
                <5>1. Reach(P, Pass(d, i), z)
                    BY ONLY <1>1, <3>1, <3>3, <3>6, <4>1, <4>2
                <5> QED
                    BY ONLY <5>1 DEF Gets, z
            <4>3. CASE n # 0
                <5>1. Reach(P, Pass(d, i), Fail(Pass(d, i + 1)))
                    BY ONLY <3>1, <4>1, <4>3
                <5> QED
                    BY ONLY <1>1, <3>2, <3>4, <5>1 DEF Gets, Dies, z
            <4> QED
                BY <4>2, <4>3
        <3> QED
            BY <3>5, <3>6
    <2> QED
        BY <2>1, <2>2, <2>3 DEF IsRun
<1>4. Replaces(P, Q, a, 2, 1)
    BY <1>1, <1>3 DEF Replaces, Acts
<1> QED
    BY <1>4, CutDoes

\* Behind a `]' at a, and notes, a loop from b to e.
DeadLoop(P, a, b, e) ==
    /\ a \in Nat /\ a >= 1 /\ P[a].op = "close"
    /\ b \in (a + 1) .. Len(P) /\ \A k \in (a + 1) .. (b - 1) : IsNote(P[k])
    /\ Closes(P, b, e)

LEMMA DeadLoopIs ==
    ASSUME NEW P, Prog(P), NEW a, NEW b, NEW e, DeadLoop(P, a, b, e)
    PROVE  /\ Len(P) \in Nat /\ DOMAIN P = 1 .. Len(P) /\ a \in Nat /\ a >= 1
           /\ b \in (a + 1) .. Len(P) /\ e \in (b + 1) .. Len(P) /\ e \in Nat /\ b \in Nat
           /\ P[b].op = "open"
BY ProgIs DEF DeadLoop, Closes, Brackets

\* It is as deep behind the loop as it is behind the `]', and not less in between.
LEMMA DeadLoopDepth ==
    ASSUME NEW P, Prog(P), NEW a, NEW b, NEW e, DeadLoop(P, a, b, e)
    PROVE  Depth(P, e) = Depth(P, a) /\ \A k \in a .. e : Depth(P, k) >= Depth(P, a)
<1>1. /\ Len(P) \in Nat /\ DOMAIN P = 1 .. Len(P) /\ a \in Nat /\ a >= 1
      /\ b \in (a + 1) .. Len(P) /\ e \in (b + 1) .. Len(P) /\ e \in Nat /\ b \in Nat
      /\ P[b].op = "open"
    BY DeadLoopIs
<1>2. /\ \A p \in 0 .. Len(P) : Depth(P, p) \in Int
      /\ \A p \in 1 .. Len(P) : Depth(P, p) = Depth(P, p - 1) + Turn(P[p])
    BY <1>1, DepthStep
<1> DEFINE S == {k \in 0 .. (b - 1 - a) : Depth(P, a + k) = Depth(P, a)}
<1>3. 0 \in S
    BY <1>1
<1>4. ASSUME NEW k \in 0 .. (b - 1 - a - 1), k \in S PROVE k + 1 \in S
    <2>1. /\ a + (k + 1) \in 1 .. Len(P) /\ a + (k + 1) - 1 = a + k /\ k + 1 \in 0 .. (b - 1 - a)
          /\ a + (k + 1) \in (a + 1) .. (b - 1)
        BY ONLY <1>1, k \in 0 .. (b - 1 - a - 1)
    <2>2. Turn(P[a + (k + 1)]) = 0
        BY ONLY DeadLoop(P, a, b, e), <2>1 DEF DeadLoop, IsNote, Turn
    <2>3. Depth(P, a + (k + 1)) = Depth(P, a + k) + Turn(P[a + (k + 1)])
        <3> DEFINE j == a + (k + 1)
        <3>1. j \in 1 .. Len(P) /\ j - 1 = a + k
            BY ONLY <1>1, k \in 0 .. (b - 1 - a - 1)
        <3> HIDE DEF j
        <3>2. Depth(P, j) = Depth(P, j - 1) + Turn(P[j])
            BY ONLY <1>2, <3>1
        <3>3. Depth(P, j) = Depth(P, a + k) + Turn(P[j])
            BY ONLY <3>1, <3>2
        <3> QED
            BY ONLY <3>3 DEF j
    <2>4. Depth(P, a + k) = Depth(P, a) /\ Depth(P, a) \in Int
        BY <1>1, <1>2, <1>4
    <2>5. Depth(P, a + (k + 1)) = Depth(P, a)
        BY ONLY <2>2, <2>3, <2>4
    <2> QED
        BY <2>1, <2>5
<1>5. b - 1 - a \in Nat
    BY <1>1
<1> HIDE DEF S
<1>6. 0 .. (b - 1 - a) \subseteq S
    BY ONLY <1>3, <1>4, <1>5, BoundedInd
<1>7. ASSUME NEW k \in a .. (b - 1) PROVE Depth(P, k) = Depth(P, a)
    <2>1. k - a \in 0 .. (b - 1 - a) /\ a + (k - a) = k
        BY <1>1
    <2> QED
        BY <1>6, <2>1 DEF S
<1>8. Depth(P, b) = Depth(P, a) + 1 /\ Depth(P, a) \in Int
    <2>1. Turn(P[b]) = 1
        BY <1>1 DEF Turn
    <2>2. b \in 1 .. Len(P) /\ b - 1 \in a .. (b - 1) /\ a \in 0 .. Len(P)
        BY <1>1
    <2>3. Depth(P, b) = Depth(P, b - 1) + Turn(P[b]) /\ Depth(P, b - 1) = Depth(P, a) /\ Depth(P, a) \in Int
        BY <1>2, <1>7, <2>2
    <2> QED
        BY ONLY <2>1, <2>3
<1>9. Depth(P, e) = Depth(P, b) - 1 /\ \A k \in b .. (e - 1) : Depth(P, k) >= Depth(P, b)
    BY DEF DeadLoop, Closes
<1>10. Depth(P, e) = Depth(P, a)
    BY ONLY <1>8, <1>9
<1>11. ASSUME NEW k \in a .. e PROVE Depth(P, k) >= Depth(P, a)
    <2>1. CASE k \in a .. (b - 1)
        BY <1>7, <1>8, <2>1
    <2>2. CASE k \in b .. (e - 1)
        <3>1. Depth(P, k) >= Depth(P, b) /\ Depth(P, k) \in Int
            <4>1. k \in 0 .. Len(P)
                BY <1>1, <2>2
            <4> QED
                BY <1>2, <1>9, <2>2, <4>1
        <3> QED
            BY ONLY <1>8, <3>1
    <2>3. CASE k = e
        BY ONLY <1>8, <1>10, <2>3
    <2> QED
        BY <1>1, <2>1, <2>2, <2>3
<1> QED
    BY <1>10, <1>11

\* A loop behind a loop, whose cell is 0 when it is reached, is left out.
LEMMA DropDead ==
    ASSUME NEW P, Prog(P), NEW Q, NEW a, NEW b, NEW e, DeadLoop(P, a, b, e), Cut(P, Q, a, e - a, 0)
    PROVE  Does(P, Q)
<1>1. /\ Len(P) \in Nat /\ DOMAIN P = 1 .. Len(P) /\ a \in Nat /\ a >= 1
      /\ b \in (a + 1) .. Len(P) /\ e \in (b + 1) .. Len(P) /\ e \in Nat /\ b \in Nat
      /\ P[b].op = "open"
    BY DeadLoopIs
<1>2. ASSUME NEW d \in Machines, ~d.failed, Cleared(P, a, d)
      PROVE  Gets(P, Pass(d, a + 1), Pass(d, e + 1))
    <2>1. d.ptr \in Cells /\ d.tape[d.ptr] = 0
        BY <1>1, <1>2 DEF Cleared, DeadLoop
    <2> DEFINE S == {k \in 0 .. (b - 1 - a) : Reach(P, Pass(d, a + 1), Pass(d, a + 1 + k))}
    <2>2. 0 \in S
        <3>1. a + 1 + 0 = a + 1 /\ 0 \in 0 .. (b - 1 - a)
            BY <1>1
        <3> QED
            BY <3>1, ReachSelf
    <2>3. ASSUME NEW k \in 0 .. (b - 1 - a - 1), k \in S PROVE k + 1 \in S
        <3>1. /\ a + 1 + k \in 1 .. Len(P) /\ a + 1 + k \in Nat /\ a + 1 + k + 1 = a + 1 + (k + 1)
              /\ k + 1 \in 0 .. (b - 1 - a) /\ a + 1 + k \in (a + 1) .. (b - 1)
            BY ONLY <1>1, k \in 0 .. (b - 1 - a - 1)
        <3>2. Idle(P[a + 1 + k])
            BY <3>1 DEF DeadLoop, Idle
        <3>3. Do(P, Pass(d, a + 1 + k)) = Pass(d, a + 1 + (k + 1))
            BY <3>1, <3>2, IdleDoes
        <3>4. Reach(P, Pass(d, a + 1 + k), Do(P, Pass(d, a + 1 + k)))
            BY <1>2, <3>1, OneStep
        <3>5. Reach(P, Pass(d, a + 1), Pass(d, a + 1 + k))
            BY <2>3
        <3>6. Reach(P, Pass(d, a + 1), Pass(d, a + 1 + (k + 1)))
            BY ONLY <3>3, <3>4, <3>5, ReachTrans
        <3> QED
            BY <3>1, <3>6
    <2>4. b - 1 - a \in Nat /\ b - 1 - a \in 0 .. (b - 1 - a) /\ a + 1 + (b - 1 - a) = b
        BY <1>1
    <2> HIDE DEF S
    <2>5. 0 .. (b - 1 - a) \subseteq S
        BY ONLY <2>2, <2>3, <2>4, BoundedInd
    <2>6. Reach(P, Pass(d, a + 1), Pass(d, b))
        BY <2>4, <2>5 DEF S
    <2>7. b \in 1 .. Len(P) /\ e \in 1 .. Len(P) /\ IsBracket(P[b])
        BY <1>1 DEF IsBracket
    <2>8. Paired(P, b, e)
        BY DEF DeadLoop, Paired
    <2>9. BracketMoves(P, b, e, d)
        BY <1>2, <2>7, <2>8, BracketDoes
    <2>10. Do(P, Pass(d, b)) = Pass(d, e + 1)
        BY <1>1, <2>1, <2>9 DEF BracketMoves, Landing
    <2>11. Reach(P, Pass(d, b), Do(P, Pass(d, b)))
        BY <1>2, <2>7, OneStep
    <2>12. Reach(P, Pass(d, a + 1), Pass(d, e + 1))
        BY ONLY <2>6, <2>10, <2>11, ReachTrans
    <2> QED
        BY ONLY <2>12 DEF Gets
<1>3. a + (e - a) + 1 = e + 1
    BY <1>1
<1>4. Replaces(P, Q, a, e - a, 0)
    BY <1>2, <1>3 DEF Replaces, Skips
<1> QED
    BY <1>4, CutDoes

\* A scan behind the first b tokens: a move at i, and a loop at j, k and l.
Scan(P, b, i, j, k, l, n) ==
    /\ b \in Nat /\ i = b + 1 /\ j = b + 2 /\ k = b + 3 /\ l = b + 4 /\ l <= Len(P) /\ n \in Int
    /\ P[i].op = "move" /\ P[i].arg = n
    /\ P[j].op = "open"
    /\ P[k].op = "move" /\ P[k].arg = n
    /\ P[l].op = "close"

\* The tokens of a scan follow each other.
ScanPlaces(P, b, i, j, k, l) ==
    /\ i \in 1 .. Len(P) /\ j \in 1 .. Len(P) /\ k \in 1 .. Len(P) /\ l \in 1 .. Len(P)
    /\ b \in Nat /\ i \in Nat /\ j \in Nat /\ k \in Nat /\ l \in Nat
    /\ i - 1 = b /\ j - 1 = i /\ k - 1 = j /\ l - 1 = k
    /\ i + 1 = j /\ j + 1 = k /\ k + 1 = l
    /\ j < l /\ \A p \in j .. (l - 1) : p = j \/ p = k

LEMMA ScanIs ==
    ASSUME NEW P, Prog(P), NEW b, NEW i, NEW j, NEW k, NEW l, NEW n, Scan(P, b, i, j, k, l, n)
    PROVE  ScanPlaces(P, b, i, j, k, l)
<1>1. Len(P) \in Nat
    BY ProgIs
<1> QED
    BY ONLY <1>1, Scan(P, b, i, j, k, l, n) DEF Scan, ScanPlaces

\* How deep its tokens are.
ScanDeep(P, b, i, j, k, l) ==
    /\ Depth(P, b) \in Int
    /\ Depth(P, i) = Depth(P, b) /\ Depth(P, j) = Depth(P, b) + 1
    /\ Depth(P, k) = Depth(P, b) + 1 /\ Depth(P, l) = Depth(P, b)

\* How deep a token makes a program.
DeepAt(P, j) ==
    /\ Depth(P, j) \in Int /\ Depth(P, j - 1) \in Int
    /\ Depth(P, j) = Depth(P, j - 1) + Turn(P[j])

LEMMA TurnAt ==
    ASSUME NEW P, Prog(P), NEW j \in 1 .. Len(P)
    PROVE  DeepAt(P, j)
<1>1. Len(P) \in Nat /\ DOMAIN P = 1 .. Len(P)
    BY ProgIs
<1>2. \A p \in 1 .. Len(P) : Depth(P, p) = Depth(P, p - 1) + Turn(P[p])
    BY ONLY <1>1, DepthStep
<1>3. \A p \in 0 .. Len(P) : Depth(P, p) \in Int
    BY ONLY <1>1, DepthStep
<1>4. j - 1 \in 0 .. Len(P) /\ j \in 0 .. Len(P)
    BY <1>1
<1> QED
    BY <1>2, <1>3, <1>4 DEF DeepAt

\* A scan opens and closes one loop.
LEMMA ScanDepth ==
    ASSUME NEW P, Prog(P), NEW b, NEW i, NEW j, NEW k, NEW l, NEW n, Scan(P, b, i, j, k, l, n)
    PROVE  ScanDeep(P, b, i, j, k, l)
<1>1. ScanPlaces(P, b, i, j, k, l)
    BY ScanIs
<1>2. DeepAt(P, i) /\ DeepAt(P, j) /\ DeepAt(P, k) /\ DeepAt(P, l)
    BY <1>1, TurnAt DEF ScanPlaces
<1>3. Turn(P[i]) = 0 /\ Turn(P[j]) = 1 /\ Turn(P[k]) = 0 /\ Turn(P[l]) = -1
    BY DEF Scan, Turn
<1>4. i - 1 = b /\ j - 1 = i /\ k - 1 = j /\ l - 1 = k
    BY ONLY <1>1 DEF ScanPlaces
<1>5. /\ Depth(P, b) \in Int /\ Depth(P, i) \in Int /\ Depth(P, j) \in Int /\ Depth(P, k) \in Int
      /\ Depth(P, i) = Depth(P, b) + 0 /\ Depth(P, j) = Depth(P, i) + 1
      /\ Depth(P, k) = Depth(P, j) + 0 /\ Depth(P, l) = Depth(P, k) + -1
    BY ONLY <1>2, <1>3, <1>4 DEF DeepAt
<1> QED
    BY ONLY <1>5 DEF ScanDeep

LEMMA ScanCloses ==
    ASSUME NEW P, Prog(P), NEW b, NEW i, NEW j, NEW k, NEW l, NEW n, Scan(P, b, i, j, k, l, n)
    PROVE  Closes(P, j, l)
<1>0. ScanPlaces(P, b, i, j, k, l)
    BY ScanIs
<1>1. ScanDeep(P, b, i, j, k, l)
    BY ScanDepth
<1>2. j \in Brackets(P, "open") /\ l \in Brackets(P, "close") /\ j < l
    BY <1>0, ProgIs DEF Scan, ScanPlaces, Brackets
<1>3. \A p \in j .. (l - 1) : p = j \/ p = k
    BY <1>0 DEF ScanPlaces
<1>4. Depth(P, l) = Depth(P, j) - 1
    BY ONLY <1>1 DEF ScanDeep
<1>5. \A p \in j .. (l - 1) : Depth(P, p) >= Depth(P, j)
    BY ONLY <1>1, <1>3 DEF ScanDeep
<1> QED
    BY ONLY <1>2, <1>4, <1>5 DEF Closes

\* At the brackets of a scan a machine dies, leaves or goes on.
ScanGoes(P, k, l, p, x) ==
    Do(P, Pass(x, p)) = IF x.ptr \notin Cells THEN Fail(Pass(x, p))
                        ELSE IF x.tape[x.ptr] = 0 THEN Pass(x, l + 1) ELSE Pass(x, k)

\* Either bracket of a scan tests the cell and leads on or out.
LEMMA ScanBracket ==
    ASSUME NEW P, Prog(P), NEW b, NEW i, NEW j, NEW k, NEW l, NEW n, Scan(P, b, i, j, k, l, n),
           NEW p \in {j, l}, NEW x \in Machines, ~x.failed
    PROVE  ScanGoes(P, k, l, p, x)
<1>1. ScanPlaces(P, b, i, j, k, l)
    BY ScanIs
<1>2. /\ j \in 1 .. Len(P) /\ l \in 1 .. Len(P) /\ j + 1 = k
      /\ P[j].op = "open" /\ P[l].op = "close"
    BY <1>1 DEF Scan, ScanPlaces
<1>3. Closes(P, j, l)
    BY ScanCloses
<1>4. BracketMoves(P, j, l, x)
    <2>1. Paired(P, j, l) /\ IsBracket(P[j])
        BY <1>2, <1>3 DEF Paired, IsBracket
    <2> QED
        BY <1>2, <2>1, BracketDoes
<1>5. BracketMoves(P, l, j, x)
    <2>1. Paired(P, l, j) /\ IsBracket(P[l])
        BY <1>2, <1>3 DEF Paired, IsBracket
    <2> QED
        BY <1>2, <2>1, BracketDoes
<1>6. CASE p = j
    <2>1. Landing(P[j], j, l, x) = IF x.tape[x.ptr] = 0 THEN l ELSE j
        BY ONLY <1>2 DEF Landing
    <2> QED
        BY ONLY <1>2, <1>4, <1>6, <2>1 DEF BracketMoves, ScanGoes
<1>7. CASE p = l
    <2>1. Landing(P[l], l, j, x) = IF x.tape[x.ptr] = 0 THEN l ELSE j
        BY ONLY <1>2 DEF Landing
    <2> QED
        BY ONLY <1>2, <1>5, <1>7, <2>1 DEF BracketMoves, ScanGoes
<1> QED
    BY <1>6, <1>7

\* The cell m to the right of where a machine stands, and what a scan that comes there does.
NonzeroAt(d, m) == d.ptr + m \in Cells /\ d.tape[d.ptr + m] # 0

\* A scan has come to one of its brackets, m cells from where it began.
Walked(P, d, i, j, l, m) == \E p \in {j, l} : Reach(P, Pass(d, i), Pass(Shifted(d, m), p))

\* A scan by n goes on for s steps while the cells it comes to are not 0.
LEMMA ScanWalks ==
    ASSUME NEW P, Prog(P), NEW b, NEW i, NEW j, NEW k, NEW l, NEW n, Scan(P, b, i, j, k, l, n),
           NEW d \in Machines, ~d.failed,
           NEW s \in Nat, s >= 1, \A u \in 1 .. (s - 1) : NonzeroAt(d, u * n)
    PROVE  Walked(P, d, i, j, l, s * n)
<1>1. ScanPlaces(P, b, i, j, k, l)
    BY ScanIs
<1>2. /\ i \in 1 .. Len(P) /\ k \in 1 .. Len(P) /\ i \in Nat /\ k \in Nat /\ j \in 1 .. Len(P) /\ l \in 1 .. Len(P)
      /\ i + 1 = j /\ k + 1 = l /\ n \in Int
      /\ P[i].op = "move" /\ P[i].arg = n /\ P[k].op = "move" /\ P[k].arg = n
    BY <1>1 DEF Scan, ScanPlaces
<1>3. ASSUME NEW m \in Int, NEW o \in Int
      PROVE  /\ Shifted(d, m) \in Machines /\ ~Shifted(d, m).failed
             /\ Shifted(d, m).ptr = d.ptr + m /\ Shifted(d, m).tape = d.tape
             /\ Shifted(Shifted(d, m), o) = Shifted(d, m + o)
    BY ONLY <1>3, d \in Machines, ~d.failed, ShiftedIs
<1> DEFINE S == {u \in 0 .. (s - 1) : Walked(P, d, i, j, l, (u + 1) * n)}
<1>4. 0 \in S
    <2>1. Do(P, Pass(d, i)) = Pass(Shifted(d, n), j)
        BY <1>2, MoveDoes
    <2>2. Reach(P, Pass(d, i), Pass(Shifted(d, n), j))
        BY <1>2, <2>1, OneStep
    <2>3. (0 + 1) * n = n /\ 0 \in 0 .. (s - 1)
        BY <1>2
    <2>4. Walked(P, d, i, j, l, n)
        BY ONLY <2>2 DEF Walked
    <2> QED
        BY <2>3, <2>4
<1>5. ASSUME NEW u \in 0 .. (s - 1 - 1), u \in S PROVE u + 1 \in S
    <2> DEFINE m == (u + 1) * n
    <2>1. u + 1 \in 1 .. (s - 1) /\ u + 1 \in 0 .. (s - 1) /\ u \in Int /\ u + 1 \in Int
        OBVIOUS
    <2>2. m \in Int /\ m + n = (u + 1 + 1) * n
        BY <1>2, <2>1
    <2>3. NonzeroAt(d, m)
        BY <2>1
    <2>4. Walked(P, d, i, j, l, m)
        BY <1>5
    <2> HIDE DEF m, S
    <2>5. PICK p \in {j, l} : Reach(P, Pass(d, i), Pass(Shifted(d, m), p))
        BY ONLY <2>4 DEF Walked
    <2>6. Shifted(d, m) \in Machines /\ ~Shifted(d, m).failed /\ p \in 1 .. Len(P)
        BY <1>2, <1>3, <2>2
    <2>7. ScanGoes(P, k, l, p, Shifted(d, m))
        BY <2>6, ScanBracket
    <2>8. Do(P, Pass(Shifted(d, m), p)) = Pass(Shifted(d, m), k)
        BY <1>2, <1>3, <2>2, <2>3, <2>7 DEF ScanGoes, NonzeroAt
    <2>9. Reach(P, Pass(Shifted(d, m), p), Pass(Shifted(d, m), k))
        BY <2>6, <2>8, OneStep
    <2>10. Do(P, Pass(Shifted(d, m), k)) = Pass(Shifted(Shifted(d, m), n), l)
        BY <1>2, <2>6, MoveDoes
    <2>11. Do(P, Pass(Shifted(d, m), k)) = Pass(Shifted(d, m + n), l)
        BY <1>2, <1>3, <2>2, <2>10
    <2>12. Reach(P, Pass(Shifted(d, m), k), Pass(Shifted(d, m + n), l))
        BY <1>2, <2>6, <2>11, OneStep
    <2>13. Reach(P, Pass(d, i), Pass(Shifted(d, m + n), l))
        BY ONLY <2>5, <2>9, <2>12, ReachTrans
    <2>14. Walked(P, d, i, j, l, m + n)
        BY ONLY <2>13 DEF Walked
    <2> QED
        BY ONLY <2>1, <2>2, <2>14 DEF S
<1>6. s - 1 \in Nat /\ s - 1 \in 0 .. (s - 1) /\ s - 1 + 1 = s
    OBVIOUS
<1> HIDE DEF S
<1>7. 0 .. (s - 1) \subseteq S
    BY ONLY <1>4, <1>5, <1>6, BoundedInd
<1>8. s - 1 \in S
    BY <1>6, <1>7
<1> QED
    BY ONLY <1>6, <1>8 DEF S

\* There it dies off the tape, or leaves at a 0.
ScanEnd(P, d, i, l, m) ==
    /\ d.ptr + m \notin Cells => \E f : Reach(P, Pass(d, i), f) /\ f.failed /\ f.out = d.out
    /\ d.ptr + m \in Cells /\ d.tape[d.ptr + m] = 0 => Reach(P, Pass(d, i), Pass(Shifted(d, m), l + 1))

LEMMA ScanEnds ==
    ASSUME NEW P, Prog(P), NEW b, NEW i, NEW j, NEW k, NEW l, NEW n, Scan(P, b, i, j, k, l, n),
           NEW d \in Machines, ~d.failed, NEW m \in Int, Walked(P, d, i, j, l, m)
    PROVE  ScanEnd(P, d, i, l, m)
<1>1. PICK p \in {j, l} : Reach(P, Pass(d, i), Pass(Shifted(d, m), p))
    BY ONLY Walked(P, d, i, j, l, m) DEF Walked
<1>a. ScanPlaces(P, b, i, j, k, l)
    BY ScanIs
<1>2. p \in 1 .. Len(P) /\ p \in Nat
    BY ONLY <1>a, p \in {j, l} DEF ScanPlaces
<1>3. /\ Shifted(d, m) \in Machines /\ ~Shifted(d, m).failed /\ Shifted(d, m).out = d.out
      /\ Shifted(d, m).ptr = d.ptr + m /\ Shifted(d, m).tape = d.tape
    BY ONLY m \in Int, d \in Machines, ~d.failed, ShiftedIs
<1>4. ScanGoes(P, k, l, p, Shifted(d, m))
    BY <1>3, ScanBracket
<1>5. Reach(P, Pass(Shifted(d, m), p), Do(P, Pass(Shifted(d, m), p)))
    BY <1>2, <1>3, OneStep
<1>6. Reach(P, Pass(d, i), Do(P, Pass(Shifted(d, m), p)))
    BY ONLY <1>1, <1>5, ReachTrans
<1>7. Fail(Pass(Shifted(d, m), p)).failed /\ Fail(Pass(Shifted(d, m), p)).out = d.out
    BY <1>2, <1>3, FailPass
<1>8. d.ptr + m \notin Cells => Do(P, Pass(Shifted(d, m), p)) = Fail(Pass(Shifted(d, m), p))
    BY ONLY <1>3, <1>4 DEF ScanGoes
<1>9. d.ptr + m \in Cells /\ d.tape[d.ptr + m] = 0 => Do(P, Pass(Shifted(d, m), p)) = Pass(Shifted(d, m), l + 1)
    BY ONLY <1>3, <1>4 DEF ScanGoes
<1> QED
    BY ONLY <1>6, <1>7, <1>8, <1>9 DEF ScanEnd

\* Every scan comes to a 0, or to an end of the tape.
Stops(d, n, s) ==
    /\ s \in Nat /\ s >= 1 /\ \A u \in 1 .. (s - 1) : NonzeroAt(d, u * n)
    /\ ~NonzeroAt(d, s * n)

LEMMA ScanStops ==
    ASSUME NEW d \in Machines, d.ptr \in Cells, NEW n \in Int, n < 0
    PROVE  \E s : Stops(d, n, s)
<1> DEFINE S == {s \in Nat : s >= 1 /\ ~NonzeroAt(d, s * n)}
<1>1. TapeSize \in S
    <2>1. TapeSize \in Nat /\ TapeSize >= 1
        BY MachineAssumption
    <2>2. d.ptr \in Int /\ d.ptr < TapeSize
        BY <2>1 DEF Cells
    <2>3. TapeSize * n <= -TapeSize
        <3>1. -n - 1 \in Nat
            OBVIOUS
        <3>2. \A x, y \in Nat : x * y >= 0
            OBVIOUS
        <3>3. TapeSize * (-n - 1) >= 0
            BY <2>1, <3>1, <3>2
        <3>4. TapeSize * (-n - 1) = -(TapeSize * n) - TapeSize
            BY <2>1
        <3>5. TapeSize * n \in Int
            BY <2>1
        <3> QED
            BY <2>1, <3>3, <3>4, <3>5
    <2>4. TapeSize * n \in Int
        BY <2>1
    <2>5. d.ptr + TapeSize * n < 0
        BY ONLY <2>1, <2>2, <2>3, <2>4
    <2>6. d.ptr + TapeSize * n \notin Cells
        BY ONLY <2>1, <2>5 DEF Cells
    <2> QED
        BY <2>1, <2>6 DEF NonzeroAt
<1>2. S \in SUBSET Nat /\ S # {}
    BY <1>1
<1>3. \A s \in S : s \in Nat /\ s >= 1 /\ ~NonzeroAt(d, s * n)
    OBVIOUS
<1>4. \A s \in Nat : s >= 1 /\ s \notin S => NonzeroAt(d, s * n)
    OBVIOUS
<1> HIDE DEF S
<1>5. PICK s \in S : \A u \in S : s <= u
    BY <1>2, LeastNumber
<1>6. \A u \in 1 .. (s - 1) : NonzeroAt(d, u * n)
    BY <1>3, <1>4, <1>5
<1>7. Stops(d, n, s)
    BY ONLY <1>3, <1>5, <1>6 DEF Stops
<1> QED
    BY <1>7

\* Behind a `]' at a, a scan by n up to l, perhaps a note up to b, and a scan by -n up to e.
RoundTrip(P, a, l, b, e, n) ==
    /\ a \in Nat /\ a >= 1 /\ P[a].op = "close" /\ n \in Int /\ n < 0
    /\ l = a + 4 /\ b \in {l, l + 1} /\ (b = l + 1 => IsNote(P[b])) /\ e = b + 4
    /\ Scan(P, a, a + 1, a + 2, a + 3, l, n)
    /\ Scan(P, b, b + 1, b + 2, b + 3, e, -n)

LEMMA RoundTripIs ==
    ASSUME NEW P, Prog(P), NEW a, NEW l, NEW b, NEW e, NEW n, RoundTrip(P, a, l, b, e, n)
    PROVE  /\ a \in Nat /\ l \in Nat /\ b \in Nat /\ e \in Nat /\ a >= 1
           /\ l \in 1 .. Len(P) /\ b \in 1 .. Len(P) /\ e \in 1 .. Len(P) /\ l = a + 4 /\ e = b + 4
           /\ b = l \/ b = l + 1
<1>1. Len(P) \in Nat /\ e <= Len(P)
    BY ProgIs DEF RoundTrip, Scan
<1>2. a \in Nat /\ a >= 1 /\ l = a + 4 /\ (b = l \/ b = l + 1) /\ e = b + 4
    BY DEF RoundTrip
<1> QED
    BY ONLY <1>1, <1>2

\* A round trip opens what it closes.
LEMMA RoundTripDepth ==
    ASSUME NEW P, Prog(P), NEW a, NEW l, NEW b, NEW e, NEW n, RoundTrip(P, a, l, b, e, n)
    PROVE  Depth(P, e) = Depth(P, a) /\ \A k \in a .. e : Depth(P, k) >= Depth(P, a)
<1>1. /\ a \in Nat /\ l \in Nat /\ b \in Nat /\ e \in Nat /\ a >= 1
      /\ l \in 1 .. Len(P) /\ b \in 1 .. Len(P) /\ e \in 1 .. Len(P) /\ l = a + 4 /\ e = b + 4
      /\ b = l \/ b = l + 1
    BY RoundTripIs
<1>2. ScanDeep(P, a, a + 1, a + 2, a + 3, l)
    BY ScanDepth DEF RoundTrip
<1>3. ScanDeep(P, b, b + 1, b + 2, b + 3, e)
    BY ScanDepth DEF RoundTrip
<1>4. Depth(P, b) = Depth(P, l)
    <2>1. CASE b = l + 1
        <3>1. Turn(P[b]) = 0
            BY <2>1 DEF RoundTrip, IsNote, Turn
        <3>2. DeepAt(P, b) /\ b - 1 = l
            BY <1>1, <2>1, TurnAt
        <3> QED
            BY ONLY <3>1, <3>2 DEF DeepAt
    <2> QED
        BY <1>1, <2>1
<1>5. \A k \in a .. e : k \in {a, a + 1, a + 2, a + 3, l, b, b + 1, b + 2, b + 3, e}
    BY ONLY <1>1
<1> QED
    BY ONLY <1>2, <1>3, <1>4, <1>5 DEF ScanDeep

\* A round trip from a 0 comes back to it: the scan back stops at the first 0, and
\* between that and the cell it came from all are non-zero. Or the scan dies off the
\* tape.
LEMMA DropRound ==
    ASSUME NEW P, Prog(P), NEW Q, NEW a, NEW l, NEW b, NEW e, NEW n, RoundTrip(P, a, l, b, e, n),
           Cut(P, Q, a, e - a, 0)
    PROVE  Does(P, Q)
<1>1. /\ a \in Nat /\ l \in Nat /\ b \in Nat /\ e \in Nat /\ a >= 1
      /\ l \in 1 .. Len(P) /\ b \in 1 .. Len(P) /\ e \in 1 .. Len(P) /\ l = a + 4 /\ e = b + 4
      /\ b = l \/ b = l + 1
    BY RoundTripIs
<1>2. /\ Scan(P, a, a + 1, a + 2, a + 3, l, n) /\ Scan(P, b, b + 1, b + 2, b + 3, e, -n)
      /\ n \in Int /\ n < 0 /\ -n \in Int
    BY DEF RoundTrip
<1>3. ASSUME NEW d \in Machines, ~d.failed, Cleared(P, a, d)
      PROVE  Gets(P, Pass(d, a + 1), Pass(d, e + 1))
    <2>1. d.ptr \in Cells /\ d.tape[d.ptr] = 0
        BY <1>1, <1>3 DEF Cleared, RoundTrip
    <2>2. PICK s : Stops(d, n, s)
        BY <1>2, <1>3, <2>1, ScanStops
    <2>3. s \in Nat /\ s >= 1 /\ ~NonzeroAt(d, s * n) /\ \A u \in 1 .. (s - 1) : NonzeroAt(d, u * n)
        BY ONLY <2>2 DEF Stops
    <2> DEFINE m == s * n
               x == Shifted(d, m)
    <2>4. m \in Int /\ s * (-n) = -m /\ -m \in Int /\ m + -m = 0
        BY <1>2, <2>3
    <2>5. Walked(P, d, a + 1, a + 2, l, m)
        BY <1>2, <1>3, <2>3, ScanWalks
    <2>6. \A u \in 1 .. (s - 1) : u * (-n) = -(u * n) /\ s - u \in 1 .. (s - 1) /\ (s - u) * n = m - u * n
        BY <1>2, <2>3
    <2>n. ~NonzeroAt(d, m)
        BY ONLY <2>3
    <2> HIDE DEF m, x
    <2>7. ScanEnd(P, d, a + 1, l, m)
        BY <1>2, <1>3, <2>4, <2>5, ScanEnds
    <2>8. CASE d.ptr + m \notin Cells
        <3>1. PICK f : Reach(P, Pass(d, a + 1), f) /\ f.failed /\ f.out = d.out
            BY ONLY <2>7, <2>8 DEF ScanEnd
        <3>2. Upto(d.out, d.out) /\ e + 1 \in Nat
            BY <1>1, <1>3, MachineIs, UptoIs
        <3>3. Pass(d, e + 1).out = d.out
            BY <1>3, <3>2, PassIs
        <3> QED
            BY ONLY <3>1, <3>2, <3>3 DEF Gets, Dies
    <2>9. CASE d.ptr + m \in Cells
        <3>1. Reach(P, Pass(d, a + 1), Pass(x, l + 1))
            BY ONLY <2>7, <2>9, <2>n DEF ScanEnd, NonzeroAt, x
        <3>2. /\ x \in Machines /\ ~x.failed /\ x.ptr = d.ptr + m /\ x.tape = d.tape
              /\ Shifted(x, -m) = Shifted(d, m + -m) /\ Shifted(d, 0) = d
            BY ONLY <1>3, <2>4, ShiftedIs DEF x
        <3>3. Reach(P, Pass(x, l + 1), Pass(x, b + 1))
            <4>1. CASE b = l
                BY ONLY <4>1, ReachSelf
            <4>2. CASE b = l + 1
                <5>1. Idle(P[b])
                    BY <4>2 DEF RoundTrip, Idle
                <5>2. Do(P, Pass(x, b)) = Pass(x, b + 1)
                    BY <1>1, <3>2, <5>1, IdleDoes
                <5>3. Reach(P, Pass(x, b), Do(P, Pass(x, b)))
                    BY <1>1, <3>2, OneStep
                <5> QED
                    BY ONLY <4>2, <5>2, <5>3
            <4> QED
                BY ONLY <1>1, <4>1, <4>2
        <3>4. ASSUME NEW u \in 1 .. (s - 1) PROVE NonzeroAt(x, u * (-n))
            <4>1. NonzeroAt(d, m - u * n)
                BY ONLY <2>3, <2>6, u \in 1 .. (s - 1)
            <4>2. u * n \in Int /\ d.ptr \in Int
                BY <1>2, <1>3, <2>3, MachineIs
            <4>3. (d.ptr + m) + u * (-n) = d.ptr + (m - u * n)
                BY ONLY <2>4, <2>6, <4>2, u \in 1 .. (s - 1)
            <4> QED
                BY ONLY <3>2, <4>1, <4>3 DEF NonzeroAt
        <3>5. Walked(P, x, b + 1, b + 2, e, s * (-n))
            BY <1>2, <2>3, <3>2, <3>4, ScanWalks
        <3>6. Walked(P, x, b + 1, b + 2, e, -m)
            BY ONLY <2>4, <3>5
        <3>7. ScanEnd(P, x, b + 1, e, -m)
            BY <1>2, <2>4, <3>2, <3>6, ScanEnds
        <3>8. x.ptr + -m = d.ptr
            <4>1. d.ptr \in Int
                BY <1>3, MachineIs
            <4> QED
                BY ONLY <2>4, <3>2, <4>1
        <3>9. Reach(P, Pass(x, b + 1), Pass(Shifted(x, -m), e + 1))
            BY ONLY <2>1, <3>2, <3>7, <3>8 DEF ScanEnd
        <3>10. Shifted(x, -m) = d
            BY ONLY <2>4, <3>2
        <3>11. Reach(P, Pass(d, a + 1), Pass(d, e + 1))
            BY ONLY <3>1, <3>3, <3>9, <3>10, ReachTrans
        <3> QED
            BY ONLY <3>11 DEF Gets
    <2> QED
        BY <2>8, <2>9
<1>4. a + (e - a) + 1 = e + 1
    BY ONLY <1>1
<1>5. Replaces(P, Q, a, e - a, 0)
    BY <1>3, <1>4 DEF Replaces, Skips
<1> QED
    BY <1>5, CutDoes

-----------------------------------------------------------------------------
(* A pass has rewritten a program up to some place.                          *)

\* What a pass has made so far, and what it has still to read of s.
Rest(out, s, i) ==
    [k \in 1 .. (Len(out) + (Len(s) - i + 1)) |-> IF k <= Len(out) THEN out[k] ELSE s[k - Len(out) + (i - 1)]]

\* Its tokens, one by one.
RestMade(r, out, s, i) ==
    /\ r \in Seq(Toks) /\ DOMAIN r = 1 .. Len(r) /\ Len(r) = Len(out) + (Len(s) - i + 1)
    /\ \A k \in 1 .. Len(out) : r[k] = out[k]
    /\ \A k \in (Len(out) + 1) .. Len(r) : r[k] = s[k - Len(out) + (i - 1)]

LEMMA RestIs ==
    ASSUME NEW out \in Seq(Toks), NEW s \in Seq(Toks), NEW i \in 1 .. (Len(s) + 1)
    PROVE  RestMade(Rest(out, s, i), out, s, i)
<1> DEFINE l == Len(out)
           n == l + (Len(s) - i + 1)
           r == Rest(out, s, i)
<1>1. l \in Nat /\ n \in Nat /\ Len(s) \in Nat /\ i \in Int /\ l <= n
    OBVIOUS
<1>2. \A k \in 1 .. l : out[k] \in Toks
    OBVIOUS
<1>3. \A k \in 1 .. Len(s) : s[k] \in Toks
    OBVIOUS
<1>4. r = [k \in 1 .. n |-> IF k <= l THEN out[k] ELSE s[k - l + (i - 1)]]
    BY DEF Rest
<1>5. ASSUME NEW k \in 1 .. n, k <= l PROVE r[k] = out[k] /\ out[k] \in Toks
    <2>1. k \in 1 .. l
        BY <1>1, <1>5
    <2> HIDE DEF r, n, l
    <2> QED
        BY ONLY <1>2, <1>4, <1>5, <2>1, k \in 1 .. n
<1>6. ASSUME NEW k \in 1 .. n, ~(k <= l) PROVE r[k] = s[k - l + (i - 1)] /\ s[k - l + (i - 1)] \in Toks
    <2>1. k - l + (i - 1) \in 1 .. Len(s)
        BY <1>1, <1>6
    <2>2. s[k - l + (i - 1)] \in Toks
        BY <1>3, <2>1
    <2> HIDE DEF r, n, l
    <2> QED
        BY ONLY <1>4, <1>6, <2>2, k \in 1 .. n
<1>d. DOMAIN r = 1 .. n
    BY <1>4
<1> HIDE DEF l, n, r
<1>7. \A k \in 1 .. n : r[k] \in Toks
    BY ONLY <1>5, <1>6
<1>e. r \in [1 .. n -> Toks]
    <2>1. r = [k \in 1 .. n |-> r[k]]
        BY ONLY <1>4
    <2> QED
        BY ONLY <1>7, <2>1
<1>8. r \in Seq(Toks) /\ Len(r) = n
    BY <1>1, <1>e
<1>9. \A k \in 1 .. l : r[k] = out[k]
    BY <1>1, <1>5
<1>10. \A k \in (l + 1) .. n : r[k] = s[k - l + (i - 1)]
    <2>1. ASSUME NEW k \in (l + 1) .. n PROVE k \in 1 .. n /\ ~(k <= l)
        BY <1>1
    <2> QED
        BY ONLY <1>6, <2>1
<1> QED
    BY ONLY <1>d, <1>8, <1>9, <1>10 DEF RestMade, l, n, r

\* Two programs that have the same tokens.
LEMMA SameTokens ==
    ASSUME NEW p \in Seq(Toks), NEW q \in Seq(Toks), Len(p) = Len(q), \A k \in 1 .. Len(p) : p[k] = q[k]
    PROVE  p = q
OBVIOUS

\* Nothing is made yet,
LEMMA RestFirst ==
    ASSUME NEW s \in Seq(Toks)
    PROVE  Rest(<<>>, s, 1) = s
<1>1. <<>> \in Seq(Toks) /\ Len(<<>>) = 0 /\ 1 \in 1 .. (Len(s) + 1) /\ Len(s) \in Nat
    OBVIOUS
<1>2. RestMade(Rest(<<>>, s, 1), <<>>, s, 1)
    BY <1>1, RestIs
<1> DEFINE r == Rest(<<>>, s, 1)
<1> HIDE DEF r
<1>3. r \in Seq(Toks) /\ Len(r) = Len(s) /\ \A k \in 1 .. Len(r) : r[k] = s[k]
    <2>1. r \in Seq(Toks) /\ Len(r) = 0 + (Len(s) - 1 + 1) /\ \A k \in (0 + 1) .. Len(r) : r[k] = s[k - 0 + (1 - 1)]
        BY ONLY <1>1, <1>2 DEF RestMade, r
    <2>2. \A k \in 1 .. Len(r) : k \in (0 + 1) .. Len(r) /\ k - 0 + (1 - 1) = k
        OBVIOUS
    <2> QED
        BY ONLY <1>1, <2>1, <2>2
<1>4. r = s
    BY <1>3, SameTokens
<1> QED
    BY <1>4 DEF r

\* and everything is.
LEMMA RestLast ==
    ASSUME NEW out \in Seq(Toks), NEW s \in Seq(Toks)
    PROVE  Rest(out, s, Len(s) + 1) = out
<1>1. Len(s) \in Nat /\ Len(out) \in Nat /\ Len(s) + 1 \in 1 .. (Len(s) + 1)
    OBVIOUS
<1>2. RestMade(Rest(out, s, Len(s) + 1), out, s, Len(s) + 1)
    BY <1>1, RestIs
<1> DEFINE r == Rest(out, s, Len(s) + 1)
<1> HIDE DEF r
<1>3. r \in Seq(Toks) /\ Len(r) = Len(out) /\ \A k \in 1 .. Len(out) : r[k] = out[k]
    BY <1>1, <1>2 DEF RestMade, r
<1>4. r = out
    BY <1>3, SameTokens
<1> QED
    BY <1>4 DEF r

\* A list with one more token.
AppendMade(b, out, t) ==
    /\ b \in Seq(Toks) /\ Len(b) = Len(out) + 1 /\ b[Len(out) + 1] = t /\ Len(out) \in Nat
    /\ \A k \in 1 .. Len(out) : b[k] = out[k]

LEMMA AppendIs ==
    ASSUME NEW out \in Seq(Toks), NEW t \in Toks
    PROVE  AppendMade(Append(out, t), out, t)
BY DEF AppendMade

\* A token that is kept changes nothing.
LEMMA RestKeep ==
    ASSUME NEW out \in Seq(Toks), NEW s \in Seq(Toks), NEW i \in 1 .. Len(s)
    PROVE  Rest(Append(out, s[i]), s, i + 1) = Rest(out, s, i)
<1> DEFINE b == Append(out, s[i])
           r == Rest(out, s, i)
           q == Rest(b, s, i + 1)
           l == Len(out)
<1>1. Len(s) \in Nat /\ l \in Nat /\ i \in 1 .. (Len(s) + 1) /\ i + 1 \in 1 .. (Len(s) + 1) /\ s[i] \in Toks
    OBVIOUS
<1>2. AppendMade(b, out, s[i])
    BY <1>1, AppendIs
<1>3. b \in Seq(Toks) /\ Len(b) = l + 1 /\ b[l + 1] = s[i] /\ \A k \in 1 .. l : b[k] = out[k]
    BY ONLY <1>2 DEF AppendMade
<1> HIDE DEF b
<1>4. RestMade(r, out, s, i)
    BY <1>1, RestIs
<1>5. RestMade(q, b, s, i + 1)
    BY <1>1, <1>3, RestIs
<1>6. /\ r \in Seq(Toks) /\ Len(r) = l + (Len(s) - i + 1)
      /\ \A k \in 1 .. l : r[k] = out[k]
      /\ \A k \in (l + 1) .. Len(r) : r[k] = s[k - l + (i - 1)]
    BY ONLY <1>4 DEF RestMade
<1>7. /\ q \in Seq(Toks) /\ Len(q) = (l + 1) + (Len(s) - (i + 1) + 1)
      /\ \A k \in 1 .. (l + 1) : q[k] = b[k]
      /\ \A k \in (l + 1 + 1) .. Len(q) : q[k] = s[k - (l + 1) + (i + 1 - 1)]
    BY ONLY <1>3, <1>5 DEF RestMade
<1> HIDE DEF r, q, l
<1>8. Len(q) = Len(r)
    <2>1. Len(r) = l + (Len(s) - i + 1)
        BY ONLY <1>6
    <2>2. Len(q) = (l + 1) + (Len(s) - (i + 1) + 1)
        BY ONLY <1>7
    <2> QED
        BY ONLY <1>1, <2>1, <2>2
<1>9. ASSUME NEW k \in 1 .. Len(q) PROVE q[k] = r[k]
    <2>0. Len(q) \in Nat /\ l + 1 <= Len(q)
        BY <1>1, <1>7
    <2>1. CASE k <= l
        <3>1. k \in 1 .. l /\ k \in 1 .. (l + 1)
            BY <1>1, <2>1
        <3> QED
            BY ONLY <1>3, <1>6, <1>7, <3>1
    <2>2. CASE k = l + 1
        <3>1. l + 1 \in 1 .. (l + 1) /\ l + 1 \in (l + 1) .. Len(r) /\ (l + 1) - l + (i - 1) = i
            BY <1>1, <1>8, <2>0
        <3> QED
            BY ONLY <1>3, <1>6, <1>7, <2>2, <3>1
    <2>3. CASE k > l + 1
        <3>1. k \in (l + 1 + 1) .. Len(q) /\ k \in (l + 1) .. Len(r) /\ k - (l + 1) + (i + 1 - 1) = k - l + (i - 1)
            BY <1>1, <1>8, <2>3
        <3> QED
            BY ONLY <1>6, <1>7, <3>1
    <2> QED
        BY <1>1, <2>1, <2>2, <2>3
<1>10. q = r
    BY <1>6, <1>7, <1>8, <1>9, SameTokens
<1> QED
    BY <1>10 DEF b, r, q

\* Tokens that are dropped.
LEMMA CutDrop ==
    ASSUME NEW out \in Seq(Toks), NEW s \in Seq(Toks), NEW i \in 1 .. (Len(s) + 1),
           NEW X \in Nat, i + X <= Len(s) + 1,
           NEW P, P = Rest(out, s, i), Depth(P, Len(out) + X) = Depth(P, Len(out)),
           \A k \in Len(out) .. (Len(out) + X) : Depth(P, k) >= Depth(P, Len(out))
    PROVE  Cut(P, Rest(out, s, i + X), Len(out), X, 0)
<1> DEFINE a == Len(out)
           n == Len(s)
           Q == Rest(out, s, i + X)
<1>1. n \in Nat /\ a \in Nat /\ i \in Nat /\ i >= 1 /\ i + X \in 1 .. (n + 1)
    OBVIOUS
<1>2. RestMade(P, out, s, i) /\ RestMade(Q, out, s, i + X)
    BY <1>1, RestIs
<1> HIDE DEF Q
<1>3. /\ P \in Seq(Toks) /\ Len(P) = a + (n - i + 1)
      /\ \A k \in 1 .. a : P[k] = out[k]
      /\ \A k \in (a + 1) .. Len(P) : P[k] = s[k - a + (i - 1)]
    BY ONLY <1>2 DEF RestMade
<1>4. /\ Q \in Seq(Toks) /\ Len(Q) = a + (n - (i + X) + 1)
      /\ \A k \in 1 .. a : Q[k] = out[k]
      /\ \A k \in (a + 1) .. Len(Q) : Q[k] = s[k - a + (i + X - 1)]
    BY ONLY <1>2 DEF RestMade
<1> HIDE DEF a, n
<1>5. a + X <= Len(P) /\ Len(Q) = Len(P) - X + 0
    BY ONLY <1>1, <1>3, <1>4, X \in Nat, i + X <= n + 1
<1>6. ASSUME NEW j \in 1 .. a PROVE Q[j] = P[j]
    BY ONLY <1>3, <1>4, j \in 1 .. a
<1>7. ASSUME NEW j \in (a + X + 1) .. Len(P) PROVE Q[j - X + 0] = P[j]
    <2> DEFINE u == j - X + 0
    <2>1. Len(P) \in Int
        BY ONLY <1>1, <1>3
    <2>2. /\ j \in (a + 1) .. Len(P) /\ u \in (a + 1) .. Len(Q) /\ u - a + (i + X - 1) = j - a + (i - 1)
        BY ONLY <1>1, <1>5, <2>1, X \in Nat, j \in (a + X + 1) .. Len(P)
    <2> HIDE DEF u
    <2>3. Q[u] = s[u - a + (i + X - 1)] /\ P[j] = s[j - a + (i - 1)]
        BY ONLY <1>3, <1>4, <2>2
    <2> QED
        BY ONLY <2>2, <2>3 DEF u
<1>8. Depth(P, a + X) = Depth(P, a) /\ \A k \in a .. (a + X) : Depth(P, k) >= Depth(P, a)
    BY DEF a
<1>9. Cut(P, Q, a, X, 0)
    <2>1. 0 \in {0, 1} /\ ~(0 = 1)
        OBVIOUS
    <2>2. /\ a \in Nat /\ a + X <= Len(P) /\ Len(Q) = Len(P) - X + 0 /\ Q \in Seq(Toks)
          /\ \A j \in 1 .. a : Q[j] = P[j]
          /\ \A j \in (a + X + 1) .. Len(P) : Q[j - X + 0] = P[j]
        BY ONLY <1>1, <1>4, <1>5, <1>6, <1>7
    <2> QED
        BY ONLY <1>8, <2>1, <2>2, X \in Nat DEF Cut
<1> QED
    BY ONLY <1>9 DEF a, Q

\* A token that is put in.
LEMMA CutPut ==
    ASSUME NEW out \in Seq(Toks), NEW s \in Seq(Toks), NEW i \in 1 .. (Len(s) + 1),
           NEW t \in Toks, ~IsBracket(t), Prog(Rest(out, s, i))
    PROVE  Cut(Rest(out, s, i), Rest(Append(out, t), s, i), Len(out), 0, 1) /\ Rest(Append(out, t), s, i)[Len(out) + 1] = t
<1> DEFINE a == Len(out)
           n == Len(s)
           P == Rest(out, s, i)
           b == Append(out, t)
           Q == Rest(b, s, i)
<1>1. n \in Nat /\ a \in Nat /\ i \in Nat /\ i >= 1 /\ i <= n + 1
    OBVIOUS
<1>2. AppendMade(b, out, t)
    BY AppendIs
<1>3. b \in Seq(Toks) /\ Len(b) = a + 1 /\ b[a + 1] = t /\ \A k \in 1 .. a : b[k] = out[k]
    BY ONLY <1>2 DEF AppendMade
<1> HIDE DEF b
<1>4. RestMade(P, out, s, i) /\ RestMade(Q, b, s, i)
    BY <1>1, <1>3, RestIs
<1>p. Prog(P)
    OBVIOUS
<1> HIDE DEF P, Q
<1>5. /\ P \in Seq(Toks) /\ Len(P) = a + (n - i + 1)
      /\ \A k \in 1 .. a : P[k] = out[k]
      /\ \A k \in (a + 1) .. Len(P) : P[k] = s[k - a + (i - 1)]
    BY ONLY <1>4 DEF RestMade
<1>6. /\ Q \in Seq(Toks) /\ Len(Q) = (a + 1) + (n - i + 1)
      /\ \A k \in 1 .. (a + 1) : Q[k] = b[k]
      /\ \A k \in (a + 1 + 1) .. Len(Q) : Q[k] = s[k - (a + 1) + (i - 1)]
    BY ONLY <1>3, <1>4 DEF RestMade
<1>d. Depth(P, a) \in Int
    <2>1. a \in 0 .. Len(P) /\ Len(P) \in Nat /\ DOMAIN P = 1 .. Len(P)
        BY <1>1, <1>5
    <2>2. \A k \in 0 .. Len(P) : Depth(P, k) \in Int
        BY <2>1, DepthStep
    <2> QED
        BY ONLY <2>1, <2>2
<1> HIDE DEF a, n
<1>7. a + 0 <= Len(P) /\ Len(Q) = Len(P) - 0 + 1
    BY ONLY <1>1, <1>5, <1>6
<1>8. ASSUME NEW j \in 1 .. a PROVE Q[j] = P[j]
    <2>1. j \in 1 .. (a + 1)
        BY ONLY <1>1, j \in 1 .. a
    <2> QED
        BY ONLY <1>3, <1>5, <1>6, <2>1, j \in 1 .. a
<1>9. ASSUME NEW j \in (a + 0 + 1) .. Len(P) PROVE Q[j - 0 + 1] = P[j]
    <2> DEFINE u == j - 0 + 1
    <2>1. Len(P) \in Int
        BY ONLY <1>1, <1>5
    <2>2. /\ j \in (a + 1) .. Len(P) /\ u \in (a + 1 + 1) .. Len(Q) /\ u - (a + 1) + (i - 1) = j - a + (i - 1)
        BY ONLY <1>1, <1>7, <2>1, j \in (a + 0 + 1) .. Len(P)
    <2> HIDE DEF u
    <2>3. Q[u] = s[u - (a + 1) + (i - 1)] /\ P[j] = s[j - a + (i - 1)]
        BY ONLY <1>5, <1>6, <2>2
    <2> QED
        BY ONLY <2>2, <2>3 DEF u
<1>10. Depth(P, a + 0) = Depth(P, a) /\ \A k \in a .. (a + 0) : Depth(P, k) >= Depth(P, a)
    <2>1. a + 0 = a /\ \A k \in a .. (a + 0) : k = a
        BY ONLY <1>1
    <2> QED
        BY ONLY <1>d, <2>1
<1>11. Q[a + 1] = t
    <2>1. a + 1 \in 1 .. (a + 1)
        BY ONLY <1>1
    <2> QED
        BY ONLY <1>3, <1>6, <2>1
<1>12. Cut(P, Q, a, 0, 1)
    BY ONLY <1>1, <1>6, <1>7, <1>8, <1>9, <1>10, <1>11, ~IsBracket(t) DEF Cut
<1> QED
    BY ONLY <1>11, <1>12 DEF P, Q, a, b

\* A run that goes on with the last token made.
Grown(g, out, t) ==
    /\ g \in Seq(Toks) /\ Len(g) = Len(out) /\ \A k \in 1 .. (Len(out) - 1) : g[k] = out[k]
    /\ g[Len(out)].op = out[Len(out)].op /\ g[Len(out)].arg = out[Len(out)].arg + t.arg

LEMMA GrownIs ==
    ASSUME NEW out \in Seq(Toks), out # <<>>, NEW t \in Toks
    PROVE  Grown([out EXCEPT ![Len(out)].arg = @ + t.arg], out, t)
<1> DEFINE n == Len(out)
           u == out[n]
           v == [u EXCEPT !.arg = @ + t.arg]
           g == [out EXCEPT ![n] = v]
<1>1. n \in Nat /\ n >= 1 /\ n \in 1 .. n /\ u \in Toks
    OBVIOUS
<1>2. v \in Toks /\ v.op = u.op /\ v.arg = u.arg + t.arg
    <2> HIDE DEF u
    <2> QED
        BY <1>1 DEF Toks
<1>3. g = [out EXCEPT ![Len(out)].arg = @ + t.arg]
    OBVIOUS
<1> HIDE DEF v
<1>4. g \in Seq(Toks) /\ Len(g) = n /\ g[n] = v /\ \A k \in 1 .. (n - 1) : g[k] = out[k]
    BY <1>1, <1>2
<1> HIDE DEF g
<1>5. Grown(g, out, t)
    BY <1>2, <1>4 DEF Grown
<1> QED
    BY <1>3, <1>5

\* A token that is no bracket leaves a program as deep as it was.
LEMMA StillDeep ==
    ASSUME NEW P, Prog(P), NEW i \in 1 .. Len(P), ~IsBracket(P[i])
    PROVE  Depth(P, i) = Depth(P, i - 1) /\ Depth(P, i) \in Int
<1>1. DeepAt(P, i)
    BY TurnAt
<1>2. Turn(P[i]) = 0
    BY DEF IsBracket, Turn
<1> QED
    BY ONLY <1>1, <1>2 DEF DeepAt

LEMMA RunIsNoBracket ==
    ASSUME NEW t, IsRun(t) \/ IsNote(t)
    PROVE  ~IsBracket(t)
BY DEF IsRun, IsNote, IsBracket

\* The token read is merged into the last one made.
LEMMA RestMerge ==
    ASSUME NEW out \in Seq(Toks), NEW s \in Seq(Toks), NEW i \in 1 .. Len(s),
           out # <<>>, IsRun(s[i]), out[Len(out)].op = s[i].op, NEW g, Grown(g, out, s[i]),
           Prog(Rest(out, s, i))
    PROVE  Does(Rest(out, s, i), Rest(g, s, i + 1))
<1> DEFINE a == Len(out) - 1
           n == Len(s)
           P == Rest(out, s, i)
           Q == Rest(g, s, i + 1)
<1>1. /\ n \in Nat /\ a \in Nat /\ i \in Nat /\ i >= 1 /\ i <= n /\ i \in 1 .. (n + 1) /\ i + 1 \in 1 .. (n + 1)
      /\ Len(out) = a + 1
    OBVIOUS
<1>2. /\ g \in Seq(Toks) /\ Len(g) = a + 1 /\ \A k \in 1 .. a : g[k] = out[k]
      /\ g[a + 1].op = out[a + 1].op /\ g[a + 1].arg = out[a + 1].arg + s[i].arg
    BY ONLY Grown(g, out, s[i]), <1>1 DEF Grown, a
<1>3. RestMade(P, out, s, i) /\ RestMade(Q, g, s, i + 1)
    BY <1>1, <1>2, RestIs
<1>4. Prog(P) /\ IsRun(s[i]) /\ out[a + 1].op = s[i].op
    BY <1>1
<1> HIDE DEF P, Q, a, n
<1>5. /\ P \in Seq(Toks) /\ Len(P) = (a + 1) + (n - i + 1)
      /\ \A k \in 1 .. (a + 1) : P[k] = out[k]
      /\ \A k \in (a + 1 + 1) .. Len(P) : P[k] = s[k - (a + 1) + (i - 1)]
    BY ONLY <1>1, <1>3 DEF RestMade, n
<1>6. /\ Q \in Seq(Toks) /\ Len(Q) = (a + 1) + (n - (i + 1) + 1)
      /\ \A k \in 1 .. (a + 1) : Q[k] = g[k]
      /\ \A k \in (a + 1 + 1) .. Len(Q) : Q[k] = s[k - (a + 1) + (i + 1 - 1)]
    BY ONLY <1>2, <1>3 DEF RestMade, n
<1>7. a + 2 <= Len(P) /\ Len(Q) = Len(P) - 2 + 1 /\ Len(P) \in Nat
    <2>1. Len(P) = (a + 1) + (n - i + 1)
        BY ONLY <1>5
    <2>2. Len(Q) = (a + 1) + (n - (i + 1) + 1)
        BY ONLY <1>6
    <2> QED
        BY ONLY <1>1, <2>1, <2>2
<1>8. ASSUME NEW j \in 1 .. a PROVE Q[j] = P[j]
    <2>1. j \in 1 .. (a + 1)
        BY ONLY <1>1, j \in 1 .. a
    <2> QED
        BY ONLY <1>2, <1>5, <1>6, <2>1, j \in 1 .. a
<1>9. ASSUME NEW j \in (a + 2 + 1) .. Len(P) PROVE Q[j - 2 + 1] = P[j]
    <2> DEFINE u == j - 2 + 1
    <2>1. /\ j \in (a + 1 + 1) .. Len(P) /\ u \in (a + 1 + 1) .. Len(Q)
          /\ u - (a + 1) + (i + 1 - 1) = j - (a + 1) + (i - 1)
        BY ONLY <1>1, <1>7, j \in (a + 2 + 1) .. Len(P)
    <2> HIDE DEF u
    <2>2. Q[u] = s[u - (a + 1) + (i + 1 - 1)] /\ P[j] = s[j - (a + 1) + (i - 1)]
        BY ONLY <1>5, <1>6, <2>1
    <2> QED
        BY ONLY <2>1, <2>2 DEF u
<1> DEFINE y == a + 1
           z == a + 2
<1>10. P[y] = out[y] /\ Q[y] = g[y]
    <2>1. y \in 1 .. (a + 1)
        BY ONLY <1>1
    <2> QED
        BY ONLY <1>5, <1>6, <2>1
<1>11. P[z] = s[i]
    <2>1. z \in (a + 1 + 1) .. Len(P) /\ z - (a + 1) + (i - 1) = i
        BY ONLY <1>1, <1>7
    <2> HIDE DEF z
    <2> QED
        BY ONLY <1>5, <2>1
<1>12. /\ IsRun(P[y]) /\ P[z].op = P[y].op /\ Q[y].op = P[y].op /\ Q[y].arg = P[y].arg + P[z].arg
       /\ IsRun(P[z]) /\ IsRun(Q[y])
    BY ONLY <1>2, <1>4, <1>10, <1>11 DEF IsRun
<1>13. ~IsBracket(P[y]) /\ ~IsBracket(P[z]) /\ ~IsBracket(Q[y])
    BY <1>12, RunIsNoBracket
<1>14. Depth(P, a) \in Int /\ Depth(P, y) = Depth(P, a) /\ Depth(P, z) = Depth(P, a)
    <2>1. y \in 1 .. Len(P) /\ z \in 1 .. Len(P) /\ y - 1 = a /\ z - 1 = y
        BY ONLY <1>1, <1>7
    <2> HIDE DEF y, z
    <2> QED
        BY <1>4, <1>13, <2>1, StillDeep
<1>15. Depth(P, a + 2) = Depth(P, a) /\ \A k \in a .. (a + 2) : Depth(P, k) >= Depth(P, a)
    <2>1. \A k \in a .. (a + 2) : k = a \/ k = y \/ k = z
        BY ONLY <1>1
    <2>2. a + 2 = z
        OBVIOUS
    <2> HIDE DEF y, z
    <2> QED
        BY ONLY <1>14, <2>1, <2>2
<1>16. Cut(P, Q, a, 2, 1)
    <2>1. 2 \in Nat /\ 1 \in {0, 1} /\ a + 1 = y
        OBVIOUS
    <2> HIDE DEF y
    <2> QED
        BY ONLY <1>1, <1>6, <1>7, <1>8, <1>9, <1>13, <1>15, <2>1 DEF Cut
<1>17. Does(P, Q)
    <2>1. a + 1 = y /\ a + 2 = z
        OBVIOUS
    <2> HIDE DEF y, z
    <2> QED
        BY <1>4, <1>12, <1>16, <2>1, MergeRuns
<1> QED
    BY ONLY <1>17 DEF P, Q

LEMMA IdleIsNoBracket ==
    ASSUME NEW t, Idle(t)
    PROVE  ~IsBracket(t)
BY DEF Idle, IsRun, IsNote, IsBracket

\* An idle token can be put in,
LEMMA RestPut ==
    ASSUME NEW out \in Seq(Toks), NEW s \in Seq(Toks), NEW i \in 1 .. (Len(s) + 1), Prog(Rest(out, s, i)),
           NEW t \in Toks, Idle(t)
    PROVE  Does(Rest(out, s, i), Rest(Append(out, t), s, i))
<1> DEFINE P == Rest(out, s, i)
           Q == Rest(Append(out, t), s, i)
           a == Len(out)
<1>1. Cut(P, Q, a, 0, 1) /\ Q[a + 1] = t
    BY IdleIsNoBracket, CutPut
<1>2. Prog(P) /\ Idle(t)
    OBVIOUS
<1> HIDE DEF P, Q, a
<1>3. Does(P, Q)
    BY <1>1, <1>2, PutIdle
<1> QED
    BY ONLY <1>3 DEF P, Q

\* and one that is not kept changes nothing.
LEMMA RestIdle ==
    ASSUME NEW out \in Seq(Toks), NEW s \in Seq(Toks), NEW i \in 1 .. Len(s), Prog(Rest(out, s, i)), Idle(s[i])
    PROVE  Does(Rest(out, s, i), Rest(out, s, i + 1)) /\ Does(Rest(out, s, i + 1), Rest(out, s, i))
<1> DEFINE P == Rest(out, s, i)
           Q == Rest(out, s, i + 1)
           a == Len(out)
<1>1. /\ a \in Nat /\ Len(s) \in Nat /\ i \in 1 .. (Len(s) + 1) /\ i + 1 \in 1 .. (Len(s) + 1) /\ i \in Nat
      /\ s[i] \in Toks /\ i <= Len(s) /\ i >= 1
    OBVIOUS
<1>2. P \in Seq(Toks) /\ Len(P) = a + (Len(s) - i + 1) /\ P[a + 1] = s[i]
    <2>1. RestMade(P, out, s, i)
        BY <1>1, RestIs
    <2> HIDE DEF P
    <2>2. /\ P \in Seq(Toks) /\ Len(P) = a + (Len(s) - i + 1)
          /\ \A k \in (a + 1) .. Len(P) : P[k] = s[k - a + (i - 1)]
        BY ONLY <2>1 DEF RestMade, a
    <2> DEFINE y == a + 1
    <2> HIDE DEF a
    <2>3. y \in (a + 1) .. Len(P) /\ y - a + (i - 1) = i
        BY ONLY <1>1, <2>2 DEF y
    <2> HIDE DEF y
    <2>4. P[y] = s[i]
        BY ONLY <2>2, <2>3
    <2> QED
        BY ONLY <2>2, <2>4 DEF y
<1>3. Prog(P) /\ Idle(s[i])
    OBVIOUS
<1>4. Depth(P, a + 1) = Depth(P, a) /\ Depth(P, a) \in Int
    <2> HIDE DEF P, a
    <2> DEFINE y == a + 1
    <2>1. y \in 1 .. Len(P) /\ y - 1 = a
        BY ONLY <1>1, <1>2
    <2>2. ~IsBracket(P[y])
        BY <1>2, <1>3, IdleIsNoBracket
    <2> HIDE DEF y
    <2>3. Depth(P, y) = Depth(P, y - 1) /\ Depth(P, y) \in Int
        BY <1>3, <2>1, <2>2, StillDeep
    <2> QED
        BY ONLY <2>1, <2>3 DEF y
<1>5. \A k \in a .. (a + 1) : Depth(P, k) >= Depth(P, a)
    <2> HIDE DEF P, a
    <2>1. \A k \in a .. (a + 1) : k = a \/ k = a + 1
        BY ONLY <1>1
    <2> QED
        BY ONLY <1>4, <2>1
<1>6. Cut(P, Q, a, 1, 0)
    <2> HIDE DEF P
    <2>1. P = Rest(out, s, i) /\ 1 \in Nat /\ i + 1 <= Len(s) + 1
        BY <1>1 DEF P
    <2> QED
        BY <1>1, <1>4, <1>5, <2>1, CutDrop
<1> HIDE DEF P, Q
<1>7. Does(P, Q)
    <2> HIDE DEF a
    <2> QED
        BY <1>2, <1>3, <1>6, DropIdle
<1>8. Does(Q, P)
    <2>1. Prog(Q)
        BY <1>7 DEF Does
    <2>2. Does(Q, Rest(Append(out, s[i]), s, i + 1))
        BY <1>1, <1>3, <2>1, RestPut DEF Q
    <2>3. Rest(Append(out, s[i]), s, i + 1) = P
        BY RestKeep DEF P
    <2> QED
        BY ONLY <2>2, <2>3
<1> QED
    BY ONLY <1>7, <1>8 DEF P, Q

\* What is still to read is as deep as it was, and its loops end where they did.
RestTok(r, out, s, i) ==
    \A k \in i .. Len(s) : Len(out) + k - i + 1 \in (Len(out) + 1) .. Len(r) /\ r[Len(out) + k - i + 1] = s[k]

LEMMA RestRead ==
    ASSUME NEW out \in Seq(Toks), NEW s \in Seq(Toks), NEW i \in 1 .. (Len(s) + 1)
    PROVE  RestTok(Rest(out, s, i), out, s, i)
<1> DEFINE r == Rest(out, s, i)
           a == Len(out)
           n == Len(s)
<1>1. a \in Nat /\ n \in Nat /\ i \in Nat /\ i >= 1
    OBVIOUS
<1>2. RestMade(r, out, s, i)
    BY RestIs
<1> HIDE DEF r
<1>3. Len(r) = a + (n - i + 1) /\ \A k \in (a + 1) .. Len(r) : r[k] = s[k - a + (i - 1)]
    BY ONLY <1>2 DEF RestMade, a, n
<1> HIDE DEF a, n
<1>4. ASSUME NEW k \in i .. n PROVE a + k - i + 1 \in (a + 1) .. Len(r) /\ r[a + k - i + 1] = s[k]
    <2> DEFINE y == a + k - i + 1
    <2>1. y \in (a + 1) .. Len(r) /\ y - a + (i - 1) = k
        BY ONLY <1>1, <1>3, k \in i .. n
    <2> HIDE DEF y
    <2>2. y \in (a + 1) .. Len(r) /\ r[y] = s[k]
        BY ONLY <1>3, <2>1
    <2> QED
        BY ONLY <2>2 DEF y
<1>5. RestTok(r, out, s, i)
    BY ONLY <1>4 DEF RestTok, a, n
<1> QED
    BY ONLY <1>5 DEF r

\* Two that differ as two others do.
LEMMA Differ ==
    ASSUME NEW p \in Int, NEW q \in Int, NEW h \in Int, NEW u \in Int, NEW v \in Int, NEW g \in Int,
           p - h = u - g, q - h = v - g
    PROVE  (p >= q => u >= v) /\ (p = q - 1 => u = v - 1)
OBVIOUS

\* Where a token that is still to read stands.
Placed(a, i, k) == a + k - i + 1

\* A loop in what is still to read is one of the whole.
LEMMA RestCloses ==
    ASSUME NEW out \in Seq(Toks), NEW s \in Seq(Toks), NEW i \in 1 .. (Len(s) + 1),
           NEW b \in i .. Len(s), NEW e, Closes(s, b, e)
    PROVE  Closes(Rest(out, s, i), Placed(Len(out), i, b), Placed(Len(out), i, e))
<1> DEFINE r == Rest(out, s, i)
           a == Len(out)
           n == Len(s)
           N == n - i + 1
           h == i - 1
<1>1. /\ a \in Nat /\ n \in Nat /\ i \in Nat /\ i >= 1 /\ h \in Nat /\ N \in Nat /\ h + N = n /\ i <= n
      /\ DOMAIN s = 1 .. n
    OBVIOUS
<1>2. r \in Seq(Toks) /\ DOMAIN r = 1 .. Len(r) /\ Len(r) = a + N
    BY RestIs DEF RestMade
<1>3. RestTok(r, out, s, i)
    BY RestRead
<1> HIDE DEF r
<1>4. \A k \in i .. n : Placed(a, i, k) \in (a + 1) .. Len(r) /\ r[Placed(a, i, k)] = s[k]
    BY ONLY <1>3 DEF RestTok, Placed, a, n
<1>c. Closes(s, b, e)
    OBVIOUS
<1>5. /\ e \in (b + 1) .. n /\ s[b].op = "open" /\ s[e].op = "close"
      /\ Depth(s, e) = Depth(s, b) - 1
      /\ \A k \in b .. (e - 1) : Depth(s, k) >= Depth(s, b)
    BY ONLY <1>c, <1>1 DEF Closes, Brackets
<1> HIDE DEF a, n, N, h
<1>6. SamePieces(s, h, r, a, N)
    <2>1. ASSUME NEW k \in 1 .. N PROVE s[h + k] = r[a + k]
        <3>1. h + k \in i .. n /\ Placed(a, i, h + k) = a + k
            BY ONLY <1>1, k \in 1 .. N DEF Placed, h
        <3> DEFINE y == h + k
                   z == a + k
        <3> HIDE DEF y, z
        <3>2. r[z] = s[y]
            BY ONLY <1>4, <3>1 DEF y, z
        <3> QED
            BY ONLY <3>2 DEF y, z
    <2> QED
        BY ONLY <2>1 DEF SamePieces
<1>7. AlikeDeep(s, h, r, a, N)
    <2>1. Len(r) \in Nat /\ n = Len(s) /\ h + N <= n /\ a + N <= Len(r)
        BY <1>1, <1>2 DEF n
    <2> QED
        BY <1>1, <1>2, <1>6, <2>1, DepthAlike
<1>8. ASSUME NEW k \in i .. n
      PROVE  Depth(s, k) - Depth(s, h) = Depth(r, Placed(a, i, k)) - Depth(r, a)
    <2> DEFINE d == k - h
    <2>1. d \in 0 .. N /\ h + d = k /\ a + d = Placed(a, i, k)
        BY ONLY <1>1, k \in i .. n DEF Placed, h
    <2> HIDE DEF d
    <2>2. Depth(s, h + d) - Depth(s, h) = Depth(r, a + d) - Depth(r, a)
        BY ONLY <1>7, <2>1 DEF AlikeDeep
    <2> QED
        BY ONLY <2>1, <2>2
<1>9. ASSUME NEW k \in h .. n PROVE Depth(s, k) \in Int
    <2>1. \A l \in 0 .. n : Depth(s, l) \in Int
        BY <1>1, DepthStep DEF n
    <2> QED
        BY ONLY <1>1, <2>1, k \in h .. n
<1>10. ASSUME NEW k \in a .. Len(r) PROVE Depth(r, k) \in Int
    <2>1. Len(r) \in Nat
        BY <1>1, <1>2
    <2>2. \A l \in 0 .. Len(r) : Depth(r, l) \in Int
        BY <1>2, <2>1, DepthStep
    <2> QED
        BY ONLY <1>1, <2>1, <2>2, k \in a .. Len(r)
<1>11. ASSUME NEW k \in i .. n
       PROVE  Depth(s, k) \in Int /\ Depth(s, h) \in Int /\ Depth(r, Placed(a, i, k)) \in Int /\ Depth(r, a) \in Int
    <2>1. k \in h .. n /\ h \in h .. n /\ a \in a .. Len(r)
        BY ONLY <1>1, <1>2, k \in i .. n DEF h
    <2>2. Placed(a, i, k) \in a .. Len(r)
        <3>1. Placed(a, i, k) \in (a + 1) .. Len(r)
            BY ONLY <1>4, k \in i .. n
        <3> QED
            BY ONLY <1>1, <1>2, <3>1
    <2> QED
        BY ONLY <1>9, <1>10, <2>1, <2>2
<1> DEFINE y == Placed(a, i, b)
           z == Placed(a, i, e)
<1>12. b \in i .. n /\ e \in i .. n
    BY <1>1, <1>5 DEF n
<1>13. /\ y \in 1 .. Len(r) /\ z \in 1 .. Len(r) /\ y < z /\ r[y].op = "open" /\ r[z].op = "close"
    <2>1. y \in (a + 1) .. Len(r) /\ z \in (a + 1) .. Len(r) /\ r[y] = s[b] /\ r[z] = s[e]
        BY ONLY <1>4, <1>12
    <2>2. y < z
        <3>1. b \in Int /\ e \in Int /\ b < e
            BY ONLY <1>1, <1>5, <1>12
        <3> QED
            BY ONLY <1>1, <3>1 DEF Placed
    <2> HIDE DEF y, z
    <2> QED
        BY ONLY <1>1, <1>2, <1>5, <2>1, <2>2
<1>14. Depth(r, z) = Depth(r, y) - 1
    <2>1. /\ Depth(s, e) - Depth(s, h) = Depth(r, z) - Depth(r, a)
          /\ Depth(s, b) - Depth(s, h) = Depth(r, y) - Depth(r, a)
        BY ONLY <1>8, <1>12
    <2>2. /\ Depth(s, b) \in Int /\ Depth(s, h) \in Int /\ Depth(r, y) \in Int /\ Depth(r, a) \in Int
          /\ Depth(s, e) \in Int /\ Depth(r, z) \in Int
        BY ONLY <1>11, <1>12
    <2> HIDE DEF y, z
    <2>3. Depth(s, e) = Depth(s, b) - 1
        BY ONLY <1>5
    <2> QED
        BY ONLY <2>1, <2>2, <2>3, Differ
<1>15. ASSUME NEW k \in y .. (z - 1) PROVE Depth(r, k) >= Depth(r, y)
    <2> DEFINE u == k - a + i - 1
    <2>1. u \in i .. n /\ u \in b .. (e - 1) /\ Placed(a, i, u) = k
        BY ONLY <1>1, <1>12, <1>5, k \in y .. (z - 1) DEF Placed
    <2> HIDE DEF u, y, z
    <2>2. Depth(s, u) >= Depth(s, b)
        BY ONLY <1>5, <2>1
    <2>3. Depth(s, u) - Depth(s, h) = Depth(r, k) - Depth(r, a) /\ Depth(s, u) \in Int /\ Depth(r, k) \in Int
        BY ONLY <1>8, <1>11, <2>1
    <2>4. Depth(s, b) - Depth(s, h) = Depth(r, y) - Depth(r, a)
        BY ONLY <1>8, <1>12 DEF y
    <2>5. Depth(s, b) \in Int /\ Depth(s, h) \in Int /\ Depth(r, y) \in Int /\ Depth(r, a) \in Int
        BY ONLY <1>11, <1>12 DEF y
    <2> QED
        BY <2>2, <2>3, <2>4, <2>5, Differ
<1> HIDE DEF y, z
<1>16. Closes(r, y, z)
    BY ONLY <1>2, <1>13, <1>14, <1>15 DEF Closes, Brackets
<1> QED
    BY ONLY <1>16 DEF r, y, z, a

\* A loop that cannot start is left out.
LEMMA RestDead ==
    ASSUME NEW out \in Seq(Toks), NEW s \in Seq(Toks), NEW i \in 1 .. (Len(s) + 1), Prog(Rest(out, s, i)),
           out # <<>>, out[Len(out)].op = "close",
           NEW b \in i .. Len(s), \A k \in i .. (b - 1) : IsNote(s[k]), NEW e, Closes(s, b, e)
    PROVE  e + 1 \in (i + 1) .. (Len(s) + 1) /\ Does(Rest(out, s, i), Rest(out, s, e + 1))
<1> DEFINE r == Rest(out, s, i)
           a == Len(out)
           n == Len(s)
           y == Placed(a, i, b)
           z == Placed(a, i, e)
           X == z - a
           q == Rest(out, s, i + X)
<1>1. a \in Nat /\ a >= 1 /\ n \in Nat /\ i \in Nat /\ i >= 1 /\ DOMAIN s = 1 .. n /\ b \in i .. n
    OBVIOUS
<1>2. e \in (b + 1) .. n
    BY <1>1 DEF Closes, Brackets
<1>3. X = e - i + 1 /\ X \in Nat /\ i + X = e + 1 /\ i + X <= n + 1 /\ e + 1 \in (i + 1) .. (n + 1) /\ a + X = z
      /\ z \in Nat /\ y \in Nat /\ z > a
    BY ONLY <1>1, <1>2 DEF Placed
<1>4. RestMade(r, out, s, i) /\ RestTok(r, out, s, i)
    BY RestIs, RestRead
<1>5. Closes(r, y, z)
    BY RestCloses
<1>p. Prog(r) /\ out[a].op = "close" /\ \A k \in i .. (b - 1) : IsNote(s[k])
    OBVIOUS
<1>r. r = Rest(out, s, i)
    OBVIOUS
<1> HIDE DEF r
<1>6. r[a].op = "close"
    <2>1. \A k \in 1 .. a : r[k] = out[k]
        BY ONLY <1>4 DEF RestMade, a
    <2> HIDE DEF a
    <2>2. a \in 1 .. a
        BY ONLY <1>1
    <2> QED
        BY ONLY <1>p, <2>1, <2>2
<1>7. \A k \in i .. n : Placed(a, i, k) \in (a + 1) .. Len(r) /\ r[Placed(a, i, k)] = s[k]
    BY ONLY <1>4 DEF RestTok, Placed, a, n
<1> HIDE DEF a, n, X
<1>8. y \in (a + 1) .. Len(r)
    BY ONLY <1>1, <1>7
<1>9. ASSUME NEW k \in (a + 1) .. (y - 1) PROVE IsNote(r[k])
    <2> DEFINE u == k - a + i - 1
    <2>1. u \in i .. n /\ u \in i .. (b - 1) /\ Placed(a, i, u) = k
        BY ONLY <1>1, k \in (a + 1) .. (y - 1) DEF Placed
    <2> HIDE DEF u
    <2>2. r[k] = s[u] /\ IsNote(s[u])
        BY ONLY <1>7, <1>p, <2>1
    <2> QED
        BY ONLY <2>2
<1> HIDE DEF y, z
<1>10. DeadLoop(r, a, y, z)
    BY ONLY <1>1, <1>5, <1>6, <1>8, <1>9 DEF DeadLoop
<1>11. Depth(r, z) = Depth(r, a) /\ \A k \in a .. z : Depth(r, k) >= Depth(r, a)
    BY <1>p, <1>10, DeadLoopDepth
<1>12. Cut(r, q, a, X, 0)
    <2>1. /\ X \in Nat /\ i + X <= Len(s) + 1 /\ Depth(r, Len(out) + X) = Depth(r, Len(out))
          /\ \A k \in Len(out) .. (Len(out) + X) : Depth(r, k) >= Depth(r, Len(out))
        BY ONLY <1>3, <1>11 DEF a, n
    <2> QED
        BY <1>r, <2>1, CutDrop DEF a
<1> HIDE DEF q
<1>13. Does(r, q)
    <2>1. Cut(r, q, a, z - a, 0)
        BY <1>12 DEF X
    <2> QED
        BY <1>p, <1>10, <2>1, DropDead
<1> QED
    BY ONLY <1>3, <1>13, <1>r DEF q, n

\* A round trip is left out, and the note in it stays.
LEMMA RestRound ==
    ASSUME NEW out \in Seq(Toks), NEW s \in Seq(Toks), NEW i \in 1 .. Len(s), Prog(Rest(out, s, i + 1)),
           out # <<>>, out[Len(out)] = s[i], IsRoundTrip(s, i)
    PROVE  /\ i + 9 + Gap(s, i) \in (i + 1) .. (Len(s) + 1)
           /\ Does(Rest(out, s, i + 1), Rest(out, s, i + 9 + Gap(s, i)))
<1> DEFINE h == i + 1
           r == Rest(out, s, h)
           a == Len(out)
           len == Len(s)
           g == Gap(s, i)
           l == a + 4
           b == l + g
           e == b + 4
           X == e - a
           q == Rest(out, s, h + X)
           n == s[i + 1].arg
<1>1. /\ a \in Nat /\ a >= 1 /\ len \in Nat /\ i \in Nat /\ i >= 1 /\ h \in Nat /\ h = i + 1
      /\ h \in 1 .. (len + 1)
    OBVIOUS
<1>2. g \in {0, 1} /\ (g = 1 => IsNote(s[i + 5]))
    BY DEF Gap, NoteAfterScan
<1>3. /\ s[i].op = "close" /\ i + 8 + g <= len /\ n < 0
      /\ s[i + 1].op = "move" /\ s[i + 1].arg = n /\ s[i + 1 + 1].op = "open"
      /\ s[i + 1 + 2].op = "move" /\ s[i + 1 + 2].arg = n /\ s[i + 1 + 3].op = "close"
      /\ s[i + 5 + g].op = "move" /\ s[i + 5 + g].arg = -n /\ s[i + 5 + g + 1].op = "open"
      /\ s[i + 5 + g + 2].op = "move" /\ s[i + 5 + g + 2].arg = -n /\ s[i + 5 + g + 3].op = "close"
    BY DEF IsRoundTrip, IsScan
<1>4. RestMade(r, out, s, h) /\ RestTok(r, out, s, h)
    BY <1>1, RestIs, RestRead
<1>p. Prog(r) /\ out[a] = s[i] /\ r = Rest(out, s, h)
    OBVIOUS
<1>n. n \in Int
    <2>1. i + 1 \in 1 .. len
        BY <1>1, <1>2, <1>3
    <2>2. s[i + 1] \in Toks
        BY <2>1
    <2> QED
        BY <2>2 DEF Toks
<1> HIDE DEF r, g, n
<1>5. Len(r) = a + (len - h + 1) /\ \A k \in 1 .. a : r[k] = out[k]
    BY ONLY <1>4 DEF RestMade, a, len
<1>m. g \in Nat /\ g <= 1 /\ i + 8 + g <= len
    <2>1. i + 8 + g <= len
        BY ONLY <1>3
    <2>2. g \in Nat /\ g <= 1
        BY ONLY <1>2
    <2> QED
        BY ONLY <2>1, <2>2
<1>q. Len(r) = a + (len - h + 1)
    BY ONLY <1>5
<1>6. \A k \in h .. len : Placed(a, h, k) \in (a + 1) .. Len(r) /\ r[Placed(a, h, k)] = s[k]
    BY ONLY <1>4 DEF RestTok, Placed, a, len
<1> HIDE DEF a, len, X, h
<1>7. ASSUME NEW k \in 1 .. (8 + g), NEW j, j = a + k, NEW u, u = i + k
      PROVE  r[j] = s[u]
    <2>1. u \in h .. len /\ Placed(a, h, u) = j
        BY ONLY <1>1, <1>2, <1>3, k \in 1 .. (8 + g), j = a + k, u = i + k DEF Placed
    <2> QED
        BY ONLY <1>6, <2>1
<1>8. r[a].op = "close"
    <2>1. a \in 1 .. a
        BY ONLY <1>1
    <2> QED
        BY ONLY <1>3, <1>5, <1>p, <2>1
<1>9. Scan(r, a, a + 1, a + 2, a + 3, l, n)
    <2>1. l <= Len(r)
        BY ONLY <1>1, <1>m, <1>q
    <2>2. r[a + 1] = s[i + 1] /\ r[a + 2] = s[i + 1 + 1] /\ r[a + 3] = s[i + 1 + 2] /\ r[l] = s[i + 1 + 3]
        <3>1. 1 \in 1 .. (8 + g) /\ 2 \in 1 .. (8 + g) /\ 3 \in 1 .. (8 + g) /\ 4 \in 1 .. (8 + g)
            BY ONLY <1>2
        <3>2. i + 1 + 1 = i + 2 /\ i + 1 + 2 = i + 3 /\ i + 1 + 3 = i + 4
            BY ONLY <1>1
        <3> QED
            BY <1>7, <3>1, <3>2
    <2> QED
        BY ONLY <1>1, <1>3, <1>n, <2>1, <2>2 DEF Scan
<1>10. Scan(r, b, b + 1, b + 2, b + 3, e, -n)
    <2>1. e <= Len(r) /\ b \in Nat /\ -n \in Int
        BY ONLY <1>1, <1>m, <1>q, <1>n
    <2>2. r[b + 1] = s[i + 5 + g]
        <3>1. 5 + g \in 1 .. (8 + g) /\ b + 1 = a + (5 + g) /\ i + 5 + g = i + (5 + g)
            BY ONLY <1>1, <1>2
        <3> QED
            BY <1>7, <3>1
    <2>3. r[b + 2] = s[i + 5 + g + 1]
        <3>1. 6 + g \in 1 .. (8 + g) /\ b + 2 = a + (6 + g) /\ i + 5 + g + 1 = i + (6 + g)
            BY ONLY <1>1, <1>2
        <3> QED
            BY <1>7, <3>1
    <2>4. r[b + 3] = s[i + 5 + g + 2]
        <3>1. 7 + g \in 1 .. (8 + g) /\ b + 3 = a + (7 + g) /\ i + 5 + g + 2 = i + (7 + g)
            BY ONLY <1>1, <1>2
        <3> QED
            BY <1>7, <3>1
    <2>5. r[e] = s[i + 5 + g + 3]
        <3>1. 8 + g \in 1 .. (8 + g) /\ e = a + (8 + g) /\ i + 5 + g + 3 = i + (8 + g)
            BY ONLY <1>1, <1>2
        <3> QED
            BY <1>7, <3>1
    <2> QED
        BY ONLY <1>3, <2>1, <2>2, <2>3, <2>4, <2>5 DEF Scan
<1>11. b \in {l, l + 1} /\ (b = l + 1 => IsNote(r[b]))
    <2>1. b \in {l, l + 1} /\ (b = l + 1 => g = 1)
        BY ONLY <1>1, <1>2
    <2>2. ASSUME g = 1 PROVE IsNote(r[b])
        <3>1. 5 \in 1 .. (8 + g) /\ b = a + 5
            BY ONLY <1>1, <2>2
        <3>2. r[b] = s[i + 5]
            BY <1>7, <3>1
        <3> QED
            BY ONLY <1>2, <2>2, <3>2
    <2> QED
        BY ONLY <2>1, <2>2
<1>12. RoundTrip(r, a, l, b, e, n)
    BY ONLY <1>1, <1>3, <1>8, <1>9, <1>10, <1>11, <1>n DEF RoundTrip
<1>13. Depth(r, e) = Depth(r, a) /\ \A k \in a .. e : Depth(r, k) >= Depth(r, a)
    <2> HIDE DEF e, b, l
    <2> QED
        BY <1>12, <1>p, RoundTripDepth
<1>14. /\ X = 8 + g /\ X \in Nat /\ h + X <= len + 1 /\ a + X = e /\ h + X = i + 9 + g
       /\ i + 9 + g \in (i + 1) .. (len + 1)
    BY ONLY <1>1, <1>m DEF X
<1>15. Cut(r, q, a, X, 0)
    <2> HIDE DEF e
    <2>1. /\ Depth(r, Len(out) + X) = Depth(r, Len(out)) /\ h + X <= Len(s) + 1
          /\ \A k \in Len(out) .. (Len(out) + X) : Depth(r, k) >= Depth(r, Len(out))
        BY ONLY <1>13, <1>14 DEF a, len
    <2>2. h \in 1 .. (Len(s) + 1)
        BY <1>1 DEF len
    <2> QED
        BY <1>p, <1>14, <2>1, <2>2, CutDrop DEF a
<1> HIDE DEF q
<1>16. Does(r, q)
    <2>1. Cut(r, q, a, e - a, 0)
        BY <1>15 DEF X
    <2> HIDE DEF e, b, l
    <2> QED
        BY <1>p, <1>12, <2>1, DropRound
<1>17. q = Rest(out, s, i + 9 + g)
    BY ONLY <1>14 DEF q
<1> QED
    BY ONLY <1>1, <1>14, <1>16, <1>17, <1>p DEF g, len

-----------------------------------------------------------------------------
(* The passes.                                                               *)

\* A pass over s has made `out' of what is before i, and the rest follows.
Done(s, out, i) == out \in Seq(Toks) /\ i \in 1 .. (Len(s) + 1) /\ Does(s, Rest(out, s, i))

LEMMA DoneFirst ==
    ASSUME NEW s, Prog(s)
    PROVE  Done(s, <<>>, 1)
<1>1. s \in Seq(Toks) /\ <<>> \in Seq(Toks) /\ 1 \in 1 .. (Len(s) + 1)
    BY DEF Prog
<1>2. Rest(<<>>, s, 1) = s
    BY <1>1, RestFirst
<1>3. Does(s, s)
    BY DoesSelf
<1> QED
    BY <1>1, <1>2, <1>3 DEF Done

LEMMA DoneLast ==
    ASSUME NEW s, Prog(s), NEW out, Done(s, out, Len(s) + 1)
    PROVE  Does(s, out)
<1>1. s \in Seq(Toks) /\ out \in Seq(Toks) /\ Does(s, Rest(out, s, Len(s) + 1))
    BY DEF Prog, Done
<1>2. Rest(out, s, Len(s) + 1) = out
    BY <1>1, RestLast
<1> QED
    BY <1>1, <1>2

LEMMA DoneIs ==
    ASSUME NEW s, Prog(s), NEW out, NEW i, Done(s, out, i)
    PROVE  /\ s \in Seq(Toks) /\ out \in Seq(Toks) /\ i \in 1 .. (Len(s) + 1)
           /\ Prog(Rest(out, s, i)) /\ Len(s) \in Nat /\ i \in Nat
BY ProgIs DEF Done, Does

\* A pass goes on by replacing a piece.
LEMMA DoneOn ==
    ASSUME NEW s, Prog(s), NEW out, NEW i, Done(s, out, i),
           NEW w \in Seq(Toks), NEW j \in 1 .. (Len(s) + 1), Does(Rest(out, s, i), Rest(w, s, j))
    PROVE  Done(s, w, j)
<1>1. Prog(Rest(out, s, i)) /\ Does(s, Rest(out, s, i))
    BY DEF Done, Does
<1>2. Does(s, Rest(w, s, j))
    BY <1>1, DoesTrans
<1> QED
    BY <1>2 DEF Done

LEMMA DoneKeep ==
    ASSUME NEW s, Prog(s), NEW out, NEW i, Done(s, out, i), i <= Len(s)
    PROVE  Done(s, Append(out, s[i]), i + 1)
<1>1. s \in Seq(Toks) /\ out \in Seq(Toks) /\ i \in 1 .. Len(s) /\ i + 1 \in 1 .. (Len(s) + 1)
    BY DoneIs
<1>2. Rest(Append(out, s[i]), s, i + 1) = Rest(out, s, i)
    BY <1>1, RestKeep
<1>3. Append(out, s[i]) \in Seq(Toks)
    BY <1>1
<1>4. Does(s, Rest(out, s, i))
    BY DEF Done
<1> QED
    BY <1>1, <1>2, <1>3, <1>4 DEF Done

LEMMA MergeTyped ==
    ASSUME NEW out \in Seq(Toks), NEW t \in Toks
    PROVE  Merge(out, t) \in Seq(Toks)
<1>1. CASE Continues(out, t)
    <2>1. out # <<>>
        BY <1>1 DEF Continues
    <2>2. Grown([out EXCEPT ![Len(out)].arg = @ + t.arg], out, t)
        BY <2>1, GrownIs
    <2> QED
        BY <1>1, <2>2 DEF Merge, Grown
<1>2. CASE ~Continues(out, t)
    BY <1>2 DEF Merge
<1> QED
    BY <1>1, <1>2

\* One visit of mergeTokens.
LEMMA MergeDone ==
    ASSUME NEW s, Prog(s), NEW out, NEW i, Done(s, out, i), i <= Len(s)
    PROVE  Done(s, Merge(out, s[i]), i + 1)
<1>1. /\ s \in Seq(Toks) /\ out \in Seq(Toks) /\ i \in 1 .. Len(s) /\ i + 1 \in 1 .. (Len(s) + 1)
      /\ Prog(Rest(out, s, i)) /\ s[i] \in Toks
    BY DoneIs
<1>2. CASE Continues(out, s[i])
    <2> DEFINE g == [out EXCEPT ![Len(out)].arg = @ + s[i].arg]
    <2>1. out # <<>> /\ IsRun(s[i]) /\ out[Len(out)].op = s[i].op /\ Merge(out, s[i]) = g
        BY <1>2 DEF Continues, Merge, Last
    <2>2. Grown(g, out, s[i])
        BY <1>1, <2>1, GrownIs
    <2> HIDE DEF g
    <2>3. Does(Rest(out, s, i), Rest(g, s, i + 1))
        BY <1>1, <2>1, <2>2, RestMerge
    <2>4. g \in Seq(Toks)
        BY <2>2 DEF Grown
    <2> QED
        BY <1>1, <2>1, <2>3, <2>4, DoneOn
<1>3. CASE ~Continues(out, s[i])
    BY <1>3, DoneKeep DEF Merge
<1> QED
    BY <1>2, <1>3

\* mergeTokens.
LEMMA MergeVisits ==
    ASSUME NEW s \in Seq(Toks), NEW n \in Nat, n = Len(s)
    PROVE  \E h : h[0] = <<>> /\ (\A i \in 1 .. n : h[i] = Merge(h[i - 1], s[i])) /\ MergeTokens(s) = h[n]
<1> DEFINE b == <<>>
           f == [i \in 1 .. n |-> [st \in Seq(Toks) |-> Merge(st, s[i])]]
           Visits(g) == g = [i \in 0 .. n |-> IF i = 0 THEN b ELSE Merge(g[i - 1], s[i])]
<1>1. b \in Seq(Toks)
    OBVIOUS
<1>2. f \in [1 .. n -> [Seq(Toks) -> Seq(Toks)]]
    <2>1. \A i \in 1 .. n : s[i] \in Toks
        OBVIOUS
    <2>2. \A i \in 1 .. n : \A st \in Seq(Toks) : Merge(st, s[i]) \in Seq(Toks)
        BY <2>1, MergeTyped
    <2> QED
        BY <2>2
<1> HIDE DEF f
<1>a. PICK h : Iterated(h, n, Seq(Toks), b, f)
    <2> HIDE DEF b
    <2> QED
        BY <1>1, <1>2, Iterates
<1>3. h \in [0 .. n -> Seq(Toks)] /\ h[0] = b /\ \A i \in 1 .. n : h[i] = f[i][h[i - 1]]
    <2> HIDE DEF b
    <2> QED
        BY <1>a DEF Iterated
<1>4. ASSUME NEW i \in 1 .. n PROVE h[i] = Merge(h[i - 1], s[i])
    <2>1. i - 1 \in 0 .. n
        OBVIOUS
    <2> QED
        BY <1>3, <2>1 DEF f
<1>5. Visits(h)
    <2>1. \A i \in 0 .. n : i # 0 => i \in 1 .. n
        OBVIOUS
    <2> HIDE DEF b
    <2> QED
        BY <1>3, <1>4, <2>1
<1> DEFINE visit == CHOOSE g : Visits(g)
<1>6. Visits(visit)
    BY <1>5
<1>7. MergeTokens(s) = visit[n]
    BY DEF MergeTokens
<1> HIDE DEF visit
<1>8. visit[0] = b /\ \A i \in 1 .. n : visit[i] = Merge(visit[i - 1], s[i])
    <2> HIDE DEF b
    <2>1. \A i \in 0 .. n : visit[i] = IF i = 0 THEN b ELSE Merge(visit[i - 1], s[i])
        BY <1>6
    <2>2. \A i \in 1 .. n : i \in 0 .. n /\ i # 0
        OBVIOUS
    <2> QED
        BY <2>1, <2>2
<1> QED
    BY <1>7, <1>8

LEMMA MergeDoes ==
    ASSUME NEW s, Prog(s)
    PROVE  Does(s, MergeTokens(s))
<1> DEFINE n == Len(s)
<1>1. n \in Nat /\ s \in Seq(Toks)
    BY ProgIs
<1>2. PICK h : h[0] = <<>> /\ (\A i \in 1 .. n : h[i] = Merge(h[i - 1], s[i])) /\ MergeTokens(s) = h[n]
    BY <1>1, MergeVisits
<1> DEFINE S == {i \in 0 .. n : Done(s, h[i], i + 1)}
<1>3. 0 \in S
    BY <1>1, <1>2, DoneFirst
<1>4. ASSUME NEW i \in 0 .. (n - 1), i \in S PROVE i + 1 \in S
    <2> DEFINE j == i + 1
    <2>1. j \in 1 .. n /\ j - 1 = i /\ j \in 0 .. n /\ j <= Len(s)
        BY <1>1
    <2>2. Done(s, h[i], j)
        BY <1>4
    <2> HIDE DEF j
    <2>3. Done(s, Merge(h[i], s[j]), j + 1)
        BY <2>1, <2>2, MergeDone
    <2>4. h[j] = Merge(h[i], s[j])
        BY <1>2, <2>1
    <2>5. j \in S
        BY <2>1, <2>3, <2>4
    <2> QED
        BY <2>5 DEF j
<1> HIDE DEF S
<1>5. n \in S
    <2>1. 0 .. n \subseteq S
        BY <1>1, <1>3, <1>4, BoundedInd
    <2> QED
        BY <1>1, <2>1
<1>6. Done(s, h[n], n + 1)
    BY <1>5 DEF S
<1> QED
    BY <1>2, <1>6, DoneLast

\* There is a first token that is no note, or none at all.
LEMMA NextCodeIs ==
    ASSUME NEW s \in Seq(Toks), NEW i \in 1 .. Len(s)
    PROVE  /\ NextCode(s, i) \in i .. (Len(s) + 1)
           /\ \A k \in i .. (NextCode(s, i) - 1) : IsNote(s[k])
<1> DEFINE n == Len(s)
           Good(j) == /\ \A k \in i .. (j - 1) : IsNote(s[k])
                      /\ j <= n => ~IsNote(s[j])
           S == {j \in i .. (n + 1) : j <= n => ~IsNote(s[j])}
<1>1. n \in Nat /\ i \in Nat /\ i <= n
    OBVIOUS
<1>2. S \in SUBSET Nat /\ S # {}
    <2>1. n + 1 \in S
        BY <1>1
    <2> QED
        BY <1>1, <2>1
<1>3. PICK j \in S : \A k \in S : j <= k
    <2> HIDE DEF S
    <2> QED
        BY <1>2, LeastNumber
<1>4. j \in i .. (n + 1) /\ Good(j)
    <2>1. ASSUME NEW k \in i .. (j - 1) PROVE IsNote(s[k])
        <3>1. k \in i .. (n + 1) /\ k \notin S
            BY <1>1, <1>3
        <3> QED
            BY <3>1
    <2> QED
        BY <1>3, <2>1
<1>5. NextCode(s, i) = CHOOSE c \in i .. (n + 1) : Good(c)
    BY DEF NextCode
<1> HIDE DEF S, n
<1>6. NextCode(s, i) \in i .. (n + 1) /\ Good(NextCode(s, i))
    BY <1>4, <1>5
<1> QED
    BY <1>6 DEF n

\* The loop that is dropped ends where the table says.
DeadEnd(s, i, b, e) ==
    /\ b \in i .. Len(s) /\ \A k \in i .. (b - 1) : IsNote(s[k])
    /\ Closes(s, b, e) /\ Partners(s)[b] = e /\ e \in Nat

\* A dead loop has an end.
LEMMA DeadLoopFound ==
    ASSUME NEW s, Prog(s), NEW i \in 1 .. Len(s), NEW out, DeadLoopAt(s, out, i)
    PROVE  \E e : DeadEnd(s, i, NextCode(s, i), e)
<1> DEFINE b == NextCode(s, i)
<1>1. /\ s \in Seq(Toks) /\ Balanced(s) /\ Len(s) \in Nat /\ DOMAIN s = 1 .. Len(s) /\ i \in Nat /\ i >= 1
    BY ProgIs
<1>2. b \in i .. (Len(s) + 1) /\ \A k \in i .. (b - 1) : IsNote(s[k])
    BY <1>1, NextCodeIs
<1>3. b <= Len(s) /\ s[b].op = "open"
    BY DEF DeadLoopAt
<1> HIDE DEF b
<1>4. b \in i .. Len(s) /\ b \in Brackets(s, "open")
    BY <1>1, <1>2, <1>3 DEF Brackets
<1>5. PICK e : Closes(s, b, e)
    BY <1>1, <1>4, OpenIsClosed
<1>6. Partners(s)[b] = e
    BY <1>1, <1>5, PartnersClose
<1>7. e \in Nat
    BY <1>1, <1>5 DEF Closes, Brackets
<1>8. DeadEnd(s, i, b, e)
    BY ONLY <1>2, <1>4, <1>5, <1>6, <1>7 DEF DeadEnd
<1> QED
    BY <1>8 DEF b

\* What a pass has made, and where it goes on.
Scanned == [out : Seq(Toks), next : Nat]

\* Between the visits it has come to i, or is already beyond.
ScansTo(s, i, st) == st \in Scanned /\ Done(s, st.out, st.next) /\ i <= st.next

LEMMA ScannedIs ==
    ASSUME NEW w \in Seq(Toks), NEW j \in Nat
    PROVE  [out |-> w, next |-> j] \in Scanned
BY DEF Scanned

LEMMA DropDeadTyped ==
    ASSUME NEW s, Prog(s), NEW i \in 1 .. Len(s), NEW st \in Scanned
    PROVE  DropDeadLoop(s, Partners(s), st, i) \in Scanned
<1>1. st.out \in Seq(Toks) /\ st.next \in Nat /\ i + 1 \in Nat
    BY DEF Scanned
<1>2. CASE i < st.next
    BY <1>2 DEF DropDeadLoop
<1>3. CASE ~(i < st.next) /\ DeadLoopAt(s, st.out, i)
    <2>1. PICK e : DeadEnd(s, i, NextCode(s, i), e)
        BY <1>3, DeadLoopFound
    <2>2. Partners(s)[NextCode(s, i)] + 1 \in Nat
        BY <2>1 DEF DeadEnd
    <2> QED
        BY <1>1, <1>3, <2>2 DEF DropDeadLoop, Scanned
<1>4. CASE ~(i < st.next) /\ ~DeadLoopAt(s, st.out, i)
    <2>1. Append(st.out, s[i]) \in Seq(Toks)
        <3>1. s[i] \in Toks
            BY ProgIs
        <3> QED
            BY <1>1, <3>1
    <2> QED
        BY <1>1, <1>4, <2>1, ScannedIs DEF DropDeadLoop
<1> QED
    BY <1>2, <1>3, <1>4

\* One visit of eliminateDeadLoops.
LEMMA DropDeadDone ==
    ASSUME NEW s, Prog(s), NEW i \in 1 .. Len(s), NEW st, ScansTo(s, i, st)
    PROVE  ScansTo(s, i + 1, DropDeadLoop(s, Partners(s), st, i))
<1> DEFINE r == DropDeadLoop(s, Partners(s), st, i)
<1>1. /\ s \in Seq(Toks) /\ Len(s) \in Nat /\ st \in Scanned /\ st.out \in Seq(Toks) /\ st.next \in Nat
      /\ Done(s, st.out, st.next) /\ i <= st.next /\ st.next <= Len(s) + 1 /\ i \in Nat /\ i >= 1
    BY DoneIs DEF ScansTo, Scanned
<1>2. r \in Scanned
    BY <1>1, DropDeadTyped
<1>3. CASE i < st.next
    BY <1>1, <1>3 DEF DropDeadLoop, ScansTo
<1>4. CASE ~(i < st.next) /\ DeadLoopAt(s, st.out, i)
    <2>1. st.next = i /\ st.out # <<>> /\ st.out[Len(st.out)].op = "close"
        BY <1>1, <1>4 DEF DeadLoopAt, Last
    <2>2. PICK e : DeadEnd(s, i, NextCode(s, i), e)
        BY <1>4, DeadLoopFound
    <2> DEFINE b == NextCode(s, i)
    <2>3. /\ b \in i .. Len(s) /\ (\A k \in i .. (b - 1) : IsNote(s[k])) /\ Closes(s, b, e)
          /\ Partners(s)[b] = e
        BY <2>2 DEF DeadEnd
    <2>4. r.out = st.out /\ r.next = e + 1
        BY <1>1, <1>4, <2>3 DEF DropDeadLoop, Scanned
    <2> HIDE DEF b, r
    <2>5. i \in 1 .. (Len(s) + 1) /\ Prog(Rest(st.out, s, i))
        BY <1>1, <2>1, DoneIs
    <2>6. e + 1 \in (i + 1) .. (Len(s) + 1) /\ Does(Rest(st.out, s, i), Rest(st.out, s, e + 1))
        BY <1>1, <2>1, <2>3, <2>5, RestDead
    <2>7. e + 1 \in 1 .. (Len(s) + 1) /\ i + 1 <= e + 1
        BY <1>1, <2>6
    <2>8. Done(s, st.out, e + 1)
        BY <1>1, <2>1, <2>6, <2>7, DoneOn
    <2>9. ScansTo(s, i + 1, r)
        BY ONLY <1>2, <2>4, <2>7, <2>8 DEF ScansTo
    <2> QED
        BY ONLY <2>9 DEF r
<1>5. CASE ~(i < st.next) /\ ~DeadLoopAt(s, st.out, i)
    <2>1. st.next = i
        BY <1>1, <1>5
    <2>2. r.out = Append(st.out, s[i]) /\ r.next = i + 1
        BY <1>5 DEF DropDeadLoop
    <2> HIDE DEF r
    <2>3. Done(s, Append(st.out, s[i]), i + 1)
        BY <1>1, <2>1, DoneKeep
    <2>4. i + 1 <= i + 1
        BY <1>1
    <2>5. ScansTo(s, i + 1, r)
        BY ONLY <1>2, <2>2, <2>3, <2>4 DEF ScansTo
    <2> QED
        BY ONLY <2>5 DEF r
<1> QED
    BY <1>3, <1>4, <1>5

\* A pass that has visited all tokens is done.
LEMMA ScannedAll ==
    ASSUME NEW s, Prog(s), NEW n \in Nat, n = Len(s), NEW h, ScansTo(s, 1, h[0]),
           \A i \in 1 .. n : ScansTo(s, i, h[i - 1]) => ScansTo(s, i + 1, h[i])
    PROVE  Does(s, h[n].out)
<1> DEFINE S == {i \in 0 .. n : ScansTo(s, i + 1, h[i])}
<1>1. 0 \in S
    OBVIOUS
<1>2. ASSUME NEW i \in 0 .. (n - 1), i \in S PROVE i + 1 \in S
    <2> DEFINE j == i + 1
    <2>1. j \in 1 .. n /\ j - 1 = i /\ j \in 0 .. n
        OBVIOUS
    <2>2. ScansTo(s, j, h[i])
        BY <1>2
    <2> HIDE DEF j
    <2>3. ScansTo(s, j + 1, h[j])
        BY <2>1, <2>2
    <2>4. j \in S
        BY <2>1, <2>3
    <2> QED
        BY <2>4 DEF j
<1> HIDE DEF S
<1>3. n \in S
    <2>1. 0 .. n \subseteq S
        BY <1>1, <1>2, BoundedInd
    <2> QED
        BY <2>1
<1>4. ScansTo(s, n + 1, h[n])
    BY <1>3 DEF S
<1>5. h[n].next = n + 1
    <2>1. h[n].next \in 1 .. (Len(s) + 1) /\ n + 1 <= h[n].next
        BY <1>4 DEF ScansTo, Done
    <2> QED
        BY <2>1
<1>6. Done(s, h[n].out, n + 1)
    BY <1>4, <1>5 DEF ScansTo
<1> QED
    BY <1>6, DoneLast

LEMMA ScanStarts ==
    ASSUME NEW s, Prog(s)
    PROVE  Started \in Scanned /\ ScansTo(s, 1, Started)
<1>1. Started \in Scanned /\ Started.out = <<>> /\ Started.next = 1
    BY DEF Started, Scanned
<1>2. Done(s, Started.out, Started.next)
    BY <1>1, DoneFirst
<1> QED
    BY <1>1, <1>2 DEF ScansTo

\* eliminateDeadLoops.
LEMMA DropDeadVisits ==
    ASSUME NEW s, Prog(s), NEW n \in Nat, n = Len(s)
    PROVE  \E h : /\ h[0] = Started /\ \A i \in 1 .. n : h[i] = DropDeadLoop(s, Partners(s), h[i - 1], i)
                  /\ EliminateDeadLoops(s) = h[n].out
<1> DEFINE b == Started
           p == Partners(s)
           f == [i \in 1 .. n |-> [st \in Scanned |-> DropDeadLoop(s, p, st, i)]]
           Visits(g) == g = [i \in 0 .. n |-> IF i = 0 THEN b ELSE DropDeadLoop(s, p, g[i - 1], i)]
<1>1. b \in Scanned
    BY ScanStarts
<1>2. f \in [1 .. n -> [Scanned -> Scanned]]
    <2>1. \A i \in 1 .. n : \A st \in Scanned : DropDeadLoop(s, p, st, i) \in Scanned
        BY DropDeadTyped
    <2> QED
        BY <2>1
<1> HIDE DEF f, p
<1>a. PICK h : Iterated(h, n, Scanned, b, f)
    <2> HIDE DEF b
    <2> QED
        BY <1>1, <1>2, Iterates
<1>3. h \in [0 .. n -> Scanned] /\ h[0] = b /\ \A i \in 1 .. n : h[i] = f[i][h[i - 1]]
    <2> HIDE DEF b
    <2> QED
        BY <1>a DEF Iterated
<1>4. ASSUME NEW i \in 1 .. n PROVE h[i] = DropDeadLoop(s, p, h[i - 1], i)
    <2>1. i - 1 \in 0 .. n
        OBVIOUS
    <2> QED
        BY <1>3, <2>1 DEF f
<1>5. Visits(h)
    <2>1. \A i \in 0 .. n : i # 0 => i \in 1 .. n
        OBVIOUS
    <2> HIDE DEF b
    <2> QED
        BY <1>3, <1>4, <2>1
<1> DEFINE visit == CHOOSE g : Visits(g)
<1>6. Visits(visit)
    BY <1>5
<1>7. EliminateDeadLoops(s) = visit[n].out
    BY DEF EliminateDeadLoops, p
<1> HIDE DEF visit
<1>8. visit[0] = b /\ \A i \in 1 .. n : visit[i] = DropDeadLoop(s, p, visit[i - 1], i)
    <2> HIDE DEF b
    <2>1. \A i \in 0 .. n : visit[i] = IF i = 0 THEN b ELSE DropDeadLoop(s, p, visit[i - 1], i)
        BY <1>6
    <2>2. \A i \in 1 .. n : i \in 0 .. n /\ i # 0
        OBVIOUS
    <2> QED
        BY <2>1, <2>2
<1> QED
    BY <1>7, <1>8 DEF p

LEMMA DropDeadDoes ==
    ASSUME NEW s, Prog(s)
    PROVE  Does(s, EliminateDeadLoops(s))
<1> DEFINE n == Len(s)
<1>1. n \in Nat
    BY ProgIs
<1>2. PICK h : /\ h[0] = Started /\ \A i \in 1 .. n : h[i] = DropDeadLoop(s, Partners(s), h[i - 1], i)
               /\ EliminateDeadLoops(s) = h[n].out
    BY <1>1, DropDeadVisits
<1>3. ScansTo(s, 1, h[0])
    BY <1>2, ScanStarts
<1>4. \A i \in 1 .. n : ScansTo(s, i, h[i - 1]) => ScansTo(s, i + 1, h[i])
    BY <1>2, DropDeadDone
<1> HIDE DEF n
<1>5. Does(s, h[n].out)
    BY <1>1, <1>3, <1>4, ScannedAll DEF n
<1> QED
    BY <1>2, <1>5

\* What DropRoundTrip leaves, in each case.
RoundLeaves(s, st, i, r) ==
    LET kept == Append(st.out, s[i])
    IN /\ i < st.next => r = st
       /\ ~(i < st.next) /\ ~IsRoundTrip(s, i) => r.out = kept /\ r.next = i + 1
       /\ ~(i < st.next) /\ IsRoundTrip(s, i) =>
            /\ r.next = i + 9 + Gap(s, i)
            /\ r.out = IF NoteAfterScan(s, i) THEN Append(kept, s[i + 5]) ELSE kept

LEMMA RoundCases ==
    ASSUME NEW s, NEW st, NEW i
    PROVE  RoundLeaves(s, st, i, DropRoundTrip(s, st, i))
BY DEF DropRoundTrip, RoundLeaves

LEMMA DropRoundTyped ==
    ASSUME NEW s, Prog(s), NEW i \in 1 .. Len(s), NEW st \in Scanned
    PROVE  DropRoundTrip(s, st, i) \in Scanned
<1> DEFINE kept == Append(st.out, s[i])
<1>1. st.out \in Seq(Toks) /\ st.next \in Nat /\ i + 1 \in Nat /\ Len(s) \in Nat
    BY ProgIs DEF Scanned
<1>2. kept \in Seq(Toks)
    <2>1. s[i] \in Toks
        BY ProgIs
    <2> QED
        BY <1>1, <2>1
<1>3. NoteAfterScan(s, i) => Append(kept, s[i + 5]) \in Seq(Toks)
    <2>1. NoteAfterScan(s, i) => i + 5 \in 1 .. Len(s)
        BY <1>1 DEF NoteAfterScan
    <2>2. NoteAfterScan(s, i) => s[i + 5] \in Toks
        BY <2>1, ProgIs
    <2> HIDE DEF kept
    <2> QED
        BY <1>2, <2>2
<1>4. i + 9 + Gap(s, i) \in Nat
    BY <1>1 DEF Gap
<1> DEFINE w == IF NoteAfterScan(s, i) THEN Append(kept, s[i + 5]) ELSE kept
<1>5. w \in Seq(Toks)
    BY <1>2, <1>3
<1>6. DropRoundTrip(s, st, i) \in {st, [out |-> kept, next |-> i + 1], [out |-> w, next |-> i + 9 + Gap(s, i)]}
    BY DEF DropRoundTrip
<1> HIDE DEF kept, w
<1>7. [out |-> kept, next |-> i + 1] \in Scanned /\ [out |-> w, next |-> i + 9 + Gap(s, i)] \in Scanned
    BY <1>1, <1>2, <1>4, <1>5, ScannedIs
<1> QED
    BY <1>6, <1>7

\* One visit of eliminateHighwayRoundTrips.
LEMMA DropRoundDone ==
    ASSUME NEW s, Prog(s), NEW i \in 1 .. Len(s), NEW st, ScansTo(s, i, st)
    PROVE  ScansTo(s, i + 1, DropRoundTrip(s, st, i))
<1> DEFINE r == DropRoundTrip(s, st, i)
           kept == Append(st.out, s[i])
           e == i + 9 + Gap(s, i)
<1>1. /\ s \in Seq(Toks) /\ Len(s) \in Nat /\ st \in Scanned /\ st.out \in Seq(Toks) /\ st.next \in Nat
      /\ Done(s, st.out, st.next) /\ i <= st.next /\ i \in Nat /\ i >= 1 /\ i <= Len(s) /\ s[i] \in Toks
    BY DoneIs DEF ScansTo, Scanned
<1>2. r \in Scanned
    BY <1>1, DropRoundTyped
<1>3. /\ i < st.next => r = st
      /\ ~(i < st.next) /\ ~IsRoundTrip(s, i) => r.out = kept /\ r.next = i + 1
      /\ ~(i < st.next) /\ IsRoundTrip(s, i) =>
            r.next = e /\ r.out = IF NoteAfterScan(s, i) THEN Append(kept, s[i + 5]) ELSE kept
    BY RoundCases DEF RoundLeaves
<1> SUFFICES ScansTo(s, i + 1, r)
    OBVIOUS
<1>k. ASSUME st.next = i
      PROVE  Done(s, kept, i + 1) /\ kept \in Seq(Toks) /\ kept # <<>> /\ kept[Len(kept)] = s[i]
    <2>1. Done(s, kept, i + 1)
        <3>1. Done(s, st.out, i)
            BY <1>1, <1>k
        <3> QED
            BY <1>1, <3>1, DoneKeep
    <2>2. AppendMade(kept, st.out, s[i])
        BY <1>1, AppendIs
    <2> HIDE DEF kept
    <2>3. kept \in Seq(Toks) /\ kept[Len(kept)] = s[i] /\ Len(kept) # 0
        BY ONLY <2>2 DEF AppendMade
    <2>4. kept # <<>>
        BY ONLY <2>3
    <2> QED
        BY ONLY <2>1, <2>3, <2>4
<1> HIDE DEF r, kept
<1>4. CASE i < st.next
    BY <1>1, <1>3, <1>4 DEF ScansTo
<1>5. CASE ~(i < st.next) /\ ~IsRoundTrip(s, i)
    <2>1. st.next = i /\ i + 1 <= i + 1
        BY <1>1, <1>5
    <2> QED
        BY <1>2, <1>3, <1>5, <1>k, <2>1 DEF ScansTo
<1>6. CASE ~(i < st.next) /\ IsRoundTrip(s, i)
    <2>1. st.next = i
        BY <1>1, <1>6
    <2>2. Prog(Rest(kept, s, i + 1))
        BY <1>k, <2>1, DoneIs
    <2>3. e \in (i + 1) .. (Len(s) + 1) /\ Does(Rest(kept, s, i + 1), Rest(kept, s, e))
        BY <1>1, <1>6, <1>k, <2>1, <2>2, RestRound
    <2>4. e \in 1 .. (Len(s) + 1) /\ i + 1 <= e
        BY <1>1, <2>3
    <2> HIDE DEF e
    <2>5. Done(s, kept, e)
        BY <1>k, <2>1, <2>3, <2>4, DoneOn
    <2>6. CASE ~NoteAfterScan(s, i)
        BY <1>2, <1>3, <1>6, <2>4, <2>5, <2>6 DEF ScansTo
    <2>7. CASE NoteAfterScan(s, i)
        <3> DEFINE t == s[i + 5]
        <3>1. i + 5 \in 1 .. Len(s) /\ IsNote(t)
            BY <1>1, <2>7 DEF NoteAfterScan
        <3>2. t \in Toks /\ Idle(t)
            BY <1>1, <3>1 DEF Idle
        <3> HIDE DEF t
        <3>3. Prog(Rest(kept, s, e))
            BY <2>5, DoneIs
        <3>4. Does(Rest(kept, s, e), Rest(Append(kept, t), s, e))
            BY <1>1, <1>k, <2>1, <2>4, <3>2, <3>3, RestPut
        <3>5. Append(kept, t) \in Seq(Toks)
            BY <1>k, <2>1, <3>2
        <3>6. Done(s, Append(kept, t), e)
            BY <2>4, <2>5, <3>4, <3>5, DoneOn
        <3>7. r.next = e /\ r.out = Append(kept, t)
            BY <1>3, <1>6, <2>7 DEF t
        <3> QED
            BY ONLY <1>2, <2>4, <3>6, <3>7 DEF ScansTo
    <2> QED
        BY <2>6, <2>7
<1> QED
    BY <1>4, <1>5, <1>6

\* eliminateHighwayRoundTrips.
LEMMA DropRoundVisits ==
    ASSUME NEW s, Prog(s), NEW n \in Nat, n = Len(s)
    PROVE  \E h : /\ h[0] = Started /\ \A i \in 1 .. n : h[i] = DropRoundTrip(s, h[i - 1], i)
                  /\ EliminateHighwayRoundTrips(s) = h[n].out
<1> DEFINE b == Started
           f == [i \in 1 .. n |-> [st \in Scanned |-> DropRoundTrip(s, st, i)]]
           Visits(g) == g = [i \in 0 .. n |-> IF i = 0 THEN b ELSE DropRoundTrip(s, g[i - 1], i)]
<1>1. b \in Scanned
    BY ScanStarts
<1>2. f \in [1 .. n -> [Scanned -> Scanned]]
    <2>1. \A i \in 1 .. n : \A st \in Scanned : DropRoundTrip(s, st, i) \in Scanned
        BY DropRoundTyped
    <2> QED
        BY <2>1
<1> HIDE DEF f
<1>a. PICK h : Iterated(h, n, Scanned, b, f)
    <2> HIDE DEF b
    <2> QED
        BY <1>1, <1>2, Iterates
<1>3. h \in [0 .. n -> Scanned] /\ h[0] = b /\ \A i \in 1 .. n : h[i] = f[i][h[i - 1]]
    <2> HIDE DEF b
    <2> QED
        BY <1>a DEF Iterated
<1>4. ASSUME NEW i \in 1 .. n PROVE h[i] = DropRoundTrip(s, h[i - 1], i)
    <2>1. i - 1 \in 0 .. n
        OBVIOUS
    <2> QED
        BY <1>3, <2>1 DEF f
<1>5. Visits(h)
    <2>1. \A i \in 0 .. n : i # 0 => i \in 1 .. n
        OBVIOUS
    <2> HIDE DEF b
    <2> QED
        BY <1>3, <1>4, <2>1
<1> DEFINE visit == CHOOSE g : Visits(g)
<1>6. Visits(visit)
    BY <1>5
<1>7. EliminateHighwayRoundTrips(s) = visit[n].out
    BY DEF EliminateHighwayRoundTrips
<1> HIDE DEF visit
<1>8. visit[0] = b /\ \A i \in 1 .. n : visit[i] = DropRoundTrip(s, visit[i - 1], i)
    <2> HIDE DEF b
    <2>1. \A i \in 0 .. n : visit[i] = IF i = 0 THEN b ELSE DropRoundTrip(s, visit[i - 1], i)
        BY <1>6
    <2>2. \A i \in 1 .. n : i \in 0 .. n /\ i # 0
        OBVIOUS
    <2> QED
        BY <2>1, <2>2
<1> QED
    BY <1>7, <1>8

LEMMA DropRoundDoes ==
    ASSUME NEW s, Prog(s)
    PROVE  Does(s, EliminateHighwayRoundTrips(s))
<1> DEFINE n == Len(s)
<1>1. n \in Nat
    BY ProgIs
<1>2. PICK h : /\ h[0] = Started /\ \A i \in 1 .. n : h[i] = DropRoundTrip(s, h[i - 1], i)
               /\ EliminateHighwayRoundTrips(s) = h[n].out
    BY <1>1, DropRoundVisits
<1>3. ScansTo(s, 1, h[0])
    BY <1>2, ScanStarts
<1>4. \A i \in 1 .. n : ScansTo(s, i, h[i - 1]) => ScansTo(s, i + 1, h[i])
    BY <1>2, DropRoundDone
<1> HIDE DEF n
<1>5. Does(s, h[n].out)
    BY <1>1, <1>3, <1>4, ScannedAll DEF n
<1> QED
    BY <1>2, <1>5

\* Nothing of a rendered program is idle, and it does what the tokens do and they what it does.
Busy(c) == \A k \in 1 .. Len(c) : ~Idle(c[k])

\* As Done, and the other way round: what is rendered so far does nothing that s does
\* not.
Renders(s, out, i) == Done(s, out, i) /\ Does(Rest(out, s, i), s) /\ Busy(out)

\* What render makes of one token.
RenderAt(s, out, i) == IF Idle(s[i]) THEN out ELSE Append(out, s[i])

\* One visit of render.
LEMMA RenderDone ==
    ASSUME NEW s, Prog(s), NEW i \in 1 .. Len(s), NEW out, Renders(s, out, i)
    PROVE  Renders(s, RenderAt(s, out, i), i + 1)
<1>1. /\ s \in Seq(Toks) /\ out \in Seq(Toks) /\ s[i] \in Toks /\ i \in 1 .. (Len(s) + 1)
      /\ i + 1 \in 1 .. (Len(s) + 1) /\ i <= Len(s) /\ Done(s, out, i) /\ Prog(Rest(out, s, i))
      /\ Does(Rest(out, s, i), s) /\ Busy(out)
    BY DoneIs DEF Renders
<1>2. CASE Idle(s[i])
    <2>1. Does(Rest(out, s, i), Rest(out, s, i + 1)) /\ Does(Rest(out, s, i + 1), Rest(out, s, i))
        BY <1>1, <1>2, RestIdle
    <2>2. Done(s, out, i + 1)
        BY <1>1, <2>1, DoneOn
    <2>3. Prog(Rest(out, s, i + 1))
        BY <2>2, DoneIs
    <2>4. Does(Rest(out, s, i + 1), s)
        BY <1>1, <2>1, <2>3, DoesTrans
    <2> QED
        BY <1>1, <1>2, <2>2, <2>4 DEF Renders, RenderAt
<1>3. CASE ~Idle(s[i])
    <2> DEFINE w == Append(out, s[i])
    <2>1. Done(s, w, i + 1)
        BY <1>1, DoneKeep
    <2>2. Rest(w, s, i + 1) = Rest(out, s, i)
        BY <1>1, RestKeep
    <2>3. AppendMade(w, out, s[i])
        BY <1>1, AppendIs
    <2> HIDE DEF w
    <2>4. Busy(w)
        <3>1. ASSUME NEW k \in 1 .. Len(w) PROVE ~Idle(w[k])
            <4>0. /\ Len(w) = Len(out) + 1 /\ Len(out) \in Nat /\ w[Len(out) + 1] = s[i]
                  /\ \A l \in 1 .. Len(out) : w[l] = out[l]
                BY ONLY <2>3 DEF AppendMade
            <4>1. CASE k = Len(out) + 1
                BY ONLY <1>3, <4>0, <4>1
            <4>2. CASE k # Len(out) + 1
                <5>1. k \in 1 .. Len(out)
                    BY <4>0, <4>2
                <5> QED
                    BY <1>1, <4>0, <5>1 DEF Busy
            <4> QED
                BY <4>1, <4>2
        <3> QED
            BY <3>1 DEF Busy
    <2>5. Renders(s, w, i + 1)
        BY <1>1, <2>1, <2>2, <2>4 DEF Renders
    <2> QED
        BY <1>3, <2>5 DEF RenderAt, w
<1> QED
    BY <1>2, <1>3

LEMMA RenderVisits ==
    ASSUME NEW s \in Seq(Toks), NEW n \in Nat, n = Len(s)
    PROVE  \E h : h[0] = <<>> /\ (\A i \in 1 .. n : h[i] = RenderAt(s, h[i - 1], i)) /\ Render(s) = h[n]
<1> DEFINE b == <<>>
           f == [i \in 1 .. n |-> [st \in Seq(Toks) |-> RenderAt(s, st, i)]]
           Visits(g) == g = [i \in 0 .. n |-> IF i = 0 THEN b ELSE RenderAt(s, g[i - 1], i)]
<1>1. b \in Seq(Toks)
    OBVIOUS
<1>2. f \in [1 .. n -> [Seq(Toks) -> Seq(Toks)]]
    <2>1. \A i \in 1 .. n : s[i] \in Toks
        OBVIOUS
    <2>2. \A i \in 1 .. n : \A st \in Seq(Toks) : RenderAt(s, st, i) \in Seq(Toks)
        BY <2>1 DEF RenderAt
    <2> QED
        BY <2>2
<1> HIDE DEF f
<1>a. PICK h : Iterated(h, n, Seq(Toks), b, f)
    <2> HIDE DEF b
    <2> QED
        BY <1>1, <1>2, Iterates
<1>3. h \in [0 .. n -> Seq(Toks)] /\ h[0] = b /\ \A i \in 1 .. n : h[i] = f[i][h[i - 1]]
    <2> HIDE DEF b
    <2> QED
        BY <1>a DEF Iterated
<1>4. ASSUME NEW i \in 1 .. n PROVE h[i] = RenderAt(s, h[i - 1], i)
    <2>1. i - 1 \in 0 .. n
        OBVIOUS
    <2> QED
        BY <1>3, <2>1 DEF f
<1>5. Visits(h)
    <2>1. \A i \in 0 .. n : i # 0 => i \in 1 .. n
        OBVIOUS
    <2> HIDE DEF b
    <2> QED
        BY <1>3, <1>4, <2>1
<1> DEFINE visit == CHOOSE g : Visits(g)
<1>6. Visits(visit)
    BY <1>5
<1>7. Render(s) = visit[n]
    BY DEF Render, RenderAt
<1> HIDE DEF visit
<1>8. visit[0] = b /\ \A i \in 1 .. n : visit[i] = RenderAt(s, visit[i - 1], i)
    <2> HIDE DEF b
    <2>1. \A i \in 0 .. n : visit[i] = IF i = 0 THEN b ELSE RenderAt(s, visit[i - 1], i)
        BY <1>6
    <2>2. \A i \in 1 .. n : i \in 0 .. n /\ i # 0
        OBVIOUS
    <2> QED
        BY <2>1, <2>2
<1> QED
    BY <1>7, <1>8

\* render.
LEMMA RenderDoes ==
    ASSUME NEW s, Prog(s)
    PROVE  Does(s, Render(s)) /\ Does(Render(s), s) /\ Busy(Render(s)) /\ Prog(Render(s))
<1> DEFINE n == Len(s)
<1>1. n \in Nat /\ s \in Seq(Toks)
    BY ProgIs
<1>2. PICK h : h[0] = <<>> /\ (\A i \in 1 .. n : h[i] = RenderAt(s, h[i - 1], i)) /\ Render(s) = h[n]
    BY <1>1, RenderVisits
<1> DEFINE S == {i \in 0 .. n : Renders(s, h[i], i + 1)}
<1>3. 0 \in S
    <2> DEFINE b == <<>>
    <2>1. Done(s, b, 1) /\ Rest(b, s, 1) = s /\ Does(s, s)
        BY <1>1, DoneFirst, RestFirst, DoesSelf
    <2>2. Busy(b)
        BY DEF Busy
    <2>3. h[0] = b /\ 0 + 1 = 1
        BY <1>2
    <2> HIDE DEF b
    <2>4. Renders(s, h[0], 0 + 1)
        BY ONLY <2>1, <2>2, <2>3 DEF Renders
    <2> QED
        BY <1>1, <2>4
<1>4. ASSUME NEW i \in 0 .. (n - 1), i \in S PROVE i + 1 \in S
    <2> DEFINE j == i + 1
    <2>1. j \in 1 .. n /\ j - 1 = i /\ j \in 0 .. n
        BY <1>1
    <2>2. Renders(s, h[i], j)
        BY <1>4
    <2> HIDE DEF j
    <2>3. Renders(s, RenderAt(s, h[i], j), j + 1)
        BY <2>1, <2>2, RenderDone
    <2>4. h[j] = RenderAt(s, h[i], j)
        BY <1>2, <2>1
    <2>5. j \in S
        BY <2>1, <2>3, <2>4
    <2> QED
        BY <2>5 DEF j
<1> HIDE DEF S
<1>5. n \in S
    <2>1. 0 .. n \subseteq S
        BY <1>1, <1>3, <1>4, BoundedInd
    <2> QED
        BY <1>1, <2>1
<1>6. Renders(s, h[n], n + 1)
    BY <1>5 DEF S
<1>7. h[n] \in Seq(Toks) /\ Rest(h[n], s, n + 1) = h[n]
    <2>1. h[n] \in Seq(Toks)
        BY <1>6 DEF Renders, Done
    <2> QED
        BY <1>1, <2>1, RestLast
<1> HIDE DEF n
<1>8. Does(s, h[n]) /\ Does(h[n], s) /\ Busy(h[n])
    BY ONLY <1>6, <1>7 DEF Renders, Done
<1> QED
    BY ONLY <1>2, <1>8 DEF Does

\* Optimize keeps what every program with paired brackets does: there is a place of the
\* rendered program for each place of the optimized one, and where a step of the optimized
\* program leads, the other one comes to as well, with the same tape, pointer, output and
\* input, unless it dies off the tape first.  Both have their brackets in pairs, and
\* nothing idle.
THEOREM OptimizeDoes ==
    ASSUME NEW s, Prog(s)
    PROVE  /\ Prog(Render(s)) /\ Busy(Render(s))
           /\ Prog(Optimize(s)) /\ Busy(Optimize(s))
           /\ Does(Render(s), Optimize(s))
<1> DEFINE r == Render(s)
           m == MergeTokens(s)
           d == EliminateDeadLoops(m)
           e == EliminateHighwayRoundTrips(d)
           q == Render(e)
<1>1. q = Optimize(s)
    BY DEF Optimize
<1>2. Prog(r) /\ Busy(r) /\ Does(r, s)
    BY RenderDoes
<1>3. Does(s, m)
    BY MergeDoes
<1>4. Prog(m)
    BY <1>3 DEF Does
<1>5. Does(m, d)
    BY <1>4, DropDeadDoes
<1>6. Prog(d)
    BY <1>5 DEF Does
<1>7. Does(d, e)
    BY <1>6, DropRoundDoes
<1>8. Prog(e)
    BY <1>7 DEF Does
<1>9. Does(e, q) /\ Busy(q) /\ Prog(q)
    BY <1>8, RenderDoes
<1> HIDE DEF r, m, d, e, q
<1>10. Does(r, m)
    BY <1>2, <1>3, DoesTrans
<1>11. Does(r, d)
    BY <1>2, <1>5, <1>10, DoesTrans
<1>12. Does(r, e)
    BY <1>2, <1>7, <1>11, DoesTrans
<1>13. Does(r, q)
    BY <1>2, <1>9, <1>12, DoesTrans
<1> QED
    BY <1>1, <1>2, <1>9, <1>13 DEF r

-----------------------------------------------------------------------------
(* The two machines.                                                         *)

\* A machine that runs a rendered program makes its steps.
LEMMA BusyDoes ==
    ASSUME NEW c, Prog(c), Busy(c), NEW m \in Within(c), ~Halted(c, m)
    PROVE  Do(c, m) = Execute(c, Partners(c), m)
<1>1. m.pc \in 1 .. Len(c)
    BY ProgIs DEF Within, Halted
<1> QED
    BY <1>1 DEF Busy, Do

\* A machine before its first step.
AtStart(b) == b \in Machines /\ b.pc = 1 /\ ~b.failed

\* What a machine y of Q is to P: it stands where P gets to, at its end when y does.
Image(P, Q, b, y, i) ==
    /\ i \in 1 .. (Len(P) + 1) /\ Gets(P, b, Pass(y, i))
    /\ y.pc = Len(Q) + 1 => i = Len(P) + 1

\* Wherever the optimized program comes to, the other one comes to its place.
LEMMA HasImage ==
    ASSUME NEW P, Prog(P), NEW Q, Does(P, Q), NEW b, AtStart(b), NEW y, Reach(Q, b, y)
    PROVE  \E i : Image(P, Q, b, y, i)
<1>1. Prog(Q)
    BY DEF Does
<1>2. PICK at : Simulates(P, Q, at)
    BY DEF Does
<1>3. /\ at \in [1 .. (Len(Q) + 1) -> 1 .. (Len(P) + 1)] /\ at[Len(Q) + 1] = Len(P) + 1 /\ Starts(P, Q, at)
    BY <1>2 DEF Simulates
<1>4. b \in Machines /\ b.pc = 1 /\ ~b.failed /\ b \in Within(P) /\ b \in Within(Q)
    BY <1>1, ProgIs DEF AtStart, Within
<1>5. y \in Within(Q)
    BY <1>1, <1>4, ReachIn
<1> DEFINE i == at[y.pc]
           j == at[1]
           w == Pass(b, j)
           z == Pass(y, i)
<1>6. /\ y \in Machines /\ y.pc \in 1 .. (Len(Q) + 1) /\ z \in Machines /\ z.out = y.out
    BY <1>1, <1>3, <1>5, PlaceIs
<1>7. w \in Machines /\ w.out = b.out
    <2>1. Pass(b, at[b.pc]) \in Machines /\ Pass(b, at[b.pc]).out = b.out
        BY <1>1, <1>3, <1>4, PlaceIs
    <2> QED
        BY <1>4, <2>1
<1>8. Gets(P, b, w)
    <2>1. Gets(P, Pass(b, 1), w)
        BY <1>3, <1>4 DEF Starts
    <2>2. Pass(b, 1) = b
        BY <1>4, PassIs
    <2> QED
        BY <2>1, <2>2
<1>9. Gets(P, w, z)
    <2>1. Gets(P, Pass(b, at[b.pc]), z)
        BY <1>1, <1>2, <1>4, FollowsReach
    <2> QED
        BY <1>4, <2>1
<1>10. Upto(b.out, y.out)
    BY <1>1, <1>4, ReachPrints
<1>11. i \in 1 .. (Len(P) + 1) /\ (y.pc = Len(Q) + 1 => i = Len(P) + 1)
    BY <1>3, <1>6
<1> HIDE DEF w, z
<1>12. Gets(P, b, z)
    BY <1>4, <1>6, <1>7, <1>8, <1>9, <1>10, GetsTrans
<1> QED
    BY <1>11, <1>12 DEF Image, z

\* How a machine that P gets to unless it dies stands to one that it gets to.
Beside(P, x, w) ==
    /\ Halted(P, x) => Reach(P, w, x)
    /\ Upto(w.out, x.out) \/ Upto(x.out, w.out)
    /\ w.failed => Upto(x.out, w.out)

\* Runs of the same program from the same start: one is on the way to the other.
LEMMA GetsBeside ==
    ASSUME NEW P, Prog(P), NEW b \in Within(P), NEW x, Reach(P, b, x), ~x.failed, NEW w \in Machines, Gets(P, b, w)
    PROVE  Beside(P, x, w)
<1>1. x \in Within(P) /\ x \in Machines /\ x.out \in Seq(Byte) /\ w.out \in Seq(Byte)
    BY ReachIn, MachineIs DEF Within
<1>2. CASE Reach(P, b, w)
    <2>1. w \in Within(P)
        BY <1>2, ReachIn
    <2>2. Reach(P, w, x) \/ Reach(P, x, w)
        BY <1>2, ReachLinear
    <2>3. CASE Reach(P, w, x)
        <3>1. Upto(w.out, x.out)
            BY <2>1, <2>3, ReachPrints
        <3>2. w.failed => w = x
            BY <2>1, <2>3, ReachHalted DEF Halted
        <3> QED
            BY <2>3, <3>1, <3>2 DEF Beside
    <2>4. CASE Reach(P, x, w)
        <3>1. Upto(x.out, w.out)
            BY <1>1, <2>4, ReachPrints
        <3>2. Halted(P, x) => w = x
            BY <1>1, <2>4, ReachHalted
        <3>3. Reach(P, x, x)
            BY ReachSelf
        <3> QED
            BY <3>1, <3>2, <3>3 DEF Beside
    <2> QED
        BY <2>2, <2>3, <2>4
<1>3. CASE Dies(P, b, w)
    <2>1. PICK f : Reach(P, b, f) /\ f.failed /\ Upto(f.out, w.out)
        BY <1>3 DEF Dies
    <2>2. f \in Within(P) /\ f.out \in Seq(Byte) /\ Halted(P, f)
        BY <2>1, ReachIn, MachineIs DEF Within, Halted
    <2>3. Reach(P, f, x) \/ Reach(P, x, f)
        BY <2>1, ReachLinear
    <2>4. ~Reach(P, f, x)
        BY <2>1, <2>2, ReachHalted
    <2>5. Reach(P, x, f)
        BY <2>3, <2>4
    <2>6. ~Halted(P, x)
        BY <1>1, <2>1, <2>5, ReachHalted
    <2>7. Upto(x.out, f.out)
        BY <1>1, <2>5, ReachPrints
    <2>8. Upto(x.out, w.out)
        BY <1>1, <2>1, <2>2, <2>7, UptoTrans
    <2> QED
        BY <2>6, <2>8 DEF Beside
<1> QED
    BY <1>2, <1>3 DEF Gets

\* The programs, and the machine that both start with.
Ready ==
    /\ Prog(text.before.code) /\ Busy(text.before.code)
    /\ Prog(text.after.code) /\ Busy(text.after.code)
    /\ text.before.partners = Partners(text.before.code)
    /\ text.after.partners = Partners(text.after.code)
    /\ Does(text.before.code, text.after.code)

\* Both machines have come from the same start, each in its program.
Come ==
    \E b : AtStart(b) /\ Reach(text.before.code, b, before) /\ Reach(text.after.code, b, after)

\* The optimized program waits for the other one.
Behind == ~before.failed => ~after.failed /\ Len(after.out) <= Len(before.out)

\* What a run keeps.
Inv == Ready /\ Come /\ Behind

LEMMA StartIn ==
    ASSUME NEW c, Prog(c), NEW b, AtStart(b)
    PROVE  b \in Within(c)
BY ProgIs DEF AtStart, Within

\* The invariant is more than the types.
LEMMA InvTypes ==
    ASSUME Inv
    PROVE  /\ before \in Within(text.before.code) /\ before \in Machines /\ before.out \in Seq(Byte)
           /\ after \in Within(text.after.code) /\ after \in Machines /\ after.out \in Seq(Byte)
<1>1. PICK b : AtStart(b) /\ Reach(text.before.code, b, before) /\ Reach(text.after.code, b, after)
    BY DEF Inv, Come
<1>2. Prog(text.before.code) /\ Prog(text.after.code)
    BY DEF Inv, Ready
<1>3. before \in Within(text.before.code) /\ after \in Within(text.after.code)
    BY <1>1, <1>2, StartIn, ReachIn
<1>4. before \in Machines /\ after \in Machines
    BY <1>3 DEF Within
<1> QED
    BY <1>3, <1>4, MachineIs

LEMMA InvTypeOK == Inv => TypeOK
<1> SUFFICES ASSUME Inv PROVE TypeOK
    OBVIOUS
<1>1. before \in Machines /\ after \in Machines
    BY InvTypes
<1>2. ASSUME NEW m \in Machines
      PROVE  m.tape \in [Cells -> Byte] /\ m.ptr \in Int /\ m.pc \in Nat /\ m.failed \in BOOLEAN
    BY MachineIs DEF Tapes
<1>3. Balanced(text.before.code) /\ Balanced(text.after.code)
    BY DEF Inv, Ready, Prog
<1> QED
    BY <1>1, <1>2, <1>3 DEF TypeOK

\* Where `after' stands, in the program that `before' runs.
LEMMA AfterBeside ==
    ASSUME Ready, ~before.failed, NEW b, AtStart(b), Reach(text.before.code, b, before),
           NEW y, Reach(text.after.code, b, y)
    PROVE  \E i : Image(text.before.code, text.after.code, b, y, i) /\ Beside(text.before.code, before, Pass(y, i))
<1> DEFINE P == text.before.code
           Q == text.after.code
<1>1. Prog(P) /\ Prog(Q) /\ Does(P, Q)
    BY DEF Ready
<1>2. b \in Within(P) /\ b \in Within(Q)
    BY <1>1, StartIn
<1>3. PICK i : Image(P, Q, b, y, i)
    BY <1>1, HasImage
<1>4. Pass(y, i) \in Machines
    <2>1. y \in Machines
        BY <1>1, <1>2, ReachIn DEF Within
    <2>2. i \in Nat
        BY <1>1, <1>3, ProgIs DEF Image
    <2> QED
        BY <2>1, <2>2, PassIs
<1>5. Beside(P, before, Pass(y, i))
    BY <1>1, <1>2, <1>3, <1>4, GetsBeside DEF Image
<1> QED
    BY <1>3, <1>5

LEMMA InvSameOutcome == Inv => SameOutcome
<1> SUFFICES ASSUME Inv, ~before.failed
             PROVE  /\ ~after.failed
                    /\ IsPrefix(after.out, before.out)
                    /\ HaltedBefore /\ HaltedAfter
                        => /\ after.out = before.out /\ after.in = before.in
                           /\ after.tape = before.tape /\ after.ptr = before.ptr
    BY DEF SameOutcome
<1> DEFINE P == text.before.code
           Q == text.after.code
<1>1. /\ before \in Within(P) /\ before \in Machines /\ before.out \in Seq(Byte)
      /\ after \in Within(Q) /\ after \in Machines /\ after.out \in Seq(Byte)
    BY InvTypes
<1>2. ~after.failed /\ Len(after.out) <= Len(before.out) /\ Ready /\ Prog(P) /\ Prog(Q)
    BY DEF Inv, Behind, Ready
<1>3. PICK b : AtStart(b) /\ Reach(P, b, before) /\ Reach(Q, b, after)
    BY DEF Inv, Come
<1>4. PICK i : Image(P, Q, b, after, i) /\ Beside(P, before, Pass(after, i))
    BY <1>2, <1>3, AfterBeside
<1> DEFINE w == Pass(after, i)
<1>5. i \in Nat /\ i \in 1 .. (Len(P) + 1) /\ Len(P) \in Nat
    BY <1>2, <1>4, ProgIs DEF Image
<1>6. /\ w \in Machines /\ w.pc = i /\ w.failed = after.failed
      /\ w.tape = after.tape /\ w.ptr = after.ptr /\ w.out = after.out /\ w.in = after.in
    BY <1>1, <1>5, PassIs
<1>7. IsPrefix(after.out, before.out)
    <2>1. Upto(after.out, before.out) \/ Upto(before.out, after.out)
        BY <1>4, <1>6 DEF Beside
    <2>2. Upto(after.out, before.out)
        <3>1. CASE Upto(before.out, after.out)
            <4>1. before.out = after.out
                BY <1>1, <1>2, <3>1, UptoIs
            <4> QED
                BY <1>1, <4>1, UptoIs
        <3> QED
            BY <2>1, <3>1
    <2> QED
        BY <1>1, <2>2, UptoIs
<1>8. ASSUME HaltedBefore, HaltedAfter PROVE w = before
    <2>1. Halted(P, before) /\ Halted(Q, after)
        BY <1>8 DEF HaltedBefore, HaltedAfter
    <2>2. after.pc = Len(Q) + 1
        <3>1. Len(Q) \in Nat
            BY <1>2, ProgIs
        <3>2. after.pc \in 1 .. (Len(Q) + 1)
            BY <1>1 DEF Within
        <3>3. after.pc > Len(Q)
            BY <1>2, <2>1 DEF Halted
        <3> QED
            BY ONLY <3>1, <3>2, <3>3
    <2>3. w \in Within(P) /\ Halted(P, w)
        BY <1>4, <1>5, <1>6, <2>2 DEF Image, Within, Halted
    <2>4. Reach(P, w, before)
        BY <1>4, <2>1 DEF Beside
    <2> QED
        BY <1>2, <2>3, <2>4, ReachHalted
<1> HIDE DEF w
<1> QED
    BY <1>2, <1>6, <1>7, <1>8

-----------------------------------------------------------------------------
(* The invariant.                                                            *)

LEMMA LinkedIs ==
    ASSUME NEW c, Prog(c)
    PROVE  Linked(c).code = c /\ Linked(c).partners = Partners(c)
BY DEF Linked, Prog

\* The programs are set up together.
LEMMA InvInit == Init => Inv
<1> SUFFICES ASSUME Init PROVE Inv
    OBVIOUS
<1>1. PICK c \in Cases :
        /\ source = c.source
        /\ text = [before |-> Linked(Render(c.source)), after |-> Linked(Optimize(c.source))]
        /\ before = Boot(c.input)
        /\ after = Boot(c.input)
    BY DEF Init
<1> DEFINE s == c.source
           b == Boot(c.input)
<1>2. s \in Seq(Tokens) /\ Balanced(s) /\ c.input \in Seq(Byte)
    BY CasesAssumption
<1>3. Prog(s)
    <2>1. Tokens \subseteq Toks
        BY DEF Tokens, Toks, Move, Add, Out, In, Open, Close, Note
    <2>2. s \in Seq(Toks)
        BY <1>2, <2>1
    <2> QED
        BY <1>2, <2>2 DEF Prog
<1>4. /\ Prog(Render(s)) /\ Busy(Render(s)) /\ Prog(Optimize(s)) /\ Busy(Optimize(s))
      /\ Does(Render(s), Optimize(s))
    BY <1>3, OptimizeDoes
<1>5. Ready
    <2>1. text.before = Linked(Render(s)) /\ text.after = Linked(Optimize(s))
        BY <1>1
    <2>2. /\ Linked(Render(s)).code = Render(s) /\ Linked(Render(s)).partners = Partners(Render(s))
          /\ Linked(Optimize(s)).code = Optimize(s) /\ Linked(Optimize(s)).partners = Partners(Optimize(s))
        BY <1>4, LinkedIs
    <2> QED
        BY <1>4, <2>1, <2>2 DEF Ready
<1>6. AtStart(b)
    <2>1. b \in Machines
        BY <1>2, BootIs
    <2>2. b.pc = 1 /\ ~b.failed
        BY DEF Boot
    <2> QED
        BY <2>1, <2>2 DEF AtStart
<1>7. before = b /\ after = b
    BY <1>1
<1> HIDE DEF b
<1>8. Come
    BY <1>6, <1>7, ReachSelf DEF Come
<1>9. Behind
    <2>1. b.out \in Seq(Byte)
        BY <1>6, MachineIs DEF AtStart
    <2>2. Len(b.out) <= Len(b.out)
        BY <2>1
    <2> QED
        BY <1>7, <2>2 DEF Behind
<1> QED
    BY <1>5, <1>8, <1>9 DEF Inv

\* `before' goes on: `after' has not printed more.
LEMMA InvStepBefore == Inv /\ StepBefore => Inv'
<1> SUFFICES ASSUME Inv, StepBefore PROVE Inv'
    OBVIOUS
<1> DEFINE P == text.before.code
           Q == text.after.code
<1>1. /\ ~Halted(P, before) /\ before.out = after.out /\ text' = text /\ after' = after
      /\ before' = Execute(P, text.before.partners, before)
    BY DEF StepBefore, HaltedBefore
<1>2. /\ before \in Within(P) /\ before.out \in Seq(Byte) /\ after.out \in Seq(Byte)
    BY InvTypes
<1>3. Ready /\ Behind /\ Prog(P) /\ Busy(P) /\ text.before.partners = Partners(P)
    BY DEF Inv, Ready
<1>4. before' = Do(P, before)
    BY <1>1, <1>2, <1>3, BusyDoes
<1>5. Ready'
    BY <1>1, <1>3 DEF Ready
<1>6. PICK b : AtStart(b) /\ Reach(P, b, before) /\ Reach(Q, b, after)
    BY DEF Inv, Come
<1>7. Reach(P, b, before')
    BY <1>1, <1>4, <1>6, ReachOn
<1>8. Come'
    BY <1>1, <1>6, <1>7 DEF Come
<1>9. Behind'
    <2>1. StepIs(P, before, before')
        BY <1>1, <1>2, <1>3, <1>4, DoIs
    <2>2. Len(before.out) <= Len(before'.out)
        BY <2>1 DEF StepIs, Upto
    <2>3. ~before.failed
        BY <1>1 DEF Halted
    <2> QED
        BY <1>1, <1>3, <2>2, <2>3 DEF Behind
<1> QED
    BY <1>5, <1>8, <1>9 DEF Inv

\* `after' goes on: it does not die, and prints nothing that `before' did not.
LEMMA InvStepAfter == Inv /\ StepAfter => Inv'
<1> SUFFICES ASSUME Inv, StepAfter PROVE Inv'
    OBVIOUS
<1> DEFINE P == text.before.code
           Q == text.after.code
           y == after'
<1>1. /\ ~Halted(Q, after) /\ (Halted(P, before) \/ Len(after.out) < Len(before.out))
      /\ text' = text /\ before' = before /\ after' = Execute(Q, text.after.partners, after)
    BY DEF StepAfter, HaltedBefore, HaltedAfter
<1>2. /\ before \in Within(P) /\ before.out \in Seq(Byte) /\ after \in Within(Q) /\ after.out \in Seq(Byte)
    BY InvTypes
<1>3. Ready /\ Behind /\ Prog(P) /\ Prog(Q) /\ Busy(Q) /\ text.after.partners = Partners(Q)
    BY DEF Inv, Ready
<1>4. y = Do(Q, after)
    BY <1>1, <1>2, <1>3, BusyDoes
<1>5. Ready'
    BY <1>1, <1>3 DEF Ready
<1>6. PICK b : AtStart(b) /\ Reach(P, b, before) /\ Reach(Q, b, after)
    BY DEF Inv, Come
<1>7. Reach(Q, b, y)
    BY <1>1, <1>4, <1>6, ReachOn
<1>8. Come'
    BY <1>1, <1>6, <1>7 DEF Come
<1>s. /\ y \in Within(Q) /\ y.out \in Seq(Byte) /\ Len(y.out) <= Len(after.out) + 1
      /\ y.failed => y.out = after.out
    <2>1. StepIs(Q, after, y)
        BY <1>1, <1>2, <1>3, <1>4, DoIs
    <2>2. y \in Within(Q)
        BY <2>1 DEF StepIs
    <2>3. y.out \in Seq(Byte)
        BY <2>2, MachineIs DEF Within
    <2> QED
        BY <2>1, <2>2, <2>3 DEF StepIs
<1>9. ASSUME ~before.failed PROVE ~y.failed /\ Len(y.out) <= Len(before.out)
    <2>1. PICK i : Image(P, Q, b, y, i) /\ Beside(P, before, Pass(y, i))
        BY <1>3, <1>6, <1>7, <1>9, AfterBeside
    <2> DEFINE w == Pass(y, i)
    <2>2. i \in Nat /\ i \in 1 .. (Len(P) + 1) /\ y \in Machines
        BY <1>3, <1>s, <2>1, ProgIs DEF Image, Within
    <2>3. w \in Machines /\ w.pc = i /\ w.failed = y.failed /\ w.out = y.out
        BY <2>2, PassIs
    <2>4. w \in Within(P)
        BY <2>2, <2>3 DEF Within
    <2> HIDE DEF w
    <2>5. Beside(P, before, w)
        BY <2>1 DEF w
    <2>6. CASE Halted(P, before)
        <3>1. Reach(P, w, before)
            BY <2>5, <2>6 DEF Beside
        <3>2. ~w.failed
            <4>1. w.failed => before = w
                BY <1>3, <2>4, <3>1, ReachHalted DEF Halted
            <4> QED
                BY <1>9, <4>1
        <3>3. Upto(w.out, before.out)
            BY <1>3, <2>4, <3>1, ReachPrints
        <3> QED
            BY <2>3, <3>2, <3>3 DEF Upto
    <2>7. CASE Len(after.out) < Len(before.out)
        <3>1. Len(y.out) <= Len(before.out)
            BY <1>2, <1>s, <2>7
        <3>2. ASSUME y.failed PROVE FALSE
            <4>1. Upto(before.out, y.out) /\ y.out = after.out
                BY <1>s, <2>3, <2>5, <3>2 DEF Beside
            <4> QED
                BY <1>2, <2>7, <4>1 DEF Upto
        <3> QED
            BY <3>1, <3>2
    <2> QED
        BY <1>1, <2>6, <2>7
<1>10. Behind'
    BY <1>1, <1>9 DEF Behind
<1> QED
    BY <1>5, <1>8, <1>10 DEF Inv

LEMMA InvNext == Inv /\ [Next]_vars => Inv'
<1>1. ASSUME Inv, UNCHANGED vars PROVE Inv'
    <2>1. text' = text /\ before' = before /\ after' = after
        BY <1>1 DEF vars
    <2> QED
        BY <1>1, <2>1 DEF Inv, Ready, Come, Behind
<1> QED
    BY <1>1, InvStepBefore, InvStepAfter DEF Next

LEMMA InvAlways == Spec => []Inv
BY InvInit, InvNext, PTL DEF Spec

\* Whatever program is optimized, both machines keep bytes on their tapes, and the
\* brackets of both programs stay in pairs.
THEOREM TypeCorrect == Spec => []TypeOK
BY InvAlways, InvTypeOK, PTL

\* The optimized program prints what the program prints, byte for byte, and leaves what
\* it leaves, unless the program dies off the tape: for every program with paired
\* brackets, every input, every length of the tape and every byte modulus.
THEOREM SameOutcomeAlways == Spec => []SameOutcome
BY InvAlways, InvSameOutcome, PTL
=============================================================================
