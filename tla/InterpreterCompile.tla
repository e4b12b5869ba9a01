------------------------- MODULE InterpreterCompile -------------------------
(***************************************************************************)
(* What compileBF makes of a program, for every program: it accepts those  *)
(* whose brackets pair up, its jump table pairs the brackets as Brainfuck  *)
(* does, and every instruction stands for a piece of the program that it   *)
(* names, one piece behind the other.                                      *)
(***************************************************************************)
EXTENDS Interpreter, BrainfuckLemmas

-----------------------------------------------------------------------------
(* The jump table.                                                           *)

OpNames ==
    {"move", "add", "out", "in", "open", "close", "clear", "mult", "scan", "walk", "divmod"}

Instrs == [op : OpNames, arg : Int, factor : Byte, at : Nat]

LinkStates(n) == [ok : BOOLEAN, stack : Seq(1 .. n), ops : [1 .. n -> Instrs]]

\* Two instructions that may have different arguments.
Alike(a, b) == a.op = b.op /\ a.factor = b.factor /\ a.at = b.at

\* What the stack and the table hold after the first i instructions.
LinkedTo(ops, i, st) ==
    IF st.ok
    THEN /\ \A k \in DOMAIN ops : Alike(st.ops[k], ops[k])
         /\ \A k \in DOMAIN ops : ops[k].op \notin {"open", "close"} => st.ops[k] = ops[k]
         /\ Len(st.stack) = Depth(ops, i)
         /\ \A k \in 1 .. Len(st.stack) :
                /\ st.stack[k] \in Brackets(ops, "open") /\ st.stack[k] <= i
                /\ Depth(ops, st.stack[k]) = k
                /\ \A p \in st.stack[k] .. i : Depth(ops, p) >= k
         /\ \A j \in Brackets(ops, "close") : j <= i =>
                Closes(ops, st.ops[j].arg, j) /\ st.ops[st.ops[j].arg].arg = j
         /\ \A p \in 0 .. i : Depth(ops, p) >= 0
    ELSE \E c \in Brackets(ops, "close") : Depth(ops, c) < 0

WithArg(ops, o, i) == [ops EXCEPT ![o].arg = i]

ArgIs(n, ops, o, i, set) ==
    /\ set \in [1 .. n -> Instrs] /\ set[o].arg = i
    /\ \A k \in 1 .. n : k # o => set[k] = ops[k]
    /\ \A k \in 1 .. n : Alike(set[k], ops[k])

LEMMA ArgSet ==
    ASSUME NEW n \in Nat, NEW ops \in [1 .. n -> Instrs], NEW o \in 1 .. n, NEW i \in Int
    PROVE  ArgIs(n, ops, o, i, WithArg(ops, o, i))
<1>1. ops[o] \in Instrs
    OBVIOUS
<1>2. [ops[o] EXCEPT !.arg = i] \in Instrs /\ [ops[o] EXCEPT !.arg = i].arg = i
    BY <1>1 DEF Instrs
<1>3. WithArg(ops, o, i) = [k \in 1 .. n |-> IF k = o THEN [ops[o] EXCEPT !.arg = i] ELSE ops[k]]
    BY DEF WithArg
<1>4. Alike([ops[o] EXCEPT !.arg = i], ops[o]) /\ \A k \in 1 .. n : Alike(ops[k], ops[k])
    BY <1>1 DEF Instrs, Alike
<1> QED
    BY <1>2, <1>3, <1>4 DEF ArgIs

\* One instruction.
LEMMA LinkAtTyped ==
    ASSUME NEW n \in Nat, NEW ops \in [1 .. n -> Instrs], NEW st \in LinkStates(n), NEW i \in 1 .. n
    PROVE  LinkAt(ops, st, i) \in LinkStates(n)
<1>1. CASE ~st.ok
    BY <1>1 DEF LinkAt
<1>2. CASE st.ok /\ ops[i].op = "open"
    <2>1. LinkAt(ops, st, i) = [st EXCEPT !.stack = Append(@, i)]
        BY <1>2 DEF LinkAt
    <2>2. Append(st.stack, i) \in Seq(1 .. n)
        BY DEF LinkStates
    <2> QED
        BY <2>1, <2>2 DEF LinkStates
<1>3. CASE st.ok /\ ops[i].op = "close" /\ st.stack = <<>>
    <2>1. LinkAt(ops, st, i) = [st EXCEPT !.ok = FALSE]
        BY <1>3 DEF LinkAt
    <2> QED
        BY <2>1 DEF LinkStates
<1>4. CASE st.ok /\ ops[i].op = "close" /\ st.stack # <<>>
    <2> DEFINE o == Last(st.stack)
    <2>1. LinkAt(ops, st, i)
            = [st EXCEPT !.stack = Front(@), !.ops = WithArg(WithArg(@, o, i), i, o)]
        BY <1>4 DEF LinkAt, WithArg
    <2>2. st.stack \in Seq(1 .. n) /\ Len(st.stack) \in Nat \ {0}
        BY <1>4 DEF LinkStates
    <2>3. o \in 1 .. n /\ Front(st.stack) \in Seq(1 .. n)
        BY <2>2 DEF Last, Front
    <2> HIDE DEF o
    <2>4. st.ops \in [1 .. n -> Instrs] /\ i \in Int /\ o \in Int
        BY <2>3 DEF LinkStates
    <2>a. ArgIs(n, st.ops, o, i, WithArg(st.ops, o, i))
        BY <2>3, <2>4, ArgSet
    <2>5. WithArg(st.ops, o, i) \in [1 .. n -> Instrs]
        BY ONLY <2>a DEF ArgIs
    <2>b. ArgIs(n, WithArg(st.ops, o, i), i, o, WithArg(WithArg(st.ops, o, i), i, o))
        BY ONLY n \in Nat, i \in 1 .. n, <2>4, <2>5, ArgSet
    <2>6. WithArg(WithArg(st.ops, o, i), i, o) \in [1 .. n -> Instrs]
        BY ONLY <2>b DEF ArgIs
    <2> QED
        BY <2>1, <2>3, <2>6 DEF LinkStates
<1>5. CASE st.ok /\ ops[i].op \notin {"open", "close"}
    <2>1. LinkAt(ops, st, i) = st
        BY <1>5 DEF LinkAt
    <2> QED
        BY <2>1
<1> QED
    BY <1>1, <1>2, <1>3, <1>4, <1>5

LEMMA LinkAtKeeps ==
    ASSUME NEW n \in Nat, NEW ops \in [1 .. n -> Instrs], n = Len(ops), NEW st \in LinkStates(n),
           NEW i \in 1 .. n, LinkedTo(ops, i - 1, st)
    PROVE  LinkedTo(ops, i, LinkAt(ops, st, i))
<1> DEFINE D(p) == Depth(ops, p)
<1>1. /\ DOMAIN ops = 1 .. n /\ i \in Int /\ i - 1 \in 0 .. n /\ i \in 0 .. n
      /\ st.ops \in [1 .. n -> Instrs] /\ st.stack \in Seq(1 .. n) /\ Len(st.stack) \in Nat
      /\ \A k \in 1 .. Len(st.stack) : st.stack[k] \in 1 .. n
    BY DEF LinkStates
<1>2. /\ \A p \in 0 .. n : D(p) \in Int
      /\ D(i) = D(i - 1) + Turn(ops[i])
    BY <1>1, DepthStep
<1>a. CASE ~st.ok
    BY <1>a DEF LinkAt, LinkedTo
<1>3. ASSUME st.ok
      PROVE  /\ \A k \in 1 .. n : Alike(st.ops[k], ops[k])
             /\ \A k \in 1 .. n : ops[k].op \notin {"open", "close"} => st.ops[k] = ops[k]
             /\ Len(st.stack) = D(i - 1)
             /\ \A k \in 1 .. Len(st.stack) :
                    /\ st.stack[k] \in Brackets(ops, "open") /\ st.stack[k] <= i - 1
                    /\ D(st.stack[k]) = k
                    /\ \A p \in st.stack[k] .. (i - 1) : D(p) >= k
             /\ \A j \in Brackets(ops, "close") : j <= i - 1 =>
                    Closes(ops, st.ops[j].arg, j) /\ st.ops[st.ops[j].arg].arg = j
             /\ \A p \in 0 .. (i - 1) : D(p) >= 0
    BY <1>1, <1>3 DEF LinkedTo
<1>b. CASE st.ok /\ ops[i].op = "open"
    <2> DEFINE s == Append(st.stack, i)
    <2>1. LinkAt(ops, st, i) = [st EXCEPT !.stack = s]
        BY <1>b DEF LinkAt
    <2>2. /\ LinkAt(ops, st, i).ok /\ LinkAt(ops, st, i).stack = s
          /\ LinkAt(ops, st, i).ops = st.ops
        BY <1>b, <2>1 DEF LinkStates
    <2>3. /\ Len(s) = Len(st.stack) + 1 /\ s[Len(s)] = i
          /\ \A k \in 1 .. Len(st.stack) : s[k] = st.stack[k]
        BY <1>1
    <2> HIDE DEF s
    <2>4. D(i) = D(i - 1) + 1
        BY <1>2, <1>b DEF Turn
    <2>5. Len(s) = D(i)
        BY <1>3, <1>b, <2>3, <2>4
    <2>6. ASSUME NEW k \in 1 .. Len(s)
          PROVE  /\ s[k] \in Brackets(ops, "open") /\ s[k] <= i
                 /\ D(s[k]) = k
                 /\ \A p \in s[k] .. i : D(p) >= k
        <3>1. CASE k = Len(s)
            <4>1. i \in Brackets(ops, "open")
                BY <1>1, <1>b DEF Brackets
            <4> QED
                BY <1>1, <1>2, <2>3, <2>5, <3>1, <4>1
        <3>2. CASE k # Len(s)
            <4>0. k \in 1 .. Len(st.stack) /\ s[k] = st.stack[k]
                BY <1>1, <2>3, <3>2
            <4>1. k \in 1 .. Len(st.stack) /\ s[k] = st.stack[k] /\ s[k] \in 1 .. n
                BY ONLY <1>1, <4>0
            <4>2. /\ s[k] \in Brackets(ops, "open") /\ s[k] <= i - 1
                  /\ D(s[k]) = k
                  /\ \A p \in s[k] .. (i - 1) : D(p) >= k
                BY <1>3, <1>b, <4>1
            <4>3. D(i) >= k
                BY <1>1, <1>2, <2>5, <4>1
            <4>4. \A p \in s[k] .. i : p \in s[k] .. (i - 1) \/ p = i
                BY <1>1, <4>1
            <4> QED
                BY <1>1, <4>1, <4>2, <4>3, <4>4
        <3> QED
            BY <3>1, <3>2
    <2>7. ASSUME NEW j \in Brackets(ops, "close"), j <= i PROVE j <= i - 1
        BY <1>1, <1>b, <2>7 DEF Brackets
    <2>8. \A p \in 0 .. i : D(p) >= 0
        BY <1>1, <1>2, <1>3, <1>b, <2>4
    <2> HIDE DEF D
    <2> QED
        BY <1>1, <1>3, <1>b, <2>2, <2>5, <2>6, <2>7, <2>8 DEF LinkedTo, D
<1>c. CASE st.ok /\ ops[i].op = "close" /\ st.stack = <<>>
    <2>1. LinkAt(ops, st, i) = [st EXCEPT !.ok = FALSE]
        BY <1>c DEF LinkAt
    <2>2. ~LinkAt(ops, st, i).ok
        BY <2>1 DEF LinkStates
    <2>3. i \in Brackets(ops, "close") /\ D(i) < 0
        BY <1>1, <1>2, <1>3, <1>c DEF Brackets, Turn
    <2> QED
        BY <2>2, <2>3 DEF LinkedTo
<1>d. CASE st.ok /\ ops[i].op = "close" /\ st.stack # <<>>
    <2> DEFINE o == Last(st.stack)
               s == Front(st.stack)
               w == WithArg(st.ops, o, i)
               v == WithArg(w, i, o)
    <2>1. LinkAt(ops, st, i) = [st EXCEPT !.stack = s, !.ops = v]
        BY <1>d DEF LinkAt, WithArg
    <2>2. LinkAt(ops, st, i).ok /\ LinkAt(ops, st, i).stack = s /\ LinkAt(ops, st, i).ops = v
        BY <1>d, <2>1 DEF LinkStates
    <2>3. /\ Len(st.stack) >= 1 /\ o = st.stack[Len(st.stack)] /\ Len(s) = Len(st.stack) - 1
          /\ \A k \in 1 .. Len(s) : s[k] = st.stack[k]
        BY <1>1, <1>d DEF Last, Front
    <2> HIDE DEF o, s
    <2>4. D(i) = D(i - 1) - 1 /\ Len(s) = D(i) /\ i \in Brackets(ops, "close")
        BY <1>1, <1>2, <1>3, <1>d, <2>3 DEF Brackets, Turn
    <2>5. /\ o \in Brackets(ops, "open") /\ o <= i - 1 /\ o \in 1 .. n /\ o \in Int
          /\ D(o) = D(i - 1) /\ \A p \in o .. (i - 1) : D(p) >= D(o)
        BY <1>1, <1>3, <1>d, <2>3
    <2>6. Closes(ops, o, i)
        BY <1>1, <2>4, <2>5 DEF Closes
    <2>a. st.ops \in [1 .. n -> Instrs] /\ o \in 1 .. n /\ i \in Int /\ o \in Int
        BY <1>1, <2>5
    <2>c. ArgIs(n, st.ops, o, i, w)
        BY ONLY n \in Nat, <2>a, ArgSet
    <2> HIDE DEF w
    <2>b. w \in [1 .. n -> Instrs] /\ \A k \in 1 .. n : Alike(w[k], st.ops[k])
        BY ONLY <2>c DEF ArgIs
    <2>7. w \in [1 .. n -> Instrs] /\ w[o].arg = i /\ \A k \in 1 .. n : k # o => w[k] = st.ops[k]
        BY ONLY <2>c DEF ArgIs
    <2>d. ArgIs(n, w, i, o, v)
        BY ONLY n \in Nat, i \in 1 .. n, <2>a, <2>b, ArgSet
    <2> HIDE DEF v
    <2>8. /\ v \in [1 .. n -> Instrs] /\ v[i].arg = o /\ \A k \in 1 .. n : k # i => v[k] = w[k]
          /\ \A k \in 1 .. n : Alike(v[k], w[k])
        BY ONLY <2>d DEF ArgIs
    <2>9. \A k \in 1 .. n : Alike(v[k], ops[k])
        BY <1>3, <1>d, <2>8, <2>b DEF Alike
    <2>10. ASSUME NEW k \in 1 .. n, ops[k].op \notin {"open", "close"} PROVE v[k] = ops[k]
        <3>1. k # i /\ k # o
            BY <2>10, <2>4, <2>5 DEF Brackets
        <3> QED
            BY <1>3, <1>d, <2>7, <2>8, <2>10, <3>1
    <2>11. ASSUME NEW k \in 1 .. Len(s)
           PROVE  /\ s[k] \in Brackets(ops, "open") /\ s[k] <= i
                  /\ D(s[k]) = k
                  /\ \A p \in s[k] .. i : D(p) >= k
        <3>1. k \in 1 .. Len(st.stack) /\ s[k] = st.stack[k] /\ s[k] \in 1 .. n
            BY <1>1, <2>3
        <3>2. /\ s[k] \in Brackets(ops, "open") /\ s[k] <= i - 1
              /\ D(s[k]) = k
              /\ \A p \in s[k] .. (i - 1) : D(p) >= k
            BY <1>3, <1>d, <3>1
        <3>3. D(i) >= k
            BY <1>2, <2>4
        <3>4. \A p \in s[k] .. i : p \in s[k] .. (i - 1) \/ p = i
            BY <1>1, <3>1
        <3> QED
            BY <1>1, <3>1, <3>2, <3>3, <3>4
    <2>12. ASSUME NEW j \in Brackets(ops, "close"), j <= i
           PROVE  Closes(ops, v[j].arg, j) /\ v[v[j].arg].arg = j
        <3>1. CASE j = i
            <4>1. v[o] = w[o]
                BY <1>1, <2>5, <2>8
            <4> QED
                BY <2>6, <2>7, <2>8, <3>1, <4>1
        <3>2. CASE j # i
            <4>1. j \in 1 .. n /\ j <= i - 1
                BY <1>1, <2>12, <3>2 DEF Brackets
            <4>2. Closes(ops, st.ops[j].arg, j) /\ st.ops[st.ops[j].arg].arg = j
                BY <1>3, <1>d, <4>1
            <4>3. j # o
                BY <2>5 DEF Brackets
            <4>4. v[j] = st.ops[j]
                BY <2>7, <2>8, <3>2, <4>1, <4>3
            <4>5. st.ops[j].arg \in 1 .. n /\ st.ops[j].arg # i
                BY <2>4, <4>2 DEF Closes, Brackets
            <4>6. st.ops[j].arg # o
                BY <1>1, <2>6, <3>2, <4>2, ClosesOnce
            <4>7. v[st.ops[j].arg] = st.ops[st.ops[j].arg]
                BY <2>7, <2>8, <4>5, <4>6
            <4> QED
                BY <4>2, <4>4, <4>7
        <3> QED
            BY <3>1, <3>2
    <2>13. \A p \in 0 .. i : D(p) >= 0
        BY <1>1, <1>2, <1>3, <1>d, <2>3, <2>4
    <2> HIDE DEF D
    <2> QED
        BY <1>1, <1>d, <2>2, <2>4, <2>9, <2>10, <2>11, <2>12, <2>13 DEF LinkedTo, D
<1>e. CASE st.ok /\ ops[i].op \notin {"open", "close"}
    <2>1. LinkAt(ops, st, i) = st
        BY <1>e DEF LinkAt
    <2>a. Turn(ops[i]) = 0 /\ D(i - 1) \in Int
        BY <1>1, <1>2, <1>e DEF Turn
    <2>2. D(i) = D(i - 1)
        BY <1>2, <2>a
    <2>3. \A j \in Brackets(ops, "close") : j <= i => j <= i - 1
        BY <1>1, <1>e DEF Brackets
    <2>4. ASSUME NEW k \in 1 .. Len(st.stack)
          PROVE  /\ st.stack[k] \in Brackets(ops, "open") /\ st.stack[k] <= i
                 /\ D(st.stack[k]) = k
                 /\ \A p \in st.stack[k] .. i : D(p) >= k
        <3>1. /\ st.stack[k] \in 1 .. n /\ st.stack[k] \in Brackets(ops, "open") /\ st.stack[k] <= i - 1
              /\ D(st.stack[k]) = k
              /\ \A p \in st.stack[k] .. (i - 1) : D(p) >= k
            BY <1>1, <1>3, <1>e
        <3> QED
            BY <1>1, <2>2, <3>1
    <2>5. \A p \in 0 .. i : D(p) >= 0
        BY <1>1, <1>3, <1>e, <2>2
    <2> HIDE DEF D
    <2> QED
        BY <1>1, <1>3, <1>e, <2>1, <2>2, <2>3, <2>4, <2>5 DEF LinkedTo, D
<1> QED
    BY <1>a, <1>b, <1>c, <1>d, <1>e

\* All of them.
LEMMA LinkingVisits ==
    ASSUME NEW n \in Nat, NEW ops \in [1 .. n -> Instrs], n = Len(ops)
    PROVE  Linking(ops) \in LinkStates(n) /\ LinkedTo(ops, n, Linking(ops))
<1> DEFINE b == [ok |-> TRUE, stack |-> <<>>, ops |-> ops]
           f == [i \in 1 .. n |-> [st \in LinkStates(n) |-> LinkAt(ops, st, i)]]
           Visits(g) == g = [i \in 0 .. n |-> IF i = 0 THEN b ELSE LinkAt(ops, g[i - 1], i)]
<1>1. b \in LinkStates(n)
    BY DEF LinkStates
<1>2. f \in [1 .. n -> [LinkStates(n) -> LinkStates(n)]]
    BY LinkAtTyped
<1> HIDE DEF f
<1>a. PICK h : Iterated(h, n, LinkStates(n), b, f)
    <2> HIDE DEF b
    <2> QED
        BY <1>1, <1>2, Iterates
<1>3. h \in [0 .. n -> LinkStates(n)] /\ h[0] = b /\ \A i \in 1 .. n : h[i] = f[i][h[i - 1]]
    <2> HIDE DEF b
    <2> QED
        BY <1>a DEF Iterated
<1>4. ASSUME NEW i \in 1 .. n PROVE h[i] = LinkAt(ops, h[i - 1], i)
    <2>1. i - 1 \in 0 .. n
        OBVIOUS
    <2> QED
        BY <1>3, <2>1 DEF f
<1>5. Visits(h)
    <2>1. \A i \in 0 .. n : i # 0 => i \in 1 .. n
        OBVIOUS
    <2> HIDE DEF b
    <2> QED
        BY <1>3, <1>4, <2>1
<1> DEFINE visit == CHOOSE g : Visits(g)
<1>6. Visits(visit)
    BY <1>5
<1>7. Linking(ops) = visit[n]
    BY DEF Linking
<1> HIDE DEF visit
<1>8. visit[0] = b /\ \A i \in 1 .. n : visit[i] = LinkAt(ops, visit[i - 1], i)
    <2> HIDE DEF b
    <2>1. \A i \in 0 .. n : visit[i] = IF i = 0 THEN b ELSE LinkAt(ops, visit[i - 1], i)
        BY <1>6
    <2>2. \A i \in 1 .. n : i \in 0 .. n /\ i # 0
        OBVIOUS
    <2> QED
        BY <2>1, <2>2
<1> DEFINE S == {i \in 0 .. n : visit[i] \in LinkStates(n) /\ LinkedTo(ops, i, visit[i])}
<1>9. 0 \in S
    <2>1. DOMAIN ops = 1 .. n
        OBVIOUS
    <2>2. Depth(ops, 0) = 0 /\ \A j \in Brackets(ops, "close") : ~(j <= 0)
        BY DepthStep, <2>1 DEF Brackets
    <2>3. \A k \in 1 .. n : Alike(ops[k], ops[k])
        BY DEF Alike
    <2>4. LinkedTo(ops, 0, b)
        BY <2>1, <2>2, <2>3 DEF LinkedTo
    <2> HIDE DEF b
    <2> QED
        BY <1>1, <1>8, <2>4
<1>10. ASSUME NEW i \in 0 .. (n - 1), i \in S PROVE i + 1 \in S
    <2>1. i + 1 \in 1 .. n /\ i + 1 - 1 = i
        OBVIOUS
    <2>2. visit[i + 1] = LinkAt(ops, visit[i], i + 1)
        BY <1>8, <2>1
    <2>3. visit[i] \in LinkStates(n) /\ LinkedTo(ops, i + 1 - 1, visit[i])
        BY <1>10, <2>1
    <2>4. visit[i + 1] \in LinkStates(n)
        BY ONLY n \in Nat, ops \in [1 .. n -> Instrs], <2>1, <2>2, <2>3, LinkAtTyped
    <2>5. LinkedTo(ops, i + 1, visit[i + 1])
        BY ONLY n \in Nat, n = Len(ops), ops \in [1 .. n -> Instrs], <2>1, <2>2, <2>3, LinkAtKeeps
    <2> QED
        BY <2>1, <2>4, <2>5
<1> HIDE DEF S
<1>11. 0 .. n \subseteq S
    BY <1>9, <1>10, BoundedInd
<1> QED
    BY <1>7, <1>11 DEF S

\* The jump table of a program whose brackets pair up pairs them as they do.
PairsUp(ops, table) ==
    /\ \A k \in DOMAIN ops : Alike(table[k], ops[k])
    /\ \A k \in DOMAIN ops : ops[k].op \notin {"open", "close"} => table[k] = ops[k]
    /\ \A i \in Brackets(ops, "open") : Closes(ops, i, table[i].arg)
    /\ \A j \in Brackets(ops, "close") : Closes(ops, table[j].arg, j)

LEMMA LinkPairs ==
    ASSUME NEW n \in Nat, NEW ops \in [1 .. n -> Instrs], n = Len(ops)
    PROVE  /\ Link(ops).ok \in BOOLEAN /\ Link(ops).ops \in [1 .. n -> Instrs]
           /\ Link(ops).ok <=> Balanced(ops)
           /\ Link(ops).ok => PairsUp(ops, Link(ops).ops)
<1> DEFINE end == Linking(ops)
<1>1. end \in LinkStates(n) /\ LinkedTo(ops, n, end)
    BY LinkingVisits
<1> HIDE DEF end
<1>2. Link(ops) = [ok |-> end.ok /\ end.stack = <<>>, ops |-> end.ops]
    BY DEF Link, end
<1>3. Link(ops).ok = (end.ok /\ end.stack = <<>>) /\ Link(ops).ops = end.ops
    BY <1>2
<1>4. /\ end.ok \in BOOLEAN /\ end.ops \in [1 .. n -> Instrs] /\ end.stack \in Seq(1 .. n)
      /\ DOMAIN ops = 1 .. n
    BY <1>1 DEF LinkStates
<1>5. /\ \A p \in 0 .. n : Depth(ops, p) \in Int
      /\ \A j \in Brackets(ops, "close") : j \in 0 .. n /\ j <= n
    BY <1>4, DepthStep DEF Brackets
<1>6. Balanced(ops) <=> (\A p \in 0 .. n : Depth(ops, p) >= 0) /\ Depth(ops, n) = 0
    BY <1>4, BalancedDepth
<1>7. CASE ~end.ok
    <2>1. \E c \in Brackets(ops, "close") : Depth(ops, c) < 0
        BY <1>1, <1>7 DEF LinkedTo
    <2>2. ~Balanced(ops)
        BY <1>5, <1>6, <2>1
    <2> QED
        BY <1>3, <1>4, <1>7, <2>2
<1>8. CASE end.ok
    <2>1. /\ \A k \in DOMAIN ops : Alike(end.ops[k], ops[k])
          /\ \A k \in DOMAIN ops : ops[k].op \notin {"open", "close"} => end.ops[k] = ops[k]
          /\ Len(end.stack) = Depth(ops, n)
          /\ \A j \in Brackets(ops, "close") : j <= n =>
                Closes(ops, end.ops[j].arg, j) /\ end.ops[end.ops[j].arg].arg = j
          /\ \A p \in 0 .. n : Depth(ops, p) >= 0
        BY <1>1, <1>8 DEF LinkedTo
    <2>2. end.stack = <<>> <=> Depth(ops, n) = 0
        BY <1>4, <2>1
    <2>3. Link(ops).ok <=> Balanced(ops)
        BY <1>3, <1>6, <1>8, <2>1, <2>2
    <2>4. ASSUME Balanced(ops), NEW i \in Brackets(ops, "open")
          PROVE  Closes(ops, i, end.ops[i].arg)
        <3>1. PICK j \in Brackets(ops, "close") : Closes(ops, i, j)
            BY <1>4, <2>4, OpenIsClosed
        <3>2. Closes(ops, end.ops[j].arg, j) /\ end.ops[end.ops[j].arg].arg = j
            BY <1>5, <2>1
        <3>3. end.ops[j].arg = i
            BY <1>4, <3>1, <3>2, ClosesOnce
        <3> QED
            BY <3>1, <3>2, <3>3
    <2>5. Balanced(ops) => PairsUp(ops, end.ops)
        BY <1>5, <2>1, <2>4 DEF PairsUp
    <2> QED
        BY <1>3, <1>4, <2>3, <2>5
<1> QED
    BY <1>4, <1>7, <1>8

-----------------------------------------------------------------------------
(* What a scan from the left puts out.                                       *)

\* What may be put out for the elements from i on, of n.
Piece(n, i, t) ==
    /\ t = [out |-> t.out, length |-> t.length] /\ t.out \in Seq(Instrs) /\ t.length \in Nat
    /\ t.length >= 1 /\ i + t.length <= n + 1 /\ Len(t.out) >= 1

\* The k-th instruction of `out' is the off[k]-th of those put out for the elements
\* from from[k] on; those from `last' on are not yet scanned.
Laid(out, take, from, off, last) ==
    /\ from \in [1 .. (Len(out) + 1) -> Nat] /\ off \in [1 .. (Len(out) + 1) -> Nat]
    /\ from[1] = 1 /\ off[1] = 1 /\ from[Len(out) + 1] = last /\ off[Len(out) + 1] = 1
    /\ \A k \in 1 .. Len(out) :
        /\ from[k] \in DOMAIN take /\ off[k] \in 1 .. Len(take[from[k]].out)
        /\ out[k] = take[from[k]].out[off[k]]
        /\ IF off[k] < Len(take[from[k]].out)
           THEN from[k + 1] = from[k] /\ off[k + 1] = off[k] + 1
           ELSE from[k + 1] = from[k] + take[from[k]].length /\ off[k + 1] = 1

ScanStates == [out : Seq(Instrs), next : Nat]

\* What is put out at i comes behind what was.
LEMMA LaidStep ==
    ASSUME NEW n \in Nat, NEW take, DOMAIN take = 1 .. n, \A i \in 1 .. n : Piece(n, i, take[i]),
           NEW out \in Seq(Instrs), NEW from, NEW off, NEW i \in 1 .. n, Laid(out, take, from, off, i)
    PROVE  \E from2, off2 : Laid(out \o take[i].out, take, from2, off2, i + take[i].length)
<1> DEFINE t == take[i]
           m == Len(out)
           q == Len(t.out)
           o == out \o t.out
           from2 == [k \in 1 .. (m + q + 1) |->
                        IF k <= m THEN from[k] ELSE IF k <= m + q THEN i ELSE i + t.length]
           off2 == [k \in 1 .. (m + q + 1) |->
                        IF k <= m THEN off[k] ELSE IF k <= m + q THEN k - m ELSE 1]
<1>1. /\ t.out \in Seq(Instrs) /\ t.length \in Nat /\ q \in Nat /\ q >= 1 /\ m \in Nat /\ i \in Nat
    BY DEF Piece
<1>2. /\ o \in Seq(Instrs) /\ Len(o) = m + q
      /\ \A k \in 1 .. m : o[k] = out[k]
      /\ \A k \in (m + 1) .. (m + q) : o[k] = t.out[k - m]
    BY <1>1
<1>3. /\ from \in [1 .. (m + 1) -> Nat] /\ off \in [1 .. (m + 1) -> Nat]
      /\ from[1] = 1 /\ off[1] = 1 /\ from[m + 1] = i /\ off[m + 1] = 1
      /\ \A k \in 1 .. m :
            /\ from[k] \in 1 .. n /\ off[k] \in 1 .. Len(take[from[k]].out)
            /\ out[k] = take[from[k]].out[off[k]]
            /\ IF off[k] < Len(take[from[k]].out)
               THEN from[k + 1] = from[k] /\ off[k + 1] = off[k] + 1
               ELSE from[k + 1] = from[k] + take[from[k]].length /\ off[k + 1] = 1
    BY DEF Laid
<1> HIDE DEF t, m, q, o
<1>4. from2 \in [1 .. (m + q + 1) -> Nat] /\ off2 \in [1 .. (m + q + 1) -> Nat]
    <2>1. ASSUME NEW k \in 1 .. (m + q + 1), k <= m PROVE from[k] \in Nat /\ off[k] \in Nat
        <3>1. k \in 1 .. (m + 1)
            BY <1>1, <2>1
        <3> QED
            BY <1>3, <3>1
    <2>2. \A k \in 1 .. (m + q + 1) : ~(k <= m) => k - m \in Nat
        BY <1>1
    <2>3. i + t.length \in Nat
        BY <1>1
    <2> QED
        BY <1>1, <2>1, <2>2, <2>3
<1>5. /\ \A k \in 1 .. (m + 1) : from2[k] = from[k] /\ off2[k] = off[k]
      /\ \A k \in (m + 1) .. (m + q) : from2[k] = i /\ off2[k] = k - m
      /\ from2[m + q + 1] = i + t.length /\ off2[m + q + 1] = 1
    <2>1. ASSUME NEW k \in 1 .. (m + 1) PROVE from2[k] = from[k] /\ off2[k] = off[k]
        <3>1. k \in 1 .. (m + q + 1) /\ (k <= m \/ (k = m + 1 /\ k <= m + q /\ k - m = 1))
            BY <1>1
        <3> QED
            BY <1>1, <1>3, <3>1
    <2>2. ASSUME NEW k \in (m + 1) .. (m + q) PROVE from2[k] = i /\ off2[k] = k - m
        <3>1. k \in 1 .. (m + q + 1) /\ ~(k <= m) /\ k <= m + q
            BY <1>1
        <3> QED
            BY <3>1
    <2>3. from2[m + q + 1] = i + t.length /\ off2[m + q + 1] = 1
        <3>1. m + q + 1 \in 1 .. (m + q + 1) /\ ~(m + q + 1 <= m) /\ ~(m + q + 1 <= m + q)
            BY <1>1
        <3> QED
            BY <3>1
    <2> QED
        BY <2>1, <2>2, <2>3
<1> HIDE DEF from2, off2
<1>6. from2[1] = 1 /\ off2[1] = 1
    BY <1>1, <1>3, <1>5
<1>7. ASSUME NEW k \in 1 .. (m + q)
      PROVE  /\ from2[k] \in 1 .. n /\ off2[k] \in 1 .. Len(take[from2[k]].out)
             /\ o[k] = take[from2[k]].out[off2[k]]
             /\ IF off2[k] < Len(take[from2[k]].out)
                THEN from2[k + 1] = from2[k] /\ off2[k + 1] = off2[k] + 1
                ELSE from2[k + 1] = from2[k] + take[from2[k]].length /\ off2[k + 1] = 1
    <2>1. CASE k <= m
        <3>1. k \in 1 .. m /\ k \in 1 .. (m + 1) /\ k + 1 \in 1 .. (m + 1)
            BY <1>1, <2>1
        <3>2. from2[k] = from[k] /\ off2[k] = off[k] /\ from2[k + 1] = from[k + 1] /\ off2[k + 1] = off[k + 1]
            BY <1>5, <3>1
        <3> QED
            BY <1>2, <1>3, <3>1, <3>2
    <2>2. CASE m < k
        <3>1. k \in (m + 1) .. (m + q) /\ k - m \in 1 .. q
            BY <1>1, <2>2
        <3>2. from2[k] = i /\ off2[k] = k - m /\ o[k] = t.out[k - m] /\ q = Len(t.out) /\ t = take[i]
            BY <1>2, <1>5, <3>1 DEF q, t
        <3>3. CASE k - m < q
            <4>1. k + 1 \in (m + 1) .. (m + q) /\ k + 1 - m = k - m + 1
                BY <1>1, <3>1, <3>3
            <4>2. from2[k + 1] = i /\ off2[k + 1] = k - m + 1
                <5>1. from2[k + 1] = i /\ off2[k + 1] = k + 1 - m
                    BY <1>1, <1>5, <4>1
                <5> QED
                    BY <4>1, <5>1
            <4> QED
                BY <3>1, <3>2, <3>3, <4>2
        <3>4. CASE ~(k - m < q)
            <4>1. k = m + q
                BY <1>1, <3>1, <3>4
            <4> QED
                BY <1>5, <3>1, <3>2, <3>4, <4>1
        <3> QED
            BY <3>3, <3>4
    <2> QED
        BY <1>1, <2>1, <2>2
<1>8. Laid(o, take, from2, off2, i + t.length)
    BY <1>2, <1>4, <1>5, <1>6, <1>7 DEF Laid
<1> QED
    BY <1>8 DEF o, t

\* The pieces cover everything there is.
LEMMA RewriteLaid ==
    ASSUME NEW n \in Nat, NEW take, DOMAIN take = 1 .. n, Len(take) = n,
           \A i \in 1 .. n : Piece(n, i, take[i])
    PROVE  /\ Rewrite(take) \in Seq(Instrs)
           /\ \E from, off : Laid(Rewrite(take), take, from, off, n + 1)
<1> DEFINE b == [out |-> <<>>, next |-> 1]
           f == [i \in 1 .. n |-> [st \in ScanStates |-> Take(take, st, i)]]
           Scans(g) == g = [i \in 0 .. n |-> IF i = 0 THEN b ELSE Take(take, g[i - 1], i)]
<1>1. b \in ScanStates
    BY DEF ScanStates
<1>a. ASSUME NEW st \in ScanStates, NEW i \in 1 .. n
      PROVE  Take(take, st, i) \in ScanStates
    <2>1. take[i].out \in Seq(Instrs) /\ i + take[i].length \in Nat
        BY DEF Piece
    <2>2. st.out \o take[i].out \in Seq(Instrs)
        BY <2>1 DEF ScanStates
    <2> QED
        BY <2>1, <2>2 DEF Take, ScanStates
<1>2. f \in [1 .. n -> [ScanStates -> ScanStates]]
    BY <1>a
<1> HIDE DEF f
<1>b. PICK h : Iterated(h, n, ScanStates, b, f)
    <2> HIDE DEF b
    <2> QED
        BY <1>1, <1>2, Iterates
<1>3. h \in [0 .. n -> ScanStates] /\ h[0] = b /\ \A i \in 1 .. n : h[i] = f[i][h[i - 1]]
    <2> HIDE DEF b
    <2> QED
        BY <1>b DEF Iterated
<1>4. ASSUME NEW i \in 1 .. n PROVE h[i] = Take(take, h[i - 1], i)
    <2>1. i - 1 \in 0 .. n
        OBVIOUS
    <2> QED
        BY <1>3, <2>1 DEF f
<1>5. Scans(h)
    <2>1. \A i \in 0 .. n : i # 0 => i \in 1 .. n
        OBVIOUS
    <2> HIDE DEF b
    <2> QED
        BY <1>3, <1>4, <2>1
<1> DEFINE scan == CHOOSE g : Scans(g)
<1>6. Scans(scan)
    BY <1>5
<1>7. Rewrite(take) = scan[n].out
    BY DEF Rewrite
<1> HIDE DEF scan
<1>8. scan[0] = b /\ \A i \in 1 .. n : scan[i] = Take(take, scan[i - 1], i)
    <2> HIDE DEF b
    <2>1. \A i \in 0 .. n : scan[i] = IF i = 0 THEN b ELSE Take(take, scan[i - 1], i)
        BY <1>6
    <2>2. \A i \in 1 .. n : i \in 0 .. n /\ i # 0
        OBVIOUS
    <2> QED
        BY <2>1, <2>2
<1> DEFINE Reached(i, st) == /\ st \in ScanStates /\ st.next \in (i + 1) .. (n + 1)
                             /\ \E from, off : Laid(st.out, take, from, off, st.next)
           S == {i \in 0 .. n : Reached(i, scan[i])}
<1>9. 0 \in S
    <2> DEFINE one == [k \in 1 .. 1 |-> 1]
    <2>1. one \in [1 .. 1 -> Nat] /\ one[1] = 1 /\ Len(<<>>) = 0
        OBVIOUS
    <2> HIDE DEF one
    <2>2. Laid(<<>>, take, one, one, 1)
        BY <2>1 DEF Laid
    <2> QED
        BY <1>1, <1>8, <2>2
<1>10. ASSUME NEW i \in 0 .. (n - 1), i \in S PROVE i + 1 \in S
    <2> DEFINE st == scan[i]
    <2>1. /\ st \in ScanStates /\ st.next \in (i + 1) .. (n + 1) /\ st.next \in Nat
          /\ \E from, off : Laid(st.out, take, from, off, st.next)
        BY <1>10
    <2>2. i + 1 \in 1 .. n /\ i + 1 - 1 = i
        OBVIOUS
    <2>3. scan[i + 1] = Take(take, st, i + 1)
        BY <1>8, <2>2
    <2> HIDE DEF st
    <2>4. CASE i + 1 < st.next
        BY <2>1, <2>3, <2>4 DEF Take
    <2>5. CASE ~(i + 1 < st.next)
        <3>1. st.next = i + 1
            BY <2>1, <2>5
        <3>2. scan[i + 1] = [out |-> st.out \o take[i + 1].out, next |-> i + 1 + take[i + 1].length]
            BY <2>3, <2>5 DEF Take
        <3>3. PICK from, off : Laid(st.out, take, from, off, i + 1)
            BY <2>1, <3>1
        <3>4. \E from2, off2 : Laid(st.out \o take[i + 1].out, take, from2, off2, i + 1 + take[i + 1].length)
            <4>1. st.out \in Seq(Instrs)
                BY <2>1 DEF ScanStates
            <4> QED
                BY <2>2, <3>3, <4>1, LaidStep
        <3>5. i + 1 + take[i + 1].length \in (i + 2) .. (n + 1)
            BY <2>2 DEF Piece
        <3>6. scan[i + 1] \in ScanStates
            BY <1>a, <2>1, <2>2, <2>3
        <3>7. /\ scan[i + 1].out = st.out \o take[i + 1].out
              /\ scan[i + 1].next = i + 1 + take[i + 1].length
            <4> DEFINE a == st.out \o take[i + 1].out
                       c == i + 1 + take[i + 1].length
            <4>1. scan[i + 1] = [out |-> a, next |-> c]
                BY <3>2
            <4> HIDE DEF a, c
            <4>2. scan[i + 1].out = a /\ scan[i + 1].next = c
                BY <4>1
            <4> QED
                BY <4>2 DEF a, c
        <3>8. Reached(i + 1, scan[i + 1])
            <4>1. i + 1 + 1 = i + 2
                OBVIOUS
            <4> QED
                BY <3>4, <3>5, <3>6, <3>7, <4>1
        <3> HIDE DEF Reached
        <3> QED
            BY <2>2, <3>8
    <2> QED
        BY <2>4, <2>5
<1> HIDE DEF S
<1>11. 0 .. n \subseteq S
    BY <1>9, <1>10, BoundedInd
<1>12. Reached(n, scan[n])
    BY <1>11 DEF S
<1>13. scan[n].next = n + 1
    BY <1>12
<1> QED
    BY <1>7, <1>12, <1>13 DEF ScanStates

-----------------------------------------------------------------------------
(* Programs of which each instruction stands for a piece of another.         *)

\* An instruction stands for those from a up to, but not including, b: a bracket for the
\* same one, any other for a piece that closes what it opens, and nothing else.
StandsFor(ins, fine, a, b) ==
    IF ins.op \in {"open", "close"}
    THEN b = a + 1 /\ fine[a].op = ins.op
    ELSE /\ Depth(fine, b - 1) = Depth(fine, a - 1)
         /\ \A p \in a .. (b - 1) : Depth(fine, p) >= Depth(fine, a - 1)

\* The pieces lie one behind the other, from the first instruction to the last.
Tiles(coarse, fine, start) ==
    /\ start \in [1 .. (Len(coarse) + 1) -> 1 .. (Len(fine) + 1)]
    /\ start[1] = 1 /\ start[Len(coarse) + 1] = Len(fine) + 1
    /\ \A k \in 1 .. Len(coarse) :
        start[k] <= start[k + 1] /\ StandsFor(coarse[k], fine, start[k], start[k + 1])

\* What that says of each start.
PartsOf(n, N, coarse, fine, start) ==
    /\ start \in [1 .. (n + 1) -> 1 .. (N + 1)] /\ start[1] = 1 /\ start[n + 1] = N + 1
    /\ \A k \in 1 .. n : start[k] <= start[k + 1]
    /\ \A k \in 1 .. n : StandsFor(coarse[k], fine, start[k], start[k + 1])
    /\ \A k \in 1 .. (n + 1) : start[k] \in 1 .. (N + 1) /\ start[k] - 1 \in 0 .. N
LEMMA TilesParts ==
    ASSUME NEW n \in Nat, NEW N \in Nat, NEW coarse, NEW fine, NEW start,
           n = Len(coarse), N = Len(fine), Tiles(coarse, fine, start)
    PROVE  PartsOf(n, N, coarse, fine, start)
<1>1. start \in [1 .. (n + 1) -> 1 .. (N + 1)] /\ start[1] = 1 /\ start[n + 1] = N + 1
    BY DEF Tiles
<1>2. /\ \A k \in 1 .. n : start[k] <= start[k + 1]
      /\ \A k \in 1 .. n : StandsFor(coarse[k], fine, start[k], start[k + 1])
    BY DEF Tiles
<1>3. ASSUME NEW k \in 1 .. (n + 1) PROVE start[k] \in 1 .. (N + 1) /\ start[k] - 1 \in 0 .. N
    <2>1. start[k] \in 1 .. (N + 1)
        BY ONLY k \in 1 .. (n + 1), <1>1
    <2> QED
        BY ONLY N \in Nat, <2>1
<1> QED
    BY ONLY <1>1, <1>2, <1>3 DEF PartsOf

\* Starts are in order, and between two of them is nothing but the pieces.
LEMMA TilesInOrder ==
    ASSUME NEW n \in Nat, NEW N \in Nat, NEW start \in [1 .. (n + 1) -> 1 .. (N + 1)],
           start[1] = 1, \A k \in 1 .. n : start[k] <= start[k + 1]
    PROVE  /\ \A l \in 1 .. (n + 1) : \A k \in 1 .. l : start[k] <= start[l]
           /\ \A l \in 1 .. (n + 1) : \A p \in 1 .. (start[l] - 1) :
                    \E k \in 1 .. (l - 1) : start[k] <= p /\ p < start[k + 1]
<1>a. \A k \in 1 .. (n + 1) : start[k] \in 1 .. (N + 1) /\ start[k] \in Int
    OBVIOUS
<1> DEFINE S == {m \in 0 .. n : \A k \in 1 .. (m + 1) : start[k] <= start[m + 1]}
           T == {m \in 0 .. n : \A p \in 1 .. (start[m + 1] - 1) :
                    \E k \in 1 .. m : start[k] <= p /\ p < start[k + 1]}
<1>1. 0 \in S /\ 0 \in T
    <2>1. 0 + 1 = 1 /\ 1 \in 1 .. (n + 1)
        OBVIOUS
    <2> QED
        BY <1>a, <2>1
<1>2. ASSUME NEW m \in 0 .. (n - 1), m \in S PROVE m + 1 \in S
    <2>1. m + 1 \in 1 .. n /\ m + 1 \in 1 .. (n + 1) /\ m + 1 + 1 \in 1 .. (n + 1) /\ m + 1 \in 0 .. n
        OBVIOUS
    <2>2. start[m + 1] <= start[m + 1 + 1]
        BY <2>1
    <2>3. ASSUME NEW k \in 1 .. (m + 1 + 1) PROVE start[k] <= start[m + 1 + 1]
        <3>1. CASE k = m + 1 + 1
            BY <1>a, <2>1, <3>1
        <3>2. CASE k # m + 1 + 1
            <4>1. k \in 1 .. (m + 1) /\ k \in 1 .. (n + 1)
                BY <3>2
            <4>2. start[k] <= start[m + 1]
                BY <1>2, <4>1
            <4> QED
                BY <1>a, <2>1, <2>2, <4>1, <4>2
        <3> QED
            BY <3>1, <3>2
    <2> QED
        BY <2>1, <2>3
<1>3. ASSUME NEW m \in 0 .. (n - 1), m \in T PROVE m + 1 \in T
    <2>1. m + 1 \in 1 .. n /\ m + 1 \in 1 .. (n + 1) /\ m + 1 + 1 \in 1 .. (n + 1) /\ m + 1 \in 0 .. n
        OBVIOUS
    <2>2. ASSUME NEW p \in 1 .. (start[m + 1 + 1] - 1)
          PROVE  \E k \in 1 .. (m + 1) : start[k] <= p /\ p < start[k + 1]
        <3>1. CASE p < start[m + 1]
            <4>1. p \in 1 .. (start[m + 1] - 1)
                BY <1>a, <2>1, <3>1
            <4>2. PICK k \in 1 .. m : start[k] <= p /\ p < start[k + 1]
                BY <1>3, <4>1
            <4> QED
                BY <4>2
        <3>2. CASE ~(p < start[m + 1])
            <4>1. start[m + 1] <= p /\ p < start[m + 1 + 1]
                BY <1>a, <2>1, <3>2
            <4> QED
                BY <2>1, <4>1
        <3> QED
            BY <3>1, <3>2
    <2> QED
        BY <2>1, <2>2
<1> HIDE DEF S, T
<1>4. 0 .. n \subseteq S /\ 0 .. n \subseteq T
    BY <1>1, <1>2, <1>3, BoundedInd
<1>5. ASSUME NEW l \in 1 .. (n + 1), NEW k \in 1 .. l PROVE start[k] <= start[l]
    <2>1. l - 1 \in 0 .. n /\ l - 1 + 1 = l
        OBVIOUS
    <2> QED
        BY <1>4, <2>1 DEF S
<1>6. ASSUME NEW l \in 1 .. (n + 1), NEW p \in 1 .. (start[l] - 1)
      PROVE  \E k \in 1 .. (l - 1) : start[k] <= p /\ p < start[k + 1]
    <2>1. l - 1 \in 0 .. n /\ l - 1 + 1 = l
        OBVIOUS
    <2> QED
        BY <1>4, <2>1 DEF T
<1> QED
    BY <1>5, <1>6

\* As many brackets are open after an instruction as after its piece.
LEMMA TilesDepth ==
    ASSUME NEW n \in Nat, NEW N \in Nat, NEW coarse, NEW fine, NEW start,
           n = Len(coarse), DOMAIN coarse = 1 .. n, N = Len(fine), DOMAIN fine = 1 .. N,
           Tiles(coarse, fine, start)
    PROVE  /\ \A k \in 1 .. (n + 1) : Depth(coarse, k - 1) = Depth(fine, start[k] - 1)
           /\ \A k \in 1 .. n : \A p \in start[k] .. (start[k + 1] - 1) :
                    \/ Depth(fine, p) >= Depth(coarse, k - 1)
                    \/ p = start[k] /\ Depth(fine, p) = Depth(coarse, k)
<1>p. PartsOf(n, N, coarse, fine, start)
    BY TilesParts
<1>1. /\ start \in [1 .. (n + 1) -> 1 .. (N + 1)] /\ start[1] = 1
      /\ \A k \in 1 .. n : StandsFor(coarse[k], fine, start[k], start[k + 1])
      /\ \A k \in 1 .. (n + 1) : start[k] \in 1 .. (N + 1) /\ start[k] - 1 \in 0 .. N
    BY ONLY <1>p DEF PartsOf
<1>2. /\ \A p \in 0 .. n : Depth(coarse, p) \in Int
      /\ \A p \in 1 .. n : Depth(coarse, p) = Depth(coarse, p - 1) + Turn(coarse[p])
      /\ Depth(coarse, 0) = 0
    BY DepthStep
<1>3. /\ \A p \in 0 .. N : Depth(fine, p) \in Int
      /\ \A p \in 1 .. N : Depth(fine, p) = Depth(fine, p - 1) + Turn(fine[p])
      /\ Depth(fine, 0) = 0
    BY DepthStep
<1> DEFINE S == {m \in 0 .. n : Depth(coarse, m) = Depth(fine, start[m + 1] - 1)}
<1>4. 0 \in S
    <2>1. 0 + 1 = 1 /\ start[1] - 1 = 0
        BY <1>1
    <2> QED
        BY <1>2, <1>3, <2>1
<1>5. ASSUME NEW k \in 1 .. n, coarse[k].op \in {"open", "close"}
      PROVE  /\ start[k] \in 1 .. N /\ start[k + 1] = start[k] + 1
             /\ Depth(fine, start[k]) = Depth(fine, start[k] - 1) + Turn(coarse[k])
    <2>1. /\ StandsFor(coarse[k], fine, start[k], start[k + 1])
          /\ start[k] \in 1 .. (N + 1) /\ start[k + 1] \in 1 .. (N + 1)
        BY <1>1
    <2>2. /\ start[k + 1] = start[k] + 1 /\ fine[start[k]].op = coarse[k].op /\ start[k] \in 1 .. N
        BY <1>5, <2>1 DEF StandsFor
    <2>3. Turn(fine[start[k]]) = Turn(coarse[k])
        BY <2>2 DEF Turn
    <2> QED
        BY <1>3, <2>2, <2>3
<1>6. ASSUME NEW k \in 1 .. n, coarse[k].op \notin {"open", "close"}
      PROVE  /\ Turn(coarse[k]) = 0
             /\ Depth(fine, start[k + 1] - 1) = Depth(fine, start[k] - 1)
             /\ \A p \in start[k] .. (start[k + 1] - 1) : Depth(fine, p) >= Depth(fine, start[k] - 1)
    <2>1. StandsFor(coarse[k], fine, start[k], start[k + 1])
        BY <1>1
    <2> QED
        BY <1>6, <2>1 DEF StandsFor, Turn
<1>7. ASSUME NEW m \in 0 .. (n - 1), m \in S PROVE m + 1 \in S
    <2>1. m + 1 \in 1 .. n /\ m + 1 - 1 = m /\ m \in 0 .. n
        OBVIOUS
    <2>2. Depth(coarse, m + 1) = Depth(coarse, m) + Turn(coarse[m + 1])
        BY <1>2, <2>1
    <2>3. Depth(coarse, m) = Depth(fine, start[m + 1] - 1)
        BY <1>7
    <2>4. CASE coarse[m + 1].op \in {"open", "close"}
        <3>1. start[m + 1 + 1] - 1 = start[m + 1]
            BY <1>5, <2>1, <2>4
        <3>2. Depth(fine, start[m + 1 + 1] - 1) = Depth(fine, start[m + 1] - 1) + Turn(coarse[m + 1])
            BY <1>5, <2>1, <2>4, <3>1
        <3> QED
            BY <2>1, <2>2, <2>3, <3>2
    <2>5. CASE coarse[m + 1].op \notin {"open", "close"}
        <3>1. Depth(fine, start[m + 1 + 1] - 1) = Depth(fine, start[m + 1] - 1) /\ Turn(coarse[m + 1]) = 0
            BY <1>6, <2>1, <2>5
        <3>2. Depth(coarse, m) \in Int
            BY <1>2, <2>1
        <3> QED
            BY <2>1, <2>2, <2>3, <3>1, <3>2
    <2> QED
        BY <2>4, <2>5
<1> HIDE DEF S
<1>8. 0 .. n \subseteq S
    BY <1>4, <1>7, BoundedInd
<1>9. ASSUME NEW k \in 1 .. (n + 1) PROVE Depth(coarse, k - 1) = Depth(fine, start[k] - 1)
    <2>1. k - 1 \in 0 .. n /\ k - 1 + 1 = k
        OBVIOUS
    <2> QED
        BY <1>8, <2>1 DEF S
<1>10. ASSUME NEW k \in 1 .. n, NEW p \in start[k] .. (start[k + 1] - 1)
       PROVE  \/ Depth(fine, p) >= Depth(coarse, k - 1)
              \/ p = start[k] /\ Depth(fine, p) = Depth(coarse, k)
    <2>1. k \in 1 .. (n + 1) /\ Depth(coarse, k - 1) = Depth(fine, start[k] - 1)
        BY <1>9
    <2>2. CASE coarse[k].op \in {"open", "close"}
        <3>1. start[k] \in 1 .. N /\ start[k + 1] = start[k] + 1
            BY <1>5, <2>2
        <3>2. p = start[k]
            BY <3>1
        <3>3. Depth(fine, start[k]) = Depth(coarse, k - 1) + Turn(coarse[k])
            BY <1>5, <2>1, <2>2
        <3> QED
            BY <1>2, <3>2, <3>3
    <2>3. CASE coarse[k].op \notin {"open", "close"}
        BY <1>6, <2>1, <2>3
    <2> QED
        BY <2>2, <2>3
<1> QED
    BY <1>9, <1>10

\* Both pair up, or neither does; and what a bracket closes, its piece closes.
LEMMA TilesPairUp ==
    ASSUME NEW n \in Nat, NEW N \in Nat, NEW coarse, NEW fine, NEW start,
           n = Len(coarse), DOMAIN coarse = 1 .. n, N = Len(fine), DOMAIN fine = 1 .. N,
           Tiles(coarse, fine, start)
    PROVE  /\ Balanced(coarse) <=> Balanced(fine)
           /\ \A k, l : Closes(coarse, k, l) => Closes(fine, start[k], start[l])
<1>p. PartsOf(n, N, coarse, fine, start)
    BY TilesParts
<1>1. /\ start \in [1 .. (n + 1) -> 1 .. (N + 1)] /\ start[1] = 1 /\ start[n + 1] = N + 1
      /\ \A k \in 1 .. n : start[k] <= start[k + 1]
      /\ \A k \in 1 .. n : StandsFor(coarse[k], fine, start[k], start[k + 1])
      /\ \A k \in 1 .. (n + 1) : start[k] \in 1 .. (N + 1) /\ start[k] - 1 \in 0 .. N
    BY ONLY <1>p DEF PartsOf
<1>2. /\ \A p \in 0 .. n : Depth(coarse, p) \in Int
      /\ \A p \in 0 .. N : Depth(fine, p) \in Int
      /\ Depth(fine, 0) = 0
    BY DepthStep
<1>3. /\ \A k \in 1 .. (n + 1) : Depth(coarse, k - 1) = Depth(fine, start[k] - 1)
      /\ \A k \in 1 .. n : \A p \in start[k] .. (start[k + 1] - 1) :
            \/ Depth(fine, p) >= Depth(coarse, k - 1)
            \/ p = start[k] /\ Depth(fine, p) = Depth(coarse, k)
    BY TilesDepth
<1>4. /\ \A l \in 1 .. (n + 1) : \A k \in 1 .. l : start[k] <= start[l]
      /\ \A l \in 1 .. (n + 1) : \A p \in 1 .. (start[l] - 1) :
            \E k \in 1 .. (l - 1) : start[k] <= p /\ p < start[k + 1]
    BY <1>1, TilesInOrder
<1>a. start[n + 1] = N + 1
    BY <1>1
<1>b. \A k \in 1 .. (n + 1) : start[k] \in Int /\ start[k] >= 1 /\ start[k] <= N + 1
    BY <1>1
<1>5. /\ Balanced(coarse) <=> (\A i \in 0 .. n : Depth(coarse, i) >= 0) /\ Depth(coarse, n) = 0
      /\ Balanced(fine) <=> (\A i \in 0 .. N : Depth(fine, i) >= 0) /\ Depth(fine, N) = 0
    BY BalancedDepth
<1>6. Depth(coarse, n) = Depth(fine, N)
    <2>1. n + 1 \in 1 .. (n + 1) /\ n + 1 - 1 = n
        OBVIOUS
    <2>2. start[n + 1] - 1 = N
        BY <1>a
    <2>3. Depth(coarse, n + 1 - 1) = Depth(fine, start[n + 1] - 1)
        BY <1>3, <2>1
    <2> QED
        BY <2>1, <2>2, <2>3
<1>7. ASSUME \A i \in 0 .. N : Depth(fine, i) >= 0, NEW i \in 0 .. n PROVE Depth(coarse, i) >= 0
    <2>1. i + 1 \in 1 .. (n + 1) /\ i + 1 - 1 = i
        OBVIOUS
    <2>a. start[i + 1] - 1 \in 0 .. N
        BY <1>1, <2>1
    <2>b. Depth(coarse, i + 1 - 1) = Depth(fine, start[i + 1] - 1)
        BY <1>3, <2>1
    <2>2. Depth(coarse, i) = Depth(fine, start[i + 1] - 1) /\ start[i + 1] - 1 \in 0 .. N
        BY <2>1, <2>a, <2>b
    <2> QED
        BY <1>7, <2>2
<1>8. ASSUME \A i \in 0 .. n : Depth(coarse, i) >= 0, NEW p \in 0 .. N PROVE Depth(fine, p) >= 0
    <2>1. CASE p = 0
        BY <1>2, <2>1
    <2>2. CASE p # 0
        <3>1. n + 1 \in 1 .. (n + 1) /\ p \in 1 .. (start[n + 1] - 1)
            BY <1>a, <2>2
        <3>2. PICK k \in 1 .. (n + 1 - 1) : start[k] <= p /\ p < start[k + 1]
            BY <1>4, <3>1
        <3>a. k \in 1 .. n /\ k \in 0 .. n /\ k - 1 \in 0 .. n /\ k \in 1 .. (n + 1) /\ k + 1 \in 1 .. (n + 1)
            OBVIOUS
        <3>3. p \in start[k] .. (start[k + 1] - 1)
            BY <1>b, <3>2, <3>a
        <3>4. Depth(fine, p) >= Depth(coarse, k - 1) \/ Depth(fine, p) = Depth(coarse, k)
            BY <1>3, <3>3, <3>a
        <3>5. Depth(coarse, k - 1) >= 0 /\ Depth(coarse, k) >= 0
            BY <1>8, <3>a
        <3> QED
            BY <1>2, <3>4, <3>5, <3>a
    <2> QED
        BY <2>1, <2>2
<1>9. ASSUME NEW k, NEW l, Closes(coarse, k, l) PROVE Closes(fine, start[k], start[l])
    <2>1. /\ k \in 1 .. n /\ l \in 1 .. n /\ k < l /\ coarse[k].op = "open" /\ coarse[l].op = "close"
          /\ Depth(coarse, l) = Depth(coarse, k) - 1
          /\ \A p \in k .. (l - 1) : Depth(coarse, p) >= Depth(coarse, k)
        BY <1>9 DEF Closes, Brackets
    <2>2. /\ k \in 1 .. (n + 1) /\ l \in 1 .. (n + 1) /\ k + 1 \in 1 .. (n + 1) /\ l + 1 \in 1 .. (n + 1)
          /\ k + 1 - 1 = k /\ l + 1 - 1 = l
        BY <2>1
    <2>3. /\ start[k + 1] = start[k] + 1 /\ fine[start[k]].op = "open"
          /\ start[l + 1] = start[l] + 1 /\ fine[start[l]].op = "close"
        BY <1>1, <2>1 DEF StandsFor
    <2>4. /\ start[k] \in 1 .. N /\ start[l] \in 1 .. N /\ start[k + 1] - 1 = start[k]
          /\ start[l + 1] - 1 = start[l]
        <3>1. /\ start[k] \in Int /\ start[k] >= 1 /\ start[k + 1] <= N + 1
              /\ start[l] \in Int /\ start[l] >= 1 /\ start[l + 1] <= N + 1
            BY <1>b, <2>2
        <3> QED
            BY ONLY N \in Nat, <2>3, <3>1
    <2>5. Depth(coarse, k) = Depth(fine, start[k]) /\ Depth(coarse, l) = Depth(fine, start[l])
        BY <1>3, <2>2, <2>4
    <2>6. start[k] < start[l]
        <3>1. k + 1 \in 1 .. l
            BY <2>1
        <3>2. start[k + 1] <= start[l]
            BY <1>4, <2>2, <3>1
        <3> QED
            BY <2>3, <2>4, <3>2
    <2>7. ASSUME NEW p \in start[k] .. (start[l] - 1) PROVE Depth(fine, p) >= Depth(fine, start[k])
        <3>1. p \in 1 .. (start[l] - 1) /\ p \in 0 .. N
            BY <2>4
        <3>2. PICK j \in 1 .. (l - 1) : start[j] <= p /\ p < start[j + 1]
            BY <1>4, <2>2, <3>1
        <3>a. /\ j \in 1 .. n /\ j \in 1 .. (n + 1) /\ j + 1 \in 1 .. (n + 1) /\ j \in 0 .. n /\ j - 1 \in 0 .. n
            BY <2>1
        <3>3. /\ j \in 1 .. n /\ j \in 1 .. (n + 1) /\ j + 1 \in 1 .. (n + 1) /\ j \in 0 .. n /\ j - 1 \in 0 .. n
              /\ p \in start[j] .. (start[j + 1] - 1)
            BY <1>b, <3>2, <3>a
        <3>4. ~(j < k)
            <4>1. ASSUME j < k PROVE FALSE
                <5>1. j + 1 \in 1 .. k
                    BY <2>1, <4>1
                <5>2. start[j + 1] <= start[k]
                    BY <1>4, <2>2, <5>1
                <5> QED
                    BY <1>b, <2>4, <3>2, <3>a, <5>2
            <4> QED
                BY <4>1
        <3>5. CASE j = k
            <4>1. p = start[k]
                BY <2>3, <2>4, <3>3, <3>5
            <4> QED
                BY <1>2, <3>1, <4>1
        <3>6. CASE j # k
            <4>1. j \in k .. (l - 1) /\ j - 1 \in k .. (l - 1)
                BY <2>1, <3>3, <3>4, <3>6
            <4>2. Depth(coarse, j) >= Depth(coarse, k) /\ Depth(coarse, j - 1) >= Depth(coarse, k)
                BY <2>1, <4>1
            <4>3. Depth(fine, p) >= Depth(coarse, j - 1) \/ Depth(fine, p) = Depth(coarse, j)
                BY <1>3, <3>3
            <4>4. /\ Depth(coarse, j) \in Int /\ Depth(coarse, j - 1) \in Int /\ Depth(fine, p) \in Int
                  /\ Depth(coarse, k) \in Int
                BY <1>2, <2>1, <3>1, <3>3
            <4> QED
                BY <2>5, <4>2, <4>3, <4>4
        <3> QED
            BY <3>5, <3>6
    <2> QED
        BY <1>2, <2>1, <2>3, <2>4, <2>5, <2>6, <2>7 DEF Closes, Brackets
<1> QED
    BY <1>5, <1>6, <1>7, <1>8, <1>9

-----------------------------------------------------------------------------
(* What an instruction is parsed from.                                       *)

\* The instruction `ins' is written as the characters from i up to, but not including, j.
Written(ins, s, i, j) ==
    /\ i < j /\ j <= Len(s) + 1
    /\ CASE ins.op \in {"move", "add"} ->
              /\ \A p \in i .. (j - 1) : s[p] = s[i]
              /\ s[i].op = ins.op /\ s[i].arg \in {1, -1} /\ ins.arg = (j - i) * s[i].arg
         [] ins.op = "divmod" -> j = i + 30 /\ \A k \in 1 .. 30 : s[i + k - 1] = DivModCode[k]
         [] OTHER -> j = i + 1 /\ ins.op = s[i].op /\ ins.op \in {"out", "in", "open", "close"}

\* The first number that does not belong to a run.
LEMMA RunLengthIs ==
    ASSUME NEW s \in Seq(Characters), NEW i \in 1 .. Len(s)
    PROVE  /\ RunLength(s, i) \in 1 .. (Len(s) - i + 1)
           /\ \A k \in i .. (i + RunLength(s, i) - 1) : s[k] = s[i]
<1> DEFINE n == Len(s)
<1>n. n \in Nat /\ n = Len(s)
    OBVIOUS
<1> HIDE DEF n
<1> DEFINE Ends(m) == i + m > n \/ s[i + m] # s[i]
           S == {m \in 1 .. (n - i + 1) : Ends(m)}
           Run(m) == (\A k \in i .. (i + m - 1) : s[k] = s[i]) /\ (i + m > n \/ s[i + m] # s[i])
<1>1. n - i + 1 \in S /\ S \in SUBSET Nat
    BY <1>n
<1>2. PICK m \in S : \A k \in S : m <= k
    BY <1>1, LeastNumber
<1>3. m \in 1 .. (n - i + 1) /\ Ends(m)
    BY <1>n
<1>4. ASSUME NEW k \in i .. (i + m - 1) PROVE s[k] = s[i]
    <2>1. CASE k = i
        BY <2>1
    <2>2. CASE k # i
        <3>1. k - i \in 1 .. (n - i + 1) /\ k - i < m /\ i + (k - i) = k
            BY <1>n, <1>3, <2>2
        <3>2. k - i \notin S
            BY <1>n, <1>2, <1>3, <3>1
        <3> QED
            BY <3>1, <3>2
    <2> QED
        BY <2>1, <2>2
<1>5. Run(m)
    BY <1>3, <1>4
<1>6. RunLength(s, i) = CHOOSE l \in 1 .. (n - i + 1) : Run(l)
    BY <1>n DEF RunLength
<1> HIDE DEF Run, S
<1>7. RunLength(s, i) \in 1 .. (n - i + 1) /\ Run(RunLength(s, i))
    BY <1>3, <1>5, <1>6
<1> QED
    BY <1>n, <1>7 DEF Run

\* The text of a division.
LEMMA DivModText == Len(DivModCode) = 30 /\ DivModCode \in Seq(Characters)
BY DEF DivModCode, Characters

LEMMA DivModOccurs ==
    ASSUME NEW s \in Seq(Characters), NEW i \in 1 .. Len(s), OccursAt(DivModCode, s, i)
    PROVE  i + 30 <= Len(s) + 1 /\ \A k \in 1 .. 30 : s[i + k - 1] = DivModCode[k]
<1>1. i + 30 - 1 <= Len(s) /\ SubSeq(s, i, i + 30 - 1) = DivModCode
    BY DivModText DEF OccursAt
<1>2. i \in 1 .. Len(s) + 1 /\ i + 30 - 1 \in i - 1 .. Len(s) /\ i + 30 - 1 - i + 1 = 30
    BY <1>1
<1>3. \A k \in 1 .. i + 30 - 1 - i + 1 : SubSeq(s, i, i + 30 - 1)[k] = s[i + k - 1]
    BY ONLY <1>2, s \in Seq(Characters), SubSeqProperties
<1>4. \A k \in 1 .. 30 : s[i + k - 1] = DivModCode[k]
    <2> DEFINE x == i + 30 - 1
    <2>1. SubSeq(s, i, x) = DivModCode /\ x - i + 1 = 30
        BY <1>1, <1>2
    <2>2. \A k \in 1 .. x - i + 1 : SubSeq(s, i, x)[k] = s[i + k - 1]
        BY <1>3
    <2> HIDE DEF x
    <2>3. 1 .. x - i + 1 = 1 .. 30
        BY <2>1
    <2> QED
        BY <2>1, <2>2, <2>3, Zenon
<1>5. i + 30 <= Len(s) + 1
    BY <1>1
<1> QED
    BY <1>4, <1>5

\* What one emitted instruction is.
LEMMA OneEmitted ==
    ASSUME NEW n \in Nat, NEW i \in 1 .. n, NEW op \in OpNames, NEW arg \in Int,
           NEW length \in 1 .. (n - i + 1), NEW t, t = [out |-> <<Op(op, arg, i)>>, length |-> length]
    PROVE  /\ Piece(n, i, t) /\ Len(t.out) = 1 /\ t.length = length
           /\ t.out[1].at = i /\ t.out[1].op = op /\ t.out[1].arg = arg
<1> DEFINE e == Op(op, arg, i)
<1>1. e \in Instrs /\ e.at = i /\ e.op = op /\ e.arg = arg
    BY MachineAssumption DEF Op, Instrs, Byte
<1>2. t = [out |-> <<e>>, length |-> length]
    OBVIOUS
<1> HIDE DEF e
<1>3. <<e>> \in Seq(Instrs) /\ Len(<<e>>) = 1 /\ <<e>>[1] = e
    BY <1>1
<1>4. t.out = <<e>> /\ t.length = length
    BY <1>2
<1> QED
    BY <1>1, <1>3, <1>4 DEF Piece

\* compileBF takes one instruction, and says where it begins.
LEMMA ParseAtWritten ==
    ASSUME NEW s \in Seq(Characters), NEW n \in Nat, n = Len(s), NEW i \in 1 .. n
    PROVE  LET t == ParseAt(s, i)
           IN /\ Piece(n, i, t) /\ Len(t.out) = 1 /\ t.out[1].at = i
              /\ Written(t.out[1], s, i, i + t.length)
<1> DEFINE t == ParseAt(s, i)
<1>1. /\ s[i] \in Characters
      /\ s[i].op \in {"move", "add", "out", "in", "open", "close"}
      /\ s[i].op \in {"move", "add"} => s[i].arg \in {1, -1}
    BY DEF Characters, R, L, P, M, Out, In, Open, Close, Move, Add
<1>3. CASE OccursAt(DivModCode, s, i)
    <2>1. t = [out |-> <<Op("divmod", 0, i)>>, length |-> 30]
        BY <1>3, DivModText DEF ParseAt
    <2>2. i + 30 <= n + 1 /\ \A k \in 1 .. 30 : s[i + k - 1] = DivModCode[k]
        BY <1>3, DivModOccurs
    <2>b. i + 30 <= n + 1
        BY <2>2
    <2>a. "divmod" \in OpNames /\ 0 \in Int /\ 30 \in 1 .. (n - i + 1)
        BY ONLY <2>b, i \in 1 .. n, n \in Nat DEF OpNames
    <2> HIDE DEF t
    <2>3. /\ Piece(n, i, t) /\ Len(t.out) = 1 /\ t.length = 30
          /\ t.out[1].at = i /\ t.out[1].op = "divmod"
        BY <2>a, <2>1, OneEmitted
    <2>4. Written(t.out[1], s, i, i + t.length)
        <3> DEFINE e == t.out[1]
                   j == i + t.length
        <3>1. e.op = "divmod" /\ j = i + 30 /\ i < j /\ j <= Len(s) + 1
            BY <2>b, <2>3
        <3>2. \A k \in 1 .. 30 : s[i + k - 1] = DivModCode[k]
            BY <2>2
        <3> HIDE DEF e, j
        <3>3. Written(e, s, i, j)
            BY <3>1, <3>2, Zenon DEF Written
        <3> QED
            BY <3>3 DEF e, j
    <2> QED
        BY <2>3, <2>4 DEF t
<1>4. CASE ~OccursAt(DivModCode, s, i) /\ s[i].op \in {"move", "add"}
    <2> DEFINE m == RunLength(s, i)
    <2>1. t = [out |-> <<Op(s[i].op, m * s[i].arg, i)>>, length |-> m]
        BY <1>4 DEF ParseAt
    <2>2. m \in 1 .. (n - i + 1) /\ \A k \in i .. (i + m - 1) : s[k] = s[i]
        BY RunLengthIs
    <2> HIDE DEF t, m
    <2>3. m * s[i].arg \in Int /\ s[i].op \in OpNames
        BY <1>1, <1>4, <2>2 DEF OpNames
    <2>4. /\ Piece(n, i, t) /\ Len(t.out) = 1 /\ t.length = m
          /\ t.out[1].at = i /\ t.out[1].op = s[i].op /\ t.out[1].arg = m * s[i].arg
        BY <2>1, <2>2, <2>3, OneEmitted
    <2>5. i + m - i = m /\ i < i + m /\ i + m <= n + 1
        BY <2>2
    <2>6. Written(t.out[1], s, i, i + t.length)
        BY <1>1, <1>4, <2>2, <2>4, <2>5 DEF Written
    <2> QED
        BY <2>4, <2>6 DEF t
<1>5. CASE ~OccursAt(DivModCode, s, i) /\ s[i].op \notin {"move", "add"}
    <2>1. t = [out |-> <<Op(s[i].op, 0, i)>>, length |-> 1]
        BY <1>5 DEF ParseAt
    <2>a. s[i].op \in OpNames /\ 0 \in Int /\ 1 \in 1 .. (n - i + 1)
        BY <1>1 DEF OpNames
    <2> HIDE DEF t
    <2>2. /\ Piece(n, i, t) /\ Len(t.out) = 1 /\ t.length = 1
          /\ t.out[1].at = i /\ t.out[1].op = s[i].op
        BY <2>a, <2>1, OneEmitted
    <2>3. Written(t.out[1], s, i, i + t.length)
        BY <1>1, <1>5, <2>2 DEF Written
    <2> QED
        BY <2>2, <2>3 DEF t
<1> QED
    BY <1>3, <1>4, <1>5

\* How many brackets a division has open after its first k characters.
Height(k) ==
    IF k \in 14 .. 18 THEN 3
    ELSE IF k \in 5 .. 9 \cup 12 .. 13 \cup 19 .. 23 THEN 2
    ELSE IF k \in 1 .. 29 THEN 1 ELSE 0

LEMMA DivModTurns == \A k \in 1 .. 30 : Turn(DivModCode[k]) = Height(k) - Height(k - 1)
<1>1. ASSUME NEW k \in 1 .. 10 PROVE Turn(DivModCode[k]) = Height(k) - Height(k - 1)
    BY DEF DivModCode, Turn, Height, R, L, P, M, Open, Close, Move, Add
<1>2. ASSUME NEW k \in 11 .. 20 PROVE Turn(DivModCode[k]) = Height(k) - Height(k - 1)
    BY DEF DivModCode, Turn, Height, R, L, P, M, Open, Close, Move, Add
<1>3. ASSUME NEW k \in 21 .. 30 PROVE Turn(DivModCode[k]) = Height(k) - Height(k - 1)
    BY DEF DivModCode, Turn, Height, R, L, P, M, Open, Close, Move, Add
<1>4. \A k \in 1 .. 30 : k \in 1 .. 10 \/ k \in 11 .. 20 \/ k \in 21 .. 30
    OBVIOUS
<1> QED
    BY <1>1, <1>2, <1>3, <1>4

LEMMA DivModDepth ==
    ASSUME NEW s, NEW n \in Nat, n = Len(s), DOMAIN s = 1 .. n, NEW i \in 1 .. n, i + 30 <= n + 1,
           \A k \in 1 .. 30 : s[i + k - 1] = DivModCode[k]
    PROVE  \A k \in 0 .. 30 : Depth(s, i - 1 + k) = Depth(s, i - 1) + Height(k)
<1> DEFINE S == {k \in 0 .. 30 : Depth(s, i - 1 + k) = Depth(s, i - 1) + Height(k)}
<1>a. n \in Nat /\ i \in 1 .. n /\ i + 30 <= n + 1 /\ i - 1 \in 0 .. n
    BY ONLY n \in Nat, i \in 1 .. n, i + 30 <= n + 1
<1>b. \A p \in 0 .. n : Depth(s, p) \in Int
    BY DepthStep
<1>c. \A p \in 1 .. n : Depth(s, p) = Depth(s, p - 1) + Turn(s[p])
    BY DepthStep
<1>1. 0 \in S
    <2>1. i - 1 + 0 = i - 1 /\ i - 1 \in 0 .. n /\ Height(0) = 0
        BY ONLY <1>a DEF Height
    <2>2. Depth(s, i - 1) \in Int
        BY ONLY <1>a, <1>b
    <2> QED
        BY ONLY <2>1, <2>2
<1>2. ASSUME NEW k \in 0 .. 29, k \in S PROVE k + 1 \in S
    <2>1. /\ k + 1 \in 1 .. 30 /\ k + 1 - 1 = k /\ i - 1 + (k + 1) \in 1 .. n
          /\ i - 1 + (k + 1) - 1 = i - 1 + k /\ i - 1 + (k + 1) = i + (k + 1) - 1 /\ i - 1 \in 0 .. n
        BY ONLY <1>a, k \in 0 .. 29
    <2>2. s[i - 1 + (k + 1)] = DivModCode[k + 1]
        BY <2>1
    <2>3. Turn(DivModCode[k + 1]) = Height(k + 1) - Height(k)
        BY ONLY <2>1, DivModTurns
    <2>4. Depth(s, i - 1 + (k + 1)) = Depth(s, i - 1 + k) + Turn(DivModCode[k + 1])
        BY ONLY <2>1, <2>2, <1>c
    <2>5. Depth(s, i - 1 + k) = Depth(s, i - 1) + Height(k)
        BY <1>2
    <2>6. Depth(s, i - 1) \in Int /\ Height(k) \in Int /\ Height(k + 1) \in Int
        BY ONLY <2>1, <1>b DEF Height
    <2> HIDE DEF S
    <2>7. Depth(s, i - 1 + (k + 1)) = Depth(s, i - 1) + Height(k + 1)
        BY ONLY <2>3, <2>4, <2>5, <2>6
    <2> QED
        BY <2>1, <2>7 DEF S
<1> HIDE DEF S
<1>3. 0 .. 30 \subseteq S
    <2>1. 30 - 1 = 29 /\ 30 \in Nat
        OBVIOUS
    <2> QED
        BY <1>1, <1>2, <2>1, BoundedInd
<1> QED
    BY <1>3 DEF S

\* An instruction stands for the characters it is written as.
LEMMA WrittenStandsFor ==
    ASSUME NEW s \in Seq(Characters), NEW ins, NEW i \in 1 .. Len(s), NEW j \in Nat, Written(ins, s, i, j)
    PROVE  StandsFor(ins, s, i, j)
<1> DEFINE n == Len(s)
<1>1. n \in Nat /\ n = Len(s) /\ DOMAIN s = 1 .. n /\ i < j /\ j <= n + 1 /\ i \in 1 .. n
    BY DEF Written
<1>2. /\ \A p \in 0 .. n : Depth(s, p) \in Int
      /\ \A p \in 1 .. n : Depth(s, p) = Depth(s, p - 1) + Turn(s[p])
    BY <1>1, DepthStep
<1> HIDE DEF n
<1>3. CASE ins.op \in {"move", "add"}
    <2>1. /\ \A p \in i .. (j - 1) : s[p] = s[i]
          /\ s[i].op = ins.op
        BY <1>3 DEF Written
    <2>2. \A p \in i .. (j - 1) : Turn(s[p]) = 0
        BY <1>3, <2>1 DEF Turn
    <2> DEFINE S == {k \in 0 .. (j - i) : Depth(s, i - 1 + k) = Depth(s, i - 1)}
    <2>3. 0 \in S
        <3>1. i - 1 + 0 = i - 1 /\ j - i >= 0
            BY <1>1
        <3> QED
            BY <3>1
    <2>4. ASSUME NEW k \in 0 .. (j - i - 1), k \in S PROVE k + 1 \in S
        <3>1. /\ k + 1 \in 0 .. (j - i) /\ i - 1 + (k + 1) \in i .. (j - 1) /\ i - 1 + (k + 1) \in 1 .. n
              /\ i - 1 + (k + 1) - 1 = i - 1 + k /\ i - 1 + k \in 0 .. n
            BY <1>1
        <3>2. Depth(s, i - 1 + (k + 1)) = Depth(s, i - 1 + k) + Turn(s[i - 1 + (k + 1)])
            BY <1>2, <3>1
        <3>3. Turn(s[i - 1 + (k + 1)]) = 0 /\ Depth(s, i - 1 + k) \in Int
            BY <1>2, <2>2, <3>1
        <3>4. Depth(s, i - 1 + k) = Depth(s, i - 1)
            BY <2>4
        <3> QED
            BY <3>1, <3>2, <3>3, <3>4
    <2> HIDE DEF S
    <2>5. 0 .. (j - i) \subseteq S
        <3>1. j - i \in Nat
            BY <1>1
        <3> QED
            BY <2>3, <2>4, <3>1, BoundedInd
    <2>6. ASSUME NEW p \in (i - 1) .. (j - 1) PROVE Depth(s, p) = Depth(s, i - 1)
        <3>1. p - (i - 1) \in 0 .. (j - i) /\ i - 1 + (p - (i - 1)) = p
            BY <1>1
        <3>2. Depth(s, i - 1 + (p - (i - 1))) = Depth(s, i - 1)
            BY <2>5, <3>1 DEF S
        <3> QED
            BY <3>1, <3>2
    <2>7. \A p \in (i - 1) .. (j - 1) : Depth(s, p) >= Depth(s, i - 1)
        <3>1. Depth(s, i - 1) \in Int
            BY <1>1, <1>2
        <3> QED
            BY <2>6, <3>1
    <2>8. i .. (j - 1) \subseteq (i - 1) .. (j - 1) /\ j - 1 \in (i - 1) .. (j - 1)
        BY <1>1
    <2>9. /\ Depth(s, j - 1) = Depth(s, i - 1)
          /\ \A p \in i .. (j - 1) : Depth(s, p) >= Depth(s, i - 1)
        BY <2>6, <2>7, <2>8
    <2> QED
        BY <1>3, <2>9 DEF StandsFor
<1>4. CASE ins.op = "divmod"
    <2>1. j = i + 30 /\ \A k \in 1 .. 30 : s[i + k - 1] = DivModCode[k]
        BY <1>4, Zenon DEF Written
    <2>2. j = i + 30
        BY <2>1
    <2>3. i + 30 <= n + 1
        BY <1>1, <2>2
    <2>4. \A k \in 0 .. 30 : Depth(s, i - 1 + k) = Depth(s, i - 1) + Height(k)
        BY <1>1, <2>1, <2>3, DivModDepth
    <2>5. ASSUME NEW p \in i .. (j - 1) PROVE Depth(s, p) >= Depth(s, i - 1)
        <3>1. p - i + 1 \in 0 .. 30 /\ i - 1 + (p - i + 1) = p /\ i - 1 \in 0 .. n
            BY <1>1, <2>2
        <3>2. Depth(s, i - 1 + (p - i + 1)) = Depth(s, i - 1) + Height(p - i + 1)
            BY <2>4, <3>1
        <3>3. Height(p - i + 1) \in Nat
            BY <3>1 DEF Height
        <3>4. Depth(s, i - 1) \in Int
            BY <1>2, <3>1
        <3> QED
            BY <3>1, <3>2, <3>3, <3>4
    <2>6. Depth(s, j - 1) = Depth(s, i - 1)
        <3>1. 30 \in 0 .. 30 /\ i - 1 + 30 = j - 1 /\ i - 1 \in 0 .. n
            BY <1>1, <2>2
        <3>2. Depth(s, i - 1 + 30) = Depth(s, i - 1) + Height(30)
            BY <2>4, <3>1
        <3>3. Height(30) = 0
            BY DEF Height
        <3>4. Depth(s, i - 1) \in Int
            BY <1>2, <3>1
        <3> QED
            BY <3>1, <3>2, <3>3, <3>4
    <2> QED
        BY <1>4, <2>5, <2>6 DEF StandsFor
<1>5. CASE ins.op \notin {"move", "add", "divmod"}
    <2>1. j = i + 1 /\ ins.op = s[i].op /\ ins.op \in {"out", "in", "open", "close"}
        BY <1>5 DEF Written
    <2>2. CASE ins.op \in {"open", "close"}
        BY <2>1, <2>2 DEF StandsFor
    <2>3. CASE ins.op \notin {"open", "close"}
        <3>1. Turn(s[i]) = 0
            BY <2>1, <2>3 DEF Turn
        <3>2. Depth(s, i) = Depth(s, i - 1) /\ Depth(s, i) \in Int
            <4>1. i \in 0 .. n /\ i - 1 \in 0 .. n
                BY <1>1
            <4> QED
                BY <1>1, <1>2, <3>1, <4>1
        <3>3. j - 1 = i
            BY <1>1, <2>1
        <3>4. \A p \in i .. (j - 1) : p = i
            BY <3>3
        <3>5. Depth(s, j - 1) = Depth(s, i - 1) /\ \A p \in i .. (j - 1) : Depth(s, p) >= Depth(s, i - 1)
            BY <3>2, <3>3, <3>4
        <3> QED
            BY <2>3, <3>5 DEF StandsFor
    <2> QED
        BY <2>2, <2>3
<1> QED
    BY <1>3, <1>4, <1>5

\* The instructions a program is parsed to stand for it, each for the characters from
\* the one it remembers on.
LEMMA ParseTiles ==
    ASSUME NEW s \in Seq(Characters)
    PROVE  /\ Parse(s) \in Seq(Instrs)
           /\ \E start :
                /\ Tiles(Parse(s), s, start)
                /\ \A k \in 1 .. Len(Parse(s)) :
                    Parse(s)[k].at = start[k] /\ Written(Parse(s)[k], s, start[k], start[k + 1])
<1> DEFINE n == Len(s)
           take == [i \in DOMAIN s |-> ParseAt(s, i)]
           ops == Parse(s)
           m == Len(ops)
<1>1. n \in Nat /\ n = Len(s) /\ DOMAIN s = 1 .. n
    OBVIOUS
<1>2. ops = Rewrite(take) /\ DOMAIN take = 1 .. n /\ \A i \in 1 .. n : take[i] = ParseAt(s, i)
    BY <1>1 DEF Parse
<1>a. take \in Seq({ParseAt(s, i) : i \in DOMAIN s}) /\ Len(take) = n
    OBVIOUS
<1> HIDE DEF n, take, ops
<1>3. ASSUME NEW i \in 1 .. n
      PROVE  /\ Piece(n, i, take[i]) /\ Len(take[i].out) = 1 /\ take[i].out[1].at = i
             /\ Written(take[i].out[1], s, i, i + take[i].length)
    <2>1. /\ Piece(n, i, ParseAt(s, i)) /\ Len(ParseAt(s, i).out) = 1 /\ ParseAt(s, i).out[1].at = i
          /\ Written(ParseAt(s, i).out[1], s, i, i + ParseAt(s, i).length)
        BY ONLY <1>1, s \in Seq(Characters), ParseAtWritten
    <2> QED
        BY <1>2, <2>1
<1>4. ops \in Seq(Instrs) /\ \E from, off : Laid(ops, take, from, off, n + 1)
    BY ONLY <1>1, <1>2, <1>3, <1>a, RewriteLaid
<1>5. m \in Nat /\ m = Len(ops) /\ DOMAIN ops = 1 .. m
    BY <1>4
<1> HIDE DEF m
<1>6. PICK from, off : Laid(ops, take, from, off, n + 1)
    BY <1>4
<1>7. /\ from \in [1 .. (m + 1) -> Nat] /\ off \in [1 .. (m + 1) -> Nat]
      /\ from[1] = 1 /\ from[m + 1] = n + 1
    BY <1>5, <1>6 DEF Laid
<1>8. ASSUME NEW k \in 1 .. m
      PROVE  /\ from[k] \in 1 .. n /\ ops[k] = take[from[k]].out[1]
             /\ from[k + 1] = from[k] + take[from[k]].length
    <2>1. /\ from[k] \in DOMAIN take /\ off[k] \in 1 .. Len(take[from[k]].out)
          /\ ops[k] = take[from[k]].out[off[k]]
          /\ IF off[k] < Len(take[from[k]].out)
             THEN from[k + 1] = from[k] /\ off[k + 1] = off[k] + 1
             ELSE from[k + 1] = from[k] + take[from[k]].length /\ off[k + 1] = 1
        BY <1>5, <1>6 DEF Laid
    <2>2. from[k] \in 1 .. n /\ Len(take[from[k]].out) = 1
        BY <1>2, <1>3, <2>1
    <2>3. off[k] = 1 /\ ~(off[k] < Len(take[from[k]].out))
        BY <2>1, <2>2
    <2> QED
        BY <2>1, <2>2, <2>3
<1>9. ASSUME NEW k \in 1 .. m
      PROVE  /\ ops[k].at = from[k] /\ Written(ops[k], s, from[k], from[k + 1])
             /\ from[k] <= from[k + 1] /\ StandsFor(ops[k], s, from[k], from[k + 1])
    <2> DEFINE i == from[k]
               j == from[k + 1]
    <2>a. k + 1 \in 1 .. (m + 1)
        BY <1>5
    <2>1. i \in 1 .. n /\ ops[k] = take[i].out[1] /\ j = i + take[i].length /\ j \in Nat
        BY <1>7, <1>8, <2>a
    <2> HIDE DEF i, j
    <2>2. ops[k].at = i /\ Written(ops[k], s, i, j)
        BY <1>3, <2>1
    <2>3. i <= j
        BY <2>1, <2>2 DEF Written
    <2>4. StandsFor(ops[k], s, i, j)
        <3>1. i \in 1 .. Len(s)
            BY <1>1, <2>1
        <3> QED
            BY <2>1, <2>2, <3>1, WrittenStandsFor
    <2> QED
        BY <2>2, <2>3, <2>4 DEF i, j
<1>10. from \in [1 .. (m + 1) -> 1 .. (n + 1)]
    <2>1. ASSUME NEW k \in 1 .. (m + 1) PROVE from[k] \in 1 .. (n + 1)
        <3>1. CASE k = m + 1
            BY <1>1, <1>7, <3>1
        <3>2. CASE k # m + 1
            <4>1. k \in 1 .. m
                BY <1>5, <3>2
            <4>2. from[k] \in 1 .. n
                BY <1>8, <4>1
            <4> QED
                BY <1>1, <4>2
        <3> QED
            BY <3>1, <3>2
    <2> QED
        BY <1>7, <2>1
<1>11. Tiles(ops, s, from)
    BY <1>1, <1>5, <1>7, <1>9, <1>10 DEF Tiles
<1> QED
    BY <1>4, <1>5, <1>9, <1>11 DEF ops

-----------------------------------------------------------------------------
(* What the peephole puts in the place of a loop.                            *)

\* The instructions of a loop, one by one.
LEMMA BodyOf ==
    ASSUME NEW lk \in Seq(Instrs), NEW i \in 1 .. Len(lk), lk[i].arg \in (i + 1) .. Len(lk)
    PROVE  /\ Body(lk, i) \in Seq(Instrs) /\ Len(Body(lk, i)) = lk[i].arg - i - 1
           /\ \A k \in 1 .. (lk[i].arg - i - 1) : Body(lk, i)[k] = lk[i + k]
<1> DEFINE a == i + 1
           z == lk[i].arg - 1
<1>1. a \in Int /\ z \in Int /\ \A k \in a .. z : lk[k] \in Instrs
    OBVIOUS
<1>2. a \in 1 .. Len(lk) /\ z \in Int /\ z >= i /\ z - a + 1 = lk[i].arg - i - 1
    OBVIOUS
<1>3. Body(lk, i) = SubSeq(lk, a, z)
    BY DEF Body
<1> HIDE DEF a, z
<1>4. /\ SubSeq(lk, a, z) \in Seq(Instrs)
      /\ Len(SubSeq(lk, a, z)) = (IF a <= z THEN z - a + 1 ELSE 0)
      /\ \A k \in 1 .. z - a + 1 : SubSeq(lk, a, z)[k] = lk[a + k - 1]
    BY ONLY <1>1, SubSeqProperties
<1>5. Len(SubSeq(lk, a, z)) = lk[i].arg - i - 1
    BY <1>2, <1>4 DEF a
<1>6. ASSUME NEW k \in 1 .. (lk[i].arg - i - 1) PROVE SubSeq(lk, a, z)[k] = lk[i + k]
    <2>1. k \in 1 .. z - a + 1 /\ a + k - 1 = i + k
        BY <1>2 DEF a
    <2> QED
        BY <1>4, <2>1
<1> QED
    BY <1>3, <1>4, <1>5, <1>6

\* Where the pointer is, instruction by instruction.
LEMMA OffsetStep ==
    ASSUME NEW pairs \in Seq(Instrs)
    PROVE  /\ Offset(pairs, 0) = 0
           /\ \A j \in 0 .. Len(pairs) : Offset(pairs, j) \in Int
           /\ \A j \in 1 .. Len(pairs) :
                Offset(pairs, j) =
                    Offset(pairs, j - 1) + (IF pairs[j].op = "move" THEN pairs[j].arg ELSE 0)
<1> DEFINE n == Len(pairs)
           by(k) == IF pairs[k].op = "move" THEN pairs[k].arg ELSE 0
           f == [k \in 1 .. n |-> [x \in Int |-> x + by(k)]]
           Steps(g) == g = [k \in 0 .. n |-> IF k = 0 THEN 0 ELSE g[k - 1] + by(k)]
<1>1. n \in Nat /\ n = Len(pairs)
    OBVIOUS
<1>2. ASSUME NEW k \in 1 .. n PROVE by(k) \in Int
    <2>1. pairs[k] \in Instrs
        OBVIOUS
    <2> QED
        BY <2>1 DEF Instrs
<1>3. \A j : Offset(pairs, j) = (CHOOSE g : Steps(g))[j]
    BY DEF Offset
<1> HIDE DEF n, by
<1>4. f \in [1 .. n -> [Int -> Int]] /\ 0 \in Int
    BY <1>2
<1> HIDE DEF f
<1>5. PICK h : Iterated(h, n, Int, 0, f)
    BY ONLY <1>1, <1>4, Iterates
<1>6. h \in [0 .. n -> Int] /\ h[0] = 0 /\ \A k \in 1 .. n : h[k] = f[k][h[k - 1]]
    BY <1>5 DEF Iterated
<1>7. ASSUME NEW k \in 1 .. n PROVE h[k] = h[k - 1] + by(k)
    <2>1. k - 1 \in 0 .. n
        BY <1>1
    <2> QED
        BY <1>6, <2>1 DEF f
<1>8. Steps(h)
    <2>1. \A k \in 0 .. n : k # 0 => k \in 1 .. n
        BY <1>1
    <2> QED
        BY <1>6, <1>7, <2>1
<1> DEFINE pos == CHOOSE g : Steps(g)
<1>9. Steps(pos)
    BY <1>8
<1>10. \A j : Offset(pairs, j) = pos[j]
    BY <1>3
<1> HIDE DEF pos
<1>11. pos[0] = 0 /\ \A k \in 1 .. n : pos[k] = pos[k - 1] + by(k)
    <2>1. \A k \in 0 .. n : pos[k] = IF k = 0 THEN 0 ELSE pos[k - 1] + by(k)
        BY <1>9
    <2>2. 0 \in 0 .. n /\ \A k \in 1 .. n : k \in 0 .. n /\ k # 0
        BY <1>1
    <2> QED
        BY <2>1, <2>2
<1> DEFINE S == {k \in 0 .. n : pos[k] \in Int}
<1>12. 0 .. n \subseteq S
    <2>1. 0 \in S
        BY <1>1, <1>11
    <2>2. ASSUME NEW k \in 0 .. (n - 1), k \in S PROVE k + 1 \in S
        <3>1. k + 1 \in 1 .. n /\ k + 1 - 1 = k /\ k + 1 \in 0 .. n
            BY <1>1
        <3>2. pos[k + 1] = pos[k] + by(k + 1)
            BY <1>11, <3>1
        <3> QED
            BY <1>2, <2>2, <3>1, <3>2
    <2> HIDE DEF S
    <2> QED
        BY <1>1, <2>1, <2>2, BoundedInd
<1> QED
    BY <1>10, <1>11, <1>12 DEF n, by

\* How a loop that multiplies is laid out.
LEMMA PairsOf ==
    ASSUME NEW lk \in Seq(Instrs), NEW i \in 1 .. Len(lk), lk[i].arg \in (i + 1) .. Len(lk),
           Len(Body(lk, i)) >= 3, CountsDownFirst(Body(lk, i)) \/ CountsDownLast(Body(lk, i))
    PROVE  LET pairs == Pairs(Body(lk, i))
           IN /\ pairs \in Seq(Instrs) /\ lk[i].arg = i + Len(pairs) + 2
              /\ \/ /\ lk[i + 1].op = "add" /\ lk[i + 1].arg = -1
                    /\ \A k \in 1 .. Len(pairs) : pairs[k] = lk[i + 1 + k]
                 \/ /\ lk[i + Len(pairs) + 1].op = "add" /\ lk[i + Len(pairs) + 1].arg = -1
                    /\ \A k \in 1 .. Len(pairs) : pairs[k] = lk[i + k]
<1> DEFINE body == Body(lk, i)
           q == lk[i].arg - i - 2
<1>1. body \in Seq(Instrs) /\ Len(body) = q + 1 /\ q + 1 >= 3 /\ \A k \in 1 .. (q + 1) : body[k] = lk[i + k]
    <2>1. lk[i].arg - i - 1 = q + 1
        OBVIOUS
    <2> QED
        BY <2>1, BodyOf
<1>2. lk[i].arg = i + q + 2 /\ q \in Nat /\ i \in Int
    <2>1. q + 1 >= 3 /\ lk[i].arg \in Int /\ i \in Int
        BY <1>1
    <2>2. \A x, y \in Int : x - y - 2 + 1 >= 3 => x = y + (x - y - 2) + 2 /\ x - y - 2 \in Nat
        OBVIOUS
    <2> QED
        BY ONLY <2>1, <2>2
<1> HIDE DEF q
<1>3. CASE CountsDownFirst(body)
    <2> DEFINE pairs == Pairs(body)
    <2>1. pairs = Tail(body)
        BY <1>3 DEF Pairs
    <2>2. pairs \in Seq(Instrs) /\ Len(pairs) = q /\ \A k \in 1 .. q : pairs[k] = body[k + 1]
        <3> HIDE DEF body, pairs
        <3>1. body # <<>>
            BY ONLY <1>1, <1>2
        <3>2. /\ Tail(body) \in Seq(Instrs) /\ Len(Tail(body)) = Len(body) - 1
              /\ \A k \in 1 .. Len(Tail(body)) : Tail(body)[k] = body[k + 1]
            BY ONLY <1>1, <3>1, HeadTailProperties
        <3>3. Len(body) - 1 = q
            BY ONLY <1>1, <1>2
        <3> QED
            BY ONLY <2>1, <3>2, <3>3
    <2>3. body[1].op = "add" /\ body[1].arg = -1
        BY <1>1, <1>3 DEF CountsDownFirst, Is
    <2>4. body[1] = lk[i + 1]
        BY <1>1, <1>2
    <2>5. ASSUME NEW k \in 1 .. q PROVE pairs[k] = lk[i + 1 + k]
        <3>1. k + 1 \in 1 .. (q + 1) /\ i + (k + 1) = i + 1 + k
            BY ONLY <1>2, k \in 1 .. q
        <3> HIDE DEF body, pairs
        <3> QED
            BY <1>1, <2>2, <3>1
    <2> QED
        BY <1>2, <2>2, <2>3, <2>4, <2>5
<1>4. CASE ~CountsDownFirst(body)
    <2> DEFINE pairs == Pairs(body)
    <2>1. pairs = Front(body) /\ CountsDownLast(body)
        BY <1>4 DEF Pairs
    <2>2. pairs \in Seq(Instrs) /\ Len(pairs) = q /\ \A k \in 1 .. q : pairs[k] = body[k]
        <3> HIDE DEF body, pairs
        <3>1. Len(body) - 1 = q
            BY <1>1, <1>2
        <3>2. pairs = SubSeq(body, 1, q)
            BY <2>1, <3>1 DEF Front
        <3>3. \A k \in 1 .. q : body[k] \in Instrs
            BY <1>1, <1>2
        <3>4. /\ SubSeq(body, 1, q) \in Seq(Instrs) /\ Len(SubSeq(body, 1, q)) = (IF 1 <= q THEN q - 1 + 1 ELSE 0)
              /\ \A k \in 1 .. q - 1 + 1 : SubSeq(body, 1, q)[k] = body[1 + k - 1]
            BY ONLY <1>2, <3>3, SubSeqProperties
        <3>5. q >= 1 /\ q - 1 + 1 = q /\ \A k \in 1 .. q : 1 + k - 1 = k
            BY ONLY <1>1, <1>2
        <3>6. Len(SubSeq(body, 1, q)) = q
            BY ONLY <3>4, <3>5
        <3>7. \A k \in 1 .. q : SubSeq(body, 1, q)[k] = body[k]
            BY ONLY <3>4, <3>5
        <3> QED
            BY ONLY <3>2, <3>4, <3>6, <3>7
    <2>3. body[q + 1].op = "add" /\ body[q + 1].arg = -1
        BY <1>1, <2>1 DEF CountsDownLast, Is, Last
    <2>4. body[q + 1] = lk[i + (q + 1)] /\ i + (q + 1) = i + q + 1
        BY <1>1, <1>2
    <2>5. \A k \in 1 .. q : pairs[k] = lk[i + k]
        <3> HIDE DEF body, pairs
        <3>1. \A k \in 1 .. q : k \in 1 .. (q + 1)
            BY <1>2
        <3> QED
            BY <1>1, <2>2, <3>1
    <2> QED
        BY <1>2, <2>2, <2>3, <2>4, <2>5
<1> QED
    BY <1>3, <1>4 DEF body

\* What the fields of an instruction are.
LEMMA InstrFields ==
    ASSUME NEW ins \in Instrs
    PROVE  ins.op \in OpNames /\ ins.arg \in Int /\ ins.factor \in Byte /\ ins.at \in Nat
BY DEF Instrs

LEMMA OpIs ==
    ASSUME NEW op \in OpNames, NEW arg \in Int, NEW at \in Nat
    PROVE  /\ Op(op, arg, at) \in Instrs /\ Op(op, arg, at).op = op /\ Op(op, arg, at).arg = arg
           /\ Op(op, arg, at).at = at
BY ModByte DEF Op, Instrs

\* The k-th instruction of a multiplication.
MultOp(lk, i, k) ==
    [op |-> "mult", arg |-> Offset(Pairs(Body(lk, i)), 2 * k - 1),
     factor |-> Pairs(Body(lk, i))[2 * k].arg % Mod, at |-> lk[i].at]

\* The multiplication that takes the place of a loop.
LEMMA MultOpsIs ==
    ASSUME NEW lk \in Seq(Instrs), NEW i \in 1 .. Len(lk), lk[i].arg \in (i + 1) .. Len(lk),
           IsMultLoop(lk, i), NEW h, h = Len(Pairs(Body(lk, i))) \div 2
    PROVE  /\ h \in Nat /\ h >= 1 /\ Len(Pairs(Body(lk, i))) = 2 * h + 1
           /\ MultOps(lk, i) \in Seq(Instrs) /\ Len(MultOps(lk, i)) = h + 1
           /\ \A k \in 1 .. h : MultOps(lk, i)[k] = MultOp(lk, i, k)
           /\ MultOps(lk, i)[h + 1] = Op("clear", 0, lk[i].at)
<1> DEFINE pairs == Pairs(Body(lk, i))
           q == Len(pairs)
           mults == [k \in 1 .. h |-> MultOp(lk, i, k)]
           clear == Op("clear", 0, lk[i].at)
<1>1. /\ Len(Body(lk, i)) >= 3 /\ (CountsDownFirst(Body(lk, i)) \/ CountsDownLast(Body(lk, i)))
      /\ q >= 3 /\ q % 2 = 1
    BY DEF IsMultLoop
<1>2. pairs \in Seq(Instrs) /\ q \in Nat /\ q = Len(pairs)
    BY <1>1, PairsOf
<1>3. h \in Nat /\ h >= 1 /\ q = 2 * h + 1
    <2> HIDE DEF pairs
    <2>1. h = q \div 2 /\ q \in Nat /\ q >= 3 /\ q % 2 = 1
        BY <1>1, <1>2 DEF pairs
    <2> HIDE DEF q
    <2> QED
        BY ONLY <2>1
<1>d. lk[i].at \in Nat
    <2>1. lk[i] \in Instrs
        OBVIOUS
    <2> QED
        BY <2>1, InstrFields
<1>4. ASSUME NEW k \in 1 .. h PROVE MultOp(lk, i, k) \in Instrs
    <2>1. 2 * k - 1 \in 0 .. q /\ 2 * k \in 1 .. q
        BY <1>3
    <2>2. Offset(pairs, 2 * k - 1) \in Int
        BY <1>2, <2>1, OffsetStep
    <2>3. pairs[2 * k] \in Instrs
        BY <1>2, <2>1
    <2>4. pairs[2 * k].arg \in Int
        BY <2>3, InstrFields
    <2>5. pairs[2 * k].arg % Mod \in Byte
        BY <2>4, ModByte
    <2>6. lk[i].at \in Nat /\ "mult" \in OpNames
        BY <1>d DEF OpNames
    <2> HIDE DEF pairs, q
    <2>7. MultOp(lk, i, k) =
            [op |-> "mult", arg |-> Offset(pairs, 2 * k - 1), factor |-> pairs[2 * k].arg % Mod,
             at |-> lk[i].at]
        BY DEF MultOp, pairs
    <2> QED
        BY ONLY <2>2, <2>5, <2>6, <2>7 DEF Instrs
<1>5. clear \in Instrs
    <2>1. "clear" \in OpNames /\ 0 \in Int
        BY DEF OpNames
    <2> QED
        BY <2>1, <1>d, OpIs
<1>6. MultOps(lk, i) = [k \in 1 .. (q \div 2) |-> MultOp(lk, i, k)] \o <<clear>>
    BY DEF MultOps, MultOp
<1>a. MultOps(lk, i) = mults \o <<clear>>
    BY <1>6
<1> HIDE DEF clear
<1>b. \A k \in 1 .. h : mults[k] = MultOp(lk, i, k)
    OBVIOUS
<1>c. mults \in [1 .. h -> Instrs]
    BY <1>4
<1> HIDE DEF mults, pairs
<1>7. mults \in Seq(Instrs) /\ Len(mults) = h
    <2>1. h \in Nat
        BY <1>3
    <2> QED
        BY ONLY <2>1, <1>c
<1>8. <<clear>> \in Seq(Instrs) /\ Len(<<clear>>) = 1 /\ <<clear>>[1] = clear
    BY <1>5
<1>9. /\ mults \o <<clear>> \in Seq(Instrs) /\ Len(mults \o <<clear>>) = h + 1
      /\ \A k \in 1 .. (h + 1) : (mults \o <<clear>>)[k] = IF k <= h THEN mults[k] ELSE <<clear>>[k - h]
    BY ONLY <1>7, <1>8, ConcatProperties
<1>10. \A k \in 1 .. h : (mults \o <<clear>>)[k] = MultOp(lk, i, k)
    <2>1. \A k \in 1 .. h : k \in 1 .. (h + 1) /\ k <= h
        BY <1>3
    <2> QED
        BY <1>9, <1>b, <2>1
<1>11. (mults \o <<clear>>)[h + 1] = clear
    <2>1. h + 1 \in 1 .. (h + 1) /\ ~(h + 1 <= h) /\ h + 1 - h = 1
        BY <1>3
    <2> QED
        BY <1>8, <1>9, <2>1
<1> QED
    BY <1>3, <1>9, <1>10, <1>11, <1>a DEF clear, pairs

\* A loop the peephole replaces.
Replaced(lk, i) ==
    /\ lk[i].op = "open"
    /\ IsClearLoop(lk, i) \/ IsMultLoop(lk, i) \/ IsScanLoop(lk, i) \/ IsWalkLoop(lk, i)

\* What it is replaced by.
Replacement(lk, i) ==
    IF IsClearLoop(lk, i) THEN <<Op("clear", 0, lk[i].at)>>
    ELSE IF IsMultLoop(lk, i) THEN MultOps(lk, i)
    ELSE IF IsScanLoop(lk, i) THEN <<Op("scan", lk[i + 1].arg, lk[i].at)>>
    ELSE <<Op("walk", lk[i + 2].arg, lk[i].at)>>

LEMMA PeepholeAtIs ==
    ASSUME NEW lk, NEW i
    PROVE  PeepholeAt(lk, i) =
                IF Replaced(lk, i)
                THEN [out |-> Replacement(lk, i), length |-> lk[i].arg - i + 1]
                ELSE [out |-> <<lk[i]>>, length |-> 1]
BY DEF PeepholeAt, Replaced, Replacement

\* A replacement is well-formed, and has no bracket.
LEMMA ReplacementIs ==
    ASSUME NEW lk \in Seq(Instrs), NEW i \in 1 .. Len(lk), lk[i].arg \in (i + 1) .. Len(lk),
           Replaced(lk, i)
    PROVE  /\ Replacement(lk, i) \in Seq(Instrs) /\ Len(Replacement(lk, i)) >= 1
           /\ \A k \in 1 .. Len(Replacement(lk, i)) :
                Replacement(lk, i)[k].op \notin {"open", "close"} /\ Replacement(lk, i)[k].at = lk[i].at
<1> DEFINE out == Replacement(lk, i)
           One(op, arg) == <<Op(op, arg, lk[i].at)>>
<1>a. lk[i].at \in Nat
    <2>1. lk[i] \in Instrs
        OBVIOUS
    <2> QED
        BY <2>1, InstrFields
<1>1. ASSUME NEW op \in OpNames \ {"open", "close"}, NEW arg \in Int, out = One(op, arg)
      PROVE  /\ out \in Seq(Instrs) /\ Len(out) >= 1
             /\ \A k \in 1 .. Len(out) : out[k].op \notin {"open", "close"} /\ out[k].at = lk[i].at
    <2> DEFINE e == Op(op, arg, lk[i].at)
    <2>1. e \in Instrs /\ e.op = op /\ e.at = lk[i].at
        BY <1>a, OpIs
    <2>2. out = <<e>>
        BY <1>1
    <2> HIDE DEF e, out
    <2>3. out \in Seq(Instrs) /\ Len(out) = 1 /\ out[1] = e
        BY <2>1, <2>2
    <2> QED
        BY <2>1, <2>3
<1>2. CASE IsClearLoop(lk, i)
    <2>1. "clear" \in OpNames \ {"open", "close"} /\ 0 \in Int /\ out = One("clear", 0)
        BY <1>2 DEF OpNames, Replacement
    <2> HIDE DEF out, One
    <2> QED
        BY <1>1, <2>1 DEF out
<1>3. CASE ~IsClearLoop(lk, i) /\ IsMultLoop(lk, i)
    <2> DEFINE h == Len(Pairs(Body(lk, i))) \div 2
    <2>1. out = MultOps(lk, i)
        BY <1>3 DEF Replacement
    <2>2. /\ h \in Nat /\ h >= 1
          /\ MultOps(lk, i) \in Seq(Instrs) /\ Len(MultOps(lk, i)) = h + 1
          /\ \A k \in 1 .. h : MultOps(lk, i)[k] = MultOp(lk, i, k)
          /\ MultOps(lk, i)[h + 1] = Op("clear", 0, lk[i].at)
        BY <1>3, MultOpsIs
    <2> HIDE DEF out, h
    <2>3. ASSUME NEW k \in 1 .. (h + 1) PROVE out[k].op \notin {"open", "close"} /\ out[k].at = lk[i].at
        <3>1. CASE k \in 1 .. h
            <4>1. out[k] = MultOp(lk, i, k)
                BY <2>1, <2>2, <3>1
            <4> QED
                BY <4>1 DEF MultOp
        <3>2. CASE k = h + 1
            BY <2>1, <2>2, <3>2 DEF Op
        <3> QED
            BY <2>2, <3>1, <3>2
    <2> QED
        BY <2>1, <2>2, <2>3 DEF out
<1>4. CASE ~IsClearLoop(lk, i) /\ ~IsMultLoop(lk, i) /\ IsScanLoop(lk, i)
    <2>1. "scan" \in OpNames \ {"open", "close"} /\ out = One("scan", lk[i + 1].arg)
        BY <1>4 DEF OpNames, Replacement
    <2>2. i + 1 \in 1 .. Len(lk)
        OBVIOUS
    <2>3. lk[i + 1].arg \in Int
        <3>1. lk[i + 1] \in Instrs
            BY <2>2
        <3> QED
            BY <3>1, InstrFields
    <2> HIDE DEF out, One
    <2> QED
        BY <1>1, <2>1, <2>3 DEF out
<1>5. CASE ~IsClearLoop(lk, i) /\ ~IsMultLoop(lk, i) /\ ~IsScanLoop(lk, i)
    <2>1. "walk" \in OpNames \ {"open", "close"} /\ out = One("walk", lk[i + 2].arg)
        BY <1>5 DEF OpNames, Replacement
    <2>2. lk[i].arg = i + 9
        BY <1>5 DEF Replaced, IsWalkLoop
    <2>a. i + 2 \in 1 .. Len(lk)
        BY <2>2
    <2>3. lk[i + 2].arg \in Int
        <3>1. lk[i + 2] \in Instrs
            BY <2>a
        <3> QED
            BY <3>1, InstrFields
    <2> HIDE DEF out, One
    <2> QED
        BY <1>1, <2>1, <2>3 DEF out
<1> QED
    BY <1>2, <1>3, <1>4, <1>5

\* A program in which every bracket knows its partner.
Linked(lk) ==
    /\ lk \in Seq(Instrs)
    /\ \A i \in Brackets(lk, "open") : Closes(lk, i, lk[i].arg)
    /\ \A j \in Brackets(lk, "close") : Closes(lk, lk[j].arg, j)

\* The instruction at i, with whatever argument if it is a bracket.
Same(ins, lk, i) ==
    Alike(ins, lk[i]) /\ (lk[i].op \notin {"open", "close"} => ins = lk[i])

\* The k-th instruction is what the peephole puts out, at its off[k]-th place, for the
\* instruction at start[k].
Placed(head, lk, start, off) ==
    /\ off \in [1 .. (Len(head) + 1) -> Nat] /\ off[1] = 1 /\ off[Len(head) + 1] = 1
    /\ \A k \in 1 .. Len(head) :
        /\ start[k] \in 1 .. Len(lk)
        /\ IF Replaced(lk, start[k])
           THEN /\ off[k] \in 1 .. Len(Replacement(lk, start[k]))
                /\ head[k] = Replacement(lk, start[k])[off[k]]
                /\ IF off[k] < Len(Replacement(lk, start[k]))
                   THEN start[k + 1] = start[k] /\ off[k + 1] = off[k] + 1
                   ELSE start[k + 1] = lk[start[k]].arg + 1 /\ off[k + 1] = 1
           ELSE /\ Same(head[k], lk, start[k])
                /\ off[k] = 1 /\ start[k + 1] = start[k] + 1 /\ off[k + 1] = 1

\* What is put out for an instruction is well-formed.
LEMMA PeepholePiece ==
    ASSUME NEW lk, Linked(lk), NEW n \in Nat, n = Len(lk), NEW i \in 1 .. n
    PROVE  /\ Piece(n, i, PeepholeAt(lk, i))
           /\ lk[i].op = "open" => lk[i].arg \in (i + 1) .. n
<1>1. lk \in Seq(Instrs) /\ lk[i] \in Instrs /\ i \in 1 .. Len(lk) /\ DOMAIN lk = 1 .. n
    BY DEF Linked
<1>2. ASSUME lk[i].op = "open" PROVE lk[i].arg \in (i + 1) .. n
    <2>1. i \in Brackets(lk, "open")
        BY <1>1, <1>2 DEF Brackets
    <2>2. Closes(lk, i, lk[i].arg)
        BY <2>1 DEF Linked
    <2>3. lk[i].arg \in 1 .. n /\ i < lk[i].arg
        BY <1>1, <2>2 DEF Closes, Brackets
    <2> QED
        BY <2>3
<1> DEFINE t == PeepholeAt(lk, i)
<1>3. CASE Replaced(lk, i)
    <2>1. lk[i].arg \in (i + 1) .. n
        BY <1>2, <1>3 DEF Replaced
    <2> DEFINE o == Replacement(lk, i)
               w == lk[i].arg - i + 1
    <2>2. o \in Seq(Instrs) /\ Len(o) >= 1
        BY <1>1, <1>3, <2>1, ReplacementIs
    <2>3. t = [out |-> o, length |-> w]
        BY <1>3, PeepholeAtIs
    <2>4. w \in Nat /\ w >= 1 /\ i + w <= n + 1
        <3>1. \A x \in (i + 1) .. n : x - i + 1 \in Nat /\ x - i + 1 >= 1 /\ i + (x - i + 1) <= n + 1
            BY ONLY i \in 1 .. n, n \in Nat
        <3> QED
            BY ONLY <2>1, <3>1
    <2> HIDE DEF o, w, t
    <2>5. t.out = o /\ t.length = w
        BY <2>3
    <2>6. Piece(n, i, t)
        BY <2>2, <2>3, <2>4, <2>5 DEF Piece
    <2> QED
        BY <1>2, <2>6 DEF t
<1>4. CASE ~Replaced(lk, i)
    <2> DEFINE e == lk[i]
    <2>1. t = [out |-> <<e>>, length |-> 1]
        BY <1>4, PeepholeAtIs
    <2>2. e \in Instrs
        BY <1>1
    <2> HIDE DEF e, t
    <2>3. t.out = <<e>> /\ t.length = 1
        BY <2>1
    <2>4. <<e>> \in Seq(Instrs) /\ Len(<<e>>) = 1
        BY <2>2
    <2>5. Piece(n, i, t)
        BY <2>1, <2>3, <2>4 DEF Piece
    <2> QED
        BY <1>2, <2>5 DEF t
<1> QED
    BY <1>3, <1>4

\* An instruction that is no bracket stands for a piece that closes what it opens.
LEMMA StandsForUpTo ==
    ASSUME NEW ins, NEW fine, NEW a, NEW z \in Int, NEW b, b = z + 1, ins.op \notin {"open", "close"},
           Depth(fine, z) = Depth(fine, a - 1), \A p \in a .. z : Depth(fine, p) >= Depth(fine, a - 1)
    PROVE  StandsFor(ins, fine, a, b)
<1>1. b - 1 = z
    OBVIOUS
<1> QED
    BY ONLY <1>1, ins.op \notin {"open", "close"}, Depth(fine, z) = Depth(fine, a - 1),
            \A p \in a .. z : Depth(fine, p) >= Depth(fine, a - 1), Zenon DEF StandsFor

\* A loop that is replaced closes what it opens.
LEMMA LoopStandsFor ==
    ASSUME NEW lk, Linked(lk), NEW n \in Nat, n = Len(lk), NEW i \in 1 .. n, Replaced(lk, i),
           NEW ins, ins.op \notin {"open", "close"}
    PROVE  StandsFor(ins, lk, i, i) /\ StandsFor(ins, lk, i, lk[i].arg + 1)
<1>1. DOMAIN lk = 1 .. n /\ lk \in Seq(Instrs)
    BY DEF Linked
<1>2. /\ \A p \in 0 .. n : Depth(lk, p) \in Int
      /\ \A p \in 1 .. n : Depth(lk, p) = Depth(lk, p - 1) + Turn(lk[p])
    BY <1>1, DepthStep
<1>3. i \in Brackets(lk, "open")
    BY <1>1 DEF Brackets, Replaced
<1> DEFINE z == lk[i].arg
<1>4. Closes(lk, i, z)
    BY <1>3 DEF Linked
<1>5. /\ z \in 1 .. n /\ i < z /\ Depth(lk, z) = Depth(lk, i) - 1
      /\ \A k \in i .. (z - 1) : Depth(lk, k) >= Depth(lk, i)
    BY <1>1, <1>4 DEF Closes, Brackets
<1> HIDE DEF z
<1>6. Turn(lk[i]) = 1
    BY DEF Turn, Replaced
<1>7. i \in 0 .. n /\ i - 1 \in 0 .. n /\ z \in 0 .. n /\ z + 1 - 1 = z /\ \A p \in i .. (i - 1) : FALSE
    BY <1>5
<1>8. Depth(lk, i) = Depth(lk, i - 1) + 1 /\ Depth(lk, i - 1) \in Int /\ Depth(lk, i) \in Int
    BY <1>2, <1>6, <1>7
<1>9. Depth(lk, z) = Depth(lk, i - 1)
    BY <1>5, <1>7, <1>8
<1>10. ASSUME NEW p \in i .. z PROVE Depth(lk, p) >= Depth(lk, i - 1)
    <2>1. CASE p = z
        BY <1>7, <1>8, <1>9, <2>1
    <2>2. CASE p # z
        <3>1. p \in i .. (z - 1) /\ p \in 0 .. n
            BY <1>5, <2>2
        <3>2. Depth(lk, p) >= Depth(lk, i) /\ Depth(lk, p) \in Int
            BY <1>2, <1>5, <3>1
        <3> QED
            BY <1>8, <3>2
    <2> QED
        BY <2>1, <2>2
<1>11. StandsFor(ins, lk, i, i)
    BY <1>7 DEF StandsFor
<1>12. StandsFor(ins, lk, i, z + 1)
    <2>1. z \in Int
        BY <1>5
    <2> QED
        BY <2>1, <1>9, <1>10, StandsForUpTo
<1> QED
    BY <1>11, <1>12 DEF z

\* The peephole's program stands for the one it reads.
LEMMA PeepholeTiles ==
    ASSUME NEW lk, Linked(lk)
    PROVE  /\ Peephole(lk) \in Seq(Instrs)
           /\ \E start, off : Tiles(Peephole(lk), lk, start) /\ Placed(Peephole(lk), lk, start, off)
<1> DEFINE n == Len(lk)
           take == [i \in DOMAIN lk |-> PeepholeAt(lk, i)]
           head == Peephole(lk)
           m == Len(head)
<1>1. n \in Nat /\ n = Len(lk) /\ DOMAIN lk = 1 .. n /\ lk \in Seq(Instrs)
    BY DEF Linked
<1>2. head = Rewrite(take) /\ DOMAIN take = 1 .. n /\ \A i \in 1 .. n : take[i] = PeepholeAt(lk, i)
    BY <1>1 DEF Peephole
<1>a. Len(take) = n
    <2>1. take \in [1 .. n -> {PeepholeAt(lk, i) : i \in 1 .. n}]
        BY <1>1
    <2> HIDE DEF take, n
    <2> QED
        BY <1>1, <2>1
<1> HIDE DEF n, take, head
<1>3. ASSUME NEW i \in 1 .. n PROVE Piece(n, i, take[i])
    BY <1>1, <1>2, PeepholePiece
<1>4. head \in Seq(Instrs) /\ \E from, off : Laid(head, take, from, off, n + 1)
    BY ONLY <1>1, <1>2, <1>3, <1>a, RewriteLaid
<1>5. m \in Nat /\ m = Len(head) /\ DOMAIN head = 1 .. m
    BY <1>4
<1> HIDE DEF m
<1>6. PICK from, off : Laid(head, take, from, off, n + 1)
    BY <1>4
<1>7. /\ from \in [1 .. (m + 1) -> Nat] /\ off \in [1 .. (m + 1) -> Nat]
      /\ from[1] = 1 /\ off[1] = 1 /\ from[m + 1] = n + 1 /\ off[m + 1] = 1
    BY <1>5, <1>6 DEF Laid
<1>8. ASSUME NEW k \in 1 .. m
      PROVE  /\ from[k] \in 1 .. n /\ off[k] \in 1 .. Len(take[from[k]].out)
             /\ head[k] = take[from[k]].out[off[k]]
             /\ IF off[k] < Len(take[from[k]].out)
                THEN from[k + 1] = from[k] /\ off[k + 1] = off[k] + 1
                ELSE from[k + 1] = from[k] + take[from[k]].length /\ off[k + 1] = 1
    BY <1>2, <1>5, <1>6 DEF Laid
<1>9. ASSUME NEW k \in 1 .. m
      PROVE  /\ IF Replaced(lk, from[k])
                THEN /\ off[k] \in 1 .. Len(Replacement(lk, from[k]))
                     /\ head[k] = Replacement(lk, from[k])[off[k]]
                     /\ IF off[k] < Len(Replacement(lk, from[k]))
                        THEN from[k + 1] = from[k] /\ off[k + 1] = off[k] + 1
                        ELSE from[k + 1] = lk[from[k]].arg + 1 /\ off[k + 1] = 1
                ELSE /\ Same(head[k], lk, from[k])
                     /\ off[k] = 1 /\ from[k + 1] = from[k] + 1 /\ off[k + 1] = 1
             /\ from[k] <= from[k + 1] /\ StandsFor(head[k], lk, from[k], from[k + 1])
    <2> DEFINE i == from[k]
               t == take[i]
    <2>1. i \in 1 .. n /\ i \in Int
        BY <1>8
    <2>2. t = PeepholeAt(lk, i)
        BY <1>2, <2>1
    <2>3. /\ off[k] \in 1 .. Len(t.out) /\ head[k] = t.out[off[k]]
          /\ IF off[k] < Len(t.out)
             THEN from[k + 1] = i /\ off[k + 1] = off[k] + 1
             ELSE from[k + 1] = i + t.length /\ off[k + 1] = 1
        BY <1>8
    <2> HIDE DEF i, t
    <2>4. CASE Replaced(lk, i)
        <3> DEFINE o == Replacement(lk, i)
                   w == lk[i].arg - i + 1
        <3>1. lk[i].arg \in (i + 1) .. n
            BY <1>1, <2>1, <2>4, PeepholePiece DEF Replaced
        <3>2. i + w = lk[i].arg + 1 /\ i <= lk[i].arg + 1
            BY <2>1, <3>1
        <3>3. t = [out |-> o, length |-> w]
            BY <2>2, <2>4, PeepholeAtIs
        <3>4. /\ o \in Seq(Instrs) /\ \A j \in 1 .. Len(o) : o[j].op \notin {"open", "close"}
            BY <1>1, <2>1, <2>4, <3>1, ReplacementIs
        <3> HIDE DEF o, w
        <3>5. t.out = o /\ t.length = w
            BY <3>3
        <3>6. /\ off[k] \in 1 .. Len(o) /\ head[k] = o[off[k]]
              /\ IF off[k] < Len(o)
                 THEN from[k + 1] = i /\ off[k + 1] = off[k] + 1
                 ELSE from[k + 1] = lk[i].arg + 1 /\ off[k + 1] = 1
            BY <2>3, <3>2, <3>5
        <3>7. head[k].op \notin {"open", "close"}
            BY <3>4, <3>6
        <3>8. StandsFor(head[k], lk, i, i) /\ StandsFor(head[k], lk, i, lk[i].arg + 1)
            BY <1>1, <2>1, <2>4, <3>7, LoopStandsFor
        <3>9. i <= from[k + 1] /\ StandsFor(head[k], lk, i, from[k + 1])
            BY <2>1, <3>2, <3>6, <3>8
        <3> QED
            BY <2>4, <3>6, <3>9 DEF i, o
    <2>5. CASE ~Replaced(lk, i)
        <3> DEFINE e == lk[i]
        <3>1. t = [out |-> <<e>>, length |-> 1]
            BY <2>2, <2>5, PeepholeAtIs
        <3>2. e \in Instrs
            BY <1>1, <2>1
        <3> HIDE DEF e
        <3>3. t.out = <<e>> /\ t.length = 1 /\ Len(<<e>>) = 1 /\ <<e>>[1] = e
            BY <3>1, <3>2
        <3>4. off[k] = 1 /\ head[k] = e /\ from[k + 1] = i + 1 /\ off[k + 1] = 1
            BY <2>3, <3>3
        <3>5. Same(head[k], lk, i)
            BY <3>4 DEF Same, Alike, e
        <3>6. StandsFor(head[k], lk, i, i + 1)
            <4>1. CASE e.op \in {"open", "close"}
                BY <3>4, <4>1 DEF StandsFor, e
            <4>2. CASE e.op \notin {"open", "close"}
                <5>1. Turn(lk[i]) = 0
                    BY <4>2 DEF Turn, e
                <5>2. Depth(lk, i) = Depth(lk, i - 1) + Turn(lk[i]) /\ Depth(lk, i - 1) \in Int
                    <6>1. i - 1 \in 0 .. n
                        BY <1>1, <2>1
                    <6> QED
                        BY <1>1, <2>1, <6>1, DepthStep
                <5>3. \A p \in i .. i : p = i
                    BY <2>1
                <5>4. Depth(lk, i) = Depth(lk, i - 1)
                    BY <5>1, <5>2
                <5>5. \A p \in i .. i : Depth(lk, p) >= Depth(lk, i - 1)
                    BY <5>1, <5>2, <5>3
                <5> QED
                    BY <2>1, <3>4, <4>2, <5>4, <5>5, StandsForUpTo
            <4> QED
                BY <4>1, <4>2
        <3> QED
            BY <2>1, <2>5, <3>4, <3>5, <3>6 DEF i
    <2> QED
        BY <2>4, <2>5
<1>10. from \in [1 .. (m + 1) -> 1 .. (n + 1)]
    <2>1. ASSUME NEW k \in 1 .. (m + 1) PROVE from[k] \in 1 .. (n + 1)
        <3>1. CASE k = m + 1
            BY <1>1, <1>7, <3>1
        <3>2. CASE k # m + 1
            <4>1. k \in 1 .. m
                BY <1>5, <3>2
            <4>2. from[k] \in 1 .. n
                BY <1>8, <4>1
            <4> QED
                BY <1>1, <4>2
        <3> QED
            BY <3>1, <3>2
    <2> QED
        BY <1>7, <2>1
<1>11. Tiles(head, lk, from)
    BY <1>1, <1>5, <1>7, <1>9, <1>10 DEF Tiles
<1>12. Placed(head, lk, from, off)
    BY <1>1, <1>5, <1>7, <1>8, <1>9 DEF Placed
<1> QED
    BY <1>4, <1>11, <1>12 DEF head

-----------------------------------------------------------------------------
(* The compiled program.                                                     *)

\* The program `head' that is run stands, instruction by instruction, for the linked
\* instructions `lk', and those for the characters of s.
Layout(s, lk, from, head, start, off) ==
    /\ Linked(lk) /\ Tiles(lk, s, from)
    /\ \A i \in 1 .. Len(lk) : lk[i].at = from[i] /\ Written(lk[i], s, from[i], from[i + 1])
    /\ Linked(head) /\ Tiles(head, lk, start) /\ Placed(head, lk, start, off)
    /\ \A k \in 1 .. Len(head) : head[k].at = from[start[k]]

\* Linking a program that pairs up gives each bracket its partner, and changes nothing else.
LEMMA LinkedIs ==
    ASSUME NEW n \in Nat, NEW ops \in [1 .. n -> Instrs], n = Len(ops), Balanced(ops)
    PROVE  /\ Linked(Link(ops).ops) /\ Len(Link(ops).ops) = n
           /\ \A k \in 1 .. n : Same(Link(ops).ops[k], ops, k)
<1> DEFINE lk == Link(ops).ops
<1>1. lk \in [1 .. n -> Instrs] /\ PairsUp(ops, lk)
    BY LinkPairs
<1> HIDE DEF lk
<1>2. lk \in Seq(Instrs) /\ Len(lk) = n /\ DOMAIN lk = 1 .. n /\ DOMAIN ops = 1 .. n
    BY <1>1
<1>3. \A k \in 1 .. n : Same(lk[k], ops, k)
    BY <1>1, <1>2 DEF PairsUp, Same
<1>4. \A k \in 1 .. n : lk[k].op = ops[k].op
    BY <1>3 DEF Same, Alike
<1>5. /\ \A op : Brackets(lk, op) = Brackets(ops, op)
      /\ \A i, j : Closes(lk, i, j) <=> Closes(ops, i, j)
    BY <1>2, <1>4, AlikeDepth
<1>6. Linked(lk)
    BY <1>1, <1>2, <1>5 DEF PairsUp, Linked
<1> QED
    BY <1>2, <1>3, <1>6 DEF lk

\* What stands for a program still does when it is linked.
LEMMA TilesAlike ==
    ASSUME NEW coarse, NEW fine, NEW start, NEW other, NEW n \in Nat, n = Len(coarse), n = Len(other),
           \A k \in 1 .. n : other[k].op = coarse[k].op, Tiles(coarse, fine, start)
    PROVE  Tiles(other, fine, start)
<1>1. ASSUME NEW k \in 1 .. n, NEW a, NEW b, StandsFor(coarse[k], fine, a, b)
      PROVE  StandsFor(other[k], fine, a, b)
    BY <1>1 DEF StandsFor
<1> QED
    BY <1>1 DEF Tiles

\* compileBF accepts the programs whose brackets pair up, and lays them out.
LEMMA CompileLayout ==
    ASSUME NEW s \in Seq(Characters)
    PROVE  /\ CompileBF(s).ok \in BOOLEAN /\ CompileBF(s).ops \in Seq(Instrs)
           /\ CompileBF(s).ok <=> Balanced(s)
           /\ Balanced(s) => \E lk, from, start, off : Layout(s, lk, from, CompileBF(s).ops, start, off)
<1> DEFINE ops == Parse(s)
           m == Len(ops)
           lk == Link(ops).ops
           head == Peephole(lk)
           n == Len(head)
           last == Link(head).ops
<1>1. ops \in Seq(Instrs) /\ m \in Nat /\ m = Len(ops) /\ ops \in [1 .. m -> Instrs]
    BY ParseTiles
<1>2. PICK from :
        /\ Tiles(ops, s, from)
        /\ \A k \in 1 .. Len(ops) : ops[k].at = from[k] /\ Written(ops[k], s, from[k], from[k + 1])
    BY ParseTiles
<1>a. /\ CompileBF(s) = IF Link(ops).ok THEN Link(head) ELSE [ok |-> FALSE, ops |-> <<>>]
    BY DEF CompileBF
<1> HIDE DEF ops, m
<1>b. DOMAIN ops = 1 .. m /\ Len(s) \in Nat /\ DOMAIN s = 1 .. Len(s)
    BY <1>1
<1>3. Link(ops).ok <=> Balanced(ops)
    BY <1>1, LinkPairs
<1>4. Balanced(ops) <=> Balanced(s)
    BY <1>1, <1>2, <1>b, TilesPairUp
<1>5. CASE ~Balanced(s)
    <2>1. CompileBF(s) = [ok |-> FALSE, ops |-> <<>>]
        BY <1>3, <1>4, <1>5, <1>a
    <2>2. CompileBF(s).ok = FALSE /\ CompileBF(s).ops = <<>>
        BY <2>1
    <2>a. <<>> \in Seq(Instrs) /\ FALSE \in BOOLEAN
        OBVIOUS
    <2>3. CompileBF(s).ok \in BOOLEAN /\ CompileBF(s).ops \in Seq(Instrs)
        BY <2>2, <2>a, Zenon
    <2> QED
        BY <1>5, <2>2, <2>3, Zenon
<1>6. CASE Balanced(s)
    <2>1. Linked(lk) /\ Len(lk) = m /\ \A k \in 1 .. m : Same(lk[k], ops, k)
        BY <1>1, <1>3, <1>4, <1>6, LinkedIs
    <2> HIDE DEF lk
    <2>2. lk \in Seq(Instrs) /\ DOMAIN lk = 1 .. m
        BY <2>1 DEF Linked
    <2>3. \A k \in 1 .. m : lk[k].op = ops[k].op /\ lk[k].at = ops[k].at
        BY <2>1 DEF Same, Alike
    <2>4. Tiles(lk, s, from)
        BY <1>1, <1>2, <2>1, <2>3, TilesAlike
    <2>5. ASSUME NEW k \in 1 .. m
          PROVE  lk[k].at = from[k] /\ Written(lk[k], s, from[k], from[k + 1])
        <3>1. ops[k].at = from[k] /\ Written(ops[k], s, from[k], from[k + 1])
            BY <1>1, <1>2
        <3>2. CASE ops[k].op \in {"open", "close"}
            <4>1. lk[k].op = ops[k].op
                BY <2>3
            <4> QED
                BY <2>3, <3>1, <3>2, <4>1 DEF Written
        <3>3. CASE ops[k].op \notin {"open", "close"}
            <4>1. lk[k] = ops[k]
                BY <2>1, <3>3 DEF Same
            <4> QED
                BY <3>1, <4>1
        <3> QED
            BY <3>2, <3>3
    <2>6. Balanced(lk)
        BY <1>1, <1>4, <1>6, <1>b, <2>1, <2>2, <2>3, AlikeDepth
    <2>7. head \in Seq(Instrs) /\ n \in Nat /\ n = Len(head) /\ head \in [1 .. n -> Instrs] /\ DOMAIN head = 1 .. n
        BY <2>1, PeepholeTiles
    <2>8. PICK start, off : Tiles(head, lk, start) /\ Placed(head, lk, start, off)
        BY <2>1, PeepholeTiles
    <2> HIDE DEF head, n
    <2>9. Balanced(head)
        BY <1>1, <2>1, <2>2, <2>6, <2>7, <2>8, TilesPairUp
    <2>10. Link(head).ok /\ Linked(last) /\ Len(last) = n /\ \A k \in 1 .. n : Same(last[k], head, k)
        BY <2>7, <2>9, LinkedIs, LinkPairs
    <2>11. CompileBF(s).ok = TRUE /\ CompileBF(s).ops = last
        <3>1. CompileBF(s) = Link(head)
            BY <1>3, <1>4, <1>6, <1>a
        <3>2. Link(head).ok \in BOOLEAN
            BY <2>7, LinkPairs
        <3> QED
            BY <2>10, <3>1, <3>2
    <2> HIDE DEF last
    <2>12. last \in Seq(Instrs)
        BY <2>10 DEF Linked
    <2>13. Tiles(last, lk, start)
        <3>1. \A k \in 1 .. n : last[k].op = head[k].op
            BY <2>10 DEF Same, Alike
        <3> QED
            BY <2>7, <2>8, <2>10, <3>1, TilesAlike
    <2>14. ASSUME NEW k \in 1 .. n
           PROVE  /\ start[k] \in 1 .. Len(lk) /\ last[k].at = lk[start[k]].at
                  /\ IF Replaced(lk, start[k])
                     THEN /\ off[k] \in 1 .. Len(Replacement(lk, start[k]))
                          /\ last[k] = Replacement(lk, start[k])[off[k]]
                          /\ IF off[k] < Len(Replacement(lk, start[k]))
                             THEN start[k + 1] = start[k] /\ off[k + 1] = off[k] + 1
                             ELSE start[k + 1] = lk[start[k]].arg + 1 /\ off[k + 1] = 1
                     ELSE /\ Same(last[k], lk, start[k])
                          /\ off[k] = 1 /\ start[k + 1] = start[k] + 1 /\ off[k + 1] = 1
        <3> DEFINE i == start[k]
        <3>1. /\ i \in 1 .. Len(lk)
              /\ IF Replaced(lk, i)
                 THEN /\ off[k] \in 1 .. Len(Replacement(lk, i))
                      /\ head[k] = Replacement(lk, i)[off[k]]
                      /\ IF off[k] < Len(Replacement(lk, i))
                         THEN start[k + 1] = i /\ off[k + 1] = off[k] + 1
                         ELSE start[k + 1] = lk[i].arg + 1 /\ off[k + 1] = 1
                 ELSE /\ Same(head[k], lk, i)
                      /\ off[k] = 1 /\ start[k + 1] = i + 1 /\ off[k + 1] = 1
            BY <2>7, <2>8 DEF Placed
        <3>2. Same(last[k], head, k)
            BY <2>10
        <3> HIDE DEF i
        <3>3. CASE Replaced(lk, i)
            <4>1. lk[i].arg \in (i + 1) .. m
                BY <1>1, <2>1, <3>1, <3>3, PeepholePiece DEF Replaced
            <4>2. \A j \in 1 .. Len(Replacement(lk, i)) :
                    Replacement(lk, i)[j].op \notin {"open", "close"} /\ Replacement(lk, i)[j].at = lk[i].at
                BY <2>1, <2>2, <3>1, <3>3, <4>1, ReplacementIs
            <4>3. head[k].op \notin {"open", "close"} /\ head[k].at = lk[i].at
                BY <3>1, <3>3, <4>2
            <4>4. last[k] = head[k]
                BY <3>2, <4>3 DEF Same
            <4> QED
                BY <3>1, <3>3, <4>3, <4>4 DEF i
        <3>4. CASE ~Replaced(lk, i)
            <4>1. Same(head[k], lk, i)
                BY <3>1, <3>4
            <4>2. Same(last[k], lk, i) /\ last[k].at = lk[i].at
                BY <3>2, <4>1 DEF Same, Alike
            <4> QED
                BY <3>1, <3>4, <4>2 DEF i
        <3> QED
            BY <3>3, <3>4
    <2>15. Placed(last, lk, start, off)
        <3>1. off \in [1 .. (Len(last) + 1) -> Nat] /\ off[1] = 1 /\ off[Len(last) + 1] = 1
            BY <2>7, <2>8, <2>10 DEF Placed
        <3> QED
            BY <2>10, <2>14, <3>1 DEF Placed
    <2>16. \A k \in 1 .. Len(last) : last[k].at = from[start[k]]
        BY <1>1, <2>1, <2>5, <2>10, <2>14
    <2>17. Layout(s, lk, from, last, start, off)
        BY <2>1, <2>4, <2>5, <2>10, <2>13, <2>15, <2>16 DEF Layout
    <2> QED
        BY <1>6, <2>11, <2>12, <2>17
<1> QED
    BY <1>5, <1>6

\* compileBF rejects a program exactly when its brackets do not pair up, whatever it
\* replaced by then: of every program the interpreter may be started with.
THEOREM RejectsUnbalancedAlways == Spec => []RejectsUnbalanced
<1> DEFINE Inv == compiled.ok <=> Balanced(source)
<1>1. Init => Inv
    <2> SUFFICES ASSUME Init PROVE Inv
        OBVIOUS
    <2>1. PICK c \in Cases : source = c.source /\ compiled = CompileBF(c.source)
        BY DEF Init
    <2>2. c.source \in Seq(Characters)
        BY CasesAssumption
    <2> QED
        BY <2>1, <2>2, CompileLayout
<1>2. Inv /\ [Next]_vars => Inv'
    BY DEF Next, Interpret, Follow, vars
<1>3. Inv => RejectsUnbalanced
    BY DEF RejectsUnbalanced
<1> QED
    BY <1>1, <1>2, <1>3, PTL DEF Spec

=============================================================================
