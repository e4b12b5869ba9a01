------------------------- MODULE IROptimizerProofs -------------------------
(***************************************************************************)
(* The IR optimizer keeps the program's values, for every set of cells,    *)
(* byte width, set of binary functions and nesting of bodies.              *)
(*                                                                         *)
(* One assumption, named in the theorems: no store through an index or a   *)
(* pointer hits a cell with a recorded constant.  The code breaks the      *)
(* properties without it: the run IROptimizerStoredKnown shows how.        *)
(***************************************************************************)
EXTENDS IROptimizer, SequenceTheorems, TLAPS

-----------------------------------------------------------------------------
(* The inductive invariant.                                                *)

\* The cells the k innermost bodies aside, the others let a node write.
Within(bs, k) ==
    {c \in Cells : \A j \in DOMAIN bs : j > k /\ bs[j].kind \in Repeats => c \in bs[j].phase}

\* What the walk has marked once it leaves body k covers all the run did there.
MarkedAt(bs, k, t, e) ==
    LET marked == bs[k].before.everWritten \cup bs[k].dsts
    IN  /\ bs[k].phase \subseteq bs[k].dsts
        /\ t \cap Within(bs, k) \subseteq marked
        /\ e \subseteq marked
        /\ \A j \in DOMAIN bs : j < k => /\ bs[j].before.everWritten \subseteq marked
                                         /\ bs[j].dsts \subseteq bs[k].phase

Marks(bs, t, e) ==
    /\ t \cap Within(bs, 0) \subseteq e
    /\ \A k \in DOMAIN bs : bs[k].kind \in Repeats => MarkedAt(bs, k, t, e)

\* Only a loop and a dispatch are marked; a condition in a phase temp was written
\* before it could be other than 0.
BodyOK(b, t) ==
    /\ b.kind \notin Repeats => b.dsts = {}
    /\ b.kind = "then" /\ b.cond \in Temps => b.cond \in t

ValuesOK == SameValues /\ KnownIsTrue /\ \A c \in Cells \ touched : out[c] = 0

WalkOK ==
    /\ Marks(bodies, touched, opt.everWritten)
    /\ \A k \in DOMAIN bodies : BodyOK(bodies[k], touched)

IInv == TypeOK /\ ValuesOK /\ WalkOK

-----------------------------------------------------------------------------
(* Bodies as sequences.                                                    *)

\* A sequence with one more element in front.
LEMMA Pushed ==
    ASSUME NEW S, NEW s \in Seq(S), NEW b \in S
    PROVE  LET p == <<b>> \o s
           IN  /\ p \in Seq(S) /\ Len(p) = Len(s) + 1
               /\ DOMAIN p = 1 .. (Len(s) + 1) /\ DOMAIN s = 1 .. Len(s)
               /\ Len(s) \in Nat
               /\ p[1] = b /\ \A k \in 1 .. Len(s) : p[k + 1] = s[k]
OBVIOUS

\* A sequence without its first element.
LEMMA Popped ==
    ASSUME NEW S, NEW s \in Seq(S), s # <<>>
    PROVE  /\ Tail(s) \in Seq(S) /\ Head(s) \in S /\ Head(s) = s[1]
           /\ Len(s) \in Nat /\ Len(s) >= 1 /\ Len(Tail(s)) = Len(s) - 1
           /\ DOMAIN s = 1 .. Len(s) /\ DOMAIN Tail(s) = 1 .. (Len(s) - 1)
           /\ \A k \in 1 .. (Len(s) - 1) : Tail(s)[k] = s[k + 1]
OBVIOUS

\* A node may write what every open body says it writes.
LEMMA MayWriteIsWithin ==
    ASSUME TypeOK
    PROVE  /\ \A c \in Cells : MayWrite(c) <=> c \in Within(bodies, 0)
           /\ Writables = SUBSET Within(bodies, 0)
<1>1. \A k \in DOMAIN bodies : k > 0
    BY DEF TypeOK
<1>2. \A c \in Cells : MayWrite(c) <=> c \in Within(bodies, 0)
    BY <1>1 DEF MayWrite, Within
<1>3. \A D \in SUBSET Cells : (\A d \in D : MayWrite(d)) <=> D \subseteq Within(bodies, 0)
    BY <1>2
<1>4. Within(bodies, 0) \subseteq Cells
    BY DEF Within
<1> QED
    BY <1>2, <1>3, <1>4 DEF Writables

-----------------------------------------------------------------------------
(* The marks.                                                              *)

\* Leaving the innermost body.
LEMMA WithinTail ==
    ASSUME NEW bs \in Seq(Bodies), bs # <<>>, NEW k \in 0 .. (Len(bs) - 1)
    PROVE  Within(bs, k + 1) = Within(Tail(bs), k)
<1>1. /\ DOMAIN bs = 1 .. Len(bs) /\ DOMAIN Tail(bs) = 1 .. (Len(bs) - 1) /\ Len(bs) \in Nat
      /\ \A j \in 1 .. (Len(bs) - 1) : Tail(bs)[j] = bs[j + 1]
    BY Popped
<1>2. SUFFICES ASSUME NEW c \in Cells
               PROVE  c \in Within(bs, k + 1) <=> c \in Within(Tail(bs), k)
    BY DEF Within
<1>3. ASSUME c \in Within(bs, k + 1), NEW j \in DOMAIN Tail(bs), j > k, Tail(bs)[j].kind \in Repeats
      PROVE  c \in Tail(bs)[j].phase
    <2>1. j + 1 \in DOMAIN bs /\ j + 1 > k + 1 /\ bs[j + 1] = Tail(bs)[j]
        BY <1>1, <1>3
    <2> QED
        BY <2>1, <1>3 DEF Within
<1>4. ASSUME c \in Within(Tail(bs), k), NEW j \in DOMAIN bs, j > k + 1, bs[j].kind \in Repeats
      PROVE  c \in bs[j].phase
    <2>1. j - 1 \in DOMAIN Tail(bs) /\ j - 1 > k /\ bs[j] = Tail(bs)[j - 1]
        BY <1>1, <1>4
    <2> QED
        BY <2>1, <1>4 DEF Within
<1> QED
    BY <1>3, <1>4 DEF Within

\* Nodes and walked code that keep to what the bodies write.
LEMMA MarksGrow ==
    ASSUME NEW bs \in Seq(Bodies), NEW t, NEW e, Marks(bs, t, e),
           NEW D \in SUBSET Within(bs, 0), NEW t2, NEW e2,
           e \subseteq e2, e2 \subseteq e \cup D, t2 \subseteq t \cup e2
    PROVE  Marks(bs, t2, e2)
<1>1. t2 \cap Within(bs, 0) \subseteq e2
    BY DEF Marks
<1>2. ASSUME NEW k \in DOMAIN bs, bs[k].kind \in Repeats
      PROVE  MarkedAt(bs, k, t2, e2)
    <2> DEFINE marked == bs[k].before.everWritten \cup bs[k].dsts
    <2>1. MarkedAt(bs, k, t, e)
        BY <1>2 DEF Marks
    <2>2. D \subseteq marked
        BY <1>2, <2>1 DEF Within, MarkedAt
    <2>3. e2 \subseteq marked
        BY <2>1, <2>2 DEF MarkedAt
    <2>4. t2 \cap Within(bs, k) \subseteq marked
        BY <2>1, <2>3 DEF MarkedAt
    <2> QED
        BY <2>1, <2>3, <2>4 DEF MarkedAt
<1> QED
    BY <1>1, <1>2 DEF Marks

\* A body begins, or goes on with another phase.
LEMMA MarksPush ==
    ASSUME NEW bs \in Seq(Bodies), NEW t, NEW b \in Bodies, NEW e, NEW all,
           Marks(bs, t, all), b.before.everWritten \cup b.dsts \subseteq all,
           b.dsts \subseteq Within(bs, 0), b.phase \subseteq b.dsts, e \subseteq all,
           IF b.kind \in Repeats
           THEN all = b.before.everWritten \cup b.dsts /\ b.phase \subseteq e
           ELSE e = all
    PROVE  Marks(<<b>> \o bs, t, e)
<1> DEFINE p == <<b>> \o bs
<1>1. /\ DOMAIN p = 1 .. (Len(bs) + 1) /\ DOMAIN bs = 1 .. Len(bs) /\ Len(bs) \in Nat
      /\ p[1] = b /\ \A k \in 1 .. Len(bs) : p[k + 1] = bs[k]
    BY Pushed
<1> HIDE DEF p
<1>2. \A k \in 0 .. Len(bs) : Within(p, k + 1) = Within(bs, k)
    <2>1. p \in Seq(Bodies) /\ p # <<>> /\ Tail(p) = bs /\ Len(p) - 1 = Len(bs)
        BY DEF p
    <2> QED
        BY <1>1, <2>1, WithinTail
<1>3. Within(p, 0) \subseteq Within(p, 1)
    BY <1>1 DEF Within
<1>4. b.kind \in Repeats => Within(p, 0) \subseteq b.phase
    BY <1>1 DEF Within
<1>5. Within(p, 1) = Within(bs, 0)
    BY <1>1, <1>2
<1>6. t \cap Within(p, 0) \subseteq e
    BY <1>3, <1>4, <1>5 DEF Marks
<1>7. b.kind \in Repeats => MarkedAt(p, 1, t, e)
    <2>1. \A j \in DOMAIN p : ~(j < 1)
        BY <1>1
    <2> QED
        BY <1>1, <1>5, <2>1 DEF MarkedAt, Marks
<1>8. ASSUME NEW k \in DOMAIN bs, bs[k].kind \in Repeats
      PROVE  MarkedAt(p, k + 1, t, e)
    <2> DEFINE marked == bs[k].before.everWritten \cup bs[k].dsts
    <2>1. MarkedAt(bs, k, t, all)
        BY <1>8 DEF Marks
    <2>2. p[k + 1] = bs[k] /\ Within(p, k + 1) = Within(bs, k)
        BY <1>1, <1>2
    <2>3. b.before.everWritten \subseteq marked /\ e \subseteq marked
        BY <2>1 DEF MarkedAt
    <2>4. b.dsts \subseteq bs[k].phase
        BY <1>1, <1>8 DEF Within
    <2>5. ASSUME NEW j \in DOMAIN p, j < k + 1
          PROVE  p[j].before.everWritten \subseteq marked /\ p[j].dsts \subseteq bs[k].phase
        <3>1. CASE j = 1
            BY <1>1, <2>3, <2>4, <3>1
        <3>2. CASE j # 1
            <4>1. j - 1 \in DOMAIN bs /\ j - 1 < k /\ p[j] = bs[j - 1]
                BY <1>1, <2>5, <3>2
            <4> QED
                BY <2>1, <4>1 DEF MarkedAt
        <3> QED
            BY <3>1, <3>2
    <2> QED
        BY <2>1, <2>2, <2>3, <2>5 DEF MarkedAt
<1>9. ASSUME NEW k \in DOMAIN p, p[k].kind \in Repeats
      PROVE  MarkedAt(p, k, t, e)
    <2>1. CASE k = 1
        BY <1>1, <1>7, <1>9, <2>1
    <2>2. CASE k # 1
        <3>1. k - 1 \in DOMAIN bs /\ p[k] = bs[k - 1] /\ (k - 1) + 1 = k
            BY <1>1, <2>2
        <3> QED
            BY <1>8, <1>9, <3>1
    <2> QED
        BY <2>1, <2>2
<1> QED
    BY <1>6, <1>9 DEF Marks, p

\* A body ends.
LEMMA MarksPop ==
    ASSUME NEW bs \in Seq(Bodies), bs # <<>>, NEW t, NEW e, Marks(bs, t, e)
    PROVE  LET b == Head(bs)
           IN  /\ b.kind \in Repeats => /\ Marks(Tail(bs), t, b.before.everWritten \cup b.dsts)
                                        /\ b.dsts \subseteq Within(Tail(bs), 0)
                                        /\ b.phase \subseteq b.dsts
               /\ b.kind \notin Repeats => Marks(Tail(bs), t, e)
<1> DEFINE b == Head(bs)
           q == Tail(bs)
           out1 == b.before.everWritten \cup b.dsts
<1>1. /\ DOMAIN bs = 1 .. Len(bs) /\ DOMAIN q = 1 .. (Len(bs) - 1) /\ Len(bs) \in Nat
      /\ Len(bs) >= 1 /\ b = bs[1] /\ b \in Bodies
      /\ \A k \in 1 .. (Len(bs) - 1) : q[k] = bs[k + 1]
    BY Popped
<1>2. \A k \in 0 .. (Len(bs) - 1) : Within(bs, k + 1) = Within(q, k)
    BY WithinTail
<1> HIDE DEF b, q
<1>3. Within(bs, 1) = Within(q, 0)
    BY <1>1, <1>2
<1>4. ASSUME NEW k \in DOMAIN q, q[k].kind \in Repeats
      PROVE  LET marked == q[k].before.everWritten \cup q[k].dsts
             IN  /\ q[k] = bs[k + 1] /\ k + 1 \in DOMAIN bs
                 /\ MarkedAt(q, k, t, e)
                 /\ b.before.everWritten \subseteq marked /\ b.dsts \subseteq q[k].phase
                 /\ q[k].phase \subseteq q[k].dsts
    <2>1. q[k] = bs[k + 1] /\ k + 1 \in DOMAIN bs /\ Within(bs, k + 1) = Within(q, k)
        BY <1>1, <1>2
    <2>2. MarkedAt(bs, k + 1, t, e)
        BY <1>4, <2>1 DEF Marks
    <2>3. 1 \in DOMAIN bs /\ 1 < k + 1
        BY <1>1
    <2>4. \A j \in DOMAIN q : j < k => j + 1 \in DOMAIN bs /\ j + 1 < k + 1 /\ q[j] = bs[j + 1]
        BY <1>1
    <2> QED
        BY <1>1, <2>1, <2>2, <2>3, <2>4 DEF MarkedAt
<1>5. CASE b.kind \in Repeats
    <2>1. MarkedAt(bs, 1, t, e)
        BY <1>1, <1>5 DEF Marks
    <2>2. t \cap Within(q, 0) \subseteq out1
        BY <1>1, <1>3, <2>1 DEF MarkedAt
    <2>3. \A k \in DOMAIN q : q[k].kind \in Repeats => MarkedAt(q, k, t, out1)
        BY <1>4 DEF MarkedAt
    <2>4. b.dsts \subseteq Cells
        BY <1>1 DEF Bodies
    <2>5. b.dsts \subseteq Within(q, 0)
        BY <1>4, <2>4 DEF Within
    <2> QED
        BY <1>1, <1>5, <2>1, <2>2, <2>3, <2>5 DEF Marks, MarkedAt, b, q
<1>6. CASE b.kind \notin Repeats
    <2>1. Within(q, 0) \subseteq Within(bs, 0)
        <3>1. \A j \in DOMAIN bs : bs[j].kind \in Repeats => j > 1
            BY <1>1, <1>6
        <3> QED
            BY <1>3, <3>1 DEF Within
    <2> QED
        BY <1>4, <1>6, <2>1 DEF Marks, b, q
<1> QED
    BY <1>5, <1>6 DEF b

-----------------------------------------------------------------------------
(* Nodes outside bodies' edges.                                            *)

\* A node that writes what the bodies let it write, and marks it.
LEMMA WalkStraight ==
    ASSUME IInv, Straight, NEW D \in SUBSET Cells, \A d \in D : MayWrite(d),
           opt'.everWritten = opt.everWritten \cup D,
           touched \subseteq touched', touched' \subseteq touched \cup opt'.everWritten
    PROVE  WalkOK'
<1>1. bodies' = bodies /\ bodies \in Seq(Bodies)
    BY DEF IInv, TypeOK, Straight
<1>2. D \subseteq Within(bodies, 0)
    BY MayWriteIsWithin DEF IInv
<1>3. Marks(bodies, touched', opt'.everWritten)
    BY <1>1, <1>2, MarksGrow DEF IInv, WalkOK
<1>4. \A k \in DOMAIN bodies : BodyOK(bodies[k], touched')
    BY DEF IInv, WalkOK, BodyOK
<1> QED
    BY <1>1, <1>3, <1>4 DEF WalkOK

\* Byte arithmetic.
LEMMA Arith ==
    ASSUME NEW x \in Byte, NEW y \in Byte
    PROVE  /\ (x + y) % Mod \in Byte /\ (x - y) % Mod \in Byte
           /\ (x + (y - x)) % Mod = y /\ x + -y = x - y
           /\ 0 \in Byte /\ NotOf(x) \in Byte
BY IRAssumption DEF Byte, NotOf

\* A node with one destination.  Only a 0 may be dropped from the run.
LEMMA WriteOK ==
    ASSUME IInv, NEW d \in Cells, MayWrite(d), NEW v \in Byte,
           NEW w \in Byte \cup {Unknown}, w # Unknown => w = v,
           Put(d, v), out' = [out EXCEPT ![d] = v],
           touched' = touched \cup {d} \/ (touched' = touched /\ v = 0),
           opt' = Learn(opt, d, w), Straight
    PROVE  IInv'
<1>1. opt \in Opts /\ opt.known \in [Cells -> Byte \cup {Unknown}]
    BY DEF IInv, TypeOK, Opts
<1>2. /\ opt' \in Opts /\ opt'.everWritten = opt.everWritten \cup {d}
      /\ opt'.known = [opt.known EXCEPT ![d] = w]
    BY <1>1 DEF Learn, Opts
<1>3. /\ mem' = [mem EXCEPT ![d] = v] /\ live' = live \cup {d}
      /\ mem \in [Cells -> Byte] /\ out \in [Cells -> Byte]
    BY DEF Put, IInv, TypeOK, MemTypeOK
<1>4. TypeOK'
    BY <1>2, <1>3 DEF IInv, TypeOK, MemTypeOK, Straight
<1>5. ValuesOK'
    <2>1. SameValues'
        BY <1>3 DEF IInv, ValuesOK, SameValues, TypeOK, MemTypeOK
    <2>2. KnownIsTrue'
        BY <1>1, <1>2, <1>3 DEF IInv, ValuesOK, KnownIsTrue
    <2>3. \A c \in Cells \ touched' : out'[c] = 0
        BY <1>3 DEF IInv, ValuesOK
    <2> QED
        BY <2>1, <2>2, <2>3 DEF ValuesOK
<1>6. WalkOK'
    <2>1. {d} \in SUBSET Cells /\ \A c \in {d} : MayWrite(c)
        OBVIOUS
    <2>2. touched \subseteq touched' /\ touched' \subseteq touched \cup opt'.everWritten
        BY <1>2
    <2> QED
        BY <1>2, <2>1, <2>2, WalkStraight
<1> QED
    BY <1>4, <1>5, <1>6 DEF IInv

\* A fresh cell that may be written here was never touched.
LEMMA ZeroOK ==
    ASSUME IInv, NEW d \in Cells, Zero(d)
    PROVE  IInv'
<1>1. 0 \in Byte /\ MayWrite(d) /\ Put(d, 0) /\ opt' = Learn(opt, d, 0) /\ Straight
    BY IRAssumption DEF Zero, MemConst, Byte
<1>2. CASE ~DropZero(opt, d)
    BY <1>1, <1>2, WriteOK DEF Zero, OutPut
<1>3. CASE DropZero(opt, d)
    <2>1. UNCHANGED runVars
        BY <1>3 DEF Zero
    <2>2. d \notin touched
        BY <1>1, <1>3, MayWriteIsWithin DEF DropZero, IInv, WalkOK, Marks
    <2>3. out' = [out EXCEPT ![d] = 0] /\ touched' = touched
        BY <2>1, <2>2 DEF IInv, ValuesOK, TypeOK, runVars
    <2> QED
        BY <1>1, <2>3, WriteOK
<1> QED
    BY <1>2, <1>3

\* A constant that is known to be there, one that is near, and one that is not.
LEMMA ConstOK ==
    ASSUME IInv, NEW d \in Cells, NEW v \in Byte, Const(d, v)
    PROVE  IInv'
<1> DEFINE prev == opt.known[d]
<1>1. MayWrite(d) /\ Put(d, v) /\ Straight /\ Unknown # v
    BY IRAssumption DEF Const, MemConst, Unknown, Byte
<1>2. /\ out \in [Cells -> Byte] /\ mem \in [Cells -> Byte]
      /\ prev \in Byte \cup {Unknown}
    BY DEF IInv, TypeOK, MemTypeOK, Opts
<1>3. prev \notin {Unknown, 0} => d \in live /\ out[d] = prev /\ mem[d] = prev
    BY DEF IInv, ValuesOK, KnownIsTrue, SameValues
<1>4. CASE Redundant(prev, v)
    <2>1. UNCHANGED <<out, touched, opt>>
        BY <1>4 DEF Const
    <2>2. prev \notin {Unknown, 0} /\ prev = v
        BY <1>1, <1>4 DEF Redundant
    <2>3. mem' = mem /\ live' = live
        BY <1>1, <1>2, <1>3, <2>2 DEF Put
    <2> QED
        BY <1>1, <2>1, <2>3
        DEF IInv, TypeOK, MemTypeOK, ValuesOK, SameValues, KnownIsTrue, WalkOK, Straight
<1>5. CASE ~Redundant(prev, v) /\ Delta(prev, v)
    <2>1. OutPut(d, (out[d] + (v - prev)) % Mod) /\ opt' = Learn(opt, d, v)
        BY <1>5 DEF Const
    <2>2. prev \in Byte /\ out[d] = prev
        BY <1>2, <1>3, <1>5 DEF Delta
    <2>3. OutPut(d, v)
        BY <2>1, <2>2, Arith
    <2> QED
        BY <1>1, <2>1, <2>3, WriteOK DEF OutPut
<1>6. CASE ~Redundant(prev, v) /\ ~Delta(prev, v)
    <2>1. OutPut(d, v) /\ opt' = Learn(opt, d, v)
        BY <1>6 DEF Const
    <2> QED
        BY <1>1, <2>1, WriteOK DEF OutPut
<1> QED
    BY <1>4, <1>5, <1>6

\* The other nodes with a destination: what they read is live.
LEMMA DestinationOK ==
    ASSUME IInv, NEW d \in Cells
    PROVE  /\ \A v \in Byte : AddI(d, v) \/ SubI(d, v) \/ Getc(d, v) => IInv'
           /\ \A s \in Cells : Copy(d, s) \/ Not(d, s) => IInv'
           /\ \A x, y \in Cells, f \in BinaryFns : Binary(d, x, y, f) => IInv'
           /\ \A base \in Slots, i \in Cells : DynLoad(d, base, i) => IInv'
<1>1. /\ out \in [Cells -> Byte] /\ mem \in [Cells -> Byte] /\ live \subseteq Cells
      /\ opt.known \in [Cells -> Byte \cup {Unknown}]
    BY DEF IInv, TypeOK, MemTypeOK, Opts
<1>2. \A c \in live : out[c] = mem[c] /\ (opt.known[c] # Unknown => opt.known[c] = out[c])
    BY <1>1 DEF IInv, ValuesOK, KnownIsTrue, SameValues
<1>3. \A x, y \in Byte, f \in BinaryFns : Result(f, x, y) \in Byte
    BY IRAssumption DEF Result
<1>4. Unknown \in Byte \cup {Unknown}
    OBVIOUS
<1>5. ASSUME NEW v \in Byte, AddI(d, v) PROVE IInv'
    <2> DEFINE w == Plus(opt.known[d], v)
    <2>1. out[d] = mem[d] /\ (opt.known[d] # Unknown => opt.known[d] = out[d]) /\ out[d] \in Byte
        BY <1>1, <1>2, <1>5 DEF AddI, MemAddI
    <2>2. (out[d] + v) % Mod \in Byte
        BY <2>1, Arith
    <2>3. w \in Byte \cup {Unknown} /\ (w # Unknown => w = (out[d] + v) % Mod)
        BY <2>1, <2>2 DEF Plus
    <2> QED
        BY <1>5, <2>1, <2>2, <2>3, WriteOK DEF AddI, MemAddI, OutPut
<1>6. ASSUME NEW v \in Byte, SubI(d, v) PROVE IInv'
    <2> DEFINE w == Plus(opt.known[d], -v)
    <2>1. out[d] = mem[d] /\ (opt.known[d] # Unknown => opt.known[d] = out[d]) /\ out[d] \in Byte
        BY <1>1, <1>2, <1>6 DEF SubI, MemSubI
    <2>2. (out[d] - v) % Mod \in Byte /\ out[d] + -v = out[d] - v
        BY <2>1, Arith
    <2>3. w \in Byte \cup {Unknown} /\ (w # Unknown => w = (out[d] - v) % Mod)
        BY <2>1, <2>2 DEF Plus
    <2> QED
        BY <1>6, <2>1, <2>2, <2>3, WriteOK DEF SubI, MemSubI, OutPut
<1>7. ASSUME NEW v \in Byte, Getc(d, v) PROVE IInv'
    BY <1>4, <1>7, WriteOK DEF Getc, MemConst, OutPut
<1>8. ASSUME NEW s \in Cells, Copy(d, s) PROVE IInv'
    <2>1. out[s] = mem[s] /\ (opt.known[s] # Unknown => opt.known[s] = out[s])
        BY <1>2, <1>8 DEF Copy, MemCopy
    <2>2. out[s] \in Byte /\ opt.known[s] \in Byte \cup {Unknown}
        BY <1>1
    <2> QED
        BY <1>8, <2>1, <2>2, WriteOK DEF Copy, MemCopy, OutPut
<1>9. ASSUME NEW s \in Cells, Not(d, s) PROVE IInv'
    <2>1. out[s] = mem[s] /\ NotOf(out[s]) \in Byte
        BY <1>1, <1>2, <1>9, Arith DEF Not, MemNot
    <2> QED
        BY <1>4, <1>9, <2>1, WriteOK DEF Not, MemNot, OutPut
<1>10. ASSUME NEW x \in Cells, NEW y \in Cells, NEW f \in BinaryFns, Binary(d, x, y, f)
       PROVE  IInv'
    <2>1. out[x] = mem[x] /\ out[y] = mem[y] /\ Result(f, out[x], out[y]) \in Byte
        BY <1>1, <1>2, <1>3, <1>10 DEF Binary, MemBinary
    <2> QED
        BY <1>4, <1>10, <2>1, WriteOK DEF Binary, MemBinary, OutPut
<1>11. ASSUME NEW base \in Slots, NEW i \in Cells, DynLoad(d, base, i) PROVE IInv'
    <2>1. out[i] = mem[i] /\ base + mem[i] \in live
        BY <1>2, <1>11 DEF DynLoad, MemDynLoad
    <2>2. out[base + out[i]] = mem[base + mem[i]] /\ out[base + out[i]] \in Byte
        BY <1>1, <1>2, <2>1
    <2> QED
        BY <1>4, <1>11, <2>1, <2>2, WriteOK DEF DynLoad, MemDynLoad, OutPut
<1> QED
    BY <1>5, <1>6, <1>7, <1>8, <1>9, <1>10, <1>11

\* A value changes its cell.
LEMMA MoveOK ==
    ASSUME IInv, NEW d \in Cells, NEW s \in Cells, Move(d, s)
    PROVE  IInv'
<1>1. PICK left \in IF s \in Temps THEN {0} ELSE Stale(s) :
          out' = [out EXCEPT ![d] = out[s], ![s] = left]
    BY DEF Move
<1>2. left \in Byte /\ (s \in Temps => left = 0)
    BY <1>1, IRAssumption DEF Stale, Byte
<1>3. /\ out \in [Cells -> Byte] /\ mem \in [Cells -> Byte] /\ live \subseteq Cells
      /\ opt.known \in [Cells -> Byte \cup {Unknown}] /\ opt \in Opts
    BY DEF IInv, TypeOK, MemTypeOK, Opts
<1>4. /\ s \in live /\ d # s
      /\ mem' = [mem EXCEPT ![d] = mem[s], ![s] = 0]
      /\ s \in live' => s \in Temps
      /\ live' \subseteq live \cup {d} /\ (live \cup {d}) \ {s} \subseteq live'
    BY DEF Move, MemMove
<1>5. /\ opt' \in Opts /\ opt'.everWritten = opt.everWritten \cup {d, s}
      /\ opt'.known = [opt.known EXCEPT ![d] = opt.known[s], ![s] = 0]
    <2> DEFINE one == Learn(opt, d, opt.known[s])
    <2>1. /\ one \in Opts /\ one.everWritten = opt.everWritten \cup {d}
          /\ one.known = [opt.known EXCEPT ![d] = opt.known[s]]
        BY <1>3 DEF Learn, Opts
    <2>2. opt' = Learn(one, s, 0) /\ 0 \in Byte
        BY IRAssumption DEF Move, Byte
    <2> HIDE DEF one
    <2> QED
        BY <2>1, <2>2 DEF Learn, Opts
<1>6. TypeOK'
    <2>1. mem' \in [Cells -> Byte] /\ out' \in [Cells -> Byte]
        BY <1>1, <1>2, <1>3, <1>4, IRAssumption DEF Byte
    <2>2. live' \subseteq Cells /\ touched' \subseteq Cells /\ bodies' = bodies
        BY <1>3, <1>4 DEF IInv, TypeOK, Move, Straight
    <2> QED
        BY <1>5, <2>1, <2>2 DEF IInv, TypeOK, MemTypeOK
<1>7. SameValues'
    BY <1>1, <1>2, <1>3, <1>4 DEF IInv, ValuesOK, SameValues
<1>8. KnownIsTrue'
    <2>1. opt.known[s] # Unknown => out[s] = opt.known[s]
        BY <1>4 DEF IInv, ValuesOK, KnownIsTrue
    <2> QED
        BY <1>1, <1>2, <1>3, <1>4, <1>5, <2>1 DEF IInv, ValuesOK, KnownIsTrue
<1>9. touched' = touched \cup {d, s} /\ \A c \in Cells \ touched' : out'[c] = 0
    BY <1>1, <1>3 DEF Move, IInv, ValuesOK
<1>10. WalkOK'
    <2>1. {d, s} \in SUBSET Cells /\ (\A c \in {d, s} : MayWrite(c)) /\ Straight
        BY DEF Move
    <2> QED
        BY <1>5, <1>9, <2>1, WalkStraight
<1> QED
    BY <1>6, <1>7, <1>8, <1>9, <1>10 DEF IInv, ValuesOK

\* Quotient and remainder, in two cells.
LEMMA DivModOK ==
    ASSUME IInv, NEW q \in Cells, NEW r \in Cells, NEW a \in Cells, NEW b \in Cells,
           NEW f \in BinaryFns, NEW g \in BinaryFns, DivMod(q, r, a, b, f, g)
    PROVE  IInv'
<1> DEFINE x == Result(f, mem[a], mem[b])
           y == Result(g, mem[a], mem[b])
<1>1. /\ out \in [Cells -> Byte] /\ mem \in [Cells -> Byte] /\ live \subseteq Cells
      /\ opt.known \in [Cells -> Byte \cup {Unknown}] /\ opt \in Opts
    BY DEF IInv, TypeOK, MemTypeOK, Opts
<1>2. x \in Byte /\ y \in Byte
    BY <1>1, IRAssumption DEF Result
<1>3. out[a] = mem[a] /\ out[b] = mem[b] /\ q # r
    BY DEF DivMod, MemDivMod, IInv, ValuesOK, SameValues
<1>4. /\ mem' = [mem EXCEPT ![q] = x, ![r] = y] /\ live' = live \cup {q, r}
      /\ out' = [out EXCEPT ![q] = x, ![r] = y] /\ touched' = touched \cup {q, r}
      /\ bodies' = bodies
    BY <1>3 DEF DivMod, MemDivMod, Straight
<1>5. /\ opt' \in Opts /\ opt'.everWritten = opt.everWritten \cup {q, r}
      /\ opt'.known = [opt.known EXCEPT ![q] = Unknown, ![r] = Unknown]
    <2> DEFINE one == Learn(opt, q, Unknown)
    <2>1. /\ one \in Opts /\ one.everWritten = opt.everWritten \cup {q}
          /\ one.known = [opt.known EXCEPT ![q] = Unknown]
        BY <1>1 DEF Learn, Opts
    <2>2. opt' = Learn(one, r, Unknown)
        BY DEF DivMod
    <2> HIDE DEF one
    <2> QED
        BY <2>1, <2>2 DEF Learn, Opts
<1> HIDE DEF x, y
<1>6. TypeOK'
    BY <1>1, <1>2, <1>4, <1>5 DEF IInv, TypeOK, MemTypeOK
<1>7. SameValues'
    BY <1>1, <1>3, <1>4 DEF IInv, ValuesOK, SameValues
<1>8. KnownIsTrue'
    BY <1>1, <1>3, <1>4, <1>5 DEF IInv, ValuesOK, KnownIsTrue
<1>9. \A c \in Cells \ touched' : out'[c] = 0
    BY <1>1, <1>4 DEF IInv, ValuesOK
<1>10. WalkOK'
    <2>1. {q, r} \in SUBSET Cells /\ (\A c \in {q, r} : MayWrite(c)) /\ Straight
        BY DEF DivMod
    <2> QED
        BY <1>4, <1>5, <2>1, WalkStraight
<1> QED
    BY <1>6, <1>7, <1>8, <1>9, <1>10 DEF IInv, ValuesOK

\* A freed cell holds anything it or its register held.
LEMMA FreeOK ==
    ASSUME IInv, NEW c \in Cells, Free(c)
    PROVE  IInv'
<1>1. PICK left \in Stale(c) : out' = [out EXCEPT ![c] = left]
    BY DEF Free
<1>2. left \in Byte /\ (c \notin touched => left = 0) /\ 0 \in Byte
    BY <1>1, IRAssumption DEF Stale, Byte
<1>3. /\ out \in [Cells -> Byte] /\ mem \in [Cells -> Byte] /\ live \subseteq Cells
      /\ opt.known \in [Cells -> Byte \cup {Unknown}] /\ opt \in Opts
    BY DEF IInv, TypeOK, MemTypeOK, Opts
<1>4. /\ mem' = [mem EXCEPT ![c] = 0] /\ live' = live \ {c}
      /\ touched' = touched /\ bodies' = bodies
    BY DEF Free, MemFree, Straight
<1>5. /\ opt' \in Opts /\ opt'.everWritten = opt.everWritten
      /\ opt'.known = [opt.known EXCEPT ![c] = Unknown]
    BY <1>3 DEF Free, ForgetFreed, Opts
<1>6. TypeOK'
    BY <1>1, <1>2, <1>3, <1>4, <1>5 DEF IInv, TypeOK, MemTypeOK
<1>7. ValuesOK'
    <2>1. SameValues'
        BY <1>1, <1>3, <1>4 DEF IInv, ValuesOK, SameValues
    <2>2. KnownIsTrue'
        BY <1>1, <1>3, <1>4, <1>5 DEF IInv, ValuesOK, KnownIsTrue
    <2>3. \A d \in Cells \ touched' : out'[d] = 0
        BY <1>1, <1>2, <1>3, <1>4 DEF IInv, ValuesOK
    <2> QED
        BY <2>1, <2>2, <2>3 DEF ValuesOK
<1>8. WalkOK'
    BY <1>4, <1>5 DEF IInv, WalkOK
<1> QED
    BY <1>6, <1>7, <1>8 DEF IInv

\* A store through an index: the cell is marked, and nothing is known of it.
LEMMA DynStoreOK ==
    ASSUME IInv, ~StoresToKnown, NEW base \in Slots, NEW i \in Cells, NEW s \in Cells,
           DynStore(base, i, s)
    PROVE  IInv'
<1> DEFINE d == base + out[i]
<1>1. /\ out \in [Cells -> Byte] /\ mem \in [Cells -> Byte] /\ live \subseteq Cells
      /\ opt.known \in [Cells -> Byte \cup {Unknown}] /\ opt \in Opts
    BY DEF IInv, TypeOK, MemTypeOK, Opts
<1>2. out[i] = mem[i] /\ out[s] = mem[s] /\ out[s] \in Byte
    BY <1>1 DEF DynStore, MemDynStore, IInv, ValuesOK, SameValues
<1>3. /\ d \in Cells /\ d \in opt.everWritten /\ opt.known[d] = Unknown
      /\ mem' = [mem EXCEPT ![d] = out[s]] /\ live' = live \cup {d}
      /\ out' = [out EXCEPT ![d] = out[s]] /\ touched' = touched \cup {d}
      /\ opt' = opt /\ Straight
    BY <1>2 DEF DynStore, MemDynStore, Put, OutPut, Cells
<1> HIDE DEF d
<1>4. TypeOK'
    BY <1>1, <1>2, <1>3 DEF IInv, TypeOK, MemTypeOK, Straight
<1>5. ValuesOK'
    <2>1. SameValues'
        BY <1>1, <1>3 DEF IInv, ValuesOK, SameValues
    <2>2. KnownIsTrue'
        BY <1>1, <1>3 DEF IInv, ValuesOK, KnownIsTrue
    <2>3. \A c \in Cells \ touched' : out'[c] = 0
        BY <1>1, <1>3 DEF IInv, ValuesOK
    <2> QED
        BY <2>1, <2>2, <2>3 DEF ValuesOK
<1>6. WalkOK'
    <2>1. {} \in SUBSET Cells /\ \A c \in {} : MayWrite(c)
        OBVIOUS
    <2>2. /\ opt'.everWritten = opt.everWritten \cup {}
          /\ touched \subseteq touched' /\ touched' \subseteq touched \cup opt'.everWritten
        BY <1>3
    <2> QED
        BY <1>3, <2>1, <2>2, WalkStraight
<1> QED
    BY <1>4, <1>5, <1>6 DEF IInv

-----------------------------------------------------------------------------
(* Bodies begin and end.                                                   *)

\* At the edge of a body the run stands still and nothing is known.
LEMMA EdgeOK ==
    ASSUME IInv, UNCHANGED memVars, UNCHANGED runVars, opt'.known = NothingKnown
    PROVE  ValuesOK'
<1>1. mem' = mem /\ live' = live /\ out' = out /\ touched' = touched
    BY DEF memVars, runVars
<1>2. \A c \in Cells : opt'.known[c] = Unknown
    BY DEF NothingKnown
<1> QED
    BY <1>1, <1>2 DEF IInv, ValuesOK, SameValues, KnownIsTrue

\* What the walk of a body leaves.
LEMMA WalkedFacts ==
    ASSUME NEW o \in Opts, NEW D \in SUBSET Cells
    PROVE  /\ AfterBody(Walked(o, D)) \in Opts /\ StartBlock(Mark(o, D)) \in Opts
           /\ StartBlock(Walked(o, D)) \in Opts /\ StartBlock(o) \in Opts
           /\ AfterBody(Walked(o, D)).everWritten = o.everWritten \cup D
           /\ StartBlock(Mark(o, D)).everWritten = o.everWritten \cup D
           /\ StartBlock(Walked(o, D)).everWritten = o.everWritten \cup D
           /\ StartBlock(o).everWritten = o.everWritten
           /\ AfterBody(Walked(o, D)).known = NothingKnown
           /\ StartBlock(Mark(o, D)).known = NothingKnown
           /\ StartBlock(Walked(o, D)).known = NothingKnown
           /\ StartBlock(o).known = NothingKnown
<1>1. NothingKnown \in [Cells -> Byte \cup {Unknown}]
    BY DEF NothingKnown
<1> QED
    BY <1>1 DEF AfterBody, StartBlock, Walked, Mark, Opts

\* Before a phase that writes P, when the phases before it write D.
LEMMA PhaseFacts ==
    ASSUME NEW o \in Opts, NEW D \in SUBSET Cells, NEW P \in SUBSET Cells
    PROVE  /\ Phase(o, D, P) \in Opts /\ Phase(o, D, P).known = NothingKnown
           /\ Phase(o, D, P).everWritten = o.everWritten \cup D \cup P
<1>1. NothingKnown \in [Cells -> Byte \cup {Unknown}]
    BY DEF NothingKnown
<1> QED
    BY <1>1 DEF StartBlock, Walked, Mark, Phase, Opts

\* A body that does not run.
LEMMA SkipOK ==
    ASSUME IInv, UNCHANGED memVars, UNCHANGED runVars, UNCHANGED bodies,
           NEW D \in Writables, opt' = AfterBody(Walked(opt, D))
    PROVE  IInv'
<1>1. D \in SUBSET Cells /\ (\A d \in D : MayWrite(d)) /\ opt \in Opts
    BY DEF Writables, IInv, TypeOK
<1>2. /\ opt' \in Opts /\ opt'.everWritten = opt.everWritten \cup D
      /\ opt'.known = NothingKnown
    BY <1>1, WalkedFacts
<1>3. TypeOK'
    BY <1>2 DEF IInv, TypeOK, MemTypeOK, memVars, runVars
<1>4. WalkOK'
    <2>1. touched \subseteq touched' /\ touched' \subseteq touched \cup opt'.everWritten
        BY DEF runVars
    <2> QED
        BY <1>1, <1>2, <2>1, WalkStraight DEF Straight
<1> QED
    BY <1>2, <1>3, <1>4, EdgeOK DEF IInv

\* A body that runs; E is what was walked before it.
LEMMA OpenOK ==
    ASSUME IInv, NEW c \in live, UNCHANGED memVars, UNCHANGED runVars,
           NEW kind \in {"then", "branch", "loop", "dispatch"}, kind = "then" => mem[c] # 0,
           NEW D \in Writables, NEW P \in SUBSET D, NEW E \in Writables,
           Open(kind, c, D, P), opt' \in Opts, opt'.known = NothingKnown,
           IF kind \in Repeats
           THEN P \subseteq opt'.everWritten /\ opt'.everWritten \subseteq opt.everWritten \cup D
           ELSE D = {} /\ opt'.everWritten = opt.everWritten \cup E
    PROVE  IInv'
<1> DEFINE b == [kind |-> kind, cond |-> c, before |-> opt, dsts |-> D, phase |-> P]
<1>1. /\ bodies \in Seq(Bodies) /\ Len(bodies) \in Nat /\ Len(bodies) < MaxNest
      /\ bodies' = <<b>> \o bodies /\ MaxNest \in Nat
    BY OptAssumption DEF IInv, TypeOK, Open
<1>2. /\ D \subseteq Cells /\ P \subseteq Cells /\ E \subseteq Cells /\ c \in Cells
      /\ D \subseteq Within(bodies, 0) /\ E \subseteq Within(bodies, 0)
    BY MayWriteIsWithin DEF IInv, TypeOK, MemTypeOK, Within
<1>3. b \in Bodies
    BY <1>2 DEF Bodies, IInv, TypeOK
<1>4. /\ b.kind = kind /\ b.before = opt /\ b.dsts = D /\ b.phase = P /\ b.cond = c
    OBVIOUS
<1> HIDE DEF b
<1>5. /\ bodies' \in Seq(Bodies) /\ Len(bodies') = Len(bodies) + 1
      /\ DOMAIN bodies' = 1 .. (Len(bodies) + 1) /\ DOMAIN bodies = 1 .. Len(bodies)
      /\ bodies'[1] = b /\ \A k \in 1 .. Len(bodies) : bodies'[k + 1] = bodies[k]
    BY <1>1, <1>3, Pushed
<1>6. TypeOK'
    BY <1>1, <1>5 DEF IInv, TypeOK, MemTypeOK, memVars, runVars
<1>7. (kind = "then" => c \in touched) /\ touched' = touched
    BY <1>2 DEF IInv, ValuesOK, SameValues, runVars
<1>8. Marks(bodies', touched', opt'.everWritten)
    <2> DEFINE all == IF kind \in Repeats THEN opt.everWritten \cup D ELSE opt.everWritten \cup E
    <2>1. Marks(bodies, touched, opt.everWritten)
        BY DEF IInv, WalkOK
    <2>2. Marks(bodies, touched, all)
        BY <1>1, <1>2, <2>1, MarksGrow
    <2>3. /\ b.before.everWritten \cup b.dsts \subseteq all /\ opt'.everWritten \subseteq all
          /\ IF b.kind \in Repeats
             THEN all = b.before.everWritten \cup b.dsts /\ b.phase \subseteq opt'.everWritten
             ELSE opt'.everWritten = all
        BY <1>4
    <2> QED
        BY <1>1, <1>2, <1>3, <1>4, <1>7, <2>2, <2>3, MarksPush
<1>9. ASSUME NEW k \in DOMAIN bodies' PROVE BodyOK(bodies'[k], touched')
    <2>1. CASE k = 1
        BY <1>4, <1>5, <1>7, <2>1 DEF BodyOK
    <2>2. CASE k # 1
        <3>1. k - 1 \in DOMAIN bodies /\ bodies'[k] = bodies[k - 1]
            BY <1>1, <1>5, <2>2
        <3> QED
            BY <1>7, <3>1 DEF IInv, WalkOK
    <2> QED
        BY <2>1, <2>2
<1> QED
    BY <1>6, <1>8, <1>9, EdgeOK DEF IInv, WalkOK

\* The empty set of cells is writable, and a writable set is a set of cells.
LEMMA WritablesFacts == {} \in Writables /\ \A D \in Writables : D \in SUBSET Cells
BY DEF Writables

\* IRIf: the branch that runs, or the code of the one that does not.
LEMMA IfOK ==
    ASSUME IInv, NEW c \in Cells, NEW hasElse \in BOOLEAN, If(c, hasElse)
    PROVE  IInv'
<1> DEFINE kind == IF hasElse THEN "branch" ELSE "then"
<1>1. c \in live /\ UNCHANGED memVars /\ UNCHANGED runVars /\ opt \in Opts
    BY DEF If, MemRead, IInv, TypeOK
<1>2. kind \notin Repeats /\ "branch" \notin Repeats
    BY DEF Repeats
<1>3. CASE mem[c] # 0
    <2>1. opt' = StartBlock(opt) /\ Open(kind, c, {}, {})
        BY <1>3 DEF If
    <2>2. /\ opt' \in Opts /\ opt'.known = NothingKnown
          /\ opt'.everWritten = opt.everWritten \cup {}
        BY <1>1, <2>1, WalkedFacts
    <2> QED
        BY <1>1, <1>2, <1>3, <2>1, <2>2, OpenOK, WritablesFacts
<1>4. CASE mem[c] = 0 /\ hasElse
    <2>1. PICK D \in Writables : opt' = StartBlock(Walked(opt, D))
        BY <1>4 DEF If
    <2>2. Open("branch", c, {}, {})
        BY <1>4 DEF If
    <2>3. /\ opt' \in Opts /\ opt'.known = NothingKnown
          /\ opt'.everWritten = opt.everWritten \cup D
        BY <1>1, <2>1, WalkedFacts, WritablesFacts
    <2> QED
        BY <1>1, <1>2, <2>2, <2>3, OpenOK, WritablesFacts
<1>5. CASE mem[c] = 0 /\ ~hasElse
    BY <1>1, <1>5, SkipOK DEF If
<1> QED
    BY <1>3, <1>4, <1>5

\* IRLoop: its body was marked before it was walked.
LEMMA LoopOK ==
    ASSUME IInv, NEW c \in Cells, Loop(c)
    PROVE  IInv'
<1>1. c \in live /\ UNCHANGED memVars /\ UNCHANGED runVars /\ opt \in Opts
    BY DEF Loop, MemRead, IInv, TypeOK
<1>2. PICK D \in Writables :
          \/ opt' = StartBlock(Mark(opt, D)) /\ Open("loop", c, D, D)
          \/ opt' = AfterBody(Walked(opt, D)) /\ UNCHANGED bodies
    BY DEF Loop
<1>3. CASE opt' = StartBlock(Mark(opt, D)) /\ Open("loop", c, D, D)
    <2>1. /\ opt' \in Opts /\ opt'.known = NothingKnown
          /\ opt'.everWritten = opt.everWritten \cup D
        BY <1>1, <1>3, WalkedFacts, WritablesFacts
    <2>2. D \in SUBSET D /\ "loop" \in Repeats
        BY DEF Repeats
    <2> QED
        BY <1>1, <1>3, <2>1, <2>2, OpenOK
<1> QED
    BY <1>1, <1>2, <1>3, SkipOK

\* IRDispatch: any phase runs first.
LEMMA DispatchOK ==
    ASSUME IInv, NEW c \in Cells, Dispatch(c)
    PROVE  IInv'
<1>1. c \in live /\ UNCHANGED memVars /\ UNCHANGED runVars /\ opt \in Opts
    BY DEF Dispatch, MemRead, IInv, TypeOK
<1>2. PICK D \in Writables :
          \/ \E walked, phase \in SUBSET D :
                opt' = Phase(opt, walked, phase) /\ Open("dispatch", c, D, phase)
          \/ opt' = AfterBody(Walked(opt, D)) /\ UNCHANGED bodies
    BY DEF Dispatch
<1>3. ASSUME NEW walked \in SUBSET D, NEW phase \in SUBSET D,
             opt' = Phase(opt, walked, phase), Open("dispatch", c, D, phase)
      PROVE  IInv'
    <2>1. walked \in SUBSET Cells /\ phase \in SUBSET Cells /\ "dispatch" \in Repeats
        BY WritablesFacts DEF Repeats
    <2>2. /\ opt' \in Opts /\ opt'.known = NothingKnown
          /\ opt'.everWritten = opt.everWritten \cup walked \cup phase
        BY <1>1, <1>3, <2>1, PhaseFacts
    <2> QED
        BY <1>1, <1>3, <2>1, <2>2, OpenOK
<1> QED
    BY <1>1, <1>2, <1>3, SkipOK

\* The condition that is used up was touched before.
LEMMA EndIfOK ==
    ASSUME IInv, EndIf
    PROVE  IInv'
<1> DEFINE b == Head(bodies)
<1>1. /\ bodies # <<>> /\ bodies \in Seq(Bodies) /\ b.kind \in {"then", "branch"}
      /\ bodies' = Tail(bodies) /\ Len(bodies) <= MaxNest /\ MaxNest \in Nat
    BY OptAssumption DEF EndIf, IInv, TypeOK
<1>2. /\ Tail(bodies) \in Seq(Bodies) /\ b \in Bodies /\ b = bodies[1]
      /\ Len(bodies) \in Nat /\ Len(bodies) >= 1 /\ Len(Tail(bodies)) = Len(bodies) - 1
      /\ DOMAIN bodies = 1 .. Len(bodies) /\ DOMAIN Tail(bodies) = 1 .. (Len(bodies) - 1)
      /\ \A k \in 1 .. (Len(bodies) - 1) : Tail(bodies)[k] = bodies[k + 1]
    BY <1>1, Popped
<1>3. b.kind \notin Repeats
    BY <1>1 DEF Repeats
<1>4. PICK D \in Writables :
          opt' = AfterBody(Walked([opt EXCEPT !.known = b.before.known], D))
    BY DEF EndIf
<1>5. /\ opt' \in Opts /\ opt'.known = NothingKnown
      /\ opt'.everWritten = opt.everWritten \cup D
    <2> DEFINE outer == [opt EXCEPT !.known = b.before.known]
    <2>1. outer \in Opts /\ outer.everWritten = opt.everWritten
        BY <1>2 DEF IInv, TypeOK, Bodies, Opts
    <2> HIDE DEF outer
    <2>2. opt' = AfterBody(Walked(outer, D))
        BY <1>4 DEF outer
    <2> QED
        BY <2>1, <2>2, WalkedFacts, WritablesFacts
<1>6. touched' = touched /\ ValuesOK' /\ MemTypeOK' /\ out' \in [Cells -> Byte]
    <2>1. CASE b.kind = "then" /\ b.cond \in Temps
        <3>1. MemConst(b.cond, 0) /\ OutPut(b.cond, 0)
            BY <2>1 DEF EndIf
        <3>2. b.cond \in Cells /\ b.cond \in touched /\ 0 \in Byte
            BY <1>2, <2>1, IRAssumption DEF Bodies, IInv, WalkOK, BodyOK, Byte
        <3>3. /\ mem' = [mem EXCEPT ![b.cond] = 0] /\ live' = live \cup {b.cond}
              /\ out' = [out EXCEPT ![b.cond] = 0] /\ touched' = touched
              /\ mem \in [Cells -> Byte] /\ out \in [Cells -> Byte] /\ live \subseteq Cells
            BY <3>1, <3>2 DEF MemConst, Put, OutPut, IInv, TypeOK, MemTypeOK
        <3>4. \A c \in Cells : opt'.known[c] = Unknown
            BY <1>5 DEF NothingKnown
        <3>5. MemTypeOK' /\ out' \in [Cells -> Byte]
            BY <3>2, <3>3 DEF MemTypeOK
        <3>6. ValuesOK'
            BY <3>2, <3>3, <3>4 DEF IInv, ValuesOK, SameValues, KnownIsTrue
        <3> QED
            BY <3>3, <3>5, <3>6
    <2>2. CASE ~(b.kind = "then" /\ b.cond \in Temps)
        <3>1. UNCHANGED <<mem, live, out, touched>>
            BY <2>2 DEF EndIf
        <3> QED
            BY <1>5, <3>1, EdgeOK DEF IInv, TypeOK, MemTypeOK, memVars, runVars
    <2> QED
        BY <2>1, <2>2
<1>7. Marks(bodies', touched', opt'.everWritten)
    <2>1. D \subseteq Within(bodies, 0)
        BY MayWriteIsWithin DEF IInv
    <2>2. Marks(bodies, touched, opt'.everWritten)
        BY <1>1, <1>5, <2>1, MarksGrow DEF IInv, WalkOK
    <2> QED
        BY <1>1, <1>3, <1>6, <2>2, MarksPop
<1>8. ASSUME NEW k \in DOMAIN bodies' PROVE BodyOK(bodies'[k], touched')
    <2>1. k + 1 \in DOMAIN bodies /\ bodies'[k] = bodies[k + 1]
        BY <1>1, <1>2
    <2> QED
        BY <1>6, <2>1 DEF IInv, WalkOK
<1>9. TypeOK'
    BY <1>1, <1>2, <1>5, <1>6 DEF IInv, TypeOK
<1> QED
    BY <1>6, <1>7, <1>8, <1>9 DEF IInv, WalkOK

\* A body goes on: as it is, or with another phase.
LEMMA AgainOK ==
    ASSUME IInv, bodies # <<>>, Head(bodies).kind \in Repeats,
           UNCHANGED memVars, UNCHANGED runVars,
           NEW P \in SUBSET Head(bodies).dsts,
           bodies' = <<[Head(bodies) EXCEPT !.phase = P]>> \o Tail(bodies),
           opt' \in Opts, opt'.known = NothingKnown, P \subseteq opt'.everWritten,
           opt'.everWritten \subseteq Head(bodies).before.everWritten \cup Head(bodies).dsts
    PROVE  IInv'
<1> DEFINE old == Head(bodies)
           b == [old EXCEPT !.phase = P]
           q == Tail(bodies)
           all == old.before.everWritten \cup old.dsts
<1>1. /\ bodies \in Seq(Bodies) /\ q \in Seq(Bodies) /\ old \in Bodies /\ old = bodies[1]
      /\ Len(bodies) \in Nat /\ Len(bodies) >= 1 /\ Len(q) = Len(bodies) - 1
      /\ DOMAIN bodies = 1 .. Len(bodies) /\ DOMAIN q = 1 .. (Len(bodies) - 1)
      /\ \A k \in 1 .. (Len(bodies) - 1) : q[k] = bodies[k + 1]
    BY Popped DEF IInv, TypeOK
<1>2. /\ b \in Bodies /\ b.kind = old.kind /\ b.cond = old.cond /\ b.before = old.before
      /\ b.dsts = old.dsts /\ b.phase = P
    BY <1>1 DEF Bodies
<1>3. Marks(q, touched, all) /\ old.dsts \subseteq Within(q, 0)
    BY <1>1, MarksPop DEF IInv, WalkOK
<1>4. bodies' = <<b>> \o q /\ touched' = touched
    BY DEF runVars
<1> HIDE DEF old, b, q
<1>5. /\ bodies' \in Seq(Bodies) /\ Len(bodies') = Len(q) + 1
      /\ DOMAIN bodies' = 1 .. (Len(q) + 1)
      /\ bodies'[1] = b /\ \A k \in 1 .. Len(q) : bodies'[k + 1] = q[k]
    <2> DEFINE p == <<b>> \o q
    <2>1. /\ p \in Seq(Bodies) /\ Len(p) = Len(q) + 1 /\ DOMAIN p = 1 .. (Len(q) + 1)
          /\ p[1] = b /\ \A k \in 1 .. Len(q) : p[k + 1] = q[k]
        BY <1>1, <1>2, Pushed
    <2> QED
        BY <1>4, <2>1
<1>6. Marks(bodies', touched', opt'.everWritten)
    <2>1. /\ b.before.everWritten \cup b.dsts \subseteq all /\ b.dsts \subseteq Within(q, 0)
          /\ b.phase \subseteq b.dsts /\ opt'.everWritten \subseteq all
          /\ IF b.kind \in Repeats
             THEN all = b.before.everWritten \cup b.dsts /\ b.phase \subseteq opt'.everWritten
             ELSE opt'.everWritten = all
        BY <1>2, <1>3 DEF old
    <2> HIDE DEF all
    <2> QED
        BY <1>1, <1>2, <1>3, <1>4, <2>1, MarksPush
<1>7. ASSUME NEW k \in DOMAIN bodies' PROVE BodyOK(bodies'[k], touched')
    <2>1. CASE k = 1
        <3>1. 1 \in DOMAIN bodies
            BY <1>1
        <3>2. BodyOK(bodies[1], touched)
            BY <3>1 DEF IInv, WalkOK
        <3> QED
            BY <1>1, <1>2, <1>4, <1>5, <2>1, <3>2 DEF BodyOK
    <2>2. CASE k # 1
        <3>1. k \in DOMAIN bodies /\ bodies'[k] = bodies[k]
            BY <1>1, <1>5, <2>2
        <3> QED
            BY <1>4, <3>1 DEF IInv, WalkOK
    <2> QED
        BY <2>1, <2>2
<1>8. TypeOK'
    BY <1>1, <1>5 DEF IInv, TypeOK, MemTypeOK, memVars, runVars
<1> QED
    BY <1>6, <1>7, <1>8, EdgeOK DEF IInv, WalkOK

\* A loop or a dispatch ends or goes on, knowing what its walk left.
LEMMA EndPassOK ==
    ASSUME IInv, EndPass
    PROVE  IInv'
<1> DEFINE b == Head(bodies)
<1>1. /\ bodies # <<>> /\ b.kind \in Repeats /\ UNCHANGED memVars /\ UNCHANGED runVars
      /\ bodies \in Seq(Bodies) /\ Len(bodies) <= MaxNest /\ MaxNest \in Nat
    BY OptAssumption DEF EndPass, MemRead, IInv, TypeOK
<1>2. /\ Tail(bodies) \in Seq(Bodies) /\ b \in Bodies
      /\ Len(bodies) \in Nat /\ Len(bodies) >= 1 /\ Len(Tail(bodies)) = Len(bodies) - 1
      /\ DOMAIN bodies = 1 .. Len(bodies) /\ DOMAIN Tail(bodies) = 1 .. (Len(bodies) - 1)
      /\ \A k \in 1 .. (Len(bodies) - 1) : Tail(bodies)[k] = bodies[k + 1]
    BY <1>1, Popped
<1>3. /\ b.before \in Opts /\ b.dsts \in SUBSET Cells /\ b.phase \in SUBSET b.dsts
    BY <1>1, <1>2, MarksPop DEF Bodies, IInv, WalkOK
<1>4. CASE opt' = AfterBody(Walked(b.before, b.dsts)) /\ bodies' = Tail(bodies)
    <2>1. /\ opt' \in Opts /\ opt'.known = NothingKnown
          /\ opt'.everWritten = b.before.everWritten \cup b.dsts
        BY <1>3, <1>4, WalkedFacts
    <2>2. Marks(bodies', touched', opt'.everWritten) /\ touched' = touched
        BY <1>1, <1>4, <2>1, MarksPop DEF IInv, WalkOK, runVars
    <2>3. ASSUME NEW k \in DOMAIN bodies' PROVE BodyOK(bodies'[k], touched')
        <3>1. k + 1 \in DOMAIN bodies /\ bodies'[k] = bodies[k + 1]
            BY <1>2, <1>4
        <3> QED
            BY <2>2, <3>1 DEF IInv, WalkOK
    <2>4. TypeOK'
        BY <1>1, <1>2, <1>4, <2>1 DEF IInv, TypeOK, MemTypeOK, memVars, runVars
    <2> QED
        BY <1>1, <2>1, <2>2, <2>3, <2>4, EdgeOK DEF IInv, WalkOK
<1>5. CASE opt' = StartBlock(Mark(b.before, b.dsts)) /\ UNCHANGED bodies
    <2>1. /\ opt' \in Opts /\ opt'.known = NothingKnown
          /\ opt'.everWritten = b.before.everWritten \cup b.dsts
        BY <1>3, <1>5, WalkedFacts
    <2>2. bodies' = <<[b EXCEPT !.phase = b.phase]>> \o Tail(bodies)
        <3>1. [b EXCEPT !.phase = b.phase] = b
            BY <1>2 DEF Bodies
        <3>2. bodies = <<b>> \o Tail(bodies)
            BY <1>1, <1>2
        <3> QED
            BY <1>5, <3>1, <3>2
    <2> QED
        BY <1>1, <1>3, <2>1, <2>2, AgainOK
<1>6. ASSUME NEW walked \in SUBSET b.dsts, NEW phase \in SUBSET b.dsts,
             opt' = Phase(b.before, walked, phase),
             bodies' = <<[b EXCEPT !.phase = phase]>> \o Tail(bodies)
      PROVE  IInv'
    <2>1. /\ opt' \in Opts /\ opt'.known = NothingKnown
          /\ opt'.everWritten = b.before.everWritten \cup walked \cup phase
        <3>1. walked \in SUBSET Cells /\ phase \in SUBSET Cells
            BY <1>3
        <3>2. /\ Phase(b.before, walked, phase) \in Opts
              /\ Phase(b.before, walked, phase).known = NothingKnown
              /\ Phase(b.before, walked, phase).everWritten = b.before.everWritten \cup walked \cup phase
            BY <1>3, <3>1, PhaseFacts
        <3> QED
            BY <1>6, <3>2
    <2> QED
        BY <1>1, <1>6, <2>1, AgainOK
<1> QED
    BY <1>4, <1>5, <1>6 DEF EndPass

-----------------------------------------------------------------------------
(* The theorems.                                                           *)

\* Nothing is written, and nothing is known (OptimizeIR).
LEMMA InitOK == Init => IInv
<1> SUFFICES ASSUME Init PROVE IInv
    OBVIOUS
<1>1. 0 \in Byte /\ MaxNest \in Nat
    BY IRAssumption, OptAssumption DEF Byte
<1>2. TypeOK
    BY <1>1 DEF Init, MemInit, MemTypeOK, TypeOK, Opts
<1>3. ValuesOK
    BY DEF Init, MemInit, ValuesOK, SameValues, KnownIsTrue
<1>4. WalkOK
    BY DEF Init, WalkOK, Marks
<1> QED
    BY <1>2, <1>3, <1>4 DEF IInv

\* Every node keeps the invariant.
LEMMA NextOK ==
    ASSUME IInv, ~StoresToKnown, [Next]_vars
    PROVE  IInv'
<1>1. CASE ConstantNode
    BY <1>1, ZeroOK, ConstOK, MoveOK, FreeOK, DestinationOK DEF ConstantNode
<1>2. CASE OtherNode
    BY <1>2, DestinationOK, DivModOK DEF OtherNode
<1>3. CASE StoreNode
    BY <1>3, DynStoreOK DEF StoreNode
<1>4. CASE ControlNode
    BY <1>4, IfOK, LoopOK, DispatchOK, EndIfOK, EndPassOK DEF ControlNode
<1>5. CASE UNCHANGED vars
    BY <1>5
    DEF vars, runVars, IInv, TypeOK, MemTypeOK, ValuesOK, SameValues, KnownIsTrue, WalkOK
<1> QED
    BY <1>1, <1>2, <1>3, <1>4, <1>5 DEF Next

\* The inductive invariant.
LEMMA Invariance ==
    ASSUME ~StoresToKnown
    PROVE  Spec => []IInv
<1>1. IInv /\ [Next]_vars => IInv'
    BY NextOK
<1> QED
    BY InitOK, <1>1, PTL DEF Spec

\* Every part of the state keeps its type.
THEOREM TypeCorrect ==
    ASSUME ~StoresToKnown
    PROVE  Spec => []TypeOK
<1>1. IInv => TypeOK
    BY DEF IInv
<1> QED
    BY <1>1, Invariance, PTL

\* The optimized program gives every cell the program may read the value the
\* lowered program gives it (OptimizeIR), however bodies nest and repeat.
THEOREM OptimizerKeepsValues ==
    ASSUME ~StoresToKnown
    PROVE  Spec => []SameValues
<1>1. IInv => SameValues
    BY DEF IInv, ValuesOK
<1> QED
    BY <1>1, Invariance, PTL

\* A recorded constant is the value of its cell (known of optimizeBlock).
THEOREM ConstantsAreTrue ==
    ASSUME ~StoresToKnown
    PROVE  Spec => []KnownIsTrue
<1>1. IInv => KnownIsTrue
    BY DEF IInv, ValuesOK
<1> QED
    BY <1>1, Invariance, PTL

\* The zero that fresh-zero elimination drops is there already, on every pass of
\* every loop (everWritten, markBlockDsts).
THEOREM FreshCellsAreZero ==
    ASSUME ~StoresToKnown
    PROVE  Spec => []FreshIsZero
<1>1. IInv => FreshIsZero
    BY MayWriteIsWithin DEF IInv, ValuesOK, WalkOK, Marks, FreshIsZero
<1> QED
    BY <1>1, Invariance, PTL
=============================================================================
