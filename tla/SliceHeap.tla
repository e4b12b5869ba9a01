----------------------------- MODULE SliceHeap -----------------------------
(***************************************************************************)
(* Slices and strings of src/lowerer.go: a slice is three cells, ptr, len  *)
(* and cap, and its elements live on the heap, the part of the stack above *)
(* the static slots.  heapPtr is the next free slot; nothing is ever moved *)
(* and a buffer is given back only when it is the last one.                *)
(*                                                                         *)
(* A statement is one step: the effect of the IR nodes emitted for it.     *)
(* Beside it runs `go', what the Go program means: slices are views of     *)
(* arrays that never share storage and are never freed.                    *)
(*                                                                         *)
(* The body of a loop is entered and left; its variables are `Inner', and  *)
(* a program declares those of `locals'.  `escaped' are those among them   *)
(* that some statement of the program marks, executed or not.              *)
(***************************************************************************)
EXTENDS Integers, Sequences, FiniteSets

CONSTANTS
    Outer,       \* variables that outlive the loop body
    Inner,       \* variables of the loop body
    Fields,      \* slice fields of structs: headers without a binding
    Strings,     \* the names above that are strings, which nothing changes in place
    Size,        \* the cells of an element, for each name
    Statements,  \* for each kind of program, the statements it is made of
    Mod,         \* the byte modulus; 256 in the program
    HeapStart,   \* the static slots, those of an array variable among them
    ArrayBase,   \* the first slot of that array
    Array,       \* and what it holds at first, one cell per element
    MaxSlots,    \* bound: how high the stack may grow
    MaxSteps,    \* bound: statements executed
    Miscompiled  \* the mistakes of the code that programs may run into

Names == Outer \cup Inner \cup Fields
Byte == 0 .. (Mod - 1)
Wrap(v) == v % Mod

Header == [ptr : Byte, len : Byte, cap : Byte]
Hd(ptr, len, cap) == [ptr |-> Wrap(ptr), len |-> Wrap(len), cap |-> Wrap(cap)]
NilHeader == Hd(0, 0, 0)

\* Slots are numbered by bytes, and the static slots are not the whole stack.  A
\* name is declared once, and the elements of a string are bytes.
ASSUME SliceHeapAssumption ==
    /\ Mod \in Nat /\ HeapStart \in Nat /\ MaxSlots \in Nat
    /\ 0 < HeapStart /\ HeapStart <= MaxSlots /\ MaxSlots < Mod
    /\ ArrayBase \in Nat /\ Array \in Seq(Byte)
    /\ ArrayBase + Len(Array) <= HeapStart
    /\ Outer \cap Inner = {} /\ Fields \cap (Outer \cup Inner) = {}
    /\ Size \in [Names -> Nat \ {0}] /\ \A n \in Strings \cap Names : Size[n] = 1

VARIABLES
    stack,      \* the allocated slots; slot s is stack[s + 1]
    heapPtr,    \* the cell that holds the next free slot of the heap
    header,     \* the header cells of every name
    result,     \* what the last comparison, copy or index gave
    kind,       \* the kind of the program
    escaped,    \* the inner names marked while the program was lowered
    locals,     \* the inner names the program declares
    declared,   \* those declared since the body was entered
    unchecked,  \* while the body is left: those whose buffer may still be freed
    phase,      \* outside the body, inside, or leaving it
    go,         \* the Go program: arrays, slices of them, and the last result
    steps

program == <<kind, escaped, locals>>
scope == <<declared, unchecked, phase>>
vars == <<stack, heapPtr, header, result, program, scope, go, steps>>

-----------------------------------------------------------------------------
(* Slots and the heap.  A heap is a record of the stack and of heapPtr.      *)

Zeros(n) == [i \in 1 .. n |-> 0]
Get(st, slot) == IF slot + 1 \in DOMAIN st THEN st[slot + 1] ELSE 0
Cells(st, slot, n) == [i \in 1 .. n |-> Get(st, slot + i - 1)]

\* The stack after cells are stored from a slot on.
Stored(st, slot, cells) ==
    [i \in DOMAIN st |-> IF i - slot \in DOMAIN cells THEN cells[i - slot] ELSE st[i]]

\* Where the value comes from that a loop over a and b, both walked in the same
\* direction, puts at offset i: a loop that reads what it wrote repeats itself.
SourceOffset(dst, src, n, i, forward) ==
    IF forward
    THEN IF dst > src THEN i % (dst - src) ELSE i
    ELSE IF dst < src THEN n - 1 - ((n - 1 - i) % (src - dst)) ELSE i

CopyLoop(st, dst, src, n, forward) ==
    Stored(st, dst, [i \in 1 .. n |-> Get(st, src + SourceOffset(dst, src, n, i - 1, forward))])

copyHeapBytes(st, dst, src, n) == CopyLoop(st, dst, src, n, TRUE)

\* The heap with n more slots, all 0.
Pushed(h, n) == [stack |-> h.stack \o Zeros(n), top |-> Wrap(h.top + n)]
\* A mutant of PoppedTo: one slot too many goes.
PoppedTooFar(h, top, n) ==
    [stack |-> SubSeq(h.stack, 1, Len(h.stack) - n - 1), top |-> top]

\* The heap without its n last slots.
PoppedTo(h, top, n) ==
    [stack |-> SubSeq(h.stack, 1, Len(h.stack) - n), top |-> top]

\* A heap and the header of a slice: what evaluating a slice gives.
Value(h, hd) == [stack |-> h.stack, top |-> h.top, hd |-> hd]
HeapOf(v) == [stack |-> v.stack, top |-> v.top]
WithStack(h, st) == [h EXCEPT !.stack = st]

\* A fresh buffer of n slots at the end of the heap.
pushHeapRegion(h, n, len, cap) == Value(Pushed(h, n), Hd(h.top, len, cap))

\* A mutant of AtTop: every buffer counts as the last one.
AnywhereIsTop(h, hd, c) == TRUE

\* The end of a buffer of c cells is the end of the heap.
AtTop(h, hd, c) == Wrap(hd.ptr + c) = h.top

\* Counts the elements in hd.cap: of a buffer whose elements are wider than a
\* cell it looks at the wrong place, and leaves it.
freeIfHeapTop(h, hd) ==
    IF AtTop(h, hd, hd.cap) THEN PoppedTo(h, hd.ptr, hd.cap) ELSE h

-----------------------------------------------------------------------------
(* Values that own a fresh buffer.                                           *)

sliceMake(h, len, cap, size) == pushHeapRegion(h, cap * size, len, cap)

\* The cells of a literal, elements side by side; a string has one per byte.
evalSliceLiteral(h, cells, size) ==
    LET n == Len(cells) \div size
        v == pushHeapRegion(h, Len(cells), n, n)
    IN  [v EXCEPT !.stack = Stored(v.stack, v.hd.ptr, cells)]

evalStringLiteral(h, cells) == evalSliceLiteral(h, cells, 1)
evalByteToString(h, value) ==
    LET v == pushHeapRegion(h, 1, 1, 1)
    IN  [v EXCEPT !.stack = Stored(v.stack, v.hd.ptr, <<value>>)]

\* The length of the source is read in every round: appended to itself, the slice
\* has no end before its length wraps.
appendBytesFromSlice(v, src, itself) ==
    LET n == IF itself /\ src.len > 0 THEN Mod - src.len ELSE src.len
    IN  [v EXCEPT !.stack = copyHeapBytes(v.stack, v.hd.ptr + v.hd.len, src.ptr, n),
                  !.hd.len = Wrap(v.hd.len + n)]

appendLiteralBytes(v, cells) ==
    [v EXCEPT !.stack = Stored(v.stack, v.hd.ptr + v.hd.len, cells),
              !.hd.len = Wrap(v.hd.len + Len(cells))]

\* string(bs) and []byte(s).
copyStringSlice(h, src) == appendBytesFromSlice(pushHeapRegion(h, src.len, 0, src.len), src, FALSE)

\* x[low:high:max]; a bound that is left out is 0, the length, the capacity.
Omitted == -1
Bound(b, default) == IF b = Omitted THEN default ELSE b
lowerSliceFromSrc(h, src, x, size) ==
    LET low == Bound(x.low, 0)
    IN  Value(h, Hd(src.ptr + low * size, Bound(x.high, src.len) - low, Bound(x.max, src.cap) - low))

\* A view of the array variable: no copy, the buffer is in the static slots.
lowerSliceFromArray(h, x) == lowerSliceFromSrc(h, Hd(ArrayBase, Len(Array), Len(Array)), x, 1)

-----------------------------------------------------------------------------
(* Growing a slice.  A Value carries the heap and the header through.        *)

\* The cells of an element written behind the last one.
storeValAtTail(v, size, cells) ==
    [v EXCEPT !.stack = Stored(v.stack, v.hd.ptr + v.hd.len * size, cells),
              !.hd.len = Wrap(v.hd.len + 1)]

\* A mutant of ExtendedInPlace: the heap pointer moves and no slot is pushed.
ExtendedUnpushed(v, n, size) ==
    Value([HeapOf(v) EXCEPT !.top = Wrap(@ + n * size)], [v.hd EXCEPT !.cap = Wrap(v.hd.cap + n)])

\* The buffer grows where it lies, by n elements.
ExtendedInPlace(v, n, size) ==
    LET h == Pushed(HeapOf(v), n * size) IN Value(h, [v.hd EXCEPT !.cap = Wrap(v.hd.cap + n)])

\* A new buffer of cap elements, and what the old one holds copied over.
Reallocated(v, cap, size) ==
    LET new == pushHeapRegion(HeapOf(v), cap * size, v.hd.len, cap)
    IN  [new EXCEPT !.stack = copyHeapBytes(new.stack, new.hd.ptr, v.hd.ptr, v.hd.len * size)]

DoubledCap(cap) == IF cap = 0 THEN 1 ELSE 2 * cap

lowerSliceAppend(v, size, cells) ==
    LET newCap == DoubledCap(v.hd.cap)
        roomy == IF v.hd.len < v.hd.cap THEN v
                 ELSE IF AtTop(HeapOf(v), v.hd, v.hd.cap * size)
                      THEN ExtendedInPlace(v, newCap - v.hd.cap, size)
                      ELSE Reallocated(v, newCap, size)
    IN  storeValAtTail(roomy, size, cells)

\* append(s, t...).  Appended to itself, the slice is read through the header
\* cells that the reallocation has moved.
lowerSliceAppendSpread(v, src, itself, size) ==
    LET needed == v.hd.len + src.len
        grown == IF needed > v.hd.cap THEN Reallocated(v, needed, size) ELSE v
        from == IF itself THEN grown.hd.ptr ELSE src.ptr
    IN  [grown EXCEPT !.stack = copyHeapBytes(grown.stack, grown.hd.ptr + v.hd.len * size,
                                              from, src.len * size),
                      !.hd.len = Wrap(needed)]

ensureSliceCapByCell(v, extra) ==
    IF AtTop(HeapOf(v), v.hd, v.hd.cap) THEN ExtendedInPlace(v, extra, 1)
    ELSE Reallocated(v, v.hd.len + extra, 1)

-----------------------------------------------------------------------------
(* Operands and expressions, evaluated in a machine: the memory as a record. *)

Machine == [stack |-> stack, top |-> heapPtr, header |-> header, result |-> result]
HeapIn(m) == [stack |-> m.stack, top |-> m.top]
WithHeap(m, h) == [m EXCEPT !.stack = h.stack, !.top = h.top]
WithSlice(m, name, v) == [WithHeap(m, v) EXCEPT !.header[name] = v.hd]

IsName(x) == x.kind = "name"
IsLiteral(x) == x.kind = "text"

\* A name lends its header; anything else is materialized, and temporary.
resolveStringSlice(m, x) ==
    CASE IsName(x)    -> Value(HeapIn(m), m.header[x.name])
      [] IsLiteral(x) -> evalStringLiteral(HeapIn(m), x.cells)
      [] x.kind = "byte" -> evalByteToString(HeapIn(m), x.value)
      [] x.kind = "view" ->
            lowerSliceFromSrc(HeapIn(m), m.header[x.name], x, Size[x.name])

\* x + y into a fresh buffer, literals without being materialized first.
lowerStringConcat(m, x, y) ==
    LET Operand(h, e) == IF IsLiteral(e) THEN Value(h, Hd(0, Len(e.cells), 0))
                         ELSE resolveStringSlice(WithHeap(m, h), e)
        vx == Operand(HeapIn(m), x)
        vy == Operand(HeapOf(vx), y)
        total == vx.hd.len + vy.hd.len
        Add(v, e, hd) == IF IsLiteral(e) THEN appendLiteralBytes(v, e.cells)
                         ELSE appendBytesFromSlice(v, hd, FALSE)
    IN  Add(Add(pushHeapRegion(HeapOf(vy), total, 0, total), x, vx.hd), y, vy.hd)

lowerSliceExpr(m, e) ==
    CASE IsName(e) -> Value(HeapIn(m), m.header[e.name])
      [] e.kind = "nil" -> Value(HeapIn(m), NilHeader)
      [] e.kind = "make" -> sliceMake(HeapIn(m), e.len, e.cap, e.size)
      [] e.kind = "elements" -> evalSliceLiteral(HeapIn(m), e.cells, e.size)
      [] e.kind = "array" -> lowerSliceFromArray(HeapIn(m), e)
      [] e.kind = "copyOf" -> copyStringSlice(HeapIn(m), m.header[e.name])
      [] e.kind = "concat" -> lowerStringConcat(m, e.x, e.y)
      [] e.kind = "append" ->
            lowerSliceAppend(Value(HeapIn(m), m.header[e.name]), Size[e.name], e.cells)
      [] e.kind \in {"text", "byte", "view"} -> resolveStringSlice(m, e)

\* s = s + x, in the buffer of s; a byte or a literal without materializing it.
lowerSliceSelfConcat(m, name, x) ==
    LET own(h) == Value(h, m.header[name])
        src == resolveStringSlice(m, x)
    IN  CASE IsLiteral(x) ->
                appendLiteralBytes(ensureSliceCapByCell(own(HeapIn(m)), Len(x.cells)), x.cells)
          [] x.kind = "byte" ->
                appendLiteralBytes(ensureSliceCapByCell(own(HeapIn(m)), 1), <<x.value>>)
          [] OTHER ->
                LET v == ensureSliceCapByCell(own(HeapOf(src)), src.hd.len)
                    itself == IsName(x) /\ x.name = name
                IN  appendBytesFromSlice(v, IF itself THEN v.hd ELSE src.hd, itself)

-----------------------------------------------------------------------------
(* What a loop over two slices computes.                                     *)

MinOf(a, b) == IF a <= b THEN a ELSE b

\* copy(dst, src): backward when the destination lies behind the source.
emitCopy(m, dst, src, size) ==
    LET n == MinOf(dst.len, src.len)
    IN  [m EXCEPT !.stack = CopyLoop(m.stack, dst.ptr, src.ptr, n * size, dst.ptr < src.ptr),
                  !.result = n]

lowerClear(m, hd, size) ==
    [m EXCEPT !.stack = Stored(m.stack, hd.ptr, Zeros(hd.len * size))]

Truth(p) == IF p THEN 1 ELSE 0

\* == and !=: the product of the comparisons of the bytes, if the lengths agree.
lowerSliceCompare(st, a, b, op) ==
    LET same == a.len = b.len /\ \A i \in 0 .. (a.len - 1) : Get(st, a.ptr + i) = Get(st, b.ptr + i)
    IN  Truth(IF op = "==" THEN same ELSE ~same)

\* A mutant of lowerSliceLexCompare: equal strings are forgotten.
LexCompareStrict(st, a, b, op) ==
    LET Ordered(x, y) == IF op \in {"<", "<="} THEN x < y ELSE x > y
        Differ(i) == Get(st, a.ptr + i) # Get(st, b.ptr + i)
        common == 0 .. (MinOf(a.len, b.len) - 1)
        first == CHOOSE i \in common : Differ(i) /\ \A j \in 0 .. (i - 1) : ~Differ(j)
    IN  IF \E i \in common : Differ(i)
        THEN Truth(Ordered(Get(st, a.ptr + first), Get(st, b.ptr + first)))
        ELSE Truth(Ordered(a.len, b.len))

\* <, >, <=, >=: by the first bytes that differ, and by the lengths if none do.
lowerSliceLexCompare(st, a, b, op) ==
    LET Ordered(x, y) == IF op \in {"<", "<="} THEN x < y ELSE x > y
        Differ(i) == Get(st, a.ptr + i) # Get(st, b.ptr + i)
        common == 0 .. (MinOf(a.len, b.len) - 1)
        first == CHOOSE i \in common : Differ(i) /\ \A j \in 0 .. (i - 1) : ~Differ(j)
    IN  IF \E i \in common : Differ(i)
        THEN Truth(Ordered(Get(st, a.ptr + first), Get(st, b.ptr + first)))
        ELSE Truth(Ordered(a.len, b.len) \/ (op \in {"<=", ">="} /\ a.len = b.len))

-----------------------------------------------------------------------------
(* What the Go program means.  A slice is a view of an array; an array is     *)
(* known by its number, and the first is the array variable.                  *)

View(arr, off, len, cap) == [arr |-> arr, off |-> off, len |-> len, cap |-> cap]
GoNil == View(1, 0, 0, 0)

GoCells(g, name) ==
    LET s == g.slices[name] IN SubSeq(g.arrays[s.arr], s.off + 1, s.off + s.len * Size[name])

Padded(cells, n) == cells \o Zeros(n - Len(cells))
GoValue(arrays, sl) == [arrays |-> arrays, slice |-> sl]
GoNew(g, cells, len, cap, size) ==
    GoValue(Append(g.arrays, Padded(cells, cap * size)), View(Len(g.arrays) + 1, 0, len, cap))

GoWrite(arrays, arr, off, cells) == [arrays EXCEPT ![arr] = Stored(@, off, cells)]

\* append: a full slice gets a new array, or, its header `kept' where it was, more
\* room in its own: the growth in place that the README promises "when possible".
GoAppend(g, name, cells, kept) ==
    LET s == g.slices[name]
        size == Size[name]
        newCap == DoubledCap(s.cap)
        grown == IF s.len < s.cap THEN GoValue(g.arrays, s)
                 ELSE IF kept
                      THEN GoValue([g.arrays EXCEPT ![s.arr] = Padded(@, s.off + newCap * size)],
                                   [s EXCEPT !.cap = newCap])
                      ELSE GoNew(g, GoCells(g, name), s.len, newCap, size)
        at == grown.slice
    IN  GoValue(GoWrite(grown.arrays, at.arr, at.off + at.len * size, cells),
                [at EXCEPT !.len = @ + 1])

GoAppendAll(g, name, cells) ==
    LET s == g.slices[name]
        size == Size[name]
        needed == s.len + Len(cells) \div size
    IN  IF needed > s.cap THEN GoNew(g, GoCells(g, name) \o cells, needed, needed, size)
        ELSE GoValue(GoWrite(g.arrays, s.arr, s.off + s.len * size, cells), [s EXCEPT !.len = needed])

GoView(s, x, size) ==
    LET low == Bound(x.low, 0)
    IN  View(s.arr, s.off + low * size, Bound(x.high, s.len) - low, Bound(x.max, s.cap) - low)
GoArray == View(1, 0, Len(Array), Len(Array))

\* The bytes of an operand.
GoText(g, x) ==
    CASE IsName(x)        -> GoCells(g, x.name)
      [] IsLiteral(x)     -> x.cells
      [] x.kind = "byte"  -> <<x.value>>
      [] x.kind = "view"  ->
            LET s == GoView(g.slices[x.name], x, Size[x.name])
            IN  SubSeq(g.arrays[s.arr], s.off + 1, s.off + s.len * Size[x.name])

GoFresh(g, cells, size) == GoNew(g, cells, Len(cells) \div size, Len(cells) \div size, size)

GoEval(g, e, kept) ==
    CASE IsName(e) -> GoValue(g.arrays, g.slices[e.name])
      [] e.kind = "nil" -> GoValue(g.arrays, GoNil)
      [] e.kind = "make" -> GoNew(g, <<>>, e.len, e.cap, e.size)
      [] e.kind = "elements" -> GoFresh(g, e.cells, e.size)
      [] e.kind = "array" -> GoValue(g.arrays, GoView(GoArray, e, 1))
      [] e.kind = "copyOf" -> GoFresh(g, GoCells(g, e.name), 1)
      [] e.kind = "concat" -> GoFresh(g, GoText(g, e.x) \o GoText(g, e.y), 1)
      [] e.kind = "append" -> GoAppend(g, e.name, e.cells, kept)
      [] e.kind = "view" -> GoValue(g.arrays, GoView(g.slices[e.name], e, Size[e.name]))
      [] e.kind \in {"text", "byte"} -> GoFresh(g, GoText(g, e), 1)

GoLess(a, b) ==
    \/ \E i \in DOMAIN a \cap DOMAIN b : a[i] < b[i] /\ SubSeq(a, 1, i - 1) = SubSeq(b, 1, i - 1)
    \/ Len(a) < Len(b) /\ SubSeq(b, 1, Len(a)) = a
GoCompare(a, b, op) ==
    Truth(CASE op = "==" -> a = b
            [] op = "!=" -> a # b
            [] op = "<"  -> GoLess(a, b)
            [] op = ">"  -> GoLess(b, a)
            [] op = "<=" -> ~GoLess(b, a)
            [] op = ">=" -> ~GoLess(a, b))

WithGoSlice(g, name, v) == [g EXCEPT !.arrays = v.arrays, !.slices[name] = v.slice]

-----------------------------------------------------------------------------
(* Statements: records with an op, a destination and operands.               *)

OperandNames(x) == IF x.kind \in {"name", "view", "copyOf", "append"} THEN {x.name} ELSE {}
ExprNames(e) == IF e.kind = "concat" THEN OperandNames(e.x) \cup OperandNames(e.y) ELSE OperandNames(e)
HasSource(st) == st.op \in {"appendAll", "concat", "copy"}
Reads(st) ==
    CASE st.op \in {"compare", "swap", "discard"} -> OperandNames(st.x) \cup OperandNames(st.y)
      [] st.op = "assign" -> ExprNames(st.rhs)
      [] HasSource(st) -> OperandNames(st.src) \cup {st.dst}
      [] OTHER -> {st.dst}

\* A mutant of sliceExprAliasesBuffer: append is taken to make a buffer of its own.
AliasesUnlessAppended(e) == e.kind \in {"view", "array"} \/ (IsName(e) /\ e.name \notin Fields)

\* The value shares its buffer with a variable, as far as the lowerer can tell.
sliceExprAliasesBuffer(e) ==
    e.kind \in {"view", "array", "append"} \/ (IsName(e) /\ e.name \notin Fields)

\* The inner variables whose buffers must outlive the body because of a statement.
markEscaped(st) ==
    Inner \cap CASE st.op = "assign" /\ st.dst \in Fields -> ExprNames(st.rhs)
                 [] st.op = "assign" /\ st.dst \notin Fields /\ sliceExprAliasesBuffer(st.rhs) ->
                        ExprNames(st.rhs) \cup {st.dst}
                 [] st.op \in {"append", "appendAll"} -> Reads(st)
                 [] OTHER -> {}

Execute(m, st) ==
    LET own == Value(HeapIn(m), m.header[st.dst])
        size == Size[st.dst]
    IN  CASE st.op = "assign" -> WithSlice(m, st.dst, lowerSliceExpr(m, st.rhs))
          [] st.op = "append" -> WithSlice(m, st.dst, lowerSliceAppend(own, size, st.cells))
          [] st.op = "appendAll" ->
                LET src == resolveStringSlice(m, st.src)
                    v == lowerSliceAppendSpread(Value(HeapOf(src), own.hd), src.hd,
                                                IsName(st.src) /\ st.src.name = st.dst, size)
                    done == WithSlice(m, st.dst, v)
                IN  IF IsName(st.src) THEN done ELSE WithHeap(done, freeIfHeapTop(HeapOf(v), src.hd))
          [] st.op = "concat" -> WithSlice(m, st.dst, lowerSliceSelfConcat(m, st.dst, st.src))
          [] st.op = "set" ->
                WithHeap(m, WithStack(HeapIn(m),
                                      Stored(m.stack, own.hd.ptr + st.at * size, st.cells)))
          [] st.op = "clear" -> lowerClear(m, own.hd, size)
          [] st.op = "copy" ->
                LET src == resolveStringSlice(m, st.src)
                    done == emitCopy(WithHeap(m, src), own.hd, src.hd, size)
                IN  IF st.src.kind \in {"name", "view"} THEN done
                    ELSE WithHeap(done, freeIfHeapTop(HeapIn(done), src.hd))

\* Statements about two operands.
Relate(m, st) ==
    LET vx == resolveStringSlice(m, st.x)
        vy == resolveStringSlice(WithHeap(m, vx), st.y)
        sum == lowerStringConcat(m, st.x, st.y)
    IN  CASE st.op = "compare" ->
                [WithHeap(m, vy) EXCEPT !.result =
                    IF st.cmp \in {"==", "!="} THEN lowerSliceCompare(vy.stack, vx.hd, vy.hd, st.cmp)
                    ELSE lowerSliceLexCompare(vy.stack, vx.hd, vy.hd, st.cmp)]
          [] st.op = "discard" -> WithHeap(m, freeIfHeapTop(HeapOf(sum), sum.hd))
          [] st.op = "swap" ->
                [m EXCEPT !.header[st.x.name] = m.header[st.y.name],
                          !.header[st.y.name] = m.header[st.x.name]]

IsRelation(st) == st.op \in {"compare", "discard", "swap"}

GoExecute(g, st, kept) ==
    LET s == g.slices[st.dst]
        size == Size[st.dst]
        src == GoText(g, st.src)
        n == MinOf(s.len, Len(src) \div size)
    IN  CASE st.op = "assign" -> WithGoSlice(g, st.dst, GoEval(g, st.rhs, kept))
          [] st.op = "append" -> WithGoSlice(g, st.dst, GoAppend(g, st.dst, st.cells, kept))
          [] st.op = "appendAll" -> WithGoSlice(g, st.dst, GoAppendAll(g, st.dst, src))
          [] st.op = "concat" -> WithGoSlice(g, st.dst, GoFresh(g, GoCells(g, st.dst) \o src, 1))
          [] st.op = "set" -> [g EXCEPT !.arrays = GoWrite(@, s.arr, s.off + st.at * size, st.cells)]
          [] st.op = "clear" -> [g EXCEPT !.arrays = GoWrite(@, s.arr, s.off, Zeros(s.len * size))]
          [] st.op = "copy" ->
                [g EXCEPT !.arrays = GoWrite(@, s.arr, s.off, SubSeq(src, 1, n * size)), !.result = n]

GoRelate(g, st) ==
    CASE st.op = "compare" -> [g EXCEPT !.result = GoCompare(GoText(g, st.x), GoText(g, st.y), st.cmp)]
      [] st.op = "discard" -> g
      [] st.op = "swap" -> [g EXCEPT !.slices[st.x.name] = g.slices[st.y.name],
                                     !.slices[st.y.name] = g.slices[st.x.name]]

-----------------------------------------------------------------------------
(* Statements that Go's types allow.                                         *)

SameType(m, n) == Size[m] = Size[n] /\ (m \in Strings <=> n \in Strings)

\* Bounds are given or left out; a string has no capacity that could be cut.
IsView(x) == {x.low, x.high, x.max} \subseteq Nat \cup {Omitted}
IsPart(x) == IsView(x) /\ (x.name \in Strings => x.max = Omitted)

\* What elements of a size are appended or copied from; a literal fits in a slice.
IsOperand(x, size) ==
    CASE x.kind = "name" -> x.name \in Names /\ Size[x.name] = size
      [] x.kind = "view" -> x.name \in Names /\ Size[x.name] = size /\ IsPart(x)
      [] x.kind = "text" -> size = 1 /\ x.cells \in Seq(Byte) /\ Len(x.cells) < Mod
      [] x.kind = "byte" -> size = 1 /\ x.value \in Byte
      [] OTHER           -> FALSE
IsText(x) == IsOperand(x, 1) /\ (x.kind \in {"name", "view"} => x.name \in Strings)

IsElement(cells, name) == cells \in Seq(Byte) /\ Len(cells) = Size[name]

\* Values that may be assigned to a slice, and to a string.
IsSliceFor(e, dst) ==
    CASE e.kind = "name"   -> e.name \in Names /\ SameType(e.name, dst)
      [] e.kind = "view"   -> e.name \in Names /\ SameType(e.name, dst) /\ IsPart(e)
      [] e.kind = "append" -> e.name \in Names /\ SameType(e.name, dst) /\ IsElement(e.cells, dst)
      [] e.kind = "nil"    -> TRUE
      [] e.kind = "make"   -> e.size = Size[dst] /\ e.cap \in Nat /\ e.len \in 0 .. e.cap
      [] e.kind = "elements" -> /\ e.size = Size[dst] /\ e.cells \in Seq(Byte)
                                /\ Len(e.cells) = (Len(e.cells) \div e.size) * e.size
      [] e.kind = "array"  -> /\ Size[dst] = 1 /\ IsView(e)
                              /\ Bound(e.low, 0) <= Bound(e.high, Len(Array))
                              /\ Bound(e.high, Len(Array)) <= Bound(e.max, Len(Array))
                              /\ Bound(e.max, Len(Array)) <= Len(Array)
      [] e.kind = "copyOf" -> Size[dst] = 1 /\ e.name \in Strings \cap Names
      [] OTHER             -> FALSE
IsStringFor(e) ==
    CASE e.kind = "copyOf" -> e.name \in Names \ Strings /\ Size[e.name] = 1
      [] e.kind = "concat" -> IsText(e.x) /\ IsText(e.y)
      [] OTHER             -> IsText(e)

\* Nothing but an assignment and += is allowed on a string.
WellTyped(st) ==
    CASE st.op = "swap"   -> /\ IsName(st.x) /\ IsName(st.y) /\ {st.x.name, st.y.name} \subseteq Names
                             /\ SameType(st.x.name, st.y.name)
      [] st.op = "discard" -> IsText(st.x) /\ IsText(st.y)
      [] st.op = "compare" -> /\ IsText(st.x) /\ IsText(st.y)
                              /\ st.cmp \in {"==", "!=", "<", ">", "<=", ">="}
      [] st.op = "assign" -> /\ st.dst \in Names
                             /\ IF st.dst \in Strings THEN IsStringFor(st.rhs) ELSE IsSliceFor(st.rhs, st.dst)
      [] st.op = "concat" -> st.dst \in Names \cap Strings /\ IsText(st.src)
      [] st.op = "append" -> st.dst \in Names \ Strings /\ IsElement(st.cells, st.dst)
      [] st.op = "set"    -> st.dst \in Names \ Strings /\ IsElement(st.cells, st.dst) /\ st.at \in Nat
      [] st.op = "clear"  -> st.dst \in Names \ Strings
      [] st.op \in {"appendAll", "copy"} -> st.dst \in Names \ Strings /\ IsOperand(st.src, Size[st.dst])
      [] OTHER -> FALSE

\* Programs are type checked before they are lowered.
ASSUME StatementsAssumption ==
    \A k \in DOMAIN Statements : \A st \in Statements[k] : WellTyped(st)

-----------------------------------------------------------------------------
Init ==
    /\ stack = [i \in 1 .. HeapStart |->
                    IF i - ArrayBase \in DOMAIN Array THEN Array[i - ArrayBase] ELSE 0]
    /\ heapPtr = HeapStart
    /\ header = [n \in Names |-> NilHeader]
    /\ result = 0
    /\ kind \in DOMAIN Statements
    /\ locals \in SUBSET (Inner \cap {st.dst : st \in {st \in Statements[kind] : st.op = "assign"}})
    /\ escaped \in SUBSET locals
    /\ declared = {} /\ unchecked = {} /\ phase = "outside"
    /\ go = [arrays |-> <<Array>>, slices |-> [n \in Names |-> GoNil], result |-> 0]
    /\ steps = 0

Live == Outer \cup Fields \cup (IF phase = "inside" THEN declared ELSE {})

\* What Go itself asks of a view and of an index: else the program panics.
InBounds(slices, x) ==
    x.kind = "view" =>
        LET s == slices[x.name]
            high == Bound(x.high, s.len)
        IN  /\ Bound(x.low, 0) <= high /\ high <= Bound(x.max, s.cap) /\ Bound(x.max, s.cap) <= s.cap
            /\ x.name \in Strings => high <= s.len
Panics(st) ==
    CASE st.op = "assign" ->
            IF st.rhs.kind = "concat" THEN ~(InBounds(go.slices, st.rhs.x) /\ InBounds(go.slices, st.rhs.y))
            ELSE ~InBounds(go.slices, st.rhs)
      [] st.op = "set"    -> st.at >= go.slices[st.dst].len
      [] IsRelation(st)   -> ~(InBounds(go.slices, st.x) /\ InBounds(go.slices, st.y))
      [] HasSource(st)    -> ~InBounds(go.slices, st.src)
      [] OTHER            -> FALSE

\* Statements that the code gets wrong, by the kind of mistake.
\*   s += s, whose source grows while it is copied;
\*   s += x after s was cut short, which overwrites what other strings still hold;
\*   append(b, s[i:j]...), which frees the end of s as if it were temporary;
\*   append(b, c...) into a buffer that c shares, copied forward over c itself;
\*   a variable of the body that takes over a field's slice, and frees it;
\*   a variable of the body that swaps buffers with another, and frees what it got.
Overlaps(slices, dst, x) ==
    /\ IsName(x)
    /\ LET s == slices[dst]
           t == slices[x.name]
           tail == s.off + s.len * Size[dst]
       IN  /\ s.arr = t.arr /\ s.len + t.len <= s.cap
           /\ t.off < tail /\ tail < t.off + t.len * Size[dst]

Mistaken(st) ==
    {mistake \in {"selfConcat", "cutString", "viewSpread", "overlap", "fieldTaken", "swapped"} :
        CASE mistake = "selfConcat" -> st.op = "concat" /\ IsName(st.src) /\ st.src.name = st.dst
          [] mistake = "cutString"  -> st.op = "concat" /\ go.slices[st.dst].len < go.slices[st.dst].cap
          [] mistake = "viewSpread" -> st.op = "appendAll" /\ st.src.kind = "view"
          [] mistake = "overlap"    -> st.op = "appendAll" /\ Overlaps(go.slices, st.dst, st.src)
          [] mistake = "fieldTaken" -> /\ st.op = "assign" /\ st.dst \in Inner \ escaped
                                       /\ IsName(st.rhs) /\ st.rhs.name \in Fields
          [] mistake = "swapped"    -> /\ st.op = "swap"
                                       /\ ~({st.x.name, st.y.name} \cap Inner \subseteq escaped)}

Declares(st) == st.op = "assign" /\ st.dst \in Inner

\* How high the stack gets before a temporary buffer is given back.
Peak(m, st) ==
    CASE st.op = "discard" -> Len(lowerStringConcat(m, st.x, st.y).stack)
      [] st.op = "copy" -> Len(resolveStringSlice(m, st.src).stack)
      [] st.op = "appendAll" ->
            LET src == resolveStringSlice(m, st.src)
            IN  Len(lowerSliceAppendSpread(Value(HeapOf(src), m.header[st.dst]), src.hd, FALSE,
                                           Size[st.dst]).stack)
      [] OTHER -> Len(m.stack)

\* The step of the machine that ends in m, and of the Go program.
Becomes(m, g) ==
    /\ Len(m.stack) <= MaxSlots
    /\ stack' = m.stack /\ heapPtr' = m.top /\ header' = m.header /\ result' = m.result
    /\ go' = g

Statement(st) ==
    /\ phase # "leaving" /\ steps < MaxSteps
    /\ Reads(st) \subseteq Live
    /\ ~Panics(st)
    /\ Mistaken(st) \subseteq Miscompiled
    /\ markEscaped(st) \subseteq escaped
    /\ Peak(Machine, st) <= MaxSlots
    /\ IF Declares(st)
       THEN phase = "inside" /\ st.dst \in locals /\ declared' = declared \cup {st.dst}
       ELSE UNCHANGED declared
    /\ IF IsRelation(st) THEN Becomes(Relate(Machine, st), GoRelate(go, st))
       ELSE LET m == Execute(Machine, st)
            IN  Becomes(m, GoExecute(go, st, m.header[st.dst].ptr =
                     (IF st.op = "assign" /\ st.rhs.kind = "append" THEN header[st.rhs.name]
                      ELSE header[st.dst]).ptr))
    /\ steps' = steps + 1
    /\ UNCHANGED <<program, unchecked, phase>>

EnterBody ==
    /\ phase = "outside" /\ locals # {}
    /\ phase' = "inside" /\ declared' = {}
    /\ UNCHANGED <<stack, heapPtr, header, result, program, unchecked, go, steps>>

\* The end of the body is reached on every path, by a continue before the
\* declarations too: the checks are made for all its variables.
LeaveBody ==
    /\ phase = "inside"
    /\ declared # locals => "skippedDeclaration" \in Miscompiled
    /\ phase' = "leaving" /\ unchecked' = locals \ escaped
    /\ UNCHANGED <<stack, heapPtr, header, result, program, declared, go, steps>>

\* popScope, one variable of the scope after the other, in any order.
popScope ==
    /\ phase = "leaving"
    /\ IF unchecked = {}
       THEN phase' = "outside" /\ UNCHANGED <<stack, heapPtr, unchecked>>
       ELSE \E n \in unchecked :
                LET h == freeIfHeapTop(HeapIn(Machine), header[n])
                IN  /\ stack' = h.stack /\ heapPtr' = h.top
                    /\ unchecked' = unchecked \ {n} /\ UNCHANGED phase
    /\ UNCHANGED <<header, result, program, declared, go, steps>>

Next == EnterBody \/ LeaveBody \/ popScope \/ \E st \in Statements[kind] : Statement(st)

Spec == Init /\ [][Next]_vars

-----------------------------------------------------------------------------
(* Properties. *)

TypeOK ==
    /\ stack \in Seq(Byte) /\ Len(stack) \in HeapStart .. MaxSlots
    /\ heapPtr \in Byte /\ header \in [Names -> Header] /\ result \in Byte
    /\ escaped \subseteq locals /\ locals \subseteq Inner
    /\ declared \subseteq locals /\ unchecked \subseteq locals
    /\ phase \in {"outside", "inside", "leaving"}

\* heapPtr and the pushes and pops of the stack are emitted by separate nodes:
\* they stay in step, so that the next buffer is where the pushed slots are.
HeapTop == heapPtr = Len(stack)

\* A slice that can be read has the length and the elements it has in Go, and
\* room for as many; whatever was stored through another slice in between, and
\* whatever was freed.
SameContents ==
    \A n \in Live :
        /\ header[n].len = go.slices[n].len
        /\ n \notin Strings => header[n].cap = go.slices[n].cap
        /\ Cells(stack, header[n].ptr, header[n].len * Size[n]) = GoCells(go, n)

\* Comparisons and copies give what they give in Go.
SameResult == result = go.result

\* Every array has one home on the heap: slices of one array are as far apart as
\* in Go, slices of two arrays share no slot (but for strings, which may share a
\* beginning), and no home has been given back.
OneHomePerArray ==
    LET Extent(n) == header[n].ptr .. (header[n].ptr + header[n].cap * Size[n] - 1)
        Arr(n) == go.slices[n].arr
    IN  \A m, n \in {n \in Live : header[n].cap > 0} :
            /\ Extent(n) \subseteq 0 .. (heapPtr - 1)
            /\ {m, n} \subseteq Strings
               \/ IF Arr(m) = Arr(n)
                  THEN header[m].ptr - header[n].ptr = go.slices[m].off - go.slices[n].off
                  ELSE Extent(m) \cap Extent(n) = {}
=============================================================================
