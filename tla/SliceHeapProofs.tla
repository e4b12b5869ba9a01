-------------------------- MODULE SliceHeapProofs --------------------------
(***************************************************************************)
(* The slices and strings of the compiled program have the lengths, the    *)
(* capacities and the elements they have in Go, for every modulus, heap    *)
(* start, array variable, bound, set of names and set of well typed        *)
(* statements: no buffer is given back or written over while a name that   *)
(* can be read needs it.                                                   *)
(*                                                                         *)
(* One assumption: the program runs into none of the mistakes of           *)
(* `Miscompiled'.  Each of them breaks the properties: TLC shows it when   *)
(* SliceHeap.cfg admits the mistake.                                       *)
(***************************************************************************)
EXTENDS SliceHeapLemmas, WellFoundedInduction

-----------------------------------------------------------------------------
(* Values of expressions.                                                    *)

\* A name may get the value v, which is V in Go.
Yields(v, V, hdr, slices, held, own, d) ==
    /\ v.top = Len(v.stack)
    /\ \E home : Sound(v.stack, [hdr EXCEPT ![d] = v.hd], V.arrays, [slices EXCEPT ![d] = V.slice],
                       home, held \cup {d}, own)

\* The memory after v is given to a name.
LEMMA GivenStack ==
    ASSUME NEW st, NEW top, NEW hdr, NEW r, NEW d, NEW v, NEW m,
           m = WithSlice(Mach(st, top, hdr, r), d, v)
    PROVE  m.stack = v.stack
<1>1. m = Mach(v.stack, v.top, [hdr EXCEPT ![d] = v.hd], r)
    BY ONLY m = WithSlice(Mach(st, top, hdr, r), d, v), MachWithSlice
<1> QED
    BY ONLY <1>1 DEF Mach

\* A statement that gives a name a value.
LEMMA YieldsStep ==
    ASSUME NEW st, NEW top, NEW hdr, NEW arrays, NEW slices, NEW held, NEW own, NEW r, NEW r2, NEW d, NEW v, NEW V,
           Yields(v, V, hdr, slices, held, own, d),
           NEW m, m = WithSlice(Mach(st, top, hdr, r), d, v),
           NEW g, g = WithGoSlice(GoOf(arrays, slices, r2), d, V)
    PROVE  Agrees(m, g, held \cup {d}, own) /\ m.result = r /\ g.result = r2 /\ Len(m.stack) = Len(v.stack)
<1>1. m = Mach(v.stack, v.top, [hdr EXCEPT ![d] = v.hd], r)
    BY ONLY m = WithSlice(Mach(st, top, hdr, r), d, v), MachWithSlice
<1>2. g = GoOf(V.arrays, [slices EXCEPT ![d] = V.slice], r2)
    BY ONLY g = WithGoSlice(GoOf(arrays, slices, r2), d, V), GoWithSlice
<1>3. /\ m.stack = v.stack /\ m.top = v.top /\ m.header = [hdr EXCEPT ![d] = v.hd] /\ m.result = r
      /\ g.arrays = V.arrays /\ g.slices = [slices EXCEPT ![d] = V.slice] /\ g.result = r2
    BY ONLY <1>1, <1>2 DEF Mach, GoOf
<1> QED
    BY ONLY <1>3, Yields(v, V, hdr, slices, held, own, d) DEF Yields, Agrees

\* A value in a buffer of its own.
FreshValue(st, arrays, d, v, V, base, cells, len, cap) ==
    /\ Extends(st, v.stack) /\ v.top = Len(v.stack) /\ base \in Nat /\ Len(st) <= base
    /\ cells \in Bytes /\ base + Len(cells) <= Len(v.stack) /\ Lies(v.stack, base, cells)
    /\ len \in Nat /\ cap \in Nat /\ len <= cap /\ cap * Size[d] <= Len(cells)
    /\ v.hd = [ptr |-> base, len |-> len, cap |-> cap]
    /\ V.arrays = Append(arrays, cells) /\ V.slice = View(Len(arrays) + 1, 0, len, cap)

\* Every name may get one.
LEMMA YieldsFresh ==
    ASSUME NEW st, NEW hdr, NEW arrays, NEW slices, NEW home, NEW held, NEW own,
           Sound(st, hdr, arrays, slices, home, held, own), NEW d \in Names, NEW v, NEW V,
           NEW base, NEW cells, NEW len, NEW cap, FreshValue(st, arrays, d, v, V, base, cells, len, cap),
           Len(v.stack) <= MaxSlots, NEW own2, own2 \subseteq own \cup {d}
    PROVE  Yields(v, V, hdr, slices, held, own2, d)
<1> DEFINE w == v.stack
<1>1. /\ Extends(st, w) /\ Len(w) <= MaxSlots /\ base \in Nat /\ Len(st) <= base
      /\ cells \in Bytes /\ base + Len(cells) <= Len(w) /\ Lies(w, base, cells)
      /\ len \in Nat /\ cap \in Nat /\ len <= cap /\ cap * Size[d] <= Len(cells)
    BY ONLY FreshValue(st, arrays, d, v, V, base, cells, len, cap), Len(v.stack) <= MaxSlots DEF FreshValue
<1> HIDE DEF w
<1>2. \E home2 :
          Sound(w, [hdr EXCEPT ![d] = [ptr |-> base, len |-> len, cap |-> cap]],
                Append(arrays, cells), [slices EXCEPT ![d] = View(Len(arrays) + 1, 0, len, cap)],
                home2, held \cup {d}, own2)
    BY ONLY <1>1, Sound(st, hdr, arrays, slices, home, held, own), d \in Names, own2 \subseteq own \cup {d}, SoundFresh
<1> QED
    BY ONLY <1>2, FreshValue(st, arrays, d, v, V, base, cells, len, cap) DEF FreshValue, Yields, w

\* A value that is a view of an array in use.
SharedValue(st, arrays, slices, home, held, d, v, V) ==
    /\ v.stack = st /\ v.top = Len(st) /\ V.arrays = arrays /\ v.hd \in Header /\ V.slice \in Slices
    /\ Shows(v.hd, V.slice, Size[d], arrays, home) /\ V.slice.arr \in Used(slices, held)
    /\ d \in Strings => IsNil(v.hd, V.slice) \/ V.slice.arr \in Texts(slices, held)
    /\ d \notin Strings => V.slice.arr \notin Texts(slices, held)

\* A name may get one that no other name owns; it does not own it then.
LEMMA YieldsShared ==
    ASSUME NEW st, NEW hdr, NEW arrays, NEW slices, NEW home, NEW held, NEW own,
           Sound(st, hdr, arrays, slices, home, held, own), NEW d \in Names, NEW v, NEW V,
           SharedValue(st, arrays, slices, home, held, d, v, V),
           NEW own2, own2 \subseteq own \cup {d}, d \in own2 => IsNil(v.hd, V.slice),
           \A n \in own2 \ {d} : IsNil(hdr[n], slices[n]) \/ slices[n].arr # V.slice.arr
    PROVE  Yields(v, V, hdr, slices, held, own2, d)
<1> DEFINE hd == v.hd
           sl == V.slice
<1>1. /\ hd \in Header /\ sl \in Slices
      /\ Shows(hd, sl, Size[d], arrays, home) /\ sl.arr \in Used(slices, held)
      /\ d \in Strings => IsNil(hd, sl) \/ sl.arr \in Texts(slices, held)
      /\ d \notin Strings => sl.arr \notin Texts(slices, held)
    BY ONLY SharedValue(st, arrays, slices, home, held, d, v, V) DEF SharedValue
<1>2. /\ d \in own2 => IsNil(hd, sl)
      /\ \A n \in own2 \ {d} : IsNil(hdr[n], slices[n]) \/ slices[n].arr # sl.arr
    OBVIOUS
<1> HIDE DEF hd, sl
<1>3. Sound(st, [hdr EXCEPT ![d] = hd], arrays, [slices EXCEPT ![d] = sl], home, held \cup {d}, own2)
    BY ONLY <1>1, <1>2, Sound(st, hdr, arrays, slices, home, held, own), d \in Names,
            own2 \subseteq own \cup {d}, SoundAlias
<1> QED
    BY ONLY <1>3, SharedValue(st, arrays, slices, home, held, d, v, V) DEF SharedValue, Yields, hd, sl

\* x = nil.
LEMMA ValueNil ==
    ASSUME NEW st, NEW hdr, NEW arrays, NEW slices, NEW home, NEW held, NEW own,
           Sound(st, hdr, arrays, slices, home, held, own), NEW r, NEW r2, NEW d \in Names \ Strings, NEW kept,
           NEW e, e.kind = "nil", NEW own2, own2 \subseteq own \cup {d},
           NEW v, v = lowerSliceExpr(Mach(st, Len(st), hdr, r), e),
           NEW V, V = GoEval(GoOf(arrays, slices, r2), e, kept)
    PROVE  Yields(v, V, hdr, slices, held, own2, d)
<1>1. v = [stack |-> st, top |-> Len(st), hd |-> NilHeader] /\ V = [arrays |-> arrays, slice |-> GoNil]
    BY ONLY e.kind = "nil", v = lowerSliceExpr(Mach(st, Len(st), hdr, r), e),
            V = GoEval(GoOf(arrays, slices, r2), e, kept)
       DEF lowerSliceExpr, GoEval, IsName, Value, GoValue, HeapIn, Mach, GoOf
<1>2. NilHeader \in Header /\ GoNil \in Slices /\ GoNil.arr = 1
    <2>1. Wrap(0) = 0 /\ 0 \in Byte
        BY ONLY WrapSmall, SliceHeapAssumption
    <2> QED
        BY ONLY <2>1 DEF NilHeader, Hd, Header, GoNil, View, Slices
<1>3. IsNil(v.hd, V.slice)
    BY ONLY <1>1 DEF IsNil
<1>4. 1 \in Used(slices, held) /\ 1 \notin Texts(slices, held)
    BY ONLY TRUE DEF Used, Texts
<1>5. SharedValue(st, arrays, slices, home, held, d, v, V)
    BY ONLY <1>1, <1>2, <1>3, <1>4, d \in Names \ Strings DEF SharedValue, Shows
<1>6. \A n \in own2 \ {d} : IsNil(hdr[n], slices[n]) \/ slices[n].arr # V.slice.arr
    <2>1. \A n \in own2 \ {d} : n \in own
        OBVIOUS
    <2> QED
        BY ONLY <2>1, <1>1, <1>2, Sound(st, hdr, arrays, slices, home, held, own) DEF Sound, Owned, Exclusive
<1> QED
    BY ONLY <1>3, <1>5, <1>6, Sound(st, hdr, arrays, slices, home, held, own), d \in Names \ Strings,
            own2 \subseteq own \cup {d}, YieldsShared

\* x = y, for two names of a type.
LEMMA ValueName ==
    ASSUME NEW st, NEW hdr, NEW arrays, NEW slices, NEW home, NEW held, NEW own,
           Sound(st, hdr, arrays, slices, home, held, own), NEW r, NEW r2, NEW d \in Names, NEW kept,
           NEW e, e.kind = "name", e.name \in held \ own, SameType(e.name, d),
           NEW own2, own2 \subseteq own \ {d},
           NEW v, v = lowerSliceExpr(Mach(st, Len(st), hdr, r), e),
           NEW V, V = GoEval(GoOf(arrays, slices, r2), e, kept)
    PROVE  Yields(v, V, hdr, slices, held, own2, d)
<1> DEFINE n == e.name
<1>1. v = [stack |-> st, top |-> Len(st), hd |-> hdr[n]] /\ V = [arrays |-> arrays, slice |-> slices[n]]
    BY ONLY e.kind = "name", v = lowerSliceExpr(Mach(st, Len(st), hdr, r), e),
            V = GoEval(GoOf(arrays, slices, r2), e, kept)
       DEF lowerSliceExpr, GoEval, IsName, Value, GoValue, HeapIn, Mach, GoOf
<1>2. n \in held /\ n \notin own /\ Size[n] = Size[d] /\ (n \in Strings <=> d \in Strings)
    BY ONLY e.name \in held \ own, SameType(e.name, d) DEF SameType
<1> HIDE DEF n
<1>3. /\ hdr[n] \in Header /\ slices[n] \in Slices /\ slices[n].arr \in Used(slices, held)
      /\ Shows(hdr[n], slices[n], Size[n], arrays, home)
    BY ONLY <1>2, Sound(st, hdr, arrays, slices, home, held, own), NameCells
<1>4. /\ slices[n].arr \in Texts(slices, held) => n \in Strings
      /\ n \in Strings => IsNil(hdr[n], slices[n]) \/ slices[n].arr \in Texts(slices, held)
    BY ONLY <1>2, Sound(st, hdr, arrays, slices, home, held, own), TextUse DEF Sound
<1>5. SharedValue(st, arrays, slices, home, held, d, v, V)
    BY ONLY <1>1, <1>2, <1>3, <1>4 DEF SharedValue
<1>6. \A m \in own2 \ {d} : IsNil(hdr[m], slices[m]) \/ slices[m].arr # V.slice.arr
    <2>1. \A m \in own2 \ {d} : m \in own \ {n}
        BY <1>2
    <2> QED
        BY ONLY <2>1, <1>1, <1>2, Sound(st, hdr, arrays, slices, home, held, own), NotOwned
<1> QED
    BY ONLY <1>5, <1>6, Sound(st, hdr, arrays, slices, home, held, own), d \in Names,
            own2 \subseteq own \ {d}, YieldsShared

\* x = y[low:high:max].
LEMMA ValueView ==
    ASSUME NEW st, NEW hdr, NEW arrays, NEW slices, NEW home, NEW held, NEW own,
           Sound(st, hdr, arrays, slices, home, held, own), NEW r, NEW r2, NEW d \in Names, NEW kept,
           NEW e, e.kind = "view", e.name \in held \ own, SameType(e.name, d), IsView(e), InBounds(slices, e),
           NEW own2, own2 \subseteq own \ {d},
           NEW v, v = lowerSliceExpr(Mach(st, Len(st), hdr, r), e),
           NEW V, V = GoEval(GoOf(arrays, slices, r2), e, kept)
    PROVE  Yields(v, V, hdr, slices, held, own2, d)
<1> DEFINE n == e.name
           size == Size[n]
           h == [stack |-> st, top |-> Len(st)]
           sl == GoView(slices[n], e, size)
<1>1. v = lowerSliceFromSrc(h, hdr[n], e, size) /\ V = [arrays |-> arrays, slice |-> sl]
    BY ONLY e.kind = "view", v = lowerSliceExpr(Mach(st, Len(st), hdr, r), e),
            V = GoEval(GoOf(arrays, slices, r2), e, kept)
       DEF lowerSliceExpr, resolveStringSlice, GoEval, IsName, IsLiteral, Value, GoValue, HeapIn, Mach, GoOf
<1>2. n \in held /\ n \notin own /\ size = Size[d] /\ (n \in Strings <=> d \in Strings)
    BY ONLY e.name \in held \ own, SameType(e.name, d) DEF SameType
<1>7. /\ Bound(e.low, 0) <= Bound(e.high, slices[n].len)
      /\ Bound(e.high, slices[n].len) <= Bound(e.max, slices[n].cap)
      /\ Bound(e.max, slices[n].cap) <= slices[n].cap
    BY ONLY e.kind = "view", InBounds(slices, e) DEF InBounds
<1> HIDE DEF n, h
<1>3. /\ hdr[n] \in Header /\ slices[n] \in Slices /\ slices[n].arr \in Used(slices, held)
      /\ Shows(hdr[n], slices[n], size, arrays, home) /\ size \in Nat \ {0}
    BY ONLY <1>2, Sound(st, hdr, arrays, slices, home, held, own), NameCells
<1>8. /\ v.stack = h.stack /\ v.top = h.top /\ v.hd \in Header /\ sl \in Slices /\ sl.arr = slices[n].arr
      /\ Shows(v.hd, sl, size, arrays, home) /\ (IsNil(hdr[n], slices[n]) => IsNil(v.hd, sl))
    <2> DEFINE hd == hdr[n]
               s == slices[n]
    <2>1. /\ hd \in Header /\ s \in Slices /\ size \in Nat \ {0} /\ Shows(hd, s, size, arrays, home)
          /\ s.arr \in Used(slices, held) /\ IsView(e) /\ Bound(e.low, 0) <= Bound(e.high, s.len)
          /\ Bound(e.high, s.len) <= Bound(e.max, s.cap) /\ Bound(e.max, s.cap) <= s.cap
        BY ONLY <1>3, <1>7, IsView(e)
    <2>2. v = lowerSliceFromSrc(h, hd, e, size) /\ sl = GoView(s, e, size)
        BY ONLY <1>1
    <2> HIDE DEF size, hd, s, sl
    <2>3. LET u == lowerSliceFromSrc(h, hd, e, size)
          IN  /\ u.stack = h.stack /\ u.top = h.top
              /\ u.hd \in Header /\ GoView(s, e, size) \in Slices /\ GoView(s, e, size).arr = s.arr
              /\ Shows(u.hd, GoView(s, e, size), size, arrays, home)
              /\ IsNil(hd, s) => IsNil(u.hd, GoView(s, e, size))
        BY ONLY <2>1, Sound(st, hdr, arrays, slices, home, held, own), ViewShows, ZenonT(30)
    <2> QED
        BY ONLY <2>2, <2>3 DEF hd, s
<1>4. /\ slices[n].arr \in Texts(slices, held) => n \in Strings
      /\ n \in Strings => IsNil(hdr[n], slices[n]) \/ slices[n].arr \in Texts(slices, held)
    BY ONLY <1>2, Sound(st, hdr, arrays, slices, home, held, own), TextUse DEF Sound
<1> HIDE DEF sl
<1>9. v.stack = st /\ v.top = Len(st) /\ V.arrays = arrays /\ V.slice = sl
    BY ONLY <1>1, <1>8 DEF h
<1>5. SharedValue(st, arrays, slices, home, held, d, v, V)
    BY ONLY <1>2, <1>3, <1>4, <1>8, <1>9 DEF SharedValue
<1>6. \A m \in own2 \ {d} : IsNil(hdr[m], slices[m]) \/ slices[m].arr # V.slice.arr
    <2>1. \A m \in own2 \ {d} : m \in own \ {n}
        BY <1>2
    <2> QED
        BY ONLY <2>1, <1>2, <1>8, <1>9, Sound(st, hdr, arrays, slices, home, held, own), NotOwned
<1> QED
    BY ONLY <1>5, <1>6, Sound(st, hdr, arrays, slices, home, held, own), d \in Names,
            own2 \subseteq own \ {d}, YieldsShared

\* x = a[low:high:max], of the array variable.
LEMMA ValueArray ==
    ASSUME NEW st, NEW hdr, NEW arrays, NEW slices, NEW home, NEW held, NEW own,
           Sound(st, hdr, arrays, slices, home, held, own), NEW r, NEW r2, NEW d \in Names \ Strings, NEW kept,
           NEW e, e.kind = "array", IsSliceFor(e, d), NEW own2, own2 \subseteq own \ {d},
           NEW v, v = lowerSliceExpr(Mach(st, Len(st), hdr, r), e),
           NEW V, V = GoEval(GoOf(arrays, slices, r2), e, kept)
    PROVE  Yields(v, V, hdr, slices, held, own2, d)
<1> DEFINE h == [stack |-> st, top |-> Len(st)]
           k == Len(Array)
           hd == Hd(ArrayBase, k, k)
           sl == GoView(GoArray, e, 1)
<1>1. v = lowerSliceFromSrc(h, hd, e, 1) /\ V = [arrays |-> arrays, slice |-> sl]
    BY ONLY e.kind = "array", v = lowerSliceExpr(Mach(st, Len(st), hdr, r), e),
            V = GoEval(GoOf(arrays, slices, r2), e, kept)
       DEF lowerSliceExpr, lowerSliceFromArray, GoEval, IsName, GoValue, HeapIn, Mach, GoOf
<1>2. /\ Size[d] = 1 /\ IsView(e) /\ Bound(e.low, 0) <= Bound(e.high, k)
      /\ Bound(e.high, k) <= Bound(e.max, k) /\ Bound(e.max, k) <= k
    BY ONLY e.kind = "array", IsSliceFor(e, d) DEF IsSliceFor
<1>3. ArrayBase \in Byte /\ k \in Nat /\ k \in Byte /\ hd = [ptr |-> ArrayBase, len |-> k, cap |-> k] /\ hd \in Header
    <2>1. ArrayBase \in Nat /\ k \in Nat /\ ArrayBase < Mod /\ k < Mod
        <3>1. k \in Nat
            BY ONLY SliceHeapAssumption
        <3> HIDE DEF k
        <3>2. ArrayBase + k <= HeapStart
            BY ONLY SliceHeapAssumption DEF k
        <3> QED
            BY ONLY <3>1, <3>2, SliceHeapAssumption
    <2> HIDE DEF k
    <2>2. Wrap(ArrayBase) = ArrayBase /\ Wrap(k) = k /\ ArrayBase \in Byte /\ k \in Byte
        BY ONLY <2>1, WrapSmall
    <2> QED
        BY ONLY <2>1, <2>2 DEF Hd, Header
<1>4. /\ GoArray \in Slices /\ GoArray.arr = 1 /\ GoArray.len = k /\ GoArray.cap = k
      /\ 1 \in Used(slices, held) /\ 1 \notin Texts(slices, held)
    BY ONLY <1>3 DEF GoArray, View, Slices, Used, Texts
<1>5. Shows(hd, GoArray, 1, arrays, home)
    <2>1. 1 \in 1 .. Len(arrays) /\ home[1] = ArrayBase /\ k <= Len(arrays[1])
        BY ONLY Sound(st, hdr, arrays, slices, home, held, own) DEF Sound, Typed
    <2> HIDE DEF k, hd
    <2>2. hd.ptr = ArrayBase + 0 /\ hd.len = k /\ hd.cap = k /\ 0 + k * 1 <= Len(arrays[1]) /\ k <= k
        <3> DEFINE n == Len(arrays[1])
        <3>1. ArrayBase \in Nat /\ k \in Nat /\ k <= n
            BY ONLY <2>1, <1>3, SliceHeapAssumption
        <3> HIDE DEF n
        <3>2. ArrayBase + 0 = ArrayBase /\ 0 + k * 1 <= n /\ k <= k
            BY ONLY <3>1
        <3> QED
            BY ONLY <3>2, <1>3 DEF n
    <2>3. GoArray.arr = 1 /\ GoArray.off = 0 /\ GoArray.len = k /\ GoArray.cap = k
        BY ONLY TRUE DEF GoArray, View, k
    <2> QED
        BY ONLY <2>1, <2>2, <2>3 DEF Shows
<1> HIDE DEF hd, k, h
<1>6. /\ v.stack = h.stack /\ v.top = h.top /\ v.hd \in Header /\ sl \in Slices /\ sl.arr = GoArray.arr
      /\ Shows(v.hd, sl, 1, arrays, home)
    <2> DEFINE s == GoArray
               size == 1
    <2>1. /\ hd \in Header /\ s \in Slices /\ size \in Nat \ {0} /\ Shows(hd, s, size, arrays, home)
          /\ s.arr \in Used(slices, held) /\ IsView(e) /\ Bound(e.low, 0) <= Bound(e.high, s.len)
          /\ Bound(e.high, s.len) <= Bound(e.max, s.cap) /\ Bound(e.max, s.cap) <= s.cap
        BY ONLY <1>2, <1>3, <1>4, <1>5
    <2>2. v = lowerSliceFromSrc(h, hd, e, size) /\ sl = GoView(s, e, size)
        BY ONLY <1>1
    <2> HIDE DEF size, s, sl
    <2>3. LET u == lowerSliceFromSrc(h, hd, e, size)
          IN  /\ u.stack = h.stack /\ u.top = h.top
              /\ u.hd \in Header /\ GoView(s, e, size) \in Slices /\ GoView(s, e, size).arr = s.arr
              /\ Shows(u.hd, GoView(s, e, size), size, arrays, home)
              /\ IsNil(hd, s) => IsNil(u.hd, GoView(s, e, size))
        BY ONLY <2>1, Sound(st, hdr, arrays, slices, home, held, own), ViewShows, ZenonT(30)
    <2> QED
        BY ONLY <2>2, <2>3 DEF s, size
<1> HIDE DEF sl
<1>7. v.stack = st /\ v.top = Len(st) /\ V.arrays = arrays /\ V.slice = sl
    BY ONLY <1>1, <1>6 DEF h
<1>8. SharedValue(st, arrays, slices, home, held, d, v, V)
    BY ONLY <1>2, <1>4, <1>6, <1>7, d \in Names \ Strings DEF SharedValue
<1>9. \A n \in own2 \ {d} : IsNil(hdr[n], slices[n]) \/ slices[n].arr # V.slice.arr
    BY ONLY <1>4, <1>6, <1>7, own2 \subseteq own \ {d}, Sound(st, hdr, arrays, slices, home, held, own)
       DEF Sound, Owned, Exclusive
<1> QED
    BY ONLY <1>8, <1>9, Sound(st, hdr, arrays, slices, home, held, own), d \in Names \ Strings,
            own2 \subseteq own \ {d}, YieldsShared

\* What a pushed buffer is (pushHeapRegion).
LEMMA PushedValue ==
    ASSUME NEW st \in Bytes, NEW n \in Nat, Len(st) + n <= MaxSlots, NEW len \in Nat, len <= n,
           NEW cap \in Nat, cap <= n
    PROVE  pushHeapRegion([stack |-> st, top |-> Len(st)], n, len, cap) =
               [stack |-> st \o Zeros(n), top |-> Len(st) + n, hd |-> [ptr |-> Len(st), len |-> len, cap |-> cap]]
<1> DEFINE top == Len(st)
           v == pushHeapRegion([stack |-> st, top |-> Len(st)], n, len, cap)
<1>1. top \in Nat /\ top + n <= MaxSlots
    BY ONLY st \in Bytes, Len(st) + n <= MaxSlots DEF Bytes
<1> HIDE DEF top
<1>2. top < Mod /\ top + n \in Nat /\ top + n < Mod /\ len < Mod /\ cap < Mod
    BY ONLY <1>1, n \in Nat, len \in Nat, len <= n, cap \in Nat, cap <= n, SliceHeapAssumption
<1>3. Wrap(top) = top /\ Wrap(top + n) = top + n /\ Wrap(len) = len /\ Wrap(cap) = cap
    BY ONLY <1>1, <1>2, len \in Nat, cap \in Nat, WrapSmall
<1>4. v = pushHeapRegion([stack |-> st, top |-> top], n, len, cap)
    BY DEF top
<1>5. v = [stack |-> st \o Zeros(n), top |-> top + n, hd |-> [ptr |-> top, len |-> len, cap |-> cap]]
    BY ONLY <1>3, <1>4 DEF pushHeapRegion, Pushed, Value, Hd
<1> QED
    BY ONLY <1>5 DEF top

\* make and literals: cells in front of a fresh buffer (sliceMake, evalSliceLiteral).
LEMMA FreshCells ==
    ASSUME NEW st \in Bytes, NEW n \in Nat, Len(st) + n <= MaxSlots, NEW cells \in Bytes, Len(cells) <= n,
           NEW d \in Names, NEW len \in Nat, NEW cap \in Nat, len <= cap, cap * Size[d] = n,
           NEW arrays, NEW v, NEW V,
           v = [stack |-> Stored(st \o Zeros(n), Len(st), cells), top |-> Len(st) + n,
                hd |-> [ptr |-> Len(st), len |-> len, cap |-> cap]],
           V = [arrays |-> Append(arrays, Padded(cells, n)), slice |-> View(Len(arrays) + 1, 0, len, cap)]
    PROVE  FreshValue(st, arrays, d, v, V, Len(st), Padded(cells, n), len, cap) /\ Len(v.stack) <= MaxSlots
<1> DEFINE w == Stored(st \o Zeros(n), Len(st), cells)
           c == Padded(cells, n)
           top == Len(st)
<1>1. /\ Extends(st, w) /\ Len(w) = Len(st) + n /\ c \in Bytes /\ Len(c) = n /\ Lies(w, Len(st), c)
    BY ONLY st \in Bytes, n \in Nat, cells \in Bytes, Len(cells) <= n, FreshStored
<1>2. v.stack = w /\ v.top = top + n /\ v.hd = [ptr |-> top, len |-> len, cap |-> cap]
      /\ V.arrays = Append(arrays, c) /\ V.slice = View(Len(arrays) + 1, 0, len, cap)
    OBVIOUS
<1>3. top \in Nat
    BY ONLY st \in Bytes DEF Bytes
<1>4. Len(w) = top + n /\ Lies(w, top, c)
    BY ONLY <1>1
<1> HIDE DEF w, c
<1>5. top <= top /\ top + Len(c) <= Len(w) /\ cap * Size[d] <= Len(c)
    <2> HIDE DEF top
    <2> QED
        BY ONLY <1>1, <1>3, <1>4, n \in Nat, cap * Size[d] = n
<1>6. FreshValue(st, arrays, d, v, V, top, c, len, cap)
    <2> HIDE DEF top
    <2> QED
        BY ONLY <1>1, <1>2, <1>3, <1>4, <1>5, len \in Nat, cap \in Nat, len <= cap DEF FreshValue
<1> QED
    BY ONLY <1>1, <1>2, <1>6, Len(st) + n <= MaxSlots DEF c, top

\* x = make([]T, len, cap).
LEMMA ValueMake ==
    ASSUME NEW st, NEW hdr, NEW arrays, NEW slices, NEW home, NEW held, NEW own,
           Sound(st, hdr, arrays, slices, home, held, own), NEW r, NEW r2, NEW d \in Names, NEW kept,
           NEW e, e.kind = "make", IsSliceFor(e, d), NEW own2, own2 \subseteq own \cup {d},
           NEW v, v = lowerSliceExpr(Mach(st, Len(st), hdr, r), e), Len(v.stack) <= MaxSlots,
           NEW V, V = GoEval(GoOf(arrays, slices, r2), e, kept)
    PROVE  Yields(v, V, hdr, slices, held, own2, d)
<1> DEFINE size == Size[d]
           n == e.cap * size
           h == [stack |-> st, top |-> Len(st)]
<1>1. e.size = size /\ e.cap \in Nat /\ e.len \in Nat /\ e.len <= e.cap
    BY ONLY e.kind = "make", IsSliceFor(e, d) DEF IsSliceFor
<1>2. size \in Nat \ {0}
    BY ONLY d \in Names, Sizes
<1>3. n \in Nat /\ e.cap <= n /\ e.len <= n
    <2>1. n \in Nat /\ e.cap <= n
        <3> HIDE DEF size
        <3> QED
            BY ONLY <1>1, <1>2, Times
    <2> DEFINE len == e.len
               cap == e.cap
    <2>2. len \in Nat /\ cap \in Nat /\ len <= cap /\ cap <= n
        BY ONLY <1>1, <2>1
    <2> HIDE DEF len, cap, n
    <2>3. len <= n
        BY ONLY <2>1, <2>2
    <2> QED
        BY ONLY <2>1, <2>3 DEF len
<1>4. st \in Bytes
    BY ONLY Sound(st, hdr, arrays, slices, home, held, own) DEF Sound, Typed
<1>5. v = pushHeapRegion(h, n, e.len, e.cap)
    <2>1. v = pushHeapRegion(h, e.cap * e.size, e.len, e.cap)
        BY ONLY e.kind = "make", v = lowerSliceExpr(Mach(st, Len(st), hdr, r), e)
           DEF lowerSliceExpr, IsName, HeapIn, Mach, sliceMake
    <2> QED
        BY ONLY <2>1, <1>1
<1>6. V = [arrays |-> Append(arrays, Padded(<< >>, n)), slice |-> View(Len(arrays) + 1, 0, e.len, e.cap)]
    <2>1. V = GoNew(GoOf(arrays, slices, r2), << >>, e.len, e.cap, e.size)
        BY ONLY e.kind = "make", V = GoEval(GoOf(arrays, slices, r2), e, kept) DEF GoEval, IsName
    <2> QED
        BY ONLY <2>1, <1>1 DEF GoNew, GoOf, GoValue
<1> HIDE DEF n, size
<1>7. Len(st) + n <= MaxSlots
    <2>1. v.stack = st \o Zeros(n)
        BY ONLY <1>5 DEF pushHeapRegion, Pushed, Value
    <2> QED
        BY ONLY <2>1, <1>3, <1>4, Len(v.stack) <= MaxSlots, PushedSeq
<1>8. v = [stack |-> st \o Zeros(n), top |-> Len(st) + n, hd |-> [ptr |-> Len(st), len |-> e.len, cap |-> e.cap]]
    <2> DEFINE len == e.len
               cap == e.cap
    <2>1. /\ len \in Nat /\ cap \in Nat /\ len <= n /\ cap <= n
          /\ v = pushHeapRegion([stack |-> st, top |-> Len(st)], n, len, cap)
        BY ONLY <1>1, <1>3, <1>5
    <2> HIDE DEF len, cap
    <2>2. v = [stack |-> st \o Zeros(n), top |-> Len(st) + n, hd |-> [ptr |-> Len(st), len |-> len, cap |-> cap]]
        BY ONLY <2>1, <1>3, <1>4, <1>7, PushedValue, ZenonT(30)
    <2> QED
        BY ONLY <2>2 DEF len, cap
<1>9. Stored(st \o Zeros(n), Len(st), << >>) = st \o Zeros(n) /\ << >> \in Bytes /\ Len(<< >>) = 0
    <2>1. Len(st) \in Nat
        BY ONLY <1>4 DEF Bytes
    <2>2. st \o Zeros(n) \in Bytes
        BY ONLY <1>3, <1>4, PushedSeq
    <2>3. << >> \in Bytes /\ Len(<< >>) = 0
        BY ONLY EmptySeq DEF Bytes
    <2> DEFINE w == st \o Zeros(n)
               k == Len(st)
    <2>4. w \in Bytes /\ k \in Nat
        BY ONLY <2>1, <2>2
    <2> HIDE DEF w, k
    <2>5. Stored(w, k, << >>) = w
        BY ONLY <2>4, StoredNothing
    <2> QED
        BY ONLY <2>3, <2>5 DEF w, k
<1>10. FreshValue(st, arrays, d, v, V, Len(st), Padded(<< >>, n), e.len, e.cap)
    <2> DEFINE cells == << >>
    <2>1. cells \in Bytes /\ Len(cells) <= n
        BY ONLY <1>3, <1>9
    <2>2. e.cap * Size[d] = n
        BY ONLY TRUE DEF n, size
    <2>3. v = [stack |-> Stored(st \o Zeros(n), Len(st), cells), top |-> Len(st) + n,
               hd |-> [ptr |-> Len(st), len |-> e.len, cap |-> e.cap]]
        BY ONLY <1>8, <1>9
    <2>4. V = [arrays |-> Append(arrays, Padded(cells, n)), slice |-> View(Len(arrays) + 1, 0, e.len, e.cap)]
        BY ONLY <1>6
    <2> HIDE DEF cells
    <2>5. FreshValue(st, arrays, d, v, V, Len(st), Padded(cells, n), e.len, e.cap)
        BY ONLY <2>1, <2>2, <2>3, <2>4, <1>1, <1>3, <1>4, <1>7, d \in Names, FreshCells
    <2> QED
        BY ONLY <2>5 DEF cells
<1> QED
    BY ONLY <1>10, Len(v.stack) <= MaxSlots, Sound(st, hdr, arrays, slices, home, held, own), d \in Names,
            own2 \subseteq own \cup {d}, YieldsFresh

\* x = []T{...}.
LEMMA ValueElements ==
    ASSUME NEW st, NEW hdr, NEW arrays, NEW slices, NEW home, NEW held, NEW own,
           Sound(st, hdr, arrays, slices, home, held, own), NEW r, NEW r2, NEW d \in Names, NEW kept,
           NEW e, e.kind = "elements", IsSliceFor(e, d), NEW own2, own2 \subseteq own \cup {d},
           NEW v, v = lowerSliceExpr(Mach(st, Len(st), hdr, r), e), Len(v.stack) <= MaxSlots,
           NEW V, V = GoEval(GoOf(arrays, slices, r2), e, kept)
    PROVE  Yields(v, V, hdr, slices, held, own2, d)
<1> DEFINE size == Size[d]
           cells == e.cells
           n == Len(cells)
           len == n \div size
           h == [stack |-> st, top |-> Len(st)]
           u == pushHeapRegion(h, n, len, len)
<1>1. e.size = size /\ cells \in Bytes /\ n = len * size
    BY ONLY e.kind = "elements", IsSliceFor(e, d) DEF IsSliceFor, Bytes
<1>2. size \in Nat \ {0} /\ st \in Bytes
    BY ONLY d \in Names, Sizes, Sound(st, hdr, arrays, slices, home, held, own) DEF Sound, Typed
<1>3. v = [u EXCEPT !.stack = Stored(u.stack, u.hd.ptr, cells)]
    <2>1. v = evalSliceLiteral(h, cells, e.size)
        BY ONLY e.kind = "elements", v = lowerSliceExpr(Mach(st, Len(st), hdr, r), e)
           DEF lowerSliceExpr, IsName, HeapIn, Mach
    <2> HIDE DEF size
    <2> QED
        BY ONLY <2>1, <1>1 DEF evalSliceLiteral
<1>4. V = [arrays |-> Append(arrays, Padded(cells, len * size)), slice |-> View(Len(arrays) + 1, 0, len, len)]
    <2>1. V = GoFresh(GoOf(arrays, slices, r2), cells, e.size)
        BY ONLY e.kind = "elements", V = GoEval(GoOf(arrays, slices, r2), e, kept) DEF GoEval, IsName
    <2> HIDE DEF size, cells
    <2> QED
        BY ONLY <2>1, <1>1 DEF GoFresh, GoNew, GoOf, GoValue
<1> HIDE DEF cells, size
<1>5. n \in Nat /\ len \in Nat /\ len <= n
    <2>1. n \in Nat
        BY ONLY <1>1 DEF Bytes
    <2> HIDE DEF n
    <2>2. len \in Nat
        BY ONLY <2>1, <1>2
    <2> HIDE DEF len
    <2> QED
        BY ONLY <1>1, <1>2, <2>1, <2>2, Times
<1> HIDE DEF n, len
<1>6. Len(st) + n <= MaxSlots
    <2>1. u = [stack |-> st \o Zeros(n), top |-> Wrap(Len(st) + n), hd |-> Hd(Len(st), len, len)]
        BY ONLY TRUE DEF pushHeapRegion, Pushed, Value
    <2> HIDE DEF u
    <2>2. v.stack = Stored(st \o Zeros(n), u.hd.ptr, cells)
        BY ONLY <2>1, <1>3
    <2>3. DOMAIN (st \o Zeros(n)) = 1 .. Len(st \o Zeros(n)) /\ Len(st \o Zeros(n)) \in Nat
          /\ Len(st \o Zeros(n)) = Len(st) + n
        <3> DEFINE w == st \o Zeros(n)
        <3>1. w \in Bytes /\ Len(w) = Len(st) + n
            BY ONLY <1>2, <1>5, PushedSeq
        <3> HIDE DEF w
        <3>2. DOMAIN w = 1 .. Len(w) /\ Len(w) \in Nat
            BY ONLY <3>1 DEF Bytes
        <3> QED
            BY ONLY <3>1, <3>2 DEF w
    <2> QED
        BY ONLY <2>2, <2>3, Len(v.stack) <= MaxSlots, StoredLength, ZenonT(30)
<1>7. u = [stack |-> st \o Zeros(n), top |-> Len(st) + n, hd |-> [ptr |-> Len(st), len |-> len, cap |-> len]]
    BY ONLY <1>2, <1>5, <1>6, PushedValue
<1>8. v = [stack |-> Stored(st \o Zeros(n), Len(st), cells), top |-> Len(st) + n,
           hd |-> [ptr |-> Len(st), len |-> len, cap |-> len]]
    <2> HIDE DEF u
    <2> DEFINE w == st \o Zeros(n)
               k == Len(st)
    <2>1. u = [stack |-> w, top |-> k + n, hd |-> [ptr |-> k, len |-> len, cap |-> len]]
        BY ONLY <1>7
    <2> HIDE DEF w, k
    <2>2. v = [[stack |-> w, top |-> k + n, hd |-> [ptr |-> k, len |-> len, cap |-> len]] EXCEPT !.stack = Stored(w, k, cells)]
        BY ONLY <2>1, <1>3
    <2>3. v = [stack |-> Stored(w, k, cells), top |-> k + n, hd |-> [ptr |-> k, len |-> len, cap |-> len]]
        BY ONLY <2>2
    <2> QED
        BY ONLY <2>3 DEF w, k
<1>9. Len(cells) <= n /\ len * Size[d] = n
    BY ONLY <1>1, <1>5 DEF n, size
<1>10. V = [arrays |-> Append(arrays, Padded(cells, n)), slice |-> View(Len(arrays) + 1, 0, len, len)]
    BY ONLY <1>1, <1>4
<1>11. FreshValue(st, arrays, d, v, V, Len(st), Padded(cells, n), len, len)
    BY ONLY <1>1, <1>2, <1>5, <1>6, <1>8, <1>9, <1>10, d \in Names, FreshCells
<1> QED
    BY ONLY <1>11, Len(v.stack) <= MaxSlots, Sound(st, hdr, arrays, slices, home, held, own), d \in Names,
            own2 \subseteq own \cup {d}, YieldsFresh

\* s = "..." and s = string(b).
LEMMA ValueText ==
    ASSUME NEW st, NEW hdr, NEW arrays, NEW slices, NEW home, NEW held, NEW own,
           Sound(st, hdr, arrays, slices, home, held, own), NEW r, NEW r2, NEW d \in Names, Size[d] = 1, NEW kept,
           NEW e, IsTemporary(e), IsOperand(e, 1), NEW own2, own2 \subseteq own \cup {d},
           NEW v, v = lowerSliceExpr(Mach(st, Len(st), hdr, r), e), Len(v.stack) <= MaxSlots,
           NEW V, V = GoEval(GoOf(arrays, slices, r2), e, kept)
    PROVE  Yields(v, V, hdr, slices, held, own2, d)
<1> DEFINE t == GoText(GoOf(arrays, slices, r2), e)
           w == Width(e)
           base == Len(st)
<1>1. e.kind \in {"text", "byte"} /\ ~IsName(e)
    BY ONLY IsTemporary(e) DEF IsTemporary, IsName
<1>2. v = resolveStringSlice(Mach(st, Len(st), hdr, r), e)
    BY ONLY <1>1, v = lowerSliceExpr(Mach(st, Len(st), hdr, r), e) DEF lowerSliceExpr
<1>3. V = GoFresh(GoOf(arrays, slices, r2), t, 1)
    BY ONLY <1>1, V = GoEval(GoOf(arrays, slices, r2), e, kept) DEF GoEval
<1>4. st \in Bytes /\ base \in Nat
    BY ONLY Sound(st, hdr, arrays, slices, home, held, own) DEF Sound, Typed, Bytes
<1>5. w \in Nat /\ base + w <= MaxSlots
    <2>1. /\ resolveStringSlice(Mach(st, base, hdr, r), e).stack \in Bytes /\ w \in Nat
          /\ Len(resolveStringSlice(Mach(st, base, hdr, r), e).stack) = Len(st) + w
        <3> HIDE DEF base, w
        <3> QED
            BY ONLY <1>4, IsOperand(e, 1), OperandWidth DEF w
    <2> QED
        BY ONLY <2>1, <1>2, Len(v.stack) <= MaxSlots
<1>6. OperandNames(e) \subseteq held /\ InBounds(slices, e)
    BY ONLY <1>1 DEF OperandNames, InBounds
<1> HIDE DEF t, w
<1>7. /\ v.hd \in Header /\ t \in Bytes /\ Len(t) = v.hd.len * 1
      /\ Extends(st, v.stack) /\ Len(v.stack) = Len(st) + Width(e) /\ v.top = Len(v.stack)
      /\ Lies(v.stack, v.hd.ptr, t)
      /\ v.hd.ptr = Len(st) /\ v.hd.len = Width(e) /\ v.hd.cap = Width(e)
    <2>1. 1 \in Nat \ {0} /\ t = GoText(GoOf(arrays, slices, r2), e) /\ Len(st) + Width(e) <= MaxSlots
        BY ONLY <1>5 DEF t, w
    <2> QED
        BY ONLY <2>1, <1>2, <1>6, IsOperand(e, 1), IsTemporary(e), Sound(st, hdr, arrays, slices, home, held, own),
                OperandLies
<1>8. Len(t) = w /\ Len(v.stack) = base + w /\ Lies(v.stack, base, t) /\ v.hd = [ptr |-> base, len |-> w, cap |-> w]
    BY ONLY <1>5, <1>7 DEF w, Header
<1>9. V.arrays = Append(arrays, t) /\ V.slice = View(Len(arrays) + 1, 0, w, w)
    <2>1. Len(t) \div 1 = w /\ w * 1 = w
        BY ONLY <1>5, <1>8
    <2>2. Padded(t, w) = t
        BY ONLY <1>7, <1>8, PaddedFull
    <2> QED
        BY ONLY <1>3, <2>1, <2>2 DEF GoFresh, GoNew, GoOf, GoValue
<1>10. FreshValue(st, arrays, d, v, V, base, t, w, w)
    <2>1. w <= w /\ w * Size[d] <= Len(t) /\ base <= base /\ base + Len(t) <= Len(v.stack)
        <3> HIDE DEF base
        <3> QED
            BY ONLY <1>4, <1>5, <1>8, Size[d] = 1
    <2> HIDE DEF base
    <2> QED
        BY ONLY <2>1, <1>4, <1>5, <1>7, <1>8, <1>9 DEF FreshValue
<1> QED
    BY ONLY <1>10, Len(v.stack) <= MaxSlots, Sound(st, hdr, arrays, slices, home, held, own), d \in Names,
            own2 \subseteq own \cup {d}, YieldsFresh

-----------------------------------------------------------------------------
(* Strings put together.                                                     *)

\* A buffer at p whose first k cells are filled.
Filling(w, top, p, k, cap) == [stack |-> w, top |-> top, hd |-> [ptr |-> p, len |-> k, cap |-> cap]]

\* Bytes of a literal are put behind (appendLiteralBytes).
LEMMA AppendedLiteral ==
    ASSUME NEW w, NEW top, NEW p, NEW k \in Nat, NEW cap, NEW t \in Bytes, k + Len(t) < Mod
    PROVE  appendLiteralBytes(Filling(w, top, p, k, cap), t) =
               Filling(Stored(w, p + k, t), top, p, k + Len(t), cap)
<1> DEFINE n == k + Len(t)
           q == appendLiteralBytes(Filling(w, top, p, k, cap), t)
<1>1. Wrap(n) = n
    BY ONLY k \in Nat, t \in Bytes, k + Len(t) < Mod, WrapSmall DEF Bytes
<1>2. q = [[stack |-> w, top |-> top, hd |-> [ptr |-> p, len |-> k, cap |-> cap]]
              EXCEPT !.stack = Stored(w, p + k, t), !.hd.len = Wrap(n)]
    BY ONLY TRUE DEF appendLiteralBytes, Filling
<1> HIDE DEF n, q
<1>3. q = [[stack |-> w, top |-> top, hd |-> [ptr |-> p, len |-> k, cap |-> cap]]
              EXCEPT !.stack = Stored(w, p + k, t), !.hd.len = n]
    BY ONLY <1>1, <1>2
<1>4. q = [stack |-> Stored(w, p + k, t), top |-> top, hd |-> [ptr |-> p, len |-> n, cap |-> cap]]
    BY ONLY <1>3
<1> QED
    BY ONLY <1>4 DEF q, n, Filling

\* Bytes of a slice are put behind, which do not lie there (appendBytesFromSlice).
PutBytes(v, hd) == appendBytesFromSlice(v, hd, FALSE)

LEMMA AppendedBytes ==
    ASSUME NEW w \in Bytes, NEW top, NEW p \in Nat, NEW k \in Nat, NEW cap, NEW t \in Bytes,
           NEW n \in Nat, n = k + Len(t), n < Mod, NEW at \in Nat, at = p + k,
           NEW src, src.ptr \in Nat, src.len = Len(t), Lies(w, src.ptr, t),
           at <= src.ptr \/ src.ptr + Len(t) <= at
    PROVE  PutBytes(Filling(w, top, p, k, cap), src) = Filling(Stored(w, at, t), top, p, n, cap)
<1> DEFINE from == src.ptr
           q == PutBytes(Filling(w, top, p, k, cap), src)
<1>1. Wrap(n) = n
    BY ONLY n \in Nat, n < Mod, WrapSmall
<1>2. q = [[stack |-> w, top |-> top, hd |-> [ptr |-> p, len |-> k, cap |-> cap]]
              EXCEPT !.stack = copyHeapBytes(w, at, from, Len(t)), !.hd.len = Wrap(n)]
    BY ONLY src.len = Len(t), n = k + Len(t), at = p + k DEF PutBytes, appendBytesFromSlice, Filling
<1>3. copyHeapBytes(w, at, from, Len(t)) = Stored(w, at, t)
    <2>1. at \in Nat /\ from \in Nat /\ Lies(w, from, t) /\ (at <= from \/ from + Len(t) <= at)
        OBVIOUS
    <2> HIDE DEF from
    <2> QED
        BY ONLY <2>1, w \in Bytes, t \in Bytes, CopyForward
<1> HIDE DEF q
<1>4. q = [[stack |-> w, top |-> top, hd |-> [ptr |-> p, len |-> k, cap |-> cap]]
              EXCEPT !.stack = Stored(w, at, t), !.hd.len = n]
    BY ONLY <1>1, <1>2, <1>3
<1>5. q = [stack |-> Stored(w, at, t), top |-> top, hd |-> [ptr |-> p, len |-> n, cap |-> cap]]
    BY ONLY <1>4
<1> QED
    BY ONLY <1>5 DEF q, Filling

\* Cells that are filled get t behind them, in a buffer behind the stack.
LEMMA FilledMore ==
    ASSUME NEW st \in Bytes, NEW w, Extends(st, w), NEW c \in Bytes, NEW base \in Nat, Len(st) <= base,
           Lies(w, base, c), NEW t \in Bytes, base + Len(c) + Len(t) <= Len(w),
           NEW u, u = Stored(w, base + Len(c), t)
    PROVE  /\ u \in Bytes /\ Len(u) = Len(w) /\ Extends(st, u)
           /\ Lies(u, base, c \o t)
<1> DEFINE at == base + Len(c)
<1>1. Len(c) \in Nat /\ Len(t) \in Nat /\ Len(st) \in Nat
    BY ONLY c \in Bytes, t \in Bytes, st \in Bytes DEF Bytes
<1>2. at \in Nat /\ Len(st) <= at /\ base <= at /\ at + Len(t) <= Len(w)
    BY ONLY <1>1, base \in Nat, Len(st) <= base, base + Len(c) + Len(t) <= Len(w)
<1>3. w \in Bytes
    BY ONLY Extends(st, w) DEF Extends
<1>4. u = Stored(w, at, t)
    OBVIOUS
<1>5. Apart(base, Len(c), at, Len(t))
    BY ONLY <1>1, base \in Nat DEF Apart
<1> HIDE DEF at
<1>6. u \in Bytes /\ Len(u) = Len(w)
    BY ONLY <1>2, <1>3, <1>4, t \in Bytes, StoredSeq
<1>7. Extends(st, u)
    BY ONLY <1>2, <1>4, st \in Bytes, t \in Bytes, Extends(st, w), ExtendsStored
<1>8. Lies(u, base, c)
    BY ONLY <1>2, <1>3, <1>4, <1>5, c \in Bytes, t \in Bytes, base \in Nat, Lies(w, base, c), StoredElsewhere
<1>9. Lies(u, at, t)
    BY ONLY <1>2, <1>3, <1>4, t \in Bytes, StoredLies
<1> QED
    BY ONLY <1>6, <1>7, <1>8, <1>9, c \in Bytes, t \in Bytes, base \in Nat, LiesConcat DEF at

\* An operand of a concatenation, whose literals are not put into a buffer, and
\* what it puts behind the bytes of a buffer.
ConcatOperand(st, top, hdr, r, x) ==
    IF IsLiteral(x) THEN Value([stack |-> st, top |-> top], Hd(0, Len(x.cells), 0))
    ELSE resolveStringSlice(Mach(st, top, hdr, r), x)
Put(v, x, hd) == IF IsLiteral(x) THEN appendLiteralBytes(v, x.cells) ELSE PutBytes(v, hd)

\* The parts of lowerStringConcat.
LEMMA ConcatParts ==
    ASSUME NEW st, NEW top, NEW hdr, NEW r, NEW x, NEW y,
           NEW vx, vx = ConcatOperand(st, top, hdr, r, x),
           NEW vy, vy = ConcatOperand(vx.stack, vx.top, hdr, r, y),
           NEW total, total = vx.hd.len + vy.hd.len
    PROVE  lowerStringConcat(Mach(st, top, hdr, r), x, y) =
               Put(Put(pushHeapRegion([stack |-> vy.stack, top |-> vy.top], total, 0, total), x, vx.hd), y, vy.hd)
<1> DEFINE m == Mach(st, top, hdr, r)
           hx == [stack |-> vx.stack, top |-> vx.top]
           hy == [stack |-> vy.stack, top |-> vy.top]
<1>1. HeapIn(m) = [stack |-> st, top |-> top] /\ WithHeap(m, HeapIn(m)) = m
    <2>1. HeapIn(m) = [stack |-> st, top |-> top]
        BY ONLY TRUE DEF Mach, HeapIn
    <2>2. WithHeap(m, [stack |-> st, top |-> top]) = m
        BY ONLY MachWithHeap
    <2> QED
        BY ONLY <2>1, <2>2
<1>2. WithHeap(m, hx) = Mach(vx.stack, vx.top, hdr, r)
    BY ONLY MachWithHeap
<1> HIDE DEF m
<1>3. vx = IF IsLiteral(x) THEN Value(HeapIn(m), Hd(0, Len(x.cells), 0)) ELSE resolveStringSlice(WithHeap(m, HeapIn(m)), x)
    BY ONLY <1>1, vx = ConcatOperand(st, top, hdr, r, x) DEF ConcatOperand, m
<1>4. vy = IF IsLiteral(y) THEN Value(hx, Hd(0, Len(y.cells), 0)) ELSE resolveStringSlice(WithHeap(m, hx), y)
    BY ONLY <1>2, vy = ConcatOperand(vx.stack, vx.top, hdr, r, y) DEF ConcatOperand
<1>5. HeapOf(vx) = hx /\ HeapOf(vy) = hy
    BY ONLY TRUE DEF HeapOf
<1> HIDE DEF hx, hy
<1>6. lowerStringConcat(m, x, y) = Put(Put(pushHeapRegion(hy, total, 0, total), x, vx.hd), y, vy.hd)
    <2> DEFINE Operand(h, e) == IF IsLiteral(e) THEN Value(h, Hd(0, Len(e.cells), 0))
                                ELSE resolveStringSlice(WithHeap(m, h), e)
               ux == Operand(HeapIn(m), x)
               uy == Operand(HeapOf(ux), y)
    <2>1. lowerStringConcat(m, x, y) =
              Put(Put(pushHeapRegion(HeapOf(uy), ux.hd.len + uy.hd.len, 0, ux.hd.len + uy.hd.len), x, ux.hd), y, uy.hd)
        BY ONLY TRUE, Zenon DEF lowerStringConcat, Put, PutBytes
    <2>2. ux = vx
        BY ONLY <1>3
    <2>3. uy = Operand(HeapOf(ux), y)
        OBVIOUS
    <2> HIDE DEF ux
    <2>4. uy = vy
        BY ONLY <2>2, <1>4, <1>5
    <2> HIDE DEF uy
    <2> QED
        BY ONLY <2>1, <2>2, <2>4, <1>5, total = vx.hd.len + vy.hd.len
<1> QED
    BY ONLY <1>6 DEF m, hy

\* What is put behind the bytes of a buffer changes no length.
LEMMA PutLength ==
    ASSUME NEW v, "stack" \in DOMAIN v, DOMAIN v.stack = 1 .. Len(v.stack), Len(v.stack) \in Nat, NEW x, NEW hd,
           NEW u, u = Put(v, x, hd)
    PROVE  "stack" \in DOMAIN u /\ DOMAIN u.stack = 1 .. Len(u.stack) /\ Len(u.stack) = Len(v.stack)
<1> DEFINE Stores(slot, cells, len) == u = [v EXCEPT !.stack = Stored(v.stack, slot, cells), !.hd.len = len]
<1>1. ASSUME NEW slot, NEW cells, NEW len, Stores(slot, cells, len)
      PROVE  "stack" \in DOMAIN u /\ DOMAIN u.stack = 1 .. Len(u.stack) /\ Len(u.stack) = Len(v.stack)
    <2> DEFINE w == Stored(v.stack, slot, cells)
    <2>1. DOMAIN w = 1 .. Len(v.stack) /\ Len(w) = Len(v.stack)
        BY ONLY DOMAIN v.stack = 1 .. Len(v.stack), Len(v.stack) \in Nat, StoredLength
    <2> HIDE DEF w
    <2>2. u = [v EXCEPT !.stack = w, !.hd.len = len]
        BY ONLY <1>1 DEF w
    <2>3. DOMAIN u = DOMAIN v /\ u.stack = w
        BY ONLY <2>2, "stack" \in DOMAIN v
    <2> QED
        BY ONLY <2>1, <2>3, "stack" \in DOMAIN v
<1>2. CASE IsLiteral(x)
    <2> DEFINE slot == v.hd.ptr + v.hd.len
               cells == x.cells
               len == Wrap(v.hd.len + Len(x.cells))
    <2>1. u = [v EXCEPT !.stack = Stored(v.stack, slot, cells), !.hd.len = len]
        BY ONLY <1>2, u = Put(v, x, hd), Zenon DEF Put, appendLiteralBytes
    <2>2. Stores(slot, cells, len)
        BY ONLY <2>1
    <2> HIDE DEF slot, cells, len, Stores
    <2> QED
        BY ONLY <2>2, <1>1
<1>3. CASE ~IsLiteral(x)
    <2> DEFINE n == IF FALSE /\ hd.len > 0 THEN Mod - hd.len ELSE hd.len
               slot == v.hd.ptr + v.hd.len
               cells == [i \in 1 .. n |-> Get(v.stack, hd.ptr + SourceOffset(slot, hd.ptr, n, i - 1, TRUE))]
               len == Wrap(v.hd.len + n)
    <2>1. u = [v EXCEPT !.stack = Stored(v.stack, slot, cells), !.hd.len = len]
        BY ONLY <1>3, u = Put(v, x, hd), Zenon DEF Put, PutBytes, appendBytesFromSlice, copyHeapBytes, CopyLoop
    <2>2. Stores(slot, cells, len)
        BY ONLY <2>1
    <2> HIDE DEF slot, cells, len, Stores
    <2> QED
        BY ONLY <2>2, <1>1
<1> QED
    BY ONLY <1>2, <1>3

\* How high the stack is with an operand, however high that is.
LEMMA ConcatOperandWidth ==
    ASSUME NEW st \in Bytes, NEW top \in Nat, NEW hdr \in [Names -> Header], NEW r, NEW x, IsOperand(x, 1),
           NEW v, v = ConcatOperand(st, top, hdr, r, x)
    PROVE  v.stack \in Bytes /\ v.top \in Nat /\ v.hd.len \in Nat /\ Len(st) <= Len(v.stack)
<1>1. CASE IsLiteral(x)
    <2>1. v = Value([stack |-> st, top |-> top], Hd(0, Len(x.cells), 0))
        BY ONLY <1>1, v = ConcatOperand(st, top, hdr, r, x) DEF ConcatOperand
    <2>2. v.stack = st /\ v.top = top /\ v.hd.len = Wrap(Len(x.cells))
        BY ONLY <2>1 DEF Value, Hd
    <2>3. Len(x.cells) \in Nat
        BY ONLY <1>1, IsOperand(x, 1) DEF IsOperand, IsLiteral
    <2>4. Wrap(Len(x.cells)) \in Nat
        <3> DEFINE k == Len(x.cells)
        <3>1. k \in Nat
            BY ONLY <2>3
        <3> HIDE DEF k
        <3>2. Wrap(k) \in Nat
            BY ONLY <3>1, SliceHeapAssumption DEF Wrap
        <3> QED
            BY ONLY <3>2 DEF k
    <2>5. Len(st) <= Len(st)
        BY ONLY st \in Bytes DEF Bytes
    <2> QED
        BY ONLY <2>2, <2>4, <2>5, st \in Bytes, top \in Nat
<1>2. CASE ~IsLiteral(x)
    <2> DEFINE w == Width(x)
    <2>1. v = resolveStringSlice(Mach(st, top, hdr, r), x)
        BY ONLY <1>2, v = ConcatOperand(st, top, hdr, r, x) DEF ConcatOperand
    <2>2. /\ v.stack \in Bytes /\ w \in Nat /\ Len(v.stack) = Len(st) + w
          /\ v.top = (IF IsTemporary(x) THEN Wrap(top + w) ELSE top)
        BY ONLY <2>1, st \in Bytes, top \in Nat, IsOperand(x, 1), OperandWidth
    <2>3. v.hd.len \in Nat
        BY ONLY <2>1, hdr \in [Names -> Header], IsOperand(x, 1), OperandLength
    <2> HIDE DEF w
    <2>4. Wrap(top + w) \in Nat
        BY ONLY <2>2, top \in Nat, SliceHeapAssumption DEF Wrap
    <2>5. Len(st) <= Len(v.stack)
        BY ONLY <2>2, st \in Bytes DEF Bytes
    <2> QED
        BY ONLY <2>2, <2>3, <2>4, <2>5, top \in Nat
<1> QED
    BY <1>1, <1>2

\* An operand of a concatenation has the bytes that it has in Go; they lie on the
\* stack unless it is a literal.
LEMMA ConcatOperandLies ==
    ASSUME NEW st, NEW hdr, NEW arrays, NEW slices, NEW home, NEW held, NEW own,
           Sound(st, hdr, arrays, slices, home, held, own), NEW r, NEW r2, NEW x, IsOperand(x, 1),
           OperandNames(x) \subseteq held, InBounds(slices, x),
           NEW v, v = ConcatOperand(st, Len(st), hdr, r, x), Len(v.stack) <= MaxSlots,
           NEW t, t = GoText(GoOf(arrays, slices, r2), x)
    PROVE  /\ v.hd.len = Len(t) /\ t \in Bytes /\ Extends(st, v.stack) /\ v.top = Len(v.stack)
           /\ IF IsLiteral(x) THEN t = x.cells ELSE v.hd.ptr \in Nat /\ Lies(v.stack, v.hd.ptr, t)
<1>1. st \in Bytes /\ Len(st) \in Nat
    BY ONLY Sound(st, hdr, arrays, slices, home, held, own) DEF Sound, Typed, Bytes
<1>2. CASE IsLiteral(x)
    <2>1. t = x.cells
        BY ONLY <1>2, t = GoText(GoOf(arrays, slices, r2), x) DEF GoText, IsName, IsLiteral
    <2>2. t \in Bytes /\ Len(t) < Mod
        BY ONLY <1>2, <2>1, IsOperand(x, 1) DEF IsOperand, IsLiteral, Bytes
    <2>3. Wrap(Len(t)) = Len(t)
        BY ONLY <2>2, WrapSmall DEF Bytes
    <2>4. v = Value([stack |-> st, top |-> Len(st)], Hd(0, Len(t), 0))
        BY ONLY <1>2, <2>1, v = ConcatOperand(st, Len(st), hdr, r, x) DEF ConcatOperand
    <2>5. v.stack = st /\ v.top = Len(st) /\ v.hd.len = Len(t)
        BY ONLY <2>3, <2>4 DEF Value, Hd
    <2>6. Extends(st, st)
        BY ONLY <1>1 DEF Extends
    <2> QED
        BY ONLY <1>2, <2>1, <2>2, <2>5, <2>6
<1>3. CASE ~IsLiteral(x)
    <2> DEFINE w == Width(x)
               top == Len(st)
    <2>1. v = resolveStringSlice(Mach(st, top, hdr, r), x)
        BY ONLY <1>3, v = ConcatOperand(st, Len(st), hdr, r, x) DEF ConcatOperand
    <2>2. w \in Nat /\ Len(v.stack) = Len(st) + w
        <3>1. top \in Nat
            BY ONLY <1>1
        <3> HIDE DEF top
        <3> QED
            BY ONLY <2>1, <3>1, <1>1, IsOperand(x, 1), OperandWidth
    <2>3. Len(st) + Width(x) <= MaxSlots /\ 1 \in Nat \ {0}
        BY ONLY <2>2, Len(v.stack) <= MaxSlots
    <2> HIDE DEF w
    <2>4. /\ v.hd \in Header /\ t \in Bytes /\ Len(t) = v.hd.len * 1
          /\ Extends(st, v.stack) /\ Len(v.stack) = Len(st) + Width(x) /\ v.top = Len(v.stack)
          /\ Lies(v.stack, v.hd.ptr, t)
        BY ONLY <2>1, <2>3, Sound(st, hdr, arrays, slices, home, held, own), IsOperand(x, 1),
                OperandNames(x) \subseteq held, InBounds(slices, x), t = GoText(GoOf(arrays, slices, r2), x), OperandLies
    <2>5. v.hd.len \in Nat /\ v.hd.ptr \in Nat
        BY ONLY <2>4, ByteRange DEF Header
    <2>6. v.hd.len = Len(t)
        BY ONLY <2>4, <2>5
    <2> QED
        BY ONLY <1>3, <2>4, <2>5, <2>6
<1> QED
    BY ONLY <1>2, <1>3

\* Bytes t of an operand are put behind those of a buffer, which lies behind the
\* stack that the operand lies on.
Puts(st, w, base, c, t, x, hd, u) ==
    /\ st \in Bytes /\ Extends(st, w) /\ Len(w) < Mod
    /\ base \in Nat /\ Len(st) <= base /\ c \in Bytes /\ Lies(w, base, c)
    /\ t \in Bytes /\ base + Len(c) + Len(t) <= Len(w) /\ hd.len = Len(t)
    /\ IF IsLiteral(x) THEN t = x.cells ELSE hd.ptr \in Nat /\ Lies(st, hd.ptr, t)
    /\ u = Stored(w, base + Len(c), t)

LEMMA PutLies ==
    ASSUME NEW st, NEW w, NEW top, NEW cap, NEW base, NEW c, NEW t, NEW x, NEW hd, NEW u,
           Puts(st, w, base, c, t, x, hd, u)
    PROVE  /\ Put(Filling(w, top, base, Len(c), cap), x, hd) = Filling(u, top, base, Len(c) + Len(t), cap)
           /\ u \in Bytes /\ Len(u) = Len(w) /\ Extends(st, u) /\ Lies(u, base, c \o t)
<1> USE Puts(st, w, base, c, t, x, hd, u) DEF Puts
<1> DEFINE k == Len(c)
           n == Len(t)
           v == Filling(w, top, base, k, cap)
<1>1. k \in Nat /\ n \in Nat /\ w \in Bytes /\ Len(w) \in Nat /\ Len(st) \in Nat
    BY ONLY c \in Bytes, t \in Bytes, st \in Bytes, Extends(st, w) DEF Extends, Bytes
<1>2. k + n < Mod
    BY ONLY <1>1, base \in Nat, base + Len(c) + Len(t) <= Len(w), Len(w) < Mod, SliceHeapAssumption
<1>3. u \in Bytes /\ Len(u) = Len(w) /\ Extends(st, u) /\ Lies(u, base, c \o t)
    BY ONLY st \in Bytes, Extends(st, w), c \in Bytes, base \in Nat, Len(st) <= base, Lies(w, base, c), t \in Bytes,
            base + Len(c) + Len(t) <= Len(w), u = Stored(w, base + Len(c), t), FilledMore
<1>4. u = Stored(w, base + k, t)
    OBVIOUS
<1>5. CASE IsLiteral(x)
    <2>1. t = x.cells
        BY ONLY <1>5, IF IsLiteral(x) THEN t = x.cells ELSE hd.ptr \in Nat /\ Lies(st, hd.ptr, t)
    <2>2. Put(v, x, hd) = appendLiteralBytes(v, t)
        BY ONLY <1>5, <2>1 DEF Put
    <2> HIDE DEF k
    <2>3. appendLiteralBytes(v, t) = Filling(Stored(w, base + k, t), top, base, k + Len(t), cap)
        BY ONLY <1>1, <1>2, t \in Bytes, AppendedLiteral
    <2> QED
        BY ONLY <2>2, <2>3, <1>3, <1>4 DEF k
<1>6. CASE ~IsLiteral(x)
    <2>1. hd.ptr \in Nat /\ Lies(st, hd.ptr, t)
        BY ONLY <1>6, IF IsLiteral(x) THEN t = x.cells ELSE hd.ptr \in Nat /\ Lies(st, hd.ptr, t)
    <2>2. Put(v, x, hd) = PutBytes(v, hd)
        BY ONLY <1>6 DEF Put
    <2>3. Lies(w, hd.ptr, t)
        <3> DEFINE ptr == hd.ptr
        <3>1. ptr \in Nat /\ Lies(st, ptr, t)
            BY ONLY <2>1
        <3> HIDE DEF ptr
        <3>2. Lies(w, ptr, t)
            BY ONLY <3>1, st \in Bytes, Extends(st, w), t \in Bytes, ExtendedLies
        <3> QED
            BY ONLY <3>2 DEF ptr
    <2>4. base + k <= hd.ptr \/ hd.ptr + Len(t) <= base + k
        <3> DEFINE p == hd.ptr
                   top2 == Len(st)
        <3>1. p \in Nat /\ (n > 0 => p + n <= top2) /\ top2 <= base /\ top2 \in Nat
            BY ONLY <2>1, <1>1, Len(st) <= base DEF Lies
        <3> HIDE DEF p, top2, n, k
        <3>2. base + k <= p \/ p + n <= base + k
            BY ONLY <3>1, <1>1, base \in Nat
        <3> QED
            BY ONLY <3>2 DEF p, n
    <2> DEFINE sum == k + Len(t)
               at == base + k
    <2>5. /\ k \in Nat /\ w \in Bytes /\ sum \in Nat /\ sum = k + Len(t) /\ sum < Mod /\ at \in Nat /\ at = base + k
          /\ at <= hd.ptr \/ hd.ptr + Len(t) <= at
        BY ONLY <1>1, <1>2, <2>4, base \in Nat
    <2> HIDE DEF k, sum, at
    <2>6. PutBytes(Filling(w, top, base, k, cap), hd) = Filling(Stored(w, at, t), top, base, sum, cap)
        BY ONLY <2>1, <2>3, <2>5, base \in Nat, t \in Bytes, hd.len = Len(t), AppendedBytes
    <2> QED
        BY ONLY <2>2, <2>6, <1>3, <1>4 DEF k, sum, at
<1> QED
    BY ONLY <1>5, <1>6

\* x + y has the bytes of both, in a buffer at the end of the heap
\* (lowerStringConcat).
Joins(st, hdr, arrays, slices, home, held, own, r, r2, x, y, v, tx, ty) ==
    /\ Sound(st, hdr, arrays, slices, home, held, own)
    /\ IsOperand(x, 1) /\ OperandNames(x) \subseteq held /\ InBounds(slices, x)
    /\ IsOperand(y, 1) /\ OperandNames(y) \subseteq held /\ InBounds(slices, y)
    /\ v = lowerStringConcat(Mach(st, Len(st), hdr, r), x, y) /\ Len(v.stack) <= MaxSlots
    /\ tx = GoText(GoOf(arrays, slices, r2), x) /\ ty = GoText(GoOf(arrays, slices, r2), y)

LEMMA ConcatLies ==
    ASSUME NEW st, NEW hdr, NEW arrays, NEW slices, NEW home, NEW held, NEW own, NEW r, NEW r2,
           NEW x, NEW y, NEW v, NEW tx, NEW ty,
           Joins(st, hdr, arrays, slices, home, held, own, r, r2, x, y, v, tx, ty)
    PROVE  \E base \in Nat :
               /\ v = Filling(v.stack, Len(v.stack), base, Len(tx \o ty), Len(tx \o ty))
               /\ Len(st) <= base /\ base + Len(tx \o ty) = Len(v.stack) /\ Extends(st, v.stack)
               /\ tx \o ty \in Bytes /\ Lies(v.stack, base, tx \o ty)
<1> USE Joins(st, hdr, arrays, slices, home, held, own, r, r2, x, y, v, tx, ty) DEF Joins
<1> DEFINE vx == ConcatOperand(st, Len(st), hdr, r, x)
           vy == ConcatOperand(vx.stack, vx.top, hdr, r, y)
           sx == vx.stack
           sy == vy.stack
           hx == vx.hd
           hy == vy.hd
           total == hx.len + hy.len
           p == pushHeapRegion([stack |-> sy, top |-> vy.top], total, 0, total)
           px == Put(p, x, hx)
<1>1. st \in Bytes /\ Len(st) \in Nat /\ hdr \in [Names -> Header]
    BY ONLY Sound(st, hdr, arrays, slices, home, held, own) DEF Sound, Typed, Bytes
<1>2. v = Put(px, y, hy)
    <2>1. /\ vx = ConcatOperand(st, Len(st), hdr, r, x) /\ vy = ConcatOperand(vx.stack, vx.top, hdr, r, y)
          /\ total = vx.hd.len + vy.hd.len
        OBVIOUS
    <2> HIDE DEF vx, vy, total
    <2> QED
        BY ONLY <2>1, ConcatParts, v = lowerStringConcat(Mach(st, Len(st), hdr, r), x, y)
<1>3. sx \in Bytes /\ vx.top \in Nat /\ hx.len \in Nat /\ Len(st) <= Len(sx)
    <2> DEFINE top == Len(st)
    <2>1. vx = ConcatOperand(st, top, hdr, r, x) /\ top \in Nat
        BY ONLY <1>1
    <2> HIDE DEF vx, top
    <2> QED
        BY ONLY <2>1, <1>1, IsOperand(x, 1), ConcatOperandWidth
<1>4. sy \in Bytes /\ vy.top \in Nat /\ hy.len \in Nat /\ Len(sx) <= Len(sy)
    <2> DEFINE top == vx.top
    <2>1. vy = ConcatOperand(sx, top, hdr, r, y)
        OBVIOUS
    <2> HIDE DEF vx, sx, vy, top
    <2> QED
        BY ONLY <2>1, <1>1, <1>3, IsOperand(y, 1), ConcatOperandWidth DEF top
<1>5. p.stack = sy \o Zeros(total)
    BY ONLY TRUE DEF pushHeapRegion, Pushed, Value
<1> HIDE DEF vx, vy, sx, sy, hx, hy, p, px
<1>6. total \in Nat
    BY ONLY <1>3, <1>4
<1> HIDE DEF total
<1>7. Len(v.stack) = Len(sy) + total
    <2>1. p.stack \in Bytes /\ Len(p.stack) = Len(sy) + total
        BY ONLY <1>4, <1>5, <1>6, PushedSeq
    <2>2. "stack" \in DOMAIN p
        BY ONLY TRUE DEF p, pushHeapRegion, Value
    <2>3. DOMAIN p.stack = 1 .. Len(p.stack) /\ Len(p.stack) \in Nat
        BY ONLY <2>1 DEF Bytes
    <2>4. px = Put(p, x, hx)
        BY ONLY TRUE DEF px
    <2>5. "stack" \in DOMAIN px /\ DOMAIN px.stack = 1 .. Len(px.stack) /\ Len(px.stack) = Len(p.stack)
        BY ONLY <2>2, <2>3, <2>4, PutLength
    <2>6. Len(px.stack) \in Nat
        BY ONLY <2>3, <2>5
    <2>7. Len(v.stack) = Len(px.stack)
        BY ONLY <2>5, <2>6, <1>2, PutLength
    <2> QED
        BY ONLY <2>1, <2>5, <2>7
<1>8. /\ Len(sx) <= MaxSlots /\ Len(sy) <= MaxSlots /\ Len(sy) + total <= MaxSlots
      /\ Len(sy) \in Nat /\ Len(sx) \in Nat /\ Len(st) <= Len(sy)
    <2>1. Len(sy) \in Nat /\ Len(sx) \in Nat
        BY ONLY <1>3, <1>4 DEF Bytes
    <2> QED
        BY ONLY <2>1, <1>1, <1>3, <1>4, <1>6, <1>7, Len(v.stack) <= MaxSlots, SliceHeapAssumption
<1>9. /\ hx.len = Len(tx) /\ tx \in Bytes /\ Extends(st, sx) /\ vx.top = Len(sx)
      /\ IF IsLiteral(x) THEN tx = x.cells ELSE hx.ptr \in Nat /\ Lies(sx, hx.ptr, tx)
    <2>1. vx = ConcatOperand(st, Len(st), hdr, r, x) /\ Len(vx.stack) <= MaxSlots
        BY ONLY <1>8 DEF vx, sx
    <2>2. /\ vx.hd.len = Len(tx) /\ tx \in Bytes /\ Extends(st, vx.stack) /\ vx.top = Len(vx.stack)
          /\ IF IsLiteral(x) THEN tx = x.cells ELSE vx.hd.ptr \in Nat /\ Lies(vx.stack, vx.hd.ptr, tx)
        BY ONLY <2>1, Sound(st, hdr, arrays, slices, home, held, own), IsOperand(x, 1),
                OperandNames(x) \subseteq held, InBounds(slices, x), tx = GoText(GoOf(arrays, slices, r2), x),
                ConcatOperandLies
    <2> QED
        BY ONLY <2>2 DEF sx, hx
<1>10. Sound(sx, hdr, arrays, slices, home, held, own)
    BY ONLY <1>8, <1>9, Sound(st, hdr, arrays, slices, home, held, own), SoundGrow
<1>11. /\ hy.len = Len(ty) /\ ty \in Bytes /\ Extends(sx, sy) /\ vy.top = Len(sy)
       /\ IF IsLiteral(y) THEN ty = y.cells ELSE hy.ptr \in Nat /\ Lies(sy, hy.ptr, ty)
    <2>1. vy = ConcatOperand(sx, Len(sx), hdr, r, y) /\ Len(vy.stack) <= MaxSlots
        BY ONLY <1>8, <1>9 DEF vy, sx, sy
    <2>2. /\ vy.hd.len = Len(ty) /\ ty \in Bytes /\ Extends(sx, vy.stack) /\ vy.top = Len(vy.stack)
          /\ IF IsLiteral(y) THEN ty = y.cells ELSE vy.hd.ptr \in Nat /\ Lies(vy.stack, vy.hd.ptr, ty)
        BY ONLY <2>1, <1>10, IsOperand(y, 1),
                OperandNames(y) \subseteq held, InBounds(slices, y), ty = GoText(GoOf(arrays, slices, r2), y),
                ConcatOperandLies
    <2> QED
        BY ONLY <2>2 DEF sy, hy
<1> DEFINE base == Len(sy)
           w == sy \o Zeros(total)
           top == Len(sy) + total
           wx == Stored(w, base + Len(<< >>), tx)
           wy == Stored(wx, base + Len(<< >> \o tx), ty)
<1>12. p = Filling(w, top, base, Len(<< >>), total)
    <2>1. pushHeapRegion([stack |-> sy, top |-> Len(sy)], total, 0, total) =
              [stack |-> sy \o Zeros(total), top |-> Len(sy) + total, hd |-> [ptr |-> Len(sy), len |-> 0, cap |-> total]]
        <3>1. 0 \in Nat /\ 0 <= total /\ total <= total
            BY ONLY <1>6
        <3> QED
            BY ONLY <3>1, <1>4, <1>6, <1>8, PushedValue, ZenonT(30)
    <2> QED
        BY ONLY <2>1, <1>11 DEF p, Filling
<1>13. w \in Bytes /\ Extends(sy, w) /\ Len(w) = base + total /\ Len(w) < Mod /\ base \in Nat /\ base <= base
    <2>1. w \in Bytes /\ Extends(sy, w) /\ Len(w) = Len(sy) + total
        BY ONLY <1>4, <1>6, PushedSeq
    <2> QED
        BY ONLY <2>1, <1>8, <1>6, SliceHeapAssumption
<1>14. << >> \in Bytes /\ Lies(w, base, << >>) /\ << >> \o tx = tx /\ Len(<< >>) = 0
    <2>1. << >> \in Bytes /\ Len(<< >>) = 0
        BY ONLY EmptySeq DEF Bytes
    <2>2. << >> \o tx = tx
        BY ONLY <1>9 DEF Bytes
    <2> QED
        BY ONLY <2>1, <2>2 DEF Lies
<1>15. /\ Len(tx) \in Nat /\ Len(ty) \in Nat /\ Len(tx) + Len(ty) = total
       /\ tx \o ty \in Bytes /\ Len(tx \o ty) = total
    <2>1. Len(tx) \in Nat /\ Len(ty) \in Nat /\ tx \o ty \in Bytes /\ Len(tx \o ty) = Len(tx) + Len(ty)
        BY ONLY <1>9, <1>11 DEF Bytes
    <2> QED
        BY ONLY <2>1, <1>9, <1>11 DEF total
<1> HIDE DEF w, top, base
<1>16. /\ px = Filling(wx, top, base, Len(<< >> \o tx), total)
       /\ wx \in Bytes /\ Len(wx) = Len(w) /\ Extends(sy, wx) /\ Lies(wx, base, << >> \o tx)
    <2>1. base + Len(<< >>) + Len(tx) <= Len(w)
        BY ONLY <1>13, <1>14, <1>15
    <2>2. IF IsLiteral(x) THEN tx = x.cells ELSE hx.ptr \in Nat /\ Lies(sy, hx.ptr, tx)
        <3>1. ASSUME hx.ptr \in Nat /\ Lies(sx, hx.ptr, tx)
              PROVE  Lies(sy, hx.ptr, tx)
            <4> DEFINE q == hx.ptr
            <4>1. q \in Nat /\ Lies(sx, q, tx)
                BY ONLY <3>1
            <4> HIDE DEF q
            <4>2. Lies(sy, q, tx)
                BY ONLY <4>1, <1>3, <1>9, <1>11, ExtendedLies
            <4> QED
                BY ONLY <4>2 DEF q
        <3> QED
            BY ONLY <3>1, <1>9
    <2>3. Len(sy) <= base
        BY ONLY <1>8 DEF base
    <2>4. wx = Stored(w, base + Len(<< >>), tx)
        OBVIOUS
    <2> HIDE DEF wx
    <2>5. /\ Put(Filling(w, top, base, Len(<< >>), total), x, hx) = Filling(wx, top, base, Len(<< >>) + Len(tx), total)
          /\ wx \in Bytes /\ Len(wx) = Len(w) /\ Extends(sy, wx) /\ Lies(wx, base, << >> \o tx)
        <3> DEFINE c == << >>
        <3>1. Puts(sy, w, base, c, tx, x, hx, wx)
            BY ONLY <2>1, <2>2, <2>3, <2>4, <1>4, <1>9, <1>13, <1>14 DEF Puts
        <3> HIDE DEF c
        <3>2. /\ Put(Filling(w, top, base, Len(c), total), x, hx) = Filling(wx, top, base, Len(c) + Len(tx), total)
              /\ wx \in Bytes /\ Len(wx) = Len(w) /\ Extends(sy, wx) /\ Lies(wx, base, c \o tx)
            BY ONLY <3>1, PutLies
        <3> QED
            BY ONLY <3>2 DEF c
    <2>6. Len(<< >>) + Len(tx) = Len(<< >> \o tx)
        BY ONLY <1>14, <1>15
    <2> QED
        BY ONLY <2>5, <2>6, <1>12 DEF px
<1> HIDE DEF wx
<1>17. /\ v = Filling(wy, top, base, Len(tx) + Len(ty), total)
       /\ wy \in Bytes /\ Len(wy) = Len(wx) /\ Extends(sy, wy) /\ Lies(wy, base, tx \o ty)
    <2>1. px = Filling(wx, top, base, Len(tx), total) /\ Lies(wx, base, tx)
        BY ONLY <1>14, <1>16
    <2>2. base + Len(tx) + Len(ty) <= Len(wx) /\ Len(wx) < Mod
        BY ONLY <1>13, <1>15, <1>16
    <2>3. Len(sy) <= base
        BY ONLY <1>8 DEF base
    <2>4. wy = Stored(wx, base + Len(tx), ty)
        BY ONLY <1>14
    <2> HIDE DEF wy
    <2>5. /\ Put(Filling(wx, top, base, Len(tx), total), y, hy) = Filling(wy, top, base, Len(tx) + Len(ty), total)
          /\ wy \in Bytes /\ Len(wy) = Len(wx) /\ Extends(sy, wy) /\ Lies(wy, base, tx \o ty)
        <3>1. Puts(sy, wx, base, tx, ty, y, hy, wy)
            BY ONLY <2>1, <2>2, <2>3, <2>4, <1>4, <1>9, <1>11, <1>13, <1>16 DEF Puts
        <3> QED
            BY ONLY <3>1, PutLies
    <2> QED
        BY ONLY <2>1, <2>5, <1>2
<1> HIDE DEF wy
<1>18. v.stack = wy /\ top = Len(wy) /\ base + total = Len(wy)
    BY ONLY <1>13, <1>16, <1>17 DEF Filling, top, base
<1>19. Extends(st, wy)
    <2>1. Extends(st, sy)
        BY ONLY <1>1, <1>9, <1>11, ExtendsTransitive
    <2> QED
        BY ONLY <2>1, <1>1, <1>17, ExtendsTransitive
<1>20. Len(st) <= base
    BY ONLY <1>8 DEF base
<1> QED
    BY ONLY <1>13, <1>15, <1>17, <1>18, <1>19, <1>20

\* A name gets bytes in a buffer of their own.
LEMMA ValueBytes ==
    ASSUME NEW st, NEW hdr, NEW arrays, NEW slices, NEW home, NEW held, NEW own,
           Sound(st, hdr, arrays, slices, home, held, own), NEW r2, NEW d \in Names, Size[d] = 1,
           NEW own2, own2 \subseteq own \cup {d}, NEW base \in Nat, NEW t \in Bytes, NEW v,
           v = Filling(v.stack, Len(v.stack), base, Len(t), Len(t)), Len(v.stack) <= MaxSlots,
           Len(st) <= base, base + Len(t) = Len(v.stack), Extends(st, v.stack), Lies(v.stack, base, t),
           NEW V, V = GoFresh(GoOf(arrays, slices, r2), t, 1)
    PROVE  Yields(v, V, hdr, slices, held, own2, d)
<1> DEFINE n == Len(t)
           w == v.stack
<1>1. n \in Nat /\ Len(w) \in Nat
    BY ONLY t \in Bytes, Extends(st, v.stack) DEF Bytes, Extends
<1>2. V.arrays = Append(arrays, t) /\ V.slice = View(Len(arrays) + 1, 0, n, n)
    <2>1. Padded(t, n) = t
        BY ONLY t \in Bytes, PaddedFull
    <2>2. V = GoNew(GoOf(arrays, slices, r2), t, n \div 1, n \div 1, 1)
        BY ONLY V = GoFresh(GoOf(arrays, slices, r2), t, 1) DEF GoFresh
    <2> HIDE DEF n
    <2>3. n \div 1 = n /\ n * 1 = n
        BY ONLY <1>1
    <2>4. V = GoNew(GoOf(arrays, slices, r2), t, n, n, 1)
        BY ONLY <2>2, <2>3
    <2>5. V = [arrays |-> Append(arrays, Padded(t, n)), slice |-> View(Len(arrays) + 1, 0, n, n)]
        BY ONLY <2>4, <2>3 DEF GoNew, GoValue, GoOf
    <2> QED
        BY ONLY <2>1, <2>5
<1>3. v.top = Len(w) /\ v.hd = [ptr |-> base, len |-> n, cap |-> n]
    BY ONLY v = Filling(v.stack, Len(v.stack), base, Len(t), Len(t)) DEF Filling
<1>4. base + n <= Len(w) /\ n <= n /\ n * Size[d] <= n
    <2> HIDE DEF n, w
    <2>1. n * Size[d] = n
        BY ONLY <1>1, Size[d] = 1
    <2>2. base + n = Len(w)
        BY DEF n, w
    <2> QED
        BY ONLY <1>1, <2>1, <2>2, base \in Nat
<1>5. FreshValue(st, arrays, d, v, V, base, t, n, n)
    BY ONLY <1>1, <1>2, <1>3, <1>4, base \in Nat, t \in Bytes, Extends(st, v.stack), Len(st) <= base,
            Lies(v.stack, base, t) DEF FreshValue
<1> HIDE DEF n
<1> QED
    BY ONLY <1>5, Sound(st, hdr, arrays, slices, home, held, own), d \in Names, Len(v.stack) <= MaxSlots,
            own2 \subseteq own \cup {d}, YieldsFresh

\* s = x + y.
LEMMA ValueConcat ==
    ASSUME NEW st, NEW hdr, NEW arrays, NEW slices, NEW home, NEW held, NEW own,
           Sound(st, hdr, arrays, slices, home, held, own), NEW r, NEW r2, NEW d \in Names, Size[d] = 1, NEW kept,
           NEW e, e.kind = "concat", IsOperand(e.x, 1), IsOperand(e.y, 1),
           OperandNames(e.x) \subseteq held, OperandNames(e.y) \subseteq held,
           InBounds(slices, e.x), InBounds(slices, e.y), NEW own2, own2 \subseteq own \cup {d},
           NEW v, v = lowerSliceExpr(Mach(st, Len(st), hdr, r), e), Len(v.stack) <= MaxSlots,
           NEW V, V = GoEval(GoOf(arrays, slices, r2), e, kept)
    PROVE  Yields(v, V, hdr, slices, held, own2, d)
<1> DEFINE x == e.x
           y == e.y
           tx == GoText(GoOf(arrays, slices, r2), x)
           ty == GoText(GoOf(arrays, slices, r2), y)
           t == tx \o ty
<1>1. v = lowerStringConcat(Mach(st, Len(st), hdr, r), x, y)
    BY ONLY v = lowerSliceExpr(Mach(st, Len(st), hdr, r), e), e.kind = "concat" DEF lowerSliceExpr, IsName
<1>2. V = GoFresh(GoOf(arrays, slices, r2), t, 1)
    BY ONLY V = GoEval(GoOf(arrays, slices, r2), e, kept), e.kind = "concat" DEF GoEval, IsName
<1>3. \E base \in Nat :
          /\ v = Filling(v.stack, Len(v.stack), base, Len(t), Len(t))
          /\ Len(st) <= base /\ base + Len(t) = Len(v.stack) /\ Extends(st, v.stack)
          /\ t \in Bytes /\ Lies(v.stack, base, t)
    <2>1. Joins(st, hdr, arrays, slices, home, held, own, r, r2, x, y, v, tx, ty)
        BY <1>1 DEF Joins
    <2> HIDE DEF x, y, tx, ty
    <2> QED
        BY ONLY <2>1, ConcatLies
<1> HIDE DEF t
<1>4. PICK base \in Nat :
          /\ v = Filling(v.stack, Len(v.stack), base, Len(t), Len(t))
          /\ Len(st) <= base /\ base + Len(t) = Len(v.stack) /\ Extends(st, v.stack)
          /\ t \in Bytes /\ Lies(v.stack, base, t)
    BY ONLY <1>3
<1> QED
    BY ONLY <1>2, <1>4, Sound(st, hdr, arrays, slices, home, held, own), d \in Names, Size[d] = 1,
            own2 \subseteq own \cup {d}, Len(v.stack) <= MaxSlots, ValueBytes

\* s = string(b) and b = []byte(s) copy the bytes (copyStringSlice).
LEMMA ValueCopyOf ==
    ASSUME NEW st, NEW hdr, NEW arrays, NEW slices, NEW home, NEW held, NEW own,
           Sound(st, hdr, arrays, slices, home, held, own), NEW r, NEW r2, NEW d \in Names, Size[d] = 1, NEW kept,
           NEW e, e.kind = "copyOf", e.name \in held, Size[e.name] = 1, NEW own2, own2 \subseteq own \cup {d},
           NEW v, v = lowerSliceExpr(Mach(st, Len(st), hdr, r), e), Len(v.stack) <= MaxSlots,
           NEW V, V = GoEval(GoOf(arrays, slices, r2), e, kept)
    PROVE  Yields(v, V, hdr, slices, held, own2, d)
<1> DEFINE n == e.name
           hd == hdr[n]
           k == hd.len
           h == [stack |-> st, top |-> Len(st)]
           p == pushHeapRegion(h, k, 0, k)
           x == [kind |-> "name"]
           t == GoCells(GoOf(arrays, slices, r2), n)
           none == << >>
           base == Len(st)
           w == st \o Zeros(k)
           u == Stored(w, base + Len(none), t)
<1>1. v = Put(p, x, hd)
    BY ONLY v = lowerSliceExpr(Mach(st, Len(st), hdr, r), e), e.kind = "copyOf", Zenon
       DEF lowerSliceExpr, IsName, copyStringSlice, HeapIn, Mach, Put, PutBytes, IsLiteral
<1>2. V = GoFresh(GoOf(arrays, slices, r2), t, 1)
    BY ONLY V = GoEval(GoOf(arrays, slices, r2), e, kept), e.kind = "copyOf" DEF GoEval, IsName
<1>3. st \in Bytes /\ base \in Nat /\ MaxSlots < Mod /\ MaxSlots \in Nat
    BY ONLY Sound(st, hdr, arrays, slices, home, held, own), SliceHeapAssumption DEF Sound, Typed, Bytes
<1>4. t \in Bytes /\ Len(t) = k /\ k \in Nat /\ hd.ptr \in Nat /\ Lies(st, hd.ptr, t)
    <2>1. t = SubSeq(arrays[slices[n].arr], slices[n].off + 1, slices[n].off + slices[n].len * Size[n])
        BY ONLY TRUE DEF GoCells, GoOf
    <2>2. n \in held /\ Size[n] = 1
        OBVIOUS
    <2> HIDE DEF n, t
    <2>3. t \in Bytes /\ Fits(t, hdr[n].len, Size[n]) /\ Lies(st, hdr[n].ptr, t)
        BY ONLY <2>1, <2>2, Sound(st, hdr, arrays, slices, home, held, own), NameFits
    <2>4. hdr[n] \in Header
        BY ONLY <2>2, Sound(st, hdr, arrays, slices, home, held, own), NameCells
    <2>5. hdr[n].len \in Nat /\ hdr[n].ptr \in Nat
        BY ONLY <2>4, ByteRange DEF Header
    <2>6. Len(t) = hdr[n].len
        BY ONLY <2>2, <2>3, <2>5 DEF Fits
    <2> QED
        BY ONLY <2>3, <2>5, <2>6
<1> HIDE DEF n, t, x, hd, k
<1>5. w \in Bytes /\ Extends(st, w) /\ Len(w) = base + k
    BY ONLY <1>3, <1>4, PushedSeq
<1>6. Len(v.stack) = base + k
    <2>1. "stack" \in DOMAIN p /\ p.stack = w
        BY ONLY TRUE DEF pushHeapRegion, Pushed, Value
    <2>2. DOMAIN p.stack = 1 .. Len(p.stack) /\ Len(p.stack) \in Nat
        BY ONLY <2>1, <1>5 DEF Bytes
    <2> HIDE DEF p, w
    <2>3. Len(v.stack) = Len(p.stack)
        BY ONLY <2>1, <2>2, <1>1, PutLength
    <2> QED
        BY ONLY <2>1, <2>3, <1>5
<1>7. base + k <= MaxSlots
    BY ONLY <1>6, Len(v.stack) <= MaxSlots
<1>8. p = Filling(w, base + k, base, Len(none), k)
    <2>1. 0 \in Nat /\ 0 <= k /\ k <= k /\ Len(none) = 0 /\ k \in Nat /\ st \in Bytes /\ Len(st) + k <= MaxSlots
        BY ONLY <1>3, <1>4, <1>7, EmptySeq
    <2>2. pushHeapRegion([stack |-> st, top |-> Len(st)], k, 0, k) =
              [stack |-> st \o Zeros(k), top |-> Len(st) + k, hd |-> [ptr |-> Len(st), len |-> 0, cap |-> k]]
        <3> HIDE DEF none
        <3> QED
            BY ONLY <2>1, PushedValue
    <2> QED
        BY ONLY <2>1, <2>2 DEF Filling
<1>9. none \in Bytes /\ Lies(w, base, none) /\ none \o t = t /\ Len(none) = 0
    <2>1. none \in Bytes /\ Len(none) = 0
        BY ONLY EmptySeq DEF Bytes
    <2>2. none \o t = t
        BY ONLY <1>4 DEF Bytes
    <2> QED
        BY ONLY <2>1, <2>2 DEF Lies
<1> HIDE DEF none, w, p
<1>10. Puts(st, w, base, none, t, x, hd, u)
    <2>1. Len(w) < Mod /\ base + Len(none) + Len(t) <= Len(w) /\ base <= base
        <3> HIDE DEF base
        <3>1. base \in Nat /\ k \in Nat /\ Len(none) = 0 /\ Len(t) = k /\ Len(w) = base + k
            BY ONLY <1>3, <1>4, <1>5, <1>9
        <3>2. MaxSlots < Mod /\ MaxSlots \in Nat /\ Mod \in Nat
            BY ONLY SliceHeapAssumption
        <3> QED
            BY ONLY <3>1, <3>2, <1>7
    <2>2. ~IsLiteral(x)
        BY ONLY TRUE DEF x, IsLiteral
    <2>3. hd.len = Len(t)
        BY ONLY <1>4 DEF k
    <2> QED
        BY ONLY <2>1, <2>2, <2>3, <1>3, <1>4, <1>5, <1>9 DEF Puts
<1> DEFINE top == base + k
<1> HIDE DEF u, base, top
<1>11. /\ v = Filling(u, top, base, Len(none) + Len(t), k)
       /\ u \in Bytes /\ Len(u) = Len(w) /\ Extends(st, u) /\ Lies(u, base, none \o t)
    <2>1. p = Filling(w, top, base, Len(none), k)
        BY ONLY <1>8 DEF top
    <2>2. /\ Put(Filling(w, top, base, Len(none), k), x, hd) = Filling(u, top, base, Len(none) + Len(t), k)
          /\ u \in Bytes /\ Len(u) = Len(w) /\ Extends(st, u) /\ Lies(u, base, none \o t)
        BY ONLY <1>10, PutLies
    <2> QED
        BY ONLY <2>1, <2>2, <1>1
<1>12. v.stack = u /\ base + Len(t) = Len(u) /\ v = Filling(u, Len(u), base, Len(t), Len(t)) /\ Lies(u, base, t)
    <2>1. Len(none) + Len(t) = Len(t) /\ top = Len(u) /\ k = Len(t)
        BY ONLY <1>4, <1>5, <1>9, <1>11 DEF top
    <2>2. v = Filling(u, Len(u), base, Len(t), Len(t)) /\ Lies(u, base, t)
        BY ONLY <2>1, <1>9, <1>11
    <2>3. base + Len(t) = Len(u)
        BY ONLY <2>1 DEF top
    <2> QED
        BY ONLY <2>2, <2>3 DEF Filling
<1>13. /\ v = Filling(v.stack, Len(v.stack), base, Len(t), Len(t)) /\ base \in Nat /\ t \in Bytes
       /\ Len(st) <= base /\ base + Len(t) = Len(v.stack) /\ Extends(st, v.stack) /\ Lies(v.stack, base, t)
    BY ONLY <1>3, <1>4, <1>11, <1>12 DEF base
<1> QED
    BY ONLY <1>2, <1>13, Sound(st, hdr, arrays, slices, home, held, own), d \in Names, Size[d] = 1,
            own2 \subseteq own \cup {d}, Len(v.stack) <= MaxSlots, ValueBytes

-----------------------------------------------------------------------------
(* append and +=, which let a buffer grow where it lies or move it.          *)

\* A buffer that ends where the heap ends is the end of its array, and the array
\* variable is that only if no heap has been allocated.
LEMMA TopArray ==
    ASSUME NEW st, NEW hdr, NEW arrays, NEW slices, NEW home, NEW held, NEW own,
           Sound(st, hdr, arrays, slices, home, held, own), NEW n \in held,
           NEW room, room = hdr[n].cap * Size[n], NEW h, h.top = Len(st)
    PROVE  /\ AtTop(h, hdr[n], room) =>
                  /\ home[slices[n].arr] + Len(arrays[slices[n].arr]) = Len(st)
                  /\ Len(arrays[slices[n].arr]) = slices[n].off + room
                  /\ hdr[n].ptr = home[slices[n].arr] + slices[n].off /\ hdr[n].ptr + room = Len(st)
           /\ ~AtTop(h, hdr[n], room) => hdr[n].ptr # Len(st)
<1> DEFINE a == slices[n].arr
           ptr == hdr[n].ptr
           cap == hdr[n].cap
           off == slices[n].off
           top == Len(st)
           len == Len(arrays[a])
           ha == home[a]
<1>1. /\ ptr \in Nat /\ cap \in Nat /\ off \in Nat /\ ptr < Mod /\ room \in Nat /\ off + room <= len
      /\ cap > 0 => ptr + room <= top /\ ptr = ha + off
    BY ONLY Sound(st, hdr, arrays, slices, home, held, own), n \in held, room = hdr[n].cap * Size[n], NameNumbers
<1>2. a \in Used(slices, held) /\ Shows(hdr[n], slices[n], Size[n], arrays, home) /\ Size[n] \in Nat \ {0}
    BY ONLY Sound(st, hdr, arrays, slices, home, held, own), n \in held, NameCells
<1>3. len \in Nat /\ ha \in Nat /\ Lies(st, ha, arrays[a])
    BY ONLY <1>2, Sound(st, hdr, arrays, slices, home, held, own), HeldArray
<1>4. top \in Nat /\ top > 0 /\ top < Mod
    BY ONLY Sound(st, hdr, arrays, slices, home, held, own), SliceHeapAssumption DEF Sound, Typed, Bytes
<1>5. len > 0 => ha + len <= top
    BY ONLY <1>3 DEF Lies
<1>6. (ptr = 0 /\ cap = 0) \/ ptr = ha + off
    <2>1. NilHeader.ptr = 0 /\ NilHeader.cap = 0
        <3>1. Wrap(0) = 0
            BY ONLY WrapSmall, SliceHeapAssumption
        <3> QED
            BY ONLY <3>1 DEF NilHeader, Hd
    <2> QED
        BY ONLY <2>1, <1>2 DEF Shows, IsNil
<1>7. cap = 0 <=> room = 0
    <2> DEFINE size == Size[n]
    <2>1. room = cap * size /\ size \in Nat /\ size # 0
        BY ONLY room = hdr[n].cap * Size[n], <1>2
    <2> HIDE DEF size, cap
    <2> QED
        BY ONLY <2>1, <1>1
<1>8. AtTop(h, hdr[n], room) <=> Wrap(ptr + room) = top
    BY ONLY h.top = Len(st) DEF AtTop
<1> HIDE DEF a, ptr, cap, off, top, len, ha
<1>9. ptr + room < Mod
    BY ONLY <1>1, <1>4, <1>7, SliceHeapAssumption
<1>10. Wrap(ptr + room) = ptr + room
    BY ONLY <1>1, <1>9, WrapSmall
<1>11. CASE AtTop(h, hdr[n], room)
    <2>1. ptr + room = top
        BY ONLY <1>8, <1>10, <1>11
    <2>2. ptr = ha + off
        BY ONLY <2>1, <1>1, <1>4, <1>6, <1>7
    <2>3. ha + len = top /\ len = off + room
        BY ONLY <2>1, <2>2, <1>1, <1>3, <1>4, <1>5
    <2> QED
        BY ONLY <2>1, <2>2, <2>3, <1>11 DEF a, ptr, off, top, len, ha
<1>12. CASE ~AtTop(h, hdr[n], room)
    <2>1. ptr # top
        BY ONLY <1>1, <1>4, <1>7, <1>8, <1>10, <1>12
    <2> QED
        BY ONLY <2>1, <1>12 DEF ptr, top
<1> QED
    BY ONLY <1>11, <1>12

\* An element is written behind the last one, into room that the array has.
Tailed(st, hdr, arrays, slices, home, held, own, own2, n, d, a, off, size, len, cap, at, cells, v, V) ==
    /\ Sound(st, hdr, arrays, slices, home, held, own)
    /\ n \in held \ Strings /\ d \in Names \ Strings /\ Size[d] = Size[n] /\ own2 \subseteq own \ {n, d}
    /\ a = slices[n].arr /\ off = slices[n].off /\ size = Size[n] /\ hdr[n].ptr = home[a] + off
    /\ len \in Nat /\ cap \in Nat /\ len < cap /\ off + cap * size <= Len(arrays[a])
    /\ at = off + len * size /\ cells \in Bytes /\ Len(cells) = size
    /\ v = [stack |-> Stored(st, home[a] + at, cells), top |-> Len(st),
            hd |-> [ptr |-> home[a] + off, len |-> len + 1, cap |-> cap]]
    /\ V = [arrays |-> GoWrite(arrays, a, at, cells), slice |-> View(a, off, len + 1, cap)]

LEMMA TailYields ==
    ASSUME NEW st, NEW hdr, NEW arrays, NEW slices, NEW home, NEW held, NEW own, NEW own2, NEW n, NEW d,
           NEW a, NEW off, NEW size, NEW len, NEW cap, NEW at, NEW cells, NEW v, NEW V,
           Tailed(st, hdr, arrays, slices, home, held, own, own2, n, d, a, off, size, len, cap, at, cells, v, V)
    PROVE  Yields(v, V, hdr, slices, held, own2, d)
<1> USE Tailed(st, hdr, arrays, slices, home, held, own, own2, n, d, a, off, size, len, cap, at, cells, v, V) DEF Tailed
<1> DEFINE w == Stored(st, home[a] + at, cells)
           arrays2 == GoWrite(arrays, a, at, cells)
           ha == home[a]
           na == Len(arrays[a])
<1>1. a \in Used(slices, held) \ Texts(slices, held)
    <2>1. Sound(st, hdr, arrays, slices, home, held, own) /\ n \in held \ Strings /\ a = slices[n].arr
        OBVIOUS
    <2> QED
        BY ONLY <2>1, SliceArray
<1>2. /\ a \in 1 .. Len(arrays) /\ arrays[a] \in Bytes /\ na \in Nat /\ ha \in Nat /\ ha < Mod /\ Lies(st, ha, arrays[a])
    <2>1. Sound(st, hdr, arrays, slices, home, held, own)
        OBVIOUS
    <2> QED
        BY ONLY <2>1, <1>1, HeldArray
<1>3. /\ n \in Names /\ n \in held /\ hdr[n] \in Header /\ slices[n] \in Slices /\ size \in Nat \ {0} /\ off \in Nat
    <2>1. Sound(st, hdr, arrays, slices, home, held, own) /\ n \in held /\ size = Size[n] /\ off = slices[n].off
        OBVIOUS
    <2>2. n \in Names /\ hdr[n] \in Header /\ slices[n] \in Slices /\ Size[n] \in Nat \ {0}
        BY ONLY <2>1, NameCells
    <2> QED
        BY ONLY <2>1, <2>2 DEF Slices
<1>4. st \in Bytes /\ Len(st) \in Nat /\ Len(st) <= MaxSlots /\ MaxSlots < Mod /\ MaxSlots \in Nat /\ arrays \in Seq(Bytes)
    BY SliceHeapAssumption DEF Sound, Typed, Bytes
<1>5. len * size \in Nat /\ len * size + size <= cap * size /\ cap <= cap * size /\ cap * size \in Nat
    <2>1. size \in Nat \ {0} /\ len \in Nat /\ cap \in Nat /\ len + 1 <= cap
        BY <1>3
    <2>2. (len + 1) * size <= cap * size
        BY ONLY <2>1, TimesMonotone
    <2>3. (len + 1) * size = len * size + size /\ len * size \in Nat
        BY ONLY <2>1
    <2> QED
        BY ONLY <2>1, <2>2, <2>3, Times
<1>6. at \in Nat /\ at + Len(cells) <= na
    <2> DEFINE x == len * size
               y == cap * size
    <2>1. at = off + x /\ off + y <= na /\ Len(cells) = size /\ x \in Nat /\ y \in Nat /\ x + size <= y
        BY ONLY <1>5, Tailed(st, hdr, arrays, slices, home, held, own, own2, n, d, a, off, size, len, cap, at, cells, v, V)
           DEF Tailed
    <2> HIDE DEF x, y, na
    <2> QED
        BY ONLY <2>1, <1>2, <1>3
<1>7. Sound(w, hdr, arrays2, slices, home, held, own)
    <2>1. Sound(st, hdr, arrays, slices, home, held, own) /\ cells \in Bytes
        OBVIOUS
    <2> QED
        BY ONLY <2>1, <1>1, <1>6, SoundWrite
<1>8. Len(w) = Len(st) /\ Len(arrays2) = Len(arrays) /\ Len(arrays2[a]) = na
    <2>1. cells \in Bytes /\ ha + at \in Nat
        <3>1. cells \in Bytes
            OBVIOUS
        <3> HIDE DEF ha
        <3>2. ha + at \in Nat
            BY ONLY <1>2, <1>6
        <3> QED
            BY ONLY <3>1, <3>2
    <2>2. Len(w) = Len(st)
        BY ONLY <2>1, <1>4, StoredSeq
    <2>3. Len(arrays2[a]) = na
        BY ONLY <2>1, <1>2, <1>4, <1>6, WriteLengths
    <2>4. Len(arrays2) = Len(arrays)
        BY ONLY <1>4 DEF GoWrite
    <2> QED
        BY ONLY <2>2, <2>3, <2>4
<1>9. len + 1 \in Byte /\ cap \in Byte /\ ha + off \in Byte
    <2> DEFINE y == cap * size
               top == Len(st)
    <2>1. off + y <= na /\ y \in Nat /\ cap <= y /\ len \in Nat /\ cap \in Nat /\ len < cap
        BY ONLY <1>5, Tailed(st, hdr, arrays, slices, home, held, own, own2, n, d, a, off, size, len, cap, at, cells, v, V)
           DEF Tailed
    <2>2. na > 0 => ha + na <= top
        BY ONLY <1>2 DEF Lies
    <2>3. ha \in Nat /\ na \in Nat /\ off \in Nat /\ top \in Nat /\ top <= MaxSlots /\ MaxSlots < Mod /\ MaxSlots \in Nat /\ Mod \in Nat
        BY ONLY <1>2, <1>3, <1>4, SliceHeapAssumption
    <2> HIDE DEF y, top, na, ha
    <2>4. len + 1 \in Nat /\ len + 1 < Mod /\ cap < Mod /\ ha + off \in Nat /\ ha + off < Mod
        BY ONLY <2>1, <2>2, <2>3
    <2> QED
        BY ONLY <2>1, <2>4, ByteRange
<1>10. SharedValue(w, arrays2, slices, home, held, d, v, V)
    <2>1. v.hd = [ptr |-> ha + off, len |-> len + 1, cap |-> cap] /\ V.slice = View(a, off, len + 1, cap)
        BY DEF View
    <2>2. v.hd \in Header
        BY ONLY <2>1, <1>9 DEF Header
    <2>3. V.slice \in Slices /\ V.slice.arr = a
        BY ONLY <2>1, <1>2, <1>3, <1>9, ByteRange DEF Slices, View
    <2>4. Shows(v.hd, V.slice, Size[d], arrays2, home)
        <3>1. len + 1 <= cap /\ off + cap * Size[d] <= Len(arrays2[a])
            BY <1>8
        <3>2. a \in 1 .. Len(arrays2)
            BY ONLY <1>2, <1>8
        <3> QED
            BY ONLY <2>1, <3>1, <3>2 DEF Shows, View
    <2>5. v.stack = w /\ v.top = Len(w) /\ V.arrays = arrays2 /\ d \notin Strings
        BY <1>8
    <2> QED
        BY ONLY <2>2, <2>3, <2>4, <2>5, <1>1 DEF SharedValue
<1>11. \A m \in own2 : IsNil(hdr[m], slices[m]) \/ slices[m].arr # V.slice.arr
    <2>1. V.slice.arr = slices[n].arr /\ \A m \in own2 : m \in own \ {n}
        BY DEF View
    <2>2. Sound(st, hdr, arrays, slices, home, held, own)
        OBVIOUS
    <2> QED
        BY ONLY <2>1, <2>2, <1>3, NotOwned
<1>12. own2 \subseteq own \cup {d} /\ d \notin own2 /\ d \in Names
    OBVIOUS
<1> HIDE DEF w, arrays2
<1> QED
    BY ONLY <1>7, <1>10, <1>11, <1>12, YieldsShared

\* An element is appended to n, and d gets the result: the statement append(n, x),
\* where d is n, and the expression.
Appends(st, hdr, arrays, slices, home, held, own, own2, n, d, size, cells, v, V, r2) ==
    /\ Sound(st, hdr, arrays, slices, home, held, own)
    /\ n \in held \ Strings /\ d \in Names \ Strings /\ size = Size[n] /\ Size[d] = Size[n]
    /\ own2 \subseteq own \ {n, d} /\ cells \in Bytes /\ Len(cells) = size
    /\ v = lowerSliceAppend(Value([stack |-> st, top |-> Len(st)], hdr[n]), size, cells)
    /\ Len(v.stack) <= MaxSlots
    /\ V = GoAppend(GoOf(arrays, slices, r2), n, cells, v.hd.ptr = hdr[n].ptr)

\* A slice that is not full has room for an element.
LEMMA AppendRoomy ==
    ASSUME NEW st, NEW hdr, NEW arrays, NEW slices, NEW home, NEW held, NEW own, NEW own2, NEW n, NEW d,
           NEW size, NEW cells, NEW v, NEW V, NEW r2,
           Appends(st, hdr, arrays, slices, home, held, own, own2, n, d, size, cells, v, V, r2),
           hdr[n].len < hdr[n].cap
    PROVE  Yields(v, V, hdr, slices, held, own2, d)
<1> USE Appends(st, hdr, arrays, slices, home, held, own, own2, n, d, size, cells, v, V, r2) DEF Appends
<1> DEFINE hd == hdr[n]
           ptr == hd.ptr
           len == hd.len
           cap == hd.cap
           sl == slices[n]
           a == sl.arr
           off == sl.off
           old == [stack |-> st, top |-> Len(st), hd |-> hd]
           at == off + len * size
           slot == home[a] + at
<1>1. Sound(st, hdr, arrays, slices, home, held, own) /\ n \in held /\ size = Size[n]
    OBVIOUS
<1>2. /\ len = sl.len /\ cap = sl.cap /\ ptr \in Nat /\ len \in Nat /\ cap \in Nat /\ off \in Nat /\ cap < Mod
      /\ off + cap * size <= Len(arrays[a]) /\ (cap > 0 => ptr = home[a] + off)
      /\ cap * size \in Nat /\ len * size \in Nat
    BY ONLY <1>1, NameNumbers
<1>3. hd = [ptr |-> ptr, len |-> len, cap |-> cap] /\ sl = View(a, off, len, cap)
    <2>1. hd \in Header /\ sl \in Slices
        BY ONLY <1>1, NameCells
    <2>2. sl = View(sl.arr, sl.off, sl.len, sl.cap)
        BY ONLY <2>1 DEF View, Slices
    <2> QED
        BY ONLY <2>1, <2>2, <1>2 DEF Header
<1>4. v = storeValAtTail(old, size, cells)
    BY Zenon DEF lowerSliceAppend, Value
<1>5. V = GoValue(GoWrite(arrays, a, off + sl.len * size, cells), [sl EXCEPT !.len = @ + 1])
    <2>1. sl.len < sl.cap
        BY <1>2
    <2> DEFINE kept == v.hd.ptr = hdr[n].ptr
    <2>2. V = GoAppend(GoOf(arrays, slices, r2), n, cells, kept)
        OBVIOUS
    <2> HIDE DEF kept
    <2> QED
        BY ONLY <2>1, <2>2, <1>1, Zenon DEF GoAppend, GoOf, GoValue
<1>6. ptr = home[a] + off /\ len < cap
    BY <1>2
<1>7. ptr + len * size = slot
    <2> DEFINE x == len * size
               ha == home[a]
    <2>1. ha \in Nat
        <3>1. a \in Used(slices, held)
            BY ONLY <1>1, NameCells
        <3> QED
            BY ONLY <3>1, <1>1, HeldArray
    <2>2. x \in Nat /\ ptr = ha + off /\ ptr \in Nat /\ off \in Nat
        BY ONLY <1>2, <1>6
    <2>3. slot = ha + (off + x)
        OBVIOUS
    <2> HIDE DEF x, ptr, off, ha, slot
    <2>4. ptr + x = slot
        BY ONLY <2>1, <2>2, <2>3
    <2> QED
        BY ONLY <2>4 DEF x
<1> HIDE DEF ptr, len, cap, a, off, at, slot
<1>8. v = [stack |-> Stored(st, slot, cells), top |-> Len(st), hd |-> [ptr |-> ptr, len |-> len + 1, cap |-> cap]]
    <2>1. v = [[stack |-> st, top |-> Len(st), hd |-> [ptr |-> ptr, len |-> len, cap |-> cap]]
                  EXCEPT !.stack = Stored(st, ptr + len * size, cells), !.hd.len = Wrap(len + 1)]
        <3>1. storeValAtTail(old, size, cells) =
                  [old EXCEPT !.stack = Stored(old.stack, old.hd.ptr + old.hd.len * size, cells),
                              !.hd.len = Wrap(old.hd.len + 1)]
            BY ONLY TRUE, Zenon DEF storeValAtTail
        <3>2. old.stack = st /\ old.hd.ptr = ptr /\ old.hd.len = len
            BY ONLY TRUE DEF ptr, len
        <3>3. old = [stack |-> st, top |-> Len(st), hd |-> [ptr |-> ptr, len |-> len, cap |-> cap]]
            BY ONLY <1>3
        <3> HIDE DEF old
        <3> QED
            BY ONLY <3>1, <3>2, <3>3, <1>4
    <2>2. Wrap(len + 1) = len + 1
        <3>1. len + 1 \in Nat /\ len + 1 < Mod
            BY ONLY <1>2, <1>6, SliceHeapAssumption, SMTT(30)
        <3> QED
            BY ONLY <3>1, WrapSmall
    <2> QED
        BY ONLY <2>1, <2>2, <1>7
<1>9. V = [arrays |-> GoWrite(arrays, a, at, cells), slice |-> View(a, off, len + 1, cap)]
    <2>1. V.arrays = GoWrite(arrays, a, at, cells) /\ DOMAIN V = {"arrays", "slice"}
        BY ONLY <1>2, <1>5 DEF GoValue, at
    <2>2. [sl EXCEPT !.len = @ + 1] = View(a, off, len + 1, cap)
        BY ONLY <1>3 DEF View
    <2> QED
        BY ONLY <1>2, <1>5, <2>2 DEF GoValue, at
<1>10. Tailed(st, hdr, arrays, slices, home, held, own, own2, n, d, a, off, size, len, cap, at, cells, v, V)
    <2>1. a = slices[n].arr /\ off = slices[n].off /\ hdr[n].ptr = home[a] + off /\ at = off + len * size
        BY ONLY <1>6 DEF a, off, ptr, at
    <2>2. v = [stack |-> Stored(st, home[a] + at, cells), top |-> Len(st),
               hd |-> [ptr |-> home[a] + off, len |-> len + 1, cap |-> cap]]
        BY ONLY <1>6, <1>8 DEF slot
    <2>3. /\ Sound(st, hdr, arrays, slices, home, held, own)
          /\ n \in held \ Strings /\ d \in Names \ Strings /\ Size[d] = Size[n] /\ own2 \subseteq own \ {n, d}
          /\ size = Size[n] /\ cells \in Bytes /\ Len(cells) = size
        OBVIOUS
    <2> QED
        BY ONLY <2>1, <2>2, <2>3, <1>2, <1>6, <1>9 DEF Tailed
<1> QED
    BY ONLY <1>10, TailYields

\* The capacity of a slice that has grown.
LEMMA Doubled ==
    ASSUME NEW cap \in Nat, NEW size \in Nat \ {0}, NEW k, k = (DoubledCap(cap) - cap) * size
    PROVE  /\ DoubledCap(cap) \in Nat /\ cap < DoubledCap(cap) /\ k \in Nat
           /\ DoubledCap(cap) * size = cap * size + k /\ DoubledCap(cap) <= cap + k
           /\ cap * size \in Nat /\ cap <= cap * size /\ DoubledCap(cap) <= DoubledCap(cap) * size
<1> DEFINE new == DoubledCap(cap)
           more == new - cap
<1>1. new \in Nat /\ cap < new /\ more \in Nat /\ new = cap + more
    BY ONLY cap \in Nat DEF DoubledCap
<1> HIDE DEF new, more
<1>2. k = more * size
    BY ONLY k = (DoubledCap(cap) - cap) * size DEF new, more
<1>3. new * size = cap * size + more * size /\ more * size \in Nat /\ cap * size \in Nat
    BY ONLY <1>1, cap \in Nat, size \in Nat \ {0}, Distribute
<1>4. more <= more * size /\ cap <= cap * size /\ new <= new * size
    BY ONLY <1>1, cap \in Nat, size \in Nat \ {0}, Times
<1>5. new <= cap + k
    <2> DEFINE x == more * size
    <2>1. x \in Nat /\ more <= x /\ k = x
        BY ONLY <1>2, <1>3, <1>4
    <2> HIDE DEF x
    <2> QED
        BY ONLY <2>1, <1>1, cap \in Nat
<1> QED
    BY ONLY <1>1, <1>2, <1>3, <1>4, <1>5 DEF new

\* The numbers of a slice that is full.
LEMMA AppendNumbers ==
    ASSUME NEW st, NEW hdr, NEW arrays, NEW slices, NEW home, NEW held, NEW own, NEW own2, NEW n, NEW d,
           NEW size, NEW cells, NEW v, NEW V, NEW r2,
           Appends(st, hdr, arrays, slices, home, held, own, own2, n, d, size, cells, v, V, r2),
           ~(hdr[n].len < hdr[n].cap)
    PROVE  /\ hdr[n] = [ptr |-> hdr[n].ptr, len |-> hdr[n].cap, cap |-> hdr[n].cap]
           /\ slices[n] = View(slices[n].arr, slices[n].off, hdr[n].cap, hdr[n].cap)
           /\ hdr[n].ptr \in Nat /\ hdr[n].ptr < Mod /\ hdr[n].cap \in Nat /\ hdr[n].cap < Mod /\ hdr[n].cap * size \in Nat
           /\ slices[n].off \in Nat /\ slices[n].arr \in 1 .. Len(arrays) /\ size \in Nat \ {0}
           /\ st \in Bytes /\ Len(st) \in Nat /\ arrays \in Seq(Bytes) /\ n \in held /\ size = Size[n]
           /\ hdr[n] \in Header
<1> USE Appends(st, hdr, arrays, slices, home, held, own, own2, n, d, size, cells, v, V, r2) DEF Appends
<1>1. Sound(st, hdr, arrays, slices, home, held, own) /\ n \in held /\ size = Size[n]
    OBVIOUS
<1>2. /\ hdr[n].len = slices[n].len /\ hdr[n].cap = slices[n].cap /\ hdr[n].ptr \in Nat /\ hdr[n].ptr < Mod
      /\ hdr[n].len \in Nat /\ hdr[n].cap \in Nat /\ hdr[n].cap < Mod /\ slices[n].off \in Nat
      /\ hdr[n].len <= hdr[n].cap /\ slices[n].arr \in 1 .. Len(arrays) /\ hdr[n].cap * Size[n] \in Nat
    BY ONLY <1>1, NameNumbers
<1>3. hdr[n] \in Header /\ slices[n] \in Slices /\ Size[n] \in Nat \ {0}
    BY ONLY <1>1, NameCells
<1>4. hdr[n].len = hdr[n].cap
    BY ONLY <1>2, ~(hdr[n].len < hdr[n].cap)
<1>5. hdr[n] = [ptr |-> hdr[n].ptr, len |-> hdr[n].len, cap |-> hdr[n].cap]
    BY ONLY <1>3 DEF Header
<1>6. slices[n] = View(slices[n].arr, slices[n].off, slices[n].len, slices[n].cap)
    BY ONLY <1>3 DEF View, Slices
<1>7. st \in Bytes /\ Len(st) \in Nat /\ arrays \in Seq(Bytes)
    BY ONLY <1>1 DEF Sound, Typed, Bytes
<1>8. hdr[n] = [ptr |-> hdr[n].ptr, len |-> hdr[n].cap, cap |-> hdr[n].cap]
    BY ONLY <1>4, <1>5
<1>9. slices[n] = View(slices[n].arr, slices[n].off, hdr[n].cap, hdr[n].cap)
    BY ONLY <1>2, <1>4, <1>6
<1> QED
    BY ONLY <1>1, <1>2, <1>3, <1>7, <1>8, <1>9

\* The element that is stored last.
LEMMA StoredTail ==
    ASSUME NEW st, NEW top, NEW ptr, NEW len \in Nat, len + 1 < Mod, NEW cap, NEW size, NEW cells,
           NEW v, v = Value([stack |-> st, top |-> top], [ptr |-> ptr, len |-> len, cap |-> cap])
    PROVE  storeValAtTail(v, size, cells) =
               [stack |-> Stored(st, ptr + len * size, cells), top |-> top,
                hd |-> [ptr |-> ptr, len |-> len + 1, cap |-> cap]]
<1> DEFINE q == storeValAtTail(v, size, cells)
<1>1. v = [stack |-> st, top |-> top, hd |-> [ptr |-> ptr, len |-> len, cap |-> cap]]
    BY DEF Value
<1>2. Wrap(len + 1) = len + 1
    BY ONLY len \in Nat, len + 1 < Mod, WrapSmall
<1>3. q = [v EXCEPT !.stack = Stored(v.stack, v.hd.ptr + v.hd.len * size, cells), !.hd.len = Wrap(v.hd.len + 1)]
    BY ONLY TRUE, Zenon DEF storeValAtTail
<1>4. v.stack = st /\ v.hd.ptr = ptr /\ v.hd.len = len
    BY ONLY <1>1
<1> HIDE DEF q
<1>5. q = [[stack |-> st, top |-> top, hd |-> [ptr |-> ptr, len |-> len, cap |-> cap]]
              EXCEPT !.stack = Stored(st, ptr + len * size, cells), !.hd.len = len + 1]
    BY ONLY <1>1, <1>2, <1>3, <1>4
<1>6. q = [stack |-> Stored(st, ptr + len * size, cells), top |-> top,
           hd |-> [ptr |-> ptr, len |-> len + 1, cap |-> cap]]
    BY ONLY <1>5
<1> QED
    BY ONLY <1>6 DEF q

\* A full slice at the end of the heap grows where it lies (ExtendedInPlace).
LEMMA AppendExtended ==
    ASSUME NEW st, NEW hdr, NEW arrays, NEW slices, NEW home, NEW held, NEW own, NEW own2, NEW n, NEW d,
           NEW size, NEW cells, NEW v, NEW V, NEW r2,
           Appends(st, hdr, arrays, slices, home, held, own, own2, n, d, size, cells, v, V, r2),
           ~(hdr[n].len < hdr[n].cap),
           AtTop([stack |-> st, top |-> Len(st)], hdr[n], hdr[n].cap * size)
    PROVE  Yields(v, V, hdr, slices, held, own2, d)
<1> DEFINE ptr == hdr[n].ptr
           cap == hdr[n].cap
           a == slices[n].arr
           off == slices[n].off
           h == [stack |-> st, top |-> Len(st)]
           old == [stack |-> st, top |-> Len(st), hd |-> hdr[n]]
           new == DoubledCap(cap)
           k == (new - cap) * size
           w == st \o Zeros(k)
           ha == home[a]
           na == Len(arrays[a])
           at == off + cap * size
<1>1. /\ hdr[n] = [ptr |-> ptr, len |-> cap, cap |-> cap] /\ slices[n] = View(a, off, cap, cap)
      /\ ptr \in Nat /\ ptr < Mod /\ cap \in Nat /\ cap < Mod /\ cap * size \in Nat
      /\ off \in Nat /\ a \in 1 .. Len(arrays) /\ size \in Nat \ {0}
      /\ st \in Bytes /\ Len(st) \in Nat /\ arrays \in Seq(Bytes) /\ n \in held /\ size = Size[n]
    <2>1. /\ hdr[n] = [ptr |-> hdr[n].ptr, len |-> hdr[n].cap, cap |-> hdr[n].cap]
          /\ slices[n] = View(slices[n].arr, slices[n].off, hdr[n].cap, hdr[n].cap)
          /\ hdr[n].ptr \in Nat /\ hdr[n].ptr < Mod /\ hdr[n].cap \in Nat /\ hdr[n].cap < Mod /\ hdr[n].cap * size \in Nat
          /\ slices[n].off \in Nat /\ slices[n].arr \in 1 .. Len(arrays) /\ size \in Nat \ {0}
          /\ st \in Bytes /\ Len(st) \in Nat /\ arrays \in Seq(Bytes) /\ n \in held /\ size = Size[n]
          /\ hdr[n] \in Header
        BY ONLY Appends(st, hdr, arrays, slices, home, held, own, own2, n, d, size, cells, v, V, r2),
                ~(hdr[n].len < hdr[n].cap), AppendNumbers
    <2> QED
        BY ONLY <2>1
<1> USE Appends(st, hdr, arrays, slices, home, held, own, own2, n, d, size, cells, v, V, r2) DEF Appends
<1>2. Sound(st, hdr, arrays, slices, home, held, own) /\ n \in held \ Strings /\ Len(v.stack) <= MaxSlots
    OBVIOUS
<1>3. ha + na = Len(st) /\ na = off + cap * size /\ ptr = ha + off /\ ptr + cap * size = Len(st)
    <2> DEFINE room == cap * size
    <2>1. room = hdr[n].cap * Size[n] /\ h.top = Len(st) /\ AtTop(h, hdr[n], room)
        BY <1>1
    <2> HIDE DEF room, h
    <2> QED
        BY ONLY <1>1, <1>2, <2>1, TopArray, SMTT(30) DEF room
<1>4. /\ new \in Nat /\ cap < new /\ k \in Nat /\ new * size = cap * size + k /\ new <= cap + k /\ cap <= cap * size
    BY ONLY <1>1, Doubled
<1> HIDE DEF ptr, cap, a, off, h, k, new, ha, na, at, w
<1>5. w \in Bytes /\ Len(w) = Len(st) + k
    BY ONLY <1>1, <1>4, PushedSeq DEF w
<1>6. ExtendedInPlace(old, new - cap, size) =
          Value([stack |-> w, top |-> Wrap(Len(st) + k)], [ptr |-> ptr, len |-> cap, cap |-> Wrap(new)])
    <2>1. ExtendedInPlace(old, new - cap, size) =
              Value(Pushed(HeapOf(old), (new - cap) * size), [old.hd EXCEPT !.cap = Wrap(old.hd.cap + (new - cap))])
        BY ONLY TRUE, Zenon DEF ExtendedInPlace
    <2>2. Pushed(HeapOf(old), (new - cap) * size) = [stack |-> w, top |-> Wrap(Len(st) + k)]
        BY ONLY TRUE DEF Pushed, HeapOf, k, w, new, cap
    <2>5. old.hd = [ptr |-> ptr, len |-> cap, cap |-> cap]
        BY ONLY <1>1
    <2> DEFINE u == old.hd
    <2> HIDE DEF u
    <2>3. old.hd.cap + (new - cap) = new
        <3>1. u.cap = cap
            BY ONLY <2>5 DEF u
        <3>2. cap + (new - cap) = new
            BY ONLY <1>1, <1>4
        <3> QED
            BY ONLY <3>1, <3>2 DEF u
    <2>4. [old.hd EXCEPT !.cap = Wrap(new)] = [ptr |-> ptr, len |-> cap, cap |-> Wrap(new)]
        <3>1. [u EXCEPT !.cap = Wrap(new)] = [ptr |-> ptr, len |-> cap, cap |-> Wrap(new)]
            <4>1. u = [ptr |-> ptr, len |-> cap, cap |-> cap]
                BY ONLY <2>5 DEF u
            <4> QED
                BY ONLY <4>1
        <3> QED
            BY ONLY <3>1 DEF u
    <2> QED
        BY ONLY <2>1, <2>2, <2>3, <2>4
<1>7. v = storeValAtTail(ExtendedInPlace(old, new - cap, size), size, cells)
    <2>1. v = lowerSliceAppend(old, size, cells)
        BY DEF Value
    <2>2. old.hd = hdr[n] /\ HeapOf(old) = h /\ ~(old.hd.len < old.hd.cap) /\ AtTop(HeapOf(old), old.hd, old.hd.cap * size)
          /\ DoubledCap(old.hd.cap) = new /\ old.hd.cap = cap
        BY DEF HeapOf, h, new, cap
    <2>3. lowerSliceAppend(old, size, cells) =
              storeValAtTail(IF old.hd.len < old.hd.cap THEN old
                             ELSE IF AtTop(HeapOf(old), old.hd, old.hd.cap * size)
                                  THEN ExtendedInPlace(old, DoubledCap(old.hd.cap) - old.hd.cap, size)
                                  ELSE Reallocated(old, DoubledCap(old.hd.cap), size), size, cells)
        BY ONLY TRUE, Zenon DEF lowerSliceAppend
    <2> HIDE DEF old
    <2> QED
        BY ONLY <2>1, <2>2, <2>3
<1> HIDE DEF old
<1>8. Len(v.stack) = Len(w)
    <2> DEFINE u == Value([stack |-> w, top |-> Wrap(Len(st) + k)], [ptr |-> ptr, len |-> cap, cap |-> Wrap(new)])
               slot == u.hd.ptr + u.hd.len * size
    <2>1. v.stack = Stored(u.stack, slot, cells)
        <3>1. v = [u EXCEPT !.stack = Stored(u.stack, slot, cells), !.hd.len = Wrap(u.hd.len + 1)]
            BY ONLY <1>6, <1>7, Zenon DEF storeValAtTail
        <3>2. "stack" \in DOMAIN u
            BY ONLY TRUE DEF Value
        <3> HIDE DEF u, slot
        <3> QED
            BY ONLY <3>1, <3>2
    <2>2. u.stack = w
        BY ONLY TRUE DEF Value
    <2>3. DOMAIN w = 1 .. Len(w) /\ Len(w) \in Nat
        BY ONLY <1>5 DEF Bytes
    <2> HIDE DEF u, slot
    <2> QED
        BY ONLY <2>1, <2>2, <2>3, StoredLength
<1>9. Len(st) + k <= MaxSlots /\ MaxSlots < Mod /\ MaxSlots \in Nat /\ Mod \in Nat
    BY ONLY <1>2, <1>5, <1>8, SliceHeapAssumption
<1>10. new < Mod /\ Len(st) + k < Mod /\ cap + 1 < Mod
    <2> DEFINE x == cap * size
               top == Len(st)
    <2>1. /\ ptr + x = top /\ cap <= x /\ new <= cap + k /\ cap < new /\ x \in Nat /\ top \in Nat /\ top + k <= MaxSlots
          /\ cap \in Nat /\ ptr \in Nat /\ new \in Nat /\ k \in Nat /\ MaxSlots < Mod /\ MaxSlots \in Nat /\ Mod \in Nat
        BY ONLY <1>1, <1>3, <1>4, <1>9
    <2> HIDE DEF x, top
    <2>2. new < Mod /\ top + k < Mod /\ cap + 1 < Mod
        BY ONLY <2>1
    <2> QED
        BY ONLY <2>2 DEF top
<1>11. v = [stack |-> Stored(w, ptr + cap * size, cells), top |-> Len(st) + k,
            hd |-> [ptr |-> ptr, len |-> cap + 1, cap |-> new]]
    <2> DEFINE top == Len(st) + k
               u == Value([stack |-> w, top |-> top], [ptr |-> ptr, len |-> cap, cap |-> new])
    <2>1. Wrap(top) = top /\ Wrap(new) = new
        <3>1. top \in Nat /\ top < Mod
            BY ONLY <1>1, <1>4, <1>10
        <3> HIDE DEF top
        <3> QED
            BY ONLY <3>1, <1>4, <1>10, WrapSmall
    <2>2. v = storeValAtTail(u, size, cells)
        BY ONLY <2>1, <1>6, <1>7
    <2>3. u = Value([stack |-> w, top |-> top], [ptr |-> ptr, len |-> cap, cap |-> new])
        OBVIOUS
    <2> HIDE DEF u, top
    <2>4. storeValAtTail(u, size, cells) =
              [stack |-> Stored(w, ptr + cap * size, cells), top |-> top, hd |-> [ptr |-> ptr, len |-> cap + 1, cap |-> new]]
        BY ONLY <2>3, <1>1, <1>10, StoredTail
    <2> QED
        BY ONLY <2>2, <2>4 DEF top
<1> DEFINE arrays2 == [arrays EXCEPT ![a] = @ \o Zeros(k)]
<1>12. V = [arrays |-> GoWrite(arrays2, a, at, cells), slice |-> View(a, off, cap + 1, new)]
    <2> DEFINE s == View(a, off, cap, cap)
               kept == v.hd.ptr = hdr[n].ptr
    <2>1. kept
        BY ONLY <1>11 DEF ptr
    <2>2. V = GoAppend(GoOf(arrays, slices, r2), n, cells, kept)
        OBVIOUS
    <2> HIDE DEF kept
    <2>3. slices[n] = s /\ s.arr = a /\ s.off = off /\ s.len = cap /\ s.cap = cap
        BY ONLY <1>1 DEF View
    <2> HIDE DEF s
    <2>4. ~(s.len < s.cap) /\ DoubledCap(s.cap) = new
        BY ONLY <2>3, <1>1 DEF new
    <2>5. V = GoValue(GoWrite([arrays EXCEPT ![a] = Padded(@, off + new * size)], a, off + cap * size, cells),
                      [[s EXCEPT !.cap = new] EXCEPT !.len = @ + 1])
        <3> DEFINE grown == GoValue([arrays EXCEPT ![s.arr] = Padded(@, s.off + DoubledCap(s.cap) * Size[n])],
                                    [s EXCEPT !.cap = DoubledCap(s.cap)])
                   g == GoOf(arrays, slices, r2)
        <3>1. g.slices[n] = s /\ g.arrays = arrays
            BY ONLY <2>3 DEF GoOf
        <3> HIDE DEF g
        <3>2. V = GoValue(GoWrite(grown.arrays, grown.slice.arr, grown.slice.off + grown.slice.len * Size[n], cells),
                          [grown.slice EXCEPT !.len = @ + 1])
            BY ONLY <2>1, <2>2, <2>4, <3>1, ZenonT(30) DEF GoAppend, g
        <3>3. /\ grown.arrays = [arrays EXCEPT ![a] = Padded(@, off + new * size)]
              /\ grown.slice = [s EXCEPT !.cap = new]
            BY ONLY <2>3, <2>4, <1>1 DEF GoValue
        <3>4. [s EXCEPT !.cap = new].arr = a /\ [s EXCEPT !.cap = new].off = off /\ [s EXCEPT !.cap = new].len = cap
            BY ONLY <2>3
        <3> HIDE DEF grown
        <3> QED
            BY ONLY <3>2, <3>3, <3>4, <1>1
    <2>6. Padded(arrays[a], off + new * size) = arrays[a] \o Zeros(k)
        <3>1. (off + new * size) - na = k
            <4> DEFINE x == cap * size
                       y == new * size
            <4>1. y = x + k /\ na = off + x /\ x \in Nat /\ k \in Nat /\ off \in Nat
                BY ONLY <1>1, <1>3, <1>4
            <4> HIDE DEF x, y
            <4> QED
                BY ONLY <4>1 DEF y
        <3> DEFINE y == off + new * size
        <3>2. y - Len(arrays[a]) = k
            BY ONLY <3>1 DEF na
        <3> HIDE DEF y
        <3>3. Padded(arrays[a], y) = arrays[a] \o Zeros(k)
            BY ONLY <3>2 DEF Padded
        <3> QED
            BY ONLY <3>3 DEF y
    <2>7. [arrays EXCEPT ![a] = Padded(@, off + new * size)] = arrays2
        BY ONLY <2>6
    <2>8. [[s EXCEPT !.cap = new] EXCEPT !.len = @ + 1] = View(a, off, cap + 1, new)
        <3>1. s = [arr |-> a, off |-> off, len |-> cap, cap |-> cap]
            BY ONLY TRUE DEF s, View
        <3>2. [s EXCEPT !.cap = new] = [arr |-> a, off |-> off, len |-> cap, cap |-> new]
            BY ONLY <3>1
        <3> DEFINE u == [s EXCEPT !.cap = new]
        <3>4. u = [arr |-> a, off |-> off, len |-> cap, cap |-> new]
            BY ONLY <3>2
        <3> HIDE DEF u
        <3>5. [u EXCEPT !.len = @ + 1] = [arr |-> a, off |-> off, len |-> cap + 1, cap |-> new]
            BY ONLY <3>4
        <3>3. [[s EXCEPT !.cap = new] EXCEPT !.len = @ + 1] = [arr |-> a, off |-> off, len |-> cap + 1, cap |-> new]
            BY ONLY <3>5 DEF u
        <3> QED
            BY ONLY <3>3 DEF View
    <2> HIDE DEF arrays2
    <2> QED
        BY ONLY <2>5, <2>7, <2>8 DEF GoValue, at
<1>13. Sound(w, hdr, arrays2, slices, home, held, own)
    <2>1. a \in Used(slices, held) /\ a \notin Texts(slices, held)
        BY ONLY <1>2, SliceArray DEF a
    <2> QED
        BY ONLY <2>1, <1>2, <1>3, <1>4, <1>9, SoundExtend DEF ha, na, w
<1>14. Len(arrays2[a]) = na + k
    <2>1. arrays[a] \in Bytes
        BY ONLY <1>1
    <2>2. Len(arrays[a] \o Zeros(k)) = na + k
        BY ONLY <2>1, <1>4, PushedSeq DEF na
    <2> QED
        BY ONLY <2>2, <1>1
<1>15. off + new * size <= Len(arrays2[a])
    <2> DEFINE x == cap * size
               y == new * size
    <2>1. y = x + k /\ na = off + x /\ x \in Nat /\ k \in Nat /\ off \in Nat
        BY ONLY <1>1, <1>3, <1>4
    <2> HIDE DEF x, y
    <2>2. off + y <= na + k
        BY ONLY <2>1
    <2> QED
        BY ONLY <2>2, <1>14 DEF y
<1>16. ptr + cap * size = ha + at /\ Len(w) = Len(st) + k
    <2> DEFINE x == cap * size
    <2>1. x \in Nat /\ ptr = ha + off /\ ptr \in Nat /\ off \in Nat /\ at = off + x
        BY ONLY <1>1, <1>3 DEF at
    <2>2. ha \in Nat
        <3>1. a \in Used(slices, held)
            BY ONLY <1>2, SliceArray DEF a
        <3> QED
            BY ONLY <3>1, <1>2, HeldArray DEF ha
    <2> HIDE DEF x
    <2>3. ptr + x = ha + at
        BY ONLY <2>1, <2>2, SMTT(30)
    <2> QED
        BY ONLY <2>3, <1>5 DEF x
<1> HIDE DEF arrays2
<1>17. Tailed(w, hdr, arrays2, slices, home, held, own, own2, n, d, a, off, size, cap, new, at, cells, v, V)
    <2>1. a = slices[n].arr /\ off = slices[n].off /\ hdr[n].ptr = home[a] + off /\ at = off + cap * size
        BY ONLY <1>3 DEF a, off, ptr, at, ha
    <2>2. v = [stack |-> Stored(w, home[a] + at, cells), top |-> Len(w),
               hd |-> [ptr |-> home[a] + off, len |-> cap + 1, cap |-> new]]
        BY ONLY <1>3, <1>11, <1>16 DEF ha
    <2>3. /\ n \in held \ Strings /\ d \in Names \ Strings /\ Size[d] = Size[n] /\ own2 \subseteq own \ {n, d}
          /\ size = Size[n] /\ cells \in Bytes /\ Len(cells) = size
        OBVIOUS
    <2> QED
        BY ONLY <2>1, <2>2, <2>3, <1>1, <1>4, <1>12, <1>13, <1>15 DEF Tailed
<1> QED
    BY ONLY <1>17, TailYields

\* What an element is stored behind, in a buffer at the end of the stack.
LEMMA FreshTail ==
    ASSUME NEW st \in Bytes, NEW room \in Nat, NEW c \in Bytes, NEW at \in Nat, NEW cells \in Bytes,
           Len(c) <= room, at + Len(cells) <= room,
           NEW w, w = Stored(Stored(st \o Zeros(room), Len(st), c), Len(st) + at, cells)
    PROVE  /\ Extends(st, w) /\ Len(w) = Len(st) + room
           /\ LET p == Stored(Padded(c, room), at, cells)
              IN  p \in Bytes /\ Len(p) = room /\ Lies(w, Len(st), p)
<1> DEFINE w1 == Stored(st \o Zeros(room), Len(st), c)
           p1 == Padded(c, room)
           p == Stored(p1, at, cells)
           base == Len(st)
           slot == base + at
<1>1. Extends(st, w1) /\ Len(w1) = Len(st) + room /\ p1 \in Bytes /\ Len(p1) = room /\ Lies(w1, base, p1)
    BY ONLY st \in Bytes, room \in Nat, c \in Bytes, Len(c) <= room, FreshStored
<1>2. w1 \in Bytes /\ base \in Nat /\ slot \in Nat /\ base <= slot
    BY ONLY <1>1, st \in Bytes, at \in Nat DEF Extends, Bytes
<1>3. w = Stored(w1, slot, cells)
    OBVIOUS
<1> HIDE DEF w1, p1
<1>4. p \in Bytes /\ Len(p) = room
    BY ONLY <1>1, at \in Nat, cells \in Bytes, StoredSeq
<1>5. Extends(st, w) /\ Len(w) = Len(st) + room
    <2> HIDE DEF slot
    <2>1. Len(st) <= slot
        BY ONLY <1>2
    <2> QED
        BY ONLY <2>1, <1>1, <1>2, <1>3, st \in Bytes, cells \in Bytes, ExtendsStored
<1>6. Lies(w, base, p)
    <2>1. at + Len(cells) <= Len(p1)
        BY ONLY <1>1, at + Len(cells) <= room
    <2> HIDE DEF base
    <2>2. Lies(Stored(w1, base + at, cells), base, Stored(p1, at, cells))
        BY ONLY <2>1, <1>1, <1>2, at \in Nat, cells \in Bytes, StoredWithin
    <2> QED
        BY ONLY <2>2, <1>3
<1> QED
    BY ONLY <1>4, <1>5, <1>6 DEF p, p1, base

\* The array that was appended last is another one.
LEMMA AppendedLast ==
    ASSUME NEW arrays \in Seq(Bytes), NEW x \in Bytes, NEW y \in Bytes
    PROVE  [Append(arrays, x) EXCEPT ![Len(arrays) + 1] = y] = Append(arrays, y)
<1> DEFINE q == [Append(arrays, x) EXCEPT ![Len(arrays) + 1] = y]
           s == Append(arrays, x)
           n == Len(arrays) + 1
<1>1. s \in Seq(Bytes) /\ Len(s) = n /\ n \in Nat /\ \A i \in 1 .. Len(arrays) : s[i] = arrays[i]
    BY ONLY arrays \in Seq(Bytes), x \in Bytes
<1>2. q \in Seq(Bytes) /\ Len(q) = n /\ \A i \in 1 .. n : q[i] = IF i = n THEN y ELSE s[i]
    <2> HIDE DEF s
    <2>1. q = [s EXCEPT ![n] = y]
        BY ONLY TRUE DEF s
    <2>2. n \in 1 .. Len(s)
        BY ONLY <1>1
    <2> HIDE DEF q, n
    <2>3. q \in Seq(Bytes) /\ Len(q) = Len(s) /\ \A i \in 1 .. Len(s) : q[i] = IF i = n THEN y ELSE s[i]
        BY ONLY <2>1, <2>2, <1>1, y \in Bytes, ExceptSeq
    <2> QED
        BY ONLY <2>3, <1>1
<1>3. Append(arrays, y) \in Seq(Bytes) /\ Len(Append(arrays, y)) = n
      /\ \A i \in 1 .. n : Append(arrays, y)[i] = IF i = n THEN y ELSE arrays[i]
    BY ONLY arrays \in Seq(Bytes), y \in Bytes
<1> DEFINE z == Append(arrays, y)
<1> HIDE DEF q, z, s
<1>4. \A i \in 1 .. n : q[i] = z[i]
    BY ONLY <1>1, <1>2, <1>3 DEF z
<1> HIDE DEF n
<1>5. q = z
    BY ONLY <1>2, <1>3, <1>4, SeqEqual DEF z
<1> QED
    BY ONLY <1>5 DEF q, z

\* A full slice with something behind it moves (Reallocated).
LEMMA AppendMoved ==
    ASSUME NEW st, NEW hdr, NEW arrays, NEW slices, NEW home, NEW held, NEW own, NEW own2, NEW n, NEW d,
           NEW size, NEW cells, NEW v, NEW V, NEW r2,
           Appends(st, hdr, arrays, slices, home, held, own, own2, n, d, size, cells, v, V, r2),
           ~(hdr[n].len < hdr[n].cap),
           ~AtTop([stack |-> st, top |-> Len(st)], hdr[n], hdr[n].cap * size)
    PROVE  Yields(v, V, hdr, slices, held, own2, d)
<1> DEFINE ptr == hdr[n].ptr
           cap == hdr[n].cap
           a == slices[n].arr
           off == slices[n].off
           h == [stack |-> st, top |-> Len(st)]
           old == [stack |-> st, top |-> Len(st), hd |-> hdr[n]]
           new == DoubledCap(cap)
           room == new * size
           at == cap * size
           c == GoCells(GoOf(arrays, slices, r2), n)
           q == Reallocated(old, new, size)
           w1 == Stored(st \o Zeros(room), Len(st), c)
           w == Stored(w1, Len(st) + at, cells)
           p == Stored(Padded(c, room), at, cells)
<1>1. /\ hdr[n] = [ptr |-> ptr, len |-> cap, cap |-> cap] /\ slices[n] = View(a, off, cap, cap)
      /\ ptr \in Nat /\ ptr < Mod /\ cap \in Nat /\ cap < Mod /\ at \in Nat
      /\ off \in Nat /\ a \in 1 .. Len(arrays) /\ size \in Nat \ {0}
      /\ st \in Bytes /\ Len(st) \in Nat /\ arrays \in Seq(Bytes) /\ n \in held /\ size = Size[n] /\ hdr[n] \in Header
    <2>1. /\ hdr[n] = [ptr |-> hdr[n].ptr, len |-> hdr[n].cap, cap |-> hdr[n].cap]
          /\ slices[n] = View(slices[n].arr, slices[n].off, hdr[n].cap, hdr[n].cap)
          /\ hdr[n].ptr \in Nat /\ hdr[n].ptr < Mod /\ hdr[n].cap \in Nat /\ hdr[n].cap < Mod /\ hdr[n].cap * size \in Nat
          /\ slices[n].off \in Nat /\ slices[n].arr \in 1 .. Len(arrays) /\ size \in Nat \ {0}
          /\ st \in Bytes /\ Len(st) \in Nat /\ arrays \in Seq(Bytes) /\ n \in held /\ size = Size[n]
          /\ hdr[n] \in Header
        BY ONLY Appends(st, hdr, arrays, slices, home, held, own, own2, n, d, size, cells, v, V, r2),
                ~(hdr[n].len < hdr[n].cap), AppendNumbers
    <2> QED
        BY ONLY <2>1
<1> USE Appends(st, hdr, arrays, slices, home, held, own, own2, n, d, size, cells, v, V, r2) DEF Appends
<1>2. /\ Sound(st, hdr, arrays, slices, home, held, own) /\ d \in Names /\ Len(v.stack) <= MaxSlots
      /\ own2 \subseteq own \cup {d} /\ cells \in Bytes /\ Len(cells) = size /\ Size[d] = size
    BY SliceHeapAssumption
<1>3. c \in Bytes /\ Fits(c, cap, size) /\ Lies(st, ptr, c)
    <2>1. c = SubSeq(arrays[slices[n].arr], slices[n].off + 1, slices[n].off + slices[n].len * size)
        BY ONLY <1>1 DEF GoCells, GoOf
    <2> HIDE DEF c
    <2>2. c \in Bytes /\ Fits(c, hdr[n].len, size) /\ Lies(st, hdr[n].ptr, c)
        BY ONLY <2>1, <1>1, <1>2, NameFits
    <2>3. hdr[n].len = cap
        BY ONLY <1>1
    <2> QED
        BY ONLY <2>2, <2>3
<1>4. /\ new \in Nat /\ cap < new /\ new <= room /\ room \in Nat /\ at + size <= room
    <2> DEFINE k == (new - cap) * size
               m == cap + 1
    <2>4. cap \in Nat /\ size \in Nat \ {0} /\ 1 \in Nat
        BY ONLY <1>1
    <2> HIDE DEF cap
    <2>5. k = (DoubledCap(cap) - cap) * size
        OBVIOUS
    <2> HIDE DEF k
    <2>6. /\ DoubledCap(cap) \in Nat /\ cap < DoubledCap(cap) /\ k \in Nat
          /\ DoubledCap(cap) * size = cap * size + k /\ DoubledCap(cap) <= cap + k
          /\ cap * size \in Nat /\ cap <= cap * size /\ DoubledCap(cap) <= DoubledCap(cap) * size
        BY ONLY <2>4, <2>5, Doubled
    <2>1. new \in Nat /\ cap < new /\ new <= new * size
        BY ONLY <2>6
    <2> HIDE DEF new
    <2>2. m * size <= new * size /\ new * size \in Nat
        <3>1. m \in Nat /\ m <= new
            BY ONLY <2>4, <2>1
        <3> HIDE DEF m
        <3> QED
            BY ONLY <3>1, <2>1, <2>4, TimesMonotone, Times
    <2>3. (cap + 1) * size = cap * size + 1 * size
        BY ONLY <2>4, Distribute
    <2>7. 1 * size = size
        BY ONLY <2>4
    <2> QED
        BY ONLY <2>1, <2>2, <2>3, <2>7
<1>5. ptr # Len(st)
    <2>1. at = hdr[n].cap * Size[n] /\ h.top = Len(st) /\ ~AtTop(h, hdr[n], at)
        BY <1>1
    <2> HIDE DEF at, h
    <2> QED
        BY ONLY <1>1, <1>2, <2>1, TopArray
<1> HIDE DEF ptr, cap, a, off, h, new, room, at, c
<1>6. v = storeValAtTail(q, size, cells)
    <2>1. v = lowerSliceAppend(old, size, cells)
        BY DEF Value
    <2>2. /\ old.hd = hdr[n] /\ HeapOf(old) = h /\ ~(old.hd.len < old.hd.cap)
          /\ ~AtTop(HeapOf(old), old.hd, old.hd.cap * size) /\ DoubledCap(old.hd.cap) = new /\ old.hd.cap = cap
        BY DEF HeapOf, h, new, cap
    <2>3. lowerSliceAppend(old, size, cells) =
              storeValAtTail(IF old.hd.len < old.hd.cap THEN old
                             ELSE IF AtTop(HeapOf(old), old.hd, old.hd.cap * size)
                                  THEN ExtendedInPlace(old, DoubledCap(old.hd.cap) - old.hd.cap, size)
                                  ELSE Reallocated(old, DoubledCap(old.hd.cap), size), size, cells)
        BY ONLY TRUE, Zenon DEF lowerSliceAppend
    <2> HIDE DEF old
    <2> QED
        BY ONLY <2>1, <2>2, <2>3
<1>7. old = Value(h, hdr[n]) /\ h = [stack |-> st, top |-> Len(st)]
    BY ONLY TRUE DEF Value, h
<1>14. v = [q EXCEPT !.stack = Stored(q.stack, q.hd.ptr + q.hd.len * size, cells), !.hd.len = Wrap(q.hd.len + 1)]
    BY ONLY <1>6, Zenon DEF storeValAtTail
<1> HIDE DEF old
<1>8. Len(st) + room <= MaxSlots
    <2>1. Len(q.stack) = Len(st) + room /\ DOMAIN q.stack = 1 .. Len(q.stack)
        <3>1. old.stack = st /\ size \in Nat /\ new \in Nat /\ st \in Bytes
            BY ONLY <1>1, <1>4, <1>7 DEF Value
        <3>2. /\ Len(Reallocated(old, new, size).stack) = Len(old.stack) + new * size
              /\ DOMAIN Reallocated(old, new, size).stack = 1 .. Len(Reallocated(old, new, size).stack)
            BY ONLY <3>1, ReallocatedLength
        <3> QED
            BY ONLY <3>1, <3>2 DEF room
    <2> DEFINE slot == q.hd.ptr + q.hd.len * size
    <2>2. v.stack = Stored(q.stack, slot, cells)
        <3>1. "stack" \in DOMAIN q
            BY ONLY TRUE DEF Reallocated, pushHeapRegion, Value
        <3> HIDE DEF q, slot
        <3>2. v = [q EXCEPT !.stack = Stored(q.stack, slot, cells), !.hd.len = Wrap(q.hd.len + 1)]
            BY ONLY <1>14 DEF slot
        <3> QED
            BY ONLY <3>1, <3>2
    <2>3. Len(q.stack) \in Nat
        BY ONLY <2>1, <1>1, <1>4
    <2> HIDE DEF q, slot
    <2>4. Len(v.stack) = Len(q.stack)
        BY ONLY <2>1, <2>2, <2>3, StoredLength
    <2> QED
        BY ONLY <2>1, <2>4, <1>2
<1>9. new < Mod /\ cap + 1 < Mod
    BY ONLY <1>1, <1>4, <1>8, SliceHeapAssumption, SMTT(30)
<1>10. q = Value([stack |-> w1, top |-> Len(st) + room], [ptr |-> Len(st), len |-> cap, cap |-> new]) /\ Len(c) <= room
    <2> DEFINE hd == hdr[n]
    <2>1. hd \in Header /\ hd.ptr = ptr /\ hd.len = cap /\ hd.len <= new
        BY ONLY <1>1, <1>4 DEF ptr
    <2>2. old = Value([stack |-> st, top |-> Len(st)], hd) /\ q = Reallocated(old, new, size) /\ room = new * size
        BY ONLY <1>7 DEF room
    <2>3. Lies(st, hd.ptr, c) /\ Fits(c, hd.len, size)
        BY ONLY <2>1, <1>3
    <2> HIDE DEF hd, q
    <2>4. /\ q = Value([stack |-> Stored(st \o Zeros(room), Len(st), c), top |-> Len(st) + room],
                       [ptr |-> Len(st), len |-> hd.len, cap |-> new])
          /\ Len(c) <= room /\ room \in Nat
        <3>1. st \in Bytes /\ size \in Nat \ {0} /\ c \in Bytes /\ new \in Nat
            BY ONLY <1>1, <1>3, <1>4
        <3> QED
            BY ONLY <2>1, <2>2, <2>3, <3>1, <1>8, ReallocatedLies
    <2> QED
        BY ONLY <2>1, <2>4
<1>11. v = [stack |-> w, top |-> Len(st) + room, hd |-> [ptr |-> Len(st), len |-> cap + 1, cap |-> new]]
    <2> DEFINE top == Len(st) + room
               base == Len(st)
    <2>1. q = Value([stack |-> w1, top |-> top], [ptr |-> base, len |-> cap, cap |-> new])
        BY ONLY <1>10
    <2> HIDE DEF q, w1, top, base
    <2>2. storeValAtTail(q, size, cells) =
              [stack |-> Stored(w1, base + cap * size, cells), top |-> top,
               hd |-> [ptr |-> base, len |-> cap + 1, cap |-> new]]
        BY ONLY <2>1, <1>1, <1>9, StoredTail
    <2> QED
        BY ONLY <2>2, <1>6 DEF top, base, at
<1>12. /\ Extends(st, w) /\ Len(w) = Len(st) + room /\ p \in Bytes /\ Len(p) = room /\ Lies(w, Len(st), p)
    <2>1. /\ at + Len(cells) <= room /\ at \in Nat /\ room \in Nat /\ Len(c) <= room
          /\ st \in Bytes /\ c \in Bytes /\ cells \in Bytes
        BY ONLY <1>1, <1>2, <1>3, <1>4, <1>10
    <2>2. w = Stored(Stored(st \o Zeros(room), Len(st), c), Len(st) + at, cells)
        OBVIOUS
    <2> HIDE DEF w
    <2>3. /\ Extends(st, w) /\ Len(w) = Len(st) + room
          /\ LET x == Stored(Padded(c, room), at, cells)
             IN  x \in Bytes /\ Len(x) = room /\ Lies(w, Len(st), x)
        BY ONLY <2>1, <2>2, FreshTail
    <2> QED
        BY ONLY <2>3
<1>13. V.arrays = Append(arrays, p) /\ V.slice = View(Len(arrays) + 1, 0, cap + 1, new)
    <2> DEFINE s == View(a, off, cap, cap)
               kept == v.hd.ptr = hdr[n].ptr
               fresh == Append(arrays, Padded(c, room))
               num == Len(arrays) + 1
    <2>1. ~kept
        BY ONLY <1>5, <1>11 DEF ptr
    <2>2. V = GoAppend(GoOf(arrays, slices, r2), n, cells, kept)
        OBVIOUS
    <2> HIDE DEF kept
    <2>3. slices[n] = s /\ s.arr = a /\ s.off = off /\ s.len = cap /\ s.cap = cap
        BY ONLY <1>1 DEF View
    <2> HIDE DEF s
    <2>4. ~(s.len < s.cap) /\ DoubledCap(s.cap) = new
        BY ONLY <2>3, <1>1 DEF new
    <2>5. V = GoValue(GoWrite(fresh, num, 0 + cap * size, cells), [View(num, 0, cap, new) EXCEPT !.len = @ + 1])
        <3> DEFINE g == GoOf(arrays, slices, r2)
                   grown == GoNew(g, GoCells(g, n), s.len, DoubledCap(s.cap), Size[n])
        <3>1. g.slices[n] = s /\ g.arrays = arrays /\ GoCells(g, n) = c
            BY ONLY <2>3 DEF GoOf, c
        <3> HIDE DEF g
        <3>2. V = GoValue(GoWrite(grown.arrays, grown.slice.arr, grown.slice.off + grown.slice.len * Size[n], cells),
                          [grown.slice EXCEPT !.len = @ + 1])
            BY ONLY <2>1, <2>2, <2>4, <3>1, Zenon DEF GoAppend, g
        <3>3. grown.arrays = fresh /\ grown.slice = View(num, 0, cap, new)
            BY ONLY <2>3, <2>4, <3>1, <1>1 DEF GoNew, GoValue, room
        <3>4. grown.slice.arr = num /\ grown.slice.off = 0 /\ grown.slice.len = cap
            BY ONLY <3>3 DEF View
        <3> HIDE DEF grown, fresh, num
        <3> QED
            BY ONLY <3>2, <3>3, <3>4, <1>1
    <2>6. [View(num, 0, cap, new) EXCEPT !.len = @ + 1] = View(num, 0, cap + 1, new)
        BY ONLY TRUE DEF View
    <2>7. GoWrite(fresh, num, at, cells) = Append(arrays, p)
        <3>1. Padded(c, room) \in Bytes /\ p \in Bytes
            BY ONLY <1>1, <1>3, <1>4, <1>10, <1>12, FreshStored
        <3> DEFINE p1 == Padded(c, room)
        <3>2. p = Stored(p1, at, cells)
            OBVIOUS
        <3> HIDE DEF p1, p
        <3>3. GoWrite(Append(arrays, p1), num, at, cells) = [Append(arrays, p1) EXCEPT ![num] = Stored(@, at, cells)]
            BY ONLY TRUE DEF GoWrite
        <3>4. Append(arrays, p1)[num] = p1
            BY ONLY <3>1, <1>1 DEF p1
        <3>5. [Append(arrays, p1) EXCEPT ![num] = p] = Append(arrays, p)
            <4>1. p1 \in Bytes /\ p \in Bytes /\ arrays \in Seq(Bytes)
                BY ONLY <3>1, <1>1 DEF p1
            <4> QED
                BY ONLY <4>1, AppendedLast
        <3> QED
            BY ONLY <3>2, <3>3, <3>4, <3>5 DEF p1
    <2>8. 0 + cap * size = at
        BY ONLY <1>1 DEF at
    <2> QED
        BY ONLY <2>5, <2>6, <2>7, <2>8 DEF GoValue
<1> DEFINE base == Len(st)
<1>15. FreshValue(st, arrays, d, v, V, base, p, cap + 1, new)
    <2>1. base + Len(p) <= Len(w) /\ cap + 1 \in Nat /\ cap + 1 <= new /\ base \in Nat /\ Len(st) <= base
        BY ONLY <1>1, <1>4, <1>12
    <2>2. new * Size[d] <= Len(p)
        BY ONLY <1>2, <1>4, <1>12 DEF room
    <2>3. v.stack = w /\ v.top = Len(w) /\ v.hd = [ptr |-> base, len |-> cap + 1, cap |-> new]
        BY ONLY <1>11, <1>12
    <2> HIDE DEF w, p, base
    <2> QED
        BY ONLY <2>1, <2>2, <2>3, <1>4, <1>12, <1>13 DEF FreshValue, base
<1> DEFINE len == cap + 1
<1> HIDE DEF p, base, len
<1> QED
    <2>1. FreshValue(st, arrays, d, v, V, base, p, len, new)
        BY ONLY <1>15 DEF len
    <2> QED
        BY ONLY <2>1, <1>2, YieldsFresh

\* append(n, x) gives what it gives in Go, wherever the slice ends up.
LEMMA AppendYields ==
    ASSUME NEW st, NEW hdr, NEW arrays, NEW slices, NEW home, NEW held, NEW own, NEW own2, NEW n, NEW d,
           NEW size, NEW cells, NEW v, NEW V, NEW r2,
           Appends(st, hdr, arrays, slices, home, held, own, own2, n, d, size, cells, v, V, r2)
    PROVE  Yields(v, V, hdr, slices, held, own2, d)
BY ONLY Appends(st, hdr, arrays, slices, home, held, own, own2, n, d, size, cells, v, V, r2),
        AppendRoomy, AppendExtended, AppendMoved

\* The parts of s += x: room is made, then the bytes of x are put behind; a literal
\* and a byte are not put on the heap first (lowerSliceSelfConcat).
PutInRoom(st, hdr, d, t, v) ==
    \E y, hd :
        /\ v = Put(ensureSliceCapByCell(Value([stack |-> st, top |-> Len(st)], hdr[d]), Len(t)), y, hd)
        /\ hd.len = Len(t)
        /\ IF IsLiteral(y) THEN t = y.cells ELSE hd.ptr \in Nat /\ Lies(st, hd.ptr, t)
LEMMA SelfConcatParts ==
    ASSUME NEW st, NEW hdr, NEW arrays, NEW slices, NEW home, NEW held, NEW own,
           Sound(st, hdr, arrays, slices, home, held, own), NEW r, NEW r2, NEW d,
           NEW x, IsOperand(x, 1), OperandNames(x) \subseteq held, InBounds(slices, x),
           ~(IsName(x) /\ x.name = d), NEW t, t = GoText(GoOf(arrays, slices, r2), x)
    PROVE  t \in Bytes /\ PutInRoom(st, hdr, d, t, lowerSliceSelfConcat(Mach(st, Len(st), hdr, r), d, x))
<1> SUFFICES /\ t \in Bytes
             /\ \E y, hd :
                    /\ lowerSliceSelfConcat(Mach(st, Len(st), hdr, r), d, x) =
                           Put(ensureSliceCapByCell(Value([stack |-> st, top |-> Len(st)], hdr[d]), Len(t)), y, hd)
                    /\ hd.len = Len(t)
                    /\ IF IsLiteral(y) THEN t = y.cells ELSE hd.ptr \in Nat /\ Lies(st, hd.ptr, t)
    BY Zenon DEF PutInRoom
<1> DEFINE m == Mach(st, Len(st), hdr, r)
           h == [stack |-> st, top |-> Len(st)]
           Room(k) == ensureSliceCapByCell(Value(h, hdr[d]), k)
           text == [kind |-> "text", cells |-> t]
           count == [len |-> Len(t)]
<1>1. HeapIn(m) = h /\ m.header[d] = hdr[d]
    BY ONLY TRUE DEF Mach, HeapIn
<1>2. IsLiteral(text) /\ text.cells = t /\ count.len = Len(t)
    BY ONLY TRUE DEF IsLiteral
<1> HIDE DEF m, h, text, count
<1>3. ASSUME lowerSliceSelfConcat(m, d, x) = appendLiteralBytes(Room(Len(t)), t), t \in Bytes
      PROVE  /\ t \in Bytes
             /\ \E y, hd : /\ lowerSliceSelfConcat(m, d, x) = Put(Room(Len(t)), y, hd) /\ hd.len = Len(t)
                           /\ IF IsLiteral(y) THEN t = y.cells ELSE hd.ptr \in Nat /\ Lies(st, hd.ptr, t)
    <2> HIDE DEF Room
    <2>1. Put(Room(Len(t)), text, count) = appendLiteralBytes(Room(Len(t)), t)
        BY ONLY <1>2 DEF Put
    <2>2. lowerSliceSelfConcat(m, d, x) = Put(Room(Len(t)), text, count)
        BY ONLY <1>3, <2>1
    <2> QED
        BY ONLY <1>2, <1>3, <2>2
<1>4. CASE IsLiteral(x)
    <2>1. t = x.cells
        BY ONLY <1>4, t = GoText(GoOf(arrays, slices, r2), x) DEF GoText, IsName, IsLiteral
    <2>2. t \in Bytes
        BY ONLY <1>4, <2>1, IsOperand(x, 1) DEF IsOperand, IsLiteral, Bytes
    <2>3. lowerSliceSelfConcat(m, d, x) = appendLiteralBytes(Room(Len(t)), t)
        <3>1. lowerSliceSelfConcat(m, d, x)
                  = appendLiteralBytes(ensureSliceCapByCell(Value(HeapIn(m), m.header[d]), Len(x.cells)), x.cells)
            <4> HIDE DEF Room
            <4> QED
                BY ONLY <1>4 DEF lowerSliceSelfConcat, IsLiteral
        <3>2. lowerSliceSelfConcat(m, d, x) = appendLiteralBytes(Room(Len(x.cells)), x.cells)
            BY ONLY <1>1, <3>1
        <3> HIDE DEF Room
        <3> QED
            BY ONLY <2>1, <3>2
    <2> QED
        BY ONLY <1>3, <2>2, <2>3 DEF m, h
<1>5. CASE x.kind = "byte"
    <2>1. t = <<x.value>>
        BY ONLY <1>5, t = GoText(GoOf(arrays, slices, r2), x) DEF GoText, IsName, IsLiteral
    <2>2. t \in Bytes /\ Len(t) = 1
        BY ONLY <1>5, <2>1, IsOperand(x, 1) DEF IsOperand, IsLiteral, Bytes
    <2>3. lowerSliceSelfConcat(m, d, x) = appendLiteralBytes(Room(1), t)
        BY ONLY <1>1, <1>5, <2>1 DEF lowerSliceSelfConcat, IsLiteral
    <2>4. lowerSliceSelfConcat(m, d, x) = appendLiteralBytes(Room(Len(t)), t)
        BY ONLY <2>2, <2>3
    <2> QED
        BY ONLY <1>3, <2>2, <2>4 DEF m, h
<1>6. CASE ~IsTemporary(x)
    <2> DEFINE v == resolveStringSlice(m, x)
               hd == v.hd
    <2>1. x.kind \in {"name", "view"} /\ Width(x) = 0
        BY ONLY <1>6, IsOperand(x, 1) DEF IsOperand, IsTemporary, Width
    <2>2. Len(st) + Width(x) <= MaxSlots /\ 1 \in Nat \ {0}
        BY ONLY <2>1, Sound(st, hdr, arrays, slices, home, held, own) DEF Sound, Typed, Bytes
    <2>3. /\ v.hd \in Header /\ t \in Bytes /\ Len(t) = v.hd.len * 1 /\ v.top = Len(v.stack)
          /\ Lies(v.stack, v.hd.ptr, t) /\ (~IsTemporary(x) => v.stack = st)
        <3>1. v = resolveStringSlice(Mach(st, Len(st), hdr, r), x)
            BY ONLY TRUE DEF m
        <3> HIDE DEF v
        <3> QED
            BY ONLY <2>2, <3>1, Sound(st, hdr, arrays, slices, home, held, own), IsOperand(x, 1),
                    OperandNames(x) \subseteq held, InBounds(slices, x), t = GoText(GoOf(arrays, slices, r2), x),
                    OperandLies
    <2>4. hd.ptr \in Nat /\ hd.len \in Nat
        BY ONLY <2>3, ByteRange DEF Header
    <2>5. hd.len = Len(t) /\ Lies(st, hd.ptr, t) /\ HeapOf(v) = h
        BY ONLY <2>3, <2>4, <1>6 DEF HeapOf, h
    <2>6. ~IsLiteral(x) /\ x.kind # "byte"
        BY ONLY <2>1 DEF IsLiteral
    <2>7. lowerSliceSelfConcat(m, d, x) = PutBytes(Room(hd.len), hd)
        <3> DEFINE itself == IsName(x) /\ x.name = d
        <3>1. ~itself
            OBVIOUS
        <3>2. HeapOf(v) = h /\ m.header[d] = hdr[d]
            BY ONLY <1>1, <2>5
        <3>3. lowerSliceSelfConcat(m, d, x) =
                  LET u == ensureSliceCapByCell(Value(HeapOf(v), m.header[d]), v.hd.len)
                  IN  appendBytesFromSlice(u, IF itself THEN u.hd ELSE v.hd, itself)
            BY ONLY <2>6, Zenon DEF lowerSliceSelfConcat
        <3> HIDE DEF v
        <3>4. ASSUME NEW u, NEW q
              PROVE  appendBytesFromSlice(u, IF itself THEN u.hd ELSE q, itself) = PutBytes(u, q)
            BY ONLY <3>1, Zenon DEF PutBytes, appendBytesFromSlice
        <3> HIDE DEF itself
        <3> QED
            BY ONLY <3>2, <3>3, <3>4
    <2>8. Put(Room(hd.len), x, hd) = PutBytes(Room(hd.len), hd)
        BY ONLY <2>6 DEF Put
    <2> HIDE DEF hd, v
    <2>9. lowerSliceSelfConcat(m, d, x) = Put(Room(Len(t)), x, hd)
        BY ONLY <2>5, <2>7, <2>8
    <2>10. /\ t \in Bytes
           /\ \E y, q : /\ lowerSliceSelfConcat(m, d, x) = Put(Room(Len(t)), y, q) /\ q.len = Len(t)
                        /\ IF IsLiteral(y) THEN t = y.cells ELSE q.ptr \in Nat /\ Lies(st, q.ptr, t)
        BY ONLY <2>3, <2>4, <2>5, <2>6, <2>9
    <2> QED
        BY ONLY <2>10 DEF m, h
<1>7. IsLiteral(x) \/ x.kind = "byte" \/ ~IsTemporary(x)
    BY ONLY TRUE DEF IsLiteral, IsTemporary
<1> QED
    BY ONLY <1>4, <1>5, <1>6, <1>7

\* Bytes are put behind those of a buffer, of which nothing is known but its size.
LEMMA PutHeight ==
    ASSUME NEW v, v.stack \in Bytes, "stack" \in DOMAIN v, NEW y, NEW hd
    PROVE  Len(Put(v, y, hd).stack) = Len(v.stack)
<1>1. DOMAIN v.stack = 1 .. Len(v.stack) /\ Len(v.stack) \in Nat
    BY DEF Bytes
<1> QED
    BY ONLY <1>1, "stack" \in DOMAIN v, PutLength

\* Bytes t are put behind the k of a buffer, and do not lie there.
Behind(w, base, k, t, n, at, y, hd) ==
    /\ w \in Bytes /\ base \in Nat /\ k \in Nat /\ t \in Bytes
    /\ n \in Nat /\ n = k + Len(t) /\ n < Mod /\ at \in Nat /\ at = base + k /\ hd.len = Len(t)
    /\ IF IsLiteral(y) THEN t = y.cells
       ELSE hd.ptr \in Nat /\ Lies(w, hd.ptr, t) /\ (at <= hd.ptr \/ hd.ptr + Len(t) <= at)
LEMMA PutBehind ==
    ASSUME NEW w, NEW top, NEW base, NEW k, NEW cap, NEW t, NEW n, NEW at, NEW y, NEW hd,
           Behind(w, base, k, t, n, at, y, hd)
    PROVE  Put(Filling(w, top, base, k, cap), y, hd) = Filling(Stored(w, at, t), top, base, n, cap)
<1> USE Behind(w, base, k, t, n, at, y, hd) DEF Behind
<1> SUFFICES ASSUME w \in Bytes, base \in Nat, k \in Nat, t \in Bytes,
                    n \in Nat, n = k + Len(t), n < Mod, at \in Nat, at = base + k, hd.len = Len(t),
                    IF IsLiteral(y) THEN t = y.cells
                    ELSE hd.ptr \in Nat /\ Lies(w, hd.ptr, t) /\ (at <= hd.ptr \/ hd.ptr + Len(t) <= at)
             PROVE  Put(Filling(w, top, base, k, cap), y, hd) = Filling(Stored(w, at, t), top, base, n, cap)
    OBVIOUS
<1>1. CASE IsLiteral(y)
    <2>1. Put(Filling(w, top, base, k, cap), y, hd) = appendLiteralBytes(Filling(w, top, base, k, cap), t)
        BY ONLY <1>1, IF IsLiteral(y) THEN t = y.cells
                      ELSE hd.ptr \in Nat /\ Lies(w, hd.ptr, t) /\ (at <= hd.ptr \/ hd.ptr + Len(t) <= at) DEF Put
    <2>2. k + Len(t) < Mod
        OBVIOUS
    <2>3. appendLiteralBytes(Filling(w, top, base, k, cap), t)
              = Filling(Stored(w, base + k, t), top, base, k + Len(t), cap)
        BY ONLY <2>2, k \in Nat, t \in Bytes, AppendedLiteral
    <2> QED
        BY ONLY <2>1, <2>3, n = k + Len(t), at = base + k
<1>2. CASE ~IsLiteral(y)
    <2>1. Put(Filling(w, top, base, k, cap), y, hd) = PutBytes(Filling(w, top, base, k, cap), hd)
        BY ONLY <1>2 DEF Put
    <2>2. hd.ptr \in Nat /\ Lies(w, hd.ptr, t) /\ (at <= hd.ptr \/ hd.ptr + Len(t) <= at)
        BY <1>2
    <2>3. PutBytes(Filling(w, top, base, k, cap), hd) = Filling(Stored(w, at, t), top, base, n, cap)
        BY ONLY <2>2, w \in Bytes, base \in Nat, k \in Nat, t \in Bytes, n \in Nat, n = k + Len(t), n < Mod,
                at \in Nat, at = base + k, hd.len = Len(t), AppendedBytes
    <2> QED
        BY ONLY <2>1, <2>3
<1> QED
    BY ONLY <1>1, <1>2

\* Bytes t are put behind those of the string d, which is as long as its buffer; t
\* is on the stack or a literal.
Grows(st, hdr, arrays, slices, home, held, own, own2, d, t, y, hd, v, V, r2) ==
    /\ Sound(st, hdr, arrays, slices, home, held, own)
    /\ d \in held \cap Strings /\ hdr[d].len = hdr[d].cap /\ own2 \subseteq own
    /\ t \in Bytes /\ hd.len = Len(t)
    /\ IF IsLiteral(y) THEN t = y.cells ELSE hd.ptr \in Nat /\ Lies(st, hd.ptr, t)
    /\ v = Put(ensureSliceCapByCell(Value([stack |-> st, top |-> Len(st)], hdr[d]), Len(t)), y, hd)
    /\ Len(v.stack) <= MaxSlots
    /\ V = GoFresh(GoOf(arrays, slices, r2), GoCells(GoOf(arrays, slices, r2), d) \o t, 1)

\* The numbers of such a string.
LEMMA GrowsNumbers ==
    ASSUME NEW st, NEW hdr, NEW arrays, NEW slices, NEW home, NEW held, NEW own, NEW own2, NEW d,
           NEW t, NEW y, NEW hd, NEW v, NEW V, NEW r2,
           Grows(st, hdr, arrays, slices, home, held, own, own2, d, t, y, hd, v, V, r2),
           NEW c, c = GoCells(GoOf(arrays, slices, r2), d)
    PROVE  /\ st \in Bytes /\ Len(st) \in Nat /\ d \in Names /\ Size[d] = 1
           /\ hdr[d] = [ptr |-> hdr[d].ptr, len |-> hdr[d].cap, cap |-> hdr[d].cap] /\ hdr[d] \in Header
           /\ hdr[d].ptr \in Nat /\ hdr[d].cap \in Nat /\ hdr[d].cap < Mod
           /\ c \in Bytes /\ Len(c) = hdr[d].cap /\ Lies(st, hdr[d].ptr, c) /\ Len(t) \in Nat
           /\ c \o t \in Bytes /\ Len(c \o t) = hdr[d].cap + Len(t)
<1>1. /\ Sound(st, hdr, arrays, slices, home, held, own) /\ d \in held /\ hdr[d].len = hdr[d].cap /\ t \in Bytes
      /\ d \in Strings
    BY ONLY Grows(st, hdr, arrays, slices, home, held, own, own2, d, t, y, hd, v, V, r2) DEF Grows
<1>2. d \in Names /\ hdr[d] \in Header
    BY ONLY <1>1, NameCells
<1>3. Size[d] = 1
    BY ONLY <1>1, <1>2, Sizes
<1>4. st \in Bytes /\ Len(st) \in Nat
    BY ONLY <1>1 DEF Sound, Typed, Bytes
<1>5. hdr[d].ptr \in Nat /\ hdr[d].cap \in Nat /\ hdr[d].cap < Mod
    BY ONLY <1>2, ByteRange DEF Header
<1>6. hdr[d] = [ptr |-> hdr[d].ptr, len |-> hdr[d].cap, cap |-> hdr[d].cap]
    BY ONLY <1>1, <1>2 DEF Header
<1>7. c = SubSeq(arrays[slices[d].arr], slices[d].off + 1, slices[d].off + slices[d].len * Size[d])
    BY ONLY c = GoCells(GoOf(arrays, slices, r2), d) DEF GoCells, GoOf
<1>8. c \in Bytes /\ Fits(c, hdr[d].len, Size[d]) /\ Lies(st, hdr[d].ptr, c)
    BY ONLY <1>1, <1>7, NameFits
<1>9. Len(c) = hdr[d].cap
    BY ONLY <1>1, <1>3, <1>5, <1>8 DEF Fits
<1>10. c \o t \in Bytes /\ Len(c \o t) = Len(c) + Len(t) /\ Len(t) \in Nat
    BY ONLY <1>1, <1>8, ConcatBytes
<1> QED
    BY ONLY <1>2, <1>3, <1>4, <1>5, <1>6, <1>8, <1>9, <1>10


\* A string with something behind it moves when it grows (ensureSliceCapByCell).
LEMMA GrowsMoved ==
    ASSUME NEW st, NEW hdr, NEW arrays, NEW slices, NEW home, NEW held, NEW own, NEW own2, NEW d,
           NEW t, NEW y, NEW hd, NEW v, NEW V, NEW r2,
           Grows(st, hdr, arrays, slices, home, held, own, own2, d, t, y, hd, v, V, r2),
           ~AtTop([stack |-> st, top |-> Len(st)], hdr[d], hdr[d].cap)
    PROVE  Yields(v, V, hdr, slices, held, own2, d)
<1> DEFINE c == GoCells(GoOf(arrays, slices, r2), d)
           h == [stack |-> st, top |-> Len(st)]
           old == Value(h, hdr[d])
           n == hdr[d].cap + Len(t)
           q == Reallocated(old, n, 1)
           w == Stored(st \o Zeros(n), Len(st), c)
           u == Stored(w, Len(st) + Len(c), t)
<1>1. /\ st \in Bytes /\ Len(st) \in Nat /\ d \in Names /\ Size[d] = 1
      /\ hdr[d] = [ptr |-> hdr[d].ptr, len |-> hdr[d].cap, cap |-> hdr[d].cap] /\ hdr[d] \in Header
      /\ hdr[d].ptr \in Nat /\ hdr[d].cap \in Nat /\ hdr[d].cap < Mod
      /\ c \in Bytes /\ Len(c) = hdr[d].cap /\ Lies(st, hdr[d].ptr, c) /\ Len(t) \in Nat
      /\ c \o t \in Bytes /\ Len(c \o t) = hdr[d].cap + Len(t)
    BY ONLY Grows(st, hdr, arrays, slices, home, held, own, own2, d, t, y, hd, v, V, r2), GrowsNumbers
<1>2. /\ Sound(st, hdr, arrays, slices, home, held, own)
      /\ hdr[d].len = hdr[d].cap /\ own2 \subseteq own /\ t \in Bytes /\ hd.len = Len(t)
      /\ IF IsLiteral(y) THEN t = y.cells ELSE hd.ptr \in Nat /\ Lies(st, hd.ptr, t)
      /\ v = Put(ensureSliceCapByCell(old, Len(t)), y, hd) /\ Len(v.stack) <= MaxSlots
      /\ V = GoFresh(GoOf(arrays, slices, r2), c \o t, 1)
    BY ONLY Grows(st, hdr, arrays, slices, home, held, own, own2, d, t, y, hd, v, V, r2) DEF Grows
<1>3. /\ old.stack = st /\ HeapOf(old) = h /\ old.hd = hdr[d]
    BY ONLY TRUE DEF Value, HeapOf
<1> HIDE DEF c, old
<1>4. ensureSliceCapByCell(old, Len(t)) = q
    BY ONLY <1>2, <1>3, ~AtTop([stack |-> st, top |-> Len(st)], hdr[d], hdr[d].cap) DEF ensureSliceCapByCell
<1>5. n \in Nat /\ n * 1 = n
    BY ONLY <1>1
<1> HIDE DEF n
<1>6. Len(q.stack) = Len(st) + n /\ DOMAIN q.stack = 1 .. Len(q.stack) /\ Len(q.stack) \in Nat
    <2>1. /\ Len(q.stack) = Len(old.stack) + n * 1 /\ DOMAIN q.stack = 1 .. Len(q.stack)
        BY ONLY <1>1, <1>3, <1>5, 1 \in Nat, ReallocatedLength, ZenonT(30)
    <2> HIDE DEF q
    <2> QED
        BY ONLY <1>1, <1>3, <1>5, <2>1
<1>7. "stack" \in DOMAIN q
    BY ONLY TRUE DEF Reallocated, pushHeapRegion, Value
<1>8. Len(v.stack) = Len(st) + n
    <2> HIDE DEF q
    <2> QED
        BY ONLY <1>2, <1>4, <1>6, <1>7, PutLength
<1>9. /\ q = Filling(w, Len(st) + n, Len(st), Len(c), n)
      /\ Len(c) <= n
    <2>1. Fits(c, hdr[d].len, 1) /\ hdr[d].len <= n
        BY ONLY <1>1, <1>2 DEF Fits, n
    <2>2. /\ q = Value([stack |-> w, top |-> Len(st) + n], [ptr |-> Len(st), len |-> hdr[d].len, cap |-> n])
          /\ Len(c) <= n
        <3>1. Len(st) + n <= MaxSlots /\ n = n * 1 /\ 1 \in Nat \ {0} /\ old = Value([stack |-> st, top |-> Len(st)], hdr[d])
            BY ONLY <1>2, <1>5, <1>8 DEF old
        <3>3. q = Reallocated(old, n, 1)
            OBVIOUS
        <3> HIDE DEF h, w, q
        <3>2. ASSUME NEW room, room = n * 1, Len(st) + room <= MaxSlots
              PROVE  /\ q = Value([stack |-> Stored(st \o Zeros(room), Len(st), c), top |-> Len(st) + room],
                                  [ptr |-> Len(st), len |-> hdr[d].len, cap |-> n])
                     /\ Len(c) <= room
            <4>1. /\ st \in Bytes /\ hdr[d] \in Header /\ c \in Bytes /\ 1 \in Nat \ {0} /\ Lies(st, hdr[d].ptr, c)
                  /\ Fits(c, hdr[d].len, 1) /\ n \in Nat /\ hdr[d].len <= n /\ room = n * 1 /\ Len(st) + room <= MaxSlots
                  /\ old = Value([stack |-> st, top |-> Len(st)], hdr[d]) /\ q = Reallocated(old, n, 1)
                BY ONLY <1>1, <1>5, <2>1, <3>1, <3>2, <3>3
            <4> QED
                BY ONLY <4>1, ReallocatedLies
        <3> QED
            BY ONLY <3>1, <3>2 DEF w
    <2> HIDE DEF q, w
    <2> QED
        BY ONLY <1>1, <1>2, <2>2 DEF Filling, Value
<1>10. Extends(st, w) /\ Len(w) = Len(st) + n /\ Lies(w, Len(st), c)
    <2>1. st \o Zeros(n) \in Bytes /\ Len(st \o Zeros(n)) = Len(st) + n
        BY ONLY <1>1, <1>5, PushedSeq
    <2>2. Lies(w, Len(st), c)
        <3> DEFINE wide == st \o Zeros(n)
        <3>1. wide \in Bytes /\ Len(st) + Len(c) <= Len(wide)
            BY ONLY <1>1, <1>5, <1>9, <2>1
        <3> HIDE DEF wide
        <3>2. Lies(Stored(wide, Len(st), c), Len(st), c)
            BY ONLY <1>1, <3>1, StoredLies
        <3> QED
            BY ONLY <3>2 DEF wide
    <2>3. Extends(st, w) /\ Len(w) = Len(st) + n
        BY ONLY <1>1, <1>5, <1>9, FreshStored
    <2> QED
        BY ONLY <2>2, <2>3
<1>11. MaxSlots < Mod /\ MaxSlots \in Nat /\ Mod \in Nat
    BY ONLY SliceHeapAssumption DEF SliceHeapAssumption
<1> HIDE DEF w, q, h
<1>12. Puts(st, w, Len(st), c, t, y, hd, u)
    <2>1. Len(v.stack) <= MaxSlots
        BY ONLY <1>2
    <2>2. n = Len(c) + Len(t) /\ Len(c) \in Nat /\ Len(t) \in Nat /\ Len(st) \in Nat
        BY ONLY <1>1 DEF n
    <2>3. Len(w) < Mod /\ Len(st) + Len(c) + Len(t) <= Len(w) /\ Len(st) <= Len(st)
        BY ONLY <2>1, <2>2, <1>5, <1>8, <1>10, <1>11
    <2> HIDE DEF u
    <2> QED
        BY ONLY <1>1, <1>2, <1>10, <2>3 DEF Puts, u
<1>13. /\ Put(q, y, hd) = Filling(u, Len(st) + n, Len(st), Len(c) + Len(t), n)
       /\ u \in Bytes /\ Len(u) = Len(w) /\ Extends(st, u) /\ Lies(u, Len(st), c \o t)
    <2> HIDE DEF u
    <2> QED
        BY ONLY <1>9, <1>12, PutLies
<1> HIDE DEF u
<1>14. v = Filling(u, Len(u), Len(st), Len(c \o t), Len(c \o t)) /\ Len(u) = Len(st) + Len(c \o t)
    BY ONLY <1>1, <1>2, <1>4, <1>10, <1>13 DEF n
<1>15. v.stack = u
    BY ONLY <1>14 DEF Filling
<1> QED
    <2> DEFINE e == c \o t
    <2>1. /\ v = Filling(v.stack, Len(v.stack), Len(st), Len(e), Len(e)) /\ Len(v.stack) <= MaxSlots
          /\ Len(st) <= Len(st) /\ Len(st) + Len(e) = Len(v.stack) /\ Extends(st, v.stack) /\ Lies(v.stack, Len(st), e)
          /\ e \in Bytes /\ V = GoFresh(GoOf(arrays, slices, r2), e, 1) /\ own2 \subseteq own \cup {d}
        <3>1. Len(u) = Len(st) + Len(e) /\ Len(st) \in Nat
            BY ONLY <1>1, <1>14
        <3>2. v = Filling(v.stack, Len(v.stack), Len(st), Len(e), Len(e)) /\ Len(v.stack) <= MaxSlots
            BY ONLY <1>2, <1>14, <1>15
        <3>3. e \in Bytes /\ V = GoFresh(GoOf(arrays, slices, r2), e, 1) /\ own2 \subseteq own \cup {d}
            BY ONLY <1>1, <1>2
        <3>4. Extends(st, v.stack) /\ Lies(v.stack, Len(st), e)
            BY ONLY <1>13, <1>15
        <3> HIDE DEF e
        <3> QED
            BY ONLY <3>1, <3>2, <3>3, <3>4, <1>15
    <2> HIDE DEF e
    <2> QED
        BY ONLY <1>1, <1>2, <2>1, ValueBytes

\* The buffer of a string is the end of its array, and of the heap.
Ends(st, hdr, arrays, slices, home, d) ==
    /\ home[slices[d].arr] + Len(arrays[slices[d].arr]) = Len(st)
    /\ hdr[d].ptr = home[slices[d].arr] + slices[d].off /\ hdr[d].ptr + hdr[d].cap = Len(st)

\* The slots behind its bytes are nobody's then, and its bytes are only shared with
\* strings that no name of the body owns.
LEMMA GrowsApart ==
    ASSUME NEW st, NEW hdr, NEW arrays, NEW slices, NEW home, NEW held, NEW own,
           Sound(st, hdr, arrays, slices, home, held, own), NEW d \in held \cap Strings,
           NEW own2, own2 \subseteq own, Ends(st, hdr, arrays, slices, home, d), NEW n,
           NEW a \in Used(slices, held \ {d})
    PROVE  /\ HeapStart <= hdr[d].ptr
           /\ \/ Apart(home[a], Len(arrays[a]), hdr[d].ptr, n)
              \/ /\ d \in Strings \ own2 /\ a \in Texts(slices, held \ {d})
                 /\ \A m \in own2 : slices[m].arr # a
<1> DEFINE A == slices[d].arr
           ptr == hdr[d].ptr
<1>0. /\ A = slices[d].arr /\ ptr = hdr[d].ptr
      /\ home[A] + Len(arrays[A]) = Len(st) /\ ptr = home[A] + slices[d].off /\ ptr + hdr[d].cap = Len(st)
    BY ONLY Ends(st, hdr, arrays, slices, home, d) DEF Ends
<1> HIDE DEF A, ptr
<1>1. /\ Typed(st, hdr, arrays, slices, home, held, own) /\ TextsApart(hdr, slices, held)
      /\ Separate(arrays, slices, home, held) /\ Owned(hdr, arrays, slices, home, held, own)
    BY ONLY Sound(st, hdr, arrays, slices, home, held, own) DEF Sound
<1>2. Len(st) \in Nat /\ HeapStart \in Nat /\ 0 < HeapStart /\ HeapStart <= Len(st)
    BY ONLY <1>1, SliceHeapAssumption DEF Typed, SliceHeapAssumption, Bytes
<1>3. ~IsNil(hdr[d], slices[d])
    <2>1. ASSUME IsNil(hdr[d], slices[d])
          PROVE  ptr = 0 /\ hdr[d].cap = 0
        <3>1. Wrap(0) = 0
            BY ONLY SliceHeapAssumption DEF SliceHeapAssumption, Wrap
        <3> QED
            BY ONLY <2>1, <3>1, <1>0 DEF IsNil, NilHeader, Hd
    <2> QED
        BY ONLY <1>2, <2>1, <1>0
<1>4. A # 1 /\ \A m \in held \ Strings : slices[m].arr # A
    BY ONLY <1>1, <1>3, d \in held \cap Strings, <1>0 DEF TextsApart
<1>5. A \in Used(slices, held) /\ a \in Used(slices, held)
    BY ONLY <1>0, d \in held \cap Strings, a \in Used(slices, held \ {d}) DEF Used
<1>6. /\ HeapStart <= home[A] /\ home[A] \in Nat /\ Len(arrays[A]) \in Nat
      /\ home[a] \in Nat /\ Len(arrays[a]) \in Nat /\ Lies(st, home[a], arrays[a])
    BY ONLY <1>4, <1>5, Sound(st, hdr, arrays, slices, home, held, own), HeldArray
<1>7. slices[d].off \in Nat
    BY ONLY <1>1, d \in held \cap Strings DEF Typed, Slices
<1>8. HeapStart <= ptr /\ home[A] <= ptr /\ ptr \in Nat
    <2> DEFINE start == home[A]
               off == slices[d].off
    <2>1. ptr = start + off /\ HeapStart <= start /\ start \in Nat /\ off \in Nat
        BY ONLY <1>0, <1>6, <1>7
    <2> HIDE DEF start, off
    <2>2. HeapStart <= ptr /\ start <= ptr /\ ptr \in Nat
        BY ONLY <1>2, <2>1
    <2> QED
        BY ONLY <2>2 DEF start
<1>9. ASSUME HomesApart(arrays, home, a, A)
      PROVE  Apart(home[a], Len(arrays[a]), ptr, n)
    <2>1. Len(arrays[a]) > 0 => home[a] + Len(arrays[a]) <= Len(st)
        BY ONLY <1>6 DEF Lies
    <2>2. Len(arrays[a]) = 0 \/ home[a] + Len(arrays[a]) <= ptr
        <3> DEFINE ha == home[a]
                   na == Len(arrays[a])
                   hA == home[A]
                   nA == Len(arrays[A])
                   top == Len(st)
        <3>1. na = 0 \/ nA = 0 \/ ha + na <= hA \/ hA + nA <= ha
            BY ONLY <1>9 DEF HomesApart, Apart
        <3>2. /\ ha \in Nat /\ na \in Nat /\ hA \in Nat /\ nA \in Nat /\ top \in Nat /\ ptr \in Nat
              /\ hA <= ptr /\ hA + nA = top /\ (na > 0 => ha + na <= top)
            BY ONLY <1>2, <1>6, <1>8, <2>1, <1>0
        <3> HIDE DEF ha, na, hA, nA, top
        <3>3. na = 0 \/ ha + na <= ptr
            BY ONLY <3>1, <3>2
        <3> QED
            BY ONLY <3>3 DEF ha, na
    <2> QED
        BY ONLY <2>2 DEF Apart
<1>10. ASSUME d \in own
       PROVE  a # A /\ HomesApart(arrays, home, a, A)
    <2>1. Exclusive(d, arrays, slices, home, held)
        BY ONLY <1>1, <1>3, <1>10 DEF Owned
    <2>2. a # A
        BY ONLY <1>4, <2>1, a \in Used(slices, held \ {d}), <1>0 DEF Exclusive, Used
    <2> QED
        BY ONLY <1>5, <2>1, <2>2, <1>0 DEF Exclusive
<1>11. CASE a = A
    <2>1. d \notin own2
        BY ONLY <1>10, <1>11, own2 \subseteq own
    <2>2. A \in Texts(slices, held \ {d})
        BY ONLY <1>4, <1>11, a \in Used(slices, held \ {d}) DEF Used, Texts
    <2>3. ASSUME NEW m \in own2
          PROVE  slices[m].arr # A
        <3>1. m \in own \ {d} /\ d \in held
            BY ONLY <2>1, <2>3, own2 \subseteq own, d \in held \cap Strings
        <3>2. IsNil(hdr[m], slices[m]) \/ slices[m].arr # slices[d].arr
            BY ONLY <3>1, Sound(st, hdr, arrays, slices, home, held, own), NotOwned
        <3>3. IsNil(hdr[m], slices[m]) => slices[m].arr = 1
            BY ONLY TRUE DEF IsNil, GoNil, View
        <3> QED
            BY ONLY <1>4, <3>2, <3>3, <1>0
    <2> QED
        BY ONLY <1>8, <1>11, <2>1, <2>2, <2>3, d \in held \cap Strings DEF ptr
<1>12. CASE a # A /\ ~HomesApart(arrays, home, a, A)
    <2>1. d \notin own2
        BY ONLY <1>10, <1>12, own2 \subseteq own
    <2>2. {a, A} \subseteq Texts(slices, held)
        BY ONLY <1>1, <1>5, <1>12 DEF Separate
    <2>3. a \in Texts(slices, held \ {d}) /\ a # 1
        BY ONLY <1>12, <2>2, <1>0 DEF Texts
    <2>4. ASSUME NEW m \in own2
          PROVE  slices[m].arr # a
        <3>1. IsNil(hdr[m], slices[m]) \/ Exclusive(m, arrays, slices, home, held)
            BY ONLY <1>1, <2>4, own2 \subseteq own DEF Owned
        <3>2. IsNil(hdr[m], slices[m]) => slices[m].arr = 1
            BY ONLY TRUE DEF IsNil, GoNil, View
        <3>3. Exclusive(m, arrays, slices, home, held) /\ slices[m].arr = a => HomesApart(arrays, home, A, a)
            BY ONLY <1>5, <1>12 DEF Exclusive
        <3>4. HomesApart(arrays, home, A, a) => HomesApart(arrays, home, a, A)
            BY ONLY TRUE DEF HomesApart, Apart
        <3> QED
            BY ONLY <1>12, <2>3, <3>1, <3>2, <3>3, <3>4
    <2> QED
        BY ONLY <1>8, <2>1, <2>3, <2>4, d \in held \cap Strings DEF ptr
<1> QED
    BY ONLY <1>8, <1>9, <1>11, <1>12 DEF ptr

\* What a fresh string is in Go.
LEMMA GoFreshBytes ==
    ASSUME NEW arrays, NEW slices, NEW r2, NEW t \in Bytes, NEW n, n = Len(t),
           NEW V, V = GoFresh(GoOf(arrays, slices, r2), t, 1)
    PROVE  V.arrays = Append(arrays, t) /\ V.slice = View(Len(arrays) + 1, 0, n, n)
<1>1. n \in Nat /\ n \div 1 = n /\ n * 1 = n
    <2>1. n \in Nat
        BY ONLY t \in Bytes, n = Len(t) DEF Bytes
    <2> QED
        BY ONLY <2>1
<1>2. Padded(t, n) = t
    BY ONLY t \in Bytes, n = Len(t), PaddedFull
<1>3. V = GoNew(GoOf(arrays, slices, r2), t, n, n, 1)
    BY ONLY <1>1, n = Len(t), V = GoFresh(GoOf(arrays, slices, r2), t, 1) DEF GoFresh
<1> QED
    BY ONLY <1>1, <1>2, <1>3 DEF GoNew, GoValue, GoOf

\* A string at the end of the heap has its bytes and t, where it was, when t is put
\* behind it (ExtendedInPlace).
LEMMA GrowsBehind ==
    ASSUME NEW st \in Bytes, NEW hd0 \in Header, NEW ptr \in Nat, NEW cap \in Nat,
           hd0 = [ptr |-> ptr, len |-> cap, cap |-> cap], ptr + cap = Len(st),
           NEW c \in Bytes, Len(c) = cap, Lies(st, ptr, c), NEW t \in Bytes, NEW y, NEW hd, hd.len = Len(t),
           IF IsLiteral(y) THEN t = y.cells ELSE hd.ptr \in Nat /\ Lies(st, hd.ptr, t),
           AtTop([stack |-> st, top |-> Len(st)], hd0, hd0.cap), NEW v,
           v = Put(ensureSliceCapByCell(Value([stack |-> st, top |-> Len(st)], hd0), Len(t)), y, hd),
           Len(v.stack) <= MaxSlots
    PROVE  /\ v = Filling(v.stack, Len(v.stack), ptr, Len(c \o t), Len(c \o t))
           /\ Len(v.stack) = Len(st) + Len(t) /\ Extends(st, v.stack) /\ Lies(v.stack, ptr, c \o t)
           /\ c \o t \in Bytes /\ ptr + Len(c \o t) = Len(v.stack)
<1> DEFINE k == Len(t)
           top == Len(st)
           h == [stack |-> st, top |-> top]
           old == Value(h, hd0)
           w == st \o Zeros(k)
           q == ensureSliceCapByCell(old, k)
           n == cap + k
           u == Stored(w, top, t)
<1>1. k \in Nat /\ top \in Nat /\ k * 1 = k /\ n \in Nat
    <2>1. k \in Nat /\ top \in Nat
        BY ONLY st \in Bytes, t \in Bytes DEF Bytes
    <2> HIDE DEF k, top
    <2> QED
        BY ONLY <2>1, cap \in Nat
<1>2. w \in Bytes /\ Len(w) = top + k /\ Extends(st, w)
    <2> HIDE DEF k
    <2> QED
        BY ONLY <1>1, st \in Bytes, PushedSeq
<1>3. q = [stack |-> w, top |-> Wrap(top + k), hd |-> [ptr |-> ptr, len |-> cap, cap |-> Wrap(cap + k)]]
    <2>1. old.stack = st /\ HeapOf(old) = h /\ old.hd = hd0 /\ hd0.cap = cap
        BY ONLY hd0 = [ptr |-> ptr, len |-> cap, cap |-> cap] DEF Value, HeapOf
    <2>2. AtTop(h, hd0, hd0.cap)
        BY ONLY AtTop([stack |-> st, top |-> Len(st)], hd0, hd0.cap)
    <2> HIDE DEF old
    <2>3. q = ExtendedInPlace(old, k, 1)
        <3> HIDE DEF h, k
        <3> QED
            BY ONLY <2>1, <2>2 DEF ensureSliceCapByCell, q
    <2>4. Pushed(h, k) = [stack |-> w, top |-> Wrap(top + k)]
        <3> HIDE DEF k
        <3> QED
            BY ONLY TRUE DEF Pushed
    <2> HIDE DEF q, k, h, w
    <2>5. q = Value(Pushed(h, k * 1), [hd0 EXCEPT !.cap = Wrap(cap + k)])
        BY ONLY <2>1, <2>3 DEF ExtendedInPlace
    <2>6. [hd0 EXCEPT !.cap = Wrap(cap + k)] = [ptr |-> ptr, len |-> cap, cap |-> Wrap(cap + k)]
        BY ONLY hd0 = [ptr |-> ptr, len |-> cap, cap |-> cap]
    <2> QED
        <3> DEFINE new == [hd0 EXCEPT !.cap = Wrap(cap + k)]
        <3>1. q = Value(Pushed(h, k), new)
            BY ONLY <1>1, <2>5
        <3> HIDE DEF new
        <3>2. q = [stack |-> w, top |-> Wrap(top + k), hd |-> new]
            BY ONLY <2>4, <3>1 DEF Value
        <3> QED
            BY ONLY <2>6, <3>2 DEF new
<1>4. v = Put(q, y, hd)
    BY ONLY v = Put(ensureSliceCapByCell(Value([stack |-> st, top |-> Len(st)], hd0), Len(t)), y, hd)
<1> HIDE DEF q
<1>5. Len(v.stack) = top + k
    <2>1. q.stack = w /\ "stack" \in DOMAIN q
        BY ONLY <1>3
    <2>2. Len(Put(q, y, hd).stack) = Len(q.stack)
        BY ONLY <1>2, <2>1, PutHeight
    <2> QED
        BY ONLY <1>2, <1>4, <2>1, <2>2
<1>6. MaxSlots < Mod /\ MaxSlots \in Nat /\ Mod \in Nat
    BY ONLY SliceHeapAssumption DEF SliceHeapAssumption
<1>7. n < Mod /\ top + k < Mod
    <2>1. ptr + cap = top
        BY ONLY ptr + cap = Len(st)
    <2> HIDE DEF k, top
    <2> QED
        BY ONLY <1>1, <1>5, <1>6, <2>1, Len(v.stack) <= MaxSlots, ptr \in Nat, cap \in Nat DEF n
<1>8. q = Filling(w, top + k, ptr, cap, n)
    <2>1. Wrap(top + k) = top + k /\ Wrap(n) = n
        <3> HIDE DEF k, top, n
        <3>1. top + k \in Nat
            BY ONLY <1>1
        <3> QED
            BY ONLY <1>1, <1>7, <3>1, WrapSmall
    <2> HIDE DEF w, k, top
    <2> QED
        BY ONLY <1>3, <2>1 DEF Filling, n
<1>9. IF IsLiteral(y) THEN t = y.cells
      ELSE hd.ptr \in Nat /\ Lies(w, hd.ptr, t) /\ (top <= hd.ptr \/ hd.ptr + Len(t) <= top)
    <2>1. CASE IsLiteral(y)
        BY ONLY <2>1, IF IsLiteral(y) THEN t = y.cells ELSE hd.ptr \in Nat /\ Lies(st, hd.ptr, t)
    <2>2. CASE ~IsLiteral(y)
        <3>1. hd.ptr \in Nat /\ Lies(st, hd.ptr, t)
            BY ONLY <2>2, IF IsLiteral(y) THEN t = y.cells ELSE hd.ptr \in Nat /\ Lies(st, hd.ptr, t)
        <3>2. Lies(w, hd.ptr, t)
            <4> HIDE DEF w
            <4> QED
                BY ONLY <1>2, <3>1, st \in Bytes, t \in Bytes, ExtendedLies
        <3>3. k > 0 => hd.ptr + k <= top
            BY ONLY <3>1 DEF Lies
        <3>4. top <= hd.ptr \/ hd.ptr + k <= top
            <4> HIDE DEF k, top
            <4> QED
                BY ONLY <1>1, <3>1, <3>3
        <3> QED
            BY ONLY <2>2, <3>1, <3>2, <3>4
    <2> QED
        BY ONLY <2>1, <2>2
<1>10. Put(q, y, hd) = Filling(u, top + k, ptr, n, n)
    <2>1. top = ptr + cap /\ n = cap + Len(t) /\ top \in Nat /\ n \in Nat /\ n < Mod
        BY ONLY <1>1, <1>7, ptr + cap = Len(st)
    <2>2. /\ w \in Bytes /\ ptr \in Nat /\ cap \in Nat /\ t \in Bytes /\ n \in Nat /\ n = cap + Len(t) /\ n < Mod
          /\ top \in Nat /\ top = ptr + cap /\ hd.len = Len(t)
          /\ IF IsLiteral(y) THEN t = y.cells
             ELSE hd.ptr \in Nat /\ Lies(w, hd.ptr, t) /\ (top <= hd.ptr \/ hd.ptr + Len(t) <= top)
        BY ONLY <1>2, <1>9, <2>1, ptr \in Nat, cap \in Nat, t \in Bytes, hd.len = Len(t)
    <2> DEFINE end == top + k
    <2> HIDE DEF w, top, n, end
    <2>3. Put(Filling(w, end, ptr, cap, n), y, hd) = Filling(Stored(w, top, t), end, ptr, n, n)
        <3>1. Behind(w, ptr, cap, t, n, top, y, hd)
            BY ONLY <2>2 DEF Behind
        <3> QED
            BY ONLY <3>1, PutBehind
    <2> QED
        BY ONLY <1>8, <2>3 DEF end
<1>11. u \in Bytes /\ Len(u) = top + k /\ Extends(st, u) /\ Lies(u, top, t)
    <2>1. top + k <= Len(w) /\ top <= top
        <3> HIDE DEF top, k, w
        <3> QED
            BY ONLY <1>1, <1>2
    <2> HIDE DEF w
    <2>2. u \in Bytes
        BY ONLY <1>1, <1>2, t \in Bytes, StoredSeq
    <2>3. Extends(st, u) /\ Len(u) = Len(w)
        BY ONLY <1>1, <1>2, <2>1, st \in Bytes, t \in Bytes, ExtendsStored
    <2>4. Lies(u, top, t)
        BY ONLY <1>1, <1>2, <2>1, t \in Bytes, StoredLies
    <2> QED
        BY ONLY <1>2, <2>2, <2>3, <2>4
<1> HIDE DEF u, w
<1>12. Lies(u, ptr, c \o t)
    <2>1. Lies(u, ptr, c)
        BY ONLY <1>11, st \in Bytes, ptr \in Nat, c \in Bytes, Lies(st, ptr, c), ExtendedLies
    <2>2. Lies(u, ptr + Len(c), t)
        BY ONLY <1>11, Len(c) = cap, ptr + cap = Len(st)
    <2> QED
        BY ONLY <1>11, <2>1, <2>2, ptr \in Nat, c \in Bytes, t \in Bytes, LiesConcat
<1>13. c \o t \in Bytes /\ Len(c \o t) = n
    BY ONLY c \in Bytes, t \in Bytes, Len(c) = cap, ConcatBytes
<1>14. ptr + n = top + k
    <2>1. ptr + cap = top
        BY ONLY ptr + cap = Len(st)
    <2> HIDE DEF k, top
    <2> QED
        BY ONLY <1>1, <2>1, ptr \in Nat, cap \in Nat DEF n
<1>15. v = Filling(u, top + k, ptr, n, n)
    BY ONLY <1>4, <1>10
<1>16. v.stack = u
    BY ONLY <1>15 DEF Filling
<1> HIDE DEF n
<1> QED
    BY ONLY <1>11, <1>12, <1>13, <1>14, <1>15, <1>16

\* A string at the end of the heap grows where it lies.
LEMMA GrowsInPlace ==
    ASSUME NEW st, NEW hdr, NEW arrays, NEW slices, NEW home, NEW held, NEW own, NEW own2, NEW d,
           NEW t, NEW y, NEW hd, NEW v, NEW V, NEW r2,
           Grows(st, hdr, arrays, slices, home, held, own, own2, d, t, y, hd, v, V, r2),
           AtTop([stack |-> st, top |-> Len(st)], hdr[d], hdr[d].cap)
    PROVE  Yields(v, V, hdr, slices, held, own2, d)
<1> DEFINE c == GoCells(GoOf(arrays, slices, r2), d)
           e == c \o t
           n == Len(e)
           ptr == hdr[d].ptr
           A == slices[d].arr
           others == held \ {d}
<1>1. /\ st \in Bytes /\ Len(st) \in Nat /\ d \in Names /\ Size[d] = 1
      /\ hdr[d] = [ptr |-> ptr, len |-> hdr[d].cap, cap |-> hdr[d].cap] /\ hdr[d] \in Header
      /\ ptr \in Nat /\ hdr[d].cap \in Nat /\ hdr[d].cap < Mod
      /\ c \in Bytes /\ Len(c) = hdr[d].cap /\ Lies(st, ptr, c) /\ Len(t) \in Nat
      /\ e \in Bytes /\ n = hdr[d].cap + Len(t)
    BY ONLY Grows(st, hdr, arrays, slices, home, held, own, own2, d, t, y, hd, v, V, r2), GrowsNumbers
<1>2. /\ Sound(st, hdr, arrays, slices, home, held, own) /\ d \in held \cap Strings
      /\ hdr[d].len = hdr[d].cap /\ own2 \subseteq own /\ t \in Bytes /\ hd.len = Len(t)
      /\ IF IsLiteral(y) THEN t = y.cells ELSE hd.ptr \in Nat /\ Lies(st, hd.ptr, t)
      /\ v = Put(ensureSliceCapByCell(Value([stack |-> st, top |-> Len(st)], hdr[d]), Len(t)), y, hd)
      /\ Len(v.stack) <= MaxSlots
      /\ V = GoFresh(GoOf(arrays, slices, r2), e, 1)
    BY ONLY Grows(st, hdr, arrays, slices, home, held, own, own2, d, t, y, hd, v, V, r2) DEF Grows
<1>3. /\ home[A] + Len(arrays[A]) = Len(st) /\ ptr = home[A] + slices[d].off /\ ptr + hdr[d].cap = Len(st)
    <2> DEFINE h == [stack |-> st, top |-> Len(st)]
               room == hdr[d].cap * Size[d]
    <2>1. h.top = Len(st) /\ room = hdr[d].cap /\ d \in held
        BY ONLY <1>1, <1>2
    <2>2. AtTop(h, hdr[d], room)
        BY ONLY <2>1, AtTop([stack |-> st, top |-> Len(st)], hdr[d], hdr[d].cap)
    <2>3. room = hdr[d].cap * Size[d]
        OBVIOUS
    <2> HIDE DEF h, room
    <2>4. /\ home[A] + Len(arrays[A]) = Len(st) /\ ptr = home[A] + slices[d].off /\ ptr + room = Len(st)
        BY ONLY <1>2, <2>1, <2>2, <2>3, TopArray
    <2> QED
        BY ONLY <2>1, <2>4
<1> HIDE DEF c
<1>4. /\ v = Filling(v.stack, Len(v.stack), ptr, n, n)
      /\ Extends(st, v.stack) /\ Lies(v.stack, ptr, e) /\ ptr + n = Len(v.stack)
    <2> HIDE DEF ptr
    <2> QED
        BY ONLY <1>1, <1>2, <1>3, AtTop([stack |-> st, top |-> Len(st)], hdr[d], hdr[d].cap), GrowsBehind, SMTT(30)
<1>5. V.arrays = Append(arrays, e) /\ V.slice = View(Len(arrays) + 1, 0, n, n)
    <2>1. e \in Bytes /\ V = GoFresh(GoOf(arrays, slices, r2), e, 1) /\ n = Len(e)
        BY ONLY <1>1, <1>2
    <2> HIDE DEF e, n
    <2> QED
        BY ONLY <2>1, GoFreshBytes
<1> HIDE DEF e
<1>6. Sound(st, hdr, arrays, slices, home, others, own \ {d}) /\ d \in Names \ others
    <2>1. own \ {d} \subseteq others /\ others \subseteq held /\ own \ {d} \subseteq own
        BY ONLY <1>2 DEF Sound, Typed
    <2> HIDE DEF others
    <2>2. Sound(st, hdr, arrays, slices, home, others, own \ {d})
        BY ONLY <1>2, <2>1, SoundForget
    <2> QED
        BY ONLY <1>1, <2>2 DEF others
<1>7. Sound(v.stack, hdr, arrays, slices, home, others, own \ {d})
    <2> HIDE DEF others
    <2> QED
        BY ONLY <1>2, <1>4, <1>6, SoundGrow
<1>8. ASSUME NEW a \in Used(slices, others)
      PROVE  /\ HeapStart <= ptr
             /\ \/ Apart(home[a], Len(arrays[a]), ptr, n)
                \/ /\ d \in Strings \ own2 /\ a \in Texts(slices, others)
                   /\ \A m \in own2 : slices[m].arr # a
    <2>1. Ends(st, hdr, arrays, slices, home, d)
        BY ONLY <1>3 DEF Ends
    <2>2. Sound(st, hdr, arrays, slices, home, held, own) /\ d \in held \cap Strings /\ own2 \subseteq own
        BY ONLY <1>2
    <2> HIDE DEF n
    <2>3. /\ HeapStart <= hdr[d].ptr
          /\ \/ Apart(home[a], Len(arrays[a]), hdr[d].ptr, n)
             \/ /\ d \in Strings \ own2 /\ a \in Texts(slices, held \ {d})
                /\ \A m \in own2 : slices[m].arr # a
        BY ONLY <1>8, <2>1, <2>2, GrowsApart, ZenonT(30)
    <2> QED
        BY ONLY <2>3
<1>9. HeapStart <= ptr
    <2>1. 1 \in Used(slices, others)
        BY ONLY TRUE DEF Used
    <2> QED
        BY ONLY <1>8, <2>1
<1>10. /\ n \in Nat /\ n <= n /\ n * Size[d] <= n /\ own2 \subseteq (own \ {d}) \cup {d}
       /\ ptr + n <= Len(v.stack)
    <2>1. n \in Nat
        BY ONLY <1>1
    <2>2. Size[d] = 1 /\ own2 \subseteq own /\ ptr + n = Len(v.stack) /\ ptr \in Nat
        BY ONLY <1>1, <1>2, <1>4
    <2> HIDE DEF n, ptr
    <2>3. n * Size[d] = n
        BY ONLY <2>1, <2>2
    <2>4. n <= n /\ ptr + n <= Len(v.stack)
        BY ONLY <2>1, <2>2
    <2>5. own2 \subseteq (own \ {d}) \cup {d}
        BY ONLY <2>2
    <2> QED
        BY ONLY <2>1, <2>3, <2>4, <2>5
<1>11. \E home2 : Sound(v.stack, [hdr EXCEPT ![d] = [ptr |-> ptr, len |-> n, cap |-> n]], Append(arrays, e),
                        [slices EXCEPT ![d] = View(Len(arrays) + 1, 0, n, n)], home2, others \cup {d}, own2)
    <2>1. /\ \A a \in Used(slices, others) :
                \/ Apart(home[a], Len(arrays[a]), ptr, Len(e))
                \/ /\ d \in Strings \ own2 /\ a \in Texts(slices, others)
                   /\ \A m \in own2 : slices[m].arr # a
          /\ n * Size[d] <= Len(e) /\ ptr + Len(e) <= Len(v.stack)
        BY ONLY <1>8, <1>10 DEF n
    <2>2. e \in Bytes /\ ptr \in Nat
        BY ONLY <1>1
    <2>3. Lies(v.stack, ptr, e) /\ d \in Names \ others
        BY ONLY <1>4, <1>6
    <2> HIDE DEF n, ptr, others
    <2> QED
        BY ONLY <1>7, <1>9, <1>10, <2>1, <2>2, <2>3, SoundNew
<1>12. others \cup {d} = held \cup {d}
    BY ONLY TRUE
<1>13. v.top = Len(v.stack) /\ v.hd = [ptr |-> ptr, len |-> n, cap |-> n]
    BY ONLY <1>4 DEF Filling
<1> HIDE DEF n, ptr, others
<1> QED
    BY ONLY <1>5, <1>11, <1>12, <1>13 DEF Yields

\* s += x keeps the heap sound, for a string that is as long as its buffer and is
\* not x itself.
LEMMA ConcatStep ==
    ASSUME NEW st, NEW hdr, NEW arrays, NEW slices, NEW home, NEW held, NEW own,
           Sound(st, hdr, arrays, slices, home, held, own), NEW r, NEW r2,
           NEW s, s.op = "concat", WellTyped(s), NEW d \in held, d = s.dst, NEW kept,
           OperandNames(s.src) \subseteq held, InBounds(slices, s.src),
           ~(IsName(s.src) /\ s.src.name = d), hdr[d].len = hdr[d].cap,
           NEW own2, own2 \subseteq own,
           NEW m, m = Execute(Mach(st, Len(st), hdr, r), s), Len(m.stack) <= MaxSlots,
           NEW g, g = GoExecute(GoOf(arrays, slices, r2), s, kept)
    PROVE  Agrees(m, g, held, own2) /\ m.result = r /\ g.result = r2
<1> DEFINE M == Mach(st, Len(st), hdr, r)
           G == GoOf(arrays, slices, r2)
           x == s.src
           t == GoText(G, x)
           v == lowerSliceSelfConcat(M, d, x)
           V == GoFresh(G, GoCells(G, d) \o t, 1)
           h == [stack |-> st, top |-> Len(st)]
<1>1. d \in Strings /\ IsOperand(x, 1)
    BY ONLY s.op = "concat", WellTyped(s), d = s.dst DEF WellTyped, IsText
<1>2. m = WithSlice(M, d, v)
    <2> HIDE DEF M
    <2> QED
        BY ONLY s.op = "concat", d = s.dst, m = Execute(Mach(st, Len(st), hdr, r), s) DEF Execute, M
<1>3. g = WithGoSlice(G, d, V)
    <2> HIDE DEF G
    <2> QED
        BY ONLY s.op = "concat", d = s.dst, g = GoExecute(GoOf(arrays, slices, r2), s, kept) DEF GoExecute, G
<1>4. /\ t \in Bytes
      /\ \E y, hd : /\ v = Put(ensureSliceCapByCell(Value(h, hdr[d]), Len(t)), y, hd) /\ hd.len = Len(t)
                    /\ IF IsLiteral(y) THEN t = y.cells ELSE hd.ptr \in Nat /\ Lies(st, hd.ptr, t)
    <2>1. OperandNames(x) \subseteq held /\ InBounds(slices, x) /\ ~(IsName(x) /\ x.name = d) /\ t = GoText(G, x)
        BY ONLY OperandNames(s.src) \subseteq held, InBounds(slices, s.src), ~(IsName(s.src) /\ s.src.name = d)
    <2> HIDE DEF t, x
    <2>2. t \in Bytes /\ PutInRoom(st, hdr, d, t, v)
        BY ONLY <1>1, <2>1, Sound(st, hdr, arrays, slices, home, held, own), SelfConcatParts
    <2> QED
        BY ONLY <2>2, Zenon DEF PutInRoom
<1> HIDE DEF v, V, t
<1>5. PICK y, hd : /\ v = Put(ensureSliceCapByCell(Value(h, hdr[d]), Len(t)), y, hd) /\ hd.len = Len(t)
                   /\ IF IsLiteral(y) THEN t = y.cells ELSE hd.ptr \in Nat /\ Lies(st, hd.ptr, t)
    BY ONLY <1>4
<1>6. Len(m.stack) = Len(v.stack)
    <2>1. WithHeap(M, v) = Mach(v.stack, v.top, hdr, r)
        BY ONLY MachWithHeap
    <2> HIDE DEF M
    <2>2. m.stack = v.stack
        BY ONLY <1>2, <2>1 DEF WithSlice, Mach
    <2> QED
        BY ONLY <2>2
<1>7. Grows(st, hdr, arrays, slices, home, held, own, own2, d, t, y, hd, v, V, r2)
    BY ONLY <1>1, <1>4, <1>5, <1>6, Sound(st, hdr, arrays, slices, home, held, own), d \in held,
            hdr[d].len = hdr[d].cap, own2 \subseteq own, Len(m.stack) <= MaxSlots DEF Grows, V
<1>8. Yields(v, V, hdr, slices, held, own2, d)
    BY ONLY <1>7, GrowsMoved, GrowsInPlace
<1>9. held \cup {d} = held
    BY ONLY d \in held
<1> HIDE DEF M, G
<1>10. Agrees(m, g, held \cup {d}, own2) /\ m.result = r /\ g.result = r2
    BY ONLY <1>2, <1>3, <1>8, YieldsStep DEF M, G
<1> QED
    BY ONLY <1>9, <1>10

\* The machine and the Go program after a statement that gives d a value, and
\* whether d has its buffer where hd has it.
Moves(st, hdr, arrays, slices, r, r2, s, d, hd, m, g) ==
    /\ d = s.dst /\ m = Execute(Mach(st, Len(st), hdr, r), s)
    /\ g = GoExecute(GoOf(arrays, slices, r2), s, m.header[d].ptr = hd.ptr)

\* The statement append(d, x), for a name d that owns nothing after it.
AppendsOne(st, hdr, arrays, slices, home, held, own, own2, r, r2, s, d, m, g) ==
    /\ Sound(st, hdr, arrays, slices, home, held, own)
    /\ s.op = "append" /\ WellTyped(s) /\ d \in held /\ own2 \subseteq own \ {d}
    /\ Moves(st, hdr, arrays, slices, r, r2, s, d, hdr[d], m, g) /\ Len(m.stack) <= MaxSlots

\* append(s, x) keeps the heap sound.
LEMMA AppendStep ==
    ASSUME NEW st, NEW hdr, NEW arrays, NEW slices, NEW home, NEW held, NEW own, NEW own2, NEW r, NEW r2,
           NEW s, NEW d, NEW m, NEW g,
           AppendsOne(st, hdr, arrays, slices, home, held, own, own2, r, r2, s, d, m, g)
    PROVE  Agrees(m, g, held, own2) /\ m.result = r /\ g.result = r2
<1> SUFFICES
        ASSUME Sound(st, hdr, arrays, slices, home, held, own),
               s.op = "append", WellTyped(s), d \in held, own2 \subseteq own \ {d},
               Moves(st, hdr, arrays, slices, r, r2, s, d, hdr[d], m, g), Len(m.stack) <= MaxSlots
        PROVE  Agrees(m, g, held, own2) /\ m.result = r /\ g.result = r2
    BY Zenon DEF AppendsOne
<1> DEFINE M == Mach(st, Len(st), hdr, r)
           G == GoOf(arrays, slices, r2)
           h == [stack |-> st, top |-> Len(st)]
           v == lowerSliceAppend(Value(h, hdr[d]), Size[d], s.cells)
           V == GoAppend(G, d, s.cells, v.hd.ptr = hdr[d].ptr)
<1>0. /\ d = s.dst /\ m = Execute(Mach(st, Len(st), hdr, r), s)
      /\ g = GoExecute(GoOf(arrays, slices, r2), s, m.header[d].ptr = hdr[d].ptr)
    BY ONLY Moves(st, hdr, arrays, slices, r, r2, s, d, hdr[d], m, g), Zenon DEF Moves
<1>1. d \in Names \ Strings /\ s.cells \in Bytes /\ Len(s.cells) = Size[d]
    <2>1. d = s.dst
        BY ONLY <1>0
    <2> QED
        BY ONLY <2>1, s.op = "append", WellTyped(s) DEF WellTyped, IsElement, Bytes
<1>2. HeapIn(M) = h /\ M.header[d] = hdr[d]
    BY ONLY TRUE DEF HeapIn, Mach
<1>3. m = WithSlice(M, d, v)
    <2>0. d = s.dst /\ m = Execute(M, s)
        BY ONLY <1>0, Zenon
    <2> HIDE DEF M, h
    <2>1. m = WithSlice(M, d, lowerSliceAppend(Value(HeapIn(M), M.header[d]), Size[d], s.cells))
        BY ONLY s.op = "append", <2>0 DEF Execute
    <2> QED
        BY ONLY <1>2, <2>1
<1>4. /\ m.header[d] = v.hd /\ m.stack = v.stack
    <2> HIDE DEF v
    <2>1. WithHeap(M, v) = Mach(v.stack, v.top, hdr, r)
        BY ONLY MachWithHeap
    <2>2. hdr \in [Names -> Header] /\ d \in Names
        BY ONLY <1>1, Sound(st, hdr, arrays, slices, home, held, own) DEF Sound, Typed
    <2> HIDE DEF M
    <2> QED
        BY ONLY <1>3, <2>1, <2>2 DEF WithSlice, Mach
<1>5. g = WithGoSlice(G, d, V)
    <2> DEFINE p == m.header[d].ptr
               q == v.hd.ptr
    <2>1. p = q
        BY ONLY <1>4
    <2> HIDE DEF G, p, q, v
    <2>2. g = WithGoSlice(G, d, GoAppend(G, d, s.cells, p = hdr[d].ptr))
        <3>1. g = GoExecute(G, s, p = hdr[d].ptr)
            BY ONLY <1>0, Zenon DEF G, p
        <3>0. d = s.dst
            BY ONLY <1>0
        <3> DEFINE kept == (p = hdr[d].ptr)
        <3>2. g = GoExecute(G, s, kept)
            BY ONLY <3>1
        <3> HIDE DEF kept
        <3>3. g = WithGoSlice(G, d, GoAppend(G, d, s.cells, kept))
            BY ONLY s.op = "append", <3>0, <3>2 DEF GoExecute
        <3> QED
            BY ONLY <3>3, Zenon DEF kept
    <2>3. g = WithGoSlice(G, d, GoAppend(G, d, s.cells, q = hdr[d].ptr))
        BY ONLY <2>1, <2>2, Zenon
    <2> QED
        BY ONLY <2>3, Zenon DEF q
<1>6. Appends(st, hdr, arrays, slices, home, held, own, own2, d, d, Size[d], s.cells, v, V, r2)
    <2>1. V = GoAppend(GoOf(arrays, slices, r2), d, s.cells, v.hd.ptr = hdr[d].ptr)
        BY Zenon
    <2>2. v = lowerSliceAppend(Value([stack |-> st, top |-> Len(st)], hdr[d]), Size[d], s.cells)
        OBVIOUS
    <2>3. d \in held \ Strings /\ own2 \subseteq own \ {d, d} /\ Len(v.stack) <= MaxSlots
        BY ONLY <1>1, <1>4, d \in held, own2 \subseteq own \ {d}, Len(m.stack) <= MaxSlots
    <2> HIDE DEF v, V
    <2> QED
        BY ONLY <1>1, <2>1, <2>2, <2>3, Sound(st, hdr, arrays, slices, home, held, own), Zenon DEF Appends
<1> HIDE DEF v, V
<1>7. Yields(v, V, hdr, slices, held, own2, d)
    BY ONLY <1>6, AppendYields
<1>8. held \cup {d} = held
    BY ONLY d \in held
<1> HIDE DEF M, G
<1>9. Agrees(m, g, held \cup {d}, own2) /\ m.result = r /\ g.result = r2
    BY ONLY <1>3, <1>5, <1>7, YieldsStep DEF M, G
<1> QED
    BY ONLY <1>8, <1>9

\* A value that no variable gets, x + y as a statement of its own, goes again
\* (freeIfHeapTop).
LEMMA DiscardStep ==
    ASSUME NEW st, NEW hdr, NEW arrays, NEW slices, NEW home, NEW held, NEW own,
           Sound(st, hdr, arrays, slices, home, held, own), NEW r, NEW r2,
           NEW s, s.op = "discard", WellTyped(s), Reads(s) \subseteq held,
           InBounds(slices, s.x), InBounds(slices, s.y), Peak(Mach(st, Len(st), hdr, r), s) <= MaxSlots,
           NEW m, m = Relate(Mach(st, Len(st), hdr, r), s), NEW g, g = GoRelate(GoOf(arrays, slices, r2), s)
    PROVE  Agrees(m, g, held, own) /\ m.result = r /\ g.result = r2 /\ m.header = hdr
<1> DEFINE M == Mach(st, Len(st), hdr, r)
           v == lowerStringConcat(M, s.x, s.y)
           tx == GoText(GoOf(arrays, slices, r2), s.x)
           ty == GoText(GoOf(arrays, slices, r2), s.y)
           n == Len(tx \o ty)
<1>1. /\ IsOperand(s.x, 1) /\ IsOperand(s.y, 1)
      /\ OperandNames(s.x) \subseteq held /\ OperandNames(s.y) \subseteq held
    BY ONLY s.op = "discard", WellTyped(s), Reads(s) \subseteq held DEF WellTyped, IsText, Reads, HasSource
<1>2. Len(v.stack) <= MaxSlots
    <2> HIDE DEF M
    <2> QED
        BY ONLY s.op = "discard", Peak(Mach(st, Len(st), hdr, r), s) <= MaxSlots DEF Peak, M
<1>3. m = WithHeap(M, freeIfHeapTop(HeapOf(v), v.hd))
    <2> HIDE DEF M
    <2> QED
        BY ONLY s.op = "discard", m = Relate(Mach(st, Len(st), hdr, r), s) DEF Relate, M
<1>4. g = GoOf(arrays, slices, r2)
    BY ONLY s.op = "discard", g = GoRelate(GoOf(arrays, slices, r2), s) DEF GoRelate
<1> HIDE DEF v, tx, ty
<1>5. Joins(st, hdr, arrays, slices, home, held, own, r, r2, s.x, s.y, v, tx, ty)
    BY ONLY <1>1, <1>2, Sound(st, hdr, arrays, slices, home, held, own), InBounds(slices, s.x),
            InBounds(slices, s.y) DEF Joins, v, tx, ty
<1>6. PICK base \in Nat :
          /\ v = Filling(v.stack, Len(v.stack), base, n, n)
          /\ Len(st) <= base /\ base + n = Len(v.stack) /\ Extends(st, v.stack)
          /\ tx \o ty \in Bytes /\ Lies(v.stack, base, tx \o ty)
    BY ONLY <1>5, ConcatLies
<1> DEFINE w == v.stack
           k == Len(w)
           w2 == SubSeq(w, 1, base)
<1>7. w \in Bytes /\ k \in Nat /\ n \in Nat /\ base <= k /\ st \in Bytes /\ Len(st) \in Nat
    <2>1. w \in Bytes /\ k \in Nat /\ n \in Nat /\ base + n = k
        BY ONLY <1>6 DEF Extends, Bytes
    <2>2. st \in Bytes /\ Len(st) \in Nat
        BY ONLY Sound(st, hdr, arrays, slices, home, held, own) DEF Sound, Typed, Bytes
    <2> HIDE DEF w, n, k
    <2> QED
        BY ONLY <2>1, <2>2
<1>8. freeIfHeapTop(HeapOf(v), v.hd) = [stack |-> w2, top |-> base]
    <2>1. HeapOf(v) = [stack |-> w, top |-> k] /\ v.hd = [ptr |-> base, len |-> n, cap |-> n]
        BY ONLY <1>6 DEF HeapOf, Filling
    <2>2. base + n = Len(w) /\ Len(w) <= MaxSlots
        BY ONLY <1>2, <1>6
    <2> HIDE DEF w, n
    <2>3. freeIfHeapTop([stack |-> w, top |-> Len(w)], [ptr |-> base, len |-> n, cap |-> n])
              = [stack |-> SubSeq(w, 1, base), top |-> base]
        BY ONLY <1>7, <2>2, FreeTop
    <2> QED
        BY ONLY <2>1, <2>3
<1>9. Extends(st, w2) /\ Len(w2) = base /\ w2 \in Bytes
    <2>1. /\ w2 \in Bytes /\ Len(w2) = base /\ \A i \in 1 .. base : w2[i] = w[i]
        <3> HIDE DEF w, k
        <3> QED
            BY ONLY <1>7 DEF Bytes, k
    <2>2. \A i \in 1 .. Len(st) : w[i] = st[i] /\ i \in 1 .. base
        BY ONLY <1>6, <1>7 DEF Extends
    <2> HIDE DEF w2
    <2> QED
        BY ONLY <1>6, <2>1, <2>2 DEF Extends
<1> HIDE DEF w, k, w2
<1>10. Len(w2) <= MaxSlots
    <2>1. Len(w) <= MaxSlots
        BY ONLY <1>2 DEF w
    <2> QED
        BY ONLY <1>7, <1>9, <2>1, SliceHeapAssumption DEF k, SliceHeapAssumption
<1>11. Sound(w2, hdr, arrays, slices, home, held, own)
    BY ONLY <1>9, <1>10, Sound(st, hdr, arrays, slices, home, held, own), SoundGrow
<1>12. m = Mach(w2, base, hdr, r)
    <2> DEFINE u == [stack |-> w2, top |-> base]
    <2>1. WithHeap(M, u) = Mach(u.stack, u.top, hdr, r)
        BY ONLY MachWithHeap
    <2> QED
        BY ONLY <1>3, <1>8, <2>1
<1> QED
    BY ONLY <1>4, <1>9, <1>11, <1>12 DEF Agrees, Mach, GoOf

-----------------------------------------------------------------------------
(* Comparisons, swaps and assignments.                                       *)

\* What a loop over a slice reads is what lies there.
LEMMA GetLies ==
    ASSUME NEW st \in Bytes, NEW base \in Nat, NEW c \in Bytes, Lies(st, base, c), NEW i \in Nat, i < Len(c)
    PROVE  Get(st, base + i) = c[i + 1]
<1> DEFINE j == i + 1
           n == Len(c)
           k == Len(st)
<1>1. n \in Nat /\ k \in Nat /\ DOMAIN st = 1 .. k
    BY DEF Bytes
<1>2. base + n <= k
    <2> HIDE DEF n, k
    <2>1. n > 0
        BY ONLY <1>1, i \in Nat, i < Len(c) DEF n
    <2> QED
        BY ONLY <2>1, Lies(st, base, c) DEF Lies, n, k
<1>3. j \in 1 .. n /\ base + j \in 1 .. k /\ base + i + 1 = base + j
    <2> HIDE DEF k
    <2> QED
        BY ONLY <1>1, <1>2, i \in Nat, base \in Nat, i < Len(c)
<1>4. st[base + j] = c[j]
    BY ONLY <1>3, Lies(st, base, c) DEF Lies
<1> QED
    BY ONLY <1>1, <1>3, <1>4 DEF Get

\* The first of the places where a condition holds.
LEMMA FirstPlace ==
    ASSUME NEW S \in SUBSET Nat, S # {}
    PROVE  \E f \in S : \A j \in S : f <= j
<1> DEFINE Less == {p \in Nat \X Nat : p[1] < p[2]}
<1>1. IsWellFoundedOn(Less, Nat)
    BY NatLessThanWellFounded DEF OpToRel
<1>2. \A i, j \in Nat : <<i, j>> \notin Less => j <= i
    OBVIOUS
<1> HIDE DEF Less
<1>3. PICK f \in S : \A j \in S : ~(<<j, f>> \in Less)
    BY <1>1, WFMin
<1> QED
    BY <1>2, <1>3

\* A string is less than another if they differ first at a byte that is.
LEMMA LessAt ==
    ASSUME NEW a \in Bytes, NEW b \in Bytes, NEW f \in Nat, 1 <= f, f <= Len(a), f <= Len(b), a[f] # b[f],
           \A j \in 1 .. (f - 1) : a[j] = b[j]
    PROVE  GoLess(a, b) <=> a[f] < b[f]
<1>1. /\ Len(a) \in Nat /\ Len(b) \in Nat /\ DOMAIN a = 1 .. Len(a) /\ DOMAIN b = 1 .. Len(b)
      /\ \A i \in 1 .. Len(a) : a[i] \in Byte
      /\ \A i \in 1 .. Len(b) : b[i] \in Byte
    BY DEF Bytes
<1>2. \A i \in 1 .. Len(a) : a[i] \in Nat
    BY <1>1, ByteRange
<1>3. \A i \in 1 .. Len(b) : b[i] \in Nat
    BY <1>1, ByteRange
<1>4. ASSUME a[f] < b[f]
      PROVE  GoLess(a, b)
    <2>1. SubSeq(a, 1, f - 1) = SubSeq(b, 1, f - 1)
        BY <1>1 DEF Bytes
    <2>2. f \in DOMAIN a \cap DOMAIN b
        BY <1>1
    <2> QED
        BY ONLY <1>4, <2>1, <2>2 DEF GoLess
<1>5. ASSUME NEW i \in DOMAIN a \cap DOMAIN b, a[i] < b[i], SubSeq(a, 1, i - 1) = SubSeq(b, 1, i - 1)
      PROVE  a[f] < b[f]
    <2>1. i \in Nat /\ 1 <= i /\ i <= Len(a) /\ i <= Len(b)
        BY <1>1
    <2>2. CASE i < f
        <3>1. i \in 1 .. (f - 1)
            BY <2>1, <2>2
        <3>2. a[i] = b[i]
            BY ONLY <3>1, \A j \in 1 .. (f - 1) : a[j] = b[j]
        <3> QED
            BY <1>2, <1>5, <2>1, <3>2
    <2>3. CASE f < i
        <3>1. SubSeq(a, 1, i - 1)[f] = a[f]
            BY <1>1, <2>1, <2>3 DEF Bytes
        <3>2. SubSeq(b, 1, i - 1)[f] = b[f]
            BY <1>1, <2>1, <2>3 DEF Bytes
        <3> QED
            BY <1>5, <3>1, <3>2
    <2>4. i < f \/ f < i \/ i = f
        BY <2>1
    <2> QED
        BY <1>5, <2>2, <2>3, <2>4
<1>6. ASSUME Len(a) < Len(b), SubSeq(b, 1, Len(a)) = a
      PROVE  a[f] < b[f]
    <2>1. SubSeq(b, 1, Len(a))[f] = b[f]
        BY <1>1, <1>6 DEF Bytes
    <2> QED
        BY <1>6, <2>1
<1> QED
    BY ONLY <1>4, <1>5, <1>6 DEF GoLess

\* Of two strings that do not differ, the shorter one is less.
LEMMA LessPrefix ==
    ASSUME NEW a \in Bytes, NEW b \in Bytes, \A j \in (1 .. Len(a)) \cap (1 .. Len(b)) : a[j] = b[j]
    PROVE  GoLess(a, b) <=> Len(a) < Len(b)
<1>1. /\ Len(a) \in Nat /\ Len(b) \in Nat /\ DOMAIN a = 1 .. Len(a) /\ DOMAIN b = 1 .. Len(b)
      /\ \A i \in 1 .. Len(a) : a[i] \in Byte
    BY DEF Bytes
<1>2. \A i \in 1 .. Len(a) : a[i] \in Nat
    BY <1>1, ByteRange
<1>3. ASSUME Len(a) < Len(b)
      PROVE  SubSeq(b, 1, Len(a)) = a
    <2>1. /\ SubSeq(b, 1, Len(a)) \in Seq(Byte) /\ Len(SubSeq(b, 1, Len(a))) = Len(a)
          /\ \A i \in 1 .. Len(a) : SubSeq(b, 1, Len(a))[i] = b[i]
        BY <1>1, <1>3 DEF Bytes
    <2>2. \A i \in 1 .. Len(a) : SubSeq(b, 1, Len(a))[i] = a[i]
        BY <1>1, <1>3, <2>1
    <2> QED
        BY ONLY <2>1, <2>2, a \in Bytes, SeqEqual DEF Bytes
<1>4. ~ \E i \in DOMAIN a \cap DOMAIN b : a[i] < b[i]
    BY <1>1, <1>2
<1> QED
    BY <1>3, <1>4 DEF GoLess

\* == and != compare the bytes (lowerSliceCompare).
LEMMA ComparedEqual ==
    ASSUME NEW st \in Bytes, NEW a, NEW b, a.ptr \in Nat, b.ptr \in Nat, NEW ta \in Bytes, NEW tb \in Bytes,
           a.len = Len(ta), b.len = Len(tb), Lies(st, a.ptr, ta), Lies(st, b.ptr, tb),
           NEW op, op \in {"==", "!="}
    PROVE  lowerSliceCompare(st, a, b, op) = GoCompare(ta, tb, op) /\ GoCompare(ta, tb, op) \in {0, 1}
<1> DEFINE same == a.len = b.len /\ \A i \in 0 .. (a.len - 1) : Get(st, a.ptr + i) = Get(st, b.ptr + i)
<1>1. Len(ta) \in Nat /\ Len(tb) \in Nat
    BY DEF Bytes
<1>2. ASSUME NEW i \in Nat, i < Len(ta)
      PROVE  Get(st, a.ptr + i) = ta[i + 1]
    BY ONLY <1>2, st \in Bytes, a.ptr \in Nat, ta \in Bytes, Lies(st, a.ptr, ta), GetLies
<1>3. ASSUME NEW i \in Nat, i < Len(tb)
      PROVE  Get(st, b.ptr + i) = tb[i + 1]
    BY ONLY <1>3, st \in Bytes, b.ptr \in Nat, tb \in Bytes, Lies(st, b.ptr, tb), GetLies
<1>4. ASSUME ta = tb
      PROVE  same
    <2>1. \A i \in 0 .. (a.len - 1) : i \in Nat /\ i < Len(ta) /\ i < Len(tb)
        BY ONLY <1>1, <1>4, a.len = Len(ta)
    <2> QED
        BY ONLY <1>2, <1>3, <1>4, <2>1, a.len = Len(ta), b.len = Len(tb)
<1>5. ASSUME same
      PROVE  ta = tb
    <2>1. ASSUME NEW k \in 1 .. Len(ta)
          PROVE  ta[k] = tb[k]
        <3> DEFINE i == k - 1
        <3>0. Len(ta) = Len(tb)
            BY ONLY <1>5, a.len = Len(ta), b.len = Len(tb)
        <3>1. i \in Nat /\ i < Len(ta) /\ i < Len(tb) /\ i \in 0 .. (a.len - 1) /\ i + 1 = k
            BY ONLY <1>1, <3>0, a.len = Len(ta), k \in 1 .. Len(ta)
        <3> HIDE DEF i
        <3> QED
            BY ONLY <1>2, <1>3, <1>5, <3>1
    <2>2. Len(ta) = Len(tb)
        BY ONLY <1>5, a.len = Len(ta), b.len = Len(tb)
    <2> QED
        BY ONLY <2>1, <2>2, ta \in Bytes, tb \in Bytes, SeqEqual DEF Bytes
<1>6. lowerSliceCompare(st, a, b, op) = Truth(IF op = "==" THEN same ELSE ~same)
    BY ONLY Zenon DEF lowerSliceCompare
<1>7. same <=> ta = tb
    BY ONLY <1>4, <1>5
<1> HIDE DEF same
<1>8. CASE op = "=="
    BY ONLY <1>6, <1>7, <1>8 DEF Truth, GoCompare
<1>9. CASE op = "!="
    BY ONLY <1>6, <1>7, <1>9 DEF Truth, GoCompare
<1> QED
    BY ONLY <1>8, <1>9, op \in {"==", "!="}

\* <, >, <= and >= find the first bytes that differ (lowerSliceLexCompare).
LEMMA ComparedLexically ==
    ASSUME NEW st \in Bytes, NEW a, NEW b, a.ptr \in Nat, b.ptr \in Nat, NEW ta \in Bytes, NEW tb \in Bytes,
           a.len = Len(ta), b.len = Len(tb), Lies(st, a.ptr, ta), Lies(st, b.ptr, tb),
           NEW op, op \in {"<", ">", "<=", ">="}
    PROVE  lowerSliceLexCompare(st, a, b, op) = GoCompare(ta, tb, op) /\ GoCompare(ta, tb, op) \in {0, 1}
<1> DEFINE Ordered(x, y) == IF op \in {"<", "<="} THEN x < y ELSE x > y
           Differ(i) == Get(st, a.ptr + i) # Get(st, b.ptr + i)
           common == 0 .. (MinOf(a.len, b.len) - 1)
           first == CHOOSE i \in common : Differ(i) /\ \A j \in 0 .. (i - 1) : ~Differ(j)
           x == Get(st, a.ptr + first)
           y == Get(st, b.ptr + first)
<1>1. Len(ta) \in Nat /\ Len(tb) \in Nat
    BY DEF Bytes
<1>2. common \subseteq Nat /\ \A i \in Nat : i \in common <=> i < Len(ta) /\ i < Len(tb)
    BY ONLY <1>1, a.len = Len(ta), b.len = Len(tb) DEF MinOf
<1>3. ASSUME NEW i \in common
      PROVE  Get(st, a.ptr + i) = ta[i + 1] /\ Get(st, b.ptr + i) = tb[i + 1]
    <2>1. i \in Nat /\ i < Len(ta) /\ i < Len(tb)
        BY ONLY <1>2, <1>3
    <2>2. Get(st, a.ptr + i) = ta[i + 1]
        BY ONLY <2>1, st \in Bytes, a.ptr \in Nat, ta \in Bytes, Lies(st, a.ptr, ta), GetLies
    <2>3. Get(st, b.ptr + i) = tb[i + 1]
        BY ONLY <2>1, st \in Bytes, b.ptr \in Nat, tb \in Bytes, Lies(st, b.ptr, tb), GetLies
    <2> QED
        BY ONLY <2>2, <2>3
<1>4. lowerSliceLexCompare(st, a, b, op) =
          IF \E i \in common : Differ(i) THEN Truth(Ordered(x, y))
          ELSE Truth(Ordered(a.len, b.len) \/ (op \in {"<=", ">="} /\ a.len = b.len))
    BY ONLY Zenon DEF lowerSliceLexCompare
<1>5. CASE \E i \in common : Differ(i)
    <2> DEFINE S == {i \in common : Differ(i)}
    <2>1. PICK f \in S : \A j \in S : f <= j
        <3>1. S \in SUBSET Nat /\ S # {}
            BY ONLY <1>2, <1>5
        <3> HIDE DEF S
        <3> QED
            BY ONLY <3>1, FirstPlace
    <2>2. f \in common /\ Differ(f) /\ \A j \in 0 .. (f - 1) : ~Differ(j)
        <3>1. f \in common /\ Differ(f) /\ f \in Nat /\ f < Len(ta) /\ f < Len(tb)
            BY ONLY <1>2, <2>1
        <3>2. ASSUME NEW j \in 0 .. (f - 1)
              PROVE  ~Differ(j)
            <4>1. j \in Nat /\ j < f
                BY ONLY <3>1, <3>2
            <4>2. j < Len(ta) /\ j < Len(tb)
                BY ONLY <1>1, <3>1, <4>1
            <4>3. j \in common
                BY ONLY <1>2, <4>1, <4>2
            <4>4. Differ(j) => f <= j
                BY ONLY <2>1, <4>3
            <4> QED
                BY ONLY <3>1, <4>1, <4>4
        <3> QED
            BY ONLY <3>1, <3>2
    <2>3. first \in common /\ Differ(first) /\ \A j \in 0 .. (first - 1) : ~Differ(j)
        BY ONLY <2>2, Zenon
    <2> DEFINE g == first + 1
    <2> HIDE DEF first
    <2>4. first \in Nat /\ first < Len(ta) /\ first < Len(tb) /\ x = ta[g] /\ y = tb[g] /\ x # y
        BY ONLY <1>2, <1>3, <2>3
    <2>5. g \in Nat /\ 1 <= g /\ g <= Len(ta) /\ g <= Len(tb)
        BY ONLY <1>1, <2>4
    <2>6. \A j \in 1 .. (g - 1) : ta[j] = tb[j]
        <3> SUFFICES ASSUME NEW j \in 1 .. (g - 1)
                     PROVE  ta[j] = tb[j]
            OBVIOUS
        <3> DEFINE i == j - 1
        <3>1. i \in 0 .. (first - 1) /\ i \in Nat /\ i < Len(ta) /\ i < Len(tb) /\ i + 1 = j
            BY ONLY <1>1, <2>4, j \in 1 .. (g - 1)
        <3> HIDE DEF i, common
        <3>2. i \in common /\ ~Differ(i)
            BY ONLY <1>2, <2>3, <3>1
        <3> QED
            BY ONLY <1>3, <3>1, <3>2
    <2>7. ta[g] \in Nat /\ tb[g] \in Nat
        <3>1. g \in 1 .. Len(ta) /\ g \in 1 .. Len(tb)
            BY ONLY <1>1, <2>5
        <3> HIDE DEF g
        <3>2. ta[g] \in Byte /\ tb[g] \in Byte
            BY ONLY <3>1, ta \in Bytes, tb \in Bytes DEF Bytes
        <3> QED
            BY ONLY <3>2, ByteRange
    <2> HIDE DEF x, y, g
    <2>8. (GoLess(ta, tb) <=> x < y) /\ (GoLess(tb, ta) <=> y < x)
        <3>1. GoLess(ta, tb) <=> ta[g] < tb[g]
            BY ONLY <2>4, <2>5, <2>6, ta \in Bytes, tb \in Bytes, LessAt
        <3>2. \A j \in 1 .. (g - 1) : tb[j] = ta[j]
            BY ONLY <2>6
        <3>3. GoLess(tb, ta) <=> tb[g] < ta[g]
            BY ONLY <2>4, <2>5, <3>2, ta \in Bytes, tb \in Bytes, LessAt
        <3> QED
            BY ONLY <2>4, <3>1, <3>3
    <2>9. lowerSliceLexCompare(st, a, b, op) = Truth(Ordered(x, y))
        BY ONLY <1>4, <1>5, Zenon
    <2>10. x \in Nat /\ y \in Nat /\ x # y
        BY ONLY <2>4, <2>7
    <2> QED
        <3>1. /\ op = "<" => (Ordered(x, y) <=> GoLess(ta, tb))
              /\ op = "<=" => (Ordered(x, y) <=> ~GoLess(tb, ta))
              /\ op = ">" => (Ordered(x, y) <=> GoLess(tb, ta))
              /\ op = ">=" => (Ordered(x, y) <=> ~GoLess(ta, tb))
            BY ONLY <2>8, <2>10, op \in {"<", ">", "<=", ">="}
        <3> HIDE DEF Ordered
        <3> QED
            BY ONLY <2>9, <3>1, op \in {"<", ">", "<=", ">="} DEF Truth, GoCompare
<1>6. CASE ~ \E i \in common : Differ(i)
    <2>1. \A j \in (1 .. Len(ta)) \cap (1 .. Len(tb)) : ta[j] = tb[j]
        <3> SUFFICES ASSUME NEW j \in (1 .. Len(ta)) \cap (1 .. Len(tb))
                     PROVE  ta[j] = tb[j]
            OBVIOUS
        <3> DEFINE i == j - 1
        <3>1. i \in Nat /\ i < Len(ta) /\ i < Len(tb) /\ i + 1 = j
            BY ONLY <1>1, j \in (1 .. Len(ta)) \cap (1 .. Len(tb))
        <3> HIDE DEF i, common
        <3>2. i \in common
            BY ONLY <1>2, <3>1
        <3> QED
            BY ONLY <1>3, <1>6, <3>1, <3>2
    <2>2. GoLess(ta, tb) <=> Len(ta) < Len(tb)
        BY ONLY <2>1, ta \in Bytes, tb \in Bytes, LessPrefix
    <2>3. GoLess(tb, ta) <=> Len(tb) < Len(ta)
        <3>1. \A j \in (1 .. Len(tb)) \cap (1 .. Len(ta)) : tb[j] = ta[j]
            BY ONLY <2>1
        <3> QED
            BY ONLY <3>1, ta \in Bytes, tb \in Bytes, LessPrefix
    <2>4. lowerSliceLexCompare(st, a, b, op)
              = Truth(Ordered(a.len, b.len) \/ (op \in {"<=", ">="} /\ a.len = b.len))
        BY ONLY <1>4, <1>6, Zenon
    <2> QED
        <3> DEFINE ordered == Ordered(a.len, b.len) \/ (op \in {"<=", ">="} /\ a.len = b.len)
        <3>1. /\ op = "<" => (ordered <=> GoLess(ta, tb))
              /\ op = "<=" => (ordered <=> ~GoLess(tb, ta))
              /\ op = ">" => (ordered <=> GoLess(tb, ta))
              /\ op = ">=" => (ordered <=> ~GoLess(ta, tb))
            BY ONLY <1>1, <2>2, <2>3, a.len = Len(ta), b.len = Len(tb), op \in {"<", ">", "<=", ">="}
        <3>2. lowerSliceLexCompare(st, a, b, op) = Truth(ordered)
            BY ONLY <2>4, Zenon
        <3> HIDE DEF ordered
        <3> QED
            BY ONLY <3>1, <3>2, op \in {"<", ">", "<=", ">="} DEF Truth, GoCompare
<1> QED
    BY ONLY <1>5, <1>6

\* The two operands of a comparison lie on the stack together, however high that is.
LEMMA TwoOperands ==
    ASSUME NEW st, NEW hdr, NEW arrays, NEW slices, NEW home, NEW held, NEW own,
           Sound(st, hdr, arrays, slices, home, held, own), NEW r, NEW r2, NEW x, NEW y,
           IsOperand(x, 1), OperandNames(x) \subseteq held, InBounds(slices, x),
           IsOperand(y, 1), OperandNames(y) \subseteq held, InBounds(slices, y),
           NEW vx, vx = resolveStringSlice(Mach(st, Len(st), hdr, r), x),
           NEW vy, vy = resolveStringSlice(Mach(vx.stack, vx.top, hdr, r), y), Len(vy.stack) <= MaxSlots,
           NEW tx, tx = GoText(GoOf(arrays, slices, r2), x), NEW ty, ty = GoText(GoOf(arrays, slices, r2), y)
    PROVE  /\ vy.stack \in Bytes /\ vy.top = Len(vy.stack)
           /\ Sound(vy.stack, hdr, arrays, slices, home, held, own)
           /\ vx.hd.ptr \in Nat /\ vy.hd.ptr \in Nat /\ tx \in Bytes /\ ty \in Bytes
           /\ vx.hd.len = Len(tx) /\ vy.hd.len = Len(ty)
           /\ Lies(vy.stack, vx.hd.ptr, tx) /\ Lies(vy.stack, vy.hd.ptr, ty)
<1>1. st \in Bytes /\ Len(st) \in Nat /\ 1 \in Nat \ {0}
    BY ONLY Sound(st, hdr, arrays, slices, home, held, own) DEF Sound, Typed, Bytes
<1>2. vx.stack \in Bytes /\ Width(x) \in Nat /\ Len(vx.stack) = Len(st) + Width(x) /\ Len(vx.stack) \in Nat
    <2>1. vx.stack \in Bytes /\ Width(x) \in Nat /\ Len(vx.stack) = Len(st) + Width(x)
        BY ONLY <1>1, IsOperand(x, 1), vx = resolveStringSlice(Mach(st, Len(st), hdr, r), x), OperandWidth
    <2> QED
        BY ONLY <2>1 DEF Bytes
<1>3. vx.top \in Nat
    <2>1. vx.top = (IF IsTemporary(x) THEN Wrap(Len(st) + Width(x)) ELSE Len(st))
        BY ONLY <1>1, IsOperand(x, 1), vx = resolveStringSlice(Mach(st, Len(st), hdr, r), x), OperandWidth
    <2>2. Wrap(Len(st) + Width(x)) \in Nat
        <3> DEFINE k == Len(st) + Width(x)
        <3>1. k \in Nat
            BY ONLY <1>1, <1>2
        <3> HIDE DEF k
        <3> QED
            BY ONLY <3>1, SliceHeapAssumption DEF Wrap, SliceHeapAssumption, k
    <2> QED
        BY ONLY <1>1, <2>1, <2>2
<1>4. vy.stack \in Bytes /\ Width(y) \in Nat /\ Len(vy.stack) = Len(vx.stack) + Width(y)
    BY ONLY <1>2, <1>3, IsOperand(y, 1), vy = resolveStringSlice(Mach(vx.stack, vx.top, hdr, r), y), OperandWidth
<1>5. Len(st) + Width(x) <= MaxSlots /\ Len(vx.stack) + Width(y) <= MaxSlots /\ Len(vx.stack) <= MaxSlots
    <2> DEFINE a == Len(st)
               b == Len(vx.stack)
               c == Len(vy.stack)
               i == Width(x)
               k == Width(y)
    <2>1. /\ a \in Nat /\ b = a + i /\ c = b + k /\ c <= MaxSlots /\ b \in Nat
          /\ i \in Nat /\ k \in Nat
        BY ONLY <1>1, <1>2, <1>4, Len(vy.stack) <= MaxSlots
    <2>2. MaxSlots \in Nat
        BY ONLY SliceHeapAssumption DEF SliceHeapAssumption
    <2> HIDE DEF a, b, c, i, k
    <2>3. a + i <= MaxSlots /\ b + k <= MaxSlots /\ b <= MaxSlots
        BY ONLY <2>1, <2>2
    <2> QED
        BY ONLY <2>3 DEF a, b, i, k
<1>6. /\ vx.hd \in Header /\ tx \in Bytes /\ Len(tx) = vx.hd.len * 1
      /\ Extends(st, vx.stack) /\ vx.top = Len(vx.stack) /\ Lies(vx.stack, vx.hd.ptr, tx)
    BY ONLY <1>1, <1>5, Sound(st, hdr, arrays, slices, home, held, own), IsOperand(x, 1),
            OperandNames(x) \subseteq held, InBounds(slices, x),
            vx = resolveStringSlice(Mach(st, Len(st), hdr, r), x), tx = GoText(GoOf(arrays, slices, r2), x),
            OperandLies
<1>7. Sound(vx.stack, hdr, arrays, slices, home, held, own)
    BY ONLY <1>5, <1>6, Sound(st, hdr, arrays, slices, home, held, own), SoundGrow
<1>8. vy = resolveStringSlice(Mach(vx.stack, Len(vx.stack), hdr, r), y)
    BY ONLY <1>6, vy = resolveStringSlice(Mach(vx.stack, vx.top, hdr, r), y)
<1>9. /\ vy.hd \in Header /\ ty \in Bytes /\ Len(ty) = vy.hd.len * 1
      /\ Extends(vx.stack, vy.stack) /\ vy.top = Len(vy.stack) /\ Lies(vy.stack, vy.hd.ptr, ty)
    BY ONLY <1>1, <1>5, <1>7, <1>8, IsOperand(y, 1), OperandNames(y) \subseteq held, InBounds(slices, y),
            ty = GoText(GoOf(arrays, slices, r2), y), OperandLies
<1>10. Sound(vy.stack, hdr, arrays, slices, home, held, own)
    BY ONLY <1>7, <1>9, Len(vy.stack) <= MaxSlots, SoundGrow
<1>11. vx.hd.ptr \in Nat /\ vx.hd.len \in Nat /\ vy.hd.ptr \in Nat /\ vy.hd.len \in Nat
    BY ONLY <1>6, <1>9, ByteRange DEF Header
<1>12. Lies(vy.stack, vx.hd.ptr, tx)
    BY ONLY <1>2, <1>6, <1>9, <1>11, ExtendedLies
<1>13. vx.hd.len = Len(tx) /\ vy.hd.len = Len(ty)
    BY ONLY <1>6, <1>9, <1>11
<1> QED
    BY ONLY <1>4, <1>6, <1>9, <1>10, <1>11, <1>12, <1>13

\* A comparison of strings has the result that it has in Go; what it pushes stays.
LEMMA CompareStep ==
    ASSUME NEW st, NEW hdr, NEW arrays, NEW slices, NEW home, NEW held, NEW own,
           Sound(st, hdr, arrays, slices, home, held, own), NEW r, NEW r2,
           NEW s, s.op = "compare", WellTyped(s), Reads(s) \subseteq held,
           InBounds(slices, s.x), InBounds(slices, s.y),
           NEW m, m = Relate(Mach(st, Len(st), hdr, r), s), Len(m.stack) <= MaxSlots,
           NEW g, g = GoRelate(GoOf(arrays, slices, r2), s)
    PROVE  Agrees(m, g, held, own) /\ m.result = g.result /\ g.result \in Byte
<1> DEFINE M == Mach(st, Len(st), hdr, r)
           G == GoOf(arrays, slices, r2)
           vx == resolveStringSlice(M, s.x)
           vy == resolveStringSlice(Mach(vx.stack, vx.top, hdr, r), s.y)
           tx == GoText(G, s.x)
           ty == GoText(G, s.y)
           res == IF s.cmp \in {"==", "!="} THEN lowerSliceCompare(vy.stack, vx.hd, vy.hd, s.cmp)
                  ELSE lowerSliceLexCompare(vy.stack, vx.hd, vy.hd, s.cmp)
           gres == GoCompare(tx, ty, s.cmp)
<1>1. /\ IsOperand(s.x, 1) /\ IsOperand(s.y, 1) /\ s.cmp \in {"==", "!=", "<", ">", "<=", ">="}
      /\ OperandNames(s.x) \subseteq held /\ OperandNames(s.y) \subseteq held
    BY ONLY s.op = "compare", WellTyped(s), Reads(s) \subseteq held DEF WellTyped, IsText, Reads, HasSource
<1>2. m = [WithHeap(M, vy) EXCEPT !.result = res]
    <2> DEFINE w == resolveStringSlice(WithHeap(M, vx), s.y)
    <2>1. WithHeap(M, vx) = Mach(vx.stack, vx.top, hdr, r)
        <3> HIDE DEF vx
        <3> QED
            BY ONLY MachWithHeap
    <2>2. w = vy
        BY ONLY <2>1
    <2>3. m = [WithHeap(M, w) EXCEPT !.result =
                  IF s.cmp \in {"==", "!="} THEN lowerSliceCompare(w.stack, vx.hd, w.hd, s.cmp)
                  ELSE lowerSliceLexCompare(w.stack, vx.hd, w.hd, s.cmp)]
        <3> HIDE DEF M
        <3> QED
            BY ONLY s.op = "compare", m = Relate(Mach(st, Len(st), hdr, r), s) DEF Relate, M
    <2> HIDE DEF w, vx, vy, M
    <2> QED
        BY ONLY <2>2, <2>3
<1>3. g = [G EXCEPT !.result = gres]
    <2> HIDE DEF G
    <2> QED
        BY ONLY s.op = "compare", g = GoRelate(GoOf(arrays, slices, r2), s) DEF GoRelate, G
<1> HIDE DEF vx, vy, tx, ty, res, gres
<1>4. m = Mach(vy.stack, vy.top, hdr, res)
    <2>1. WithHeap(M, vy) = Mach(vy.stack, vy.top, hdr, r)
        BY ONLY MachWithHeap
    <2> HIDE DEF M
    <2> QED
        BY ONLY <1>2, <2>1 DEF Mach
<1>5. g = GoOf(arrays, slices, gres)
    BY ONLY <1>3 DEF GoOf
<1> HIDE DEF M, G
<1>6. /\ vy.stack \in Bytes /\ vy.top = Len(vy.stack)
      /\ Sound(vy.stack, hdr, arrays, slices, home, held, own)
      /\ vx.hd.ptr \in Nat /\ vy.hd.ptr \in Nat /\ tx \in Bytes /\ ty \in Bytes
      /\ vx.hd.len = Len(tx) /\ vy.hd.len = Len(ty)
      /\ Lies(vy.stack, vx.hd.ptr, tx) /\ Lies(vy.stack, vy.hd.ptr, ty)
    <2>1. /\ vx = resolveStringSlice(Mach(st, Len(st), hdr, r), s.x)
          /\ vy = resolveStringSlice(Mach(vx.stack, vx.top, hdr, r), s.y)
          /\ tx = GoText(GoOf(arrays, slices, r2), s.x) /\ ty = GoText(GoOf(arrays, slices, r2), s.y)
        BY ONLY Zenon DEF vx, vy, tx, ty, M, G
    <2>2. Len(vy.stack) <= MaxSlots
        BY ONLY <1>4, Len(m.stack) <= MaxSlots DEF Mach
    <2> QED
        BY ONLY <1>1, <2>1, <2>2, Sound(st, hdr, arrays, slices, home, held, own), InBounds(slices, s.x),
                InBounds(slices, s.y), TwoOperands
<1>7. res = gres /\ gres \in {0, 1}
    <2> DEFINE a == vx.hd
               b == vy.hd
               op == s.cmp
               w == vy.stack
    <2>0. /\ w \in Bytes /\ a.ptr \in Nat /\ b.ptr \in Nat /\ tx \in Bytes /\ ty \in Bytes
          /\ a.len = Len(tx) /\ b.len = Len(ty) /\ Lies(w, a.ptr, tx) /\ Lies(w, b.ptr, ty)
        BY ONLY <1>6
    <2>1. res = (IF op \in {"==", "!="} THEN lowerSliceCompare(w, a, b, op) ELSE lowerSliceLexCompare(w, a, b, op))
        BY ONLY Zenon DEF res
    <2>2. gres = GoCompare(tx, ty, op)
        BY ONLY Zenon DEF gres
    <2>3. op \in {"==", "!="} \/ op \in {"<", ">", "<=", ">="}
        BY ONLY <1>1
    <2>4. ~(op \in {"==", "!="} /\ op \in {"<", ">", "<=", ">="})
        OBVIOUS
    <2> HIDE DEF a, b, op, w
    <2>5. CASE op \in {"==", "!="}
        <3>1. lowerSliceCompare(w, a, b, op) = GoCompare(tx, ty, op) /\ GoCompare(tx, ty, op) \in {0, 1}
            BY ONLY <2>0, <2>5, ComparedEqual
        <3> QED
            BY ONLY <2>1, <2>2, <2>5, <3>1
    <2>6. CASE op \in {"<", ">", "<=", ">="}
        <3>1. lowerSliceLexCompare(w, a, b, op) = GoCompare(tx, ty, op) /\ GoCompare(tx, ty, op) \in {0, 1}
            BY ONLY <2>0, <2>6, ComparedLexically
        <3> QED
            BY ONLY <2>1, <2>2, <2>4, <2>6, <3>1
    <2> QED
        BY ONLY <2>3, <2>5, <2>6
<1>8. {0, 1} \subseteq Byte
    BY ONLY SliceHeapAssumption DEF SliceHeapAssumption, Byte
<1> QED
    BY ONLY <1>4, <1>5, <1>6, <1>7, <1>8 DEF Agrees, Mach, GoOf

\* x, y = y, x, of two names that own nothing: what the body owns may not be taken
\* over by a name that popScope does not know of (lowerAssign).
LEMMA SwapStep ==
    ASSUME NEW st, NEW hdr, NEW arrays, NEW slices, NEW home, NEW held, NEW own,
           Sound(st, hdr, arrays, slices, home, held, own), NEW r, NEW r2,
           NEW s, s.op = "swap", WellTyped(s), Reads(s) \subseteq held, Reads(s) \cap own = {},
           NEW m, m = Relate(Mach(st, Len(st), hdr, r), s), NEW g, g = GoRelate(GoOf(arrays, slices, r2), s)
    PROVE  Agrees(m, g, held, own) /\ m.result = r /\ g.result = r2 /\ m.stack = st
<1> DEFINE x == s.x.name
           y == s.y.name
           hdr2 == [hdr EXCEPT ![x] = hdr[y], ![y] = hdr[x]]
           slices2 == [slices EXCEPT ![x] = slices[y], ![y] = slices[x]]
<1>1. SameType(x, y) /\ x \in held \ own /\ y \in held \ own
    BY ONLY s.op = "swap", WellTyped(s), Reads(s) \subseteq held, Reads(s) \cap own = {}
       DEF WellTyped, IsName, Reads, HasSource, OperandNames
<1>2. m = Mach(st, Len(st), hdr2, r)
    <2> HIDE DEF x, y
    <2>1. m = [Mach(st, Len(st), hdr, r) EXCEPT !.header[x] = Mach(st, Len(st), hdr, r).header[y],
                                                !.header[y] = Mach(st, Len(st), hdr, r).header[x]]
        BY ONLY s.op = "swap", m = Relate(Mach(st, Len(st), hdr, r), s), Zenon DEF Relate, x, y
    <2> QED
        BY ONLY <2>1 DEF Mach
<1>3. g = GoOf(arrays, slices2, r2)
    <2> HIDE DEF x, y
    <2>1. g = [GoOf(arrays, slices, r2) EXCEPT !.slices[x] = GoOf(arrays, slices, r2).slices[y],
                                               !.slices[y] = GoOf(arrays, slices, r2).slices[x]]
        BY ONLY s.op = "swap", g = GoRelate(GoOf(arrays, slices, r2), s), Zenon DEF GoRelate, x, y
    <2> QED
        BY ONLY <2>1 DEF GoOf
<1> HIDE DEF x, y
<1>4. Sound(st, hdr2, arrays, slices2, home, held, own)
    BY ONLY <1>1, Sound(st, hdr, arrays, slices, home, held, own), SoundSwap
<1> HIDE DEF hdr2, slices2
<1> QED
    BY ONLY <1>2, <1>3, <1>4 DEF Agrees, Mach, GoOf

\* Everything that a name may be assigned.  A value that shares its buffer is not
\* owned, and neither are the names it shares it with (markEscaped).
Assigns(st, hdr, arrays, slices, home, held, own, own2, r, r2, d, e, v) ==
    /\ Sound(st, hdr, arrays, slices, home, held, own)
    /\ d \in Names /\ (IF d \in Strings THEN IsStringFor(e) ELSE IsSliceFor(e, d))
    /\ ExprNames(e) \subseteq held
    /\ IF e.kind = "concat" THEN InBounds(slices, e.x) /\ InBounds(slices, e.y) ELSE InBounds(slices, e)
    /\ own2 \subseteq own \cup {d}
    /\ e.kind \in {"name", "view", "array", "append"} => d \notin own2 /\ OperandNames(e) \cap own = {}
    /\ v = lowerSliceExpr(Mach(st, Len(st), hdr, r), e) /\ Len(v.stack) <= MaxSlots

\* The expressions by their kinds.
LEMMA KindsOf ==
    ASSUME NEW e, NEW d \in Names, IF d \in Strings THEN IsStringFor(e) ELSE IsSliceFor(e, d)
    PROVE  /\ e.kind \in {"name", "view", "append", "nil", "make", "elements", "array", "copyOf", "concat", "text", "byte"}
           /\ e.kind \in {"name", "view"} => e.name \in Names /\ SameType(e.name, d)
           /\ e.kind = "view" => IsView(e)
           /\ e.kind \in {"append", "nil", "make", "elements", "array"} => d \notin Strings /\ IsSliceFor(e, d)
           /\ e.kind = "append" => e.name \in Names /\ SameType(e.name, d) /\ IsElement(e.cells, d)
           /\ e.kind \in {"copyOf", "concat", "text", "byte"} => Size[d] = 1
           /\ e.kind = "copyOf" => e.name \in Names /\ Size[e.name] = 1
           /\ e.kind = "concat" => IsOperand(e.x, 1) /\ IsOperand(e.y, 1)
           /\ IsTemporary(e) => IsOperand(e, 1)
<1>1. d \in Strings => Size[d] = 1
    BY Sizes
<1>2. \A n \in Names \cap Strings : Size[n] = 1
    BY Sizes
<1>3. CASE d \notin Strings
    <2>1. IsSliceFor(e, d)
        BY <1>3
    <2>2. e.kind \in {"name", "view", "append", "nil", "make", "elements", "array", "copyOf"}
        BY ONLY <2>1 DEF IsSliceFor
    <2>3. e.kind = "name" => e.name \in Names /\ SameType(e.name, d)
        BY ONLY <2>1 DEF IsSliceFor
    <2>4. e.kind = "view" => e.name \in Names /\ SameType(e.name, d) /\ IsView(e)
        BY ONLY <2>1 DEF IsSliceFor, IsPart
    <2>5. e.kind = "append" => e.name \in Names /\ SameType(e.name, d) /\ IsElement(e.cells, d)
        BY ONLY <2>1 DEF IsSliceFor
    <2>6. e.kind = "copyOf" => Size[d] = 1 /\ e.name \in Names /\ Size[e.name] = 1
        BY ONLY <2>1, <1>2 DEF IsSliceFor
    <2> QED
        BY ONLY <1>3, <2>1, <2>2, <2>3, <2>4, <2>5, <2>6 DEF IsTemporary
<1>4. CASE d \in Strings
    <2>1. IsStringFor(e)
        BY <1>4
    <2>2. e.kind = "copyOf" => e.name \in Names /\ Size[e.name] = 1
        BY ONLY <2>1 DEF IsStringFor
    <2>3. e.kind = "concat" => IsOperand(e.x, 1) /\ IsOperand(e.y, 1)
        BY ONLY <2>1 DEF IsStringFor, IsText
    <2>4. CASE e.kind \notin {"copyOf", "concat"}
        <3>1. IsOperand(e, 1) /\ (e.kind \in {"name", "view"} => e.name \in Strings)
            BY ONLY <2>1, <2>4 DEF IsStringFor, IsText
        <3>2. e.kind \in {"name", "view", "text", "byte"}
            BY ONLY <3>1 DEF IsOperand
        <3>3. e.kind \in {"name", "view"} => e.name \in Names /\ Size[e.name] = 1
            BY ONLY <3>1 DEF IsOperand
        <3>4. e.kind = "view" => IsView(e)
            BY ONLY <3>1 DEF IsOperand, IsPart
        <3>5. e.kind \in {"name", "view"} => SameType(e.name, d)
            BY ONLY <1>1, <1>4, <3>1, <3>3 DEF SameType
        <3> QED
            BY ONLY <1>1, <1>4, <3>1, <3>2, <3>3, <3>4, <3>5
    <2> QED
        BY ONLY <1>1, <1>4, <2>2, <2>3, <2>4 DEF IsTemporary
<1> QED
    BY ONLY <1>3, <1>4

\* x = append(y, z), whose Go value depends on where the buffer ends up.
LEMMA AssignedAppend ==
    ASSUME NEW st, NEW hdr, NEW arrays, NEW slices, NEW home, NEW held, NEW own, NEW own2, NEW r, NEW r2,
           NEW d, NEW e, NEW v, Assigns(st, hdr, arrays, slices, home, held, own, own2, r, r2, d, e, v),
           e.kind = "append",
           NEW V, V = GoAppend(GoOf(arrays, slices, r2), e.name, e.cells, v.hd.ptr = hdr[e.name].ptr)
    PROVE  Yields(v, V, hdr, slices, held, own2, d)
<1> DEFINE n == e.name
<1>1. /\ Sound(st, hdr, arrays, slices, home, held, own) /\ d \in Names
      /\ (IF d \in Strings THEN IsStringFor(e) ELSE IsSliceFor(e, d))
      /\ ExprNames(e) \subseteq held /\ own2 \subseteq own \cup {d}
      /\ d \notin own2 /\ OperandNames(e) \cap own = {}
      /\ v = lowerSliceExpr(Mach(st, Len(st), hdr, r), e) /\ Len(v.stack) <= MaxSlots
    BY ONLY Assigns(st, hdr, arrays, slices, home, held, own, own2, r, r2, d, e, v), e.kind = "append" DEF Assigns
<1>2. d \notin Strings /\ n \in Names /\ SameType(n, d) /\ IsElement(e.cells, d)
    BY ONLY <1>1, e.kind = "append", KindsOf
<1>3. n \in held /\ n \notin own
    BY ONLY <1>1, e.kind = "append" DEF ExprNames, OperandNames
<1>4. n \notin Strings /\ Size[d] = Size[n]
    BY ONLY <1>2 DEF SameType
<1>5. e.cells \in Bytes /\ Len(e.cells) = Size[n]
    BY ONLY <1>2, <1>4 DEF IsElement, Bytes
<1>6. own2 \subseteq own \ {n, d}
    BY ONLY <1>1, <1>3
<1>7. v = lowerSliceAppend(Value([stack |-> st, top |-> Len(st)], hdr[n]), Size[n], e.cells)
    <2> DEFINE M == Mach(st, Len(st), hdr, r)
               h == [stack |-> st, top |-> Len(st)]
    <2>1. HeapIn(M) = h /\ M.header[n] = hdr[n]
        BY ONLY TRUE DEF HeapIn, Mach
    <2>2. v = lowerSliceExpr(M, e)
        BY ONLY <1>1
    <2> HIDE DEF M, h
    <2>3. v = lowerSliceAppend(Value(HeapIn(M), M.header[n]), Size[n], e.cells)
        BY ONLY <2>2, e.kind = "append" DEF lowerSliceExpr, IsName
    <2>4. v = lowerSliceAppend(Value(h, hdr[n]), Size[n], e.cells)
        BY ONLY <2>1, <2>3
    <2> QED
        BY ONLY <2>4 DEF h
<1>8. V = GoAppend(GoOf(arrays, slices, r2), n, e.cells, v.hd.ptr = hdr[n].ptr)
    BY Zenon
<1> HIDE DEF n
<1>9. n \in held \ Strings /\ d \in Names \ Strings /\ Size[n] = Size[n]
    BY ONLY <1>1, <1>2, <1>3, <1>4
<1>10. Appends(st, hdr, arrays, slices, home, held, own, own2, n, d, Size[n], e.cells, v, V, r2)
    BY ONLY <1>1, <1>4, <1>5, <1>6, <1>7, <1>8, <1>9, Zenon DEF Appends
<1> QED
    BY ONLY <1>10, AppendYields

\* Every other value.
LEMMA AssignedValue ==
    ASSUME NEW st, NEW hdr, NEW arrays, NEW slices, NEW home, NEW held, NEW own, NEW own2, NEW r, NEW r2,
           NEW d, NEW e, NEW v, Assigns(st, hdr, arrays, slices, home, held, own, own2, r, r2, d, e, v),
           e.kind # "append", NEW kept, NEW V, V = GoEval(GoOf(arrays, slices, r2), e, kept)
    PROVE  Yields(v, V, hdr, slices, held, own2, d)
<1>1. /\ Sound(st, hdr, arrays, slices, home, held, own) /\ d \in Names
      /\ (IF d \in Strings THEN IsStringFor(e) ELSE IsSliceFor(e, d))
      /\ ExprNames(e) \subseteq held /\ own2 \subseteq own \cup {d}
      /\ IF e.kind = "concat" THEN InBounds(slices, e.x) /\ InBounds(slices, e.y) ELSE InBounds(slices, e)
      /\ e.kind \in {"name", "view", "array", "append"} => d \notin own2 /\ OperandNames(e) \cap own = {}
      /\ v = lowerSliceExpr(Mach(st, Len(st), hdr, r), e) /\ Len(v.stack) <= MaxSlots
    BY ONLY Assigns(st, hdr, arrays, slices, home, held, own, own2, r, r2, d, e, v) DEF Assigns
<1>2. /\ e.kind \in {"name", "view", "append", "nil", "make", "elements", "array", "copyOf", "concat", "text", "byte"}
      /\ e.kind \in {"name", "view"} => e.name \in Names /\ SameType(e.name, d)
      /\ e.kind = "view" => IsView(e)
      /\ e.kind \in {"append", "nil", "make", "elements", "array"} => d \notin Strings /\ IsSliceFor(e, d)
      /\ e.kind \in {"copyOf", "concat", "text", "byte"} => Size[d] = 1
      /\ e.kind = "copyOf" => e.name \in Names /\ Size[e.name] = 1
      /\ e.kind = "concat" => IsOperand(e.x, 1) /\ IsOperand(e.y, 1)
      /\ IsTemporary(e) => IsOperand(e, 1)
    BY ONLY <1>1, KindsOf
<1>3. e.kind \in {"name", "view", "copyOf"} => e.name \in held
    BY ONLY <1>1 DEF ExprNames, OperandNames
<1>4. e.kind \in {"name", "view"} => e.name \in held \ own
    BY ONLY <1>1, <1>3 DEF OperandNames
<1>5. e.kind \in {"name", "view", "array"} => own2 \subseteq own \ {d}
    BY ONLY <1>1
<1>6. CASE e.kind = "name"
    BY ONLY <1>1, <1>2, <1>4, <1>5, <1>6, V = GoEval(GoOf(arrays, slices, r2), e, kept), ValueName
<1>7. CASE e.kind = "view"
    BY ONLY <1>1, <1>2, <1>4, <1>5, <1>7, V = GoEval(GoOf(arrays, slices, r2), e, kept), ValueView
<1>8. CASE e.kind = "array"
    BY ONLY <1>1, <1>2, <1>5, <1>8, V = GoEval(GoOf(arrays, slices, r2), e, kept), ValueArray
<1>9. CASE e.kind = "nil"
    BY ONLY <1>1, <1>2, <1>9, V = GoEval(GoOf(arrays, slices, r2), e, kept), ValueNil
<1>10. CASE e.kind = "make"
    BY ONLY <1>1, <1>2, <1>10, V = GoEval(GoOf(arrays, slices, r2), e, kept), ValueMake
<1>11. CASE e.kind = "elements"
    BY ONLY <1>1, <1>2, <1>11, V = GoEval(GoOf(arrays, slices, r2), e, kept), ValueElements
<1>12. CASE e.kind = "copyOf"
    BY ONLY <1>1, <1>2, <1>3, <1>12, V = GoEval(GoOf(arrays, slices, r2), e, kept), ValueCopyOf
<1>13. CASE e.kind = "concat"
    <2>1. OperandNames(e.x) \subseteq held /\ OperandNames(e.y) \subseteq held
        BY ONLY <1>1, <1>13 DEF ExprNames
    <2> QED
        BY ONLY <1>1, <1>2, <1>13, <2>1, V = GoEval(GoOf(arrays, slices, r2), e, kept), ValueConcat
<1>14. CASE IsTemporary(e)
    <2>1. Size[d] = 1
        BY ONLY <1>2, <1>14 DEF IsTemporary
    <2> QED
        BY ONLY <1>1, <1>2, <1>14, <2>1, V = GoEval(GoOf(arrays, slices, r2), e, kept), ValueText
<1> QED
    BY ONLY <1>2, <1>6, <1>7, <1>8, <1>9, <1>10, <1>11, <1>12, <1>13, <1>14, e.kind # "append" DEF IsTemporary

\* The assignment s of the value v; append keeps the buffer of the slice it extends.
Assigning(st, hdr, arrays, slices, home, held, own, own2, r, r2, s, d, e, v, hd, m, g) ==
    /\ s.op = "assign" /\ e = s.rhs
    /\ Assigns(st, hdr, arrays, slices, home, held, own, own2, r, r2, d, e, v)
    /\ e.kind = "append" => hd = hdr[e.name]
    /\ Moves(st, hdr, arrays, slices, r, r2, s, d, hd, m, g)

\* x = e keeps the heap sound.
LEMMA AssignStep ==
    ASSUME NEW st, NEW hdr, NEW arrays, NEW slices, NEW home, NEW held, NEW own, NEW own2, NEW r, NEW r2,
           NEW s, NEW d, NEW e, NEW v, NEW hd, NEW m, NEW g,
           Assigning(st, hdr, arrays, slices, home, held, own, own2, r, r2, s, d, e, v, hd, m, g)
    PROVE  Agrees(m, g, held \cup {d}, own2) /\ m.result = r /\ g.result = r2
<1> DEFINE M == Mach(st, Len(st), hdr, r)
           G == GoOf(arrays, slices, r2)
           kept == (m.header[d].ptr = hd.ptr)
           V == GoEval(G, e, kept)
<1>1. /\ s.op = "assign" /\ e = s.rhs
      /\ Assigns(st, hdr, arrays, slices, home, held, own, own2, r, r2, d, e, v)
      /\ e.kind = "append" => hd = hdr[e.name]
      /\ Moves(st, hdr, arrays, slices, r, r2, s, d, hd, m, g)
    BY ONLY Assigning(st, hdr, arrays, slices, home, held, own, own2, r, r2, s, d, e, v, hd, m, g)
    DEF Assigning
<1>2. /\ d = s.dst /\ m = Execute(Mach(st, Len(st), hdr, r), s)
      /\ g = GoExecute(GoOf(arrays, slices, r2), s, m.header[d].ptr = hd.ptr)
    BY ONLY <1>1, Zenon DEF Moves
<1>3. v = lowerSliceExpr(M, e) /\ d \in Names /\ Sound(st, hdr, arrays, slices, home, held, own)
    BY ONLY <1>1 DEF Assigns
<1>4. m = WithSlice(M, d, v)
    <2>1. d = s.dst /\ m = Execute(M, s)
        BY ONLY <1>2, Zenon
    <2> HIDE DEF M
    <2> QED
        BY ONLY <1>3, <2>1, <1>1 DEF Execute
<1>5. m.header[d] = v.hd
    <2>1. WithHeap(M, v) = Mach(v.stack, v.top, hdr, r)
        BY ONLY MachWithHeap
    <2>2. hdr \in [Names -> Header] /\ d \in Names
        BY ONLY <1>3 DEF Sound, Typed
    <2> HIDE DEF M
    <2> QED
        BY ONLY <1>4, <2>1, <2>2 DEF WithSlice, Mach
<1>6. g = GoExecute(G, s, kept)
    BY ONLY <1>2, Zenon
<1> HIDE DEF kept, G, M
<1>7. g = WithGoSlice(G, d, V)
    <2>1. d = s.dst
        BY ONLY <1>2
    <2> QED
        BY ONLY <1>6, <2>1, <1>1 DEF GoExecute
<1> HIDE DEF V
<1>8. Yields(v, V, hdr, slices, held, own2, d)
    <2>1. CASE e.kind = "append"
        <3> DEFINE p == m.header[d].ptr
                   q == v.hd.ptr
                   o == hdr[e.name].ptr
        <3>1. p = q /\ o = hd.ptr
            BY ONLY <1>5, <2>1, <1>1
        <3>2. V = GoAppend(G, e.name, e.cells, kept)
            BY ONLY <2>1 DEF GoEval, V, IsName
        <3> HIDE DEF p, q, o
        <3>3. V = GoAppend(G, e.name, e.cells, p = hd.ptr)
            BY ONLY <3>2, Zenon DEF kept, p
        <3>4. V = GoAppend(G, e.name, e.cells, q = o)
            BY ONLY <3>1, <3>3, Zenon
        <3>5. V = GoAppend(GoOf(arrays, slices, r2), e.name, e.cells, v.hd.ptr = hdr[e.name].ptr)
            BY ONLY <3>4, Zenon DEF q, o, G
        <3> QED
            BY ONLY <2>1, <3>5, <1>1, AssignedAppend
    <2>2. CASE e.kind # "append"
        <3>1. V = GoEval(GoOf(arrays, slices, r2), e, kept)
            BY ONLY Zenon DEF V, G
        <3> QED
            BY ONLY <2>2, <3>1, <1>1, AssignedValue
    <2> QED
        BY ONLY <2>1, <2>2
<1> QED
    BY ONLY <1>4, <1>7, <1>8, YieldsStep DEF M, G

-----------------------------------------------------------------------------
(* The invariant.                                                          *)

\* Where the lowerer is in the body of the loop, and what it marked.
Scoped ==
    /\ escaped \subseteq locals /\ locals \subseteq Inner
    /\ declared \subseteq locals /\ unchecked \subseteq locals \ escaped
    /\ phase \in {"outside", "inside", "leaving"} /\ kind \in DOMAIN Statements

\* The registers of both programs.
Paired ==
    /\ heapPtr = Len(stack) /\ result = go.result /\ result \in Byte
    /\ go = GoOf(go.arrays, go.slices, go.result)

SoundNow == \E home : Sound(stack, header, go.arrays, go.slices, home, Held, Own)

\* The inductive invariant.
IInv == Scoped /\ Paired /\ SoundNow

-----------------------------------------------------------------------------
(* The scope of the body.                                                    *)

\* popScope may free the buffers of unescaped variables of the body only.
LEMMA OwnIsInner ==
    ASSUME Scoped
    PROVE  Own \subseteq Inner \ escaped /\ Own \subseteq Held /\ Held \subseteq Names
<1>1. CASE phase = "inside"
    BY <1>1 DEF Scoped, Own, Held, Live, Names
<1>2. CASE phase = "leaving"
    BY <1>2 DEF Scoped, Own, Held, Live, Names
<1>3. CASE phase = "outside"
    BY <1>3 DEF Scoped, Own, Held, Live, Names
<1> QED
    BY <1>1, <1>2, <1>3 DEF Scoped

\* The array variable lies in the static slots, and nothing else does.
LEMMA InitOK == Init => IInv
<1> SUFFICES ASSUME Init PROVE IInv
    OBVIOUS
<1> DEFINE home == [a \in 1 .. 1 |-> ArrayBase]
           arrays == << Array >>
           slices == [n \in Names |-> GoNil]
<1>1. /\ go = GoOf(arrays, slices, 0) /\ go.arrays = arrays /\ go.slices = slices /\ go.result = 0
    BY Zenon DEF Init, GoOf
<1>2. 0 \in Byte /\ Mod \in Nat /\ Mod > 0
    BY ONLY SliceHeapAssumption, ByteRange
<1>3. /\ stack \in Bytes /\ Len(stack) = HeapStart
      /\ \A i \in 1 .. HeapStart :
            stack[i] = IF i - ArrayBase \in DOMAIN Array THEN Array[i - ArrayBase] ELSE 0
    BY <1>2, SliceHeapAssumption DEF Init, Bytes
<1>4. Lies(stack, ArrayBase, Array)
    BY ONLY <1>3, SliceHeapAssumption DEF Lies
<1>5. NilHeader \in Header /\ GoNil \in Slices
    BY ONLY <1>2, WrapSmall DEF NilHeader, Hd, Header, GoNil, View, Slices
<1>6. Scoped
    BY DEF Init, Scoped
<1>7. Own = {} /\ Held \subseteq Names
    BY <1>6, OwnIsInner DEF Init, Own
<1>8. Used(slices, Held) = {1} /\ Texts(slices, Held) = {}
    BY <1>7 DEF Used, Texts, GoNil, View
<1>9. Typed(stack, header, arrays, slices, home, Held, Own)
    <2>1. header \in [Names -> Header] /\ slices \in [Names -> Slices]
        BY <1>5 DEF Init
    <2>2. arrays \in Seq(Bytes) /\ Len(arrays) = 1 /\ arrays[1] = Array
        BY SliceHeapAssumption DEF Bytes
    <2>3. home \in [1 .. Len(arrays) -> Byte] /\ home[1] = ArrayBase
        BY <2>2, <1>2, ByteRange, SliceHeapAssumption
    <2> QED
        BY ONLY <1>3, <1>7, <2>1, <2>2, <2>3, SliceHeapAssumption DEF Typed, Bytes
<1>10. Housed(stack, arrays, slices, home, Held)
    BY <1>4, <1>8 DEF Housed
<1>11. \A n \in Held : IsNil(header[n], slices[n])
    BY <1>7 DEF Init, IsNil
<1>12. Sound(stack, header, arrays, slices, home, Held, Own)
    BY ONLY <1>7, <1>8, <1>9, <1>10, <1>11
    DEF Sound, Readable, Shows, TextsApart, Separate, Owned
<1>13. heapPtr = HeapStart /\ result = 0
    BY DEF Init
<1> QED
    BY ONLY <1>1, <1>2, <1>3, <1>6, <1>12, <1>13 DEF IInv, Paired, SoundNow

\* What the heap holds for more names it holds for fewer.
LEMMA StillSound ==
    ASSUME SoundNow, stack' = stack, header' = header, go' = go,
           Held' \subseteq Held, Own' \subseteq Own, Own' \subseteq Held'
    PROVE  SoundNow'
<1>1. PICK home : Sound(stack, header, go.arrays, go.slices, home, Held, Own)
    BY Zenon DEF SoundNow
<1>2. Sound(stack, header, go.arrays, go.slices, home, Held', Own')
    BY <1>1, SoundForget
<1> QED
    BY <1>2, Zenon DEF SoundNow

\* The body is entered: none of its variables can be read yet.
LEMMA EnterOK ==
    ASSUME IInv, EnterBody
    PROVE  IInv'
<1>1. Scoped'
    BY DEF IInv, Scoped, EnterBody, program
<1>2. Own' = {} /\ Own = {} /\ Held' = Held
    BY DEF EnterBody, Own, Held, Live
<1>3. SoundNow'
    BY <1>2, StillSound DEF IInv, EnterBody
<1> QED
    BY <1>1, <1>3 DEF IInv, Paired, EnterBody

\* The body is left: what it owns is what popScope is going to check, since every
\* variable has been declared.
LEMMA LeaveOK ==
    ASSUME IInv, Miscompiled = {}, LeaveBody
    PROVE  IInv'
<1>1. declared = locals
    BY DEF LeaveBody
<1>2. Scoped'
    BY DEF IInv, Scoped, LeaveBody, program
<1>3. Own' = Own /\ Held' \subseteq Held
    BY <1>1 DEF LeaveBody, Own, Held, Live, program
<1>4. SoundNow'
    BY <1>2, <1>3, StillSound, OwnIsInner DEF IInv, LeaveBody, Held
<1> QED
    BY <1>2, <1>4 DEF IInv, Paired, LeaveBody

\* A buffer whose cells end where the heap ends has a cell for each of its elements.
LEMMA TopOfHeap ==
    ASSUME NEW k \in Nat, NEW c \in Nat, c > 0, NEW room \in Nat, c <= room,
           NEW top \in Nat, k + room <= top, top < Mod, Wrap(k + c) = top
    PROVE  k + c = top /\ top - c = k /\ k <= top
<1>1. Wrap(k + c) = k + c
    BY SliceHeapAssumption, WrapSmall
<1> QED
    BY ONLY <1>1, Wrap(k + c) = top, k \in Nat, c \in Nat, top \in Nat

\* Every other home ends where the last slice of the heap begins.
LEMMA BelowTop ==
    ASSUME NEW k \in Nat, NEW c \in Nat, c > 0, NEW top \in Nat, k + c = top,
           NEW base \in Nat, NEW off \in Nat, k = base + off, NEW len \in Nat, off + c <= len,
           base + len <= top,
           NEW base2 \in Nat, NEW len2 \in Nat, len2 > 0, base2 + len2 <= top,
           base2 + len2 <= base \/ base + len <= base2
    PROVE  base2 + len2 <= k
OBVIOUS

\* A buffer that a name owns goes if it is the last one: nothing that is still in
\* use lies there (popScope, freeIfHeapTop).
LEMMA PopStep ==
    ASSUME NEW st, NEW hdr, NEW arrays, NEW slices, NEW home, NEW held, NEW own,
           Sound(st, hdr, arrays, slices, home, held, own), NEW n \in own,
           NEW h, h = freeIfHeapTop([stack |-> st, top |-> Len(st)], hdr[n])
    PROVE  /\ h.top = Len(h.stack)
           /\ Sound(h.stack, hdr, arrays, slices, home, held \ {n}, own \ {n})
<1> DEFINE hd == hdr[n]
           a == slices[n].arr
           k == hd.ptr
           c == hd.cap
           room == hdr[n].cap * Size[n]
           off == slices[n].off
<1>1. /\ st \in Bytes /\ Len(st) \in Nat /\ HeapStart <= Len(st) /\ Len(st) <= MaxSlots
      /\ n \in held /\ n \in Names /\ own \subseteq held
    BY DEF Sound, Typed, Bytes
<1>2. Sound(st, hdr, arrays, slices, home, held \ {n}, own \ {n})
    BY <1>1, SoundForget
<1>3. CASE ~AtTop([stack |-> st, top |-> Len(st)], hd, c)
    <2>1. h = [stack |-> st, top |-> Len(st)]
        BY <1>3 DEF freeIfHeapTop
    <2> QED
        BY <2>1, <1>2
<1>4. CASE AtTop([stack |-> st, top |-> Len(st)], hd, c)
    <2>1. /\ k \in Nat /\ c \in Nat /\ k < Mod /\ c < Mod
          /\ c > 0 => k + room <= Len(st) /\ k = home[a] + off
          /\ off \in Nat /\ room \in Nat /\ c <= room /\ off + room <= Len(arrays[a])
          /\ a \in Used(slices, held) /\ a \in 1 .. Len(arrays)
        <3>1. n \in held /\ Sound(st, hdr, arrays, slices, home, held, own)
            BY <1>1
        <3>2. /\ k \in Nat /\ c \in Nat /\ k < Mod /\ c < Mod
              /\ c > 0 => k + room <= Len(st) /\ k = home[a] + off
              /\ off \in Nat /\ room \in Nat /\ off + room <= Len(arrays[a])
              /\ a \in 1 .. Len(arrays)
            BY ONLY <3>1, NameNumbers
        <3>3. a \in Used(slices, held) /\ Size[n] \in Nat \ {0}
            BY ONLY <3>1, NameCells
        <3>4. c <= room
            BY ONLY <3>2, <3>3, Times
        <3> QED
            BY ONLY <3>2, <3>3, <3>4
    <2>2. HeapStart \in Nat /\ HeapStart > 0 /\ MaxSlots \in Nat /\ MaxSlots < Mod /\ Mod \in Nat
        BY SliceHeapAssumption
    <2>3. (k + c) % Mod = Len(st)
        BY <1>4 DEF AtTop, Wrap
    <2>4. h = [stack |-> SubSeq(st, 1, Len(st) - c), top |-> k]
        BY <1>4, Zenon DEF freeIfHeapTop, PoppedTo
    <2> HIDE DEF k, c, room, off, a, hd
    <2>5. CASE c = 0
        <3>1. k + c = k /\ k % Mod = k
            BY ONLY <2>1, <2>2, <2>5
        <3>2. k = Len(st)
            BY ONLY <3>1, <2>3
        <3>3. SubSeq(st, 1, Len(st) - c) = st
            BY ONLY <2>5, <1>1 DEF Bytes
        <3> QED
            BY ONLY <3>2, <3>3, <2>4, <1>2
    <2>6. CASE c > 0
        <3> DEFINE top == Len(st)
                   base == home[a]
                   len == Len(arrays[a])
        <3>1. /\ top \in Nat /\ top < Mod /\ k + room <= top /\ k = base + off
              /\ off + room <= len /\ Wrap(k + c) = top
            <4>1. top < Mod
                BY ONLY <1>1, <2>2
            <4> QED
                BY ONLY <4>1, <1>1, <2>1, <2>3, <2>6 DEF Wrap
        <3>2. k + c = top /\ top - c = k /\ k <= top
            <4> HIDE DEF top, base, len
            <4> QED
                BY ONLY <3>1, <2>1, <2>6, TopOfHeap, ZenonT(30)
        <3>3. ~IsNil(hd, slices[n])
            <4>1. Wrap(0) = 0
                BY <2>2, WrapSmall
            <4> QED
                BY <4>1, <2>6 DEF IsNil, NilHeader, Hd, hd, c
        <3>4. Exclusive(n, arrays, slices, home, held)
            BY <3>3 DEF Sound, Owned, hd
        <3>5. a # 1 /\ HeapStart <= home[a] /\ home[a] \in Nat /\ Len(arrays[a]) \in Nat
            BY <3>4, <2>1, HeldArray DEF Exclusive, a
        <3>6. Len(arrays[a]) > 0 /\ home[a] + Len(arrays[a]) <= Len(st)
            <4>1. Lies(st, home[a], arrays[a])
                BY <2>1, HeldArray
            <4>2. Len(arrays[a]) > 0
                <5> HIDE DEF top, base, len
                <5>1. room \in Nat /\ c \in Nat /\ off \in Nat /\ c <= room /\ c > 0
                    BY ONLY <2>1, <2>6
                <5>2. len \in Nat
                    BY ONLY <3>5 DEF len
                <5>3. len > 0
                    BY ONLY <5>1, <5>2, <3>1
                <5> QED
                    BY ONLY <5>3 DEF len
            <4> QED
                BY ONLY <4>1, <4>2 DEF Lies
        <3>7. ASSUME NEW b \in Used(slices, held \ {n}), Len(arrays[b]) > 0
              PROVE  home[b] + Len(arrays[b]) <= k
            <4>1. b \in Used(slices, held) \ {a}
                BY ONLY <3>4, <3>7, <3>5 DEF Exclusive, Used, a
            <4>2. /\ HomesApart(arrays, home, b, a) /\ home[b] \in Nat /\ Len(arrays[b]) \in Nat
                  /\ home[b] + Len(arrays[b]) <= Len(st)
                <5>1. Lies(st, home[b], arrays[b]) /\ home[b] \in Nat /\ Len(arrays[b]) \in Nat
                    BY ONLY <4>1, HeldArray, Sound(st, hdr, arrays, slices, home, held, own)
                <5>2. HomesApart(arrays, home, b, a)
                    BY ONLY <3>4, <4>1 DEF Exclusive, a
                <5> QED
                    BY ONLY <5>1, <5>2, <3>7 DEF Lies
            <4>3. home[b] + Len(arrays[b]) <= home[a] \/ home[a] + Len(arrays[a]) <= home[b]
                BY ONLY <4>2, <3>6, <3>7 DEF HomesApart, Apart
            <4> DEFINE base2 == home[b]
                       len2 == Len(arrays[b])
            <4>4. /\ base \in Nat /\ len \in Nat /\ base + len <= top /\ len2 > 0
                  /\ base2 \in Nat /\ len2 \in Nat /\ base2 + len2 <= top
                  /\ base2 + len2 <= base \/ base + len <= base2
                BY ONLY <4>2, <4>3, <3>5, <3>6, <3>7
            <4> HIDE DEF top, base, len, base2, len2
            <4>5. off + c <= len
                BY ONLY <3>1, <4>4, <2>1
            <4>6. base2 + len2 <= k
                BY ONLY <4>4, <4>5, <3>1, <3>2, <2>1, <2>6, BelowTop
            <4> QED
                BY ONLY <4>6 DEF base2, len2
        <3>8. k \in Nat /\ HeapStart <= k /\ k <= Len(st) /\ Len(st) - c = k
            <4>1. base \in Nat /\ HeapStart <= base
                BY ONLY <3>5
            <4> HIDE DEF base
            <4>2. HeapStart <= k
                BY ONLY <4>1, <3>1, <2>1, <2>2
            <4> QED
                BY ONLY <4>2, <3>2, <2>1
        <3>9. Sound(SubSeq(st, 1, k), hdr, arrays, slices, home, held \ {n}, own \ {n})
            BY <1>2, <3>7, <3>8, SoundShrink
        <3>10. h = [stack |-> SubSeq(st, 1, k), top |-> k]
            BY ONLY <2>4, <3>8
        <3>11. Len(SubSeq(st, 1, k)) = k
            BY ONLY <3>8, <1>1 DEF Bytes
        <3> QED
            BY ONLY <3>9, <3>10, <3>11
    <2> QED
        BY <2>1, <2>5, <2>6
<1> QED
    BY <1>3, <1>4

\* popScope frees what the body owns, one variable after the other.
LEMMA PopOK ==
    ASSUME IInv, popScope
    PROVE  IInv'
<1>1. Scoped'
    BY DEF IInv, Scoped, popScope, program
<1>2. CASE unchecked = {}
    <2>1. Own' = {} /\ Own = {} /\ Held' \subseteq Held
        BY <1>2 DEF popScope, Own, Held, Live
    <2>2. SoundNow'
        BY <1>2, <2>1, StillSound DEF IInv, popScope
    <2> QED
        BY <1>1, <1>2, <2>2 DEF IInv, Paired, popScope
<1>3. CASE unchecked # {}
    <2>1. PICK n \in unchecked :
            LET h == freeIfHeapTop(HeapIn(Machine), header[n])
            IN  stack' = h.stack /\ heapPtr' = h.top /\ unchecked' = unchecked \ {n}
        BY <1>3 DEF popScope
    <2> DEFINE h == freeIfHeapTop([stack |-> stack, top |-> Len(stack)], header[n])
    <2>2. HeapIn(Machine) = [stack |-> stack, top |-> Len(stack)]
        BY DEF HeapIn, Machine, IInv, Paired
    <2>3. stack' = h.stack /\ heapPtr' = h.top /\ unchecked' = unchecked \ {n}
        BY <2>1, <2>2
    <2>4. /\ phase = "leaving" /\ phase' = "leaving"
          /\ header' = header /\ result' = result /\ go' = go
        BY <1>3 DEF popScope
    <2>5. n \in Own /\ Own' = Own \ {n} /\ Held' \subseteq (Held \ {n})
        BY <2>3, <2>4, <1>1, SliceHeapAssumption DEF Own, Held, Live, IInv, Scoped
    <2>6. PICK home : Sound(stack, header, go.arrays, go.slices, home, Held, Own)
        BY Zenon DEF IInv, SoundNow
    <2> HIDE DEF h
    <2>7. h.top = Len(h.stack) /\ Sound(h.stack, header, go.arrays, go.slices, home, Held \ {n}, Own \ {n})
        BY <2>5, <2>6, PopStep DEF h
    <2>8. Sound(h.stack, header, go.arrays, go.slices, home, Held', Own')
        BY <2>7, <2>5, SoundForget DEF Held
    <2>9. SoundNow'
        BY <2>8, <2>3, <2>4, Zenon DEF SoundNow
    <2> QED
        BY <1>1, <2>3, <2>4, <2>7, <2>9 DEF IInv, Paired
<1> QED
    BY <1>2, <1>3

-----------------------------------------------------------------------------
(* Statements.                                                               *)

\* A Go program stays one.
IsGo(g) == g = GoOf(g.arrays, g.slices, g.result)

LEMMA GoShape ==
    ASSUME NEW a, NEW b, NEW c
    PROVE  IsGo(GoOf(a, b, c))
BY Zenon DEF IsGo, GoOf

\* The operations of statements.
LEMMA Operations ==
    ASSUME NEW s, WellTyped(s)
    PROVE  s.op \in {"assign", "append", "appendAll", "concat", "set", "clear", "copy", "compare", "discard", "swap"}
BY Zenon DEF WellTyped

\* A statement that gives a slice a value, or writes cells, leaves a Go program.
LEMMA ExecutedIsGo ==
    ASSUME NEW arrays, NEW slices, NEW r, NEW s, NEW kept,
           s.op \in {"assign", "append", "appendAll", "concat", "set", "clear", "copy"}
    PROVE  IsGo(GoExecute(GoOf(arrays, slices, r), s, kept))
<1> DEFINE g == GoOf(arrays, slices, r)
<1>1. ASSUME NEW n, NEW v PROVE IsGo(WithGoSlice(g, n, v))
    <2>1. WithGoSlice(g, n, v) = GoOf(v.arrays, [slices EXCEPT ![n] = v.slice], r)
        BY ONLY GoWithSlice
    <2> QED
        BY ONLY <2>1, GoShape
<1>2. ASSUME NEW x PROVE IsGo([g EXCEPT !.arrays = x])
    <2>1. [g EXCEPT !.arrays = x] = GoOf(x, slices, r)
        BY ONLY SMT DEF GoOf
    <2> QED
        BY ONLY <2>1, GoShape
<1>3. ASSUME NEW x, NEW y PROVE IsGo([g EXCEPT !.arrays = x, !.result = y])
    <2>1. [g EXCEPT !.arrays = x, !.result = y] = GoOf(x, slices, y)
        <3>1. ASSUME NEW q, q = [g EXCEPT !.arrays = x, !.result = y] PROVE q = GoOf(x, slices, y)
            BY ONLY <3>1 DEF GoOf
        <3> QED
            BY ONLY <3>1
    <2> QED
        BY ONLY <2>1, GoShape
<1> QED
    BY <1>1, <1>2, <1>3, ZenonT(30) DEF GoExecute

\* So does a statement about two operands.
LEMMA RelatedIsGo ==
    ASSUME NEW arrays, NEW slices, NEW r, NEW s, s.op \in {"compare", "discard", "swap"}
    PROVE  IsGo(GoRelate(GoOf(arrays, slices, r), s))
<1> DEFINE g == GoOf(arrays, slices, r)
<1>1. ASSUME NEW x PROVE IsGo([g EXCEPT !.result = x])
    <2>1. [g EXCEPT !.result = x] = GoOf(arrays, slices, x)
        BY ONLY SMT DEF GoOf
    <2> QED
        BY ONLY <2>1, GoShape
<1>2. ASSUME NEW x, NEW y, NEW u, NEW v
      PROVE  IsGo([g EXCEPT !.slices[x] = u, !.slices[y] = v])
    <2>1. [g EXCEPT !.slices[x] = u, !.slices[y] = v] = GoOf(arrays, [slices EXCEPT ![x] = u, ![y] = v], r)
        <3>1. ASSUME NEW q, q = [g EXCEPT !.slices[x] = u, !.slices[y] = v]
              PROVE  q = GoOf(arrays, [slices EXCEPT ![x] = u, ![y] = v], r)
            BY ONLY <3>1 DEF GoOf
        <3> QED
            BY ONLY <3>1
    <2> QED
        BY ONLY <2>1, GoShape
<1>3. IsGo(g)
    BY ONLY GoShape
<1> QED
    BY <1>1, <1>2, <1>3, ZenonT(30) DEF GoRelate

\* What a statement meets when the program makes none of the mistakes: names that
\* can be read, operands in bounds, and marks on every name of the body whose
\* buffer is going to be shared.
Met(s) ==
    /\ Reads(s) \subseteq Held
    /\ s.op = "set" => s.at < go.slices[s.dst].len
    /\ s.op \in {"appendAll", "concat", "copy"} => InBounds(go.slices, s.src)
    /\ s.op \in {"compare", "discard"} => InBounds(go.slices, s.x) /\ InBounds(go.slices, s.y)
    /\ s.op = "assign" => IF s.rhs.kind = "concat"
                          THEN InBounds(go.slices, s.rhs.x) /\ InBounds(go.slices, s.rhs.y)
                          ELSE InBounds(go.slices, s.rhs)
    /\ s.op = "concat" => /\ ~(IsName(s.src) /\ s.src.name = s.dst)
                          /\ ~(go.slices[s.dst].len < go.slices[s.dst].cap)
    /\ s.op = "appendAll" => s.src.kind # "view" /\ ~Overlaps(go.slices, s.dst, s.src)
    /\ s.op = "swap" => Reads(s) \cap Own = {}
    /\ s.op \in {"append", "appendAll"} => s.dst \notin Own
    /\ Peak(Mach(stack, Len(stack), header, result), s) <= MaxSlots

LEMMA Meets ==
    ASSUME IInv, Miscompiled = {}, NEW s, WellTyped(s), Statement(s)
    PROVE  Met(s)
<1>1. /\ Reads(s) \subseteq Live /\ ~Panics(s) /\ Mistaken(s) = {} /\ markEscaped(s) \subseteq escaped
      /\ Peak(Machine, s) <= MaxSlots
    BY DEF Statement
<1>2. Scoped /\ Own \subseteq Inner \ escaped /\ Live \subseteq Held
    BY OwnIsInner DEF IInv, Held
<1>3. Machine = Mach(stack, Len(stack), header, result)
    BY Zenon DEF IInv, Paired, Machine, Mach
<1>4. s.op \in {"assign", "append", "appendAll", "concat", "set", "clear", "copy", "compare", "discard", "swap"}
    BY Operations
<1>5. /\ s.op = "set" => s.at < go.slices[s.dst].len
      /\ s.op \in {"appendAll", "concat", "copy"} => InBounds(go.slices, s.src)
      /\ s.op \in {"compare", "discard"} => InBounds(go.slices, s.x) /\ InBounds(go.slices, s.y)
      /\ s.op = "assign" => IF s.rhs.kind = "concat"
                            THEN InBounds(go.slices, s.rhs.x) /\ InBounds(go.slices, s.rhs.y)
                            ELSE InBounds(go.slices, s.rhs)
    <2>0. ~Panics(s)
        BY ONLY <1>1
    <2>1. ASSUME s.op = "set" PROVE ~(s.at >= go.slices[s.dst].len)
        BY ONLY <2>1, <2>0, Zenon DEF Panics, IsRelation, HasSource
    <2>2. ASSUME s.op \in {"appendAll", "concat", "copy"} PROVE InBounds(go.slices, s.src)
        BY ONLY <2>2, <2>0, Zenon DEF Panics, IsRelation, HasSource
    <2>3. ASSUME s.op \in {"compare", "discard"} PROVE InBounds(go.slices, s.x) /\ InBounds(go.slices, s.y)
        BY ONLY <2>3, <2>0, Zenon DEF Panics, IsRelation, HasSource
    <2>4. ASSUME s.op = "assign"
          PROVE  IF s.rhs.kind = "concat"
                 THEN InBounds(go.slices, s.rhs.x) /\ InBounds(go.slices, s.rhs.y)
                 ELSE InBounds(go.slices, s.rhs)
        BY ONLY <2>4, <2>0, Zenon DEF Panics, IsRelation, HasSource
    <2>5. ASSUME s.op = "set" PROVE s.at < go.slices[s.dst].len
        <3>1. s.at \in Nat /\ s.dst \in Names \ Strings
            BY <2>5, Zenon DEF WellTyped
        <3>2. s.dst \in Held
            BY ONLY <1>1, <1>2, <2>5 DEF Reads, HasSource
        <3>3. PICK home : Sound(stack, header, go.arrays, go.slices, home, Held, Own)
            BY Zenon DEF IInv, SoundNow
        <3>4. go.slices[s.dst].len \in Nat
            BY ONLY <3>2, <3>3, NameCells DEF Slices
        <3> QED
            BY ONLY <2>1, <2>5, <3>1, <3>4
    <2> QED
        BY ONLY <2>2, <2>3, <2>4, <2>5
<1>6. /\ s.op = "concat" => ~(IsName(s.src) /\ s.src.name = s.dst)
      /\ s.op = "concat" => ~(go.slices[s.dst].len < go.slices[s.dst].cap)
      /\ s.op = "appendAll" => s.src.kind # "view"
      /\ s.op = "appendAll" => ~Overlaps(go.slices, s.dst, s.src)
      /\ s.op = "swap" => {s.x.name, s.y.name} \cap Inner \subseteq escaped
    <2>1. \A mistake \in {"selfConcat", "cutString", "viewSpread", "overlap", "fieldTaken", "swapped"} : mistake \notin Mistaken(s)
        BY <1>1
    <2> QED
        BY ONLY <2>1, Zenon DEF Mistaken
<1>7. s.op = "swap" => Reads(s) \subseteq {s.x.name, s.y.name}
    <2>1. ASSUME s.op = "swap" PROVE Reads(s) = OperandNames(s.x) \cup OperandNames(s.y)
        BY ONLY <2>1, Zenon DEF Reads, HasSource
    <2>2. \A x : OperandNames(x) \subseteq {x.name}
        BY ONLY SMT DEF OperandNames
    <2> QED
        BY ONLY <2>1, <2>2
<1>8. s.op \in {"append", "appendAll"} => Inner \cap Reads(s) \subseteq escaped /\ s.dst \in Reads(s)
    BY ONLY <1>1, Zenon DEF markEscaped, Reads, HasSource
<1> QED
    BY ONLY <1>1, <1>2, <1>3, <1>5, <1>6, <1>7, <1>8 DEF Met

\* An assignment declares its variable; no other statement changes the scope.
LEMMA Declaring ==
    ASSUME IInv, NEW s, WellTyped(s), Statement(s)
    PROVE  /\ Scoped'
           /\ s.op # "assign" => Held' = Held /\ Own' = Own
           /\ s.op = "assign" => /\ Held' = Held \cup {s.dst}
                                 /\ Own' \subseteq Own \cup {s.dst} /\ Own' \subseteq Inner \ escaped
<1>1. /\ phase # "leaving" /\ UNCHANGED <<program, unchecked, phase>>
      /\ IF Declares(s)
         THEN phase = "inside" /\ s.dst \in locals /\ declared' = declared \cup {s.dst}
         ELSE UNCHANGED declared
    BY DEF Statement
<1>2. Scoped /\ escaped' = escaped /\ locals' = locals /\ kind' = kind /\ phase' = phase /\ unchecked' = unchecked
    BY <1>1 DEF IInv, program
<1>3. Scoped'
    BY ONLY <1>1, <1>2 DEF Scoped
<1>4. ASSUME ~Declares(s) PROVE Held' = Held /\ Own' = Own
    BY ONLY <1>1, <1>2, <1>4 DEF Held, Live, Own
<1>5. ASSUME Declares(s) PROVE Held' = Held \cup {s.dst} /\ Own' \subseteq Own \cup {s.dst}
    <2>1. phase = "inside" /\ phase' = "inside" /\ declared' = declared \cup {s.dst}
        BY ONLY <1>1, <1>2, <1>5
    <2>2. Own = declared \ escaped /\ Live = Outer \cup Fields \cup declared
        BY ONLY <2>1 DEF Own, Live
    <2>3. Own' = declared' \ escaped /\ Live' = Outer \cup Fields \cup declared'
        BY ONLY <2>1, <1>2 DEF Own, Live
    <2> QED
        BY ONLY <2>1, <2>2, <2>3 DEF Held
<1>6. ASSUME s.op = "assign", ~Declares(s) PROVE s.dst \in Held
    <2>1. s.dst \in Names
        BY <1>6, Zenon DEF WellTyped
    <2> QED
        BY ONLY <1>6, <2>1 DEF Declares, Names, Held, Live
<1>7. Own' \subseteq Inner \ escaped
    BY <1>3, <1>2 DEF Scoped, Own
<1>8. s.op # "assign" => ~Declares(s)
    BY DEF Declares
<1> QED
    BY ONLY <1>3, <1>4, <1>5, <1>6, <1>7, <1>8

\* A variable that shares its buffer by an assignment is owned neither before nor
\* after it: it is marked, or it is no variable of the body (markEscaped).
LEMMA SharedIsMarked ==
    ASSUME IInv, Miscompiled = {}, NEW s, WellTyped(s), Statement(s), s.op = "assign",
           s.rhs.kind \in {"name", "view", "array", "append"}
    PROVE  s.dst \notin Own' /\ OperandNames(s.rhs) \cap Own = {}
<1>1. markEscaped(s) \subseteq escaped /\ Mistaken(s) = {}
    BY DEF Statement
<1>2. Own \subseteq Inner \ escaped /\ Own' \subseteq Inner \ escaped
    BY OwnIsInner, Declaring DEF IInv
<1>3. ExprNames(s.rhs) = OperandNames(s.rhs)
    BY DEF ExprNames
<1>4. Fields \cap Inner = {}
    BY SliceHeapAssumption
<1>5. CASE s.dst \in Fields
    <2>1. Inner \cap ExprNames(s.rhs) \subseteq escaped
        BY ONLY <1>1, <1>5, s.op = "assign", Zenon DEF markEscaped
    <2> QED
        BY ONLY <1>2, <1>3, <1>4, <1>5, <2>1
<1>6. CASE s.dst \notin Fields /\ sliceExprAliasesBuffer(s.rhs)
    <2>1. Inner \cap (ExprNames(s.rhs) \cup {s.dst}) \subseteq escaped
        BY ONLY <1>1, <1>6, s.op = "assign", Zenon DEF markEscaped
    <2> QED
        BY ONLY <1>2, <1>3, <2>1
<1>7. CASE s.dst \notin Fields /\ ~sliceExprAliasesBuffer(s.rhs)
    <2>1. s.rhs.kind = "name" /\ s.rhs.name \in Fields
        BY <1>7 DEF sliceExprAliasesBuffer, IsName
    <2>2. "fieldTaken" \notin Mistaken(s)
        BY ONLY <1>1
    <2>3. s.dst \notin Inner \ escaped
        BY ONLY <2>1, <2>2, s.op = "assign", Zenon DEF Mistaken, IsName
    <2> QED
        BY ONLY <1>2, <1>4, <2>1, <2>3 DEF OperandNames
<1> QED
    BY ONLY <1>5, <1>6, <1>7

\* The machine and the Go program have become m and g, which agree.
LEMMA Becoming ==
    ASSUME NEW m, NEW g, Becomes(m, g), Agrees(m, g, Held', Own'), IsGo(g),
           m.result = g.result, g.result \in Byte, Scoped'
    PROVE  IInv'
<1>1. stack' = m.stack /\ heapPtr' = m.top /\ header' = m.header /\ result' = m.result /\ go' = g
    BY DEF Becomes
<1>2. m.top = Len(m.stack)
    BY DEF Agrees
<1>3. PICK home : Sound(m.stack, m.header, g.arrays, g.slices, home, Held', Own')
    BY DEF Agrees
<1>4. SoundNow'
    BY ONLY <1>1, <1>3, Zenon DEF SoundNow
<1>5. g = GoOf(g.arrays, g.slices, g.result)
    BY DEF IsGo
<1>6. Paired'
    BY ONLY <1>1, <1>2, <1>5, m.result = g.result, g.result \in Byte DEF Paired
<1> QED
    BY ONLY <1>4, <1>6, Scoped' DEF IInv

\* Comparisons, sums that nobody keeps, and swaps.
LEMMA RelationOK ==
    ASSUME IInv, Miscompiled = {}, NEW s, WellTyped(s), Statement(s), IsRelation(s)
    PROVE  IInv'
<1> DEFINE M == Mach(stack, Len(stack), header, result)
           G == GoOf(go.arrays, go.slices, go.result)
           m == Relate(M, s)
           g == GoRelate(G, s)
<1>1. Machine = M /\ go = G
    BY Zenon DEF IInv, Paired, Machine, Mach
<1>2. Becomes(m, g)
    BY <1>1 DEF Statement
<1>3. Scoped' /\ Held' = Held /\ Own' = Own /\ s.op \in {"compare", "discard", "swap"}
    BY Declaring DEF IsRelation
<1>4. IsGo(g)
    BY <1>3, RelatedIsGo
<1>5. Met(s)
    BY Meets
<1>6. PICK home : Sound(stack, header, go.arrays, go.slices, home, Held, Own)
    BY Zenon DEF IInv, SoundNow
<1>7. Len(m.stack) <= MaxSlots
    BY <1>2 DEF Becomes
<1>8. Reads(s) \subseteq Held /\ Peak(M, s) <= MaxSlots
    BY ONLY <1>5 DEF Met
<1>9. result = go.result /\ result \in Byte
    BY DEF IInv, Paired
<1> HIDE DEF m, g
<1>10. Agrees(m, g, Held, Own) /\ m.result = g.result /\ g.result \in Byte
    <2>1. CASE s.op = "compare"
        <3>1. InBounds(go.slices, s.x) /\ InBounds(go.slices, s.y)
            BY ONLY <1>5, <2>1 DEF Met
        <3> QED
            BY ONLY <1>6, <1>7, <1>8, <2>1, <3>1, WellTyped(s), CompareStep DEF m, g
    <2>2. CASE s.op = "discard"
        <3>1. InBounds(go.slices, s.x) /\ InBounds(go.slices, s.y)
            BY ONLY <1>5, <2>2 DEF Met
        <3>2. Agrees(m, g, Held, Own) /\ m.result = result /\ g.result = go.result
            BY ONLY <1>6, <1>8, <2>2, <3>1, WellTyped(s), DiscardStep DEF m, g
        <3> QED
            BY ONLY <3>2, <1>9
    <2>3. CASE s.op = "swap"
        <3>1. Reads(s) \cap Own = {}
            BY ONLY <1>5, <2>3 DEF Met
        <3>2. Agrees(m, g, Held, Own) /\ m.result = result /\ g.result = go.result
            BY ONLY <1>6, <1>8, <2>3, <3>1, WellTyped(s), SwapStep DEF m, g
        <3> QED
            BY ONLY <3>2, <1>9
    <2> QED
        BY ONLY <1>3, <2>1, <2>2, <2>3
<1> QED
    BY <1>2, <1>3, <1>4, <1>10, Becoming

\* Assignments: a value of its own is the body's to free, a shared one is not.
LEMMA AssignmentOK ==
    ASSUME IInv, Miscompiled = {}, NEW s, WellTyped(s), Statement(s), s.op = "assign"
    PROVE  IInv'
<1> DEFINE M == Mach(stack, Len(stack), header, result)
           G == GoOf(go.arrays, go.slices, go.result)
           m == Execute(M, s)
           d == s.dst
           e == s.rhs
           v == lowerSliceExpr(M, e)
           hd == IF e.kind = "append" THEN header[e.name] ELSE header[d]
           g == GoExecute(G, s, m.header[d].ptr = hd.ptr)
<1>1. Machine = M /\ go = G
    BY Zenon DEF IInv, Paired, Machine, Mach
<1>2. Becomes(m, g)
    <2>1. ~IsRelation(s)
        BY DEF IsRelation
    <2>2. Becomes(Execute(Machine, s), GoExecute(go, s, Execute(Machine, s).header[s.dst].ptr =
                     (IF s.op = "assign" /\ s.rhs.kind = "append" THEN header[s.rhs.name]
                      ELSE header[s.dst]).ptr))
        BY ONLY <2>1, Statement(s), Zenon DEF Statement
    <2>3. hd = IF s.op = "assign" /\ s.rhs.kind = "append" THEN header[s.rhs.name] ELSE header[s.dst]
        BY ONLY s.op = "assign"
    <2> HIDE DEF hd
    <2>4. Becomes(Execute(Machine, s), GoExecute(go, s, Execute(Machine, s).header[s.dst].ptr = hd.ptr))
        BY ONLY <2>2, <2>3, Zenon
    <2> QED
        BY ONLY <2>4, <1>1, Zenon
<1>3. /\ Scoped' /\ Held' = Held \cup {d} /\ Own' \subseteq Own \cup {d}
    BY Declaring
<1>4. IsGo(g)
    <2> DEFINE kept == m.header[d].ptr = hd.ptr
    <2> HIDE DEF kept
    <2>1. IsGo(GoExecute(G, s, kept))
        BY ONLY s.op = "assign", ExecutedIsGo
    <2> QED
        BY ONLY <2>1, Zenon DEF kept
<1>5. Met(s)
    BY Meets
<1>6. PICK home : Sound(stack, header, go.arrays, go.slices, home, Held, Own)
    BY Zenon DEF IInv, SoundNow
<1>7. Len(v.stack) <= MaxSlots
    <2>1. m = WithSlice(M, d, v)
        BY ONLY s.op = "assign", Zenon DEF Execute
    <2> HIDE DEF m, v
    <2>2. m.stack = v.stack
        BY ONLY <2>1, GivenStack
    <2>3. Len(m.stack) <= MaxSlots
        BY <1>2 DEF Becomes, m
    <2> QED
        BY ONLY <2>2, <2>3
<1>8. Assigns(stack, header, go.arrays, go.slices, home, Held, Own, Own', result, go.result, d, e, v)
    <2>1. d \in Names /\ (IF d \in Strings THEN IsStringFor(e) ELSE IsSliceFor(e, d))
        BY ONLY WellTyped(s), s.op = "assign", Zenon DEF WellTyped
    <2>2. ExprNames(e) \subseteq Held
        BY ONLY <1>5, s.op = "assign", Zenon DEF Met, Reads, HasSource
    <2>3. IF e.kind = "concat" THEN InBounds(go.slices, e.x) /\ InBounds(go.slices, e.y) ELSE InBounds(go.slices, e)
        BY ONLY <1>5, s.op = "assign" DEF Met
    <2>4. e.kind \in {"name", "view", "array", "append"} => d \notin Own' /\ OperandNames(e) \cap Own = {}
        BY SharedIsMarked
    <2> HIDE DEF v, d, e
    <2>5. v = lowerSliceExpr(M, e)
        BY DEF v
    <2> QED
        BY ONLY <1>6, <1>3, <1>7, <2>1, <2>2, <2>3, <2>4, <2>5, Zenon DEF Assigns
<1>9. result = go.result /\ result \in Byte
    BY DEF IInv, Paired
<1>10. e.kind = "append" => hd = header[e.name]
    OBVIOUS
<1> HIDE DEF m, g, v, d, e, hd
<1>11. e = s.rhs
    BY DEF e
<1>12. Moves(stack, header, go.arrays, go.slices, result, go.result, s, d, hd, m, g)
    BY ONLY Zenon DEF Moves, d, m, g
<1>13. Assigning(stack, header, go.arrays, go.slices, home, Held, Own, Own', result, go.result, s, d, e, v, hd, m, g)
    BY ONLY <1>8, <1>10, <1>11, <1>12, s.op = "assign", Zenon DEF Assigning
<1>14. Agrees(m, g, Held \cup {d}, Own') /\ m.result = result /\ g.result = go.result
    BY ONLY <1>13, AssignStep
<1> QED
    BY <1>2, <1>3, <1>4, <1>9, <1>14, Becoming

\* Statements that change a slice or a string in place, or through append.
LEMMA ExecutionOK ==
    ASSUME IInv, Miscompiled = {}, NEW s, WellTyped(s), Statement(s), ~IsRelation(s), s.op # "assign"
    PROVE  IInv'
<1> DEFINE M == Mach(stack, Len(stack), header, result)
           G == GoOf(go.arrays, go.slices, go.result)
           m == Execute(M, s)
           d == s.dst
           kept == (m.header[d].ptr = header[d].ptr)
           g == GoExecute(G, s, kept)
<1>1. Machine = M /\ go = G
    BY Zenon DEF IInv, Paired, Machine, Mach
<1>2. Becomes(m, g)
    <2>1. Becomes(Execute(Machine, s), GoExecute(go, s, Execute(Machine, s).header[s.dst].ptr =
                     (IF s.op = "assign" /\ s.rhs.kind = "append" THEN header[s.rhs.name]
                      ELSE header[s.dst]).ptr))
        BY ONLY ~IsRelation(s), Statement(s), Zenon DEF Statement
    <2> DEFINE hd == IF s.op = "assign" /\ s.rhs.kind = "append" THEN header[s.rhs.name] ELSE header[s.dst]
    <2>2. hd = header[s.dst]
        BY ONLY s.op # "assign"
    <2>3. Becomes(Execute(Machine, s), GoExecute(go, s, Execute(Machine, s).header[s.dst].ptr = hd.ptr))
        BY ONLY <2>1, Zenon
    <2> HIDE DEF hd
    <2>4. Becomes(Execute(Machine, s), GoExecute(go, s, Execute(Machine, s).header[s.dst].ptr = header[s.dst].ptr))
        BY ONLY <2>2, <2>3, Zenon
    <2> QED
        BY ONLY <2>4, <1>1, Zenon
<1>3. /\ Scoped' /\ Held' = Held /\ Own' = Own
      /\ s.op \in {"append", "appendAll", "concat", "set", "clear", "copy"}
    BY Declaring, Operations DEF IsRelation
<1>4. IsGo(g)
    <2> HIDE DEF kept
    <2> QED
        BY ONLY <1>3, ExecutedIsGo
<1>5. Met(s)
    BY Meets
<1>6. PICK home : Sound(stack, header, go.arrays, go.slices, home, Held, Own)
    BY Zenon DEF IInv, SoundNow
<1>7. Len(m.stack) <= MaxSlots
    BY <1>2 DEF Becomes
<1>8. d \in Held /\ Peak(M, s) <= MaxSlots
    <2>1. d \in Reads(s)
        BY ONLY <1>3, Zenon DEF Reads, HasSource
    <2> QED
        BY ONLY <1>5, <2>1 DEF Met
<1>9. result = go.result /\ result \in Byte
    BY DEF IInv, Paired
<1>10. s.op \in {"appendAll", "concat", "copy"} => OperandNames(s.src) \subseteq Held /\ InBounds(go.slices, s.src)
    <2>1. s.op \in {"appendAll", "concat", "copy"} => OperandNames(s.src) \subseteq Reads(s)
        BY ONLY Zenon DEF Reads, HasSource
    <2> QED
        BY ONLY <1>5, <2>1 DEF Met
<1>11. ASSUME Agrees(m, g, Held, Own), m.result = result, g.result = go.result PROVE IInv'
    <2> HIDE DEF m, g
    <2> QED
        BY ONLY <1>2, <1>3, <1>4, <1>9, <1>11, Becoming
<1>12. CASE s.op = "set"
    <2>1. s.at < go.slices[s.dst].len
        BY ONLY <1>5, <1>12 DEF Met
    <2> HIDE DEF kept
    <2>2. Agrees(m, g, Held, Own) /\ m.result = result /\ g.result = go.result
        BY ONLY <1>6, <1>8, <1>12, <2>1, WellTyped(s), SetStep
    <2> QED
        BY ONLY <1>11, <2>2
<1>13. CASE s.op = "clear"
    <2> HIDE DEF kept
    <2>1. Agrees(m, g, Held, Own) /\ m.result = result /\ g.result = go.result
        BY ONLY <1>6, <1>8, <1>13, WellTyped(s), ClearStep
    <2> QED
        BY ONLY <1>11, <2>1
<1>14. CASE s.op = "copy"
    <2>1. Len(stack) + Width(s.src) <= MaxSlots
        <3>1. IsOperand(s.src, Size[d])
            BY ONLY <1>14, WellTyped(s) DEF WellTyped
        <3>2. Len(resolveStringSlice(M, s.src).stack) <= MaxSlots
            BY ONLY <1>8, <1>14, Zenon DEF Peak
        <3>3. stack \in Bytes /\ Len(stack) \in Nat
            BY ONLY <1>6 DEF Sound, Typed, Bytes
        <3>4. Len(resolveStringSlice(M, s.src).stack) = Len(stack) + Width(s.src)
            BY ONLY <3>1, <3>3, OperandWidth
        <3> QED
            BY ONLY <3>2, <3>4
    <2> HIDE DEF kept
    <2>2. Agrees(m, g, Held, Own) /\ m.result = g.result /\ g.result \in Byte
        BY ONLY <1>6, <1>8, <1>10, <1>14, <2>1, WellTyped(s), CopyStep
    <2> HIDE DEF m, g
    <2> QED
        BY ONLY <1>2, <1>3, <1>4, <2>2, Becoming
<1>15. CASE s.op = "appendAll"
    <2>1. s.src.kind # "view" /\ ~Overlaps(go.slices, d, s.src) /\ d \notin Own
        BY ONLY <1>5, <1>15 DEF Met
    <2>2. Own \subseteq Own \ {d}
        BY ONLY <2>1
    <2> HIDE DEF kept, m, g, d
    <2>3. AppendsAll(stack, header, go.arrays, go.slices, home, Held, Own, Own, result, go.result, s, d, kept, m, g)
        BY ONLY <1>6, <1>8, <1>10, <1>15, <2>1, <2>2, WellTyped(s), Zenon DEF AppendsAll, d, m, g
    <2>4. Agrees(m, g, Held, Own) /\ m.result = result /\ g.result = go.result
        BY ONLY <2>3, AppendAllStep
    <2> QED
        BY ONLY <1>11, <2>4
<1>16. CASE s.op = "concat"
    <2>1. ~(IsName(s.src) /\ s.src.name = d) /\ ~(go.slices[d].len < go.slices[d].cap)
        BY ONLY <1>5, <1>16 DEF Met
    <2>2. header[d].len = header[d].cap
        <3>1. /\ header[d].len = go.slices[d].len /\ header[d].cap = go.slices[d].cap
              /\ header[d].len <= header[d].cap /\ header[d].len \in Nat /\ header[d].cap \in Nat
            BY ONLY <1>6, <1>8, NameNumbers
        <3> QED
            BY ONLY <2>1, <3>1
    <2> HIDE DEF kept
    <2>3. Agrees(m, g, Held, Own) /\ m.result = result /\ g.result = go.result
        BY ONLY <1>6, <1>7, <1>8, <1>10, <1>16, <2>1, <2>2, WellTyped(s), ConcatStep
    <2> QED
        BY ONLY <1>11, <2>3
<1>17. CASE s.op = "append"
    <2>1. Own \subseteq Own \ {d}
        BY ONLY <1>5, <1>17 DEF Met
    <2>2. Moves(stack, header, go.arrays, go.slices, result, go.result, s, d, header[d], m, g)
        BY ONLY Zenon DEF Moves
    <2> HIDE DEF m, g, d
    <2>3. AppendsOne(stack, header, go.arrays, go.slices, home, Held, Own, Own, result, go.result, s, d, m, g)
        BY ONLY <1>6, <1>7, <1>8, <1>17, <2>1, <2>2, WellTyped(s), Zenon DEF AppendsOne
    <2>4. Agrees(m, g, Held, Own) /\ m.result = result /\ g.result = go.result
        BY ONLY <2>3, AppendStep
    <2> QED
        BY ONLY <1>11, <2>4
<1> QED
    BY ONLY <1>3, <1>12, <1>13, <1>14, <1>15, <1>16, <1>17

-----------------------------------------------------------------------------
(* The invariant, and what follows from it.                                  *)

\* Every step keeps the invariant.
LEMMA NextOK == ASSUME Miscompiled = {}, IInv, [Next]_vars PROVE IInv'
<1>1. CASE EnterBody
    BY <1>1, EnterOK
<1>2. CASE LeaveBody
    BY <1>2, LeaveOK
<1>3. CASE popScope
    BY <1>3, PopOK
<1>4. ASSUME NEW s \in Statements[kind], Statement(s) PROVE IInv'
    <2>1. WellTyped(s)
        BY ONLY IInv, StatementsAssumption DEF IInv, Scoped
    <2>2. CASE IsRelation(s)
        BY <1>4, <2>1, <2>2, RelationOK
    <2>3. CASE s.op = "assign"
        BY <1>4, <2>1, <2>3, AssignmentOK
    <2>4. CASE ~IsRelation(s) /\ s.op # "assign"
        BY <1>4, <2>1, <2>4, ExecutionOK
    <2> QED
        BY ONLY <2>2, <2>3, <2>4
<1>5. CASE UNCHANGED vars
    <2>1. /\ stack' = stack /\ heapPtr' = heapPtr /\ header' = header /\ result' = result /\ kind' = kind
          /\ escaped' = escaped /\ locals' = locals /\ declared' = declared /\ unchecked' = unchecked
          /\ phase' = phase /\ go' = go
        BY <1>5 DEF vars, program, scope
    <2>2. Own' = Own /\ Held' = Held
        BY ONLY <2>1 DEF Own, Held, Live
    <2>3. SoundNow'
        BY ONLY <2>1, <2>2, IInv, Zenon DEF IInv, SoundNow
    <2> QED
        BY ONLY <2>1, <2>3, IInv DEF IInv, Scoped, Paired
<1> QED
    BY ONLY [Next]_vars, <1>1, <1>2, <1>3, <1>4, <1>5 DEF Next

\* Types and bounds of the state.
LEMMA TypeFollows == IInv => TypeOK
<1> SUFFICES ASSUME IInv PROVE TypeOK
    OBVIOUS
<1>1. PICK home : Sound(stack, header, go.arrays, go.slices, home, Held, Own)
    BY Zenon DEF IInv, SoundNow
<1>2. /\ stack \in Bytes /\ HeapStart <= Len(stack) /\ Len(stack) <= MaxSlots /\ header \in [Names -> Header]
    BY ONLY <1>1 DEF Sound, Typed
<1>3. Scoped /\ heapPtr = Len(stack) /\ result \in Byte
    BY DEF IInv, Paired
<1>4. Len(stack) \in HeapStart .. MaxSlots /\ Len(stack) \in Byte
    <2>1. Len(stack) \in Nat
        BY ONLY <1>2 DEF Bytes
    <2> QED
        BY ONLY <1>2, <2>1, ByteRange, SliceHeapAssumption
<1> QED
    BY ONLY <1>2, <1>3, <1>4 DEF TypeOK, Scoped, Bytes

\* The cells of a name that is held.
LEMMA NameContents ==
    ASSUME NEW st, NEW hdr, NEW arrays, NEW slices, NEW home, NEW held, NEW own,
           Sound(st, hdr, arrays, slices, home, held, own), NEW n \in held
    PROVE  /\ hdr[n].len = slices[n].len /\ hdr[n].cap = slices[n].cap
           /\ Cells(st, hdr[n].ptr, hdr[n].len * Size[n])
                = SubSeq(arrays[slices[n].arr], slices[n].off + 1, slices[n].off + slices[n].len * Size[n])
<1> DEFINE c == SubSeq(arrays[slices[n].arr], slices[n].off + 1, slices[n].off + slices[n].len * Size[n])
<1>1. /\ hdr[n].len = slices[n].len /\ hdr[n].cap = slices[n].cap /\ hdr[n].ptr \in Nat
      /\ c \in Bytes /\ Len(c) = hdr[n].len * Size[n] /\ Lies(st, hdr[n].ptr, c)
    BY ONLY Sound(st, hdr, arrays, slices, home, held, own), n \in held, NameNumbers
<1>2. st \in Bytes
    BY ONLY Sound(st, hdr, arrays, slices, home, held, own) DEF Sound, Typed
<1> HIDE DEF c
<1>3. Cells(st, hdr[n].ptr, Len(c)) = c
    BY ONLY <1>1, <1>2, CellsLie
<1> QED
    BY ONLY <1>1, <1>3 DEF c

\* A name that can be read has the cells that its slice has in Go.
LEMMA ContentsFollow == IInv => SameContents
<1> SUFFICES ASSUME IInv PROVE SameContents
    OBVIOUS
<1>1. PICK home : Sound(stack, header, go.arrays, go.slices, home, Held, Own)
    BY Zenon DEF IInv, SoundNow
<1>2. ASSUME NEW n \in Live
      PROVE  /\ header[n].len = go.slices[n].len /\ header[n].cap = go.slices[n].cap
             /\ Cells(stack, header[n].ptr, header[n].len * Size[n]) = GoCells(go, n)
    <2>1. n \in Held
        BY ONLY <1>2 DEF Held
    <2> QED
        BY ONLY <1>1, <2>1, NameContents DEF GoCells
<1> QED
    BY ONLY <1>2 DEF SameContents

\* The slots of a name are among those of the home of its array.
LEMMA ExtentAtHome ==
    ASSUME NEW st, NEW hdr, NEW arrays, NEW slices, NEW home, NEW held, NEW own,
           Sound(st, hdr, arrays, slices, home, held, own), NEW n \in held, hdr[n].cap > 0
    PROVE  LET room == hdr[n].cap * Size[n]
               a == slices[n].arr
           IN  /\ a \in Used(slices, held) /\ home[a] \in Nat /\ Len(arrays[a]) \in Nat
               /\ hdr[n].ptr \in Nat /\ room \in Nat /\ room > 0 /\ hdr[n].ptr + room <= Len(st)
               /\ slices[n].off \in Nat /\ hdr[n].ptr = home[a] + slices[n].off
               /\ hdr[n].ptr + room <= home[a] + Len(arrays[a])
<1> DEFINE room == hdr[n].cap * Size[n]
           a == slices[n].arr
           off == slices[n].off
           cap == hdr[n].cap
           ptr == hdr[n].ptr
           base == home[a]
           len == Len(arrays[a])
<1>1. /\ cap \in Nat /\ ptr \in Nat /\ off \in Nat /\ room \in Nat
      /\ off + room <= len
      /\ cap > 0 => ptr + room <= Len(st) /\ ptr = base + off
    BY ONLY Sound(st, hdr, arrays, slices, home, held, own), n \in held, NameNumbers
<1>2. a \in Used(slices, held) /\ Size[n] \in Nat \ {0}
    BY ONLY Sound(st, hdr, arrays, slices, home, held, own), n \in held, NameCells
<1>3. base \in Nat /\ len \in Nat
    BY ONLY Sound(st, hdr, arrays, slices, home, held, own), <1>2, HeldArray
<1>4. cap <= room
    BY ONLY <1>1, <1>2, Times
<1>5. cap > 0
    BY ONLY hdr[n].cap > 0
<1>6. room > 0 /\ ptr + room <= Len(st) /\ ptr = base + off /\ ptr + room <= base + len
    <2>1. ptr + room <= Len(st) /\ ptr = base + off
        BY ONLY <1>1, <1>5
    <2> HIDE DEF room, a, off, cap, ptr, base, len
    <2> QED
        BY ONLY <1>1, <1>3, <1>4, <1>5, <2>1
<1> HIDE DEF room, a, off, cap, ptr, base, len
<1>7. /\ a \in Used(slices, held) /\ base \in Nat /\ len \in Nat
      /\ ptr \in Nat /\ room \in Nat /\ room > 0 /\ ptr + room <= Len(st)
      /\ off \in Nat /\ ptr = base + off /\ ptr + room <= base + len
    BY ONLY <1>1, <1>2, <1>3, <1>6
<1> QED
    BY ONLY <1>7, Zenon DEF room, a, off, ptr, base, len

\* Two stretches of slots in homes that are apart have none in common.
LEMMA StretchesApart ==
    ASSUME NEW p \in Nat, NEW n \in Nat, NEW q \in Nat, NEW k \in Nat, n > 0, k > 0,
           NEW base \in Nat, NEW len \in Nat, base <= p, p + n <= base + len,
           NEW base2 \in Nat, NEW len2 \in Nat, base2 <= q, q + k <= base2 + len2,
           Apart(base, len, base2, len2)
    PROVE  (p .. (p + n - 1)) \cap (q .. (q + k - 1)) = {}
BY DEF Apart

\* Names of one array lie as far apart as their slices, names of two share no slot.
LEMMA HomesFollow == IInv => OneHomePerArray
<1> SUFFICES ASSUME IInv PROVE OneHomePerArray
    OBVIOUS
<1> DEFINE Extent(n) == header[n].ptr .. (header[n].ptr + header[n].cap * Size[n] - 1)
           Arr(n) == go.slices[n].arr
<1>1. PICK home : Sound(stack, header, go.arrays, go.slices, home, Held, Own)
    BY Zenon DEF IInv, SoundNow
<1>2. heapPtr = Len(stack)
    BY DEF IInv, Paired
<1>3. ASSUME NEW m \in Live, header[m].cap > 0, NEW n \in Live, header[n].cap > 0
      PROVE  /\ Extent(n) \subseteq 0 .. (heapPtr - 1)
             /\ {m, n} \subseteq Strings
                \/ IF Arr(m) = Arr(n)
                   THEN header[m].ptr - header[n].ptr = go.slices[m].off - go.slices[n].off
                   ELSE Extent(m) \cap Extent(n) = {}
    <2> DEFINE a == Arr(m)
               b == Arr(n)
               base == home[a]
               base2 == home[b]
               len == Len(go.arrays[a])
               len2 == Len(go.arrays[b])
               p == header[m].ptr
               q == header[n].ptr
               off == go.slices[m].off
               off2 == go.slices[n].off
               room == header[m].cap * Size[m]
               room2 == header[n].cap * Size[n]
    <2>1. m \in Held /\ n \in Held
        BY ONLY <1>3 DEF Held
    <2>2. /\ a \in Used(go.slices, Held) /\ base \in Nat /\ len \in Nat
          /\ p \in Nat /\ room \in Nat /\ room > 0
          /\ off \in Nat /\ p = base + off /\ p + room <= base + len
        BY ONLY <1>1, <1>3, <2>1, ExtentAtHome, SMTT(30)
    <2>3. /\ b \in Used(go.slices, Held) /\ base2 \in Nat /\ len2 \in Nat
          /\ q \in Nat /\ room2 \in Nat /\ room2 > 0 /\ q + room2 <= Len(stack)
          /\ off2 \in Nat /\ q = base2 + off2 /\ q + room2 <= base2 + len2
        BY ONLY <1>1, <1>3, <2>1, ExtentAtHome
    <2>4. ASSUME a # b, ~({m, n} \subseteq Strings) PROVE Apart(base, len, base2, len2)
        <3>1. HomesApart(go.arrays, home, a, b) \/ {a, b} \subseteq Texts(go.slices, Held)
            BY ONLY <1>1, <2>2, <2>3, <2>4 DEF Sound, Separate
        <3>2. {a, b} \subseteq Texts(go.slices, Held) => {m, n} \subseteq Strings
            BY ONLY <1>1, <2>1, TextUse DEF Sound
        <3> QED
            BY ONLY <2>4, <3>1, <3>2 DEF HomesApart
    <2>5. Extent(m) = p .. (p + room - 1) /\ Extent(n) = q .. (q + room2 - 1)
        OBVIOUS
    <2>6. a = b => base = base2
        OBVIOUS
    <2>7. heapPtr \in Nat /\ q + room2 <= heapPtr
        <3>1. Len(stack) \in Nat
            BY ONLY <1>1 DEF Sound, Typed, Bytes
        <3> QED
            BY ONLY <1>2, <2>3, <3>1
    <2> HIDE DEF a, b, base, base2, len, len2, p, q, off, off2, room, room2, Extent
    <2>8. Extent(n) \subseteq 0 .. (heapPtr - 1)
        BY ONLY <2>3, <2>5, <2>7
    <2>9. a = b => p - q = off - off2
        BY ONLY <2>2, <2>3, <2>6
    <2>10. ASSUME a # b, ~({m, n} \subseteq Strings) PROVE Extent(m) \cap Extent(n) = {}
        <3>1. base <= p /\ base2 <= q
            BY ONLY <2>2, <2>3
        <3>2. Apart(base, len, base2, len2)
            BY ONLY <2>4, <2>10
        <3> QED
            BY ONLY <2>2, <2>3, <2>5, <3>1, <3>2, StretchesApart
    <2> QED
        BY ONLY <2>8, <2>9, <2>10, Zenon DEF a, b, p, q, off, off2
<1> QED
    BY ONLY <1>3 DEF OneHomePerArray

\* The invariant holds in every state of a program that makes none of the mistakes.
THEOREM Invariance == ASSUME Miscompiled = {} PROVE Spec => []IInv
<1>1. IInv /\ [Next]_vars => IInv'
    BY NextOK
<1> QED
    BY <1>1, InitOK, PTL DEF Spec

\* The slots and the header cells are bytes, the stack stays within its bounds, and
\* what popScope has yet to check are unmarked variables of the body.
THEOREM TypeCorrect == ASSUME Miscompiled = {} PROVE Spec => []TypeOK
BY Invariance, TypeFollows, PTL

\* heapPtr is the number of allocated slots after every statement: what is pushed
\* on the stack and what is added to the cell are the same (pushHeapRegion,
\* freeIfHeapTop), no matter what was freed in between.
THEOREM HeapTopAlways == ASSUME Miscompiled = {} PROVE Spec => []HeapTop
<1>1. IInv => HeapTop
    BY DEF IInv, Paired, HeapTop
<1> QED
    BY <1>1, Invariance, PTL

\* A slice or string that can be read has the length, the capacity and the elements
\* it has in Go: no statement writes over it or frees it under another name's hands
\* (lowerSliceAppend, lowerSliceAppendSpread, emitCopy, popScope).
THEOREM SameContentsAlways == ASSUME Miscompiled = {} PROVE Spec => []SameContents
BY Invariance, ContentsFollow, PTL

\* Comparisons of strings and the count that copy returns are what they are in Go
\* (lowerSliceCompare, lowerSliceLexCompare, emitCopy).
THEOREM SameResultAlways == ASSUME Miscompiled = {} PROVE Spec => []SameResult
<1>1. IInv => SameResult
    BY DEF IInv, Paired, SameResult
<1> QED
    BY <1>1, Invariance, PTL

\* Slices share slots on the heap exactly as they share an array in Go, and every
\* buffer that can be reached is below heapPtr (markEscaped, popScope).
THEOREM OneHomePerArrayAlways == ASSUME Miscompiled = {} PROVE Spec => []OneHomePerArray
BY Invariance, HomesFollow, PTL
=============================================================================
