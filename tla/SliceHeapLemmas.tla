-------------------------- MODULE SliceHeapLemmas --------------------------
(***************************************************************************)
(* What the statements on slices and strings do to the heap, one state at  *)
(* a time: where each Go array lies, which names may share one, and which  *)
(* names own theirs alone, so that popScope may give it back.  Then what   *)
(* the statements are made of: cells stored and copied, temporaries,       *)
(* views, element writes and copies, and buffers that grow, where they lie *)
(* or in a new place.                                                      *)
(***************************************************************************)
EXTENDS SliceHeap, SequenceTheorems, TLAPS

Bytes == Seq(Byte)
Slices == [arr : Nat, off : Nat, len : Nat, cap : Nat]

\* The names a statement may meet, and those whose buffer popScope may free: the
\* unescaped names of the body.
Own ==
    CASE phase = "inside"  -> declared \ escaped
      [] phase = "leaving" -> unchecked
      [] OTHER             -> {}
Held == Live \cup Own

\* Cells are the slots from base on.
Lies(st, base, cells) ==
    /\ Len(cells) > 0 => base + Len(cells) <= Len(st)
    /\ \A i \in 1 .. Len(cells) : st[base + i] = cells[i]

IsNil(hd, sl) == hd = NilHeader /\ sl = GoNil

\* A header is where its slice is: the offset away from the home of its array.
Shows(hd, sl, size, arrays, home) ==
    \/ IsNil(hd, sl)
    \/ /\ sl.arr \in 1 .. Len(arrays) /\ sl.len <= sl.cap
       /\ sl.off + sl.cap * size <= Len(arrays[sl.arr])
       /\ hd.ptr = home[sl.arr] + sl.off /\ hd.len = sl.len /\ hd.cap = sl.cap

\* The arrays that may be read: the array variable, and those of the names held.
Used(slices, held) == {1} \cup {slices[n].arr : n \in held}
Texts(slices, held) == {slices[n].arr : n \in held \cap Strings} \ {1}

\* Two homes share no slot.
Apart(base, n, base2, n2) == n = 0 \/ n2 = 0 \/ base + n <= base2 \/ base2 + n2 <= base
HomesApart(arrays, home, a, b) == Apart(home[a], Len(arrays[a]), home[b], Len(arrays[b]))

Typed(st, hdr, arrays, slices, home, held, own) ==
    /\ st \in Bytes /\ HeapStart <= Len(st) /\ Len(st) <= MaxSlots
    /\ hdr \in [Names -> Header] /\ slices \in [Names -> Slices]
    /\ arrays \in Seq(Bytes) /\ home \in [1 .. Len(arrays) -> Byte]
    /\ Len(arrays) > 0 /\ home[1] = ArrayBase /\ Len(Array) <= Len(arrays[1])
    /\ own \subseteq held /\ held \subseteq Names

\* Every array in use is on the heap; the array variable is in the static slots.
Housed(st, arrays, slices, home, held) ==
    \A a \in Used(slices, held) :
        a \in 1 .. Len(arrays) /\ Lies(st, home[a], arrays[a]) /\ (a # 1 => HeapStart <= home[a])

Readable(hdr, arrays, slices, home, held) ==
    \A n \in held : Shows(hdr[n], slices[n], Size[n], arrays, home)

\* Strings and slices never share an array, but for the empty one of the start.
TextsApart(hdr, slices, held) ==
    \A n \in held \cap Strings :
        \/ IsNil(hdr[n], slices[n])
        \/ slices[n].arr # 1 /\ \A m \in held \ Strings : slices[m].arr # slices[n].arr

\* Two arrays share no slot unless both are strings.
Separate(arrays, slices, home, held) ==
    \A a, b \in Used(slices, held) :
        a # b => HomesApart(arrays, home, a, b) \/ {a, b} \subseteq Texts(slices, held)

\* An array is used by no other name, and shares no slot with one that is.
Exclusive(n, arrays, slices, home, held) ==
    /\ slices[n].arr # 1 /\ \A m \in held \ {n} : slices[m].arr # slices[n].arr
    /\ \A a \in Used(slices, held) \ {slices[n].arr} : HomesApart(arrays, home, a, slices[n].arr)
Owned(hdr, arrays, slices, home, held, own) ==
    \A n \in own : IsNil(hdr[n], slices[n]) \/ Exclusive(n, arrays, slices, home, held)

\* The heap holds what the Go program holds.
Sound(st, hdr, arrays, slices, home, held, own) ==
    /\ Typed(st, hdr, arrays, slices, home, held, own)
    /\ Housed(st, arrays, slices, home, held)
    /\ Readable(hdr, arrays, slices, home, held)
    /\ TextsApart(hdr, slices, held)
    /\ Separate(arrays, slices, home, held)
    /\ Owned(hdr, arrays, slices, home, held, own)

-----------------------------------------------------------------------------
(* Numbers and sequences.                                                    *)

\* A byte is not changed by wrapping it.
LEMMA WrapSmall ==
    ASSUME NEW v \in Nat, v < Mod
    PROVE  Wrap(v) = v /\ v \in Byte
BY SliceHeapAssumption DEF Wrap, Byte

\* A byte is a natural number less than Mod.
LEMMA ByteRange == \A v : v \in Byte <=> v \in Nat /\ v < Mod
BY SliceHeapAssumption DEF Byte

\* Elements take at least as many cells as there are elements.
LEMMA Times ==
    ASSUME NEW a \in Nat, NEW size \in Nat \ {0}
    PROVE  a * size \in Nat /\ a <= a * size
OBVIOUS

\* More elements take more cells.
LEMMA TimesMonotone ==
    ASSUME NEW a \in Nat, NEW b \in Nat, a <= b, NEW size \in Nat \ {0}
    PROVE  a * size <= b * size
OBVIOUS

\* The sizes of the names.
LEMMA Sizes ==
    /\ \A n \in Names : Size[n] \in Nat \ {0}
    /\ \A n \in Names \cap Strings : Size[n] = 1
BY SliceHeapAssumption

\* Zeros is a sequence of bytes.
LEMMA ZerosSeq ==
    ASSUME NEW n \in Nat
    PROVE  Zeros(n) \in Bytes /\ Len(Zeros(n)) = n /\ \A i \in 1 .. n : Zeros(n)[i] = 0
BY SliceHeapAssumption DEF Zeros, Byte, Bytes

\* Stored writes the cells and nothing else (storeConsecutiveViaPtr).
LEMMA StoredSeq ==
    ASSUME NEW st \in Bytes, NEW slot \in Nat, NEW cells \in Bytes
    PROVE  /\ Stored(st, slot, cells) \in Bytes
           /\ Len(Stored(st, slot, cells)) = Len(st)
           /\ \A i \in 1 .. Len(st) : Stored(st, slot, cells)[i] =
                 IF slot < i /\ i <= slot + Len(cells) THEN cells[i - slot] ELSE st[i]
BY DEF Stored, Bytes

\* A stack that has only been pushed to.
Extends(st, st2) ==
    st2 \in Bytes /\ Len(st) <= Len(st2) /\ \A i \in 1 .. Len(st) : st2[i] = st[i]

\* What lies on the stack stays there.
LEMMA ExtendedLies ==
    ASSUME NEW st \in Bytes, NEW st2, Extends(st, st2), NEW base \in Nat, NEW cells \in Bytes,
           Lies(st, base, cells)
    PROVE  Lies(st2, base, cells)
<1>1. Len(cells) \in Nat /\ Len(st) \in Nat /\ Len(st2) \in Nat
    BY DEF Extends, Bytes
<1>2. ASSUME NEW i \in 1 .. Len(cells)
      PROVE  st2[base + i] = cells[i]
    <2>1. base + i \in 1 .. Len(st) /\ st[base + i] = cells[i]
        BY <1>1 DEF Lies
    <2> QED
        BY <2>1 DEF Extends
<1> QED
    BY <1>1, <1>2 DEF Lies, Extends

\* The arrays of strings belong to strings only.
LEMMA TextUse ==
    ASSUME NEW hdr, NEW slices, NEW held, TextsApart(hdr, slices, held), NEW n \in held
    PROVE  /\ slices[n].arr \in Texts(slices, held) => n \in Strings
           /\ n \in Strings => IsNil(hdr[n], slices[n]) \/ slices[n].arr \in Texts(slices, held)
BY DEF TextsApart, Texts, IsNil, GoNil, View

-----------------------------------------------------------------------------
(* The moves that keep the heap sound.                                       *)

\* Pushing slots disturbs nobody.
LEMMA SoundGrow ==
    ASSUME NEW st, NEW hdr, NEW arrays, NEW slices, NEW home, NEW held, NEW own,
           Sound(st, hdr, arrays, slices, home, held, own),
           NEW st2, Extends(st, st2), Len(st2) <= MaxSlots
    PROVE  Sound(st2, hdr, arrays, slices, home, held, own)
<1>1. Typed(st2, hdr, arrays, slices, home, held, own)
    BY SliceHeapAssumption DEF Sound, Typed, Extends, Bytes
<1>2. Housed(st2, arrays, slices, home, held)
    <2> SUFFICES ASSUME NEW a \in Used(slices, held)
                 PROVE  /\ a \in 1 .. Len(arrays) /\ Lies(st2, home[a], arrays[a])
                        /\ a # 1 => HeapStart <= home[a]
        BY DEF Housed
    <2>1. /\ a \in 1 .. Len(arrays) /\ Lies(st, home[a], arrays[a])
          /\ a # 1 => HeapStart <= home[a]
        BY DEF Sound, Housed
    <2>2. home[a] \in Nat /\ arrays[a] \in Bytes /\ st \in Bytes /\ st2 \in Bytes
        BY <2>1, ByteRange DEF Sound, Typed, Extends
    <2>3. Lies(st2, home[a], arrays[a])
        BY <2>1, <2>2, ExtendedLies
    <2> QED
        BY <2>1, <2>3
<1> QED
    BY <1>1, <1>2 DEF Sound

\* Fewer names to care about are no harder.
LEMMA SoundForget ==
    ASSUME NEW st, NEW hdr, NEW arrays, NEW slices, NEW home, NEW held, NEW own,
           Sound(st, hdr, arrays, slices, home, held, own),
           NEW held2, NEW own2, held2 \subseteq held, own2 \subseteq own, own2 \subseteq held2
    PROVE  Sound(st, hdr, arrays, slices, home, held2, own2)
<1>1. Used(slices, held2) \subseteq Used(slices, held)
    BY DEF Used
<1>2. Typed(st, hdr, arrays, slices, home, held2, own2)
    BY DEF Sound, Typed
<1>3. Housed(st, arrays, slices, home, held2) /\ Readable(hdr, arrays, slices, home, held2)
    BY <1>1 DEF Sound, Housed, Readable
<1>4. TextsApart(hdr, slices, held2)
    BY DEF Sound, TextsApart
<1>5. Separate(arrays, slices, home, held2)
    <2>1. ASSUME NEW a \in Used(slices, held2), a \in Texts(slices, held)
          PROVE  a \in Texts(slices, held2)
        <3>1. a # 1 /\ \E n \in held2 : slices[n].arr = a
            BY <2>1 DEF Texts, Used
        <3> QED
            BY <2>1, <3>1, TextUse DEF Sound, Texts
    <2> QED
        BY <1>1, <2>1 DEF Sound, Separate
<1>6. Owned(hdr, arrays, slices, home, held2, own2)
    BY <1>1 DEF Sound, Owned, Exclusive
<1> QED
    BY <1>2, <1>3, <1>4, <1>5, <1>6 DEF Sound

\* The array behind a name that is held.
LEMMA HeldArray ==
    ASSUME NEW st, NEW hdr, NEW arrays, NEW slices, NEW home, NEW held, NEW own,
           Sound(st, hdr, arrays, slices, home, held, own)
    PROVE  /\ \A n \in held : slices[n].arr \in Used(slices, held)
           /\ \A a \in Used(slices, held) :
                  /\ a \in 1 .. Len(arrays) /\ arrays[a] \in Bytes /\ Len(arrays[a]) \in Nat
                  /\ home[a] \in Nat /\ home[a] < Mod
                  /\ Lies(st, home[a], arrays[a])
                  /\ a # 1 => HeapStart <= home[a]
<1>1. ASSUME NEW a \in Used(slices, held)
      PROVE  /\ a \in 1 .. Len(arrays) /\ arrays[a] \in Bytes /\ Len(arrays[a]) \in Nat
             /\ home[a] \in Nat /\ home[a] < Mod
             /\ Lies(st, home[a], arrays[a])
             /\ a # 1 => HeapStart <= home[a]
    <2>1. /\ a \in 1 .. Len(arrays) /\ Lies(st, home[a], arrays[a])
          /\ a # 1 => HeapStart <= home[a]
        BY <1>1 DEF Sound, Housed
    <2>2. arrays[a] \in Bytes /\ home[a] \in Byte
        BY <2>1 DEF Sound, Typed
    <2> QED
        BY <2>1, <2>2, ByteRange DEF Bytes
<1>2. \A n \in held : slices[n].arr \in Used(slices, held)
    BY DEF Used
<1> QED
    BY <1>1, <1>2

\* A name gets an array of its own: cells that nobody uses, or that only strings use.
LEMMA SoundNew ==
    ASSUME NEW st, NEW hdr, NEW arrays, NEW slices, NEW home, NEW held, NEW own,
           Sound(st, hdr, arrays, slices, home, held, own),
           NEW dst \in Names \ held, NEW cells \in Bytes, NEW base \in Nat,
           NEW len \in Nat, NEW cap \in Nat, len <= cap, cap * Size[dst] <= Len(cells),
           HeapStart <= base, base + Len(cells) <= Len(st), Lies(st, base, cells),
           NEW own2, own2 \subseteq own \cup {dst},
           \A a \in Used(slices, held) :
               \/ Apart(home[a], Len(arrays[a]), base, Len(cells))
               \/ /\ dst \in Strings \ own2 /\ a \in Texts(slices, held)
                  /\ \A n \in own2 : slices[n].arr # a
    PROVE  \E home2 :
               Sound(st, [hdr EXCEPT ![dst] = [ptr |-> base, len |-> len, cap |-> cap]],
                     Append(arrays, cells), [slices EXCEPT ![dst] = View(Len(arrays) + 1, 0, len, cap)],
                     home2, held \cup {dst}, own2)
<1> DEFINE hd == [ptr |-> base, len |-> len, cap |-> cap]
           new == Len(arrays) + 1
           sl == View(new, 0, len, cap)
           hdr2 == [hdr EXCEPT ![dst] = hd]
           arrays2 == Append(arrays, cells)
           slices2 == [slices EXCEPT ![dst] = sl]
           home2 == [a \in 1 .. new |-> IF a = new THEN base ELSE home[a]]
           held2 == held \cup {dst}
<1> SUFFICES Sound(st, hdr2, arrays2, slices2, home2, held2, own2)
    OBVIOUS
<1>1. Len(arrays) \in Nat /\ Len(arrays) > 0 /\ arrays \in Seq(Bytes) /\ st \in Bytes /\ Len(st) \in Nat
    BY DEF Sound, Typed, Bytes
<1>2. /\ arrays2 \in Seq(Bytes) /\ Len(arrays2) = new /\ arrays2[new] = cells
      /\ \A a \in 1 .. Len(arrays) : arrays2[a] = arrays[a]
    BY <1>1, AppendProperties
<1>3. home2[new] = base /\ \A a \in 1 .. Len(arrays) : home2[a] = home[a]
    BY <1>1
<1>4. hd \in Header /\ sl \in Slices
    <2>1. cap <= Len(cells)
        BY Sizes, Times DEF Bytes
    <2>2. base < Mod /\ len < Mod /\ cap < Mod
        <3> DEFINE k == Len(cells)
                   l == Len(st)
        <3>1. k \in Nat /\ l \in Nat /\ l <= MaxSlots
            BY DEF Sound, Typed, Bytes
        <3>2. base + k <= l /\ cap <= k
            BY ONLY <2>1, base + Len(cells) <= Len(st)
        <3> HIDE DEF k, l
        <3> QED
            BY ONLY <3>1, <3>2, base \in Nat, len \in Nat, cap \in Nat, len <= cap, SliceHeapAssumption
    <2> QED
        BY <2>2, <1>1, ByteRange DEF Header, Slices, View
<1>5. \A n \in held : slices2[n] = slices[n] /\ hdr2[n] = hdr[n]
    BY DEF Sound, Typed
<1>6. slices2[dst] = sl /\ hdr2[dst] = hd /\ sl.arr = new
    BY DEF Sound, Typed, View
<1>7. Used(slices2, held2) = Used(slices, held) \cup {new}
    BY <1>5, <1>6 DEF Used
<1>8. \A a \in Used(slices, held) : a \in 1 .. Len(arrays) /\ a # new
    BY <1>1 DEF Sound, Housed
<1>9. Texts(slices2, held2) = Texts(slices, held) \cup (IF dst \in Strings THEN {new} ELSE {})
    BY <1>1, <1>5, <1>6 DEF Texts
<1> HIDE DEF hd, sl, hdr2, arrays2, slices2, home2, held2
<1>10. Typed(st, hdr2, arrays2, slices2, home2, held2, own2)
    <2>1. hdr2 \in [Names -> Header] /\ slices2 \in [Names -> Slices]
        BY <1>4 DEF hdr2, slices2, Sound, Typed
    <2>2. home2 \in [1 .. Len(arrays2) -> Byte]
        BY <1>1, <1>2, <1>4 DEF home2, hd, Header, Sound, Typed
    <2>3. home2[1] = ArrayBase /\ Len(Array) <= Len(arrays2[1])
        BY <1>1, <1>2, <1>3 DEF Sound, Typed
    <2> QED
        <3>1. own2 \subseteq held2 /\ held2 \subseteq Names
            BY DEF held2, Sound, Typed
        <3>2. arrays2 \in Seq(Bytes) /\ Len(arrays2) > 0
            BY ONLY <1>1, <1>2
        <3> QED
            BY ONLY <3>1, <3>2, <2>1, <2>2, <2>3, Sound(st, hdr, arrays, slices, home, held, own) DEF Sound, Typed
<1>11. Housed(st, arrays2, slices2, home2, held2)
    <2>1. ASSUME NEW a \in Used(slices, held)
          PROVE  a \in 1 .. Len(arrays2) /\ Lies(st, home2[a], arrays2[a]) /\ (a # 1 => HeapStart <= home2[a])
        <3>1. a \in 1 .. Len(arrays) /\ Lies(st, home[a], arrays[a]) /\ (a # 1 => HeapStart <= home[a])
            BY DEF Sound, Housed
        <3>2. a \in 1 .. Len(arrays2) /\ arrays2[a] = arrays[a] /\ home2[a] = home[a]
            BY ONLY <3>1, <1>1, <1>2, <1>3
        <3> QED
            BY ONLY <3>1, <3>2
    <2>2. new \in 1 .. Len(arrays2) /\ Lies(st, home2[new], arrays2[new]) /\ HeapStart <= home2[new]
        BY <1>1, <1>2, <1>3
    <2> QED
        BY ONLY <2>1, <2>2, <1>7 DEF Housed
<1>12. Readable(hdr2, arrays2, slices2, home2, held2)
    <2>1. ASSUME NEW n \in held
          PROVE  Shows(hdr2[n], slices2[n], Size[n], arrays2, home2)
        <3>1. slices[n].arr \in Used(slices, held) /\ Shows(hdr[n], slices[n], Size[n], arrays, home)
            BY DEF Used, Sound, Readable
        <3>2. /\ slices[n].arr \in 1 .. Len(arrays2)
              /\ arrays2[slices[n].arr] = arrays[slices[n].arr] /\ home2[slices[n].arr] = home[slices[n].arr]
            BY <1>1, <1>2, <1>3, <1>8, <3>1
        <3> QED
            BY <1>5, <3>1, <3>2 DEF Shows
    <2>2. Shows(hdr2[dst], slices2[dst], Size[dst], arrays2, home2)
        <3>1. Size[dst] \in Nat \ {0} /\ cap * Size[dst] \in Nat
            BY Sizes
        <3> QED
            <4>1. slices2[dst] = [arr |-> new, off |-> 0, len |-> len, cap |-> cap]
                  /\ hdr2[dst] = [ptr |-> base, len |-> len, cap |-> cap]
                BY ONLY <1>6 DEF sl, hd, View
            <4>2. new \in 1 .. Len(arrays2) /\ arrays2[new] = cells /\ home2[new] = base
                BY <1>1, <1>2, <1>3
            <4> QED
                BY ONLY <3>1, <4>1, <4>2, base \in Nat, len <= cap, cap * Size[dst] <= Len(cells) DEF Shows
    <2> QED
        BY <2>1, <2>2 DEF Readable, held2
<1>13. TextsApart(hdr2, slices2, held2)
    <2>1. \A n \in held : slices[n].arr # new
        BY <1>8 DEF Used
    <2> QED
        BY <2>1, <1>1, <1>5, <1>6 DEF TextsApart, Sound, held2
<1>14. \A a \in Used(slices, held) :
           \/ HomesApart(arrays2, home2, a, new)
           \/ /\ dst \in Strings \ own2 /\ a \in Texts(slices, held)
              /\ \A n \in own2 : slices[n].arr # a
    BY <1>2, <1>3, <1>8 DEF HomesApart
<1>15. \A a, b \in Used(slices, held) : HomesApart(arrays, home, a, b) => HomesApart(arrays2, home2, a, b)
    BY <1>2, <1>3, <1>8 DEF HomesApart
<1>16. \A a, b \in 1 .. new : HomesApart(arrays2, home2, a, b) => HomesApart(arrays2, home2, b, a)
    BY DEF HomesApart, Apart
<1>17. Separate(arrays2, slices2, home2, held2)
    <2>1. ASSUME NEW a \in Used(slices, held), NEW b \in Used(slices, held), a # b
          PROVE  HomesApart(arrays2, home2, a, b) \/ {a, b} \subseteq Texts(slices2, held2)
        <3>1. HomesApart(arrays, home, a, b) \/ {a, b} \subseteq Texts(slices, held)
            BY <2>1 DEF Sound, Separate
        <3> QED
            BY <3>1, <1>15, <1>9
    <2>2. ASSUME NEW a \in Used(slices, held)
          PROVE  \/ HomesApart(arrays2, home2, a, new) /\ HomesApart(arrays2, home2, new, a)
                 \/ {a, new} \subseteq Texts(slices2, held2)
        <3>1. a \in 1 .. new /\ new \in 1 .. new
            BY <1>1, <1>8
        <3> QED
            BY <3>1, <1>14, <1>16, <1>9
    <2> QED
        BY <2>1, <2>2, <1>7 DEF Separate
<1>18. Owned(hdr2, arrays2, slices2, home2, held2, own2)
    <2>1. ASSUME NEW n \in own2, n # dst, ~IsNil(hdr2[n], slices2[n])
          PROVE  Exclusive(n, arrays2, slices2, home2, held2)
        <3>1. n \in own /\ n \in held /\ slices2[n] = slices[n] /\ Exclusive(n, arrays, slices, home, held)
            BY <2>1, <1>5 DEF Sound, Typed, Owned
        <3>2. slices[n].arr \in Used(slices, held) /\ slices[n].arr # new
            BY <3>1, <1>8 DEF Used
        <3>3. HomesApart(arrays2, home2, new, slices[n].arr)
            <4>1. slices[n].arr \in 1 .. new /\ new \in 1 .. new
                BY <3>2, <1>1, <1>8
            <4> QED
                BY <2>1, <3>2, <4>1, <1>14, <1>16
        <3> QED
            BY <3>1, <3>2, <3>3, <1>5, <1>6, <1>7, <1>15 DEF Exclusive, held2
    <2>2. ASSUME dst \in own2
          PROVE  Exclusive(dst, arrays2, slices2, home2, held2)
        <3>1. \A m \in held : slices2[m].arr # new
            BY <1>5, <1>8 DEF Used
        <3>2. \A a \in Used(slices, held) : HomesApart(arrays2, home2, a, new)
            BY <2>2, <1>14
        <3>3. new # 1
            BY <1>1
        <3> HIDE DEF new
        <3> QED
            BY <3>1, <3>2, <3>3, <1>6, <1>7 DEF Exclusive, held2
    <2> QED
        BY <2>1, <2>2 DEF Owned
<1> QED
    BY <1>10, <1>11, <1>12, <1>13, <1>17, <1>18 DEF Sound

\* A name gets a view of an array that is in use, of one that no name owns.  Nil
\* is a view that every name may own.
LEMMA SoundAlias ==
    ASSUME NEW st, NEW hdr, NEW arrays, NEW slices, NEW home, NEW held, NEW own,
           Sound(st, hdr, arrays, slices, home, held, own),
           NEW dst \in Names, NEW hd \in Header, NEW sl \in Slices,
           Shows(hd, sl, Size[dst], arrays, home), sl.arr \in Used(slices, held),
           dst \in Strings => IsNil(hd, sl) \/ sl.arr \in Texts(slices, held),
           dst \notin Strings => sl.arr \notin Texts(slices, held),
           NEW own2, own2 \subseteq own \cup {dst}, dst \in own2 => IsNil(hd, sl),
           \A n \in own2 \ {dst} : IsNil(hdr[n], slices[n]) \/ slices[n].arr # sl.arr
    PROVE  Sound(st, [hdr EXCEPT ![dst] = hd], arrays, [slices EXCEPT ![dst] = sl], home,
                 held \cup {dst}, own2)
<1> DEFINE hdr2 == [hdr EXCEPT ![dst] = hd]
           slices2 == [slices EXCEPT ![dst] = sl]
           held2 == held \cup {dst}
<1>1. \A n \in held \ {dst} : slices2[n] = slices[n] /\ hdr2[n] = hdr[n]
    BY DEF Sound, Typed
<1>2. slices2[dst] = sl /\ hdr2[dst] = hd
    BY DEF Sound, Typed
<1>3. Used(slices2, held2) \subseteq Used(slices, held)
    BY <1>1, <1>2 DEF Used
<1>4. Typed(st, hdr2, arrays, slices2, home, held2, own2)
    BY DEF Sound, Typed
<1> HIDE DEF hdr2, slices2
<1>5. Housed(st, arrays, slices2, home, held2) /\ Readable(hdr2, arrays, slices2, home, held2)
    BY <1>1, <1>2, <1>3 DEF Sound, Housed, Readable
<1>6. TextsApart(hdr2, slices2, held2)
    <2>1. ASSUME NEW n \in held2 \cap Strings, NEW m \in held2 \ Strings, ~IsNil(hdr2[n], slices2[n])
          PROVE  slices2[n].arr # 1 /\ slices2[m].arr # slices2[n].arr
        <3>1. slices2[n].arr \in Texts(slices, held)
            BY <2>1, <1>1, <1>2, TextUse DEF Sound
        <3>2. slices2[m].arr \notin Texts(slices, held)
            BY <2>1, <1>1, <1>2, TextUse DEF Sound
        <3> QED
            BY <3>1, <3>2 DEF Texts
    <2>2. ASSUME NEW n \in held2 \cap Strings, ~IsNil(hdr2[n], slices2[n])
          PROVE  slices2[n].arr # 1
        <3>1. slices2[n].arr \in Texts(slices, held)
            BY <2>2, <1>1, <1>2, TextUse DEF Sound
        <3> QED
            BY <3>1 DEF Texts
    <2> QED
        BY <2>1, <2>2 DEF TextsApart
<1>7. Separate(arrays, slices2, home, held2)
    <2>1. ASSUME NEW a \in Used(slices2, held2), a \in Texts(slices, held)
          PROVE  a \in Texts(slices2, held2)
        <3>1. PICK n \in held2 : slices2[n].arr = a
            BY <2>1 DEF Used, Texts
        <3>2. n \in Strings
            BY <2>1, <3>1, <1>1, <1>2, TextUse DEF Sound
        <3> QED
            BY <2>1, <3>1, <3>2 DEF Texts
    <2> QED
        BY <1>3, <2>1 DEF Sound, Separate
<1>8. Owned(hdr2, arrays, slices2, home, held2, own2)
    <2>1. ASSUME NEW n \in own2, ~IsNil(hdr2[n], slices2[n])
          PROVE  Exclusive(n, arrays, slices2, home, held2)
        <3>0. n # dst
            BY <2>1, <1>2
        <3>1. n \in own /\ n \in held \ {dst} /\ slices2[n] = slices[n] /\ slices[n].arr # sl.arr
            BY <2>1, <3>0, <1>1 DEF Sound, Typed
        <3>2. Exclusive(n, arrays, slices, home, held)
            BY <2>1, <3>1, <1>1 DEF Sound, Owned
        <3> QED
            BY <3>1, <3>2, <1>1, <1>2, <1>3 DEF Exclusive
    <2> QED
        BY <2>1 DEF Owned
<1> QED
    BY <1>4, <1>5, <1>6, <1>7, <1>8 DEF Sound, hdr2, slices2

\* Cells of an array of no string are written, on the heap and in Go.
LEMMA SoundWrite ==
    ASSUME NEW st, NEW hdr, NEW arrays, NEW slices, NEW home, NEW held, NEW own,
           Sound(st, hdr, arrays, slices, home, held, own),
           NEW a \in Used(slices, held), a \notin Texts(slices, held),
           NEW at \in Nat, NEW cells \in Bytes, at + Len(cells) <= Len(arrays[a])
    PROVE  Sound(Stored(st, home[a] + at, cells), hdr, GoWrite(arrays, a, at, cells), slices, home, held, own)
<1> DEFINE st2 == Stored(st, home[a] + at, cells)
           arrays2 == GoWrite(arrays, a, at, cells)
<1>1. /\ a \in 1 .. Len(arrays) /\ arrays[a] \in Bytes /\ Len(arrays[a]) \in Nat
      /\ home[a] \in Nat /\ Lies(st, home[a], arrays[a]) /\ arrays \in Seq(Bytes) /\ st \in Bytes
      /\ Len(st) \in Nat
    <2>1. arrays \in Seq(Bytes) /\ st \in Bytes
        BY DEF Sound, Typed
    <2> QED
        BY <2>1, HeldArray DEF Bytes
<1>2. /\ Stored(arrays[a], at, cells) \in Bytes /\ Len(Stored(arrays[a], at, cells)) = Len(arrays[a])
      /\ \A i \in 1 .. Len(arrays[a]) : Stored(arrays[a], at, cells)[i] =
            IF at < i /\ i <= at + Len(cells) THEN cells[i - at] ELSE arrays[a][i]
    BY <1>1, StoredSeq
<1>3. /\ st2 \in Bytes /\ Len(st2) = Len(st)
      /\ \A i \in 1 .. Len(st) : st2[i] =
            IF home[a] + at < i /\ i <= home[a] + at + Len(cells) THEN cells[i - (home[a] + at)] ELSE st[i]
    <2> DEFINE to == home[a] + at
    <2>1. to \in Nat
        BY ONLY <1>1, at \in Nat
    <2> HIDE DEF to
    <2>2. /\ Stored(st, to, cells) \in Bytes /\ Len(Stored(st, to, cells)) = Len(st)
          /\ \A i \in 1 .. Len(st) : Stored(st, to, cells)[i] =
                IF to < i /\ i <= to + Len(cells) THEN cells[i - to] ELSE st[i]
        BY ONLY <2>1, <1>1, cells \in Bytes, StoredSeq
    <2> QED
        BY ONLY <2>2 DEF to
<1>4. /\ arrays2 \in Seq(Bytes) /\ Len(arrays2) = Len(arrays)
      /\ arrays2[a] = Stored(arrays[a], at, cells)
      /\ \A b \in 1 .. Len(arrays) : b # a => arrays2[b] = arrays[b]
    BY <1>1, <1>2 DEF GoWrite
<1> HIDE DEF st2, arrays2
<1>5. \A b \in 1 .. Len(arrays) : Len(arrays2[b]) = Len(arrays[b])
    BY <1>2, <1>4
<1>6. Typed(st2, hdr, arrays2, slices, home, held, own)
    BY <1>1, <1>3, <1>4, <1>5 DEF Sound, Typed
<1>7. Housed(st2, arrays2, slices, home, held)
    <2>1. Lies(st2, home[a], arrays2[a])
        <3>1. ASSUME NEW i \in 1 .. Len(arrays[a])
              PROVE  st2[home[a] + i] = arrays2[a][i]
            <4> DEFINE j == home[a] + i
            <4>1. j \in 1 .. Len(st) /\ st[j] = arrays[a][i]
                BY <1>1 DEF Lies
            <4>2. arrays2[a][i] = IF at < i /\ i <= at + Len(cells) THEN cells[i - at] ELSE arrays[a][i]
                BY <1>2, <1>4
            <4>3. /\ j - (home[a] + at) = i - at
                  /\ (home[a] + at < j /\ j <= home[a] + at + Len(cells)) <=> (at < i /\ i <= at + Len(cells))
                <5>1. Len(cells) \in Nat
                    BY DEF Bytes
                <5> QED
                    BY ONLY <5>1, <1>1, at \in Nat, i \in 1 .. Len(arrays[a])
            <4> HIDE DEF j
            <4>4. st2[j] = IF home[a] + at < j /\ j <= home[a] + at + Len(cells)
                           THEN cells[j - (home[a] + at)] ELSE st[j]
                BY <4>1, <1>3
            <4>5. st2[j] = arrays2[a][i]
                BY <4>1, <4>2, <4>3, <4>4
            <4> QED
                BY <4>5 DEF j
        <3> QED
            BY <3>1, <1>1, <1>2, <1>3, <1>4 DEF Lies
    <2>2. ASSUME NEW b \in Used(slices, held), b # a
          PROVE  Lies(st2, home[b], arrays2[b])
        <3>1. /\ b \in 1 .. Len(arrays) /\ Len(arrays[b]) \in Nat /\ home[b] \in Nat
              /\ Lies(st, home[b], arrays[b]) /\ arrays2[b] = arrays[b]
            BY <2>2, <1>4, HeldArray
        <3>2. HomesApart(arrays, home, b, a)
            BY <2>2 DEF Sound, Separate
        <3>3. ASSUME NEW i \in 1 .. Len(arrays[b])
              PROVE  st2[home[b] + i] = arrays[b][i]
            <4> DEFINE j == home[b] + i
                       hb == home[b]
                       nb == Len(arrays[b])
                       ha == home[a]
                       na == Len(arrays[a])
                       k == Len(cells)
                       top == Len(st)
            <4>1. /\ hb \in Nat /\ nb \in Nat /\ ha \in Nat /\ na \in Nat /\ top \in Nat
                  /\ i \in 1 .. nb /\ at \in Nat /\ at + k <= na
                BY ONLY <3>1, <1>1, i \in 1 .. Len(arrays[b]), at \in Nat, at + Len(cells) <= Len(arrays[a])
            <4>2. k \in Nat
                BY ONLY cells \in Bytes DEF Bytes
            <4>3. nb > 0 => hb + nb <= top
                BY ONLY <3>1 DEF Lies
            <4>4. st[j] = arrays[b][i]
                BY ONLY <3>1, i \in 1 .. Len(arrays[b]) DEF Lies
            <4>5. nb = 0 \/ na = 0 \/ hb + nb <= ha \/ ha + na <= hb
                BY ONLY <3>2 DEF HomesApart, Apart
            <4>6. j = hb + i
                OBVIOUS
            <4> HIDE DEF j, hb, nb, ha, na, k, top
            <4>7. j \in 1 .. top
                BY ONLY <4>1, <4>3, <4>6
            <4>8. ~(ha + at < j /\ j <= ha + at + k)
                BY ONLY <4>1, <4>2, <4>5, <4>6
            <4>9. st2[j] = st[j]
                BY ONLY <4>7, <4>8, <1>3 DEF top, ha, k
            <4> QED
                BY ONLY <4>4, <4>9 DEF j
        <3> QED
            BY <3>1, <3>3, <1>3 DEF Lies
    <2> QED
        BY <2>1, <2>2, <1>4 DEF Sound, Housed
<1>8. Readable(hdr, arrays2, slices, home, held)
    <2>1. ASSUME NEW n \in held
          PROVE  Shows(hdr[n], slices[n], Size[n], arrays2, home)
        <3>1. Shows(hdr[n], slices[n], Size[n], arrays, home)
            BY DEF Sound, Readable
        <3> QED
            BY <3>1, <1>4, <1>5 DEF Shows
    <2> QED
        BY <2>1 DEF Readable
<1>9. \A b, c \in Used(slices, held) : HomesApart(arrays, home, b, c) => HomesApart(arrays2, home, b, c)
    BY <1>5, HeldArray DEF HomesApart
<1>10. Separate(arrays2, slices, home, held)
    BY <1>9 DEF Sound, Separate
<1>11. Owned(hdr, arrays2, slices, home, held, own)
    BY <1>9 DEF Sound, Typed, Owned, Exclusive, Used
<1> QED
    BY <1>6, <1>7, <1>8, <1>10, <1>11 DEF Sound, st2, arrays2

\* Zeros pushed behind cells.
LEMMA PushedSeq ==
    ASSUME NEW st \in Bytes, NEW n \in Nat
    PROVE  /\ st \o Zeros(n) \in Bytes /\ Len(st \o Zeros(n)) = Len(st) + n
           /\ \A i \in 1 .. Len(st) : (st \o Zeros(n))[i] = st[i]
           /\ \A i \in 1 .. n : (st \o Zeros(n))[Len(st) + i] = 0
           /\ Extends(st, st \o Zeros(n))
<1>1. Zeros(n) \in Bytes /\ Len(Zeros(n)) = n /\ \A i \in 1 .. n : Zeros(n)[i] = 0
    BY ZerosSeq
<1> QED
    BY <1>1 DEF Extends, Bytes

\* The last array of the heap grows, on the heap and in Go.
LEMMA SoundExtend ==
    ASSUME NEW st, NEW hdr, NEW arrays, NEW slices, NEW home, NEW held, NEW own,
           Sound(st, hdr, arrays, slices, home, held, own),
           NEW a \in Used(slices, held), a \notin Texts(slices, held),
           home[a] + Len(arrays[a]) = Len(st),
           NEW n \in Nat, Len(st) + n <= MaxSlots
    PROVE  Sound(st \o Zeros(n), hdr, [arrays EXCEPT ![a] = @ \o Zeros(n)], slices, home, held, own)
<1> DEFINE st2 == st \o Zeros(n)
           arrays2 == [arrays EXCEPT ![a] = @ \o Zeros(n)]
<1>1. /\ a \in 1 .. Len(arrays) /\ arrays[a] \in Bytes /\ Len(arrays[a]) \in Nat
      /\ home[a] \in Nat /\ Lies(st, home[a], arrays[a]) /\ arrays \in Seq(Bytes) /\ st \in Bytes
      /\ Len(st) \in Nat
    <2>1. arrays \in Seq(Bytes) /\ st \in Bytes
        BY DEF Sound, Typed
    <2> QED
        BY <2>1, HeldArray DEF Bytes
<1>2. Extends(st, st2) /\ Len(st2) = Len(st) + n /\ \A i \in 1 .. n : st2[Len(st) + i] = 0
    BY <1>1, PushedSeq
<1>3. /\ arrays2 \in Seq(Bytes) /\ Len(arrays2) = Len(arrays)
      /\ Extends(arrays[a], arrays2[a]) /\ Len(arrays2[a]) = Len(arrays[a]) + n
      /\ \A i \in 1 .. n : arrays2[a][Len(arrays[a]) + i] = 0
      /\ \A b \in 1 .. Len(arrays) : b # a => arrays2[b] = arrays[b]
    <2>1. arrays[a] \o Zeros(n) \in Bytes
        BY ONLY <1>1, n \in Nat, PushedSeq
    <2>2. /\ arrays2 \in Seq(Bytes) /\ Len(arrays2) = Len(arrays) /\ arrays2[a] = arrays[a] \o Zeros(n)
          /\ \A b \in 1 .. Len(arrays) : b # a => arrays2[b] = arrays[b]
        BY ONLY <2>1, <1>1
    <2>3. /\ Extends(arrays[a], arrays[a] \o Zeros(n)) /\ Len(arrays[a] \o Zeros(n)) = Len(arrays[a]) + n
          /\ \A i \in 1 .. n : (arrays[a] \o Zeros(n))[Len(arrays[a]) + i] = 0
        BY <1>1, PushedSeq
    <2> QED
        BY <2>2, <2>3
<1> HIDE DEF st2, arrays2
<1>4. Typed(st2, hdr, arrays2, slices, home, held, own)
    <2>1. Len(Array) <= Len(arrays2[1])
        <3>1. Len(Array) \in Nat /\ Len(arrays[1]) \in Nat /\ 1 \in 1 .. Len(arrays)
            <4>1. 1 \in Used(slices, held)
                BY DEF Used
            <4> QED
                BY <4>1, HeldArray, SliceHeapAssumption
        <3>2. Len(Array) <= Len(arrays[1])
            BY DEF Sound, Typed
        <3>3. Len(arrays2[1]) = Len(arrays[1]) \/ Len(arrays2[1]) = Len(arrays[1]) + n
            BY ONLY <3>1, <1>3
        <3> QED
            BY ONLY <3>1, <3>2, <3>3, n \in Nat
    <2>2. Len(st2) <= MaxSlots /\ HeapStart <= Len(st2)
        <3>1. HeapStart <= Len(st)
            BY DEF Sound, Typed
        <3> QED
            BY ONLY <3>1, <1>1, <1>2, Len(st) + n <= MaxSlots, n \in Nat, SliceHeapAssumption
    <2>3. st2 \in Bytes
        BY <1>2 DEF Extends
    <2> QED
        BY ONLY <2>1, <2>2, <2>3, <1>3, Sound(st, hdr, arrays, slices, home, held, own) DEF Sound, Typed
<1>5. Sound(st2, hdr, arrays, slices, home, held, own)
    BY <1>2, SoundGrow
<1>6. Housed(st2, arrays2, slices, home, held)
    <2>1. Lies(st2, home[a], arrays2[a])
        <3>1. ASSUME NEW i \in 1 .. Len(arrays2[a])
              PROVE  st2[home[a] + i] = arrays2[a][i]
            <4>1. CASE i <= Len(arrays[a])
                <5>1. Lies(st2, home[a], arrays[a])
                    BY <1>5, HeldArray
                <5> QED
                    BY <4>1, <5>1, <1>1, <1>3 DEF Extends, Lies
            <4>2. CASE i > Len(arrays[a])
                <5>1. PICK k \in 1 .. n : i = Len(arrays[a]) + k
                    <6>1. i - Len(arrays[a]) \in 1 .. n /\ i = Len(arrays[a]) + (i - Len(arrays[a]))
                        BY <4>2, <1>1, <1>3
                    <6> QED
                        BY <6>1
                <5>2. home[a] + i = Len(st) + k
                    <6> DEFINE h == home[a]
                               na == Len(arrays[a])
                               top == Len(st)
                    <6>1. /\ h \in Nat /\ na \in Nat /\ n \in Nat /\ k \in 1 .. n
                          /\ i = na + k /\ h + na = top
                        BY <5>1, <1>1
                    <6>2. h + i = top + k
                        <7> HIDE DEF h, na, top
                        <7> QED
                            BY ONLY <6>1
                    <6> QED
                        BY ONLY <6>2
                <5>3. arrays2[a][i] = 0
                    BY <5>1, <1>3
                <5>4. st2[Len(st) + k] = 0
                    BY <1>2
                <5> QED
                    BY <5>2, <5>3, <5>4
            <4> QED
                BY <4>1, <4>2, <1>1, <1>3
        <3> QED
            BY <3>1, <1>1, <1>2, <1>3 DEF Lies
    <2> QED
        BY <2>1, <1>3, <1>5 DEF Sound, Housed
<1>11. ASSUME NEW b \in 1 .. Len(arrays)
       PROVE  Len(arrays2[b]) \in Nat /\ Len(arrays[b]) <= Len(arrays2[b])
    <2>1. Len(arrays[b]) \in Nat
        BY <1>1 DEF Bytes
    <2>2. CASE b = a
        BY <2>1, <2>2, <1>3
    <2>3. CASE b # a
        BY <2>1, <2>3, <1>3
    <2> QED
        BY <2>2, <2>3
<1>7. Readable(hdr, arrays2, slices, home, held)
    <2>1. ASSUME NEW m \in held
          PROVE  Shows(hdr[m], slices[m], Size[m], arrays2, home)
        <3>1. /\ Shows(hdr[m], slices[m], Size[m], arrays, home)
              /\ slices[m] \in Slices /\ Size[m] \in Nat
            BY Sizes DEF Sound, Readable, Typed
        <3>2. Len(arrays[slices[m].arr]) \in Nat /\ slices[m].arr \in 1 .. Len(arrays)
            BY HeldArray
        <3>3. Len(arrays[slices[m].arr]) <= Len(arrays2[slices[m].arr])
            BY <3>2, <1>11
        <3>4. Len(arrays2[slices[m].arr]) \in Nat /\ slices[m].off + slices[m].cap * Size[m] \in Nat
            <4>1. slices[m].off \in Nat /\ slices[m].cap \in Nat
                BY <3>1 DEF Slices
            <4>2. slices[m].cap * Size[m] \in Nat
                BY <3>1, <4>1
            <4>3. Len(arrays2[slices[m].arr]) \in Nat
                BY <3>2, <1>11
            <4> QED
                BY <4>1, <4>2, <4>3
        <3> QED
            <4> DEFINE k == slices[m].off + slices[m].cap * Size[m]
            <4>1. k <= Len(arrays[slices[m].arr]) => k <= Len(arrays2[slices[m].arr])
                BY ONLY <3>2, <3>3, <3>4
            <4> QED
                BY ONLY <3>1, <3>2, <4>1, <1>3 DEF Shows
    <2> QED
        BY <2>1 DEF Readable
<1>8. ASSUME NEW b \in Used(slices, held), NEW c \in Used(slices, held), b # c,
             HomesApart(arrays, home, b, c)
      PROVE  HomesApart(arrays2, home, b, c)
    <2>1. /\ Len(arrays[b]) \in Nat /\ Len(arrays[c]) \in Nat /\ home[b] \in Nat /\ home[c] \in Nat
          /\ Len(arrays[b]) > 0 => home[b] + Len(arrays[b]) <= Len(st)
          /\ Len(arrays[c]) > 0 => home[c] + Len(arrays[c]) <= Len(st)
          /\ b \in 1 .. Len(arrays) /\ c \in 1 .. Len(arrays)
        BY HeldArray DEF Lies
    <2>2. /\ Len(arrays2[a]) = Len(arrays[a]) + n /\ n \in Nat /\ home[a] + Len(arrays[a]) = Len(st)
          /\ \A d \in {b, c} : d # a => Len(arrays2[d]) = Len(arrays[d])
        BY <2>1, <1>3
    <2> DEFINE hb == home[b]
               hc == home[c]
               nb == Len(arrays[b])
               nc == Len(arrays[c])
               top == Len(st)
    <2>6. nb = 0 \/ nc = 0 \/ hb + nb <= hc \/ hc + nc <= hb
        BY ONLY <1>8 DEF HomesApart, Apart
    <2>3. CASE b = a
        <3>1. /\ nb \in Nat /\ nc \in Nat /\ hb \in Nat /\ hc \in Nat /\ top \in Nat /\ n \in Nat
              /\ hb + nb = top /\ (nc > 0 => hc + nc <= top)
            BY ONLY <2>1, <2>2, <2>3, <1>1
        <3>2. Len(arrays2[b]) = nb + n /\ Len(arrays2[c]) = nc
            BY ONLY <2>2, <2>3, <1>8
        <3> HIDE DEF hb, hc, nb, nc, top
        <3>3. nb + n = 0 \/ nc = 0 \/ hb + (nb + n) <= hc \/ hc + nc <= hb
            BY ONLY <2>6, <3>1
        <3> QED
            BY ONLY <3>2, <3>3 DEF HomesApart, Apart, hb, hc
    <2>4. CASE c = a
        <3>1. /\ nb \in Nat /\ nc \in Nat /\ hb \in Nat /\ hc \in Nat /\ top \in Nat /\ n \in Nat
              /\ hc + nc = top /\ (nb > 0 => hb + nb <= top)
            BY ONLY <2>1, <2>2, <2>4, <1>1
        <3>2. Len(arrays2[b]) = nb /\ Len(arrays2[c]) = nc + n
            BY ONLY <2>2, <2>4, <1>8
        <3> HIDE DEF hb, hc, nb, nc, top
        <3>3. nb = 0 \/ nc + n = 0 \/ hb + nb <= hc \/ hc + (nc + n) <= hb
            BY ONLY <2>6, <3>1
        <3> QED
            BY ONLY <3>2, <3>3 DEF HomesApart, Apart, hb, hc
    <2>5. CASE b # a /\ c # a
        BY ONLY <2>2, <2>5, <1>8 DEF HomesApart
    <2> QED
        BY ONLY <2>3, <2>4, <2>5
<1>9. Separate(arrays2, slices, home, held)
    BY <1>8 DEF Sound, Separate
<1>10. Owned(hdr, arrays2, slices, home, held, own)
    <2>1. ASSUME NEW m \in own, ~IsNil(hdr[m], slices[m])
          PROVE  Exclusive(m, arrays2, slices, home, held)
        <3>1. Exclusive(m, arrays, slices, home, held) /\ m \in held
            BY <2>1 DEF Sound, Typed, Owned
        <3>2. slices[m].arr \in Used(slices, held)
            BY <3>1 DEF Used
        <3> QED
            BY <3>1, <3>2, <1>8 DEF Exclusive
    <2> QED
        BY <2>1 DEF Owned
<1> QED
    BY <1>4, <1>6, <1>7, <1>9, <1>10 DEF Sound, st2, arrays2

\* Slots behind everything that is in use are given back.
LEMMA SoundShrink ==
    ASSUME NEW st, NEW hdr, NEW arrays, NEW slices, NEW home, NEW held, NEW own,
           Sound(st, hdr, arrays, slices, home, held, own),
           NEW k \in Nat, HeapStart <= k, k <= Len(st),
           \A a \in Used(slices, held) : Len(arrays[a]) > 0 => home[a] + Len(arrays[a]) <= k
    PROVE  Sound(SubSeq(st, 1, k), hdr, arrays, slices, home, held, own)
<1> DEFINE st2 == SubSeq(st, 1, k)
<1>1. st \in Bytes /\ Len(st) \in Nat
    BY DEF Sound, Typed, Bytes
<1>2. st2 \in Bytes /\ Len(st2) = k /\ \A i \in 1 .. k : st2[i] = st[i]
    BY <1>1 DEF Bytes
<1> HIDE DEF st2
<1>3. Typed(st2, hdr, arrays, slices, home, held, own)
    BY <1>1, <1>2, SliceHeapAssumption DEF Sound, Typed
<1>4. Housed(st2, arrays, slices, home, held)
    <2>1. ASSUME NEW a \in Used(slices, held)
          PROVE  Lies(st2, home[a], arrays[a])
        <3>1. Len(arrays[a]) \in Nat /\ home[a] \in Nat /\ Lies(st, home[a], arrays[a])
            BY HeldArray
        <3>2. \A i \in 1 .. Len(arrays[a]) : home[a] + i \in 1 .. k
            BY <3>1
        <3> QED
            BY <3>1, <3>2, <1>2 DEF Lies
    <2> QED
        BY <2>1 DEF Sound, Housed
<1> QED
    BY <1>3, <1>4 DEF Sound, st2

\* Two names of a type that own nothing exchange their slices.
LEMMA SoundSwap ==
    ASSUME NEW st, NEW hdr, NEW arrays, NEW slices, NEW home, NEW held, NEW own,
           Sound(st, hdr, arrays, slices, home, held, own),
           NEW x \in held \ own, NEW y \in held \ own, SameType(x, y)
    PROVE  Sound(st, [hdr EXCEPT ![x] = hdr[y], ![y] = hdr[x]], arrays,
                 [slices EXCEPT ![x] = slices[y], ![y] = slices[x]], home, held, own)
<1> DEFINE hdr2 == [hdr EXCEPT ![x] = hdr[y], ![y] = hdr[x]]
           slices2 == [slices EXCEPT ![x] = slices[y], ![y] = slices[x]]
           Other(n) == IF n = x THEN y ELSE IF n = y THEN x ELSE n
<1>1. /\ \A n \in held : hdr2[n] = hdr[Other(n)] /\ slices2[n] = slices[Other(n)]
      /\ \A n \in held : Other(n) \in held /\ Other(Other(n)) = n /\ SameType(n, Other(n))
      /\ \A n \in own : n \in held /\ Other(n) = n
    BY DEF Sound, Typed, SameType
<1>2. Typed(st, hdr2, arrays, slices2, home, held, own)
    BY DEF Sound, Typed
<1> HIDE DEF hdr2, slices2, Other
<1>3. Used(slices2, held) = Used(slices, held)
    BY <1>1 DEF Used
<1>4. \A n \in held : n \in Strings <=> Other(n) \in Strings
    BY <1>1 DEF SameType
<1>5. Texts(slices2, held) = Texts(slices, held)
    BY <1>1, <1>4 DEF Texts
<1>6. Housed(st, arrays, slices2, home, held) /\ Separate(arrays, slices2, home, held)
    BY <1>3, <1>5 DEF Sound, Housed, Separate
<1>7. Readable(hdr2, arrays, slices2, home, held)
    BY <1>1 DEF Sound, Readable, SameType
<1>8. TextsApart(hdr2, slices2, held)
    BY <1>1, <1>4 DEF Sound, TextsApart
<1>9. Owned(hdr2, arrays, slices2, home, held, own)
    BY <1>1, <1>3 DEF Sound, Owned, Exclusive
<1> QED
    BY <1>2, <1>6, <1>7, <1>8, <1>9 DEF Sound, hdr2, slices2

-----------------------------------------------------------------------------
(* Cells that are stored and copied.                                         *)

\* What Cells reads is what lies there (a loop over the slots of a slice).
LEMMA CellsLie ==
    ASSUME NEW st \in Bytes, NEW base \in Nat, NEW c \in Bytes, Lies(st, base, c)
    PROVE  Cells(st, base, Len(c)) = c
<1>1. Len(c) \in Nat /\ Len(st) \in Nat /\ DOMAIN st = 1 .. Len(st) /\ DOMAIN c = 1 .. Len(c)
    BY DEF Bytes
<1>2. ASSUME NEW i \in 1 .. Len(c)
      PROVE  Get(st, base + i - 1) = c[i]
    <2>1. base + i \in 1 .. Len(st) /\ st[base + i] = c[i]
        BY <1>1 DEF Lies
    <2>2. base + i - 1 + 1 = base + i
        BY <1>1
    <2> QED
        BY <2>1, <2>2, <1>1 DEF Get
<1>3. Cells(st, base, Len(c)) = [i \in 1 .. Len(c) |-> c[i]]
    BY <1>2 DEF Cells
<1> QED
    BY <1>1, <1>3 DEF Bytes

\* What was stored lies there.
LEMMA StoredLies ==
    ASSUME NEW st \in Bytes, NEW base \in Nat, NEW c \in Bytes, base + Len(c) <= Len(st)
    PROVE  Lies(Stored(st, base, c), base, c)
<1>1. Len(c) \in Nat /\ Len(st) \in Nat
    BY DEF Bytes
<1>2. ASSUME NEW i \in 1 .. Len(c)
      PROVE  Stored(st, base, c)[base + i] = c[i]
    <2> DEFINE j == base + i
    <2>1. j \in 1 .. Len(st) /\ base < j /\ j <= base + Len(c) /\ j - base = i
        BY <1>1
    <2> HIDE DEF j
    <2>2. Stored(st, base, c)[j] = c[j - base]
        BY <2>1, StoredSeq
    <2> QED
        BY <2>1, <2>2 DEF j
<1> QED
    BY <1>1, <1>2, StoredSeq DEF Lies

\* Cells elsewhere still lie where they did.
LEMMA StoredElsewhere ==
    ASSUME NEW st \in Bytes, NEW slot \in Nat, NEW cells \in Bytes,
           NEW base \in Nat, NEW c \in Bytes, Lies(st, base, c), Apart(base, Len(c), slot, Len(cells))
    PROVE  Lies(Stored(st, slot, cells), base, c)
<1>1. Len(c) \in Nat /\ Len(st) \in Nat /\ Len(cells) \in Nat
    BY DEF Bytes
<1>2. ASSUME NEW i \in 1 .. Len(c)
      PROVE  Stored(st, slot, cells)[base + i] = c[i]
    <2> DEFINE j == base + i
    <2>1. j \in 1 .. Len(st) /\ ~(slot < j /\ j <= slot + Len(cells)) /\ st[j] = c[i]
        BY <1>1 DEF Lies, Apart
    <2> HIDE DEF j
    <2>2. Stored(st, slot, cells)[j] = st[j]
        BY <2>1, StoredSeq
    <2> QED
        BY <2>1, <2>2 DEF j
<1> QED
    BY <1>1, <1>2, StoredSeq DEF Lies

\* A write into cells that lie on the stack is a write into the sequence.
LEMMA StoredWithin ==
    ASSUME NEW st \in Bytes, NEW base \in Nat, NEW c \in Bytes, Lies(st, base, c),
           NEW at \in Nat, NEW cells \in Bytes, at + Len(cells) <= Len(c)
    PROVE  Lies(Stored(st, base + at, cells), base, Stored(c, at, cells))
<1> DEFINE st2 == Stored(st, base + at, cells)
           c2 == Stored(c, at, cells)
<1>1. Len(c) \in Nat /\ Len(st) \in Nat /\ Len(cells) \in Nat
    BY DEF Bytes
<1>2. /\ Len(c2) = Len(c) /\ Len(st2) = Len(st)
      /\ \A i \in 1 .. Len(c) : c2[i] = IF at < i /\ i <= at + Len(cells) THEN cells[i - at] ELSE c[i]
      /\ \A i \in 1 .. Len(st) : st2[i] =
            IF base + at < i /\ i <= base + at + Len(cells) THEN cells[i - (base + at)] ELSE st[i]
    BY <1>1, StoredSeq
<1> HIDE DEF st2, c2
<1>3. ASSUME NEW i \in 1 .. Len(c)
      PROVE  st2[base + i] = c2[i]
    <2> DEFINE j == base + i
    <2>1. /\ j \in 1 .. Len(st) /\ st[j] = c[i] /\ j - (base + at) = i - at
          /\ (base + at < j /\ j <= base + at + Len(cells)) <=> (at < i /\ i <= at + Len(cells))
        BY <1>1 DEF Lies
    <2> HIDE DEF j
    <2>2. st2[j] = IF base + at < j /\ j <= base + at + Len(cells) THEN cells[j - (base + at)] ELSE st[j]
        BY <2>1, <1>2
    <2>3. c2[i] = IF at < i /\ i <= at + Len(cells) THEN cells[i - at] ELSE c[i]
        BY <1>2
    <2>4. st2[j] = c2[i]
        BY <2>1, <2>2, <2>3
    <2> QED
        BY <2>4 DEF j
<1>4. Len(c2) > 0 => base + Len(c2) <= Len(st2)
    BY <1>1, <1>2 DEF Lies
<1> QED
    BY <1>2, <1>3, <1>4 DEF Lies, st2, c2

\* Neighbours lie as one.
LEMMA LiesConcat ==
    ASSUME NEW st \in Bytes, NEW base \in Nat, NEW c \in Bytes, NEW d \in Bytes,
           Lies(st, base, c), Lies(st, base + Len(c), d)
    PROVE  Lies(st, base, c \o d)
<1>1. /\ Len(c) \in Nat /\ Len(d) \in Nat /\ Len(c \o d) = Len(c) + Len(d)
      /\ \A i \in 1 .. (Len(c) + Len(d)) : (c \o d)[i] = IF i <= Len(c) THEN c[i] ELSE d[i - Len(c)]
      /\ Len(st) \in Nat
    BY ConcatProperties DEF Bytes
<1>2. ASSUME NEW i \in 1 .. (Len(c) + Len(d))
      PROVE  st[base + i] = (c \o d)[i]
    <2>1. CASE i <= Len(c)
        BY <2>1, <1>1 DEF Lies
    <2>2. CASE i > Len(c)
        <3> DEFINE j == i - Len(c)
        <3>1. j \in 1 .. Len(d) /\ base + i = base + Len(c) + j
            BY <2>2, <1>1
        <3>2. (c \o d)[i] = d[j]
            BY <2>2, <1>1
        <3> HIDE DEF j
        <3>3. st[base + Len(c) + j] = d[j]
            BY <3>1 DEF Lies
        <3> QED
            BY <3>1, <3>2, <3>3
    <2> QED
        BY <2>1, <2>2, <1>1
<1>3. Len(c \o d) > 0 => base + Len(c \o d) <= Len(st)
    BY <1>1 DEF Lies
<1> QED
    BY <1>1, <1>2, <1>3 DEF Lies

\* A loop that walks forward copies what lies at its source, unless it walks into
\* what it has written (copyHeapBytes).
LEMMA CopyForward ==
    ASSUME NEW st \in Bytes, NEW dst \in Nat, NEW src \in Nat, NEW c \in Bytes, Lies(st, src, c),
           dst <= src \/ src + Len(c) <= dst
    PROVE  copyHeapBytes(st, dst, src, Len(c)) = Stored(st, dst, c)
<1> DEFINE from == [i \in 1 .. Len(c) |->
                        Get(st, src + (IF dst > src THEN (i - 1) % (dst - src) ELSE i - 1))]
<1>1. copyHeapBytes(st, dst, src, Len(c)) = Stored(st, dst, from)
    BY DEF copyHeapBytes, CopyLoop, SourceOffset
<1>2. Len(c) \in Nat
    BY DEF Bytes
<1>3. ASSUME NEW i \in 1 .. Len(c)
      PROVE  src + (IF dst > src THEN (i - 1) % (dst - src) ELSE i - 1) = src + i - 1
    BY <1>2
<1>4. from = Cells(st, src, Len(c))
    BY <1>3 DEF Cells
<1> HIDE DEF from
<1> QED
    BY <1>1, <1>4, CellsLie

-----------------------------------------------------------------------------
(* Operands.                                                                 *)

\* A machine, and the Go program beside it.
Mach(st, top, hdr, r) == [stack |-> st, top |-> top, header |-> hdr, result |-> r]
GoOf(arrays, slices, r) == [arrays |-> arrays, slices |-> slices, result |-> r]

\* The memory with another heap.
LEMMA MachWithHeap ==
    ASSUME NEW st, NEW top, NEW hdr, NEW r, NEW h
    PROVE  WithHeap(Mach(st, top, hdr, r), h) = Mach(h.stack, h.top, hdr, r)
<1> DEFINE q == WithHeap(Mach(st, top, hdr, r), h)
<1>1. q = [[stack |-> st, top |-> top, header |-> hdr, result |-> r] EXCEPT !.stack = h.stack, !.top = h.top]
    BY DEF WithHeap, Mach
<1> HIDE DEF q
<1>2. q = [stack |-> h.stack, top |-> h.top, header |-> hdr, result |-> r]
    BY <1>1
<1> QED
    BY <1>2 DEF q, Mach

\* The memory with another heap and another header for a name.
LEMMA MachWithSlice ==
    ASSUME NEW st, NEW top, NEW hdr, NEW r, NEW n, NEW v
    PROVE  WithSlice(Mach(st, top, hdr, r), n, v) = Mach(v.stack, v.top, [hdr EXCEPT ![n] = v.hd], r)
<1>1. WithSlice(Mach(st, top, hdr, r), n, v) = [Mach(v.stack, v.top, hdr, r) EXCEPT !.header[n] = v.hd]
    BY MachWithHeap DEF WithSlice
<1> QED
    BY <1>1 DEF Mach

\* What copy leaves in the memory: it walks forward when the source lies behind the
\* destination, else backward (emitCopy).
LEMMA MachCopied ==
    ASSUME NEW st \in Bytes, NEW top, NEW hdr, NEW r, NEW dst, NEW src, NEW size,
           dst.ptr \in Nat, src.ptr \in Nat, NEW c \in Bytes, Lies(st, src.ptr, c),
           Len(c) = MinOf(dst.len, src.len) * size
    PROVE  emitCopy(Mach(st, top, hdr, r), dst, src, size)
             = Mach(Stored(st, dst.ptr, c), top, hdr, MinOf(dst.len, src.len))
<1> DEFINE q == emitCopy(Mach(st, top, hdr, r), dst, src, size)
           k == MinOf(dst.len, src.len)
           Offset(i) == IF dst.ptr < src.ptr
                        THEN IF dst.ptr > src.ptr THEN i % (dst.ptr - src.ptr) ELSE i
                        ELSE IF dst.ptr < src.ptr
                             THEN Len(c) - 1 - ((Len(c) - 1 - i) % (src.ptr - dst.ptr)) ELSE i
           from == [i \in 1 .. Len(c) |-> Get(st, src.ptr + Offset(i - 1))]
<1>1. Len(c) \in Nat
    BY DEF Bytes
<1>2. \A i \in 1 .. Len(c) : src.ptr + Offset(i - 1) = src.ptr + i - 1
    BY <1>1
<1>3. from = Cells(st, src.ptr, Len(c))
    BY <1>2 DEF Cells
<1>4. q = [[stack |-> st, top |-> top, header |-> hdr, result |-> r]
               EXCEPT !.stack = Stored(st, dst.ptr, from), !.result = k]
    BY DEF emitCopy, Mach, CopyLoop, SourceOffset
<1> HIDE DEF q, k, from, Offset
<1>5. Stored(st, dst.ptr, from) = Stored(st, dst.ptr, c)
    BY <1>3, CellsLie
<1>6. q = [stack |-> Stored(st, dst.ptr, c), top |-> top, header |-> hdr, result |-> k]
    BY <1>4, <1>5
<1> QED
    BY <1>6 DEF q, k, Mach

\* A Go program with another slice for a name.
LEMMA GoWithSlice ==
    ASSUME NEW arrays, NEW slices, NEW r, NEW n, NEW v
    PROVE  WithGoSlice(GoOf(arrays, slices, r), n, v) = GoOf(v.arrays, [slices EXCEPT ![n] = v.slice], r)
<1> DEFINE q == WithGoSlice(GoOf(arrays, slices, r), n, v)
<1>1. q = [[arrays |-> arrays, slices |-> slices, result |-> r] EXCEPT !.arrays = v.arrays, !.slices[n] = v.slice]
    BY DEF WithGoSlice, GoOf
<1> HIDE DEF q
<1>2. q = [arrays |-> v.arrays, slices |-> [slices EXCEPT ![n] = v.slice], result |-> r]
    BY <1>1
<1> QED
    BY <1>2 DEF q, GoOf

\* What a header shows: cells that lie on the stack, in a buffer that is there.
LEMMA ShownCells ==
    ASSUME NEW st, NEW hdr, NEW arrays, NEW slices, NEW home, NEW held, NEW own,
           Sound(st, hdr, arrays, slices, home, held, own),
           NEW hd \in Header, NEW sl \in Slices, NEW size \in Nat \ {0},
           Shows(hd, sl, size, arrays, home), sl.arr \in Used(slices, held)
    PROVE  /\ hd.len = sl.len /\ hd.cap = sl.cap /\ sl.len <= sl.cap
           /\ hd.ptr \in Nat /\ hd.len \in Nat /\ hd.cap \in Nat /\ hd.ptr < Mod
           /\ hd.len * size \in Nat /\ hd.cap * size \in Nat /\ hd.len * size <= hd.cap * size
           /\ sl.off \in Nat /\ sl.arr \in 1 .. Len(arrays)
           /\ sl.off + hd.cap * size <= Len(arrays[sl.arr])
           /\ hd.cap > 0 => /\ hd.ptr + hd.cap * size <= Len(st)
                            /\ hd.ptr = home[sl.arr] + sl.off
           /\ LET c == SubSeq(arrays[sl.arr], sl.off + 1, sl.off + sl.len * size)
              IN  c \in Bytes /\ Len(c) = hd.len * size /\ Lies(st, hd.ptr, c)
<1> DEFINE a == sl.arr
           c == SubSeq(arrays[a], sl.off + 1, sl.off + sl.len * size)
<1>1. /\ a \in 1 .. Len(arrays) /\ arrays[a] \in Bytes /\ Len(arrays[a]) \in Nat
      /\ home[a] \in Nat /\ home[a] < Mod /\ Lies(st, home[a], arrays[a])
    BY HeldArray
<1>2. /\ hd.ptr \in Nat /\ hd.len \in Nat /\ hd.cap \in Nat /\ hd.ptr < Mod
      /\ sl.off \in Nat /\ sl.len \in Nat /\ sl.cap \in Nat
    BY ByteRange DEF Header, Slices
<1>3. NilHeader = [ptr |-> 0, len |-> 0, cap |-> 0]
    BY WrapSmall, SliceHeapAssumption DEF NilHeader, Hd
<1>4. /\ hd.len = sl.len /\ hd.cap = sl.cap /\ sl.len <= sl.cap
      /\ hd.cap > 0 => hd.ptr = home[a] + sl.off
      /\ \/ hd.ptr = home[a] + sl.off
         \/ sl.off = 0 /\ sl.len = 0
    <2>1. CASE IsNil(hd, sl)
        BY <2>1, <1>1, <1>3 DEF IsNil, GoNil, View
    <2>2. CASE ~IsNil(hd, sl)
        BY <2>2, <1>2 DEF Shows
    <2> QED
        BY <2>1, <2>2
<1>9. sl.off + hd.cap * size <= Len(arrays[a])
    <2>1. CASE IsNil(hd, sl)
        BY <2>1, <1>1, <1>3 DEF IsNil, GoNil, View
    <2>2. CASE ~IsNil(hd, sl)
        BY <2>2, <1>2 DEF Shows
    <2> QED
        BY <2>1, <2>2
<1> DEFINE used == hd.len * size
           room == hd.cap * size
<1>5. /\ used \in Nat /\ room \in Nat /\ used <= room
      /\ hd.cap > 0 => room > 0
      /\ hd.len > 0 => used > 0
      /\ hd.len = 0 => used = 0
      /\ hd.cap = 0 => room = 0
    BY <1>2, <1>4, TimesMonotone, Times
<1>10. sl.off + room <= Len(arrays[a])
    BY <1>9
<1>11. sl.len * size = used
    BY <1>4
<1> HIDE DEF used, room
<1>6. hd.cap > 0 => hd.ptr + room <= Len(st)
    <2>1. hd.cap > 0 => Len(arrays[a]) > 0
        BY <1>1, <1>2, <1>5, <1>10
    <2>2. Len(st) \in Nat
        BY DEF Sound, Typed, Bytes
    <2>3. Len(arrays[a]) > 0 => home[a] + Len(arrays[a]) <= Len(st)
        BY <1>1 DEF Lies
    <2>4. hd.cap > 0 => hd.ptr + room <= home[a] + Len(arrays[a])
        <3>1. home[a] \in Nat /\ sl.off \in Nat /\ room \in Nat /\ Len(arrays[a]) \in Nat
            BY <1>1, <1>2, <1>5
        <3>2. hd.cap > 0 => hd.ptr = home[a] + sl.off
            BY <1>4
        <3> QED
            BY <3>1, <3>2, <1>10
    <2> QED
        <3> DEFINE p == hd.ptr
                   h == home[a]
                   na == Len(arrays[a])
                   top == Len(st)
                   cap == hd.cap
        <3>1. /\ p \in Nat /\ h \in Nat /\ na \in Nat /\ top \in Nat /\ cap \in Nat /\ room \in Nat
              /\ (cap > 0 => na > 0) /\ (na > 0 => h + na <= top) /\ (cap > 0 => p + room <= h + na)
            BY ONLY <2>1, <2>2, <2>3, <2>4, <1>1, <1>2, <1>5
        <3>2. cap > 0 => p + room <= top
            <4> HIDE DEF p, h, na, top, cap
            <4> QED
                BY ONLY <3>1
        <3> QED
            BY ONLY <3>2
<1>7. /\ c \in Bytes /\ Len(c) = used
      /\ \A i \in 1 .. Len(c) : c[i] = arrays[a][sl.off + i]
    <2>1. used \in Nat /\ sl.off + used <= Len(arrays[a])
        BY ONLY <1>1, <1>2, <1>5, <1>10
    <2>2. /\ SubSeq(arrays[a], sl.off + 1, sl.off + used) \in Bytes
          /\ Len(SubSeq(arrays[a], sl.off + 1, sl.off + used)) = used
          /\ \A i \in 1 .. used : SubSeq(arrays[a], sl.off + 1, sl.off + used)[i] = arrays[a][sl.off + i]
        <3> DEFINE b == arrays[a]
                   m == sl.off + 1
                   k == sl.off + used
        <3>1. m \in Int /\ k \in Int /\ (m <= k => used = k - m + 1) /\ (m > k => used = 0)
            <4> DEFINE off == sl.off
            <4>1. off \in Nat /\ used \in Nat
                BY ONLY <2>1, <1>2
            <4> HIDE DEF off
            <4>2. /\ off + 1 \in Int /\ off + used \in Int
                  /\ off + 1 <= off + used => used = (off + used) - (off + 1) + 1
                  /\ off + 1 > off + used => used = 0
                BY ONLY <4>1
            <4> QED
                BY ONLY <4>2 DEF off, m, k
        <3>6. \A i \in m .. k : b[i] \in Byte
            <4>1. \A i \in 1 .. Len(b) : b[i] \in Byte
                BY ONLY <1>1 DEF Bytes
            <4>2. m .. k \subseteq 1 .. Len(b)
                <5> DEFINE off == sl.off
                           na == Len(b)
                <5>1. off \in Nat /\ used \in Nat /\ na \in Nat /\ off + used <= na
                    BY ONLY <2>1, <1>1, <1>2
                <5> HIDE DEF off, na
                <5>2. off + 1 .. off + used \subseteq 1 .. na
                    BY ONLY <5>1
                <5> QED
                    BY ONLY <5>2 DEF off, na
            <4> QED
                BY ONLY <4>1, <4>2
        <3>2. k - m + 1 = used /\ \A i \in 1 .. used : m + i - 1 = sl.off + i
            BY <2>1, <1>2
        <3> HIDE DEF b, m, k
        <3>3. /\ SubSeq(b, m, k) \in Seq(Byte)
              /\ Len(SubSeq(b, m, k)) = IF m <= k THEN k - m + 1 ELSE 0
              /\ \A i \in 1 .. k - m + 1 : SubSeq(b, m, k)[i] = b[m + i - 1]
            BY <3>1, <3>6, SubSeqProperties
        <3>4. Len(SubSeq(b, m, k)) = used
            BY <3>2, <3>3, <2>1, <3>1
        <3>5. \A i \in 1 .. used : SubSeq(b, m, k)[i] = b[sl.off + i]
            BY <3>2, <3>3
        <3> QED
            BY <3>3, <3>4, <3>5 DEF b, m, k, Bytes
    <2> QED
        BY <2>1, <2>2, <1>11
<1> HIDE DEF c
<1>8. Lies(st, hd.ptr, c)
    <2>1. ASSUME NEW i \in 1 .. Len(c)
          PROVE  st[hd.ptr + i] = c[i]
        <3>1. hd.ptr = home[a] + sl.off /\ sl.off + i \in 1 .. Len(arrays[a])
            <4>1. i \in Nat /\ 1 <= i /\ i <= used /\ sl.len > 0
                BY <1>4, <1>5, <1>7, <1>2
            <4>2. sl.off \in Nat /\ room \in Nat /\ used <= room /\ used \in Nat /\ Len(arrays[a]) \in Nat
                BY <1>1, <1>2, <1>5
            <4>3. sl.off + i \in 1 .. Len(arrays[a])
                BY ONLY <4>1, <4>2, <1>10
            <4> QED
                BY <4>1, <4>3, <1>4, <1>2
        <3>2. st[home[a] + (sl.off + i)] = arrays[a][sl.off + i]
            BY <3>1, <1>1 DEF Lies
        <3>3. home[a] + (sl.off + i) = hd.ptr + i
            <4> DEFINE p == hd.ptr
                       h == home[a]
                       off == sl.off
            <4>1. p = h + off /\ h \in Nat /\ off \in Nat /\ i \in Nat
                BY ONLY <3>1, <1>1, <1>2, i \in 1 .. Len(c)
            <4>2. h + (off + i) = p + i
                <5> HIDE DEF p, h, off
                <5> QED
                    BY ONLY <4>1
            <4> QED
                BY ONLY <4>2
        <3> QED
            BY ONLY <3>2, <3>3, <1>7, i \in 1 .. Len(c)
    <2>2. Len(c) > 0 => hd.cap > 0
        BY <1>2, <1>5, <1>7
    <2>3. Len(c) > 0 => hd.ptr + Len(c) <= Len(st)
        <3>1. Len(st) \in Nat
            BY DEF Sound, Typed, Bytes
        <3> QED
            BY <3>1, <2>2, <1>2, <1>5, <1>6, <1>7
    <2> QED
        BY <2>1, <2>3 DEF Lies
<1> QED
    BY <1>1, <1>2, <1>4, <1>5, <1>6, <1>7, <1>8, <1>10 DEF c, used, room

\* Reading a name that is held.
LEMMA NameCells ==
    ASSUME NEW st, NEW hdr, NEW arrays, NEW slices, NEW home, NEW held, NEW own,
           Sound(st, hdr, arrays, slices, home, held, own), NEW n \in held
    PROVE  /\ n \in Names /\ hdr[n] \in Header /\ slices[n] \in Slices /\ Size[n] \in Nat \ {0}
           /\ slices[n].arr \in Used(slices, held)
           /\ Shows(hdr[n], slices[n], Size[n], arrays, home)
<1> QED
    BY Sizes DEF Sound, Typed, Readable, Used

\* The numbers of a name that is held.
LEMMA NameNumbers ==
    ASSUME NEW st, NEW hdr, NEW arrays, NEW slices, NEW home, NEW held, NEW own,
           Sound(st, hdr, arrays, slices, home, held, own), NEW n \in held
    PROVE  LET hd == hdr[n]
               sl == slices[n]
               a == slices[n].arr
               room == hdr[n].cap * Size[n]
               c == SubSeq(arrays[a], sl.off + 1, sl.off + sl.len * Size[n])
           IN  /\ hd.len = sl.len /\ hd.cap = sl.cap /\ hd.len <= hd.cap
               /\ hd.ptr \in Nat /\ hd.len \in Nat /\ hd.cap \in Nat /\ sl.off \in Nat
               /\ hd.ptr < Mod /\ hd.len < Mod /\ hd.cap < Mod
               /\ room \in Nat /\ hd.len * Size[n] \in Nat /\ hd.len * Size[n] <= room
               /\ a \in 1 .. Len(arrays) /\ sl.off + room <= Len(arrays[a])
               /\ hd.cap > 0 => hd.ptr + room <= Len(st) /\ hd.ptr = home[a] + sl.off
               /\ c \in Bytes /\ Len(c) = hd.len * Size[n] /\ Lies(st, hd.ptr, c)
<1> DEFINE hd == hdr[n]
           sl == slices[n]
           size == Size[n]
<1>1. /\ hd \in Header /\ sl \in Slices /\ size \in Nat \ {0}
      /\ sl.arr \in Used(slices, held) /\ Shows(hd, sl, size, arrays, home)
    BY NameCells
<1> HIDE DEF hd, sl, size
<1>2. /\ hd.len = sl.len /\ hd.cap = sl.cap /\ sl.len <= sl.cap
      /\ hd.ptr \in Nat /\ hd.len \in Nat /\ hd.cap \in Nat /\ hd.ptr < Mod
      /\ sl.off \in Nat /\ sl.arr \in 1 .. Len(arrays)
    BY <1>1, ShownCells
<1>7. hd.len * size \in Nat /\ hd.cap * size \in Nat /\ hd.len * size <= hd.cap * size
    BY <1>1, <1>2, TimesMonotone
<1>4. sl.off + hd.cap * size <= Len(arrays[sl.arr])
    BY <1>1, ShownCells
<1>5. hd.cap > 0 => /\ hd.ptr + hd.cap * size <= Len(st)
                    /\ hd.ptr = home[sl.arr] + sl.off
    BY <1>1, ShownCells
<1>6. LET c == SubSeq(arrays[sl.arr], sl.off + 1, sl.off + sl.len * size)
      IN  c \in Bytes /\ Len(c) = hd.len * size /\ Lies(st, hd.ptr, c)
    BY <1>1, ShownCells, SMTT(30)
<1>3. hd.len < Mod /\ hd.cap < Mod
    BY <1>1, ByteRange DEF Header
<1> QED
    BY <1>2, <1>3, <1>4, <1>5, <1>6, <1>7 DEF hd, sl, size

-----------------------------------------------------------------------------
(* Fresh buffers.                                                            *)

\* Pushing twice is pushing.
LEMMA ExtendsTransitive ==
    ASSUME NEW st \in Bytes, NEW st2, NEW st3, Extends(st, st2), Extends(st2, st3)
    PROVE  Extends(st, st3)
<1>1. Len(st) \in Nat /\ Len(st2) \in Nat /\ Len(st3) \in Nat
    BY DEF Extends, Bytes
<1> QED
    BY <1>1 DEF Extends

\* What is stored behind the stack does not disturb it.
LEMMA ExtendsStored ==
    ASSUME NEW st \in Bytes, NEW st2, Extends(st, st2), NEW slot \in Nat, Len(st) <= slot, NEW cells \in Bytes
    PROVE  Extends(st, Stored(st2, slot, cells)) /\ Len(Stored(st2, slot, cells)) = Len(st2)
<1>1. Len(st) \in Nat /\ Len(st2) \in Nat /\ st2 \in Bytes
    BY DEF Extends, Bytes
<1>2. /\ Stored(st2, slot, cells) \in Bytes /\ Len(Stored(st2, slot, cells)) = Len(st2)
      /\ \A i \in 1 .. Len(st2) : Stored(st2, slot, cells)[i] =
            IF slot < i /\ i <= slot + Len(cells) THEN cells[i - slot] ELSE st2[i]
    BY <1>1, StoredSeq
<1> QED
    BY <1>1, <1>2 DEF Extends

\* Padding of cells that fill the room already.
LEMMA PaddedFull ==
    ASSUME NEW cells \in Bytes
    PROVE  Padded(cells, Len(cells)) = cells
<1>1. Len(cells) \in Nat /\ Len(cells) - Len(cells) = 0
    BY DEF Bytes
<1>2. Zeros(0) = << >>
    BY DEF Zeros
<1> QED
    BY <1>1, <1>2, ConcatEmptySeq DEF Padded, Bytes

\* What is stored in a fresh buffer (pushHeapRegion, then the cells).
LEMMA FreshStored ==
    ASSUME NEW st \in Bytes, NEW n \in Nat, NEW cells \in Bytes, Len(cells) <= n
    PROVE  LET st2 == Stored(st \o Zeros(n), Len(st), cells)
           IN  /\ Extends(st, st2) /\ Len(st2) = Len(st) + n
               /\ Padded(cells, n) \in Bytes /\ Len(Padded(cells, n)) = n
               /\ Lies(st2, Len(st), Padded(cells, n))
<1> DEFINE pushed == st \o Zeros(n)
           pad == Padded(cells, n)
<1>1. Len(st) \in Nat /\ Len(cells) \in Nat /\ n - Len(cells) \in Nat
    BY DEF Bytes
<1>2. Zeros(n) \in Bytes /\ Len(Zeros(n)) = n /\ \A i \in 1 .. n : Zeros(n)[i] = 0
    BY ZerosSeq
<1>3. /\ pushed \in Bytes /\ Len(pushed) = Len(st) + n /\ Extends(st, pushed)
      /\ \A i \in 1 .. n : pushed[Len(st) + i] = 0
    BY PushedSeq
<1>4. Lies(pushed, Len(st), Zeros(n))
    BY <1>1, <1>2, <1>3 DEF Lies
<1>5. pad \in Bytes /\ Len(pad) = n /\ \A i \in 1 .. n : pad[i] = IF i <= Len(cells) THEN cells[i] ELSE 0
    <2>1. /\ cells \o Zeros(n - Len(cells)) \in Bytes
          /\ Len(cells \o Zeros(n - Len(cells))) = Len(cells) + (n - Len(cells))
          /\ \A i \in 1 .. Len(cells) : (cells \o Zeros(n - Len(cells)))[i] = cells[i]
          /\ \A i \in 1 .. (n - Len(cells)) : (cells \o Zeros(n - Len(cells)))[Len(cells) + i] = 0
        BY <1>1, PushedSeq
    <2> HIDE DEF pad
    <2>2. pad = cells \o Zeros(n - Len(cells))
        BY DEF pad, Padded
    <2>3. Len(pad) = n
        BY <2>1, <2>2, <1>1
    <2>4. ASSUME NEW i \in 1 .. n, i > Len(cells)
          PROVE  pad[i] = 0
        <3>1. i - Len(cells) \in 1 .. (n - Len(cells)) /\ Len(cells) + (i - Len(cells)) = i
            BY <2>4, <1>1
        <3> QED
            BY <3>1, <2>1, <2>2
    <2>5. ASSUME NEW i \in 1 .. n, i <= Len(cells)
          PROVE  pad[i] = cells[i]
        BY <2>5, <2>1, <2>2, <1>1
    <2> QED
        BY <2>1, <2>2, <2>3, <2>4, <2>5, <1>1
<1>6. Stored(Zeros(n), 0, cells) = pad
    <2>1. /\ Stored(Zeros(n), 0, cells) \in Bytes /\ Len(Stored(Zeros(n), 0, cells)) = n
          /\ \A i \in 1 .. n : Stored(Zeros(n), 0, cells)[i] =
                IF 0 < i /\ i <= 0 + Len(cells) THEN cells[i - 0] ELSE Zeros(n)[i]
        BY <1>2, StoredSeq
    <2> HIDE DEF pad
    <2>2. \A i \in 1 .. n : Stored(Zeros(n), 0, cells)[i] = pad[i]
        BY <2>1, <1>1, <1>2, <1>5
    <2> QED
        BY <2>1, <2>2, <1>5, SeqEqual DEF Bytes
<1>7. Lies(Stored(pushed, Len(st) + 0, cells), Len(st), Stored(Zeros(n), 0, cells))
    BY <1>1, <1>2, <1>3, <1>4, StoredWithin
<1>8. Len(st) + 0 = Len(st)
    BY <1>1
<1>9. Extends(st, Stored(pushed, Len(st), cells)) /\ Len(Stored(pushed, Len(st), cells)) = Len(st) + n
    <2>1. Extends(st, pushed) /\ Len(pushed) = Len(st) + n /\ Len(st) \in Nat /\ Len(st) <= Len(st)
        BY <1>1, <1>3
    <2> HIDE DEF pushed
    <2> QED
        BY <2>1, ExtendsStored
<1> QED
    BY <1>5, <1>6, <1>7, <1>8, <1>9

\* A name gets a buffer that was pushed for it: what a literal, make, a conversion,
\* a concatenation or a reallocation leaves.
LEMMA SoundFresh ==
    ASSUME NEW st, NEW hdr, NEW arrays, NEW slices, NEW home, NEW held, NEW own,
           Sound(st, hdr, arrays, slices, home, held, own),
           NEW st2, Extends(st, st2), Len(st2) <= MaxSlots, NEW dst \in Names,
           NEW base \in Nat, Len(st) <= base, NEW cells \in Bytes, base + Len(cells) <= Len(st2),
           Lies(st2, base, cells),
           NEW len \in Nat, NEW cap \in Nat, len <= cap, cap * Size[dst] <= Len(cells),
           NEW own2, own2 \subseteq own \cup {dst}
    PROVE  \E home2 :
               Sound(st2, [hdr EXCEPT ![dst] = [ptr |-> base, len |-> len, cap |-> cap]],
                     Append(arrays, cells), [slices EXCEPT ![dst] = View(Len(arrays) + 1, 0, len, cap)],
                     home2, held \cup {dst}, own2)
<1>1. Sound(st, hdr, arrays, slices, home, held \ {dst}, own \ {dst})
    <2>1. own \subseteq held
        BY DEF Sound, Typed
    <2>2. held \ {dst} \subseteq held /\ own \ {dst} \subseteq own /\ own \ {dst} \subseteq held \ {dst}
        BY <2>1
    <2> HIDE <2>1
    <2> QED
        BY <2>2, SoundForget
<1>2. Sound(st2, hdr, arrays, slices, home, held \ {dst}, own \ {dst})
    BY <1>1, SoundGrow
<1>3. dst \in Names \ (held \ {dst}) /\ (held \ {dst}) \cup {dst} = held \cup {dst}
      /\ own2 \subseteq (own \ {dst}) \cup {dst}
    OBVIOUS
<1>4. HeapStart <= base
    BY SliceHeapAssumption DEF Sound, Typed, Bytes
<1>5. ASSUME NEW a \in Used(slices, held \ {dst})
      PROVE  Apart(home[a], Len(arrays[a]), base, Len(cells))
    <2>1. Lies(st, home[a], arrays[a]) /\ Len(arrays[a]) \in Nat /\ home[a] \in Nat /\ Len(st) \in Nat
        <3>1. Len(st) \in Nat
            BY DEF Sound, Typed, Bytes
        <3> QED
            BY <3>1, <1>1, HeldArray
    <2> QED
        BY <2>1 DEF Apart, Lies
<1>6. \E home2 :
          Sound(st2, [hdr EXCEPT ![dst] = [ptr |-> base, len |-> len, cap |-> cap]],
                Append(arrays, cells), [slices EXCEPT ![dst] = View(Len(arrays) + 1, 0, len, cap)],
                home2, (held \ {dst}) \cup {dst}, own2)
    BY <1>2, <1>3, <1>4, <1>5, SoundNew
<1> QED
    BY <1>3, <1>6

-----------------------------------------------------------------------------
(* What operands are.                                                        *)

\* A part of a slice is where it is in Go (lowerSliceFromSrc).
LEMMA ViewShows ==
    ASSUME NEW st, NEW hdr, NEW arrays, NEW slices, NEW home, NEW held, NEW own,
           Sound(st, hdr, arrays, slices, home, held, own), NEW h,
           NEW hd \in Header, NEW sl \in Slices, NEW size \in Nat \ {0},
           Shows(hd, sl, size, arrays, home), sl.arr \in Used(slices, held),
           NEW x, IsView(x), Bound(x.low, 0) <= Bound(x.high, sl.len),
           Bound(x.high, sl.len) <= Bound(x.max, sl.cap), Bound(x.max, sl.cap) <= sl.cap
    PROVE  LET v == lowerSliceFromSrc(h, hd, x, size)
           IN  /\ v.stack = h.stack /\ v.top = h.top
               /\ v.hd \in Header /\ GoView(sl, x, size) \in Slices /\ GoView(sl, x, size).arr = sl.arr
               /\ Shows(v.hd, GoView(sl, x, size), size, arrays, home)
               /\ IsNil(hd, sl) => IsNil(v.hd, GoView(sl, x, size))
<1> DEFINE low == Bound(x.low, 0)
           high == Bound(x.high, sl.len)
           max == Bound(x.max, sl.cap)
           sl2 == GoView(sl, x, size)
           v == lowerSliceFromSrc(h, hd, x, size)
<1>1. /\ hd.len = sl.len /\ hd.cap = sl.cap /\ hd.ptr \in Nat /\ hd.cap \in Nat /\ hd.ptr < Mod
      /\ sl.off \in Nat /\ sl.arr \in 1 .. Len(arrays) /\ sl.len \in Nat
    BY ShownCells
<1>2. sl.cap \in Nat /\ sl.cap < Mod /\ Mod \in Nat
    BY <1>1, ByteRange, SliceHeapAssumption DEF Header
<1>3. low \in Nat /\ high \in Nat /\ max \in Nat /\ low <= high /\ high <= max /\ max <= sl.cap
    BY <1>1, <1>2 DEF IsView, Bound, Omitted
<1> DEFINE skip == low * size
           room == (max - low) * size
           all == sl.cap * size
<1>4. skip \in Nat /\ room \in Nat /\ all \in Nat /\ skip + room <= all /\ (low = 0 => skip = 0)
    <2>1. skip \in Nat /\ room \in Nat /\ all \in Nat
        BY <1>2, <1>3
    <2>2. skip + room = max * size /\ max * size <= all
        BY <1>2, <1>3, TimesMonotone
    <2> QED
        BY <2>1, <2>2
<1>5. v = Value(h, Hd(hd.ptr + skip, high - low, max - low))
    BY <1>1 DEF lowerSliceFromSrc
<1>6. sl2 = View(sl.arr, sl.off + skip, high - low, max - low)
    BY DEF GoView
<1>14. sl.cap > 0 => hd.ptr + all <= Len(st)
    BY <1>1, ShownCells
<1> HIDE DEF low, high, max, sl2, v, skip, all, room
<1>7. (sl.cap > 0 => hd.ptr + all < Mod) /\ (sl.cap = 0 => low = 0 /\ skip = 0)
    <2>1. Len(st) \in Nat /\ Len(st) < Mod
        BY SliceHeapAssumption DEF Sound, Typed, Bytes
    <2>2. hd.ptr \in Nat
        BY <1>1
    <2>3. sl.cap > 0 => hd.ptr + all < Mod
        BY <2>1, <2>2, <1>2, <1>4, <1>14
    <2>4. sl.cap = 0 => low = 0
        BY <1>2, <1>3
    <2> QED
        BY <2>3, <2>4, <1>4
<1>8. high - low \in Nat /\ max - low \in Nat /\ high - low <= max - low /\ max - low < Mod
    BY <1>2, <1>3
<1>9. v.hd = [ptr |-> hd.ptr + skip, len |-> high - low, cap |-> max - low] /\ v.hd \in Header
    <2>1. hd.ptr + skip \in Nat /\ hd.ptr + skip < Mod /\ high - low < Mod
        <3>1. hd.ptr \in Nat /\ hd.ptr < Mod
            BY <1>1
        <3>2. CASE sl.cap = 0
            BY <3>1, <3>2, <1>2, <1>7, <1>8
        <3>3. CASE sl.cap > 0
            BY <3>1, <3>3, <1>2, <1>4, <1>7, <1>8
        <3> QED
            BY <3>2, <3>3, <1>2
    <2> QED
        BY <2>1, <1>5, <1>8, WrapSmall DEF Value, Hd, Header
<1>10. sl2 \in Slices /\ sl2.arr = sl.arr
    BY <1>1, <1>4, <1>6, <1>8 DEF View, Slices
<1>11. IsNil(hd, sl) => IsNil(v.hd, sl2)
    <2>1. NilHeader = [ptr |-> 0, len |-> 0, cap |-> 0]
        BY WrapSmall, SliceHeapAssumption DEF NilHeader, Hd
    <2>2. ASSUME sl.cap = 0
          PROVE  high - low = 0 /\ max - low = 0 /\ skip = 0
        BY <2>2, <1>2, <1>3, <1>7
    <2> QED
        BY <2>1, <2>2, <1>6, <1>9 DEF IsNil, GoNil, View
<1>12. Shows(v.hd, sl2, size, arrays, home)
    <2>1. CASE IsNil(hd, sl)
        BY <2>1, <1>11 DEF Shows
    <2>2. CASE ~IsNil(hd, sl)
        <3>1. /\ sl.off + all <= Len(arrays[sl.arr]) /\ hd.ptr = home[sl.arr] + sl.off
            BY <2>2 DEF Shows, all
        <3>2. Len(arrays[sl.arr]) \in Nat /\ home[sl.arr] \in Nat
            BY HeldArray
        <3>3. /\ (sl.off + skip) + room <= Len(arrays[sl.arr])
              /\ hd.ptr + skip = home[sl.arr] + (sl.off + skip)
            <4>1. hd.ptr \in Nat /\ sl.off \in Nat
                BY <1>1
            <4>2. (sl.off + skip) + room <= sl.off + all
                BY <4>1, <1>4
            <4>3. hd.ptr + skip = home[sl.arr] + (sl.off + skip)
                BY ONLY <3>1, <3>2, <4>1, <1>4
            <4> DEFINE na == Len(arrays[sl.arr])
                       off == sl.off
            <4>4. /\ na \in Nat /\ off \in Nat /\ off + all <= na /\ (off + skip) + room <= off + all
                  /\ all \in Nat /\ skip \in Nat /\ room \in Nat
                BY ONLY <3>1, <3>2, <4>1, <4>2, <1>4
            <4>5. (off + skip) + room <= na
                <5> HIDE DEF na, off
                <5> QED
                    BY ONLY <4>4
            <4> QED
                BY ONLY <4>3, <4>5
        <3>4. /\ sl2.arr \in 1 .. Len(arrays) /\ sl2.len <= sl2.cap
              /\ sl2.off + sl2.cap * size <= Len(arrays[sl2.arr])
              /\ v.hd.ptr = home[sl2.arr] + sl2.off /\ v.hd.len = sl2.len /\ v.hd.cap = sl2.cap
            BY <3>3, <1>1, <1>6, <1>8, <1>9 DEF View, room
        <3> QED
            BY <3>4 DEF Shows
    <2> QED
        BY <2>1, <2>2
<1>13. v.stack = h.stack /\ v.top = h.top
    BY <1>5 DEF Value
<1> QED
    BY <1>9, <1>10, <1>11, <1>12, <1>13 DEF v, sl2

\* A literal or a byte is put into a buffer of its own, a name or a part is not.
IsTemporary(x) == x.kind \in {"text", "byte"}
Width(x) == CASE x.kind = "text" -> Len(x.cells)
              [] x.kind = "byte" -> 1
              [] OTHER           -> 0

\* The slots that an operand takes, however high the heap is.
LEMMA OperandWidth ==
    ASSUME NEW st \in Bytes, NEW top \in Nat, NEW hdr, NEW r, NEW size, NEW x, IsOperand(x, size)
    PROVE  LET v == resolveStringSlice(Mach(st, top, hdr, r), x)
           IN  /\ v.stack \in Bytes /\ Width(x) \in Nat /\ Len(v.stack) = Len(st) + Width(x)
               /\ v.top = (IF IsTemporary(x) THEN Wrap(top + Width(x)) ELSE top)
<1> DEFINE v == resolveStringSlice(Mach(st, top, hdr, r), x)
<1>1. Wrap(top) \in Nat /\ Len(st) \in Nat
    BY SliceHeapAssumption DEF Wrap, Bytes
<1>2. CASE x.kind = "name" \/ x.kind = "view"
    BY <1>1, <1>2 DEF resolveStringSlice, IsName, IsLiteral, Value, HeapIn, Mach, lowerSliceFromSrc, Width,
                      IsTemporary
<1>3. CASE x.kind = "text"
    <2>1. x.cells \in Bytes /\ Len(x.cells) \in Nat /\ Len(x.cells) \div 1 = Len(x.cells)
        <3>1. x.cells \in Seq(Byte)
            BY <1>3 DEF IsOperand
        <3>2. Len(x.cells) \in Nat
            BY <3>1
        <3>3. \A k \in Nat : k \div 1 = k
            BY SMTT(30)
        <3> QED
            BY <3>1, <3>2, <3>3 DEF Bytes
    <2>2. /\ v.stack = Stored(st \o Zeros(Len(x.cells)), Wrap(top), x.cells)
          /\ v.top = Wrap(top + Len(x.cells))
        BY ONLY <1>3, <2>1, SMTT(40) DEF resolveStringSlice, IsName, IsLiteral, Value, HeapIn, Mach, evalStringLiteral,
                          evalSliceLiteral, pushHeapRegion, Pushed, Hd
    <2>3. st \o Zeros(Len(x.cells)) \in Bytes /\ Len(st \o Zeros(Len(x.cells))) = Len(st) + Len(x.cells)
        BY <2>1, PushedSeq
    <2> DEFINE pushed == st \o Zeros(Len(x.cells))
               cells == x.cells
               slot == Wrap(top)
    <2>4. v.stack = Stored(pushed, slot, cells) /\ pushed \in Bytes /\ slot \in Nat /\ cells \in Bytes
        BY <2>1, <2>2, <2>3, <1>1
    <2>5. Len(pushed) = Len(st) + Len(x.cells)
        BY <2>3
    <2> HIDE DEF v, pushed, cells, slot
    <2>6. v.stack \in Bytes /\ Len(v.stack) = Len(pushed)
        BY <2>4, StoredSeq
    <2> QED
        BY <1>3, <2>1, <2>2, <2>5, <2>6 DEF Width, IsTemporary, v
<1>4. CASE x.kind = "byte"
    <2>1. <<x.value>> \in Bytes
        BY <1>4 DEF IsOperand, Bytes
    <2>2. v.stack = Stored(st \o Zeros(1), Wrap(top), <<x.value>>) /\ v.top = Wrap(top + 1)
        BY ONLY <1>4, SMTT(40) DEF resolveStringSlice, IsName, IsLiteral, Value, HeapIn, Mach, evalByteToString,
                    pushHeapRegion, Pushed, Hd
    <2>3. st \o Zeros(1) \in Bytes /\ Len(st \o Zeros(1)) = Len(st) + 1
        BY PushedSeq
    <2> DEFINE pushed == st \o Zeros(1)
               cells == <<x.value>>
               slot == Wrap(top)
    <2>4. v.stack = Stored(pushed, slot, cells) /\ pushed \in Bytes /\ slot \in Nat /\ cells \in Bytes
        BY <2>1, <2>2, <2>3, <1>1
    <2>5. Len(pushed) = Len(st) + 1
        BY <2>3
    <2> HIDE DEF v, pushed, cells, slot
    <2>6. v.stack \in Bytes /\ Len(v.stack) = Len(pushed)
        BY <2>4, StoredSeq
    <2> QED
        BY <1>4, <2>2, <2>5, <2>6 DEF Width, IsTemporary, v
<1> QED
    BY <1>2, <1>3, <1>4 DEF IsOperand

\* An operand has the bytes that it has in Go, and they lie on the stack
\* (resolveStringSlice).
LEMMA OperandLies ==
    ASSUME NEW st, NEW hdr, NEW arrays, NEW slices, NEW home, NEW held, NEW own,
           Sound(st, hdr, arrays, slices, home, held, own),
           NEW r, NEW r2, NEW size \in Nat \ {0}, NEW x, IsOperand(x, size),
           OperandNames(x) \subseteq held, InBounds(slices, x), Len(st) + Width(x) <= MaxSlots,
           NEW v, v = resolveStringSlice(Mach(st, Len(st), hdr, r), x),
           NEW t, t = GoText(GoOf(arrays, slices, r2), x)
    PROVE  /\ v.hd \in Header /\ t \in Bytes /\ Len(t) = v.hd.len * size
           /\ Extends(st, v.stack) /\ Len(v.stack) = Len(st) + Width(x) /\ v.top = Len(v.stack)
           /\ Lies(v.stack, v.hd.ptr, t)
           /\ ~IsTemporary(x) => v.stack = st
           /\ IsTemporary(x) => /\ size = 1 /\ v.hd.ptr = Len(st)
                                /\ v.hd.len = Width(x) /\ v.hd.cap = Width(x)
<1>1. st \in Bytes /\ Len(st) \in Nat /\ Len(st) < Mod
    BY SliceHeapAssumption DEF Sound, Typed, Bytes
<1>2. Extends(st, st)
    BY <1>1 DEF Extends
<1>3. Width(x) \in Nat /\ Wrap(Len(st)) = Len(st) /\ Wrap(Len(st) + Width(x)) = Len(st) + Width(x)
    <2>1. Width(x) \in Nat
        BY <1>1, OperandWidth
    <2> QED
        BY <2>1, <1>1, WrapSmall, SliceHeapAssumption
<1>4. CASE x.kind = "name"
    <2>1. x.name \in held /\ Size[x.name] = size
        BY <1>4 DEF OperandNames, IsOperand
    <2>2. v = [stack |-> st, top |-> Len(st), hd |-> hdr[x.name]]
        BY ONLY <1>4, v = resolveStringSlice(Mach(st, Len(st), hdr, r), x)
           DEF resolveStringSlice, IsName, IsLiteral, Value, HeapIn, Mach
    <2>3. t = SubSeq(arrays[slices[x.name].arr], slices[x.name].off + 1,
                     slices[x.name].off + slices[x.name].len * size)
        BY <1>4, <2>1 DEF GoText, IsName, IsLiteral, GoCells, GoOf
    <2>4. hdr[x.name] \in Header /\ t \in Bytes /\ Len(t) = hdr[x.name].len * size /\ Lies(st, hdr[x.name].ptr, t)
        <3> DEFINE hd == hdr[x.name]
                   sl == slices[x.name]
        <3>1. /\ hd \in Header /\ sl \in Slices /\ sl.arr \in Used(slices, held)
              /\ Shows(hd, sl, size, arrays, home)
            BY <2>1, NameCells
        <3>2. t = SubSeq(arrays[sl.arr], sl.off + 1, sl.off + sl.len * size)
            BY <2>3
        <3> HIDE DEF hd, sl
        <3>3. LET c == SubSeq(arrays[sl.arr], sl.off + 1, sl.off + sl.len * size)
              IN  c \in Bytes /\ Len(c) = hd.len * size /\ Lies(st, hd.ptr, c)
            BY ONLY <3>1, Sound(st, hdr, arrays, slices, home, held, own), size \in Nat \ {0}, ShownCells, SMTT(30)
        <3> QED
            BY <3>1, <3>2, <3>3 DEF hd
    <2> QED
        BY <1>1, <1>2, <1>4, <2>2, <2>4 DEF Width, IsTemporary
<1>5. CASE x.kind = "view"
    <2> DEFINE n == x.name
               sl == GoView(slices[n], x, size)
    <2>1. n \in held /\ Size[n] = size /\ IsView(x)
        BY <1>5 DEF OperandNames, IsOperand, IsPart
    <2>2. /\ v = lowerSliceFromSrc(HeapIn(Mach(st, Len(st), hdr, r)), hdr[n], x, size)
          /\ HeapIn(Mach(st, Len(st), hdr, r)) = [stack |-> st, top |-> Len(st)]
        BY ONLY <1>5, <2>1, v = resolveStringSlice(Mach(st, Len(st), hdr, r), x)
           DEF resolveStringSlice, IsName, IsLiteral, HeapIn, Mach
    <2>3. t = SubSeq(arrays[sl.arr], sl.off + 1, sl.off + sl.len * size)
        BY <1>5, <2>1 DEF GoText, IsName, IsLiteral, GoOf
    <2>4. /\ Bound(x.low, 0) <= Bound(x.high, slices[n].len)
          /\ Bound(x.high, slices[n].len) <= Bound(x.max, slices[n].cap)
          /\ Bound(x.max, slices[n].cap) <= slices[n].cap
        BY <1>5 DEF InBounds
    <2>5. /\ hdr[n] \in Header /\ slices[n] \in Slices /\ slices[n].arr \in Used(slices, held)
          /\ Shows(hdr[n], slices[n], size, arrays, home)
        BY <2>1, NameCells
    <2>6. /\ v.stack = st /\ v.top = Len(st) /\ v.hd \in Header /\ sl \in Slices /\ sl.arr = slices[n].arr
          /\ Shows(v.hd, sl, size, arrays, home)
        BY <2>1, <2>2, <2>4, <2>5, ViewShows
    <2> HIDE DEF sl
    <2>7. t \in Bytes /\ Len(t) = v.hd.len * size /\ Lies(st, v.hd.ptr, t)
        <3> DEFINE hd == v.hd
        <3>1. /\ hd \in Header /\ sl \in Slices /\ sl.arr \in Used(slices, held)
              /\ Shows(hd, sl, size, arrays, home)
            BY <2>5, <2>6
        <3> HIDE DEF hd
        <3>2. LET c == SubSeq(arrays[sl.arr], sl.off + 1, sl.off + sl.len * size)
              IN  c \in Bytes /\ Len(c) = hd.len * size /\ Lies(st, hd.ptr, c)
            BY ONLY <3>1, Sound(st, hdr, arrays, slices, home, held, own), size \in Nat \ {0}, ShownCells, SMTT(30)
        <3> QED
            BY <3>2, <2>3 DEF hd
    <2> QED
        BY <1>1, <1>2, <1>5, <2>6, <2>7 DEF Width, IsTemporary
<1>6. CASE IsTemporary(x)
    <2> DEFINE w == Width(x)
    <2>1. t \in Bytes /\ Len(t) = w /\ size = 1 /\ w < Mod
        <3>1. CASE x.kind = "text"
            BY ONLY <3>1, IsOperand(x, size), t = GoText(GoOf(arrays, slices, r2), x)
               DEF GoText, IsName, IsLiteral, IsOperand, Width, Bytes
        <3>2. CASE x.kind = "byte"
            <4>1. x.value \in Byte /\ size = 1 /\ t = <<x.value>> /\ w = 1
                BY ONLY <3>2, IsOperand(x, size), t = GoText(GoOf(arrays, slices, r2), x)
                   DEF GoText, IsName, IsLiteral, IsOperand, Width
            <4>2. 1 < Mod
                BY ONLY SliceHeapAssumption
            <4> QED
                BY ONLY <4>1, <4>2 DEF Bytes
        <3> QED
            BY ONLY <3>1, <3>2, <1>6 DEF IsTemporary
    <2>2. v = [stack |-> Stored(st \o Zeros(w), Len(st), t), top |-> Len(st) + w,
               hd |-> [ptr |-> Len(st), len |-> w, cap |-> w]]
        <3>1. Wrap(w) = w /\ w \div 1 = w
            BY <2>1, <1>3, WrapSmall
        <3>2. CASE x.kind = "text"
            <4>1. t = x.cells /\ w = Len(x.cells)
                BY <3>2 DEF GoText, IsName, IsLiteral, Width
            <4>2. v = evalSliceLiteral(HeapIn(Mach(st, Len(st), hdr, r)), t, 1)
                BY <3>2, <4>1 DEF resolveStringSlice, IsName, IsLiteral, evalStringLiteral
            <4>3. Wrap(Len(t)) = w /\ Len(t) \div 1 = w /\ Wrap(Len(st) + Len(t)) = Len(st) + w
                BY <2>1, <3>1, <1>3
            <4> HIDE DEF w
            <4>4. pushHeapRegion([stack |-> st, top |-> Len(st)], Len(t), w, w) =
                      [stack |-> st \o Zeros(w), top |-> Len(st) + w,
                       hd |-> [ptr |-> Len(st), len |-> w, cap |-> w]]
                BY <2>1, <4>3, <3>1, <1>3 DEF Value, pushHeapRegion, Pushed, Hd
            <4>5. v = LET u == pushHeapRegion([stack |-> st, top |-> Len(st)], Len(t), w, w)
                      IN  [u EXCEPT !.stack = Stored(u.stack, u.hd.ptr, t)]
                BY <4>2, <4>3 DEF HeapIn, Mach, evalSliceLiteral
            <4> DEFINE u == [stack |-> st \o Zeros(w), top |-> Len(st) + w,
                             hd |-> [ptr |-> Len(st), len |-> w, cap |-> w]]
            <4>6. v = [u EXCEPT !.stack = Stored(u.stack, u.hd.ptr, t)]
                <5> HIDE DEF u
                <5> QED
                    BY <4>4, <4>5 DEF u
            <4> QED
                BY <4>6
        <3>3. CASE x.kind = "byte"
            <4>1. t = <<x.value>> /\ w = 1
                BY <3>3 DEF GoText, IsName, IsLiteral, Width
            <4>2. v = evalByteToString(HeapIn(Mach(st, Len(st), hdr, r)), x.value)
                BY <3>3 DEF resolveStringSlice, IsName, IsLiteral
            <4> QED
                BY <4>1, <4>2, <3>1, <1>3 DEF Value, HeapIn, Mach, evalByteToString, pushHeapRegion, Pushed, Hd
        <3> QED
            BY <3>2, <3>3, <1>6 DEF IsTemporary
    <2> HIDE DEF w
    <2>3. w \in Nat
        BY <1>3 DEF w
    <2>4. Padded(t, w) = t
        BY <2>1, PaddedFull
    <2>5. LET st2 == Stored(st \o Zeros(w), Len(st), t)
          IN  Extends(st, st2) /\ Len(st2) = Len(st) + w /\ Lies(st2, Len(st), t)
        BY <2>1, <2>3, <2>4, <1>1, FreshStored
    <2>6. v.hd \in Header /\ v.hd.len * size = w
        <3>1. Len(st) \in Byte /\ w \in Byte
            BY <1>1, <2>1, <2>3, ByteRange
        <3> QED
            BY <3>1, <2>1, <2>2, <2>3 DEF Header
    <2> QED
        BY <1>6, <2>1, <2>2, <2>5, <2>6 DEF w
<1> QED
    BY <1>4, <1>5, <1>6 DEF IsOperand, IsTemporary

-----------------------------------------------------------------------------
(* Statements that write into a slice.                                       *)

\* A machine and a Go program that agree about the names held.
Agrees(m, g, held, own) ==
    /\ m.top = Len(m.stack)
    /\ \E home : Sound(m.stack, m.header, g.arrays, g.slices, home, held, own)

\* The array of a slice is no string's.
LEMMA SliceArray ==
    ASSUME NEW st, NEW hdr, NEW arrays, NEW slices, NEW home, NEW held, NEW own,
           Sound(st, hdr, arrays, slices, home, held, own), NEW n \in held \ Strings
    PROVE  slices[n].arr \in Used(slices, held) \ Texts(slices, held)
BY TextUse DEF Sound, Used

\* Nothing is stored.
LEMMA StoredNothing ==
    ASSUME NEW st \in Bytes, NEW slot \in Nat
    PROVE  Stored(st, slot, << >>) = st
<1>1. << >> \in Bytes /\ Len(<< >>) = 0 /\ Len(st) \in Nat
    BY DEF Bytes
<1>2. /\ Stored(st, slot, << >>) \in Bytes /\ Len(Stored(st, slot, << >>)) = Len(st)
      /\ \A i \in 1 .. Len(st) : Stored(st, slot, << >>)[i] =
            IF slot < i /\ i <= slot + Len(<< >>) THEN << >>[i - slot] ELSE st[i]
    BY <1>1, StoredSeq
<1>3. \A i \in 1 .. Len(st) : Stored(st, slot, << >>)[i] = st[i]
    BY <1>1, <1>2
<1> QED
    BY <1>2, <1>3, SeqEqual DEF Bytes

\* Cells are stored in the buffer of a slice.
LEMMA SoundStore ==
    ASSUME NEW st, NEW hdr, NEW arrays, NEW slices, NEW home, NEW held, NEW own,
           Sound(st, hdr, arrays, slices, home, held, own), NEW n \in held \ Strings,
           NEW k \in Nat, NEW cells \in Bytes, k + Len(cells) <= hdr[n].cap * Size[n]
    PROVE  Sound(Stored(st, hdr[n].ptr + k, cells), hdr,
                 GoWrite(arrays, slices[n].arr, slices[n].off + k, cells), slices, home, held, own)
<1> DEFINE a == slices[n].arr
           off == slices[n].off
           ptr == hdr[n].ptr
           room == hdr[n].cap * Size[n]
<1>1. Size[n] \in Nat
    BY NameCells
<1>2. /\ ptr \in Nat /\ off \in Nat /\ room \in Nat /\ a \in 1 .. Len(arrays)
      /\ off + room <= Len(arrays[a]) /\ hdr[n].cap \in Nat
      /\ hdr[n].cap > 0 => ptr = home[a] + off
    BY NameNumbers
<1>3. a \in Used(slices, held) /\ a \notin Texts(slices, held)
    BY SliceArray
<1>4. /\ arrays[a] \in Bytes /\ Len(arrays[a]) \in Nat /\ home[a] \in Nat /\ Len(cells) \in Nat
      /\ st \in Bytes /\ arrays \in Seq(Bytes)
    <2>1. arrays[a] \in Bytes /\ Len(arrays[a]) \in Nat /\ home[a] \in Nat
        BY <1>3, HeldArray
    <2>2. Len(cells) \in Nat
        BY DEF Bytes
    <2> QED
        BY <2>1, <2>2 DEF Sound, Typed
<1>5. hdr[n].cap = 0 => room = 0
    BY <1>1
<1> HIDE DEF a, off, ptr, room
<1>6. CASE hdr[n].cap > 0
    <2>1. off + k \in Nat /\ off + k + Len(cells) <= Len(arrays[a]) /\ ptr + k = home[a] + (off + k)
        <3>1. k + Len(cells) <= room
            BY DEF room
        <3>2. off + room <= Len(arrays[a]) /\ ptr = home[a] + off /\ off \in Nat /\ room \in Nat
            BY <1>2, <1>6
        <3>3. Len(cells) \in Nat /\ Len(arrays[a]) \in Nat /\ home[a] \in Nat
            BY <1>4
        <3> HIDE DEF room
        <3> QED
            <4> DEFINE na == Len(arrays[a])
                       nc == Len(cells)
                       h == home[a]
            <4>1. /\ k + nc <= room /\ off + room <= na /\ ptr = h + off /\ off \in Nat /\ room \in Nat
                  /\ nc \in Nat /\ na \in Nat /\ h \in Nat /\ k \in Nat
                BY ONLY <3>1, <3>2, <3>3, k \in Nat
            <4>2. off + k \in Nat /\ off + k + nc <= na /\ ptr + k = h + (off + k)
                <5> HIDE DEF na, nc, h
                <5> QED
                    BY ONLY <4>1
            <4> QED
                BY ONLY <4>2
    <2>2. Sound(Stored(st, home[a] + (off + k), cells), hdr, GoWrite(arrays, a, off + k, cells),
                slices, home, held, own)
        BY <2>1, <1>3, SoundWrite
    <2> QED
        BY <2>1, <2>2 DEF a, off, ptr
<1>7. CASE hdr[n].cap = 0
    <2>1. Len(cells) = 0 /\ cells = << >> /\ k = 0
        <3>1. k + Len(cells) <= room
            BY DEF room
        <3>2. Len(cells) = 0 /\ k = 0
            BY <3>1, <1>4, <1>5, <1>7
        <3> QED
            BY <3>2, EmptySeq DEF Bytes
    <2>2. Stored(st, ptr + k, cells) = st /\ Stored(arrays[a], off + k, cells) = arrays[a]
        <3>1. ptr + k \in Nat /\ off + k \in Nat
            BY <1>2
        <3> QED
            BY <3>1, <2>1, <1>4, StoredNothing
    <2>3. GoWrite(arrays, a, off + k, cells) = arrays
        BY <2>2, <1>2, <1>4 DEF GoWrite
    <2> QED
        BY <2>2, <2>3 DEF a, off, ptr
<1> QED
    BY <1>2, <1>6, <1>7

\* s[at] = v writes the element that Go writes.
LEMMA SetStep ==
    ASSUME NEW st, NEW hdr, NEW arrays, NEW slices, NEW home, NEW held, NEW own,
           Sound(st, hdr, arrays, slices, home, held, own), NEW r, NEW r2,
           NEW s, s.op = "set", WellTyped(s), s.dst \in held, s.at < slices[s.dst].len, NEW kept
    PROVE  /\ Agrees(Execute(Mach(st, Len(st), hdr, r), s), GoExecute(GoOf(arrays, slices, r2), s, kept), held, own)
           /\ Execute(Mach(st, Len(st), hdr, r), s).result = r
           /\ GoExecute(GoOf(arrays, slices, r2), s, kept).result = r2
<1> DEFINE n == s.dst
           at == s.at * Size[n]
           m == Execute(Mach(st, Len(st), hdr, r), s)
           g == GoExecute(GoOf(arrays, slices, r2), s, kept)
<1>1. n \in held \ Strings /\ s.cells \in Bytes /\ Len(s.cells) = Size[n] /\ s.at \in Nat
    BY DEF WellTyped, IsElement, Bytes
<1>2. /\ m = [stack |-> Stored(st, hdr[n].ptr + at, s.cells), top |-> Len(st), header |-> hdr, result |-> r]
      /\ g = [arrays |-> GoWrite(arrays, slices[n].arr, slices[n].off + at, s.cells), slices |-> slices,
              result |-> r2]
    BY DEF Execute, GoExecute, Mach, GoOf, WithHeap, WithStack, HeapIn, Value, GoWrite
<1>3. Size[n] \in Nat \ {0}
    BY <1>1, NameCells
<1>4. hdr[n].ptr \in Nat /\ hdr[n].cap \in Nat /\ slices[n].len <= hdr[n].cap
    BY <1>1, NameNumbers
<1>5. at \in Nat /\ at + Len(s.cells) <= hdr[n].cap * Size[n]
    <2>1. at \in Nat /\ at + Size[n] = (s.at + 1) * Size[n]
        BY <1>1, <1>3
    <2>2. s.at + 1 <= hdr[n].cap /\ s.at + 1 \in Nat
        <3>1. slices[n].len \in Nat
            BY <1>1, NameNumbers
        <3> QED
            BY <3>1, <1>1, <1>4
    <2>3. (s.at + 1) * Size[n] <= hdr[n].cap * Size[n]
        BY <2>2, <1>3, <1>4, TimesMonotone
    <2> QED
        BY <2>1, <2>3, <1>1
<1> HIDE DEF at, m, g
<1>6. Sound(Stored(st, hdr[n].ptr + at, s.cells), hdr,
            GoWrite(arrays, slices[n].arr, slices[n].off + at, s.cells), slices, home, held, own)
    BY <1>1, <1>5, SoundStore
<1>7. Len(Stored(st, hdr[n].ptr + at, s.cells)) = Len(st)
    <2>1. hdr[n].ptr + at \in Nat /\ st \in Bytes
        BY <1>4, <1>5 DEF Sound, Typed
    <2> QED
        BY <2>1, <1>1, StoredSeq
<1> QED
    BY <1>2, <1>6, <1>7 DEF Agrees, m, g

\* clear(s) writes zeros over the elements.
LEMMA ClearStep ==
    ASSUME NEW st, NEW hdr, NEW arrays, NEW slices, NEW home, NEW held, NEW own,
           Sound(st, hdr, arrays, slices, home, held, own), NEW r, NEW r2,
           NEW s, s.op = "clear", WellTyped(s), s.dst \in held, NEW kept
    PROVE  /\ Agrees(Execute(Mach(st, Len(st), hdr, r), s), GoExecute(GoOf(arrays, slices, r2), s, kept), held, own)
           /\ Execute(Mach(st, Len(st), hdr, r), s).result = r
           /\ GoExecute(GoOf(arrays, slices, r2), s, kept).result = r2
<1> DEFINE n == s.dst
           used == hdr[n].len * Size[n]
           m == Execute(Mach(st, Len(st), hdr, r), s)
           g == GoExecute(GoOf(arrays, slices, r2), s, kept)
<1>1. n \in held \ Strings
    BY DEF WellTyped
<1>2. /\ hdr[n].len = slices[n].len /\ used \in Nat /\ used <= hdr[n].cap * Size[n]
      /\ hdr[n].ptr \in Nat /\ slices[n].off \in Nat
    BY <1>1, NameNumbers
<1>3. /\ m = [stack |-> Stored(st, hdr[n].ptr, Zeros(used)), top |-> Len(st), header |-> hdr, result |-> r]
      /\ g = [arrays |-> GoWrite(arrays, slices[n].arr, slices[n].off, Zeros(used)), slices |-> slices,
              result |-> r2]
    BY <1>2 DEF Execute, GoExecute, Mach, GoOf, HeapIn, Value, lowerClear, GoWrite
<1> HIDE DEF used, m, g
<1>4. Zeros(used) \in Bytes /\ 0 + Len(Zeros(used)) <= hdr[n].cap * Size[n]
    BY <1>2, ZerosSeq
<1>5. Sound(Stored(st, hdr[n].ptr + 0, Zeros(used)), hdr,
            GoWrite(arrays, slices[n].arr, slices[n].off + 0, Zeros(used)), slices, home, held, own)
    BY <1>1, <1>4, SoundStore
<1>6. Len(Stored(st, hdr[n].ptr, Zeros(used))) = Len(st)
    BY <1>2, <1>4, StoredSeq DEF Sound, Typed
<1>7. hdr[n].ptr + 0 = hdr[n].ptr /\ slices[n].off + 0 = slices[n].off
    BY <1>2
<1> QED
    BY <1>3, <1>5, <1>6, <1>7 DEF Agrees, m, g

\* The beginning of what lies on the stack.
LEMMA PrefixLies ==
    ASSUME NEW st, NEW base \in Nat, NEW c \in Bytes, Lies(st, base, c), Len(st) \in Nat,
           NEW k \in Nat, k <= Len(c)
    PROVE  SubSeq(c, 1, k) \in Bytes /\ Len(SubSeq(c, 1, k)) = k /\ Lies(st, base, SubSeq(c, 1, k))
<1>1. Len(c) \in Nat /\ \A i \in 1 .. k : c[i] \in Byte
    BY DEF Bytes
<1>2. /\ SubSeq(c, 1, k) \in Bytes /\ Len(SubSeq(c, 1, k)) = k
      /\ \A i \in 1 .. k : SubSeq(c, 1, k)[i] = c[i]
    BY <1>1 DEF Bytes
<1> QED
    BY <1>1, <1>2 DEF Lies

\* The number of elements in their cells.
LEMMA DivTimes ==
    ASSUME NEW k \in Nat, NEW size \in Nat \ {0}
    PROVE  (k * size) \div size = k
OBVIOUS

\* A buffer at the end of the heap is given back (freeIfHeapTop, for a temporary).
LEMMA FreeTop ==
    ASSUME NEW st \in Bytes, NEW ptr \in Nat, NEW len, NEW cap \in Nat, ptr + cap = Len(st), Len(st) <= MaxSlots
    PROVE  freeIfHeapTop([stack |-> st, top |-> Len(st)], [ptr |-> ptr, len |-> len, cap |-> cap])
               = [stack |-> SubSeq(st, 1, ptr), top |-> ptr]
<1>1. Wrap(ptr + cap) = Len(st)
    BY WrapSmall, SliceHeapAssumption
<1>2. Len(st) - cap = ptr
    BY DEF Bytes
<1> QED
    BY <1>1, <1>2 DEF freeIfHeapTop, AtTop, PoppedTo

\* The slots behind a sound heap are given back.
LEMMA SoundPop ==
    ASSUME NEW st, NEW hdr, NEW arrays, NEW slices, NEW home, NEW held, NEW own,
           Sound(st, hdr, arrays, slices, home, held, own),
           NEW st2, NEW arrays2, Sound(st2, hdr, arrays2, slices, home, held, own), Len(st) <= Len(st2),
           \A a \in Used(slices, held) : Len(arrays2[a]) = Len(arrays[a])
    PROVE  Sound(SubSeq(st2, 1, Len(st)), hdr, arrays2, slices, home, held, own)
<1>1. Len(st) \in Nat /\ HeapStart <= Len(st)
    BY DEF Sound, Typed, Bytes
<1>2. \A a \in Used(slices, held) : Len(arrays2[a]) > 0 => home[a] + Len(arrays2[a]) <= Len(st)
    BY HeldArray DEF Lies
<1> QED
    BY <1>1, <1>2, SoundShrink

\* Lengths are not changed by writing.
LEMMA WriteLengths ==
    ASSUME NEW arrays \in Seq(Bytes), NEW a \in 1 .. Len(arrays), NEW at \in Nat, NEW cells \in Bytes
    PROVE  \A b \in 1 .. Len(arrays) : Len(GoWrite(arrays, a, at, cells)[b]) = Len(arrays[b])
<1>1. arrays[a] \in Bytes
    OBVIOUS
<1>2. Len(Stored(arrays[a], at, cells)) = Len(arrays[a])
    BY <1>1, StoredSeq
<1> QED
    BY <1>2 DEF GoWrite

\* copy(d, s) moves what Go moves, wherever the two lie, and counts it (emitCopy).
LEMMA CopyStep ==
    ASSUME NEW st, NEW hdr, NEW arrays, NEW slices, NEW home, NEW held, NEW own,
           Sound(st, hdr, arrays, slices, home, held, own), NEW r, NEW r2,
           NEW s, s.op = "copy", WellTyped(s), s.dst \in held, NEW kept,
           OperandNames(s.src) \subseteq held, InBounds(slices, s.src), Len(st) + Width(s.src) <= MaxSlots
    PROVE  LET m == Execute(Mach(st, Len(st), hdr, r), s)
               g == GoExecute(GoOf(arrays, slices, r2), s, kept)
           IN  Agrees(m, g, held, own) /\ m.result = g.result /\ g.result \in Byte
<1> DEFINE n == s.dst
           x == s.src
           size == Size[n]
           v == resolveStringSlice(Mach(st, Len(st), hdr, r), x)
           t == GoText(GoOf(arrays, slices, r2), x)
           k == MinOf(hdr[n].len, v.hd.len)
           cells == SubSeq(t, 1, k * size)
           st3 == Stored(v.stack, hdr[n].ptr, cells)
           arrays2 == GoWrite(arrays, slices[n].arr, slices[n].off, cells)
           m == Execute(Mach(st, Len(st), hdr, r), s)
           g == GoExecute(GoOf(arrays, slices, r2), s, kept)
<1>1. n \in held \ Strings /\ IsOperand(x, size) /\ size \in Nat \ {0}
    BY NameCells DEF WellTyped
<1>2. /\ v.hd \in Header /\ t \in Bytes /\ Len(t) = v.hd.len * size
      /\ Extends(st, v.stack) /\ Len(v.stack) = Len(st) + Width(x) /\ v.top = Len(v.stack)
      /\ Lies(v.stack, v.hd.ptr, t)
      /\ ~IsTemporary(x) => v.stack = st
      /\ IsTemporary(x) => v.hd.ptr = Len(st) /\ v.hd.len = Width(x) /\ v.hd.cap = Width(x)
    <2>1. v = resolveStringSlice(Mach(st, Len(st), hdr, r), x) /\ t = GoText(GoOf(arrays, slices, r2), x)
        OBVIOUS
    <2> HIDE DEF v, t, x, size
    <2>2. OperandNames(x) \subseteq held /\ InBounds(slices, x) /\ Len(st) + Width(x) <= MaxSlots
        BY DEF x
    <2> QED
        BY <1>1, <2>1, <2>2, OperandLies
<1>3. /\ hdr[n].len = slices[n].len /\ hdr[n].len \in Nat /\ hdr[n].ptr \in Nat /\ hdr[n].cap \in Nat
      /\ hdr[n].len * size <= hdr[n].cap * size /\ slices[n].off \in Nat /\ hdr[n].len < Mod
      /\ slices[n].arr \in 1 .. Len(arrays)
    <2>1. n \in held
        BY <1>1
    <2>2. hdr[n].len * size <= hdr[n].cap * size
        BY <2>1, NameNumbers
    <2>3. /\ hdr[n].len = slices[n].len /\ hdr[n].len \in Nat /\ hdr[n].ptr \in Nat /\ hdr[n].cap \in Nat
          /\ slices[n].off \in Nat /\ hdr[n].len < Mod /\ slices[n].arr \in 1 .. Len(arrays)
        BY <2>1, NameNumbers
    <2> QED
        BY <2>2, <2>3
<1>4. v.hd.len \in Nat /\ v.hd.ptr \in Nat /\ v.stack \in Bytes /\ Len(v.stack) \in Nat /\ Len(st) \in Nat
    BY ONLY <1>2, ByteRange, Sound(st, hdr, arrays, slices, home, held, own) DEF Header, Extends, Sound, Typed, Bytes
<1>5. Len(t) \div size = v.hd.len
    BY <1>1, <1>2, <1>4, DivTimes
<1>6. /\ m = LET done == emitCopy(Mach(v.stack, v.top, hdr, r), hdr[n], v.hd, size)
             IN  IF x.kind \in {"name", "view"} THEN done
                 ELSE WithHeap(done, freeIfHeapTop([stack |-> done.stack, top |-> done.top], v.hd))
      /\ g = [arrays |-> arrays2, slices |-> slices, result |-> k]
    <2> DEFINE w == resolveStringSlice(Mach(st, Len(st), hdr, r), x)
               u == GoText(GoOf(arrays, slices, r2), x)
    <2>1. MinOf(slices[n].len, Len(u) \div size) = MinOf(hdr[n].len, w.hd.len)
        BY <1>3, <1>5
    <2> HIDE DEF w, u
    <2>2. m = LET done == emitCopy(WithHeap(Mach(st, Len(st), hdr, r), w), hdr[n], w.hd, size)
              IN  IF x.kind \in {"name", "view"} THEN done
                  ELSE WithHeap(done, freeIfHeapTop(HeapIn(done), w.hd))
        BY DEF Execute, Value, Mach, w
    <2>3. WithHeap(Mach(st, Len(st), hdr, r), w) = Mach(w.stack, w.top, hdr, r)
        BY MachWithHeap
    <2>4. g = LET c == MinOf(slices[n].len, Len(u) \div size)
              IN  [arrays |-> GoWrite(arrays, slices[n].arr, slices[n].off, SubSeq(u, 1, c * size)),
                   slices |-> slices, result |-> c]
        BY DEF GoExecute, GoOf, u, GoWrite
    <2> QED
        BY <2>1, <2>2, <2>3, <2>4 DEF w, u, HeapIn
<1> HIDE DEF v, t, m, g
<1>7. k \in Nat /\ k <= v.hd.len /\ k <= hdr[n].len /\ k < Mod
    <2>1. Mod \in Nat
        BY SliceHeapAssumption
    <2> QED
        BY <2>1, <1>3, <1>4 DEF MinOf
<1>8. k * size \in Nat /\ k * size <= Len(t) /\ k * size <= hdr[n].cap * size
    <2>1. k * size \in Nat /\ k * size <= v.hd.len * size
        BY ONLY <1>1, <1>4, <1>7, TimesMonotone
    <2>2. k <= hdr[n].cap
        <3>1. hdr[n].len <= hdr[n].cap /\ hdr[n].len \in Nat /\ hdr[n].cap \in Nat
            BY ONLY <1>1, <1>3, Sound(st, hdr, arrays, slices, home, held, own), NameNumbers
        <3> HIDE DEF k
        <3> QED
            BY ONLY <3>1, <1>7
    <2> HIDE DEF k
    <2>3. k * size <= hdr[n].cap * size
        BY <2>2, <1>1, <1>3, <1>7, TimesMonotone
    <2> QED
        BY <2>1, <2>3, <1>2
<1>9. cells \in Bytes /\ Len(cells) = k * size /\ Lies(v.stack, v.hd.ptr, cells)
    BY <1>2, <1>4, <1>8, PrefixLies
<1>10. emitCopy(Mach(v.stack, v.top, hdr, r), hdr[n], v.hd, size) = Mach(st3, v.top, hdr, k)
    <2> QED
        <3> DEFINE q == v.hd
                   h == hdr[n]
                   p == v.stack
                   top == v.top
        <3>1. p \in Bytes /\ h.ptr \in Nat /\ q.ptr \in Nat /\ cells \in Bytes /\ Lies(p, q.ptr, cells)
            BY ONLY <1>3, <1>4, <1>9
        <3>2. Len(cells) = MinOf(h.len, q.len) * size
            BY ONLY <1>9
        <3> HIDE DEF q, h, p, top, cells, size
        <3>3. emitCopy(Mach(p, top, hdr, r), h, q, size) = Mach(Stored(p, h.ptr, cells), top, hdr, MinOf(h.len, q.len))
            BY ONLY <3>1, <3>2, MachCopied
        <3> QED
            BY ONLY <3>3 DEF q, h, p, top
<1> HIDE DEF k, cells
<1>11. Sound(v.stack, hdr, arrays, slices, home, held, own)
    <2>1. Len(v.stack) <= MaxSlots
        BY <1>2
    <2> QED
        BY <2>1, <1>2, SoundGrow
<1>12. Sound(st3, hdr, arrays2, slices, home, held, own) /\ st3 \in Bytes /\ Len(st3) = Len(v.stack)
    <2>1. 0 + Len(cells) <= hdr[n].cap * Size[n]
        BY <1>8, <1>9
    <2>2. Sound(Stored(v.stack, hdr[n].ptr + 0, cells), hdr,
                GoWrite(arrays, slices[n].arr, slices[n].off + 0, cells), slices, home, held, own)
        BY <2>1, <1>1, <1>9, <1>11, SoundStore
    <2>3. hdr[n].ptr + 0 = hdr[n].ptr /\ slices[n].off + 0 = slices[n].off
        BY <1>3
    <2> QED
        <3>1. st3 \in Bytes /\ Len(st3) = Len(v.stack)
            BY ONLY <1>3, <1>4, <1>9, StoredSeq
        <3> QED
            BY ONLY <2>2, <2>3, <3>1
<1> HIDE DEF st3
<1>13. CASE ~IsTemporary(x)
    <2>1. x.kind \in {"name", "view"}
        BY <1>1, <1>13 DEF IsOperand, IsTemporary
    <2>2. m = Mach(st3, v.top, hdr, k)
        BY <2>1, <1>6, <1>10
    <2> QED
        BY <2>2, <1>2, <1>6, <1>7, <1>12, ByteRange DEF Agrees, Mach, m, g
<1>14. CASE IsTemporary(x)
    <2>1. freeIfHeapTop([stack |-> st3, top |-> Len(st3)], [ptr |-> Len(st), len |-> v.hd.len, cap |-> Width(x)])
              = [stack |-> SubSeq(st3, 1, Len(st)), top |-> Len(st)]
        <3>1. Width(x) \in Nat
            BY <1>1, OperandWidth DEF Sound, Typed
        <3> QED
            BY <3>1, <1>2, <1>4, <1>12, FreeTop
    <2>2. v.hd = [ptr |-> Len(st), len |-> v.hd.len, cap |-> Width(x)]
        BY <1>2, <1>14 DEF Header
    <2>3. freeIfHeapTop([stack |-> st3, top |-> v.top], v.hd) = [stack |-> SubSeq(st3, 1, Len(st)), top |-> Len(st)]
        BY <2>1, <2>2, <1>2, <1>12
    <2>4. x.kind \notin {"name", "view"}
        BY <1>14 DEF IsTemporary
    <2>5. m = Mach(SubSeq(st3, 1, Len(st)), Len(st), hdr, k)
        <3>1. m = WithHeap(Mach(st3, v.top, hdr, k), freeIfHeapTop([stack |-> st3, top |-> v.top], v.hd))
            BY <2>4, <1>6, <1>10 DEF Mach
        <3> DEFINE rest == freeIfHeapTop([stack |-> st3, top |-> v.top], v.hd)
        <3>2. rest.stack = SubSeq(st3, 1, Len(st)) /\ rest.top = Len(st)
            BY <2>3
        <3> HIDE DEF rest
        <3>3. WithHeap(Mach(st3, v.top, hdr, k), rest) = Mach(rest.stack, rest.top, hdr, k)
            BY MachWithHeap
        <3> QED
            BY <3>1, <3>2, <3>3 DEF rest
    <2>6. Sound(SubSeq(st3, 1, Len(st)), hdr, arrays2, slices, home, held, own)
        <3>1. Len(st) <= Len(st3)
            BY <1>2, <1>12 DEF Extends
        <3>2. \A a \in Used(slices, held) : Len(arrays2[a]) = Len(arrays[a])
            <4>1. Used(slices, held) \subseteq 1 .. Len(arrays)
                BY HeldArray
            <4>2. arrays \in Seq(Bytes)
                BY DEF Sound, Typed
            <4> QED
                BY <4>1, <4>2, <1>3, <1>9, WriteLengths
        <3> QED
            BY <3>1, <3>2, <1>12, SoundPop
    <2>7. Len(SubSeq(st3, 1, Len(st))) = Len(st)
        BY <1>2, <1>4, <1>12 DEF Extends, Bytes
    <2> QED
        <3>1. /\ m.stack = SubSeq(st3, 1, Len(st)) /\ m.top = Len(st) /\ m.header = hdr /\ m.result = k
              /\ g.arrays = arrays2 /\ g.slices = slices /\ g.result = k
            BY <2>5, <1>6 DEF Mach
        <3>2. k \in Byte
            BY <1>7, ByteRange
        <3>3. Agrees(m, g, held, own)
            BY <3>1, <2>6, <2>7 DEF Agrees
        <3> QED
            BY <3>1, <3>2, <3>3 DEF m, g
<1> QED
    BY <1>13, <1>14

-----------------------------------------------------------------------------
(* Buffers that grow.                                                        *)

\* The cells of a and b elements.
LEMMA Distribute ==
    ASSUME NEW a \in Nat, NEW b \in Nat, NEW size \in Nat \ {0}
    PROVE  (a + b) * size = a * size + b * size /\ a * size \in Nat /\ b * size \in Nat
OBVIOUS

\* What is stored changes no length, wherever it would go.
LEMMA StoredLength ==
    ASSUME NEW st, DOMAIN st = 1 .. Len(st), Len(st) \in Nat, NEW slot, NEW cells
    PROVE  DOMAIN Stored(st, slot, cells) = 1 .. Len(st) /\ Len(Stored(st, slot, cells)) = Len(st)
BY DEF Stored

\* Cells of a number of elements.
Fits(cells, len, size) == Len(cells) = len * size

\* A reallocated buffer lies at the end of the heap, with the old cells in front
\* (Reallocated: push, then copyHeapBytes).
LEMMA ReallocatedLies ==
    ASSUME NEW st \in Bytes, NEW hd \in Header, NEW c \in Bytes, NEW size \in Nat \ {0},
           Lies(st, hd.ptr, c), Fits(c, hd.len, size), NEW cap \in Nat, hd.len <= cap,
           NEW room, room = cap * size, Len(st) + room <= MaxSlots,
           NEW v, v = Value([stack |-> st, top |-> Len(st)], hd), NEW q, q = Reallocated(v, cap, size)
    PROVE  /\ q = Value([stack |-> Stored(st \o Zeros(room), Len(st), c), top |-> Len(st) + room],
                        [ptr |-> Len(st), len |-> hd.len, cap |-> cap])
           /\ Len(c) <= room /\ room \in Nat
<1> DEFINE k == cap * size
           st2 == st \o Zeros(k)
<1>1. /\ hd.len \in Nat /\ hd.ptr \in Nat /\ hd.len < Mod /\ Len(st) \in Nat /\ Mod \in Nat
      /\ MaxSlots \in Nat /\ MaxSlots < Mod
    BY ByteRange, SliceHeapAssumption DEF Header, Bytes
<1>2. k \in Nat /\ cap <= k /\ Len(c) <= k
    BY <1>1, Times, TimesMonotone DEF Fits
<1> HIDE DEF k
<1>3. st2 \in Bytes /\ Extends(st, st2)
    BY <1>2, PushedSeq
<1>4. Wrap(Len(st) + k) = Len(st) + k /\ Wrap(Len(st)) = Len(st) /\ Wrap(hd.len) = hd.len /\ Wrap(cap) = cap
    <2>1. Len(st) + k < Mod /\ cap < Mod /\ Len(st) + k \in Nat
        BY <1>1, <1>2 DEF k
    <2> QED
        BY <2>1, <1>1, <1>2, WrapSmall
<1>5. Lies(st2, hd.ptr, c) /\ (Len(st) <= hd.ptr \/ hd.ptr + Len(c) <= Len(st))
    <2>1. Lies(st2, hd.ptr, c)
        BY <1>1, <1>3, ExtendedLies
    <2>2. Len(c) > 0 => hd.ptr + Len(c) <= Len(st)
        BY DEF Lies
    <2>3. Len(c) \in Nat
        BY DEF Bytes
    <2> QED
        BY <2>1, <2>2, <2>3, <1>1
<1> HIDE DEF st2
<1>6. copyHeapBytes(st2, Len(st), hd.ptr, hd.len * size) = Stored(st2, Len(st), c)
    <2>1. Len(c) = hd.len * size
        BY DEF Fits
    <2>2. copyHeapBytes(st2, Len(st), hd.ptr, Len(c)) = Stored(st2, Len(st), c)
        BY ONLY <1>1, <1>3, <1>5, c \in Bytes, CopyForward
    <2> QED
        BY ONLY <2>1, <2>2
<1>7. HeapOf(v) = [stack |-> st, top |-> Len(st)] /\ v.hd = hd
    BY DEF HeapOf, Value
<1>8. pushHeapRegion(HeapOf(v), k, v.hd.len, cap)
          = [stack |-> st2, top |-> Len(st) + k, hd |-> [ptr |-> Len(st), len |-> hd.len, cap |-> cap]]
    <2>1. Pushed([stack |-> st, top |-> Len(st)], k) = [stack |-> st2, top |-> Len(st) + k]
        BY <1>4 DEF Pushed, st2
    <2>2. Hd(Len(st), hd.len, cap) = [ptr |-> Len(st), len |-> hd.len, cap |-> cap]
        BY <1>4 DEF Hd
    <2>3. pushHeapRegion([stack |-> st, top |-> Len(st)], k, hd.len, cap)
              = Value(Pushed([stack |-> st, top |-> Len(st)], k), Hd(Len(st), hd.len, cap))
        BY DEF pushHeapRegion
    <2>4. pushHeapRegion([stack |-> st, top |-> Len(st)], k, hd.len, cap)
              = Value([stack |-> st2, top |-> Len(st) + k], [ptr |-> Len(st), len |-> hd.len, cap |-> cap])
        BY <2>1, <2>2, <2>3
    <2> QED
        BY <2>4, <1>7 DEF Value
<1> DEFINE new == pushHeapRegion(HeapOf(v), k, v.hd.len, cap)
<1>9. q = [new EXCEPT !.stack = copyHeapBytes(new.stack, new.hd.ptr, v.hd.ptr, v.hd.len * size)]
    BY DEF Reallocated, k
<1>10. new.stack = st2 /\ new.hd.ptr = Len(st)
    BY <1>8
<1>11. q = [new EXCEPT !.stack = Stored(st2, Len(st), c)]
    BY <1>6, <1>7, <1>9, <1>10
<1> HIDE DEF new
<1>12. q = [stack |-> Stored(st2, Len(st), c), top |-> Len(st) + k,
            hd |-> [ptr |-> Len(st), len |-> hd.len, cap |-> cap]]
    BY <1>8, <1>11 DEF new
<1> QED
    BY <1>2, <1>12 DEF Value, k, st2

\* How high the stack is after a reallocation, however high that is.
LEMMA ReallocatedLength ==
    ASSUME NEW v, v.stack \in Bytes, NEW cap \in Nat, NEW size \in Nat
    PROVE  /\ Len(Reallocated(v, cap, size).stack) = Len(v.stack) + cap * size
           /\ DOMAIN Reallocated(v, cap, size).stack = 1 .. Len(Reallocated(v, cap, size).stack)
<1> DEFINE k == cap * size
           st == v.stack
           top == v.top
           hd == v.hd
           q == Reallocated(v, cap, size)
           st2 == st \o Zeros(k)
           new == pushHeapRegion(HeapOf(v), k, v.hd.len, cap)
<1>0. k \in Nat
    OBVIOUS
<1>1. st2 \in Bytes /\ Len(st2) = Len(st) + k
    <2> HIDE DEF k
    <2> QED
        BY <1>0, PushedSeq
<1>2. new = [stack |-> st2, top |-> Wrap(top + k), hd |-> Hd(top, hd.len, cap)]
    BY DEF pushHeapRegion, Pushed, Value, HeapOf
<1>3. q = [new EXCEPT !.stack = copyHeapBytes(new.stack, new.hd.ptr, v.hd.ptr, v.hd.len * size)]
    BY DEF Reallocated
<1> HIDE DEF k, new, st2, q
<1>4. q.stack = copyHeapBytes(st2, new.hd.ptr, v.hd.ptr, v.hd.len * size)
    BY <1>2, <1>3
<1>5. DOMAIN st2 = 1 .. Len(st2) /\ Len(st2) \in Nat
    BY <1>1 DEF Bytes
<1>6. Len(q.stack) = Len(st) + k /\ DOMAIN q.stack = 1 .. Len(q.stack)
    BY ONLY <1>0, <1>1, <1>4, <1>5, StoredLength DEF copyHeapBytes, CopyLoop
<1> QED
    BY ONLY <1>6 DEF q, st, k

\* The second half of append(s, t...) into a new buffer: the elements of t come
\* behind those of s, which are t's own when s is appended to itself.
LEMMA SpreadMoved ==
    ASSUME NEW st \in Bytes, NEW c \in Bytes, NEW t \in Bytes, NEW n \in Nat, n = Len(c) + Len(t),
           NEW st2, st2 = Stored(st \o Zeros(n), Len(st), c),
           NEW from \in Nat, (from = Len(st) /\ t = c) \/ Lies(st, from, t),
           NEW w, w = copyHeapBytes(st2, Len(st) + Len(c), from, Len(t))
    PROVE  w \in Bytes /\ Extends(st, w) /\ Len(w) = Len(st) + n /\ Lies(w, Len(st), c \o t)
<1>1. Len(c) \in Nat /\ Len(t) \in Nat /\ Len(st) \in Nat
    BY DEF Bytes
<1> DEFINE st1 == st \o Zeros(n)
<1>2. st1 \in Bytes /\ Len(st1) = Len(st) + n /\ Extends(st, st1)
    BY PushedSeq
<1> HIDE DEF st1
<1>3. st2 = Stored(st1, Len(st), c)
    BY DEF st1
<1>4. Extends(st, st2) /\ Len(st2) = Len(st) + n /\ st2 \in Bytes
    BY ONLY <1>1, <1>2, <1>3, st \in Bytes, c \in Bytes, ExtendsStored DEF Extends
<1>5. Lies(st2, Len(st), c)
    BY <1>1, <1>2, <1>3, StoredLies
<1>6. Lies(st2, from, t)
    BY <1>1, <1>4, <1>5, ExtendedLies
<1>7. Len(st) + Len(c) <= from \/ from + Len(t) <= Len(st) + Len(c)
    <2>1. Len(t) > 0 /\ Lies(st, from, t) => from + Len(t) <= Len(st)
        BY DEF Lies
    <2> QED
        BY <2>1, <1>1
<1>8. w = Stored(st2, Len(st) + Len(c), t)
    BY <1>1, <1>4, <1>6, <1>7, CopyForward
<1>9. Extends(st, w) /\ Len(w) = Len(st) + n /\ w \in Bytes
    <2>1. Len(st) <= Len(st) + Len(c) /\ Len(st) + Len(c) \in Nat
        BY <1>1
    <2> QED
        BY <2>1, <1>1, <1>4, <1>8, ExtendsStored DEF Extends
<1>10. Lies(w, Len(st), c)
    <2>1. Apart(Len(st), Len(c), Len(st) + Len(c), Len(t))
        BY <1>1 DEF Apart
    <2> QED
        BY <2>1, <1>1, <1>4, <1>5, <1>8, StoredElsewhere
<1>11. Lies(w, Len(st) + Len(c), t)
    BY <1>1, <1>4, <1>8, StoredLies
<1> QED
    BY <1>1, <1>9, <1>10, <1>11, LiesConcat

\* The array of a name is no array that a name of the body owns, but for its own.
LEMMA NotOwned ==
    ASSUME NEW st, NEW hdr, NEW arrays, NEW slices, NEW home, NEW held, NEW own,
           Sound(st, hdr, arrays, slices, home, held, own), NEW n \in held,
           NEW m \in own \ {n}
    PROVE  IsNil(hdr[m], slices[m]) \/ slices[m].arr # slices[n].arr
BY DEF Sound, Owned, Exclusive

\* A slice keeps its place, and gets another length and capacity.
LEMMA SoundResize ==
    ASSUME NEW st, NEW hdr, NEW arrays, NEW slices, NEW home, NEW held, NEW own,
           Sound(st, hdr, arrays, slices, home, held, own), NEW n \in held \ Strings,
           NEW len \in Nat, NEW cap \in Nat, len <= cap,
           slices[n].off + cap * Size[n] <= Len(arrays[slices[n].arr]),
           hdr[n].ptr = home[slices[n].arr] + slices[n].off,
           NEW own2, own2 \subseteq own \ {n}
    PROVE  Sound(st, [hdr EXCEPT ![n] = [@ EXCEPT !.len = len, !.cap = cap]], arrays,
                 [slices EXCEPT ![n] = [@ EXCEPT !.len = len, !.cap = cap]], home, held, own2)
<1> DEFINE a == slices[n].arr
           hd == [ptr |-> hdr[n].ptr, len |-> len, cap |-> cap]
           sl == View(a, slices[n].off, len, cap)
<1>1. n \in held /\ n \in Names /\ hdr[n] \in Header /\ slices[n] \in Slices /\ a \in Used(slices, held)
      /\ a \notin Texts(slices, held) /\ Size[n] \in Nat \ {0}
    BY NameCells, SliceArray
<1>2. /\ a \in 1 .. Len(arrays) /\ home[a] \in Nat /\ Len(arrays[a]) \in Nat /\ Lies(st, home[a], arrays[a])
      /\ Len(st) <= MaxSlots /\ Len(st) \in Nat /\ slices[n].off \in Nat
    <2>1. Len(st) <= MaxSlots /\ Len(st) \in Nat /\ slices[n].off \in Nat
        BY <1>1 DEF Sound, Typed, Slices, Bytes
    <2> HIDE DEF a
    <2>2. a \in 1 .. Len(arrays) /\ home[a] \in Nat /\ Len(arrays[a]) \in Nat /\ Lies(st, home[a], arrays[a])
        BY <1>1, HeldArray
    <2> QED
        BY <2>1, <2>2
<1>3. cap * Size[n] \in Nat /\ cap <= cap * Size[n]
    BY <1>1, Times
<1>4. cap < Mod
    <2>1. Len(arrays[a]) <= MaxSlots
        <3>1. Len(st) \in Nat /\ Len(st) <= MaxSlots
            BY DEF Sound, Typed, Bytes
        <3>2. Len(arrays[a]) > 0 => home[a] + Len(arrays[a]) <= Len(st)
            BY ONLY <1>2 DEF Lies
        <3> DEFINE na == Len(arrays[a])
                   h == home[a]
                   top == Len(st)
        <3>3. /\ top \in Nat /\ top <= MaxSlots /\ (na > 0 => h + na <= top)
              /\ na \in Nat /\ h \in Nat /\ MaxSlots \in Nat
            BY ONLY <3>1, <3>2, <1>2, SliceHeapAssumption
        <3>4. na <= MaxSlots
            <4> HIDE DEF na, h, top
            <4> QED
                BY ONLY <3>3
        <3> QED
            BY ONLY <3>4
    <2>2. cap <= Len(arrays[a])
        <3> DEFINE room == cap * Size[n]
        <3>1. room \in Nat /\ cap <= room /\ slices[n].off + room <= Len(arrays[a])
            BY <1>3
        <3> HIDE DEF room
        <3> QED
            BY ONLY <3>1, <1>2, cap \in Nat
    <2> QED
        BY ONLY <2>1, <2>2, <1>2, cap \in Nat, SliceHeapAssumption
<1>5. hd \in Header /\ sl \in Slices
    <2>1. len \in Byte /\ cap \in Byte
        BY ONLY <1>4, len \in Nat, cap \in Nat, len <= cap, ByteRange, SliceHeapAssumption
    <2> QED
        BY <2>1, <1>1, <1>2 DEF Header, Slices, View
<1>6. Shows(hd, sl, Size[n], arrays, home)
    BY <1>2 DEF Shows, View
<1>7. /\ sl.arr = a
      /\ [hdr[n] EXCEPT !.len = len, !.cap = cap] = hd
      /\ [slices[n] EXCEPT !.len = len, !.cap = cap] = sl
    <2>1. ASSUME NEW q, NEW p \in Header, q = [p EXCEPT !.len = len, !.cap = cap]
          PROVE  q = [ptr |-> p.ptr, len |-> len, cap |-> cap]
        BY <2>1 DEF Header
    <2>2. ASSUME NEW q, NEW p \in Slices, q = [p EXCEPT !.len = len, !.cap = cap]
          PROVE  q = [arr |-> p.arr, off |-> p.off, len |-> len, cap |-> cap]
        BY <2>2 DEF Slices
    <2>3. /\ [hdr[n] EXCEPT !.len = len, !.cap = cap] = hd
          /\ [slices[n] EXCEPT !.len = len, !.cap = cap] = [arr |-> a, off |-> slices[n].off, len |-> len, cap |-> cap]
        <3> DEFINE q == [hdr[n] EXCEPT !.len = len, !.cap = cap]
                   q2 == [slices[n] EXCEPT !.len = len, !.cap = cap]
        <3>1. q = [ptr |-> hdr[n].ptr, len |-> len, cap |-> cap]
            BY ONLY <2>1, <1>1, ZenonT(40)
        <3>2. q2 = [arr |-> slices[n].arr, off |-> slices[n].off, len |-> len, cap |-> cap]
            BY ONLY <2>2, <1>1, ZenonT(40)
        <3> QED
            BY ONLY <3>1, <3>2
    <2> QED
        BY <2>3 DEF View
<1>8. \A m \in own2 : IsNil(hdr[m], slices[m]) \/ slices[m].arr # a
    BY NotOwned
<1> HIDE DEF a, hd, sl
<1>9. Sound(st, [hdr EXCEPT ![n] = hd], arrays, [slices EXCEPT ![n] = sl], home, held \cup {n}, own2)
    BY <1>1, <1>5, <1>6, <1>7, <1>8, SoundAlias
<1>10. held \cup {n} = held
    BY <1>1
<1>11. /\ [hdr EXCEPT ![n] = [@ EXCEPT !.len = len, !.cap = cap]] = [hdr EXCEPT ![n] = hd]
       /\ [slices EXCEPT ![n] = [@ EXCEPT !.len = len, !.cap = cap]] = [slices EXCEPT ![n] = sl]
    BY <1>7
<1> QED
    BY <1>9, <1>10, <1>11

\* A slice gets another length, within its capacity.
LEMMA SoundLength ==
    ASSUME NEW st, NEW hdr, NEW arrays, NEW slices, NEW home, NEW held, NEW own,
           Sound(st, hdr, arrays, slices, home, held, own), NEW n \in held \ Strings,
           NEW len \in Nat, len <= hdr[n].cap, NEW own2, own2 \subseteq own \ {n}
    PROVE  Sound(st, [hdr EXCEPT ![n] = [@ EXCEPT !.len = len]], arrays,
                 [slices EXCEPT ![n] = [@ EXCEPT !.len = len]], home, held, own2)
<1> DEFINE hd == [hdr[n] EXCEPT !.len = len]
           sl == [slices[n] EXCEPT !.len = len]
<1>1. n \in held /\ n \in Names /\ hdr[n] \in Header /\ slices[n] \in Slices
    BY NameCells
<1>2. hdr \in [Names -> Header] /\ slices \in [Names -> Slices]
    BY DEF Sound, Typed
<1>3. /\ hdr[n].len = slices[n].len /\ hdr[n].cap = slices[n].cap /\ hdr[n].len <= hdr[n].cap
      /\ hdr[n].len \in Nat /\ hdr[n].cap \in Nat
    BY <1>1, NameNumbers
<1>4. CASE hdr[n].cap = 0
    <2>1. hd = hdr[n] /\ sl = slices[n]
        BY <1>1, <1>3, <1>4 DEF Header, Slices
    <2>2. [hdr EXCEPT ![n] = hd] = hdr /\ [slices EXCEPT ![n] = sl] = slices
        BY <1>2, <2>1
    <2>3. Sound(st, hdr, arrays, slices, home, held, own2)
        <3>1. own2 \subseteq own /\ own2 \subseteq held
            BY DEF Sound, Typed
        <3> QED
            BY <3>1, SoundForget
    <2> QED
        BY <2>2, <2>3
<1>5. CASE hdr[n].cap > 0
    <2>1. hdr[n].ptr = home[slices[n].arr] + slices[n].off
        BY <1>1, <1>5, NameNumbers
    <2>2. slices[n].off + hdr[n].cap * Size[n] <= Len(arrays[slices[n].arr])
        BY <1>1, NameNumbers
    <2>3. Sound(st, [hdr EXCEPT ![n] = [@ EXCEPT !.len = len, !.cap = hdr[n].cap]], arrays,
                [slices EXCEPT ![n] = [@ EXCEPT !.len = len, !.cap = hdr[n].cap]], home, held, own2)
        BY <1>3, <2>1, <2>2, SoundResize
    <2>4. [hdr[n] EXCEPT !.len = len, !.cap = hdr[n].cap] = hd /\ [slices[n] EXCEPT !.len = len, !.cap = hdr[n].cap] = sl
        <3>1. ASSUME NEW q, NEW p \in Header, q = [p EXCEPT !.len = len, !.cap = p.cap]
              PROVE  q = [p EXCEPT !.len = len]
            BY <3>1 DEF Header
        <3>2. ASSUME NEW q, NEW p \in Slices, NEW c, c = p.cap, q = [p EXCEPT !.len = len, !.cap = c]
              PROVE  q = [p EXCEPT !.len = len]
            BY <3>2 DEF Slices
        <3> QED
            BY <3>1, <3>2, <1>1, <1>3
    <2> QED
        BY <2>3, <2>4, ZenonT(30)
<1> QED
    BY <1>3, <1>4, <1>5

\* The elements t, k of them, are written behind the last one of n, which has room
\* for them, on a stack with temporary slots behind those of st.
Tails(st, hdr, arrays, slices, home, held, own, own2, n, st2, k, t, w, arrays2, len, hdr2, slices2) ==
    /\ Sound(st, hdr, arrays, slices, home, held, own)
    /\ n \in held \ Strings /\ Extends(st, st2) /\ Len(st2) <= MaxSlots /\ own2 \subseteq own \ {n}
    /\ k \in Nat /\ t \in Bytes /\ Len(t) = k * Size[n] /\ hdr[n].len + k <= hdr[n].cap
    /\ w = Stored(st2, hdr[n].ptr + hdr[n].len * Size[n], t)
    /\ arrays2 = GoWrite(arrays, slices[n].arr, slices[n].off + slices[n].len * Size[n], t)
    /\ len = hdr[n].len + k
    /\ hdr2 = [hdr EXCEPT ![n] = [@ EXCEPT !.len = len]]
    /\ slices2 = [slices EXCEPT ![n] = [@ EXCEPT !.len = len]]

\* The stack stays sound, and when the temporary slots go again.
LEMMA SoundTail ==
    ASSUME NEW st, NEW hdr, NEW arrays, NEW slices, NEW home, NEW held, NEW own, NEW own2, NEW n,
           NEW st2, NEW k, NEW t, NEW w, NEW arrays2, NEW len, NEW hdr2, NEW slices2,
           Tails(st, hdr, arrays, slices, home, held, own, own2, n, st2, k, t, w, arrays2, len, hdr2, slices2)
    PROVE  /\ w \in Bytes /\ Len(w) = Len(st2)
           /\ Sound(w, hdr2, arrays2, slices2, home, held, own2)
           /\ Sound(SubSeq(w, 1, Len(st)), hdr2, arrays2, slices2, home, held, own2)
<1>a. /\ Sound(st, hdr, arrays, slices, home, held, own)
      /\ n \in held \ Strings /\ Extends(st, st2) /\ Len(st2) <= MaxSlots
      /\ k \in Nat /\ t \in Bytes /\ Len(t) = k * Size[n] /\ hdr[n].len + k <= hdr[n].cap
    BY DEF Tails
<1>b. /\ w = Stored(st2, hdr[n].ptr + hdr[n].len * Size[n], t)
      /\ arrays2 = GoWrite(arrays, slices[n].arr, slices[n].off + slices[n].len * Size[n], t)
    BY DEF Tails
<1>c. /\ hdr2 = [hdr EXCEPT ![n] = [@ EXCEPT !.len = len]]
      /\ slices2 = [slices EXCEPT ![n] = [@ EXCEPT !.len = len]]
      /\ len = hdr[n].len + k /\ own2 \subseteq own \ {n}
    BY DEF Tails
<1>d. k \in Nat /\ hdr[n].len + k <= hdr[n].cap
    BY DEF Tails
<1> USE <1>a
<1> DEFINE at == hdr[n].len * Size[n]
<1>1. n \in held /\ n \in Names /\ Size[n] \in Nat \ {0}
    BY NameCells
<1>2. /\ hdr[n].len = slices[n].len /\ hdr[n].len \in Nat /\ hdr[n].cap \in Nat /\ hdr[n].ptr \in Nat
      /\ slices[n].off \in Nat /\ slices[n].arr \in 1 .. Len(arrays)
    BY <1>1, NameNumbers
<1>3. at \in Nat /\ at + Len(t) <= hdr[n].cap * Size[n]
    <2>1. (hdr[n].len + k) * Size[n] <= hdr[n].cap * Size[n]
        <3> DEFINE l == hdr[n].len + k
        <3>1. l \in Nat /\ l <= hdr[n].cap
            BY ONLY <1>2, <1>d
        <3> HIDE DEF l
        <3>2. l * Size[n] <= hdr[n].cap * Size[n]
            BY ONLY <3>1, <1>1, <1>2, TimesMonotone
        <3> QED
            BY ONLY <3>2 DEF l
    <2>2. (hdr[n].len + k) * Size[n] = at + k * Size[n] /\ at \in Nat
        BY ONLY <1>1, <1>2, <1>d, Distribute
    <2> QED
        BY <2>1, <2>2
<1>4. st \in Bytes /\ st2 \in Bytes /\ arrays \in Seq(Bytes)
    BY DEF Sound, Typed, Extends
<1>5. w = Stored(st2, hdr[n].ptr + at, t) /\ arrays2 = GoWrite(arrays, slices[n].arr, slices[n].off + at, t)
    BY <1>2, <1>b
<1> HIDE DEF at
<1>6. Sound(st2, hdr, arrays, slices, home, held, own)
    BY SoundGrow
<1>7. Sound(w, hdr, arrays2, slices, home, held, own)
    BY <1>3, <1>5, <1>6, SoundStore
<1>8. w \in Bytes /\ Len(w) = Len(st2)
    BY <1>2, <1>3, <1>4, <1>5, StoredSeq
<1>9. Sound(SubSeq(w, 1, Len(st)), hdr, arrays2, slices, home, held, own)
    <2>1. \A a \in Used(slices, held) : Len(arrays2[a]) = Len(arrays[a])
        <3>1. Used(slices, held) \subseteq 1 .. Len(arrays)
            BY HeldArray
        <3>2. slices[n].off + at \in Nat
            BY ONLY <1>2, <1>3
        <3>3. \A b \in 1 .. Len(arrays) :
                  Len(GoWrite(arrays, slices[n].arr, slices[n].off + at, t)[b]) = Len(arrays[b])
            BY ONLY <3>2, <1>2, <1>4, t \in Bytes, WriteLengths, SMTT(30)
        <3> QED
            BY <3>1, <3>3, <1>5
    <2>2. Len(st) <= Len(w)
        BY <1>8 DEF Extends
    <2> QED
        BY <2>1, <2>2, <1>7, SoundPop
<1>10. len \in Nat /\ len <= hdr[n].cap
    BY ONLY <1>2, <1>d, <1>c
<1>11. Sound(w, hdr2, arrays2, slices2, home, held, own2)
    BY ONLY <1>a, <1>c, <1>7, <1>10, SoundLength
<1>12. Sound(SubSeq(w, 1, Len(st)), hdr2, arrays2, slices2, home, held, own2)
    BY ONLY <1>a, <1>c, <1>9, <1>10, SoundLength
<1> QED
    BY ONLY <1>8, <1>11, <1>12

-----------------------------------------------------------------------------
(* append(s, t...).                                                          *)

\* In the room behind s there is no element of t, unless the two overlap there.
LEMMA SpreadApart ==
    ASSUME NEW st, NEW hdr, NEW arrays, NEW slices, NEW home, NEW held, NEW own,
           Sound(st, hdr, arrays, slices, home, held, own), NEW n \in held \ Strings,
           NEW x, IsName(x), x.name \in held, Size[x.name] = Size[n], ~Overlaps(slices, n, x),
           hdr[n].len + hdr[x.name].len <= hdr[n].cap
    PROVE  \/ hdr[n].ptr + hdr[n].len * Size[n] <= hdr[x.name].ptr
           \/ hdr[x.name].ptr + hdr[x.name].len * Size[n] <= hdr[n].ptr + hdr[n].len * Size[n]
<1> DEFINE y == x.name
           at == hdr[n].len * Size[n]
           l == hdr[y].len * Size[y]
           a == slices[n].arr
           b == slices[y].arr
           roomA == hdr[n].cap * Size[n]
           roomB == hdr[y].cap * Size[y]
<1>1. n \in held /\ y \in held /\ Size[n] \in Nat \ {0}
    BY NameCells
<1>2. /\ hdr[n].len = slices[n].len /\ hdr[n].cap = slices[n].cap /\ hdr[n].len \in Nat /\ hdr[n].cap \in Nat
      /\ hdr[n].ptr \in Nat /\ slices[n].off \in Nat
      /\ hdr[n].cap > 0 => hdr[n].ptr = home[a] + slices[n].off
    BY <1>1, NameNumbers
<1>3. at \in Nat /\ roomA \in Nat /\ at <= roomA /\ slices[n].off + roomA <= Len(arrays[a])
    BY <1>1, NameNumbers
<1>4. /\ hdr[y].len = slices[y].len /\ hdr[y].cap = slices[y].cap /\ hdr[y].len \in Nat /\ hdr[y].cap \in Nat
      /\ hdr[y].len <= hdr[y].cap
      /\ hdr[y].ptr \in Nat /\ slices[y].off \in Nat
      /\ hdr[y].cap > 0 => hdr[y].ptr = home[b] + slices[y].off
    <2>1. y \in held
        BY <1>1
    <2> HIDE DEF y
    <2> QED
        BY <2>1, NameNumbers
<1>5. l \in Nat /\ roomB \in Nat /\ l <= roomB /\ slices[y].off + roomB <= Len(arrays[b])
    <2>1. y \in held
        BY <1>1
    <2> HIDE DEF y
    <2>2. l \in Nat /\ roomB \in Nat /\ l <= roomB
        BY <2>1, NameNumbers
    <2>3. slices[y].off + roomB <= Len(arrays[b])
        BY <2>1, NameNumbers
    <2> QED
        BY <2>2, <2>3
<1>6. /\ a \in Used(slices, held) /\ b \in Used(slices, held) /\ a \notin Texts(slices, held)
      /\ home[a] \in Nat /\ home[b] \in Nat /\ Len(arrays[a]) \in Nat /\ Len(arrays[b]) \in Nat
    BY <1>1, SliceArray, HeldArray
<1>7. hdr[y].len = 0 => l = 0
    BY <1>1
<1>8. hdr[n].cap > 0 => roomA > 0
    BY <1>1, <1>2, Times
<1>9. hdr[y].len > 0 => roomB > 0 /\ hdr[y].cap > 0 /\ hdr[n].cap > 0
    BY <1>1, <1>2, <1>4, Times
<1>10. ~(a = b /\ hdr[n].len + hdr[y].len <= hdr[n].cap
            /\ slices[y].off < slices[n].off + at /\ slices[n].off + at < slices[y].off + l)
    BY <1>2, <1>4 DEF Overlaps
<1>11. a # b => HomesApart(arrays, home, a, b)
    BY <1>6 DEF Sound, Separate
<1> DEFINE ha == home[a]
           hb == home[b]
           na == Len(arrays[a])
           nb == Len(arrays[b])
           oa == slices[n].off
           ob == slices[y].off
           p == hdr[n].ptr
           q == hdr[y].ptr
<1>12. /\ at \in Nat /\ l \in Nat /\ roomA \in Nat /\ roomB \in Nat /\ at <= roomA /\ l <= roomB
       /\ ha \in Nat /\ hb \in Nat /\ na \in Nat /\ nb \in Nat /\ oa \in Nat /\ ob \in Nat /\ p \in Nat /\ q \in Nat
       /\ oa + roomA <= na /\ ob + roomB <= nb
    BY <1>2, <1>3, <1>4, <1>5, <1>6
<1>13. hdr[y].len > 0 => p = ha + oa /\ q = hb + ob /\ roomA > 0 /\ roomB > 0
    BY <1>2, <1>4, <1>8, <1>9
<1>14. a = b => (ha = hb /\ ~(ob < oa + at /\ oa + at < ob + l))
    BY <1>10
<1>15. a # b => (na = 0 \/ nb = 0 \/ ha + na <= hb \/ hb + nb <= ha)
    BY <1>11 DEF HomesApart, Apart
<1>16. hdr[y].len = 0 \/ hdr[y].len > 0
    BY <1>4
<1> HIDE DEF at, l, a, b, roomA, roomB, ha, hb, na, nb, oa, ob, p, q
<1>17. p + at <= q \/ q + l <= p + at
    BY <1>7, <1>12, <1>13, <1>14, <1>15, <1>16
<1>18. l = hdr[x.name].len * Size[n]
    BY DEF l
<1> QED
    BY <1>17, <1>18 DEF at, p, q

\* What is appended to a slice has a length, which does not depend on the heap.
LEMMA OperandLength ==
    ASSUME NEW st, NEW top, NEW hdr \in [Names -> Header], NEW r, NEW size, NEW x, IsOperand(x, size)
    PROVE  resolveStringSlice(Mach(st, top, hdr, r), x).hd.len \in Nat
<1> DEFINE v == resolveStringSlice(Mach(st, top, hdr, r), x)
<1>1. CASE x.kind = "name"
    <2>1. v.hd = hdr[x.name] /\ x.name \in Names
        BY <1>1 DEF IsOperand, resolveStringSlice, IsName, IsLiteral, Value, HeapIn, Mach
    <2>2. hdr[x.name] \in Header
        BY <2>1
    <2> QED
        BY <2>1, <2>2, ByteRange DEF Header
<1>2. CASE x.kind = "text"
    <2> DEFINE k == Len(x.cells) \div 1
    <2>1. v.hd = Hd(top, k, k)
        BY ONLY <1>2 DEF resolveStringSlice, IsName, IsLiteral, evalStringLiteral, evalSliceLiteral,
                    pushHeapRegion, Value, HeapIn, Mach
    <2>2. k \in Nat
        <3>1. Len(x.cells) \in Nat
            BY <1>2 DEF IsOperand
        <3>2. \A j \in Nat : j \div 1 \in Nat
            OBVIOUS
        <3> QED
            BY <3>1, <3>2
    <2> HIDE DEF k, v
    <2>3. Wrap(k) \in Nat
        BY <2>2, SliceHeapAssumption DEF Wrap
    <2> QED
        BY <2>1, <2>3 DEF Hd, v
<1>3. CASE x.kind = "byte"
    <2>1. v.hd = Hd(top, 1, 1)
        BY <1>3 DEF resolveStringSlice, IsName, IsLiteral, evalByteToString, pushHeapRegion, Value,
                    HeapIn, Mach
    <2> QED
        BY <2>1, SliceHeapAssumption DEF Hd, Wrap
<1>4. CASE x.kind = "view"
    <2> DEFINE hd == hdr[x.name]
               k == Bound(x.high, hd.len) - Bound(x.low, 0)
    <2>1. v.hd.len = Wrap(k)
        BY ONLY <1>4 DEF resolveStringSlice, IsName, IsLiteral, lowerSliceFromSrc, Value, HeapIn, Mach, Hd
    <2>2. x.name \in Names /\ x.low \in Nat \cup {Omitted} /\ x.high \in Nat \cup {Omitted}
        BY ONLY <1>4, IsOperand(x, size) DEF IsOperand, IsPart, IsView
    <2>3. hd.len \in Nat
        BY ONLY <2>2, hdr \in [Names -> Header], ByteRange DEF Header
    <2> HIDE DEF hd
    <2>4. k \in Int
        BY ONLY <2>2, <2>3 DEF Bound, Omitted
    <2> HIDE DEF k, v
    <2>5. Wrap(k) \in Nat
        BY ONLY <2>4, SliceHeapAssumption DEF Wrap
    <2> QED
        BY ONLY <2>1, <2>5 DEF v
<1> QED
    BY <1>1, <1>2, <1>3, <1>4 DEF IsOperand

\* One piece of memory behind another.
LEMMA ConcatBytes ==
    ASSUME NEW c \in Bytes, NEW t \in Bytes
    PROVE  c \o t \in Bytes /\ Len(c \o t) = Len(c) + Len(t) /\ Len(c) \in Nat /\ Len(t) \in Nat
BY DEF Bytes

\* Together, they have the elements of both.
LEMMA ConcatFits ==
    ASSUME NEW c \in Bytes, NEW t \in Bytes, NEW size \in Nat \ {0}, NEW k \in Nat, NEW l \in Nat,
           Fits(c, k, size), Fits(t, l, size)
    PROVE  Fits(c \o t, k + l, size) /\ k + l <= Len(c \o t)
<1>1. Len(c \o t) = Len(c) + Len(t)
    BY ConcatBytes
<1>2. (k + l) * size = k * size + l * size
    BY Distribute
<1>3. k + l <= (k + l) * size
    BY Times
<1> QED
    BY <1>1, <1>2, <1>3 DEF Fits

\* append(s, t...) into a new buffer: what is on the heap then.
LEMMA SpreadCells ==
    ASSUME NEW st \in Bytes, NEW hd \in Header, NEW c \in Bytes, NEW t \in Bytes, NEW size \in Nat \ {0},
           NEW len \in Nat, Fits(c, hd.len, size), Fits(t, len, size), Lies(st, hd.ptr, c),
           NEW needed, needed = hd.len + len, Len(st) + Len(c \o t) <= MaxSlots,
           NEW old, old = Value([stack |-> st, top |-> Len(st)], hd),
           NEW grown, grown = Reallocated(old, needed, size), NEW from \in Nat,
           Lies(st, from, t) \/ (from = grown.hd.ptr /\ t = c),
           NEW w, w = copyHeapBytes(grown.stack, grown.hd.ptr + Len(c), from, Len(t))
    PROVE  /\ grown.top = Len(w) /\ grown.hd = [ptr |-> Len(st), len |-> hd.len, cap |-> needed]
           /\ grown = [stack |-> grown.stack, top |-> grown.top, hd |-> grown.hd]
           /\ w \in Bytes /\ Extends(st, w) /\ Len(w) = Len(st) + Len(c \o t) /\ Len(w) <= MaxSlots
           /\ Lies(w, Len(st), c \o t)
<1> DEFINE room == Len(c \o t)
           moved == Stored(st \o Zeros(room), Len(st), c)
<1>1. hd.len \in Nat /\ needed \in Nat /\ hd.len <= needed
    BY ByteRange DEF Header
<1>2. room \in Nat /\ room = Len(c) + Len(t)
    BY ConcatBytes
<1>3. room = needed * size
    <2>1. Fits(c \o t, needed, size)
        BY <1>1, ConcatFits
    <2> QED
        BY <2>1 DEF Fits
<1> HIDE DEF room
<1>4. grown = Value([stack |-> moved, top |-> Len(st) + room],
                    [ptr |-> Len(st), len |-> hd.len, cap |-> needed])
    <2>1. Len(st) + room <= MaxSlots
        BY DEF room
    <2>2. grown = Value([stack |-> Stored(st \o Zeros(room), Len(st), c), top |-> Len(st) + room],
                        [ptr |-> Len(st), len |-> hd.len, cap |-> needed])
        BY ONLY <2>1, <1>1, <1>3, Lies(st, hd.ptr, c), st \in Bytes, hd \in Header, c \in Bytes, size \in Nat \ {0},
                Fits(c, hd.len, size), old = Value([stack |-> st, top |-> Len(st)], hd),
                grown = Reallocated(old, needed, size), ReallocatedLies, SMTT(40)
    <2> QED
        BY <2>2
<1> HIDE DEF moved
<1>6. grown.hd.ptr = Len(st) /\ grown.stack = moved
    BY <1>4 DEF Value
<1>7. w = copyHeapBytes(moved, Len(st) + Len(c), from, Len(t))
    BY <1>6
<1>8. (from = Len(st) /\ t = c) \/ Lies(st, from, t)
    BY <1>6
<1>9. moved = Stored(st \o Zeros(room), Len(st), c)
    BY DEF moved
<1>10. w \in Bytes /\ Extends(st, w) /\ Len(w) = Len(st) + room /\ Lies(w, Len(st), c \o t)
    BY <1>2, <1>7, <1>8, <1>9, SpreadMoved
<1>11. /\ grown.stack = moved /\ grown.top = Len(st) + room
       /\ grown.hd = [ptr |-> Len(st), len |-> hd.len, cap |-> needed]
       /\ grown = [stack |-> grown.stack, top |-> grown.top, hd |-> grown.hd]
    BY <1>4 DEF Value
<1>12. Len(st) + room <= MaxSlots
    BY DEF room
<1> QED
    BY <1>10, <1>11, <1>12 DEF room

\* The elements of a name that is held.
LEMMA NameFits ==
    ASSUME NEW st, NEW hdr, NEW arrays, NEW slices, NEW home, NEW held, NEW own,
           Sound(st, hdr, arrays, slices, home, held, own), NEW n \in held, NEW size, size = Size[n],
           NEW c, c = SubSeq(arrays[slices[n].arr], slices[n].off + 1, slices[n].off + slices[n].len * size)
    PROVE  c \in Bytes /\ Fits(c, hdr[n].len, size) /\ Lies(st, hdr[n].ptr, c)
<1>1. LET d == SubSeq(arrays[slices[n].arr], slices[n].off + 1, slices[n].off + slices[n].len * Size[n])
      IN  d \in Bytes /\ Len(d) = hdr[n].len * Size[n] /\ Lies(st, hdr[n].ptr, d)
    BY ONLY Sound(st, hdr, arrays, slices, home, held, own), n \in held, NameNumbers, SMTT(40)
<1>2. c = SubSeq(arrays[slices[n].arr], slices[n].off + 1, slices[n].off + slices[n].len * Size[n])
    OBVIOUS
<1> QED
    BY ONLY <1>1, <1>2, size = Size[n] DEF Fits

\* The elements t are put behind those of a name, in a new buffer.
Spreads(st, hdr, arrays, slices, home, held, own, own2, n, c, t, len, st2, needed, room, old, grown, from, w) ==
    /\ Sound(st, hdr, arrays, slices, home, held, own)
    /\ own2 \subseteq own /\ n \in held \ Strings /\ Extends(st, st2)
    /\ len \in Nat /\ t \in Bytes /\ Fits(t, len, Size[n])
    /\ needed = hdr[n].len + len /\ needed > hdr[n].cap
    /\ room = needed * Size[n] /\ Len(st2) + room <= MaxSlots
    /\ old = Value([stack |-> st2, top |-> Len(st2)], hdr[n])
    /\ grown = Reallocated(old, needed, Size[n])
    /\ from \in Nat /\ (Lies(st2, from, t) \/ (from = grown.hd.ptr /\ t = c))
    /\ w = copyHeapBytes(grown.stack, grown.hd.ptr + Len(c), from, Len(t))

\* append(s, t...) into a new buffer: what is on the heap then.
LEMMA SpreadMemory ==
    ASSUME NEW st, NEW hdr, NEW arrays, NEW slices, NEW home, NEW held, NEW own, NEW own2, NEW n, NEW r2, NEW c,
           c = GoCells(GoOf(arrays, slices, r2), n), NEW t, NEW len, NEW st2, NEW needed, NEW room,
           NEW old, NEW grown, NEW from, NEW w,
           Spreads(st, hdr, arrays, slices, home, held, own, own2, n, c, t, len, st2, needed, room, old, grown, from, w)
    PROVE  /\ grown.top = Len(w) /\ Len(st2) < Len(w) /\ Len(w) <= MaxSlots /\ w \in Bytes
           /\ Wrap(needed) = needed /\ needed \in Nat
           /\ Extends(st2, w) /\ Len(w) = Len(st2) + Len(c \o t) /\ Lies(w, Len(st2), c \o t)
           /\ c \o t \in Bytes /\ Len(c \o t) \in Nat /\ Fits(c \o t, needed, Size[n])
<1> DEFINE size == Size[n]
           a == slices[n].arr
           cells == c \o t
           base == Len(st2)
<1>1. /\ Sound(st, hdr, arrays, slices, home, held, own) /\ n \in held \ Strings /\ n \in held
      /\ Extends(st, st2) /\ own2 \subseteq own
    BY DEF Spreads
<1>2. len \in Nat /\ t \in Bytes /\ Fits(t, len, size) /\ needed = hdr[n].len + len /\ needed > hdr[n].cap
    BY ONLY Spreads(st, hdr, arrays, slices, home, held, own, own2, n, c, t, len, st2, needed, room, old, grown, from, w)
       DEF Spreads
<1>3. room = needed * size /\ base + room <= MaxSlots
    BY ONLY Spreads(st, hdr, arrays, slices, home, held, own, own2, n, c, t, len, st2, needed, room, old, grown, from, w)
       DEF Spreads
<1>4. /\ old = Value([stack |-> st2, top |-> Len(st2)], hdr[n]) /\ grown = Reallocated(old, needed, size)
      /\ from \in Nat /\ (Lies(st2, from, t) \/ (from = grown.hd.ptr /\ t = c))
      /\ w = copyHeapBytes(grown.stack, grown.hd.ptr + Len(c), from, Len(t))
    BY ONLY Spreads(st, hdr, arrays, slices, home, held, own, own2, n, c, t, len, st2, needed, room, old, grown, from, w)
       DEF Spreads
<1>5. n \in Names /\ hdr[n] \in Header /\ size \in Nat \ {0}
    BY ONLY <1>1, NameCells
<1>6. /\ hdr[n].len = slices[n].len /\ hdr[n].cap = slices[n].cap /\ hdr[n].len \in Nat
      /\ hdr[n].cap \in Nat /\ hdr[n].ptr \in Nat
    BY ONLY <1>1, NameNumbers
<1>7. c = SubSeq(arrays[a], slices[n].off + 1, slices[n].off + slices[n].len * size)
    BY ONLY c = GoCells(GoOf(arrays, slices, r2), n) DEF GoCells, GoOf
<1>8. c \in Bytes /\ Fits(c, hdr[n].len, size) /\ Lies(st, hdr[n].ptr, c)
    <2> HIDE DEF size
    <2>1. size = Size[n]
        BY DEF size
    <2> QED
        BY ONLY <1>1, <1>7, <2>1, NameFits
<1>9. st \in Bytes /\ st2 \in Bytes /\ base \in Nat /\ Len(st) <= base /\ Len(st) \in Nat
    BY ONLY <1>1 DEF Sound, Typed, Extends, Bytes
<1>10. needed \in Nat /\ 0 < needed
    BY ONLY <1>2, <1>6
<1>11. Lies(st2, hdr[n].ptr, c)
    BY ONLY <1>1, <1>6, <1>8, <1>9, ExtendedLies
<1>12. /\ Fits(cells, needed, size) /\ needed <= Len(cells) /\ cells \in Bytes /\ Len(cells) \in Nat
       /\ Len(cells) = room
    <2> DEFINE k == hdr[n].len
    <2>1. k \in Nat /\ Fits(c, k, size) /\ needed = k + len
        BY ONLY <1>2, <1>6, <1>8
    <2> HIDE DEF k, size
    <2>2. Fits(cells, needed, size) /\ needed <= Len(cells)
        BY ONLY <2>1, <1>2, <1>5, <1>8, ConcatFits
    <2>3. cells \in Bytes /\ Len(cells) \in Nat
        BY ONLY <1>2, <1>8, ConcatBytes
    <2>4. Len(cells) = room
        BY ONLY <2>2, <1>3 DEF Fits
    <2> QED
        BY ONLY <2>2, <2>3, <2>4
<1>13. /\ grown.top = Len(w) /\ grown.hd = [ptr |-> base, len |-> hdr[n].len, cap |-> needed]
       /\ grown = [stack |-> grown.stack, top |-> grown.top, hd |-> grown.hd]
       /\ w \in Bytes /\ Extends(st2, w) /\ Len(w) = base + Len(cells) /\ Len(w) <= MaxSlots
       /\ Lies(w, base, cells)
    <2> DEFINE hd == hdr[n]
    <2>3. /\ hd \in Header /\ Fits(c, hd.len, size) /\ Lies(st2, hd.ptr, c) /\ needed = hd.len + len
          /\ old = Value([stack |-> st2, top |-> Len(st2)], hd) /\ Fits(t, len, size) /\ len \in Nat
          /\ grown = Reallocated(old, needed, size) /\ Len(st2) + Len(c \o t) <= MaxSlots
          /\ w = copyHeapBytes(grown.stack, grown.hd.ptr + Len(c), from, Len(t))
        BY ONLY <1>2, <1>3, <1>4, <1>5, <1>8, <1>11, <1>12
    <2>4. /\ c \in Bytes /\ t \in Bytes /\ size \in Nat \ {0} /\ st2 \in Bytes /\ from \in Nat
          /\ (Lies(st2, from, t) \/ (from = grown.hd.ptr /\ t = c))
        BY ONLY <1>2, <1>4, <1>5, <1>8, <1>9
    <2> HIDE DEF hd, size
    <2>5. /\ grown.top = Len(w) /\ grown.hd = [ptr |-> Len(st2), len |-> hd.len, cap |-> needed]
          /\ grown = [stack |-> grown.stack, top |-> grown.top, hd |-> grown.hd]
          /\ w \in Bytes /\ Extends(st2, w) /\ Len(w) = Len(st2) + Len(c \o t) /\ Len(w) <= MaxSlots
          /\ Lies(w, Len(st2), c \o t)
        BY ONLY <2>3, <2>4, SpreadCells, SMTT(90)
    <2> QED
        BY ONLY <2>5 DEF hd
<1>14. Wrap(needed) = needed
    <2> HIDE DEF cells, base
    <2> QED
        BY ONLY <1>9, <1>10, <1>12, <1>13, WrapSmall, SliceHeapAssumption
<1>15. base < Len(w)
    <2> HIDE DEF base, cells
    <2> QED
        BY ONLY <1>9, <1>10, <1>12, <1>13
<1> QED
    BY ONLY <1>10, <1>12, <1>13, <1>14, <1>15

\* The header of a reallocated buffer.
LEMMA ReallocatedHeader ==
    ASSUME NEW st, NEW top \in Nat, top < Mod, NEW hd \in Header, NEW cap, Wrap(cap) = cap, NEW size,
           NEW v, v = Value([stack |-> st, top |-> top], hd), NEW q, q = Reallocated(v, cap, size)
    PROVE  q = [stack |-> q.stack, top |-> q.top, hd |-> [ptr |-> top, len |-> hd.len, cap |-> cap]]
<1> DEFINE new == pushHeapRegion(HeapOf(v), cap * size, v.hd.len, cap)
           c == copyHeapBytes(new.stack, new.hd.ptr, v.hd.ptr, v.hd.len * size)
           p == Pushed(HeapOf(v), cap * size)
<1>1. Wrap(top) = top /\ Wrap(hd.len) = hd.len
    BY WrapSmall, ByteRange DEF Header
<1>2. q = [new EXCEPT !.stack = c]
    BY DEF Reallocated
<1>3. new = [stack |-> p.stack, top |-> p.top, hd |-> [ptr |-> top, len |-> hd.len, cap |-> cap]]
    <2>1. HeapOf(v).top = top /\ v.hd = hd
        BY DEF HeapOf, Value
    <2> HIDE DEF p
    <2> QED
        BY ONLY <1>1, <2>1, Wrap(cap) = cap DEF pushHeapRegion, Value, Hd, p
<1> HIDE DEF new, c, p
<1>4. q = [[stack |-> p.stack, top |-> p.top, hd |-> [ptr |-> top, len |-> hd.len, cap |-> cap]] EXCEPT !.stack = c]
    BY ONLY <1>2, <1>3
<1> QED
    BY ONLY <1>4

\* append(s, t...) into a new buffer keeps the heap sound.
LEMMA SpreadReallocated ==
    ASSUME NEW st, NEW hdr, NEW arrays, NEW slices, NEW home, NEW held, NEW own, NEW own2, NEW n, NEW r2, NEW c,
           c = GoCells(GoOf(arrays, slices, r2), n), NEW t, NEW len, NEW st2, NEW needed, NEW room,
           NEW old, NEW grown, NEW from, NEW w,
           Spreads(st, hdr, arrays, slices, home, held, own, own2, n, c, t, len, st2, needed, room, old, grown, from, w),
           NEW V, V = GoAppendAll(GoOf(arrays, slices, r2), n, t)
    PROVE  \E home2 : Sound(w, [hdr EXCEPT ![n] = [ptr |-> Len(st2), len |-> needed, cap |-> needed]],
                            V.arrays, [slices EXCEPT ![n] = V.slice], home2, held, own2)
<1> DEFINE size == Size[n]
           cells == c \o t
           base == Len(st2)
<1>1. /\ Sound(st, hdr, arrays, slices, home, held, own) /\ n \in held \ Strings /\ n \in held
      /\ Extends(st, st2) /\ own2 \subseteq own
    BY DEF Spreads
<1>2. len \in Nat /\ t \in Bytes /\ Fits(t, len, size) /\ needed = hdr[n].len + len /\ needed > hdr[n].cap
    BY ONLY Spreads(st, hdr, arrays, slices, home, held, own, own2, n, c, t, len, st2, needed, room, old, grown, from, w)
       DEF Spreads
<1>3. c = GoCells(GoOf(arrays, slices, r2), n) /\ V = GoAppendAll(GoOf(arrays, slices, r2), n, t)
    OBVIOUS
<1>5. n \in Names /\ size \in Nat \ {0}
    BY ONLY <1>1, NameCells
<1>6. hdr[n].len = slices[n].len /\ hdr[n].cap = slices[n].cap
    BY ONLY <1>1, NameNumbers
<1>9. st \in Bytes /\ st2 \in Bytes /\ base \in Nat /\ Len(st) <= base
    BY ONLY <1>1 DEF Sound, Typed, Extends, Bytes
<1>12. /\ Len(w) <= MaxSlots /\ w \in Bytes /\ needed \in Nat /\ Extends(st2, w) /\ Len(w) = base + Len(cells)
       /\ Lies(w, base, cells) /\ cells \in Bytes /\ Len(cells) \in Nat /\ Fits(cells, needed, size)
    BY ONLY Spreads(st, hdr, arrays, slices, home, held, own, own2, n, c, t, len, st2, needed, room, old, grown, from, w),
            <1>3, SpreadMemory
<1>15. V.arrays = Append(arrays, cells) /\ V.slice = View(Len(arrays) + 1, 0, needed, needed)
    <2>1. Len(t) \div Size[n] = len
        BY ONLY <1>2, <1>5, DivTimes DEF Fits
    <2>2. V = GoNew(GoOf(arrays, slices, r2), c \o t, needed, needed, Size[n])
        <3> HIDE DEF size
        <3>1. GoOf(arrays, slices, r2).slices = slices
            BY ONLY TRUE DEF GoOf
        <3>2. /\ V = GoAppendAll(GoOf(arrays, slices, r2), n, t) /\ c = GoCells(GoOf(arrays, slices, r2), n)
              /\ needed = slices[n].len + Len(t) \div Size[n] /\ needed > slices[n].cap
            BY <2>1, <1>2, <1>6
        <3> QED
            BY ONLY <3>1, <3>2 DEF GoAppendAll
    <2>3. Padded(cells, needed * size) = cells
        <3> HIDE DEF cells, size
        <3> QED
            BY ONLY <1>12, PaddedFull DEF Fits
    <2>4. V = GoNew(GoOf(arrays, slices, r2), cells, needed, needed, size)
        BY ONLY <2>2
    <2> HIDE DEF cells, size
    <2> QED
        BY ONLY <2>3, <2>4 DEF GoNew, GoOf, GoValue
<1> HIDE DEF cells, base
<1>16. \E home2 : Sound(w, [hdr EXCEPT ![n] = [ptr |-> base, len |-> needed, cap |-> needed]],
                        Append(arrays, cells), [slices EXCEPT ![n] = View(Len(arrays) + 1, 0, needed, needed)],
                        home2, held \cup {n}, own2)
    <2>1. Extends(st, w)
        BY ONLY <1>1, <1>9, <1>12, ExtendsTransitive
    <2>2. needed * Size[n] <= Len(cells) /\ base + Len(cells) <= Len(w) /\ Len(w) <= MaxSlots
        <3>1. needed * Size[n] <= Len(cells)
            BY ONLY <1>12 DEF Fits
        <3>2. base + Len(cells) <= Len(w)
            BY ONLY <1>9, <1>12
        <3> QED
            BY ONLY <3>1, <3>2, <1>12
    <2>3. own2 \subseteq own \cup {n} /\ needed <= needed
        BY ONLY <1>1, <1>12
    <2> QED
        BY ONLY <2>1, <2>2, <2>3, <1>1, <1>5, <1>9, <1>12, SoundFresh
<1>17. base = Len(st2)
    BY ONLY TRUE DEF base
<1>18. held \cup {n} = held
    BY ONLY <1>1
<1> QED
    BY ONLY <1>15, <1>16, <1>17, <1>18

\* The statement append(n, t...), for a name n that owns nothing after it.
AppendsAll(st, hdr, arrays, slices, home, held, own, own2, r, r2, s, n, kept, m, g) ==
    /\ Sound(st, hdr, arrays, slices, home, held, own)
    /\ s.op = "appendAll" /\ WellTyped(s) /\ n \in held /\ n = s.dst /\ own2 \subseteq own \ {n}
    /\ OperandNames(s.src) \subseteq held /\ InBounds(slices, s.src) /\ s.src.kind # "view"
    /\ ~Overlaps(slices, n, s.src) /\ Peak(Mach(st, Len(st), hdr, r), s) <= MaxSlots
    /\ m = Execute(Mach(st, Len(st), hdr, r), s) /\ g = GoExecute(GoOf(arrays, slices, r2), s, kept)

\* append(s, t...): the elements come behind those of s, where s has room for them
\* or in a new place; a literal goes again only if nothing was pushed on top of it
\* (lowerSliceAppendSpread, freeIfHeapTop).
LEMMA AppendAllStep ==
    ASSUME NEW st, NEW hdr, NEW arrays, NEW slices, NEW home, NEW held, NEW own, NEW own2, NEW r, NEW r2,
           NEW s, NEW n, NEW kept, NEW m, NEW g,
           AppendsAll(st, hdr, arrays, slices, home, held, own, own2, r, r2, s, n, kept, m, g)
    PROVE  Agrees(m, g, held, own2) /\ m.result = r /\ g.result = r2
<1> SUFFICES
        ASSUME Sound(st, hdr, arrays, slices, home, held, own),
               s.op = "appendAll", WellTyped(s), n \in held, n = s.dst, own2 \subseteq own \ {n},
               OperandNames(s.src) \subseteq held, InBounds(slices, s.src), s.src.kind # "view",
               ~Overlaps(slices, n, s.src), Peak(Mach(st, Len(st), hdr, r), s) <= MaxSlots,
               m = Execute(Mach(st, Len(st), hdr, r), s), g = GoExecute(GoOf(arrays, slices, r2), s, kept)
        PROVE  Agrees(m, g, held, own2) /\ m.result = r /\ g.result = r2
    BY Zenon DEF AppendsAll
<1> DEFINE x == s.src
           size == Size[n]
           src == resolveStringSlice(Mach(st, Len(st), hdr, r), x)
           t == GoText(GoOf(arrays, slices, r2), x)
           st2 == src.stack
           len == src.hd.len
           needed == hdr[n].len + len
           old == Value([stack |-> st2, top |-> src.top], hdr[n])
           grown == IF needed > hdr[n].cap THEN Reallocated(old, needed, size) ELSE old
           from == IF IsName(x) /\ x.name = n THEN grown.hd.ptr ELSE src.hd.ptr
           w == copyHeapBytes(grown.stack, grown.hd.ptr + hdr[n].len * size, from, len * size)
           v == [grown EXCEPT !.stack = w, !.hd.len = Wrap(needed)]
           V == GoAppendAll(GoOf(arrays, slices, r2), n, t)
           done == Mach(v.stack, v.top, [hdr EXCEPT ![n] = v.hd], r)
<1>1. n \in held \ Strings /\ n \in held /\ n \in Names /\ IsOperand(x, size) /\ size \in Nat \ {0}
    BY NameCells DEF WellTyped
<1>2. /\ st \in Bytes /\ Len(st) \in Nat /\ hdr \in [Names -> Header] /\ Len(st) <= MaxSlots
      /\ HeapStart <= Len(st)
    BY DEF Sound, Typed, Bytes
<1>3. /\ m = IF IsName(x) THEN done ELSE WithHeap(done, freeIfHeapTop([stack |-> v.stack, top |-> v.top], src.hd))
      /\ g = GoOf(V.arrays, [slices EXCEPT ![n] = V.slice], r2)
    <2>1. v = lowerSliceAppendSpread(Value(HeapOf(src), hdr[n]), src.hd, IsName(x) /\ x.name = n, size)
        BY DEF lowerSliceAppendSpread, Value, HeapOf
    <2> HIDE DEF v, src
    <2>2. m = LET d == WithSlice(Mach(st, Len(st), hdr, r), n, v)
              IN  IF IsName(x) THEN d ELSE WithHeap(d, freeIfHeapTop(HeapOf(v), src.hd))
        BY <2>1 DEF Execute, Mach, Value, src, HeapIn
    <2>3. WithSlice(Mach(st, Len(st), hdr, r), n, v) = done
        <3> DEFINE top == Len(st)
        <3> HIDE DEF top
        <3>1. WithHeap(Mach(st, top, hdr, r), v) = Mach(v.stack, v.top, hdr, r)
            BY ONLY MachWithHeap
        <3>2. WithSlice(Mach(st, top, hdr, r), n, v) = [Mach(v.stack, v.top, hdr, r) EXCEPT !.header[n] = v.hd]
            BY ONLY <3>1 DEF WithSlice
        <3>3. [Mach(v.stack, v.top, hdr, r) EXCEPT !.header[n] = v.hd] = done
            BY ONLY DEF Mach
        <3> QED
            BY ONLY <3>2, <3>3 DEF top
    <2>4. g = WithGoSlice(GoOf(arrays, slices, r2), n, V)
        BY DEF GoExecute
    <2>5. g = GoOf(V.arrays, [slices EXCEPT ![n] = V.slice], r2)
        <3> HIDE DEF V
        <3> QED
            BY ONLY <2>4, GoWithSlice
    <2> QED
        BY <2>2, <2>3, <2>5 DEF HeapOf
<1>4. /\ st2 \in Bytes /\ Len(st2) \in Nat /\ Len(st2) = Len(st) + Width(x) /\ Width(x) \in Nat
      /\ len \in Nat /\ hdr[n].len \in Nat /\ hdr[n].cap \in Nat /\ hdr[n].ptr \in Nat
      /\ hdr[n].len <= hdr[n].cap /\ needed \in Nat
    <2>1. st2 \in Bytes /\ Len(st2) = Len(st) + Width(x) /\ Width(x) \in Nat
        BY <1>1, <1>2, OperandWidth
    <2>2. len \in Nat
        BY <1>1, <1>2, OperandLength
    <2>3. hdr[n].len \in Nat /\ hdr[n].cap \in Nat /\ hdr[n].ptr \in Nat /\ hdr[n].len <= hdr[n].cap
        BY <1>1, NameNumbers
    <2>4. needed \in Nat
        <3> DEFINE l == hdr[n].len
        <3>1. l \in Nat /\ len \in Nat
            BY ONLY <2>2, <2>3
        <3> HIDE DEF l, len
        <3>2. l + len \in Nat
            BY ONLY <3>1
        <3> QED
            BY ONLY <3>2 DEF l
    <2>5. Len(st2) \in Nat
        <3> HIDE DEF src
        <3> QED
            BY ONLY <2>1 DEF Bytes
    <2> HIDE DEF src, len, needed
    <2> QED
        BY ONLY <1>2, <2>1, <2>2, <2>3, <2>4, <2>5
<1>5. /\ Len(grown.stack) <= MaxSlots
      /\ needed > hdr[n].cap => Len(grown.stack) = Len(st2) + needed * size
      /\ needed <= hdr[n].cap => grown = old
    <2> HIDE DEF src
    <2>1. needed > hdr[n].cap => /\ Len(grown.stack) = Len(st2) + needed * size
                                 /\ DOMAIN grown.stack = 1 .. Len(grown.stack)
        <3> DEFINE moved == Reallocated(old, needed, size)
        <3>1. size \in Nat /\ old = Value([stack |-> st2, top |-> src.top], hdr[n])
            BY <1>1
        <3> HIDE DEF old, needed, size
        <3>2. moved = Reallocated(old, needed, size)
            BY ONLY TRUE
        <3> HIDE DEF moved
        <3> DEFINE hd == hdr[n]
                   k == needed
                   top == src.top
                   z == size
                   p == st2
                   room == k * z
        <3>5. /\ k \in Nat /\ z \in Nat /\ p \in Bytes /\ old = Value([stack |-> p, top |-> top], hd)
              /\ moved = Reallocated(old, k, z) /\ room = k * z
            BY ONLY <1>4, <3>1, <3>2
        <3> HIDE DEF hd, k, top, z, p, st2, room
        <3>6. Len(moved.stack) = Len(p) + room /\ DOMAIN moved.stack = 1 .. Len(moved.stack)
            <4>1. old.stack = p
                BY ONLY <3>5 DEF Value
            <4>2. /\ Len(Reallocated(old, k, z).stack) = Len(old.stack) + k * z
                  /\ DOMAIN Reallocated(old, k, z).stack = 1 .. Len(Reallocated(old, k, z).stack)
                BY ONLY <3>5, <4>1, ReallocatedLength
            <4> QED
                BY ONLY <3>5, <4>1, <4>2
        <3>3. Len(moved.stack) = Len(st2) + needed * size /\ DOMAIN moved.stack = 1 .. Len(moved.stack)
            BY ONLY <3>6 DEF k, z, p, room
        <3>4. needed > hdr[n].cap => grown = moved
            BY ONLY <3>2
        <3> HIDE DEF grown
        <3> QED
            BY ONLY <3>3, <3>4
    <2>2. needed <= hdr[n].cap => grown = old /\ grown.stack = st2
        <3>1. needed <= hdr[n].cap => grown = old
            <4>1. needed \in Nat /\ hdr[n].cap \in Nat
                BY ONLY <1>4
            <4> HIDE DEF needed, old
            <4> QED
                BY ONLY <4>1
        <3>2. old.stack = st2
            BY ONLY TRUE DEF Value
        <3> HIDE DEF grown, old
        <3> QED
            BY ONLY <3>1, <3>2
    <2>3. DOMAIN grown.stack = 1 .. Len(grown.stack) /\ Len(grown.stack) \in Nat
        <3>1. CASE needed <= hdr[n].cap
            BY <3>1, <2>2, <1>4 DEF Bytes
        <3>2. CASE needed > hdr[n].cap
            <4>1. needed * size \in Nat
                BY <1>1, <1>4
            <4> HIDE DEF grown
            <4>2. Len(grown.stack) \in Nat
                BY ONLY <4>1, <3>2, <2>1, <1>4
            <4> QED
                BY <4>2, <3>2, <2>1
        <3> QED
            BY <3>1, <3>2, <1>4
    <2> DEFINE moved == copyHeapBytes(grown.stack, grown.hd.ptr + hdr[n].len * size, src.hd.ptr, len * size)
               u == [grown EXCEPT !.stack = moved, !.hd.len = Wrap(needed)]
    <2>4. Peak(Mach(st, Len(st), hdr, r), s) = Len(u.stack)
        BY ONLY s.op = "appendAll", n = s.dst, SMTT(40) DEF Peak, lowerSliceAppendSpread, Value, HeapOf, Mach, src
    <2>5. "stack" \in DOMAIN grown
        BY DEF Value, Reallocated, pushHeapRegion
    <2> HIDE DEF grown
    <2>6. Len(moved) = Len(grown.stack)
        BY ONLY <2>3, StoredLength DEF copyHeapBytes, CopyLoop
    <2> HIDE DEF moved
    <2>7. u.stack = moved
        BY ONLY <2>5
    <2> HIDE DEF u
    <2>8. Len(grown.stack) <= MaxSlots
        BY <2>4, <2>6, <2>7
    <2> QED
        BY <2>1, <2>2, <2>8
<1>6. Len(st2) <= MaxSlots
    <2>1. size \in Nat
        BY <1>1
    <2> DEFINE k == needed * size
    <2>2. needed > hdr[n].cap => k \in Nat /\ Len(grown.stack) = Len(st2) + k
        BY <2>1, <1>4, <1>5
    <2>3. needed <= hdr[n].cap => Len(grown.stack) = Len(st2)
        BY <1>5 DEF Value
    <2> DEFINE a == Len(grown.stack)
               b == Len(st2)
               cap == hdr[n].cap
    <2>4. a <= MaxSlots /\ b \in Nat /\ needed \in Nat /\ cap \in Nat /\ MaxSlots \in Nat
        <3> HIDE DEF grown, src, needed
        <3> QED
            BY ONLY <1>4, <1>5, SliceHeapAssumption
    <2>5. (needed > cap => k \in Nat /\ a = b + k) /\ (needed <= cap => a = b)
        BY ONLY <2>2, <2>3
    <2> HIDE DEF k, a, b, cap, grown, needed
    <2>6. b <= MaxSlots
        BY ONLY <2>4, <2>5
    <2> QED
        BY ONLY <2>6 DEF b
<1>7. /\ src.hd \in Header /\ t \in Bytes /\ Fits(t, len, size)
      /\ Extends(st, st2) /\ src.top = Len(st2) /\ Lies(st2, src.hd.ptr, t)
      /\ ~IsTemporary(x) => st2 = st
      /\ IsTemporary(x) => src.hd = [ptr |-> Len(st), len |-> len, cap |-> Width(x)]
    <2>1. src = resolveStringSlice(Mach(st, Len(st), hdr, r), x) /\ t = GoText(GoOf(arrays, slices, r2), x)
        OBVIOUS
    <2>2. OperandNames(x) \subseteq held /\ InBounds(slices, x) /\ Len(st) + Width(x) <= MaxSlots
        BY <1>4, <1>6
    <2> HIDE DEF src, t, x, size
    <2>3. /\ src.hd \in Header /\ t \in Bytes /\ Len(t) = src.hd.len * size
          /\ Extends(st, src.stack) /\ src.top = Len(src.stack) /\ Lies(src.stack, src.hd.ptr, t)
          /\ ~IsTemporary(x) => src.stack = st
          /\ IsTemporary(x) => src.hd.ptr = Len(st) /\ src.hd.cap = Width(x)
        BY <1>1, <2>1, <2>2, OperandLies
    <2> QED
        BY <2>3 DEF Fits, Header
<1>8. \/ IsTemporary(x) /\ ~IsName(x)
      \/ /\ IsName(x) /\ ~IsTemporary(x) /\ x.name \in held /\ Size[x.name] = size
         /\ src.hd = hdr[x.name] /\ t = GoCells(GoOf(arrays, slices, r2), x.name)
    <2>1. CASE IsTemporary(x)
        BY <2>1 DEF IsTemporary, IsName
    <2>2. CASE ~IsTemporary(x)
        <3>1. IsName(x) /\ Size[x.name] = size
            BY <2>2, <1>1 DEF IsTemporary, IsName, IsOperand
        <3>2. x.name \in held
            BY <3>1 DEF IsName, OperandNames
        <3>3. src.hd = hdr[x.name] /\ t = GoCells(GoOf(arrays, slices, r2), x.name)
            BY ONLY <3>1 DEF resolveStringSlice, GoText, Value, Mach, HeapIn, IsName, IsLiteral
        <3> QED
            BY <2>2, <3>1, <3>2, <3>3
    <2> QED
        BY <2>1, <2>2
<1> DEFINE at == hdr[n].len * size
           c == GoCells(GoOf(arrays, slices, r2), n)
<1>9. c \in Bytes /\ Len(c) = at /\ Len(t) = len * size
    <2>1. c = SubSeq(arrays[slices[n].arr], slices[n].off + 1, slices[n].off + slices[n].len * size)
        BY DEF GoCells, GoOf
    <2>2. n \in held
        BY <1>1
    <2> HIDE DEF c, t, src
    <2>3. c \in Bytes /\ Fits(c, hdr[n].len, size)
        BY <2>1, <2>2, NameFits
    <2> QED
        BY <2>3, <1>7 DEF Fits
<1>10. CASE needed > hdr[n].cap
    <2> DEFINE top == Len(st2)
               room == needed * size
    <2>1. /\ Len(st2) + room <= MaxSlots
          /\ old = Value([stack |-> st2, top |-> Len(st2)], hdr[n]) /\ grown = Reallocated(old, needed, size)
        <3>1. Len(st2) + room <= MaxSlots
            <4> HIDE DEF needed, st2, grown
            <4> QED
                BY ONLY <1>5, <1>10
        <3>2. grown = Reallocated(old, needed, size)
            <4> HIDE DEF needed, old
            <4> QED
                BY ONLY <1>10
        <3> QED
            BY <3>1, <3>2, <1>7
    <2>2. grown.hd.ptr \in Nat
        <3>1. grown.hd.ptr = Wrap(Len(st2))
            <4>1. old.hd = hdr[n] /\ HeapOf(old) = [stack |-> st2, top |-> Len(st2)]
                BY ONLY <2>1, SMTT(30) DEF Value, HeapOf
            <4> HIDE DEF old, needed, size, st2, grown
            <4> QED
                BY ONLY <2>1, <4>1 DEF Reallocated, pushHeapRegion, Value, Hd
        <3>2. Len(st2) \in Nat
            BY ONLY <1>4, SMTT(30)
        <3> QED
            <4> HIDE DEF grown, st2
            <4> QED
                BY ONLY <3>1, <3>2, SliceHeapAssumption DEF Wrap
    <2>3. from \in Nat /\ (Lies(st2, from, t) \/ (from = grown.hd.ptr /\ t = c))
        <3>1. CASE IsName(x) /\ x.name = n
            <4>1. from = grown.hd.ptr /\ t = c
                <5> HIDE DEF grown, src, t, c
                <5>1. from = grown.hd.ptr
                    BY ONLY <3>1
                <5>2. t = c
                    BY ONLY <3>1, <1>8 DEF c, IsTemporary, IsName
                <5> QED
                    BY <5>1, <5>2
            <4> QED
                BY ONLY <4>1, <2>2
        <3>2. CASE ~(IsName(x) /\ x.name = n)
            <4>1. from = src.hd.ptr
                <5> HIDE DEF grown, src
                <5> QED
                    BY ONLY <3>2
            <4>2. src.hd.ptr \in Nat
                <5> HIDE DEF src
                <5> QED
                    BY ONLY <1>7, ByteRange DEF Header
            <4> HIDE DEF from, src, t, c, grown
            <4> QED
                BY ONLY <4>1, <4>2, <1>7 DEF src
        <3> QED
            BY ONLY <3>1, <3>2
    <2>4. w = copyHeapBytes(grown.stack, grown.hd.ptr + Len(c), from, Len(t))
        <3> HIDE DEF grown, from, c, t, src
        <3> QED
            BY ONLY <1>9
    <2>5. t \in Bytes /\ Fits(t, len, size) /\ Extends(st, st2) /\ len \in Nat
        BY <1>4, <1>7
    <2>6. V = GoAppendAll(GoOf(arrays, slices, r2), n, t) /\ own2 \subseteq own
        OBVIOUS
    <2>12. room = needed * Size[n] /\ needed = hdr[n].len + len
        OBVIOUS
    <2> HIDE DEF V, t, grown, old, needed, len, w, from, st2, src, room, c, v, done, at, top, x
    <2>10. Spreads(st, hdr, arrays, slices, home, held, own, own2, n, c, t, len, st2, needed, room, old, grown, from, w)
        BY <1>1, <1>10, <2>1, <2>3, <2>4, <2>5, <2>6, <2>12 DEF Spreads
    <2>11. c = GoCells(GoOf(arrays, slices, r2), n)
        BY DEF c
    <2>7. /\ grown.top = Len(w) /\ Len(st2) < Len(w) /\ Len(w) <= MaxSlots /\ w \in Bytes
          /\ Wrap(needed) = needed /\ needed \in Nat
        BY ONLY <2>10, <2>11, SpreadMemory
    <2>13. \E home2 : Sound(w, [hdr EXCEPT ![n] = [ptr |-> Len(st2), len |-> needed, cap |-> needed]],
                            V.arrays, [slices EXCEPT ![n] = V.slice], home2, held, own2)
        <3>1. V = GoAppendAll(GoOf(arrays, slices, r2), n, t)
            BY ONLY <2>6
        <3> QED
            BY ONLY <3>1, <2>10, <2>11, SpreadReallocated, ZenonT(40)
    <2>14. Wrap(Len(st2)) = Len(st2) /\ Len(st2) < Mod
        <3> DEFINE k == Len(st2)
        <3>1. k \in Nat /\ k <= MaxSlots
            BY ONLY <1>4, <1>6 DEF st2
        <3> HIDE DEF k
        <3>2. Wrap(k) = k /\ k < Mod
            BY ONLY <3>1, WrapSmall, SliceHeapAssumption
        <3> QED
            BY ONLY <3>2 DEF k
    <2>8. v = [stack |-> w, top |-> Len(w), hd |-> [ptr |-> Len(st2), len |-> needed, cap |-> needed]]
        <3> DEFINE hd == hdr[n]
                   l == hd.len
        <3>1. grown = [stack |-> grown.stack, top |-> grown.top, hd |-> [ptr |-> top, len |-> l, cap |-> needed]]
            <4>1. /\ hd \in Header /\ top \in Nat /\ top < Mod /\ Wrap(needed) = needed
                  /\ old = Value([stack |-> st2, top |-> top], hd) /\ grown = Reallocated(old, needed, size)
                BY ONLY <1>1, <1>4, <2>1, <2>7, <2>14, NameCells, Sound(st, hdr, arrays, slices, home, held, own)
                   DEF top, st2
            <4> HIDE DEF hd, size
            <4> QED
                BY ONLY <4>1, ReallocatedHeader
        <3> HIDE DEF l
        <3>2. v = [grown EXCEPT !.stack = w, !.hd.len = needed]
            BY ONLY <2>7 DEF v
        <3>3. v = [[stack |-> grown.stack, top |-> grown.top, hd |-> [ptr |-> top, len |-> l, cap |-> needed]]
                      EXCEPT !.stack = w, !.hd.len = needed]
            BY ONLY <3>1, <3>2
        <3>4. v = [stack |-> w, top |-> grown.top, hd |-> [ptr |-> top, len |-> needed, cap |-> needed]]
            BY ONLY <3>3
        <3> QED
            BY ONLY <3>4, <2>7 DEF top
    <2>9. m = Mach(w, Len(w), [hdr EXCEPT ![n] = [ptr |-> Len(st2), len |-> needed, cap |-> needed]], r)
        <3>1. done = Mach(w, Len(w), [hdr EXCEPT ![n] = [ptr |-> Len(st2), len |-> needed, cap |-> needed]], r)
            BY ONLY <2>8 DEF done
        <3>2. CASE IsTemporary(x)
            <4>1. freeIfHeapTop([stack |-> v.stack, top |-> v.top], src.hd) = [stack |-> v.stack, top |-> v.top]
                <5>1. src.hd.ptr + src.hd.cap = Len(st2) /\ Wrap(Len(st2)) = Len(st2)
                    <6>1. src.hd.ptr + src.hd.cap = Len(st2)
                        BY <3>2, <1>4, <1>7 DEF st2
                    <6> QED
                        BY <6>1, <2>14
                <5>2. v.top # Len(st2)
                    BY ONLY <2>7, <2>8, <1>4 DEF Bytes, st2
                <5> QED
                    BY ONLY <5>1, <5>2 DEF freeIfHeapTop, AtTop
            <4>2. m = WithHeap(done, [stack |-> v.stack, top |-> v.top])
                BY ONLY <4>1, <3>2, <1>3 DEF IsTemporary, IsName, v, src
            <4>3. WithHeap(done, [stack |-> v.stack, top |-> v.top]) = done
                BY ONLY MachWithHeap DEF done
            <4> QED
                BY ONLY <4>2, <4>3, <3>1
        <3>3. CASE IsName(x)
            BY ONLY <3>1, <3>3, <1>3
        <3> QED
            BY ONLY <3>2, <3>3, <1>8
    <2> QED
        BY ONLY <2>9, <2>13, <1>3 DEF Agrees, Mach, GoOf
<1>11. CASE needed <= hdr[n].cap
    <2> DEFINE dst == hdr[n].ptr + at
               ptr == src.hd.ptr
               hdr2 == [hdr EXCEPT ![n] = [@ EXCEPT !.len = needed]]
               slices2 == [slices EXCEPT ![n] = [@ EXCEPT !.len = needed]]
               arrays2 == GoWrite(arrays, slices[n].arr, slices[n].off + slices[n].len * size, t)
    <2>1. grown = old /\ old.stack = st2 /\ old.hd = hdr[n] /\ old.top = src.top
        <3>1. grown = old
            BY ONLY <1>5, <1>11
        <3>2. old.stack = st2 /\ old.hd = hdr[n] /\ old.top = src.top
            BY ONLY TRUE DEF Value
        <3> QED
            BY <3>1, <3>2
    <2>2. from = ptr
        <3>1. CASE IsName(x) /\ x.name = n
            <4>1. src.hd = hdr[n]
                <5> HIDE DEF src, t
                <5> QED
                    BY ONLY <3>1, <1>8 DEF IsTemporary, IsName
            <4>2. from = grown.hd.ptr
                <5> HIDE DEF grown, src
                <5> QED
                    BY ONLY <3>1
            <4> HIDE DEF from, grown, src, old
            <4> QED
                BY ONLY <4>1, <4>2, <2>1 DEF src
        <3>2. CASE ~(IsName(x) /\ x.name = n)
            <4> HIDE DEF grown
            <4> QED
                BY ONLY <3>2
        <3> QED
            BY ONLY <3>1, <3>2
    <2>3. ptr \in Nat
        BY ONLY <1>7, ByteRange DEF Header
    <2>4. at \in Nat /\ dst \in Nat /\ len * size \in Nat
        <3>1. size \in Nat \ {0} /\ len \in Nat /\ hdr[n].len \in Nat /\ hdr[n].ptr \in Nat
            <4> HIDE DEF src
            <4> QED
                BY ONLY <1>1, <1>4
        <3>2. at \in Nat /\ len * size \in Nat
            <4> HIDE DEF len, size
            <4> QED
                BY ONLY <3>1, Times
        <3> HIDE DEF at, len
        <3> QED
            BY ONLY <3>1, <3>2
    <2>5. dst <= ptr \/ ptr + Len(t) <= dst
        <3>1. CASE IsName(x)
            <4>1. x.name \in held /\ Size[x.name] = Size[n] /\ src.hd = hdr[x.name] /\ len = hdr[x.name].len
                BY ONLY <3>1, <1>8 DEF IsTemporary, IsName
            <4>2. hdr[n].len + hdr[x.name].len <= hdr[n].cap
                BY ONLY <4>1, <1>11
            <4>3. n \in held \ Strings /\ ~Overlaps(slices, n, x)
                BY <1>1
            <4> HIDE DEF x, src
            <4>4. \/ hdr[n].ptr + hdr[n].len * Size[n] <= hdr[x.name].ptr
                  \/ hdr[x.name].ptr + hdr[x.name].len * Size[n] <= hdr[n].ptr + hdr[n].len * Size[n]
                BY ONLY <3>1, <4>1, <4>2, <4>3, Sound(st, hdr, arrays, slices, home, held, own), SpreadApart
            <4> QED
                BY ONLY <4>1, <4>4, <1>9
        <3>2. CASE IsTemporary(x)
            <4>1. ptr = Len(st)
                <5> HIDE DEF src
                <5> QED
                    BY ONLY <3>2, <1>7
            <4>2. hdr[n].cap > 0 => hdr[n].ptr + hdr[n].cap * Size[n] <= Len(st)
                BY ONLY <1>1, Sound(st, hdr, arrays, slices, home, held, own), NameNumbers
            <4>3. hdr[n].len * Size[n] <= hdr[n].cap * Size[n] /\ hdr[n].cap * Size[n] \in Nat
                BY ONLY <1>1, Sound(st, hdr, arrays, slices, home, held, own), NameNumbers
            <4> DEFINE room == hdr[n].cap * size
                       k == Len(t)
            <4>4. at <= room /\ room \in Nat /\ (hdr[n].cap > 0 => hdr[n].ptr + room <= Len(st))
                BY ONLY <4>2, <4>3
            <4>5. hdr[n].cap = 0 => k = 0
                <5>1. hdr[n].cap = 0 => len = 0
                    <6> DEFINE l == hdr[n].len
                               p == hdr[n].cap
                    <6>1. l \in Nat /\ len \in Nat /\ l + len <= p
                        <7> HIDE DEF src
                        <7> QED
                            BY ONLY <1>4, <1>11
                    <6>2. p = 0 => len = 0
                        <7> HIDE DEF l, len, p
                        <7> QED
                            BY ONLY <6>1
                    <6> HIDE DEF len
                    <6> QED
                        BY ONLY <6>2
                <5>2. len = 0 => k = 0
                    <6> HIDE DEF len, t
                    <6> QED
                        BY ONLY <1>1, <1>9
                <5> QED
                    BY ONLY <5>1, <5>2
            <4>6. k \in Nat
                BY ONLY <1>7 DEF Bytes
            <4> DEFINE b == hdr[n].ptr
            <4>7. dst = b + at /\ b \in Nat /\ at \in Nat /\ Len(st) \in Nat
                BY ONLY <1>2, <1>4, <2>4
            <4>8. b + at <= Len(st) \/ k = 0
                <5> DEFINE cap == hdr[n].cap
                <5>1. cap \in Nat
                    BY ONLY <1>4
                <5>2. (cap > 0 => b + room <= Len(st)) /\ (cap = 0 => k = 0)
                    BY ONLY <4>4, <4>5
                <5> HIDE DEF at, room, k, cap, b
                <5> QED
                    BY ONLY <5>1, <5>2, <4>4, <4>7
            <4> HIDE DEF at, k, ptr, b, dst
            <4> QED
                BY ONLY <4>1, <4>6, <4>7, <4>8 DEF k
        <3> QED
            BY ONLY <3>1, <3>2, <1>8
    <2>6. w = Stored(st2, dst, t)
        <3>1. w = copyHeapBytes(st2, dst, ptr, Len(t))
            <4>1. w = copyHeapBytes(grown.stack, grown.hd.ptr + at, from, len * size)
                OBVIOUS
            <4> HIDE DEF w, grown, from, ptr, t, old, st2, at, len
            <4> QED
                BY ONLY <4>1, <2>1, <2>2, <1>9
        <3>2. Lies(st2, ptr, t) /\ t \in Bytes /\ st2 \in Bytes
            BY ONLY <1>4, <1>7
        <3> HIDE DEF w, dst, ptr, t, st2
        <3> QED
            BY ONLY <3>1, <3>2, <2>3, <2>4, <2>5, CopyForward
    <2>7. v = [stack |-> w, top |-> Len(st2), hd |-> [hdr[n] EXCEPT !.len = needed]]
        <3>1. grown = [stack |-> st2, top |-> Len(st2), hd |-> hdr[n]]
            <4>1. grown = [stack |-> st2, top |-> src.top, hd |-> hdr[n]]
                <5> HIDE DEF src, grown
                <5> QED
                    BY ONLY <2>1 DEF Value
            <4> HIDE DEF grown, src
            <4> QED
                BY ONLY <4>1, <1>7
        <3>2. Wrap(needed) = needed
            <4>1. hdr[n].cap < Mod
                BY ONLY <1>1, Sound(st, hdr, arrays, slices, home, held, own), NameNumbers
            <4> HIDE DEF needed
            <4> QED
                BY ONLY <4>1, <1>4, <1>11, WrapSmall, SliceHeapAssumption
        <3> HIDE DEF grown, needed, w, st2
        <3>3. v = [grown EXCEPT !.stack = w, !.hd.len = needed]
            BY ONLY <3>2
        <3>4. v = [[stack |-> st2, top |-> Len(st2), hd |-> hdr[n]] EXCEPT !.stack = w, !.hd.len = needed]
            BY ONLY <3>1, <3>3
        <3> HIDE DEF v
        <3> QED
            BY ONLY <3>4
    <2>8. V = GoValue(arrays2, [slices[n] EXCEPT !.len = needed])
        <3>1. Len(t) \div size = len
            <4> HIDE DEF t, len
            <4> QED
                BY ONLY <1>1, <1>4, <1>9, DivTimes
        <3>2. slices[n].len = hdr[n].len /\ slices[n].cap = hdr[n].cap
            BY ONLY <1>1, Sound(st, hdr, arrays, slices, home, held, own), NameNumbers
        <3>3. slices[n].len + Len(t) \div size = needed /\ ~(needed > slices[n].cap)
            <4> DEFINE d == Len(t) \div size
                       l == hdr[n].len
            <4>1. l \in Nat /\ len \in Nat /\ hdr[n].cap \in Nat /\ l + len <= hdr[n].cap /\ d = len
                <5> HIDE DEF t, src
                <5> QED
                    BY ONLY <3>1, <1>4, <1>11
            <4>2. slices[n].len = l
                BY ONLY <3>2
            <4> HIDE DEF d, len, l
            <4>3. slices[n].len + d = l + len /\ ~(l + len > slices[n].cap)
                BY ONLY <4>1, <4>2, <3>2
            <4> HIDE DEF t
            <4> QED
                BY ONLY <4>3 DEF d, l
        <3> HIDE DEF t, needed
        <3> QED
            BY ONLY <3>3 DEF GoAppendAll, GoOf
    <2> DEFINE low == SubSeq(w, 1, Len(st))
    <2>9. /\ w \in Bytes /\ Len(w) = Len(st2)
          /\ Sound(w, hdr2, arrays2, slices2, home, held, own2)
          /\ Sound(low, hdr2, arrays2, slices2, home, held, own2)
        <3>1. /\ n \in held \ Strings /\ Extends(st, st2) /\ Len(st2) <= MaxSlots /\ len \in Nat /\ t \in Bytes
              /\ Len(t) = len * Size[n] /\ hdr[n].len + len <= hdr[n].cap /\ own2 \subseteq own \ {n}
            <4> HIDE DEF w, t, src
            <4> QED
                BY <1>1, <1>4, <1>6, <1>7, <1>9, <1>11
        <3>2. /\ arrays2 = GoWrite(arrays, slices[n].arr, slices[n].off + slices[n].len * Size[n], t)
              /\ needed = hdr[n].len + len
              /\ hdr2 = [hdr EXCEPT ![n] = [@ EXCEPT !.len = needed]]
              /\ slices2 = [slices EXCEPT ![n] = [@ EXCEPT !.len = needed]]
            <4> HIDE DEF w, t, src
            <4> QED
                BY ONLY TRUE
        <3>3. w = Stored(st2, hdr[n].ptr + hdr[n].len * Size[n], t)
            <4> HIDE DEF w, t, src
            <4> QED
                BY ONLY <2>6
        <3> HIDE DEF w, t, src, st2, len, arrays2, needed, hdr2, slices2, low
        <3>4. Tails(st, hdr, arrays, slices, home, held, own, own2, n, st2, len, t, w, arrays2, needed, hdr2, slices2)
            BY ONLY <3>1, <3>2, <3>3, Sound(st, hdr, arrays, slices, home, held, own) DEF Tails
        <3> QED
            BY ONLY <3>4, SoundTail DEF low
    <2>10. done = Mach(w, Len(w), hdr2, r) /\ g = GoOf(arrays2, slices2, r2)
        <3>1. hdr2 = [hdr EXCEPT ![n] = [hdr[n] EXCEPT !.len = needed]]
              /\ slices2 = [slices EXCEPT ![n] = [slices[n] EXCEPT !.len = needed]]
            <4> HIDE DEF needed
            <4> QED
                BY ONLY TRUE
        <3> HIDE DEF v, V, w, needed, st2, hdr2, slices2, arrays2
        <3>2. done = Mach(w, Len(w), hdr2, r)
            BY ONLY <2>7, <2>9, <3>1
        <3>3. g = GoOf(arrays2, slices2, r2)
            BY ONLY <2>8, <1>3, <3>1 DEF GoValue
        <3> QED
            BY ONLY <3>2, <3>3
    <2>11. CASE IsName(x)
        <3>1. m = Mach(w, Len(w), hdr2, r)
            <4> HIDE DEF done, w, hdr2, src, v
            <4> QED
                BY ONLY <2>10, <2>11, <1>3
        <3> HIDE DEF w, hdr2, arrays2, slices2
        <3> QED
            BY ONLY <3>1, <2>9, <2>10 DEF Agrees, Mach, GoOf
    <2>12. CASE IsTemporary(x)
        <3>1. freeIfHeapTop([stack |-> v.stack, top |-> v.top], src.hd) = [stack |-> low, top |-> Len(st)]
            <4>1. Len(st) \in Nat /\ Width(x) \in Nat /\ Len(st) + Width(x) = Len(w) /\ Len(w) <= MaxSlots
                <5> HIDE DEF w, src
                <5> QED
                    BY ONLY <1>2, <1>4, <1>6, <2>9
            <4>2. v.stack = w /\ v.top = Len(w)
                <5> HIDE DEF v, w, st2, needed
                <5> QED
                    BY ONLY <2>7, <2>9
            <4>3. src.hd = [ptr |-> Len(st), len |-> len, cap |-> Width(x)]
                BY ONLY <2>12, <1>7
            <4> HIDE DEF v, w, src, len
            <4>4. freeIfHeapTop([stack |-> w, top |-> Len(w)], [ptr |-> Len(st), len |-> len, cap |-> Width(x)])
                      = [stack |-> SubSeq(w, 1, Len(st)), top |-> Len(st)]
                BY ONLY <4>1, <2>9, FreeTop
            <4> QED
                BY ONLY <4>2, <4>3, <4>4
        <3>2. m = Mach(low, Len(st), hdr2, r)
            <4>1. ~IsName(x)
                BY ONLY <2>12 DEF IsTemporary, IsName
            <4> HIDE DEF done, w, hdr2, src, v, low
            <4>2. m = WithHeap(Mach(w, Len(w), hdr2, r), [stack |-> low, top |-> Len(st)])
                BY ONLY <2>10, <4>1, <1>3, <3>1
            <4> QED
                BY ONLY <4>2, MachWithHeap
        <3>3. Len(low) = Len(st)
            <4>1. w \in Bytes /\ Len(st) \in Nat /\ Len(st) <= Len(w)
                <5> HIDE DEF w, st2
                <5> QED
                    BY ONLY <1>2, <1>7, <2>9 DEF Extends
            <4> HIDE DEF w
            <4> QED
                BY ONLY <4>1 DEF Bytes
        <3> HIDE DEF low, hdr2, arrays2, slices2, w
        <3>4. m.top = Len(m.stack) /\ m.result = r /\ g.result = r2
            BY ONLY <3>2, <3>3, <2>10 DEF Mach, GoOf
        <3>5. Sound(m.stack, m.header, g.arrays, g.slices, home, held, own2)
            BY ONLY <3>2, <2>9, <2>10 DEF Mach, GoOf
        <3> QED
            BY ONLY <3>4, <3>5 DEF Agrees
    <2> QED
        BY ONLY <2>11, <2>12, <1>8
<1> QED
    <2> HIDE DEF src, needed
    <2> QED
        BY ONLY <1>4, <1>10, <1>11

=============================================================================
