-------------------------- MODULE RegCacheProofs --------------------------
(***************************************************************************)
(* The register cache is coherent, for every number of registers, slots    *)
(* and phase temps, and the generated code implements the IR's memory.     *)
(*                                                                         *)
(* Two assumptions: array bases stay below 20 and no program reads the     *)
(* source of an IRMove again.  The code breaks the properties without the  *)
(* first, and comments of the code contradict it without the second: TLC   *)
(* shows both when RegCacheOperands sets LargeBases or ReadAfterMove.      *)
(***************************************************************************)
EXTENDS RegCache, SequenceTheorems, WellFoundedInduction, TLAPS

-----------------------------------------------------------------------------
(* What each operation of the register cache and the code of each node do  *)
(* to the values of the cells, for one generator state at a time: regCache *)
(* first (evict, allocIdx, ensure, assign, flush, ...), then genNode.       *)

\* The parts of a sound generator state.  Good is what every operation keeps.
FreeIsClean(g) == \A i \in Regs : g.regs[i].slot = NoSlot => ~g.regs[i].dirty

Unaliased(g) ==
    \A i, j \in Regs :
        g.regs[i].slot = g.regs[j].slot /\ g.regs[i].slot # NoSlot => i = j

CleanIn(g) ==
    \A i \in Regs :
        g.regs[i].slot # NoSlot /\ ~g.regs[i].dirty => g.cpu[i] = g.stack[g.regs[i].slot]

Good(g) == g \in Gens /\ FreeIsClean(g) /\ Unaliased(g) /\ CleanIn(g)

\* Contents, of a given generator state.
ValueOf(g, c) ==
    IF c \in Temps THEN g.cpu[c]
    ELSE IF Cached(g, c) THEN g.cpu[Holder(g, c)] ELSE g.stack[c]

\* Place p of the CPU area is where the generator keeps cell c.
Keeps(g, c, p) ==
    IF c \in Temps THEN p = c ELSE p \in Regs /\ g.regs[p].slot = c

\* The register a search for the least one returns is one of those searched (the
\* loops over regs in allocIdx and allocNeighbor).
LEMMA LeastRegister ==
    ASSUME NEW S \in SUBSET Regs, S # {}
    PROVE  Min(S) \in S
<1>1. NumRegs \in Nat
    BY RegAssumption
<1>2. S \subseteq Nat
    BY <1>1 DEF Regs
<1> DEFINE Less == {ss \in Nat \X Nat : ss[1] < ss[2]}
<1>3. IsWellFoundedOn(Less, Nat)
    BY NatLessThanWellFounded DEF OpToRel
<1>4. \A m, n \in Nat : <<m, n>> \notin Less => n =< m
    OBVIOUS
<1> HIDE DEF Less
<1>5. PICK x \in S : \A y \in S : ~(<<y, x>> \in Less)
    BY <1>2, <1>3, WFMin
<1>6. \A y \in S : x =< y
    BY <1>2, <1>4, <1>5
<1> QED
    BY <1>6 DEF Min

\* The register found for a cached slot holds that slot (ensure, assign).
LEMMA HolderOf ==
    ASSUME NEW g, Good(g), NEW s \in Slots, Cached(g, s)
    PROVE  Holder(g, s) \in Regs /\ g.regs[Holder(g, s)].slot = s
BY DEF Cached, Holder

\* A cell kept at a place has its value there.
LEMMA KeepsValue ==
    ASSUME NEW g, Good(g), NEW c \in Cells, NEW p, Keeps(g, c, p)
    PROVE  p \in Places /\ ValueOf(g, c) = g.cpu[p]
<1>1. CASE c \in Temps
    BY <1>1 DEF Keeps, ValueOf, Places
<1>2. CASE c \notin Temps
    <2>1. p \in Regs /\ g.regs[p].slot = c /\ c \in Slots
        BY <1>2 DEF Keeps, Cells
    <2>2. c # NoSlot
        BY <2>1, IRAssumption DEF NoSlot
    <2>3. Cached(g, c) /\ Holder(g, c) = p
        BY <2>1, <2>2, HolderOf DEF Good, Unaliased, Cached
    <2> QED
        BY <1>2, <2>1, <2>3 DEF ValueOf, Places
<1> QED
    BY <1>1, <1>2

\* The fields of a generator state, one by one, for provers that need them apart.
LEMMA GensShape ==
    ASSUME NEW g \in Gens
    PROVE  /\ g.regs \in [Regs -> Entries]
           /\ g.next \in Regs
           /\ g.cpu \in [Places -> Byte]
           /\ g.stack \in [Slots -> Byte]
           /\ \A i \in Regs : /\ g.regs[i].slot \in Slots \cup {NoSlot}
                              /\ g.regs[i].dirty \in BOOLEAN
                              /\ g.cpu[i] \in Byte
           /\ g = [regs |-> g.regs, next |-> g.next, cpu |-> g.cpu, stack |-> g.stack]
BY DEF Gens, Entries, Places

\* evict writes at most the slot of its own register and frees that register.
LEMMA EvictShape ==
    ASSUME NEW g, Good(g), NEW i \in Regs
    PROVE  LET h == Evict(g, i)
           IN  /\ h \in Gens
               /\ h.regs = [g.regs EXCEPT ![i] = FreeEntry]
               /\ h.cpu = g.cpu /\ h.next = g.next
               /\ \A s \in Slots :
                     h.stack[s] = IF g.regs[i].dirty /\ s = g.regs[i].slot
                                  THEN g.cpu[i] ELSE g.stack[s]
<1>1. g \in Gens /\ FreeEntry \in Entries
    BY DEF Good, FreeEntry, Entries
<1>2. g.regs[i].dirty => g.regs[i].slot \in Slots
    BY <1>1, GensShape DEF Good, FreeIsClean
<1> QED
    BY <1>1, <1>2, GensShape DEF Evict, Gens, Places

\* Two states in which every cell has the same value, and one is kept in each
\* place of avoid where the other keeps it.
SameValues(g, h) == \A c \in Cells : ValueOf(h, c) = ValueOf(g, c)

\* evict loses no value: a dirty register reaches its slot, a clean one was there.
LEMMA EvictKeeps ==
    ASSUME NEW g, Good(g), NEW i \in Regs
    PROVE  Good(Evict(g, i)) /\ SameValues(g, Evict(g, i))
<1> DEFINE h == Evict(g, i)
<1>1. /\ h \in Gens
      /\ h.regs = [g.regs EXCEPT ![i] = FreeEntry]
      /\ h.cpu = g.cpu
      /\ \A s \in Slots :
            h.stack[s] = IF g.regs[i].dirty /\ s = g.regs[i].slot
                         THEN g.cpu[i] ELSE g.stack[s]
    BY EvictShape
<1> HIDE DEF h
<1>2. g \in Gens /\ FreeIsClean(g) /\ Unaliased(g) /\ CleanIn(g)
    BY DEF Good
<1>3. /\ h.regs[i].slot = NoSlot /\ ~h.regs[i].dirty
      /\ \A j \in Regs \ {i} : h.regs[j] = g.regs[j]
    BY <1>1, <1>2, GensShape DEF FreeEntry
<1>4. FreeIsClean(h) /\ Unaliased(h)
    BY <1>2, <1>3 DEF FreeIsClean, Unaliased
<1>5. CleanIn(h)
    <2> SUFFICES ASSUME NEW j \in Regs, h.regs[j].slot # NoSlot, ~h.regs[j].dirty
                 PROVE  h.cpu[j] = h.stack[h.regs[j].slot]
        BY DEF CleanIn
    <2>1. j # i /\ h.regs[j] = g.regs[j]
        BY <1>3
    <2>2. g.regs[j].slot \in Slots /\ g.regs[j].slot # g.regs[i].slot
        BY <1>2, <2>1, GensShape DEF Unaliased
    <2>3. g.cpu[j] = g.stack[g.regs[j].slot]
        BY <1>2, <2>1 DEF CleanIn
    <2> QED
        BY <1>1, <2>1, <2>2, <2>3
<1>6. Good(h)
    BY <1>1, <1>4, <1>5 DEF Good
<1>7. ASSUME NEW c \in Cells PROVE ValueOf(h, c) = ValueOf(g, c)
    <2>1. CASE c \in Temps
        BY <1>1, <2>1 DEF ValueOf
    <2>2. CASE c \notin Temps /\ g.regs[i].slot = c
        <3>1. c \in Slots /\ c # NoSlot
            BY <2>2, IRAssumption DEF Cells, NoSlot
        <3>2. ~Cached(h, c)
            BY <1>2, <1>3, <2>2, <3>1 DEF Cached, Unaliased
        <3>3. ValueOf(g, c) = g.cpu[i]
            BY <2>2, KeepsValue DEF Keeps
        <3>4. ~g.regs[i].dirty => g.cpu[i] = g.stack[c]
            BY <1>2, <2>2, <3>1 DEF CleanIn
        <3> QED
            BY <1>1, <2>2, <3>1, <3>2, <3>3, <3>4 DEF ValueOf
    <2>3. CASE c \notin Temps /\ g.regs[i].slot # c
        <3>1. c \in Slots /\ c # NoSlot
            BY <2>3, IRAssumption DEF Cells, NoSlot
        <3>2. CASE \E j \in Regs : g.regs[j].slot = c
            <4>1. PICK j \in Regs : g.regs[j].slot = c
                BY <3>2
            <4>2. Keeps(g, c, j) /\ Keeps(h, c, j)
                BY <1>3, <2>3, <4>1 DEF Keeps
            <4>3. ValueOf(g, c) = g.cpu[j] /\ ValueOf(h, c) = h.cpu[j]
                BY <1>6, <4>2, KeepsValue
            <4> QED
                BY <1>1, <4>3
        <3>3. CASE ~ \E j \in Regs : g.regs[j].slot = c
            <4>1. ~Cached(g, c) /\ ~Cached(h, c)
                BY <1>3, <3>1, <3>3 DEF Cached
            <4> QED
                BY <1>1, <2>3, <3>1, <4>1 DEF ValueOf
        <3> QED
            BY <3>2, <3>3
    <2> QED
        BY <2>1, <2>2, <2>3
<1> QED
    BY <1>6, <1>7 DEF h, SameValues

\* allocIdx returns a free register outside avoid and changes no cell, whether it
\* found the register free or evicted it round robin.
LEMMA AllocFacts ==
    ASSUME NEW g, Good(g), NEW avoid, Regs \ avoid # {}
    PROVE  LET a == AllocIdx(g, avoid)
           IN  /\ Good(a.g) /\ SameValues(g, a.g)
               /\ a.at \in Regs \ avoid /\ a.g.regs[a.at].slot = NoSlot
               /\ \A j \in Regs \ {a.at} : a.g.regs[j] = g.regs[j]
               /\ a.g.cpu = g.cpu
<1> DEFINE free == {i \in Regs \ avoid : g.regs[i].slot = NoSlot}
           turns == {k \in Regs : (g.next + k) % NumRegs \notin avoid}
           i == (g.next + Min(turns)) % NumRegs
           turned == [g EXCEPT !.next = (i + 1) % NumRegs]
           a == AllocIdx(g, avoid)
<1>1. g \in Gens /\ g.next \in Regs
    BY GensShape DEF Good
<1>2. NumRegs \in Nat /\ NumRegs > 0
    BY RegAssumption
<1>3. CASE free # {}
    <2>1. Min(free) \in free
        BY <1>3, LeastRegister
    <2>2. a = [g |-> g, at |-> Min(free)]
        BY <1>3 DEF AllocIdx
    <2> QED
        BY <2>1, <2>2 DEF SameValues
<1>4. CASE free = {}
    <2>1. PICK j \in Regs : j \notin avoid
        OBVIOUS
    <2>2. \E k \in Regs : (g.next + k) % NumRegs = j
        <3>1. CASE j >= g.next
            <4>1. j - g.next \in Regs /\ g.next + (j - g.next) = j
                BY <1>1, <1>2, <3>1 DEF Regs
            <4>2. j % NumRegs = j
                BY <1>2 DEF Regs
            <4> QED
                BY <4>1, <4>2
        <3>2. CASE j < g.next
            <4>1. /\ j - g.next + NumRegs \in Regs
                  /\ g.next + (j - g.next + NumRegs) = j + NumRegs
                BY <1>1, <1>2, <3>2 DEF Regs
            <4>2. (j + NumRegs) % NumRegs = j
                BY <1>2 DEF Regs
            <4> QED
                BY <4>1, <4>2
        <3> QED
            BY <1>1, <3>1, <3>2 DEF Regs
    <2>3. turns # {}
        BY <2>1, <2>2
    <2>4. Min(turns) \in turns
        BY <2>3, LeastRegister
    <2>5. i \in Regs \ avoid
        <3>1. i \notin avoid
            BY <2>4
        <3>2. g.next + Min(turns) \in Nat
            BY <1>1, <1>2, <2>4 DEF Regs
        <3> HIDE DEF turns
        <3>3. i \in 0 .. (NumRegs - 1)
            BY <1>2, <3>2
        <3> QED
            BY <3>1, <3>3 DEF Regs
    <2> HIDE DEF i
    <2>6. (i + 1) % NumRegs \in Regs
        BY <1>2, <2>5 DEF Regs
    <2>7. /\ turned \in Gens /\ turned.regs = g.regs
          /\ turned.cpu = g.cpu /\ turned.stack = g.stack
        BY <1>1, <2>6 DEF Gens
    <2> HIDE DEF turned
    <2>8. Good(turned) /\ SameValues(g, turned)
        BY <2>7 DEF Good, FreeIsClean, Unaliased, CleanIn, SameValues, ValueOf, Cached, Holder
    <2>9. a = [g |-> Evict(turned, i), at |-> i]
        BY <1>4 DEF AllocIdx, turned, i
    <2>10. Good(Evict(turned, i)) /\ SameValues(turned, Evict(turned, i))
        BY <2>5, <2>8, EvictKeeps
    <2>11. /\ Evict(turned, i).regs = [g.regs EXCEPT ![i] = FreeEntry]
           /\ Evict(turned, i).cpu = g.cpu
        <3>1. /\ Evict(turned, i).regs = [turned.regs EXCEPT ![i] = FreeEntry]
              /\ Evict(turned, i).cpu = turned.cpu
            BY <2>5, <2>8, EvictShape
        <3> QED
            BY <2>7, <3>1
    <2>12. SameValues(g, Evict(turned, i))
        BY <2>8, <2>10 DEF SameValues
    <2> QED
        BY <1>1, <2>5, <2>9, <2>10, <2>11, <2>12, GensShape DEF FreeEntry
<1> QED
    BY <1>3, <1>4

\* What g keeps in the places of avoid, h keeps there too.
StillKeeps(g, h, avoid) ==
    \A c \in Cells : \A p \in avoid : Keeps(g, c, p) => Keeps(h, c, p)

\* Phase temps are not registers, and the "none" values are no slot, cell or place.
LEMMA PlacesApart ==
    Temps \cap Regs = {} /\ NoSlot \notin Slots /\ NoSlot \notin Cells /\ NoPlace \notin Places
BY IRAssumption, RegAssumption DEF Regs, NoSlot, NoPlace, Places, Cells

\* Loading a slot into a free register and recording it clean changes no cell.
LEMMA BindLoaded ==
    ASSUME NEW g, Good(g), NEW i \in Regs, g.regs[i].slot = NoSlot,
           NEW s \in Slots, ~Cached(g, s)
    PROVE  LET h == Bind(LoadFromStack(g, i, s), i, s, FALSE)
           IN  /\ Good(h) /\ SameValues(g, h)
               /\ h.regs[i].slot = s
               /\ \A j \in Regs \ {i} : h.regs[j] = g.regs[j]
               /\ \A p \in Places \ {i} : h.cpu[p] = g.cpu[p]
<1> DEFINE h == Bind(LoadFromStack(g, i, s), i, s, FALSE)
<1>1. g \in Gens /\ FreeIsClean(g) /\ Unaliased(g) /\ CleanIn(g)
    BY DEF Good
<1>2. [slot |-> s, dirty |-> FALSE] \in Entries
    BY DEF Entries
<1>3. /\ h \in Gens
      /\ h.regs = [g.regs EXCEPT ![i] = [slot |-> s, dirty |-> FALSE]]
      /\ h.cpu = [g.cpu EXCEPT ![i] = g.stack[s]]
      /\ h.stack = g.stack
    BY <1>1, <1>2 DEF Bind, LoadFromStack, Gens, Places
<1> HIDE DEF h
<1>4. /\ h.regs[i].slot = s /\ ~h.regs[i].dirty /\ h.cpu[i] = g.stack[s]
      /\ \A j \in Regs \ {i} : h.regs[j] = g.regs[j]
      /\ \A p \in Places \ {i} : h.cpu[p] = g.cpu[p]
    BY <1>1, <1>3, GensShape DEF Places
<1>5. s # NoSlot /\ \A j \in Regs : g.regs[j].slot # s
    BY PlacesApart DEF Cached
<1>6. FreeIsClean(h) /\ Unaliased(h)
    BY <1>1, <1>4, <1>5 DEF FreeIsClean, Unaliased
<1>7. CleanIn(h)
    BY <1>1, <1>3, <1>4 DEF CleanIn, Places
<1>8. Good(h)
    BY <1>3, <1>6, <1>7 DEF Good
<1>9. ASSUME NEW c \in Cells PROVE ValueOf(h, c) = ValueOf(g, c)
    <2>1. CASE c \in Temps
        BY <1>4, <2>1, PlacesApart DEF ValueOf, Places
    <2>2. CASE c \notin Temps /\ \E j \in Regs : g.regs[j].slot = c
        <3>1. PICK j \in Regs : g.regs[j].slot = c
            BY <2>2
        <3>2. j # i
            BY <3>1, PlacesApart
        <3>3. Keeps(g, c, j) /\ Keeps(h, c, j)
            BY <1>4, <2>2, <3>1, <3>2 DEF Keeps
        <3> QED
            BY <1>4, <1>8, <3>2, <3>3, KeepsValue DEF Places
    <2>3. CASE c = s
        <3>1. CASE s \in Temps
            BY <2>1, <2>3, <3>1
        <3>2. CASE s \notin Temps
            BY <1>4, <1>8, <2>3, <3>2, KeepsValue DEF Keeps, ValueOf
        <3> QED
            BY <3>1, <3>2
    <2>4. CASE c \notin Temps /\ c # s /\ ~ \E j \in Regs : g.regs[j].slot = c
        BY <1>3, <1>4, <2>4 DEF ValueOf, Cached
    <2> QED
        BY <2>1, <2>2, <2>3, <2>4
<1> QED
    BY <1>4, <1>8, <1>9 DEF h, SameValues

\* Recording a free register as the dirty home of a slot changes that slot only.
LEMMA BindDirty ==
    ASSUME NEW g, Good(g), NEW i \in Regs, g.regs[i].slot = NoSlot,
           NEW s \in Slots, ~Cached(g, s)
    PROVE  LET h == Bind(g, i, s, TRUE)
           IN  /\ Good(h) /\ \A c \in Cells \ {s} : ValueOf(h, c) = ValueOf(g, c)
               /\ h.regs[i].slot = s /\ h.regs[i].dirty
               /\ \A j \in Regs \ {i} : h.regs[j] = g.regs[j]
               /\ h.cpu = g.cpu
<1> DEFINE h == Bind(g, i, s, TRUE)
<1>1. g \in Gens /\ FreeIsClean(g) /\ Unaliased(g) /\ CleanIn(g)
    BY DEF Good
<1>2. [slot |-> s, dirty |-> TRUE] \in Entries
    BY DEF Entries
<1>3. /\ h \in Gens
      /\ h.regs = [g.regs EXCEPT ![i] = [slot |-> s, dirty |-> TRUE]]
      /\ h.cpu = g.cpu
      /\ h.stack = g.stack
    BY <1>1, <1>2 DEF Bind, Gens
<1> HIDE DEF h
<1>4. /\ h.regs[i].slot = s /\ h.regs[i].dirty
      /\ \A j \in Regs \ {i} : h.regs[j] = g.regs[j]
    BY <1>1, <1>3, GensShape
<1>5. s # NoSlot /\ \A j \in Regs : g.regs[j].slot # s
    BY PlacesApart DEF Cached
<1>6. FreeIsClean(h) /\ Unaliased(h)
    BY <1>1, <1>4, <1>5 DEF FreeIsClean, Unaliased
<1>7. CleanIn(h)
    BY <1>1, <1>3, <1>4 DEF CleanIn
<1>8. Good(h)
    BY <1>3, <1>6, <1>7 DEF Good
<1>9. ASSUME NEW c \in Cells \ {s} PROVE ValueOf(h, c) = ValueOf(g, c)
    <2>1. CASE c \in Temps
        BY <1>3, <2>1 DEF ValueOf
    <2>2. CASE c \notin Temps /\ \E j \in Regs : g.regs[j].slot = c
        <3>1. PICK j \in Regs : g.regs[j].slot = c
            BY <2>2
        <3>2. j # i
            BY <3>1, PlacesApart
        <3>3. Keeps(g, c, j) /\ Keeps(h, c, j)
            BY <1>4, <2>2, <3>1, <3>2 DEF Keeps
        <3> QED
            BY <1>3, <1>8, <3>3, KeepsValue
    <2>3. CASE c \notin Temps /\ ~ \E j \in Regs : g.regs[j].slot = c
        BY <1>3, <1>4, <2>3 DEF ValueOf, Cached
    <2> QED
        BY <2>1, <2>2, <2>3
<1> QED
    BY <1>3, <1>4, <1>8, <1>9 DEF h

\* r is a place of c and the state in which c is there, found or made from g.
Ensured(g, c, avoid, r) ==
    /\ Good(r.g) /\ SameValues(g, r.g) /\ StillKeeps(g, r.g, avoid)
    /\ r.at \in Places /\ Keeps(r.g, c, r.at)
    /\ \A p \in avoid \cap Places : r.g.cpu[p] = g.cpu[p]

\* ensureReg yields the place of its cell and changes no cell; the operands already
\* placed (avoid) stay where they are, with their values.
LEMMA EnsureFacts ==
    ASSUME NEW g, Good(g), NEW c \in Cells, NEW avoid, Regs \ avoid # {}
    PROVE  Ensured(g, c, avoid, EnsureReg(g, c, avoid))
<1> DEFINE r == EnsureReg(g, c, avoid)
<1>1. CASE c \in Temps
    <2>1. r = [g |-> g, at |-> c]
        BY <1>1 DEF EnsureReg
    <2> QED
        BY <1>1, <2>1 DEF Ensured, SameValues, StillKeeps, Keeps, Places
<1>2. CASE c \notin Temps /\ Cached(g, c)
    <2>1. r = [g |-> g, at |-> Holder(g, c)] /\ c \in Slots
        BY <1>2 DEF EnsureReg, EnsureSlot, Cells
    <2>2. Holder(g, c) \in Regs /\ g.regs[Holder(g, c)].slot = c
        BY <1>2, <2>1, HolderOf
    <2> QED
        BY <1>2, <2>1, <2>2 DEF Ensured, SameValues, StillKeeps, Keeps, Places
<1>3. CASE c \notin Temps /\ ~Cached(g, c)
    <2> DEFINE a == AllocIdx(g, avoid)
               h == Bind(LoadFromStack(a.g, a.at, c), a.at, c, FALSE)
    <2>1. r = [g |-> h, at |-> a.at] /\ c \in Slots
        BY <1>3 DEF EnsureReg, EnsureSlot, Cells
    <2>2. /\ Good(a.g) /\ SameValues(g, a.g)
          /\ a.at \in Regs \ avoid /\ a.g.regs[a.at].slot = NoSlot
          /\ \A j \in Regs \ {a.at} : a.g.regs[j] = g.regs[j]
          /\ a.g.cpu = g.cpu
        BY AllocFacts
    <2> HIDE DEF a
    <2>3. ~Cached(a.g, c)
        BY <1>3, <2>1, <2>2, PlacesApart DEF Cached
    <2>4. /\ Good(h) /\ SameValues(a.g, h)
          /\ h.regs[a.at].slot = c
          /\ \A j \in Regs \ {a.at} : h.regs[j] = a.g.regs[j]
          /\ \A p \in Places \ {a.at} : h.cpu[p] = a.g.cpu[p]
        BY <2>1, <2>2, <2>3, BindLoaded
    <2> HIDE DEF h
    <2>5. SameValues(g, h)
        BY <2>2, <2>4 DEF SameValues
    <2>6. StillKeeps(g, h, avoid)
        BY <2>2, <2>4 DEF StillKeeps, Keeps
    <2>7. Keeps(h, c, a.at) /\ a.at \in Places
        BY <1>3, <2>2, <2>4 DEF Keeps, Places
    <2>8. \A p \in avoid \cap Places : h.cpu[p] = g.cpu[p]
        BY <2>2, <2>4
    <2> QED
        BY <2>1, <2>4, <2>5, <2>6, <2>7, <2>8 DEF Ensured
<1> QED
    BY <1>1, <1>2, <1>3

\* markDirty changes no value and no mapping: it only forgets that a copy is clean.
LEMMA MarkDirtyFacts ==
    ASSUME NEW g, Good(g), NEW c \in Cells, NEW at, Keeps(g, c, at)
    PROVE  LET h == MarkDirty(g, at)
           IN  /\ Good(h) /\ SameValues(g, h) /\ StillKeeps(g, h, Places)
               /\ at \in Regs => h.regs[at].dirty
               /\ \A i \in Regs : /\ h.regs[i].slot = g.regs[i].slot
                                  /\ g.regs[i].dirty => h.regs[i].dirty
                                  /\ i # at => h.regs[i] = g.regs[i]
               /\ h.cpu = g.cpu /\ h.stack = g.stack
<1> DEFINE h == MarkDirty(g, at)
<1>1. g \in Gens /\ FreeIsClean(g) /\ Unaliased(g) /\ CleanIn(g)
    BY DEF Good
<1>2. CASE at \notin Regs
    BY <1>2 DEF MarkDirty, SameValues, StillKeeps
<1>3. CASE at \in Regs
    <2>1. g.regs[at].slot = c /\ c # NoSlot
        BY <1>3, PlacesApart DEF Keeps
    <2>3. [slot |-> c, dirty |-> TRUE] \in Entries
        BY <1>1, <1>3, <2>1, GensShape DEF Entries
    <2>4. h = [g EXCEPT !.regs = [@ EXCEPT ![at] = [slot |-> c, dirty |-> TRUE]]]
        BY <1>3, <2>1 DEF MarkDirty, Bind
    <2>5. /\ h \in Gens
          /\ h.regs = [g.regs EXCEPT ![at] = [slot |-> c, dirty |-> TRUE]]
          /\ h.cpu = g.cpu /\ h.stack = g.stack
        BY <1>1, <2>3, <2>4 DEF Gens
    <2> HIDE DEF h
    <2>6. /\ h.regs[at].slot = c /\ h.regs[at].dirty
          /\ \A j \in Regs \ {at} : h.regs[j] = g.regs[j]
        BY <1>1, <1>3, <2>5, GensShape
    <2>7. FreeIsClean(h) /\ Unaliased(h)
        BY <1>1, <2>1, <2>6 DEF FreeIsClean, Unaliased
    <2>8. CleanIn(h)
        BY <1>1, <2>5, <2>6 DEF CleanIn
    <2>9. Good(h)
        BY <2>5, <2>7, <2>8 DEF Good
    <2>10. StillKeeps(g, h, Places)
        BY <2>1, <2>6 DEF StillKeeps, Keeps
    <2>11. ASSUME NEW x \in Cells PROVE ValueOf(h, x) = ValueOf(g, x)
        <3>1. CASE \E p \in Places : Keeps(g, x, p)
            BY <2>5, <2>9, <2>10, <3>1, KeepsValue DEF StillKeeps
        <3>2. CASE ~ \E p \in Places : Keeps(g, x, p)
            <4>1. x \notin Temps /\ \A j \in Regs : g.regs[j].slot # x
                BY <3>2 DEF Keeps, Places
            <4>2. \A j \in Regs : h.regs[j].slot # x
                BY <2>1, <2>6, <4>1, <1>3
            <4> QED
                BY <2>5, <4>1, <4>2 DEF ValueOf, Cached
        <3> QED
            BY <3>1, <3>2
    <2> QED
        BY <2>1, <2>5, <2>6, <2>9, <2>10, <2>11 DEF h, SameValues
<1> QED
    BY <1>2, <1>3

\* r is a place for a new value of c and the state in which c has it, from g.
Assigned(g, c, avoid, r) ==
    /\ Good(r.g) /\ \A x \in Cells \ {c} : ValueOf(r.g, x) = ValueOf(g, x)
    /\ StillKeeps(g, r.g, avoid)
    /\ r.at \in Places /\ Keeps(r.g, c, r.at)
    /\ r.at \in Regs => r.g.regs[r.at].dirty
    /\ \A j \in Regs \cap avoid : r.g.regs[j].slot # c => r.g.regs[j] = g.regs[j]
    /\ r.g.cpu = g.cpu

\* assignReg yields the place of its cell, dirty when it is a register; it touches
\* no other cell and no operand already placed (avoid).
LEMMA AssignFacts ==
    ASSUME NEW g, Good(g), NEW c \in Cells, NEW avoid, Regs \ avoid # {}
    PROVE  Assigned(g, c, avoid, AssignReg(g, c, avoid))
<1> DEFINE r == AssignReg(g, c, avoid)
<1>1. CASE c \in Temps
    <2>1. r = [g |-> g, at |-> c]
        BY <1>1 DEF AssignReg
    <2> QED
        BY <1>1, <2>1, PlacesApart DEF Assigned, StillKeeps, Keeps, Places
<1>2. CASE c \notin Temps /\ Cached(g, c)
    <2> DEFINE i == Holder(g, c)
    <2>1. r = [g |-> MarkDirty(g, i), at |-> i] /\ c \in Slots
        BY <1>2 DEF AssignReg, AssignSlot, Cells
    <2>2. i \in Regs /\ g.regs[i].slot = c
        BY <1>2, <2>1, HolderOf
    <2> HIDE DEF i
    <2>3. Keeps(g, c, i)
        BY <1>2, <2>2 DEF Keeps
    <2> DEFINE h == MarkDirty(g, i)
    <2>4. /\ Good(h) /\ SameValues(g, h) /\ StillKeeps(g, h, Places)
          /\ h.regs[i].dirty /\ h.cpu = g.cpu
          /\ \A j \in Regs : /\ h.regs[j].slot = g.regs[j].slot
                             /\ j # i => h.regs[j] = g.regs[j]
        BY <2>2, <2>3, MarkDirtyFacts
    <2> HIDE DEF h
    <2>5. Keeps(h, c, i)
        BY <2>2, <2>3, <2>4 DEF StillKeeps, Places
    <2>6. StillKeeps(g, h, avoid)
        BY <2>4 DEF StillKeeps, Keeps
    <2> QED
        BY <2>1, <2>2, <2>4, <2>5, <2>6 DEF Assigned, h, SameValues, Places
<1>3. CASE c \notin Temps /\ ~Cached(g, c)
    <2> DEFINE a == AllocIdx(g, avoid)
               h == Bind(a.g, a.at, c, TRUE)
    <2>1. r = [g |-> h, at |-> a.at] /\ c \in Slots
        BY <1>3 DEF AssignReg, AssignSlot, Cells
    <2>2. /\ Good(a.g) /\ SameValues(g, a.g)
          /\ a.at \in Regs \ avoid /\ a.g.regs[a.at].slot = NoSlot
          /\ \A j \in Regs \ {a.at} : a.g.regs[j] = g.regs[j]
          /\ a.g.cpu = g.cpu
        BY AllocFacts
    <2> HIDE DEF a
    <2>3. ~Cached(a.g, c)
        BY <1>3, <2>1, <2>2, PlacesApart DEF Cached
    <2>4. /\ Good(h) /\ \A x \in Cells \ {c} : ValueOf(h, x) = ValueOf(a.g, x)
          /\ h.regs[a.at].slot = c /\ h.regs[a.at].dirty
          /\ \A j \in Regs \ {a.at} : h.regs[j] = a.g.regs[j]
          /\ h.cpu = a.g.cpu
        BY <2>1, <2>2, <2>3, BindDirty
    <2> HIDE DEF h
    <2>5. StillKeeps(g, h, avoid)
        BY <2>2, <2>4 DEF StillKeeps, Keeps
    <2>6. Keeps(h, c, a.at) /\ a.at \in Places
        BY <1>3, <2>2, <2>4 DEF Keeps, Places
    <2> QED
        BY <2>1, <2>2, <2>4, <2>5, <2>6 DEF Assigned, SameValues
<1> QED
    BY <1>1, <1>2, <1>3

\* Writing a cell at its (dirty) place gives the cell that value and no other cell
\* another one: this is where NoAlias is needed.
LEMMA WriteKept ==
    ASSUME NEW g, Good(g), NEW c \in Cells, NEW at, Keeps(g, c, at),
           at \in Regs => g.regs[at].dirty, NEW v \in Byte
    PROVE  LET h == SetCpu(g, at, v)
           IN  /\ Good(h) /\ ValueOf(h, c) = v
               /\ \A x \in Cells \ {c} : ValueOf(h, x) = ValueOf(g, x)
               /\ StillKeeps(g, h, Places)
               /\ h.regs = g.regs /\ h.stack = g.stack
               /\ \A p \in Places \ {at} : h.cpu[p] = g.cpu[p]
<1> DEFINE h == SetCpu(g, at, v)
<1>1. g \in Gens /\ FreeIsClean(g) /\ Unaliased(g) /\ CleanIn(g)
    BY DEF Good
<1>2. at \in Places
    BY KeepsValue
<1>3. /\ h \in Gens
      /\ h.cpu = [g.cpu EXCEPT ![at] = v]
      /\ h.regs = g.regs /\ h.stack = g.stack
    BY <1>1, <1>2 DEF SetCpu, Gens
<1> HIDE DEF h
<1>4. h.cpu[at] = v /\ \A p \in Places \ {at} : h.cpu[p] = g.cpu[p]
    BY <1>1, <1>2, <1>3, GensShape
<1>5. CleanIn(h)
    BY <1>1, <1>3, <1>4 DEF CleanIn, Places
<1>6. Good(h) /\ StillKeeps(g, h, Places)
    BY <1>1, <1>3, <1>5 DEF Good, FreeIsClean, Unaliased, StillKeeps, Keeps
<1>7. ValueOf(h, c) = v
    BY <1>2, <1>4, <1>6, KeepsValue DEF StillKeeps
<1>8. ASSUME NEW x \in Cells \ {c} PROVE ValueOf(h, x) = ValueOf(g, x)
    <2>1. CASE \E p \in Places : Keeps(g, x, p)
        <3>1. PICK p \in Places : Keeps(g, x, p)
            BY <2>1
        <3>2. p # at
            BY <3>1, PlacesApart DEF Keeps
        <3> QED
            BY <1>4, <1>6, <3>1, <3>2, KeepsValue DEF StillKeeps
    <2>2. CASE ~ \E p \in Places : Keeps(g, x, p)
        <3>1. x \notin Temps /\ \A j \in Regs : g.regs[j].slot # x
            BY <2>2 DEF Keeps, Places
        <3> QED
            BY <1>3, <3>1 DEF ValueOf, Cached
    <2> QED
        BY <2>1, <2>2
<1> QED
    BY <1>3, <1>4, <1>6, <1>7, <1>8 DEF h

\* A register no slot is mapped to may be overwritten freely.
LEMMA WriteFree ==
    ASSUME NEW g, Good(g), NEW i \in Regs, g.regs[i].slot = NoSlot, NEW v \in Byte
    PROVE  LET h == SetCpu(g, i, v)
           IN  /\ Good(h) /\ SameValues(g, h) /\ StillKeeps(g, h, Places)
               /\ h.regs = g.regs /\ h.stack = g.stack
               /\ \A p \in Places \ {i} : h.cpu[p] = g.cpu[p]
<1> DEFINE h == SetCpu(g, i, v)
<1>1. g \in Gens /\ FreeIsClean(g) /\ Unaliased(g) /\ CleanIn(g)
    BY DEF Good
<1>2. /\ h \in Gens
      /\ h.cpu = [g.cpu EXCEPT ![i] = v]
      /\ h.regs = g.regs /\ h.stack = g.stack
    BY <1>1 DEF SetCpu, Gens, Places
<1> HIDE DEF h
<1>3. \A p \in Places \ {i} : h.cpu[p] = g.cpu[p]
    BY <1>1, <1>2, GensShape
<1>4. CleanIn(h)
    BY <1>1, <1>2, <1>3 DEF CleanIn, Places
<1>5. Good(h) /\ StillKeeps(g, h, Places)
    BY <1>1, <1>2, <1>4 DEF Good, FreeIsClean, Unaliased, StillKeeps, Keeps
<1>6. ASSUME NEW x \in Cells PROVE ValueOf(h, x) = ValueOf(g, x)
    <2>1. CASE \E p \in Places : Keeps(g, x, p)
        <3>1. PICK p \in Places : Keeps(g, x, p)
            BY <2>1
        <3>2. p # i
            BY <3>1, PlacesApart DEF Keeps
        <3> QED
            BY <1>3, <1>5, <3>1, <3>2, KeepsValue DEF StillKeeps
    <2>2. CASE ~ \E p \in Places : Keeps(g, x, p)
        <3>1. x \notin Temps /\ \A j \in Regs : g.regs[j].slot # x
            BY <2>2 DEF Keeps, Places
        <3> QED
            BY <1>2, <3>1 DEF ValueOf, Cached
    <2> QED
        BY <2>1, <2>2
<1> QED
    BY <1>2, <1>3, <1>5, <1>6 DEF h, SameValues

\* allocNeighbor borrows a register no slot is mapped to, so no cell changes.
LEMMA ScratchFacts ==
    ASSUME NEW g, Good(g), NEW pos
    PROVE  LET h == Scratch(g, pos)
           IN  /\ Good(h) /\ SameValues(g, h) /\ StillKeeps(g, h, Places)
               /\ h.regs = g.regs /\ h.stack = g.stack
<1> DEFINE near == {i \in Regs : g.regs[i].slot = NoSlot /\ regPos[i] \in {pos - 1, pos + 1}}
<1>1. CASE near = {}
    BY <1>1 DEF Scratch, SameValues, StillKeeps
<1>2. CASE near # {}
    <2>1. Min(near) \in near
        BY <1>2, LeastRegister
    <2>2. Scratch(g, pos) = SetCpu(g, Min(near), 0)
        BY <1>2 DEF Scratch, SetCpu
    <2>3. Min(near) \in Regs /\ g.regs[Min(near)].slot = NoSlot /\ 0 \in Byte
        BY <2>1, IRAssumption DEF Byte
    <2> HIDE DEF near
    <2> QED
        BY <2>2, <2>3, WriteFree
<1> QED
    BY <1>1, <1>2

\* Every register is clean, or free.
AllClean(g) == \A i \in Regs : ~g.regs[i].dirty
Empty(g) == \A i \in Regs : g.regs[i] = FreeEntry

\* With no dirty register the stack has the value of every slot.
LEMMA StackOfClean ==
    ASSUME NEW g, Good(g), AllClean(g), NEW s \in Slots
    PROVE  ValueOf(g, s) = g.stack[s]
<1>1. s \notin Temps /\ s # NoSlot
    BY IRAssumption, PlacesApart
<1>2. Cached(g, s) => Holder(g, s) \in Regs /\ g.regs[Holder(g, s)].slot = s
    BY HolderOf
<1> QED
    BY <1>1, <1>2 DEF ValueOf, AllClean, Good, CleanIn

\* flush changes no cell and leaves no register dirty.
LEMMA FlushFacts ==
    ASSUME NEW g, Good(g)
    PROVE  LET h == Flush(g)
           IN  /\ Good(h) /\ SameValues(g, h) /\ StillKeeps(g, h, Places)
               /\ AllClean(h) /\ h.cpu = g.cpu
<1> DEFINE h == Flush(g)
           stack == [s \in Slots |-> IF Cached(g, s) /\ g.regs[Holder(g, s)].dirty
                                     THEN g.cpu[Holder(g, s)] ELSE g.stack[s]]
           regs == [i \in Regs |-> [slot |-> g.regs[i].slot, dirty |-> FALSE]]
<1>1. g \in Gens /\ FreeIsClean(g) /\ Unaliased(g) /\ CleanIn(g)
    BY DEF Good
<1>2. stack \in [Slots -> Byte]
    <2> SUFFICES ASSUME NEW s \in Slots
                 PROVE (IF Cached(g, s) /\ g.regs[Holder(g, s)].dirty
                        THEN g.cpu[Holder(g, s)] ELSE g.stack[s]) \in Byte
        OBVIOUS
    <2> QED
        BY <1>1, GensShape, HolderOf
<1>3. regs \in [Regs -> Entries]
    BY <1>1, GensShape DEF Entries
<1>4. h.stack = stack /\ h.regs = regs /\ h.cpu = g.cpu /\ h \in Gens
    BY <1>1, <1>2, <1>3 DEF Flush, Gens
<1>5. \A i \in Regs : h.regs[i].slot = g.regs[i].slot /\ ~h.regs[i].dirty
    BY <1>4
<1> HIDE DEF h
<1>6. ASSUME NEW i \in Regs, h.regs[i].slot # NoSlot
      PROVE  h.cpu[i] = h.stack[h.regs[i].slot]
    <2> DEFINE s == g.regs[i].slot
    <2>1. s \in Slots /\ Cached(g, s)
        BY <1>1, <1>5, <1>6, GensShape DEF Cached
    <2>2. Holder(g, s) = i
        BY <1>1, <1>5, <1>6, <2>1, HolderOf DEF Unaliased
    <2>3. ~g.regs[i].dirty => g.cpu[i] = g.stack[s]
        BY <1>1, <1>5, <1>6 DEF CleanIn
    <2> QED
        BY <1>4, <1>5, <2>1, <2>2, <2>3
<1>7. FreeIsClean(h) /\ Unaliased(h) /\ CleanIn(h)
    BY <1>1, <1>5, <1>6 DEF FreeIsClean, Unaliased, CleanIn
<1>8. Good(h) /\ StillKeeps(g, h, Places) /\ AllClean(h)
    BY <1>4, <1>5, <1>7 DEF Good, StillKeeps, Keeps, AllClean
<1>9. ASSUME NEW x \in Cells PROVE ValueOf(h, x) = ValueOf(g, x)
    <2>1. CASE \E p \in Places : Keeps(g, x, p)
        BY <1>4, <1>8, <2>1, KeepsValue DEF StillKeeps
    <2>2. CASE ~ \E p \in Places : Keeps(g, x, p)
        <3>1. /\ x \notin Temps /\ x \in Slots
              /\ \A j \in Regs : g.regs[j].slot # x /\ h.regs[j].slot # x
            BY <1>5, <2>2 DEF Keeps, Places, Cells
        <3>2. ~Cached(g, x) /\ ~Cached(h, x)
            BY <3>1 DEF Cached
        <3> QED
            BY <1>4, <3>1, <3>2 DEF ValueOf
    <2> QED
        BY <2>1, <2>2
<1> QED
    BY <1>4, <1>8, <1>9 DEF h, SameValues

\* invalidate, with no register dirty, changes no cell.
LEMMA InvalidateFacts ==
    ASSUME NEW g, Good(g), AllClean(g), NEW n \in Regs,
           NEW h, h = Invalidate(g) \/ h = [Invalidate(g) EXCEPT !.next = n]
    PROVE  /\ Good(h) /\ SameValues(g, h) /\ Empty(h)
           /\ h.cpu = g.cpu /\ h.stack = g.stack
<1>1. g \in Gens
    BY DEF Good
<1>2. FreeEntry \in Entries
    BY DEF FreeEntry, Entries
<1>3. /\ h \in Gens /\ h.regs = [i \in Regs |-> FreeEntry]
      /\ h.cpu = g.cpu /\ h.stack = g.stack
    <2> DEFINE none == [i \in Regs |-> FreeEntry]
    <2>1. none \in [Regs -> Entries]
        BY <1>2
    <2>2. g = [regs |-> g.regs, next |-> g.next, cpu |-> g.cpu, stack |-> g.stack]
        BY <1>1, GensShape
    <2>3. \/ h = [regs |-> none, next |-> g.next, cpu |-> g.cpu, stack |-> g.stack]
          \/ h = [regs |-> none, next |-> n, cpu |-> g.cpu, stack |-> g.stack]
        BY <2>2 DEF Invalidate
    <2> HIDE DEF none
    <2>4. h \in Gens /\ h.regs = none /\ h.cpu = g.cpu /\ h.stack = g.stack
        BY <1>1, <2>1, <2>3 DEF Gens
    <2> QED
        BY <2>4 DEF none
<1>4. Empty(h) /\ \A i \in Regs : h.regs[i].slot = NoSlot /\ ~h.regs[i].dirty
    BY <1>3 DEF Empty, FreeEntry
<1>5. Good(h)
    BY <1>3, <1>4 DEF Good, FreeIsClean, Unaliased, CleanIn
<1>6. ASSUME NEW x \in Cells PROVE ValueOf(h, x) = ValueOf(g, x)
    <2>1. CASE x \in Temps
        BY <1>3, <2>1 DEF ValueOf
    <2>2. CASE x \notin Temps
        BY <1>3, <1>4, <1>5, <2>2, StackOfClean DEF AllClean, Cells
    <2> QED
        BY <2>1, <2>2
<1> QED
    BY <1>3, <1>4, <1>5, <1>6 DEF SameValues

\* flushAndInvalidate changes no cell, leaves the cache empty and the registers
\* holding what they held (the dynamic nodes still read them).
LEMMA FlushAndInvalidateFacts ==
    ASSUME NEW g, Good(g)
    PROVE  LET h == FlushAndInvalidate(g)
           IN  Good(h) /\ SameValues(g, h) /\ Empty(h) /\ AllClean(h) /\ h.cpu = g.cpu
<1> DEFINE f == Flush(g)
           h == FlushAndInvalidate(g)
<1>1. /\ Good(f) /\ SameValues(g, f) /\ AllClean(f) /\ f.cpu = g.cpu
    BY FlushFacts
<1> HIDE DEF f
<1>2. h = Invalidate(f)
    BY DEF FlushAndInvalidate, f
<1>3. 0 \in Regs
    BY RegAssumption DEF Regs
<1>4. Good(h) /\ SameValues(f, h) /\ Empty(h) /\ h.cpu = f.cpu
    BY <1>1, <1>2, <1>3, InvalidateFacts
<1> HIDE DEF h
<1>5. SameValues(g, h) /\ AllClean(h)
    BY <1>1, <1>4 DEF SameValues, Empty, AllClean, FreeEntry
<1> QED
    BY <1>1, <1>4, <1>5 DEF h

\* flushCell changes no cell and leaves the register of its slot clean.
LEMMA FlushCellFacts ==
    ASSUME NEW g, Good(g), NEW c \in Slots, NEW at, Keeps(g, c, at)
    PROVE  LET h == FlushCell(g, c)
           IN  /\ Good(h) /\ SameValues(g, h) /\ StillKeeps(g, h, Places)
               /\ ~h.regs[at].dirty /\ h.cpu = g.cpu
<1> DEFINE h == FlushCell(g, c)
           stack == [g.stack EXCEPT ![c] = g.cpu[at]]
<1>1. g \in Gens /\ FreeIsClean(g) /\ Unaliased(g) /\ CleanIn(g)
    BY DEF Good
<1>2. at \in Regs /\ g.regs[at].slot = c /\ c \notin Temps /\ c # NoSlot
    BY IRAssumption, PlacesApart DEF Keeps
<1>3. Cached(g, c) /\ Holder(g, c) = at
    <2>1. Cached(g, c)
        BY <1>2 DEF Cached
    <2> QED
        BY <1>1, <1>2, <2>1, HolderOf DEF Unaliased
<1>4. CASE ~g.regs[at].dirty
    BY <1>3, <1>4 DEF FlushCell, SameValues, StillKeeps
<1>5. CASE g.regs[at].dirty
    <2>1. [slot |-> c, dirty |-> FALSE] \in Entries
        BY DEF Entries
    <2>2. /\ h \in Gens
          /\ h.regs = [g.regs EXCEPT ![at] = [slot |-> c, dirty |-> FALSE]]
          /\ h.cpu = g.cpu
          /\ h.stack = stack
        BY <1>1, <1>2, <1>3, <1>5, <2>1, GensShape DEF FlushCell, Bind, Gens
    <2> HIDE DEF h
    <2>3. /\ h.regs[at].slot = c /\ ~h.regs[at].dirty
          /\ \A j \in Regs \ {at} : h.regs[j] = g.regs[j]
        BY <1>1, <1>2, <2>2, GensShape
    <2>4. h.stack[c] = g.cpu[at] /\ \A s \in Slots \ {c} : h.stack[s] = g.stack[s]
        BY <1>1, <2>2, GensShape
    <2>5. FreeIsClean(h) /\ Unaliased(h)
        BY <1>1, <1>2, <2>3 DEF FreeIsClean, Unaliased
    <2>6. CleanIn(h)
        <3> SUFFICES ASSUME NEW j \in Regs, h.regs[j].slot # NoSlot, ~h.regs[j].dirty
                     PROVE  h.cpu[j] = h.stack[h.regs[j].slot]
            BY DEF CleanIn
        <3>1. CASE j = at
            BY <2>2, <2>3, <2>4, <3>1
        <3>2. CASE j # at
            <4>1. h.regs[j] = g.regs[j] /\ g.regs[j].slot \in Slots \ {c}
                BY <1>1, <1>2, <2>3, <3>2, GensShape DEF Unaliased
            <4> QED
                BY <1>1, <2>2, <2>4, <4>1 DEF CleanIn
        <3> QED
            BY <3>1, <3>2
    <2>7. Good(h) /\ StillKeeps(g, h, Places)
        BY <1>2, <2>2, <2>3, <2>5, <2>6 DEF Good, StillKeeps, Keeps
    <2>8. ASSUME NEW x \in Cells PROVE ValueOf(h, x) = ValueOf(g, x)
        <3>1. CASE \E p \in Places : Keeps(g, x, p)
            BY <2>2, <2>7, <3>1, KeepsValue DEF StillKeeps
        <3>2. CASE ~ \E p \in Places : Keeps(g, x, p)
            <4>1. /\ x \notin Temps /\ x \in Slots
                  /\ \A j \in Regs : g.regs[j].slot # x /\ h.regs[j].slot # x
                BY <1>2, <2>3, <3>2 DEF Keeps, Places, Cells
            <4>2. ~Cached(g, x) /\ ~Cached(h, x) /\ x # c
                BY <1>2, <4>1 DEF Cached
            <4> QED
                BY <2>4, <4>1, <4>2 DEF ValueOf
        <3> QED
            BY <3>1, <3>2
    <2> QED
        BY <2>2, <2>3, <2>7, <2>8 DEF h, SameValues
<1> QED
    BY <1>4, <1>5

\* dropCell touches no other cell, and not its own either if the register was clean.
LEMMA DropFacts ==
    ASSUME NEW g, Good(g), NEW c \in Slots
    PROVE  LET h == DropCell(g, c)
           IN  /\ Good(h) /\ \A x \in Cells \ {c} : ValueOf(h, x) = ValueOf(g, x)
               /\ \A p : Keeps(g, c, p) =>
                     /\ h.regs[p].slot = NoSlot
                     /\ ~g.regs[p].dirty => ValueOf(h, c) = ValueOf(g, c)
<1> DEFINE h == DropCell(g, c)
           i == Holder(g, c)
<1>1. g \in Gens /\ FreeIsClean(g) /\ Unaliased(g) /\ CleanIn(g)
    BY DEF Good
<1>2. c \notin Temps /\ c # NoSlot /\ c \in Cells
    BY IRAssumption, PlacesApart DEF Cells
<1>3. CASE ~Cached(g, c)
    BY <1>2, <1>3 DEF DropCell, Keeps, Cached
<1>4. CASE Cached(g, c)
    <2>1. i \in Regs /\ g.regs[i].slot = c
        BY <1>4, HolderOf
    <2>2. FreeEntry \in Entries
        BY DEF Entries, FreeEntry
    <2>3. h = [g EXCEPT !.regs = [@ EXCEPT ![i] = FreeEntry]]
        BY <1>4 DEF DropCell
    <2> HIDE DEF i
    <2>4. /\ h \in Gens
          /\ h.regs = [g.regs EXCEPT ![i] = FreeEntry]
          /\ h.cpu = g.cpu /\ h.stack = g.stack
        BY <1>1, <2>1, <2>2, <2>3 DEF Gens
    <2> HIDE DEF h
    <2>5. /\ h.regs[i].slot = NoSlot /\ ~h.regs[i].dirty
          /\ \A j \in Regs \ {i} : h.regs[j] = g.regs[j]
        BY <1>1, <2>1, <2>4, GensShape DEF FreeEntry
    <2>6. FreeIsClean(h) /\ Unaliased(h)
        BY <1>1, <2>5 DEF FreeIsClean, Unaliased
    <2>7. CleanIn(h)
        BY <1>1, <2>4, <2>5 DEF CleanIn
    <2>8. Good(h)
        BY <2>4, <2>6, <2>7 DEF Good
    <2>9. ASSUME NEW x \in Cells \ {c} PROVE ValueOf(h, x) = ValueOf(g, x)
        <3>1. CASE \E p \in Places : Keeps(g, x, p)
            <4>1. PICK p \in Places : Keeps(g, x, p)
                BY <3>1
            <4>2. Keeps(h, x, p)
                BY <2>1, <2>5, <4>1 DEF Keeps
            <4> QED
                BY <2>4, <2>8, <4>1, <4>2, KeepsValue
        <3>2. CASE ~ \E p \in Places : Keeps(g, x, p)
            <4>1. /\ x \notin Temps /\ x # NoSlot
                  /\ \A j \in Regs : g.regs[j].slot # x
                BY <3>2, PlacesApart DEF Keeps, Places
            <4>2. ~Cached(g, x) /\ ~Cached(h, x)
                BY <2>5, <4>1 DEF Cached
            <4> QED
                BY <2>4, <4>1, <4>2 DEF ValueOf
        <3> QED
            BY <3>1, <3>2
    <2>10. ASSUME NEW p, Keeps(g, c, p)
           PROVE  /\ h.regs[p].slot = NoSlot
                  /\ ~g.regs[p].dirty => ValueOf(h, c) = ValueOf(g, c)
        <3>1. p = i
            BY <1>1, <1>2, <2>1, <2>10 DEF Keeps, Unaliased
        <3>2. ValueOf(g, c) = g.cpu[i]
            BY <1>2, <2>10, <3>1, KeepsValue
        <3>3. ~Cached(h, c)
            BY <1>1, <1>2, <2>1, <2>5 DEF Cached, Unaliased
        <3>4. ValueOf(h, c) = g.stack[c]
            BY <1>2, <2>4, <3>3 DEF ValueOf
        <3>5. ~g.regs[i].dirty => g.cpu[i] = g.stack[c]
            BY <1>1, <1>2, <2>1 DEF CleanIn
        <3> QED
            BY <2>5, <3>1, <3>2, <3>4, <3>5
    <2> QED
        BY <2>8, <2>9, <2>10 DEF h
<1> QED
    BY <1>3, <1>4

\* The order in which a register is written and dropped does not matter.
LEMMA DropWritten ==
    ASSUME NEW g, Good(g), NEW c \in Slots, NEW p \in Regs, Keeps(g, c, p), NEW v \in Byte
    PROVE  LET h == DropCell(SetCpu(g, p, v), c)
           IN  /\ Good(h) /\ \A x \in Cells \ {c} : ValueOf(h, x) = ValueOf(g, x)
               /\ ~g.regs[p].dirty => ValueOf(h, c) = ValueOf(g, c)
<1> DEFINE d == DropCell(g, c)
           h == DropCell(SetCpu(g, p, v), c)
<1>1. g \in Gens
    BY DEF Good
<1>2. /\ Good(d) /\ \A x \in Cells \ {c} : ValueOf(d, x) = ValueOf(g, x)
      /\ d.regs[p].slot = NoSlot
      /\ ~g.regs[p].dirty => ValueOf(d, c) = ValueOf(g, c)
    BY DropFacts
<1>3. h = SetCpu(d, p, v)
    <2>1. /\ SetCpu(g, p, v).regs = g.regs
          /\ SetCpu(g, p, v).cpu = [g.cpu EXCEPT ![p] = v]
          /\ SetCpu(g, p, v).next = g.next
          /\ SetCpu(g, p, v).stack = g.stack
        BY <1>1 DEF SetCpu, Gens
    <2>2. /\ Cached(SetCpu(g, p, v), c) <=> Cached(g, c)
          /\ Holder(SetCpu(g, p, v), c) = Holder(g, c)
        BY <2>1 DEF Cached, Holder
    <2>3. CASE ~Cached(g, c)
        BY <2>2, <2>3 DEF DropCell
    <2>4. CASE Cached(g, c)
        <3>1. SetCpu(g, p, v) = [regs |-> g.regs, next |-> g.next,
                                 cpu |-> [g.cpu EXCEPT ![p] = v], stack |-> g.stack]
            BY <1>1 DEF SetCpu, Gens
        <3>2. d = [regs |-> [g.regs EXCEPT ![Holder(g, c)] = FreeEntry],
                   next |-> g.next, cpu |-> g.cpu, stack |-> g.stack]
            BY <1>1, <2>4 DEF DropCell, Gens
        <3>3. h = [regs |-> [g.regs EXCEPT ![Holder(g, c)] = FreeEntry], next |-> g.next,
                   cpu |-> [g.cpu EXCEPT ![p] = v], stack |-> g.stack]
            BY <2>2, <2>4, <3>1 DEF DropCell
        <3> QED
            BY <3>2, <3>3 DEF SetCpu
    <2> QED
        BY <2>3, <2>4
<1> HIDE DEF d, h
<1>4. c \in Cells
    BY DEF Cells
<1>5. Good(h) /\ SameValues(d, h)
    BY <1>2, <1>3, WriteFree
<1> QED
    BY <1>2, <1>4, <1>5 DEF SameValues, h

\* h is g with the value of one cell replaced.
Writes(g, h, c, v) ==
    Good(h) /\ ValueOf(h, c) = v /\ \A x \in Cells \ {c} : ValueOf(h, x) = ValueOf(g, x)

\* A register is left to allocate when up to three operands hold one each.
LEMMA RoomFor ==
    /\ Regs # {}
    /\ Room(1) => \A p : Regs \ {p} # {}
    /\ Room(2) => \A p, q : Regs \ {p, q} # {}
    /\ Room(3) => \A p, q, r : Regs \ {p, q, r} # {}
<1>1. NumRegs \in Nat /\ 0 \in Regs /\ 1 \in Regs
    BY RegAssumption DEF Regs
<1>2. Room(2) => 2 \in Regs
    BY <1>1 DEF Regs, Room
<1>3. Room(3) => 2 \in Regs /\ 3 \in Regs
    BY <1>1 DEF Regs, Room
<1> QED
    BY <1>1, <1>2, <1>3

\* markDirty followed by a write at a cell's place writes that cell and no other.
LEMMA WriteMarked ==
    ASSUME NEW g, Good(g), NEW c \in Cells, NEW at, Keeps(g, c, at), NEW v \in Byte
    PROVE  LET h == SetCpu(MarkDirty(g, at), at, v)
           IN  /\ Writes(g, h, c, v) /\ StillKeeps(g, h, Places)
               /\ \A p \in Places \ {at} : h.cpu[p] = g.cpu[p]
               /\ \A i \in Regs \ {at} : h.regs[i] = g.regs[i]
               /\ at \in Regs => h.regs[at].dirty
<1> DEFINE m == MarkDirty(g, at)
           h == SetCpu(m, at, v)
<1>1. /\ Good(m) /\ SameValues(g, m) /\ StillKeeps(g, m, Places)
      /\ at \in Regs => m.regs[at].dirty
      /\ m.cpu = g.cpu
      /\ \A i \in Regs \ {at} : m.regs[i] = g.regs[i]
    BY MarkDirtyFacts
<1>2. at \in Places /\ Keeps(m, c, at)
    BY <1>1, KeepsValue DEF StillKeeps
<1> HIDE DEF m
<1>3. /\ Good(h) /\ ValueOf(h, c) = v
      /\ \A x \in Cells \ {c} : ValueOf(h, x) = ValueOf(m, x)
      /\ StillKeeps(m, h, Places)
      /\ h.regs = m.regs
      /\ \A p \in Places \ {at} : h.cpu[p] = m.cpu[p]
    BY <1>1, <1>2, WriteKept
<1> HIDE DEF h
<1>4. Writes(g, h, c, v) /\ StillKeeps(g, h, Places)
    BY <1>1, <1>3 DEF Writes, SameValues, StillKeeps
<1> QED
    BY <1>1, <1>3, <1>4 DEF h, m

\* The scratch cell of emitAdd or of a copy costs no cell its value.
LEMMA EmitAddFacts ==
    ASSUME NEW g, Good(g), NEW at, NEW viaLoop
    PROVE  \A h \in {EmitAdd(g, at, viaLoop), ScratchNear(g, at)} :
              /\ Good(h) /\ SameValues(g, h) /\ StillKeeps(g, h, Places)
              /\ h.regs = g.regs /\ h.stack = g.stack
<1>1. LET h == ScratchNear(g, at)
      IN  /\ Good(h) /\ SameValues(g, h) /\ StillKeeps(g, h, Places)
          /\ h.regs = g.regs /\ h.stack = g.stack
    <2>1. CASE at \in Regs
        BY <2>1, ScratchFacts DEF ScratchNear
    <2>2. CASE at \notin Regs
        BY <2>2 DEF ScratchNear, SameValues, StillKeeps
    <2> QED
        BY <2>1, <2>2
<1>2. CASE viaLoop
    BY <1>1, <1>2 DEF EmitAdd
<1>3. CASE ~viaLoop
    BY <1>1, <1>3 DEF EmitAdd, SameValues, StillKeeps
<1> QED
    BY <1>2, <1>3

\* IRZero and IRConst write their destination and no other cell.
LEMMA GenConstWrites ==
    ASSUME NEW g, Good(g), NEW d \in Cells, NEW v \in Byte, NEW viaLoop
    PROVE  Writes(g, GenConst(g, d, v, viaLoop), d, v)
<1> DEFINE r == AssignReg(g, d, {})
           m == MarkDirty(r.g, r.at)
           e == EmitAdd(m, r.at, viaLoop)
<1>1. /\ Good(r.g) /\ \A x \in Cells \ {d} : ValueOf(r.g, x) = ValueOf(g, x)
      /\ r.at \in Places /\ Keeps(r.g, d, r.at)
    <2>1. Assigned(g, d, {}, r)
        BY RoomFor, AssignFacts
    <2> QED
        BY <2>1 DEF Assigned
<1> HIDE DEF r
<1>2. /\ Good(m) /\ SameValues(r.g, m) /\ StillKeeps(r.g, m, Places)
      /\ r.at \in Regs => m.regs[r.at].dirty
    BY <1>1, MarkDirtyFacts
<1> HIDE DEF m
<1>3. Good(e) /\ SameValues(m, e) /\ StillKeeps(m, e, Places) /\ e.regs = m.regs
    BY <1>2, EmitAddFacts
<1> HIDE DEF e
<1>4. Keeps(e, d, r.at)
    BY <1>1, <1>2, <1>3 DEF StillKeeps
<1>5. /\ Good(SetCpu(e, r.at, v)) /\ ValueOf(SetCpu(e, r.at, v), d) = v
      /\ \A x \in Cells \ {d} : ValueOf(SetCpu(e, r.at, v), x) = ValueOf(e, x)
    BY <1>2, <1>3, <1>4, WriteKept
<1> QED
    BY <1>1, <1>2, <1>3, <1>5 DEF GenConst, Writes, SameValues, r, m, e

\* IRAddI and IRSubI add to their destination modulo the byte and write nothing else.
LEMMA GenAddIWrites ==
    ASSUME NEW g, Good(g), NEW d \in Cells, NEW delta \in Int, NEW viaLoop
    PROVE  Writes(g, GenAddI(g, d, delta, viaLoop), d, (ValueOf(g, d) + delta) % Mod)
<1> DEFINE r == EnsureReg(g, d, {})
           m == MarkDirty(r.g, r.at)
           e == EmitAdd(m, r.at, viaLoop)
           v == (r.g.cpu[r.at] + delta) % Mod
<1>1. /\ Good(r.g) /\ SameValues(g, r.g)
      /\ r.at \in Places /\ Keeps(r.g, d, r.at)
    <2>1. Ensured(g, d, {}, r)
        BY RoomFor, EnsureFacts
    <2> QED
        BY <2>1 DEF Ensured
<1> HIDE DEF r
<1>2. ValueOf(g, d) = r.g.cpu[r.at] /\ r.g.cpu[r.at] \in Byte
    BY <1>1, KeepsValue, GensShape DEF SameValues, Good
<1>3. v \in Byte
    <2>1. Mod \in Nat /\ Mod > 0 /\ r.g.cpu[r.at] + delta \in Int
        BY <1>2, IRAssumption DEF Byte
    <2> QED
        BY <2>1 DEF Byte
<1> HIDE DEF v
<1>4. /\ Good(m) /\ SameValues(r.g, m) /\ StillKeeps(r.g, m, Places)
      /\ r.at \in Regs => m.regs[r.at].dirty
    BY <1>1, MarkDirtyFacts
<1> HIDE DEF m
<1>5. Good(e) /\ SameValues(m, e) /\ StillKeeps(m, e, Places) /\ e.regs = m.regs
    BY <1>4, EmitAddFacts
<1> HIDE DEF e
<1>6. Keeps(e, d, r.at)
    BY <1>1, <1>4, <1>5 DEF StillKeeps
<1>7. /\ Good(SetCpu(e, r.at, v)) /\ ValueOf(SetCpu(e, r.at, v), d) = v
      /\ \A x \in Cells \ {d} : ValueOf(SetCpu(e, r.at, v), x) = ValueOf(e, x)
    BY <1>3, <1>4, <1>5, <1>6, WriteKept
<1>8. GenAddI(g, d, delta, viaLoop) = SetCpu(e, r.at, v)
    BY DEF GenAddI, r, m, e, v
<1>9. v = (ValueOf(g, d) + delta) % Mod
    BY <1>2 DEF v
<1> QED
    BY <1>1, <1>4, <1>5, <1>7, <1>8, <1>9 DEF Writes, SameValues

At(g, p) == g.cpu[p]

\* The source s is at a and the destination d at b, two places unless s = d.
UnaryPlaced(g, d, s, a, b) ==
    /\ Good(b.g) /\ \A x \in Cells \ {d} : ValueOf(b.g, x) = ValueOf(g, x)
    /\ Keeps(b.g, s, a.at) /\ a.at \in Places
    /\ Keeps(b.g, d, b.at) /\ b.at \in Places
    /\ b.at \in Regs => b.g.regs[b.at].dirty
    /\ At(b.g, a.at) = ValueOf(g, s)
    /\ a.at = b.at <=> s = d

\* One operand in a register, then a register for the result.
LEMMA UnaryOperand ==
    ASSUME NEW g, Good(g), NEW s \in Cells, NEW d \in Cells, Room(1),
           NEW a, a = EnsureReg(g, s, {}), NEW b, b = AssignReg(a.g, d, {a.at})
    PROVE  UnaryPlaced(g, d, s, a, b)
<1>1. /\ Good(a.g) /\ SameValues(g, a.g)
      /\ a.at \in Places /\ Keeps(a.g, s, a.at)
    <2>1. Ensured(g, s, {}, a)
        BY RoomFor, EnsureFacts
    <2> QED
        BY <2>1 DEF Ensured
<1>2. At(a.g, a.at) = ValueOf(g, s)
    BY <1>1, KeepsValue DEF SameValues, At
<1>3. Regs \ {a.at} # {}
    BY RoomFor
<1>4. /\ Good(b.g) /\ \A x \in Cells \ {d} : ValueOf(b.g, x) = ValueOf(a.g, x)
      /\ StillKeeps(a.g, b.g, {a.at})
      /\ b.at \in Places /\ Keeps(b.g, d, b.at)
      /\ b.at \in Regs => b.g.regs[b.at].dirty
      /\ b.g.cpu = a.g.cpu
    <2>1. Assigned(a.g, d, {a.at}, b)
        BY <1>1, <1>3, AssignFacts
    <2> QED
        BY <2>1 DEF Assigned
<1>5. Keeps(b.g, s, a.at)
    BY <1>1, <1>4 DEF StillKeeps
<1>6. a.at = b.at <=> s = d
    <2>1. ASSUME a.at = b.at PROVE s = d
        BY <1>4, <1>5, <2>1, PlacesApart DEF Keeps
    <2>2. ASSUME s = d PROVE a.at = b.at
        <3>1. Unaliased(b.g)
            BY <1>4 DEF Good
        <3>2. Keeps(b.g, s, a.at) /\ Keeps(b.g, s, b.at) /\ s # NoSlot
            BY <1>4, <1>5, <2>2, PlacesApart
        <3> QED
            BY <3>1, <3>2 DEF Keeps, Unaliased
    <2> QED
        BY <2>1, <2>2
<1> QED
    BY <1>1, <1>2, <1>4, <1>5, <1>6 DEF UnaryPlaced, SameValues, At

\* IRMove gives the destination the source's value and clears a phase-temp source;
\* it says nothing of a slot used as the source.
LEMMA GenMoveWrites ==
    ASSUME NEW g, Good(g), NEW s \in Cells, NEW d \in Cells, s # d, Room(1)
    PROVE  LET h == GenMove(g, d, s)
           IN  /\ Good(h) /\ ValueOf(h, d) = ValueOf(g, s)
               /\ s \in Temps => ValueOf(h, s) = 0
               /\ \A x \in Cells \ {d, s} : ValueOf(h, x) = ValueOf(g, x)
<1> DEFINE a == EnsureReg(g, s, {})
           b == AssignReg(a.g, d, {a.at})
           v == At(b.g, a.at)
           w == SetCpu(b.g, b.at, v)
           h == GenMove(g, d, s)
<1>a. a = EnsureReg(g, s, {}) /\ b = AssignReg(a.g, d, {a.at})
    OBVIOUS
<1>2. h = IF s \in Slots THEN DropCell(SetCpu(w, a.at, 0), s) ELSE SetCpu(w, a.at, 0)
    BY DEF GenMove, At
<1> HIDE DEF a, b, h
<1>1. /\ Good(b.g) /\ \A x \in Cells \ {d} : ValueOf(b.g, x) = ValueOf(g, x)
      /\ Keeps(b.g, s, a.at) /\ a.at \in Places
      /\ Keeps(b.g, d, b.at) /\ b.at \in Places
      /\ b.at \in Regs => b.g.regs[b.at].dirty
      /\ At(b.g, a.at) = ValueOf(g, s)
      /\ a.at = b.at <=> s = d
    <2>1. UnaryPlaced(g, d, s, a, b)
        BY <1>a, UnaryOperand
    <2> QED
        BY <2>1 DEF UnaryPlaced
<1>3. v \in Byte /\ 0 \in Byte
    BY <1>1, GensShape, IRAssumption DEF Good, Byte, At
<1>4. /\ Good(w) /\ ValueOf(w, d) = v
      /\ \A x \in Cells \ {d} : ValueOf(w, x) = ValueOf(b.g, x)
      /\ StillKeeps(b.g, w, Places)
    BY <1>1, <1>3, WriteKept
<1> HIDE DEF w
<1>5. Keeps(w, s, a.at)
    BY <1>1, <1>4 DEF StillKeeps
<1>6. CASE s \in Slots
    <2>1. a.at \in Regs
        BY <1>5, <1>6, IRAssumption DEF Keeps
    <2>2. Good(h) /\ \A x \in Cells \ {s} : ValueOf(h, x) = ValueOf(w, x)
        BY <1>2, <1>3, <1>4, <1>5, <1>6, <2>1, DropWritten
    <2>3. s \notin Temps
        BY <1>6, IRAssumption
    <2> QED
        BY <1>1, <1>4, <2>2, <2>3 DEF h
<1>7. CASE s \notin Slots
    <2>1. s \in Temps /\ a.at = s /\ a.at \notin Regs
        BY <1>5, <1>7, PlacesApart DEF Cells, Keeps
    <2>2. /\ Good(h) /\ ValueOf(h, s) = 0
          /\ \A x \in Cells \ {s} : ValueOf(h, x) = ValueOf(w, x)
        BY <1>2, <1>3, <1>4, <1>5, <1>7, <2>1, WriteKept
    <2> QED
        BY <1>1, <1>4, <2>2 DEF h
<1> QED
    BY <1>6, <1>7

\* IRCopy gives the destination the source's value and leaves the source alone.
LEMMA GenCopyWrites ==
    ASSUME NEW g, Good(g), NEW s \in Cells, NEW d \in Cells, Room(1)
    PROVE  Writes(g, GenCopy(g, d, s), d, ValueOf(g, s))
<1> DEFINE a == EnsureReg(g, s, {})
           b == AssignReg(a.g, d, {a.at})
           v == At(b.g, a.at)
           e == ScratchNear(b.g, a.at)
<1>a. a = EnsureReg(g, s, {}) /\ b = AssignReg(a.g, d, {a.at})
    OBVIOUS
<1>2. GenCopy(g, d, s) = IF a.at = b.at THEN b.g ELSE SetCpu(e, b.at, v)
    BY DEF GenCopy, At
<1> HIDE DEF a, b
<1>1. /\ Good(b.g) /\ \A x \in Cells \ {d} : ValueOf(b.g, x) = ValueOf(g, x)
      /\ Keeps(b.g, s, a.at) /\ a.at \in Places
      /\ Keeps(b.g, d, b.at) /\ b.at \in Places
      /\ b.at \in Regs => b.g.regs[b.at].dirty
      /\ At(b.g, a.at) = ValueOf(g, s)
      /\ a.at = b.at <=> s = d
    <2>1. UnaryPlaced(g, d, s, a, b)
        BY <1>a, UnaryOperand
    <2> QED
        BY <2>1 DEF UnaryPlaced
<1>3. CASE a.at = b.at
    BY <1>1, <1>2, <1>3, KeepsValue DEF Writes, At
<1>4. CASE a.at # b.at
    <2>1. v \in Byte
        BY <1>1, GensShape DEF Good, At
    <2>2. Good(e) /\ SameValues(b.g, e) /\ StillKeeps(b.g, e, Places) /\ e.regs = b.g.regs
        BY <1>1, EmitAddFacts
    <2> HIDE DEF e
    <2>3. Keeps(e, d, b.at)
        BY <1>1, <2>2 DEF StillKeeps
    <2>4. /\ Good(SetCpu(e, b.at, v)) /\ ValueOf(SetCpu(e, b.at, v), d) = v
          /\ \A x \in Cells \ {d} : ValueOf(SetCpu(e, b.at, v), x) = ValueOf(e, x)
        BY <1>1, <2>1, <2>2, <2>3, WriteKept
    <2> QED
        BY <1>1, <1>2, <1>4, <2>2, <2>4 DEF Writes, SameValues
<1> QED
    BY <1>3, <1>4

\* IRNot writes its destination, its source possibly the same cell.
LEMMA GenNotWrites ==
    ASSUME NEW g, Good(g), NEW s \in Cells, NEW d \in Cells, Room(1)
    PROVE  Writes(g, GenNot(g, d, s), d, NotOf(ValueOf(g, s)))
<1> DEFINE a == EnsureReg(g, s, {})
           b == AssignReg(a.g, d, {a.at})
           v == NotOf(At(b.g, a.at))
<1>a. a = EnsureReg(g, s, {}) /\ b = AssignReg(a.g, d, {a.at})
    OBVIOUS
<1>2. GenNot(g, d, s) = SetCpu(MarkDirty(b.g, b.at), b.at, v)
    BY DEF GenNot, At
<1> HIDE DEF a, b
<1>1. /\ Good(b.g) /\ \A x \in Cells \ {d} : ValueOf(b.g, x) = ValueOf(g, x)
      /\ Keeps(b.g, s, a.at) /\ a.at \in Places
      /\ Keeps(b.g, d, b.at) /\ b.at \in Places
      /\ b.at \in Regs => b.g.regs[b.at].dirty
      /\ At(b.g, a.at) = ValueOf(g, s)
      /\ a.at = b.at <=> s = d
    <2>1. UnaryPlaced(g, d, s, a, b)
        BY <1>a, UnaryOperand
    <2> QED
        BY <2>1 DEF UnaryPlaced
<1>3. v \in Byte
    BY IRAssumption DEF NotOf, Byte
<1> HIDE DEF v
<1>4. Writes(b.g, SetCpu(MarkDirty(b.g, b.at), b.at, v), d, v)
    BY <1>1, <1>3, WriteMarked
<1> QED
    BY <1>1, <1>2, <1>4 DEF Writes, v

\* The operands a and b are at r1 and r2.
BinaryPlaced(g, a, b, r1, r2) ==
    /\ Good(r2.g) /\ SameValues(g, r2.g)
    /\ Keeps(r2.g, a, r1.at) /\ r1.at \in Places
    /\ Keeps(r2.g, b, r2.at) /\ r2.at \in Places
    /\ At(r2.g, r1.at) = ValueOf(g, a)
    /\ At(r2.g, r2.at) = ValueOf(g, b)

\* Two operands in registers.
LEMMA BinaryOperands ==
    ASSUME NEW g, Good(g), NEW a \in Cells, NEW b \in Cells, Room(1),
           NEW r1, r1 = EnsureReg(g, a, {}), NEW r2, r2 = EnsureReg(r1.g, b, {r1.at})
    PROVE  BinaryPlaced(g, a, b, r1, r2)
<1>1. /\ Good(r1.g) /\ SameValues(g, r1.g)
      /\ r1.at \in Places /\ Keeps(r1.g, a, r1.at)
    <2>1. Ensured(g, a, {}, r1)
        BY RoomFor, EnsureFacts
    <2> QED
        BY <2>1 DEF Ensured
<1>2. Regs \ {r1.at} # {}
    BY RoomFor
<1>3. /\ Good(r2.g) /\ SameValues(r1.g, r2.g) /\ StillKeeps(r1.g, r2.g, {r1.at})
      /\ r2.at \in Places /\ Keeps(r2.g, b, r2.at)
    <2>1. Ensured(r1.g, b, {r1.at}, r2)
        BY <1>1, <1>2, EnsureFacts
    <2> QED
        BY <2>1 DEF Ensured
<1>4. Keeps(r2.g, a, r1.at)
    BY <1>1, <1>3 DEF StillKeeps
<1>5. SameValues(g, r2.g)
    BY <1>1, <1>3 DEF SameValues
<1>6. At(r2.g, r1.at) = ValueOf(g, a) /\ At(r2.g, r2.at) = ValueOf(g, b)
    <2>1. ValueOf(r2.g, a) = At(r2.g, r1.at)
        BY <1>3, <1>4, KeepsValue DEF At
    <2>2. ValueOf(r2.g, b) = At(r2.g, r2.at)
        BY <1>3, KeepsValue DEF At
    <2> QED
        BY <1>5, <2>1, <2>2 DEF SameValues
<1> QED
    BY <1>1, <1>3, <1>4, <1>5, <1>6 DEF BinaryPlaced

\* The functions of the binary nodes yield bytes.
LEMMA BinaryFnsType ==
    ASSUME NEW f \in BinaryFns, NEW x \in Byte, NEW y \in Byte
    PROVE  Result(f, x, y) \in Byte
BY IRAssumption DEF Result

\* Every cell holds a byte.
LEMMA ValueIsByte ==
    ASSUME NEW g, Good(g), NEW c \in Cells
    PROVE  ValueOf(g, c) \in Byte
<1>1. g \in Gens
    BY DEF Good
<1>2. Cached(g, c) /\ c \in Slots => Holder(g, c) \in Regs
    BY HolderOf
<1> QED
    BY <1>1, <1>2, GensShape DEF ValueOf, Cells, Places

\* A binary node writes its result, the destination possibly one of its operands.
LEMMA GenBinaryWrites ==
    ASSUME NEW g, Good(g), NEW a \in Cells, NEW b \in Cells, NEW d \in Cells,
           NEW f \in BinaryFns, Room(2)
    PROVE  Writes(g, GenBinary(g, d, a, b, f), d, Result(f, ValueOf(g, a), ValueOf(g, b)))
<1> DEFINE r1 == EnsureReg(g, a, {})
           r2 == EnsureReg(r1.g, b, {r1.at})
           rd == AssignReg(r2.g, d, {r1.at, r2.at})
           v == Result(f, At(rd.g, r1.at), At(rd.g, r2.at))
<1>1. r1 = EnsureReg(g, a, {}) /\ r2 = EnsureReg(r1.g, b, {r1.at})
    OBVIOUS
<1>2. GenBinary(g, d, a, b, f) = SetCpu(MarkDirty(rd.g, rd.at), rd.at, v)
    BY DEF GenBinary, At
<1> HIDE DEF r1, r2
<1>3. Room(1)
    BY RegAssumption DEF Room
<1>4. /\ Good(r2.g) /\ SameValues(g, r2.g)
      /\ Keeps(r2.g, a, r1.at) /\ r1.at \in Places
      /\ Keeps(r2.g, b, r2.at) /\ r2.at \in Places
      /\ At(r2.g, r1.at) = ValueOf(g, a)
      /\ At(r2.g, r2.at) = ValueOf(g, b)
    <2>1. BinaryPlaced(g, a, b, r1, r2)
        BY <1>1, <1>3, BinaryOperands
    <2> QED
        BY <2>1 DEF BinaryPlaced
<1>5. Regs \ {r1.at, r2.at} # {}
    BY RoomFor
<1>6. /\ Good(rd.g) /\ \A x \in Cells \ {d} : ValueOf(rd.g, x) = ValueOf(r2.g, x)
      /\ rd.at \in Places /\ Keeps(rd.g, d, rd.at)
      /\ rd.g.cpu = r2.g.cpu
    <2>1. Assigned(r2.g, d, {r1.at, r2.at}, rd)
        BY <1>4, <1>5, AssignFacts
    <2> QED
        BY <2>1 DEF Assigned
<1> HIDE DEF rd
<1>7. v = Result(f, ValueOf(g, a), ValueOf(g, b))
    BY <1>4, <1>6 DEF At
<1>8. v \in Byte
    BY <1>7, BinaryFnsType, ValueIsByte
<1> HIDE DEF v
<1>9. Writes(rd.g, SetCpu(MarkDirty(rd.g, rd.at), rd.at, v), d, v)
    BY <1>6, <1>8, WriteMarked
<1> QED
    BY <1>2, <1>4, <1>6, <1>7, <1>9 DEF Writes, SameValues

\* IRDivMod writes quotient and remainder, though the registers of the operands may
\* be those of the results.
LEMMA GenDivModWrites ==
    ASSUME NEW g, Good(g), NEW a \in Cells, NEW b \in Cells, NEW q \in Cells, NEW r \in Cells,
           q # r, NEW quot \in BinaryFns, NEW rem \in BinaryFns, Room(3)
    PROVE  LET h == GenDivMod(g, q, r, a, b, quot, rem)
           IN  /\ Good(h)
               /\ ValueOf(h, q) = Result(quot, ValueOf(g, a), ValueOf(g, b))
               /\ ValueOf(h, r) = Result(rem, ValueOf(g, a), ValueOf(g, b))
               /\ \A x \in Cells \ {q, r} : ValueOf(h, x) = ValueOf(g, x)
<1> DEFINE r1 == EnsureReg(g, a, {})
           r2 == EnsureReg(r1.g, b, {r1.at})
           rq == AssignReg(r2.g, q, {r1.at, r2.at})
           rr == AssignReg(rq.g, r, {r1.at, r2.at, rq.at})
           vq == Result(quot, At(rr.g, r1.at), At(rr.g, r2.at))
           vr == Result(rem, At(rr.g, r1.at), At(rr.g, r2.at))
           m == MarkDirty(rr.g, rq.at)
           w == SetCpu(MarkDirty(m, rr.at), rr.at, vr)
           h == SetCpu(w, rq.at, vq)
<1>1. r1 = EnsureReg(g, a, {}) /\ r2 = EnsureReg(r1.g, b, {r1.at})
    OBVIOUS
<1>2. GenDivMod(g, q, r, a, b, quot, rem) = h
    BY DEF GenDivMod, At
<1> HIDE DEF r1, r2
<1>3. Room(1)
    BY RegAssumption DEF Room
<1>4. /\ Good(r2.g) /\ SameValues(g, r2.g)
      /\ Keeps(r2.g, a, r1.at) /\ r1.at \in Places
      /\ Keeps(r2.g, b, r2.at) /\ r2.at \in Places
      /\ At(r2.g, r1.at) = ValueOf(g, a)
      /\ At(r2.g, r2.at) = ValueOf(g, b)
    <2>1. BinaryPlaced(g, a, b, r1, r2)
        BY <1>1, <1>3, BinaryOperands
    <2> QED
        BY <2>1 DEF BinaryPlaced
<1>5. Room(2)
    BY RegAssumption DEF Room
<1>6. Regs \ {r1.at, r2.at} # {}
    BY <1>5, RoomFor
<1>7. /\ Good(rq.g) /\ \A x \in Cells \ {q} : ValueOf(rq.g, x) = ValueOf(r2.g, x)
      /\ rq.at \in Places /\ Keeps(rq.g, q, rq.at)
      /\ rq.g.cpu = r2.g.cpu
    <2>1. Assigned(r2.g, q, {r1.at, r2.at}, rq)
        BY <1>4, <1>6, AssignFacts
    <2> QED
        BY <2>1 DEF Assigned
<1> HIDE DEF rq
<1>8. Regs \ {r1.at, r2.at, rq.at} # {}
    BY RoomFor
<1>9. /\ Good(rr.g) /\ \A x \in Cells \ {r} : ValueOf(rr.g, x) = ValueOf(rq.g, x)
      /\ StillKeeps(rq.g, rr.g, {r1.at, r2.at, rq.at})
      /\ rr.at \in Places /\ Keeps(rr.g, r, rr.at)
      /\ rr.g.cpu = rq.g.cpu
    <2>1. Assigned(rq.g, r, {r1.at, r2.at, rq.at}, rr)
        BY <1>7, <1>8, AssignFacts
    <2> QED
        BY <2>1 DEF Assigned
<1> HIDE DEF rr
<1>10. /\ vq = Result(quot, ValueOf(g, a), ValueOf(g, b))
       /\ vr = Result(rem, ValueOf(g, a), ValueOf(g, b))
    BY <1>4, <1>7, <1>9 DEF At
<1>11. vq \in Byte /\ vr \in Byte
    BY <1>10, BinaryFnsType, ValueIsByte
<1> HIDE DEF vq, vr
<1>12. Keeps(rr.g, q, rq.at)
    BY <1>7, <1>9 DEF StillKeeps
<1>13. /\ Good(m) /\ SameValues(rr.g, m) /\ StillKeeps(rr.g, m, Places)
       /\ rq.at \in Regs => m.regs[rq.at].dirty
    BY <1>9, <1>12, MarkDirtyFacts
<1> HIDE DEF m
<1>14. Keeps(m, q, rq.at) /\ Keeps(m, r, rr.at)
    BY <1>7, <1>9, <1>12, <1>13 DEF StillKeeps
<1>15. /\ Writes(m, w, r, vr) /\ StillKeeps(m, w, Places)
       /\ \A i \in Regs \ {rr.at} : w.regs[i] = m.regs[i]
    BY <1>11, <1>13, <1>14, WriteMarked
<1> HIDE DEF w
<1>16. rq.at # rr.at
    BY <1>14, PlacesApart DEF Keeps
<1>17. Keeps(w, q, rq.at) /\ (rq.at \in Regs => w.regs[rq.at].dirty)
    BY <1>7, <1>13, <1>14, <1>15, <1>16 DEF StillKeeps
<1>18. /\ Good(h) /\ ValueOf(h, q) = vq
       /\ \A x \in Cells \ {q} : ValueOf(h, x) = ValueOf(w, x)
    BY <1>11, <1>15, <1>17, WriteKept DEF Writes
<1> HIDE DEF h
<1>19. ValueOf(h, r) = vr
    BY <1>15, <1>18 DEF Writes
<1>20. ASSUME NEW x \in Cells \ {q, r} PROVE ValueOf(h, x) = ValueOf(g, x)
    BY <1>4, <1>7, <1>9, <1>13, <1>15, <1>18 DEF Writes, SameValues
<1> QED
    BY <1>2, <1>10, <1>18, <1>19, <1>20

\* IRCmp writes its result and leaves the operand it consumes as it was: flushCell
\* before and dropCell after restore the slot's value.
LEMMA GenCmpWrites ==
    ASSUME NEW g, Good(g), NEW a \in Cells, NEW b \in Cells, NEW d \in Cells,
           NEW f \in BinaryFns, NEW c \in {a, b}, d # c, Room(2)
    PROVE  Writes(g, GenCmp(g, d, a, b, f, c), d, Result(f, ValueOf(g, a), ValueOf(g, b)))
<1> DEFINE r1 == EnsureReg(g, a, {})
           r2 == EnsureReg(r1.g, b, {r1.at})
           saved == IF c \in Slots THEN FlushCell(r2.g, c) ELSE r2.g
           rd == AssignReg(saved, d, {r1.at, r2.at})
           at == IF c = a THEN r1.at ELSE r2.at
           v == Result(f, At(rd.g, r1.at), At(rd.g, r2.at))
           done == SetCpu(MarkDirty(rd.g, rd.at), rd.at, v)
           h == IF c \in Slots THEN DropCell(SetCpu(done, at, 0), c) ELSE done
<1>1. r1 = EnsureReg(g, a, {}) /\ r2 = EnsureReg(r1.g, b, {r1.at})
    OBVIOUS
<1>2. GenCmp(g, d, a, b, f, c) = h
    BY DEF GenCmp, At
<1> HIDE DEF r1, r2
<1>3. Room(1)
    BY RegAssumption DEF Room
<1>4. /\ Good(r2.g) /\ SameValues(g, r2.g)
      /\ Keeps(r2.g, a, r1.at) /\ r1.at \in Places
      /\ Keeps(r2.g, b, r2.at) /\ r2.at \in Places
      /\ At(r2.g, r1.at) = ValueOf(g, a)
      /\ At(r2.g, r2.at) = ValueOf(g, b)
    <2>1. BinaryPlaced(g, a, b, r1, r2)
        BY <1>1, <1>3, BinaryOperands
    <2> QED
        BY <2>1 DEF BinaryPlaced
<1>5. Keeps(r2.g, c, at) /\ at \in Places /\ at \in {r1.at, r2.at} /\ c \in Cells
    BY <1>4
<1> HIDE DEF at
<1>6. /\ Good(saved) /\ SameValues(r2.g, saved) /\ StillKeeps(r2.g, saved, Places)
      /\ c \in Slots => ~saved.regs[at].dirty
      /\ saved.cpu = r2.g.cpu
    <2>1. CASE c \in Slots
        BY <1>4, <1>5, <2>1, FlushCellFacts
    <2>2. CASE c \notin Slots
        BY <1>4, <2>2 DEF SameValues, StillKeeps
    <2> QED
        BY <2>1, <2>2
<1> HIDE DEF saved
<1>7. Regs \ {r1.at, r2.at} # {}
    BY RoomFor
<1>8. /\ Good(rd.g) /\ \A x \in Cells \ {d} : ValueOf(rd.g, x) = ValueOf(saved, x)
      /\ StillKeeps(saved, rd.g, {r1.at, r2.at})
      /\ rd.at \in Places /\ Keeps(rd.g, d, rd.at)
      /\ \A j \in Regs \cap {r1.at, r2.at} :
            rd.g.regs[j].slot # d => rd.g.regs[j] = saved.regs[j]
      /\ rd.g.cpu = saved.cpu
    <2>1. Assigned(saved, d, {r1.at, r2.at}, rd)
        BY <1>6, <1>7, AssignFacts
    <2> QED
        BY <2>1 DEF Assigned
<1> HIDE DEF rd
<1>9. v = Result(f, ValueOf(g, a), ValueOf(g, b))
    BY <1>4, <1>6, <1>8 DEF At
<1>10. v \in Byte
    BY <1>9, BinaryFnsType, ValueIsByte
<1> HIDE DEF v
<1>11. Keeps(rd.g, c, at)
    BY <1>5, <1>6, <1>8 DEF StillKeeps
<1>12. /\ Writes(rd.g, done, d, v) /\ StillKeeps(rd.g, done, Places)
       /\ \A i \in Regs \ {rd.at} : done.regs[i] = rd.g.regs[i]
    BY <1>8, <1>10, WriteMarked
<1> HIDE DEF done
<1>13. Writes(g, done, d, v)
    BY <1>4, <1>6, <1>8, <1>12 DEF Writes, SameValues
<1>14. CASE c \notin Slots
    BY <1>2, <1>9, <1>13, <1>14
<1>15. CASE c \in Slots
    <2>1. at \in Regs /\ rd.g.regs[at].slot = c
        BY <1>11, <1>15, IRAssumption DEF Keeps
    <2>2. ~rd.g.regs[at].dirty
        BY <1>5, <1>6, <1>8, <1>15, <2>1
    <2>3. at # rd.at
        BY <1>8, <1>11, PlacesApart DEF Keeps
    <2>4. Keeps(done, c, at) /\ ~done.regs[at].dirty
        BY <1>5, <1>11, <1>12, <2>1, <2>2, <2>3 DEF StillKeeps
    <2>5. 0 \in Byte
        BY IRAssumption DEF Byte
    <2>6. LET k == DropCell(SetCpu(done, at, 0), c)
          IN  /\ Good(k) /\ \A x \in Cells \ {c} : ValueOf(k, x) = ValueOf(done, x)
              /\ ~done.regs[at].dirty => ValueOf(k, c) = ValueOf(done, c)
        BY <1>13, <1>15, <2>1, <2>4, <2>5, DropWritten DEF Writes
    <2>7. h = DropCell(SetCpu(done, at, 0), c)
        BY <1>15
    <2> HIDE DEF h
    <2>8. Good(h) /\ SameValues(done, h)
        BY <2>4, <2>6, <2>7 DEF SameValues
    <2> QED
        BY <1>2, <1>9, <1>13, <2>8 DEF Writes, SameValues
<1> QED
    BY <1>14, <1>15

-----------------------------------------------------------------------------
(* Arrays. *)

\* With an empty cache a store to the tape writes that slot and no other cell.
LEMMA StackWrite ==
    ASSUME NEW g, Good(g), Empty(g), NEW s \in Slots, NEW v \in Byte,
           NEW h, h = [g EXCEPT !.stack[s] = v]
    PROVE  Writes(g, h, s, v)
<1>1. g \in Gens
    BY DEF Good
<1>2. /\ h \in Gens /\ h.regs = g.regs /\ h.cpu = g.cpu
      /\ h.stack = [g.stack EXCEPT ![s] = v]
    BY <1>1 DEF Gens
<1>3. h.stack[s] = v /\ \A x \in Slots \ {s} : h.stack[x] = g.stack[x]
    BY <1>1, <1>2, GensShape
<1>4. \A i \in Regs : /\ g.regs[i].slot = NoSlot /\ ~g.regs[i].dirty
                      /\ h.regs[i].slot = NoSlot /\ ~h.regs[i].dirty
    BY <1>2 DEF Empty, FreeEntry
<1>5. Good(h)
    BY <1>2, <1>4 DEF Good, FreeIsClean, Unaliased, CleanIn
<1>6. AllClean(g) /\ AllClean(h)
    BY <1>4 DEF AllClean
<1>7. ValueOf(h, s) = v
    BY <1>3, <1>5, <1>6, StackOfClean
<1>8. ASSUME NEW x \in Cells \ {s} PROVE ValueOf(h, x) = ValueOf(g, x)
    <2>1. CASE x \in Temps
        BY <1>2, <2>1 DEF ValueOf
    <2>2. CASE x \notin Temps
        BY <1>3, <1>5, <1>6, <2>2, StackOfClean DEF Cells
    <2> QED
        BY <2>1, <2>2
<1> QED
    BY <1>5, <1>7, <1>8 DEF Writes

\* IRDynLoad writes stack[base + idx] to its destination.
LEMMA GenDynLoadWrites ==
    ASSUME ~LargeBases, NEW g, Good(g), NEW d \in Slots, NEW base \in Slots, NEW i \in Cells,
           base + ValueOf(g, i) \in Slots
    PROVE  Writes(g, GenDynLoad(g, d, base, i), d, ValueOf(g, base + ValueOf(g, i)))
<1> DEFINE idx == EnsureReg(g, i, {})
           clean == FlushAndInvalidate(idx.g)
           result == IF idx.at = 0 THEN 1 ELSE 0
           v == clean.stack[base + clean.cpu[idx.at]]
           w == SetCpu(clean, result, v)
           h == [w EXCEPT !.stack[d] = v]
<1>1. /\ Good(idx.g) /\ SameValues(g, idx.g)
      /\ idx.at \in Places /\ Keeps(idx.g, i, idx.at)
    <2>1. Ensured(g, i, {}, idx)
        BY RoomFor, EnsureFacts
    <2> QED
        BY <2>1 DEF Ensured
<1>2. GenDynLoad(g, d, base, i) = [clean EXCEPT !.cpu[result] = v, !.stack[d] = v]
    BY DEF GenDynLoad, WalkScratch
<1> HIDE DEF idx
<1>3. /\ Good(clean) /\ SameValues(idx.g, clean) /\ Empty(clean) /\ AllClean(clean)
      /\ clean.cpu = idx.g.cpu
    BY <1>1, FlushAndInvalidateFacts
<1> HIDE DEF clean
<1>4. clean.cpu[idx.at] = ValueOf(g, i)
    <2>1. ValueOf(idx.g, i) = idx.g.cpu[idx.at]
        BY <1>1, KeepsValue
    <2> QED
        BY <1>1, <1>3, <2>1 DEF SameValues
<1>5. result \in Regs
    BY RegAssumption DEF Regs
<1> HIDE DEF result
<1>6. v = ValueOf(clean, base + ValueOf(g, i))
    BY <1>3, <1>4, StackOfClean
<1>7. v = ValueOf(g, base + ValueOf(g, i)) /\ v \in Byte
    <2>1. base + ValueOf(g, i) \in Cells
        BY DEF Cells
    <2> QED
        BY <1>1, <1>3, <1>6, <2>1, ValueIsByte DEF SameValues
<1> HIDE DEF v
<1>8. clean.regs[result].slot = NoSlot
    BY <1>3, <1>5 DEF Empty, FreeEntry
<1>9. Good(w) /\ SameValues(clean, w) /\ w.regs = clean.regs
    BY <1>3, <1>5, <1>7, <1>8, WriteFree
<1>10. Empty(w)
    BY <1>3, <1>9 DEF Empty
<1>11. GenDynLoad(g, d, base, i) = h
    BY <1>2, <1>3 DEF SetCpu, Good, Gens
<1> HIDE DEF w
<1>12. Writes(w, h, d, v)
    BY <1>7, <1>9, <1>10, StackWrite
<1> QED
    BY <1>1, <1>3, <1>7, <1>9, <1>11, <1>12 DEF Writes, SameValues

\* IRDynStore writes its source to stack[base + idx], while array bases are small.
LEMMA GenDynStoreWrites ==
    ASSUME ~LargeBases, NEW g, Good(g), NEW base \in Slots, NEW i \in Cells, NEW s \in Cells,
           base + ValueOf(g, i) \in Slots, Room(1)
    PROVE  Writes(g, GenDynStore(g, base, i, s), base + ValueOf(g, i), ValueOf(g, s))
<1> DEFINE idx == EnsureReg(g, i, {})
           src == EnsureReg(idx.g, s, {idx.at})
           clean == FlushAndInvalidate(src.g)
           h == [clean EXCEPT !.stack[base + clean.cpu[idx.at]] = clean.cpu[src.at]]
<1>1. idx = EnsureReg(g, i, {}) /\ src = EnsureReg(idx.g, s, {idx.at})
    OBVIOUS
<1>2. GenDynStore(g, base, i, s) = h
    BY DEF GenDynStore, WalkScratch
<1> HIDE DEF idx, src
<1>3. /\ Good(src.g) /\ SameValues(g, src.g)
      /\ Keeps(src.g, i, idx.at) /\ idx.at \in Places
      /\ Keeps(src.g, s, src.at) /\ src.at \in Places
      /\ At(src.g, idx.at) = ValueOf(g, i)
      /\ At(src.g, src.at) = ValueOf(g, s)
    <2>1. BinaryPlaced(g, i, s, idx, src)
        BY <1>1, BinaryOperands
    <2> QED
        BY <2>1 DEF BinaryPlaced
<1>4. /\ Good(clean) /\ SameValues(src.g, clean) /\ Empty(clean)
      /\ clean.cpu = src.g.cpu
    BY <1>3, FlushAndInvalidateFacts
<1> HIDE DEF clean
<1>5. clean.cpu[idx.at] = ValueOf(g, i) /\ clean.cpu[src.at] = ValueOf(g, s)
    BY <1>3, <1>4 DEF At
<1>6. h = [clean EXCEPT !.stack[base + ValueOf(g, i)] = ValueOf(g, s)]
    BY <1>5
<1>7. ValueOf(g, s) \in Byte
    BY ValueIsByte
<1>8. Writes(clean, h, base + ValueOf(g, i), ValueOf(g, s))
    BY <1>4, <1>6, <1>7, StackWrite
<1> QED
    BY <1>2, <1>3, <1>4, <1>8 DEF Writes, SameValues

-----------------------------------------------------------------------------
(* The system: the generator, its control stack and the reference memory.  *)

\* A conditional body remembers the register its condition was tested in; a
\* phase temp is tested where it lives.
SoundBodies ==
    {b \in Bodies : b.kind \in {"then", "loop"} =>
                        IF b.cond \in Temps THEN b.at = b.cond ELSE b.at \in Regs}
CtrlOK == ctrl \in Seq(SoundBodies) /\ Len(ctrl) <= MaxNest
ObsOK == obs \in [machine : Byte, reference : Byte] /\ obs.machine = obs.reference

\* The inductive invariant.
IInv == Good(gen) /\ MemTypeOK /\ CtrlOK /\ ObsOK /\ Coherent

\* Coherent in the words of the lemmas.
LEMMA CoherentMeans ==
    /\ Coherent <=> \A c \in live : ValueOf(gen, c) = mem[c]
    /\ Coherent' <=> \A c \in live' : ValueOf(gen', c) = mem'[c]
BY DEF Coherent, Contents, ValueOf

\* A node that shows nothing is a legal observation.
LEMMA NothingSeenOK == NothingSeen \in [machine : Byte, reference : Byte]
BY IRAssumption DEF NothingSeen, Byte

\* The invariant holds of the empty cache over the zeroed tape (Generate).
LEMMA InitOK == Init => IInv
<1> SUFFICES ASSUME Init PROVE IInv
    OBVIOUS
<1>1. 0 \in Byte /\ 0 \in Regs
    BY IRAssumption, RegAssumption DEF Byte, Regs
<1>2. FreeEntry \in Entries
    BY DEF FreeEntry, Entries
<1>3. /\ gen \in Gens
      /\ gen.regs = [i \in Regs |-> FreeEntry]
      /\ gen.cpu = [p \in Places |-> 0]
      /\ gen.stack = [s \in Slots |-> 0]
    BY <1>1, <1>2 DEF Init, Gens
<1>4. \A i \in Regs : gen.regs[i].slot = NoSlot /\ ~gen.regs[i].dirty
    BY <1>3 DEF FreeEntry
<1>5. Good(gen)
    BY <1>3, <1>4 DEF Good, FreeIsClean, Unaliased, CleanIn
<1>6. MemTypeOK /\ ObsOK
    BY <1>1, NothingSeenOK DEF Init, MemInit, MemTypeOK, ObsOK, NothingSeen
<1>7. CtrlOK
    BY RegAssumption DEF Init, CtrlOK
<1>8. ASSUME NEW c \in Cells PROVE ValueOf(gen, c) = 0
    <2>1. CASE c \in Temps
        BY <1>3, <2>1 DEF ValueOf, Places
    <2>2. CASE c \notin Temps
        BY <1>3, <1>4, <1>5, <2>2, StackOfClean DEF AllClean, Cells
    <2> QED
        BY <2>1, <2>2
<1>9. Coherent
    BY <1>8, CoherentMeans DEF Init, MemInit
<1> QED
    BY <1>5, <1>6, <1>7, <1>9 DEF IInv

-----------------------------------------------------------------------------
(* The shapes a step can have. *)

\* The node writes v to cell d, in the IR and on the tape.
LEMMA WritingStep ==
    ASSUME IInv, NEW d \in Cells, NEW v \in Byte, Put(d, v), Writes(gen, gen', d, v),
           CtrlOK', obs' = NothingSeen
    PROVE  IInv'
<1>1. MemTypeOK'
    BY DEF IInv, MemTypeOK, Put
<1>2. Good(gen') /\ ObsOK'
    BY NothingSeenOK DEF Writes, ObsOK, NothingSeen
<1>3. ASSUME NEW c \in live' PROVE ValueOf(gen', c) = mem'[c]
    <2>1. CASE c = d
        BY <2>1 DEF IInv, MemTypeOK, Put, Writes
    <2>2. CASE c # d
        <3>1. c \in live /\ c \in Cells \ {d}
            BY <1>3, <2>2 DEF IInv, MemTypeOK, Put
        <3>2. mem'[c] = mem[c]
            BY <3>1 DEF IInv, MemTypeOK, Put
        <3> QED
            BY <3>1, <3>2, CoherentMeans DEF IInv, Writes
    <2> QED
        BY <2>1, <2>2
<1>4. Coherent'
    BY <1>3, CoherentMeans
<1> QED
    BY <1>1, <1>2, <1>4 DEF IInv

\* The node changes no cell; it may show one to the world.
LEMMA ReadingStep ==
    ASSUME IInv, UNCHANGED memVars, Good(gen'), SameValues(gen, gen'), CtrlOK', ObsOK'
    PROVE  IInv'
<1>1. live \subseteq Cells
    BY DEF IInv, MemTypeOK
<1>2. Coherent'
    BY <1>1, CoherentMeans DEF IInv, SameValues, memVars
<1>3. MemTypeOK'
    BY DEF IInv, MemTypeOK, memVars
<1> QED
    BY <1>2, <1>3 DEF IInv

\* A cell the program may read has its value on the tape, a byte.
LEMMA LiveValue ==
    ASSUME IInv, NEW c \in live
    PROVE  c \in Cells /\ ValueOf(gen, c) = mem[c] /\ mem[c] \in Byte
BY CoherentMeans DEF IInv, MemTypeOK

\* A straight-line node opens and closes no body.
LEMMA StraightKeepsCtrl ==
    ASSUME IInv, UNCHANGED ctrl
    PROVE  CtrlOK'
BY DEF IInv, CtrlOK

-----------------------------------------------------------------------------
(* Straight-line nodes. *)

\* The invariant is kept by every node of one operand or none.
LEMMA UnaryNodeOK ==
    ASSUME IInv, ~ReadAfterMove, UnaryNode
    PROVE  IInv'
<1>1. ASSUME NEW d \in Cells, Zero(d) PROVE IInv'
    <2>1. 0 \in Byte
        BY IRAssumption DEF Byte
    <2> QED
        BY <1>1, <2>1, GenConstWrites, WritingStep, StraightKeepsCtrl
        DEF IInv, Zero, MemConst, Straight
<1>2. ASSUME NEW d \in Cells, NEW v \in Byte, NEW viaLoop \in BOOLEAN, Const(d, v, viaLoop)
      PROVE  IInv'
    BY <1>2, GenConstWrites, WritingStep, StraightKeepsCtrl DEF IInv, Const, MemConst, Straight
<1>3. ASSUME NEW d \in Cells, NEW v \in Byte, NEW viaLoop \in BOOLEAN, AddI(d, v, viaLoop)
      PROVE  IInv'
    <2>1. ValueOf(gen, d) = mem[d] /\ mem[d] \in Byte
        BY <1>3, LiveValue DEF AddI, MemAddI
    <2>2. v \in Int /\ (mem[d] + v) % Mod \in Byte
        BY <2>1, IRAssumption DEF Byte
    <2>3. Writes(gen, gen', d, (mem[d] + v) % Mod)
        BY <1>3, <2>1, <2>2, GenAddIWrites DEF IInv, AddI
    <2> QED
        BY <1>3, <2>2, <2>3, WritingStep, StraightKeepsCtrl DEF AddI, MemAddI, Straight
<1>4. ASSUME NEW d \in Cells, NEW v \in Byte, NEW viaLoop \in BOOLEAN, SubI(d, v, viaLoop)
      PROVE  IInv'
    <2>1. ValueOf(gen, d) = mem[d] /\ mem[d] \in Byte
        BY <1>4, LiveValue DEF SubI, MemSubI
    <2>2. /\ -v \in Int /\ (mem[d] - v) % Mod \in Byte
          /\ mem[d] + (-v) = mem[d] - v
        BY <2>1, IRAssumption DEF Byte
    <2>3. Writes(gen, gen', d, (mem[d] - v) % Mod)
        BY <1>4, <2>1, <2>2, GenAddIWrites DEF IInv, SubI
    <2> QED
        BY <1>4, <2>2, <2>3, WritingStep, StraightKeepsCtrl DEF SubI, MemSubI, Straight
<1>5. ASSUME NEW d \in Cells, NEW s \in Cells, Move(d, s) PROVE IInv'
    <2>1. /\ s \in live /\ d # s /\ Room(1)
          /\ mem' = [mem EXCEPT ![d] = mem[s], ![s] = 0]
          /\ live' = IF s \in Temps THEN live \cup {d} ELSE (live \cup {d}) \ {s}
          /\ gen' = GenMove(gen, d, s) /\ UNCHANGED ctrl /\ obs' = NothingSeen
        BY <1>5 DEF Move, MemMove, Straight
    <2>2. ValueOf(gen, s) = mem[s] /\ mem[s] \in Byte /\ 0 \in Byte
        BY <2>1, LiveValue, IRAssumption DEF Byte
    <2>3. /\ Good(gen') /\ ValueOf(gen', d) = mem[s]
          /\ s \in Temps => ValueOf(gen', s) = 0
          /\ \A x \in Cells \ {d, s} : ValueOf(gen', x) = ValueOf(gen, x)
        BY <2>1, <2>2, GenMoveWrites DEF IInv
    <2>4. /\ MemTypeOK' /\ mem'[d] = mem[s] /\ mem'[s] = 0
          /\ \A x \in Cells \ {d, s} : mem'[x] = mem[x]
        BY <2>1, <2>2 DEF IInv, MemTypeOK
    <2>5. ASSUME NEW c \in live' PROVE ValueOf(gen', c) = mem'[c]
        <3>1. CASE c \in {d, s}
            BY <2>1, <2>3, <2>4, <2>5, <3>1
        <3>2. CASE c \notin {d, s}
            <4>1. c \in live
                BY <2>1, <2>5, <3>2
            <4> QED
                BY <2>3, <2>4, <3>2, <4>1, LiveValue
        <3> QED
            BY <3>1, <3>2
    <2> QED
        BY <2>1, <2>3, <2>4, <2>5, CoherentMeans, StraightKeepsCtrl, NothingSeenOK
        DEF IInv, ObsOK, NothingSeen
<1>6. ASSUME NEW d \in Cells, NEW s \in Cells, Copy(d, s) PROVE IInv'
    <2>1. s \in live /\ Put(d, mem[s]) /\ gen' = GenCopy(gen, d, s) /\ Room(1) /\ Straight
        BY <1>6 DEF Copy, MemCopy
    <2>2. ValueOf(gen, s) = mem[s] /\ mem[s] \in Byte
        BY <2>1, LiveValue
    <2>3. Writes(gen, gen', d, mem[s])
        BY <2>1, <2>2, GenCopyWrites DEF IInv
    <2> QED
        BY <2>1, <2>2, <2>3, WritingStep, StraightKeepsCtrl DEF Straight
<1>7. ASSUME NEW d \in Cells, NEW s \in Cells, Not(d, s) PROVE IInv'
    <2>1. s \in live /\ Put(d, NotOf(mem[s])) /\ gen' = GenNot(gen, d, s) /\ Room(1) /\ Straight
        BY <1>7 DEF Not, MemNot
    <2>2. ValueOf(gen, s) = mem[s] /\ NotOf(mem[s]) \in Byte
        BY <2>1, LiveValue, IRAssumption DEF NotOf, Byte
    <2>3. Writes(gen, gen', d, NotOf(mem[s]))
        BY <2>1, <2>2, GenNotWrites DEF IInv
    <2> QED
        BY <2>1, <2>2, <2>3, WritingStep, StraightKeepsCtrl DEF Straight
<1>8. ASSUME NEW d \in Cells, NEW v \in Byte, Getc(d, v) PROVE IInv'
    <2> DEFINE r == AssignReg(gen, d, {})
    <2>1. gen' = SetCpu(MarkDirty(r.g, r.at), r.at, v) /\ Put(d, v) /\ Straight
        BY <1>8 DEF Getc, MemConst
    <2>2. /\ Good(r.g) /\ \A x \in Cells \ {d} : ValueOf(r.g, x) = ValueOf(gen, x)
          /\ Keeps(r.g, d, r.at)
        <3>1. Assigned(gen, d, {}, r)
            BY RoomFor, AssignFacts DEF IInv
        <3> QED
            BY <3>1 DEF Assigned
    <2> HIDE DEF r
    <2>3. Writes(r.g, gen', d, v)
        BY <2>1, <2>2, WriteMarked
    <2>4. Writes(gen, gen', d, v)
        BY <2>2, <2>3 DEF Writes
    <2> QED
        BY <2>1, <2>4, WritingStep, StraightKeepsCtrl DEF Straight
<1>9. ASSUME NEW c \in Cells, Putc(c) PROVE IInv'
    <2> DEFINE r == EnsureReg(gen, c, {})
    <2>1. /\ gen' = r.g /\ obs' = [machine |-> r.g.cpu[r.at], reference |-> mem[c]]
          /\ c \in live /\ UNCHANGED memVars /\ UNCHANGED ctrl
        BY <1>9 DEF Putc, MemRead
    <2>2. Good(r.g) /\ SameValues(gen, r.g) /\ Keeps(r.g, c, r.at)
        <3>1. Ensured(gen, c, {}, r)
            BY RoomFor, EnsureFacts DEF IInv
        <3> QED
            BY <3>1 DEF Ensured
    <2> HIDE DEF r
    <2>3. r.g.cpu[r.at] = mem[c] /\ mem[c] \in Byte
        BY <2>1, <2>2, KeepsValue, LiveValue DEF SameValues
    <2>4. ObsOK'
        BY <2>1, <2>3 DEF ObsOK
    <2> QED
        BY <2>1, <2>2, <2>4, ReadingStep, StraightKeepsCtrl
<1>10. ASSUME NEW c \in Cells, Free(c) PROVE IInv'
    <2>1. /\ mem' = [mem EXCEPT ![c] = 0] /\ live' = live \ {c}
          /\ gen' = IF c \in Slots THEN DropCell(gen, c) ELSE gen
          /\ UNCHANGED ctrl /\ obs' = NothingSeen
        BY <1>10 DEF Free, MemFree, Straight
    <2>2. Good(gen') /\ \A x \in Cells \ {c} : ValueOf(gen', x) = ValueOf(gen, x)
        BY <2>1, DropFacts DEF IInv
    <2>3. MemTypeOK' /\ \A x \in Cells \ {c} : mem'[x] = mem[x]
        BY <2>1, IRAssumption DEF IInv, MemTypeOK, Byte
    <2>4. \A x \in live' : ValueOf(gen', x) = mem'[x]
        BY <2>1, <2>2, <2>3, LiveValue
    <2> QED
        BY <2>1, <2>2, <2>3, <2>4, CoherentMeans, StraightKeepsCtrl, NothingSeenOK
        DEF IInv, ObsOK, NothingSeen
<1> QED
    BY <1>1, <1>2, <1>3, <1>4, <1>5, <1>6, <1>7, <1>8, <1>9, <1>10 DEF UnaryNode

\* The invariant is kept by binary nodes, comparisons and IRDivMod.
LEMMA OperatorNodeOK ==
    ASSUME IInv, OperatorNode
    PROVE  IInv'
<1>1. ASSUME NEW d \in Cells, NEW a \in Cells, NEW b \in Cells, NEW f \in BinaryFns,
             Binary(d, a, b, f)
      PROVE  IInv'
    <2>1. /\ a \in live /\ b \in live /\ Put(d, Result(f, mem[a], mem[b]))
          /\ gen' = GenBinary(gen, d, a, b, f) /\ Room(2) /\ Straight
        BY <1>1 DEF Binary, MemBinary
    <2>2. /\ ValueOf(gen, a) = mem[a] /\ ValueOf(gen, b) = mem[b]
          /\ Result(f, mem[a], mem[b]) \in Byte
        BY <2>1, LiveValue, BinaryFnsType
    <2>3. Writes(gen, gen', d, Result(f, mem[a], mem[b]))
        BY <2>1, <2>2, GenBinaryWrites DEF IInv
    <2> QED
        BY <2>1, <2>2, <2>3, WritingStep, StraightKeepsCtrl DEF Straight
<1>2. ASSUME NEW d \in Cells, NEW a \in Cells, NEW b \in Cells, NEW f \in BinaryFns,
             NEW c \in {a, b}, Cmp(d, a, b, f, c)
      PROVE  IInv'
    <2>1. /\ a \in live /\ b \in live /\ Put(d, Result(f, mem[a], mem[b]))
          /\ gen' = GenCmp(gen, d, a, b, f, c) /\ Room(2) /\ d # c /\ Straight
        BY <1>2 DEF Cmp, MemBinary
    <2>2. /\ ValueOf(gen, a) = mem[a] /\ ValueOf(gen, b) = mem[b]
          /\ Result(f, mem[a], mem[b]) \in Byte
        BY <2>1, LiveValue, BinaryFnsType
    <2>3. Writes(gen, gen', d, Result(f, mem[a], mem[b]))
        BY <2>1, <2>2, GenCmpWrites DEF IInv
    <2> QED
        BY <2>1, <2>2, <2>3, WritingStep, StraightKeepsCtrl DEF Straight
<1>3. ASSUME NEW q \in Cells, NEW r \in Cells, NEW a \in Cells, NEW b \in Cells,
             NEW f \in BinaryFns, NEW g \in BinaryFns, DivMod(q, r, a, b, f, g)
      PROVE  IInv'
    <2> DEFINE x == Result(f, mem[a], mem[b])
               y == Result(g, mem[a], mem[b])
    <2>1. /\ a \in live /\ b \in live /\ q # r
          /\ mem' = [mem EXCEPT ![q] = x, ![r] = y] /\ live' = live \cup {q, r}
          /\ gen' = GenDivMod(gen, q, r, a, b, f, g) /\ Room(3) /\ Straight
        BY <1>3 DEF DivMod, MemDivMod
    <2>2. /\ ValueOf(gen, a) = mem[a] /\ ValueOf(gen, b) = mem[b]
          /\ x \in Byte /\ y \in Byte
        BY <2>1, LiveValue, BinaryFnsType
    <2>3. /\ Good(gen') /\ ValueOf(gen', q) = x /\ ValueOf(gen', r) = y
          /\ \A c \in Cells \ {q, r} : ValueOf(gen', c) = ValueOf(gen, c)
        BY <2>1, <2>2, GenDivModWrites DEF IInv
    <2> HIDE DEF x, y
    <2>4. /\ MemTypeOK' /\ mem'[q] = x /\ mem'[r] = y
          /\ \A c \in Cells \ {q, r} : mem'[c] = mem[c]
        BY <2>1, <2>2 DEF IInv, MemTypeOK
    <2>5. ASSUME NEW c \in live' PROVE ValueOf(gen', c) = mem'[c]
        <3>1. CASE c \in {q, r}
            BY <2>3, <2>4, <3>1
        <3>2. CASE c \notin {q, r}
            <4>1. c \in live
                BY <2>1, <2>5, <3>2
            <4> QED
                BY <2>3, <2>4, <3>2, <4>1, LiveValue
        <3> QED
            BY <3>1, <3>2
    <2> QED
        BY <2>1, <2>3, <2>4, <2>5, CoherentMeans, StraightKeepsCtrl, NothingSeenOK
        DEF IInv, ObsOK, NothingSeen, Straight
<1> QED
    BY <1>1, <1>2, <1>3 DEF OperatorNode

\* The invariant is kept by IRDynLoad and IRDynStore.
LEMMA ArrayNodeOK ==
    ASSUME IInv, ~LargeBases, ArrayNode
    PROVE  IInv'
<1>1. ASSUME NEW x \in live, x \in Int PROVE x \in Slots
    BY <1>1, LiveValue, IRAssumption DEF Cells
<1>2. ASSUME NEW d \in Cells, NEW i \in Cells, NEW base \in Slots, DynLoad(d, base, i)
      PROVE  IInv'
    <2>1. /\ d \in Slots /\ i \in live /\ base + mem[i] \in live
          /\ Put(d, mem[base + mem[i]])
          /\ gen' = GenDynLoad(gen, d, base, i) /\ Straight
        BY <1>2 DEF DynLoad, MemDynLoad
    <2>2. ValueOf(gen, i) = mem[i] /\ mem[i] \in Byte
        BY <2>1, LiveValue
    <2>3. base + mem[i] \in Slots
        <3>1. base + mem[i] \in Int
            BY <2>2, IRAssumption DEF Byte
        <3> QED
            BY <1>1, <2>1, <3>1
    <2>4. ValueOf(gen, base + mem[i]) = mem[base + mem[i]] /\ mem[base + mem[i]] \in Byte
        BY <2>1, LiveValue
    <2>5. Writes(gen, gen', d, mem[base + mem[i]])
        BY <2>1, <2>2, <2>3, <2>4, GenDynLoadWrites DEF IInv
    <2> QED
        BY <2>1, <2>4, <2>5, WritingStep, StraightKeepsCtrl DEF Straight
<1>3. ASSUME NEW i \in Cells, NEW s \in Cells, NEW base \in Slots, DynStore(base, i, s)
      PROVE  IInv'
    <2>1. /\ i \in live /\ s \in live /\ base + mem[i] \in Slots
          /\ Put(base + mem[i], mem[s])
          /\ gen' = GenDynStore(gen, base, i, s) /\ Room(1) /\ Straight
        BY <1>3 DEF DynStore, MemDynStore
    <2>2. ValueOf(gen, i) = mem[i] /\ ValueOf(gen, s) = mem[s] /\ mem[s] \in Byte
        BY <2>1, LiveValue
    <2>3. Writes(gen, gen', base + mem[i], mem[s])
        BY <2>1, <2>2, GenDynStoreWrites DEF IInv
    <2>4. base + mem[i] \in Cells
        BY <2>1 DEF Cells
    <2> QED
        BY <2>1, <2>2, <2>3, <2>4, WritingStep, StraightKeepsCtrl DEF Straight
<1> QED
    BY <1>2, <1>3 DEF ArrayNode

\* The invariant is kept by the frame and dispatch nodes.
LEMMA FrameNodeOK ==
    ASSUME IInv, FrameNode
    PROVE  IInv'
<1>1. CASE FrameOp
    <2>1. Good(gen') /\ SameValues(gen, gen')
        BY <1>1, FlushAndInvalidateFacts DEF IInv, FrameOp
    <2>2. ObsOK'
        BY <1>1, NothingSeenOK DEF FrameOp, Straight, ObsOK, NothingSeen
    <2> QED
        BY <1>1, <2>1, <2>2, ReadingStep, StraightKeepsCtrl DEF FrameOp, Straight
<1>2. ASSUME NEW size \in Slots, FrameOpDyn(size) PROVE IInv'
    <2> DEFINE r == EnsureReg(gen, size, {})
               e == FlushAndInvalidate(r.g)
    <2>1. /\ gen' = SetCpu(e, r.at, 0)
          /\ obs' = [machine |-> r.g.cpu[r.at], reference |-> mem[size]]
          /\ size \in live /\ UNCHANGED memVars /\ UNCHANGED ctrl
        BY <1>2 DEF FrameOpDyn, MemRead
    <2>2. Good(r.g) /\ SameValues(gen, r.g) /\ Keeps(r.g, size, r.at)
        <3>1. Ensured(gen, size, {}, r)
            BY RoomFor, EnsureFacts DEF IInv, Cells
        <3> QED
            BY <3>1 DEF Ensured
    <2> HIDE DEF r
    <2>3. Good(e) /\ SameValues(r.g, e) /\ Empty(e)
        BY <2>2, FlushAndInvalidateFacts
    <2> HIDE DEF e
    <2>4. r.at \in Regs /\ 0 \in Byte
        BY <2>2, IRAssumption DEF Keeps, Byte
    <2>5. e.regs[r.at].slot = NoSlot
        BY <2>3, <2>4 DEF Empty, FreeEntry
    <2>6. Good(gen') /\ SameValues(e, gen')
        BY <2>1, <2>3, <2>4, <2>5, WriteFree
    <2>7. SameValues(gen, gen')
        BY <2>2, <2>3, <2>6 DEF SameValues
    <2>8. r.g.cpu[r.at] = mem[size] /\ mem[size] \in Byte
        BY <2>1, <2>2, KeepsValue, LiveValue DEF SameValues
    <2>9. ObsOK'
        BY <2>1, <2>8 DEF ObsOK
    <2> QED
        BY <2>1, <2>6, <2>7, <2>9, ReadingStep, StraightKeepsCtrl
<1>3. ASSUME NEW d \in Temps, NEW v \in Byte, LoadFrame(d, v) PROVE IInv'
    <2>1. /\ Put(d, v) /\ gen' = SetCpu(gen, d, v) /\ Straight
        BY <1>3 DEF LoadFrame, MemConst
    <2>2. d \in Cells /\ Keeps(gen, d, d) /\ d \notin Regs
        BY PlacesApart DEF Cells, Keeps
    <2>3. Writes(gen, gen', d, v)
        BY <2>1, <2>2, WriteKept DEF IInv, Writes
    <2> QED
        BY <2>1, <2>2, <2>3, WritingStep, StraightKeepsCtrl DEF Straight
<1> QED
    BY <1>1, <1>2, <1>3 DEF FrameNode

-----------------------------------------------------------------------------
(* Control flow. *)

\* Opening a body within the nesting bound keeps the control stack well formed.
LEMMA OpenKeepsCtrl ==
    ASSUME IInv, Len(ctrl) < MaxNest, NEW body \in SoundBodies, ctrl' = <<body>> \o ctrl
    PROVE  CtrlOK'
<1>1. ctrl \in Seq(SoundBodies) /\ <<body>> \in Seq(SoundBodies) /\ Len(<<body>>) = 1
    BY DEF IInv, CtrlOK
<1>2. ctrl' \in Seq(SoundBodies) /\ Len(ctrl') = 1 + Len(ctrl)
    BY <1>1, ConcatProperties
<1>3. Len(ctrl) \in Nat
    BY <1>1
<1> QED
    BY <1>2, <1>3, RegAssumption DEF CtrlOK

\* Closing the innermost body keeps the control stack well formed.
LEMMA CloseKeepsCtrl ==
    ASSUME IInv, ctrl # <<>>
    PROVE  /\ Head(ctrl) \in SoundBodies
           /\ ctrl' = Tail(ctrl) => CtrlOK'
<1>1. ctrl \in Seq(SoundBodies) /\ Len(ctrl) <= MaxNest
    BY DEF IInv, CtrlOK
<1>2. /\ Head(ctrl) \in SoundBodies /\ Tail(ctrl) \in Seq(SoundBodies)
      /\ Len(Tail(ctrl)) = Len(ctrl) - 1
    BY <1>1, HeadTailProperties
<1>3. Len(ctrl) \in Nat
    BY <1>1
<1> QED
    BY <1>1, <1>2, <1>3, RegAssumption DEF CtrlOK

\* What If and Loop do to the cache before the branch is taken.
LEMMA TestFacts ==
    ASSUME IInv, NEW c \in live, NEW r, r = EnsureReg(gen, c, {}), NEW g,
           g = FlushAndInvalidate(r.g) \/ g = Flush(r.g)
    PROVE  /\ Good(g) /\ SameValues(gen, g) /\ AllClean(g)
           /\ r.at \in Places /\ (IF c \in Temps THEN r.at = c ELSE r.at \in Regs)
           /\ At(g, r.at) = mem[c] /\ mem[c] \in Byte
<1>1. c \in Cells /\ ValueOf(gen, c) = mem[c] /\ mem[c] \in Byte
    BY LiveValue
<1>2. /\ Good(r.g) /\ SameValues(gen, r.g)
      /\ r.at \in Places /\ Keeps(r.g, c, r.at)
    <2>1. Ensured(gen, c, {}, r)
        BY <1>1, RoomFor, EnsureFacts DEF IInv
    <2> QED
        BY <2>1 DEF Ensured
<1>3. Good(g) /\ SameValues(r.g, g) /\ AllClean(g) /\ g.cpu = r.g.cpu
    BY <1>2, FlushFacts, FlushAndInvalidateFacts
<1>4. r.g.cpu[r.at] = ValueOf(r.g, c)
    BY <1>1, <1>2, KeepsValue
<1>5. At(g, r.at) = mem[c]
    BY <1>1, <1>2, <1>3, <1>4 DEF At, SameValues
<1>6. SameValues(gen, g)
    BY <1>2, <1>3 DEF SameValues
<1>7. IF c \in Temps THEN r.at = c ELSE r.at \in Regs
    BY <1>2 DEF Keeps
<1> QED
    BY <1>1, <1>2, <1>3, <1>5, <1>6, <1>7

\* Code the path leaves out changes no cell: the cache was clean when it was walked.
LEMMA ElsewhereFacts ==
    ASSUME NEW g, Good(g), AllClean(g), NEW h \in Elsewhere(g)
    PROVE  Good(h) /\ SameValues(g, h) /\ Empty(h) /\ h.cpu = g.cpu
<1>1. PICK n \in Regs : h = [Invalidate(g) EXCEPT !.next = n]
    BY DEF Elsewhere
<1> QED
    BY <1>1, InvalidateFacts

\* The invariant is kept by the test of an IRIf, on each of its branches.
LEMMA IfOK ==
    ASSUME IInv, NEW c \in Cells, NEW dyn \in BOOLEAN, NEW hasElse \in BOOLEAN,
           If(c, dyn, hasElse)
    PROVE  IInv'
<1> DEFINE r == EnsureReg(gen, c, {})
           g == FlushForIf(r.g, dyn)
<1>1. /\ c \in live /\ UNCHANGED memVars
      /\ obs' = [machine |-> At(g, r.at), reference |-> mem[c]]
      /\ \/ /\ Len(ctrl) < MaxNest /\ gen' = g
            /\ IF hasElse THEN Open("thenElse", c, NoPlace, dyn)
                          ELSE Open("then", c, r.at, dyn)
         \/ /\ Len(ctrl) < MaxNest /\ gen' \in Elsewhere(g)
            /\ Open("else", c, NoPlace, dyn)
         \/ gen' \in Elsewhere(g) /\ UNCHANGED ctrl
    BY DEF If, MemRead, Tested, At
<1>2. r = EnsureReg(gen, c, {}) /\ (g = FlushAndInvalidate(r.g) \/ g = Flush(r.g))
    BY DEF FlushForIf
<1> HIDE DEF r, g
<1>3. /\ Good(g) /\ SameValues(gen, g) /\ AllClean(g)
      /\ r.at \in Places /\ (IF c \in Temps THEN r.at = c ELSE r.at \in Regs)
      /\ At(g, r.at) = mem[c] /\ mem[c] \in Byte
    BY <1>1, <1>2, TestFacts
<1>4. ObsOK'
    BY <1>1, <1>3 DEF ObsOK
<1>5. Good(gen') /\ SameValues(gen, gen')
    <2>1. ASSUME gen' \in Elsewhere(g) PROVE Good(gen') /\ SameValues(gen, gen')
        BY <1>3, <2>1, ElsewhereFacts DEF SameValues
    <2> QED
        BY <1>1, <1>3, <2>1
<1>6. CtrlOK'
    <2>1. ASSUME Len(ctrl) < MaxNest,
                 NEW kind \in {"thenElse", "else"}, Open(kind, c, NoPlace, dyn)
          PROVE  CtrlOK'
        <3>1. [kind |-> kind, cond |-> c, at |-> NoPlace, dyn |-> dyn] \in SoundBodies
            BY DEF SoundBodies, Bodies
        <3> QED
            BY <2>1, <3>1, OpenKeepsCtrl DEF Open
    <2>2. ASSUME Len(ctrl) < MaxNest, Open("then", c, r.at, dyn) PROVE CtrlOK'
        <3>1. [kind |-> "then", cond |-> c, at |-> r.at, dyn |-> dyn] \in SoundBodies
            BY <1>3 DEF SoundBodies, Bodies
        <3> QED
            BY <2>2, <3>1, OpenKeepsCtrl DEF Open
    <2> QED
        BY <1>1, <2>1, <2>2, StraightKeepsCtrl
<1> QED
    BY <1>1, <1>4, <1>5, <1>6, ReadingStep

\* The invariant is kept by the entry test of an IRLoop.
LEMMA LoopOK ==
    ASSUME IInv, NEW c \in Cells, Loop(c)
    PROVE  IInv'
<1> DEFINE r == EnsureReg(gen, c, {})
           g == FlushAndInvalidate(r.g)
<1>1. /\ c \in live /\ UNCHANGED memVars
      /\ obs' = [machine |-> At(g, r.at), reference |-> mem[c]]
      /\ \/ Len(ctrl) < MaxNest /\ gen' = g /\ Open("loop", c, r.at, TRUE)
         \/ gen' \in Elsewhere(g) /\ UNCHANGED ctrl
    BY DEF Loop, MemRead, Tested, At
<1>2. r = EnsureReg(gen, c, {}) /\ g = FlushAndInvalidate(r.g)
    OBVIOUS
<1> HIDE DEF r, g
<1>3. /\ Good(g) /\ SameValues(gen, g) /\ AllClean(g)
      /\ r.at \in Places /\ (IF c \in Temps THEN r.at = c ELSE r.at \in Regs)
      /\ At(g, r.at) = mem[c] /\ mem[c] \in Byte
    BY <1>1, <1>2, TestFacts
<1>4. ObsOK'
    BY <1>1, <1>3 DEF ObsOK
<1>5. Good(gen') /\ SameValues(gen, gen')
    <2>1. ASSUME gen' \in Elsewhere(g) PROVE Good(gen') /\ SameValues(gen, gen')
        BY <1>3, <2>1, ElsewhereFacts DEF SameValues
    <2> QED
        BY <1>1, <1>3, <2>1
<1>6. CtrlOK'
    <2>1. ASSUME Len(ctrl) < MaxNest, Open("loop", c, r.at, TRUE) PROVE CtrlOK'
        <3>1. [kind |-> "loop", cond |-> c, at |-> r.at, dyn |-> TRUE] \in SoundBodies
            BY <1>3 DEF SoundBodies, Bodies
        <3> QED
            BY <2>1, <3>1, OpenKeepsCtrl DEF Open
    <2> QED
        BY <1>1, <2>1, StraightKeepsCtrl
<1> QED
    BY <1>1, <1>4, <1>5, <1>6, ReadingStep

\* The invariant is kept at the end of the three kinds of If body.
LEMMA EndIfOK ==
    ASSUME IInv, EndThen \/ EndThenElse \/ EndElse
    PROVE  IInv'
<1>1. ObsOK'
    BY NothingSeenOK DEF EndThen, EndThenElse, EndElse, ObsOK, NothingSeen
<1>2. CtrlOK'
    BY CloseKeepsCtrl DEF EndThen, EndThenElse, EndElse
<1>3. CASE EndThenElse
    <2>1. /\ Good(Flush(gen)) /\ SameValues(gen, Flush(gen)) /\ AllClean(Flush(gen))
        BY FlushFacts DEF IInv
    <2>2. Good(gen') /\ SameValues(Flush(gen), gen')
        BY <1>3, <2>1, ElsewhereFacts DEF EndThenElse
    <2>3. SameValues(gen, gen')
        BY <2>1, <2>2 DEF SameValues
    <2> QED
        BY <1>1, <1>2, <1>3, <2>2, <2>3, ReadingStep DEF EndThenElse
<1>4. CASE EndElse
    <2>1. Good(gen') /\ SameValues(gen, gen')
        BY <1>4, FlushAndInvalidateFacts DEF IInv, EndElse
    <2> QED
        BY <1>1, <1>2, <1>4, <2>1, ReadingStep DEF EndElse
<1>5. CASE EndThen
    <2> DEFINE body == Head(ctrl)
               e == FlushAndInvalidate(gen)
    <2>1. /\ body.kind = "then" /\ gen' = SetCpu(e, body.at, 0)
          /\ IF body.cond \in Temps THEN Put(body.cond, 0) ELSE UNCHANGED memVars
          /\ obs' = NothingSeen
        BY <1>5 DEF EndThen, MemConst
    <2>2. body \in SoundBodies
        BY <1>5, CloseKeepsCtrl DEF EndThen
    <2> HIDE DEF body
    <2>3. /\ body.cond \in Cells
          /\ IF body.cond \in Temps THEN body.at = body.cond ELSE body.at \in Regs
        BY <2>1, <2>2 DEF SoundBodies, Bodies
    <2>4. Good(e) /\ SameValues(gen, e) /\ Empty(e)
        BY FlushAndInvalidateFacts DEF IInv
    <2> HIDE DEF e
    <2>5. 0 \in Byte
        BY IRAssumption DEF Byte
    <2>6. CASE body.cond \in Temps
        <3>1. Keeps(e, body.cond, body.at) /\ body.at \notin Regs
            BY <2>3, <2>6, PlacesApart DEF Keeps
        <3>2. Writes(e, gen', body.cond, 0)
            BY <2>1, <2>3, <2>4, <2>5, <3>1, WriteKept DEF Writes
        <3>3. Writes(gen, gen', body.cond, 0)
            BY <2>4, <3>2 DEF Writes, SameValues
        <3> QED
            BY <1>2, <2>1, <2>3, <2>5, <2>6, <3>3, WritingStep
    <2>7. CASE body.cond \notin Temps
        <3>1. body.at \in Regs /\ e.regs[body.at].slot = NoSlot
            BY <2>3, <2>4, <2>7 DEF Empty, FreeEntry
        <3>2. Good(gen') /\ SameValues(e, gen')
            BY <2>1, <2>4, <2>5, <3>1, WriteFree
        <3>3. SameValues(gen, gen')
            BY <2>4, <3>2 DEF SameValues
        <3> QED
            BY <1>1, <1>2, <2>1, <2>7, <3>2, <3>3, ReadingStep
    <2> QED
        BY <2>6, <2>7
<1> QED
    BY <1>3, <1>4, <1>5

\* The invariant is kept by the back edge of a loop: the reload restores the
\* condition register for the next test.
LEMMA EndLoopOK ==
    ASSUME IInv, EndLoop
    PROVE  IInv'
<1> DEFINE body == Head(ctrl)
           e == FlushAndInvalidate(gen)
           g == Reload(e, body)
<1>1. /\ ctrl # <<>> /\ body.kind = "loop"
      /\ body.cond \in live /\ UNCHANGED memVars
      /\ obs' = [machine |-> At(g, body.at), reference |-> mem[body.cond]]
      /\ \/ gen' = g /\ ctrl' = Tail(ctrl)
         \/ gen' \in Elsewhere(g) /\ UNCHANGED ctrl
    BY DEF EndLoop, MemRead, Tested, At
<1>2. body \in SoundBodies
    BY <1>1, CloseKeepsCtrl
<1>3. CtrlOK'
    BY <1>1, CloseKeepsCtrl, StraightKeepsCtrl
<1> HIDE DEF body
<1>4. /\ body.cond \in Cells
      /\ IF body.cond \in Temps THEN body.at = body.cond ELSE body.at \in Regs
    BY <1>1, <1>2 DEF SoundBodies, Bodies
<1>5. ValueOf(gen, body.cond) = mem[body.cond] /\ mem[body.cond] \in Byte
    BY <1>1, LiveValue
<1>6. Good(e) /\ SameValues(gen, e) /\ Empty(e) /\ AllClean(e)
    BY FlushAndInvalidateFacts DEF IInv
<1> HIDE DEF e
<1>7. Good(g) /\ SameValues(e, g) /\ AllClean(g) /\ At(g, body.at) = mem[body.cond]
    <2>1. CASE body.cond \notin Slots
        <3>1. g = e /\ Keeps(e, body.cond, body.at)
            BY <1>4, <2>1 DEF Reload, Cells, Keeps
        <3>2. ValueOf(e, body.cond) = e.cpu[body.at]
            BY <1>4, <1>6, <3>1, KeepsValue
        <3> QED
            BY <1>4, <1>5, <1>6, <3>1, <3>2 DEF SameValues, At
    <2>2. CASE body.cond \in Slots
        <3>1. e.stack[body.cond] = mem[body.cond]
            BY <1>4, <1>5, <1>6, <2>2, StackOfClean DEF SameValues
        <3>2. g = SetCpu(e, body.at, mem[body.cond])
            BY <2>2, <3>1 DEF Reload, LoadFromStack, SetCpu
        <3>3. body.at \in Regs /\ e.regs[body.at].slot = NoSlot
            <4>1. \A s \in Slots : s \in Int
                BY IRAssumption
            <4>a. \A s \in Slots : s \notin Temps
                BY <4>1, IRAssumption
            <4>2. body.at \in Regs
                BY <1>4, <2>2, <4>a
            <4> QED
                BY <1>6, <4>2 DEF Empty, FreeEntry
        <3>4. Good(g) /\ SameValues(e, g) /\ g.regs = e.regs
            BY <1>5, <1>6, <3>2, <3>3, WriteFree
        <3>5. e.cpu \in [Places -> Byte] /\ body.at \in Places
            BY <1>6, <3>3, GensShape DEF Good, Places
        <3>6. g.cpu = [e.cpu EXCEPT ![body.at] = mem[body.cond]]
            BY <1>6, <3>2 DEF SetCpu, Good, Gens
        <3> QED
            BY <1>6, <3>4, <3>5, <3>6 DEF AllClean, At
    <2> QED
        BY <2>1, <2>2
<1> HIDE DEF g
<1>8. ObsOK'
    BY <1>1, <1>5, <1>7 DEF ObsOK
<1>9. SameValues(gen, g)
    BY <1>6, <1>7 DEF SameValues
<1>10. Good(gen') /\ SameValues(gen, gen')
    <2>1. ASSUME gen' \in Elsewhere(g) PROVE Good(gen') /\ SameValues(gen, gen')
        BY <1>7, <1>9, <2>1, ElsewhereFacts DEF SameValues
    <2> QED
        BY <1>1, <1>7, <1>9, <2>1
<1> QED
    BY <1>1, <1>3, <1>8, <1>10, ReadingStep

\* The invariant is kept by every control-flow step.
LEMMA ControlNodeOK ==
    ASSUME IInv, ControlNode
    PROVE  IInv'
BY IfOK, LoopOK, EndIfOK, EndLoopOK DEF ControlNode

-----------------------------------------------------------------------------
(* The theorems. *)

\* The invariant is kept by a step that changes nothing.
LEMMA StutterOK ==
    ASSUME IInv, UNCHANGED vars
    PROVE  IInv'
<1>1. Good(gen') /\ SameValues(gen, gen') /\ UNCHANGED memVars /\ ObsOK'
    BY DEF vars, IInv, SameValues, memVars, ObsOK
<1> QED
    BY <1>1, ReadingStep, StraightKeepsCtrl DEF vars

\* The register cache keeps the inductive invariant, for every number of
\* registers, slots, phase temps and nesting, every byte width and every set of
\* binary functions, as long as array bases are small and no program reads the
\* source of a move.
THEOREM Invariance ==
    ASSUME ~LargeBases, ~ReadAfterMove
    PROVE  Spec => []IInv
<1>1. Init => IInv
    BY InitOK
<1>2. IInv /\ [Next]_vars => IInv'
    BY UnaryNodeOK, OperatorNodeOK, ArrayNodeOK, FrameNodeOK, ControlNodeOK, StutterOK DEF Next
<1> QED
    BY <1>1, <1>2, PTL DEF Spec

\* Type correctness: the registers, the tape, the open bodies and the cells keep
\* the shapes TypeOK gives them (regCache and Generator in src/codegen.go).
THEOREM TypeCorrect ==
    ASSUME ~LargeBases, ~ReadAfterMove
    PROVE  Spec => []TypeOK
<1>1. IInv => TypeOK
    BY DEF IInv, Good, CtrlOK, ObsOK, TypeOK, SoundBodies
<1> QED
    BY <1>1, Invariance, PTL

\* No slot is ever in two registers (ensure and assign of regCache).
THEOREM NoAliasAlways ==
    ASSUME ~LargeBases, ~ReadAfterMove
    PROVE  Spec => []NoAlias
<1>1. IInv => NoAlias
    BY DEF IInv, Good, Unaliased, NoAlias
<1> QED
    BY <1>1, Invariance, PTL

\* A clean register may be forgotten: its slot has the value (evict, invalidate).
THEOREM CleanMatchesStackAlways ==
    ASSUME ~LargeBases, ~ReadAfterMove
    PROVE  Spec => []CleanMatchesStack
<1>1. IInv => CleanMatchesStack
    BY DEF IInv, Good, CleanIn, CleanMatchesStack
<1> QED
    BY <1>1, Invariance, PTL

\* The cache is coherent with the program's memory after every node, on every
\* path through Ifs and Loops.
THEOREM CoherentAlways ==
    ASSUME ~LargeBases, ~ReadAfterMove
    PROVE  Spec => []Coherent
<1>1. IInv => Coherent
    BY DEF IInv
<1> QED
    BY <1>1, Invariance, PTL

\* What is printed, stored to a frame or branched on is what the IR says.
THEOREM ObservationsAgreeAlways ==
    ASSUME ~LargeBases, ~ReadAfterMove
    PROVE  Spec => []ObservationsAgree
<1>1. IInv => ObservationsAgree
    BY DEF IInv, ObsOK, ObservationsAgree
<1> QED
    BY <1>1, Invariance, PTL

-----------------------------------------------------------------------------
(* Refinement: the generated code implements the IR. *)

\* Cells the program may not read count as 0 in the abstract memory.
DeadIsZero == \A c \in Cells \ live : mem[c] = 0

\* Every node of the generator is one node of the IR, or none.
LEMMA StepIsIRStep ==
    ASSUME IInv, Next
    PROVE  MemNext \/ UNCHANGED memVars
<1>1. CASE UnaryNode
    <2>1. 0 \in Byte
        BY IRAssumption DEF Byte
    <2> QED
        BY <1>1, <2>1, RegAssumption
        DEF UnaryNode, Zero, Const, AddI, SubI, Move, Copy, Not, Getc, Putc, Free, MemRead, MemNext
<1>2. CASE OperatorNode
    BY <1>2 DEF OperatorNode, Binary, Cmp, DivMod, MemNext
<1>3. CASE ArrayNode
    BY <1>3 DEF ArrayNode, DynLoad, DynStore, MemNext
<1>4. CASE FrameNode
    BY <1>4 DEF FrameNode, FrameOp, FrameOpDyn, LoadFrame, MemRead, MemNext, Cells
<1>5. CASE ControlNode
    <2>1. ASSUME EndThen PROVE MemNext \/ UNCHANGED memVars
        <3>1. Head(ctrl).cond \in Cells /\ 0 \in Byte
            BY <2>1, CloseKeepsCtrl, IRAssumption DEF EndThen, SoundBodies, Bodies, Byte
        <3> QED
            BY <2>1, <3>1 DEF EndThen, MemNext
    <2> QED
        BY <1>5, <2>1 DEF ControlNode, Loop, If, EndThenElse, EndElse, EndLoop, MemRead
<1> QED
    BY <1>1, <1>2, <1>3, <1>4, <1>5 DEF Next

\* A cell the program may not read is 0 in the IR's memory at every step.
LEMMA DeadStaysZero ==
    ASSUME IInv, DeadIsZero, MemNext \/ UNCHANGED memVars
    PROVE  DeadIsZero'
<1>1. mem \in [Cells -> Byte]
    BY DEF IInv, MemTypeOK
<1>2. ASSUME UNCHANGED memVars PROVE DeadIsZero'
    BY <1>2 DEF DeadIsZero, memVars
<1>3. ASSUME NEW d, NEW v, Put(d, v) PROVE DeadIsZero'
    BY <1>1, <1>3 DEF DeadIsZero, Put
<1>4. ASSUME NEW d \in Cells, NEW s \in Cells, NEW kept \in BOOLEAN, MemMove(d, s, kept)
      PROVE  DeadIsZero'
    BY <1>1, <1>4 DEF DeadIsZero, MemMove
<1>5. ASSUME NEW q \in Cells, NEW r \in Cells, NEW a, NEW b, NEW f, NEW g,
             MemDivMod(q, r, a, b, f, g)
      PROVE  DeadIsZero'
    BY <1>1, <1>5 DEF DeadIsZero, MemDivMod
<1>6. ASSUME NEW c \in Cells, MemFree(c) PROVE DeadIsZero'
    BY <1>1, <1>6 DEF DeadIsZero, MemFree
<1> QED
    BY <1>2, <1>3, <1>4, <1>5, <1>6
    DEF MemNext, MemConst, MemAddI, MemSubI, MemCopy, MemNot, MemBinary, MemDynLoad, MemDynStore

\* The memory of the refinement mapping.
Mapped == [c \in Cells |-> IF c \in live THEN Contents(c) ELSE 0]

\* The refinement mapping gives the abstract memory exactly.
LEMMA MappedIsMem ==
    ASSUME IInv, DeadIsZero
    PROVE  Mapped = mem
<1>1. mem \in [Cells -> Byte] /\ live \subseteq Cells
    BY DEF IInv, MemTypeOK
<1>2. \A c \in Cells : (IF c \in live THEN Contents(c) ELSE 0) = mem[c]
    BY DEF IInv, DeadIsZero, Coherent
<1> QED
    BY <1>1, <1>2 DEF Mapped

\* Initial states map to initial states of the IR machine.
LEMMA MappedInit ==
    ASSUME Init
    PROVE  IR!MemInit
<1>1. IInv /\ DeadIsZero
    BY InitOK DEF DeadIsZero, Init, MemInit
<1>2. Mapped = mem
    BY <1>1, MappedIsMem
<1> QED
    BY <1>2 DEF Init, MemInit, IR!MemInit, Mapped, Cells, IR!Cells

\* Every step maps to a step of the IR machine or to a stutter.
LEMMA MappedStep ==
    ASSUME IInv, DeadIsZero, IInv', DeadIsZero', MemNext \/ UNCHANGED memVars
    PROVE  IR!MemNext \/ UNCHANGED IR!memVars
<1>1. Mapped = mem
    BY MappedIsMem
<1>2. Mapped' = mem'
    <2>1. \A c \in Cells : (IF c \in live' THEN Contents(c)' ELSE 0) = mem'[c]
        BY DEF IInv, DeadIsZero, Coherent
    <2>2. mem' \in [Cells -> Byte]
        BY DEF IInv, MemTypeOK
    <2> QED
        BY <2>1, <2>2 DEF Mapped
<1>3. ASSUME NEW d, NEW v
      PROVE  /\ MemConst(d, v) => IR!MemConst(d, v)
             /\ MemAddI(d, v) => IR!MemAddI(d, v)
             /\ MemSubI(d, v) => IR!MemSubI(d, v)
    BY <1>1, <1>2 DEF Put, IR!Put, MemConst, IR!MemConst, MemAddI, IR!MemAddI, MemSubI, IR!MemSubI, Mapped
<1>4. ASSUME NEW d, NEW s
      PROVE  /\ MemCopy(d, s) => IR!MemCopy(d, s)
             /\ MemNot(d, s) => IR!MemNot(d, s)
    BY <1>1, <1>2 DEF Put, IR!Put, MemCopy, IR!MemCopy, MemNot, IR!MemNot, NotOf, IR!NotOf, Mapped
<1>5. ASSUME NEW d, NEW s, NEW kept
      PROVE  MemMove(d, s, kept) => IR!MemMove(d, s, kept)
    BY <1>1, <1>2 DEF MemMove, IR!MemMove, Mapped
<1>6. ASSUME NEW d, NEW a, NEW b, NEW f
      PROVE  MemBinary(d, a, b, f) => IR!MemBinary(d, a, b, f)
    BY <1>1, <1>2 DEF Put, IR!Put, MemBinary, IR!MemBinary, Result, IR!Result, Mapped
<1>7. ASSUME NEW q, NEW r, NEW a, NEW b, NEW f, NEW g
      PROVE  MemDivMod(q, r, a, b, f, g) => IR!MemDivMod(q, r, a, b, f, g)
    BY <1>1, <1>2 DEF MemDivMod, IR!MemDivMod, Result, IR!Result, Mapped
<1>8. ASSUME NEW d, NEW base, NEW i
      PROVE  MemDynLoad(d, base, i) => IR!MemDynLoad(d, base, i)
    BY <1>1, <1>2 DEF Put, IR!Put, MemDynLoad, IR!MemDynLoad, Mapped
<1>9. ASSUME NEW base, NEW i, NEW s
       PROVE  MemDynStore(base, i, s) => IR!MemDynStore(base, i, s)
    BY <1>1, <1>2 DEF Put, IR!Put, MemDynStore, IR!MemDynStore, Mapped
<1>10. ASSUME NEW c PROVE MemFree(c) => IR!MemFree(c)
    BY <1>1, <1>2 DEF MemFree, IR!MemFree, Mapped
<1>11. UNCHANGED memVars => UNCHANGED IR!memVars
    BY <1>1, <1>2 DEF memVars, IR!memVars, Mapped
<1>12. IR!Cells = Cells /\ IR!Byte = Byte
    BY DEF IR!Cells, Cells, IR!Byte, Byte
<1> QED
    BY <1>3, <1>4, <1>5, <1>6, <1>7, <1>8, <1>9, <1>10, <1>11, <1>12 DEF MemNext, IR!MemNext

\* The generated code implements the IR's memory: every step of the tape, seen
\* through the register cache, is one IR node or changes nothing.
THEOREM Refinement ==
    ASSUME ~LargeBases, ~ReadAfterMove
    PROVE  Spec => ImplementsIR
<1>1. Init => IInv /\ DeadIsZero /\ IR!MemInit
    BY InitOK, MappedInit DEF DeadIsZero, Init, MemInit
<1>2. IInv /\ DeadIsZero /\ [Next]_vars => DeadIsZero'
    <2>1. UNCHANGED vars => UNCHANGED memVars
        BY DEF vars, memVars
    <2> QED
        BY <2>1, StepIsIRStep, DeadStaysZero
<1>3. /\ IInv /\ DeadIsZero /\ IInv' /\ DeadIsZero' /\ [Next]_vars
      => [IR!MemNext]_(IR!memVars)
    <2>1. UNCHANGED vars => UNCHANGED memVars
        BY DEF vars, memVars
    <2> QED
        BY <2>1, StepIsIRStep, MappedStep
<1> QED
    BY <1>1, <1>2, <1>3, Invariance, PTL DEF Spec, ImplementsIR, IR!MemSpec
=============================================================================
