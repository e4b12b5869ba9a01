----------------------------- MODULE RegCache -----------------------------
(***************************************************************************)
(* The register cache of the code generator (src/codegen.go: regCache and  *)
(* genNode) together with the run of the code it generates.                *)
(*                                                                         *)
(* The generator decides, while it walks the IR once, which register holds *)
(* which stack slot; the decision is baked into the Brainfuck text.  The   *)
(* text then runs along ONE path: an If body may be skipped, a Loop body   *)
(* repeated.  A state of this module is a point of such a path: the        *)
(* compile-time cache the generator had when it emitted the code that is   *)
(* about to run, and the registers and stack slots at run time.  On a path *)
(* that leaves out code the generator did walk, `next' is whatever that    *)
(* code left, so it is chosen freely.                                      *)
(*                                                                         *)
(* mem and live (IRMemory) run in lockstep: they are what the program      *)
(* means.  The values a program can observe must be the same in both.      *)
(***************************************************************************)
EXTENDS IRMemory, Sequences

CONSTANTS
    NumRegs,        \* 5 in the program
    regPos,         \* the tape position of each register: 1, 2, 4, 5, 7
    LargeBases,     \* TRUE: array bases from 20 up, where emitAdd needs a temp
    ReadAfterMove,  \* TRUE: a program may read the source of an IRMove again
    MaxNest         \* bound: the nesting of If and Loop bodies

Regs == 0 .. (NumRegs - 1)
Places == Regs \cup Temps       \* where an operand lives in the CPU area
NoSlot == -1
NoPlace == -1
FreeEntry == [slot |-> NoSlot, dirty |-> FALSE]

ASSUME RegAssumption ==
    /\ NumRegs \in Nat /\ NumRegs >= 2
    /\ regPos \in [Regs -> Nat]
    /\ {LargeBases, ReadAfterMove} \subseteq BOOLEAN
    /\ MaxNest \in Nat

VARIABLES
    gen,    \* regs, next: the generator's cache;  cpu, stack: the tape
    ctrl,   \* the open If and Loop bodies, innermost first
    obs     \* what the last node let the world see: generated code and IR

vars == <<gen, ctrl, obs, mem, live>>

Entries == [slot : Slots \cup {NoSlot}, dirty : BOOLEAN]
Gens == [regs : [Regs -> Entries], next : Regs,
         cpu : [Places -> Byte], stack : [Slots -> Byte]]
Bodies == [kind : {"then", "thenElse", "else", "loop"}, cond : Cells,
           at : Places \cup {NoPlace}, dyn : BOOLEAN]

NothingSeen == [machine |-> 0, reference |-> 0]

-----------------------------------------------------------------------------
(* regCache.  Every operator maps a generator state to the next one; one   *)
(* that also yields a register returns [g |-> state, at |-> place].        *)

Cached(g, s) == \E i \in Regs : g.regs[i].slot = s
Holder(g, s) == CHOOSE i \in Regs : g.regs[i].slot = s

\* Mutant: the value is not written back.
EvictLost(g, i) == [g EXCEPT !.regs[i] = FreeEntry]

Evict(g, i) ==
    [g EXCEPT !.stack = IF g.regs[i].dirty
                        THEN [@ EXCEPT ![g.regs[i].slot] = g.cpu[i]] ELSE @,
              !.regs[i] = FreeEntry]

\* A free register outside avoid, else the next one round robin, evicted.
AllocIdx(g, avoid) ==
    LET free == {i \in Regs \ avoid : g.regs[i].slot = NoSlot}
        turns == {k \in Regs : (g.next + k) % NumRegs \notin avoid}
        i == (g.next + Min(turns)) % NumRegs
    IN  IF free # {}
        THEN [g |-> g, at |-> Min(free)]
        ELSE [g |-> Evict([g EXCEPT !.next = (i + 1) % NumRegs], i), at |-> i]

\* Mutant: the register is not cleared before the slot is added to it.
LoadWithoutClear(g, i, s) == [g EXCEPT !.cpu[i] = (@ + g.stack[s]) % Mod]

LoadFromStack(g, i, s) == [g EXCEPT !.cpu[i] = g.stack[s]]

Bind(g, i, s, dirty) == [g EXCEPT !.regs[i] = [slot |-> s, dirty |-> dirty]]

\* Mutant: a write to a cached register is forgotten.
MarkNothing(g, at) == g

MarkDirty(g, at) ==
    IF at \in Regs THEN Bind(g, at, g.regs[at].slot, TRUE) ELSE g

EnsureSlot(g, s, avoid) ==
    IF Cached(g, s) THEN [g |-> g, at |-> Holder(g, s)]
    ELSE LET a == AllocIdx(g, avoid)
         IN  [g |-> Bind(LoadFromStack(a.g, a.at, s), a.at, s, FALSE), at |-> a.at]

\* Mutant: a destination always gets a register of its own.
AssignWithoutLookup(g, s, avoid) ==
    LET a == AllocIdx(g, avoid) IN [g |-> Bind(a.g, a.at, s, TRUE), at |-> a.at]

AssignSlot(g, s, avoid) ==
    IF Cached(g, s) THEN [g |-> MarkDirty(g, Holder(g, s)), at |-> Holder(g, s)]
    ELSE LET a == AllocIdx(g, avoid)
         IN  [g |-> Bind(a.g, a.at, s, TRUE), at |-> a.at]

EnsureReg(g, c, avoid) ==
    IF c \in Temps THEN [g |-> g, at |-> c] ELSE EnsureSlot(g, c, avoid)

AssignReg(g, c, avoid) ==
    IF c \in Temps THEN [g |-> g, at |-> c] ELSE AssignSlot(g, c, avoid)

Flush(g) ==
    [g EXCEPT !.stack = [s \in Slots |->
                  IF Cached(g, s) /\ g.regs[Holder(g, s)].dirty
                  THEN g.cpu[Holder(g, s)] ELSE g.stack[s]],
              !.regs = [i \in Regs |-> [slot |-> g.regs[i].slot, dirty |-> FALSE]]]

Invalidate(g) == [g EXCEPT !.regs = [i \in Regs |-> FreeEntry]]

\* Mutant: the mappings survive.
KeepMappings(g) == Flush(g)

FlushAndInvalidate(g) == Invalidate(Flush(g))

\* Mutant: a consumed operand is not written back.
SkipFlushCell(g, c) == g

\* flushCell: the copy of one slot is written back and becomes clean.
FlushCell(g, c) ==
    IF Cached(g, c) /\ g.regs[Holder(g, c)].dirty
    THEN Bind([g EXCEPT !.stack[c] = g.cpu[Holder(g, c)]], Holder(g, c), c, FALSE)
    ELSE g

\* dropCell, evictConsumed and the tail of IRMove: no write-back.
DropCell(g, c) ==
    IF Cached(g, c) THEN [g EXCEPT !.regs[Holder(g, c)] = FreeEntry] ELSE g

\* Mutant: the neighbor is used whether or not it is free.
ScratchTaken(g, pos) ==
    LET near == {i \in Regs : regPos[i] \in {pos - 1, pos + 1}}
    IN  IF near = {} THEN g ELSE [g EXCEPT !.cpu[Min(near)] = 0]

\* A free register one step away from pos serves as a scratch cell (allocTemp)
\* and is left at 0.  Other scratch cells hold nothing anybody reads.
Scratch(g, pos) ==
    LET near == {i \in Regs : g.regs[i].slot = NoSlot /\ regPos[i] \in {pos - 1, pos + 1}}
    IN  IF near = {} THEN g ELSE [g EXCEPT !.cpu[Min(near)] = 0]

ScratchNear(g, at) == IF at \in Regs THEN Scratch(g, regPos[at]) ELSE g

\* emitAdd uses a multiplication loop, and its scratch cell, for large values.
EmitAdd(g, at, viaLoop) == IF viaLoop THEN ScratchNear(g, at) ELSE g

SetCpu(g, at, v) == [g EXCEPT !.cpu[at] = v]

-----------------------------------------------------------------------------
(* Straight-line nodes of genNode. *)

Straight == UNCHANGED ctrl /\ obs' = NothingSeen

\* n operands hold a register each and one more is needed: the panic("no
\* available register") of allocIdx.  Always true of the program's five.
Room(n) == NumRegs > n

GenConst(g, d, v, viaLoop) ==
    LET r == AssignReg(g, d, {})
    IN  SetCpu(EmitAdd(MarkDirty(r.g, r.at), r.at, viaLoop), r.at, v)

Zero(d) ==
    /\ MemConst(d, 0)
    /\ gen' = GenConst(gen, d, 0, FALSE)
    /\ Straight

Const(d, v, viaLoop) ==
    /\ MemConst(d, v)
    /\ gen' = GenConst(gen, d, v, viaLoop)
    /\ Straight

GenMove(g, d, s) ==
    LET a == EnsureReg(g, s, {})
        b == AssignReg(a.g, d, {a.at})
        moved == SetCpu(SetCpu(b.g, b.at, b.g.cpu[a.at]), a.at, 0)
    IN  IF s \in Slots THEN DropCell(moved, s) ELSE moved

\* The register of the source is dropped: its slot keeps an older value.
Move(d, s) ==
    /\ Room(1)
    /\ MemMove(d, s, s \in Temps \/ ReadAfterMove)
    /\ gen' = GenMove(gen, d, s)
    /\ Straight

GenCopy(g, d, s) ==
    LET a == EnsureReg(g, s, {})
        b == AssignReg(a.g, d, {a.at})
    IN  IF a.at = b.at THEN b.g
        ELSE SetCpu(ScratchNear(b.g, a.at), b.at, b.g.cpu[a.at])

Copy(d, s) ==
    /\ Room(1)
    /\ MemCopy(d, s)
    /\ gen' = GenCopy(gen, d, s)
    /\ Straight

\* Mutant: the byte does not wrap.
GenAddINoWrap(g, d, delta, viaLoop) ==
    LET r == EnsureReg(g, d, {})
    IN  SetCpu(EmitAdd(MarkDirty(r.g, r.at), r.at, viaLoop), r.at, r.g.cpu[r.at] + delta)

GenAddI(g, d, delta, viaLoop) ==
    LET r == EnsureReg(g, d, {})
    IN  SetCpu(EmitAdd(MarkDirty(r.g, r.at), r.at, viaLoop),
               r.at, (r.g.cpu[r.at] + delta) % Mod)

AddI(d, v, viaLoop) ==
    /\ MemAddI(d, v)
    /\ gen' = GenAddI(gen, d, v, viaLoop)
    /\ Straight

SubI(d, v, viaLoop) ==
    /\ MemSubI(d, v)
    /\ gen' = GenAddI(gen, d, -v, viaLoop)
    /\ Straight

GenBinary(g, d, a, b, f) ==
    LET r1 == EnsureReg(g, a, {})
        r2 == EnsureReg(r1.g, b, {r1.at})
        rd == AssignReg(r2.g, d, {r1.at, r2.at})
    IN  SetCpu(MarkDirty(rd.g, rd.at), rd.at, Result(f, rd.g.cpu[r1.at], rd.g.cpu[r2.at]))

Binary(d, a, b, f) ==
    /\ Room(2)
    /\ MemBinary(d, a, b, f)
    /\ gen' = GenBinary(gen, d, a, b, f)
    /\ Straight

GenDivMod(g, q, r, a, b, quot, rem) ==
    LET r1 == EnsureReg(g, a, {})
        r2 == EnsureReg(r1.g, b, {r1.at})
        rq == AssignReg(r2.g, q, {r1.at, r2.at})
        rr == AssignReg(rq.g, r, {r1.at, r2.at, rq.at})
        n == rr.g.cpu[r1.at]
        d == rr.g.cpu[r2.at]
    IN  SetCpu(SetCpu(MarkDirty(MarkDirty(rr.g, rq.at), rr.at), rr.at, Result(rem, n, d)),
               rq.at, Result(quot, n, d))

DivMod(q, r, a, b, quot, rem) ==
    /\ Room(3)
    /\ MemDivMod(q, r, a, b, quot, rem)
    /\ gen' = GenDivMod(gen, q, r, a, b, quot, rem)
    /\ Straight

\* The comparison runs its consumed operand (cell c, place at) down to 0: a slot
\* is written back before and dropped after, a phase temp is copied aside.
GenCmp(g, d, a, b, f, c) ==
    LET r1 == EnsureReg(g, a, {})
        r2 == EnsureReg(r1.g, b, {r1.at})
        saved == IF c \in Slots THEN FlushCell(r2.g, c) ELSE r2.g
        rd == AssignReg(saved, d, {r1.at, r2.at})
        at == IF c = a THEN r1.at ELSE r2.at
        value == Result(f, rd.g.cpu[r1.at], rd.g.cpu[r2.at])
        done == SetCpu(MarkDirty(rd.g, rd.at), rd.at, value)
    IN  IF c \in Slots THEN DropCell(SetCpu(done, at, 0), c) ELSE done

\* The lowerer never names the consumed operand as the destination.
Cmp(d, a, b, f, c) ==
    /\ Room(2) /\ d # c
    /\ MemBinary(d, a, b, f)
    /\ gen' = GenCmp(gen, d, a, b, f, c)
    /\ Straight

GenNot(g, d, s) ==
    LET a == EnsureReg(g, s, {})
        b == AssignReg(a.g, d, {a.at})
    IN  SetCpu(MarkDirty(b.g, b.at), b.at, NotOf(b.g.cpu[a.at]))

Not(d, s) ==
    /\ Room(1)
    /\ MemNot(d, s)
    /\ gen' = GenNot(gen, d, s)
    /\ Straight

Getc(d, v) ==
    /\ LET r == AssignReg(gen, d, {}) IN gen' = SetCpu(MarkDirty(r.g, r.at), r.at, v)
    /\ MemConst(d, v) /\ Straight

\* IRPutc and IRStoreFrame: the register is what leaves the cache's sight.
Putc(s) ==
    /\ LET r == EnsureReg(gen, s, {})
       IN  /\ gen' = r.g
           /\ obs' = [machine |-> r.g.cpu[r.at], reference |-> mem[s]]
    /\ MemRead(s) /\ UNCHANGED ctrl

Free(c) ==
    /\ MemFree(c)
    /\ gen' = IF c \in Slots THEN DropCell(gen, c) ELSE gen
    /\ Straight

-----------------------------------------------------------------------------
(* Arrays: the slot is known only at run time. *)

\* The walk adds the base to the index in a scratch cell.  The first free algo
\* temps are at 3 and 6; an if-else around the node holds some of them.
InsideIfElse == \E k \in DOMAIN ctrl : ctrl[k].kind \in {"thenElse", "else"}
InsideThenElse == \E k \in DOMAIN ctrl : ctrl[k].kind = "thenElse"

WalkScratch(g, distPos, inRange) ==
    IF LargeBases /\ inRange THEN Scratch(g, distPos) ELSE g

\* In-body loops and ifs flush what the generator knows; see blockHasDynStore.
DynStoreAllowed == \A k \in DOMAIN ctrl : ctrl[k].dyn

GenDynLoad(g, d, base, i) ==
    LET idx == EnsureReg(g, i, {})
        clean == FlushAndInvalidate(idx.g)
        result == IF idx.at = 0 THEN 1 ELSE 0
        walked == WalkScratch(clean, 3, ~InsideThenElse)
        value == walked.stack[base + clean.cpu[idx.at]]
    IN  [walked EXCEPT !.cpu[result] = value, !.stack[d] = value]

DynLoad(d, base, i) ==
    /\ d \in Slots
    /\ MemDynLoad(d, base, i)
    /\ gen' = GenDynLoad(gen, d, base, i)
    /\ Straight

GenDynStore(g, base, i, s) ==
    LET idx == EnsureReg(g, i, {})
        src == EnsureReg(idx.g, s, {idx.at})
        clean == FlushAndInvalidate(src.g)
        walked == WalkScratch(clean, 6, ~InsideIfElse)
    IN  [walked EXCEPT !.stack[base + clean.cpu[idx.at]] = walked.cpu[src.at]]

DynStore(base, i, s) ==
    /\ Room(1) /\ DynStoreAllowed
    /\ MemDynStore(base, i, s)
    /\ gen' = GenDynStore(gen, base, i, s)
    /\ Straight

-----------------------------------------------------------------------------
(* Frames and dispatch: IRFramePush, IRFramePop and IRDispatch empty the    *)
(* cache; the Dyn forms use up the register of their size as a counter;     *)
(* IRLoadFrame is emitted for phase temps only.                             *)

FrameOp ==
    /\ gen' = FlushAndInvalidate(gen)
    /\ UNCHANGED memVars /\ Straight

FrameOpDyn(size) ==
    /\ LET r == EnsureReg(gen, size, {})
       IN  /\ gen' = SetCpu(FlushAndInvalidate(r.g), r.at, 0)
           /\ obs' = [machine |-> r.g.cpu[r.at], reference |-> mem[size]]
    /\ MemRead(size) /\ UNCHANGED ctrl

LoadFrame(d, v) ==
    /\ MemConst(d, v)
    /\ gen' = SetCpu(gen, d, v)
    /\ Straight

-----------------------------------------------------------------------------
(* Control flow.  A body ends with flushAndInvalidate on every path, so the *)
(* generator goes on with an empty cache whichever path ran.                *)

\* The generator walked code this path does not run: next is what it left.
Elsewhere(g) == {[Invalidate(g) EXCEPT !.next = n] : n \in Regs}

Open(kind, c, at, dyn) ==
    ctrl' = <<[kind |-> kind, cond |-> c, at |-> at, dyn |-> dyn]>> \o ctrl

Tested(g, at, c) == obs' = [machine |-> g.cpu[at], reference |-> mem[c]]

\* Mutant: dirty registers are not written back before the body.
IfWithoutFlush(g, dyn) == IF dyn THEN FlushAndInvalidate(g) ELSE g

\* flush only, or flushAndInvalidate when a body stores through an index.
FlushForIf(g, dyn) == IF dyn THEN FlushAndInvalidate(g) ELSE Flush(g)

\* With an Else the condition is tested through copies in algo temps.
If(c, dyn, hasElse) ==
    LET r == EnsureReg(gen, c, {})
        g == FlushForIf(r.g, dyn)
    IN  /\ MemRead(c) /\ Tested(g, r.at, c)
        /\ \/ /\ g.cpu[r.at] # 0 /\ Len(ctrl) < MaxNest
              /\ gen' = g
              /\ IF hasElse THEN Open("thenElse", c, NoPlace, dyn)
                            ELSE Open("then", c, r.at, dyn)
           \/ /\ g.cpu[r.at] = 0 /\ hasElse /\ Len(ctrl) < MaxNest
              /\ gen' \in Elsewhere(g)
              /\ Open("else", c, NoPlace, dyn)
           \/ /\ g.cpu[r.at] = 0 /\ ~hasElse
              /\ gen' \in Elsewhere(g)
              /\ UNCHANGED ctrl

\* emitIf runs its condition register down to 0; a phase temp is lost with it.
EndThen ==
    /\ ctrl # <<>> /\ Head(ctrl).kind = "then"
    /\ gen' = SetCpu(FlushAndInvalidate(gen), Head(ctrl).at, 0)
    /\ ctrl' = Tail(ctrl) /\ obs' = NothingSeen
    /\ IF Head(ctrl).cond \in Temps THEN MemConst(Head(ctrl).cond, 0)
                                    ELSE UNCHANGED memVars

EndThenElse ==
    /\ ctrl # <<>> /\ Head(ctrl).kind = "thenElse"
    /\ gen' \in Elsewhere(Flush(gen))
    /\ ctrl' = Tail(ctrl) /\ obs' = NothingSeen /\ UNCHANGED memVars

EndElse ==
    /\ ctrl # <<>> /\ Head(ctrl).kind = "else"
    /\ gen' = FlushAndInvalidate(gen)
    /\ ctrl' = Tail(ctrl) /\ obs' = NothingSeen /\ UNCHANGED memVars

Loop(c) ==
    LET r == EnsureReg(gen, c, {})
        g == FlushAndInvalidate(r.g)
    IN  /\ MemRead(c) /\ Tested(g, r.at, c)
        /\ \/ /\ g.cpu[r.at] # 0 /\ Len(ctrl) < MaxNest
              /\ gen' = g
              /\ Open("loop", c, r.at, TRUE)
           \/ /\ g.cpu[r.at] = 0
              /\ gen' \in Elsewhere(g)
              /\ UNCHANGED ctrl

\* Mutant: the loop tests whatever the register holds after the body.
NoReload(g, body) == g

\* The condition register at the back edge: loaded again unless a phase temp.
\* The body is generated once, so a second pass starts with the first one's next.
Reload(g, body) ==
    IF body.cond \in Slots THEN LoadFromStack(g, body.at, body.cond) ELSE g

EndLoop ==
    /\ ctrl # <<>> /\ Head(ctrl).kind = "loop"
    /\ LET body == Head(ctrl)
           g == Reload(FlushAndInvalidate(gen), body)
       IN  /\ MemRead(body.cond) /\ Tested(g, body.at, body.cond)
           /\ IF g.cpu[body.at] = 0
              THEN gen' = g /\ ctrl' = Tail(ctrl)
              ELSE gen' \in Elsewhere(g) /\ UNCHANGED ctrl

-----------------------------------------------------------------------------
Init ==
    /\ gen = [regs |-> [i \in Regs |-> FreeEntry], next |-> 0,
              cpu |-> [p \in Places |-> 0], stack |-> [s \in Slots |-> 0]]
    /\ ctrl = <<>> /\ obs = NothingSeen
    /\ MemInit

UnaryNode ==
    \/ \E d \in Cells : Zero(d)
    \/ \E d \in Cells, v \in Byte, viaLoop \in BOOLEAN :
          Const(d, v, viaLoop) \/ AddI(d, v, viaLoop) \/ SubI(d, v, viaLoop)
    \/ \E d, s \in Cells : Move(d, s) \/ Copy(d, s) \/ Not(d, s)
    \/ \E d \in Cells, v \in Byte : Getc(d, v)
    \/ \E c \in Cells : Putc(c) \/ Free(c)

OperatorNode ==
    \/ \E d, a, b \in Cells, f \in BinaryFns :
          Binary(d, a, b, f) \/ Cmp(d, a, b, f, a) \/ Cmp(d, a, b, f, b)
    \/ \E q, r, a, b \in Cells, f, g \in BinaryFns : DivMod(q, r, a, b, f, g)

ArrayNode ==
    \/ \E d, i \in Cells, base \in Slots : DynLoad(d, base, i)
    \/ \E i, s \in Cells, base \in Slots : DynStore(base, i, s)

FrameNode ==
    \/ FrameOp
    \/ \E size \in Slots : FrameOpDyn(size)
    \/ \E d \in Temps, v \in Byte : LoadFrame(d, v)

ControlNode ==
    \/ \E c \in Cells : Loop(c)
    \/ \E c \in Cells, dyn, hasElse \in BOOLEAN : If(c, dyn, hasElse)
    \/ EndThen \/ EndThenElse \/ EndElse \/ EndLoop

Next == UnaryNode \/ OperatorNode \/ ArrayNode \/ FrameNode \/ ControlNode

Spec == Init /\ [][Next]_vars

-----------------------------------------------------------------------------
(* Properties. *)

\* What the tape holds of a cell: the register caching it, else its slot.
Contents(c) ==
    IF c \in Temps THEN gen.cpu[c]
    ELSE IF Cached(gen, c) THEN gen.cpu[Holder(gen, c)] ELSE gen.stack[c]

\* The state has the shape the generator's Go types and the tape give it.
TypeOK ==
    /\ gen \in Gens
    /\ ctrl \in Seq(Bodies) /\ Len(ctrl) <= MaxNest
    /\ obs \in [machine : Byte, reference : Byte]
    /\ MemTypeOK

\* No slot is held by two registers: a write through one of them would leave the
\* other stale (ensure and assign look a slot up before they allocate).
NoAlias ==
    \A i, j \in Regs :
        gen.regs[i].slot = gen.regs[j].slot /\ gen.regs[i].slot # NoSlot => i = j

\* A register the generator believes clean holds what its slot holds, so that
\* evicting it without a store loses nothing (evict, invalidate after flush).
CleanMatchesStack ==
    \A i \in Regs :
        gen.regs[i].slot # NoSlot /\ ~gen.regs[i].dirty
            => gen.cpu[i] = gen.stack[gen.regs[i].slot]

\* Every cell the program may read holds the value the IR gives it, whatever was
\* evicted, flushed, dropped or used as scratch on the way (docs/cache.md,
\* "Cache Coherence"; docs/ir.md for the values).
Coherent == \A c \in live : Contents(c) = mem[c]

\* The byte printed, stored to a frame or tested by a branch is the IR's.
ObservationsAgree == obs.machine = obs.reference

\* The generated code, seen through Contents, runs the IR and nothing else: each
\* node's code is one step of the IR's memory, or none.
IR == INSTANCE IRMemory
          WITH mem <- [c \in Cells |-> IF c \in live THEN Contents(c) ELSE 0]
ImplementsIR == IR!MemSpec
=============================================================================
