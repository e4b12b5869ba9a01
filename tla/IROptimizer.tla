---------------------------- MODULE IROptimizer ----------------------------
(***************************************************************************)
(* The IR optimizer (src/ir_optimizer.go): optimizeBlock walks the tree of *)
(* IR nodes once, drops or rewrites constants and drops the zeroing of     *)
(* cells nothing has written.                                              *)
(*                                                                         *)
(* The program as it was lowered (mem, live of IRMemory) and as optimized  *)
(* (out) run in lockstep along one path through Ifs, Loops and Dispatches; *)
(* opt is what optimizeBlock knew when it walked the node that runs next.  *)
(* The walk visits every body once: opt goes back at the end of a pass,    *)
(* and moves on over the code of a branch that is not taken.               *)
(***************************************************************************)
EXTENDS IRMemory, Sequences

CONSTANTS
    StoresToKnown,  \* TRUE: a store through an index may hit a cell in known
    MaxNest         \* bound: the nesting of bodies

ASSUME OptAssumption == StoresToKnown \in BOOLEAN /\ MaxNest \in Nat

Unknown == -1

VARIABLES
    out,        \* the value of every cell in the optimized program
    touched,    \* the cells a node of the optimized program has written
    opt,        \* known and everWritten of optimizeBlock
    bodies      \* the open bodies, innermost first

runVars == <<out, touched>>
vars == <<out, touched, opt, bodies, mem, live>>

Opts == [known : [Cells -> Byte \cup {Unknown}], everWritten : SUBSET Cells]
Bodies == [kind : {"then", "branch", "loop", "dispatch"}, cond : Cells,
           before : Opts, dsts : SUBSET Cells, phase : SUBSET Cells]
Repeats == {"loop", "dispatch"}

-----------------------------------------------------------------------------
(* The optimized program.                                                  *)

OutPut(d, v) ==
    /\ out' = [out EXCEPT ![d] = v]
    /\ touched' = touched \cup {d}

\* What is left in a cell that holds nothing for the program: an older value of
\* its slot or of the register it had, and 0 if it was never written.
Stale(c) == IF c \in touched THEN Byte ELSE {0}

-----------------------------------------------------------------------------
(* optimizeBlock.                                                          *)

\* A body names d as a destination only if markBlockDsts found it there.
MayWrite(d) ==
    \A k \in DOMAIN bodies : bodies[k].kind \in Repeats => d \in bodies[k].phase

\* Mutant: the walk of a nested block keeps its writes to itself.
WalkedApart(o, D) == o

\* What the walk leaves of code that writes the cells D.
Walked(o, D) == [o EXCEPT !.everWritten = @ \cup D]

\* Mutant: the writes of a loop body are not marked before it is walked.
MarkNone(o, D) == o

\* markBlockDsts, of a body that writes the cells D.
Mark(o, D) == [o EXCEPT !.everWritten = @ \cup D]

NothingKnown == [c \in Cells |-> Unknown]

\* Mutant: a block is walked with the facts of the block around it.
InheritKnown(o) == o

\* A call of optimizeBlock starts with a fresh map.
StartBlock(o) == [o EXCEPT !.known = NothingKnown]

\* Mutant: the facts of the code before a body are used after it.
KeepKnown(o) == o

\* The node that holds a body clears the map of the block it stands in.
AfterBody(o) == [o EXCEPT !.known = NothingKnown]

\* Mutant: a written cell still counts as fresh.
LearnValueOnly(o, d, v) == [o EXCEPT !.known[d] = v]

\* v is Unknown when the node's result is not a constant.
Learn(o, d, v) == [o EXCEPT !.known[d] = v, !.everWritten = @ \cup {d}]

\* Mutant: the constant of a sum does not wrap.
PlusNoWrap(prev, v) == IF prev = Unknown THEN Unknown ELSE prev + v

Plus(prev, v) == IF prev = Unknown THEN Unknown ELSE (prev + v) % Mod

\* Mutant: zero is like any other constant.
RedundantZero(prev, v) == prev = v

\* Zero is written even where it is known: the cell may hold stale data.
Redundant(prev, v) == prev = v /\ v # 0

Delta(prev, v) == prev \notin {Unknown, 0} /\ v # 0 /\ prev # v

-----------------------------------------------------------------------------
(* Nodes.                                                                  *)

Straight == UNCHANGED bodies

\* The zeroing of a fresh cell.
DropZero(o, d) == d \notin o.everWritten

Zero(d) ==
    /\ MayWrite(d) /\ MemConst(d, 0)
    /\ IF DropZero(opt, d) THEN UNCHANGED runVars ELSE OutPut(d, 0)
    /\ opt' = Learn(opt, d, 0)
    /\ Straight

\* Dropped, turned into IRAddI or IRSubI, or kept.
Const(d, v) ==
    LET prev == opt.known[d]
    IN  /\ MayWrite(d) /\ MemConst(d, v)
        /\ \/ /\ Redundant(prev, v)
              /\ UNCHANGED <<out, touched, opt>>
           \/ /\ ~Redundant(prev, v) /\ Delta(prev, v)
              /\ OutPut(d, (out[d] + (v - prev)) % Mod)
              /\ opt' = Learn(opt, d, v)
           \/ /\ ~Redundant(prev, v) /\ ~Delta(prev, v)
              /\ OutPut(d, v)
              /\ opt' = Learn(opt, d, v)
        /\ Straight

\* A phase-temp source may be read again as 0.
Move(d, s) ==
    /\ MayWrite(d) /\ MayWrite(s) /\ MemMove(d, s, s \in Temps)
    /\ \E left \in IF s \in Temps THEN {0} ELSE Stale(s) :
          out' = [out EXCEPT ![d] = out[s], ![s] = left]
    /\ touched' = touched \cup {d, s}
    /\ opt' = Learn(Learn(opt, d, opt.known[s]), s, 0)
    /\ Straight

Copy(d, s) ==
    /\ MayWrite(d) /\ MemCopy(d, s)
    /\ OutPut(d, out[s])
    /\ opt' = Learn(opt, d, opt.known[s])
    /\ Straight

AddI(d, v) ==
    /\ MayWrite(d) /\ MemAddI(d, v)
    /\ OutPut(d, (out[d] + v) % Mod)
    /\ opt' = Learn(opt, d, Plus(opt.known[d], v))
    /\ Straight

SubI(d, v) ==
    /\ MayWrite(d) /\ MemSubI(d, v)
    /\ OutPut(d, (out[d] - v) % Mod)
    /\ opt' = Learn(opt, d, Plus(opt.known[d], -v))
    /\ Straight

\* The other nodes with a destination (irHasDst): the result is not known.
Binary(d, a, b, f) ==
    /\ MayWrite(d) /\ MemBinary(d, a, b, f)
    /\ OutPut(d, Result(f, out[a], out[b]))
    /\ opt' = Learn(opt, d, Unknown)
    /\ Straight

Not(d, s) ==
    /\ MayWrite(d) /\ MemNot(d, s)
    /\ OutPut(d, NotOf(out[s]))
    /\ opt' = Learn(opt, d, Unknown)
    /\ Straight

\* IRGetc, IRLoadFrame
Getc(d, v) ==
    /\ MayWrite(d) /\ MemConst(d, v)
    /\ OutPut(d, v)
    /\ opt' = Learn(opt, d, Unknown)
    /\ Straight

DynLoad(d, base, i) ==
    /\ MayWrite(d) /\ MemDynLoad(d, base, i)
    /\ OutPut(d, out[base + out[i]])
    /\ opt' = Learn(opt, d, Unknown)
    /\ Straight

DivMod(q, r, a, b, f, g) ==
    /\ MayWrite(q) /\ MayWrite(r) /\ MemDivMod(q, r, a, b, f, g)
    /\ out' = [out EXCEPT ![q] = Result(f, out[a], out[b]), ![r] = Result(g, out[a], out[b])]
    /\ touched' = touched \cup {q, r}
    /\ opt' = Learn(Learn(opt, q, Unknown), r, Unknown)
    /\ Straight

\* Mutant: a freed cell keeps its known constant.
RememberFreed(o, c) == o

ForgetFreed(o, c) == [o EXCEPT !.known[c] = Unknown]

Free(c) ==
    /\ MemFree(c)
    /\ \E left \in Stale(c) : out' = [out EXCEPT ![c] = left]
    /\ opt' = ForgetFreed(opt, c)
    /\ UNCHANGED touched /\ Straight

\* The default case: the node is kept and nothing is forgotten.  An array or a
\* variable is initialised before an index or a pointer can reach it.
DynStore(base, i, s) ==
    /\ MemDynStore(base, i, s)
    /\ base + out[i] \in opt.everWritten
    /\ StoresToKnown \/ opt.known[base + out[i]] = Unknown
    /\ OutPut(base + out[i], out[s])
    /\ UNCHANGED opt /\ Straight

-----------------------------------------------------------------------------
(* Bodies.                                                                 *)

Writables == {D \in SUBSET Cells : \A d \in D : MayWrite(d)}

Open(kind, c, D, first) ==
    /\ Len(bodies) < MaxNest
    /\ bodies' = <<[kind |-> kind, cond |-> c, before |-> opt,
                    dsts |-> D, phase |-> first]>> \o bodies

\* D: what the branch that does not run writes.
If(c, hasElse) ==
    /\ MemRead(c) /\ UNCHANGED runVars
    /\ \/ /\ mem[c] # 0
          /\ opt' = StartBlock(opt)
          /\ Open(IF hasElse THEN "branch" ELSE "then", c, {}, {})
       \/ /\ mem[c] = 0 /\ hasElse
          /\ \E D \in Writables : opt' = StartBlock(Walked(opt, D))
          /\ Open("branch", c, {}, {})
       \/ /\ mem[c] = 0 /\ ~hasElse
          /\ \E D \in Writables : opt' = AfterBody(Walked(opt, D))
          /\ UNCHANGED bodies

\* A phase-temp condition without Else is used up (emitIf in codegen.go).
EndIf ==
    /\ bodies # <<>> /\ Head(bodies).kind \in {"then", "branch"}
    /\ LET outer == [opt EXCEPT !.known = Head(bodies).before.known]
       IN  \E D \in Writables : opt' = AfterBody(Walked(outer, D))
    /\ IF Head(bodies).kind = "then" /\ Head(bodies).cond \in Temps
       THEN MemConst(Head(bodies).cond, 0) /\ OutPut(Head(bodies).cond, 0)
       ELSE UNCHANGED <<mem, live, out, touched>>
    /\ bodies' = Tail(bodies)

\* D: what markBlockDsts finds in the body.
Loop(c) ==
    /\ MemRead(c) /\ UNCHANGED runVars
    /\ \E D \in Writables :
          \/ /\ mem[c] # 0
             /\ opt' = StartBlock(Mark(opt, D))
             /\ Open("loop", c, D, D)
          \/ /\ mem[c] = 0
             /\ opt' = AfterBody(Walked(opt, D))
             /\ UNCHANGED bodies

\* A phase that writes the cells `phase' begins; `walked' is what the phases
\* before it in the text write.
Phase(o, walked, phase) == StartBlock(Mark(Walked(o, walked), phase))

Dispatch(c) ==
    /\ MemRead(c) /\ UNCHANGED runVars
    /\ \E D \in Writables :
          \/ /\ mem[c] # 0
             /\ \E walked, phase \in SUBSET D :
                   opt' = Phase(opt, walked, phase) /\ Open("dispatch", c, D, phase)
          \/ /\ mem[c] = 0
             /\ opt' = AfterBody(Walked(opt, D))
             /\ UNCHANGED bodies

\* The body was walked once: every pass of a loop starts as the first one did.  A
\* dispatch goes on with any phase.
EndPass ==
    /\ bodies # <<>> /\ Head(bodies).kind \in Repeats
    /\ LET body == Head(bodies)
       IN  /\ MemRead(body.cond) /\ UNCHANGED runVars
           /\ \/ /\ mem[body.cond] = 0
                 /\ opt' = AfterBody(Walked(body.before, body.dsts))
                 /\ bodies' = Tail(bodies)
              \/ /\ mem[body.cond] # 0 /\ body.kind = "loop"
                 /\ opt' = StartBlock(Mark(body.before, body.dsts))
                 /\ UNCHANGED bodies
              \/ /\ mem[body.cond] # 0 /\ body.kind = "dispatch"
                 /\ \E walked, phase \in SUBSET body.dsts :
                       /\ opt' = Phase(body.before, walked, phase)
                       /\ bodies' = <<[body EXCEPT !.phase = phase]>> \o Tail(bodies)

-----------------------------------------------------------------------------
Init ==
    /\ MemInit
    /\ out = [c \in Cells |-> 0] /\ touched = {}
    /\ opt = [known |-> [c \in Cells |-> Unknown], everWritten |-> {}]
    /\ bodies = <<>>

ConstantNode ==
    \/ \E d \in Cells : Zero(d)
    \/ \E d \in Cells, v \in Byte : Const(d, v) \/ AddI(d, v) \/ SubI(d, v)
    \/ \E d, s \in Cells : Move(d, s) \/ Copy(d, s)
    \/ \E c \in Cells : Free(c)

OtherNode ==
    \/ \E d, s \in Cells : Not(d, s)
    \/ \E d \in Cells, v \in Byte : Getc(d, v)
    \/ \E d, a, b \in Cells, f \in BinaryFns : Binary(d, a, b, f)
    \/ \E q, r, a, b \in Cells, f, g \in BinaryFns : DivMod(q, r, a, b, f, g)
    \/ \E d, i \in Cells, base \in Slots : DynLoad(d, base, i)

StoreNode == \E i, s \in Cells, base \in Slots : DynStore(base, i, s)

ControlNode ==
    \/ \E c \in Cells, hasElse \in BOOLEAN : If(c, hasElse)
    \/ \E c \in Cells : Loop(c) \/ Dispatch(c)
    \/ EndIf \/ EndPass

Next == ConstantNode \/ OtherNode \/ StoreNode \/ ControlNode

Spec == Init /\ [][Next]_vars

-----------------------------------------------------------------------------
(* Properties.                                                             *)

TypeOK ==
    /\ MemTypeOK
    /\ out \in [Cells -> Byte] /\ touched \subseteq Cells
    /\ opt \in Opts
    /\ bodies \in Seq(Bodies) /\ Len(bodies) <= MaxNest

\* Optimized and lowered program give every cell the program may read the same
\* value, so that they print and branch alike (OptimizeIR).
SameValues == \A c \in live : out[c] = mem[c]

\* known is true of the run: a constant recorded for a cell is its value, and one
\* other than 0 belongs to a cell the program may still read, so that IRAddI and
\* IRSubI may stand for an IRConst.  A moved cell is recorded as 0 and may not be.
KnownIsTrue ==
    \A c \in Cells : opt.known[c] # Unknown =>
        /\ c \in live => out[c] = opt.known[c]
        /\ opt.known[c] # 0 => c \in live

\* A cell not in everWritten that an IRZero could name here is 0 already, however
\* often the loops around it have run ("Fresh-zero elimination").
FreshIsZero == \A c \in Cells \ opt.everWritten : MayWrite(c) => out[c] = 0
=============================================================================
