---------------------------- MODULE ControlFlow ----------------------------
(***************************************************************************)
(* Statements of src/lowerer.go: blocks, if, switch, for, range, labels,   *)
(* break, continue, goto, return, defer, inlined calls, tail recursion,    *)
(* and the scopes and cells they use.                                      *)
(*                                                                         *)
(* A jump is not in the IR: it sets flags, every later statement is guarded *)
(* by them, and a loop looks at them between two rounds.  A program is      *)
(* turned into IR nodes, one action per node then runs them on the cells   *)
(* of IRMemory, and `expected' is what the Go program prints.  PhaseCode   *)
(* adds recursive functions and has the specification.                     *)
(*                                                                         *)
(* A statement is a record with its kind in `s', an expression one with    *)
(* its kind in `e'; what may be absent is a sequence of at most one.       *)
(***************************************************************************)
EXTENDS IRMemory, SequencesExt

CONSTANTS
    Programs,   \* the programs to compile
    Fuel,       \* the Go statements a program may execute
    Miscompiled \* the mistakes of the code that programs may run into

VARIABLES
    running,    \* whether a program has been compiled
    todo,       \* the nodes still to execute
    out,        \* the bytes printed
    expected,   \* the bytes the Go program prints
    err         \* why the program was rejected

vars == <<mem, live, running, todo, out, expected, err>>

-----------------------------------------------------------------------------
(* The nodes that are emitted. *)

Const(d, v) == [op |-> "const", d |-> d, v |-> v]
Zero(d) == Const(d, 0)
AddI(d) == [op |-> "addi", d |-> d]
Copy(d, a) == [op |-> "copy", d |-> d, a |-> a]
Move(d, a) == [op |-> "move", d |-> d, a |-> a]
Not(d, a) == [op |-> "not", d |-> d, a |-> a]
Binary(f, d, a, b) == [op |-> "binary", f |-> f, d |-> d, a |-> a, b |-> b]
Putc(a) == [op |-> "putc", a |-> a]
Free(a) == [op |-> "free", a |-> a]
If(a, then, else) == [op |-> "if", a |-> a, then |-> then, else |-> else]
Loop(a, body) == [op |-> "loop", a |-> a, body |-> body]

\* `else' of an If is a sequence of at most one block: no Else is not an empty Else.
IfOnly(a, then) == If(a, then, <<>>)
IfElseOf(a, then, else) == If(a, then, <<else>>)

Fn == [add |-> [x \in Byte \X Byte |-> (x[1] + x[2]) % Mod],
       sub |-> [x \in Byte \X Byte |-> (x[1] - x[2]) % Mod],
       eq |-> [x \in Byte \X Byte |-> IF x[1] = x[2] THEN 1 ELSE 0],
       neq |-> [x \in Byte \X Byte |-> IF x[1] # x[2] THEN 1 ELSE 0],
       lt |-> [x \in Byte \X Byte |-> IF x[1] < x[2] THEN 1 ELSE 0]]

ControlFunctions == {Fn[f] : f \in DOMAIN Fn}

-----------------------------------------------------------------------------
(* What a program contains. *)

Nothing == <<>>

\* The statements directly inside a statement, and its expressions.
Parts(st) ==
    CASE st.s = "if" -> st.then \o st.else
      [] st.s = "switch" -> FlattenSeq([i \in DOMAIN st.clauses |-> st.clauses[i].body])
      [] st.s = "for" -> st.init \o st.body \o st.post
      [] st.s \in {"range", "block"} -> st.body
      [] st.s = "labeled" -> <<st.stmt>>
      [] OTHER -> Nothing

Exprs(st) ==
    CASE st.s \in {"if", "for"} -> st.cond
      [] st.s = "switch" -> st.tag \o FlattenSeq([i \in DOMAIN st.clauses |-> st.clauses[i].vals])
      [] st.s = "range" -> <<st.limit>>
      [] st.s \in {"define", "assign"} -> <<st.rhs>>
      [] st.s \in {"call", "defer", "assignCall"} -> st.args
      [] st.s \in {"return", "tuple"} -> st.results
      [] OTHER -> Nothing

RECURSIVE Nested(_), NestedExprs(_)
Nested(stmts) == UNION {{stmts[i]} \cup Nested(Parts(stmts[i])) : i \in DOMAIN stmts}
NestedExprs(es) ==
    UNION {{es[i]} \cup (CASE es[i].e = "call" -> NestedExprs(es[i].args)
                           [] es[i].e \in {"binary", "logical"} -> NestedExprs(<<es[i].l, es[i].r>>)
                           [] es[i].e = "not" -> NestedExprs(<<es[i].l>>)
                           [] OTHER -> {}) : i \in DOMAIN es}

ExprsIn(stmts) == UNION {NestedExprs(Exprs(st)) : st \in Nested(stmts)}
Calls(stmts) ==
    {e.f : e \in {x \in ExprsIn(stmts) : x.e = "call"}}
    \cup {st.f : st \in {x \in Nested(stmts) : x.s \in {"call", "defer", "assignCall"}}}

Has(stmts, kind) == \E st \in Nested(stmts) : st.s = kind
hasReturn(stmts) == Has(stmts, "return")
hasGoto(stmts) == Has(stmts, "goto")
hasDefer(stmts) == Has(stmts, "defer")

RECURSIVE switchHasOwnBreak(_)
switchHasOwnBreak(stmts) ==
    \E i \in DOMAIN stmts :
        \/ stmts[i].s = "break" /\ stmts[i].label = ""
        \/ stmts[i].s \in {"if", "block"} /\ switchHasOwnBreak(Parts(stmts[i]))

\* Every call of f is the expression of a return, outside loops and switches.
RECURSIVE inspectTailCalls(_, _)
inspectTailCalls(stmts, f) ==
    \A i \in DOMAIN stmts :
        LET st == stmts[i] IN
        CASE st.s = "return" ->
               LET inside == IF Len(st.results) = 1 /\ st.results[1].e = "call" /\ st.results[1].f = f
                             THEN st.results[1].args ELSE st.results
               IN  \A e \in NestedExprs(inside) : e.e = "call" => e.f # f
          [] st.s = "if" -> /\ \A e \in NestedExprs(st.cond) : e.e = "call" => e.f # f
                            /\ inspectTailCalls(st.then, f) /\ inspectTailCalls(st.else, f)
          [] st.s = "block" -> inspectTailCalls(st.body, f)
          [] OTHER -> f \notin Calls(<<st>>)

isTailRecursive(info, f) ==
    /\ info.returns > 0 /\ ~hasDefer(info.body)
    /\ f \in Calls(info.body) /\ inspectTailCalls(info.body, f)

RECURSIVE Reached(_, _)
Reached(funcs, fs) ==
    LET more == fs \cup UNION {Calls(funcs[f].body) \cap DOMAIN funcs : f \in fs}
    IN  IF more = fs THEN fs ELSE Reached(funcs, more)
canReach(funcs, f, g) == g \in Reached(funcs, Calls(funcs[f].body) \cap DOMAIN funcs)
isGeneral(funcs, f) == f \in DOMAIN funcs /\ canReach(funcs, f, f) /\ ~isTailRecursive(funcs[f], f)

-----------------------------------------------------------------------------
(* The programs that the code gets wrong, by the mistake they run into.    *)

Putchar == "putchar"
Init0 == "init"
Main == "main"

Written(stmts) ==
    {st.x : st \in {x \in Nested(stmts) : x.s \in {"assign", "inc"}}}
    \cup UNION {Range(st.xs) : st \in {x \in Nested(stmts) : x.s \in {"tuple", "assignCall"}}}
Defined(stmts) ==
    {st.x : st \in {x \in Nested(stmts) : x.s = "define"}}
    \cup {st.key : st \in {x \in Nested(stmts) : x.s = "range"}}
Used(stmts) == Written(stmts) \cup {e.x : e \in {x \in ExprsIn(stmts) : x.e = "var"}}
Locals(info) == Range(info.params) \cup Range(info.named) \cup Defined(info.body)

Jumps(stmts) == hasReturn(stmts) \/ hasGoto(stmts)
IsLoop(st) == st.s \in {"for", "range"}
GoesBack(body) ==
    \E i, k \in DOMAIN body :
        /\ i <= k /\ body[i].s = "labeled"
        /\ \E st \in Nested(<<body[k]>>) : st.s = "goto" /\ st.label = body[i].label
StructValue(p, e) == (e.e = "var" /\ e.x \in p.structs) \/ (e.e = "call" /\ p.funcs[e.f].struct)

\* st, in the body of the function `info', runs into a mistake.
MistakeAt(p, info, st, kind) ==
    LET Reach(stmts) == Reached(p.funcs, Calls(stmts) \cap DOMAIN p.funcs)
        Defers(f) == hasDefer(p.funcs[f].body)
    IN
    CASE kind = "rangeLimit" ->
           /\ st.s = "range" /\ st.limit.e = "var"
           /\ st.limit.x \in Written(st.body) \cup UNION {Written(p.funcs[f].body) : f \in Reach(st.body)}
      [] kind = "rangeKey" -> st.s = "range" /\ st.key \in Written(st.body)
      [] kind = "postAfterLeave" ->
           /\ st.s = "for" /\ Jumps(st.body)
           /\ \/ Calls(st.post) # {} \/ \E c \in NestedExprs(st.cond) : c.e = "call"
              \/ ~(Written(st.post) \subseteq Defined(st.init))
      [] kind = "namedSwap" ->
           /\ st.s = "return" /\ info.named # <<>>
           /\ \E i, j \in DOMAIN st.results : j < i /\ info.named[j] \in Used(<<[s |-> "assign", x |-> "", rhs |-> st.results[i]]>>)
      [] kind = "returnedVariable" ->
           st.s = "return" /\ \E e \in Range(st.results) : e.e = "var" /\ e.x \in p.structs \cap Defined(p.globals)
      [] kind = "maskedParameter" ->
           st.s = "define" /\ \E f \in Reach(<<st>>) : ~isGeneral(p.funcs, f) /\ st.x \in Locals(p.funcs[f])
      [] kind = "deferInCalledLoop" -> IsLoop(st) /\ \E f \in Reach(<<st>>) : Defers(f)
      [] kind = "deferInSwitch" ->
           /\ st.s = "switch" /\ \E i \in DOMAIN st.clauses : switchHasOwnBreak(st.clauses[i].body)
           /\ \E d \in Nested(<<st>>) : d.s = "defer" /\ d.f # Putchar
      [] kind = "labelTaken" ->
           /\ st.s = "labeled" /\ IsLoop(st.stmt)
           /\ \E f \in Reach(<<[st.stmt EXCEPT !.body = <<>>]>>) : \E x \in Nested(p.funcs[f].body) : IsLoop(x)
      [] kind = "structRedefined" ->
           /\ st.s = "assign" /\ StructValue(p, st.rhs)
           /\ ~\E i, k \in DOMAIN info.body :
                   i < k /\ info.body[k] = st /\ info.body[i].s = "define" /\ info.body[i].x = st.x

\* The function f runs into a mistake.
MistakeIn(p, f, kind) ==
    LET info == p.funcs[f]
        again == GoesBack(info.body) \/ isTailRecursive(info, f)
    IN
    CASE kind = "namedTailCall" -> isTailRecursive(info, f) /\ info.named # <<>>
      [] kind = "deferAgain" -> again /\ \E g \in {f} \cup Reached(p.funcs, {f}) : hasDefer(p.funcs[g].body)
      [] kind = "deferInInit" -> f = Init0 /\ (hasDefer(info.body) \/ hasGoto(info.body))
      [] kind = "callersVariable" ->
           \E g \in DOMAIN p.funcs : /\ canReach(p.funcs, f, g)
                                     /\ (Used(p.funcs[g].body) \ Locals(p.funcs[g])) \cap Locals(info) # {}
      [] OTHER -> \E st \in Nested(info.body) : MistakeAt(p, info, st, kind)

MistakeKinds ==
    {"rangeLimit", "rangeKey", "postAfterLeave", "namedTailCall", "namedSwap", "returnedVariable",
     "callersVariable", "maskedParameter", "deferInCalledLoop", "deferAgain", "deferInSwitch",
     "labelTaken", "deferInInit", "structRedefined"}

Mistakes(p) == {kind \in MistakeKinds : \E f \in DOMAIN p.funcs : MistakeIn(p, f, kind)}

-----------------------------------------------------------------------------
(* The state of the lowerer: the nodes emitted, the free list and the next *)
(* new cell, the scopes, the flags, and the cells of a function that is    *)
(* being inlined.  `got' is the cell of the last value, `temp' whether the *)
(* value is a temporary, `vals' the cells of several.                      *)

NoCell == 0
NoFunc == ""

highwayStride == 8
phaseTempBase == 25
maxSentinelBumps == 8
MinSentinel == 24
MaxSentinel == MinSentinel + maxSentinelBumps * highwayStride

\* The cells up to sentinelFwd are positions of the tape; the stack slots come
\* after it, and are numbered here from FirstSlot whatever sentinelFwd is.
FirstSlot == MaxSentinel + 1

NewLowerer(funcs) ==
    [nodes |-> <<>>, freeCells |-> <<>>, nextCell |-> FirstSlot, sentinelFwd |-> MinSentinel,
     recFrameSize |-> 0, recAllocErr |-> FALSE, scopes |-> << <<>> >>, shadowing |-> <<>>,
     got |-> NoCell, temp |-> FALSE, vals |-> <<>>, funcs |-> funcs, structs |-> {}, err |-> "",
     returnDst |-> <<>>, returnFlag |-> NoCell, inFunc |-> FALSE,
     loopSkipFlag |-> NoCell, loopBreakFlag |-> NoCell, switchSkipFlag |-> NoCell,
     loopFrames |-> <<>>, pendingLabel |-> "", loopDepth |-> 0,
     gotoLabels |-> <<>>, gotoState |-> NoCell, gotoExit |-> 0,
     tailCallFunc |-> NoFunc, tailCallFlag |-> NoCell, deferredCalls |-> <<>>]

emit(l, node) == [l EXCEPT !.nodes = Append(@, node)]
emitAll(l, nodes) == [l EXCEPT !.nodes = @ \o nodes]
Fail(l, why) == [l EXCEPT !.err = IF @ = "" THEN why ELSE @]

\* A mutant of isMarkerOrAlgoTemp: the cell before a marker is used.
isMarker(l, p) == 0 < p /\ p < l.sentinelFwd /\ p % highwayStride = 0

isMarkerOrAlgoTemp(l, p) ==
    0 < p /\ p < l.sentinelFwd /\ (p % highwayStride = 0 \/ (p + 1) % highwayStride = 0)

\* The cells from `first' to `last' are taken: in a phase they belong below sentinelFwd.
take(l, first, last) ==
    [l EXCEPT !.got = first, !.nextCell = last + 1,
              !.recAllocErr = @ \/ (l.recFrameSize > 0 /\ last >= l.sentinelFwd)]

allocCell(l) ==
    IF l.freeCells # <<>> THEN [l EXCEPT !.got = Last(l.freeCells), !.freeCells = Front(@)]
    ELSE LET c == Min({p \in l.nextCell .. l.nextCell + 2 : ~isMarkerOrAlgoTemp(l, p)}) IN take(l, c, c)

\* n new cells in a row; the ones a phase passes over go to the free list.
newCells(l, n) ==
    LET clear(b) == \A p \in b .. b + n - 1 : l.recFrameSize > 0 => ~isMarkerOrAlgoTemp(l, p)
        base == Min({b \in l.nextCell .. l.nextCell + highwayStride + n : clear(b)})
        passed == [i \in 1 .. base - l.nextCell |-> l.nextCell + i - 1]
        spare == SelectSeq(passed, LAMBDA p : ~isMarkerOrAlgoTemp(l, p))
    IN  take([l EXCEPT !.freeCells = @ \o spare], base, base + n - 1)

\* The first of n cells in a row; one cell alone is always a new one.
allocCells(l, n) ==
    LET enough == n > 1 /\ Len(l.freeCells) >= n
        sorted == IF enough THEN SortSeq(l.freeCells, <) ELSE l.freeCells
        runs == {i \in 1 .. Len(sorted) - n + 1 : sorted[i + n - 1] - sorted[i] = n - 1}
    IN  IF enough /\ runs # {}
        THEN LET i == Min(runs)
             IN  [l EXCEPT !.got = sorted[i],
                           !.freeCells = SubSeq(sorted, 1, i - 1) \o SubSeq(sorted, i + n, Len(sorted))]
        ELSE newCells([l EXCEPT !.freeCells = sorted], n)

freeCell(l, c) == [l EXCEPT !.nodes = Append(@, Free(c)), !.freeCells = Append(@, c)]
freeIfTemp(l, cell, temp) == IF temp THEN freeCell(l, cell) ELSE l

emitCopyOrMove(l, dst, cell, temp) ==
    IF cell = dst THEN freeIfTemp(l, cell, temp)
    ELSE freeIfTemp(emit(l, IF temp THEN Move(dst, cell) ELSE Copy(dst, cell)), cell, temp)

ensureTemp(l) ==
    IF l.temp THEN l
    ELSE LET t == allocCell(l) IN [emit(t, Copy(t.got, l.got)) EXCEPT !.temp = TRUE]

pushScope(l) == [l EXCEPT !.scopes = Append(@, <<>>)]
popScope(l) == [l EXCEPT !.scopes = Front(@)]

define(l, x, c) == [l EXCEPT !.scopes[Len(l.scopes)] = (x :> c) @@ @]
defineVar(l, x) == LET c == allocCell(l) IN define(c, x, c.got)

\* The innermost scope that binds x, past the ones that are masked.
lookupBinding(l, x) ==
    LET masked == Cardinality({i \in DOMAIN l.shadowing : l.shadowing[i] = x})
        binding == {i \in DOMAIN l.scopes : x \in DOMAIN l.scopes[i]}
        found == {i \in binding : Cardinality({j \in binding : j > i}) = masked}
    IN  IF found = {} THEN NoCell ELSE l.scopes[Max(found)][x]

-----------------------------------------------------------------------------
(* Jumps: each sets the flags that the statements after it are guarded by. *)

Set(l, flags) == emitAll(l, [i \in DOMAIN flags |-> Const(flags[i], 1)])

emitLabeledBranch(l, label, isBreak) ==
    LET named == {i \in DOMAIN l.loopFrames : l.loopFrames[i].label = label}
        at == Max(named)
        inner == FlattenSeq([k \in 1 .. Len(l.loopFrames) - at |->
                     LET frame == l.loopFrames[Len(l.loopFrames) + 1 - k] IN <<frame.skip, frame.break>>])
    IN  IF named = {} THEN Fail(l, "label not found on enclosing loop")
        ELSE Set(l, inner \o <<l.loopFrames[at].skip>>
                    \o (IF isBreak THEN <<l.loopFrames[at].break>> ELSE <<>>))

lowerBranch(l, st) ==
    CASE st.s = "goto" ->
           IF l.gotoExit = 0 \/ st.label \notin DOMAIN l.gotoLabels THEN Fail(l, "goto outside a goto-dispatch function")
           ELSE Set(emit(l, Const(l.gotoState, l.gotoLabels[st.label])), <<l.returnFlag>>)
      [] st.s # "goto" /\ st.label # "" -> emitLabeledBranch(l, st.label, st.s = "break")
      [] st.s = "break" /\ st.label = "" /\ l.switchSkipFlag # NoCell -> Set(l, <<l.switchSkipFlag>>)
      [] st.s = "break" /\ st.label = "" /\ l.switchSkipFlag = NoCell ->
           IF l.loopSkipFlag = NoCell THEN Fail(l, "break outside loop")
           ELSE Set(l, <<l.loopSkipFlag, l.loopBreakFlag>>)
      [] st.s = "continue" /\ st.label = "" ->
           IF l.loopSkipFlag = NoCell THEN Fail(l, "continue outside loop") ELSE Set(l, <<l.loopSkipFlag>>)

\* A mutant of returnFinish: a return leaves the state of the dispatch loop alone.
returnInPlace(l) ==
    LET flagged == Set(l, <<l.returnFlag>>)
    IN  IF l.tailCallFlag # NoCell THEN emit(flagged, Zero(l.tailCallFlag)) ELSE flagged

returnFinish(l) ==
    LET flagged == Set(l, <<l.returnFlag>>)
        tail == IF l.tailCallFlag # NoCell THEN emit(flagged, Zero(l.tailCallFlag)) ELSE flagged
    IN  IF l.gotoExit # 0 THEN emit(tail, Const(l.gotoState, l.gotoExit)) ELSE tail

skipFlags(l) == SelectSeq(<<l.returnFlag, l.loopSkipFlag, l.switchSkipFlag>>, LAMBDA f : f # NoCell)

\* The cell `guard' is 1 when the flags sum to 0 in the cell that was allocated last.
notSum(l, flags, guard) ==
    LET sum == l.got
        adds == <<Binary("add", sum, flags[1], flags[2])>>
                \o [i \in 1 .. Len(flags) - 2 |-> Binary("add", sum, sum, flags[i + 2])]
    IN  [freeCell(emit(emitAll(l, adds), Not(guard, sum)), sum) EXCEPT !.got = guard]

\* A cell that is 1 when no flag is set.
emitSkipGuard(l) ==
    LET guard == allocCell(l)
        flags == skipFlags(l)
    IN  IF Len(flags) = 1 THEN emit(guard, Not(guard.got, flags[1]))
        ELSE notSum(allocCell(guard), flags, guard.got)

-----------------------------------------------------------------------------
(* A switch is a chain of ifs. *)

Tag == "$switch"

\* The body of every clause, with the clauses it falls through to.
fallthroughBodies(clauses) ==
    LET bodies[i \in 1 .. Len(clauses) + 1] ==
            IF i > Len(clauses) THEN <<>>
            ELSE LET body == clauses[i].body
                 IN  IF body # <<>> /\ Last(body).s = "fallthrough" THEN Front(body) \o bodies[i + 1] ELSE body
    IN  bodies

caseCond(vals, tagged) ==
    LET match(i) == IF tagged THEN [e |-> "binary", f |-> "eq", l |-> [e |-> "var", x |-> Tag], r |-> vals[i]]
                    ELSE vals[i]
        cond[i \in 1 .. Len(vals)] ==
            IF i = 1 THEN match(1) ELSE [e |-> "logical", f |-> "or", l |-> cond[i - 1], r |-> match(i)]
    IN  cond[Len(vals)]

buildSwitchIf(clauses, tagged) ==
    LET bodies == fallthroughBodies(clauses)
        cases == SelectSeq([i \in DOMAIN clauses |-> i], LAMBDA i : clauses[i].vals # <<>>)
        defaults == SelectSeq([i \in DOMAIN clauses |-> i], LAMBDA i : clauses[i].vals = <<>>)
        defaultBody == IF defaults = <<>> THEN <<>> ELSE bodies[defaults[1]]
        IfStmt(cond, then, else) == <<[s |-> "if", cond |-> <<cond>>, then |-> then, else |-> else]>>
        chain[k \in 1 .. Len(cases) + 1] ==
            IF k > Len(cases) THEN defaultBody
            ELSE IfStmt(caseCond(clauses[cases[k]].vals, tagged), bodies[cases[k]], chain[k + 1])
    IN  IF cases = <<>> /\ defaults # <<>> THEN IfStmt([e |-> "lit", v |-> 1], defaultBody, <<>>)
        ELSE chain[1]

-----------------------------------------------------------------------------
(* goto: the body is cut at its labels into segments. *)

splits(stmts, i) == stmts[i].s = "labeled" /\ ~IsLoop(stmts[i].stmt)

splitGotoSegments(stmts) ==
    LET cuts == <<0>> \o SelectSeq([i \in DOMAIN stmts |-> i], LAMBDA i : splits(stmts, i)) \o <<Len(stmts) + 1>>
        Stripped(i) == IF splits(stmts, i) THEN stmts[i].stmt ELSE stmts[i]
    IN  [k \in 1 .. Len(cuts) - 1 |->
            LET first == IF k = 1 THEN 1 ELSE cuts[k]
            IN  [j \in 1 .. cuts[k + 1] - first |-> Stripped(first + j - 1)]]

\* The segment that begins at each label; the one before the first label is 0.
labelToIdx(stmts) ==
    LET labels == SelectSeq(stmts, LAMBDA st : st.s = "labeled" /\ ~IsLoop(st.stmt))
    IN  [x \in {labels[k].label : k \in DOMAIN labels} |-> CHOOSE k \in DOMAIN labels : labels[k].label = x]

-----------------------------------------------------------------------------
(* Expressions and statements. *)

\* The code of an expression, a statement, the statements of a list from number
\* `from' on, or a program.
RECURSIVE lower(_, _)
lowerExpr(l, e) == lower(l, e)
lowerStmt(l, st) == lower(l, st)
lowerStmts(l, stmts, from) == lower(l, [list |-> stmts, from |-> from])

\* Puts the nodes of l after `before' under the condition that `guard' is 1.
guarded(l, before, guard) == freeCell([l EXCEPT !.nodes = Append(before, IfOnly(guard, @))], guard)

lowerStmtGuarded(l, st) ==
    LET guard == emitSkipGuard(l) IN guarded(lowerStmt([guard EXCEPT !.nodes = <<>>], st), guard.nodes, guard.got)

ListCode(l, stmts, i) ==
    IF l.err # "" \/ i > Len(stmts) THEN l
    ELSE lowerStmts(IF i > 1 /\ skipFlags(l) # <<>> THEN lowerStmtGuarded(l, stmts[i]) ELSE lowerStmt(l, stmts[i]),
                    stmts, i + 1)

\* What follows the two operands of && and ||: `result' is the state once its
\* cell was allocated, `right' the one after the right operand, in a block of its own.
joinLogical(e, left, result, right) ==
    LET moved == emitCopyOrMove(right, result.got, right.got, right.temp)
        short == <<Const(result.got, IF e.f = "or" THEN 1 ELSE 0)>>
        test == IF e.f = "or" THEN IfElseOf(left.got, short, moved.nodes) ELSE IfElseOf(left.got, moved.nodes, short)
    IN  [freeIfTemp([moved EXCEPT !.nodes = Append(result.nodes, test)], left.got, left.temp)
            EXCEPT !.got = result.got, !.temp = TRUE]

lowerLogical(l, e) ==
    LET left == lowerExpr(l, e.l)
        result == allocCell(left)
    IN  joinLogical(e, left, result, lowerExpr([result EXCEPT !.nodes = <<>>], e.r))

emitBinary(e, left, right) ==
    LET t == allocCell(right)
        done == emit(t, Binary(e.f, t.got, left.got, right.got))
    IN  [freeIfTemp(freeIfTemp(done, left.got, left.temp), right.got, right.temp)
            EXCEPT !.got = t.got, !.temp = TRUE]

lowerBinary(l, e) == LET left == lowerExpr(l, e.l) IN emitBinary(e, left, lowerExpr(left, e.r))

\* The values of expressions, in `vals'; when `owned' each is made a temporary.
lowerArgs(l, es, owned) ==
    LET arg(acc, e) == LET r == lowerExpr(acc, e)
                           v == IF owned THEN ensureTemp(r) ELSE r
                       IN  [v EXCEPT !.vals = Append(acc.vals, [cell |-> v.got, temp |-> v.temp])]
    IN  FoldLeft(arg, [l EXCEPT !.vals = <<>>], es)

moveAll(l, dsts, vals) ==
    LET move(acc, i) == emitCopyOrMove(acc, dsts[i], vals[i].cell, vals[i].temp)
    IN  FoldLeft(move, l, [i \in DOMAIN dsts |-> i])

freeAll(l, cells) == FoldLeft(freeCell, l, cells)
cellsOf(l, xs) == [i \in DOMAIN xs |-> lookupBinding(l, xs[i])]

\* A struct variable that is copied from another or from a call is made anew
\* in the current scope; x := rhs makes x before it looks at rhs.
isStruct(l, e) == e.e = "var" /\ e.x \in l.structs
returnsStruct(l, e) == e.e = "call" /\ l.funcs[e.f].struct
redefine(l, x) == LET c == allocCells(l, 1) IN define(c, x, c.got)

lowerAssign(l, st) ==
    LET declared == IF st.s # "define" THEN l
                    ELSE IF st.x \in l.structs THEN redefine(l, st.x) ELSE defineVar(l, st.x)
        shadowed == /\ st.s = "define" /\ st.x \notin l.structs
                    /\ \E i \in 1 .. Len(l.scopes) - 1 : st.x \in DOMAIN l.scopes[i]
        masked == IF shadowed THEN [declared EXCEPT !.shadowing = Append(@, st.x)] ELSE declared
        r == lowerExpr(IF isStruct(l, st.rhs) THEN redefine(declared, st.x) ELSE masked, st.rhs)
        bound == IF returnsStruct(l, st.rhs) THEN redefine(r, st.x) ELSE [r EXCEPT !.shadowing = l.shadowing]
    IN  emitCopyOrMove(bound, lookupBinding(bound, st.x), r.got, r.temp)

lowerBlock(l, stmts) == popScope(lowerStmts(pushScope([l EXCEPT !.nodes = <<>>]), stmts, 1))

lowerIf(l, st) ==
    LET cond == lowerExpr(pushScope(l), st.cond[1])
        then == lowerBlock(cond, st.then)
        else == lowerBlock(then, st.else)
        test == IF st.else = <<>> THEN IfOnly(cond.got, then.nodes) ELSE IfElseOf(cond.got, then.nodes, else.nodes)
    IN  popScope(freeIfTemp([else EXCEPT !.nodes = Append(cond.nodes, test)], cond.got, cond.temp))

lowerTag(l, st) ==
    IF st.tag = <<>> THEN l
    ELSE LET r == lowerExpr(l, st.tag[1])
             t == defineVar(r, Tag)
         IN  emitCopyOrMove(t, t.got, r.got, r.temp)

lowerSwitch(l, st) ==
    LET chain == buildSwitchIf(st.clauses, st.tag # <<>>)
        tagged == lowerTag(pushScope(l), st)
        own == \E i \in DOMAIN st.clauses : switchHasOwnBreak(st.clauses[i].body)
        flag == allocCell(tagged)
        flagged == [emit(flag, Zero(flag.got)) EXCEPT !.switchSkipFlag = flag.got]
        broken == freeCell(lowerIf(flagged, chain[1]), flag.got)
    IN  IF chain = <<>> THEN popScope(tagged)
        ELSE IF ~own THEN popScope(lowerIf(tagged, chain[1]))
        ELSE popScope([broken EXCEPT !.switchSkipFlag = l.switchSkipFlag])

enterLoop(l, skip, break) ==
    [l EXCEPT !.switchSkipFlag = NoCell, !.loopSkipFlag = skip, !.loopBreakFlag = break,
              !.loopFrames = Append(@, [label |-> l.pendingLabel, skip |-> skip, break |-> break]),
              !.pendingLabel = "", !.loopDepth = @ + 1, !.nodes = <<Zero(skip), Zero(break)>>]

pushLoopFrame(l) ==
    LET skip == allocCell(l)
        break == allocCell(skip)
    IN  enterLoop(break, skip.got, break.got)

emitLoopExitGuards(l, cond) ==
    LET stop(flag) == <<IfOnly(flag, <<Zero(cond)>>)>>
    IN  emitAll(l, stop(l.loopBreakFlag)
                   \o (IF l.inFunc /\ l.returnFlag # NoCell THEN stop(l.returnFlag) ELSE <<>>))

\* A mutant of popLoopFrame: the flags of the loop stay in force after it.
popLoopNodes(l, outer, cond) ==
    LET freed == freeCell(freeCell([l EXCEPT !.nodes = Append(outer.nodes, Loop(cond, @))],
                                   l.loopBreakFlag), l.loopSkipFlag)
    IN  freeCell([freed EXCEPT !.loopFrames = Front(@)], cond)

\* Back to the flags and nodes of `outer', with the nodes of l as the body.
popLoopFrame(l, outer, cond) ==
    LET freed == freeCell(freeCell([l EXCEPT !.nodes = Append(outer.nodes, Loop(cond, @))],
                                   l.loopBreakFlag), l.loopSkipFlag)
    IN  freeCell([freed EXCEPT !.loopSkipFlag = outer.loopSkipFlag, !.loopBreakFlag = outer.loopBreakFlag,
                               !.switchSkipFlag = outer.switchSkipFlag, !.loopFrames = Front(@)], cond)

emitCondTo(l, dst, cond) ==
    IF cond = <<>> THEN emit(l, Const(dst, 1))
    ELSE LET r == lowerExpr(l, cond[1]) IN emitCopyOrMove(r, dst, r.got, r.temp)

\* What runs between two rounds: the post statement and the condition of a for,
\* the step and the comparison of a range.
lowerNext(l, st, cond, key, limit) ==
    IF st.s = "for" THEN emitCondTo(lowerStmts(l, st.post, 1), cond, st.cond)
    ELSE emitAll(l, <<AddI(key), Binary("lt", cond, key, limit)>>)

\* A mutant of lowerBetween: what follows the loop still counts as inside it.
lowerBetweenInside(l, st, cond, key, limit) ==
    LET guard == allocCell(emit(l, Zero(l.loopSkipFlag)))
    IN  guarded(lowerNext([guard EXCEPT !.nodes = <<>>], st, cond, key, limit),
                Append(guard.nodes, Not(guard.got, l.loopBreakFlag)), guard.got)

\* Between two rounds: l is what the body left.
lowerBetween(l, st, cond, key, limit) ==
    LET guard == allocCell(emit([l EXCEPT !.loopDepth = @ - 1], Zero(l.loopSkipFlag)))
    IN  guarded(lowerNext([guard EXCEPT !.nodes = <<>>], st, cond, key, limit),
                Append(guard.nodes, Not(guard.got, l.loopBreakFlag)), guard.got)

lowerLoop(l, st, cond, key, limit) ==
    LET body == popScope(lowerStmts(pushScope(pushLoopFrame(l)), st.body, 1))
    IN  popLoopFrame(emitLoopExitGuards(lowerBetween(body, st, cond, key, limit), cond), l, cond)

lowerFor(l, st) ==
    LET init == lowerStmts(pushScope(l), st.init, 1)
        cond == allocCell(init)
    IN  popScope(lowerLoop(emitCondTo(cond, cond.got, st.cond), st, cond.got, NoCell, NoCell))

lowerRange(l, st) ==
    LET key == defineVar(pushScope(l), st.key)
        limit == lowerExpr(key, st.limit)
        cond == allocCell(emit(limit, Zero(key.got)))
        test == emit(cond, Binary("lt", cond.got, key.got, limit.got))
    IN  popScope(freeIfTemp(lowerLoop(test, st, cond.got, key.got, limit.got), limit.got, limit.temp))

lowerLabeledStmt(l, st) ==
    IF ~IsLoop(st.stmt) THEN Fail(l, "label must be at the function-body top level")
    ELSE [lowerStmt([l EXCEPT !.pendingLabel = st.label], st.stmt) EXCEPT !.pendingLabel = l.pendingLabel]

\* On to the next segment, unless the segment jumped: notRet was allocated last.
advance(l, i) ==
    freeCell(emitAll(l, <<Not(l.got, l.returnFlag), IfOnly(l.got, <<Const(l.gotoState, i)>>)>>), l.got)

testState(l, before, i, match, idx) ==
    freeCell(freeCell([l EXCEPT !.nodes = before \o <<Const(idx, i - 1), Binary("eq", match, l.gotoState, idx),
                                                     IfOnly(match, @)>>], match), idx)

\* Segment number i, which runs in a round in which the state cell chooses it.
lowerSegment(l, segment, i) ==
    LET match == allocCell(l)
        idx == allocCell(match)
        body == lowerStmts([idx EXCEPT !.nodes = <<Zero(l.returnFlag)>>], segment, 1)
    IN  testState(advance(allocCell(body), i), l.nodes, i, match.got, idx.got)

\* Another round unless the state is past the last segment, n: exit was allocated last.
gotoAgain(l, n, cond) ==
    freeCell(emitAll(l, <<Const(l.got, n), Binary("neq", cond, l.gotoState, l.got)>>), l.got)

lowerGotoDispatch(l, stmts) ==
    LET segments == splitGotoSegments(stmts)
        state == allocCell(l)
        cond == allocCell(state)
        entered == [cond EXCEPT !.nodes = <<Zero(l.returnFlag)>>, !.gotoLabels = labelToIdx(stmts),
                                !.gotoState = state.got, !.gotoExit = Len(segments)]
        segment(acc, i) == lowerSegment(acc, segments[i], i)
        body == FoldLeft(segment, entered, [i \in DOMAIN segments |-> i])
        before == l.nodes \o <<Zero(state.got), Const(cond.got, 1)>>
        loop == [gotoAgain(allocCell(body), Len(segments), cond.got) EXCEPT
                    !.nodes = Append(before, Loop(cond.got, @)), !.gotoLabels = l.gotoLabels,
                    !.gotoState = l.gotoState, !.gotoExit = l.gotoExit]
    IN  freeCell(freeCell(loop, cond.got), state.got)

lowerTailCall(l, call) ==
    LET r == lowerArgs(l, call.args, TRUE)
        params == cellsOf(r, l.funcs[call.f].params)
    IN  Set(emitAll(r, [i \in DOMAIN params |-> Move(params[i], r.vals[i].cell)]),
            <<l.tailCallFlag, l.returnFlag>>)

\* Several results are written one after the other.
lowerResults(l, es) ==
    LET result(acc, i) == LET r == lowerExpr(acc, es[i])
                          IN  emitCopyOrMove(r, l.returnDst[i], r.got, r.temp)
    IN  FoldLeft(result, l, [i \in DOMAIN es |-> i])

lowerReturn(l, st) ==
    IF l.tailCallFunc # NoFunc /\ Len(st.results) = 1 /\ st.results[1].e = "call" /\ st.results[1].f = l.tailCallFunc
    THEN lowerTailCall(l, st.results[1])
    ELSE IF Len(st.results) = 1 /\ isStruct(l, st.results[1])
    THEN returnFinish(emit(l, Move(l.returnDst[1], lookupBinding(l, st.results[1].x))))
    ELSE returnFinish(lowerResults(l, st.results))

lowerCall(l, f, args) ==
    IF f = Putchar
    THEN LET r == lowerExpr(l, args[1]) IN freeIfTemp(emit(r, Putc(r.got)), r.got, r.temp)
    ELSE LET called == lowerExpr(l, [e |-> "call", f |-> f, args |-> args]) IN freeAll(called, called.vals)

lowerAssignCall(l, st) ==
    LET called == lowerExpr(l, [e |-> "call", f |-> st.f, args |-> st.args])
        dsts == cellsOf(called, st.xs)
    IN  freeAll(emitAll(called, [i \in DOMAIN dsts |-> Move(dsts[i], called.vals[i])]), called.vals)

lowerTuple(l, st) ==
    LET r == lowerArgs(l, st.results, TRUE) IN moveAll(r, cellsOf(r, st.xs), r.vals)

\* The call is lowered where the defer is, and its nodes are put at the end.
lowerDefer(l, st) ==
    LET flag == allocCells(l, 1)
        capture(acc, e) ==
            LET r == lowerExpr(acc, e)
                c == allocCell(r)
            IN  [emitCopyOrMove(c, c.got, r.got, r.temp) EXCEPT !.vals = Append(acc.vals, c.got)]
        captured == FoldLeft(capture, [emit(flag, Const(flag.got, 1)) EXCEPT !.vals = <<>>], st.args)
        args == [i \in DOMAIN captured.vals |-> [e |-> "cell", cell |-> captured.vals[i]]]
        call == lowerCall([captured EXCEPT !.nodes = <<>>], st.f, args)
    IN  IF l.loopDepth > 0 THEN Fail(l, "defer inside a loop is not supported")
        ELSE [call EXCEPT !.nodes = captured.nodes,
                          !.deferredCalls = Append(@, IfOnly(flag.got, call.nodes))]

emitDeferred(l) == emitAll(l, Reverse(l.deferredCalls))

-----------------------------------------------------------------------------
(* Functions. *)

bindParams(l, params, vals) ==
    LET bind(acc, i) == LET c == defineVar(acc, params[i]) IN emit(c, Copy(c.got, vals[i].cell))
    IN  FoldLeft(bind, l, [i \in DOMAIN params |-> i])

allocReturnCells(l, n) ==
    LET base == IF n > 1 THEN allocCells(l, n) ELSE allocCell(l)
        cells == [i \in 1 .. n |-> base.got + i - 1]
    IN  IF n = 0 THEN [l EXCEPT !.vals = <<>>]
        ELSE [emitAll(base, [i \in DOMAIN cells |-> Zero(cells[i])]) EXCEPT !.vals = cells]

returnFlagFor(l, body) ==
    LET flag == allocCell(l)
    IN  IF hasReturn(body) \/ hasGoto(body) THEN [emit(flag, Zero(flag.got)) EXCEPT !.returnFlag = flag.got]
        ELSE [l EXCEPT !.returnFlag = NoCell]

lowerTailRecFunc(l, f, body) ==
    LET flag == allocCell(l)
        round == lowerStmts([flag EXCEPT !.tailCallFunc = f, !.tailCallFlag = flag.got,
                                         !.nodes = <<Zero(l.returnFlag)>>], body, 1)
    IN  freeCell([round EXCEPT !.nodes = l.nodes \o <<Const(flag.got, 1), Loop(flag.got, @)>>,
                               !.tailCallFunc = NoFunc, !.tailCallFlag = NoCell], flag.got)

lowerBody(l, f, info) ==
    CASE isTailRecursive(info, f) -> IF hasGoto(info.body) THEN Fail(l, "goto in tail-recursive function")
                                     ELSE lowerTailRecFunc(l, f, info.body)
      [] ~isTailRecursive(info, f) /\ hasGoto(info.body) -> lowerGotoDispatch(l, info.body)
      [] OTHER -> lowerStmts(l, info.body, 1)

freeReturnFlag(l) == IF l.returnFlag = NoCell THEN l ELSE freeCell(l, l.returnFlag)

inlineCall(l, f, args) ==
    LET info == l.funcs[f]
        evaluated == lowerArgs(l, args, FALSE)
        bound == bindParams(pushScope(evaluated), info.params, evaluated.vals)
        temps == SelectSeq(evaluated.vals, LAMBDA v : v.temp)
        results == allocReturnCells(freeAll(bound, [i \in DOMAIN temps |-> temps[i].cell]), info.returns)
        name(acc, i) == define(acc, info.named[i], results.vals[i])
        named == FoldLeft(name, results, [i \in DOMAIN info.named |-> i])
        entered == [returnFlagFor(named, info.body) EXCEPT !.returnDst = results.vals, !.inFunc = TRUE,
                                                          !.deferredCalls = <<>>]
        left == freeReturnFlag(emitDeferred(lowerBody(entered, f, info)))
    IN  popScope([left EXCEPT !.returnDst = l.returnDst, !.returnFlag = l.returnFlag, !.inFunc = l.inFunc,
                              !.tailCallFunc = l.tailCallFunc, !.tailCallFlag = l.tailCallFlag,
                              !.deferredCalls = l.deferredCalls, !.vals = results.vals])

resultOf(l) == [l EXCEPT !.got = IF l.vals = <<>> THEN NoCell ELSE l.vals[1], !.temp = TRUE]
lowerCallExpr(l, e) == resultOf(inlineCall(l, e.f, e.args))

emitNot(operand) ==
    LET t == allocCell(operand)
    IN  [freeIfTemp(emit(t, Not(t.got, operand.got)), operand.got, operand.temp) EXCEPT !.got = t.got, !.temp = TRUE]
emitLit(l, v) == LET t == allocCell(l) IN [emit(t, Const(t.got, v)) EXCEPT !.temp = TRUE]

ExprCode(l, e) ==
    CASE e.e = "lit" -> emitLit(l, e.v)
      [] e.e = "var" -> [l EXCEPT !.got = lookupBinding(l, e.x), !.temp = FALSE]
      [] e.e = "cell" -> [l EXCEPT !.got = e.cell, !.temp = FALSE]
      [] e.e = "not" -> emitNot(lowerExpr(l, e.l))
      [] e.e = "binary" -> lowerBinary(l, e)
      [] e.e = "logical" -> lowerLogical(l, e)
      [] e.e = "call" -> lowerCallExpr(l, e)

StmtCode(l, st) ==
    CASE st.s = "call" -> lowerCall(l, st.f, st.args)
      [] st.s \in {"define", "assign"} -> lowerAssign(l, st)
      [] st.s = "tuple" -> lowerTuple(l, st)
      [] st.s = "assignCall" -> lowerAssignCall(l, st)
      [] st.s = "inc" -> emit(l, AddI(lookupBinding(l, st.x)))
      [] st.s = "if" -> lowerIf(l, st)
      [] st.s = "switch" -> lowerSwitch(l, st)
      [] st.s = "for" -> lowerFor(l, st)
      [] st.s = "range" -> lowerRange(l, st)
      [] st.s \in {"break", "continue", "goto"} -> lowerBranch(l, st)
      [] st.s = "labeled" -> lowerLabeledStmt(l, st)
      [] st.s = "block" -> popScope(lowerStmts(pushScope(l), st.body, 1))
      [] st.s = "return" -> lowerReturn(l, st)
      [] st.s = "defer" -> lowerDefer(l, st)

-----------------------------------------------------------------------------
(* A program: its variables, init and main. *)

lowerInit(l) ==
    IF Init0 \notin DOMAIN l.funcs THEN l
    ELSE LET body == l.funcs[Init0].body
             flag == allocCell(pushScope(l))
             entered == IF hasReturn(body) THEN [emit(flag, Zero(flag.got)) EXCEPT !.returnFlag = flag.got]
                        ELSE pushScope(l)
             left == freeReturnFlag(lowerStmts([entered EXCEPT !.inFunc = TRUE], body, 1))
         IN  popScope([left EXCEPT !.returnFlag = NoCell, !.inFunc = FALSE])

ProgramCode(l, p) ==
    LET globals == lowerStmts(l, p.globals, 1)
        main == p.funcs[Main]
        entered == returnFlagFor(lowerInit(globals), main.body)
    IN  freeReturnFlag(emitDeferred(lowerBody([entered EXCEPT !.inFunc = TRUE], Main, main)))

lower(l, x) ==
    CASE "e" \in DOMAIN x -> ExprCode(l, x)
      [] "s" \in DOMAIN x -> StmtCode(l, x)
      [] "list" \in DOMAIN x -> ListCode(l, x.list, x.from)
      [] "funcs" \in DOMAIN x -> ProgramCode(l, x)

Lower(p) == lower([NewLowerer(p.funcs) EXCEPT !.structs = p.structs], p)

-----------------------------------------------------------------------------
(* What the Go program does: a reference interpreter.  `sig' is "next", or *)
(* the jump under way, with its label; a function has scopes of its own    *)
(* and sees beside them only the variables of the program.                 *)

NewGo(funcs) ==
    [globals |-> <<>>, scopes |-> <<>>, out |-> <<>>, sig |-> "next", label |-> "", val |-> 0, vals |-> <<>>,
     defers |-> <<>>, fuel |-> Fuel, funcs |-> funcs]

goScope(g, x) == {i \in DOMAIN g.scopes : x \in DOMAIN g.scopes[i]}
goValue(g, x) == IF goScope(g, x) = {} THEN g.globals[x] ELSE g.scopes[Max(goScope(g, x))][x]
goAssign(g, x, v) ==
    IF goScope(g, x) = {} THEN [g EXCEPT !.globals = (x :> v) @@ @]
    ELSE [g EXCEPT !.scopes[Max(goScope(g, x))] = (x :> v) @@ @]
goDefine(g, x, v) ==
    IF g.scopes = <<>> THEN [g EXCEPT !.globals = (x :> v) @@ @]
    ELSE [g EXCEPT !.scopes[Len(g.scopes)] = (x :> v) @@ @]
goAssignAll(g, xs, vs) == FoldLeft(LAMBDA acc, i : goAssign(acc, xs[i], vs[i]), g, [i \in DOMAIN xs |-> i])
goPush(g) == [g EXCEPT !.scopes = Append(@, <<>>)]
goPop(g) == [g EXCEPT !.scopes = Front(@)]
Jump(g, sig, label) == [g EXCEPT !.sig = sig, !.label = label]

RECURSIVE go(_, _), goLoop(_, _, _, _, _), goClauses(_, _, _), goDeferred(_)
goExpr(g, e) == go(g, e)
goStmts(g, stmts, from) == go(g, [list |-> stmts, from |-> from])
goStmt(g, st) == go([g EXCEPT !.fuel = @ - 1], st)

goArgs(g, es) ==
    LET arg(acc, e) == LET r == goExpr(acc, e) IN [r EXCEPT !.vals = Append(acc.vals, r.val)]
    IN  FoldLeft(arg, [g EXCEPT !.vals = <<>>], es)

goDeferred(g) ==
    IF g.defers = <<>> THEN g
    ELSE LET d == Last(g.defers)
             args == [i \in DOMAIN d.vals |-> [e |-> "lit", v |-> d.vals[i]]]
         IN  goDeferred(go([g EXCEPT !.defers = Front(@)], [e |-> "call", f |-> d.f, args |-> args]))

goCall(g, f, args) ==
    LET a == goArgs(g, args)
        info == g.funcs[f]
        frame == [x \in Range(info.params) \cup Range(info.named) |->
                    IF x \in Range(info.params) THEN a.vals[CHOOSE i \in DOMAIN info.params : info.params[i] = x] ELSE 0]
        ran == goStmts([a EXCEPT !.scopes = <<frame>>, !.defers = <<>>, !.vals = <<>>], info.body, 1)
        bare == ran.vals = <<>> /\ info.named # <<>>
        vals == IF bare THEN [i \in DOMAIN info.named |-> goValue(ran, info.named[i])] ELSE ran.vals
        ended == goDeferred(Jump(ran, "next", ""))
    IN  IF f = Putchar THEN [a EXCEPT !.out = Append(@, a.vals[1])]
        ELSE [ended EXCEPT !.scopes = g.scopes, !.defers = g.defers, !.vals = vals]

goBlock(g, stmts) == goPop(goStmts(goPush(g), stmts, 1))

\* One more round of a loop; a range counts to a limit read once, in `key'.
goLoop(g, st, label, key, limit) ==
    LET test == IF st.s = "range" THEN [g EXCEPT !.val = IF key < limit THEN 1 ELSE 0]
                ELSE IF st.cond = <<>> THEN [g EXCEPT !.val = 1] ELSE goExpr(g, st.cond[1])
        body == goBlock(IF st.s = "range" THEN goAssign(test, st.key, key) ELSE test, st.body)
        mine == body.label \in {"", label}
        goesOn == body.sig = "next" \/ (body.sig = "continue" /\ mine)
        next == Jump(body, "next", "")
        post == IF st.s = "for" THEN goStmts(next, st.post, 1) ELSE next
    IN  IF test.val = 0 THEN test
        ELSE IF goesOn THEN goLoop(post, st, label, key + 1, limit)
        ELSE IF body.sig = "break" /\ mine THEN next ELSE body

goFor(g, st, label) ==
    LET init == goPush(g)
        limit == goExpr(init, st.limit)
    IN  IF st.s = "for" THEN goPop(goLoop(goStmts(init, st.init, 1), st, label, 0, 0))
        ELSE goPop(goLoop(goDefine(limit, st.key, 0), st, label, 0, limit.val))

\* The first clause with a value that matches, or the default, and those it
\* falls through to; the values of cases have no effect.
goClauses(g, clauses, k) ==
    LET ran == goBlock(g, clauses[k].body)
    IN  IF ran.sig = "fallthrough" THEN goClauses(Jump(ran, "next", ""), clauses, k + 1) ELSE ran

goSwitch(g, st) ==
    LET tag == goPush(IF st.tag = <<>> THEN g ELSE goExpr(g, st.tag[1]))
        matches(e) == IF st.tag = <<>> THEN goExpr(tag, e).val # 0 ELSE goExpr(tag, e).val = tag.val
        matching == {k \in DOMAIN st.clauses : \E e \in Range(st.clauses[k].vals) : matches(e)}
        default == {k \in DOMAIN st.clauses : st.clauses[k].vals = <<>>}
        done == IF matching \cup default = {} THEN tag
                ELSE goClauses(tag, st.clauses, Min(IF matching # {} THEN matching ELSE default))
    IN  goPop(IF done.sig = "break" /\ done.label = "" THEN Jump(done, "next", "") ELSE done)

goExec(g, st) ==
    CASE st.s = "call" -> [goCall(g, st.f, st.args) EXCEPT !.vals = g.vals]
      [] st.s = "define" -> LET r == goExpr(g, st.rhs) IN goDefine(r, st.x, r.val)
      [] st.s = "assign" -> LET r == goExpr(g, st.rhs) IN goAssign(r, st.x, r.val)
      [] st.s = "tuple" -> LET r == goArgs(g, st.results)
                             IN  [goAssignAll(r, st.xs, r.vals) EXCEPT !.vals = g.vals]
      [] st.s = "assignCall" -> LET r == goCall(g, st.f, st.args)
                                  IN  [goAssignAll(r, st.xs, r.vals) EXCEPT !.vals = g.vals]
      [] st.s = "inc" -> goAssign(g, st.x, (goValue(g, st.x) + 1) % Mod)
      [] st.s = "if" -> LET c == goExpr(g, st.cond[1])
                             IN  goBlock(c, IF c.val # 0 THEN st.then ELSE st.else)
      [] st.s = "switch" -> goSwitch(g, st)
      [] IsLoop(st) -> goFor(g, st, "none")
      [] st.s = "labeled" -> IF IsLoop(st.stmt) THEN goFor(g, st.stmt, st.label) ELSE goStmt(g, st.stmt)
      [] st.s \in {"break", "continue", "goto"} -> Jump(g, st.s, st.label)
      [] st.s = "fallthrough" -> Jump(g, st.s, "")
      [] st.s = "block" -> goBlock(g, st.body)
      [] st.s = "return" -> Jump(goArgs(g, st.results), "return", "")
      [] st.s = "defer" ->
           LET r == goArgs(g, st.args)
           IN  [r EXCEPT !.defers = Append(@, [f |-> st.f, vals |-> r.vals]), !.vals = g.vals]

goEval(g, e) ==
    CASE e.e = "lit" -> [g EXCEPT !.val = e.v]
      [] e.e = "var" -> [g EXCEPT !.val = goValue(g, e.x)]
      [] e.e = "not" -> LET r == goExpr(g, e.l) IN [r EXCEPT !.val = NotOf(r.val)]
      [] e.e = "binary" -> LET l == goExpr(g, e.l)
                               r == goExpr(l, e.r)
                           IN  [r EXCEPT !.val = Fn[e.f][<<l.val, r.val>>]]
      [] e.e = "logical" -> LET l == goExpr(g, e.l)
                            IN  IF (l.val # 0) = (e.f = "or") THEN l ELSE goExpr(l, e.r)
      [] e.e = "call" -> LET c == goCall(g, e.f, e.args)
                         IN  [c EXCEPT !.val = IF c.vals = <<>> THEN 0 ELSE c.vals[1]]

\* A goto goes on at its label, in this list or in one around it.
goList(g, stmts, i) ==
    LET at == {k \in DOMAIN stmts : stmts[k].s = "labeled" /\ stmts[k].label = g.label}
    IN  IF g.sig = "goto" /\ at # {} THEN goStmts(Jump(g, "next", ""), stmts, Min(at))
        ELSE IF g.sig # "next" \/ i > Len(stmts) THEN g
        ELSE goStmts(goStmt(g, stmts[i]), stmts, i + 1)

goProgram(g, p) ==
    LET globals == goStmts(g, p.globals, 1)
        began == IF Init0 \in DOMAIN p.funcs THEN goCall(globals, Init0, <<>>) ELSE globals
    IN  goCall(began, Main, <<>>)

go(g, x) ==
    CASE g.fuel = 0 -> Jump(g, "spent", "")
      [] g.fuel # 0 /\ "e" \in DOMAIN x -> goEval(g, x)
      [] g.fuel # 0 /\ "s" \in DOMAIN x -> goExec(g, x)
      [] g.fuel # 0 /\ "list" \in DOMAIN x -> goList(g, x.list, x.from)
      [] g.fuel # 0 /\ "funcs" \in DOMAIN x -> goProgram(g, x)

Go(p) == go(NewGo(p.funcs), p)

-----------------------------------------------------------------------------
(* The machine: one action per node. *)

Node == Head(todo)
At(op) == todo # <<>> /\ Node.op = op
Continue(nodes) == todo' = nodes \o Tail(todo) /\ UNCHANGED <<running, expected, err>>
Silent == Continue(<<>>) /\ UNCHANGED out

ExecConst == At("const") /\ MemConst(Node.d, Node.v) /\ Silent
ExecAddI == At("addi") /\ MemAddI(Node.d, 1) /\ Silent
ExecCopy == At("copy") /\ MemCopy(Node.d, Node.a) /\ Silent
ExecMove == At("move") /\ MemMove(Node.d, Node.a, FALSE) /\ Silent
ExecNot == At("not") /\ MemNot(Node.d, Node.a) /\ Silent
ExecBinary == At("binary") /\ MemBinary(Node.d, Node.a, Node.b, Fn[Node.f]) /\ Silent
ExecFree == At("free") /\ MemFree(Node.a) /\ Silent
ExecPutc == At("putc") /\ MemRead(Node.a) /\ out' = Append(out, mem[Node.a]) /\ Continue(<<>>)
\* Without Else the condition is used up, unless it is a register: a copy of its slot.
ExecIf ==
    /\ At("if") /\ MemRead(Node.a) /\ UNCHANGED out
    /\ Continue(IF mem[Node.a] # 0
                THEN Node.then \o (IF Node.else = <<>> /\ Node.a < FirstSlot THEN <<Zero(Node.a)>> ELSE <<>>)
                ELSE FlattenSeq(Node.else))
ExecLoop ==
    /\ At("loop") /\ MemRead(Node.a) /\ UNCHANGED out
    /\ Continue(IF mem[Node.a] # 0 THEN Append(Node.body, Node) ELSE <<>>)

Exec ==
    \/ ExecConst \/ ExecAddI \/ ExecCopy \/ ExecMove \/ ExecNot \/ ExecBinary \/ ExecFree
    \/ ExecPutc \/ ExecIf \/ ExecLoop

Run(l, g) ==
    /\ g.fuel # 0
    /\ running' = TRUE
    /\ todo' = IF l.err = "" THEN l.nodes ELSE <<>>
    /\ expected' = g.out
    /\ err' = l.err
    /\ UNCHANGED <<mem, live, out>>

End ==
    /\ running /\ todo = <<>>
    /\ mem' = [c \in Cells |-> 0] /\ live' = Cells
    /\ running' = FALSE /\ todo' = <<>> /\ out' = <<>> /\ expected' = <<>> /\ err' = ""

Init ==
    /\ MemInit
    /\ running = FALSE /\ todo = <<>> /\ out = <<>> /\ expected = <<>> /\ err = ""

-----------------------------------------------------------------------------
TypeOK ==
    /\ MemTypeOK
    /\ running \in BOOLEAN
    /\ out \in Seq(Byte) /\ expected \in Seq(Byte)

\* The code prints what the program prints.
SameOutput ==
    err = "" => /\ IsPrefix(out, expected)
                /\ todo = <<>> => out = expected

\* No node reads a cell that was given back and not written since.
Sources == {Node[k] : k \in DOMAIN Node \cap {"a", "b"}} \cup (IF Node.op \in {"addi", "subi"} THEN {Node.d} ELSE {})
ReadsLive == todo # <<>> /\ Node.op # "free" => Sources \subseteq live

\* A valid program is not rejected.
Accepted == err = ""

\* The code comes to its end.
Ends == running ~> todo = <<>>
=============================================================================
