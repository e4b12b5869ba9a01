----------------------------- MODULE PhaseCode -----------------------------
(***************************************************************************)
(* Recursive functions: src/lowerer_rec.go, with the retry of              *)
(* src/compiler.go.                                                        *)
(*                                                                         *)
(* The body of a recursive function is cut at its recursive calls into     *)
(* phases.  A dispatch loop runs the phase that the topmost stack frame    *)
(* asks for until no frame is active.  The variables are in the frame: a   *)
(* phase copies the ones it uses into cells of a small pool, and copies    *)
(* them back before a call.  When the pool is too small the program is     *)
(* lowered again with a larger one.                                        *)
(*                                                                         *)
(* The rest of the language is ControlFlow's.  A program calls a recursive *)
(* function from the statements of main, outside its loops and branches.   *)
(***************************************************************************)
EXTENDS ControlFlow

VARIABLES
    frames,     \* the stack frames, one after the other
    sentinelFwd \* the end of the pool of the program that runs

phaseVars == <<vars, frames, sentinelFwd>>

-----------------------------------------------------------------------------
(* More nodes.  The topmost frame has `size' slots, numbered from 0.       *)

SubI(d) == [op |-> "subi", d |-> d]
FramePush(size) == [op |-> "push", size |-> size]
FramePop(size) == [op |-> "pop", size |-> size]
LoadFrame(d, slot, size) == [op |-> "load", d |-> d, slot |-> slot, size |-> size]
StoreFrame(slot, a, size) == [op |-> "store", slot |-> slot, a |-> a, size |-> size]
Dispatch(a, size, phases) == [op |-> "dispatch", a |-> a, size |-> size, phases |-> phases]

-----------------------------------------------------------------------------
(* The frame of a function: its phase, its result, the parameters, the     *)
(* named results, the locals, the arguments of its defers.                 *)

slotPhase == 0
paramBase == 2
TooManyLocals == "too many local variables in recursive function"

RECURSIVE DeferredArgs(_)
DeferredArgs(stmts) ==
    FlattenSeq([i \in DOMAIN stmts |-> IF stmts[i].s = "defer" THEN stmts[i].args ELSE DeferredArgs(Parts(stmts[i]))])

addLocal(rc, x) ==
    IF x \in DOMAIN rc.locals THEN rc
    ELSE [rc EXCEPT !.locals = (x :> rc.frameSize) @@ @, !.frameSize = @ + 1]

collectLocals(rc, body) ==
    LET tags == {Tag : st \in {x \in Nested(body) : x.s = "switch" /\ x.tag # <<>>}}
    IN  FoldSet(LAMBDA x, acc : addLocal(acc, x), rc, Defined(body) \cup tags)

\* The cells of the results: positions of the pool that codegen leaves alone.
retRegs(l, n) ==
    SubSeq(SelectSeq([i \in 1 .. 3 * n |-> phaseTempBase + i], LAMBDA p : ~isMarkerOrAlgoTemp(l, p)), 1, n)

newContext(l, f, info) ==
    LET empty == [f |-> f, named |-> info.named, locals |-> <<>>, frameSize |-> paramBase,
                  activeReg |-> phaseTempBase, retReg |-> retRegs(l, info.returns), noRetFlag |-> NoCell,
                  captureSlot |-> 0, deferredCalls |-> <<>>]
        rc == collectLocals(FoldLeft(addLocal, empty, info.params \o info.named), info.body)
    IN  [rc EXCEPT !.captureSlot = rc.frameSize, !.frameSize = @ + Len(DeferredArgs(info.body))]

phaseCodeBase(rc) == 1 + (IF rc.retReg = <<>> THEN rc.activeReg ELSE Last(rc.retReg))

-----------------------------------------------------------------------------
(* Cutting a body at its recursive calls.  A call site has the arguments,  *)
(* the variables for the results, the statements before it, and the        *)
(* variable that says whether the call is made ("" when it always is).     *)

Guard(c, stmts) == [s |-> "if", cond |-> <<c>>, then |-> stmts, else |-> <<>>]
VarOf(x) == [e |-> "var", x |-> x]
AssignTo(x, e) == [s |-> "assign", x |-> x, rhs |-> e]
ReturnOf(es) == [s |-> "return", results |-> es]

Operands(e) ==
    CASE e.e = "call" -> e.args
      [] e.e \in {"binary", "logical"} -> <<e.l, e.r>>
      [] e.e = "not" -> <<e.l>>
      [] OTHER -> <<>>

\* The calls of f in expressions, the outer before the inner.
RECURSIVE recCalls(_, _)
recCalls(f, es) ==
    FlattenSeq([i \in DOMAIN es |-> (IF es[i].e = "call" /\ es[i].f = f THEN <<es[i]>> ELSE <<>>)
                                    \o recCalls(f, Operands(es[i]))])

\* x.e with a variable in place of every recursive call; the calls in x.calls.
\* `done' is x with its operands, in `es', treated in this way.
RECURSIVE extractRecCalls(_)
replaceCall(done, x) ==
    LET tmp == "$recursive_" \o ToString(Len(done.calls))
    IN  CASE x.e.e = "call" /\ x.e.f = x.rc.f ->
               [done EXCEPT !.rc = addLocal(@, tmp), !.calls = Append(@, [args |-> done.es, x |-> tmp]),
                            !.e = VarOf(tmp), !.es = x.es]
          [] x.e.e = "call" /\ x.e.f # x.rc.f -> [done EXCEPT !.e = [x.e EXCEPT !.args = done.es], !.es = x.es]
          [] x.e.e \in {"binary", "logical"} ->
               [done EXCEPT !.e = [x.e EXCEPT !.l = done.es[1], !.r = done.es[2]], !.es = x.es]
          [] x.e.e = "not" -> [done EXCEPT !.e = [x.e EXCEPT !.l = done.es[1]], !.es = x.es]
          [] OTHER -> x

extractRecCalls(x) ==
    LET operand(acc, e) == LET r == extractRecCalls([acc EXCEPT !.e = e]) IN [r EXCEPT !.es = Append(acc.es, r.e)]
    IN  replaceCall(FoldLeft(operand, [x EXCEPT !.es = <<>>], Operands(x.e)), x)

\* The call sites of a statement, which afterwards is st with x.e for its expression.
severalSites(acc, st, x, cond) ==
    LET site(i) == [args |-> x.calls[i].args, vars |-> <<x.calls[i].x>>, pre |-> IF i = 1 THEN acc.pre ELSE <<>>,
                    cond |-> cond]
    IN  [acc EXCEPT !.rc = x.rc, !.sites = @ \o [i \in DOMAIN x.calls |-> site(i)],
                    !.pre = <<IF st.s = "return" THEN ReturnOf(<<x.e>>) ELSE AssignTo(st.x, x.e)>>]

\* One call, the results of which go to the variables xs.
oneSite(acc, rc, args, xs, cond, tail) ==
    [acc EXCEPT !.rc = rc, !.pre = tail,
                !.sites = Append(@, [args |-> args, vars |-> xs, pre |-> acc.pre, cond |-> cond])]

\* acc after a statement with recursive calls, when its form is known.
processRecStmt(acc, st, cond) ==
    LET f == acc.rc.f
        Direct(e) == e.e = "call" /\ e.f = f /\ Len(recCalls(f, <<e>>)) = 1
        extract(e) == extractRecCalls([rc |-> acc.rc, calls |-> <<>>, es |-> <<>>, e |-> e])
        bare == recCalls(f, <<[e |-> "call", f |-> st.f, args |-> st.args]>>)
    IN  CASE st.s \in {"define", "assign"} /\ Direct(st.rhs) ->
               oneSite(acc, acc.rc, st.rhs.args, <<st.x>>, cond, <<>>)
          [] st.s = "assignCall" /\ st.f = f /\ recCalls(f, st.args) = <<>> ->
               oneSite(acc, acc.rc, st.args, st.xs, cond, <<>>)
          [] st.s = "return" /\ Len(st.results) = 1 /\ Direct(st.results[1]) ->
               oneSite(acc, addLocal(acc.rc, "$tailret"), st.results[1].args, <<"$tailret">>, cond,
                       <<ReturnOf(<<VarOf("$tailret")>>)>>)
          [] (st.s \in {"define", "assign"} /\ ~Direct(st.rhs))
             \/ (st.s = "return" /\ Len(st.results) = 1 /\ ~Direct(st.results[1])) ->
               severalSites(acc, st, extract(Exprs(st)[1]), cond)
          [] st.s = "call" /\ Len(bare) = 1 ->
               oneSite(acc, addLocal(acc.rc, "$void"), bare[1].args, <<"$void">>, cond, <<>>)
          [] OTHER -> [acc EXCEPT !.err = TRUE]

recurses(acc, stmts) == acc.rc.f \in Calls(stmts)
addStmt(acc, st, cond) ==
    IF recurses(acc, <<st>>) THEN processRecStmt(acc, st, cond) ELSE [acc EXCEPT !.pre = Append(@, st)]

\* An if with recursive calls in both branches, or in one and after it: the
\* condition is kept in the frame, the calls of the first branch depend on it.
RECURSIVE flattenIfBothRec(_, _, _)
flattenIfBothRec(acc, st, rest) ==
    LET x == "$ifcond_" \o ToString(acc.rc.frameSize)
        test == [s |-> "define", x |-> x, rhs |-> st.cond[1]]
        began == [acc EXCEPT !.rc = addLocal(@, x), !.pre = Append(@, test)]
        then == FoldLeft(LAMBDA a, s : addStmt(a, s, x), began, st.then)
        guarded1 == IF then.pre = <<>> THEN then ELSE [then EXCEPT !.pre = <<Guard(VarOf(x), @)>>]
        other(a, s) == IF s.s = "if" /\ recurses(a, <<s>>) THEN flattenIfBothRec(a, s, <<>>) ELSE addStmt(a, s, "")
    IN  FoldLeft(other, guarded1, st.else \o rest)

\* A switch is made a chain of ifs; an if with calls in one branch only is
\* made a guard for the other branch, which has to return.
RECURSIVE splitAtCalls(_, _)
splitIf(acc, st, rest) ==
    LET inThen == recurses(acc, st.then)
        inElse == recurses(acc, st.else)
        after == recurses(acc, rest)
    IN  CASE inThen /\ ~inElse /\ ~after ->
               splitAtCalls(acc, <<Guard([e |-> "not", l |-> st.cond[1]], st.else \o rest)>> \o st.then)
          [] ~inThen /\ inElse /\ ~after -> splitAtCalls(acc, <<Guard(st.cond[1], st.then \o rest)>> \o st.else)
          [] inThen /\ (inElse \/ after) -> flattenIfBothRec(acc, st, rest)
          [] OTHER -> [acc EXCEPT !.err = TRUE]

splitSwitch(acc, st, rest) ==
    LET tag == IF st.tag = <<>> THEN <<>> ELSE <<[s |-> "define", x |-> Tag, rhs |-> st.tag[1]]>>
    IN  splitAtCalls(acc, tag \o buildSwitchIf(st.clauses, tag # <<>>) \o rest)

splitAtCalls(acc, stmts) ==
    LET st == Head(stmts)
        cut == recurses(acc, <<st>>)
    IN  CASE stmts = <<>> \/ acc.err -> acc
          [] stmts # <<>> /\ ~acc.err /\ cut /\ st.s = "switch" -> splitSwitch(acc, st, Tail(stmts))
          [] stmts # <<>> /\ ~acc.err /\ cut /\ st.s = "if" -> splitIf(acc, st, Tail(stmts))
          [] OTHER -> splitAtCalls(addStmt(acc, st, ""), Tail(stmts))

\* Several results need slots in a row.
resultSlots(rc, sites) ==
    LET place(acc, x) == IF x \in acc.placed THEN acc
                         ELSE [acc EXCEPT !.placed = @ \cup {x}, !.rc.locals = (x :> acc.rc.frameSize) @@ @,
                                          !.rc.frameSize = @ + 1]
    IN  IF Len(rc.retReg) <= 1 THEN rc
        ELSE FoldLeft(place, [rc |-> rc, placed |-> {}], FlattenSeq([i \in DOMAIN sites |-> sites[i].vars])).rc

-----------------------------------------------------------------------------
(* The frame, and the cells that hold a copy of a slot: l.loadedMap.       *)

load(l, c, slot) == emit(l, LoadFrame(c, slot, l.recFrameSize))
store(l, slot, c) == emit(l, StoreFrame(slot, c, l.recFrameSize))

\* The cell of a variable, which is loaded when it is not there yet.
lookupVar(l, x) ==
    IF x \notin DOMAIN l.rc.locals THEN Fail(l, "variable not accessible from recursive function")
    ELSE LET slot == l.rc.locals[x]
             c == allocCell(l)
         IN  IF slot \in DOMAIN l.loadedMap THEN [l EXCEPT !.got = l.loadedMap[slot], !.temp = FALSE]
             ELSE [load(c, c.got, slot) EXCEPT !.loadedMap = (slot :> c.got) @@ @, !.temp = FALSE]

storeAllLocals(l) == FoldSet(LAMBDA slot, acc : store(acc, slot, l.loadedMap[slot]), l, DOMAIN l.loadedMap)
reloadAllLocals(l) == FoldSet(LAMBDA slot, acc : load(acc, l.loadedMap[slot], slot), l, DOMAIN l.loadedMap)

preloadVars(l, stmts) ==
    FoldSet(LAMBDA x, acc : lookupVar(acc, x), l, (Used(stmts) \cup Defined(stmts)) \cap DOMAIN l.rc.locals)

\* The phase in which the topmost frame goes on.
setPhase(l, k) ==
    LET c == allocCell(l) IN freeCell(store(emit(c, Const(c.got, k)), slotPhase, c.got), c.got)

-----------------------------------------------------------------------------
(* Statements and expressions of a phase; `base' is the lowering of        *)
(* ControlFlow, for the functions that are inlined in a phase and for main. *)

RECURSIVE phase(_, _)
base(l, x) == phase(l, [base |-> x])
recExpr(l, e) == phase(l, e)
recStmt(l, st) == phase(l, st)
recStmts(l, stmts) == phase(l, [list |-> stmts])
inlineCallInRec(l, f, args) == phase(l, [inlined |-> f, args |-> args])
lowerGeneralRecursion(l, f, args) == phase(l, [general |-> f, args |-> args])

\* Statements after the first are skipped after a return: with an Else, which
\* keeps the flag.
RecListCode(l, stmts) ==
    LET next(acc, i) ==
            LET body == recStmt([acc EXCEPT !.nodes = <<>>], stmts[i])
            IN  IF i = 1 THEN recStmt(acc, stmts[1])
                ELSE [body EXCEPT !.nodes = Append(acc.nodes, IfElseOf(l.rc.noRetFlag, @, <<>>))]
    IN  FoldLeft(next, l, [i \in DOMAIN stmts |-> i])

recArgs(l, es) ==
    LET arg(acc, e) == LET r == recExpr(acc, e)
                       IN  [r EXCEPT !.vals = Append(acc.vals, [cell |-> r.got, temp |-> r.temp])]
    IN  FoldLeft(arg, [l EXCEPT !.vals = <<>>], es)

recBinary(l, e) == LET left == recExpr(l, e.l) IN emitBinary(e, left, recExpr(left, e.r))

recLogical(l, e) ==
    LET left == recExpr(l, e.l)
        result == allocCell(left)
    IN  joinLogical(e, left, result, recExpr([result EXCEPT !.nodes = <<>>], e.r))

\* A call of a function that is not recursive.
InlinedCode(l, f, args) ==
    LET info == l.funcs[f]
        evaluated == recArgs(l, args)
        bound == bindParams(pushScope(evaluated), info.params, evaluated.vals)
        results == allocReturnCells(bound, info.returns)
        entered == [returnFlagFor(results, info.body) EXCEPT !.returnDst = results.vals, !.inFunc = TRUE]
        left == freeReturnFlag(base(entered, [list |-> info.body, from |-> 1]))
    IN  IF canReach(l.funcs, f, f) THEN Fail(l, "unsupported recursive function in recursive function")
        ELSE popScope([left EXCEPT !.returnDst = l.returnDst, !.returnFlag = l.returnFlag,
                                   !.inFunc = l.inFunc, !.vals = results.vals])

recCallExpr(l, e) ==
    LET called == inlineCallInRec(l, e.f, e.args)
    IN  IF called.err # "" THEN called
        ELSE [freeAll(called, Tail(called.vals)) EXCEPT !.got = called.vals[1], !.temp = TRUE]

RecExprCode(l, e) ==
    CASE e.e = "lit" -> emitLit(l, e.v)
      [] e.e = "var" -> lookupVar(l, e.x)
      [] e.e = "not" -> emitNot(recExpr(l, e.l))
      [] e.e = "binary" -> recBinary(l, e)
      [] e.e = "logical" -> recLogical(l, e)
      [] e.e = "call" -> recCallExpr(l, e)

\* x = e, where the cell of x comes first.
recAssign(l, x, e) ==
    LET var == lookupVar(l, x)
        r == recExpr(var, e)
    IN  emitCopyOrMove(r, var.got, r.got, r.temp)

recTuple(l, st) ==
    LET owned(acc, e) == LET t == ensureTemp(recExpr(acc, e)) IN [t EXCEPT !.vals = Append(acc.vals, t.got)]
        assign(acc, i) == LET var == lookupVar(acc, st.xs[i]) IN emitCopyOrMove(var, var.got, acc.vals[i], TRUE)
    IN  FoldLeft(assign, FoldLeft(owned, [l EXCEPT !.vals = <<>>], st.results), [i \in DOMAIN st.xs |-> i])

recAssignCall(l, st) ==
    LET move(acc, i) == LET var == lookupVar(acc, st.xs[i]) IN emit(var, Move(var.got, acc.vals[i]))
    IN  FoldLeft(move, inlineCallInRec(l, st.f, st.args), [i \in DOMAIN st.xs |-> i])

recCall(l, st) ==
    LET r == recExpr(l, st.args[1])
        called == inlineCallInRec(l, st.f, st.args)
    IN  IF st.f = Putchar THEN freeIfTemp(emit(r, Putc(r.got)), r.got, r.temp) ELSE freeAll(called, called.vals)

endsWithReturn(stmts) == stmts # <<>> /\ Last(stmts).s = "return"

\* A mutant of recIf: what a branch loaded counts after it.
recIfLoaded(l, st) ==
    LET cond == recExpr(l, st.cond[1])
        branch(acc, stmts) == LET b == recStmts([acc EXCEPT !.nodes = <<>>, !.loadedMap = cond.loadedMap], stmts)
                              IN  IF endsWithReturn(stmts) THEN b ELSE storeAllLocals(b)
        then == branch(cond, st.then)
        else == branch(then, st.else)
        done == IF st.else = <<>> THEN [then EXCEPT !.nodes = Append(cond.nodes, IfOnly(cond.got, @))]
                ELSE [else EXCEPT !.nodes = Append(cond.nodes, IfElseOf(cond.got, then.nodes, @))]
    IN  freeIfTemp(done, cond.got, cond.temp)

\* What a branch changed goes back to the frame, and what it loaded counts for
\* that branch only; after a return the frame is gone.
recIf(l, st) ==
    LET cond == recExpr(l, st.cond[1])
        branch(acc, stmts) == LET b == recStmts([acc EXCEPT !.nodes = <<>>, !.loadedMap = cond.loadedMap], stmts)
                              IN  IF endsWithReturn(stmts) THEN b ELSE storeAllLocals(b)
        then == branch(cond, st.then)
        else == branch(then, st.else)
        done == IF st.else = <<>> THEN [then EXCEPT !.nodes = Append(cond.nodes, IfOnly(cond.got, @))]
                ELSE [else EXCEPT !.nodes = Append(cond.nodes, IfElseOf(cond.got, then.nodes, @))]
    IN  freeIfTemp([done EXCEPT !.loadedMap = cond.loadedMap], cond.got, cond.temp)

recSwitch(l, st) ==
    LET tagged == IF st.tag = <<>> THEN l ELSE recAssign(l, Tag, st.tag[1])
        chain == buildSwitchIf(st.clauses, st.tag # <<>>)
    IN  IF chain = <<>> THEN tagged ELSE recStmt(tagged, chain[1])

-----------------------------------------------------------------------------
(* Loops of a phase.                                                       *)

recCondTo(l, dst, cond) ==
    IF cond = <<>> THEN emit(l, Const(dst, 1))
    ELSE LET r == recExpr(l, cond[1]) IN emitCopyOrMove(r, dst, r.got, r.temp)

recSeq(l, stmts) == FoldLeft(recStmt, l, stmts)

\* A statement of a loop. The guard, computed before each, is used up by its If.
loopStmt(l, st, guard) ==
    [recStmt([l EXCEPT !.nodes = <<>>], st) EXCEPT !.nodes = Append(l.nodes, IfOnly(guard, @))]

\* l.got is the cell of the guard.
recLoopBody(l, stmts) ==
    LET before(acc) == emit(reloadAllLocals(storeAllLocals(acc)), Not(l.got, l.loopSkipFlag))
        one(acc, st) == loopStmt(before(acc), st, l.got)
    IN  freeCell(storeAllLocals(FoldLeft(one, l, stmts)), l.got)

\* What runs between two rounds.
recNext(l, st, cond, key, limit, copy) ==
    IF st.s = "for" THEN recCondTo(recSeq(l, st.post), cond, st.cond)
    ELSE emitAll(l, <<AddI(key), Copy(copy, limit), Binary("lt", cond, key, copy)>>)

\* `next' is the state after that, l the one before.
endRound(next, l, cond) ==
    LET test(nodes) == <<Not(l.got, l.loopBreakFlag), IfElseOf(l.got, nodes, <<Zero(cond)>>)>>
    IN  freeCell([next EXCEPT !.nodes = l.nodes \o test(@)], l.got)
recBetween(l, st, cond, key, limit, copy) ==
    endRound(recNext([l EXCEPT !.nodes = <<>>], st, cond, key, limit, copy), l, cond)

\* The switch around a loop is not touched.
enterRecLoop(l) ==
    [pushLoopFrame(l) EXCEPT !.loopDepth = l.loopDepth, !.switchSkipFlag = l.switchSkipFlag]

\* Unlike popLoopFrame, it frees the flag of `continue' first, and leaves the cell of
\* the condition to its caller.
leaveRecLoop(l, outer, cond) ==
    LET closed == [l EXCEPT !.nodes = Append(outer.nodes, Loop(cond, @))]
    IN  [freeAll(closed, <<l.loopSkipFlag, l.loopBreakFlag>>) EXCEPT
            !.loopSkipFlag = outer.loopSkipFlag, !.loopBreakFlag = outer.loopBreakFlag,
            !.loopFrames = Front(@)]

skipOver(l) == allocCell(emit(l, Zero(l.loopSkipFlag)))

recLoop(l, st, cond, key, limit, copy) ==
    LET body == recLoopBody(allocCell(preloadVars(enterRecLoop(l), st.body)), st.body)
    IN  leaveRecLoop(recBetween(skipOver(body), st, cond, key, limit, copy), l, cond)

\* l.got is the cell of the condition.
forLoop(l, st) == freeCell(recLoop(recCondTo(l, l.got, st.cond), st, l.got, NoCell, NoCell, NoCell), l.got)
recFor(l, st) == forLoop(allocCell(recSeq(l, st.init)), st)

\* l.got is the cell of the limit, of which every round makes a copy.
rangeLoop(l, st, key) ==
    LET cond == allocCell(emit(l, Zero(key)))
        copy == allocCell(cond)
        test == emitAll(copy, <<Copy(copy.got, l.got), Binary("lt", cond.got, key, copy.got)>>)
        done == recLoop(test, st, cond.got, key, l.got, copy.got)
    IN  freeAll(freeIfTemp(done, l.got, l.temp), <<copy.got, cond.got>>)
recRange(l, st) == LET key == lookupVar(l, st.key) IN rangeLoop(recExpr(key, st.limit), st, key.got)

recLabeledStmt(l, st) ==
    IF ~IsLoop(st.stmt) THEN Fail(l, "label on non-loop statement is not supported in recursive functions")
    ELSE [recStmt([l EXCEPT !.pendingLabel = st.label], st.stmt) EXCEPT !.pendingLabel = l.pendingLabel]

-----------------------------------------------------------------------------
(* Returns and defers of a phase.                                          *)

\* The named results: what the cells hold is stored before the frame is read.
recNamed(l) ==
    LET slots == [i \in DOMAIN l.rc.named |-> l.rc.locals[l.rc.named[i]]]
        keep(acc, slot) == IF slot \in DOMAIN l.loadedMap THEN store(acc, slot, l.loadedMap[slot]) ELSE acc
        result(acc, i) == LET c == allocCell(acc)
                          IN  freeCell(emit(load(c, c.got, slots[i]), Move(l.rc.retReg[i], c.got)), c.got)
    IN  FoldLeft(result, FoldLeft(keep, l, slots), [i \in DOMAIN slots |-> i])

recReturn(l, st) ==
    LET result(acc, i) == LET r == recExpr(acc, st.results[i])
                          IN  emitCopyOrMove(r, l.rc.retReg[i], r.got, r.temp)
        results == IF st.results = <<>> THEN recNamed(l) ELSE FoldLeft(result, l, [i \in DOMAIN st.results |-> i])
    IN  emitAll(results, FlattenSeq(Reverse(l.rc.deferredCalls))
                         \o <<Zero(l.rc.noRetFlag), FramePop(l.recFrameSize), SubI(l.rc.activeReg)>>)

\* The argument goes to the frame; the nodes that print it are put at every
\* return that is lowered later.
recDefer(l, st) ==
    LET r == recExpr(l, st.args[1])
        stored == store(r, l.rc.captureSlot, r.got)
        c == allocCell(stored)
        replay == freeCell(emit(load([c EXCEPT !.nodes = <<>>], c.got, l.rc.captureSlot), Putc(c.got)), c.got)
    IN  IF st.f # Putchar THEN Fail(l, "unsupported defer call in recursive function")
        ELSE [replay EXCEPT !.nodes = stored.nodes, !.rc.captureSlot = @ + 1,
                            !.rc.deferredCalls = Append(@, replay.nodes)]

RecStmtCode(l, st) ==
    CASE st.s = "call" -> recCall(l, st)
      [] st.s \in {"define", "assign"} -> recAssign(l, st.x, st.rhs)
      [] st.s = "tuple" -> recTuple(l, st)
      [] st.s = "assignCall" -> recAssignCall(l, st)
      [] st.s = "inc" -> LET var == lookupVar(l, st.x) IN emit(var, AddI(var.got))
      [] st.s = "if" -> recIf(l, st)
      [] st.s = "switch" -> recSwitch(l, st)
      [] st.s = "for" -> recFor(l, st)
      [] st.s = "range" -> recRange(l, st)
      [] st.s \in {"break", "continue", "goto"} -> lowerBranch(l, st)
      [] st.s = "labeled" -> recLabeledStmt(l, st)
      [] st.s = "return" -> recReturn(l, st)
      [] st.s = "defer" -> recDefer(l, st)
      [] st.s = "block" -> Fail(l, "unsupported statement in recursive function")

-----------------------------------------------------------------------------
(* The phases.                                                             *)

\* From here on cells are those of the pool.
enterPhase(l) ==
    LET entered == [l EXCEPT !.nodes = <<>>, !.nextCell = phaseCodeBase(l.rc), !.freeCells = <<>>,
                             !.recFrameSize = l.rc.frameSize, !.recAllocErr = FALSE, !.loadedMap = <<>>]
        flag == allocCell(entered)
    IN  [emit(flag, Const(flag.got, 1)) EXCEPT !.rc.noRetFlag = flag.got]

checked(l) == IF l.recAllocErr THEN Fail(l, TooManyLocals) ELSE l

\* Only the frames of the phases stay of l; the rest is as it was in `outer'.
leavePhase(l, outer) ==
    [l EXCEPT !.phases = Append(@, l.nodes), !.nodes = outer.nodes, !.nextCell = outer.nextCell,
              !.freeCells = outer.freeCells, !.recFrameSize = 0, !.loadedMap = outer.loadedMap]

storeArgs(l, vals) ==
    LET arg(acc, i) == store(acc, paramBase + i - 1, vals[i].cell) IN FoldLeft(arg, l, [i \in DOMAIN vals |-> i])

\* A mutant of callSetup: the new frame is not counted.
callSetupUncounted(l, site, k) ==
    LET args == recArgs([l EXCEPT !.nodes = <<>>], site.args)
        pushed == emit(setPhase(storeAllLocals(args), k), FramePush(l.recFrameSize))
    IN  setPhase(storeArgs(pushed, args.vals), 0)

\* The call itself: the frame is saved, and a new one is pushed for phase 0.
callSetup(l, site, k) ==
    LET args == recArgs([l EXCEPT !.nodes = <<>>], site.args)
        kept == setPhase(storeAllLocals(args), k)
        pushed == emitAll(kept, <<AddI(l.rc.activeReg), FramePush(l.recFrameSize)>>)
    IN  setPhase(storeArgs(pushed, args.vals), 0)

\* A call that depends on a condition: without it the frame goes to phase k at
\* once.  The load of a condition that has no cell yet is not emitted.
condSetup(l, called, site, k) ==
    LET slot == l.rc.locals[site.cond]
        new == allocCell(called)
        there == slot \in DOMAIN called.loadedMap
        cond == IF there THEN called.loadedMap[slot] ELSE new.got
        skipped == setPhase(storeAllLocals([IF there THEN called ELSE new EXCEPT !.nodes = <<>>,
                                                                             !.loadedMap = l.loadedMap]), k)
    IN  [skipped EXCEPT !.nodes = <<IfElseOf(cond, called.nodes, @)>>]

\* Phase k - 1: the statements before call site k, and the call.
buildRecPhaseWithCall(l, site, k) ==
    LET lowered == recStmts(l, site.pre)
        called == checked(callSetup(lowered, site, k))
        done == IF site.cond = "" THEN called ELSE condSetup(lowered, called, site, k)
    IN  [done EXCEPT !.nodes = Append(lowered.nodes, IfOnly(l.rc.noRetFlag, @))]

\* The last phase.
buildRecPhase(l, stmts) ==
    checked(recStmts(l, IF endsWithReturn(stmts) THEN stmts ELSE Append(stmts, ReturnOf(<<>>))))

\* The result of the call that ended the phase before goes to its variables.
resultStores(rc, site) ==
    [j \in DOMAIN rc.retReg |-> StoreFrame(rc.locals[site.vars[1]] + j - 1, rc.retReg[j], rc.frameSize)]

\* The phases of a body that was split.
phasesOf(l, split) ==
    LET sites == split.sites
        began(entered, k) ==
            IF k = 1 THEN entered ELSE [entered EXCEPT !.nodes = resultStores(entered.rc, sites[k - 1]) \o @]
        one(acc, k) == leavePhase(IF k > Len(sites) THEN buildRecPhase(began(enterPhase(acc), k), split.pre)
                                  ELSE buildRecPhaseWithCall(began(enterPhase(acc), k), sites[k], k), l)
    IN  IF split.err THEN Fail(l, "unsupported recursive call pattern")
        ELSE FoldLeft(LAMBDA acc, k : IF acc.err = "" THEN one(acc, k) ELSE acc,
                      [l EXCEPT !.rc = resultSlots(split.rc, sites)], [k \in 1 .. Len(sites) + 1 |-> k])

buildPhases(l, info) ==
    phasesOf(l, splitAtCalls([rc |-> l.rc, pre |-> <<>>, sites |-> <<>>, err |-> FALSE], info.body))

-----------------------------------------------------------------------------
(* A call of a recursive function from main, and the program.              *)

\* The cells of the results, in `vals'.
takeResults(l) ==
    LET n == Len(l.rc.retReg)
        first == IF n > 1 THEN allocCells(l, n) ELSE allocCell(l)
        cells == [i \in 1 .. n |-> first.got + i - 1]
    IN  IF n = 0 THEN [l EXCEPT !.vals = <<>>]
        ELSE [emitAll(first, [i \in 1 .. n |-> Copy(cells[i], l.rc.retReg[i])]) EXCEPT !.vals = cells]

\* The frame of the first call, with its arguments, and the dispatch loop.
startPhases(l, args) ==
    LET size == l.rc.frameSize
        slot(acc, i) == LET stored == emit(acc, StoreFrame(paramBase + i - 1, args[i].cell, size))
                        IN  freeIfTemp(stored, args[i].cell, args[i].temp)
        passed == FoldLeft(slot, emit(l, FramePush(size)), [i \in DOMAIN args |-> i])
        started == [setPhase([passed EXCEPT !.recFrameSize = size], 0) EXCEPT !.recFrameSize = 0]
    IN  IF l.err # "" THEN l
        ELSE emitAll(started, <<Const(l.rc.activeReg, 1), Dispatch(l.rc.activeReg, size, l.phases)>>)

GeneralCode(l, f, args) ==
    LET arg(acc, e) == LET r == base(acc, e)
                       IN  [r EXCEPT !.vals = Append(acc.vals, [cell |-> r.got, temp |-> r.temp])]
        evaluated == FoldLeft(arg, [l EXCEPT !.vals = <<>>], args)
        context == [evaluated EXCEPT !.rc = newContext(l, f, l.funcs[f]), !.phases = <<>>]
    IN  takeResults(startPhases(buildPhases(context, l.funcs[f]), evaluated.vals))

mainStmt(l, st) ==
    LET direct(e) == e.e = "call" /\ isGeneral(l.funcs, e.f)
        result(acc, e) == resultOf(lowerGeneralRecursion(acc, e.f, e.args))
        shown == result(l, st.args[1])
        called == lowerGeneralRecursion(l, st.f, st.args)
        var == IF st.s = "define" THEN defineVar(l, st.x) ELSE l
        assigned == result(var, st.rhs)
        dsts == cellsOf(called, st.xs)
        moves == [i \in DOMAIN dsts |-> Move(dsts[i], called.vals[i])]
    IN  CASE st.s = "call" /\ st.f = Putchar /\ direct(st.args[1]) ->
               freeIfTemp(emit(shown, Putc(shown.got)), shown.got, TRUE)
          [] st.s = "call" /\ isGeneral(l.funcs, st.f) -> freeAll(called, called.vals)
          [] st.s \in {"define", "assign"} /\ direct(st.rhs) ->
               emitCopyOrMove(assigned, lookupBinding(assigned, st.x), assigned.got, TRUE)
          [] st.s = "assignCall" /\ isGeneral(l.funcs, st.f) -> freeAll(emitAll(called, moves), called.vals)
          [] OTHER -> base(l, st)

\* The main of a program with general recursion is a list of statements without
\* jumps, and such a program has no globals and no init functions; the others are
\* ControlFlow's.
MainCode(l, p) ==
    LET next(acc, st) == IF acc.err = "" THEN mainStmt(acc, st) ELSE acc
    IN  IF \E f \in DOMAIN p.funcs : isGeneral(p.funcs, f)
        THEN FoldLeft(next, [l EXCEPT !.inFunc = TRUE], p.funcs[Main].body)
        ELSE base(l, p)

phase(l, x) ==
    CASE l.err # "" -> l
      [] l.err = "" /\ "e" \in DOMAIN x -> RecExprCode(l, x)
      [] l.err = "" /\ "s" \in DOMAIN x -> RecStmtCode(l, x)
      [] l.err = "" /\ "list" \in DOMAIN x -> RecListCode(l, x.list)
      [] l.err = "" /\ "funcs" \in DOMAIN x -> MainCode(l, x)
      [] l.err = "" /\ "base" \in DOMAIN x -> lower(l, x.base)
      [] l.err = "" /\ "inlined" \in DOMAIN x -> InlinedCode(l, x.inlined, x.args)
      [] l.err = "" /\ "general" \in DOMAIN x -> GeneralCode(l, x.general, x.args)

-----------------------------------------------------------------------------
(* The compile driver: a pool that is too small is made larger, up to a    *)
(* limit, and the program is lowered anew.                                 *)

slotLimit == 255

recLowerer(p, s) ==
    [NewLowerer(p.funcs) EXCEPT !.structs = p.structs, !.sentinelFwd = s]
    @@ [rc |-> <<>>, loadedMap |-> <<>>, phases |-> <<>>]

RECURSIVE compile(_, _)

\* A mutant of retry: the pool grows by one cell, not to the next marker.
retryByOne(l, p, s) ==
    IF l.err = TooManyLocals /\ s < MaxSentinel THEN compile(p, s + 1) ELSE l

\* l is what the attempt with the pool up to s left.
retry(l, p, s) ==
    CASE l.err = TooManyLocals /\ s < MaxSentinel -> compile(p, s + highwayStride)
      [] l.err # "" /\ ~(l.err = TooManyLocals /\ s < MaxSentinel) -> l
      [] l.err = "" -> IF l.nextCell - FirstSlot > slotLimit THEN Fail(l, "too many variables") ELSE l

compile(p, s) == retry(phase(recLowerer(p, s), p), p, s)

-----------------------------------------------------------------------------
(* The machine with frames.                                                *)

Slot(i) == Len(frames) - Node.size + i + 1
HasFrame == Node.size <= Len(frames)
KeepFrames == UNCHANGED <<frames, sentinelFwd>>

ExecSubI == At("subi") /\ MemSubI(Node.d, 1) /\ Silent /\ KeepFrames

ExecPush ==
    /\ At("push") /\ UNCHANGED memVars /\ Silent
    /\ frames' = frames \o [i \in 1 .. Node.size |-> 0]
    /\ UNCHANGED sentinelFwd

ExecPop ==
    /\ At("pop") /\ HasFrame /\ UNCHANGED memVars /\ Silent
    /\ frames' = SubSeq(frames, 1, Len(frames) - Node.size)
    /\ UNCHANGED sentinelFwd

ExecLoadFrame ==
    /\ At("load") /\ HasFrame /\ MemConst(Node.d, frames[Slot(Node.slot)])
    /\ Silent /\ KeepFrames

ExecStoreFrame ==
    /\ At("store") /\ HasFrame /\ MemRead(Node.a) /\ Silent
    /\ frames' = [frames EXCEPT ![Slot(Node.slot)] = mem[Node.a]]
    /\ UNCHANGED sentinelFwd

\* While a frame is active, the phase that the topmost one asks for.
ExecDispatch ==
    /\ At("dispatch") /\ MemRead(Node.a) /\ KeepFrames /\ UNCHANGED out
    /\ mem[Node.a] # 0 => HasFrame
    /\ Continue(IF mem[Node.a] = 0 THEN <<>> ELSE Append(Node.phases[frames[Slot(slotPhase)] + 1], Node))

ExecPhase ==
    \/ Exec /\ KeepFrames
    \/ ExecSubI \/ ExecPush \/ ExecPop \/ ExecLoadFrame \/ ExecStoreFrame \/ ExecDispatch

CompileProgram(p) ==
    /\ ~running /\ Mistakes(p) \subseteq Miscompiled
    /\ \E l \in {compile(p, MinSentinel)} : Run(l, Go(p)) /\ sentinelFwd' = l.sentinelFwd
    /\ UNCHANGED frames

EndProgram == End /\ frames' = <<>> /\ sentinelFwd' = MinSentinel

PhaseInit == Init /\ frames = <<>> /\ sentinelFwd = MinSentinel

PhaseNext == (\E p \in Programs : CompileProgram(p)) \/ ExecPhase \/ EndProgram

PhaseSpec == PhaseInit /\ [][PhaseNext]_phaseVars /\ WF_phaseVars(ExecPhase)

-----------------------------------------------------------------------------
PhaseTypeOK ==
    /\ TypeOK
    /\ frames \in Seq(Byte)
    /\ sentinelFwd \in {MinSentinel + k * highwayStride : k \in 0 .. maxSentinelBumps}

\* The dispatch loop counts the frames there are: one for every call under way,
\* and none when the program ends, on whatever path each phase was left.
FramesMatch ==
    running => /\ todo = <<>> => frames = <<>>
               /\ At("dispatch") => Len(frames) = mem[Node.a] * Node.size

\* The markers, the cells next to them and the sentinel are not used for variables.
PoolKept ==
    \A c \in Cells : c < FirstSlot /\ (c >= sentinelFwd \/ (c % highwayStride) \in {0, highwayStride - 1}) => mem[c] = 0
=============================================================================
