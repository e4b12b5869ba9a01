---------------------------- MODULE Interpreter ----------------------------
(***************************************************************************)
(* The interpreter of src/interpreter.go: compileBF turns a program into   *)
(* instructions, replacing loops of a known shape by one instruction each, *)
(* and Interpret runs them.                                                *)
(*                                                                         *)
(* `run' is the interpreter on its compiled program, one instruction a     *)
(* step.  `plain' is the Brainfuck machine on the program as it was        *)
(* written, one character a step; it follows `run' and has caught up when  *)
(* it stands at the character the next instruction was compiled from.      *)
(***************************************************************************)
EXTENDS Brainfuck

CONSTANTS
    Cases,        \* [source, input]: the programs to run and what they may read
    Miscompiled,  \* the mistakes of the code that programs may run into
    MaxOut        \* bound: a program that has printed this much is not run on

VARIABLES
    source,     \* the program, a sequence of characters
    partners,   \* its brackets, as Brainfuck pairs them
    compiled,   \* [ok, ops]: the result of compileBF
    run,        \* the interpreter
    plain       \* the Brainfuck machine

vars == <<source, partners, compiled, run, plain>>

-----------------------------------------------------------------------------
(* compileBF.  An instruction remembers in `at' the character it starts    *)
(* at, which the program does not; the properties need it.          *)

Op(op, arg, at) == [op |-> op, arg |-> arg, factor |-> 0, at |-> at]

R == Move(1)
L == Move(-1)
P == Add(1)
M == Add(-1)

Characters == {R, L, P, M, Out, In, Open, Close}

ASSUME CasesAssumption ==
    \A c \in Cases : c.source \in Seq(Characters) /\ c.input \in Seq(Byte)

\* [->-[>+>>]>[+[-<+>]>+>>]<<<<<]
DivModCode ==
    <<Open, M, R, M, Open, R, P, R, R, Close, R,
      Open, P, Open, M, L, P, R, Close, R, P, R, R, Close,
      L, L, L, L, L, Close>>

\* Does `code' occur in s at i?
OccursAt(code, s, i) ==
    i + Len(code) - 1 <= Len(s) /\ SubSeq(s, i, i + Len(code) - 1) = code

\* How many times the character at i is repeated from there on.
RunLength(s, i) ==
    CHOOSE n \in 1 .. (Len(s) - i + 1) :
        /\ \A k \in i .. (i + n - 1) : s[k] = s[i]
        /\ i + n > Len(s) \/ s[i + n] # s[i]

\* Scans a sequence from the left: take[i] is what is emitted at i, and how many
\* elements of the sequence that stands for.
Take(take, st, i) ==
    IF i < st.next THEN st
    ELSE [out |-> st.out \o take[i].out, next |-> i + take[i].length]

Rewrite(take) ==
    LET scan[i \in 0 .. Len(take)] ==
            IF i = 0 THEN [out |-> <<>>, next |-> 1] ELSE Take(take, scan[i - 1], i)
    IN scan[Len(take)].out

ParseAt(s, i) ==
    IF OccursAt(DivModCode, s, i)
    THEN [out |-> <<Op("divmod", 0, i)>>, length |-> Len(DivModCode)]
    ELSE IF s[i].op \in {"move", "add"}
    THEN LET n == RunLength(s, i)
         IN [out |-> <<Op(s[i].op, n * s[i].arg, i)>>, length |-> n]
    ELSE [out |-> <<Op(s[i].op, 0, i)>>, length |-> 1]

Parse(s) == Rewrite([i \in DOMAIN s |-> ParseAt(s, i)])

\* The bracket jump table, with a stack of the open brackets.
LinkAt(ops, st, i) ==
    IF ~st.ok THEN st
    ELSE CASE ops[i].op = "open" -> [st EXCEPT !.stack = Append(@, i)]
           [] ops[i].op = "close" ->
                IF st.stack = <<>> THEN [st EXCEPT !.ok = FALSE]
                ELSE LET open == Last(st.stack)
                     IN [st EXCEPT !.stack = Front(@),
                                   !.ops[open].arg = i, !.ops[i].arg = open]
           [] OTHER -> st

Linking(ops) ==
    LET visit[i \in 0 .. Len(ops)] ==
            IF i = 0 THEN [ok |-> TRUE, stack |-> <<>>, ops |-> ops]
            ELSE LinkAt(ops, visit[i - 1], i)
    IN visit[Len(ops)]

\* A mutant of Link: brackets left open are not looked for.
LinkIgnoringOpen(ops) == [ok |-> Linking(ops).ok, ops |-> Linking(ops).ops]

Link(ops) ==
    LET end == Linking(ops) IN [ok |-> end.ok /\ end.stack = <<>>, ops |-> end.ops]

\* The instructions between the bracket at i and its partner.
Body(ops, i) == SubSeq(ops, i + 1, ops[i].arg - 1)

Is(ins, op, arg) == ins.op = op /\ ins.arg = arg

\* The (move, add)+ move of a loop that counts down first or last.
CountsDownFirst(body) == Is(Head(body), "add", -1)
CountsDownLast(body) == Is(Last(body), "add", -1)
Pairs(body) == IF CountsDownFirst(body) THEN Tail(body) ELSE Front(body)

\* Where the pointer is after the first j of the pairs' instructions.
Offset(pairs, j) ==
    LET pos[k \in 0 .. Len(pairs)] ==
            IF k = 0 THEN 0
            ELSE pos[k - 1] + (IF pairs[k].op = "move" THEN pairs[k].arg ELSE 0)
    IN pos[j]

\* A mutant of IsMultLoop: nobody looks where the pointer ends up.
MultLoopAnywhere(ops, i) ==
    LET pairs == Pairs(Body(ops, i))
    IN /\ Len(Body(ops, i)) >= 3
       /\ CountsDownFirst(Body(ops, i)) \/ CountsDownLast(Body(ops, i))
       /\ Len(pairs) >= 3 /\ Len(pairs) % 2 = 1
       /\ \A j \in DOMAIN pairs : pairs[j].op = IF j % 2 = 1 THEN "move" ELSE "add"

IsMultLoop(ops, i) ==
    LET body == Body(ops, i)
        pairs == Pairs(body)
    IN /\ Len(body) >= 3
       /\ CountsDownFirst(body) \/ CountsDownLast(body)
       /\ Len(pairs) >= 3 /\ Len(pairs) % 2 = 1
       /\ \A j \in DOMAIN pairs : pairs[j].op = IF j % 2 = 1 THEN "move" ELSE "add"
       /\ Offset(pairs, Len(pairs)) = 0

\* One opMult for each pair, then the opClear.
MultOps(ops, i) ==
    LET pairs == Pairs(Body(ops, i))
    IN [k \in 1 .. (Len(pairs) \div 2) |->
            [op |-> "mult", arg |-> Offset(pairs, 2 * k - 1),
             factor |-> pairs[2 * k].arg % Mod, at |-> ops[i].at]]
       \o <<Op("clear", 0, ops[i].at)>>

\* A mutant of IsClearLoop: any repeated addition counts as a clear.
ClearsByAny(ops, i) == ops[i].arg = i + 2 /\ ops[i + 1].op = "add"

IsClearLoop(ops, i) ==
    ops[i].arg = i + 2 /\ ops[i + 1].op = "add" /\ ops[i + 1].arg \in {-1, 1}

IsScanLoop(ops, i) == ops[i].arg = i + 2 /\ ops[i + 1].op = "move"

IsWalkLoop(ops, i) ==
    /\ ops[i].arg = i + 9
    /\ Is(ops[i + 1], "open", i + 6)
    /\ ops[i + 2].op = "move" /\ ops[i + 2].arg # 0
    /\ Is(ops[i + 3], "add", 1)
    /\ Is(ops[i + 4], "move", -ops[i + 2].arg)
    /\ Is(ops[i + 5], "add", -1)
    /\ ops[i + 6].op = "close"
    /\ Is(ops[i + 7], "move", ops[i + 2].arg)
    /\ Is(ops[i + 8], "add", -1)

PeepholeAt(ops, i) ==
    LET whole == ops[i].arg - i + 1
        Instead(op, arg) == [out |-> <<Op(op, arg, ops[i].at)>>, length |-> whole]
    IN IF ops[i].op # "open" THEN [out |-> <<ops[i]>>, length |-> 1]
       ELSE IF IsClearLoop(ops, i) THEN Instead("clear", 0)
       ELSE IF IsMultLoop(ops, i) THEN [out |-> MultOps(ops, i), length |-> whole]
       ELSE IF IsScanLoop(ops, i) THEN Instead("scan", ops[i + 1].arg)
       ELSE IF IsWalkLoop(ops, i) THEN Instead("walk", ops[i + 2].arg)
       ELSE [out |-> <<ops[i]>>, length |-> 1]

Peephole(ops) == Rewrite([i \in DOMAIN ops |-> PeepholeAt(ops, i)])

CompileBF(s) ==
    LET linked == Link(Parse(s))
    IN IF linked.ok THEN Link(Peephole(linked.ops)) ELSE [ok |-> FALSE, ops |-> <<>>]

-----------------------------------------------------------------------------
(* Interpret. *)

\* Moves on to the first cell that is 0, or off the tape.
Scan(m, stride) ==
    LET Cell(k) == m.ptr + k * stride
        Stops(k) == Cell(k) \in Cells => m.tape[Cell(k)] = 0
        k == CHOOSE k \in 0 .. TapeSize : Stops(k) /\ \A i \in 0 .. (k - 1) : ~Stops(i)
        there == [m EXCEPT !.ptr = Cell(k)]
    IN IF OnTape(there) THEN there ELSE Fail(there)

\* One pass of the counter-walk, which is over when the counter is 0.
WalkOn(m, stride) ==
    LET to == m.ptr + stride
        cleared == [m.tape EXCEPT ![m.ptr] = 0]
    IN IF m.failed \/ Current(m) = 0 THEN m
       ELSE IF to \notin Cells THEN Fail(m)
       ELSE [m EXCEPT !.ptr = to,
                      !.tape = [cleared EXCEPT ![to] = (@ + Current(m) - 1) % Mod]]

\* The pointer is off the tape after at most TapeSize passes.
Walk(m, stride) ==
    LET after[k \in 0 .. TapeSize] ==
            IF k = 0 THEN m ELSE WalkOn(after[k - 1], stride)
    IN after[TapeSize]

\* The opMults that follow each other from the one at m.pc.
Mults(ops, m) ==
    SubSeq(ops, m.pc, m.pc - 1 + CHOOSE n \in 1 .. Len(ops) :
        /\ \A k \in m.pc .. (m.pc + n - 1) : ops[k].op = "mult"
        /\ ops[m.pc + n].op # "mult")

\* A mutant of Multiply: the loop over the opMults and the main loop both step.
MultiplyStepsTwice(ops, m) == [m EXCEPT !.pc = @ + Len(Mults(ops, m)) + 2]

\* Multiplies and goes on after the opClear.
Multiply(ops, m) ==
    LET mults == Mults(ops, m)
        v == Current(m)
        next == [m EXCEPT !.pc = @ + Len(mults) + 1]
        AddTo(tape, ins) == [tape EXCEPT ![m.ptr + ins.arg] = (@ + v * ins.factor) % Mod]
        added[k \in 0 .. Len(mults)] == IF k = 0 THEN m.tape ELSE AddTo(added[k - 1], mults[k])
    IN IF v = 0 THEN next
       ELSE IF \E k \in DOMAIN mults : m.ptr + mults[k].arg \notin Cells THEN Fail(m)
       ELSE [next EXCEPT !.tape = [added[Len(mults)] EXCEPT ![m.ptr] = 0]]

DivMod(m) ==
    LET n == m.tape[m.ptr]
        d == m.tape[m.ptr + 1]
    IN IF m.ptr + 1 \notin Cells THEN Fail(m)
       ELSE IF d = 0 THEN SetCurrent(m, 0)
       ELSE IF m.ptr + 3 \notin Cells THEN Fail(m)
       ELSE [m EXCEPT !.tape = [m.tape EXCEPT ![m.ptr] = 0,
                                              ![m.ptr + 1] = d - (n % d),
                                              ![m.ptr + 2] = n % d,
                                              ![m.ptr + 3] = n \div d]]

ExecuteOp(ops, m) ==
    LET ins == ops[m.pc]
        Next(n) == [n EXCEPT !.pc = m.pc + 1]
    IN IF ins.op \in {"move", "add", "out", "in", "open", "close"}
       THEN Execute(ops, [i \in DOMAIN ops |-> ops[i].arg], m)
       ELSE IF ~OnTape(m) THEN Fail(m)
       ELSE CASE ins.op = "clear"  -> Next(SetCurrent(m, 0))
              [] ins.op = "mult"   -> Multiply(ops, m)
              [] ins.op = "scan"   -> Next(Scan(m, ins.arg))
              [] ins.op = "walk"   -> Next(Walk(m, ins.arg))
              [] ins.op = "divmod" -> Next(DivMod(m))

\* What makes an instruction another thing than the loop it stands for: a loop that
\* adds to its own counter while it multiplies; a division whose four cells behind the
\* operands are not all clear, or whose divisor is not at least 2.
Mistaken(ops, m) ==
    LET ins == ops[m.pc]
        clear == \A c \in (m.ptr + 2) .. (m.ptr + 5) : c \in Cells /\ m.tape[c] = 0
    IN {mistake \in {"counterTouched", "usedTemps", "smallDivisor"} :
        /\ OnTape(m)
        /\ CASE mistake = "counterTouched" ->
                  /\ ins.op = "mult" /\ Current(m) # 0
                  /\ \E k \in DOMAIN Mults(ops, m) : Mults(ops, m)[k].arg = 0
             [] mistake = "usedTemps" -> ins.op = "divmod" /\ ~clear
             [] mistake = "smallDivisor" ->
                  /\ ins.op = "divmod" /\ clear
                  /\ Current(m) # 0 /\ m.tape[m.ptr + 1] < 2}

-----------------------------------------------------------------------------
\* The character that instruction ip was compiled from.
At(ip) == IF ip <= Len(compiled.ops) THEN compiled.ops[ip].at ELSE Len(source) + 1

\* The plain machine stands where the interpreter does, or died as it did.
CaughtUp == IF run.failed THEN plain.failed ELSE ~plain.failed /\ plain.pc = At(run.pc)

Init ==
    \E c \in Cases :
        /\ source = c.source
        /\ partners = IF Balanced(c.source) THEN Partners(c.source) ELSE <<>>
        /\ compiled = CompileBF(c.source)
        /\ run = Boot(c.input)
        /\ plain = Boot(c.input)

\* One instruction of the interpreter, when the plain machine is level with it.
Interpret ==
    /\ compiled.ok /\ CaughtUp
    /\ ~Halted(compiled.ops, run) /\ Len(run.out) < MaxOut
    /\ Mistaken(compiled.ops, run) \subseteq Miscompiled
    /\ run' = ExecuteOp(compiled.ops, run)
    /\ UNCHANGED <<source, partners, compiled, plain>>

\* One character of the plain machine, until it is level again.
Follow ==
    /\ compiled.ok /\ ~CaughtUp
    /\ ~Halted(source, plain)
    /\ plain' = Execute(source, partners, plain)
    /\ UNCHANGED <<source, partners, compiled, run>>

Next == Interpret \/ Follow

Spec == Init /\ [][Next]_vars /\ WF_vars(Follow)

-----------------------------------------------------------------------------
\* Every variable has its type; the tape holds bytes.
TypeOK ==
    /\ source \in Seq(Characters)
    /\ compiled.ok \in BOOLEAN
    /\ \A m \in {run, plain} :
        /\ m.tape \in [Cells -> Byte]
        /\ m.ptr \in Int /\ m.pc \in Nat /\ m.failed \in BOOLEAN
        /\ m.out \in Seq(Byte) /\ m.in \in Seq(Byte)
    /\ run.pc \in 1 .. (Len(compiled.ops) + 1)

\* compileBF rejects a program exactly when its brackets do not pair up: the
\* stack of the jump table finds every unmatched `[' and `]'.
RejectsUnbalanced == compiled.ok <=> Balanced(source)

\* Whatever compileBF recognised (a clear, a multiplication, a scan, a walk, a
\* division), the interpreter and the program as written agree on the tape, the
\* pointer, what was printed and what was read, whenever they are level.
SameMachine ==
    compiled.ok /\ CaughtUp /\ ~run.failed
        => /\ plain.tape = run.tape /\ plain.ptr = run.ptr
           /\ plain.out = run.out /\ plain.in = run.in

\* A replaced loop ends: the program as written always gets to where the one
\* instruction of the interpreter took it, or dies at the tape's end as it did.
CatchesUp == []<>(compiled.ok => CaughtUp)
=============================================================================
