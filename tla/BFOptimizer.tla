---------------------------- MODULE BFOptimizer ----------------------------
(***************************************************************************)
(* The Brainfuck optimizer of src/optimizer.go: Optimize merges runs,      *)
(* removes loops that cannot start, and removes trips from the forward     *)
(* sentinel to the backward one and back again.                            *)
(*                                                                         *)
(* `before' runs the program as the code generator emitted it, `after' the *)
(* optimized one.  `before' goes first until it prints or halts; `after'   *)
(* then goes on until it has printed as much, or to its end.               *)
(***************************************************************************)
EXTENDS Brainfuck

CONSTANTS
    Cases,      \* [source, input]: the programs to optimize and what they read
    MaxOut      \* bound: a program that has printed this much is not run on

VARIABLES
    source,     \* the program: characters and notes
    text,       \* what each machine runs: [before, after], with their brackets
    before,     \* the machine that runs the program as emitted
    after       \* the machine that runs the optimized program

vars == <<source, text, before, after>>

\* A debug comment.
Note == [op |-> "note", arg |-> 0]

\* What tokenize makes of a program.
Tokens == {Move(1), Move(-1), Add(1), Add(-1), Out, In, Open, Close, Note}

ASSUME CasesAssumption ==
    \A c \in Cases :
        c.source \in Seq(Tokens) /\ Balanced(c.source) /\ c.input \in Seq(Byte)

IsNote(t) == t.op = "note"
IsRun(t) == t.op \in {"add", "move"}

-----------------------------------------------------------------------------
(* Optimize. *)

\* A run that goes on with the one before it.
Continues(merged, t) == merged # <<>> /\ IsRun(t) /\ Last(merged).op = t.op

\* Mutant: two runs that pull in opposite directions cancel, whatever they sum to.
MergeCancelling(merged, t) ==
    IF ~Continues(merged, t) THEN Append(merged, t)
    ELSE IF Last(merged).arg * t.arg < 0 THEN Front(merged)
    ELSE [merged EXCEPT ![Len(merged)].arg = @ + t.arg]

\* A run that sums to 0 stays a token, and renders as nothing.
Merge(merged, t) ==
    IF Continues(merged, t) THEN [merged EXCEPT ![Len(merged)].arg = @ + t.arg]
    ELSE Append(merged, t)

MergeTokens(tokens) ==
    LET merged[k \in 0 .. Len(tokens)] ==
            IF k = 0 THEN <<>> ELSE Merge(merged[k - 1], tokens[k])
    IN merged[Len(tokens)]

\* The passes that drop tokens scan them from the left: `out' is the result so far,
\* `next' the first token that is not dropped yet.
Started == [out |-> <<>>, next |-> 1]

\* The first token from i on that is not a note.
NextCode(s, i) ==
    CHOOSE j \in i .. (Len(s) + 1) :
        /\ \A k \in i .. (j - 1) : IsNote(s[k])
        /\ j <= Len(s) => ~IsNote(s[j])

\* Does a loop follow at i, notes in between included, where the current cell is 0?
DeadLoopAt(s, out, i) ==
    /\ out # <<>> /\ Last(out).op = "close"
    /\ NextCode(s, i) <= Len(s) /\ s[NextCode(s, i)].op = "open"

\* Mutant: a dead loop is taken to end at the first `]' inside it.
DropToFirstClose(s, partner, st, i) ==
    IF i < st.next THEN st
    ELSE IF DeadLoopAt(s, st.out, i)
    THEN [st EXCEPT !.next = 1 + CHOOSE k \in NextCode(s, i) .. Len(s) :
                s[k].op = "close" /\ \A l \in NextCode(s, i) .. (k - 1) : s[l].op # "close"]
    ELSE [out |-> Append(st.out, s[i]), next |-> i + 1]

DropDeadLoop(s, partner, st, i) ==
    IF i < st.next THEN st
    ELSE IF DeadLoopAt(s, st.out, i) THEN [st EXCEPT !.next = partner[NextCode(s, i)] + 1]
    ELSE [out |-> Append(st.out, s[i]), next |-> i + 1]

EliminateDeadLoops(s) ==
    LET partner == Partners(s)
        visit[i \in 0 .. Len(s)] ==
            IF i = 0 THEN Started ELSE DropDeadLoop(s, partner, visit[i - 1], i)
    IN visit[Len(s)].out

\* A scan at s[i] .. s[i + 3]: a move by n, then a loop that moves by n.
IsScan(s, i, n) ==
    /\ s[i].op = "move" /\ s[i].arg = n
    /\ s[i + 1].op = "open"
    /\ s[i + 2].op = "move" /\ s[i + 2].arg = n
    /\ s[i + 3].op = "close"

\* The two scans may have one note between them.
NoteAfterScan(s, i) == i + 5 < Len(s) /\ IsNote(s[i + 5])
Gap(s, i) == IF NoteAfterScan(s, i) THEN 1 ELSE 0

\* Mutant: two scans, whatever their directions and strides.
AnyTwoScans(s, i) ==
    /\ s[i].op = "close"
    /\ i + 8 + Gap(s, i) <= Len(s)
    /\ IsScan(s, i + 1, s[i + 1].arg)
    /\ IsScan(s, i + 5 + Gap(s, i), s[i + 5 + Gap(s, i)].arg)

\* Behind the `]' at i: back by some stride to a zero, and forth by the same.
IsRoundTrip(s, i) ==
    /\ s[i].op = "close"
    /\ i + 8 + Gap(s, i) <= Len(s)
    /\ s[i + 1].arg < 0
    /\ IsScan(s, i + 1, s[i + 1].arg)
    /\ IsScan(s, i + 5 + Gap(s, i), -s[i + 1].arg)

\* The `]' stays, and so does the note.
DropRoundTrip(s, st, i) ==
    LET kept == Append(st.out, s[i])
    IN IF i < st.next THEN st
       ELSE IF ~IsRoundTrip(s, i) THEN [out |-> kept, next |-> i + 1]
       ELSE [out |-> IF NoteAfterScan(s, i) THEN Append(kept, s[i + 5]) ELSE kept,
             next |-> i + 9 + Gap(s, i)]

EliminateHighwayRoundTrips(s) ==
    LET visit[i \in 0 .. Len(s)] ==
            IF i = 0 THEN Started ELSE DropRoundTrip(s, visit[i - 1], i)
    IN visit[Len(s)].out

\* What is left to run of a rendered program: no empty run, no note.
Idle(t) == IsNote(t) \/ (IsRun(t) /\ t.arg = 0)

Render(tokens) ==
    LET rendered[k \in 0 .. Len(tokens)] ==
            IF k = 0 THEN <<>>
            ELSE IF Idle(tokens[k]) THEN rendered[k - 1]
            ELSE Append(rendered[k - 1], tokens[k])
    IN rendered[Len(tokens)]

Optimize(s) == Render(EliminateHighwayRoundTrips(EliminateDeadLoops(MergeTokens(s))))

-----------------------------------------------------------------------------
(* The two programs run. *)

Linked(code) ==
    [code |-> code, partners |-> IF Balanced(code) THEN Partners(code) ELSE <<>>]

Init ==
    \E c \in Cases :
        /\ source = c.source
        /\ text = [before |-> Linked(Render(c.source)), after |-> Linked(Optimize(c.source))]
        /\ before = Boot(c.input)
        /\ after = Boot(c.input)

HaltedBefore == Halted(text.before.code, before)
HaltedAfter == Halted(text.after.code, after)

StepBefore ==
    /\ ~HaltedBefore /\ before.out = after.out /\ Len(before.out) < MaxOut
    /\ before' = Execute(text.before.code, text.before.partners, before)
    /\ UNCHANGED <<source, text, after>>

StepAfter ==
    /\ ~HaltedAfter
    /\ HaltedBefore \/ Len(after.out) < Len(before.out)
    /\ after' = Execute(text.after.code, text.after.partners, after)
    /\ UNCHANGED <<source, text, before>>

Next == StepBefore \/ StepAfter

Spec == Init /\ [][Next]_vars /\ WF_vars(StepAfter)

-----------------------------------------------------------------------------
\* Tapes hold bytes, and both programs keep their brackets in pairs.
TypeOK ==
    /\ Balanced(text.before.code) /\ Balanced(text.after.code)
    /\ \A m \in {before, after} :
        /\ m.tape \in [Cells -> Byte]
        /\ m.ptr \in Int /\ m.pc \in Nat /\ m.failed \in BOOLEAN

\* The optimized program prints what the original prints, byte for byte, also
\* while they run, and ends with the same tape, pointer and unread input.
SameOutcome ==
    ~before.failed =>
        /\ ~after.failed
        /\ IsPrefix(after.out, before.out)
        /\ HaltedBefore /\ HaltedAfter
            => /\ after.out = before.out /\ after.in = before.in
               /\ after.tape = before.tape /\ after.ptr = before.ptr

\* A program that ends still ends when optimized, and one that printed a byte
\* still prints one.
KeepsUp == []<>(before.failed \/ (after.out = before.out /\ (HaltedBefore => HaltedAfter)))
=============================================================================
