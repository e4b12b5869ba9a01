----------------------------- MODULE Brainfuck -----------------------------
(***************************************************************************)
(* Brainfuck itself, as src/interpreter.go runs a program no pattern of    *)
(* which it recognises: the six opcodes opMove .. opClose of the main loop *)
(* and the bracket table.  The code generator and both optimizers are      *)
(* judged against this machine.                                            *)
(*                                                                         *)
(* A program is a sequence of instructions.  A run of n equal characters   *)
(* may be written as one instruction with argument n: `>>>' is Move(3).    *)
(***************************************************************************)
EXTENDS Integers, SequencesExt

CONSTANTS
    Mod,        \* the byte modulus; 256 in the program
    TapeSize    \* the number of cells; 30000 in the program

ASSUME MachineAssumption == Mod \in Nat /\ Mod >= 2 /\ TapeSize \in Nat \ {0}

Byte == 0 .. (Mod - 1)
Cells == 0 .. (TapeSize - 1)

Move(n) == [op |-> "move", arg |-> n]
Add(n)  == [op |-> "add",  arg |-> n]
Out     == [op |-> "out",  arg |-> 0]
In      == [op |-> "in",   arg |-> 0]
Open    == [op |-> "open", arg |-> 0]
Close   == [op |-> "close", arg |-> 0]

\* A loop: `[' body `]'.
Loop(body) == <<Open>> \o body \o <<Close>>

-----------------------------------------------------------------------------
(* Brackets. *)

Brackets(code, op) == {i \in DOMAIN code : code[i].op = op}

\* How many of the positions `brackets' are among the first i.
UpTo(brackets, i) == Cardinality({b \in brackets : b <= i})

\* How many brackets are open after the first i instructions.
Depth(code, i) == UpTo(Brackets(code, "open"), i) - UpTo(Brackets(code, "close"), i)

Balanced(code) ==
    (\A i \in Brackets(code, "close") : Depth(code, i) >= 0) /\ Depth(code, Len(code)) = 0

\* The bracket that belongs to each bracket of a balanced program: to an opening one
\* the first behind it after which fewer are open.
Partners(code) ==
    LET opens == Brackets(code, "open")
        closes == Brackets(code, "close")
        Deep(i) == UpTo(opens, i) - UpTo(closes, i)
        Ends(i, j) == j \in closes /\ Deep(j) < Deep(i)
        End(i) == i + CHOOSE n \in 1 .. (Len(code) - i) :
                          Ends(i, i + n) /\ \A k \in 1 .. (n - 1) : ~Ends(i, i + k)
        pairs == {<<i, End(i)>> : i \in opens}
    IN [i \in opens \cup closes |->
            LET pair == CHOOSE p \in pairs : i \in {p[1], p[2]}
            IN IF i = pair[1] THEN pair[2] ELSE pair[1]]

-----------------------------------------------------------------------------
(* The machine. *)

\* A program is started on an empty tape, at its left end.
Boot(input) ==
    [tape |-> [c \in Cells |-> 0], ptr |-> 0, pc |-> 1,
     out |-> <<>>, in |-> input, failed |-> FALSE]

\* The pointer may leave the tape; the program dies when it then uses a cell.
OnTape(m) == m.ptr \in Cells
Fail(m) == [m EXCEPT !.failed = TRUE]
Current(m) == m.tape[m.ptr]
SetCurrent(m, v) == [m EXCEPT !.tape[m.ptr] = v % Mod]

\* Reading past the end of the input gives 0.
ReadByte(m) ==
    IF m.in = <<>> THEN SetCurrent(m, 0) ELSE [SetCurrent(m, Head(m.in)) EXCEPT !.in = Tail(m.in)]

Halted(code, m) == m.failed \/ m.pc > Len(code)

\* One instruction of a program whose brackets are paired by `partners'.
Execute(code, partners, m) ==
    LET ins == code[m.pc]
        Advance(n) == [n EXCEPT !.pc = m.pc + 1]
        Jump == [m EXCEPT !.pc = partners[m.pc] + 1]
    IN IF ins.op = "move" THEN Advance([m EXCEPT !.ptr = m.ptr + ins.arg])
       ELSE IF ~OnTape(m) THEN Fail(m)
       ELSE CASE ins.op = "add"   -> Advance(SetCurrent(m, Current(m) + ins.arg))
              [] ins.op = "out"   -> Advance([m EXCEPT !.out = Append(m.out, Current(m))])
              [] ins.op = "in"    -> Advance(ReadByte(m))
              [] ins.op = "open"  -> IF Current(m) = 0 THEN Jump ELSE Advance(m)
              [] ins.op = "close" -> IF Current(m) # 0 THEN Jump ELSE Advance(m)
=============================================================================
