--------------------------- MODULE MCBFOptimizer ---------------------------
(* Programs for the model of the Brainfuck optimizer. *)
EXTENDS BFOptimizer

R == Move(1)
L == Move(-1)
P == Add(1)
M == Add(-1)

\* All balanced texts of up to n characters.
Texts(n) ==
    {s \in UNION {[1 .. k -> {R, L, P, M, Out, Open, Close}] : k \in 0 .. n} : Balanced(s)}

\* What a program around a loop may look like; some loops start, some are dead.
Pieces ==
    {<<P>>, <<R>>, <<L>>, <<Note>>, <<Out>>, <<P, M>>, <<R, L>>,
     Loop(<<M>>), Loop(<<R>>), Loop(<<P, M, M>>), Loop(<<M, R, P, L>>),
     Loop(Loop(<<M>>) \o <<L>>), Loop(<<Out, M>> \o Loop(<<R>>) \o Loop(<<Out>>))}

LoopCases ==
    {[source |-> <<In, R, In, L>> \o a \o b \o c, input |-> <<3, 1>>] : a, b, c \in Pieces}

(* Highways.  Home is cell 0, cell 2 a marker, cell 4 the forward sentinel; the *)
(* guards of the stack are cells 7, 10, 13.                                     *)
ScanBy(n, c) == [k \in 1 .. n |-> c] \o Loop([k \in 1 .. n |-> c])
ToSentinel == ScanBy(2, R)
ToHome == ScanBy(2, L)
ToStackEnd == ScanBy(3, R)
FromGuard == Loop(<<L, L, L>>)
FromBreadcrumb == ScanBy(3, L)

\* From home and back: a register changes or is printed, a slot is pushed, the
\* stack is walked.
Trips ==
    {<<R, P, L>>, <<R, Out, L>>,
     ToSentinel \o ToStackEnd \o <<P>> \o FromGuard \o ToHome,
     ToSentinel \o ToStackEnd \o <<P>> \o FromGuard \o ToHome \o <<Note>>,
     ToSentinel \o ToStackEnd \o FromBreadcrumb \o ToHome}

HighwayCases ==
    {[source |-> <<R, R, P, L, L>> \o a \o b \o c, input |-> <<>>] : a, b, c \in Trips}

MCCases ==
    {[source |-> s, input |-> <<>>] : s \in Texts(4)} \cup LoopCases \cup HighwayCases
=============================================================================
