--------------------------- MODULE MCInterpreter ---------------------------
(* Programs for the model of the interpreter. *)
EXTENDS Interpreter

\* All texts of up to n characters, balanced or not.
Texts(n) == UNION {[1 .. k -> Characters] : k \in 0 .. n}

\* n times the character c.
Times(n, c) == [k \in 1 .. n |-> c]

\* The loops compileBF looks for, and loops that miss the shape by a little.
Idioms ==
    LET First(s) == Loop(<<M>> \o s)
        Last1(s) == Loop(s \o <<M>>)
        WalkBy(there, back, on) ==
            Loop(Loop(Times(there, R) \o <<P>> \o Times(back, L) \o <<M>>) \o Times(on, R) \o <<M>>)
    IN {Loop(<<M>>), Loop(<<P>>), Loop(<<M, M>>), Loop(<<R>>), Loop(<<R, R>>), Loop(<<L>>)}
       \cup {First(<<R, P, L>>), Last1(<<R, P, L>>), First(<<R, P, P, R, M, L, L>>),
             Last1(<<R, P, R, M, M, L, L>>), First(<<R, P, R, P, L>>), First(<<R, P, L, M>>),
             First(<<R, P, L, M, R, P, L>>),
             Last1(<<L, P, R>>), First(<<R, P, R, P, L, P, L>>)}
       \cup {WalkBy(1, 1, 1), WalkBy(2, 2, 2), WalkBy(1, 1, 2), WalkBy(2, 1, 2),
             Loop(Loop(<<R, P, L, M>>) \o <<R, P>>), Loop(Loop(<<R, P, L, M, M>>) \o <<R, M>>)}

\* Three cells are read, the first two passed on to an idiom, and one is printed.
AroundIdiom ==
    {<<In, R, In, R, In, L>> \o back \o idiom \o after :
        back \in {<<>>, <<L>>}, idiom \in Idioms,
        after \in {<<>>, <<Out>>, <<P, R, Out>>, <<R>> \o Loop(<<R, P, L, M>>)}}

\* A number and a divisor in two cells of an empty tape, then the division.
Division == Times(3, R) \o <<In, R, In, L>> \o DivModCode

MCCases ==
    {[source |-> s, input |-> <<2>>] : s \in Texts(4)}
    \cup {[source |-> s, input |-> i] : s \in AroundIdiom, i \in [1 .. 2 -> Byte]}
    \cup {[source |-> Division, input |-> <<n, d>>] : n \in Byte, d \in Byte}
    \cup {[source |-> before \o Division, input |-> <<n, 2>>] :
            before \in {<<R>>, Times(6, R) \o <<P>> \o Times(6, L)}, n \in Byte}

=============================================================================
