--------------------------- MODULE MCControlFlow ---------------------------
(* Programs for the model of statements. *)
EXTENDS ControlFlow

Lit(v) == [e |-> "lit", v |-> v]
Var(x) == [e |-> "var", x |-> x]
Op(f, l, r) == [e |-> "binary", f |-> f, l |-> l, r |-> r]
Eq(x, v) == Op("eq", Var(x), Lit(v))
Or(l, r) == [e |-> "logical", f |-> "or", l |-> l, r |-> r]
And(l, r) == [e |-> "logical", f |-> "and", l |-> l, r |-> r]
CallOf(f, args) == [e |-> "call", f |-> f, args |-> args]

Call(f, args) == [s |-> "call", f |-> f, args |-> args]
Show(e) == Call(Putchar, <<e>>)
Define(x, e) == [s |-> "define", x |-> x, rhs |-> e]
Assign(x, e) == [s |-> "assign", x |-> x, rhs |-> e]
Inc(x) == [s |-> "inc", x |-> x]
IfElse(c, then, else) == [s |-> "if", cond |-> <<c>>, then |-> then, else |-> else]
When(c, st) == IfElse(c, <<st>>, <<>>)
For(init, cond, post, body) == [s |-> "for", init |-> init, cond |-> cond, post |-> post, body |-> body]
Count(x, n, body) == For(<<Define(x, Lit(0))>>, <<Op("lt", Var(x), Lit(n))>>, <<Inc(x)>>, body)
Range1(x, e, body) == [s |-> "range", key |-> x, limit |-> e, body |-> body]
Switch(tag, clauses) == [s |-> "switch", tag |-> tag, clauses |-> clauses]
Case(vals, body) == [vals |-> vals, body |-> body]
Break(label) == [s |-> "break", label |-> label]
Cont(label) == [s |-> "continue", label |-> label]
Goto(label) == [s |-> "goto", label |-> label]
Label(label, st) == [s |-> "labeled", label |-> label, stmt |-> st]
Fallthrough == [s |-> "fallthrough"]
Ret(es) == [s |-> "return", results |-> es]
Defer(f, args) == [s |-> "defer", f |-> f, args |-> args]
Block(b) == [s |-> "block", body |-> b]
Tuple(xs, es) == [s |-> "tuple", xs |-> xs, results |-> es]
AssignCall(xs, f, args) == [s |-> "assignCall", xs |-> xs, f |-> f, args |-> args]

Func(params, returns, body) ==
    [params |-> params, named |-> <<>>, returns |-> returns, struct |-> FALSE, body |-> body]
NamedFunc(params, named, body) ==
    [params |-> params, named |-> named, returns |-> Len(named), struct |-> FALSE, body |-> body]
StructFunc(params, body) == [Func(params, 1, body) EXCEPT !.struct = TRUE]
Program(funcs, body) ==
    [globals |-> <<>>, structs |-> {}, funcs |-> [f \in {Main} |-> Func(<<>>, 0, body)] @@ funcs]
JustMain(body) == Program(<<>>, body)
Globals(defs, p) == [p EXCEPT !.globals = defs]
Structs(xs, p) == [p EXCEPT !.structs = xs]

-----------------------------------------------------------------------------
(* Statements of the body of a loop labelled A that counts in i, inside a  *)
(* function with one result.                                               *)

Leave == {Break(""), Cont(""), Ret(<<Var("i")>>)}
Jump1 == Leave \cup {Break("A"), Cont("A")}

InBody ==
    {Show(Var("i")), When(Eq("i", 1), Inc("i"))}
    \cup {When(Eq("i", 1), jump) : jump \in Leave}
    \cup {IfElse(Eq("i", 0), <<Show(Lit(5))>>, <<jump, Show(Lit(6))>>) : jump \in {Break(""), Cont("")}}
    \cup {Count("j", 2, <<When(Eq("j", 1), jump), Show(Var("j"))>>) : jump \in Jump1}
    \cup {Range1("j", Lit(2), <<When(And(Eq("i", 1), Eq("j", 0)), jump), Show(Var("j"))>>) : jump \in Jump1}
    \cup {Switch(<<Var("i")>>, <<Case(<<Lit(0)>>, <<Show(Lit(5)), Fallthrough>>),
                                 Case(<<Lit(1)>>, <<When(Eq("i", 1), jump), Show(Lit(6))>>),
                                 Case(<<>>, <<Show(Lit(7))>>)>>) : jump \in Jump1}

Loops(body) ==
    { <<Label("A", Count("i", 3, body))>>,
      <<Label("A", Range1("i", Lit(3), body))>>,
      <<Define("i", Lit(7)), Label("A", For(<<>>, <<>>, <<>>, <<Inc("i"), When(Eq("i", 3), Break(""))>> \o body))>> }

\* Two statements in the loop, one of them simple.
LoopPrograms ==
    LET simple == {Show(Var("i"))} \cup {When(Eq("i", 1), jump) : jump \in Leave}
        bodies == {<<a, b>> : a \in simple, b \in InBody} \cup {<<a, Show(Var("i"))>> : a \in InBody}
    IN  {Program("f" :> Func(<<>>, 1, loop \o <<Show(Lit(4)), Ret(<<Lit(2)>>)>>), <<Show(CallOf("f", <<>>))>>) :
            loop \in UNION {Loops(body) : body \in bodies}}

-----------------------------------------------------------------------------
(* goto, forwards and back, past loops, switches and returns. *)

GotoPrograms ==
    LET first == {Show(Var("n")), When(Eq("n", 1), Goto("M")), When(Eq("n", 2), Ret(<<Lit(5)>>)),
                  Block(<<Range1("j", Lit(2), <<When(Eq("n", 1), Goto("M")), Show(Var("j"))>>)>>),
                  Block(<<Count("j", 2, <<When(Eq("n", 1), Ret(<<Var("j")>>)), Show(Var("j"))>>)>>),
                  Show(CallOf("g", <<Var("n")>>))}
        last == {When(Op("lt", Var("n"), Lit(3)), Goto("L")),
                 Switch(<<Var("n")>>, <<Case(<<Lit(1)>>, <<Goto("L")>>),
                                        Case(<<Lit(2)>>, <<When(Eq("n", 2), Break("")), Show(Lit(7))>>),
                                        Case(<<>>, <<Goto("M")>>)>>)}
        early == {<<>>, <<When(Eq("n", 0), Goto("M"))>>}
        g == Func(<<"x">>, 1, <<When(Eq("x", 1), Ret(<<Lit(4)>>)), Ret(<<Lit(3)>>)>>)
        body(e, a, b) == <<Define("n", Lit(0))>> \o e \o
                         <<Label("L", a), Inc("n"), b, Show(Lit(1)), Label("M", Show(Lit(6))), Ret(<<Var("n")>>)>>
    IN  {Program("f" :> Func(<<>>, 1, body(e, a, b)) @@ "g" :> g, <<Show(CallOf("f", <<>>))>>) :
            e \in early, a \in first, b \in last}

-----------------------------------------------------------------------------
(* defer, reached or not, and what it captured. *)

DeferPrograms ==
    LET stmts == {Defer(Putchar, <<Var("x")>>), Defer("g", <<Var("x"), Lit(1)>>), Inc("x"),
                  When(Eq("x", 1), Defer("g", <<Lit(5), Var("x")>>)), When(Eq("x", 1), Ret(<<Var("x")>>)),
                  Count("i", 2, <<When(Eq("x", 1), Ret(<<Var("i")>>)), Show(Var("i"))>>)}
        g == Func(<<"a", "b">>, 0, <<Show(Var("a")), When(Eq("a", 1), Ret(<<>>)), Show(Var("b"))>>)
    IN  {Program("f" :> Func(<<"x">>, 1, <<a, b, c, Show(Lit(2)), Ret(<<Var("x")>>)>>) @@ "g" :> g,
                 <<Show(CallOf("f", <<Lit(0)>>)), Show(CallOf("f", <<Lit(1)>>))>>) :
            a \in stmts, b \in stmts, c \in stmts}

-----------------------------------------------------------------------------
(* Tail recursion: the parameters of a round from those of the one before. *)

TailPrograms ==
    LET less(x) == Op("sub", Var(x), Lit(1))
        calls == {<<less("a"), Var("b")>>, <<less("a"), Op("add", Var("a"), Var("b"))>>, <<Var("b"), less("a")>>}
        again(args) == Ret(<<CallOf("h", args)>>)
        stops == When(Eq("a", 0), Ret(<<Var("b")>>))
        between == {Show(Var("a")), Count("i", 2, <<When(Eq("a", 1), Ret(<<Var("i")>>)), Show(Var("i"))>>),
                    Range1("i", Lit(2), <<When(Eq("a", 2), Break("")), Show(Var("b"))>>),
                    Define("c", Op("add", Var("a"), Var("b"))), Show(CallOf("g", <<Var("a")>>))}
        g == Func(<<"x">>, 1, <<When(Eq("x", 1), Ret(<<Lit(4)>>)), Ret(<<Lit(5)>>)>>)
        bodies == {<<stops, st, again(args)>> : st \in between, args \in calls}
                  \cup {<<IfElse(Eq("a", 0), <<Ret(<<Var("b")>>)>>, <<st, again(args)>>)>> : st \in between, args \in calls}
                  \cup {<<stops, IfElse(Eq("a", 1), <<again(args)>>, <<st>>), again(more)>> :
                           st \in between, args \in calls, more \in calls}
    IN  {Program("h" :> Func(<<"a", "b">>, 1, body) @@ "g" :> g, <<Show(CallOf("h", <<Lit(2), Lit(1)>>))>>) :
            body \in bodies}

-----------------------------------------------------------------------------
(* Several results, named results, tuples, variables that hide others.     *)

ResultPrograms ==
    LET pairs == {<<Var("a"), Var("b")>>, <<Var("b"), Var("a")>>, <<Op("add", Var("a"), Var("b")), Lit(0)>>}
        exits == {<<Ret(pair)>> : pair \in pairs}
                 \cup {<<When(Eq("a", 1), Ret(pair)), Ret(<<Var("b"), Lit(6)>>)>> : pair \in pairs}
        uses == {AssignCall(<<"x", "y">>, "f", <<Var("x"), Var("y")>>), AssignCall(<<"y", "x">>, "f", <<Var("y"), Lit(1)>>),
                 Tuple(<<"x", "y">>, <<Var("y"), Var("x")>>), Call("f", <<Var("y"), Var("x")>>)}
        main(st) == <<Define("x", Lit(1)), Define("y", Lit(2)), st, Show(Var("x")), Show(Var("y"))>>
        named == NamedFunc(<<"a", "b">>, <<"r", "s">>,
                     <<Assign("s", Var("a")), When(Eq("b", 2), Ret(<<>>)), Assign("r", Var("b")), Ret(<<Lit(3), Var("r")>>)>>)
    IN  {Program("f" :> Func(<<"a", "b">>, 2, exit), main(st)) : exit \in exits, st \in uses}
        \cup {Program("f" :> named, main(st)) : st \in uses}

ScopePrograms ==
    LET hiding == {Block(<<Define("x", Op("add", Var("x"), Lit(1))), Show(Var("x"))>>),
                   When(Eq("x", 1), Define("x", Op("sub", Lit(5), Var("x")))),
                   Count("x", 2, <<Define("y", Var("x")), Show(Op("add", Var("x"), Var("y")))>>),
                   Block(<<Define("x", CallOf("f", <<Var("x")>>)), Show(Var("x"))>>),
                   Define("z", Or(Eq("x", 2), CallOf("f", <<Var("x")>>))),
                   Define("z", And(Eq("x", 1), CallOf("f", <<Lit(0)>>))),
                   Assign("x", CallOf("f", <<CallOf("f", <<Var("x")>>)>>)), Call("f", <<Var("x")>>)}
        f == Func(<<"a">>, 1, <<Define("y", Op("add", Var("a"), Var("k"))), Inc("k"), Show(Var("k")), Ret(<<Var("y")>>)>>)
        init == Func(<<>>, 0, <<When(Eq("k", 2), Ret(<<>>)), Assign("k", Lit(1))>>)
        both(st, more) == Program("f" :> f @@ Init0 :> init, <<Define("x", Lit(1)), st, more, Show(Var("x")), Show(Var("k"))>>)
    IN  {Globals(<<Define("k", Lit(v))>>, both(st, more)) : v \in {2, 3}, st \in hiding, more \in hiding}

StructPrograms ==
    LET uses == {Assign("p", Var("q")), Define("r", Var("p")), Assign("p", CallOf("f", <<Var("q")>>)),
                 Define("r", CallOf("f", <<Var("p")>>)), When(Eq("p", 1), Define("p", Var("q"))), Inc("q")}
        f == StructFunc(<<"a">>, <<Define("s", Lit(4)), When(Eq("a", 2), Ret(<<Var("s")>>)), Inc("s"), Ret(<<Var("s")>>)>>)
    IN  {Structs({"p", "q", "r", "s"}, Program("f" :> f, <<Define("p", Lit(1)), Define("q", Lit(2)), a, b, Show(Var("p")),
                                                           Show(Var("q"))>>)) : a \in uses, b \in uses}

-----------------------------------------------------------------------------
(* Loops and switches in one another, and calls between them.              *)

NestPrograms ==
    LET calls == {Show(CallOf("g", <<Var("i")>>)), When(Op("lt", CallOf("g", <<Var("i")>>), Lit(3)), Cont("")),
                  Define("c", Op("add", Var("i"), CallOf("g", <<Lit(1)>>))), Call("g", <<Var("i")>>)}
        inner(st) == {Count("j", 3, <<When(Eq("j", 1), st), Show(Var("j"))>>),
                      Switch(<<>>, <<Case(<<Eq("i", 0), Eq("i", 2)>>, <<st, Show(Lit(5))>>),
                                     Case(<<>>, <<Show(Lit(6)), Fallthrough>>),
                                     Case(<<Eq("i", 1)>>, <<Switch(<<Var("i")>>, <<Case(<<Lit(1)>>, <<When(Eq("i", 1), st),
                                                                                  Show(Lit(7))>>)>>), Show(Lit(1))>>)>>)}
        g == Func(<<"x">>, 1, <<Count("k", 2, <<Switch(<<Var("k")>>, <<Case(<<Var("x")>>, <<Ret(<<Op("add", Var("k"), Lit(2))>>)>>),
                                                                      Case(<<>>, <<When(Eq("k", 1), Break(""))>>)>>)>>),
                               Ret(<<Lit(7)>>)>>)
    IN  {Program("f" :> Func(<<>>, 1, loop \o <<Ret(<<Lit(2)>>)>>) @@ "g" :> g, <<Show(CallOf("f", <<>>))>>) :
            loop \in UNION {Loops(<<a, b>>) : a \in calls, b \in UNION {inner(jump) : jump \in Jump1}}}

MCPrograms ==
    LoopPrograms \cup NestPrograms \cup GotoPrograms \cup DeferPrograms \cup TailPrograms
    \cup ResultPrograms \cup ScopePrograms \cup StructPrograms
=============================================================================
