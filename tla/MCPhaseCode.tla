---------------------------- MODULE MCPhaseCode ----------------------------
(* Programs with recursive functions, and those of MCControlFlow.          *)
EXTENDS PhaseCode, MCControlFlow

Plus(l, r) == Op("add", l, r)
Less(k) == Op("sub", Var("n"), Lit(k))
Rec(k) == CallOf("f", <<Less(k)>>)
Early == Func(<<"v">>, 1, <<When(Eq("v", 2), Ret(<<Lit(5)>>)), Show(Var("v")), Ret(<<Plus(Var("v"), Lit(1))>>)>>)
RecProgram(f, main) == Program("f" :> f @@ "g" :> Early, main)
Shown(body) == RecProgram(Func(<<"n">>, 1, body), <<Show(CallOf("f", <<Lit(3)>>))>>)

Stop == When(Op("lt", Var("n"), Lit(2)), Ret(<<Plus(Var("n"), Lit(1))>>))
Locals2 == <<Define("x", Plus(Var("n"), Lit(1))), Define("y", Lit(0))>>

\* Statements before or after a call: x and y are locals, n the parameter.
Between ==
    {Show(Var("x")), Inc("x"), When(Eq("n", 1), Inc("x")), Show(CallOf("g", <<Var("x")>>)),
     IfElse(And(Eq("x", 1), Op("lt", Var("x"), Lit(3))), <<Assign("x", Lit(5))>>, <<Show(Lit(6)), Inc("x")>>),
     IfElse(Or(Eq("x", 2), Eq("x", 3)), <<Assign("y", Var("x")), Show(Var("y"))>>, <<Assign("x", CallOf("g", <<Var("n")>>))>>),
     Count("i", 3, <<When(Eq("i", 1), Cont("")), Inc("x")>>),
     Count("i", 3, <<When(Eq("i", 1), Break("")), Assign("x", Plus(Var("x"), Var("i"))), Show(Var("x"))>>),
     Range1("i", Var("n"), <<Assign("x", Plus(Var("x"), Var("i"))), When(Eq("i", 1), Show(Var("x")))>>),
     Label("A", Count("i", 2, <<Range1("j", Lit(2), <<When(Eq("j", 1), Break("A")), Inc("x")>>), Show(Var("i"))>>)),
     Label("A", Range1("i", Lit(2), <<Count("j", 2, <<When(Eq("j", 1), Cont("A")), Inc("x")>>), Show(Var("i"))>>)),
     Switch(<<Var("n")>>, <<Case(<<Lit(1)>>, <<Inc("x"), Fallthrough>>), Case(<<Lit(2)>>, <<Show(Var("x"))>>),
                            Case(<<>>, <<Assign("x", Lit(4))>>)>>),
     Tuple(<<"x", "y">>, <<Var("n"), Var("x")>>), Defer(Putchar, <<Var("x")>>)}

\* A call and what is done with its result.
CallForms ==
    {<<Assign("y", Rec(1)), Ret(<<Plus(Var("x"), Var("y"))>>)>>,
     <<Ret(<<Plus(Var("x"), Rec(1))>>)>>,
     <<Ret(<<Plus(Rec(1), Plus(Rec(2), Var("x")))>>)>>,
     <<Ret(<<Plus(CallOf("f", <<Op("sub", Rec(1), Rec(1))>>), Var("x"))>>)>>,
     <<Assign("x", Plus(Rec(1), Var("x"))), Show(Var("x")), Assign("x", Rec(2)), Ret(<<Var("x")>>)>>}

\* Calls in the branches of an if, of a switch, in one branch and after it.
BranchForms(st) ==
    {<<IfElse(Op("lt", Var("n"), Lit(2)), <<Ret(<<Var("x")>>)>>, <<st, Ret(<<Plus(Rec(1), Var("x"))>>)>>)>>,
     <<IfElse(Op("lt", Lit(0), Var("n")), <<st, Ret(<<Plus(Rec(1), Var("x"))>>)>>, <<Inc("x")>>), Ret(<<Var("x")>>)>>,
     <<Stop, IfElse(Eq("n", 2), <<Ret(<<Plus(Rec(1), Var("x"))>>)>>, <<st, Ret(<<Plus(Rec(2), Var("y"))>>)>>)>>,
     <<Stop, When(Eq("n", 3), Ret(<<Plus(Rec(1), Var("x"))>>)), st, Ret(<<Plus(Rec(2), Var("y"))>>)>>,
     <<Switch(<<Var("n")>>, <<Case(<<Lit(0)>>, <<Ret(<<Lit(3)>>)>>), Case(<<Lit(1)>>, <<Ret(<<Plus(Rec(1), Var("x"))>>)>>),
                              Case(<<>>, <<st, Ret(<<Plus(Rec(1), Plus(Rec(2), Var("x")))>>)>>)>>)>>}

Few == {Show(Var("x")), When(Eq("n", 2), Inc("x")), Tuple(<<"x", "y">>, <<Var("n"), Var("x")>>), Defer(Putchar, <<Var("x")>>)}
Before == {<<Stop>> \o Locals2 \o <<st>> \o form : st \in Between, form \in CallForms}
After == {<<Stop>> \o Locals2 \o <<st, Assign("y", Rec(1)), more, Ret(<<Plus(Var("x"), Var("y"))>>)>> : st \in Few, more \in Between}
Branches == UNION {{Locals2 \o form : form \in BranchForms(st)} : st \in Between}

\* Two results, named results, none.
ResultForms ==
    {RecProgram(Func(<<"n">>, 2, <<When(Eq("n", 0), Ret(<<Lit(1), Lit(2)>>))>> \o Locals2
                                 \o <<AssignCall(<<"x", "y">>, "f", <<Less(1)>>), st, Ret(<<Var("y"), Plus(Var("x"), Var("y"))>>)>>),
                <<Define("u", Lit(0)), Define("v", Lit(0)), AssignCall(<<"u", "v">>, "f", <<Lit(2)>>), Show(Var("u")), Show(Var("v"))>>) :
        st \in Between}
    \cup {RecProgram(NamedFunc(<<"n">>, <<"r">>, <<When(Eq("n", 0), Ret(<<>>))>> \o Locals2
                                 \o <<st, Assign("r", Plus(Rec(1), Var("x"))), Ret(<<>>)>>),
                <<Define("u", CallOf("f", <<Lit(2)>>)), Show(Var("u"))>>) : st \in Between}
    \cup {RecProgram(Func(<<"n">>, 0, <<When(Eq("n", 0), Ret(<<>>))>> \o Locals2
                                 \o <<st, Call("f", <<Less(1)>>), Show(Plus(Var("x"), Var("n")))>>),
                <<Call("f", <<Lit(2)>>), Call("f", <<Lit(1)>>)>>) : st \in Between}

\* Many locals, so that the pool has to grow.
Wide(k) ==
    LET v(i) == "v" \o ToString(i)
        defs == [i \in 1 .. k |-> Define(v(i), IF i = 1 THEN Var("n") ELSE Plus(Var(v(i - 1)), Lit(1)))]
    IN  Shown(<<Stop>> \o defs \o <<Show(Var(v(1))), Ret(<<Plus(Rec(1), Var(v(k)))>>)>>)

RecPrograms == {Shown(body) : body \in Before \cup After \cup Branches} \cup ResultForms \cup {Wide(k) : k \in {8, 24, 40}}

PhaseSlots == 25 .. 128
PhasePrograms == MCPrograms \cup RecPrograms
=============================================================================
