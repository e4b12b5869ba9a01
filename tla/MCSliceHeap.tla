---------------------------- MODULE MCSliceHeap ----------------------------
(* Programs for the model of slices: bytes b and c, pairs of bytes w, strings *)
(* p and f, and in the loop body bytes t and a string u.                      *)
EXTENDS SliceHeap, TLC

MCSize == [n \in {"b", "c", "w", "p", "f", "t", "u"} |-> IF n = "w" THEN 2 ELSE 1]
MCArray == <<5, 6, 7>>

Name(n) == [kind |-> "name", name |-> n]
Text(s) == [kind |-> "text", cells |-> s]
OneByte == [kind |-> "byte", value |-> 4]
Part(n, low, high, max) == [kind |-> "view", name |-> n, low |-> low, high |-> high, max |-> max]
ArrayPart(low, high, max) == [kind |-> "array", low |-> low, high |-> high, max |-> max]
Make(len, cap, size) == [kind |-> "make", len |-> len, cap |-> cap, size |-> size]
Elements(s, size) == [kind |-> "elements", cells |-> s, size |-> size]
CopyOf(n) == [kind |-> "copyOf", name |-> n]
Concat(x, y) == [kind |-> "concat", x |-> x, y |-> y]
Appended(n, s) == [kind |-> "append", name |-> n, cells |-> s]
Nil == [kind |-> "nil"]

Assign(n, e) == [op |-> "assign", dst |-> n, rhs |-> e]
AppendTo(n, s) == [op |-> "append", dst |-> n, cells |-> s]
AppendAll(n, x) == [op |-> "appendAll", dst |-> n, src |-> x]
ConcatTo(n, x) == [op |-> "concat", dst |-> n, src |-> x]
SetAt(n, i, s) == [op |-> "set", dst |-> n, at |-> i, cells |-> s]
Clear(n) == [op |-> "clear", dst |-> n]
Copy(n, x) == [op |-> "copy", dst |-> n, src |-> x]
Compare(x, y, cmp) == [op |-> "compare", x |-> x, y |-> y, cmp |-> cmp]
Discard(x, y) == [op |-> "discard", x |-> x, y |-> y]
Swap(m, n) == [op |-> "swap", x |-> Name(m), y |-> Name(n)]

\* Byte slices: growing, sharing and cutting buffers.
ByteStatements ==
    {Assign("b", Make(2, 3, 1)), Assign("b", Nil), Assign("b", Elements(<<1, 2>>, 1)),
     Assign("b", ArrayPart(0, 1, 2)), Assign("c", Name("b")), Assign("c", Appended("b", <<8>>)),
     Assign("c", Part("b", 1, Omitted, Omitted)), Assign("b", Part("b", Omitted, 1, Omitted)),
     AppendTo("b", <<9>>), AppendTo("c", <<3>>), AppendAll("b", Name("c")), AppendAll("b", Name("b")),
     AppendAll("c", Text(<<1, 4>>)), AppendAll("c", Part("b", 1, Omitted, Omitted)),
     SetAt("b", 0, <<7>>), SetAt("c", 1, <<2>>), Clear("c"),
     Copy("b", Name("c")), Copy("c", Name("b")), Copy("b", Text(<<6, 5>>)), Swap("b", "c"),
     Assign("w", Make(1, 2, 2)), AppendTo("w", <<1, 2>>), AppendAll("w", Name("w")),
     SetAt("w", 1, <<3, 4>>), Assign("w", Part("w", 1, Omitted, 2))}

\* Strings.
StringStatements ==
    {Assign("p", Text(<<1, 2>>)), Assign("p", OneByte), Assign("p", Concat(Name("p"), Name("f"))),
     Assign("p", Concat(Text(<<3>>), Name("p"))), Assign("f", Name("p")),
     Assign("f", Part("p", 1, Omitted, Omitted)), Assign("p", Name("f")),
     Assign("p", Part("p", Omitted, 1, Omitted)), ConcatTo("p", Text(<<1>>)),
     ConcatTo("p", Name("f")), ConcatTo("p", Name("p")), ConcatTo("p", OneByte),
     ConcatTo("p", Part("p", Omitted, 1, Omitted)), Discard(Name("p"), OneByte),
     Assign("b", CopyOf("p")), Assign("p", CopyOf("b")), SetAt("b", 0, <<7>>)}
    \cup {Compare(Name("p"), Name("f"), cmp) : cmp \in {"==", "!=", "<", ">", "<=", ">="}}

\* A loop body and its variables.
BodyStatements ==
    {Assign("t", Make(1, 1, 1)), Assign("t", Appended("b", <<8>>)), Assign("t", Elements(<<3>>, 1)),
     Assign("b", Name("t")), Assign("b", Elements(<<1>>, 1)), AppendTo("t", <<6>>),
     AppendAll("b", Name("t")), Assign("u", Text(<<2>>)), Assign("u", Name("p")), Assign("u", Name("f")),
     Assign("u", Concat(Name("p"), Name("u"))), ConcatTo("u", Text(<<3>>)), Assign("f", Name("u")),
     Assign("f", Text(<<1>>)), ConcatTo("p", Name("u")), Assign("p", Name("u")),
     Assign("c", Name("b")), Swap("t", "b")}

MCStatements ==
    "bytes" :> ByteStatements @@ "strings" :> StringStatements @@ "body" :> BodyStatements
=============================================================================
