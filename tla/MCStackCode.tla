---------------------------- MODULE MCStackCode ----------------------------
(* Layouts and operations for the model of the stack code. *)
EXTENDS StackCode

\* Slot i holds a value that tells it from its neighbours.
Filled(n, seed) == [i \in 1 .. n |-> (3 * i + seed) % 5]
CpuFilled(seed) == [c \in CpuCells |-> (c + seed) % 7]

LayoutsOf(counts, positions, seeds) ==
    {[pos |-> p, scratch |-> 6, cpu |-> CpuFilled(s), stack |-> Filled(n, s)] :
        p \in positions, n \in counts, s \in seeds}

Sets(cells, values) == [name : {"set"}, cell : cells, value : values]
Slots(cells, slots) == [name : {"load", "store"}, cell : cells, slot : slots]
Frames(cells, slots, sizes) ==
    [name : {"loadFrame", "storeFrame"}, cell : cells, slot : slots, size : sizes]
Pushes(sizes) == [name : {"push", "pop"}, slots : sizes]
Dyn(cells) == [name : {"pushDyn", "popDyn"}, cell : cells]
DynSlots(cells, bases, indexes) ==
    [name : {"dynLoad", "dynStore"}, cell : cells, base : bases, index : indexes]

Ternary(names, dst, src1, src2) ==
    [name : names, dst : {dst}, src1 : {src1}, src2 : {src2}]
Then(c) == [cond |-> c, branch |-> "then"]
Else(c) == [cond |-> c, branch |-> "else"]
Within(around, nodes) == [name : {"ifElse"}, around : {around}, op : nodes]

\* The default layout: every way to reach a slot, near and far, and arithmetic on
\* registers, whatever the temps hold.
EdgePairs == {<<0, 2>>, <<3, 3>>, <<31, 2>>, <<13, 30>>, <<5, 0>>}
NearLayouts ==
    LayoutsOf({0, 1, 3, 7, 14}, {0, 19}, {0, 4})
    \cup {[pos |-> 2, scratch |-> 6, cpu |-> (1 :> v[1] @@ 2 :> v[2]) @@ CpuFilled(3),
            stack |-> <<>>] : v \in EdgePairs}
NearArithmetic ==
    Ternary({"add", "sub", "mul", "div", "mod", "eq", "ne", "lt", "gt", "le", "ge"}, 4, 1, 2)
    \cup Ternary({"add", "sub", "mul", "div"}, 1, 1, 2) \cup Ternary({"add", "mod"}, 2, 1, 2)
    \cup Ternary({"add", "mul"}, 4, 2, 2) \cup {[name |-> "not", dst |-> 4, src |-> 2]}
NearOperations ==
    Sets({1, 2, 4}, {0, 13, 25}) \cup Slots({1, 7}, {0, 1, 6, 7, 8, 11, 12, 13})
    \cup Frames({4}, {0, 2}, {1, 3, 14}) \cup Pushes({0, 1, 3, 4, 13})
    \cup Dyn({1, 2}) \cup DynSlots({1}, {0, 6, 12}, {2}) \cup NearArithmetic

\* A larger layout, from the first instruction of the program or in its midst:
\* markers set by a walking counter, phase temps, one operation after the other,
\* also within if-else statements.
FarLayouts == {[l EXCEPT !.scratch = 0] : l \in LayoutsOf({2, 8}, {3, 30}, {0, 4})}
FarArithmetic ==
    Ternary({"add", "xor", "lt"}, 58, 26, 27)
    \cup [name : {"divMod"}, dst : {26}, rem : {2}, src1 : {27}, src2 : {58}]
    \cup Within(<<Then(2), Else(28)>>, Ternary({"or", "ge"}, 26, 58, 27))
FarOperations ==
    [name : {"boot"}, slots : {0, 2, 4, 14}] \cup Sets({27}, {31}) \cup Slots({2}, {1, 8})
    \cup Pushes({2}) \cup Frames({26, 58}, {0, 1}, {2}) \cup FarArithmetic

\* A division within two if-else statements, then a bitwise operation in an else branch:
\* what the first leaves in its temps includes one that the other takes for 0.
NestedLayouts ==
    {[pos |-> 0, scratch |-> 0, cpu |-> (1 :> 1 @@ 2 :> 3 @@ 4 :> 2 @@ 7 :> 3), stack |-> <<>>]}
NestedOperations ==
    Within(<<Then(1), Then(2)>>, Ternary({"div"}, 4, 4, 7))
    \cup Within(<<Else(4)>>, Ternary({"and"}, 7, 1, 2))

\* A program that keeps nothing in slots but pushes a frame: Generate has dropped the
\* text that sets the markers.
NoLayouts == {}
UnbootedOperations == [name : {"boot"}, slots : {1}] \cup [name : {"push"}, slots : {2}]
=============================================================================
