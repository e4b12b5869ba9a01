---------------------------- MODULE MCRegCache ----------------------------
(* Small instances of RegCache for TLC: bytes are bits, and two binary      *)
(* functions that tell the operands and their order apart.                  *)
EXTENDS RegCache, TLC

MCPos2 == 0 :> 1 @@ 1 :> 2
MCPos4 == MCPos2 @@ 2 :> 4 @@ 3 :> 5

MCLess == [p \in Byte \X Byte |-> IF p[1] < p[2] THEN 1 ELSE 0]
MCAdd == [p \in Byte \X Byte |-> (p[1] + p[2]) % Mod]
MCFns == {MCLess, MCAdd}
MCLessOnly == {MCLess}

\* Every straight-line node on every choice of operands, equal ones included.
OperandSpec == Init /\ [][UnaryNode \/ OperatorNode \/ ArrayNode \/ FrameNode]_vars

\* Bodies, arrays and frames around nodes that change one cell; more cells than
\* registers, so that any node may evict a dirty one.  Slot 0 is the index, slot 2
\* and the temps are the cells that are freed.
MCNode ==
    \/ \E d \in Cells : Const(d, 1, FALSE) \/ AddI(d, 1, FALSE)
    \/ \E d \in Cells : DynLoad(d, 1, 0) \/ DynStore(1, 0, d)
    \/ \E d \in {2} \cup Temps : Free(d)
    \/ FrameOp
ControlSpec == Init /\ [][MCNode \/ ControlNode]_vars
=============================================================================
