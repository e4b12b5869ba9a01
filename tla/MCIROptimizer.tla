--------------------------- MODULE MCIROptimizer ---------------------------
(* Small instances of IROptimizer for TLC.                                  *)
EXTENDS IROptimizer, TLC

MCLess == [p \in Byte \X Byte |-> IF p[1] < p[2] THEN 1 ELSE 0]
MCFns == {MCLess}

\* Every node on every operand, outside any body.
StraightSpec == Init /\ [][ConstantNode \/ OtherNode \/ StoreNode]_vars

\* Bodies are about slot 0 and the phase temp, and about bits.
BodyCells == Cells \ {1}
Narrow ==
    /\ 1 \notin touched \cup opt.everWritten \cup live /\ opt.known[1] = Unknown
    /\ \A c \in Cells : mem[c] < 2 /\ out[c] < 2 /\ opt.known[c] # 2

\* Constants, unknown data and stores: the nodes inside bodies.
BodyNode ==
    \/ \E d \in BodyCells : Zero(d) \/ Free(d) \/ Getc(d, 1)
    \/ \E d \in BodyCells, v \in {0, 1} : Const(d, v)
    \/ \E d, s \in BodyCells : Move(d, s)
    \/ \E i, s \in BodyCells : DynStore(0, i, s)

MCNext ==
    \/ bodies = <<>> /\ (ConstantNode \/ OtherNode \/ StoreNode)
    \/ bodies # <<>> /\ BodyNode
    \/ Narrow /\ ControlNode /\ 1 \notin opt'.everWritten
       /\ \A i \in DOMAIN bodies' : 1 \notin bodies'[i].dsts \cup bodies'[i].phase
MCSpec == Init /\ [][MCNext]_vars
=============================================================================
