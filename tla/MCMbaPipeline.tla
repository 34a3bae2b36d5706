--------------------------- MODULE MCMbaPipeline ---------------------------
(* Blocks of three instructions over four leaves, one of them half as wide  *)
(* as the others: a definition, a second definition or a redefinition, and  *)
(* an instruction that uses both.                                           *)
EXTENDS MbaPipeline

CONSTANTS v1, v2, t1, t2, narrow, heap

MCSize == [v \in Var \cup {Heap} |-> IF v \in {narrow, heap} THEN 1 ELSE Width]

Ins(o, l, r, d) == [op |-> o, l |-> l, r |-> r, d |-> d, ea |-> 0]
NoOperand == [kind |-> "none"]
Unary(o, l, d) == Ins(o, l, NoOperand, d)

MCCode ==
    {Unary("bnot", Leaf(v1), t1), Unary("bnot", Leaf(v1), t2),
     Unary("bnot", Leaf(t1), t2),
     Ins("and", Leaf(v1), Leaf(v2), t1), Ins("and", Leaf(t1), Const(1), t1),
     Ins("and", Leaf(t1), Leaf(v2), t2), Ins("and", Leaf(t1), Leaf(t2), t1),
     Ins("or", Leaf(v1), Leaf(v2), t2), Ins("or", Leaf(t1), Leaf(v1), t2),
     Ins("add", Leaf(t1), Const(1), t2), Ins("add", Leaf(t1), Leaf(t2), t1),
     Ins("add", Leaf(v1), Const(1), t1), Ins("add", Leaf(t1), Leaf(v1), t2),
     Ins("sub", Leaf(v1), Nested(Ins("and", Leaf(v1), Leaf(v2), None)), t2),
     Ins("shl", Leaf(t1), Const(1), t2),
     Unary("mov", Leaf(v2), v1), Unary("mov", Leaf(t1), t2),
     Unary("ldx", Leaf(v2), v1), Unary("ldx", Leaf(v2), t1),
     Unary("bnot", Const(0), narrow), Unary("xdu", Leaf(narrow), t1),
     Unary("neg", Nested(Unary("bnot", Leaf(narrow), None)), narrow)}

\* Small trees over the given leaves.
MCRewrites(leaves) ==
    LET atoms == {Leaf(n) : n \in leaves} \cup {Const(1)} IN
    atoms
    \cup {Un(op, a) : op \in Prefix, a \in atoms}
    \cup {Bin(op, a, b) : op \in Infix, a \in atoms, b \in atoms}

ASSUME CodeIsSized == SizedCode
=============================================================================
