------------------------------ MODULE MCSolve ------------------------------
(* Requests with every operator, an aliased leaf, leaves out of order, and  *)
(* malformed ones; answers of one to five nodes.                            *)
EXTENDS Solve

CONSTANTS x, y   \* the names of two leaves

Ask(tree) == [tree |-> tree, names |-> LeafNames(tree), supported |-> TRUE]

a == Leaf(x)
b == Leaf(y)

MCRequests ==
    {Ask(t) : t \in {
        Bin("-", a, b), Bin("-", b, Bin("&", a, b)), Un("~", Bin("*", a, Const(3))),
        Bin("+", Bin("|", a, b), Un("-", a)), Bin("^", Const(1), Bin("-", a, a)),
        Bin("+", a, Const(-1))}}
    \cup {[tree |-> Bin("-", a, b), names |-> <<y, x>>, supported |-> FALSE],
          [tree |-> Bin("-", a, b), names |-> <<y, x>>, supported |-> TRUE],
          [tree |-> Bin("&", a, b), names |-> <<y>>, supported |-> TRUE]}

X(i)        == Expr("variable", 0, i, <<>>)
C(v)        == Expr("constant", v, 0, <<>>)
E1(k, e)    == Expr(k, 0, 0, <<e>>)
E2(k, e, f) == Expr(k, 0, 0, <<e, f>>)

MCAnswers ==
    {X(0), X(3), C(2), E1("neg", X(0)), E1("not", X(0)),
     Expr("shr", 1, 0, <<X(0)>>), E1("not", Expr("shr", 1, 0, <<X(0)>>)),
     E2("add", X(0), E1("neg", X(1))), E2("add", E1("neg", X(0)), X(1)),
     E2("mul", C(3), E1("not", X(0))), E2("and", X(0), X(0)),
     E2("or", X(0), X(1)), E2("xor", X(0), C(1)),
     E2("add", X(0), E2("and", X(0), X(3)))}

MCTexts ==
    {Name(0), Name(3), Number(2), UnaryOp("-", Number(1)),
     UnaryOp("-", UnaryOp("-", Number(1))), UnaryOp("+", Name(0)),
     UnaryOp("~", UnaryOp("-", Name(0))),
     BinOp("-", Name(0), UnaryOp("-", Number(3))), BinOp("<<", Name(0), Number(1)),
     BinOp("*", Number(2), BinOp("^", Name(0), UnaryOp("~", Name(0))))}
=============================================================================
