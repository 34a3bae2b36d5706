------------------------------- MODULE Solve -------------------------------
(***************************************************************************)
(* Asking the CoBRA solver: solve.py on top of the native binding          *)
(* (SimplifyCall, here with what its buffers say) or of the cobra-cli      *)
(* program.  The solver itself is external and may answer anything; what   *)
(* is at stake is that it is asked about the tree at hand and that its     *)
(* answer arrives as it was meant.                                         *)
(***************************************************************************)
EXTENDS SimplifyCall, ExprTree

CONSTANTS
    Requests,   \* [tree, names, supported]: a tree, the leaves it is said to
                \* have, in order, and whether the bitwidth is one of the four
    Answers,    \* expressions the solver may answer with
    Texts       \* expressions cobra-cli may print, as syntax

ASSUME RequestAssumption ==
    \A r \in Requests :
        /\ r.supported \in BOOLEAN
        /\ r.tree \in TreesOver(Var, Depth)
        /\ r.names \in Seq(Var)
        /\ \A i, j \in 1..Len(r.names) : r.names[i] = r.names[j] => i = j

VARIABLES
    path,       \* who asks: "binding" (solve_signature), "direct" (a caller
                \* of simplify itself), "cli" (solve_expression), or "none"
    stage,      \* where the request is
    request,    \* the request
    signature,  \* the truth vector
    flat,       \* in_nodes, as a sequence
    given,      \* what the shim made of in_nodes for the solver
    answer,     \* what the solver answered last
    buffer,     \* what the shim has copied to nodes
    built,      \* what _build or the parser made of the answer
    result      \* the status and tree of the SolveResult

askVars == <<path, stage, request>>
dataVars == <<signature, flat, given, answer, buffer, built>>
vars == <<simplifyVars, askVars, dataVars, result>>

Nothing == [kind |-> "nothing"]
Result(s, t) == [status |-> s, tree |-> t]
Pending == Result("pending", Nothing)
Failed  == Result("failed", Nothing)

Names == request.names
Index(names, n) == CHOOSE i \in 0..Len(names) - 1 : names[i + 1] = n
Declared(names) == {names[i] : i \in 1..Len(names)}

-----------------------------------------------------------------------------
(* cobra::Expr, external: its nodes and what they mean.                    *)

Expr(kind, value, var, children) ==
    [kind |-> kind, value |-> value, var |-> var, children |-> children]

\* Expressions with operators nested up to depth; <<e>> \in [1..1 -> S] iff e \in S.
ExprsTo(depth) ==
    LET level[n \in Nat] ==
            [kind : {"constant", "variable"}, value : Int, var : Nat,
             children : {<<>>}]
            \cup IF n = 0 THEN {}
                 ELSE [kind : {"not", "neg", "shr"}, value : Nat, var : {0},
                       children : [1..1 -> level[n - 1]]]
                      \cup [kind : {"add", "mul", "and", "or", "xor"}, value : {0},
                            var : {0}, children : [1..2 -> level[n - 1]]]
    IN  level[depth]

\* A tree takes at most two operators for each of its own.
Exprs == ExprsTo(2 * Depth)

ASSUME AnswerAssumption == Answers \subseteq ExprsTo(Depth)

ExprValueNode(leaf, value, x) ==
    LET child(i) == value[x.children[i]] IN
    CASE x.kind = "constant" -> x.value % Modulus
      [] x.kind = "variable" -> leaf[x.var]
      [] x.kind = "add" -> ApplyBin("+", child(1), child(2))
      [] x.kind = "mul" -> ApplyBin("*", child(1), child(2))
      [] x.kind = "and" -> ApplyBin("&", child(1), child(2))
      [] x.kind = "or"  -> ApplyBin("|", child(1), child(2))
      [] x.kind = "xor" -> ApplyBin("^", child(1), child(2))
      [] x.kind = "not" -> ApplyUn("~", child(1))
      [] x.kind = "neg" -> ApplyUn("-", child(1))
      [] x.kind = "shr" -> child(1) \div Pow2[x.value]

ExprValue(e, leaf) ==
    LET value[x \in Exprs] == ExprValueNode(leaf, value, x) IN value[e]

-----------------------------------------------------------------------------
(* The flat encoding of cobra_shim.h, both ways on both sides.  Indices    *)
(* count from 0.                                                           *)

Node(kind, value, var, child0, child1) ==
    [kind |-> kind, value |-> value, var |-> var,
     child0 |-> child0, child1 |-> child1]

FlatNode ==
    [kind : {"constant", "variable", "not", "neg", "shr", "add", "mul", "and",
             "or", "xor"},
     value : Int, var : Nat, child0 : Int, child1 : Int]

Last(out) == Len(out) - 1
Leafless(kind, child0, child1) == Node(kind, 0, 0, child0, child1)

KindOf == [op \in {"+", "*", "&", "|", "^"} |->
              CASE op = "+" -> "add" [] op = "*" -> "mul" [] op = "&" -> "and"
                [] op = "|" -> "or"  [] op = "^" -> "xor"]
UnaryKind(op) == IF op = "~" THEN "not" ELSE "neg"

\* Mutant: the subtrahend is not what is negated.
FlattenDiffSwapped(left, right, out) ==
    LET neg == Append(out, Leafless("neg", left, -1))
    IN  Append(neg, Leafless("add", Last(neg), right))

\* There is no subtraction: a - b is a + -b.
FlattenDiff(left, right, out) ==
    LET neg == Append(out, Leafless("neg", right, -1))
    IN  Append(neg, Leafless("add", left, Last(neg)))

\* _flatten: out with tree's nodes appended, the root last.
FlattenNode(names, encoded, t, ns) ==
    CASE t.kind = "const" -> Append(ns, Node("constant", t.value, 0, -1, -1))
      [] t.kind = "var" ->
            Append(ns, Node("variable", 0, Index(names, t.name), -1, -1))
      [] t.kind = "un" ->
            LET a == encoded[t.a][ns]
            IN  Append(a, Leafless(UnaryKind(t.op), Last(a), -1))
      [] t.kind = "bin" ->
            LET a == encoded[t.a][ns]
                b == encoded[t.b][a]
            IN  IF t.op = "-" THEN FlattenDiff(Last(a), Last(b), b)
                ELSE Append(b, Leafless(KindOf[t.op], Last(a), Last(b)))

Flatten(names, tree, out) ==
    LET encoded[t \in Tree] ==
            [ns \in Seq(FlatNode) |-> FlattenNode(names, encoded, t, ns)]
    IN  encoded[tree][out]

Encodable(tree) ==
    LeafSet(tree) \subseteq Declared(Names)
    /\ OpsOf(tree) \subseteq BoolOps \cup ArithOps

\* The shim's unflatten.
UnflattenNode(ns, expr, d, i) ==
    IF i < 0 \/ i >= Len(ns) \/ d > Len(ns) THEN Nothing
    ELSE LET n   == ns[i + 1]
             lhs == expr[d + 1][n.child0]
             rhs == expr[d + 1][n.child1]
         IN  CASE n.kind \in {"constant", "variable"} ->
                    Expr(n.kind, n.value, n.var, <<>>)
               [] n.kind \in {"not", "neg", "shr"} ->
                    IF lhs = Nothing THEN Nothing
                    ELSE Expr(n.kind, n.value, 0, <<lhs>>)
               [] n.kind \in {"add", "mul", "and", "or", "xor"} ->
                    IF lhs = Nothing \/ rhs = Nothing THEN Nothing
                    ELSE Expr(n.kind, 0, 0, <<lhs, rhs>>)

Unflatten(ns, index, depth) ==
    LET expr[d \in Nat] == [i \in Int |-> UnflattenNode(ns, expr, d, i)]
    IN  expr[depth][index]

\* The shim's flatten: children first.
FlattenExprNode(encoded, x, ns) ==
    CASE Len(x.children) = 0 ->
            Append(ns, Node(x.kind, x.value, x.var, -1, -1))
      [] Len(x.children) = 1 ->
            LET a == encoded[x.children[1]][ns]
            IN  Append(a, Node(x.kind, x.value, x.var, Last(a), -1))
      [] Len(x.children) = 2 ->
            LET a == encoded[x.children[1]][ns]
                b == encoded[x.children[2]][a]
            IN  Append(b, Node(x.kind, x.value, x.var, Last(a), Last(b)))

FlattenExpr(e, out) ==
    LET encoded[x \in Exprs] ==
            [ns \in Seq(FlatNode) |-> FlattenExprNode(encoded, x, ns)]
    IN  encoded[e][out]

ASSUME AnswerSizeAssumption ==
    \A e \in Answers : Len(FlattenExpr(e, <<>>)) <= MaxAnswer

BinaryOps == [kind \in {"add", "mul", "and", "or", "xor"} |->
                 CHOOSE op \in DOMAIN KindOf : KindOf[op] = kind]

\* Mutant: the two unary operators are mixed up.
UnaryOpsSwapped ==
    [kind \in {"not", "neg"} |-> IF kind = "not" THEN "-" ELSE "~"]

UnaryOps == [kind \in {"not", "neg"} |-> IF kind = "not" THEN "~" ELSE "-"]

\* _build, which raises (Nothing) on a shift and on a leaf not supplied.
BuildNode(names, ns, tree, i) ==
    LET n == ns[i + 1]
        a == tree[n.child0]
        b == tree[n.child1]
    IN  CASE n.kind = "constant" -> Const(n.value)
          [] n.kind = "variable" ->
                IF n.var < Len(names) THEN Leaf(names[n.var + 1]) ELSE Nothing
          [] n.kind \in DOMAIN UnaryOps ->
                IF a = Nothing THEN Nothing ELSE Un(UnaryOps[n.kind], a)
          [] n.kind \in DOMAIN BinaryOps ->
                IF Nothing \in {a, b} THEN Nothing
                ELSE Bin(BinaryOps[n.kind], a, b)
          [] n.kind = "shr" -> Nothing

BuildTree(names, ns, index) ==
    LET tree[i \in 0..Last(ns)] == BuildNode(names, ns, tree, i) IN tree[index]

-----------------------------------------------------------------------------
(* signature_of: the value of tree at each assignment of 0 and 1 to its    *)
(* leaves; bit k of the index is leaf k.                                   *)

SignatureOf(tree) ==
    [i \in 1..Pow2[Len(Names)] |->
        Evaluate(tree, [n \in Declared(Names) |-> Bit(i - 1, Index(Names, n))])]

-----------------------------------------------------------------------------
(* The text cobra-cli reads and prints, as Python's ast presents it.       *)

Number(v)          == [kind |-> "Constant", value |-> v]
Name(i)            == [kind |-> "Name", var |-> i]
BinOp(op, a, b)    == [kind |-> "BinOp", op |-> op, a |-> a, b |-> b]
UnaryOp(op, a)     == [kind |-> "UnaryOp", op |-> op, a |-> a]

\* Text with operators nested up to depth; << stands for those no tree holds.
TextsTo(depth) ==
    LET level[n \in Nat] ==
            [kind : {"Constant"}, value : Int] \cup [kind : {"Name"}, var : Nat]
            \cup IF n = 0 THEN {}
                 ELSE [kind : {"UnaryOp"}, op : {"~", "-", "+"}, a : level[n - 1]]
                      \cup [kind : {"BinOp"}, op : Infix \cup {"<<"},
                            a : level[n - 1], b : level[n - 1]]
    IN  level[depth]

Text == TextsTo(Depth)

ASSUME TextAssumption == Texts \subseteq Text

\* External: what cobra-cli means by it.
TextValueNode(leaf, value, t) ==
    CASE t.kind = "Constant" -> t.value % Modulus
      [] t.kind = "Name"     -> leaf[t.var]
      [] t.kind = "BinOp"    -> ApplyBin(t.op, value[t.a], value[t.b])
      [] t.kind = "UnaryOp"  -> IF t.op = "+" THEN value[t.a]
                                ELSE ApplyUn(t.op, value[t.a])

TextValue(text, leaf) ==
    LET value[t \in Text] == TextValueNode(leaf, value, t) IN value[text]

\* _render: every operator in parentheses, leaves by number.
RenderNode(names, text, t) ==
    CASE t.kind = "const" -> Number(t.value)
      [] t.kind = "var"   -> Name(Index(names, t.name))
      [] t.kind = "un"    -> UnaryOp(t.op, text[t.a])
      [] t.kind = "bin"   -> BinOp(t.op, text[t.a], text[t.b])

Render(names, tree) ==
    LET text[t \in Tree] == RenderNode(names, text, t) IN text[tree]

\* Mutant: the sign of a literal is dropped.
NegateParsedAbs(inner) ==
    IF inner.kind = "const" THEN inner ELSE Un("-", inner)

\* -<literal> is a constant, not a negation.
NegateParsed(inner) ==
    IF inner.kind = "const" THEN Const(-inner.value) ELSE Un("-", inner)

\* _convert, which raises (Nothing) on what a tree cannot hold.
ConvertNode(names, tree, t) ==
    LET a == tree[t.a]
        b == tree[t.b]
    IN  CASE t.kind = "Constant" -> Const(t.value)
          [] t.kind = "Name" ->
                IF t.var < Len(names) THEN Leaf(names[t.var + 1]) ELSE Nothing
          [] t.kind = "BinOp" ->
                IF t.op \notin BoolOps \cup ArithOps \/ Nothing \in {a, b}
                THEN Nothing ELSE Bin(t.op, a, b)
          [] t.kind = "UnaryOp" ->
                IF a = Nothing THEN Nothing
                ELSE CASE t.op = "~" -> Un("~", a)
                       [] t.op = "-" -> NegateParsed(a)
                       [] t.op = "+" -> a

Convert(names, text) ==
    LET tree[t \in Text] == ConvertNode(names, tree, t) IN tree[text]

-----------------------------------------------------------------------------

Init ==
    /\ SimplifyInit
    /\ request \in Requests
    /\ path \in {"binding", "direct", "cli"}
    /\ stage = "ask"
    /\ signature = <<>> /\ flat = <<>> /\ buffer = <<>>
    /\ given = Nothing /\ answer = Nothing /\ built = Nothing
    /\ result = Pending

GoTo(s) == stage' = s /\ UNCHANGED <<path, request>>
End(r)  == GoTo("done") /\ result' = r

\* solve_signature: no binding, or a tree it cannot evaluate, is a failure;
\* else the truth vector goes to simplify.
SolveSignature ==
    /\ path = "binding" /\ stage = "ask"
    /\ \/ /\ LeafSet(request.tree) \subseteq Declared(Names)
          /\ signature' = SignatureOf(request.tree)
          /\ GoTo("simplify") /\ UNCHANGED result
       \/ End(Failed) /\ UNCHANGED signature
    /\ UNCHANGED <<simplifyVars, flat, given, answer, buffer, built>>

\* A caller that brings a signature of its own, of any length.
CallSimplify ==
    /\ path = "direct" /\ stage = "ask"
    /\ \/ signature' = <<>>
       \/ signature' = [i \in 1..Pow2[Len(Names)] |-> 0]
    /\ GoTo("simplify")
    /\ UNCHANGED <<simplifyVars, flat, given, answer, buffer, built, result>>

\* The steps of simplify, with the data they work on.
Simplify ==
    \/ /\ Enter(Len(signature) = Pow2[Len(Names)] /\ request.supported)
       /\ UNCHANGED dataVars
    \/ /\ FlattenInput(Encodable(request.tree))
       /\ flat' = IF Encodable(request.tree) THEN Flatten(Names, request.tree, <<>>)
                  ELSE flat
       /\ UNCHANGED <<signature, given, answer, buffer, built>>
    \/ /\ \E got \in SUBSET Fixed : Allocate(got)
       /\ UNCHANGED dataVars
    \/ /\ Fill(\A i \in 1..Len(flat) : flat[i].value >= 0)
       /\ UNCHANGED dataVars
    \/ /\ \E ok \in BOOLEAN : AllocateNodes(ok)
       /\ UNCHANGED dataVars
    \/ /\ given' = Unflatten(flat, Last(flat), 0)
       /\ \E code \in {"UNCHANGED", "ERROR", "EXCEPTION"} :
             /\ given' = Nothing => code # "UNCHANGED"
             /\ Shim(code, 1)
       /\ UNCHANGED <<signature, flat, answer, buffer, built>>
    \/ /\ given' = Unflatten(flat, Last(flat), 0)
       /\ given' # Nothing
       /\ answer' \in Answers
       /\ LET ns == FlattenExpr(answer', <<>>) IN
             \/ Shim("OK", Len(ns)) /\ buffer' = ns
             \/ Shim("TOO_SMALL", Len(ns)) /\ UNCHANGED buffer
       /\ UNCHANGED <<signature, flat, built>>
    \/ /\ \E ok \in BOOLEAN : Grow(ok)
       /\ UNCHANGED dataVars
    \/ Decide /\ UNCHANGED dataVars
    \/ /\ pc = "build"
       /\ built' = BuildTree(Names, buffer, root)
       /\ Build(built' # Nothing)
       /\ UNCHANGED <<signature, flat, given, answer, buffer>>
    \/ Free /\ UNCHANGED dataVars

RunSimplify == stage = "simplify" /\ Simplify /\ UNCHANGED <<askVars, result>>

\* What solve_signature makes of the value or the exception.
Collect ==
    /\ stage = "simplify" /\ pc = "done"
    /\ End(CASE outcome = "unchanged" -> Result("unchanged", Nothing)
             [] outcome = "tree" ->
                   IF path = "binding" /\ built = request.tree
                   THEN Result("unchanged", Nothing)
                   ELSE Result("solved", built)
             [] outcome \notin {"unchanged", "tree"} -> Failed)
    /\ UNCHANGED <<simplifyVars, dataVars>>

\* solve_expression.  There is no program, or it takes too long, fails or
\* prints nothing; it prints the very expression it was given; or another one.
SolveExpression ==
    /\ path = "cli" /\ stage = "ask"
    /\ LeafSet(request.tree) \subseteq Declared(Names)
    /\ given' = Render(Names, request.tree)
    /\ \/ End(Failed) /\ UNCHANGED <<answer, built>>
       \/ End(Result("unchanged", Nothing)) /\ UNCHANGED <<answer, built>>
       \/ /\ answer' \in Texts
          /\ built' = Convert(Names, answer')
          /\ End(IF built' = Nothing THEN Failed ELSE Result("solved", built'))
    /\ UNCHANGED <<simplifyVars, signature, flat, buffer>>

Next == SolveSignature \/ CallSimplify \/ RunSimplify \/ Collect
        \/ SolveExpression

Spec == Init /\ [][Next]_vars

-----------------------------------------------------------------------------
(* Properties.                                                             *)

Assignments == [0..Len(Names) - 1 -> Word]
ByName(leaf) == [n \in Declared(Names) |-> leaf[Index(Names, n)]]

\* The solver is asked about the tree at hand: the expression it gets means
\* the tree, and the truth vector that goes with it is of the same function,
\* bit by bit ("the signature alone is not sufficient", expr.py:130).
SolverIsAskedAboutTree ==
    given # Nothing =>
        /\ \A leaf \in Assignments :
              Evaluate(request.tree, ByName(leaf)) =
                  IF path = "cli" THEN TextValue(given, leaf)
                  ELSE ExprValue(given, leaf)
        /\ path = "binding" =>
              \A i \in 1..Len(signature) :
                  signature[i] = ExprValue(given,
                      [k \in 0..Len(Names) - 1 |-> Bit(i - 1, k)])

\* A tree that comes back is over the leaves it was asked for, and means what
\* the solver's last answer meant: not what it answered to the first, too
\* small buffer, and never a shift that has become something else.
AnswerArrives ==
    result.status = "solved" =>
        /\ LeafSet(result.tree) \subseteq Declared(Names)
        /\ \A leaf \in Assignments :
              Evaluate(result.tree, ByName(leaf)) =
                  IF path = "cli" THEN TextValue(answer, leaf)
                  ELSE ExprValue(answer, leaf)
=============================================================================
