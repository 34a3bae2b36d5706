------------------------------ MODULE ExprTree ------------------------------
(***************************************************************************)
(* Expression trees over named leaves: what they evaluate to (expr.py),    *)
(* and the alpha-invariant keys under which table.py shares a rewrite.     *)
(***************************************************************************)
EXTENDS Integers, Sequences, FiniteSets

CONSTANTS
    Width,   \* the bitwidth everything is evaluated at
    Var,     \* the names of leaves
    Depth    \* bound on the nesting of trees

ASSUME WidthAssumption == Width \in Nat \ {0}
ASSUME DepthAssumption == Depth \in Nat

Pow2[n \in Nat] == IF n = 0 THEN 1 ELSE 2 * Pow2[n - 1]

Modulus == Pow2[Width]
Word    == 0 .. Modulus - 1

Const(v)      == [kind |-> "const", value |-> v]
Leaf(n)       == [kind |-> "var", name |-> n]
Un(op, a)     == [kind |-> "un", op |-> op, a |-> a]
Bin(op, a, b) == [kind |-> "bin", op |-> op, a |-> a, b |-> b]

BoolOps  == {"~", "|", "&", "^"}
ArithOps == {"-", "+", "*"}
Prefix   == {"~", "-"}
Infix    == {"|", "&", "^", "-", "+", "*"}

\* A leaf has a name or, in a key, a number.
Label == Nat \cup Var

\* Trees over the given leaves, operators nested up to depth.
TreesOver(labels, depth) ==
    LET level[n \in Nat] ==
            [kind : {"const"}, value : Int] \cup [kind : {"var"}, name : labels]
            \cup IF n = 0 THEN {}
                 ELSE [kind : {"un"}, op : Prefix, a : level[n - 1]]
                      \cup [kind : {"bin"}, op : Infix,
                            a : level[n - 1], b : level[n - 1]]
    IN  level[depth]

Tree == TreesOver(Label, Depth)

-----------------------------------------------------------------------------
(* evaluate, node_count, accept_rewrite.                                   *)

\* Bit k of x, and the word a bitwise operator makes of two.
Bit(x, k) == (x \div Pow2[k]) % 2

ApplyBit(op, p, q) ==
    CASE op = "&" -> p * q
      [] op = "|" -> p + q - p * q
      [] op = "^" -> (p + q) % 2

Bitwise(op, x, y) ==
    LET low[n \in Nat] ==
            IF n = 0 THEN 0
            ELSE low[n - 1]
                 + Pow2[n - 1] * ApplyBit(op, Bit(x, n - 1), Bit(y, n - 1))
    IN  low[Width]

\* One operator on words, wrapped to the mask.
ApplyUn(op, x) == IF op = "-" THEN (-x) % Modulus ELSE Modulus - 1 - x

ApplyBin(op, x, y) ==
    CASE op = "+" -> (x + y) % Modulus
      [] op = "-" -> (x - y) % Modulus
      [] op = "*" -> (x * y) % Modulus
      [] op \in {"&", "|", "^"} -> Bitwise(op, x, y)

\* A function on trees is given as its value on a node, from its values on the
\* operands.
EvaluateNode(values, value, t) ==
    CASE t.kind = "const" -> t.value % Modulus
      [] t.kind = "var"   -> values[t.name]
      [] t.kind = "un"    -> ApplyUn(t.op, value[t.a])
      [] t.kind = "bin"   -> ApplyBin(t.op, value[t.a], value[t.b])

Evaluate(tree, values) ==
    LET value[t \in Tree] == EvaluateNode(values, value, t) IN value[tree]

NodeCount(tree) ==
    LET count[t \in Tree] ==
            CASE t.kind \in {"const", "var"} -> 1
              [] t.kind = "un"  -> 1 + count[t.a]
              [] t.kind = "bin" -> 1 + count[t.a] + count[t.b]
    IN  count[tree]

AcceptRewrite(original, rewrite) == NodeCount(rewrite) < NodeCount(original)

\* Equal at a size for every value of the leaves: what Z3 decides on two trees.
EquivalentOver(bits, leaves, s, t) ==
    \A values \in [leaves -> 0 .. Pow2[bits] - 1] :
        Evaluate(s, values) % Pow2[bits] = Evaluate(t, values) % Pow2[bits]

-----------------------------------------------------------------------------
(* Leaves, operators and keys.                                             *)

OrderNode(names, order, t) ==
    CASE t.kind = "const" -> names
      [] t.kind = "var"   -> IF \E i \in 1..Len(names) : names[i] = t.name
                             THEN names ELSE Append(names, t.name)
      [] t.kind = "un"    -> order[t.a][names]
      [] t.kind = "bin"   -> order[t.b][order[t.a][names]]

\* The leaf names of tree, in order of first occurrence, after those of names.
LeafOrder(tree, names) ==
    LET order[t \in Tree] == [ns \in Seq(Label) |-> OrderNode(ns, order, t)]
    IN  order[tree][names]

LeafNames(tree) == LeafOrder(tree, <<>>)

LeafSet(tree) == LET names == LeafNames(tree)
                 IN  {names[i] : i \in 1..Len(names)}

OpsOf(tree) ==
    LET ops[t \in Tree] ==
            CASE t.kind \in {"const", "var"} -> {}
              [] t.kind = "un"  -> {t.op} \cup ops[t.a]
              [] t.kind = "bin" -> {t.op} \cup ops[t.a] \cup ops[t.b]
    IN  ops[tree]

RenameNode(to, renamed, t) ==
    CASE t.kind = "const" -> t
      [] t.kind = "var"   -> Leaf(to[t.name])
      [] t.kind = "un"    -> Un(t.op, renamed[t.a])
      [] t.kind = "bin"   -> Bin(t.op, renamed[t.a], renamed[t.b])

Rename(tree, to) ==
    LET renamed[t \in Tree] == RenameNode(to, renamed, t) IN renamed[tree]

\* The number of each leaf of tree.
Numbering(tree) ==
    LET names == LeafNames(tree)
    IN  [n \in LeafSet(tree) |-> CHOOSE i \in 1..Len(names) : names[i] = n]

\* Mutant: aliasing leaves are not told apart from distinct ones.
CanonicalKeyAliasing(tree) ==
    <<Width, Rename(tree, [n \in LeafSet(tree) |-> 1])>>

CanonicalKey(tree) == <<Width, Rename(tree, Numbering(tree))>>

\* A rewrite of tree is stored over the numbers of tree's leaves, and handed
\* out over the leaves, by number, of the tree it is looked up for.
ToPositional(rewrite, tree)   == Rename(rewrite, Numbering(tree))
Instantiate(positional, tree) == Rename(positional, LeafNames(tree))
=============================================================================
