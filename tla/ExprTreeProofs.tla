--------------------------- MODULE ExprTreeProofs ---------------------------
(***************************************************************************)
(* What the functions on expression trees do, for every tree: their        *)
(* recursion equations, what renaming the leaves does to the value of a    *)
(* tree, and that two trees with the same key share their rewrites.        *)
(***************************************************************************)
EXTENDS ExprTree, TLAPS

-----------------------------------------------------------------------------
(* Levels of trees.                                                        *)

OverNat(p)     == Nat
Itself(p, n)   == n

TreesStep(labels, level, n) ==
    [kind : {"const"}, value : Int] \cup [kind : {"var"}, name : labels]
    \cup IF n = 0 THEN {}
         ELSE [kind : {"un"}, op : Prefix, a : level[n - 1]]
              \cup [kind : {"bin"}, op : Infix, a : level[n - 1], b : level[n - 1]]

TreesRec == INSTANCE Recursion
                WITH Domain <- OverNat, Rank <- Itself, Step <- TreesStep

\* The trees of a depth are the leaves, and the operators on those of the depth
\* before.
LEMMA TreesEquation ==
    ASSUME NEW labels, NEW n \in Nat
    PROVE  TreesOver(labels, n) =
               [kind : {"const"}, value : Int] \cup [kind : {"var"}, name : labels]
               \cup IF n = 0 THEN {}
                    ELSE [kind : {"un"}, op : Prefix,
                          a : TreesOver(labels, n - 1)]
                         \cup [kind : {"bin"}, op : Infix,
                               a : TreesOver(labels, n - 1),
                               b : TreesOver(labels, n - 1)]
<1>1. TreesRec!Ranked(labels)
  BY DEF TreesRec!Ranked, OverNat, Itself
<1>2. TreesRec!Descends(labels)
  BY DEF TreesRec!Descends, OverNat, Itself, TreesStep
<1>3. \A k \in Nat : TreesRec!Fix(labels)[k] = TreesStep(labels, TreesRec!Fix(labels), k)
  BY <1>1, <1>2, TreesRec!RecursiveEquation DEF OverNat
<1>4. \A k \in Nat : TreesOver(labels, k) = TreesRec!Fix(labels)[k]
  BY DEF TreesOver, TreesRec!Fix, OverNat, TreesStep
<1> QED BY <1>3, <1>4 DEF TreesStep

\* A tree is a constant, a leaf or an operator on less deep trees.
LEMMA TreeCases ==
    ASSUME NEW labels, NEW n \in Nat, NEW t \in TreesOver(labels, n)
    PROVE  \/ t.kind = "const" /\ t.value \in Int /\ t = Const(t.value)
           \/ t.kind = "var" /\ t.name \in labels /\ t = Leaf(t.name)
           \/ /\ t.kind = "un" /\ t.op \in Prefix /\ t = Un(t.op, t.a)
              /\ n # 0 /\ t.a \in TreesOver(labels, n - 1)
           \/ /\ t.kind = "bin" /\ t.op \in Infix /\ t = Bin(t.op, t.a, t.b)
              /\ n # 0 /\ t.a \in TreesOver(labels, n - 1)
              /\ t.b \in TreesOver(labels, n - 1)
BY TreesEquation DEF Const, Leaf, Un, Bin

\* The other way round.
LEMMA TreeMake ==
    ASSUME NEW labels, NEW n \in Nat
    PROVE  /\ \A v \in Int : Const(v) \in TreesOver(labels, n)
           /\ \A l \in labels : Leaf(l) \in TreesOver(labels, n)
           /\ \A op \in Prefix : \A a \in TreesOver(labels, n) :
                 Un(op, a) \in TreesOver(labels, n + 1)
           /\ \A op \in Infix : \A a, b \in TreesOver(labels, n) :
                 Bin(op, a, b) \in TreesOver(labels, n + 1)
<1>1. n + 1 \in Nat /\ n + 1 # 0 /\ (n + 1) - 1 = n
  OBVIOUS
<1>2. \A v \in Int : Const(v) \in TreesOver(labels, n)
  BY TreesEquation DEF Const
<1>3. \A l \in labels : Leaf(l) \in TreesOver(labels, n)
  BY TreesEquation DEF Leaf
<1>4. /\ [kind : {"un"}, op : Prefix, a : TreesOver(labels, n)]
            \subseteq TreesOver(labels, n + 1)
      /\ [kind : {"bin"}, op : Infix, a : TreesOver(labels, n),
          b : TreesOver(labels, n)] \subseteq TreesOver(labels, n + 1)
  <2>1. TreesOver(labels, n + 1) =
           [kind : {"const"}, value : Int] \cup [kind : {"var"}, name : labels]
           \cup ([kind : {"un"}, op : Prefix, a : TreesOver(labels, n)]
                 \cup [kind : {"bin"}, op : Infix, a : TreesOver(labels, n),
                       b : TreesOver(labels, n)])
    BY <1>1, TreesEquation
  <2> QED BY <2>1
<1>5. \A op \in Prefix : \A a \in TreesOver(labels, n) :
          Un(op, a) \in TreesOver(labels, n + 1)
  BY <1>4 DEF Un
<1>6. \A op \in Infix : \A a, b \in TreesOver(labels, n) :
          Bin(op, a, b) \in TreesOver(labels, n + 1)
  BY <1>4 DEF Bin
<1> QED BY <1>2, <1>3, <1>5, <1>6

\* A deeper bound or more labels admit more trees.
LEMMA TreesGrow ==
    ASSUME NEW labels, NEW more, labels \subseteq more
    PROVE  \A n \in Nat : \A k \in Nat :
               n <= k => TreesOver(labels, n) \subseteq TreesOver(more, k)
<1> DEFINE S == {n \in Nat : \A k \in Nat :
                    n <= k => TreesOver(labels, n) \subseteq TreesOver(more, k)}
<1>1. 0 \in S
  BY TreesEquation
<1>2. ASSUME NEW n \in Nat, n \in S PROVE n + 1 \in S
  <2>1. SUFFICES ASSUME NEW k \in Nat, n + 1 <= k,
                        NEW t \in TreesOver(labels, n + 1)
                 PROVE  t \in TreesOver(more, k)
    OBVIOUS
  <2>2. k - 1 \in Nat /\ n <= k - 1 /\ (k - 1) + 1 = k /\ n + 1 \in Nat /\ (n + 1) - 1 = n
    BY <2>1
  <2>3. TreesOver(labels, n) \subseteq TreesOver(more, k - 1)
    BY <1>2, <2>2
  <2>4. /\ \A op \in Prefix : \A a \in TreesOver(more, k - 1) :
               Un(op, a) \in TreesOver(more, k)
        /\ \A op \in Infix : \A a, b \in TreesOver(more, k - 1) :
               Bin(op, a, b) \in TreesOver(more, k)
    BY <2>2, TreeMake
  <2>5. \/ t.value \in Int /\ t = Const(t.value)
        \/ t.name \in labels /\ t = Leaf(t.name)
        \/ t.op \in Prefix /\ t = Un(t.op, t.a) /\ t.a \in TreesOver(labels, n)
        \/ /\ t.op \in Infix /\ t = Bin(t.op, t.a, t.b)
           /\ t.a \in TreesOver(labels, n) /\ t.b \in TreesOver(labels, n)
    BY <2>2, TreeCases
  <2>6. /\ \A v \in Int : Const(v) \in TreesOver(more, k)
        /\ \A l \in more : Leaf(l) \in TreesOver(more, k)
    BY TreeMake
  <2> QED BY <2>3, <2>4, <2>5, <2>6
<1> HIDE DEF S
<1>3. Nat \subseteq S
  BY <1>1, <1>2, TreesRec!NatSetInduction
<1> QED BY <1>3 DEF S

\* What holds of leaves, and of an operator if it does of its operands, holds
\* of every tree.
LEMMA TreeInduction ==
    ASSUME NEW labels, NEW n \in Nat, NEW S,
           \A v \in Int : Const(v) \in S,
           \A l \in labels : Leaf(l) \in S,
           \A op \in Prefix : \A a \in TreesOver(labels, n) :
               a \in S /\ Un(op, a) \in TreesOver(labels, n) => Un(op, a) \in S,
           \A op \in Infix : \A a, b \in TreesOver(labels, n) :
               a \in S /\ b \in S /\ Bin(op, a, b) \in TreesOver(labels, n)
                   => Bin(op, a, b) \in S
    PROVE  TreesOver(labels, n) \subseteq S
<1> DEFINE T == {k \in Nat : k <= n => TreesOver(labels, k) \subseteq S}
<1>0. \A k \in Nat : k <= n => TreesOver(labels, k) \subseteq TreesOver(labels, n)
  BY TreesGrow
<1>1. 0 \in T
  <2>1. \A t \in TreesOver(labels, 0) : t \in S
    BY TreeCases
  <2> QED BY <2>1
<1>2. ASSUME NEW k \in Nat, k \in T PROVE k + 1 \in T
  <2>1. SUFFICES ASSUME k + 1 <= n, NEW t \in TreesOver(labels, k + 1)
                 PROVE  t \in S
    OBVIOUS
  <2>2. k + 1 \in Nat /\ (k + 1) - 1 = k /\ k <= n
    BY <2>1
  <2>3. t \in TreesOver(labels, n) /\ TreesOver(labels, k) \subseteq S
        /\ TreesOver(labels, k) \subseteq TreesOver(labels, n)
    BY <1>0, <1>2, <2>1, <2>2
  <2> QED BY <2>2, <2>3, TreeCases
<1> HIDE DEF T
<1>3. Nat \subseteq T
  BY <1>1, <1>2, TreesRec!NatSetInduction
<1> QED BY <1>3 DEF T

PowStep(p, pow, n) == IF n = 0 THEN 1 ELSE 2 * pow[n - 1]

PowRec == INSTANCE Recursion
              WITH Domain <- OverNat, Rank <- Itself, Step <- PowStep

\* The powers of two.
LEMMA Pow2Facts ==
    /\ Pow2[0] = 1 /\ \A n \in Nat : Pow2[n + 1] = 2 * Pow2[n]
    /\ \A n \in Nat : Pow2[n] \in Nat \ {0}
<1>1. PowRec!Ranked(0) /\ PowRec!Descends(0)
  BY DEF PowRec!Ranked, PowRec!Descends, OverNat, Itself, PowStep
<1>2. \A n \in Nat : PowRec!Fix(0)[n] = PowStep(0, PowRec!Fix(0), n)
  BY <1>1, PowRec!RecursiveEquation DEF OverNat
<1>3. Pow2 = PowRec!Fix(0)
  BY DEF Pow2, PowRec!Fix, OverNat, PowStep
<1>4. Pow2[0] = 1 /\ \A n \in Nat : Pow2[n + 1] = 2 * Pow2[n]
  BY <1>2, <1>3 DEF PowStep
<1> DEFINE S == {n \in Nat : Pow2[n] \in Nat \ {0}}
<1>5. 0 \in S /\ \A n \in Nat : n \in S => n + 1 \in S
  BY <1>4
<1> HIDE DEF S
<1>6. Nat \subseteq S
  BY <1>5, PowRec!NatSetInduction
<1> QED BY <1>4, <1>6 DEF S

-----------------------------------------------------------------------------
(* Functions on trees.                                                     *)

TreeLevel == [n \in Nat |-> TreesOver(Label, n)]

\* The least depth a tree has.
Height(t) == TreesRec!LevelOf(TreeLevel, t)

TreeDomain(p)    == Tree
TreeHeight(p, t) == Height(t)

\* The operands of a tree are less high.
LEMMA HeightDescends ==
    ASSUME NEW t \in Tree
    PROVE  /\ Height(t) \in Nat
           /\ t.kind \in {"un", "bin"} => t.a \in Tree /\ Height(t.a) < Height(t)
           /\ t.kind = "bin" => t.b \in Tree /\ Height(t.b) < Height(t)
<1>1. ASSUME NEW u, NEW n \in Nat, u \in TreesOver(Label, n)
      PROVE  /\ Height(u) \in Nat /\ u \in TreesOver(Label, Height(u))
             /\ Height(u) <= n
  BY <1>1, TreesRec!FirstLevel DEF Height, TreeLevel
<1>2. /\ Height(t) \in Nat /\ t \in TreesOver(Label, Height(t))
      /\ Height(t) <= Depth
  BY <1>1, DepthAssumption DEF Tree
<1>3. \A n \in Nat : n <= Depth => TreesOver(Label, n) \subseteq Tree
  BY TreesGrow, DepthAssumption DEF Tree
<1>4. ASSUME NEW u, Height(t) # 0, u \in TreesOver(Label, Height(t) - 1)
      PROVE  u \in Tree /\ Height(u) < Height(t)
  <2>1. Height(t) - 1 \in Nat /\ Height(t) - 1 <= Depth
    BY <1>2, <1>4, DepthAssumption
  <2>2. Height(u) \in Nat /\ Height(u) <= Height(t) - 1
    BY <2>1, <1>1, <1>4
  <2> QED BY <1>2, <1>3, <1>4, <2>1, <2>2
<1> QED BY <1>2, <1>4, TreeCases

\* A tree is a constant, a leaf or an operator on trees.
LEMMA TreeKinds ==
    ASSUME NEW t \in Tree
    PROVE  \/ t.kind = "const" /\ t.value \in Int /\ t = Const(t.value)
           \/ t.kind = "var" /\ t.name \in Label /\ t = Leaf(t.name)
           \/ /\ t.kind = "un" /\ t.op \in Prefix /\ t = Un(t.op, t.a)
              /\ t.a \in Tree
           \/ /\ t.kind = "bin" /\ t.op \in Infix /\ t = Bin(t.op, t.a, t.b)
              /\ t.a \in Tree /\ t.b \in Tree
<1>1. t \in TreesOver(Label, Depth) /\ Depth \in Nat
  BY DepthAssumption DEF Tree
<1> QED BY <1>1, TreeCases, HeightDescends

\* Leaves are within any bound.
LEMMA LeavesAreTrees ==
    /\ \A v \in Int : Const(v) \in Tree
    /\ \A l \in Label : Leaf(l) \in Tree
BY TreeMake, DepthAssumption DEF Tree

\* Operands of a tree within the bound are within it.
LEMMA OperandsAreTrees ==
    /\ \A op, a : Un(op, a) \in Tree => op \in Prefix /\ a \in Tree
    /\ \A op, a, b :
          Bin(op, a, b) \in Tree => op \in Infix /\ a \in Tree /\ b \in Tree
<1>1. ASSUME NEW op, NEW a, Un(op, a) \in Tree
      PROVE  op \in Prefix /\ a \in Tree
  BY <1>1, TreeKinds DEF Un
<1>2. ASSUME NEW op, NEW a, NEW b, Bin(op, a, b) \in Tree
      PROVE  op \in Infix /\ a \in Tree /\ b \in Tree
  BY <1>2, TreeKinds DEF Bin
<1> QED BY <1>1, <1>2

EvaluateRec == INSTANCE Recursion
    WITH Domain <- TreeDomain, Rank <- TreeHeight, Step <- EvaluateNode

\* The value of a tree, by its root.
LEMMA EvaluateEquation ==
    ASSUME NEW values
    PROVE  /\ \A v \in Int : Evaluate(Const(v), values) = v % Modulus
           /\ \A l \in Label : Evaluate(Leaf(l), values) = values[l]
           /\ \A op, a : Un(op, a) \in Tree =>
                 Evaluate(Un(op, a), values) = ApplyUn(op, Evaluate(a, values))
           /\ \A op, a, b : Bin(op, a, b) \in Tree =>
                 Evaluate(Bin(op, a, b), values) =
                     ApplyBin(op, Evaluate(a, values), Evaluate(b, values))
<1>1. EvaluateRec!Ranked(values)
  BY HeightDescends DEF EvaluateRec!Ranked, TreeDomain, TreeHeight
<1>2. EvaluateRec!Descends(values)
  <2>1. SUFFICES ASSUME NEW g, NEW h, NEW t \in Tree,
                        \A u \in Tree : Height(u) < Height(t) => g[u] = h[u]
                 PROVE  EvaluateNode(values, g, t) = EvaluateNode(values, h, t)
    BY DEF EvaluateRec!Descends, TreeDomain, TreeHeight
  <2> QED BY <2>1, HeightDescends DEF EvaluateNode
<1>3. \A t \in Tree : Evaluate(t, values) = EvaluateRec!Fix(values)[t]
  BY DEF Evaluate, EvaluateRec!Fix, TreeDomain, EvaluateNode
<1>4. \A t \in Tree : EvaluateRec!Fix(values)[t] = EvaluateNode(values, EvaluateRec!Fix(values), t)
  BY <1>1, <1>2, EvaluateRec!RecursiveEquation DEF TreeDomain
<1>5. \A v \in Int : Evaluate(Const(v), values) = v % Modulus
  BY <1>3, <1>4, LeavesAreTrees DEF Const, EvaluateNode
<1>6. \A l \in Label : Evaluate(Leaf(l), values) = values[l]
  BY <1>3, <1>4, LeavesAreTrees DEF Leaf, EvaluateNode
<1>7. \A op, a : Un(op, a) \in Tree =>
          Evaluate(Un(op, a), values) = ApplyUn(op, Evaluate(a, values))
  BY <1>3, <1>4, OperandsAreTrees DEF Un, EvaluateNode
<1>8. \A op, a, b : Bin(op, a, b) \in Tree =>
          Evaluate(Bin(op, a, b), values) =
              ApplyBin(op, Evaluate(a, values), Evaluate(b, values))
  BY <1>3, <1>4, OperandsAreTrees DEF Bin, EvaluateNode
<1> QED BY <1>5, <1>6, <1>7, <1>8

RenameRec == INSTANCE Recursion
    WITH Domain <- TreeDomain, Rank <- TreeHeight, Step <- RenameNode

\* A renamed tree, by its root.
LEMMA RenameEquation ==
    ASSUME NEW to
    PROVE  /\ \A v \in Int : Rename(Const(v), to) = Const(v)
           /\ \A l \in Label : Rename(Leaf(l), to) = Leaf(to[l])
           /\ \A op, a : Un(op, a) \in Tree =>
                 Rename(Un(op, a), to) = Un(op, Rename(a, to))
           /\ \A op, a, b : Bin(op, a, b) \in Tree =>
                 Rename(Bin(op, a, b), to) = Bin(op, Rename(a, to), Rename(b, to))
<1>1. RenameRec!Ranked(to)
  BY HeightDescends DEF RenameRec!Ranked, TreeDomain, TreeHeight
<1>2. RenameRec!Descends(to)
  <2>1. SUFFICES ASSUME NEW g, NEW h, NEW t \in Tree,
                        \A u \in Tree : Height(u) < Height(t) => g[u] = h[u]
                 PROVE  RenameNode(to, g, t) = RenameNode(to, h, t)
    BY DEF RenameRec!Descends, TreeDomain, TreeHeight
  <2> QED BY <2>1, HeightDescends DEF RenameNode
<1>3. \A t \in Tree : Rename(t, to) = RenameRec!Fix(to)[t]
  BY DEF Rename, RenameRec!Fix, TreeDomain
<1>4. \A t \in Tree : RenameRec!Fix(to)[t] = RenameNode(to, RenameRec!Fix(to), t)
  BY <1>1, <1>2, RenameRec!RecursiveEquation DEF TreeDomain
<1>5. \A v \in Int : Rename(Const(v), to) = Const(v)
  BY <1>3, <1>4, LeavesAreTrees DEF Const, RenameNode
<1>6. \A l \in Label : Rename(Leaf(l), to) = Leaf(to[l])
  BY <1>3, <1>4, LeavesAreTrees DEF Leaf, RenameNode
<1>7. \A op, a : Un(op, a) \in Tree =>
          Rename(Un(op, a), to) = Un(op, Rename(a, to))
  BY <1>3, <1>4, OperandsAreTrees DEF Un, RenameNode
<1>8. \A op, a, b : Bin(op, a, b) \in Tree =>
          Rename(Bin(op, a, b), to) = Bin(op, Rename(a, to), Rename(b, to))
  BY <1>3, <1>4, OperandsAreTrees DEF Bin, RenameNode
<1> QED BY <1>5, <1>6, <1>7, <1>8

OrderStep(p, order, t) == [ns \in Seq(Label) |-> OrderNode(ns, order, t)]

OrderRec == INSTANCE Recursion
    WITH Domain <- TreeDomain, Rank <- TreeHeight, Step <- OrderStep

\* The leaves of a tree, by its root.
LEMMA OrderEquation ==
    ASSUME NEW ns \in Seq(Label)
    PROVE  /\ \A v \in Int : LeafOrder(Const(v), ns) = ns
           /\ \A l \in Label :
                 LeafOrder(Leaf(l), ns) =
                     IF \E i \in 1..Len(ns) : ns[i] = l THEN ns ELSE Append(ns, l)
           /\ \A op, a : Un(op, a) \in Tree =>
                 LeafOrder(Un(op, a), ns) = LeafOrder(a, ns)
           /\ \A op, a, b : Bin(op, a, b) \in Tree =>
                 LeafOrder(Bin(op, a, b), ns) = LeafOrder(b, LeafOrder(a, ns))
<1> DEFINE F == OrderRec!Fix(0)
<1>1. OrderRec!Ranked(0)
  BY HeightDescends DEF OrderRec!Ranked, TreeDomain, TreeHeight
<1>2. OrderRec!Descends(0)
  <2>1. SUFFICES ASSUME NEW g, NEW h, NEW t \in Tree,
                        \A u \in Tree : Height(u) < Height(t) => g[u] = h[u]
                 PROVE  OrderStep(0, g, t) = OrderStep(0, h, t)
    BY DEF OrderRec!Descends, TreeDomain, TreeHeight
  <2>2. \A s \in Seq(Label) : OrderNode(s, g, t) = OrderNode(s, h, t)
    BY <2>1, HeightDescends, TreeKinds DEF OrderNode
  <2> QED BY <2>2 DEF OrderStep
<1>3. \A t : LeafOrder(t, ns) = F[t][ns]
  BY DEF LeafOrder, OrderRec!Fix, TreeDomain, OrderStep
<1>4. \A t \in Tree : F[t] = OrderStep(0, F, t)
  BY <1>1, <1>2, OrderRec!RecursiveEquation DEF TreeDomain
<1> HIDE DEF F
<1>5. \A t \in Tree : F[t][ns] = OrderNode(ns, F, t)
  BY <1>4 DEF OrderStep
<1>6. \A v \in Int : LeafOrder(Const(v), ns) = ns
  BY <1>3, <1>5, LeavesAreTrees DEF Const, OrderNode
<1>7. \A l \in Label :
          LeafOrder(Leaf(l), ns) =
              IF \E i \in 1..Len(ns) : ns[i] = l THEN ns ELSE Append(ns, l)
  BY <1>3, <1>5, LeavesAreTrees DEF Leaf, OrderNode
<1>8. \A op, a : Un(op, a) \in Tree =>
          LeafOrder(Un(op, a), ns) = LeafOrder(a, ns)
  BY <1>3, <1>5, OperandsAreTrees DEF Un, OrderNode
<1>9. \A op, a, b : Bin(op, a, b) \in Tree =>
          LeafOrder(Bin(op, a, b), ns) = LeafOrder(b, LeafOrder(a, ns))
  <2>1. \A t, s : LeafOrder(t, s) = F[t][s]
    BY DEF LeafOrder, OrderRec!Fix, TreeDomain, OrderStep, F
  <2> QED BY <1>5, <2>1, OperandsAreTrees DEF Bin, OrderNode
<1> QED BY <1>6, <1>7, <1>8, <1>9

-----------------------------------------------------------------------------
(* The leaves of a tree.                                                   *)

Elements(ns)  == {ns[i] : i \in 1..Len(ns)}
NoRepeats(ns) == \A i, j \in 1..Len(ns) : ns[i] = ns[j] => i = j

\* Collecting the leaves of t after ns adds those of t, none of them twice.
LEMMA LeafOrderAdds ==
    \A t \in Tree : \A ns \in Seq(Label) :
        /\ LeafOrder(t, ns) \in Seq(Label)
        /\ Elements(LeafOrder(t, ns)) = Elements(ns) \cup LeafSet(t)
        /\ NoRepeats(ns) => NoRepeats(LeafOrder(t, ns))
<1> DEFINE P(t, ns) == /\ LeafOrder(t, ns) \in Seq(Label)
                       /\ Elements(LeafOrder(t, ns)) = Elements(ns) \cup LeafSet(t)
                       /\ NoRepeats(ns) => NoRepeats(LeafOrder(t, ns))
           S == {t \in Tree : \A ns \in Seq(Label) : P(t, ns)}
<1>0. /\ \A t : LeafSet(t) = Elements(LeafOrder(t, <<>>))
      /\ Elements(<<>>) = {} /\ <<>> \in Seq(Label)
  BY DEF LeafSet, LeafNames, Elements
<1>1. ASSUME NEW v \in Int PROVE Const(v) \in S
  <2>1. \A ns \in Seq(Label) : LeafOrder(Const(v), ns) = ns
    BY OrderEquation
  <2>2. LeafSet(Const(v)) = {}
    BY <1>0, <2>1
  <2> QED BY <2>1, <2>2, LeavesAreTrees
<1>2. ASSUME NEW l \in Label PROVE Leaf(l) \in S
  <2>1. ASSUME NEW ns \in Seq(Label)
        PROVE  /\ LeafOrder(Leaf(l), ns) \in Seq(Label)
               /\ Elements(LeafOrder(Leaf(l), ns)) = Elements(ns) \cup {l}
               /\ NoRepeats(ns) => NoRepeats(LeafOrder(Leaf(l), ns))
    <3>1. LeafOrder(Leaf(l), ns) =
              IF \E i \in 1..Len(ns) : ns[i] = l THEN ns ELSE Append(ns, l)
      BY OrderEquation
    <3>2. CASE \E i \in 1..Len(ns) : ns[i] = l
      BY <3>1, <3>2 DEF Elements
    <3>3. CASE ~ \E i \in 1..Len(ns) : ns[i] = l
      <4> DEFINE more == Append(ns, l)
      <4>1. /\ more \in Seq(Label) /\ Len(more) = Len(ns) + 1 /\ Len(ns) \in Nat
            /\ more[Len(ns) + 1] = l /\ \A i \in 1..Len(ns) : more[i] = ns[i]
        OBVIOUS
      <4>2. LeafOrder(Leaf(l), ns) = more
        BY <3>1, <3>3
      <4> HIDE DEF more
      <4>3. Elements(more) = Elements(ns) \cup {l}
        BY <4>1 DEF Elements
      <4>4. NoRepeats(ns) => NoRepeats(more)
        BY <4>1, <3>3 DEF NoRepeats
      <4> QED BY <4>1, <4>2, <4>3, <4>4
    <3> QED BY <3>2, <3>3
  <2>2. LeafSet(Leaf(l)) = {l}
    BY <1>0, <2>1
  <2> QED BY <2>1, <2>2, LeavesAreTrees
<1>3. ASSUME NEW op \in Prefix, NEW a \in Tree, a \in S, Un(op, a) \in Tree
      PROVE  Un(op, a) \in S
  <2>1. \A ns \in Seq(Label) : LeafOrder(Un(op, a), ns) = LeafOrder(a, ns)
    BY <1>3, OrderEquation
  <2>2. LeafSet(Un(op, a)) = LeafSet(a)
    BY <1>0, <2>1
  <2> QED BY <1>3, <2>1, <2>2
<1>4. ASSUME NEW op \in Infix, NEW a \in Tree, NEW b \in Tree,
             a \in S, b \in S, Bin(op, a, b) \in Tree
      PROVE  Bin(op, a, b) \in S
  <2>1. \A ns \in Seq(Label) :
            LeafOrder(Bin(op, a, b), ns) = LeafOrder(b, LeafOrder(a, ns))
    BY <1>4, OrderEquation
  <2>2. \A ns \in Seq(Label) :
            /\ LeafOrder(Bin(op, a, b), ns) \in Seq(Label)
            /\ Elements(LeafOrder(Bin(op, a, b), ns)) =
                   Elements(ns) \cup LeafSet(a) \cup LeafSet(b)
            /\ NoRepeats(ns) => NoRepeats(LeafOrder(Bin(op, a, b), ns))
    BY <1>4, <2>1
  <2>3. LeafSet(Bin(op, a, b)) = LeafSet(a) \cup LeafSet(b)
    BY <1>0, <2>2
  <2> QED BY <1>4, <2>2, <2>3
<1> HIDE DEF S
<1>5. Tree \subseteq S
  BY <1>1, <1>2, <1>3, <1>4, TreeInduction, DepthAssumption DEF Tree
<1> QED BY <1>5 DEF S

\* The set of leaves of a tree, by its root.
LEMMA LeafSetEquation ==
    /\ \A v \in Int : LeafSet(Const(v)) = {}
    /\ \A l \in Label : LeafSet(Leaf(l)) = {l}
    /\ \A op, a : Un(op, a) \in Tree => LeafSet(Un(op, a)) = LeafSet(a)
    /\ \A op, a, b : Bin(op, a, b) \in Tree =>
          LeafSet(Bin(op, a, b)) = LeafSet(a) \cup LeafSet(b)
<1> DEFINE none == <<>>
<1>0. /\ \A t : LeafSet(t) = Elements(LeafOrder(t, none))
      /\ Elements(none) = {} /\ none \in Seq(Label)
  BY DEF LeafSet, LeafNames, Elements
<1>a. Len(none) = 0 /\ \A l : Append(none, l) = <<l>>
  OBVIOUS
<1> HIDE DEF none
<1>b. none \in Seq(Label)
  BY <1>0
<1>c. /\ \A v \in Int : LeafOrder(Const(v), none) = none
      /\ \A l \in Label :
            LeafOrder(Leaf(l), none) =
                IF \E i \in 1..Len(none) : none[i] = l THEN none ELSE Append(none, l)
      /\ \A op, a : Un(op, a) \in Tree =>
            LeafOrder(Un(op, a), none) = LeafOrder(a, none)
      /\ \A op, a, b : Bin(op, a, b) \in Tree =>
            LeafOrder(Bin(op, a, b), none) = LeafOrder(b, LeafOrder(a, none))
  BY <1>b, OrderEquation
<1>1. \A v \in Int : LeafSet(Const(v)) = {}
  BY <1>0, <1>c
<1>2. \A l \in Label : LeafSet(Leaf(l)) = {l}
  <2>1. ASSUME NEW l \in Label PROVE LeafSet(Leaf(l)) = {l}
    <3>1. LeafOrder(Leaf(l), none) = <<l>>
      BY <1>a, <1>c
    <3> QED BY <1>0, <3>1 DEF Elements
  <2> QED BY <2>1
<1>3. \A op, a : Un(op, a) \in Tree => LeafSet(Un(op, a)) = LeafSet(a)
  BY <1>0, <1>c
<1>4. ASSUME NEW op, NEW a, NEW b, Bin(op, a, b) \in Tree
      PROVE  LeafSet(Bin(op, a, b)) = LeafSet(a) \cup LeafSet(b)
  <2>1. a \in Tree /\ b \in Tree
    BY <1>4, OperandsAreTrees
  <2>2. LeafOrder(Bin(op, a, b), none) = LeafOrder(b, LeafOrder(a, none))
    BY <1>4, <1>c
  <2>3. LeafOrder(a, none) \in Seq(Label)
    BY <1>0, <2>1, LeafOrderAdds
  <2> QED BY <1>0, <2>1, <2>2, <2>3, LeafOrderAdds
<1> QED BY <1>1, <1>2, <1>3, <1>4

\* The leaves of a tree are listed once each.
LEMMA LeafNamesFacts ==
    ASSUME NEW t \in Tree
    PROVE  /\ LeafNames(t) \in Seq(Label)
           /\ LeafSet(t) = Elements(LeafNames(t))
           /\ NoRepeats(LeafNames(t))
           /\ LeafSet(t) \subseteq Label
<1>1. <<>> \in Seq(Label) /\ NoRepeats(<<>>)
  BY DEF NoRepeats
<1>2. LeafNames(t) \in Seq(Label) /\ NoRepeats(LeafNames(t))
  BY <1>1, LeafOrderAdds DEF LeafNames
<1>3. LeafSet(t) = Elements(LeafNames(t))
  BY DEF LeafSet, Elements
<1> QED BY <1>2, <1>3 DEF Elements

-----------------------------------------------------------------------------
(* Renaming.                                                               *)

\* Renaming takes trees over labels to trees over the labels they are given.
LEMMA RenameTyped ==
    ASSUME NEW labels, labels \subseteq Label, NEW more, more \subseteq Label,
           NEW to, \A l \in labels : to[l] \in more
    PROVE  \A n \in Nat : n <= Depth =>
               \A t \in TreesOver(labels, n) : Rename(t, to) \in TreesOver(more, n)
<1> DEFINE S == {n \in Nat : n <= Depth =>
                    \A t \in TreesOver(labels, n) :
                        Rename(t, to) \in TreesOver(more, n)}
<1>0. \A n \in Nat : n <= Depth => TreesOver(labels, n) \subseteq Tree
  BY TreesGrow, DepthAssumption DEF Tree
<1>1. 0 \in S
  <2>1. \A t \in TreesOver(labels, 0) :
            \/ t.value \in Int /\ t = Const(t.value)
            \/ t.name \in labels /\ t = Leaf(t.name)
    BY TreeCases
  <2>2. \A t \in TreesOver(labels, 0) : Rename(t, to) \in TreesOver(more, 0)
    BY <2>1, RenameEquation, TreeMake
  <2> QED BY <2>2
<1>2. ASSUME NEW n \in Nat, n \in S PROVE n + 1 \in S
  <2>1. SUFFICES ASSUME n + 1 <= Depth, NEW t \in TreesOver(labels, n + 1)
                 PROVE  Rename(t, to) \in TreesOver(more, n + 1)
    OBVIOUS
  <2>2. n + 1 \in Nat /\ (n + 1) - 1 = n /\ n <= Depth
    BY <2>1, DepthAssumption
  <2>3. t \in Tree
    BY <1>0, <2>1, <2>2
  <2>4. \/ t.value \in Int /\ t = Const(t.value)
        \/ t.name \in labels /\ t = Leaf(t.name)
        \/ t.op \in Prefix /\ t = Un(t.op, t.a) /\ t.a \in TreesOver(labels, n)
        \/ /\ t.op \in Infix /\ t = Bin(t.op, t.a, t.b)
           /\ t.a \in TreesOver(labels, n) /\ t.b \in TreesOver(labels, n)
    BY <2>2, TreeCases
  <2>5. \A u \in TreesOver(labels, n) : Rename(u, to) \in TreesOver(more, n)
    BY <1>2, <2>2
  <2>m. /\ \A op \in Prefix : \A a \in TreesOver(more, n) :
               Un(op, a) \in TreesOver(more, n + 1)
        /\ \A op \in Infix : \A a, b \in TreesOver(more, n) :
               Bin(op, a, b) \in TreesOver(more, n + 1)
    BY TreeMake
  <2>6. CASE t.value \in Int /\ t = Const(t.value)
    BY <2>2, <2>6, RenameEquation, TreeMake
  <2>7. CASE t.name \in labels /\ t = Leaf(t.name)
    BY <2>2, <2>7, RenameEquation, TreeMake
  <2>8. CASE t.op \in Prefix /\ t = Un(t.op, t.a) /\ t.a \in TreesOver(labels, n)
    <3>1. Rename(t, to) = Un(t.op, Rename(t.a, to))
      BY <2>3, <2>8, RenameEquation
    <3> QED BY <2>5, <2>8, <2>m, <3>1
  <2>9. CASE /\ t.op \in Infix /\ t = Bin(t.op, t.a, t.b)
             /\ t.a \in TreesOver(labels, n) /\ t.b \in TreesOver(labels, n)
    <3>0. \A op, a, b : Bin(op, a, b) \in Tree =>
              Rename(Bin(op, a, b), to) = Bin(op, Rename(a, to), Rename(b, to))
      BY RenameEquation
    <3>1. Rename(t, to) = Bin(t.op, Rename(t.a, to), Rename(t.b, to))
      BY <2>3, <2>9, <3>0
    <3>2. Rename(t.a, to) \in TreesOver(more, n) /\ Rename(t.b, to) \in TreesOver(more, n)
      BY <2>5, <2>9
    <3>3. t.op \in Infix
      BY <2>9
    <3> QED BY <2>m, <3>1, <3>2, <3>3
  <2> QED BY <2>4, <2>6, <2>7, <2>8, <2>9
<1> HIDE DEF S
<1>3. Nat \subseteq S
  BY <1>1, <1>2, TreesRec!NatSetInduction
<1> QED BY <1>3 DEF S

\* A tree is one over its own leaves.
LEMMA TreeOverItsLeaves ==
    ASSUME NEW labels
    PROVE  \A t \in Tree : LeafSet(t) \subseteq labels => t \in TreesOver(labels, Depth)
<1> DEFINE S == {n \in Nat : n <= Depth =>
                    \A t \in TreesOver(Label, n) :
                        LeafSet(t) \subseteq labels => t \in TreesOver(labels, n)}
<1>0. \A n \in Nat : n <= Depth => TreesOver(Label, n) \subseteq Tree
  BY TreesGrow, DepthAssumption DEF Tree
<1>1. 0 \in S
  <2>1. \A t \in TreesOver(Label, 0) :
            \/ t.value \in Int /\ t = Const(t.value)
            \/ t.name \in Label /\ t = Leaf(t.name)
    BY TreeCases
  <2>2. \A t \in TreesOver(Label, 0) :
            LeafSet(t) \subseteq labels => t \in TreesOver(labels, 0)
    BY <2>1, LeafSetEquation, TreeMake
  <2> QED BY <2>2
<1>2. ASSUME NEW n \in Nat, n \in S PROVE n + 1 \in S
  <2>1. SUFFICES ASSUME n + 1 <= Depth, NEW t \in TreesOver(Label, n + 1),
                        LeafSet(t) \subseteq labels
                 PROVE  t \in TreesOver(labels, n + 1)
    OBVIOUS
  <2>2. n + 1 \in Nat /\ (n + 1) - 1 = n /\ n <= Depth
    BY <2>1, DepthAssumption
  <2>3. t \in Tree
    BY <1>0, <2>1, <2>2
  <2>4. \/ t.value \in Int /\ t = Const(t.value)
        \/ t.name \in Label /\ t = Leaf(t.name)
        \/ t.op \in Prefix /\ t = Un(t.op, t.a) /\ t.a \in TreesOver(Label, n)
        \/ /\ t.op \in Infix /\ t = Bin(t.op, t.a, t.b)
           /\ t.a \in TreesOver(Label, n) /\ t.b \in TreesOver(Label, n)
    BY <2>2, TreeCases
  <2>5. \A u \in TreesOver(Label, n) :
            LeafSet(u) \subseteq labels => u \in TreesOver(labels, n)
    BY <1>2, <2>2
  <2>6. CASE t.value \in Int /\ t = Const(t.value)
    BY <2>2, <2>6, TreeMake
  <2>7. CASE t.name \in Label /\ t = Leaf(t.name)
    BY <2>1, <2>2, <2>7, LeafSetEquation, TreeMake
  <2>8. CASE t.op \in Prefix /\ t = Un(t.op, t.a) /\ t.a \in TreesOver(Label, n)
    <3>1. LeafSet(t) = LeafSet(t.a)
      BY <2>3, <2>8, LeafSetEquation
    <3> QED BY <2>1, <2>5, <2>8, <3>1, TreeMake
  <2>9. CASE /\ t.op \in Infix /\ t = Bin(t.op, t.a, t.b)
             /\ t.a \in TreesOver(Label, n) /\ t.b \in TreesOver(Label, n)
    <3>1. LeafSet(t) = LeafSet(t.a) \cup LeafSet(t.b)
      BY <2>3, <2>9, LeafSetEquation
    <3> QED BY <2>1, <2>5, <2>9, <3>1, TreeMake
  <2> QED BY <2>4, <2>6, <2>7, <2>8, <2>9
<1> HIDE DEF S
<1>3. Nat \subseteq S
  BY <1>1, <1>2, TreesRec!NatSetInduction
<1> QED BY <1>3, DepthAssumption DEF S, Tree

\* Renaming the leaves of a tree and then giving values to the new ones is
\* giving each leaf the value of its new name.
THEOREM RenameValue ==
    ASSUME NEW to, NEW values, NEW renamed
    PROVE  \A t \in Tree :
               (\A l \in LeafSet(t) : to[l] \in Label /\ renamed[l] = values[to[l]])
                   => /\ Rename(t, to) \in Tree
                      /\ Evaluate(Rename(t, to), values) = Evaluate(t, renamed)
                      /\ \A k : k \in LeafSet(Rename(t, to))
                                  <=> \E l \in LeafSet(t) : k = to[l]
<1> DEFINE Given(t) == \A l \in LeafSet(t) :
                           to[l] \in Label /\ renamed[l] = values[to[l]]
           P(t) == /\ Evaluate(Rename(t, to), values) = Evaluate(t, renamed)
                   /\ \A k : k \in LeafSet(Rename(t, to))
                               <=> \E l \in LeafSet(t) : k = to[l]
           S == {t \in Tree : Given(t) => P(t)}
<1>0. ASSUME NEW t \in Tree, Given(t) PROVE Rename(t, to) \in Tree
  <2>1. t \in TreesOver(LeafSet(t), Depth)
    BY TreeOverItsLeaves
  <2>2. LeafSet(t) \subseteq Label
    BY LeafNamesFacts
  <2> QED BY <1>0, <2>1, <2>2, RenameTyped, DepthAssumption DEF Tree
<1>1. \A v \in Int : Const(v) \in S
  BY LeavesAreTrees, RenameEquation, EvaluateEquation, LeafSetEquation
<1>2. ASSUME NEW l \in Label PROVE Leaf(l) \in S
  <2>1. LeafSet(Leaf(l)) = {l} /\ Rename(Leaf(l), to) = Leaf(to[l])
        /\ Evaluate(Leaf(l), renamed) = renamed[l]
    BY RenameEquation, EvaluateEquation, LeafSetEquation
  <2>2. to[l] \in Label => /\ Evaluate(Leaf(to[l]), values) = values[to[l]]
                           /\ LeafSet(Leaf(to[l])) = {to[l]}
    BY EvaluateEquation, LeafSetEquation
  <2> QED BY <2>1, <2>2, LeavesAreTrees
<1>3. ASSUME NEW op \in Prefix, NEW a \in Tree, a \in S, Un(op, a) \in Tree
      PROVE  Un(op, a) \in S
  <2>1. LeafSet(Un(op, a)) = LeafSet(a)
        /\ Rename(Un(op, a), to) = Un(op, Rename(a, to))
        /\ Evaluate(Un(op, a), renamed) = ApplyUn(op, Evaluate(a, renamed))
    BY <1>3, RenameEquation, EvaluateEquation, LeafSetEquation
  <2>2. SUFFICES ASSUME Given(Un(op, a)) PROVE P(Un(op, a))
    BY <1>3
  <2>3. P(a)
    BY <1>3, <2>1, <2>2
  <2>4. Un(op, Rename(a, to)) \in Tree
    BY <1>0, <1>3, <2>1, <2>2
  <2>5. /\ LeafSet(Un(op, Rename(a, to))) = LeafSet(Rename(a, to))
        /\ Evaluate(Un(op, Rename(a, to)), values) =
               ApplyUn(op, Evaluate(Rename(a, to), values))
    BY <2>4, EvaluateEquation, LeafSetEquation
  <2> QED BY <2>1, <2>3, <2>5
<1>4. ASSUME NEW op \in Infix, NEW a \in Tree, NEW b \in Tree,
             a \in S, b \in S, Bin(op, a, b) \in Tree
      PROVE  Bin(op, a, b) \in S
  <2> DEFINE c == Rename(a, to)
             d == Rename(b, to)
  <2>1. LeafSet(Bin(op, a, b)) = LeafSet(a) \cup LeafSet(b)
        /\ Rename(Bin(op, a, b), to) = Bin(op, c, d)
        /\ Evaluate(Bin(op, a, b), renamed) =
              ApplyBin(op, Evaluate(a, renamed), Evaluate(b, renamed))
    BY <1>4, RenameEquation, EvaluateEquation, LeafSetEquation
  <2>2. SUFFICES ASSUME Given(Bin(op, a, b)) PROVE P(Bin(op, a, b))
    BY <1>4
  <2>3. P(a) /\ P(b)
    BY <1>4, <2>1, <2>2
  <2>4. Bin(op, c, d) \in Tree
    BY <1>0, <1>4, <2>1, <2>2
  <2>5. /\ LeafSet(Bin(op, c, d)) = LeafSet(c) \cup LeafSet(d)
        /\ Evaluate(Bin(op, c, d), values) =
               ApplyBin(op, Evaluate(c, values), Evaluate(d, values))
    BY <2>4, EvaluateEquation, LeafSetEquation
  <2> QED BY <2>1, <2>3, <2>5
<1> HIDE DEF S
<1>5. Tree \subseteq S
  BY <1>1, <1>2, <1>3, <1>4, TreeInduction, DepthAssumption DEF Tree
<1> QED BY <1>0, <1>5 DEF S

\* What a renamed tree is, apart from its value.
LEMMA RenameTree ==
    ASSUME NEW to, NEW t \in Tree, \A l \in LeafSet(t) : to[l] \in Label
    PROVE  /\ Rename(t, to) \in Tree
           /\ \A k : k \in LeafSet(Rename(t, to)) <=> \E l \in LeafSet(t) : k = to[l]
<1> DEFINE renamed == [l \in LeafSet(t) |-> to[l]]
           values == [k \in Label |-> k]
<1>1. \A l \in LeafSet(t) : to[l] \in Label /\ renamed[l] = values[to[l]]
  OBVIOUS
<1>2. (\A l \in LeafSet(t) : to[l] \in Label /\ renamed[l] = values[to[l]])
          => /\ Rename(t, to) \in Tree
             /\ Evaluate(Rename(t, to), values) = Evaluate(t, renamed)
             /\ \A k : k \in LeafSet(Rename(t, to)) <=> \E l \in LeafSet(t) : k = to[l]
  <2> HIDE DEF renamed, values
  <2>1. \A s \in Tree :
            (\A l \in LeafSet(s) : to[l] \in Label /\ renamed[l] = values[to[l]])
                => /\ Rename(s, to) \in Tree
                   /\ Evaluate(Rename(s, to), values) = Evaluate(s, renamed)
                   /\ \A k : k \in LeafSet(Rename(s, to))
                               <=> \E l \in LeafSet(s) : k = to[l]
    BY RenameValue
  <2> QED BY <2>1
<1> QED BY <1>1, <1>2

-----------------------------------------------------------------------------
(* Keys.                                                                   *)

\* The numbers of the leaves of a tree are its positions in LeafNames.
LEMMA NumberingFacts ==
    ASSUME NEW t \in Tree
    PROVE  /\ Len(LeafNames(t)) \in Nat
           /\ \A l \in LeafSet(t) : /\ Numbering(t)[l] \in 1..Len(LeafNames(t))
                                    /\ Numbering(t)[l] \in Label
                                    /\ LeafNames(t)[Numbering(t)[l]] = l
           /\ \A i \in 1..Len(LeafNames(t)) :
                 \E l \in LeafSet(t) : i = Numbering(t)[l]
           /\ \A i \in 1..Len(LeafNames(t)) : LeafNames(t)[i] \in LeafSet(t)
<1> DEFINE L == LeafNames(t)
<1>1. L \in Seq(Label) /\ LeafSet(t) = Elements(L) /\ NoRepeats(L)
  BY LeafNamesFacts
<1>2. \A l \in LeafSet(t) :
          Numbering(t)[l] = CHOOSE i \in 1..Len(L) : L[i] = l
  BY DEF Numbering
<1> HIDE DEF L
<1>3. Len(L) \in Nat /\ \A i \in 1..Len(L) : L[i] \in LeafSet(t)
  BY <1>1 DEF Elements
<1>4. \A l \in LeafSet(t) : Numbering(t)[l] \in 1..Len(L) /\ L[Numbering(t)[l]] = l
  BY <1>1, <1>2 DEF Elements
<1>5. \A i \in 1..Len(L) : Numbering(t)[L[i]] = i
  BY <1>1, <1>3, <1>4 DEF NoRepeats
<1>6. \A i \in 1..Len(L) : \E l \in LeafSet(t) : i = Numbering(t)[l]
  BY <1>3, <1>4, <1>5
<1>7. \A l \in LeafSet(t) : Numbering(t)[l] \in Label
  BY <1>3, <1>4 DEF Label
<1> QED BY <1>3, <1>4, <1>6, <1>7 DEF L

\* What a key says of a tree: its width, how many leaves it has, and its value
\* for the values of the leaves taken in order.
LEMMA KeyMeaning ==
    ASSUME NEW t \in Tree, NEW values, NEW byNumber,
           \A l \in LeafSet(t) : values[l] = byNumber[Numbering(t)[l]]
    PROVE  /\ CanonicalKey(t)[2] \in Tree
           /\ Evaluate(CanonicalKey(t)[2], byNumber) = Evaluate(t, values)
           /\ LeafSet(CanonicalKey(t)[2]) = 1..Len(LeafNames(t))
<1>1. CanonicalKey(t)[2] = Rename(t, Numbering(t))
  BY DEF CanonicalKey
<1>2. \A l \in LeafSet(t) : Numbering(t)[l] \in Label
  BY NumberingFacts
<1>3. /\ Rename(t, Numbering(t)) \in Tree
      /\ \A k : k \in LeafSet(Rename(t, Numbering(t)))
                 <=> \E l \in LeafSet(t) : k = Numbering(t)[l]
  BY <1>2, RenameTree
<1>v. Evaluate(Rename(t, Numbering(t)), byNumber) = Evaluate(t, values)
  BY <1>2, RenameValue
<1>4. \A k : k \in LeafSet(CanonicalKey(t)[2]) <=> k \in 1..Len(LeafNames(t))
  BY <1>1, <1>3, NumberingFacts
<1> QED BY <1>1, <1>3, <1>v, <1>4

\* A rewrite over the numbers of the leaves of s has the value it had over them.
LEMMA PositionalMeaning ==
    ASSUME NEW s, NEW rewrite \in Tree,
           \A l \in LeafSet(rewrite) : Numbering(s)[l] \in Label
    PROVE  /\ ToPositional(rewrite, s) \in Tree
           /\ \A k \in LeafSet(ToPositional(rewrite, s)) :
                 \E l \in LeafSet(rewrite) : k = Numbering(s)[l]
           /\ \A ofS, byNumber :
                 (\A l \in LeafSet(rewrite) : ofS[l] = byNumber[Numbering(s)[l]])
                    => Evaluate(ToPositional(rewrite, s), byNumber) =
                       Evaluate(rewrite, ofS)
<1> DEFINE num == Numbering(s)
<1>1. \A l \in LeafSet(rewrite) : num[l] \in Label
  OBVIOUS
<1> HIDE DEF num
<1>2. /\ Rename(rewrite, num) \in Tree
      /\ \A k : k \in LeafSet(Rename(rewrite, num))
                 <=> \E l \in LeafSet(rewrite) : k = num[l]
  BY <1>1, RenameTree
<1>3. \A ofS, byNumber :
          (\A l \in LeafSet(rewrite) : ofS[l] = byNumber[num[l]])
              => Evaluate(Rename(rewrite, num), byNumber) = Evaluate(rewrite, ofS)
  BY <1>1, RenameValue
<1> QED BY <1>2, <1>3 DEF ToPositional, num

\* Two trees with the same key share their rewrites: what is equivalent to one
\* is, over the leaves of the other taken in order, equivalent to the other.
\* This is what lets table.py keep one verdict for all of them.
THEOREM SameKeySharesRewrites ==
    ASSUME NEW s \in Tree, NEW t \in Tree, CanonicalKey(s) = CanonicalKey(t),
           NEW rewrite \in Tree, LeafSet(rewrite) \subseteq LeafSet(s),
           NEW bits, EquivalentOver(bits, LeafSet(s), s, rewrite)
    PROVE  EquivalentOver(bits, LeafSet(t), t,
                          Instantiate(ToPositional(rewrite, s), t))
<1> DEFINE Sized == 0 .. Pow2[bits] - 1
<1> HIDE DEF Sized
<1> SUFFICES ASSUME NEW values \in [LeafSet(t) -> Sized]
             PROVE  Evaluate(t, values) % Pow2[bits] =
                    Evaluate(Instantiate(ToPositional(rewrite, s), t), values)
                        % Pow2[bits]
  BY DEF EquivalentOver, Sized
<1> DEFINE Ls == LeafNames(s)
           Lt == LeafNames(t)
           byNumber == [i \in 1..Len(Lt) |-> values[Lt[i]]]
           ofS == [l \in LeafSet(s) |-> byNumber[Numbering(s)[l]]]
<1>1. \A l \in LeafSet(t) : values[l] = byNumber[Numbering(t)[l]]
  BY NumberingFacts
<1>2. \A l \in LeafSet(s) : ofS[l] = byNumber[Numbering(s)[l]]
  OBVIOUS
<1>3. /\ Evaluate(CanonicalKey(t)[2], byNumber) = Evaluate(t, values)
      /\ LeafSet(CanonicalKey(t)[2]) = 1..Len(Lt)
  <2> HIDE DEF byNumber, ofS
  <2> QED BY <1>1, KeyMeaning
<1>4. /\ Evaluate(CanonicalKey(s)[2], byNumber) = Evaluate(s, ofS)
      /\ LeafSet(CanonicalKey(s)[2]) = 1..Len(Ls)
  <2> HIDE DEF byNumber, ofS
  <2> QED BY <1>2, KeyMeaning
<1>5. 1..Len(Ls) = 1..Len(Lt) /\ Evaluate(s, ofS) = Evaluate(t, values)
  BY <1>3, <1>4
<1>6. ofS \in [LeafSet(s) -> Sized]
  <2>1. \A i \in 1..Len(Lt) : byNumber[i] \in Sized
    BY NumberingFacts
  <2>2. \A l \in LeafSet(s) : Numbering(s)[l] \in 1..Len(Lt)
    BY <1>5, NumberingFacts
  <2> QED BY <2>1, <2>2
<1>7. Evaluate(s, ofS) % Pow2[bits] = Evaluate(rewrite, ofS) % Pow2[bits]
  BY <1>6 DEF EquivalentOver, Sized
<1> DEFINE positional == ToPositional(rewrite, s)
<1>8. /\ positional \in Tree
      /\ Evaluate(positional, byNumber) = Evaluate(rewrite, ofS)
      /\ LeafSet(positional) \subseteq 1..Len(Lt)
  <2>1. \A l \in LeafSet(rewrite) : Numbering(s)[l] \in Label
                                    /\ Numbering(s)[l] \in 1..Len(Lt)
                                    /\ ofS[l] = byNumber[Numbering(s)[l]]
    BY <1>2, <1>5, NumberingFacts
  <2> HIDE DEF byNumber, ofS
  <2>2. /\ ToPositional(rewrite, s) \in Tree
        /\ \A k \in LeafSet(ToPositional(rewrite, s)) :
              \E l \in LeafSet(rewrite) : k = Numbering(s)[l]
    BY <2>1, PositionalMeaning
  <2>3. Evaluate(ToPositional(rewrite, s), byNumber) = Evaluate(rewrite, ofS)
    BY <2>1, PositionalMeaning
  <2> QED BY <2>1, <2>2, <2>3
<1>9. Evaluate(Instantiate(positional, t), values) = Evaluate(positional, byNumber)
  <2>1. \A i \in 1..Len(Lt) : Lt[i] \in Label /\ byNumber[i] = values[Lt[i]]
    BY NumberingFacts, LeafNamesFacts
  <2> HIDE DEF byNumber, positional
  <2>2. Evaluate(Rename(positional, Lt), values) = Evaluate(positional, byNumber)
    BY <1>8, <2>1, RenameValue
  <2> QED BY <2>2 DEF Instantiate
<1> QED BY <1>5, <1>7, <1>8, <1>9

-----------------------------------------------------------------------------
(* Words.                                                                  *)

\* What division leaves.
LEMMA DivMod ==
    ASSUME NEW a \in Int, NEW m \in Nat \ {0}
    PROVE  /\ a % m \in 0 .. m - 1 /\ a \div m \in Int
           /\ a = (a \div m) * m + (a % m)
BY Z3

\* Quotient and remainder are unique.
LEMMA ModUnique ==
    ASSUME NEW a \in Int, NEW q \in Int, NEW r \in Int, NEW m \in Nat \ {0},
           a = q * m + r, 0 <= r, r < m
    PROVE  r = a % m
BY Z3

\* Multiples of the modulus do not count.
LEMMA ModShift ==
    ASSUME NEW a \in Int, NEW q \in Int, NEW m \in Nat \ {0}
    PROVE  (a + q * m) % m = a % m
<1> DEFINE r == a % m
           d == a \div m
<1>1. r \in Int /\ 0 <= r /\ r < m /\ d \in Int /\ a = d * m + r
  BY DivMod
<1> HIDE DEF r, d
<1>2. a + q * m = (d + q) * m + r /\ a + q * m \in Int /\ d + q \in Int
  BY <1>1
<1>3. r = (a + q * m) % m
  BY <1>1, <1>2, ModUnique
<1> QED BY <1>3 DEF r

\* An operand may be wrapped before it is used.
LEMMA WrappedOperand ==
    ASSUME NEW a \in Int, NEW b \in Int, NEW m \in Nat \ {0}
    PROVE  /\ (a + (b % m)) % m = (a + b) % m
           /\ (-(b % m)) % m = (-b) % m
<1> DEFINE r == b % m
           d == b \div m
<1>1. r \in Int /\ d \in Int /\ b = d * m + r
  BY DivMod
<1> HIDE DEF r, d
<1>2. a + b = (a + r) + d * m /\ a + r \in Int /\ d * m \in Int
  BY <1>1
<1>3. ((a + r) + d * m) % m = (a + r) % m
  BY <1>1, <1>2, ModShift
<1>4. -r = (-b) + d * m /\ -b \in Int
  BY <1>1
<1>5. ((-b) + d * m) % m = (-b) % m
  BY <1>1, <1>4, ModShift
<1>6. (a + r) % m = (a + b) % m
  BY <1>2, <1>3
<1>7. (-r) % m = (-b) % m
  BY <1>4, <1>5
<1> QED BY <1>6, <1>7 DEF r

BitwiseStep(args, low, n) ==
    IF n = 0 THEN 0
    ELSE low[n - 1]
         + Pow2[n - 1] * ApplyBit(args.op, Bit(args.x, n - 1), Bit(args.y, n - 1))

BitwiseRec == INSTANCE Recursion
    WITH Domain <- OverNat, Rank <- Itself, Step <- BitwiseStep

\* A bitwise operator works from the lowest bit up.
LEMMA BitwiseSteps ==
    ASSUME NEW op \in {"&", "|", "^"}, NEW x \in Int, NEW y \in Int
    PROVE  \E low :
               /\ low[0] = 0
               /\ \A n \in Nat :
                     low[n + 1] = low[n] + Pow2[n] * ApplyBit(op, Bit(x, n), Bit(y, n))
               /\ \A n \in Nat : /\ low[n] \in Int
                                 /\ ApplyBit(op, Bit(x, n), Bit(y, n)) \in Int
               /\ Bitwise(op, x, y) = low[Width]
<1> DEFINE args == [op |-> op, x |-> x, y |-> y]
           low == BitwiseRec!Fix(args)
<1>1. BitwiseRec!Ranked(args) /\ BitwiseRec!Descends(args)
  BY DEF BitwiseRec!Ranked, BitwiseRec!Descends, OverNat, Itself, BitwiseStep
<1>2. \A n \in Nat : low[n] = BitwiseStep(args, low, n)
  <2> HIDE DEF args
  <2> QED BY <1>1, BitwiseRec!RecursiveEquation DEF OverNat
<1>3. Bitwise(op, x, y) = low[Width]
  BY DEF Bitwise, BitwiseRec!Fix, OverNat, BitwiseStep
<1> HIDE DEF low
<1>4. ASSUME NEW n \in Nat
      PROVE  ApplyBit(op, Bit(x, n), Bit(y, n)) \in Int
  <2>1. Pow2[n] \in Nat \ {0}
    BY Pow2Facts
  <2>2. x \div Pow2[n] \in Int /\ y \div Pow2[n] \in Int
    BY <2>1
  <2>3. Bit(x, n) \in {0, 1} /\ Bit(y, n) \in {0, 1}
    BY <2>2 DEF Bit
  <2> HIDE DEF Bit
  <2> QED BY <2>3 DEF ApplyBit
<1>5. low[0] = 0
  BY <1>2 DEF BitwiseStep
<1>6. ASSUME NEW n \in Nat
      PROVE  low[n + 1] = low[n] + Pow2[n] * ApplyBit(op, Bit(x, n), Bit(y, n))
  <2>1. n + 1 \in Nat /\ (n + 1) - 1 = n /\ n + 1 # 0
    OBVIOUS
  <2> QED BY <1>2, <2>1 DEF BitwiseStep
<1> DEFINE S == {n \in Nat : low[n] \in Int}
<1>7. 0 \in S
  BY <1>5
<1>8. ASSUME NEW n \in Nat, n \in S PROVE n + 1 \in S
  <2>1. Pow2[n] \in Int /\ ApplyBit(op, Bit(x, n), Bit(y, n)) \in Int
    BY <1>4, Pow2Facts
  <2> QED BY <1>6, <1>8, <2>1
<1> HIDE DEF S
<1>9. Nat \subseteq S
  BY <1>7, <1>8, BitwiseRec!NatSetInduction
<1>10. \A n \in Nat : low[n] \in Int
  BY <1>9 DEF S
<1> QED BY <1>3, <1>4, <1>5, <1>6, <1>10

\* Operators on integers give integers.
LEMMA BitwiseTyped ==
    ASSUME NEW op \in {"&", "|", "^"}, NEW x \in Int, NEW y \in Int
    PROVE  Bitwise(op, x, y) \in Int
<1>1. PICK low :
          /\ low[0] = 0
          /\ \A n \in Nat :
                low[n + 1] = low[n] + Pow2[n] * ApplyBit(op, Bit(x, n), Bit(y, n))
          /\ \A n \in Nat : /\ low[n] \in Int
                            /\ ApplyBit(op, Bit(x, n), Bit(y, n)) \in Int
          /\ Bitwise(op, x, y) = low[Width]
  BY BitwiseSteps
<1> QED BY <1>1, WidthAssumption

\* The modulus is a positive number.
LEMMA ModulusType == Modulus \in Nat \ {0}
BY Pow2Facts, WidthAssumption DEF Modulus

\* Operators on numbers give numbers.
LEMMA ApplyTyped ==
    /\ \A op \in Prefix : \A x \in Int : ApplyUn(op, x) \in Int
    /\ \A op \in Infix : \A x, y \in Int : ApplyBin(op, x, y) \in Int
<1>1. \A op \in Prefix : \A x \in Int : ApplyUn(op, x) \in Int
  BY ModulusType DEF ApplyUn
<1>2. ASSUME NEW op \in Infix, NEW x \in Int, NEW y \in Int
      PROVE  ApplyBin(op, x, y) \in Int
  <2>1. CASE op \in {"&", "|", "^"}
    BY <2>1, BitwiseTyped DEF ApplyBin
  <2>2. CASE op \notin {"&", "|", "^"}
    <3>1. \A z \in Int : z % Modulus \in Int
      BY ModulusType
    <3>2. x + y \in Int /\ x - y \in Int /\ x * y \in Int
      OBVIOUS
    <3> QED BY <2>2, <3>1, <3>2 DEF ApplyBin, Infix
  <2> QED BY <2>1, <2>2
<1> QED BY <1>1, <1>2

\* A difference is a sum with the negation, as the solver has it.
LEMMA DifferenceIsSum ==
    ASSUME NEW x \in Int, NEW y \in Int
    PROVE  ApplyBin("+", x, ApplyUn("-", y)) = ApplyBin("-", x, y)
<1>1. ASSUME NEW n \in Int
      PROVE  (x + (n % Modulus)) % Modulus = (x + n) % Modulus
  BY ModulusType, WrappedOperand
<1>2. /\ x + (-y) = x - y
         /\ -y \in Int
  OBVIOUS
<1>3. (x + ((-y) % Modulus)) % Modulus = (x + (-y)) % Modulus
  BY <1>1, <1>2
<1> QED BY <1>2, <1>3 DEF ApplyBin, ApplyUn

\* The negation of a wrapped number is the wrapped negation.
LEMMA NegatedNumber ==
    ASSUME NEW v \in Int
    PROVE  ApplyUn("-", v % Modulus) = (-v) % Modulus
BY ModulusType, WrappedOperand DEF ApplyUn

\* A tree over labels has its leaves among them, and a value that is a number
\* when theirs are.
LEMMA TreeOverLabels ==
    ASSUME NEW labels \in SUBSET Label, NEW t \in TreesOver(labels, Depth),
           NEW values, \A l \in labels : values[l] \in Int
    PROVE  /\ t \in Tree
           /\ LeafSet(t) \subseteq labels
           /\ Evaluate(t, values) \in Int
<1> DEFINE S == {u \in Tree : LeafSet(u) \subseteq labels /\ Evaluate(u, values) \in Int}
<1>1. TreesOver(labels, Depth) \subseteq Tree
  BY TreesGrow, DepthAssumption DEF Tree
<1>2. \A v \in Int : Const(v) \in S
  BY LeavesAreTrees, LeafSetEquation, EvaluateEquation, ModulusType
<1>3. \A l \in labels : Leaf(l) \in S
  BY LeavesAreTrees, LeafSetEquation, EvaluateEquation
<1>4. ASSUME NEW op \in Prefix, NEW a \in TreesOver(labels, Depth),
             a \in S, Un(op, a) \in TreesOver(labels, Depth)
      PROVE  Un(op, a) \in S
  BY <1>1, <1>4, LeafSetEquation, EvaluateEquation, ApplyTyped
<1>5. ASSUME NEW op \in Infix, NEW a \in TreesOver(labels, Depth),
             NEW b \in TreesOver(labels, Depth),
             a \in S, b \in S, Bin(op, a, b) \in TreesOver(labels, Depth)
      PROVE  Bin(op, a, b) \in S
  BY <1>1, <1>5, LeafSetEquation, EvaluateEquation, ApplyTyped
<1> HIDE DEF S
<1>6. TreesOver(labels, Depth) \subseteq S
  BY <1>2, <1>3, <1>4, <1>5, TreeInduction, DepthAssumption
<1> QED BY <1>6 DEF S

-----------------------------------------------------------------------------
(* Words of fewer bits.                                                    *)

\* x and y differ by a multiple of p.
Same(p, x, y) == \E q \in Int : x = y + q * p

\* Quotients are unique.
LEMMA DivUnique ==
    ASSUME NEW a \in Int, NEW q \in Int, NEW r \in Int, NEW m \in Nat \ {0},
           a = q * m + r, 0 <= r, r < m
    PROVE  a \div m = q
BY Z3

\* To differ by a multiple of p is to leave the same remainder.
LEMMA SameIsMod ==
    ASSUME NEW p \in Nat \ {0}, NEW x \in Int, NEW y \in Int
    PROVE  Same(p, x, y) <=> x % p = y % p
<1>1. ASSUME Same(p, x, y) PROVE x % p = y % p
  <2>1. PICK q \in Int : x = y + q * p
    BY <1>1 DEF Same
  <2> QED BY <2>1, ModShift
<1>2. ASSUME x % p = y % p PROVE Same(p, x, y)
  <2>1. /\ x \div p \in Int /\ x = (x \div p) * p + (x % p)
        /\ y \div p \in Int /\ y = (y \div p) * p + (y % p)
        /\ x % p \in Int
    BY DivMod
  <2> DEFINE c == x \div p
             d == y \div p
             r == x % p
  <2>2. c \in Int /\ d \in Int /\ r \in Int /\ x = c * p + r /\ y = d * p + r
    BY <1>2, <2>1
  <2> HIDE DEF c, d, r
  <2>3. x = y + (c - d) * p /\ c - d \in Int
    BY <2>2
  <2> QED BY <2>3 DEF Same
<1> QED BY <1>1, <1>2

\* Differing by multiples of p is an equivalence that the ring operations keep.
LEMMA SameArithmetic ==
    ASSUME NEW p \in Nat \ {0}
    PROVE  /\ \A x \in Int : Same(p, x, x)
           /\ \A x, y \in Int : Same(p, x, y) => Same(p, y, x)
           /\ \A x, y, z \in Int : Same(p, x, y) /\ Same(p, y, z) => Same(p, x, z)
           /\ \A x, y, u, v \in Int : Same(p, x, y) /\ Same(p, u, v) =>
                 /\ Same(p, x + u, y + v)
                 /\ Same(p, x - u, y - v)
                 /\ Same(p, x * u, y * v)
<1>1. \A x, y \in Int : Same(p, x, y) <=> x % p = y % p
  BY SameIsMod
<1>2. ASSUME NEW x \in Int, NEW y \in Int, NEW u \in Int, NEW v \in Int,
             Same(p, x, y), Same(p, u, v)
      PROVE  /\ Same(p, x + u, y + v)
             /\ Same(p, x - u, y - v)
             /\ Same(p, x * u, y * v)
  <2>1. PICK q \in Int : x = y + q * p
    BY <1>2 DEF Same
  <2>2. PICK r \in Int : u = v + r * p
    BY <1>2 DEF Same
  <2>3. x + u = (y + v) + (q + r) * p /\ q + r \in Int
    BY <2>1, <2>2
  <2>4. x - u = (y - v) + (q - r) * p /\ q - r \in Int
    BY <2>1, <2>2
  <2>5. x * u = y * v + (y * r + q * v + q * r * p) * p
        /\ y * r + q * v + q * r * p \in Int
    BY <2>1, <2>2
  <2>6. Same(p, x + u, y + v)
    BY <2>3 DEF Same
  <2>7. Same(p, x - u, y - v)
    BY <2>4 DEF Same
  <2>8. Same(p, x * u, y * v)
    BY <2>5 DEF Same
  <2> QED BY <2>6, <2>7, <2>8
<1> QED BY <1>1, <1>2

\* Wrapping to a multiple of p does not show modulo p.
LEMMA SameWrapped ==
    ASSUME NEW p \in Nat \ {0}, NEW k \in Nat \ {0}, NEW x \in Int
    PROVE  k * p \in Nat \ {0} /\ Same(p, x % (k * p), x)
<1>1. k * p \in Nat \ {0}
  <2>1. \A a, b \in Nat \ {0} : a * b \in Nat \ {0}
    BY Z3
  <2> QED BY <2>1
<1> DEFINE m == k * p
<1>2. x \div m \in Int /\ x % m \in Int /\ x = (x \div m) * m + (x % m)
  <2>1. m \in Nat \ {0}
    BY <1>1
  <2> HIDE DEF m
  <2> QED BY <2>1, DivMod
<1> DEFINE d == x \div m
           r == x % m
<1>3. d \in Int /\ r \in Int /\ x = d * (k * p) + r
  BY <1>2
<1> HIDE DEF d, r
<1>4. r = x + (-(d * k)) * p /\ -(d * k) \in Int
  BY <1>3
<1>5. Same(p, r, x)
  BY <1>4 DEF Same
<1> QED BY <1>1, <1>5 DEF r

\* Powers of two multiply by adding exponents.
LEMMA Pow2Sum == \A a, b \in Nat : Pow2[a + b] = Pow2[a] * Pow2[b]
<1> DEFINE S == {b \in Nat : \A a \in Nat : Pow2[a + b] = Pow2[a] * Pow2[b]}
<1>1. 0 \in S
  BY Pow2Facts
<1>2. ASSUME NEW b \in Nat, b \in S PROVE b + 1 \in S
  <2>1. ASSUME NEW a \in Nat PROVE Pow2[a + (b + 1)] = Pow2[a] * Pow2[b + 1]
    <3>1. /\ a + b \in Nat /\ a + (b + 1) = (a + b) + 1
          /\ Pow2[(a + b) + 1] = 2 * Pow2[a + b] /\ Pow2[b + 1] = 2 * Pow2[b]
          /\ Pow2[a + b] = Pow2[a] * Pow2[b]
          /\ Pow2[a] \in Nat /\ Pow2[b] \in Nat
      BY <1>2, Pow2Facts
    <3> QED BY <3>1
  <2> QED BY <2>1
<1> HIDE DEF S
<1>3. Nat \subseteq S
  BY <1>1, <1>2, PowRec!NatSetInduction
<1> QED BY <1>3 DEF S

\* A smaller power of two divides a greater one.
LEMMA Pow2Divides ==
    ASSUME NEW s \in Nat, NEW n \in Nat, s <= n
    PROVE  /\ n - s \in Nat /\ Pow2[n - s] \in Nat \ {0}
           /\ Pow2[n] = Pow2[n - s] * Pow2[s]
           /\ Pow2[s] <= Pow2[n]
<1>1. n - s \in Nat /\ n = (n - s) + s
  OBVIOUS
<1> DEFINE d == n - s
<1>2. d \in Nat /\ Pow2[d + s] = Pow2[d] * Pow2[s] /\ d + s = n
  BY <1>1, Pow2Sum
<1>3. Pow2[d] \in Nat \ {0} /\ Pow2[s] \in Nat \ {0}
  BY <1>2, Pow2Facts
<1>4. \A x, y \in Nat \ {0} : y <= x * y
  BY Z3
<1>5. Pow2[s] <= Pow2[d] * Pow2[s]
  BY <1>3, <1>4
<1> QED BY <1>2, <1>3, <1>5

\* Numbers that are the same modulo 2^s have the same low s bits.
LEMMA BitsAgree ==
    ASSUME NEW s \in Nat, NEW k \in Nat, k < s, NEW x \in Int, NEW y \in Int,
           Same(Pow2[s], x, y)
    PROVE  Bit(x, k) = Bit(y, k)
<1> DEFINE P == Pow2[k]
           j == Pow2[s - (k + 1)]
           a == y \div P
           b == y % P
<1>1. PICK q \in Int : x = y + q * Pow2[s]
  BY DEF Same
<1>2. k + 1 \in Nat /\ k + 1 <= s
  OBVIOUS
<1>3. P \in Nat \ {0} /\ j \in Nat \ {0} /\ Pow2[s] = j * (2 * P)
  BY <1>2, Pow2Divides, Pow2Facts
<1>4. a \in Int /\ b \in Int /\ 0 <= b /\ b < P /\ y = a * P + b
  <2>1. P \in Nat \ {0}
    BY <1>3
  <2> HIDE DEF P
  <2>2. y % P \in 0 .. P - 1 /\ y \div P \in Int /\ y = (y \div P) * P + (y % P)
    BY <2>1, DivMod
  <2>3. y % P \in Int /\ 0 <= y % P /\ y % P < P
    BY <2>1, <2>2
  <2> QED BY <2>2, <2>3
<1> HIDE DEF P, j, a, b
<1>5. x = (a + (q * j) * 2) * P + b /\ a + (q * j) * 2 \in Int /\ q * j \in Int
  BY <1>1, <1>3, <1>4
<1>6. x \div P = a + (q * j) * 2
  BY <1>3, <1>4, <1>5, DivUnique
<1>7. (a + (q * j) * 2) % 2 = a % 2
  BY <1>4, <1>5, ModShift
<1> QED BY <1>6, <1>7 DEF Bit, P, a

\* Bitwise operators keep the low bits of what has the same low bits.
LEMMA BitwiseSame ==
    ASSUME NEW op \in {"&", "|", "^"}, NEW s \in Nat, s <= Width,
           NEW x \in Int, NEW y \in Int, NEW u \in Int, NEW v \in Int,
           Same(Pow2[s], x, u), Same(Pow2[s], y, v)
    PROVE  Same(Pow2[s], Bitwise(op, x, y), Bitwise(op, u, v))
<1>0. Pow2[s] \in Nat \ {0} /\ Width \in Nat
  BY Pow2Facts, WidthAssumption
<1>1. PICK low :
          /\ low[0] = 0
          /\ \A n \in Nat :
                low[n + 1] = low[n] + Pow2[n] * ApplyBit(op, Bit(x, n), Bit(y, n))
          /\ \A n \in Nat : /\ low[n] \in Int
                            /\ ApplyBit(op, Bit(x, n), Bit(y, n)) \in Int
          /\ Bitwise(op, x, y) = low[Width]
  BY BitwiseSteps, ZenonT(60)
<1>2. PICK lo :
          /\ lo[0] = 0
          /\ \A n \in Nat :
                lo[n + 1] = lo[n] + Pow2[n] * ApplyBit(op, Bit(u, n), Bit(v, n))
          /\ \A n \in Nat : /\ lo[n] \in Int
                            /\ ApplyBit(op, Bit(u, n), Bit(v, n)) \in Int
          /\ Bitwise(op, u, v) = lo[Width]
  BY BitwiseSteps, ZenonT(60)
<1> DEFINE S == {n \in Nat : Same(Pow2[s], low[n], lo[n])}
<1>3. 0 \in S
  BY <1>0, <1>1, <1>2, SameArithmetic
<1>4. ASSUME NEW n \in Nat, n \in S PROVE n + 1 \in S
  <2> DEFINE b == ApplyBit(op, Bit(x, n), Bit(y, n))
             c == ApplyBit(op, Bit(u, n), Bit(v, n))
  <2>1. /\ low[n + 1] = low[n] + Pow2[n] * b /\ lo[n + 1] = lo[n] + Pow2[n] * c
        /\ low[n] \in Int /\ lo[n] \in Int /\ b \in Int /\ c \in Int
        /\ Pow2[n] \in Int /\ n + 1 \in Nat
    BY <1>1, <1>2, Pow2Facts
  <2>2. n < s => b = c
    BY BitsAgree
  <2> HIDE DEF b, c
  <2>3. Same(Pow2[s], Pow2[n] * b, Pow2[n] * c)
    <3>1. Pow2[n] * b \in Int /\ Pow2[n] * c \in Int
      BY <2>1
    <3>2. CASE n < s
      BY <1>0, <2>2, <3>1, <3>2, SameArithmetic
    <3>3. CASE s <= n
      <4>1. Pow2[n - s] \in Nat \ {0} /\ Pow2[n] = Pow2[n - s] * Pow2[s]
        BY <3>3, Pow2Divides
      <4> DEFINE d == Pow2[n - s]
                 p == Pow2[s]
      <4>2. d \in Int /\ p \in Int /\ Pow2[n] = d * p
        BY <1>0, <4>1
      <4> HIDE DEF d, p
      <4>3. (d * p) * b = (d * p) * c + (d * (b - c)) * p /\ d * (b - c) \in Int
        BY <2>1, <4>2
      <4>4. Same(p, Pow2[n] * b, Pow2[n] * c)
        BY <4>2, <4>3 DEF Same
      <4> QED BY <4>4 DEF p
    <3> QED BY <3>2, <3>3
  <2>4. Same(Pow2[s], low[n], lo[n])
    BY <1>4
  <2>5. Pow2[n] * b \in Int /\ Pow2[n] * c \in Int
    BY <2>1
  <2>6. Same(Pow2[s], low[n] + Pow2[n] * b, lo[n] + Pow2[n] * c)
    BY <1>0, <2>1, <2>3, <2>4, <2>5, SameArithmetic
  <2> QED BY <2>1, <2>6
<1> HIDE DEF S
<1>5. Nat \subseteq S
  BY <1>3, <1>4, BitwiseRec!NatSetInduction
<1>6. Same(Pow2[s], low[Width], lo[Width])
  BY <1>0, <1>5 DEF S
<1> QED BY <1>1, <1>2, <1>6

\* A mask of s bits has ones below bit s and nothing above.
LEMMA MaskBits ==
    ASSUME NEW s \in Nat, NEW k \in Nat
    PROVE  Bit(Pow2[s] - 1, k) = IF k < s THEN 1 ELSE 0
<1> DEFINE P == Pow2[k]
<1>1. P \in Nat \ {0} /\ Pow2[s] \in Nat \ {0}
  BY Pow2Facts
<1>2. CASE k < s
  <2> DEFINE j == Pow2[s - (k + 1)]
  <2>1. k + 1 \in Nat /\ k + 1 <= s
    BY <1>2
  <2>2. j \in Nat \ {0} /\ Pow2[s] = j * (2 * P)
    BY <2>1, Pow2Divides, Pow2Facts
  <2> HIDE DEF P, j
  <2>3. Pow2[s] - 1 = (1 + (j - 1) * 2) * P + (P - 1) /\ 1 + (j - 1) * 2 \in Int
        /\ Pow2[s] - 1 \in Int /\ P - 1 \in Int /\ 0 <= P - 1 /\ P - 1 < P
    BY <1>1, <2>2
  <2>4. (Pow2[s] - 1) \div P = 1 + (j - 1) * 2
    BY <1>1, <2>3, DivUnique, ZenonT(60)
  <2>5. (1 + (j - 1) * 2) % 2 = 1
    BY <2>2
  <2> QED BY <1>2, <2>4, <2>5 DEF Bit, P
<1>3. CASE s <= k
  <2>1. Pow2[s] <= P
    BY <1>3, Pow2Divides
  <2> HIDE DEF P
  <2>2. Pow2[s] - 1 = 0 * P + (Pow2[s] - 1) /\ Pow2[s] - 1 \in Int
        /\ 0 <= Pow2[s] - 1 /\ Pow2[s] - 1 < P
    BY <1>1, <2>1
  <2>3. (Pow2[s] - 1) \div P = 0
    BY <1>1, <2>2, DivUnique
  <2> QED BY <1>3, <2>3 DEF Bit, P
<1> QED BY <1>2, <1>3

\* The next bit of a number, after its low n bits.
LEMMA NextBit ==
    ASSUME NEW x \in Int, NEW n \in Nat
    PROVE  x % Pow2[n + 1] = (x % Pow2[n]) + Pow2[n] * Bit(x, n)
<1> DEFINE P == Pow2[n]
           q == x \div P
           r == x % P
           h == q \div 2
           b == q % 2
<1>1. P \in Nat \ {0} /\ Pow2[n + 1] = 2 * P
  BY Pow2Facts
<1>2. q \in Int /\ r \in Int /\ 0 <= r /\ r < P /\ x = q * P + r
  <2>1. P \in Nat \ {0}
    BY <1>1
  <2> HIDE DEF P
  <2>2. x % P \in 0 .. P - 1 /\ x \div P \in Int /\ x = (x \div P) * P + (x % P)
    BY <2>1, DivMod
  <2>3. x % P \in Int /\ 0 <= x % P /\ x % P < P
    BY <2>1, <2>2
  <2> QED BY <2>2, <2>3
<1> HIDE DEF q, r
<1>3. h \in Int /\ b \in {0, 1} /\ q = h * 2 + b
  BY <1>2
<1> HIDE DEF h, b, P
<1>4. x = h * (2 * P) + (r + P * b) /\ r + P * b \in Int
      /\ 0 <= r + P * b /\ r + P * b < 2 * P /\ 2 * P \in Nat \ {0}
  <2>1. CASE b = 0
    BY <1>1, <1>2, <1>3, <2>1
  <2>2. CASE b = 1
    BY <1>1, <1>2, <1>3, <2>2
  <2> QED BY <1>3, <2>1, <2>2
<1>5. r + P * b = x % (2 * P)
  BY <1>3, <1>4, ModUnique
<1>6. Bit(x, n) = b
  BY DEF Bit, b, q, P
<1> QED BY <1>1, <1>5, <1>6 DEF r, P

\* A mask of s bits keeps the low s bits.
LEMMA MaskKeeps ==
    ASSUME NEW s \in Nat, s <= Width, NEW x \in Int
    PROVE  Bitwise("&", x, Pow2[s] - 1) = x % Pow2[s]
<1> DEFINE y == Pow2[s] - 1
<1>0. y \in Int /\ Width \in Nat
  BY Pow2Facts, WidthAssumption
<1>1. \A n \in Nat : Bit(y, n) = IF n < s THEN 1 ELSE 0
  BY MaskBits
<1> HIDE DEF y
<1>2. PICK low :
          /\ low[0] = 0
          /\ \A n \in Nat :
                low[n + 1] = low[n] + Pow2[n] * ApplyBit("&", Bit(x, n), Bit(y, n))
          /\ \A n \in Nat : /\ low[n] \in Int
                            /\ ApplyBit("&", Bit(x, n), Bit(y, n)) \in Int
          /\ Bitwise("&", x, y) = low[Width]
  BY <1>0, BitwiseSteps
<1> DEFINE kept(n) == IF n <= s THEN x % Pow2[n] ELSE x % Pow2[s]
           S == {n \in Nat : low[n] = kept(n)}
<1>3. 0 \in S
  <2>1. x % 1 = 0
    OBVIOUS
  <2> QED BY <1>2, <2>1, Pow2Facts
<1>4. ASSUME NEW n \in Nat, n \in S PROVE n + 1 \in S
  <2>1. Bit(x, n) \in Int /\ Pow2[n] \in Int
    <3>1. Pow2[n] \in Nat \ {0}
      BY Pow2Facts
    <3>2. x \div Pow2[n] \in Int
      BY <3>1
    <3> QED BY <3>1, <3>2 DEF Bit
  <2>2. low[n + 1] = low[n] + Pow2[n] * (Bit(x, n) * Bit(y, n))
    BY <1>2 DEF ApplyBit
  <2>3. CASE n < s
    <3>1. Bit(y, n) = 1 /\ n <= s /\ n + 1 <= s
      BY <1>1, <2>3
    <3>2. low[n + 1] = low[n] + Pow2[n] * Bit(x, n)
      BY <2>1, <2>2, <3>1
    <3>3. x % Pow2[n + 1] = (x % Pow2[n]) + Pow2[n] * Bit(x, n)
      BY NextBit
    <3> QED BY <1>4, <3>1, <3>2, <3>3
  <2>4. CASE s <= n
    <3>1. Bit(y, n) = 0 /\ ~ (n + 1 <= s)
      BY <1>1, <2>4
    <3>2. low[n + 1] = low[n]
      BY <1>2, <2>1, <2>2, <3>1
    <3>3. n = s \/ ~ (n <= s)
      BY <2>4
    <3> QED BY <1>4, <3>1, <3>2, <3>3
  <2> QED BY <2>3, <2>4
<1> HIDE DEF S
<1>5. Nat \subseteq S
  BY <1>3, <1>4, BitwiseRec!NatSetInduction
<1>6. low[Width] = x % Pow2[s]
  <2>1. Width = s \/ ~ (Width <= s)
    BY <1>0
  <2> QED BY <1>0, <1>5, <2>1 DEF S
<1> QED BY <1>2, <1>6 DEF y

\* Operators keep the low bits of what has the same low bits.
LEMMA ApplySame ==
    ASSUME NEW s \in Nat, s <= Width,
           NEW x \in Int, NEW u \in Int, Same(Pow2[s], x, u)
    PROVE  /\ \A op \in Prefix : Same(Pow2[s], ApplyUn(op, x), ApplyUn(op, u))
           /\ \A op \in Infix : \A y, v \in Int : Same(Pow2[s], y, v) =>
                 Same(Pow2[s], ApplyBin(op, x, y), ApplyBin(op, u, v))
<1> DEFINE p == Pow2[s]
<1>0. p \in Nat \ {0} /\ Modulus \in Nat \ {0}
  BY Pow2Facts, ModulusType
<1>1. \A z \in Int : z % Modulus \in Int /\ Same(p, z % Modulus, z)
  <2>1. Pow2[Width - s] \in Nat \ {0} /\ Modulus = Pow2[Width - s] * p
    BY Pow2Divides, WidthAssumption DEF Modulus
  <2> DEFINE k == Pow2[Width - s]
  <2>2. k \in Nat \ {0} /\ Modulus = k * p
    BY <2>1
  <2> HIDE DEF k, p
  <2>3. \A z \in Int : Same(p, z % Modulus, z)
    BY <1>0, <2>2, SameWrapped
  <2>4. \A z \in Int : z % Modulus \in Int
    BY <1>0
  <2> QED BY <2>3, <2>4
<1>2. Same(p, x, u)
  OBVIOUS
<1> HIDE DEF p
<1>3. ASSUME NEW a \in Int, NEW b \in Int, Same(p, a, b)
      PROVE  Same(p, a % Modulus, b % Modulus)
  BY <1>0, <1>1, <1>3, SameArithmetic
<1>4. \A a, b \in Int : Same(p, a, b) => /\ Same(p, 0 - a, 0 - b)
                                         /\ Same(p, (Modulus - 1) - a, (Modulus - 1) - b)
  <2>1. 0 \in Int /\ Modulus - 1 \in Int
    BY <1>0
  <2> QED BY <1>0, <2>1, SameArithmetic
<1>5. ASSUME NEW op \in Prefix
      PROVE  Same(p, ApplyUn(op, x), ApplyUn(op, u))
  <2>1. -x = 0 - x /\ -u = 0 - u /\ -x \in Int /\ -u \in Int
    OBVIOUS
  <2>2. Same(p, (-x) % Modulus, (-u) % Modulus)
    BY <1>2, <1>3, <1>4, <2>1
  <2>3. Same(p, (Modulus - 1) - x, (Modulus - 1) - u)
    BY <1>2, <1>4
  <2> QED BY <2>2, <2>3 DEF ApplyUn
<1>6. ASSUME NEW op \in Infix, NEW y \in Int, NEW v \in Int, Same(p, y, v)
      PROVE  Same(p, ApplyBin(op, x, y), ApplyBin(op, u, v))
  <2>1. /\ Same(p, x + y, u + v) /\ Same(p, x - y, u - v) /\ Same(p, x * y, u * v)
        /\ x + y \in Int /\ x - y \in Int /\ x * y \in Int
        /\ u + v \in Int /\ u - v \in Int /\ u * v \in Int
    BY <1>0, <1>2, <1>6, SameArithmetic
  <2>2. /\ Same(p, (x + y) % Modulus, (u + v) % Modulus)
        /\ Same(p, (x - y) % Modulus, (u - v) % Modulus)
        /\ Same(p, (x * y) % Modulus, (u * v) % Modulus)
    BY <1>3, <2>1
  <2>3. op \in {"&", "|", "^"} => Same(p, Bitwise(op, x, y), Bitwise(op, u, v))
    BY <1>2, <1>6, BitwiseSame DEF p
  <2> QED BY <2>2, <2>3 DEF ApplyBin, Infix
<1> QED BY <1>5, <1>6 DEF p

\* Only the values of its own leaves matter to a tree.
LEMMA ValueOfLeaves ==
    ASSUME NEW values, NEW others
    PROVE  \A t \in Tree : (\A l \in LeafSet(t) : values[l] = others[l])
                               => Evaluate(t, values) = Evaluate(t, others)
<1> DEFINE Agree(t) == \A l \in LeafSet(t) : values[l] = others[l]
           S == {t \in Tree : Agree(t) => Evaluate(t, values) = Evaluate(t, others)}
<1>1. \A v \in Int : Const(v) \in S
  BY LeavesAreTrees, EvaluateEquation
<1>2. \A l \in Label : Leaf(l) \in S
  BY LeavesAreTrees, EvaluateEquation, LeafSetEquation
<1>3. ASSUME NEW op \in Prefix, NEW a \in Tree, a \in S, Un(op, a) \in Tree
      PROVE  Un(op, a) \in S
  BY <1>3, EvaluateEquation, LeafSetEquation
<1>4. ASSUME NEW op \in Infix, NEW a \in Tree, NEW b \in Tree,
             a \in S, b \in S, Bin(op, a, b) \in Tree
      PROVE  Bin(op, a, b) \in S
  <2>1. /\ LeafSet(Bin(op, a, b)) = LeafSet(a) \cup LeafSet(b)
        /\ Evaluate(Bin(op, a, b), values) =
              ApplyBin(op, Evaluate(a, values), Evaluate(b, values))
        /\ Evaluate(Bin(op, a, b), others) =
              ApplyBin(op, Evaluate(a, others), Evaluate(b, others))
    BY <1>4, EvaluateEquation, LeafSetEquation
  <2> QED BY <1>4, <2>1
<1> HIDE DEF S
<1>5. Tree \subseteq S
  BY <1>1, <1>2, <1>3, <1>4, TreeInduction, DepthAssumption DEF Tree
<1> QED BY <1>5 DEF S
=============================================================================
