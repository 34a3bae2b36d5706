------------------------- MODULE MbaPipelineProofs -------------------------
(***************************************************************************)
(* The pipeline on a block, for blocks, words and a table of any size.     *)
(*                                                                         *)
(* What the detector knows is a tree over the variables of the block, and  *)
(* so trees that share a key share their rewrites (SpecTableHitSound).     *)
(* While nothing that a tree reads is assigned, the tree means what the    *)
(* instruction it was read from computes (SpecReassembled).  A rewrite     *)
(* proved equal to such a tree can then take the instruction's place: the  *)
(* block has the effect it had (SpecPreserved).                            *)
(***************************************************************************)
EXTENDS MbaPipeline, ExprTreeProofs

-----------------------------------------------------------------------------
(* Instructions.                                                           *)

\* The operands of instructions that are nested up to n.
OperandsTo(n, instructions) ==
    [kind : {"const"}, value : Nat] \cup [kind : {"var"}, name : Var]
    \cup [kind : {"none"}]
    \cup IF n = 0 THEN {} ELSE [kind : {"ins"}, ins : instructions]

InstructionsOn(operands) ==
    [op : Mnemonic, l : operands, r : operands, d : Var \cup {None}, ea : Nat]

InstructionStep(p, level, n) == InstructionsOn(OperandsTo(n, level[n - 1]))

InstructionRec == INSTANCE Recursion
    WITH Domain <- OverNat, Rank <- Itself, Step <- InstructionStep

\* Instructions of a depth have the operands of that depth.
LEMMA InstructionEquation ==
    ASSUME NEW n \in Nat
    PROVE  InstructionsTo(n) = InstructionsOn(OperandsTo(n, InstructionsTo(n - 1)))
<1>1. InstructionRec!Ranked(0)
  BY DEF InstructionRec!Ranked, OverNat, Itself
<1>2. InstructionRec!Descends(0)
  <2>1. SUFFICES ASSUME NEW g, NEW h, NEW k \in Nat,
                        \A u \in Nat : u < k => g[u] = h[u]
                 PROVE  InstructionStep(0, g, k) = InstructionStep(0, h, k)
    BY DEF InstructionRec!Descends, OverNat, Itself
  <2>2. CASE k = 0
    BY <2>2 DEF InstructionStep, OperandsTo
  <2>3. CASE k # 0
    <3>1. g[k - 1] = h[k - 1]
      BY <2>1, <2>3
    <3> QED BY <3>1 DEF InstructionStep
  <2> QED BY <2>2, <2>3
<1>3. \A k \in Nat : InstructionRec!Fix(0)[k] = InstructionStep(0, InstructionRec!Fix(0), k)
  BY <1>1, <1>2, InstructionRec!RecursiveEquation DEF OverNat
<1>4. \A k : InstructionsTo(k) = InstructionRec!Fix(0)[k]
  BY DEF InstructionsTo, InstructionRec!Fix, OverNat, InstructionStep,
         InstructionsOn, OperandsTo
<1> QED BY <1>3, <1>4 DEF InstructionStep

\* An operand is a number, a leaf, nothing, or an instruction nested less deep.
LEMMA OperandCases ==
    ASSUME NEW n \in Nat, NEW i \in InstructionsTo(n), NEW o \in {i.l, i.r}
    PROVE  \/ o.kind = "const" /\ o.value \in Nat /\ o = Const(o.value)
           \/ o.kind = "var" /\ o.name \in Var /\ o = Leaf(o.name)
           \/ o.kind = "none"
           \/ o.kind = "ins" /\ n # 0 /\ o.ins \in InstructionsTo(n - 1)
<1>1. i \in InstructionsOn(OperandsTo(n, InstructionsTo(n - 1)))
  BY InstructionEquation
<1>2. o \in OperandsTo(n, InstructionsTo(n - 1))
  BY <1>1 DEF InstructionsOn
<1> QED BY <1>2 DEF OperandsTo, Const, Leaf

\* A deeper bound admits more instructions.
LEMMA InstructionsGrow ==
    \A n \in Nat : \A k \in Nat : n <= k => InstructionsTo(n) \subseteq InstructionsTo(k)
<1> DEFINE S == {n \in Nat : InstructionsTo(n) \subseteq InstructionsTo(n + 1)}
<1>0. \A A, B : A \subseteq B => InstructionsOn(A) \subseteq InstructionsOn(B)
  BY DEF InstructionsOn
<1>1. \A A, B : OperandsTo(0, A) \subseteq OperandsTo(1, B)
  BY DEF OperandsTo
<1>2. 0 \in S
  <2>1. /\ InstructionsTo(0) = InstructionsOn(OperandsTo(0, InstructionsTo(0 - 1)))
        /\ InstructionsTo(1) = InstructionsOn(OperandsTo(1, InstructionsTo(1 - 1)))
    BY InstructionEquation
  <2> QED BY <1>0, <1>1, <2>1
<1>3. ASSUME NEW n \in Nat, n \in S PROVE n + 1 \in S
  <2>1. n + 1 \in Nat /\ n + 2 \in Nat /\ (n + 1) - 1 = n /\ (n + 2) - 1 = n + 1
        /\ (n + 1) + 1 = n + 2 /\ n + 1 # 0 /\ n + 2 # 0
    OBVIOUS
  <2>2. OperandsTo(n + 1, InstructionsTo(n)) \subseteq OperandsTo(n + 2, InstructionsTo(n + 1))
    BY <1>3, <2>1 DEF OperandsTo
  <2>3. /\ InstructionsTo(n + 1) = InstructionsOn(OperandsTo(n + 1, InstructionsTo(n)))
        /\ InstructionsTo(n + 2) = InstructionsOn(OperandsTo(n + 2, InstructionsTo(n + 1)))
    BY <2>1, InstructionEquation
  <2>4. InstructionsTo(n + 1) \subseteq InstructionsTo(n + 2)
    BY <1>0, <2>2, <2>3
  <2> QED BY <2>1, <2>4
<1> HIDE DEF S
<1>4. Nat \subseteq S
  BY <1>2, <1>3, InstructionRec!NatSetInduction
<1> DEFINE L == [n \in Nat |-> InstructionsTo(n)]
<1>5. \A n \in Nat : L[n] \subseteq L[n + 1]
  BY <1>4 DEF S
<1> HIDE DEF L
<1>6. \A n, k \in Nat : n <= k => L[n] \subseteq L[k]
  BY <1>5, InstructionRec!LevelsGrow
<1> QED BY <1>6 DEF L

InstructionLevel == [n \in Nat |-> InstructionsTo(n)]

InstructionDomain(p)  == Instruction
Nesting(p, i)         == InstructionRec!LevelOf(InstructionLevel, i)

\* What is nested in an instruction is one, and less deep.
LEMMA NestingDescends ==
    ASSUME NEW i \in Instruction
    PROVE  /\ Nesting(0, i) \in Nat
           /\ i.l.kind = "ins" => i.l.ins \in Instruction /\ Nesting(0, i.l.ins) < Nesting(0, i)
           /\ i.r.kind = "ins" => i.r.ins \in Instruction /\ Nesting(0, i.r.ins) < Nesting(0, i)
<1> DEFINE N(j) == Nesting(0, j)
<1>0. Depth - 1 \in Nat
  BY DetectAssumption
<1>1. ASSUME NEW j, NEW n \in Nat, j \in InstructionsTo(n)
      PROVE  N(j) \in Nat /\ j \in InstructionsTo(N(j)) /\ N(j) <= n
  BY <1>1, InstructionRec!FirstLevel DEF Nesting, InstructionLevel
<1> HIDE DEF N
<1>2. N(i) \in Nat /\ i \in InstructionsTo(N(i)) /\ N(i) <= Depth - 1
  BY <1>0, <1>1 DEF Instruction
<1>3. \A n \in Nat : n <= Depth - 1 => InstructionsTo(n) \subseteq Instruction
  BY <1>0, InstructionsGrow DEF Instruction
<1>4. ASSUME NEW o \in {i.l, i.r}, o.kind = "ins"
      PROVE  o.ins \in Instruction /\ N(o.ins) < N(i)
  <2>1. N(i) # 0 /\ o.ins \in InstructionsTo(N(i) - 1)
    BY <1>2, <1>4, OperandCases
  <2>2. N(i) - 1 \in Nat /\ N(i) - 1 <= Depth - 1
    BY <1>0, <1>2, <2>1
  <2>3. N(o.ins) \in Nat /\ N(o.ins) <= N(i) - 1
    BY <1>1, <2>1, <2>2
  <2> QED BY <1>2, <1>3, <2>1, <2>2, <2>3
<1> QED BY <1>2, <1>4 DEF N

-----------------------------------------------------------------------------
(* Instructions as trees.                                                  *)

SupportedStep(p, supported, i) == SupportedNode(supported, i)

SupportedRec == INSTANCE Recursion
    WITH Domain <- InstructionDomain, Rank <- Nesting, Step <- SupportedStep

\* What is supported has supported operands.
LEMMA SupportedOperands ==
    ASSUME NEW i \in Instruction, Supported(i)
    PROVE  /\ i.op # "ldx"
           /\ i.l.kind \in {"const", "var"} \/ (i.l.kind = "ins" /\ Supported(i.l.ins))
           /\ i.op = "shl" => i.r.kind = "const" /\ i.r.value < 64
           /\ i.op \in DOMAIN BinOp =>
                 i.r.kind \in {"const", "var"} \/ (i.r.kind = "ins" /\ Supported(i.r.ins))
<1>1. \A j \in Instruction : Nesting(0, j) \in Nat
  BY NestingDescends
<1>2. SupportedRec!Ranked(0)
  BY <1>1 DEF SupportedRec!Ranked, InstructionDomain
<1>3. SupportedRec!Descends(0)
  <2>1. SUFFICES ASSUME NEW g, NEW h, NEW j \in Instruction,
                        \A u \in Instruction :
                            Nesting(0, u) < Nesting(0, j) => g[u] = h[u]
                 PROVE  SupportedNode(g, j) = SupportedNode(h, j)
    BY DEF SupportedRec!Descends, InstructionDomain, SupportedStep
  <2>2. /\ j.l.kind = "ins" => g[j.l.ins] = h[j.l.ins]
        /\ j.r.kind = "ins" => g[j.r.ins] = h[j.r.ins]
    BY <2>1, NestingDescends
  <2> QED BY <2>2 DEF SupportedNode
<1>4. \A j \in Instruction :
          SupportedRec!Fix(0)[j] = SupportedNode(SupportedRec!Fix(0), j)
  BY <1>2, <1>3, SupportedRec!RecursiveEquation DEF InstructionDomain, SupportedStep
<1>5. \A j : Supported(j) = SupportedRec!Fix(0)[j]
  BY DEF Supported, SupportedRec!Fix, InstructionDomain, SupportedStep
<1>6. SupportedNode(SupportedRec!Fix(0), i)
  BY <1>4, <1>5
<1> QED BY <1>5, <1>6 DEF SupportedNode

TreeStep(p, tree, i) == TreeNode(tree, i)

TreeOfRec == INSTANCE Recursion
    WITH Domain <- InstructionDomain, Rank <- Nesting, Step <- TreeStep

\* The tree of an instruction, from its operands.
LEMMA TreeOfEquation ==
    ASSUME NEW i \in Instruction
    PROVE  \E a, b :
               /\ a = IF i.l.kind = "ins" THEN TreeOf(i.l.ins) ELSE i.l
               /\ b = IF i.r.kind = "ins" THEN TreeOf(i.r.ins) ELSE i.r
               /\ i.op = "mov" => TreeOf(i) = a
               /\ i.op = "shl" => TreeOf(i) = Bin("*", a, Const(Pow2[i.r.value]))
               /\ i.op = "xdu" => TreeOf(i) = Bin("&", a, Const(Pow2[Bits(i.l)] - 1))
               /\ i.op \in DOMAIN UnOp => TreeOf(i) = Un(UnOp[i.op], a)
               /\ i.op \in DOMAIN BinOp => TreeOf(i) = Bin(BinOp[i.op], a, b)
<1>1. \A j \in Instruction : Nesting(0, j) \in Nat
  BY NestingDescends
<1>2. TreeOfRec!Ranked(0)
  BY <1>1 DEF TreeOfRec!Ranked, InstructionDomain
<1>3. TreeOfRec!Descends(0)
  <2>1. SUFFICES ASSUME NEW g, NEW h, NEW j \in Instruction,
                        \A u \in Instruction :
                            Nesting(0, u) < Nesting(0, j) => g[u] = h[u]
                 PROVE  TreeNode(g, j) = TreeNode(h, j)
    BY DEF TreeOfRec!Descends, InstructionDomain, TreeStep
  <2>2. /\ j.l.kind = "ins" => g[j.l.ins] = h[j.l.ins]
        /\ j.r.kind = "ins" => g[j.r.ins] = h[j.r.ins]
    BY <2>1, NestingDescends
  <2> QED BY <2>2 DEF TreeNode
<1>4. \A j \in Instruction : TreeOfRec!Fix(0)[j] = TreeNode(TreeOfRec!Fix(0), j)
  BY <1>2, <1>3, TreeOfRec!RecursiveEquation DEF InstructionDomain, TreeStep
<1>5. \A j : TreeOf(j) = TreeOfRec!Fix(0)[j]
  BY DEF TreeOf, TreeOfRec!Fix, InstructionDomain, TreeStep
<1> DEFINE a == IF i.l.kind = "ins" THEN TreeOf(i.l.ins) ELSE i.l
           b == IF i.r.kind = "ins" THEN TreeOf(i.r.ins) ELSE i.r
<1>6. /\ i.op = "mov" => TreeOf(i) = a
      /\ i.op = "shl" => TreeOf(i) = Bin("*", a, Const(Pow2[i.r.value]))
      /\ i.op = "xdu" => TreeOf(i) = Bin("&", a, Const(Pow2[Bits(i.l)] - 1))
      /\ i.op \in DOMAIN UnOp => TreeOf(i) = Un(UnOp[i.op], a)
      /\ i.op \in DOMAIN BinOp => TreeOf(i) = Bin(BinOp[i.op], a, b)
  BY <1>4, <1>5 DEF TreeNode, UnOp, BinOp
<1> QED BY <1>6

\* A supported instruction is a tree over the variables, at most one deeper than
\* the instruction: an xdu of a leaf has an operator more.
LEMMA TreeOfTyped ==
    \A n \in Nat : n <= Depth - 1 =>
        \A i \in InstructionsTo(n) :
            Supported(i) => TreeOf(i) \in TreesOver(Var, n + 1)
<1> DEFINE S == {n \in Nat : n <= Depth - 1 =>
                    \A i \in InstructionsTo(n) :
                        Supported(i) => TreeOf(i) \in TreesOver(Var, n + 1)}
<1>0. Depth - 1 \in Nat
  BY DetectAssumption
<1>1. ASSUME NEW n \in Nat, n <= Depth - 1, NEW i \in InstructionsTo(n), Supported(i),
             \A j : n # 0 /\ j \in InstructionsTo(n - 1) /\ Supported(j)
                        => TreeOf(j) \in TreesOver(Var, n)
      PROVE  TreeOf(i) \in TreesOver(Var, n + 1)
  <2>1. i \in Instruction
    BY <1>0, <1>1, InstructionsGrow DEF Instruction
  <2>2. PICK a, b :
               /\ a = IF i.l.kind = "ins" THEN TreeOf(i.l.ins) ELSE i.l
               /\ b = IF i.r.kind = "ins" THEN TreeOf(i.r.ins) ELSE i.r
               /\ i.op = "mov" => TreeOf(i) = a
               /\ i.op = "shl" => TreeOf(i) = Bin("*", a, Const(Pow2[i.r.value]))
               /\ i.op = "xdu" => TreeOf(i) = Bin("&", a, Const(Pow2[Bits(i.l)] - 1))
               /\ i.op \in DOMAIN UnOp => TreeOf(i) = Un(UnOp[i.op], a)
               /\ i.op \in DOMAIN BinOp => TreeOf(i) = Bin(BinOp[i.op], a, b)
    BY <2>1, TreeOfEquation
  <2>3. /\ i.op # "ldx"
        /\ i.l.kind \in {"const", "var"} \/ (i.l.kind = "ins" /\ Supported(i.l.ins))
        /\ i.op = "shl" => i.r.kind = "const" /\ i.r.value < 64
        /\ i.op \in DOMAIN BinOp =>
              i.r.kind \in {"const", "var"} \/ (i.r.kind = "ins" /\ Supported(i.r.ins))
    BY <1>1, <2>1, SupportedOperands
  <2>4. ASSUME NEW o \in {i.l, i.r},
               o.kind \in {"const", "var"} \/ (o.kind = "ins" /\ Supported(o.ins))
        PROVE  (IF o.kind = "ins" THEN TreeOf(o.ins) ELSE o) \in TreesOver(Var, n)
    <3>1. \/ o.kind = "const" /\ o.value \in Nat /\ o = Const(o.value)
          \/ o.kind = "var" /\ o.name \in Var /\ o = Leaf(o.name)
          \/ o.kind = "none"
          \/ o.kind = "ins" /\ n # 0 /\ o.ins \in InstructionsTo(n - 1)
      BY <1>1, OperandCases
    <3>2. /\ \A v \in Int : Const(v) \in TreesOver(Var, n)
          /\ \A l \in Var : Leaf(l) \in TreesOver(Var, n)
      BY TreeMake
    <3>3. CASE o.kind = "const"
      BY <3>1, <3>2, <3>3
    <3>4. CASE o.kind = "var"
      BY <3>1, <3>2, <3>4
    <3>5. CASE o.kind = "ins" /\ Supported(o.ins)
      BY <1>1, <3>1, <3>5
    <3> QED BY <2>4, <3>3, <3>4, <3>5
  <2>5. a \in TreesOver(Var, n) /\ (i.op \in DOMAIN BinOp => b \in TreesOver(Var, n))
    BY <2>2, <2>3, <2>4
  <2>6. Pow2[Bits(i.l)] - 1 \in Int /\ (i.op = "shl" => Pow2[i.r.value] \in Int)
    <3>1. Bits(i.l) \in Nat
      BY <1>1, OperandCases, DetectAssumption, WidthAssumption DEF Bits
    <3>2. i.op = "shl" => i.r.value \in Nat
      BY <1>1, <2>3, OperandCases
    <3> QED BY <3>1, <3>2, Pow2Facts
  <2>7. /\ \A v \in Int : Const(v) \in TreesOver(Var, n)
        /\ \A op \in Prefix : \A u \in TreesOver(Var, n) : Un(op, u) \in TreesOver(Var, n + 1)
        /\ \A op \in Infix : \A u, w \in TreesOver(Var, n) :
              Bin(op, u, w) \in TreesOver(Var, n + 1)
    BY TreeMake
  <2>8. i.op \in Mnemonic
    <3>1. i \in InstructionsOn(OperandsTo(n, InstructionsTo(n - 1)))
      BY <1>1, InstructionEquation
    <3> QED BY <3>1 DEF InstructionsOn
  <2>9. CASE i.op = "mov"
    <3>1. TreesOver(Var, n) \subseteq TreesOver(Var, n + 1)
      BY TreesGrow
    <3> QED BY <2>2, <2>5, <2>9, <3>1
  <2>10. CASE i.op = "shl"
    BY <2>2, <2>5, <2>6, <2>7, <2>10 DEF Infix
  <2>11. CASE i.op = "xdu"
    BY <2>2, <2>5, <2>6, <2>7, <2>11 DEF Infix
  <2>12. CASE i.op \in DOMAIN UnOp
    BY <2>2, <2>5, <2>7, <2>12 DEF Prefix, UnOp
  <2>13. CASE i.op \in DOMAIN BinOp
    BY <2>2, <2>5, <2>7, <2>13 DEF Infix, BinOp
  <2> QED BY <2>3, <2>8, <2>9, <2>10, <2>11, <2>12, <2>13 DEF Mnemonic
<1>2. 0 \in S
  BY <1>1
<1>3. ASSUME NEW n \in Nat, n \in S PROVE n + 1 \in S
  <2>1. n + 1 \in Nat /\ (n + 1) - 1 = n /\ (n + 1 <= Depth - 1 => n <= Depth - 1)
    BY <1>0
  <2> QED BY <1>1, <1>3, <2>1
<1> HIDE DEF S
<1>4. Nat \subseteq S
  BY <1>2, <1>3, InstructionRec!NatSetInduction
<1> QED BY <1>4 DEF S

-----------------------------------------------------------------------------
(* Substituting temporaries.                                               *)

InlineStep(known, inlined, n) == [t \in Tree |-> InlineNode(known, inlined, n, t)]

Fuel(known, n) == IF n > MaxDepth THEN 0 ELSE MaxDepth + 1 - n

InlineRec == INSTANCE Recursion
    WITH Domain <- OverNat, Rank <- Fuel, Step <- InlineStep

\* Inlining by the root of the tree, one level nearer the bound in its operands.
LEMMA InlineEquation ==
    ASSUME NEW known
    PROVE  \E inlined :
               /\ \A n, t : Inline(t, known, n) = inlined[n][t]
               /\ \A n \in Nat : \A t \in Tree :
                     inlined[n][t] = InlineNode(known, inlined, n, t)
<1>0. MaxDepth \in Nat
  BY DetectAssumption
<1>1. InlineRec!Ranked(known)
  BY <1>0 DEF InlineRec!Ranked, OverNat, Fuel
<1>2. InlineRec!Descends(known)
  <2>1. SUFFICES ASSUME NEW g, NEW h, NEW n \in Nat,
                        \A u \in Nat : Fuel(known, u) < Fuel(known, n) => g[u] = h[u]
                 PROVE  InlineStep(known, g, n) = InlineStep(known, h, n)
    BY DEF InlineRec!Descends, OverNat
  <2>2. CASE n > MaxDepth
    BY <2>2 DEF InlineStep, InlineNode
  <2>3. CASE ~ (n > MaxDepth)
    <3>1. n + 1 \in Nat /\ Fuel(known, n + 1) < Fuel(known, n)
      BY <1>0, <2>3 DEF Fuel
    <3>2. g[n + 1] = h[n + 1]
      BY <2>1, <3>1
    <3>3. \A t \in Tree : InlineNode(known, g, n, t) = InlineNode(known, h, n, t)
      BY <3>2 DEF InlineNode
    <3> QED BY <3>3 DEF InlineStep
  <2> QED BY <2>2, <2>3
<1>3. \A n \in Nat : InlineRec!Fix(known)[n] = InlineStep(known, InlineRec!Fix(known), n)
  BY <1>1, <1>2, InlineRec!RecursiveEquation DEF OverNat
<1>4. \A n, t : Inline(t, known, n) = InlineRec!Fix(known)[n][t]
  BY DEF Inline, InlineRec!Fix, OverNat, InlineStep
<1>5. \A n \in Nat : \A t \in Tree :
          InlineRec!Fix(known)[n][t] = InlineNode(known, InlineRec!Fix(known), n, t)
  BY <1>3 DEF InlineStep
<1> QED BY <1>4, <1>5

\* What an environment holds.
Environment == [Var -> TreesOver(Var, MaxDepth) \cup {None}]

\* A tree inlined with n levels gone is within the rest of them, or nothing.
LEMMA InlineTyped ==
    ASSUME NEW known \in Environment
    PROVE  \A n \in Nat : \A t \in TreesOver(Var, Depth) :
               n <= MaxDepth =>
                   Inline(t, known, n) \in TreesOver(Var, MaxDepth - n) \cup {Raised}
<1>0. MaxDepth \in Nat /\ Depth \in Nat /\ MaxDepth <= Depth
  BY DetectAssumption
<1>1. PICK inlined :
          /\ \A n, t : Inline(t, known, n) = inlined[n][t]
          /\ \A n \in Nat : \A t \in Tree :
                inlined[n][t] = InlineNode(known, inlined, n, t)
  BY InlineEquation
<1>2. TreesOver(Var, Depth) \subseteq Tree
  BY <1>0, TreesGrow DEF Tree, Label
<1>3. TreesOver(Var, MaxDepth) \subseteq TreesOver(Var, Depth)
  BY <1>0, TreesGrow
<1>4. ASSUME NEW n \in Nat, NEW t \in TreesOver(Var, Depth), n <= MaxDepth,
             \A u \in TreesOver(Var, Depth) :
                 \/ inlined[n + 1][u] = Raised
                 \/ /\ n # MaxDepth
                    /\ inlined[n + 1][u] \in TreesOver(Var, MaxDepth - n - 1)
      PROVE  inlined[n][t] \in TreesOver(Var, MaxDepth - n) \cup {Raised}
  <2>1. /\ MaxDepth - n \in Nat
        /\ n # MaxDepth => /\ MaxDepth - n - 1 \in Nat
                           /\ (MaxDepth - n - 1) + 1 = MaxDepth - n
                           /\ MaxDepth - n - 1 <= MaxDepth - n
    BY <1>0, <1>4
  <2>2. /\ \A v \in Int : Const(v) \in TreesOver(Var, MaxDepth - n)
        /\ \A l \in Var : Leaf(l) \in TreesOver(Var, MaxDepth - n)
    BY <2>1, TreeMake
  <2>3. n # MaxDepth =>
           /\ \A op \in Prefix : \A a \in TreesOver(Var, MaxDepth - n - 1) :
                 Un(op, a) \in TreesOver(Var, MaxDepth - n)
           /\ \A op \in Infix : \A a, b \in TreesOver(Var, MaxDepth - n - 1) :
                 Bin(op, a, b) \in TreesOver(Var, MaxDepth - n)
           /\ TreesOver(Var, MaxDepth - n - 1) \subseteq TreesOver(Var, MaxDepth - n)
    <3>1. SUFFICES ASSUME n # MaxDepth
                   PROVE  /\ \A op \in Prefix : \A a \in TreesOver(Var, MaxDepth - n - 1) :
                               Un(op, a) \in TreesOver(Var, MaxDepth - n)
                          /\ \A op \in Infix : \A a, b \in TreesOver(Var, MaxDepth - n - 1) :
                               Bin(op, a, b) \in TreesOver(Var, MaxDepth - n)
                          /\ TreesOver(Var, MaxDepth - n - 1) \subseteq TreesOver(Var, MaxDepth - n)
      OBVIOUS
    <3> DEFINE k == MaxDepth - n - 1
    <3>2. k \in Nat /\ k + 1 = MaxDepth - n /\ MaxDepth - n \in Nat /\ k <= MaxDepth - n
      BY <2>1, <3>1
    <3>3. /\ \A op \in Prefix : \A a \in TreesOver(Var, k) : Un(op, a) \in TreesOver(Var, k + 1)
          /\ \A op \in Infix : \A a, b \in TreesOver(Var, k) :
                Bin(op, a, b) \in TreesOver(Var, k + 1)
      <4> HIDE DEF k
      <4> QED BY <3>2, TreeMake
    <3>4. TreesOver(Var, k) \subseteq TreesOver(Var, MaxDepth - n)
      <4> HIDE DEF k
      <4> QED BY <3>2, TreesGrow
    <3> QED BY <3>2, <3>3, <3>4
  <2>4. inlined[n][t] = InlineNode(known, inlined, n, t) /\ ~ (n > MaxDepth)
    BY <1>0, <1>1, <1>2, <1>4
  <2>5. \/ t.kind = "const" /\ t.value \in Int /\ t = Const(t.value)
        \/ t.kind = "var" /\ t.name \in Var /\ t = Leaf(t.name)
        \/ /\ t.kind = "un" /\ t.op \in Prefix
           /\ t.a \in TreesOver(Var, Depth)
        \/ /\ t.kind = "bin" /\ t.op \in Infix
           /\ t.a \in TreesOver(Var, Depth) /\ t.b \in TreesOver(Var, Depth)
    <3>1. Depth # 0 => TreesOver(Var, Depth - 1) \subseteq TreesOver(Var, Depth)
      BY <1>0, TreesGrow
    <3> QED BY <1>0, <1>4, <3>1, TreeCases
  <2>6. CASE t.kind = "const"
    BY <2>2, <2>4, <2>5, <2>6 DEF InlineNode
  <2>7. CASE t.kind = "var"
    <3> DEFINE bound == known[t.name]
    <3>1. bound # None => bound \in TreesOver(Var, Depth)
      BY <1>3, <2>5, <2>7 DEF Environment
    <3>2. inlined[n][t] = IF bound # None /\ NodeCount(bound) < MaxNodes
                          THEN inlined[n + 1][bound] ELSE t
      BY <2>4, <2>7 DEF InlineNode
    <3>3. t \in TreesOver(Var, MaxDepth - n)
      BY <2>2, <2>5, <2>7
    <3> QED BY <1>4, <2>3, <3>1, <3>2, <3>3
  <2>8. CASE t.kind = "un"
    <3>1. inlined[n][t] = IF inlined[n + 1][t.a] = Raised THEN Raised
                          ELSE Un(t.op, inlined[n + 1][t.a])
      BY <2>4, <2>8 DEF InlineNode
    <3> QED BY <1>4, <2>3, <2>5, <2>8, <3>1
  <2>9. CASE t.kind = "bin"
    <3>1. inlined[n][t] = IF Raised \in {inlined[n + 1][t.a], inlined[n + 1][t.b]} THEN Raised
                          ELSE Bin(t.op, inlined[n + 1][t.a], inlined[n + 1][t.b])
      BY <2>4, <2>9 DEF InlineNode
    <3> QED BY <1>4, <2>3, <2>5, <2>9, <3>1
  <2> QED BY <2>5, <2>6, <2>7, <2>8, <2>9
<1> DEFINE Within(k) == \A t \in TreesOver(Var, Depth) :
                            inlined[MaxDepth - k][t] \in TreesOver(Var, k) \cup {Raised}
           S == {k \in Nat : k <= MaxDepth => Within(k)}
<1>5. 0 \in S
  <2>1. \A u \in TreesOver(Var, Depth) : inlined[MaxDepth + 1][u] = Raised
    <3>1. MaxDepth + 1 \in Nat /\ MaxDepth + 1 > MaxDepth
      BY <1>0
    <3> QED BY <1>1, <1>2, <3>1 DEF InlineNode
  <2>2. MaxDepth - 0 = MaxDepth /\ MaxDepth - MaxDepth = 0
    BY <1>0
  <2> QED BY <1>0, <1>4, <2>1, <2>2
<1>6. ASSUME NEW k \in Nat, k \in S PROVE k + 1 \in S
  <2>1. SUFFICES ASSUME k + 1 <= MaxDepth PROVE Within(k + 1)
    OBVIOUS
  <2> DEFINE n == MaxDepth - (k + 1)
  <2>2. /\ n \in Nat /\ n + 1 = MaxDepth - k /\ n <= MaxDepth /\ n # MaxDepth
        /\ MaxDepth - n - 1 = k /\ MaxDepth - n = k + 1 /\ k <= MaxDepth
    BY <1>0, <2>1
  <2>3. Within(k)
    BY <1>6, <2>2
  <2>4. \A u \in TreesOver(Var, Depth) :
            \/ inlined[n + 1][u] = Raised
            \/ n # MaxDepth /\ inlined[n + 1][u] \in TreesOver(Var, MaxDepth - n - 1)
    BY <2>2, <2>3
  <2>5. \A t \in TreesOver(Var, Depth) :
            inlined[n][t] \in TreesOver(Var, MaxDepth - n) \cup {Raised}
    <3> HIDE DEF n
    <3> QED BY <1>4, <2>2, <2>4
  <2> QED BY <2>2, <2>5
<1> HIDE DEF S
<1>7. Nat \subseteq S
  BY <1>5, <1>6, InlineRec!NatSetInduction
<1>8. ASSUME NEW n \in Nat, n <= MaxDepth
      PROVE  \A t \in TreesOver(Var, Depth) :
                 inlined[n][t] \in TreesOver(Var, MaxDepth - n) \cup {Raised}
  <2>1. MaxDepth - n \in Nat /\ MaxDepth - n <= MaxDepth /\ MaxDepth - (MaxDepth - n) = n
    BY <1>0, <1>8
  <2>2. Within(MaxDepth - n)
    BY <1>7, <2>1 DEF S
  <2> QED BY <2>1, <2>2
<1> QED BY <1>1, <1>8

-----------------------------------------------------------------------------
(* The invariant.                                                          *)

\* While the block is scanned it is made of instructions, and what is known of
\* the temporaries are trees over the variables.
EnvInv ==
    /\ env \in Environment
    /\ stage = "detect" => code \in Seq(Instruction)

\* The detector starts with no bindings and no code.
LEMMA EnvInit == Init => EnvInv
BY DEF Init, DetectInit, EnvInv, Environment

\* What an instruction defines is within the bound.
LEMMA DefinitionTyped ==
    ASSUME env \in Environment, NEW ins \in Instruction
    PROVE  Definition(ins) \in TreesOver(Var, MaxDepth) \cup {Raised}
<1>1. MaxDepth \in Nat /\ 0 <= MaxDepth /\ MaxDepth - 0 = MaxDepth
      /\ Depth - 1 \in Nat /\ (Depth - 1) + 1 = Depth /\ Depth - 1 <= Depth - 1
  BY DetectAssumption
<1>2. Supported(ins) => TreeOf(ins) \in TreesOver(Var, Depth)
  BY <1>1, TreeOfTyped DEF Instruction
<1>3. \A t \in TreesOver(Var, Depth) :
          Inline(t, env, 0) \in TreesOver(Var, MaxDepth) \cup {Raised}
  BY <1>1, InlineTyped
<1> QED BY <1>2, <1>3 DEF Definition

\* No instruction scanned, and no rewrite, gives a binding that is not a tree.
LEMMA EnvStep == EnvInv /\ [Next]_vars => EnvInv'
<1> SUFFICES ASSUME EnvInv, [Next]_vars PROVE EnvInv'
  OBVIOUS
<1>1. CASE Detect
  <2>1. PICK c \in Code, ea \in Addresses : Scan([c EXCEPT !.ea = ea])
    BY <1>1 DEF Detect
  <2> DEFINE ins == [c EXCEPT !.ea = ea]
  <2>2. stage = "detect" /\ stage' = "detect" /\ code \in Seq(Instruction)
    BY <1>1 DEF Detect, EnvInv
  <2>3. Instruction = InstructionsOn(OperandsTo(Depth - 1, InstructionsTo(Depth - 2)))
    <3>1. Depth - 1 \in Nat /\ (Depth - 1) - 1 = Depth - 2
      BY DetectAssumption
    <3> QED BY <3>1, InstructionEquation DEF Instruction
  <2>4. ins \in Instruction /\ ins.d \in Var \cup {None}
    <3>1. ea \in Nat
      <4>1. CASE code = <<>>
        BY <2>1, <4>1 DEF Addresses
      <4>2. CASE code # <<>>
        <5>1. code[Len(code)] \in Instruction
          BY <2>2, <4>2
        <5>2. code[Len(code)] \in InstructionsOn(OperandsTo(Depth - 1, InstructionsTo(Depth - 2)))
          BY <2>3, <5>1
        <5>3. code[Len(code)].ea \in Nat
          BY <5>2 DEF InstructionsOn
        <5> QED BY <2>1, <4>2, <5>3 DEF Addresses
      <4> QED BY <4>1, <4>2
    <3>2. c \in Instruction
      BY CodeAssumption
    <3> QED BY <2>3, <3>1, <3>2 DEF InstructionsOn
  <2> HIDE DEF ins
  <2>5. code' = Append(code, ins) /\ Bind(ins, Definition(ins))
    BY <2>1 DEF Scan, ins
  <2>6. Definition(ins) \in TreesOver(Var, MaxDepth) \cup {Raised}
    BY <2>4, DefinitionTyped DEF EnvInv
  <2>7. code' \in Seq(Instruction)
    BY <2>2, <2>4, <2>5
  <2>8. env' \in Environment
    BY <2>4, <2>5, <2>6 DEF Bind, Environment, EnvInv
  <2> QED BY <2>7, <2>8 DEF EnvInv
<1>2. CASE EndOfBlock
  BY <1>2 DEF EndOfBlock, detectVars, EnvInv
<1>3. CASE Install
  BY <1>3 DEF Install, EnvInv
<1>4. CASE Skip
  BY <1>4 DEF Skip, detectVars, EnvInv
<1>5. CASE UNCHANGED vars
  BY <1>5 DEF vars, detectVars, EnvInv
<1> QED BY <1>1, <1>2, <1>3, <1>4, <1>5 DEF Next

\* The detector knows only trees over the variables of the block.
THEOREM SpecEnv == Spec => []EnvInv
BY EnvInit, EnvStep, PTL DEF Spec

-----------------------------------------------------------------------------
(* What shares a key shares its rewrites.                                  *)

\* What the solver answers is a tree, over the leaves it is asked about.
LEMMA RewritesTyped ==
    ASSUME NEW leaves \in SUBSET Var, NEW rewrite \in Rewrites(leaves)
    PROVE  /\ rewrite \in TreesOver(Var, Depth) /\ rewrite \in Tree
           /\ LeafSet(rewrite) \subseteq leaves
<1>1. rewrite \in TreesOver(leaves, Depth)
  BY PipelineAssumption
<1>2. TreesOver(leaves, Depth) \subseteq TreesOver(Var, Depth)
  BY TreesGrow, DepthAssumption
<1>3. leaves \in SUBSET Label /\ \A l \in leaves : [v \in Var |-> 0][l] \in Int
  BY DEF Label
<1>4. rewrite \in Tree /\ LeafSet(rewrite) \subseteq leaves
  BY <1>1, <1>3, TreeOverLabels
<1> QED BY <1>1, <1>2, <1>4

\* On typed bindings a rewrite found through the table is sound.
LEMMA EnvInvShares == EnvInv => TableHitSound
<1> SUFFICES ASSUME EnvInv,
                    NEW s \in {env[v] : v \in Var} \ {None},
                    NEW t \in {env[v] : v \in Var} \ {None},
                    CanonicalKey(s) = CanonicalKey(t),
                    NEW rewrite \in Rewrites(LeafSet(s)), NEW bits \in 1..Width,
                    Proved(s, rewrite, bits)
             PROVE  Proved(t, Instantiate(ToPositional(rewrite, s), t), bits)
  BY DEF TableHitSound
<1>1. s \in Tree /\ t \in Tree
  <2>1. TreesOver(Var, MaxDepth) \subseteq Tree
    BY TreesGrow, DetectAssumption DEF Tree, Label
  <2> QED BY <2>1 DEF EnvInv, Environment
<1>2. LeafSet(s) \in SUBSET Var
  <2>1. s \in TreesOver(Var, Depth)
    <3>1. TreesOver(Var, MaxDepth) \subseteq TreesOver(Var, Depth)
      BY TreesGrow, DetectAssumption
    <3> QED BY <3>1 DEF EnvInv, Environment
  <2>2. Var \in SUBSET Label /\ \E f : \A l \in Var : f[l] \in Int
    <3>1. \A l \in Var : [v \in Var |-> 0][l] \in Int
      OBVIOUS
    <3> QED BY <3>1 DEF Label
  <2> QED BY <2>1, <2>2, TreeOverLabels
<1>3. rewrite \in Tree /\ LeafSet(rewrite) \subseteq LeafSet(s)
  BY <1>2, RewritesTyped
<1> QED BY <1>1, <1>3, SameKeySharesRewrites DEF Proved

\* A rewrite that was proved for one tree and is handed out through the table
\* for another with the same key is equivalent to that one too.
THEOREM SpecTableHitSound == Spec => []TableHitSound
BY SpecEnv, EnvInvShares, PTL

-----------------------------------------------------------------------------
(* What substituting temporaries does.                                     *)

\* The trees the detector handles.
VarTree == TreesOver(Var, Depth)

\* What the detector knows are trees it handles, and trees are made of trees.
LEMMA VarTrees ==
    /\ VarTree \subseteq Tree
    /\ \A known \in Environment : \A v \in Var :
          known[v] # None => known[v] \in VarTree
    /\ \A t \in VarTree :
          /\ LeafSet(t) \subseteq Var
          /\ \/ t.kind = "const" /\ t.value \in Int /\ t = Const(t.value)
             \/ t.kind = "var" /\ t.name \in Var /\ t = Leaf(t.name)
             \/ t.kind = "un" /\ t.op \in Prefix /\ t = Un(t.op, t.a) /\ t.a \in VarTree
             \/ /\ t.kind = "bin" /\ t.op \in Infix /\ t = Bin(t.op, t.a, t.b)
                /\ t.a \in VarTree /\ t.b \in VarTree
<1>0. Depth \in Nat /\ MaxDepth \in Nat /\ MaxDepth <= Depth /\ Depth # 0
  BY DetectAssumption
<1>1. VarTree \subseteq Tree
  BY <1>0, TreesGrow DEF VarTree, Tree, Label
<1>2. \A known \in Environment : \A v \in Var : known[v] # None => known[v] \in VarTree
  <2>1. TreesOver(Var, MaxDepth) \subseteq VarTree
    BY <1>0, TreesGrow DEF VarTree
  <2> QED BY <2>1 DEF Environment
<1>3. ASSUME NEW t \in VarTree
      PROVE  LeafSet(t) \subseteq Var
  <2>1. Var \in SUBSET Label /\ \E f : \A l \in Var : f[l] \in Int
    <3>1. \A l \in Var : [v \in Var |-> 0][l] \in Int
      OBVIOUS
    <3> QED BY <3>1 DEF Label
  <2> QED BY <2>1, TreeOverLabels DEF VarTree
<1>4. ASSUME NEW t \in VarTree
      PROVE  \/ t.kind = "const" /\ t.value \in Int /\ t = Const(t.value)
             \/ t.kind = "var" /\ t.name \in Var /\ t = Leaf(t.name)
             \/ t.kind = "un" /\ t.op \in Prefix /\ t = Un(t.op, t.a) /\ t.a \in VarTree
             \/ /\ t.kind = "bin" /\ t.op \in Infix /\ t = Bin(t.op, t.a, t.b)
                /\ t.a \in VarTree /\ t.b \in VarTree
  <2>1. TreesOver(Var, Depth - 1) \subseteq VarTree
    BY <1>0, TreesGrow DEF VarTree
  <2>2. t \in TreesOver(Var, Depth)
    BY DEF VarTree
  <2> QED BY <1>0, <2>1, <2>2, TreeCases
<1> QED BY <1>1, <1>2, <1>3, <1>4

\* The temporaries that are substituted: bound, and to a tree of few nodes.
Substituted(known, v) == known[v] # None /\ NodeCount(known[v]) < MaxNodes

\* Inlining, by the root of the tree.
LEMMA InlineFacts ==
    ASSUME NEW known, NEW n \in Nat
    PROVE  /\ n > MaxDepth => \A t \in Tree : Inline(t, known, n) = Raised
           /\ ~ (n > MaxDepth) =>
                 /\ \A v \in Int : Inline(Const(v), known, n) = Const(v)
                 /\ \A l \in Label :
                       Inline(Leaf(l), known, n) =
                           IF Substituted(known, l) THEN Inline(known[l], known, n + 1)
                           ELSE Leaf(l)
                 /\ \A op, a : Un(op, a) \in Tree =>
                       Inline(Un(op, a), known, n) =
                           IF Inline(a, known, n + 1) = Raised THEN Raised
                           ELSE Un(op, Inline(a, known, n + 1))
                 /\ \A op, a, b : Bin(op, a, b) \in Tree =>
                       Inline(Bin(op, a, b), known, n) =
                           IF Raised \in {Inline(a, known, n + 1), Inline(b, known, n + 1)}
                           THEN Raised
                           ELSE Bin(op, Inline(a, known, n + 1), Inline(b, known, n + 1))
<1>1. PICK inlined :
          /\ \A k, t : Inline(t, known, k) = inlined[k][t]
          /\ \A k \in Nat : \A t \in Tree :
                inlined[k][t] = InlineNode(known, inlined, k, t)
  BY InlineEquation
<1>2. \A t \in Tree : Inline(t, known, n) = InlineNode(known, inlined, n, t)
  BY <1>1
<1>3. \A t : Inline(t, known, n + 1) = inlined[n + 1][t]
  BY <1>1
<1>4. n > MaxDepth => \A t \in Tree : Inline(t, known, n) = Raised
  BY <1>2 DEF InlineNode
<1>5. SUFFICES ASSUME ~ (n > MaxDepth)
               PROVE  /\ \A v \in Int : Inline(Const(v), known, n) = Const(v)
                      /\ \A l \in Label :
                            Inline(Leaf(l), known, n) =
                                IF Substituted(known, l)
                                THEN Inline(known[l], known, n + 1) ELSE Leaf(l)
                      /\ \A op, a : Un(op, a) \in Tree =>
                            Inline(Un(op, a), known, n) =
                                IF Inline(a, known, n + 1) = Raised THEN Raised
                                ELSE Un(op, Inline(a, known, n + 1))
                      /\ \A op, a, b : Bin(op, a, b) \in Tree =>
                            Inline(Bin(op, a, b), known, n) =
                                IF Raised \in {Inline(a, known, n + 1),
                                               Inline(b, known, n + 1)}
                                THEN Raised
                                ELSE Bin(op, Inline(a, known, n + 1),
                                             Inline(b, known, n + 1))
  BY <1>4
<1>6. \A v \in Int : Inline(Const(v), known, n) = Const(v)
  BY <1>2, <1>5, LeavesAreTrees DEF InlineNode, Const
<1>7. ASSUME NEW l \in Label
      PROVE  Inline(Leaf(l), known, n) =
                 IF Substituted(known, l) THEN Inline(known[l], known, n + 1) ELSE Leaf(l)
  <2>1. Inline(Leaf(l), known, n) = InlineNode(known, inlined, n, Leaf(l))
    BY <1>2, LeavesAreTrees
  <2>2. Leaf(l).kind = "var" /\ Leaf(l).name = l
    BY DEF Leaf
  <2> QED BY <1>3, <1>5, <2>1, <2>2 DEF InlineNode, Substituted
<1>8. ASSUME NEW op, NEW a, Un(op, a) \in Tree
      PROVE  Inline(Un(op, a), known, n) =
                 IF Inline(a, known, n + 1) = Raised THEN Raised
                 ELSE Un(op, Inline(a, known, n + 1))
  <2>1. Inline(Un(op, a), known, n) = InlineNode(known, inlined, n, Un(op, a))
    BY <1>2, <1>8
  <2>2. Un(op, a).kind = "un" /\ Un(op, a).op = op /\ Un(op, a).a = a
    BY DEF Un
  <2> QED BY <1>3, <1>5, <2>1, <2>2 DEF InlineNode
<1>9. ASSUME NEW op, NEW a, NEW b, Bin(op, a, b) \in Tree
      PROVE  Inline(Bin(op, a, b), known, n) =
                 IF Raised \in {Inline(a, known, n + 1), Inline(b, known, n + 1)}
                 THEN Raised
                 ELSE Bin(op, Inline(a, known, n + 1), Inline(b, known, n + 1))
  <2>1. Inline(Bin(op, a, b), known, n) = InlineNode(known, inlined, n, Bin(op, a, b))
    BY <1>2, <1>9
  <2>2. /\ Bin(op, a, b).kind = "bin" /\ Bin(op, a, b).op = op
        /\ Bin(op, a, b).a = a /\ Bin(op, a, b).b = b
    BY DEF Bin
  <2> QED BY <1>3, <1>5, <2>1, <2>2 DEF InlineNode
<1> QED BY <1>6, <1>7, <1>8, <1>9

\* What holds beyond the bound of the substitution, and at a level if it does at
\* the next, holds at every level.
LEMMA FuelInduction ==
    ASSUME NEW S,
           \A n \in Nat : n > MaxDepth => n \in S,
           \A n \in Nat : ~ (n > MaxDepth) /\ n + 1 \in S => n \in S
    PROVE  Nat \subseteq S
<1> DEFINE T == {k \in Nat : \A n \in Nat : MaxDepth < n + k => n \in S}
<1>0. MaxDepth \in Nat
  BY DetectAssumption
<1>1. 0 \in T
  BY <1>0
<1>2. ASSUME NEW k \in Nat, k \in T PROVE k + 1 \in T
  <2>1. ASSUME NEW n \in Nat, MaxDepth < n + (k + 1) PROVE n \in S
    <3>1. n + 1 \in Nat /\ MaxDepth < (n + 1) + k
      BY <1>0, <2>1
    <3>2. n + 1 \in S
      BY <1>2, <3>1
    <3> QED BY <1>0, <3>2
  <2> QED BY <2>1
<1> HIDE DEF T
<1>3. Nat \subseteq T
  BY <1>1, <1>2, InlineRec!NatSetInduction
<1>4. \A n \in Nat : MaxDepth < n + (MaxDepth + 1) /\ MaxDepth + 1 \in Nat
  BY <1>0
<1> QED BY <1>3, <1>4 DEF T

\* A temporary bound to a tree that mentions it cannot be substituted: that goes
\* on until the bound is exceeded.
LEMMA SelfRaises ==
    ASSUME NEW known \in Environment, NEW w \in Var, Substituted(known, w),
           w \in LeafSet(known[w])
    PROVE  \A n \in Nat : \A t \in VarTree :
               w \in LeafSet(t) => Inline(t, known, n) = Raised
<1> DEFINE S == {n \in Nat : \A t \in VarTree :
                               w \in LeafSet(t) => Inline(t, known, n) = Raised}
<1>1. \A n \in Nat : n > MaxDepth => n \in S
  BY InlineFacts, VarTrees
<1>2. ASSUME NEW n \in Nat, ~ (n > MaxDepth), n + 1 \in S PROVE n \in S
  <2>1. SUFFICES ASSUME NEW t \in VarTree, w \in LeafSet(t)
                 PROVE  Inline(t, known, n) = Raised
    OBVIOUS
  <2>2. t \in Tree
    BY VarTrees
  <2>3. CASE t.kind = "const"
    <3>1. LeafSet(t) = {}
      BY <2>3, VarTrees, LeafSetEquation
    <3> QED BY <2>1, <3>1
  <2>4. CASE t.kind = "var"
    <3>1. t = Leaf(t.name) /\ t.name \in Label
      BY <2>4, VarTrees DEF Label
    <3>2. t.name = w
      BY <2>1, <3>1, LeafSetEquation
    <3>3. Inline(t, known, n) = Inline(known[w], known, n + 1)
      BY <1>2, <3>1, <3>2, InlineFacts
    <3>4. known[w] \in VarTree
      BY VarTrees DEF Substituted
    <3> QED BY <1>2, <3>3, <3>4
  <2>5. CASE t.kind = "un"
    <3>1. t = Un(t.op, t.a) /\ t.a \in VarTree
      BY <2>5, VarTrees
    <3>2. w \in LeafSet(t.a)
      BY <2>1, <2>2, <3>1, LeafSetEquation
    <3>3. Inline(t.a, known, n + 1) = Raised
      BY <1>2, <3>1, <3>2
    <3> QED BY <1>2, <2>2, <3>1, <3>3, InlineFacts
  <2>6. CASE t.kind = "bin"
    <3>1. t = Bin(t.op, t.a, t.b) /\ t.a \in VarTree /\ t.b \in VarTree
      BY <2>6, VarTrees
    <3>2. w \in LeafSet(t.a) \/ w \in LeafSet(t.b)
      BY <2>1, <2>2, <3>1, LeafSetEquation
    <3>3. Raised \in {Inline(t.a, known, n + 1), Inline(t.b, known, n + 1)}
      BY <1>2, <3>1, <3>2
    <3> QED BY <1>2, <2>2, <3>1, <3>3, InlineFacts
  <2> QED BY <2>3, <2>4, <2>5, <2>6, VarTrees
<1> HIDE DEF S
<1>3. Nat \subseteq S
  BY <1>1, <1>2, FuelInduction
<1> QED BY <1>3 DEF S

\* A tree that was inlined is made of the leaves there were, of the tree and of
\* the bindings, and none of them is substituted any more.
LEMMA InlineLeaves ==
    ASSUME NEW known \in Environment, NEW R,
           \A v \in Var : known[v] # None => LeafSet(known[v]) \subseteq R
    PROVE  \A n \in Nat : \A t \in VarTree :
               LeafSet(t) \subseteq R /\ Inline(t, known, n) # Raised =>
                   /\ Inline(t, known, n) \in VarTree
                   /\ LeafSet(Inline(t, known, n)) \subseteq R
                   /\ \A u \in LeafSet(Inline(t, known, n)) : ~ Substituted(known, u)
<1> DEFINE Good(u) == LeafSet(u) \subseteq R /\ \A l \in LeafSet(u) : ~ Substituted(known, l)
           S == {n \in Nat : \A t \in VarTree :
                    LeafSet(t) \subseteq R /\ Inline(t, known, n) # Raised =>
                        Good(Inline(t, known, n))}
<1>0. MaxDepth \in Nat /\ Depth \in Nat /\ MaxDepth <= Depth
  BY DetectAssumption
<1>1. ASSUME NEW n \in Nat, NEW t \in VarTree, Inline(t, known, n) # Raised
      PROVE  Inline(t, known, n) \in VarTree
  <2>1. n <= MaxDepth
    BY <1>0, <1>1, InlineFacts, VarTrees
  <2>2. Inline(t, known, n) \in TreesOver(Var, MaxDepth - n)
    BY <1>1, <2>1, InlineTyped DEF VarTree
  <2>3. MaxDepth - n \in Nat /\ MaxDepth - n <= Depth
    BY <1>0, <2>1
  <2>4. TreesOver(Var, MaxDepth - n) \subseteq TreesOver(Var, Depth)
    BY <1>0, <2>3, TreesGrow
  <2> QED BY <2>2, <2>4 DEF VarTree
<1>2. \A n \in Nat : n > MaxDepth => n \in S
  BY InlineFacts, VarTrees
<1>3. ASSUME NEW n \in Nat, ~ (n > MaxDepth), n + 1 \in S PROVE n \in S
  <2>1. SUFFICES ASSUME NEW t \in VarTree, LeafSet(t) \subseteq R,
                        Inline(t, known, n) # Raised
                 PROVE  Good(Inline(t, known, n))
    OBVIOUS
  <2>2. t \in Tree /\ Inline(t, known, n) \in Tree
    BY <1>1, <2>1, VarTrees
  <2>3. \A u \in VarTree : LeafSet(u) \subseteq R /\ Inline(u, known, n + 1) # Raised =>
                               Good(Inline(u, known, n + 1))
    BY <1>3
  <2> HIDE DEF S
  <2>4. CASE t.kind = "const"
    <3>1. t = Const(t.value) /\ t.value \in Int
      BY <2>4, VarTrees
    <3>2. Inline(t, known, n) = t /\ LeafSet(t) = {}
      BY <1>3, <3>1, InlineFacts, LeafSetEquation
    <3> QED BY <3>2
  <2>5. CASE t.kind = "var"
    <3>1. t = Leaf(t.name) /\ t.name \in Var /\ t.name \in Label
      BY <2>5, VarTrees DEF Label
    <3>2. LeafSet(t) = {t.name}
      BY <3>1, LeafSetEquation
    <3>3. CASE Substituted(known, t.name)
      <4>1. Inline(t, known, n) = Inline(known[t.name], known, n + 1)
        BY <1>3, <3>1, <3>3, InlineFacts
      <4>2. known[t.name] # None /\ known[t.name] \in VarTree
        BY <3>1, <3>3, VarTrees DEF Substituted
      <4>3. LeafSet(known[t.name]) \subseteq R
        BY <3>1, <4>2
      <4> QED BY <2>1, <2>3, <4>1, <4>2, <4>3
    <3>4. CASE ~ Substituted(known, t.name)
      <4>1. Inline(t, known, n) = t
        BY <1>3, <3>1, <3>4, InlineFacts
      <4> QED BY <2>1, <3>2, <3>4, <4>1
    <3> QED BY <3>3, <3>4
  <2>6. CASE t.kind = "un"
    <3> DEFINE a == Inline(t.a, known, n + 1)
    <3>1. t = Un(t.op, t.a) /\ t.a \in VarTree
      BY <2>6, VarTrees
    <3>2. a # Raised /\ Inline(t, known, n) = Un(t.op, a)
      BY <1>3, <2>1, <2>2, <3>1, InlineFacts
    <3>3. LeafSet(t.a) \subseteq R
      BY <2>1, <2>2, <3>1, LeafSetEquation
    <3>4. Good(a)
      BY <2>3, <3>1, <3>2, <3>3
    <3>5. LeafSet(Un(t.op, a)) = LeafSet(a)
      BY <2>2, <3>2, LeafSetEquation
    <3> HIDE DEF a
    <3> QED BY <3>2, <3>4, <3>5
  <2>7. CASE t.kind = "bin"
    <3> DEFINE a == Inline(t.a, known, n + 1)
               b == Inline(t.b, known, n + 1)
    <3>1. t = Bin(t.op, t.a, t.b) /\ t.a \in VarTree /\ t.b \in VarTree
      BY <2>7, VarTrees
    <3>2. a # Raised /\ b # Raised /\ Inline(t, known, n) = Bin(t.op, a, b)
      <4>1. Inline(Bin(t.op, t.a, t.b), known, n) =
                IF Raised \in {a, b} THEN Raised ELSE Bin(t.op, a, b)
        BY <1>3, <2>2, <3>1, InlineFacts
      <4> HIDE DEF a, b
      <4> QED BY <2>1, <3>1, <4>1
    <3>3. LeafSet(t.a) \subseteq R /\ LeafSet(t.b) \subseteq R
      BY <2>1, <2>2, <3>1, LeafSetEquation
    <3>4. Good(a) /\ Good(b)
      BY <2>3, <3>1, <3>2, <3>3
    <3>5. LeafSet(Bin(t.op, a, b)) = LeafSet(a) \cup LeafSet(b)
      BY <2>2, <3>2, LeafSetEquation
    <3> HIDE DEF a, b
    <3> QED BY <3>2, <3>4, <3>5
  <2> QED BY <2>4, <2>5, <2>6, <2>7, VarTrees
<1> HIDE DEF S
<1>4. Nat \subseteq S
  BY <1>2, <1>3, FuelInduction
<1> QED BY <1>1, <1>4 DEF S

\* An inlined tree has the value of the tree it came from, over the values of the
\* bindings that were substituted.
LEMMA InlineValue ==
    ASSUME NEW known \in Environment, NEW m, NEW F,
           \A v \in Var : F[v] = IF Substituted(known, v) THEN Evaluate(known[v], m)
                                 ELSE m[v],
           \A v \in Var : Substituted(known, v) =>
               \A u \in LeafSet(known[v]) : u # v => ~ Substituted(known, u)
    PROVE  \A n \in Nat : \A t \in VarTree :
               Inline(t, known, n) # Raised =>
                   Evaluate(Inline(t, known, n), m) = Evaluate(t, F)
<1> DEFINE S == {n \in Nat : \A t \in VarTree :
                    Inline(t, known, n) # Raised =>
                        Evaluate(Inline(t, known, n), m) = Evaluate(t, F)}
<1>1. \A n \in Nat : n > MaxDepth => n \in S
  BY InlineFacts, VarTrees
<1>2. ASSUME NEW n \in Nat, ~ (n > MaxDepth), n + 1 \in S PROVE n \in S
  <2>1. SUFFICES ASSUME NEW t \in VarTree, Inline(t, known, n) # Raised
                 PROVE  Evaluate(Inline(t, known, n), m) = Evaluate(t, F)
    OBVIOUS
  <2>2. t \in Tree /\ Inline(t, known, n) \in Tree
    <3>1. \A v \in Var : known[v] # None => LeafSet(known[v]) \subseteq Var
      BY VarTrees
    <3> QED BY <2>1, <3>1, InlineLeaves, VarTrees
  <2>3. \A u \in VarTree : Inline(u, known, n + 1) # Raised =>
                               Evaluate(Inline(u, known, n + 1), m) = Evaluate(u, F)
    BY <1>2
  <2> HIDE DEF S
  <2>4. CASE t.kind = "const"
    <3>1. t = Const(t.value) /\ t.value \in Int
      BY <2>4, VarTrees
    <3>2. Inline(t, known, n) = t
      <4>1. \A v \in Int : Inline(Const(v), known, n) = Const(v)
        BY <1>2, InlineFacts
      <4> QED BY <3>1, <4>1
    <3>3. \A v \in Int : Evaluate(Const(v), m) = v % Modulus
      BY EvaluateEquation
    <3>4. \A v \in Int : Evaluate(Const(v), F) = v % Modulus
      BY EvaluateEquation
    <3>5. Evaluate(Const(t.value), m) = Evaluate(Const(t.value), F)
      BY <3>1, <3>3, <3>4
    <3> QED BY <3>1, <3>2, <3>5
  <2>5. CASE t.kind = "var"
    <3> DEFINE l == t.name
    <3>1. t = Leaf(l) /\ l \in Var /\ l \in Label
      BY <2>5, VarTrees DEF Label
    <3>2. Evaluate(t, F) = F[l] /\ Evaluate(t, m) = m[l]
      BY <3>1, EvaluateEquation
    <3>3. CASE Substituted(known, l)
      <4>1. Inline(t, known, n) = Inline(known[l], known, n + 1)
        BY <1>2, <3>1, <3>3, InlineFacts
      <4>2. known[l] \in VarTree
        BY <3>1, <3>3, VarTrees DEF Substituted
      <4>3. l \notin LeafSet(known[l])
        BY <2>1, <3>1, <3>3, <4>1, <4>2, SelfRaises
      <4>4. \A u \in LeafSet(known[l]) : F[u] = m[u]
        BY <3>1, <3>3, <4>2, <4>3, VarTrees
      <4>5. Evaluate(known[l], F) = Evaluate(known[l], m)
        BY <4>2, <4>4, VarTrees, ValueOfLeaves
      <4>6. Evaluate(Inline(known[l], known, n + 1), m) = Evaluate(known[l], F)
        BY <2>1, <2>3, <4>1, <4>2
      <4> QED BY <3>1, <3>2, <3>3, <4>1, <4>5, <4>6
    <3>4. CASE ~ Substituted(known, l)
      <4>1. Inline(t, known, n) = t
        BY <1>2, <3>1, <3>4, InlineFacts
      <4> QED BY <3>1, <3>2, <3>4, <4>1
    <3> QED BY <3>3, <3>4
  <2>6. CASE t.kind = "un"
    <3> DEFINE a == Inline(t.a, known, n + 1)
    <3>1. t = Un(t.op, t.a) /\ t.a \in VarTree
      BY <2>6, VarTrees
    <3>2. a # Raised /\ Inline(t, known, n) = Un(t.op, a)
      BY <1>2, <2>1, <2>2, <3>1, InlineFacts
    <3>3. Evaluate(a, m) = Evaluate(t.a, F)
      BY <2>3, <3>1, <3>2
    <3>4. /\ Evaluate(Un(t.op, a), m) = ApplyUn(t.op, Evaluate(a, m))
          /\ Evaluate(Un(t.op, t.a), F) = ApplyUn(t.op, Evaluate(t.a, F))
      BY <2>2, <3>1, <3>2, EvaluateEquation
    <3> HIDE DEF a
    <3> QED BY <3>1, <3>2, <3>3, <3>4
  <2>7. CASE t.kind = "bin"
    <3> DEFINE a == Inline(t.a, known, n + 1)
               b == Inline(t.b, known, n + 1)
    <3>1. t = Bin(t.op, t.a, t.b) /\ t.a \in VarTree /\ t.b \in VarTree
      BY <2>7, VarTrees
    <3>2. a # Raised /\ b # Raised /\ Inline(t, known, n) = Bin(t.op, a, b)
      <4>1. Inline(Bin(t.op, t.a, t.b), known, n) =
                IF Raised \in {a, b} THEN Raised ELSE Bin(t.op, a, b)
        BY <1>2, <2>2, <3>1, InlineFacts
      <4> HIDE DEF a, b
      <4> QED BY <2>1, <3>1, <4>1
    <3>3. Evaluate(a, m) = Evaluate(t.a, F) /\ Evaluate(b, m) = Evaluate(t.b, F)
      BY <2>3, <3>1, <3>2
    <3> HIDE DEF a, b
    <3>4. Evaluate(Bin(t.op, a, b), m) = ApplyBin(t.op, Evaluate(a, m), Evaluate(b, m))
      BY <2>2, <3>2, EvaluateEquation
    <3>5. Evaluate(Bin(t.op, t.a, t.b), F)
              = ApplyBin(t.op, Evaluate(t.a, F), Evaluate(t.b, F))
      BY <2>2, <3>1, EvaluateEquation
    <3> QED BY <3>1, <3>2, <3>3, <3>4, <3>5
  <2> QED BY <2>4, <2>5, <2>6, <2>7, VarTrees
<1> HIDE DEF S
<1>3. Nat \subseteq S
  BY <1>1, <1>2, FuelInduction
<1> QED BY <1>3 DEF S

-----------------------------------------------------------------------------
(* What an instruction computes and what it reads.                         *)

\* The fields of an instruction.
LEMMA InstructionParts ==
    ASSUME NEW i \in Instruction
    PROVE  /\ i.op \in Mnemonic /\ i.d \in Var \cup {None} /\ i.ea \in Nat
           /\ \A o \in {i.l, i.r} :
                 \/ o.kind = "const" /\ o.value \in Nat /\ o = Const(o.value)
                 \/ o.kind = "var" /\ o.name \in Var /\ o = Leaf(o.name)
                 \/ o.kind = "none"
                 \/ o.kind = "ins" /\ o.ins \in Instruction
<1>1. Depth - 1 \in Nat
  BY DetectAssumption
<1>2. i \in InstructionsOn(OperandsTo(Depth - 1, InstructionsTo(Depth - 1 - 1)))
  BY <1>1, InstructionEquation DEF Instruction
<1>3. i.op \in Mnemonic /\ i.d \in Var \cup {None} /\ i.ea \in Nat
  BY <1>2 DEF InstructionsOn
<1>4. ASSUME NEW o \in {i.l, i.r}
      PROVE  \/ o.kind = "const" /\ o.value \in Nat /\ o = Const(o.value)
             \/ o.kind = "var" /\ o.name \in Var /\ o = Leaf(o.name)
             \/ o.kind = "none"
             \/ o.kind = "ins" /\ o.ins \in Instruction
  <2>1. \/ o.kind = "const" /\ o.value \in Nat /\ o = Const(o.value)
        \/ o.kind = "var" /\ o.name \in Var /\ o = Leaf(o.name)
        \/ o.kind = "none"
        \/ o.kind = "ins"
    BY <1>1, OperandCases DEF Instruction
  <2>2. o.kind = "ins" => o.ins \in Instruction
    BY NestingDescends
  <2> QED BY <2>1, <2>2
<1> QED BY <1>3, <1>4

\* What holds of an instruction when it holds of those nested in it holds of all.
LEMMA InstructionInduction ==
    ASSUME NEW S,
           \A i \in Instruction :
               /\ i.l.kind = "ins" => i.l.ins \in S
               /\ i.r.kind = "ins" => i.r.ins \in S
               => i \in S
    PROVE  Instruction \subseteq S
<1>1. SupportedRec!Ranked(0)
  BY NestingDescends DEF SupportedRec!Ranked, InstructionDomain
<1> DEFINE T == S \cap Instruction
<1>2. ASSUME NEW i \in Instruction,
             \A u \in Instruction : Nesting(0, u) < Nesting(0, i) => u \in T
      PROVE  i \in T
  BY <1>2, NestingDescends
<1> HIDE DEF T
<1>3. InstructionDomain(0) \subseteq T
  BY <1>1, <1>2, SupportedRec!RankInduction DEF InstructionDomain
<1> QED BY <1>3 DEF T, InstructionDomain

\* The value of an instruction, from its operands.
ValueStep(m, value, i) == ValueNode(m, value, i)

ValueRec == INSTANCE Recursion
    WITH Domain <- InstructionDomain, Rank <- Nesting, Step <- ValueStep

\* The value of an instruction is its operator applied to its operands' values,
\* as ValueOf defines it: a constant wraps, a variable is read, an inner
\* instruction is computed.
LEMMA ValueEquation ==
    ASSUME NEW m, NEW i \in Instruction
    PROVE  \E a, b :
               /\ i.l.kind = "const" => a = i.l.value % Modulus
               /\ i.l.kind = "var" => a = m[i.l.name]
               /\ i.l.kind = "ins" => a = ValueOf(i.l.ins, m)
               /\ i.r.kind = "const" => b = i.r.value % Modulus
               /\ i.r.kind = "var" => b = m[i.r.name]
               /\ i.r.kind = "ins" => b = ValueOf(i.r.ins, m)
               /\ i.op = "ldx" => ValueOf(i, m) = m[Heap]
               /\ i.op \in {"mov", "xdu"} => ValueOf(i, m) = a
               /\ i.op = "shl" => ValueOf(i, m) = (a * Pow2[i.r.value]) % Modulus
               /\ i.op \in DOMAIN UnOp => ValueOf(i, m) = ApplyUn(UnOp[i.op], a)
               /\ i.op \in DOMAIN BinOp => ValueOf(i, m) = ApplyBin(BinOp[i.op], a, b)
<1>1. \A j \in Instruction : Nesting(m, j) \in Nat
  BY NestingDescends DEF Nesting
<1>2. ValueRec!Ranked(m)
  BY <1>1 DEF ValueRec!Ranked, InstructionDomain
<1>3. ValueRec!Descends(m)
  <2>1. SUFFICES ASSUME NEW g, NEW h, NEW j \in Instruction,
                        \A u \in Instruction :
                            Nesting(m, u) < Nesting(m, j) => g[u] = h[u]
                 PROVE  ValueNode(m, g, j) = ValueNode(m, h, j)
    BY DEF ValueRec!Descends, InstructionDomain, ValueStep
  <2>2. /\ j.l.kind = "ins" => g[j.l.ins] = h[j.l.ins]
        /\ j.r.kind = "ins" => g[j.r.ins] = h[j.r.ins]
    BY <2>1, NestingDescends DEF Nesting
  <2> QED BY <2>2 DEF ValueNode
<1>4. \A j \in Instruction : ValueRec!Fix(m)[j] = ValueNode(m, ValueRec!Fix(m), j)
  BY <1>2, <1>3, ValueRec!RecursiveEquation DEF InstructionDomain, ValueStep
<1>5. \A j : ValueOf(j, m) = ValueRec!Fix(m)[j]
  BY DEF ValueOf, ValueRec!Fix, InstructionDomain, ValueStep
<1> DEFINE F == ValueRec!Fix(m)
           of(o) == CASE o.kind = "const" -> o.value % Modulus
                      [] o.kind = "var"   -> m[o.name]
                      [] o.kind = "ins"   -> F[o.ins]
           a == of(i.l)
           b == of(i.r)
<1>6. ValueOf(i, m) = ValueNode(m, F, i)
  BY <1>4, <1>5
<1> HIDE DEF F
<1>7. /\ i.op = "ldx" => ValueOf(i, m) = m[Heap]
      /\ i.op \in {"mov", "xdu"} => ValueOf(i, m) = a
      /\ i.op = "shl" => ValueOf(i, m) = (a * Pow2[i.r.value]) % Modulus
      /\ i.op \in DOMAIN UnOp => ValueOf(i, m) = ApplyUn(UnOp[i.op], a)
      /\ i.op \in DOMAIN BinOp => ValueOf(i, m) = ApplyBin(BinOp[i.op], a, b)
  BY <1>6 DEF ValueNode, UnOp, BinOp
<1>8. /\ i.l.kind = "const" => a = i.l.value % Modulus
      /\ i.l.kind = "var" => a = m[i.l.name]
      /\ i.l.kind = "ins" => a = ValueOf(i.l.ins, m)
      /\ i.r.kind = "const" => b = i.r.value % Modulus
      /\ i.r.kind = "var" => b = m[i.r.name]
      /\ i.r.kind = "ins" => b = ValueOf(i.r.ins, m)
  BY <1>5 DEF F
<1> HIDE DEF a, b
<1> QED BY <1>7, <1>8

\* What an instruction reads, from its operands.
ReadsStep(p, read, i) == ReadsNode(read, i)

ReadsRec == INSTANCE Recursion
    WITH Domain <- InstructionDomain, Rank <- Nesting, Step <- ReadsStep

\* An instruction reads the variables among its operands and what its inner
\* instructions read.
LEMMA ReadsEquation ==
    ASSUME NEW i \in Instruction
    PROVE  \A o \in {i.l, i.r} :
               /\ o.kind = "var" => o.name \in Reads(i)
               /\ o.kind = "ins" => Reads(o.ins) \subseteq Reads(i)
<1>1. \A j \in Instruction : Nesting(0, j) \in Nat
  BY NestingDescends
<1>2. ReadsRec!Ranked(0)
  BY <1>1 DEF ReadsRec!Ranked, InstructionDomain
<1>3. ReadsRec!Descends(0)
  <2>1. SUFFICES ASSUME NEW g, NEW h, NEW j \in Instruction,
                        \A u \in Instruction :
                            Nesting(0, u) < Nesting(0, j) => g[u] = h[u]
                 PROVE  ReadsNode(g, j) = ReadsNode(h, j)
    BY DEF ReadsRec!Descends, InstructionDomain, ReadsStep
  <2>2. /\ j.l.kind = "ins" => g[j.l.ins] = h[j.l.ins]
        /\ j.r.kind = "ins" => g[j.r.ins] = h[j.r.ins]
    BY <2>1, NestingDescends
  <2> QED BY <2>2 DEF ReadsNode
<1>4. \A j \in Instruction : ReadsRec!Fix(0)[j] = ReadsNode(ReadsRec!Fix(0), j)
  BY <1>2, <1>3, ReadsRec!RecursiveEquation DEF InstructionDomain, ReadsStep
<1>5. \A j : Reads(j) = ReadsRec!Fix(0)[j]
  BY DEF Reads, ReadsRec!Fix, InstructionDomain, ReadsStep
<1> DEFINE F == ReadsRec!Fix(0)
<1>6. Reads(i) = ReadsNode(F, i) /\ \A j : Reads(j) = F[j]
  BY <1>4, <1>5
<1> DEFINE of(o) == CASE o.kind = "var" -> {o.name}
                      [] o.kind = "ins" -> F[o.ins]
                      [] OTHER          -> {}
<1>7. Reads(i) = of(i.l) \cup of(i.r)
  BY <1>6 DEF ReadsNode
<1>8. ASSUME NEW o
      PROVE  /\ o.kind = "var" => of(o) = {o.name}
             /\ o.kind = "ins" => of(o) = Reads(o.ins)
  BY <1>6
<1> HIDE DEF of
<1> QED BY <1>7, <1>8

\* What has the size of its destination, by its operands.
SizedStep(bits, sized, i) == SizedNode(bits, sized, i)

SizedRec == INSTANCE Recursion
    WITH Domain <- InstructionDomain, Rank <- Nesting, Step <- SizedStep

OperandSized(bits, o) ==
    \/ o.kind = "const"
    \/ o.kind = "var" /\ Size[o.name] = bits
    \/ o.kind = "ins" /\ Sized(o.ins, bits)

\* An instruction is sized when its operands are; a load has any size.
LEMMA SizedEquation ==
    ASSUME NEW bits, NEW i \in Instruction
    PROVE  Sized(i, bits) <=>
               \/ i.op = "ldx"
               \/ i.op = "xdu" /\ i.l.kind = "var" /\ Size[i.l.name] <= bits
               \/ /\ OperandSized(bits, i.l)
                  /\ i.op = "shl" => i.r.kind = "const"
                  /\ i.op \in DOMAIN BinOp => OperandSized(bits, i.r)
<1>1. \A j \in Instruction : Nesting(bits, j) \in Nat
  BY NestingDescends DEF Nesting
<1>2. SizedRec!Ranked(bits)
  BY <1>1 DEF SizedRec!Ranked, InstructionDomain
<1>3. SizedRec!Descends(bits)
  <2>1. SUFFICES ASSUME NEW g, NEW h, NEW j \in Instruction,
                        \A u \in Instruction :
                            Nesting(bits, u) < Nesting(bits, j) => g[u] = h[u]
                 PROVE  SizedNode(bits, g, j) = SizedNode(bits, h, j)
    BY DEF SizedRec!Descends, InstructionDomain, SizedStep
  <2>2. /\ j.l.kind = "ins" => g[j.l.ins] = h[j.l.ins]
        /\ j.r.kind = "ins" => g[j.r.ins] = h[j.r.ins]
    BY <2>1, NestingDescends DEF Nesting
  <2> QED BY <2>2 DEF SizedNode
<1>4. \A j \in Instruction : SizedRec!Fix(bits)[j] = SizedNode(bits, SizedRec!Fix(bits), j)
  BY <1>2, <1>3, SizedRec!RecursiveEquation DEF InstructionDomain, SizedStep
<1>5. \A j : Sized(j, bits) = SizedRec!Fix(bits)[j]
  BY DEF Sized, SizedRec!Fix, InstructionDomain, SizedStep
<1> DEFINE F == SizedRec!Fix(bits)
<1>6. Sized(i, bits) = SizedNode(bits, F, i) /\ \A j : Sized(j, bits) = F[j]
  BY <1>4, <1>5
<1> HIDE DEF F
<1> QED BY <1>6 DEF SizedNode, OperandSized

-----------------------------------------------------------------------------
(* What the tree of an instruction stands for.                             *)

\* The leaves of the tree of an instruction are read by it.
LEMMA TreeReads ==
    \A i \in Instruction : Supported(i) =>
        TreeOf(i) \in VarTree /\ LeafSet(TreeOf(i)) \subseteq Reads(i)
<1>1. ASSUME NEW i \in Instruction, Supported(i) PROVE TreeOf(i) \in VarTree
  <2>1. Depth - 1 \in Nat /\ Depth - 1 <= Depth - 1 /\ (Depth - 1) + 1 = Depth
    BY DetectAssumption
  <2> QED BY <1>1, <2>1, TreeOfTyped DEF VarTree, Instruction
<1> DEFINE S == {i \in Instruction : Supported(i) => LeafSet(TreeOf(i)) \subseteq Reads(i)}
<1>2. ASSUME NEW i \in Instruction,
             i.l.kind = "ins" => i.l.ins \in S,
             i.r.kind = "ins" => i.r.ins \in S,
             Supported(i)
      PROVE  LeafSet(TreeOf(i)) \subseteq Reads(i)
  <2>1. PICK a, b :
               /\ a = IF i.l.kind = "ins" THEN TreeOf(i.l.ins) ELSE i.l
               /\ b = IF i.r.kind = "ins" THEN TreeOf(i.r.ins) ELSE i.r
               /\ i.op = "mov" => TreeOf(i) = a
               /\ i.op = "shl" => TreeOf(i) = Bin("*", a, Const(Pow2[i.r.value]))
               /\ i.op = "xdu" => TreeOf(i) = Bin("&", a, Const(Pow2[Bits(i.l)] - 1))
               /\ i.op \in DOMAIN UnOp => TreeOf(i) = Un(UnOp[i.op], a)
               /\ i.op \in DOMAIN BinOp => TreeOf(i) = Bin(BinOp[i.op], a, b)
    BY TreeOfEquation
  <2>2. /\ i.op # "ldx"
        /\ i.l.kind \in {"const", "var"} \/ (i.l.kind = "ins" /\ Supported(i.l.ins))
        /\ i.op = "shl" => i.r.kind = "const" /\ i.r.value < 64
        /\ i.op \in DOMAIN BinOp =>
              i.r.kind \in {"const", "var"} \/ (i.r.kind = "ins" /\ Supported(i.r.ins))
    BY <1>2, SupportedOperands
  <2>3. ASSUME NEW o \in {i.l, i.r},
               o.kind \in {"const", "var"} \/ (o.kind = "ins" /\ Supported(o.ins))
        PROVE  LeafSet(IF o.kind = "ins" THEN TreeOf(o.ins) ELSE o) \subseteq Reads(i)
    <3>1. \/ o.kind = "const" /\ o.value \in Nat /\ o = Const(o.value)
          \/ o.kind = "var" /\ o.name \in Var /\ o = Leaf(o.name)
          \/ o.kind = "none"
          \/ o.kind = "ins" /\ o.ins \in Instruction
      BY InstructionParts
    <3>2. CASE o.kind = "const"
      <4>1. LeafSet(o) = {}
        BY <3>1, <3>2, LeafSetEquation
      <4> QED BY <3>2, <4>1
    <3>3. CASE o.kind = "var"
      <4>1. LeafSet(o) = {o.name}
        BY <3>1, <3>3, LeafSetEquation DEF Label
      <4> QED BY <3>3, <4>1, ReadsEquation
    <3>4. CASE o.kind = "ins"
      <4>1. o.ins \in S /\ Supported(o.ins)
        BY <1>2, <2>3, <3>4
      <4> QED BY <3>4, <4>1, ReadsEquation
    <3> QED BY <2>3, <3>2, <3>3, <3>4
  <2>4. /\ LeafSet(a) \subseteq Reads(i)
        /\ i.op \in DOMAIN BinOp => LeafSet(b) \subseteq Reads(i)
    BY <2>1, <2>2, <2>3
  <2>5. TreeOf(i) \in Tree
    BY <1>1, <1>2, VarTrees
  <2>6. i.op \in Mnemonic
    BY InstructionParts
  <2>7. CASE i.op = "mov"
    BY <2>1, <2>4, <2>7
  <2>8. CASE i.op \in {"shl", "xdu"}
    <3>1. PICK op, k : TreeOf(i) = Bin(op, a, Const(k)) /\ k \in Int
      <4>1. i.op = "xdu" => Pow2[Bits(i.l)] - 1 \in Int
        <5>1. Bits(i.l) \in Nat
          BY InstructionParts, DetectAssumption, WidthAssumption DEF Bits
        <5> QED BY <5>1, Pow2Facts
      <4>2. i.op = "shl" => Pow2[i.r.value] \in Int
        <5>1. i.op = "shl" => i.r.value \in Nat
          BY <2>2, InstructionParts
        <5> QED BY <5>1, Pow2Facts
      <4> QED BY <2>1, <2>8, <4>1, <4>2
    <3>2. LeafSet(Const(k)) = {}
      BY <3>1, LeafSetEquation
    <3>3. LeafSet(TreeOf(i)) = LeafSet(a) \cup LeafSet(Const(k))
      BY <2>5, <3>1, LeafSetEquation
    <3> QED BY <2>4, <3>2, <3>3
  <2>9. CASE i.op \in DOMAIN UnOp
    <3>1. LeafSet(TreeOf(i)) = LeafSet(a)
      BY <2>1, <2>5, <2>9, LeafSetEquation
    <3> QED BY <2>4, <3>1
  <2>10. CASE i.op \in DOMAIN BinOp
    <3>1. LeafSet(TreeOf(i)) = LeafSet(a) \cup LeafSet(b)
      BY <2>1, <2>5, <2>10, LeafSetEquation
    <3> QED BY <2>4, <2>10, <3>1
  <2> QED BY <2>2, <2>6, <2>7, <2>8, <2>9, <2>10 DEF Mnemonic
<1>3. \A i \in Instruction :
          /\ i.l.kind = "ins" => i.l.ins \in S
          /\ i.r.kind = "ins" => i.r.ins \in S
          => i \in S
  BY <1>2
<1> HIDE DEF S
<1>4. Instruction \subseteq S
  BY <1>3, InstructionInduction
<1> QED BY <1>1, <1>4 DEF S

\* What memory holds.
LEMMA MemoryFacts ==
    ASSUME NEW m \in Memory
    PROVE  /\ m \in [Var \cup {Heap} -> Word]
           /\ \A v \in Var \cup {Heap} :
                 /\ m[v] \in Nat /\ m[v] < Pow2[Size[v]]
                 /\ Size[v] \in Nat /\ Size[v] <= Width /\ Pow2[Size[v]] \in Nat \ {0}
<1>1. \A v \in Var \cup {Heap} : Size[v] \in Nat /\ Size[v] <= Width
  BY DetectAssumption, WidthAssumption
<1>2. \A v \in Var \cup {Heap} : Pow2[Size[v]] \in Nat \ {0}
  BY <1>1, Pow2Facts
<1>3. m \in [Var \cup {Heap} -> Word] /\ \A v \in Var \cup {Heap} : m[v] < Pow2[Size[v]]
  BY DEF Memory
<1>4. Word \subseteq Nat
  BY ModulusType DEF Word
<1> QED BY <1>1, <1>2, <1>3, <1>4

\* What a sized instruction computes is a number.
LEMMA ValueTyped ==
    ASSUME NEW m \in Memory, NEW s
    PROVE  \A i \in Instruction : Sized(i, s) => ValueOf(i, m) \in Int
<1> DEFINE S == {i \in Instruction : Sized(i, s) => ValueOf(i, m) \in Int}
<1>1. ASSUME NEW i \in Instruction,
             i.l.kind = "ins" => i.l.ins \in S,
             i.r.kind = "ins" => i.r.ins \in S,
             Sized(i, s)
      PROVE  ValueOf(i, m) \in Int
  <2>1. PICK a, b :
               /\ i.l.kind = "const" => a = i.l.value % Modulus
               /\ i.l.kind = "var" => a = m[i.l.name]
               /\ i.l.kind = "ins" => a = ValueOf(i.l.ins, m)
               /\ i.r.kind = "const" => b = i.r.value % Modulus
               /\ i.r.kind = "var" => b = m[i.r.name]
               /\ i.r.kind = "ins" => b = ValueOf(i.r.ins, m)
               /\ i.op = "ldx" => ValueOf(i, m) = m[Heap]
               /\ i.op \in {"mov", "xdu"} => ValueOf(i, m) = a
               /\ i.op = "shl" => ValueOf(i, m) = (a * Pow2[i.r.value]) % Modulus
               /\ i.op \in DOMAIN UnOp => ValueOf(i, m) = ApplyUn(UnOp[i.op], a)
               /\ i.op \in DOMAIN BinOp => ValueOf(i, m) = ApplyBin(BinOp[i.op], a, b)
    BY ValueEquation
  <2>2. \/ i.op = "ldx"
        \/ i.op = "xdu" /\ i.l.kind = "var" /\ Size[i.l.name] <= s
        \/ /\ OperandSized(s, i.l)
           /\ i.op = "shl" => i.r.kind = "const"
           /\ i.op \in DOMAIN BinOp => OperandSized(s, i.r)
    BY <1>1, SizedEquation
  <2>3. ASSUME NEW o \in {i.l, i.r}, NEW v,
               o.kind = "ins" => o.ins \in S,
               o.kind = "const" => v = o.value % Modulus,
               o.kind = "var" => v = m[o.name],
               o.kind = "ins" => v = ValueOf(o.ins, m),
               o.kind = "var" \/ OperandSized(s, o)
        PROVE  v \in Int
    <3>1. \/ o.kind = "const" /\ o.value \in Nat /\ o = Const(o.value)
          \/ o.kind = "var" /\ o.name \in Var /\ o = Leaf(o.name)
          \/ o.kind = "none"
          \/ o.kind = "ins" /\ o.ins \in Instruction
      BY InstructionParts
    <3>2. CASE o.kind = "const"
      BY <2>3, <3>1, <3>2, ModulusType
    <3>3. CASE o.kind = "var"
      BY <2>3, <3>1, <3>3, MemoryFacts
    <3>4. CASE o.kind = "ins"
      BY <2>3, <3>4 DEF OperandSized
    <3> QED BY <2>3, <3>2, <3>3, <3>4 DEF OperandSized
  <2>4. i.op # "ldx" => a \in Int
    BY <1>1, <2>1, <2>2, <2>3
  <2>5. i.op \in DOMAIN BinOp => b \in Int
    <3>1. i.op \in DOMAIN BinOp => OperandSized(s, i.r)
      BY <2>2 DEF BinOp
    <3> QED BY <1>1, <2>1, <2>3, <3>1
  <2>6. i.op \in Mnemonic
    BY InstructionParts
  <2>7. CASE i.op = "ldx"
    BY <2>1, <2>7, MemoryFacts
  <2>8. CASE i.op \in {"mov", "xdu"}
    BY <2>1, <2>4, <2>8
  <2>9. CASE i.op = "shl"
    <3>1. i.r.value \in Nat
      BY <2>2, <2>9, InstructionParts
    <3>2. Pow2[i.r.value] \in Nat /\ a \in Int
      BY <2>4, <2>9, <3>1, Pow2Facts
    <3>3. a * Pow2[i.r.value] \in Int
      BY <3>2
    <3> QED BY <2>1, <2>9, <3>3, ModulusType
  <2>10. CASE i.op \in DOMAIN UnOp
    <3>1. UnOp[i.op] \in Prefix /\ i.op # "ldx"
      BY <2>10 DEF UnOp, Prefix
    <3> QED BY <2>1, <2>4, <2>10, <3>1, ApplyTyped
  <2>11. CASE i.op \in DOMAIN BinOp
    <3>1. BinOp[i.op] \in Infix /\ i.op # "ldx"
      BY <2>11 DEF BinOp, Infix
    <3> QED BY <2>1, <2>4, <2>5, <2>11, <3>1, ApplyTyped
  <2> QED BY <2>6, <2>7, <2>8, <2>9, <2>10, <2>11 DEF Mnemonic
<1>2. \A i \in Instruction :
          /\ i.l.kind = "ins" => i.l.ins \in S
          /\ i.r.kind = "ins" => i.r.ins \in S
          => i \in S
  BY <1>1
<1> HIDE DEF S
<1>3. Instruction \subseteq S
  BY <1>2, InstructionInduction
<1> QED BY <1>3 DEF S

\* The values agree as far as the leaf holds them.
LeafMeans(l, F, m) == F[l] \in Int /\ Same(Pow2[Size[l]], F[l], m[l])

\* The mask of a leaf, or of a number, as the tree of an xdu has it.
LEMMA MaskValue ==
    ASSUME NEW k \in Nat, k <= Width
    PROVE  (Pow2[k] - 1) % Modulus = Pow2[k] - 1
<1>1. Pow2[k] \in Nat \ {0} /\ Pow2[k] <= Modulus /\ Modulus \in Nat \ {0}
  BY Pow2Facts, Pow2Divides, ModulusType, WidthAssumption DEF Modulus
<1> DEFINE P == Pow2[k]
<1>2. P - 1 \in Int /\ 0 \in Int /\ P - 1 = 0 * Modulus + (P - 1) /\ 0 <= P - 1 /\ P - 1 < Modulus
  BY <1>1
<1> HIDE DEF P
<1>3. P - 1 = (P - 1) % Modulus
  BY <1>1, <1>2, ModUnique
<1> QED BY <1>3 DEF P

\* The tree of an instruction of s bits, over values that agree with memory as far
\* as the leaves hold them, agrees with what the instruction computes in s bits.
LEMMA ValueMeans ==
    ASSUME NEW m \in Memory, NEW F, NEW s \in Nat, s <= Width
    PROVE  \A i \in Instruction :
               /\ Supported(i) /\ Sized(i, s)
               /\ \A l \in LeafSet(TreeOf(i)) : LeafMeans(l, F, m)
               => /\ Evaluate(TreeOf(i), F) \in Int
                  /\ Same(Pow2[s], Evaluate(TreeOf(i), F), ValueOf(i, m))
<1> DEFINE Agrees(t) == \A l \in LeafSet(t) : LeafMeans(l, F, m)
           Means(t, v) == /\ Evaluate(t, F) \in Int /\ v \in Int
                          /\ Same(Pow2[s], Evaluate(t, F), v)
           S == {i \in Instruction :
                    Supported(i) /\ Sized(i, s) /\ Agrees(TreeOf(i))
                        => Means(TreeOf(i), ValueOf(i, m))}
<1>0. Pow2[s] \in Nat \ {0} /\ Modulus \in Nat \ {0}
  BY Pow2Facts, ModulusType
<1>1. ASSUME NEW i \in Instruction,
             i.l.kind = "ins" => i.l.ins \in S,
             i.r.kind = "ins" => i.r.ins \in S,
             Supported(i), Sized(i, s), Agrees(TreeOf(i))
      PROVE  Means(TreeOf(i), ValueOf(i, m))
  <2>1. PICK a, b :
               /\ a = IF i.l.kind = "ins" THEN TreeOf(i.l.ins) ELSE i.l
               /\ b = IF i.r.kind = "ins" THEN TreeOf(i.r.ins) ELSE i.r
               /\ i.op = "mov" => TreeOf(i) = a
               /\ i.op = "shl" => TreeOf(i) = Bin("*", a, Const(Pow2[i.r.value]))
               /\ i.op = "xdu" => TreeOf(i) = Bin("&", a, Const(Pow2[Bits(i.l)] - 1))
               /\ i.op \in DOMAIN UnOp => TreeOf(i) = Un(UnOp[i.op], a)
               /\ i.op \in DOMAIN BinOp => TreeOf(i) = Bin(BinOp[i.op], a, b)
    BY TreeOfEquation
  <2>2. PICK u, v :
               /\ i.l.kind = "const" => u = i.l.value % Modulus
               /\ i.l.kind = "var" => u = m[i.l.name]
               /\ i.l.kind = "ins" => u = ValueOf(i.l.ins, m)
               /\ i.r.kind = "const" => v = i.r.value % Modulus
               /\ i.r.kind = "var" => v = m[i.r.name]
               /\ i.r.kind = "ins" => v = ValueOf(i.r.ins, m)
               /\ i.op = "ldx" => ValueOf(i, m) = m[Heap]
               /\ i.op \in {"mov", "xdu"} => ValueOf(i, m) = u
               /\ i.op = "shl" => ValueOf(i, m) = (u * Pow2[i.r.value]) % Modulus
               /\ i.op \in DOMAIN UnOp => ValueOf(i, m) = ApplyUn(UnOp[i.op], u)
               /\ i.op \in DOMAIN BinOp => ValueOf(i, m) = ApplyBin(BinOp[i.op], u, v)
    BY ValueEquation
  <2>3. /\ i.op # "ldx"
        /\ i.l.kind \in {"const", "var"} \/ (i.l.kind = "ins" /\ Supported(i.l.ins))
        /\ i.op = "shl" => i.r.kind = "const" /\ i.r.value < 64
        /\ i.op \in DOMAIN BinOp =>
              i.r.kind \in {"const", "var"} \/ (i.r.kind = "ins" /\ Supported(i.r.ins))
    BY <1>1, SupportedOperands
  <2>4. \/ i.op = "xdu" /\ i.l.kind = "var" /\ Size[i.l.name] <= s
        \/ /\ OperandSized(s, i.l)
           /\ i.op \in DOMAIN BinOp => OperandSized(s, i.r)
    BY <1>1, <2>3, SizedEquation
  <2>5. i.op \in Mnemonic /\ TreeOf(i) \in Tree
    BY <1>1, InstructionParts, TreeReads, VarTrees
  <2>6. ASSUME NEW o \in {i.l, i.r}, NEW t, NEW w,
               o.kind = "ins" => o.ins \in S,
               t = IF o.kind = "ins" THEN TreeOf(o.ins) ELSE o,
               o.kind = "const" => w = o.value % Modulus,
               o.kind = "var" => w = m[o.name],
               o.kind = "ins" => w = ValueOf(o.ins, m),
               o.kind = "ins" => Supported(o.ins),
               OperandSized(s, o), Agrees(t)
        PROVE  Means(t, w)
    <3>1. \/ o.kind = "const" /\ o.value \in Nat /\ o = Const(o.value)
          \/ o.kind = "var" /\ o.name \in Var /\ o = Leaf(o.name)
          \/ o.kind = "none"
          \/ o.kind = "ins" /\ o.ins \in Instruction
      BY InstructionParts
    <3>2. CASE o.kind = "const"
      <4>1. t = Const(o.value) /\ o.value \in Int /\ w = o.value % Modulus
        BY <2>6, <3>1, <3>2
      <4>2. Evaluate(t, F) = w
        BY <4>1, EvaluateEquation
      <4>3. w \in Int
        BY <1>0, <4>1
      <4> QED BY <1>0, <4>2, <4>3, SameArithmetic
    <3>3. CASE o.kind = "var"
      <4>1. t = Leaf(o.name) /\ o.name \in Var /\ o.name \in Label
            /\ w = m[o.name] /\ Size[o.name] = s
        BY <2>6, <3>1, <3>3 DEF OperandSized, Label
      <4>2. Evaluate(t, F) = F[o.name] /\ LeafSet(t) = {o.name}
        BY <4>1, EvaluateEquation, LeafSetEquation
      <4>3. LeafMeans(o.name, F, m)
        BY <2>6, <4>2
      <4>4. w \in Int
        BY <4>1, MemoryFacts
      <4> QED BY <4>1, <4>2, <4>3, <4>4 DEF LeafMeans
    <3>4. CASE o.kind = "ins"
      <4>1. o.ins \in S /\ Supported(o.ins) /\ Sized(o.ins, s)
            /\ t = TreeOf(o.ins) /\ w = ValueOf(o.ins, m)
        BY <2>6, <3>4 DEF OperandSized
      <4> QED BY <2>6, <4>1
    <3> QED BY <2>6, <3>2, <3>3, <3>4 DEF OperandSized
  <2> HIDE DEF S
  <2>7. ASSUME OperandSized(s, i.l), LeafSet(a) \subseteq LeafSet(TreeOf(i))
        PROVE  Means(a, u)
    BY <1>1, <2>1, <2>2, <2>3, <2>6, <2>7 DEF OperandSized
  <2>8. CASE i.op = "mov"
    <3>1. TreeOf(i) = a /\ ValueOf(i, m) = u /\ OperandSized(s, i.l)
      BY <2>1, <2>2, <2>4, <2>8
    <3> QED BY <2>7, <3>1
  <2>9. CASE i.op = "xdu"
    <3> DEFINE k == Bits(i.l)
               mask == Pow2[k] - 1
    <3>1. k \in Nat /\ k <= Width /\ mask \in Int
      <4>1. k \in Nat /\ k <= Width
        BY InstructionParts, DetectAssumption, WidthAssumption DEF Bits
      <4> QED BY <4>1, Pow2Facts
    <3>2. TreeOf(i) = Bin("&", a, Const(mask)) /\ ValueOf(i, m) = u
      BY <2>1, <2>2, <2>9
    <3>3. mask % Modulus = mask
      BY <3>1, MaskValue
    <3> HIDE DEF k, mask
    <3>4. Evaluate(TreeOf(i), F) = ApplyBin("&", Evaluate(a, F), mask)
      <4>1. Evaluate(Const(mask), F) = mask
        BY <3>1, <3>3, EvaluateEquation
      <4>2. Evaluate(Bin("&", a, Const(mask)), F)
                = ApplyBin("&", Evaluate(a, F), Evaluate(Const(mask), F))
        BY <2>5, <3>2, EvaluateEquation
      <4> QED BY <3>2, <4>1, <4>2
    <3>5. ApplyBin("&", Evaluate(a, F), mask) = Bitwise("&", Evaluate(a, F), Pow2[k] - 1)
      BY DEF ApplyBin, mask
    <3>6. Evaluate(a, F) \in Int => Evaluate(TreeOf(i), F) = Evaluate(a, F) % Pow2[k]
      BY <3>1, <3>4, <3>5, MaskKeeps
    <3>7. LeafSet(a) \subseteq LeafSet(TreeOf(i))
      BY <2>5, <3>2, LeafSetEquation
    <3>8. CASE i.l.kind = "var"
      <4> DEFINE l == i.l.name
      <4>1. l \in Var /\ l \in Label /\ a = Leaf(l) /\ u = m[l] /\ k = Size[l]
        BY <2>1, <2>2, <3>8, InstructionParts DEF Label, k, Bits
      <4>2. LeafSet(a) = {l} /\ Evaluate(a, F) = F[l]
        BY <4>1, LeafSetEquation, EvaluateEquation
      <4>3. LeafMeans(l, F, m)
        BY <1>1, <3>7, <4>2
      <4> HIDE DEF l
      <4>4. m[l] \in Nat /\ m[l] < Pow2[k] /\ Pow2[k] \in Nat \ {0}
        BY <4>1, MemoryFacts
      <4>5. F[l] \in Int /\ F[l] % Pow2[k] = m[l] % Pow2[k]
        <5>1. F[l] \in Int /\ Same(Pow2[k], F[l], m[l])
          BY <4>1, <4>3 DEF LeafMeans
        <5>2. \A x, y \in Int : Same(Pow2[k], x, y) => x % Pow2[k] = y % Pow2[k]
          BY <4>4, SameIsMod
        <5>3. m[l] \in Int
          BY <4>4
        <5> QED BY <5>1, <5>2, <5>3
      <4>6. m[l] % Pow2[k] = m[l]
        <5> DEFINE x == m[l]
                   p == Pow2[k]
        <5>1. x \in Int /\ p \in Nat \ {0} /\ 0 \in Int /\ x = 0 * p + x /\ 0 <= x /\ x < p
          BY <4>4
        <5> HIDE DEF x, p
        <5>2. x = x % p
          BY <5>1, ModUnique
        <5> QED BY <5>2 DEF x, p
      <4>7. Evaluate(TreeOf(i), F) = u /\ u \in Int
        BY <3>6, <4>1, <4>2, <4>4, <4>5, <4>6
      <4> QED BY <1>0, <3>2, <4>7, SameArithmetic
    <3>9. CASE i.l.kind # "var"
      <4>1. Means(a, u) /\ k = Width
        BY <2>4, <2>7, <3>7, <3>9 DEF k, Bits
      <4> DEFINE x == Evaluate(a, F)
      <4>2. Evaluate(TreeOf(i), F) = x % Modulus /\ x \in Int /\ u \in Int /\ Same(Pow2[s], x, u)
        BY <3>6, <4>1 DEF Modulus
      <4>3. Width - s \in Nat /\ Pow2[Width - s] \in Nat \ {0}
            /\ Modulus = Pow2[Width - s] * Pow2[s]
        BY Pow2Divides, WidthAssumption DEF Modulus
      <4> HIDE DEF x
      <4>4. Same(Pow2[s], x % Modulus, x) /\ x % Modulus \in Int
        BY <1>0, <4>2, <4>3, SameWrapped
      <4>5. Same(Pow2[s], x % Modulus, u)
        BY <1>0, <4>2, <4>4, SameArithmetic
      <4> QED BY <3>2, <4>2, <4>4, <4>5
    <3> QED BY <3>8, <3>9
  <2>10. CASE i.op = "shl"
    <3> DEFINE k == i.r.value
               x == Evaluate(a, F)
               P == Pow2[k]
    <3>1. k \in Nat /\ OperandSized(s, i.l)
      BY <2>3, <2>4, <2>10, InstructionParts
    <3>2. P \in Nat \ {0}
      BY <3>1, Pow2Facts
    <3>3. TreeOf(i) = Bin("*", a, Const(P)) /\ ValueOf(i, m) = (u * P) % Modulus
      BY <2>1, <2>2, <2>10
    <3>4. Means(a, u)
      BY <2>5, <2>7, <3>1, <3>3, LeafSetEquation
    <3> HIDE DEF k, P
    <3>5. Evaluate(TreeOf(i), F) = (x * (P % Modulus)) % Modulus
      <4>1. Evaluate(Const(P), F) = P % Modulus
        BY <3>2, EvaluateEquation
      <4>2. Evaluate(Bin("*", a, Const(P)), F)
                = ApplyBin("*", Evaluate(a, F), Evaluate(Const(P), F))
        <5>1. Bin("*", a, Const(P)) \in Tree
          BY <2>5, <3>3
        <5>2. \A op, x1, x2 : Bin(op, x1, x2) \in Tree =>
                  Evaluate(Bin(op, x1, x2), F)
                      = ApplyBin(op, Evaluate(x1, F), Evaluate(x2, F))
          BY EvaluateEquation
        <5> HIDE DEF x
        <5> QED BY <5>1, <5>2
      <4> QED BY <3>3, <4>1, <4>2 DEF ApplyBin
    <3>6. x \in Int /\ u \in Int /\ Same(Pow2[s], x, u)
      BY <3>4
    <3> HIDE DEF x
    <3>7. Width - s \in Nat /\ Pow2[Width - s] \in Nat \ {0}
          /\ Modulus = Pow2[Width - s] * Pow2[s]
      BY Pow2Divides, WidthAssumption DEF Modulus
    <3>8. \A z \in Int : Same(Pow2[s], z % Modulus, z) /\ z % Modulus \in Int
      BY <1>0, <3>7, SameWrapped
    <3> DEFINE y == P % Modulus
    <3>9. y \in Int /\ Same(Pow2[s], y, P) /\ P \in Int
      BY <3>2, <3>8
    <3> HIDE DEF y
    <3>10. x * y \in Int /\ u * P \in Int
      BY <3>6, <3>9
    <3>11. Same(Pow2[s], x * y, u * P)
      BY <1>0, <3>6, <3>9, SameArithmetic
    <3> DEFINE xy == x * y
               up == u * P
    <3>12. xy \in Int /\ up \in Int /\ Same(Pow2[s], xy, up)
      BY <3>10, <3>11
    <3>13. Evaluate(TreeOf(i), F) = xy % Modulus /\ ValueOf(i, m) = up % Modulus
      BY <3>3, <3>5 DEF y
    <3> HIDE DEF xy, up
    <3>14. /\ Same(Pow2[s], xy % Modulus, xy) /\ xy % Modulus \in Int
           /\ Same(Pow2[s], up % Modulus, up) /\ up % Modulus \in Int
      BY <3>8, <3>12
    <3>15. Same(Pow2[s], up, up % Modulus)
      BY <1>0, <3>12, <3>14, SameArithmetic
    <3>16. Same(Pow2[s], xy % Modulus, up)
      BY <1>0, <3>12, <3>14, SameArithmetic
    <3>17. Same(Pow2[s], xy % Modulus, up % Modulus)
      BY <1>0, <3>12, <3>14, <3>15, <3>16, SameArithmetic
    <3> QED BY <3>13, <3>14, <3>17
  <2>11. CASE i.op \in DOMAIN UnOp
    <3>1. UnOp[i.op] \in Prefix /\ i.op # "xdu"
      BY <2>11 DEF UnOp, Prefix
    <3>2. TreeOf(i) = Un(UnOp[i.op], a) /\ ValueOf(i, m) = ApplyUn(UnOp[i.op], u)
      BY <2>1, <2>2, <2>11
    <3>3. Means(a, u)
      BY <2>4, <2>5, <2>7, <3>1, <3>2, LeafSetEquation
    <3>4. Evaluate(TreeOf(i), F) = ApplyUn(UnOp[i.op], Evaluate(a, F))
      BY <2>5, <3>2, EvaluateEquation
    <3> QED BY <3>1, <3>2, <3>3, <3>4, ApplySame, ApplyTyped
  <2>12. CASE i.op \in DOMAIN BinOp
    <3>1. BinOp[i.op] \in Infix /\ i.op # "xdu"
      BY <2>12 DEF BinOp, Infix
    <3>2. TreeOf(i) = Bin(BinOp[i.op], a, b) /\ ValueOf(i, m) = ApplyBin(BinOp[i.op], u, v)
      BY <2>1, <2>2, <2>12
    <3>3. LeafSet(a) \subseteq LeafSet(TreeOf(i)) /\ LeafSet(b) \subseteq LeafSet(TreeOf(i))
      BY <2>5, <3>2, LeafSetEquation
    <3>4. Means(a, u)
      BY <2>4, <2>7, <3>1, <3>3
    <3>5. Means(b, v)
      <4>1. OperandSized(s, i.r)
        BY <2>4, <2>12, <3>1
      <4> QED BY <1>1, <2>1, <2>2, <2>3, <2>6, <2>12, <3>3, <4>1 DEF OperandSized
    <3>6. Evaluate(TreeOf(i), F) = ApplyBin(BinOp[i.op], Evaluate(a, F), Evaluate(b, F))
      BY <2>5, <3>2, EvaluateEquation
    <3> QED BY <3>1, <3>2, <3>4, <3>5, <3>6, ApplySame, ApplyTyped
  <2> QED BY <2>3, <2>5, <2>8, <2>9, <2>10, <2>11, <2>12 DEF Mnemonic
<1>2. \A i \in Instruction :
          /\ i.l.kind = "ins" => i.l.ins \in S
          /\ i.r.kind = "ins" => i.r.ins \in S
          => i \in S
  BY <1>1
<1> HIDE DEF S
<1>3. Instruction \subseteq S
  BY <1>2, InstructionInduction
<1> QED BY <1>3 DEF S

-----------------------------------------------------------------------------
(* Executing a block.                                                      *)

AfterStep(p, memory, k) ==
    IF k = 0 THEN p[2] ELSE Executed(p[1][k], memory[k - 1])

AfterRec == INSTANCE Recursion
    WITH Domain <- OverNat, Rank <- Itself, Step <- AfterStep

\* Memory after a block, an instruction at a time.
LEMMA AfterEquation ==
    ASSUME NEW block, NEW m
    PROVE  /\ After(block, 0, m) = m
           /\ \A n \in Nat :
                 After(block, n + 1, m) = Executed(block[n + 1], After(block, n, m))
<1> DEFINE p == <<block, m>>
<1>1. AfterRec!Ranked(p)
  BY DEF AfterRec!Ranked, OverNat, Itself
<1>2. AfterRec!Descends(p)
  <2>1. SUFFICES ASSUME NEW g, NEW h, NEW n \in Nat,
                        \A u \in Nat : u < n => g[u] = h[u]
                 PROVE  AfterStep(p, g, n) = AfterStep(p, h, n)
    BY DEF AfterRec!Descends, OverNat, Itself
  <2>2. n # 0 => g[n - 1] = h[n - 1]
    BY <2>1
  <2> QED BY <2>2 DEF AfterStep
<1>3. \A n \in Nat : AfterRec!Fix(p)[n] = AfterStep(p, AfterRec!Fix(p), n)
  <2> HIDE DEF p
  <2> QED BY <1>1, <1>2, AfterRec!RecursiveEquation DEF OverNat
<1>4. \A n : After(block, n, m) = AfterRec!Fix(p)[n]
  BY DEF After, AfterRec!Fix, OverNat, AfterStep
<1>5. \A n \in Nat : n + 1 \in Nat /\ n + 1 # 0 /\ (n + 1) - 1 = n
  OBVIOUS
<1> QED BY <1>3, <1>4, <1>5 DEF AfterStep

\* Only the instructions executed matter.
LEMMA AfterPrefix ==
    ASSUME NEW block, NEW other, NEW m
    PROVE  \A n \in Nat : (\A k \in 1..n : block[k] = other[k])
                              => After(block, n, m) = After(other, n, m)
<1> DEFINE S == {n \in Nat : (\A k \in 1..n : block[k] = other[k])
                                => After(block, n, m) = After(other, n, m)}
<1>1. 0 \in S
  BY AfterEquation
<1>2. ASSUME NEW n \in Nat, n \in S PROVE n + 1 \in S
  <2>1. n + 1 \in 1..(n + 1) /\ \A k \in 1..n : k \in 1..(n + 1)
    OBVIOUS
  <2>2. \A b : After(b, n + 1, m) = Executed(b[n + 1], After(b, n, m))
    BY AfterEquation
  <2> QED BY <1>2, <2>1, <2>2
<1> HIDE DEF S
<1>3. Nat \subseteq S
  BY <1>1, <1>2, InlineRec!NatSetInduction
<1> QED BY <1>3 DEF S

\* Blocks of instructions whose operands have the size of their destination.
GoodBlock(block) ==
    /\ block \in Seq(Instruction)
    /\ \A i \in 1..Len(block) : WellSized(block[i])

\* An instruction leaves in each leaf what the leaf can hold.
LEMMA ExecutedMemory ==
    ASSUME NEW m \in Memory, NEW ins \in Instruction, WellSized(ins)
    PROVE  Executed(ins, m) \in Memory
<1>1. CASE ins.d = None
  BY <1>1 DEF Executed
<1>2. CASE ins.d # None
  <2> DEFINE s == Size[ins.d]
             x == ValueOf(ins, m) % Pow2[s]
  <2>1. ins.d \in Var /\ Sized(ins, s)
    BY <1>2, InstructionParts DEF WellSized
  <2>2. ValueOf(ins, m) \in Int
    BY <2>1, ValueTyped
  <2>3. s \in Nat /\ s <= Width /\ Pow2[s] \in Nat \ {0} /\ Pow2[s] <= Modulus
    <3>1. s \in Nat /\ s <= Width /\ Pow2[s] \in Nat \ {0}
      BY <2>1, MemoryFacts
    <3> HIDE DEF s
    <3> QED BY <3>1, WidthAssumption, Pow2Divides DEF Modulus
  <2>4. x \in Nat /\ x < Pow2[s] /\ x \in Word
    <3>1. \A y \in Int : \A p \in Nat \ {0} : (y % p) \in 0 .. p - 1
      BY DivMod
    <3>2. x \in 0 .. Pow2[s] - 1
      BY <2>2, <2>3, <3>1
    <3> HIDE DEF x
    <3> QED BY <2>3, <3>2, ModulusType DEF Word
  <2>5. Executed(ins, m) = [m EXCEPT ![ins.d] = x]
    BY <1>2 DEF Executed
  <2> HIDE DEF x
  <2>6. m \in [Var \cup {Heap} -> Word] /\ \A v \in Var \cup {Heap} : m[v] < Pow2[Size[v]]
    BY MemoryFacts
  <2>7. [m EXCEPT ![ins.d] = x] \in [Var \cup {Heap} -> Word]
    BY <2>1, <2>4, <2>6
  <2>8. \A v \in Var \cup {Heap} : [m EXCEPT ![ins.d] = x][v] < Pow2[Size[v]]
    BY <2>4, <2>6
  <2> QED BY <2>5, <2>7, <2>8 DEF Memory
<1> QED BY <1>1, <1>2

\* And so does a block.
LEMMA AfterMemory ==
    ASSUME NEW block, GoodBlock(block), NEW m \in Memory
    PROVE  \A n \in Nat : n <= Len(block) => After(block, n, m) \in Memory
<1> DEFINE S == {n \in Nat : n <= Len(block) => After(block, n, m) \in Memory}
<1>1. 0 \in S
  BY AfterEquation
<1>2. ASSUME NEW n \in Nat, n \in S PROVE n + 1 \in S
  <2>1. SUFFICES ASSUME n + 1 <= Len(block) PROVE After(block, n + 1, m) \in Memory
    OBVIOUS
  <2>2. Len(block) \in Nat /\ n <= Len(block) /\ n + 1 \in 1..Len(block)
    BY <2>1 DEF GoodBlock
  <2>3. block[n + 1] \in Instruction /\ WellSized(block[n + 1])
    BY <2>2 DEF GoodBlock
  <2>4. After(block, n, m) \in Memory
    BY <1>2, <2>2
  <2>5. After(block, n + 1, m) = Executed(block[n + 1], After(block, n, m))
    BY AfterEquation
  <2>6. Executed(block[n + 1], After(block, n, m)) \in Memory
    BY <2>3, <2>4, ExecutedMemory
  <2> QED BY <2>5, <2>6
<1> HIDE DEF S
<1>3. Nat \subseteq S
  BY <1>1, <1>2, InlineRec!NatSetInduction
<1> QED BY <1>3 DEF S

\* The address does not matter to the size.
LEMMA SizedAnywhere ==
    ASSUME NEW c \in Instruction, NEW ea \in Nat, WellSized(c)
    PROVE  [c EXCEPT !.ea = ea] \in Instruction /\ WellSized([c EXCEPT !.ea = ea])
<1> DEFINE ins == [c EXCEPT !.ea = ea]
<1>1. Depth - 1 \in Nat
  BY DetectAssumption
<1>2. Instruction = InstructionsOn(OperandsTo(Depth - 1, InstructionsTo(Depth - 1 - 1)))
  BY <1>1, InstructionEquation DEF Instruction
<1>3. /\ ins \in Instruction
      /\ ins.op = c.op /\ ins.l = c.l /\ ins.r = c.r /\ ins.d = c.d
  BY <1>2 DEF InstructionsOn
<1> HIDE DEF ins
<1>4. \A bits : Sized(c, bits) => Sized(ins, bits)
  BY <1>3, SizedEquation
<1>5. WellSized(ins)
  BY <1>3, <1>4 DEF WellSized
<1> QED BY <1>3, <1>5 DEF ins

-----------------------------------------------------------------------------
(* What the detector knows of a block.                                     *)

ReadBefore(block) == UNION {Reads(block[i]) : i \in 1..Len(block)}

\* What is known of a temporary is over leaves that the block reads, of which none
\* but itself is substituted; and if it does not mention itself, it has the value
\* of the temporary, as far as the temporary holds it.
BindingMeans(known, block, v) ==
    /\ LeafSet(known[v]) \subseteq ReadBefore(block)
    /\ \A u \in LeafSet(known[v]) : u # v => ~ Substituted(known, u)
    /\ v \notin LeafSet(known[v]) =>
          \A m \in Memory :
              LET after == After(block, Len(block), m)
              IN  Same(Pow2[Size[v]], Evaluate(known[v], after), after[v])

EnvMeans(known, block) ==
    \A v \in Var : known[v] # None => BindingMeans(known, block, v)

\* A tree over the variables has a number for its value.
LEMMA TreeValue ==
    ASSUME NEW m \in Memory
    PROVE  \A t \in VarTree : Evaluate(t, m) \in Int
<1>1. Var \in SUBSET Label /\ \A v \in Var : m[v] \in Int
  BY MemoryFacts DEF Label
<1> QED BY <1>1, TreeOverLabels DEF VarTree

\* What an instruction is found to define is what it computes.
LEMMA DefinitionMeans ==
    ASSUME NEW known \in Environment, NEW block, GoodBlock(block),
           EnvMeans(known, block),
           NEW ins \in Instruction, WellSized(ins), ins.d # None, Supported(ins),
           NEW tree, tree = Inline(TreeOf(ins), known, 0), tree # Raised
    PROVE  /\ tree \in VarTree
           /\ LeafSet(tree) \subseteq Reads(ins) \cup ReadBefore(block)
           /\ \A u \in LeafSet(tree) : ~ Substituted(known, u)
           /\ \A m \in Memory :
                 LET after == After(block, Len(block), m)
                 IN  /\ after \in Memory
                     /\ Evaluate(tree, after) \in Int
                     /\ ValueOf(ins, after) \in Int
                     /\ Same(Pow2[Size[ins.d]], Evaluate(tree, after), ValueOf(ins, after))
<1>1. TreeOf(ins) \in VarTree /\ LeafSet(TreeOf(ins)) \subseteq Reads(ins)
  BY TreeReads
<1>2. /\ tree \in VarTree
      /\ LeafSet(tree) \subseteq Reads(ins) \cup ReadBefore(block)
      /\ \A u \in LeafSet(tree) : ~ Substituted(known, u)
  <2> DEFINE R == Reads(ins) \cup ReadBefore(block)
  <2>1. \A v \in Var : known[v] # None => LeafSet(known[v]) \subseteq R
    BY DEF EnvMeans, BindingMeans
  <2>2. LeafSet(TreeOf(ins)) \subseteq R
    BY <1>1
  <2> HIDE DEF R
  <2>3. /\ Inline(TreeOf(ins), known, 0) \in VarTree
        /\ LeafSet(Inline(TreeOf(ins), known, 0)) \subseteq R
        /\ \A u \in LeafSet(Inline(TreeOf(ins), known, 0)) : ~ Substituted(known, u)
    BY <1>1, <2>1, <2>2, InlineLeaves
  <2> QED BY <2>3 DEF R
<1>3. ASSUME NEW m \in Memory
      PROVE  LET after == After(block, Len(block), m)
             IN  /\ after \in Memory
                 /\ Evaluate(tree, after) \in Int
                 /\ ValueOf(ins, after) \in Int
                 /\ Same(Pow2[Size[ins.d]], Evaluate(tree, after), ValueOf(ins, after))
  <2> DEFINE A == After(block, Len(block), m)
             F == [v \in Var |-> IF Substituted(known, v) THEN Evaluate(known[v], A)
                                 ELSE A[v]]
             s == Size[ins.d]
  <2>1. Len(block) \in Nat /\ Len(block) <= Len(block)
    BY DEF GoodBlock
  <2>2. A \in Memory
    BY <2>1, AfterMemory
  <2>3. ins.d \in Var /\ Sized(ins, s)
    BY InstructionParts DEF WellSized
  <2>4. s \in Nat /\ s <= Width
    BY <2>2, <2>3, MemoryFacts
  <2>5. ValueOf(ins, A) \in Int /\ Evaluate(tree, A) \in Int
    <3> HIDE DEF A, s
    <3> QED BY <1>2, <2>2, <2>3, ValueTyped, TreeValue
  <2>6. ASSUME NEW l \in LeafSet(TreeOf(ins)) PROVE LeafMeans(l, F, A)
    <3>1. l \in Var
      BY <1>1, VarTrees
    <3>2. CASE Substituted(known, l)
      <4>1. known[l] # None /\ known[l] \in VarTree
        BY <3>1, <3>2, VarTrees DEF Substituted
      <4>2. l \notin LeafSet(known[l])
        BY <1>1, <3>1, <3>2, SelfRaises
      <4>3. BindingMeans(known, block, l)
        BY <3>1, <4>1 DEF EnvMeans
      <4>4. Same(Pow2[Size[l]], Evaluate(known[l], A), A[l])
        BY <4>2, <4>3 DEF BindingMeans
      <4>5. F[l] = Evaluate(known[l], A)
        BY <3>1, <3>2
      <4> HIDE DEF F, A
      <4>6. F[l] \in Int
        BY <2>2, <4>1, <4>5, TreeValue
      <4> QED BY <4>4, <4>5, <4>6 DEF LeafMeans
    <3>3. CASE ~ Substituted(known, l)
      <4>1. F[l] = A[l]
        BY <3>1, <3>3
      <4> HIDE DEF F, A
      <4>2. A[l] \in Int /\ Pow2[Size[l]] \in Nat \ {0}
        BY <2>2, <3>1, MemoryFacts
      <4> QED BY <4>1, <4>2, SameArithmetic DEF LeafMeans
    <3> QED BY <3>2, <3>3
  <2>7. Evaluate(tree, A) = Evaluate(TreeOf(ins), F)
    <3>1. \A v \in Var : Substituted(known, v) =>
              \A u \in LeafSet(known[v]) : u # v => ~ Substituted(known, u)
      BY DEF EnvMeans, BindingMeans, Substituted
    <3>2. \A v \in Var : F[v] = IF Substituted(known, v) THEN Evaluate(known[v], A)
                                ELSE A[v]
      OBVIOUS
    <3> HIDE DEF F, A
    <3> QED BY <1>1, <3>1, <3>2, InlineValue
  <2> HIDE DEF F, A, s
  <2>8. Same(Pow2[s], Evaluate(TreeOf(ins), F), ValueOf(ins, A))
    BY <2>2, <2>3, <2>4, <2>6, ValueMeans
  <2> QED BY <2>2, <2>5, <2>7, <2>8 DEF A, s
<1> QED BY <1>2, <1>3

\* The length of a block is a number.
LEMMA BlockLength == \A block : GoodBlock(block) => Len(block) \in Nat
BY DEF GoodBlock

\* Memory after a block with one more instruction.
LEMMA AppendAfter ==
    ASSUME NEW block, GoodBlock(block), NEW ins \in Instruction,
           NEW longer, longer = Append(block, ins), NEW m
    PROVE  After(longer, Len(longer), m) = Executed(ins, After(block, Len(block), m))
<1>1. /\ Len(block) \in Nat /\ Len(longer) = Len(block) + 1
      /\ \A n \in 1..Len(block) : longer[n] = block[n]
      /\ longer[Len(block) + 1] = ins
  BY DEF GoodBlock
<1>2. After(longer, Len(block) + 1, m)
          = Executed(longer[Len(block) + 1], After(longer, Len(block), m))
  BY <1>1, AfterEquation
<1>3. After(longer, Len(block), m) = After(block, Len(block), m)
  BY <1>1, AfterPrefix, ZenonT(60)
<1> QED BY <1>1, <1>2, <1>3

\* Memory before the end of the longer block.
LEMMA AppendBefore ==
    ASSUME NEW block, GoodBlock(block), NEW ins \in Instruction,
           NEW n \in Nat, n <= Len(block), NEW m
    PROVE  After(Append(block, ins), n, m) = After(block, n, m)
<1>1. \A k \in 1..n : Append(block, ins)[k] = block[k]
  BY DEF GoodBlock
<1> QED BY <1>1, AfterPrefix, ZenonT(60)

\* What scanning one more instruction changes.
LEMMA AppendBlock ==
    ASSUME NEW block, GoodBlock(block), NEW ins \in Instruction, WellSized(ins),
           NEW longer, longer = Append(block, ins)
    PROVE  /\ GoodBlock(longer) /\ Len(block) \in Nat /\ Len(longer) = Len(block) + 1
           /\ \A n \in 1..Len(block) : longer[n] = block[n]
           /\ longer[Len(longer)] = ins
           /\ ReadBefore(longer) = ReadBefore(block) \cup Reads(ins)
           /\ ReadsStayCurrent(longer) =>
                 ReadsStayCurrent(block) /\ ins.d \notin ReadBefore(block)
<1>1. /\ Len(block) \in Nat /\ Len(longer) = Len(block) + 1
      /\ \A n \in 1..Len(block) : longer[n] = block[n] /\ n \in 1..Len(longer)
      /\ longer[Len(block) + 1] = ins
      /\ longer \in Seq(Instruction)
  BY DEF GoodBlock
<1>2. \A n \in 1..Len(longer) : n \in 1..Len(block) \/ n = Len(block) + 1
  BY <1>1
<1>3. GoodBlock(longer)
  BY <1>1, <1>2 DEF GoodBlock
<1>4. ReadBefore(longer) = ReadBefore(block) \cup Reads(ins)
  <2>1. Len(block) + 1 \in 1..Len(longer)
    BY <1>1
  <2> QED BY <1>1, <1>2, <2>1 DEF ReadBefore
<1>5. ASSUME ReadsStayCurrent(longer)
      PROVE  ReadsStayCurrent(block) /\ ins.d \notin ReadBefore(block)
  <2>1. ASSUME NEW j \in 1..Len(block), NEW i \in 1..(j - 1)
        PROVE  block[j].d \notin Reads(block[i])
    <3>1. i \in 1..Len(block) /\ j \in 1..Len(longer)
      BY <1>1, <2>1
    <3>2. longer[j].d \notin Reads(longer[i])
      BY <1>5, <2>1, <3>1 DEF ReadsStayCurrent
    <3> QED BY <1>1, <2>1, <3>1, <3>2
  <2>2. ASSUME NEW i \in 1..Len(block) PROVE ins.d \notin Reads(block[i])
    <3>1. Len(longer) \in 1..Len(longer) /\ i \in 1..(Len(longer) - 1)
      BY <1>1, <2>2
    <3>2. longer[Len(longer)].d \notin Reads(longer[i])
      BY <1>5, <3>1 DEF ReadsStayCurrent
    <3> QED BY <1>1, <2>2, <3>2
  <2>3. ReadsStayCurrent(block)
    BY <2>1 DEF ReadsStayCurrent
  <2>4. ins.d \notin ReadBefore(block)
    BY <2>2 DEF ReadBefore
  <2> QED BY <2>3, <2>4
<1>6. longer[Len(longer)] = ins
  BY <1>1
<1> QED BY <1>1, <1>3, <1>4, <1>5, <1>6

\* Binding what an instruction defines keeps the bindings meaning what the
\* temporaries hold, when the instruction assigns nothing that was read before.
LEMMA BindMeans ==
    ASSUME NEW known \in Environment, NEW block, GoodBlock(block),
           EnvMeans(known, block), NEW ins \in Instruction, WellSized(ins),
           NEW longer, longer = Append(block, ins), ReadsStayCurrent(longer),
           NEW tree,
           tree = IF Supported(ins) THEN Inline(TreeOf(ins), known, 0) ELSE Raised,
           NEW then,
           then = IF ins.d = None THEN known
                  ELSE [known EXCEPT ![ins.d] = IF tree = Raised THEN None ELSE tree]
    PROVE  EnvMeans(then, longer)
<1>1. /\ ReadBefore(block) \subseteq ReadBefore(longer)
      /\ Reads(ins) \subseteq ReadBefore(longer)
      /\ ins.d \notin ReadBefore(block)
      /\ Len(block) \in Nat /\ Len(block) <= Len(block)
      /\ \A m : After(longer, Len(longer), m)
                    = Executed(ins, After(block, Len(block), m))
  <2>5. Len(block) \in Nat
    BY BlockLength
  <2>1. Len(block) <= Len(block)
    BY <2>5
  <2>4. ASSUME NEW m
        PROVE  After(longer, Len(longer), m)
                   = Executed(ins, After(block, Len(block), m))
    BY AppendAfter, ZenonT(60)
  <2>2. ReadBefore(longer) = ReadBefore(block) \cup Reads(ins)
    BY AppendBlock
  <2>3. ReadsStayCurrent(longer) => ins.d \notin ReadBefore(block)
    BY AppendBlock
  <2> QED BY <2>1, <2>2, <2>3, <2>4, <2>5
<1>2. /\ ins.d # None => ins.d \in Var
      /\ \A v \in Var : v # ins.d => then[v] = known[v]
      /\ ins.d # None /\ then[ins.d] # None => tree # Raised /\ then[ins.d] = tree
  BY InstructionParts DEF Environment
<1>3. ASSUME NEW m \in Memory
      PROVE  LET before == After(block, Len(block), m)
                 after  == After(longer, Len(longer), m)
             IN  /\ before \in Memory /\ after \in Memory
                 /\ \A v \in Var : v # ins.d => after[v] = before[v]
                 /\ ins.d # None =>
                       after[ins.d] = ValueOf(ins, before) % Pow2[Size[ins.d]]
  <2> DEFINE before == After(block, Len(block), m)
  <2>1. before \in Memory
    BY <1>1, AfterMemory
  <2>2. After(longer, Len(longer), m) = Executed(ins, before)
    BY <1>1
  <2> HIDE DEF before
  <2>3. Executed(ins, before) \in Memory
    BY <2>1, ExecutedMemory
  <2>4. /\ \A v \in Var : v # ins.d => Executed(ins, before)[v] = before[v]
        /\ ins.d # None =>
              Executed(ins, before)[ins.d] = ValueOf(ins, before) % Pow2[Size[ins.d]]
    BY <1>2, <2>1, MemoryFacts DEF Executed
  <2> QED BY <2>1, <2>2, <2>3, <2>4 DEF before
<1>4. ASSUME NEW v \in Var, then[v] # None, v # ins.d
      PROVE  BindingMeans(then, longer, v)
  <2>1. then[v] = known[v] /\ BindingMeans(known, block, v) /\ known[v] \in VarTree
    BY <1>2, <1>4, VarTrees DEF EnvMeans
  <2>2. LeafSet(known[v]) \subseteq ReadBefore(block) /\ LeafSet(known[v]) \subseteq Var
    BY <2>1, VarTrees DEF BindingMeans
  <2>3. \A u \in LeafSet(known[v]) : u # ins.d /\ then[u] = known[u]
    BY <1>1, <1>2, <2>2
  <2>4. \A u \in LeafSet(known[v]) : u # v => ~ Substituted(then, u)
    BY <2>1, <2>3 DEF BindingMeans, Substituted
  <2>5. ASSUME v \notin LeafSet(known[v]), NEW m \in Memory
        PROVE  LET after == After(longer, Len(longer), m)
               IN  Same(Pow2[Size[v]], Evaluate(known[v], after), after[v])
    <3> DEFINE before == After(block, Len(block), m)
               after  == After(longer, Len(longer), m)
    <3>1. Same(Pow2[Size[v]], Evaluate(known[v], before), before[v])
      BY <2>1, <2>5 DEF BindingMeans
    <3>2. after[v] = before[v] /\ \A u \in LeafSet(known[v]) : after[u] = before[u]
      BY <1>3, <1>4, <2>2, <2>3
    <3>3. Evaluate(known[v], after) = Evaluate(known[v], before)
      <4> HIDE DEF before, after
      <4> QED BY <2>1, <3>2, VarTrees, ValueOfLeaves
    <3> QED BY <3>1, <3>2, <3>3
  <2> QED BY <1>1, <2>1, <2>2, <2>4, <2>5 DEF BindingMeans
<1>5. ASSUME ins.d # None, then[ins.d] # None
      PROVE  BindingMeans(then, longer, ins.d)
  <2> DEFINE d == ins.d
  <2>1. d \in Var /\ then[d] = tree /\ tree # Raised
    BY <1>2, <1>5
  <2>2. Supported(ins) /\ tree = Inline(TreeOf(ins), known, 0)
    BY <2>1
  <2>3. /\ tree \in VarTree
        /\ LeafSet(tree) \subseteq Reads(ins) \cup ReadBefore(block)
        /\ \A u \in LeafSet(tree) : ~ Substituted(known, u)
        /\ \A m \in Memory :
              LET after == After(block, Len(block), m)
              IN  /\ after \in Memory
                  /\ Evaluate(tree, after) \in Int
                  /\ ValueOf(ins, after) \in Int
                  /\ Same(Pow2[Size[ins.d]], Evaluate(tree, after), ValueOf(ins, after))
    BY <1>5, <2>1, <2>2, DefinitionMeans
  <2>4. LeafSet(tree) \subseteq ReadBefore(longer) /\ LeafSet(tree) \subseteq Var
    BY <1>1, <2>3, VarTrees
  <2>5. \A u \in LeafSet(tree) : u # d => ~ Substituted(then, u)
    BY <1>2, <2>3, <2>4 DEF Substituted
  <2>6. ASSUME d \notin LeafSet(tree), NEW m \in Memory
        PROVE  LET after == After(longer, Len(longer), m)
               IN  Same(Pow2[Size[d]], Evaluate(tree, after), after[d])
    <3> DEFINE before == After(block, Len(block), m)
               after  == After(longer, Len(longer), m)
               x == Evaluate(tree, before)
               y == ValueOf(ins, before)
               p == Pow2[Size[d]]
    <3>1. \A u \in LeafSet(tree) : after[u] = before[u]
      BY <1>3, <2>4, <2>6
    <3>2. Evaluate(tree, after) = x
      <4> HIDE DEF before, after
      <4> QED BY <2>3, <3>1, VarTrees, ValueOfLeaves
    <3>3. x \in Int /\ y \in Int /\ Same(p, x, y) /\ before \in Memory
      BY <2>3
    <3>4. after[d] = y % p
      BY <1>3, <1>5
    <3>5. p \in Nat \ {0} /\ 1 \in Nat \ {0} /\ 1 * p = p
      <4>1. Pow2[Size[d]] \in Nat \ {0}
        BY <2>1, <3>3, MemoryFacts
      <4> QED BY <4>1
    <3> HIDE DEF x, y, p, before, after
    <3>6. Same(p, y % (1 * p), y) /\ y % p \in Int
      BY <3>3, <3>5, SameWrapped
    <3>7. Same(p, y % p, y)
      BY <3>5, <3>6
    <3>8. Same(p, y, y % p)
      BY <3>3, <3>5, <3>6, <3>7, SameArithmetic
    <3>9. Same(p, x, y % p)
      BY <3>3, <3>5, <3>6, <3>8, SameArithmetic
    <3> QED BY <3>2, <3>4, <3>9 DEF after, p
  <2> QED BY <2>1, <2>4, <2>5, <2>6 DEF BindingMeans
<1>6. ASSUME NEW v \in Var, then[v] # None PROVE BindingMeans(then, longer, v)
  <2>1. CASE v = ins.d
    <3>1. ins.d # None
      BY <2>1, DetectAssumption
    <3> QED BY <1>5, <1>6, <2>1, <3>1
  <2> QED BY <1>4, <1>6, <2>1
<1> QED BY <1>6 DEF EnvMeans

-----------------------------------------------------------------------------
(* What was detected is what an instruction computes.                      *)

Candidate == [ea : Nat, tree : VarTree, bits : 1..Width]

\* A candidate means an instruction of the block, one that stands at its address,
\* and has the size of its destination, as all its leaves do.
CandidateMeans(block, c) ==
    \E n \in 1..Len(block) :
        /\ block[n].d # None /\ block[n].ea = c.ea
        /\ c.bits = Size[block[n].d]
        /\ \A l \in LeafSet(c.tree) : Size[l] = c.bits
        /\ MeansItsInstruction(block, c, n)

\* While the block is scanned, in blocks that do not overwrite what they read, the
\* bindings mean what the temporaries hold, and the candidates what instructions
\* compute.
ScannedInv ==
    stage = "detect" =>
        /\ GoodBlock(code)
        /\ candidates \in Seq(Candidate)
        /\ ReadsStayCurrent(code) =>
              /\ EnvMeans(env, code)
              /\ \A k \in 1..Len(candidates) : CandidateMeans(code, candidates[k])

\* Candidates of a block are candidates of a longer one.
LEMMA CandidateStays ==
    ASSUME NEW block, GoodBlock(block), NEW ins \in Instruction, WellSized(ins),
           NEW longer, longer = Append(block, ins),
           NEW c, CandidateMeans(block, c)
    PROVE  CandidateMeans(longer, c)
<1>1. PICK n \in 1..Len(block) :
          /\ block[n].d # None /\ block[n].ea = c.ea
          /\ c.bits = Size[block[n].d]
          /\ \A l \in LeafSet(c.tree) : Size[l] = c.bits
          /\ MeansItsInstruction(block, c, n)
  BY DEF CandidateMeans
<1>2. /\ Len(block) \in Nat /\ Len(longer) = Len(block) + 1
      /\ \A k \in 1..Len(block) : longer[k] = block[k]
  BY AppendBlock
<1>4. n \in 1..Len(longer) /\ n - 1 \in Nat /\ n - 1 <= Len(block) /\ longer[n] = block[n]
  BY <1>2
<1>5. \A m : After(longer, n - 1, m) = After(block, n - 1, m)
  <2> DEFINE k == n - 1
  <2>1. k \in Nat /\ k <= Len(block)
    BY <1>4
  <2> HIDE DEF k
  <2>2. ASSUME NEW m PROVE After(longer, k, m) = After(block, k, m)
    BY <2>1, AppendBefore
  <2> QED BY <2>2 DEF k
<1>6. MeansItsInstruction(longer, c, n)
  BY <1>1, <1>4, <1>5 DEF MeansItsInstruction
<1> QED BY <1>1, <1>4, <1>6 DEF CandidateMeans

\* What an instruction is found to define is a candidate for it.
LEMMA DefinitionIsCandidate ==
    ASSUME NEW known \in Environment, NEW block, GoodBlock(block),
           EnvMeans(known, block),
           NEW ins \in Instruction, WellSized(ins), ins.d # None, Supported(ins),
           NEW longer, longer = Append(block, ins),
           NEW c, c.ea = ins.ea, c.tree = Inline(TreeOf(ins), known, 0), c.tree # Raised,
           c.bits = Size[ins.d], \A l \in LeafSet(c.tree) : Size[l] = c.bits
    PROVE  CandidateMeans(longer, c)
<1> DEFINE n == Len(longer)
           p == Pow2[Size[ins.d]]
<1>1. /\ Len(block) \in Nat /\ n = Len(block) + 1
      /\ longer[n] = ins
  BY AppendBlock
<1> HIDE DEF n
<1>3. n \in 1..Len(longer) /\ n - 1 = Len(block) /\ Len(block) <= Len(block)
  BY <1>1 DEF n
<1>4. ASSUME NEW m \in Memory
      PROVE  LET before == After(longer, n - 1, m)
             IN  Evaluate(c.tree, before) % p = ValueOf(ins, before) % p
  <2> DEFINE A == After(block, Len(block), m)
  <2>1. /\ A \in Memory
        /\ Evaluate(c.tree, A) \in Int
        /\ ValueOf(ins, A) \in Int
        /\ Same(p, Evaluate(c.tree, A), ValueOf(ins, A))
    BY DefinitionMeans
  <2>2. After(longer, Len(block), m) = A
    BY <1>1, <1>3, AppendBefore
  <2> HIDE DEF A, p
  <2>3. p \in Nat \ {0}
    BY <2>1, InstructionParts, MemoryFacts DEF p
  <2>4. Evaluate(c.tree, A) % p = ValueOf(ins, A) % p
    BY <2>1, <2>3, SameIsMod
  <2> QED BY <1>3, <2>2, <2>4
<1>5. MeansItsInstruction(longer, c, n)
  BY <1>1, <1>4 DEF MeansItsInstruction
<1> QED BY <1>1, <1>3, <1>5 DEF CandidateMeans

\* Nothing is scanned at first.
LEMMA ScannedInit == Init => ScannedInv
<1> SUFFICES ASSUME Init PROVE ScannedInv
  OBVIOUS
<1>1. code = <<>> /\ env = [v \in Var |-> None] /\ candidates = <<>>
  BY DEF Init, DetectInit
<1>2. GoodBlock(code)
  BY <1>1 DEF GoodBlock
<1>3. candidates \in Seq(Candidate) /\ Len(candidates) = 0
  BY <1>1
<1>4. EnvMeans(env, code)
  BY <1>1 DEF EnvMeans
<1> QED BY <1>2, <1>3, <1>4 DEF ScannedInv

\* One turn of the detector's loop keeps it so.
LEMMA ScanMeans ==
    ASSUME EnvInv, ScannedInv, stage = "detect", stage' = "detect",
           NEW ins \in Instruction, WellSized(ins), Scan(ins)
    PROVE  ScannedInv'
<1> DEFINE tree == Definition(ins)
           c == [ea |-> ins.ea, tree |-> tree, bits |-> Size[ins.d]]
           found == tree # Raised /\ Classified(ins, tree)
<1>1. /\ env \in Environment /\ GoodBlock(code) /\ candidates \in Seq(Candidate)
      /\ ReadsStayCurrent(code) =>
            /\ EnvMeans(env, code)
            /\ \A k \in 1..Len(candidates) : CandidateMeans(code, candidates[k])
  BY DEF EnvInv, ScannedInv
<1>2. /\ code' = Append(code, ins)
      /\ env' = IF ins.d = None THEN env
                ELSE [env EXCEPT ![ins.d] = IF tree = Raised THEN None ELSE tree]
      /\ candidates' = IF found THEN Append(candidates, c) ELSE candidates
  BY DEF Scan, Bind
<1>3. tree = IF Supported(ins) THEN Inline(TreeOf(ins), env, 0) ELSE Raised
  BY DEF Definition
<1>4. found => c \in Candidate
  <2>1. TreesOver(Var, MaxDepth) \subseteq VarTree
    BY TreesGrow, DetectAssumption DEF VarTree
  <2>2. tree # Raised => tree \in VarTree
    BY <1>1, <2>1, DefinitionTyped
  <2>3. ins.ea \in Nat /\ (ins.d # None => Size[ins.d] \in 1..Width)
    BY InstructionParts, DetectAssumption
  <2>4. found => tree # Raised /\ ins.d # None
    BY DEF Classified
  <2> HIDE DEF tree, found
  <2> QED BY <2>2, <2>3, <2>4 DEF Candidate
<1>5. found => ins.d # None /\ \A l \in LeafSet(tree) : Size[l] = Size[ins.d]
  BY DEF Classified
<1>6. c.ea = ins.ea /\ c.tree = tree /\ c.bits = Size[ins.d]
  OBVIOUS
<1> HIDE DEF tree, c
<1>7. GoodBlock(code')
  BY <1>1, <1>2, AppendBlock
<1>8. candidates' \in Seq(Candidate)
  BY <1>1, <1>2, <1>4
<1>9. ASSUME ReadsStayCurrent(code')
      PROVE  /\ EnvMeans(env', code')
             /\ \A k \in 1..Len(candidates') : CandidateMeans(code', candidates'[k])
  <2>1. ReadsStayCurrent(code)
    BY <1>1, <1>2, <1>9, AppendBlock
  <2>2. /\ EnvMeans(env, code)
        /\ \A k \in 1..Len(candidates) : CandidateMeans(code, candidates[k])
    BY <1>1, <2>1
  <2>3. EnvMeans(env', code')
    BY <1>1, <1>2, <1>3, <1>9, <2>2, BindMeans
  <2>4. \A k \in 1..Len(candidates) : CandidateMeans(code', candidates[k])
    BY <1>1, <1>2, <2>2, CandidateStays
  <2>5. CASE ~ found
    BY <1>2, <2>3, <2>4, <2>5
  <2>6. CASE found
    <3>1. Supported(ins) /\ c.tree = Inline(TreeOf(ins), env, 0) /\ c.tree # Raised
      BY <1>3, <1>6, <2>6
    <3>2. CandidateMeans(code', c)
      BY <1>1, <1>2, <1>5, <1>6, <2>2, <2>6, <3>1, DefinitionIsCandidate
    <3>3. candidates' = Append(candidates, c) /\ c \in Candidate
      BY <1>2, <1>4, <2>6
    <3>4. \A k \in 1..Len(candidates') :
              \/ k \in 1..Len(candidates) /\ candidates'[k] = candidates[k]
              \/ candidates'[k] = c
      BY <1>1, <3>3
    <3> QED BY <2>3, <2>4, <3>2, <3>4
  <2> QED BY <2>5, <2>6
<1> QED BY <1>7, <1>8, <1>9 DEF ScannedInv

\* No step makes a binding or a candidate mean something else.
LEMMA ScannedStep ==
    ASSUME SizedCode
    PROVE  EnvInv /\ ScannedInv /\ [Next]_vars => ScannedInv'
<1> SUFFICES ASSUME EnvInv, ScannedInv, [Next]_vars PROVE ScannedInv'
  OBVIOUS
<1>1. CASE Detect
  <2>1. PICK c \in Code, ea \in Addresses : Scan([c EXCEPT !.ea = ea])
    BY <1>1 DEF Detect
  <2>2. stage = "detect" /\ stage' = "detect"
    BY <1>1 DEF Detect
  <2>3. ea \in Nat
    <3>1. CASE code = <<>>
      BY <2>1, <3>1 DEF Addresses
    <3>2. CASE code # <<>>
      <4>1. code \in Seq(Instruction)
        BY <2>2 DEF EnvInv
      <4>2. code[Len(code)] \in Instruction
        BY <3>2, <4>1
      <4>3. code[Len(code)].ea \in Nat
        BY <4>2, InstructionParts
      <4> QED BY <2>1, <3>2, <4>3 DEF Addresses
    <3> QED BY <3>1, <3>2
  <2>4. c \in Instruction /\ WellSized(c)
    BY CodeAssumption DEF SizedCode
  <2>5. [c EXCEPT !.ea = ea] \in Instruction /\ WellSized([c EXCEPT !.ea = ea])
    BY <2>3, <2>4, SizedAnywhere
  <2> QED BY <2>1, <2>2, <2>5, ScanMeans
<1>2. CASE EndOfBlock
  BY <1>2 DEF EndOfBlock, ScannedInv
<1>3. CASE Install
  BY <1>3 DEF Install, ScannedInv
<1>4. CASE Skip
  BY <1>4 DEF Skip, detectVars, ScannedInv
<1>5. CASE UNCHANGED vars
  BY <1>5 DEF vars, detectVars, ScannedInv
<1> QED BY <1>1, <1>2, <1>3, <1>4, <1>5 DEF Next

\* Where bindings and candidates mean what they should, the last candidate means
\* the last instruction if it stands at its address.
LEMMA ScannedReassembles == ScannedInv => ReassembledWhenCurrent
<1> SUFFICES ASSUME ScannedInv, ReadsStayCurrent(code), stage = "detect",
                    candidates # <<>>, DistinctEa(code),
                    candidates[Len(candidates)].ea = code[Len(code)].ea
             PROVE  MeansItsInstruction(code, candidates[Len(candidates)], Len(code))
  BY DEF ReassembledWhenCurrent, Reassembled
<1>1. /\ code \in Seq(Instruction) /\ candidates \in Seq(Candidate)
      /\ \A k \in 1..Len(candidates) : CandidateMeans(code, candidates[k])
  BY DEF ScannedInv, GoodBlock
<1>2. Len(candidates) \in 1..Len(candidates)
  BY <1>1
<1>3. PICK n \in 1..Len(code) :
          /\ code[n].ea = candidates[Len(candidates)].ea
          /\ MeansItsInstruction(code, candidates[Len(candidates)], n)
  BY <1>1, <1>2 DEF CandidateMeans
<1>4. Len(code) \in 1..Len(code)
  BY <1>1, <1>3
<1>5. n = Len(code)
  BY <1>3, <1>4 DEF DistinctEa
<1> QED BY <1>3, <1>5

\* Over code whose operands have the size of their destination, and in blocks that
\* do not overwrite what they read, a candidate means its instruction.
THEOREM SpecReassembled ==
    ASSUME SizedCode
    PROVE  Spec => []ReassembledWhenCurrent
<1>1. Init => EnvInv /\ ScannedInv
  BY EnvInit, ScannedInit
<1>2. EnvInv /\ ScannedInv /\ [Next]_vars => (EnvInv /\ ScannedInv)'
  BY EnvStep, ScannedStep
<1>3. ScannedInv => ReassembledWhenCurrent
  BY ScannedReassembles
<1> QED BY <1>1, <1>2, <1>3, PTL DEF Spec

-----------------------------------------------------------------------------
(* Rebuilding an instruction from a rewrite.                               *)

RebuiltRec == INSTANCE Recursion
    WITH Domain <- TreeDomain, Rank <- TreeHeight, Step <- RebuiltNode

\* A tree as an operand: a number wrapped, a leaf, or an instruction nested.
Operand(c, s) == CASE s.kind = "const" -> Const(s.value % Pow2[c.bits])
                   [] s.kind = "var"   -> s
                   [] OTHER            -> Nested(Rebuilt(c, s, None))

\* An operator becomes one instruction on the operands' operands.
LEMMA RebuiltEquation ==
    ASSUME NEW c, NEW d
    PROVE  /\ \A op, a : Un(op, a) \in Tree =>
                 Rebuilt(c, Un(op, a), d) =
                     [op |-> Opcode(UnOp, op), l |-> Operand(c, a),
                      r |-> [kind |-> "none"], d |-> d, ea |-> c.ea]
           /\ \A op, a, b : Bin(op, a, b) \in Tree =>
                 Rebuilt(c, Bin(op, a, b), d) =
                     [op |-> Opcode(BinOp, op), l |-> Operand(c, a),
                      r |-> Operand(c, b), d |-> d, ea |-> c.ea]
<1>1. RebuiltRec!Ranked(c)
  BY HeightDescends DEF RebuiltRec!Ranked, TreeDomain, TreeHeight
<1>2. RebuiltRec!Descends(c)
  <2>1. SUFFICES ASSUME NEW g, NEW h, NEW t \in Tree,
                        \A u \in Tree : Height(u) < Height(t) => g[u] = h[u]
                 PROVE  RebuiltNode(c, g, t) = RebuiltNode(c, h, t)
    BY DEF RebuiltRec!Descends, TreeDomain, TreeHeight
  <2>2. /\ t.kind \in {"un", "bin"} => g[t.a] = h[t.a]
        /\ t.kind = "bin" => g[t.b] = h[t.b]
    BY <2>1, HeightDescends
  <2>3. CASE t.kind = "un"
    BY <2>2, <2>3 DEF RebuiltNode
  <2>4. CASE t.kind = "bin"
    BY <2>2, <2>4 DEF RebuiltNode
  <2>5. CASE t.kind \notin {"un", "bin"}
    BY <2>5 DEF RebuiltNode
  <2> QED BY <2>3, <2>4, <2>5
<1> DEFINE built == RebuiltRec!Fix(c)
<1>3. \A t, dest : Rebuilt(c, t, dest) = [built[t] EXCEPT !.d = dest]
  BY DEF Rebuilt, RebuiltRec!Fix, TreeDomain
<1>4. \A t \in Tree : built[t] = RebuiltNode(c, built, t)
  BY <1>1, <1>2, RebuiltRec!RecursiveEquation DEF TreeDomain
<1> HIDE DEF built
<1>5. \A s \in Tree : s.kind \in {"un", "bin"} => Rebuilt(c, s, None) = built[s]
  <2> SUFFICES ASSUME NEW s \in Tree, s.kind \in {"un", "bin"}
               PROVE  [built[s] EXCEPT !.d = None] = built[s]
    BY <1>3
  <2>1. \E o, l, r : built[s] = [op |-> o, l |-> l, r |-> r, d |-> None, ea |-> c.ea]
    <3>1. built[s] = RebuiltNode(c, built, s)
      BY <1>4
    <3>2. CASE s.kind = "un"
      BY <3>1, <3>2, Zenon DEF RebuiltNode
    <3>3. CASE s.kind = "bin"
      BY <3>1, <3>3, ZenonT(60) DEF RebuiltNode
    <3> QED BY <3>2, <3>3
  <2>2. PICK o, l, r : built[s] = [op |-> o, l |-> l, r |-> r, d |-> None, ea |-> c.ea]
    BY <2>1
  <2> QED BY <2>2
<1>6. \A s \in Tree :
          Operand(c, s) = CASE s.kind = "const" -> Const(s.value % Pow2[c.bits])
                            [] s.kind = "var"   -> s
                            [] OTHER            -> Nested(built[s])
  <2> SUFFICES ASSUME NEW s \in Tree
               PROVE  Operand(c, s) =
                          CASE s.kind = "const" -> Const(s.value % Pow2[c.bits])
                            [] s.kind = "var"   -> s
                            [] OTHER            -> Nested(built[s])
    OBVIOUS
  <2>1. s.kind \in {"const", "var", "un", "bin"}
    BY TreeKinds
  <2> QED BY <1>5, <2>1 DEF Operand
<1>7. ASSUME NEW op, NEW a, Un(op, a) \in Tree
      PROVE  built[Un(op, a)] = [op |-> Opcode(UnOp, op), l |-> Operand(c, a),
                                 r |-> [kind |-> "none"], d |-> None, ea |-> c.ea]
  <2>1. a \in Tree
    BY <1>7, OperandsAreTrees
  <2>2. /\ Un(op, a).kind = "un" /\ Un(op, a).op = op /\ Un(op, a).a = a
    BY DEF Un
  <2>3. built[Un(op, a)] = RebuiltNode(c, built, Un(op, a))
    BY <1>4, <1>7
  <2>4. Operand(c, a) = CASE a.kind = "const" -> Const(a.value % Pow2[c.bits])
                          [] a.kind = "var"   -> a
                          [] OTHER            -> Nested(built[a])
    BY <1>6, <2>1
  <2> QED BY <2>2, <2>3, <2>4 DEF RebuiltNode
<1>8. ASSUME NEW op, NEW a, NEW b, Bin(op, a, b) \in Tree
      PROVE  built[Bin(op, a, b)] = [op |-> Opcode(BinOp, op), l |-> Operand(c, a),
                                     r |-> Operand(c, b), d |-> None, ea |-> c.ea]
  <2>1. a \in Tree /\ b \in Tree
    BY <1>8, OperandsAreTrees
  <2>2. /\ Bin(op, a, b).kind = "bin" /\ Bin(op, a, b).op = op
        /\ Bin(op, a, b).a = a /\ Bin(op, a, b).b = b
    BY DEF Bin
  <2>3. built[Bin(op, a, b)] = RebuiltNode(c, built, Bin(op, a, b))
    BY <1>4, <1>8
  <2>4. /\ Operand(c, a) = CASE a.kind = "const" -> Const(a.value % Pow2[c.bits])
                             [] a.kind = "var"   -> a
                             [] OTHER            -> Nested(built[a])
        /\ Operand(c, b) = CASE b.kind = "const" -> Const(b.value % Pow2[c.bits])
                             [] b.kind = "var"   -> b
                             [] OTHER            -> Nested(built[b])
    BY <1>6, <2>1
  <2> QED BY <2>2, <2>3, <2>4 DEF RebuiltNode
<1>9. ASSUME NEW op, NEW a, Un(op, a) \in Tree
      PROVE  Rebuilt(c, Un(op, a), d) =
                 [op |-> Opcode(UnOp, op), l |-> Operand(c, a),
                  r |-> [kind |-> "none"], d |-> d, ea |-> c.ea]
  <2>1. Rebuilt(c, Un(op, a), d) = [built[Un(op, a)] EXCEPT !.d = d]
    BY <1>3
  <2>2. built[Un(op, a)] = [op |-> Opcode(UnOp, op), l |-> Operand(c, a),
                            r |-> [kind |-> "none"], d |-> None, ea |-> c.ea]
    BY <1>7, <1>9
  <2> QED BY <2>1, <2>2
<1>10. ASSUME NEW op, NEW a, NEW b, Bin(op, a, b) \in Tree
       PROVE  Rebuilt(c, Bin(op, a, b), d) =
                  [op |-> Opcode(BinOp, op), l |-> Operand(c, a),
                   r |-> Operand(c, b), d |-> d, ea |-> c.ea]
  <2>1. Rebuilt(c, Bin(op, a, b), d) = [built[Bin(op, a, b)] EXCEPT !.d = d]
    BY <1>3
  <2>2. built[Bin(op, a, b)] = [op |-> Opcode(BinOp, op), l |-> Operand(c, a),
                                r |-> Operand(c, b), d |-> None, ea |-> c.ea]
    BY <1>8, <1>10
  <2> QED BY <2>1, <2>2
<1> QED BY <1>9, <1>10

\* The opcode of an operator.
LEMMA OpcodeFacts ==
    /\ \A op \in Prefix : /\ Opcode(UnOp, op) \in DOMAIN UnOp
                          /\ UnOp[Opcode(UnOp, op)] = op
    /\ \A op \in Infix : /\ Opcode(BinOp, op) \in DOMAIN BinOp
                         /\ BinOp[Opcode(BinOp, op)] = op
<1>1. \A op \in Prefix : \E o \in DOMAIN UnOp : UnOp[o] = op
  BY DEF Prefix, UnOp
<1>2. \A op \in Infix : \E o \in DOMAIN BinOp : BinOp[o] = op
  BY DEF Infix, BinOp
<1> QED BY <1>1, <1>2 DEF Opcode

\* A tree that is rebuilt is an instruction of its nesting, at the address of the
\* candidate, that computes what the tree does at the size of the candidate.
RebuiltRight(c, t, n) ==
    \A d \in Var \cup {None} :
        /\ Rebuilt(c, t, d) \in InstructionsTo(n)
        /\ Rebuilt(c, t, d).d = d /\ Rebuilt(c, t, d).ea = c.ea
        /\ \A m \in Memory :
              /\ ValueOf(Rebuilt(c, t, d), m) \in Int
              /\ Same(Pow2[c.bits], ValueOf(Rebuilt(c, t, d), m), Evaluate(t, m))

\* What an operand contributes is, at the size of the candidate, what the tree it
\* was made from contributes.
LEMMA OperandRight ==
    ASSUME NEW c \in Candidate, NEW n \in Nat, n < Depth,
           NEW a \in TreesOver(Var, n),
           a.kind \in {"un", "bin"} => RebuiltRight(c, a, n - 1)
    PROVE  /\ Operand(c, a) \in OperandsTo(n, InstructionsTo(n - 1))
           /\ \A m \in Memory : \A u :
                 /\ Operand(c, a).kind = "const" => u = Operand(c, a).value % Modulus
                 /\ Operand(c, a).kind = "var" => u = m[Operand(c, a).name]
                 /\ Operand(c, a).kind = "ins" => u = ValueOf(Operand(c, a).ins, m)
                 => /\ u \in Int /\ Evaluate(a, m) \in Int
                    /\ Same(Pow2[c.bits], u, Evaluate(a, m))
<1> DEFINE p == Pow2[c.bits]
           level == InstructionsTo(n - 1)
<1>1. /\ c.bits \in Nat /\ c.bits <= Width /\ p \in Nat \ {0} /\ Modulus \in Nat \ {0}
  BY Pow2Facts, ModulusType, WidthAssumption DEF Candidate
<1>2. \A x \in Int : x % Modulus \in Int /\ Same(p, x % Modulus, x)
  <2>1. Pow2[Width - c.bits] \in Nat \ {0} /\ Modulus = Pow2[Width - c.bits] * p
    BY <1>1, Pow2Divides, WidthAssumption DEF Modulus
  <2> DEFINE k == Pow2[Width - c.bits]
  <2>2. k \in Nat \ {0} /\ Modulus = k * p
    BY <2>1
  <2> HIDE DEF k, p
  <2>3. \A x \in Int : Same(p, x % Modulus, x)
    BY <1>1, <2>2, SameWrapped
  <2> QED BY <1>1, <2>3
<1>3. \A x \in Int : x % p \in Nat /\ Same(p, x % p, x)
  <2>1. 1 * p = p
    BY <1>1
  <2> HIDE DEF p
  <2>2. \A x \in Int : Same(p, x % (1 * p), x)
    BY <1>1, SameWrapped
  <2> QED BY <1>1, <2>1, <2>2
<1>4. a \in Tree /\ \A m \in Memory : Evaluate(a, m) \in Int
  <2>1. TreesOver(Var, n) \subseteq TreesOver(Var, Depth)
    BY TreesGrow, DepthAssumption
  <2> SUFFICES ASSUME NEW m \in Memory PROVE Evaluate(a, m) \in Int /\ a \in Tree
    <3>1. TreesOver(Var, n) \subseteq Tree
      BY TreesGrow, DepthAssumption DEF Tree, Label
    <3> QED BY <3>1
  <2>2. Var \in SUBSET Label /\ \A l \in Var : m[l] \in Int
    BY MemoryFacts DEF Label
  <2> QED BY <2>1, <2>2, TreeOverLabels
<1>5. CASE a.kind = "const"
  <2>1. a.value \in Int /\ a = Const(a.value)
    BY <1>5, TreeCases
  <2> DEFINE v == a.value % p
  <2>2. v \in Nat /\ Same(p, v, a.value) /\ v \in Int
    BY <1>3, <2>1
  <2>3. Operand(c, a) = [kind |-> "const", value |-> v]
    BY <1>5 DEF Operand, Const
  <2>4. ASSUME NEW m PROVE Evaluate(Const(a.value), m) = a.value % Modulus
    BY <2>1, EvaluateEquation
  <2> HIDE DEF v, p
  <2>5. Same(p, v % Modulus, v) /\ v % Modulus \in Int
    BY <1>2, <2>2
  <2>6. Same(p, a.value % Modulus, a.value) /\ a.value % Modulus \in Int
    BY <1>2, <2>1
  <2>7. Same(p, v % Modulus, a.value % Modulus)
    <3>1. Same(p, v % Modulus, a.value)
      BY <1>1, <2>1, <2>2, <2>5, SameArithmetic
    <3>2. Same(p, a.value, a.value % Modulus)
      BY <1>1, <2>1, <2>6, SameArithmetic
    <3> QED BY <1>1, <2>1, <2>5, <2>6, <3>1, <3>2, SameArithmetic
  <2>8. Operand(c, a) \in OperandsTo(n, level)
    BY <2>2, <2>3 DEF OperandsTo
  <2> QED BY <2>1, <2>3, <2>4, <2>5, <2>6, <2>7, <2>8 DEF p
<1>6. CASE a.kind = "var"
  <2>1. a.name \in Var /\ a = Leaf(a.name) /\ a.name \in Label
    BY <1>6, TreeCases DEF Label
  <2>2. Operand(c, a) = [kind |-> "var", name |-> a.name]
    BY <1>6, <2>1 DEF Operand, Leaf
  <2>3. ASSUME NEW m PROVE Evaluate(Leaf(a.name), m) = m[a.name]
    BY <2>1, EvaluateEquation
  <2>4. ASSUME NEW m \in Memory PROVE Same(p, m[a.name], Evaluate(a, m))
    <3>1. Evaluate(a, m) = m[a.name] /\ Evaluate(a, m) \in Int
      BY <1>4, <2>1, <2>3
    <3> HIDE DEF p
    <3>2. \A x \in Int : Same(p, x, x)
      BY <1>1, SameArithmetic
    <3> QED BY <3>1, <3>2
  <2>5. Operand(c, a) \in OperandsTo(n, level)
    BY <2>1, <2>2 DEF OperandsTo
  <2>6. \A m \in Memory : m[a.name] \in Int
    BY <1>4, <2>1, <2>3
  <2> HIDE DEF p
  <2> QED BY <1>4, <2>2, <2>4, <2>5, <2>6 DEF p
<1>7. CASE a.kind \in {"un", "bin"}
  <2>1. n # 0 /\ RebuiltRight(c, a, n - 1)
    BY <1>7, TreeCases
  <2> DEFINE i == Rebuilt(c, a, None)
  <2>2. /\ i \in level
        /\ \A m \in Memory : ValueOf(i, m) \in Int /\ Same(p, ValueOf(i, m), Evaluate(a, m))
    BY <2>1 DEF RebuiltRight
  <2>3. Operand(c, a) = [kind |-> "ins", ins |-> i]
    BY <1>7 DEF Operand, Nested
  <2> HIDE DEF i, p, level
  <2>4. Operand(c, a) \in OperandsTo(n, level)
    BY <2>1, <2>2, <2>3 DEF OperandsTo
  <2> QED BY <1>4, <2>2, <2>3, <2>4 DEF p, level
<1>8. a.kind \in {"const", "var", "un", "bin"}
  BY TreeCases
<1> QED BY <1>5, <1>6, <1>7, <1>8

\* A tree is rebuilt right when its operands are.
LEMMA RebuiltStep ==
    ASSUME NEW c \in Candidate, NEW n \in Nat, n < Depth,
           NEW t \in TreesOver(Var, n + 1), t.kind \in {"un", "bin"},
           \A a \in TreesOver(Var, n) :
               a.kind \in {"un", "bin"} => RebuiltRight(c, a, n - 1)
    PROVE  RebuiltRight(c, t, n)
<1> DEFINE p == Pow2[c.bits]
           level == OperandsTo(n, InstructionsTo(n - 1))
<1>1. c.bits \in Nat /\ c.bits <= Width /\ c.ea \in Nat
  BY WidthAssumption DEF Candidate
<1>2. /\ t \in Tree /\ InstructionsTo(n) \subseteq Instruction
      /\ InstructionsTo(n) = InstructionsOn(level)
  <2>1. TreesOver(Var, n + 1) \subseteq Tree
    BY TreesGrow, DepthAssumption DEF Tree, Label
  <2>2. InstructionsTo(n) \subseteq InstructionsTo(Depth - 1)
    <3>1. Depth - 1 \in Nat /\ n <= Depth - 1
      BY DetectAssumption
    <3> QED BY <3>1, InstructionsGrow
  <2> QED BY <2>1, <2>2, InstructionEquation DEF Instruction
<1>3. \/ t.kind = "un" /\ t.op \in Prefix /\ t = Un(t.op, t.a)
         /\ t.a \in TreesOver(Var, n)
      \/ t.kind = "bin" /\ t.op \in Infix /\ t = Bin(t.op, t.a, t.b)
         /\ t.a \in TreesOver(Var, n) /\ t.b \in TreesOver(Var, n)
  <2>1. n + 1 \in Nat /\ (n + 1) - 1 = n
    OBVIOUS
  <2> QED BY <2>1, TreeCases
<1> SUFFICES ASSUME NEW d \in Var \cup {None}
             PROVE  /\ Rebuilt(c, t, d) \in InstructionsTo(n)
                    /\ Rebuilt(c, t, d).d = d /\ Rebuilt(c, t, d).ea = c.ea
                    /\ \A m \in Memory :
                          /\ ValueOf(Rebuilt(c, t, d), m) \in Int
                          /\ Same(p, ValueOf(Rebuilt(c, t, d), m), Evaluate(t, m))
  BY DEF RebuiltRight
<1> DEFINE new == Rebuilt(c, t, d)
<1>4. [kind |-> "none"] \in level
  BY DEF OperandsTo
<1>5. ASSUME NEW a \in TreesOver(Var, n)
      PROVE  /\ Operand(c, a) \in level
             /\ \A m \in Memory : \A u :
                   /\ Operand(c, a).kind = "const" => u = Operand(c, a).value % Modulus
                   /\ Operand(c, a).kind = "var" => u = m[Operand(c, a).name]
                   /\ Operand(c, a).kind = "ins" => u = ValueOf(Operand(c, a).ins, m)
                   => /\ u \in Int /\ Evaluate(a, m) \in Int
                      /\ Same(p, u, Evaluate(a, m))
  BY OperandRight
<1> HIDE DEF level, p
<1>6. ASSUME NEW m, new \in Instruction
      PROVE  \E u, v :
                 /\ new.l.kind = "const" => u = new.l.value % Modulus
                 /\ new.l.kind = "var" => u = m[new.l.name]
                 /\ new.l.kind = "ins" => u = ValueOf(new.l.ins, m)
                 /\ new.r.kind = "const" => v = new.r.value % Modulus
                 /\ new.r.kind = "var" => v = m[new.r.name]
                 /\ new.r.kind = "ins" => v = ValueOf(new.r.ins, m)
                 /\ new.op \in DOMAIN UnOp => ValueOf(new, m) = ApplyUn(UnOp[new.op], u)
                 /\ new.op \in DOMAIN BinOp =>
                       ValueOf(new, m) = ApplyBin(BinOp[new.op], u, v)
  <2> HIDE DEF new
  <2> DEFINE N == new
  <2>1. N \in Instruction
    BY <1>6
  <2> HIDE DEF N
  <2>2. PICK u, v :
             /\ N.l.kind = "const" => u = N.l.value % Modulus
             /\ N.l.kind = "var" => u = m[N.l.name]
             /\ N.l.kind = "ins" => u = ValueOf(N.l.ins, m)
             /\ N.r.kind = "const" => v = N.r.value % Modulus
             /\ N.r.kind = "var" => v = m[N.r.name]
             /\ N.r.kind = "ins" => v = ValueOf(N.r.ins, m)
             /\ N.op = "ldx" => ValueOf(N, m) = m[Heap]
             /\ N.op \in {"mov", "xdu"} => ValueOf(N, m) = u
             /\ N.op = "shl" => ValueOf(N, m) = (u * Pow2[N.r.value]) % Modulus
             /\ N.op \in DOMAIN UnOp => ValueOf(N, m) = ApplyUn(UnOp[N.op], u)
             /\ N.op \in DOMAIN BinOp => ValueOf(N, m) = ApplyBin(BinOp[N.op], u, v)
    BY <2>1, ValueEquation
  <2> QED BY <2>2 DEF N
<1>7. CASE t.kind = "un"
  <2> DEFINE a == t.a
             op == t.op
  <2>1. op \in Prefix /\ t = Un(op, a) /\ a \in TreesOver(Var, n) /\ Un(op, a) \in Tree
    BY <1>2, <1>3, <1>7
  <2> HIDE DEF a, op
  <2>2. new = [op |-> Opcode(UnOp, op), l |-> Operand(c, a),
               r |-> [kind |-> "none"], d |-> d, ea |-> c.ea]
    <3>1. Rebuilt(c, Un(op, a), d) =
              [op |-> Opcode(UnOp, op), l |-> Operand(c, a),
               r |-> [kind |-> "none"], d |-> d, ea |-> c.ea]
      BY <2>1, RebuiltEquation
    <3> QED BY <2>1, <3>1
  <2>3. /\ Opcode(UnOp, op) \in DOMAIN UnOp /\ UnOp[Opcode(UnOp, op)] = op
        /\ Opcode(UnOp, op) \in Mnemonic
    BY <2>1, OpcodeFacts DEF Mnemonic
  <2>4. Operand(c, a) \in level
    BY <1>5, <2>1
  <2> HIDE DEF new
  <2>5. /\ new \in InstructionsTo(n) /\ new.d = d /\ new.ea = c.ea
        /\ new.op = Opcode(UnOp, op) /\ new.l = Operand(c, a)
    BY <1>1, <1>2, <1>4, <2>2, <2>3, <2>4 DEF InstructionsOn
  <2>6. ASSUME NEW m \in Memory
        PROVE  ValueOf(new, m) \in Int /\ Same(p, ValueOf(new, m), Evaluate(t, m))
    <3>1. PICK u, v :
               /\ new.l.kind = "const" => u = new.l.value % Modulus
               /\ new.l.kind = "var" => u = m[new.l.name]
               /\ new.l.kind = "ins" => u = ValueOf(new.l.ins, m)
               /\ new.op \in DOMAIN UnOp => ValueOf(new, m) = ApplyUn(UnOp[new.op], u)
      BY <1>2, <1>6, <2>5
    <3>2. ValueOf(new, m) = ApplyUn(op, u)
      BY <2>3, <2>5, <3>1
    <3>3. u \in Int /\ Evaluate(a, m) \in Int /\ Same(p, u, Evaluate(a, m))
      BY <1>5, <2>1, <2>5, <3>1
    <3>4. Evaluate(Un(op, a), m) = ApplyUn(op, Evaluate(a, m))
      BY <2>1, EvaluateEquation
    <3>5. Same(p, ApplyUn(op, u), ApplyUn(op, Evaluate(a, m)))
      BY <1>1, <2>1, <3>3, ApplySame DEF p
    <3>6. ApplyUn(op, u) \in Int
      BY <2>1, <3>3, ApplyTyped
    <3> QED BY <2>1, <3>2, <3>4, <3>5, <3>6
  <2> QED BY <2>5, <2>6 DEF new
<1>8. CASE t.kind = "bin"
  <2> DEFINE a == t.a
             b == t.b
             op == t.op
  <2>1. /\ op \in Infix /\ t = Bin(op, a, b) /\ Bin(op, a, b) \in Tree
        /\ a \in TreesOver(Var, n) /\ b \in TreesOver(Var, n)
    BY <1>2, <1>3, <1>8
  <2> HIDE DEF a, b, op
  <2>2. new = [op |-> Opcode(BinOp, op), l |-> Operand(c, a),
               r |-> Operand(c, b), d |-> d, ea |-> c.ea]
    <3>1. Rebuilt(c, Bin(op, a, b), d) =
              [op |-> Opcode(BinOp, op), l |-> Operand(c, a),
               r |-> Operand(c, b), d |-> d, ea |-> c.ea]
      BY <2>1, RebuiltEquation
    <3> QED BY <2>1, <3>1
  <2>3. /\ Opcode(BinOp, op) \in DOMAIN BinOp /\ BinOp[Opcode(BinOp, op)] = op
        /\ Opcode(BinOp, op) \in Mnemonic
    BY <2>1, OpcodeFacts DEF Mnemonic
  <2>4. Operand(c, a) \in level /\ Operand(c, b) \in level
    BY <1>5, <2>1
  <2> HIDE DEF new
  <2>5. /\ new \in InstructionsTo(n) /\ new.d = d /\ new.ea = c.ea
        /\ new.op = Opcode(BinOp, op) /\ new.l = Operand(c, a) /\ new.r = Operand(c, b)
    BY <1>1, <1>2, <2>2, <2>3, <2>4 DEF InstructionsOn
  <2>6. ASSUME NEW m \in Memory
        PROVE  ValueOf(new, m) \in Int /\ Same(p, ValueOf(new, m), Evaluate(t, m))
    <3>1. PICK u, v :
               /\ new.l.kind = "const" => u = new.l.value % Modulus
               /\ new.l.kind = "var" => u = m[new.l.name]
               /\ new.l.kind = "ins" => u = ValueOf(new.l.ins, m)
               /\ new.r.kind = "const" => v = new.r.value % Modulus
               /\ new.r.kind = "var" => v = m[new.r.name]
               /\ new.r.kind = "ins" => v = ValueOf(new.r.ins, m)
               /\ new.op \in DOMAIN BinOp =>
                     ValueOf(new, m) = ApplyBin(BinOp[new.op], u, v)
      BY <1>2, <1>6, <2>5
    <3>2. ValueOf(new, m) = ApplyBin(op, u, v)
      BY <2>3, <2>5, <3>1
    <3>3. u \in Int /\ Evaluate(a, m) \in Int /\ Same(p, u, Evaluate(a, m))
      BY <1>5, <2>1, <2>5, <3>1
    <3>4. v \in Int /\ Evaluate(b, m) \in Int /\ Same(p, v, Evaluate(b, m))
      BY <1>5, <2>1, <2>5, <3>1
    <3>5. Evaluate(Bin(op, a, b), m) = ApplyBin(op, Evaluate(a, m), Evaluate(b, m))
      <4>1. \A o, x, y : Bin(o, x, y) \in Tree =>
                Evaluate(Bin(o, x, y), m) = ApplyBin(o, Evaluate(x, m), Evaluate(y, m))
        BY EvaluateEquation
      <4>2. Bin(op, a, b) \in Tree
        BY <2>1
      <4> QED BY <4>1, <4>2
    <3>6. Same(p, ApplyBin(op, u, v), ApplyBin(op, Evaluate(a, m), Evaluate(b, m)))
      BY <1>1, <2>1, <3>3, <3>4, ApplySame DEF p
    <3>7. ApplyBin(op, u, v) \in Int
      BY <2>1, <3>3, <3>4, ApplyTyped
    <3> QED BY <2>1, <3>2, <3>5, <3>6, <3>7
  <2> QED BY <2>5, <2>6 DEF new
<1> QED BY <1>3, <1>7, <1>8

\* What is rebuilt from any rewrite but a leaf is an instruction, into the
\* destination, that computes the rewrite at the size of the candidate.
LEMMA RebuiltMeans ==
    ASSUME NEW c \in Candidate, NEW t \in VarTree, t.kind \notin {"const", "var"}
    PROVE  /\ RebuiltRight(c, t, Depth - 1)
           /\ InstructionsTo(Depth - 1) = Instruction
<1> DEFINE S == {n \in Nat : n < Depth =>
                     \A u \in TreesOver(Var, n + 1) :
                         u.kind \in {"un", "bin"} => RebuiltRight(c, u, n)}
<1>1. 0 \in S
  <2>1. \A a \in TreesOver(Var, 0) : a.kind \notin {"un", "bin"}
    BY TreeCases
  <2>2. ASSUME NEW u \in TreesOver(Var, 0 + 1), u.kind \in {"un", "bin"}, 0 < Depth
        PROVE  RebuiltRight(c, u, 0)
    BY <2>1, <2>2, RebuiltStep
  <2> QED BY <2>2
<1>2. ASSUME NEW n \in Nat, n \in S PROVE n + 1 \in S
  <2> SUFFICES ASSUME n + 1 < Depth, NEW u \in TreesOver(Var, (n + 1) + 1),
                      u.kind \in {"un", "bin"}
               PROVE  RebuiltRight(c, u, n + 1)
    OBVIOUS
  <2>1. n < Depth /\ n + 1 \in Nat /\ (n + 1) - 1 = n
    BY DepthAssumption
  <2>2. \A a \in TreesOver(Var, n + 1) :
            a.kind \in {"un", "bin"} => RebuiltRight(c, a, (n + 1) - 1)
    BY <1>2, <2>1
  <2> DEFINE k == n + 1
  <2>3. /\ k \in Nat /\ k < Depth /\ u \in TreesOver(Var, k + 1)
        /\ \A a \in TreesOver(Var, k) :
              a.kind \in {"un", "bin"} => RebuiltRight(c, a, k - 1)
    BY <2>1, <2>2
  <2> HIDE DEF k
  <2>4. RebuiltRight(c, u, k)
    BY <2>3, RebuiltStep
  <2> QED BY <2>4 DEF k
<1> HIDE DEF S
<1>3. Nat \subseteq S
  BY <1>1, <1>2, InlineRec!NatSetInduction
<1>4. Depth - 1 \in Nat /\ Depth - 1 < Depth /\ (Depth - 1) + 1 = Depth
  BY DetectAssumption
<1>5. t.kind \in {"un", "bin"}
  BY VarTrees, TreeKinds
<1>6. Depth - 1 \in S
  BY <1>3, <1>4
<1>7. RebuiltRight(c, t, Depth - 1)
  BY <1>4, <1>5, <1>6 DEF S, VarTree
<1> QED BY <1>7 DEF Instruction

\* A rewrite proved at the size of the leaves has, at that size, the value of the
\* tree in any memory.
LEMMA ProvedValue ==
    ASSUME NEW t \in VarTree, NEW rewrite \in Rewrites(LeafSet(t)),
           NEW bits, Proved(t, rewrite, bits), \A l \in LeafSet(t) : Size[l] = bits,
           NEW m \in Memory
    PROVE  Evaluate(rewrite, m) % Pow2[bits] = Evaluate(t, m) % Pow2[bits]
<1> DEFINE values == [l \in LeafSet(t) |-> m[l]]
<1>1. LeafSet(t) \in SUBSET Var /\ t \in Tree
  BY VarTrees
<1>2. rewrite \in Tree /\ LeafSet(rewrite) \subseteq LeafSet(t)
  BY <1>1, RewritesTyped
<1>3. values \in [LeafSet(t) -> 0 .. Pow2[bits] - 1]
  <2>1. ASSUME NEW l \in LeafSet(t) PROVE m[l] \in 0 .. Pow2[bits] - 1
    <3>1. l \in Var \cup {Heap} /\ Size[l] = bits
      BY <1>1
    <3>2. m[l] \in Nat /\ m[l] < Pow2[bits] /\ Pow2[bits] \in Nat
      BY <3>1, MemoryFacts
    <3> QED BY <3>2
  <2> QED BY <2>1
<1>4. \A l \in LeafSet(t) : values[l] = m[l]
  OBVIOUS
<1> HIDE DEF values
<1>5. Evaluate(t, values) % Pow2[bits] = Evaluate(rewrite, values) % Pow2[bits]
  BY <1>3 DEF Proved, EquivalentOver
<1>6. Evaluate(t, values) = Evaluate(t, m)
  BY <1>1, <1>4, ValueOfLeaves
<1>7. Evaluate(rewrite, values) = Evaluate(rewrite, m)
  BY <1>2, <1>4, ValueOfLeaves
<1> QED BY <1>5, <1>6, <1>7

-----------------------------------------------------------------------------
(* What is installed.                                                      *)

\* Instruction k of block stands where that of other does, assigns what it does,
\* and computes the same from the memory other gives it, as far as it is kept.
Replaces(block, other, k) ==
    /\ block[k].ea = other[k].ea /\ block[k].d = other[k].d
    /\ block[k].d # None =>
          LET kept == Pow2[Size[block[k].d]] IN
          \A m \in Memory :
              LET before == After(other, k - 1, m)
              IN  ValueOf(block[k], before) % kept = ValueOf(other[k], before) % kept

\* While the block is rewritten, the candidates left mean what they meant when it
\* was detected, and each instruction does what the one that stood there did.
RewrittenInv ==
    stage = "rewrite" /\ DistinctEa(original) /\ ReadsStayCurrent(original) =>
        /\ GoodBlock(original)
        /\ todo \in Seq(Candidate)
        /\ \A k \in 1..Len(todo) : CandidateMeans(original, todo[k])
        /\ code \in Seq(Instruction) /\ Len(code) = Len(original)
        /\ \A k \in 1..Len(code) : Replaces(code, original, k)

\* The instruction found for a candidate is the one it means.
LEMMA TargetMeans ==
    ASSUME DistinctEa(original), code \in Seq(Instruction), Len(code) = Len(original),
           \A k \in 1..Len(code) : code[k].ea = original[k].ea,
           NEW n \in 1..Len(original), NEW ea, original[n].ea = ea
    PROVE  Target(ea) = n
<1> DEFINE P(k) == code[k].ea = ea /\ \A i \in 1..(k - 1) : code[i].ea # ea
<1>1. n \in 1..Len(code) /\ P(n)
  <2>1. n \in 1..Len(code) /\ code[n].ea = ea
    OBVIOUS
  <2>2. ASSUME NEW i \in 1..(n - 1) PROVE code[i].ea # ea
    <3>1. i \in 1..Len(original) /\ i # n
      OBVIOUS
    <3> QED BY <3>1 DEF DistinctEa
  <2> QED BY <2>1, <2>2
<1>2. ASSUME NEW k \in 1..Len(code), P(k) PROVE k = n
  BY <1>2 DEF DistinctEa
<1>3. Target(ea) = CHOOSE k \in 1..Len(code) : P(k)
  BY DEF Target
<1> HIDE DEF P
<1> QED BY <1>1, <1>2, <1>3

\* A proved rewrite that is installed does what the instruction there did.
LEMMA InstallMeans ==
    ASSUME RequireProof = TRUE, RewrittenInv, Install,
           DistinctEa(original), ReadsStayCurrent(original)
    PROVE  /\ code' \in Seq(Instruction) /\ Len(code') = Len(original)
           /\ \A k \in 1..Len(code') : Replaces(code', original, k)
<1> DEFINE c == Head(todo)
           n == Target(c.ea)
<1>1. /\ GoodBlock(original) /\ original \in Seq(Instruction)
      /\ todo \in Seq(Candidate) /\ todo # <<>>
      /\ \A k \in 1..Len(todo) : CandidateMeans(original, todo[k])
      /\ code \in Seq(Instruction) /\ Len(code) = Len(original)
      /\ \A k \in 1..Len(code) : Replaces(code, original, k)
  BY DEF Install, RewrittenInv, GoodBlock
<1>2. PICK rewrite \in Rewrites(LeafSet(c.tree)) :
          /\ RequireProof => Proved(c.tree, rewrite, c.bits)
          /\ rewrite.kind \notin {"const", "var"}
          /\ code' = [code EXCEPT ![n] = Rebuilt(c, rewrite, code[n].d)]
  BY DEF Install
<1>3. c \in Candidate /\ CandidateMeans(original, c)
  <2>1. 1 \in 1..Len(todo) /\ Head(todo) = todo[1] /\ todo[1] \in Candidate
    BY <1>1
  <2> QED BY <1>1, <2>1
<1>4. c.tree \in VarTree /\ c.ea \in Nat
  BY <1>3 DEF Candidate
<1> HIDE DEF c
<1>5. PICK k \in 1..Len(original) :
          /\ original[k].d # None /\ original[k].ea = c.ea
          /\ c.bits = Size[original[k].d]
          /\ \A l \in LeafSet(c.tree) : Size[l] = c.bits
          /\ MeansItsInstruction(original, c, k)
  BY <1>3 DEF CandidateMeans
<1>6. n = k
  <2>1. \A j \in 1..Len(code) : code[j].ea = original[j].ea
    BY <1>1 DEF Replaces
  <2> QED BY <1>1, <1>5, <2>1, TargetMeans
<1> HIDE DEF n
<1> DEFINE d == original[k].d
           new == Rebuilt(c, rewrite, d)
<1>7. /\ k \in 1..Len(code) /\ code[k].d = d /\ code[k].ea = c.ea
      /\ d \in Var \cup {None} /\ d # None
  <2>1. k \in 1..Len(code) /\ Replaces(code, original, k)
    BY <1>1
  <2>2. original[k] \in Instruction
    BY <1>1
  <2>3. original[k].d \in Var \cup {None}
    BY <2>2, InstructionParts
  <2> QED BY <1>5, <2>1, <2>3 DEF Replaces
<1>8. code' = [code EXCEPT ![k] = new]
  BY <1>2, <1>6, <1>7
<1>9. /\ new \in Instruction /\ new.d = d /\ new.ea = c.ea
      /\ \A m \in Memory :
            ValueOf(new, m) % Pow2[c.bits] = Evaluate(rewrite, m) % Pow2[c.bits]
  <2>1. LeafSet(c.tree) \in SUBSET Var
    BY <1>4, VarTrees
  <2>2. rewrite \in VarTree
    BY <1>2, <2>1, RewritesTyped DEF VarTree
  <2>3. RebuiltRight(c, rewrite, Depth - 1) /\ InstructionsTo(Depth - 1) = Instruction
    BY <1>2, <1>3, <2>2, RebuiltMeans
  <2>0. d \in Var \cup {None}
    BY <1>7
  <2> HIDE DEF d
  <2>4. /\ new \in Instruction /\ new.d = d /\ new.ea = c.ea
        /\ \A m \in Memory :
              /\ ValueOf(new, m) \in Int
              /\ Same(Pow2[c.bits], ValueOf(new, m), Evaluate(rewrite, m))
    <3>1. \A x \in Var \cup {None} :
              /\ Rebuilt(c, rewrite, x) \in InstructionsTo(Depth - 1)
              /\ Rebuilt(c, rewrite, x).d = x /\ Rebuilt(c, rewrite, x).ea = c.ea
              /\ \A m \in Memory :
                    /\ ValueOf(Rebuilt(c, rewrite, x), m) \in Int
                    /\ Same(Pow2[c.bits], ValueOf(Rebuilt(c, rewrite, x), m),
                            Evaluate(rewrite, m))
      BY <2>3 DEF RebuiltRight
    <3> QED BY <2>0, <2>3, <3>1
  <2>5. Pow2[c.bits] \in Nat \ {0}
    <3>1. \A b \in Nat : Pow2[b] \in Nat \ {0}
      BY Pow2Facts
    <3>2. c.bits \in 1..Width
      BY <1>3 DEF Candidate
    <3>3. c.bits \in Nat
      BY <3>2, WidthAssumption
    <3> QED BY <3>1, <3>3
  <2> HIDE DEF new
  <2>6. ASSUME NEW m \in Memory PROVE Evaluate(rewrite, m) \in Int
    BY <2>2, TreeValue
  <2> QED BY <2>4, <2>5, <2>6, SameIsMod
<1> HIDE DEF new, d
<1>10. /\ code' \in Seq(Instruction) /\ Len(code') = Len(original)
       /\ code'[k] = new
       /\ \A j \in 1..Len(code') : j # k => code'[j] = code[j]
  BY <1>1, <1>7, <1>8, <1>9
<1>11. ASSUME NEW j \in 1..Len(code'), j # k PROVE Replaces(code', original, j)
  <2>1. code'[j] = code[j] /\ Replaces(code, original, j)
    BY <1>1, <1>10, <1>11
  <2> QED BY <2>1 DEF Replaces
<1>12. Replaces(code', original, k)
  <2>1. ASSUME NEW m \in Memory
        PROVE  LET before == After(original, k - 1, m)
               IN  ValueOf(new, before) % Pow2[Size[d]]
                       = ValueOf(original[k], before) % Pow2[Size[d]]
    <3> DEFINE before == After(original, k - 1, m)
    <3>1. k - 1 \in Nat /\ k - 1 <= Len(original)
      BY <1>1
    <3>2. before \in Memory
      BY <1>1, <3>1, AfterMemory
    <3>3. Evaluate(c.tree, before) % Pow2[Size[d]]
              = ValueOf(original[k], before) % Pow2[Size[d]]
      BY <1>5 DEF MeansItsInstruction, d
    <3> HIDE DEF before
    <3>4. Evaluate(rewrite, before) % Pow2[c.bits] = Evaluate(c.tree, before) % Pow2[c.bits]
      BY <1>2, <1>4, <1>5, <3>2, ProvedValue
    <3>5. c.bits = Size[d]
      BY <1>5 DEF d
    <3> QED BY <1>9, <3>2, <3>3, <3>4, <3>5 DEF before
  <2>2. code'[k].ea = original[k].ea /\ code'[k].d = original[k].d
    BY <1>5, <1>9, <1>10 DEF d
  <2> QED BY <1>9, <1>10, <2>1, <2>2 DEF Replaces
<1> QED BY <1>10, <1>11, <1>12

\* No step changes what an instruction does, when rewrites are proved.
LEMMA RewrittenStep ==
    ASSUME RequireProof = TRUE
    PROVE  EnvInv /\ ScannedInv /\ RewrittenInv /\ [Next]_vars => RewrittenInv'
<1> SUFFICES ASSUME EnvInv, ScannedInv, RewrittenInv, [Next]_vars,
                    stage' = "rewrite", DistinctEa(original'),
                    ReadsStayCurrent(original')
             PROVE  /\ GoodBlock(original')
                    /\ todo' \in Seq(Candidate)
                    /\ \A k \in 1..Len(todo') : CandidateMeans(original', todo'[k])
                    /\ code' \in Seq(Instruction) /\ Len(code') = Len(original')
                    /\ \A k \in 1..Len(code') : Replaces(code', original', k)
  BY DEF RewrittenInv
<1>1. CASE Detect
  BY <1>1 DEF Detect
<1>2. CASE EndOfBlock
  <2>1. /\ stage = "detect" /\ todo' = candidates
        /\ original' = code /\ code' = code
    BY <1>2 DEF EndOfBlock, detectVars
  <2>2. /\ GoodBlock(code) /\ candidates \in Seq(Candidate)
        /\ \A k \in 1..Len(candidates) : CandidateMeans(code, candidates[k])
    BY <2>1 DEF ScannedInv
  <2>3. \A k : Replaces(code, code, k)
    BY DEF Replaces
  <2> QED BY <2>1, <2>2, <2>3 DEF GoodBlock
<1>3. ASSUME stage = "rewrite", todo # <<>>, todo' = Tail(todo), original' = original
      PROVE  /\ GoodBlock(original')
             /\ todo' \in Seq(Candidate)
             /\ \A k \in 1..Len(todo') : CandidateMeans(original', todo'[k])
  <2>1. /\ GoodBlock(original) /\ todo \in Seq(Candidate)
        /\ \A k \in 1..Len(todo) : CandidateMeans(original, todo[k])
    BY <1>3 DEF RewrittenInv
  <2>2. /\ Tail(todo) \in Seq(Candidate)
        /\ \A k \in 1..Len(Tail(todo)) :
              k + 1 \in 1..Len(todo) /\ Tail(todo)[k] = todo[k + 1]
    BY <1>3, <2>1
  <2> QED BY <1>3, <2>1, <2>2
<1>4. CASE Install
  <2>1. stage = "rewrite" /\ todo # <<>> /\ todo' = Tail(todo) /\ original' = original
    BY <1>4 DEF Install
  <2>2. /\ code' \in Seq(Instruction) /\ Len(code') = Len(original)
        /\ \A k \in 1..Len(code') : Replaces(code', original, k)
    BY <1>4, <2>1, InstallMeans
  <2> QED BY <1>3, <2>1, <2>2
<1>5. CASE Skip
  <2>1. /\ stage = "rewrite" /\ todo # <<>> /\ todo' = Tail(todo)
        /\ original' = original /\ code' = code
    BY <1>5 DEF Skip, detectVars
  <2> QED BY <1>3, <2>1 DEF RewrittenInv
<1>6. CASE UNCHANGED vars
  BY <1>6 DEF vars, detectVars, RewrittenInv
<1> QED BY <1>1, <1>2, <1>4, <1>5, <1>6 DEF Next

\* A block whose instructions each do what those that stood there did has the
\* effect of the block there was.
LEMMA ReplacedSameEffect ==
    ASSUME NEW block, NEW other, Len(block) \in Nat, Len(block) = Len(other),
           GoodBlock(other), \A k \in 1..Len(block) : Replaces(block, other, k)
    PROVE  SameEffect(block, other)
<1> SUFFICES ASSUME NEW m \in Memory
             PROVE  After(block, Len(block), m) = After(other, Len(other), m)
  BY DEF SameEffect
<1> DEFINE S == {n \in Nat : n <= Len(block) => After(block, n, m) = After(other, n, m)}
<1>1. 0 \in S
  BY AfterEquation
<1>2. ASSUME NEW n \in Nat, n \in S, n + 1 <= Len(block)
      PROVE  After(block, n + 1, m) = After(other, n + 1, m)
  <2> DEFINE k == n + 1
             M == After(other, n, m)
  <2>1. k \in 1..Len(block) /\ k - 1 = n /\ n <= Len(block)
    BY <1>2
  <2>0. After(block, n + 1, m) = Executed(block[n + 1], After(block, n, m))
    BY AfterEquation
  <2>2. After(block, k, m) = Executed(block[k], M)
    BY <1>2, <2>0, <2>1
  <2>3. After(other, n + 1, m) = Executed(other[n + 1], After(other, n, m))
    BY AfterEquation
  <2>4. Replaces(block, other, k)
    BY <2>1
  <2> HIDE DEF k
  <2>5. /\ block[k].d = other[k].d
        /\ block[k].d # None =>
              ValueOf(block[k], M) % Pow2[Size[block[k].d]]
                  = ValueOf(other[k], M) % Pow2[Size[block[k].d]]
    BY <2>1, <2>4 DEF Replaces
  <2> HIDE DEF M
  <2>6. Executed(block[k], M) = Executed(other[k], M)
    BY <2>5 DEF Executed
  <2> QED BY <2>2, <2>3, <2>6 DEF k, M
<1>3. ASSUME NEW n \in Nat, n \in S PROVE n + 1 \in S
  BY <1>2, <1>3
<1> HIDE DEF S
<1>4. Nat \subseteq S
  BY <1>1, <1>3, InlineRec!NatSetInduction
<1>5. Len(block) \in S /\ Len(block) <= Len(block)
  BY <1>4
<1> QED BY <1>5 DEF S

\* So the block has the effect it had.
LEMMA RewrittenPreserves == RewrittenInv => BlockPreserved
<1> SUFFICES ASSUME RewrittenInv, stage = "rewrite", DistinctEa(original),
                    ReadsStayCurrent(original)
             PROVE  SameEffect(code, original)
  BY DEF BlockPreserved
<1>1. /\ GoodBlock(original) /\ code \in Seq(Instruction) /\ Len(code) = Len(original)
      /\ \A k \in 1..Len(code) : Replaces(code, original, k)
  BY DEF RewrittenInv
<1>2. Len(code) \in Nat
  BY <1>1
<1> QED BY <1>1, <1>2, ReplacedSameEffect

\* Over code whose operands have the size of their destination, and with rewrites
\* proved before they are installed, a block whose addresses tell instructions
\* apart and that does not overwrite what it reads keeps its effect.
THEOREM SpecPreserved ==
    ASSUME SizedCode, RequireProof = TRUE
    PROVE  Spec => []BlockPreserved
<1>1. Init => EnvInv /\ ScannedInv /\ RewrittenInv
  <2>1. Init => RewrittenInv
    BY DEF Init, RewrittenInv
  <2> QED BY <2>1, EnvInit, ScannedInit
<1>2. EnvInv /\ ScannedInv /\ RewrittenInv /\ [Next]_vars
          => (EnvInv /\ ScannedInv /\ RewrittenInv)'
  BY EnvStep, ScannedStep, RewrittenStep
<1>3. RewrittenInv => BlockPreserved
  BY RewrittenPreserves
<1> QED BY <1>1, <1>2, <1>3, PTL DEF Spec
=============================================================================
