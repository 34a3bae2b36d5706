---------------------------- MODULE SolveProofs ----------------------------
(***************************************************************************)
(* Theorems about a call of simplify, for any capacity and any size of     *)
(* answer, and about what it says: for any trees asked about and any       *)
(* answers, the solver is asked about the tree at hand and its answer      *)
(* arrives as it was meant.                                                *)
(***************************************************************************)
EXTENDS Solve, ExprTreeProofs

-----------------------------------------------------------------------------
(* A call of simplify, whatever the nodes say.                             *)

\* The variables of a call of simplify keep their types.
THEOREM SimplifyTypeCorrect == SimplifySpec => []SimplifyTypeOK
<1> USE CapacityAssumption
       DEF SimplifyTypeOK, Fixed, NodeBlock, Block, Status, Outcome
<1>1. SimplifyInit => SimplifyTypeOK
  <2> SUFFICES ASSUME SimplifyInit PROVE SimplifyTypeOK
    OBVIOUS
  <2>1. capacity \in Nat /\ root \in Int
    BY DEF SimplifyInit
  <2>2. QED
    BY <2>1 DEF SimplifyInit
<1>2. SimplifyTypeOK /\ [SimplifyNext]_simplifyVars => SimplifyTypeOK'
  <2> SUFFICES ASSUME SimplifyTypeOK, [SimplifyNext]_simplifyVars
               PROVE  SimplifyTypeOK'
    OBVIOUS
  <2> USE DEF memVars, outVars, Uses, Freed, AtNodes, Leave, Finally
  <2>1. ASSUME NEW ok \in BOOLEAN, Enter(ok) PROVE SimplifyTypeOK'
    BY <2>1 DEF Enter
  <2>2. ASSUME NEW ok \in BOOLEAN, FlattenInput(ok) PROVE SimplifyTypeOK'
    BY <2>2 DEF FlattenInput
  <2>3. ASSUME NEW got \in SUBSET Fixed, Allocate(got) PROVE SimplifyTypeOK'
    BY <2>3 DEF Allocate
  <2>4. ASSUME NEW ok \in BOOLEAN, Fill(ok) PROVE SimplifyTypeOK'
    BY <2>4 DEF Fill
  <2>5. ASSUME NEW ok \in BOOLEAN, AllocateNodes(ok) PROVE SimplifyTypeOK'
    BY <2>5 DEF AllocateNodes, MallocNodes
  <2>6. ASSUME NEW code \in Status \ {"none"}, NEW n \in 1..MaxAnswer,
               Shim(code, n)
        PROVE  SimplifyTypeOK'
    BY <2>6 DEF Shim
  <2>7. ASSUME NEW ok \in BOOLEAN, Grow(ok) PROVE SimplifyTypeOK'
    BY <2>7 DEF Grow, MallocNodes
  <2>8. CASE Decide
    BY <2>8 DEF Decide
  <2>9. ASSUME NEW ok \in BOOLEAN, Build(ok) PROVE SimplifyTypeOK'
    BY <2>9 DEF Build
  <2>10. CASE Free
    BY <2>10 DEF Free
  <2>11. CASE UNCHANGED simplifyVars
    BY <2>11 DEF simplifyVars
  <2>12. QED
    BY <2>1, <2>2, <2>3, <2>4, <2>5, <2>6, <2>7, <2>8, <2>9, <2>10, <2>11
       DEF SimplifyNext
<1>3. QED
  BY <1>1, <1>2, PTL DEF SimplifySpec

-----------------------------------------------------------------------------
(* Memory.                                                                 *)

\* Who is live, by where the call is.
HeapInv ==
    /\ ~misuse
    /\ pc \in {"enter", "flatten", "allocate"} =>
          nodes = "NULL" /\ \A b \in Block : heap[b] = "unused"
    /\ pc \in {"fill", "nodes"} =>
          nodes = "NULL" /\ \A b \in NodeBlock : heap[b] = "unused"
    /\ pc \in {"solve", "grow", "decide", "build"} => nodes # "NULL"
    /\ pc \in {"fill", "nodes", "solve", "grow", "decide", "build", "finally"} =>
          /\ owned = Fixed
          /\ \A b \in Block : heap[b] = "live" <=> b \in owned \cup AtNodes
    /\ pc = "grow" => nodes = "first"
    /\ pc = "done" => \A b \in Block : heap[b] # "live"

\* At every step of simplify the live blocks are those its pointers point to.
LEMMA HeapHolds == SimplifySpec => []HeapInv
<1> USE DEF HeapInv, Fixed, NodeBlock, Block, AtNodes
<1>1. SimplifyInit => HeapInv
  BY DEF SimplifyInit
<1>2. SimplifyTypeOK /\ HeapInv /\ [SimplifyNext]_simplifyVars => HeapInv'
  <2> SUFFICES ASSUME SimplifyTypeOK, HeapInv, [SimplifyNext]_simplifyVars
               PROVE  HeapInv'
    OBVIOUS
  <2> USE DEF SimplifyTypeOK, memVars, outVars, Uses, Freed, Leave, Finally
  <2>1. ASSUME NEW ok \in BOOLEAN, Enter(ok) PROVE HeapInv'
    BY <2>1 DEF Enter
  <2>2. ASSUME NEW ok \in BOOLEAN, FlattenInput(ok) PROVE HeapInv'
    BY <2>2 DEF FlattenInput
  <2>3. ASSUME NEW got \in SUBSET Fixed, Allocate(got) PROVE HeapInv'
    BY <2>3 DEF Allocate
  <2>4. ASSUME NEW ok \in BOOLEAN, Fill(ok) PROVE HeapInv'
    BY <2>4 DEF Fill
  <2>5. ASSUME NEW ok \in BOOLEAN, AllocateNodes(ok) PROVE HeapInv'
    BY <2>5 DEF AllocateNodes, MallocNodes
  <2>6. ASSUME NEW code \in Status \ {"none"}, NEW n \in 1..MaxAnswer,
               Shim(code, n)
        PROVE  HeapInv'
    BY <2>6 DEF Shim
  <2>7. ASSUME NEW ok \in BOOLEAN, Grow(ok) PROVE HeapInv'
    BY <2>7 DEF Grow, MallocNodes
  <2>8. CASE Decide
    BY <2>8 DEF Decide
  <2>9. ASSUME NEW ok \in BOOLEAN, Build(ok) PROVE HeapInv'
    BY <2>9 DEF Build
  <2>10. CASE Free
    BY <2>10 DEF Free
  <2>11. CASE UNCHANGED simplifyVars
    BY <2>11 DEF simplifyVars
  <2>12. QED
    BY <2>1, <2>2, <2>3, <2>4, <2>5, <2>6, <2>7, <2>8, <2>9, <2>10, <2>11
       DEF SimplifyNext
<1>3. QED
  BY <1>1, <1>2, SimplifyTypeCorrect, PTL DEF SimplifySpec

\* Whichever of its mallocs fail and however often the solver wants more room,
\* simplify frees what it allocated.
THEOREM EverythingIsFreed == SimplifySpec => []NothingLeaks
<1>1. HeapInv => NothingLeaks
  BY DEF HeapInv, NothingLeaks
<1>2. QED
  BY <1>1, HeapHolds, PTL

\* No block of simplify is used or freed outside its lifetime.
THEOREM NoMisuse == SimplifySpec => []MemoryIsLive
<1>1. HeapInv => MemoryIsLive
  BY DEF HeapInv, MemoryIsLive
<1>2. QED
  BY <1>1, HeapHolds, PTL

-----------------------------------------------------------------------------
(* The node buffer.                                                        *)

\* The shim is told the size the buffer has, and an OK comes with the answer
\* written to the buffer there is now.
BufferInv ==
    /\ written <= room
    /\ pc = "solve" => room = capacity
    /\ pc = "decide" /\ status = "OK" => written = produced
    /\ pc = "build" => 0 <= root /\ root < written

\* At every step of simplify the shim is told the true size of its buffer.
LEMMA BufferHolds == SimplifySpec => []BufferInv
<1> USE CapacityAssumption DEF BufferInv
<1>1. SimplifyInit => BufferInv
  BY DEF SimplifyInit
<1>2. SimplifyTypeOK /\ BufferInv /\ [SimplifyNext]_simplifyVars
        => BufferInv'
  <2> SUFFICES ASSUME SimplifyTypeOK, BufferInv, [SimplifyNext]_simplifyVars
               PROVE  BufferInv'
    OBVIOUS
  <2> USE DEF SimplifyTypeOK, memVars, outVars, Leave, Finally
  <2>1. ASSUME NEW ok \in BOOLEAN, Enter(ok) \/ FlattenInput(ok) \/ Fill(ok)
        PROVE  BufferInv'
    BY <2>1 DEF Enter, FlattenInput, Fill
  <2>2. ASSUME NEW got \in SUBSET Fixed, Allocate(got) PROVE BufferInv'
    BY <2>2 DEF Allocate
  <2>3. ASSUME NEW ok \in BOOLEAN, AllocateNodes(ok) PROVE BufferInv'
    BY <2>3 DEF AllocateNodes, MallocNodes
  <2>4. ASSUME NEW code \in Status \ {"none"}, NEW n \in 1..MaxAnswer,
               Shim(code, n)
        PROVE  BufferInv'
    BY <2>4 DEF Shim, Status
  <2>5. ASSUME NEW ok \in BOOLEAN, Grow(ok) PROVE BufferInv'
    BY <2>5 DEF Grow, MallocNodes
  <2>6. CASE Decide
    BY <2>6 DEF Decide, RootFits
  <2>7. ASSUME NEW ok \in BOOLEAN, Build(ok) PROVE BufferInv'
    BY <2>7 DEF Build
  <2>8. CASE Free
    BY <2>8 DEF Free
  <2>9. CASE UNCHANGED simplifyVars
    BY <2>9 DEF simplifyVars
  <2>10. QED
    BY <2>1, <2>2, <2>3, <2>4, <2>5, <2>6, <2>7, <2>8, <2>9 DEF SimplifyNext
<1>3. QED
  BY <1>1, <1>2, SimplifyTypeCorrect, PTL DEF SimplifySpec

\* The shim never writes past the end of the node buffer.
THEOREM ShimStaysInside == SimplifySpec => []WritesFit
<1>1. BufferInv => WritesFit
  BY DEF BufferInv, WritesFit
<1>2. QED
  BY <1>1, BufferHolds, PTL

\* _build starts inside what was written to the present node buffer.
THEOREM BuildReadsTheAnswer == SimplifySpec => []BuildsWhatWasWritten
<1>1. HeapInv /\ BufferInv => BuildsWhatWasWritten
  BY DEF HeapInv, BufferInv, BuildsWhatWasWritten
<1>2. QED
  BY <1>1, HeapHolds, BufferHolds, PTL

-----------------------------------------------------------------------------
(* Leaves and their numbers.                                               *)

\* The names of a request: leaves, each once.
GoodNames(names) == names \in Seq(Var) /\ NoRepeats(names)

\* A declared leaf has a number, and the number leads back to it.
LEMMA IndexFacts ==
    ASSUME NEW names, GoodNames(names)
    PROVE  /\ Len(names) \in Nat
           /\ Declared(names) \subseteq Var
           /\ \A n \in Declared(names) :
                 /\ Index(names, n) \in Nat
                 /\ Index(names, n) \in 0..Len(names) - 1
                 /\ names[Index(names, n) + 1] = n
           /\ \A i \in Nat : i < Len(names) =>
                 names[i + 1] \in Declared(names) /\ Index(names, names[i + 1]) = i
<1>1. Len(names) \in Nat /\ Declared(names) \subseteq Var
  BY DEF GoodNames, Declared
<1>2. ASSUME NEW n \in Declared(names)
      PROVE  /\ Index(names, n) \in 0..Len(names) - 1
             /\ names[Index(names, n) + 1] = n
  <2>1. PICK i \in 1..Len(names) : n = names[i]
    BY DEF Declared
  <2>2. i - 1 \in 0..Len(names) - 1 /\ names[(i - 1) + 1] = n
    BY <1>1, <2>1
  <2> QED BY <2>2 DEF Index
<1>3. ASSUME NEW i \in Nat, i < Len(names)
      PROVE  names[i + 1] \in Declared(names) /\ Index(names, names[i + 1]) = i
  <2>1. i + 1 \in 1..Len(names)
    BY <1>1, <1>3
  <2>2. names[i + 1] \in Declared(names)
    BY <2>1 DEF Declared
  <2> DEFINE j == Index(names, names[i + 1])
  <2>3. j \in 0..Len(names) - 1 /\ names[j + 1] = names[i + 1]
    BY <1>2, <2>2
  <2> HIDE DEF j
  <2>4. j + 1 \in 1..Len(names)
    BY <1>1, <2>3
  <2>5. j + 1 = i + 1
    BY <2>1, <2>3, <2>4 DEF GoodNames, NoRepeats
  <2> QED BY <2>2, <2>3, <2>5 DEF j
<1>4. \A n \in Declared(names) : Index(names, n) \in Nat
  BY <1>1, <1>2
<1> QED BY <1>1, <1>2, <1>3, <1>4

-----------------------------------------------------------------------------
(* The encoding of a tree.                                                 *)

FlattenStep(names, encoded, t) ==
    [ns \in Seq(FlatNode) |-> FlattenNode(names, encoded, t, ns)]

FlattenRec == INSTANCE Recursion
    WITH Domain <- TreeDomain, Rank <- TreeHeight, Step <- FlattenStep

\* The encoding of a tree, by its root.
LEMMA FlattenEquation ==
    ASSUME NEW names, NEW ns \in Seq(FlatNode)
    PROVE  /\ \A v \in Int : Flatten(names, Const(v), ns) =
                 Append(ns, Node("constant", v, 0, -1, -1))
           /\ \A l \in Label : Flatten(names, Leaf(l), ns) =
                 Append(ns, Node("variable", 0, Index(names, l), -1, -1))
           /\ \A op, a : Un(op, a) \in Tree =>
                 Flatten(names, Un(op, a), ns) =
                     Append(Flatten(names, a, ns),
                            Leafless(UnaryKind(op), Last(Flatten(names, a, ns)), -1))
           /\ \A op, a, b : Bin(op, a, b) \in Tree =>
                 Flatten(names, Bin(op, a, b), ns) =
                     LET out == Flatten(names, b, Flatten(names, a, ns))
                     IN  IF op = "-"
                         THEN FlattenDiff(Last(Flatten(names, a, ns)), Last(out), out)
                         ELSE Append(out, Leafless(KindOf[op],
                                                   Last(Flatten(names, a, ns)), Last(out)))
<1> DEFINE F == FlattenRec!Fix(names)
<1>1. FlattenRec!Ranked(names)
  BY HeightDescends DEF FlattenRec!Ranked, TreeDomain, TreeHeight
<1>2. FlattenRec!Descends(names)
  <2>1. SUFFICES ASSUME NEW g, NEW h, NEW t \in Tree,
                        \A u \in Tree : Height(u) < Height(t) => g[u] = h[u]
                 PROVE  FlattenStep(names, g, t) = FlattenStep(names, h, t)
    BY DEF FlattenRec!Descends, TreeDomain, TreeHeight
  <2>2. /\ t.kind \in {"un", "bin"} => g[t.a] = h[t.a]
        /\ t.kind = "bin" => g[t.b] = h[t.b]
    BY <2>1, HeightDescends
  <2>3. \A s \in Seq(FlatNode) : FlattenNode(names, g, t, s) = FlattenNode(names, h, t, s)
    BY <2>2, TreeKinds DEF FlattenNode
  <2> QED BY <2>3 DEF FlattenStep
<1>3. \A t, s : Flatten(names, t, s) = F[t][s]
  BY DEF Flatten, FlattenRec!Fix, TreeDomain, FlattenStep
<1>4. \A t \in Tree : F[t] = FlattenStep(names, F, t)
  BY <1>1, <1>2, FlattenRec!RecursiveEquation DEF TreeDomain
<1> HIDE DEF F
<1>5. \A t \in Tree : F[t][ns] = FlattenNode(names, F, t, ns)
  BY <1>4 DEF FlattenStep
<1>6. \A v \in Int : Flatten(names, Const(v), ns) =
          Append(ns, Node("constant", v, 0, -1, -1))
  BY <1>3, <1>5, LeavesAreTrees, ZenonT(60) DEF Const, FlattenNode
<1>7. \A l \in Label : Flatten(names, Leaf(l), ns) =
          Append(ns, Node("variable", 0, Index(names, l), -1, -1))
  BY <1>3, <1>5, LeavesAreTrees, ZenonT(60) DEF Leaf, FlattenNode
<1>8. ASSUME NEW t \in Tree, t.kind = "un"
      PROVE  FlattenNode(names, F, t, ns) =
                 LET a == Flatten(names, t.a, ns)
                 IN  Append(a, Leafless(UnaryKind(t.op), Last(a), -1))
  BY <1>3, <1>8 DEF FlattenNode
<1>9. ASSUME NEW t \in Tree, t.kind = "bin"
      PROVE  FlattenNode(names, F, t, ns) =
                 LET a == Flatten(names, t.a, ns)
                     b == Flatten(names, t.b, a)
                 IN  IF t.op = "-" THEN FlattenDiff(Last(a), Last(b), b)
                     ELSE Append(b, Leafless(KindOf[t.op], Last(a), Last(b)))
  BY <1>3, <1>9 DEF FlattenNode
<1>10. \A op, a : Un(op, a) \in Tree =>
          Flatten(names, Un(op, a), ns) =
              Append(Flatten(names, a, ns),
                     Leafless(UnaryKind(op), Last(Flatten(names, a, ns)), -1))
  BY <1>3, <1>5, <1>8 DEF Un
<1>11. \A op, a, b : Bin(op, a, b) \in Tree =>
          Flatten(names, Bin(op, a, b), ns) =
              LET out == Flatten(names, b, Flatten(names, a, ns))
              IN  IF op = "-"
                  THEN FlattenDiff(Last(Flatten(names, a, ns)), Last(out), out)
                  ELSE Append(out, Leafless(KindOf[op],
                                            Last(Flatten(names, a, ns)), Last(out)))
  BY <1>3, <1>5, <1>9 DEF Bin
<1> QED BY <1>6, <1>7, <1>10, <1>11

-----------------------------------------------------------------------------
(* The solver's expressions.                                               *)

UnaryKinds  == {"not", "neg", "shr"}
BinaryKinds == {"add", "mul", "and", "or", "xor"}

ExprsOn(exprs) ==
    [kind : UnaryKinds, value : Nat, var : {0}, children : [1..1 -> exprs]]
    \cup [kind : BinaryKinds, value : {0}, var : {0}, children : [1..2 -> exprs]]

ExprsStep(p, level, n) ==
    [kind : {"constant", "variable"}, value : Int, var : Nat, children : {<<>>}]
    \cup IF n = 0 THEN {} ELSE ExprsOn(level[n - 1])

ExprsRec == INSTANCE Recursion
    WITH Domain <- OverNat, Rank <- Itself, Step <- ExprsStep

\* The expressions of a depth, from those of the depth before.
LEMMA ExprsEquation ==
    ASSUME NEW n \in Nat
    PROVE  ExprsTo(n) =
               [kind : {"constant", "variable"}, value : Int, var : Nat,
                children : {<<>>}]
               \cup IF n = 0 THEN {} ELSE ExprsOn(ExprsTo(n - 1))
<1>1. ExprsRec!Ranked(0)
  BY DEF ExprsRec!Ranked, OverNat, Itself
<1>2. ExprsRec!Descends(0)
  BY DEF ExprsRec!Descends, OverNat, Itself, ExprsStep
<1>3. \A k \in Nat : ExprsRec!Fix(0)[k] = ExprsStep(0, ExprsRec!Fix(0), k)
  BY <1>1, <1>2, ExprsRec!RecursiveEquation DEF OverNat
<1>4. \A k : ExprsTo(k) = ExprsRec!Fix(0)[k]
  BY DEF ExprsTo, ExprsRec!Fix, OverNat, ExprsStep, ExprsOn, UnaryKinds, BinaryKinds
<1> QED BY <1>3, <1>4 DEF ExprsStep

\* What expressions are made of.
LEMMA ExprMake ==
    ASSUME NEW n \in Nat
    PROVE  /\ \A kind \in {"constant", "variable"} : \A v \in Int, k \in Nat :
                 Expr(kind, v, k, <<>>) \in ExprsTo(n)
           /\ \A kind \in UnaryKinds : \A v \in Nat : \A a \in ExprsTo(n) :
                 Expr(kind, v, 0, <<a>>) \in ExprsTo(n + 1)
           /\ \A kind \in BinaryKinds : \A a, b \in ExprsTo(n) :
                 Expr(kind, 0, 0, <<a, b>>) \in ExprsTo(n + 1)
<1>1. n + 1 \in Nat /\ n + 1 # 0 /\ (n + 1) - 1 = n
  OBVIOUS
<1>2. ExprsOn(ExprsTo(n)) \subseteq ExprsTo(n + 1)
  <2>1. ExprsTo(n + 1) =
            [kind : {"constant", "variable"}, value : Int, var : Nat, children : {<<>>}]
            \cup ExprsOn(ExprsTo(n))
    BY <1>1, ExprsEquation
  <2> QED BY <2>1
<1>3. \A kind \in {"constant", "variable"} : \A v \in Int, k \in Nat :
          Expr(kind, v, k, <<>>) \in ExprsTo(n)
  BY ExprsEquation DEF Expr
<1>4. \A kind \in UnaryKinds : \A v \in Nat : \A a \in ExprsTo(n) :
          Expr(kind, v, 0, <<a>>) \in ExprsTo(n + 1)
  BY <1>2 DEF Expr, ExprsOn
<1>5. \A kind \in BinaryKinds : \A a, b \in ExprsTo(n) :
          Expr(kind, 0, 0, <<a, b>>) \in ExprsTo(n + 1)
  BY <1>2 DEF Expr, ExprsOn
<1> QED BY <1>3, <1>4, <1>5

\* The other way round.
LEMMA ExprCases ==
    ASSUME NEW n \in Nat, NEW e \in ExprsTo(n)
    PROVE  \/ /\ e.kind \in {"constant", "variable"} /\ e.value \in Int /\ e.var \in Nat
              /\ e.children = <<>> /\ Len(e.children) = 0
           \/ /\ e.kind \in UnaryKinds /\ e.value \in Nat /\ e.var = 0
              /\ Len(e.children) = 1
              /\ n # 0 /\ e.children[1] \in ExprsTo(n - 1)
           \/ /\ e.kind \in BinaryKinds /\ e.value = 0 /\ e.var = 0
              /\ Len(e.children) = 2
              /\ n # 0 /\ e.children[1] \in ExprsTo(n - 1)
              /\ e.children[2] \in ExprsTo(n - 1)
<1>1. \/ e \in [kind : {"constant", "variable"}, value : Int, var : Nat,
                children : {<<>>}]
      \/ n # 0 /\ e \in ExprsOn(ExprsTo(n - 1))
  BY ExprsEquation
<1>2. CASE e \in [kind : {"constant", "variable"}, value : Int, var : Nat,
                  children : {<<>>}]
  BY <1>2
<1>3. CASE n # 0 /\ e \in [kind : UnaryKinds, value : Nat, var : {0},
                           children : [1..1 -> ExprsTo(n - 1)]]
  <2>1. e.children \in [1..1 -> ExprsTo(n - 1)]
    BY <1>3
  <2>2. Len(e.children) = 1 /\ e.children[1] \in ExprsTo(n - 1)
    BY <2>1
  <2> QED BY <1>3, <2>2
<1>4. CASE n # 0 /\ e \in [kind : BinaryKinds, value : {0}, var : {0},
                           children : [1..2 -> ExprsTo(n - 1)]]
  <2>1. e.children \in [1..2 -> ExprsTo(n - 1)]
    BY <1>4
  <2>2. /\ Len(e.children) = 2 /\ e.children[1] \in ExprsTo(n - 1)
        /\ e.children[2] \in ExprsTo(n - 1)
    BY <2>1
  <2> QED BY <1>4, <2>2
<1> QED BY <1>1, <1>2, <1>3, <1>4 DEF ExprsOn

\* A deeper bound admits more expressions.
LEMMA ExprsGrow ==
    \A n, k \in Nat : n <= k => ExprsTo(n) \subseteq ExprsTo(k)
<1> DEFINE S == {n \in Nat : ExprsTo(n) \subseteq ExprsTo(n + 1)}
           L == [n \in Nat |-> ExprsTo(n)]
<1>1. \A A, B : A \subseteq B => ExprsOn(A) \subseteq ExprsOn(B)
  BY DEF ExprsOn
<1>2. 0 \in S
  BY ExprsEquation
<1>3. ASSUME NEW n \in Nat, n \in S PROVE n + 1 \in S
  <2>1. n + 1 \in Nat /\ n + 2 \in Nat /\ (n + 1) - 1 = n /\ (n + 2) - 1 = n + 1
        /\ (n + 1) + 1 = n + 2 /\ n + 1 # 0 /\ n + 2 # 0
    OBVIOUS
  <2>2. ExprsOn(ExprsTo(n)) \subseteq ExprsOn(ExprsTo(n + 1))
    BY <1>1, <1>3
  <2>3. ExprsTo(n + 1) \subseteq ExprsTo(n + 2)
    BY <2>1, <2>2, ExprsEquation
  <2> QED BY <2>1, <2>3
<1> HIDE DEF S
<1>4. Nat \subseteq S
  BY <1>2, <1>3, ExprsRec!NatSetInduction
<1>5. \A n \in Nat : L[n] \subseteq L[n + 1]
  BY <1>4 DEF S
<1> HIDE DEF L
<1>6. \A n, k \in Nat : n <= k => L[n] \subseteq L[k]
  BY <1>5, ExprsRec!LevelsGrow
<1> QED BY <1>6 DEF L

ExprLevel == [n \in Nat |-> ExprsTo(n)]

ExprDomain(p)    == Exprs
ExprHeight(p, e) == ExprsRec!LevelOf(ExprLevel, e)

\* The operands of an expression are expressions, and less high.
LEMMA ExprDescends ==
    ASSUME NEW e \in Exprs
    PROVE  /\ ExprHeight(0, e) \in Nat
           /\ e.kind \in UnaryKinds \cup BinaryKinds =>
                 /\ e.children[1] \in Exprs
                 /\ ExprHeight(0, e.children[1]) < ExprHeight(0, e)
           /\ e.kind \in BinaryKinds =>
                 /\ e.children[2] \in Exprs
                 /\ ExprHeight(0, e.children[2]) < ExprHeight(0, e)
<1> DEFINE H(x) == ExprHeight(0, x)
<1>0. 2 * Depth \in Nat
  BY DepthAssumption
<1>1. ASSUME NEW x, NEW n \in Nat, x \in ExprsTo(n)
      PROVE  H(x) \in Nat /\ x \in ExprsTo(H(x)) /\ H(x) <= n
  BY <1>1, ExprsRec!FirstLevel DEF ExprHeight, ExprLevel
<1> HIDE DEF H
<1>2. H(e) \in Nat /\ e \in ExprsTo(H(e)) /\ H(e) <= 2 * Depth
  BY <1>0, <1>1 DEF Exprs
<1>3. \A n \in Nat : n <= 2 * Depth => ExprsTo(n) \subseteq Exprs
  BY <1>0, ExprsGrow DEF Exprs
<1>4. ASSUME NEW x, H(e) # 0, x \in ExprsTo(H(e) - 1)
      PROVE  x \in Exprs /\ H(x) < H(e)
  <2>1. H(e) - 1 \in Nat /\ H(e) - 1 <= 2 * Depth
    BY <1>0, <1>2, <1>4
  <2>2. H(x) \in Nat /\ H(x) <= H(e) - 1
    BY <1>1, <1>4, <2>1
  <2> QED BY <1>2, <1>3, <1>4, <2>1, <2>2
<1>5. \/ e.kind \in {"constant", "variable"}
      \/ /\ e.kind \in UnaryKinds
         /\ H(e) # 0 /\ e.children[1] \in ExprsTo(H(e) - 1)
      \/ /\ e.kind \in BinaryKinds
         /\ H(e) # 0 /\ e.children[1] \in ExprsTo(H(e) - 1)
         /\ e.children[2] \in ExprsTo(H(e) - 1)
  BY <1>2, ExprCases
<1> QED BY <1>2, <1>4, <1>5 DEF H, UnaryKinds, BinaryKinds

ExprValueRec == INSTANCE Recursion
    WITH Domain <- ExprDomain, Rank <- ExprHeight, Step <- ExprValueNode

\* The value of an expression, by its root.
LEMMA ExprValueEquation ==
    ASSUME NEW leaf
    PROVE  \E value :
               /\ \A e : ExprValue(e, leaf) = value[e]
               /\ \A e \in Exprs : value[e] = ExprValueNode(leaf, value, e)
<1>0. \A e \in Exprs : ExprHeight(leaf, e) \in Nat /\ ExprHeight(leaf, e) = ExprHeight(0, e)
  BY ExprDescends DEF ExprHeight
<1>1. ExprValueRec!Ranked(leaf)
  BY <1>0 DEF ExprValueRec!Ranked, ExprDomain
<1>2. ExprValueRec!Descends(leaf)
  <2>1. SUFFICES ASSUME NEW g, NEW h, NEW e \in Exprs,
                        \A u \in Exprs :
                            ExprHeight(leaf, u) < ExprHeight(leaf, e) => g[u] = h[u]
                 PROVE  ExprValueNode(leaf, g, e) = ExprValueNode(leaf, h, e)
    BY DEF ExprValueRec!Descends, ExprDomain
  <2>2. /\ e.kind \in UnaryKinds \cup BinaryKinds =>
              g[e.children[1]] = h[e.children[1]]
        /\ e.kind \in BinaryKinds => g[e.children[2]] = h[e.children[2]]
    BY <1>0, <2>1, ExprDescends
  <2> QED BY <2>2 DEF ExprValueNode, UnaryKinds, BinaryKinds
<1>3. \A e : ExprValue(e, leaf) = ExprValueRec!Fix(leaf)[e]
  BY DEF ExprValue, ExprValueRec!Fix, ExprDomain
<1>4. \A e \in Exprs :
          ExprValueRec!Fix(leaf)[e] = ExprValueNode(leaf, ExprValueRec!Fix(leaf), e)
  BY <1>1, <1>2, ExprValueRec!RecursiveEquation DEF ExprDomain
<1> QED BY <1>3, <1>4

\* The same for the expressions a tree is encoded as.
LEMMA ExprValueFacts ==
    ASSUME NEW leaf
    PROVE  /\ \A v \in Int, k \in Nat :
                 ExprValue(Expr("constant", v, k, <<>>), leaf) = v % Modulus
           /\ \A v \in Int, k \in Nat :
                 ExprValue(Expr("variable", v, k, <<>>), leaf) = leaf[k]
           /\ \A op \in Prefix : \A e : Expr(UnaryKind(op), 0, 0, <<e>>) \in Exprs =>
                 ExprValue(Expr(UnaryKind(op), 0, 0, <<e>>), leaf) =
                     ApplyUn(op, ExprValue(e, leaf))
           /\ \A op \in DOMAIN KindOf : \A e, f :
                 Expr(KindOf[op], 0, 0, <<e, f>>) \in Exprs =>
                     ExprValue(Expr(KindOf[op], 0, 0, <<e, f>>), leaf) =
                         ApplyBin(op, ExprValue(e, leaf), ExprValue(f, leaf))
<1>0. PICK value :
          /\ \A e : ExprValue(e, leaf) = value[e]
          /\ \A e \in Exprs : value[e] = ExprValueNode(leaf, value, e)
  BY ExprValueEquation
<1>1. \A kind \in {"constant", "variable"} : \A v \in Int, k \in Nat :
          Expr(kind, v, k, <<>>) \in Exprs
  BY ExprMake, DepthAssumption DEF Exprs
<1>2. \A v \in Int, k \in Nat :
          /\ ExprValue(Expr("constant", v, k, <<>>), leaf) = v % Modulus
          /\ ExprValue(Expr("variable", v, k, <<>>), leaf) = leaf[k]
  BY <1>0, <1>1 DEF ExprValueNode, Expr
<1>3. ASSUME NEW op \in Prefix, NEW e, Expr(UnaryKind(op), 0, 0, <<e>>) \in Exprs
      PROVE  ExprValue(Expr(UnaryKind(op), 0, 0, <<e>>), leaf) =
                 ApplyUn(op, ExprValue(e, leaf))
  <2> DEFINE x == Expr(UnaryKind(op), 0, 0, <<e>>)
  <2>1. x.kind = UnaryKind(op) /\ x.children[1] = e /\ x \in Exprs
    BY <1>3 DEF Expr
  <2> HIDE DEF x
  <2>2. value[x] = ApplyUn(op, value[e])
    BY <1>0, <2>1 DEF ExprValueNode, UnaryKind, Prefix
  <2> QED BY <1>0, <2>2 DEF x
<1>4. ASSUME NEW op \in DOMAIN KindOf, NEW e, NEW f,
             Expr(KindOf[op], 0, 0, <<e, f>>) \in Exprs
      PROVE  ExprValue(Expr(KindOf[op], 0, 0, <<e, f>>), leaf) =
                 ApplyBin(op, ExprValue(e, leaf), ExprValue(f, leaf))
  <2> DEFINE x == Expr(KindOf[op], 0, 0, <<e, f>>)
  <2>1. x.kind = KindOf[op] /\ x.children[1] = e /\ x.children[2] = f /\ x \in Exprs
    BY <1>4 DEF Expr
  <2> HIDE DEF x
  <2>2. value[x] = ApplyBin(op, value[e], value[f])
    BY <1>0, <2>1 DEF ExprValueNode, KindOf
  <2> QED BY <1>0, <2>2 DEF x
<1> QED BY <1>2, <1>3, <1>4

-----------------------------------------------------------------------------
(* Reading the encoding back.                                              *)

UnflattenStep(ns, expr, d) == [i \in Int |-> UnflattenNode(ns, expr, d, i)]

Room(ns, d) == IF d > Len(ns) THEN 0 ELSE Len(ns) + 1 - d

UnflattenRec == INSTANCE Recursion
    WITH Domain <- OverNat, Rank <- Room, Step <- UnflattenStep

\* Whether an operand, or both, could be read.
LEMMA UnflattenEquation ==
    ASSUME NEW ns \in Seq(FlatNode), NEW d \in Nat, NEW i \in Nat,
           i < Len(ns), d <= Len(ns)
    PROVE  \E lhs, rhs :
               /\ lhs = Unflatten(ns, ns[i + 1].child0, d + 1)
               /\ rhs = Unflatten(ns, ns[i + 1].child1, d + 1)
               /\ ns[i + 1].kind \in {"constant", "variable"} =>
                     Unflatten(ns, i, d) =
                         Expr(ns[i + 1].kind, ns[i + 1].value, ns[i + 1].var, <<>>)
               /\ ns[i + 1].kind \in UnaryKinds /\ lhs # Nothing =>
                     Unflatten(ns, i, d) =
                         Expr(ns[i + 1].kind, ns[i + 1].value, 0, <<lhs>>)
               /\ ns[i + 1].kind \in BinaryKinds /\ lhs # Nothing /\ rhs # Nothing =>
                     Unflatten(ns, i, d) = Expr(ns[i + 1].kind, 0, 0, <<lhs, rhs>>)
<1> DEFINE F == UnflattenRec!Fix(ns)
<1>0. Len(ns) \in Nat
  OBVIOUS
<1>1. UnflattenRec!Ranked(ns)
  BY <1>0 DEF UnflattenRec!Ranked, OverNat, Room
<1>2. UnflattenRec!Descends(ns)
  <2>1. SUFFICES ASSUME NEW g, NEW h, NEW n \in Nat,
                        \A u \in Nat : Room(ns, u) < Room(ns, n) => g[u] = h[u]
                 PROVE  UnflattenStep(ns, g, n) = UnflattenStep(ns, h, n)
    BY DEF UnflattenRec!Descends, OverNat
  <2>2. CASE n > Len(ns)
    BY <2>2 DEF UnflattenStep, UnflattenNode
  <2>3. CASE ~ (n > Len(ns))
    <3>1. n + 1 \in Nat /\ Room(ns, n + 1) < Room(ns, n)
      BY <1>0, <2>3 DEF Room
    <3>2. g[n + 1] = h[n + 1]
      BY <2>1, <3>1
    <3>3. \A j \in Int : UnflattenNode(ns, g, n, j) = UnflattenNode(ns, h, n, j)
      BY <3>2 DEF UnflattenNode
    <3> QED BY <3>3 DEF UnflattenStep
  <2> QED BY <2>2, <2>3
<1>3. \A n \in Nat : F[n] = UnflattenStep(ns, F, n)
  BY <1>1, <1>2, UnflattenRec!RecursiveEquation DEF OverNat
<1>4. \A n, j : Unflatten(ns, j, n) = F[n][j]
  BY DEF Unflatten, UnflattenRec!Fix, OverNat, UnflattenStep
<1> HIDE DEF F
<1>5. F[d][i] = UnflattenNode(ns, F, d, i)
  <2>1. F[d] = [j \in Int |-> UnflattenNode(ns, F, d, j)]
    BY <1>3 DEF UnflattenStep
  <2>2. i \in Int
    OBVIOUS
  <2> QED BY <2>1, <2>2, Zenon
<1>6. ~ (i < 0 \/ i >= Len(ns) \/ d > Len(ns))
  BY <1>0
<1> DEFINE n   == ns[i + 1]
           lhs == Unflatten(ns, n.child0, d + 1)
           rhs == Unflatten(ns, n.child1, d + 1)
<1>7. /\ F[d + 1][n.child0] = lhs
      /\ F[d + 1][n.child1] = rhs
  BY <1>4
<1> HIDE DEF n, lhs, rhs
<1>8. /\ n.kind \in {"constant", "variable"} =>
            F[d][i] = Expr(n.kind, n.value, n.var, <<>>)
      /\ n.kind \in UnaryKinds /\ lhs # Nothing =>
            F[d][i] = Expr(n.kind, n.value, 0, <<lhs>>)
      /\ n.kind \in BinaryKinds /\ lhs # Nothing /\ rhs # Nothing =>
            F[d][i] = Expr(n.kind, 0, 0, <<lhs, rhs>>)
  <2>1. F[d][i] =
            CASE n.kind \in {"constant", "variable"} ->
                    Expr(n.kind, n.value, n.var, <<>>)
              [] n.kind \in {"not", "neg", "shr"} ->
                    IF lhs = Nothing THEN Nothing
                    ELSE Expr(n.kind, n.value, 0, <<lhs>>)
              [] n.kind \in {"add", "mul", "and", "or", "xor"} ->
                    IF lhs = Nothing \/ rhs = Nothing THEN Nothing
                    ELSE Expr(n.kind, 0, 0, <<lhs, rhs>>)
    BY <1>5, <1>6, <1>7 DEF UnflattenNode, n
  <2>2. CASE n.kind \in {"constant", "variable"}
    BY <2>1, <2>2 DEF UnaryKinds, BinaryKinds
  <2>3. CASE n.kind \in UnaryKinds
    BY <2>1, <2>3 DEF UnaryKinds, BinaryKinds
  <2>4. CASE n.kind \in BinaryKinds
    BY <2>1, <2>4 DEF UnaryKinds, BinaryKinds
  <2> QED BY <2>2, <2>3, <2>4
<1> QED BY <1>4, <1>8 DEF n, lhs, rhs

\* more goes on where ns ends.
Extends(more, ns) ==
    /\ more \in Seq(FlatNode) /\ ns \in Seq(FlatNode)
    /\ Len(ns) <= Len(more)
    /\ \A i \in 1..Len(ns) : more[i] = ns[i]

\* One node more.
LEMMA AppendNode ==
    ASSUME NEW ns, ns \in Seq(FlatNode), NEW node, node \in FlatNode
    PROVE  /\ Extends(Append(ns, node), ns)
           /\ Len(Append(ns, node)) = Len(ns) + 1
           /\ Last(Append(ns, node)) = Len(ns)
           /\ Len(ns) \in Nat
           /\ \A more : Extends(more, Append(ns, node)) =>
                 /\ Extends(more, ns) /\ more \in Seq(FlatNode)
                 /\ Len(ns) < Len(more) /\ Len(more) \in Nat
                 /\ more[Len(ns) + 1] = node
<1> DEFINE out == Append(ns, node)
<1>1. /\ out \in Seq(FlatNode) /\ Len(out) = Len(ns) + 1 /\ Len(ns) \in Nat
      /\ out[Len(ns) + 1] = node /\ \A i \in 1..Len(ns) : out[i] = ns[i]
  OBVIOUS
<1> HIDE DEF out
<1>2. Extends(out, ns) /\ Last(out) = Len(ns)
  BY <1>1 DEF Extends, Last
<1>3. ASSUME NEW more, Extends(more, out)
      PROVE  /\ Extends(more, ns) /\ more \in Seq(FlatNode)
             /\ Len(ns) < Len(more) /\ Len(more) \in Nat
             /\ more[Len(ns) + 1] = node
  <2>1. Len(more) \in Nat /\ more \in Seq(FlatNode)
    BY <1>3 DEF Extends
  <2>2. \A i \in 1..Len(ns) + 1 : more[i] = out[i]
    BY <1>1, <1>3 DEF Extends
  <2>3. Len(ns) + 1 <= Len(more)
    BY <1>1, <1>3 DEF Extends
  <2> QED BY <1>1, <2>1, <2>2, <2>3 DEF Extends
<1> QED BY <1>1, <1>2, <1>3 DEF out

\* Appending twice is appending.
LEMMA ExtendsTwice ==
    ASSUME NEW most, NEW more, NEW ns, Extends(most, more), Extends(more, ns)
    PROVE  Extends(most, ns)
BY DEF Extends

\* The nodes of operators are nodes.
LEMMA LeaflessTyped ==
    ASSUME NEW kind \in UnaryKinds \cup BinaryKinds, NEW c0 \in Int, NEW c1 \in Int
    PROVE  /\ Leafless(kind, c0, c1) \in FlatNode
           /\ Leafless(kind, c0, c1).kind = kind
           /\ Leafless(kind, c0, c1).value = 0
           /\ Leafless(kind, c0, c1).child0 = c0
           /\ Leafless(kind, c0, c1).child1 = c1
BY DEF Leafless, Node, FlatNode, UnaryKinds, BinaryKinds

\* An expression is never the failure that unflatten reports.
LEMMA ExprIsSomething == \A n \in Nat : \A e \in ExprsTo(n) : e # Nothing
BY ExprCases DEF Nothing, UnaryKinds, BinaryKinds

\* A unary operator is read back as itself, if its operand can be read.
LEMMA UnaryReads ==
    ASSUME NEW kind \in UnaryKinds, NEW c \in Int, NEW k \in Nat, NEW d \in Nat,
           NEW ns, ns \in Seq(FlatNode),
           NEW more, Extends(more, Append(ns, Leafless(kind, c, -1))),
           d + Len(ns) + 1 <= Len(more),
           Unflatten(more, c, d + 1) \in ExprsTo(k)
    PROVE  /\ Unflatten(more, Len(ns), d) =
                  Expr(kind, 0, 0, <<Unflatten(more, c, d + 1)>>)
           /\ Unflatten(more, Len(ns), d) \in ExprsTo(k + 1)
<1> DEFINE node == Leafless(kind, c, -1)
           lhs  == Unflatten(more, c, d + 1)
<1>1. /\ node \in FlatNode /\ node.kind = kind /\ node.value = 0 /\ node.child0 = c
  BY LeaflessTyped
<1>2. /\ more \in Seq(FlatNode) /\ Len(ns) < Len(more) /\ Len(more) \in Nat
      /\ more[Len(ns) + 1] = node /\ Len(ns) \in Nat
  <2> HIDE DEF node
  <2>1. Extends(more, Append(ns, node))
    BY DEF node
  <2> QED BY <1>1, <2>1, AppendNode
<1>3. d <= Len(more)
  BY <1>2
<1>4. lhs # Nothing
  BY ExprIsSomething
<1>5. Unflatten(more, Len(ns), d) = Expr(kind, 0, 0, <<lhs>>)
  <2> DEFINE i == Len(ns)
  <2>1. i \in Nat /\ i < Len(more) /\ more[i + 1] = node
    BY <1>2
  <2> HIDE DEF node, i
  <2>2. PICK l, r :
            /\ l = Unflatten(more, more[i + 1].child0, d + 1)
            /\ r = Unflatten(more, more[i + 1].child1, d + 1)
            /\ more[i + 1].kind \in {"constant", "variable"} =>
                  Unflatten(more, i, d) =
                      Expr(more[i + 1].kind, more[i + 1].value, more[i + 1].var, <<>>)
            /\ more[i + 1].kind \in UnaryKinds /\ l # Nothing =>
                  Unflatten(more, i, d) =
                      Expr(more[i + 1].kind, more[i + 1].value, 0, <<l>>)
            /\ more[i + 1].kind \in BinaryKinds /\ l # Nothing /\ r # Nothing =>
                  Unflatten(more, i, d) = Expr(more[i + 1].kind, 0, 0, <<l, r>>)
    BY <1>2, <1>3, <2>1, UnflattenEquation, ZenonT(60)
  <2> QED BY <1>1, <1>4, <2>1, <2>2 DEF i
<1>6. Expr(kind, 0, 0, <<lhs>>) \in ExprsTo(k + 1)
  BY ExprMake
<1> QED BY <1>5, <1>6

\* So is a binary one.
LEMMA BinaryReads ==
    ASSUME NEW kind \in BinaryKinds, NEW c0 \in Int, NEW c1 \in Int,
           NEW k \in Nat, NEW d \in Nat,
           NEW ns, ns \in Seq(FlatNode),
           NEW more, Extends(more, Append(ns, Leafless(kind, c0, c1))),
           d + Len(ns) + 1 <= Len(more),
           Unflatten(more, c0, d + 1) \in ExprsTo(k),
           Unflatten(more, c1, d + 1) \in ExprsTo(k)
    PROVE  /\ Unflatten(more, Len(ns), d) =
                  Expr(kind, 0, 0, <<Unflatten(more, c0, d + 1),
                                     Unflatten(more, c1, d + 1)>>)
           /\ Unflatten(more, Len(ns), d) \in ExprsTo(k + 1)
<1> DEFINE node == Leafless(kind, c0, c1)
           lhs  == Unflatten(more, c0, d + 1)
           rhs  == Unflatten(more, c1, d + 1)
<1>1. /\ node \in FlatNode /\ node.kind = kind
      /\ node.child0 = c0 /\ node.child1 = c1
  BY LeaflessTyped
<1>2. /\ more \in Seq(FlatNode) /\ Len(ns) < Len(more) /\ Len(more) \in Nat
      /\ more[Len(ns) + 1] = node /\ Len(ns) \in Nat
  <2> HIDE DEF node
  <2>1. Extends(more, Append(ns, node))
    BY DEF node
  <2> QED BY <1>1, <2>1, AppendNode
<1>3. d <= Len(more)
  BY <1>2
<1>4. lhs # Nothing /\ rhs # Nothing
  BY ExprIsSomething
<1>5. Unflatten(more, Len(ns), d) = Expr(kind, 0, 0, <<lhs, rhs>>)
  <2> DEFINE i == Len(ns)
  <2>1. i \in Nat /\ i < Len(more) /\ more[i + 1] = node
    BY <1>2
  <2> HIDE DEF node, i
  <2>2. PICK l, r :
            /\ l = Unflatten(more, more[i + 1].child0, d + 1)
            /\ r = Unflatten(more, more[i + 1].child1, d + 1)
            /\ more[i + 1].kind \in {"constant", "variable"} =>
                  Unflatten(more, i, d) =
                      Expr(more[i + 1].kind, more[i + 1].value, more[i + 1].var, <<>>)
            /\ more[i + 1].kind \in UnaryKinds /\ l # Nothing =>
                  Unflatten(more, i, d) =
                      Expr(more[i + 1].kind, more[i + 1].value, 0, <<l>>)
            /\ more[i + 1].kind \in BinaryKinds /\ l # Nothing /\ r # Nothing =>
                  Unflatten(more, i, d) = Expr(more[i + 1].kind, 0, 0, <<l, r>>)
    BY <1>2, <1>3, <2>1, UnflattenEquation, ZenonT(60)
  <2> QED BY <1>1, <1>4, <2>1, <2>2 DEF i
<1>6. Expr(kind, 0, 0, <<lhs, rhs>>) \in ExprsTo(k + 1)
  BY ExprMake
<1> QED BY <1>5, <1>6

\* So is a leaf.
LEMMA LeafReads ==
    ASSUME NEW node \in FlatNode, node.kind \in {"constant", "variable"},
           NEW k \in Nat, NEW d \in Nat, NEW ns, ns \in Seq(FlatNode),
           NEW more, Extends(more, Append(ns, node)), d + Len(ns) + 1 <= Len(more)
    PROVE  /\ Unflatten(more, Len(ns), d) = Expr(node.kind, node.value, node.var, <<>>)
           /\ Unflatten(more, Len(ns), d) \in ExprsTo(k)
<1>1. /\ more \in Seq(FlatNode) /\ Len(ns) < Len(more) /\ Len(more) \in Nat
      /\ more[Len(ns) + 1] = node /\ Len(ns) \in Nat
  BY AppendNode
<1>2. d <= Len(more)
  BY <1>1
<1>3. Unflatten(more, Len(ns), d) = Expr(node.kind, node.value, node.var, <<>>)
  <2> DEFINE i == Len(ns)
  <2>1. i \in Nat /\ i < Len(more) /\ more[i + 1] = node
    BY <1>1
  <2> HIDE DEF i
  <2>2. PICK l, r :
            /\ l = Unflatten(more, more[i + 1].child0, d + 1)
            /\ r = Unflatten(more, more[i + 1].child1, d + 1)
            /\ more[i + 1].kind \in {"constant", "variable"} =>
                  Unflatten(more, i, d) =
                      Expr(more[i + 1].kind, more[i + 1].value, more[i + 1].var, <<>>)
            /\ more[i + 1].kind \in UnaryKinds /\ l # Nothing =>
                  Unflatten(more, i, d) =
                      Expr(more[i + 1].kind, more[i + 1].value, 0, <<l>>)
            /\ more[i + 1].kind \in BinaryKinds /\ l # Nothing /\ r # Nothing =>
                  Unflatten(more, i, d) = Expr(more[i + 1].kind, 0, 0, <<l, r>>)
    BY <1>1, <1>2, <2>1, UnflattenEquation, ZenonT(60)
  <2> QED BY <2>1, <2>2 DEF i
<1>4. node.value \in Int /\ node.var \in Nat
  BY DEF FlatNode
<1>5. Expr(node.kind, node.value, node.var, <<>>) \in ExprsTo(k)
  BY <1>4, ExprMake
<1> QED BY <1>3, <1>5

\* However out is gone on with, its last node is read as an expression of depth
\* k that means the function m on assignments to the leaves.
Means(m, k, out) ==
    \A more : \A d \in Nat : Extends(more, out) /\ d + Len(out) <= Len(more) =>
        /\ Unflatten(more, Last(out), d) \in ExprsTo(k)
        /\ \A leaf \in DOMAIN m :
              ExprValue(Unflatten(more, Last(out), d), leaf) = m[leaf]

\* What is appended to ns means m.
Encodes(m, k, ns, out) ==
    /\ Extends(out, ns) /\ Len(ns) < Len(out)
    /\ Means(m, k, out)

\* A constant or variable appended to the nodes encodes its value.
LEMMA EncodesLeaf ==
    ASSUME NEW m, NEW k \in Nat, NEW ns, ns \in Seq(FlatNode),
           NEW node \in FlatNode, node.kind \in {"constant", "variable"},
           \A leaf \in DOMAIN m :
               ExprValue(Expr(node.kind, node.value, node.var, <<>>), leaf) = m[leaf]
    PROVE  Encodes(m, k, ns, Append(ns, node))
<1> DEFINE out == Append(ns, node)
<1>1. Extends(out, ns) /\ Len(out) = Len(ns) + 1 /\ Last(out) = Len(ns) /\ Len(ns) \in Nat
  BY AppendNode
<1>2. ASSUME NEW more, NEW d \in Nat, Extends(more, out), d + Len(out) <= Len(more)
      PROVE  /\ Unflatten(more, Last(out), d) \in ExprsTo(k)
             /\ \A leaf \in DOMAIN m :
                   ExprValue(Unflatten(more, Last(out), d), leaf) = m[leaf]
  <2>1. d + Len(ns) + 1 <= Len(more)
    <3> HIDE DEF out
    <3>1. Len(more) \in Nat
      BY <1>2 DEF Extends
    <3> QED BY <1>1, <1>2, <3>1
  <2>2. /\ Unflatten(more, Len(ns), d) = Expr(node.kind, node.value, node.var, <<>>)
        /\ Unflatten(more, Len(ns), d) \in ExprsTo(k)
    BY <1>2, <2>1, LeafReads
  <2> HIDE DEF out
  <2> QED BY <1>1, <2>2
<1> HIDE DEF out
<1>3. Means(m, k, out)
  BY <1>2 DEF Means
<1>4. Len(ns) < Len(out)
  BY <1>1
<1> QED BY <1>1, <1>3, <1>4 DEF Encodes, out

\* A unary operator on an operand encoded before it.
LEMMA EncodesUn ==
    ASSUME NEW m, NEW op \in Prefix, NEW k \in Nat, k + 1 <= 2 * Depth,
           NEW ns, NEW out, Encodes(m, k, ns, out)
    PROVE  Encodes([leaf \in DOMAIN m |-> ApplyUn(op, m[leaf])], k + 1, ns,
                   Append(out, Leafless(UnaryKind(op), Last(out), -1)))
<1> DEFINE node == Leafless(UnaryKind(op), Last(out), -1)
           longer == Append(out, node)
           applied == [leaf \in DOMAIN m |-> ApplyUn(op, m[leaf])]
<1>1. /\ Extends(out, ns) /\ Len(ns) < Len(out) /\ Means(m, k, out)
      /\ out \in Seq(FlatNode) /\ Len(out) \in Nat /\ Len(ns) \in Nat
      /\ Last(out) \in Int
  BY DEF Encodes, Extends, Last
<1>2. UnaryKind(op) \in UnaryKinds /\ -1 \in Int
  BY DEF UnaryKind, UnaryKinds
<1>3. node \in FlatNode
  BY <1>1, <1>2, LeaflessTyped
<1>4. /\ Extends(longer, out) /\ Len(longer) = Len(out) + 1 /\ Last(longer) = Len(out)
      /\ \A more : Extends(more, longer) => Extends(more, out) /\ Len(more) \in Nat
  <2> HIDE DEF node
  <2> QED BY <1>1, <1>3, AppendNode
<1>5. ASSUME NEW more, NEW d \in Nat, Extends(more, longer), d + Len(longer) <= Len(more)
      PROVE  /\ Unflatten(more, Last(longer), d) \in ExprsTo(k + 1)
             /\ \A leaf \in DOMAIN m :
                   ExprValue(Unflatten(more, Last(longer), d), leaf) =
                       ApplyUn(op, m[leaf])
  <2> DEFINE e == Unflatten(more, Last(out), d + 1)
             whole == Unflatten(more, Len(out), d)
  <2>1. /\ Len(more) \in Nat /\ d + 1 \in Nat /\ (d + 1) + Len(out) <= Len(more)
        /\ d + Len(out) + 1 <= Len(more) /\ Extends(more, out)
    <3> HIDE DEF longer
    <3> QED BY <1>1, <1>4, <1>5
  <2>2. /\ e \in ExprsTo(k)
        /\ \A leaf \in DOMAIN m : ExprValue(e, leaf) = m[leaf]
    BY <1>1, <2>1 DEF Means
  <2>3. whole = Expr(UnaryKind(op), 0, 0, <<e>>) /\ whole \in ExprsTo(k + 1)
    BY <1>1, <1>2, <1>5, <2>1, <2>2, UnaryReads
  <2> HIDE DEF e, whole
  <2>4. whole \in Exprs
    <3>1. k + 1 \in Nat /\ 2 * Depth \in Nat
      BY DepthAssumption
    <3> QED BY <2>3, <3>1, ExprsGrow DEF Exprs
  <2>5. \A leaf : ExprValue(whole, leaf) = ApplyUn(op, ExprValue(e, leaf))
    BY <2>3, <2>4, ExprValueFacts
  <2> HIDE DEF longer
  <2> QED BY <1>4, <2>2, <2>3, <2>5 DEF whole
<1> HIDE DEF longer
<1>6. Means(applied, k + 1, longer)
  BY <1>5 DEF Means
<1>7. Extends(longer, ns) /\ Len(ns) < Len(longer)
  BY <1>1, <1>4, ExtendsTwice
<1> QED BY <1>6, <1>7 DEF Encodes, longer, node

\* A binary operator on operands encoded one after the other.
LEMMA EncodesBin ==
    ASSUME NEW m, NEW m2, DOMAIN m = DOMAIN m2, NEW op \in DOMAIN KindOf,
           NEW k \in Nat, k + 1 <= 2 * Depth,
           NEW ns, NEW out, Encodes(m, k, ns, out),
           NEW out2, Encodes(m2, k, out, out2)
    PROVE  Encodes([leaf \in DOMAIN m |-> ApplyBin(op, m[leaf], m2[leaf])], k + 1, ns,
                   Append(out2, Leafless(KindOf[op], Last(out), Last(out2))))
<1> DEFINE node == Leafless(KindOf[op], Last(out), Last(out2))
           longer == Append(out2, node)
           applied == [leaf \in DOMAIN m |-> ApplyBin(op, m[leaf], m2[leaf])]
<1>1. /\ Extends(out, ns) /\ Len(ns) < Len(out) /\ Means(m, k, out)
      /\ out \in Seq(FlatNode) /\ Len(out) \in Nat /\ Len(ns) \in Nat
      /\ Last(out) \in Int
      /\ Extends(out2, out) /\ Len(out) < Len(out2) /\ Means(m2, k, out2)
      /\ out2 \in Seq(FlatNode) /\ Len(out2) \in Nat /\ Last(out2) \in Int
  BY DEF Encodes, Extends, Last
<1>2. KindOf[op] \in BinaryKinds
  BY DEF KindOf, BinaryKinds
<1>3. node \in FlatNode
  BY <1>1, <1>2, LeaflessTyped
<1>4. /\ Extends(longer, out2) /\ Len(longer) = Len(out2) + 1 /\ Last(longer) = Len(out2)
      /\ \A more : Extends(more, longer) => Extends(more, out2) /\ Len(more) \in Nat
  <2> HIDE DEF node
  <2> QED BY <1>1, <1>3, AppendNode
<1>5. ASSUME NEW more, NEW d \in Nat, Extends(more, longer), d + Len(longer) <= Len(more)
      PROVE  /\ Unflatten(more, Last(longer), d) \in ExprsTo(k + 1)
             /\ \A leaf \in DOMAIN m :
                   ExprValue(Unflatten(more, Last(longer), d), leaf) =
                       ApplyBin(op, m[leaf], m2[leaf])
  <2> DEFINE e == Unflatten(more, Last(out), d + 1)
             f == Unflatten(more, Last(out2), d + 1)
             whole == Unflatten(more, Len(out2), d)
  <2>1. /\ Len(more) \in Nat /\ d + 1 \in Nat
        /\ (d + 1) + Len(out) <= Len(more) /\ (d + 1) + Len(out2) <= Len(more)
        /\ d + Len(out2) + 1 <= Len(more) /\ Extends(more, out2)
    <3> HIDE DEF longer
    <3> QED BY <1>1, <1>4, <1>5
  <2>2. Extends(more, out)
    BY <1>1, <2>1, ExtendsTwice
  <2>3. /\ e \in ExprsTo(k)
        /\ \A leaf \in DOMAIN m : ExprValue(e, leaf) = m[leaf]
    BY <1>1, <2>1, <2>2 DEF Means
  <2>4. /\ f \in ExprsTo(k)
        /\ \A leaf \in DOMAIN m : ExprValue(f, leaf) = m2[leaf]
    BY <1>1, <2>1 DEF Means
  <2>5. whole = Expr(KindOf[op], 0, 0, <<e, f>>) /\ whole \in ExprsTo(k + 1)
    BY <1>1, <1>2, <1>5, <2>1, <2>3, <2>4, BinaryReads
  <2> HIDE DEF e, f, whole
  <2>6. whole \in Exprs
    <3>1. k + 1 \in Nat /\ 2 * Depth \in Nat
      BY DepthAssumption
    <3> QED BY <2>5, <3>1, ExprsGrow DEF Exprs
  <2>7. \A leaf : ExprValue(whole, leaf) =
                      ApplyBin(op, ExprValue(e, leaf), ExprValue(f, leaf))
    <3>1. Expr(KindOf[op], 0, 0, <<e, f>>) \in Exprs
      BY <2>5, <2>6
    <3>2. ASSUME NEW leaf
          PROVE  ExprValue(Expr(KindOf[op], 0, 0, <<e, f>>), leaf) =
                     ApplyBin(op, ExprValue(e, leaf), ExprValue(f, leaf))
      <4>1. \A o \in DOMAIN KindOf : \A x, y : Expr(KindOf[o], 0, 0, <<x, y>>) \in Exprs =>
                ExprValue(Expr(KindOf[o], 0, 0, <<x, y>>), leaf) =
                    ApplyBin(o, ExprValue(x, leaf), ExprValue(y, leaf))
        BY ExprValueFacts
      <4> QED BY <3>1, <4>1, Zenon
    <3> QED BY <2>5, <3>2
  <2> HIDE DEF longer
  <2> QED BY <1>4, <2>3, <2>4, <2>5, <2>7 DEF whole
<1> HIDE DEF longer
<1>6. Means(applied, k + 1, longer)
  BY <1>5 DEF Means
<1>7. Extends(longer, ns) /\ Len(ns) < Len(longer)
  <2>1. Extends(longer, out)
    BY <1>1, <1>4, ExtendsTwice
  <2>2. Extends(longer, ns)
    BY <1>1, <2>1, ExtendsTwice
  <2> QED BY <1>1, <1>4, <2>2
<1> QED BY <1>6, <1>7 DEF Encodes, longer, node

\* What is read back at some depth is read back at any greater one.
LEMMA EncodesDeeper ==
    ASSUME NEW m, NEW k \in Nat, NEW j \in Nat, k <= j, NEW ns, NEW out,
           Encodes(m, k, ns, out)
    PROVE  Encodes(m, j, ns, out)
<1>1. ExprsTo(k) \subseteq ExprsTo(j)
  BY ExprsGrow
<1> QED BY <1>1 DEF Encodes, Means

\* The values of leaves by name, from those by number.
NamedValues(names, leaf) == [n \in Declared(names) |-> leaf[Index(names, n)]]

\* What a tree means to those who number its leaves.
Meaning(names, t) ==
    [leaf \in [0..Len(names) - 1 -> Int] |-> Evaluate(t, NamedValues(names, leaf))]

\* The encoding of a tree is read back as an expression with its meaning.
LEMMA FlattenEncodes ==
    ASSUME NEW names, GoodNames(names)
    PROVE  \A n \in Nat : n <= Depth =>
               \A t \in TreesOver(Declared(names), n) : \A ns \in Seq(FlatNode) :
                   Encodes(Meaning(names, t), 2 * n, ns, Flatten(names, t, ns))
<1> DEFINE labels == Declared(names)
           leaves == [0..Len(names) - 1 -> Int]
           S == {n \in Nat : n <= Depth =>
                   \A t \in TreesOver(labels, n) : \A ns \in Seq(FlatNode) :
                       Encodes(Meaning(names, t), 2 * n, ns, Flatten(names, t, ns))}
<1>0. /\ labels \in SUBSET Label /\ Depth \in Nat
      /\ \A t : DOMAIN Meaning(names, t) = leaves
      /\ \A t : \A leaf \in leaves :
            Meaning(names, t)[leaf] = Evaluate(t, NamedValues(names, leaf))
  BY IndexFacts, DepthAssumption DEF Label, Meaning
<1>1. \A leaf \in leaves : \A l \in labels :
          /\ NamedValues(names, leaf)[l] = leaf[Index(names, l)]
          /\ NamedValues(names, leaf)[l] \in Int
  BY IndexFacts DEF NamedValues
<1>2. ASSUME NEW v \in Int, NEW k \in Nat, NEW ns \in Seq(FlatNode)
      PROVE  Encodes(Meaning(names, Const(v)), k, ns, Flatten(names, Const(v), ns))
  <2> DEFINE node == Node("constant", v, 0, -1, -1)
  <2>1. /\ node \in FlatNode /\ node.kind = "constant" /\ node.value = v /\ node.var = 0
    BY DEF Node, FlatNode
  <2>2. \A leaf \in leaves : ExprValue(Expr("constant", v, 0, <<>>), leaf) =
                                 Meaning(names, Const(v))[leaf]
    <3>1. \A leaf : ExprValue(Expr("constant", v, 0, <<>>), leaf) = v % Modulus
      BY ExprValueFacts
    <3>2. \A leaf : Evaluate(Const(v), NamedValues(names, leaf)) = v % Modulus
      BY EvaluateEquation
    <3> QED BY <1>0, <3>1, <3>2
  <2>3. Flatten(names, Const(v), ns) = Append(ns, node)
    BY FlattenEquation
  <2> HIDE DEF node
  <2> QED BY <1>0, <2>1, <2>2, <2>3, EncodesLeaf
<1>3. ASSUME NEW l \in labels, NEW k \in Nat, NEW ns \in Seq(FlatNode)
      PROVE  Encodes(Meaning(names, Leaf(l)), k, ns, Flatten(names, Leaf(l), ns))
  <2> DEFINE i == Index(names, l)
             node == Node("variable", 0, i, -1, -1)
  <2>0. i \in Nat /\ l \in Label
    BY <1>0, IndexFacts
  <2>1. /\ node \in FlatNode /\ node.kind = "variable" /\ node.value = 0 /\ node.var = i
    BY <2>0 DEF Node, FlatNode
  <2>2. \A leaf \in leaves : ExprValue(Expr("variable", 0, i, <<>>), leaf) =
                                 Meaning(names, Leaf(l))[leaf]
    <3>1. \A leaf : ExprValue(Expr("variable", 0, i, <<>>), leaf) = leaf[i]
      BY <2>0, ExprValueFacts
    <3>2. \A leaf : Evaluate(Leaf(l), NamedValues(names, leaf)) = NamedValues(names, leaf)[l]
      BY <2>0, EvaluateEquation
    <3> QED BY <1>0, <1>1, <3>1, <3>2
  <2>3. Flatten(names, Leaf(l), ns) = Append(ns, node)
    BY <2>0, FlattenEquation
  <2> HIDE DEF node, i
  <2> QED BY <1>0, <2>1, <2>2, <2>3, EncodesLeaf
<1>4. \A t \in TreesOver(labels, Depth) : \A leaf \in leaves :
          /\ t \in Tree
          /\ Evaluate(t, NamedValues(names, leaf)) \in Int
  BY <1>0, <1>1, TreeOverLabels
<1>5. \A n \in Nat : n <= Depth => TreesOver(labels, n) \subseteq TreesOver(labels, Depth)
  BY <1>0, TreesGrow
<1>10. TreesOver(labels, Depth) \subseteq Tree
  BY <1>0, TreesGrow DEF Tree
<1>6. ASSUME NEW n \in Nat, n + 1 <= Depth, NEW ns \in Seq(FlatNode),
             NEW op \in Prefix, NEW a, Un(op, a) \in TreesOver(labels, n + 1),
             \A out \in Seq(FlatNode) :
                 Encodes(Meaning(names, a), 2 * n, out, Flatten(names, a, out))
      PROVE  Encodes(Meaning(names, Un(op, a)), 2 * (n + 1), ns,
                     Flatten(names, Un(op, a), ns))
  <2> DEFINE t == Un(op, a)
             m == Meaning(names, a)
             out == Flatten(names, a, ns)
  <2>1. Un(op, a) \in Tree
    <3>1. n + 1 \in Nat
      OBVIOUS
    <3>2. TreesOver(labels, n + 1) \subseteq TreesOver(labels, Depth)
      BY <1>5, <1>6, <3>1
    <3> QED BY <1>6, <1>10, <3>2
  <2>2. Encodes(m, 2 * n, ns, out)
    BY <1>6
  <2>3. Flatten(names, t, ns) = Append(out, Leafless(UnaryKind(op), Last(out), -1))
    BY <2>1, FlattenEquation
  <2>4. Meaning(names, t) = [leaf \in DOMAIN m |-> ApplyUn(op, m[leaf])]
    <3>1. \A values : Evaluate(Un(op, a), values) = ApplyUn(op, Evaluate(a, values))
      BY <2>1, EvaluateEquation
    <3>2. \A leaf \in leaves : Meaning(names, t)[leaf] = ApplyUn(op, m[leaf])
      BY <1>0, <3>1
    <3>3. DOMAIN m = leaves
      BY <1>0
    <3>4. Meaning(names, t) = [leaf \in leaves |-> Meaning(names, t)[leaf]]
      BY DEF Meaning
    <3> HIDE DEF m, t
    <3> QED BY <3>2, <3>3, <3>4
  <2>5. 2 * n \in Nat /\ 2 * n + 1 \in Nat /\ 2 * (n + 1) \in Nat
        /\ 2 * n + 1 <= 2 * Depth /\ 2 * n + 1 <= 2 * (n + 1)
    BY <1>0, <1>6
  <2> HIDE DEF m, out, t
  <2>6. Encodes(Meaning(names, t), 2 * n + 1, ns, Flatten(names, t, ns))
    <3> DEFINE k == 2 * n
    <3>1. k \in Nat /\ k + 1 <= 2 * Depth /\ Encodes(m, k, ns, out)
      BY <2>2, <2>5
    <3> HIDE DEF k
    <3>2. Encodes([leaf \in DOMAIN m |-> ApplyUn(op, m[leaf])], k + 1, ns,
                  Append(out, Leafless(UnaryKind(op), Last(out), -1)))
      BY <3>1, EncodesUn
    <3> QED BY <2>3, <2>4, <3>2 DEF k
  <2>7. Encodes(Meaning(names, t), 2 * (n + 1), ns, Flatten(names, t, ns))
    BY <2>5, <2>6, EncodesDeeper
  <2> QED BY <2>7 DEF t
<1>7. ASSUME NEW n \in Nat, n + 1 <= Depth, NEW ns \in Seq(FlatNode),
             NEW op \in Infix, NEW a \in TreesOver(labels, n), NEW b \in TreesOver(labels, n),
             Bin(op, a, b) \in TreesOver(labels, n + 1),
             \A out \in Seq(FlatNode) :
                 /\ Encodes(Meaning(names, a), 2 * n, out, Flatten(names, a, out))
                 /\ Encodes(Meaning(names, b), 2 * n, out, Flatten(names, b, out))
      PROVE  Encodes(Meaning(names, Bin(op, a, b)), 2 * (n + 1), ns,
                     Flatten(names, Bin(op, a, b), ns))
  <2> DEFINE t == Bin(op, a, b)
             m == Meaning(names, a)
             m2 == Meaning(names, b)
             out == Flatten(names, a, ns)
             out2 == Flatten(names, b, out)
  <2>1. Bin(op, a, b) \in Tree
    <3>1. n + 1 \in Nat
      OBVIOUS
    <3>2. TreesOver(labels, n + 1) \subseteq TreesOver(labels, Depth)
      BY <1>5, <1>7, <3>1
    <3> QED BY <1>7, <1>10, <3>2
  <2>2. /\ Encodes(m, 2 * n, ns, out)
        /\ Encodes(m2, 2 * n, out, out2)
    <3>1. Encodes(m, 2 * n, ns, out)
      BY <1>7
    <3>2. out \in Seq(FlatNode)
      <4> HIDE DEF out
      <4> QED BY <3>1 DEF Encodes, Extends
    <3> HIDE DEF out
    <3>3. Encodes(m2, 2 * n, out, out2)
      BY <1>7, <3>2
    <3> QED BY <3>1, <3>3 DEF out
  <2>3. Flatten(names, t, ns) =
            IF op = "-" THEN FlattenDiff(Last(out), Last(out2), out2)
            ELSE Append(out2, Leafless(KindOf[op], Last(out), Last(out2)))
    <3>1. \A o, x, y : Bin(o, x, y) \in Tree =>
              Flatten(names, Bin(o, x, y), ns) =
                  LET more == Flatten(names, y, Flatten(names, x, ns))
                  IN  IF o = "-"
                      THEN FlattenDiff(Last(Flatten(names, x, ns)), Last(more), more)
                      ELSE Append(more, Leafless(KindOf[o],
                                                 Last(Flatten(names, x, ns)), Last(more)))
      BY FlattenEquation
    <3> QED BY <2>1, <3>1, Zenon
  <2>4. /\ DOMAIN m = leaves /\ DOMAIN m2 = leaves
        /\ \A leaf \in leaves : m[leaf] \in Int /\ m2[leaf] \in Int
    <3>1. a \in TreesOver(labels, Depth) /\ b \in TreesOver(labels, Depth)
      <4>1. n <= Depth
        BY <1>0, <1>7
      <4> QED BY <1>5, <1>7, <4>1
    <3> HIDE DEF leaves
    <3> QED BY <1>0, <1>4, <3>1
  <2>5. Meaning(names, t) = [leaf \in leaves |-> ApplyBin(op, m[leaf], m2[leaf])]
    <3>1. \A values : Evaluate(Bin(op, a, b), values) =
                          ApplyBin(op, Evaluate(a, values), Evaluate(b, values))
      <4>1. \A values : \A o, x, y : Bin(o, x, y) \in Tree =>
                Evaluate(Bin(o, x, y), values) =
                    ApplyBin(o, Evaluate(x, values), Evaluate(y, values))
        BY EvaluateEquation
      <4> QED BY <2>1, <4>1, ZenonT(60)
    <3>2. \A leaf \in leaves : Meaning(names, t)[leaf] = ApplyBin(op, m[leaf], m2[leaf])
      BY <1>0, <3>1
    <3>4. Meaning(names, t) = [leaf \in leaves |-> Meaning(names, t)[leaf]]
      BY DEF Meaning
    <3> HIDE DEF m, m2, t
    <3> QED BY <3>2, <3>4
  <2>6. 2 * n \in Nat /\ 2 * n + 1 \in Nat /\ 2 * (n + 1) \in Nat
        /\ 2 * n + 1 <= 2 * Depth /\ 2 * n + 1 <= 2 * (n + 1) /\ 2 * n <= 2 * n + 1
        /\ (2 * n + 1) + 1 <= 2 * Depth /\ (2 * n + 1) + 1 = 2 * (n + 1)
    BY <1>0, <1>7
  <2> HIDE DEF t, m, m2, out, out2
  <2>7. CASE op # "-"
    <3>1. op \in DOMAIN KindOf
      BY <2>7 DEF Infix, KindOf
    <3>2. Encodes([leaf \in DOMAIN m |-> ApplyBin(op, m[leaf], m2[leaf])], 2 * n + 1, ns,
                  Append(out2, Leafless(KindOf[op], Last(out), Last(out2))))
      <4> DEFINE k == 2 * n
      <4>1. k \in Nat /\ k + 1 <= 2 * Depth
        BY <2>6
      <4> HIDE DEF k
      <4>2. Encodes(m, k, ns, out) /\ Encodes(m2, k, out, out2)
        BY <2>2 DEF k
      <4>3. Encodes([leaf \in DOMAIN m |-> ApplyBin(op, m[leaf], m2[leaf])], k + 1, ns,
                    Append(out2, Leafless(KindOf[op], Last(out), Last(out2))))
        BY <2>4, <3>1, <4>1, <4>2, EncodesBin
      <4> QED BY <4>3 DEF k
    <3>3. Encodes(Meaning(names, t), 2 * n + 1, ns, Flatten(names, t, ns))
      <4>1. Meaning(names, t) = [leaf \in DOMAIN m |-> ApplyBin(op, m[leaf], m2[leaf])]
        <5> HIDE DEF leaves
        <5> QED BY <2>4, <2>5
      <4>2. Flatten(names, t, ns) =
                Append(out2, Leafless(KindOf[op], Last(out), Last(out2)))
        BY <2>3, <2>7
      <4> QED BY <3>2, <4>1, <4>2, Zenon
    <3>4. Encodes(Meaning(names, t), 2 * (n + 1), ns, Flatten(names, t, ns))
      BY <2>6, <3>3, EncodesDeeper
    <3> QED BY <3>4 DEF t
  <2>8. CASE op = "-"
    <3> DEFINE neg == Append(out2, Leafless("neg", Last(out2), -1))
               m3  == [leaf \in DOMAIN m2 |-> ApplyUn("-", m2[leaf])]
               k   == 2 * n
    <3>1. k \in Nat /\ k + 1 \in Nat /\ k <= k + 1 /\ k + 1 <= 2 * Depth
          /\ (k + 1) + 1 <= 2 * Depth /\ (k + 1) + 1 = 2 * (n + 1)
      BY <2>6
    <3>2. Encodes(m, k, ns, out) /\ Encodes(m2, k, out, out2)
      BY <2>2
    <3>3. Flatten(names, t, ns) = Append(neg, Leafless("add", Last(out), Last(neg)))
      BY <2>3, <2>8 DEF FlattenDiff
    <3> HIDE DEF k
    <3>4. UnaryKind("-") = "neg" /\ "-" \in Prefix /\ KindOf["+"] = "add" /\ "+" \in DOMAIN KindOf
      BY DEF UnaryKind, Prefix, KindOf
    <3>5. Encodes(m3, k + 1, out, neg)
      <4>1. Encodes(m3, k + 1, out,
                    Append(out2, Leafless(UnaryKind("-"), Last(out2), -1)))
        BY <3>1, <3>2, <3>4, EncodesUn
      <4> QED BY <3>4, <4>1
    <3>6. Encodes(m, k + 1, ns, out)
      BY <3>1, <3>2, EncodesDeeper
    <3>7. DOMAIN m3 = DOMAIN m /\ \A leaf \in leaves : m3[leaf] = ApplyUn("-", m2[leaf])
      BY <2>4
    <3> HIDE DEF m3, neg
    <3>8. Encodes([leaf \in DOMAIN m |-> ApplyBin("+", m[leaf], m3[leaf])], (k + 1) + 1, ns,
                  Append(neg, Leafless(KindOf["+"], Last(out), Last(neg))))
      <4> DEFINE j == k + 1
      <4> HIDE DEF j
      <4>1. j \in Nat /\ j + 1 <= 2 * Depth /\ Encodes(m, j, ns, out) /\ Encodes(m3, j, out, neg)
        BY <3>1, <3>5, <3>6 DEF j
      <4>2. Encodes([leaf \in DOMAIN m |-> ApplyBin("+", m[leaf], m3[leaf])], j + 1, ns,
                    Append(neg, Leafless(KindOf["+"], Last(out), Last(neg))))
        BY <3>4, <3>7, <4>1, EncodesBin
      <4> QED BY <4>2 DEF j
    <3>9. [leaf \in DOMAIN m |-> ApplyBin("+", m[leaf], m3[leaf])] = Meaning(names, t)
      <4>1. \A leaf \in leaves : ApplyBin("+", m[leaf], m3[leaf]) =
                                     ApplyBin(op, m[leaf], m2[leaf])
        BY <2>4, <2>8, <3>7, DifferenceIsSum
      <4> HIDE DEF leaves
      <4> QED BY <2>4, <2>5, <4>1
    <3>10. Encodes(Meaning(names, t), (k + 1) + 1, ns, Flatten(names, t, ns))
      BY <3>3, <3>4, <3>8, <3>9, Zenon
    <3> QED BY <3>1, <3>10 DEF t
  <2> QED BY <2>7, <2>8 DEF t
<1>8. 0 \in S
  <2>1. \A t \in TreesOver(labels, 0) :
            \/ t.value \in Int /\ t = Const(t.value)
            \/ t.name \in labels /\ t = Leaf(t.name)
    BY TreeCases
  <2>2. 2 * 0 \in Nat
    OBVIOUS
  <2> QED BY <1>2, <1>3, <2>1, <2>2
<1>9. ASSUME NEW n \in Nat, n \in S PROVE n + 1 \in S
  <2>1. SUFFICES ASSUME n + 1 <= Depth, NEW t \in TreesOver(labels, n + 1),
                        NEW ns \in Seq(FlatNode)
                 PROVE  Encodes(Meaning(names, t), 2 * (n + 1), ns, Flatten(names, t, ns))
    OBVIOUS
  <2>2. n + 1 \in Nat /\ (n + 1) - 1 = n /\ n <= Depth /\ 2 * (n + 1) \in Nat
    BY <1>0, <2>1
  <2>3. \A u \in TreesOver(labels, n) : \A out \in Seq(FlatNode) :
            Encodes(Meaning(names, u), 2 * n, out, Flatten(names, u, out))
    BY <1>9, <2>2
  <2>4. \/ t.kind = "const" /\ t.value \in Int /\ t = Const(t.value)
        \/ t.kind = "var" /\ t.name \in labels /\ t = Leaf(t.name)
        \/ /\ t.kind = "un" /\ t.op \in Prefix /\ t = Un(t.op, t.a)
           /\ t.a \in TreesOver(labels, n)
        \/ /\ t.kind = "bin" /\ t.op \in Infix /\ t = Bin(t.op, t.a, t.b)
           /\ t.a \in TreesOver(labels, n) /\ t.b \in TreesOver(labels, n)
    BY <2>2, TreeCases
  <2>5. CASE t.kind = "const"
    BY <1>2, <2>2, <2>4, <2>5
  <2>6. CASE t.kind = "var"
    BY <1>3, <2>2, <2>4, <2>6
  <2>7. CASE t.kind = "un"
    <3> DEFINE op == t.op
               a == t.a
    <3>1. op \in Prefix /\ t = Un(op, a) /\ Un(op, a) \in TreesOver(labels, n + 1)
          /\ a \in TreesOver(labels, n)
      BY <2>1, <2>4, <2>7
    <3> HIDE DEF op, a
    <3>2. Encodes(Meaning(names, Un(op, a)), 2 * (n + 1), ns, Flatten(names, Un(op, a), ns))
      BY <1>6, <2>1, <2>3, <3>1
    <3> QED BY <3>1, <3>2
  <2>8. CASE t.kind = "bin"
    <3> DEFINE op == t.op
               a == t.a
               b == t.b
    <3>1. op \in Infix /\ t = Bin(op, a, b) /\ Bin(op, a, b) \in TreesOver(labels, n + 1)
          /\ a \in TreesOver(labels, n) /\ b \in TreesOver(labels, n)
      BY <2>1, <2>4, <2>8
    <3> HIDE DEF op, a, b
    <3>2. Encodes(Meaning(names, Bin(op, a, b)), 2 * (n + 1), ns,
                  Flatten(names, Bin(op, a, b), ns))
      BY <1>7, <2>1, <2>3, <3>1
    <3> QED BY <3>1, <3>2
  <2> QED BY <2>4, <2>5, <2>6, <2>7, <2>8
<1> HIDE DEF S
<1>11. Nat \subseteq S
  BY <1>8, <1>9, ExprsRec!NatSetInduction
<1> QED BY <1>11 DEF S

\* The solver, asked by the binding, is given an expression with the meaning of
\* the tree.
LEMMA UnflattenFlatten ==
    ASSUME NEW names, GoodNames(names), NEW t \in TreesOver(Declared(names), Depth),
           NEW ns, ns = Flatten(names, t, <<>>)
    PROVE  \A leaf \in [0..Len(names) - 1 -> Int] :
               ExprValue(Unflatten(ns, Last(ns), 0), leaf) =
                   Evaluate(t, NamedValues(names, leaf))
<1>1. <<>> \in Seq(FlatNode) /\ Depth \in Nat
  BY DepthAssumption
<1>2. Encodes(Meaning(names, t), 2 * Depth, <<>>, ns)
  <2>1. \A n \in Nat : n <= Depth =>
            \A u \in TreesOver(Declared(names), n) : \A out \in Seq(FlatNode) :
                Encodes(Meaning(names, u), 2 * n, out, Flatten(names, u, out))
    BY FlattenEncodes
  <2>2. Depth <= Depth
    BY <1>1
  <2>3. Encodes(Meaning(names, t), 2 * Depth, <<>>, Flatten(names, t, <<>>))
    BY <1>1, <2>1, <2>2, Zenon
  <2> QED BY <2>3
<1>3. Extends(ns, ns) /\ Len(ns) \in Nat /\ Means(Meaning(names, t), 2 * Depth, ns)
  BY <1>2 DEF Encodes, Extends
<1>4. \A leaf \in DOMAIN Meaning(names, t) :
          ExprValue(Unflatten(ns, Last(ns), 0), leaf) = Meaning(names, t)[leaf]
  BY <1>3 DEF Means
<1> QED BY <1>4 DEF Meaning

-----------------------------------------------------------------------------
(* The text of cobra-cli.                                                  *)

TextsOn(texts) ==
    [kind : {"UnaryOp"}, op : {"~", "-", "+"}, a : texts]
    \cup [kind : {"BinOp"}, op : Infix \cup {"<<"}, a : texts, b : texts]

TextsStep(p, level, n) ==
    [kind : {"Constant"}, value : Int] \cup [kind : {"Name"}, var : Nat]
    \cup IF n = 0 THEN {} ELSE TextsOn(level[n - 1])

TextsRec == INSTANCE Recursion
    WITH Domain <- OverNat, Rank <- Itself, Step <- TextsStep

\* The texts of a depth, from those of the depth before.
LEMMA TextsEquation ==
    ASSUME NEW n \in Nat
    PROVE  TextsTo(n) =
               [kind : {"Constant"}, value : Int] \cup [kind : {"Name"}, var : Nat]
               \cup IF n = 0 THEN {} ELSE TextsOn(TextsTo(n - 1))
<1>1. TextsRec!Ranked(0)
  BY DEF TextsRec!Ranked, OverNat, Itself
<1>2. TextsRec!Descends(0)
  BY DEF TextsRec!Descends, OverNat, Itself, TextsStep
<1>3. \A k \in Nat : TextsRec!Fix(0)[k] = TextsStep(0, TextsRec!Fix(0), k)
  BY <1>1, <1>2, TextsRec!RecursiveEquation DEF OverNat
<1>4. \A k : TextsTo(k) = TextsRec!Fix(0)[k]
  BY DEF TextsTo, TextsRec!Fix, OverNat, TextsStep, TextsOn
<1> QED BY <1>3, <1>4 DEF TextsStep

\* What text is made of.
LEMMA TextMake ==
    ASSUME NEW n \in Nat
    PROVE  /\ \A v \in Int : Number(v) \in TextsTo(n)
           /\ \A i \in Nat : Name(i) \in TextsTo(n)
           /\ \A op \in Prefix : \A a \in TextsTo(n) : UnaryOp(op, a) \in TextsTo(n + 1)
           /\ \A op \in Infix : \A a, b \in TextsTo(n) : BinOp(op, a, b) \in TextsTo(n + 1)
<1>1. n + 1 \in Nat /\ n + 1 # 0 /\ (n + 1) - 1 = n
  OBVIOUS
<1>2. TextsOn(TextsTo(n)) \subseteq TextsTo(n + 1)
  <2>1. TextsTo(n + 1) =
            [kind : {"Constant"}, value : Int] \cup [kind : {"Name"}, var : Nat]
            \cup TextsOn(TextsTo(n))
    BY <1>1, TextsEquation
  <2> QED BY <2>1
<1>3. \A v \in Int : Number(v) \in TextsTo(n)
  BY TextsEquation DEF Number
<1>4. \A i \in Nat : Name(i) \in TextsTo(n)
  BY TextsEquation DEF Name
<1>5. \A op \in Prefix : \A a \in TextsTo(n) : UnaryOp(op, a) \in TextsTo(n + 1)
  BY <1>2 DEF UnaryOp, TextsOn, Prefix
<1>6. \A op \in Infix : \A a, b \in TextsTo(n) : BinOp(op, a, b) \in TextsTo(n + 1)
  BY <1>2 DEF BinOp, TextsOn
<1> QED BY <1>3, <1>4, <1>5, <1>6

\* The other way round.
LEMMA TextCases ==
    ASSUME NEW n \in Nat, NEW t \in TextsTo(n)
    PROVE  \/ t.kind = "Constant" /\ t.value \in Int /\ t = Number(t.value)
           \/ t.kind = "Name" /\ t.var \in Nat /\ t = Name(t.var)
           \/ /\ t.kind = "UnaryOp" /\ t.op \in {"~", "-", "+"} /\ t = UnaryOp(t.op, t.a)
              /\ n # 0 /\ t.a \in TextsTo(n - 1)
           \/ /\ t.kind = "BinOp" /\ t.op \in Infix \cup {"<<"}
              /\ t = BinOp(t.op, t.a, t.b)
              /\ n # 0 /\ t.a \in TextsTo(n - 1) /\ t.b \in TextsTo(n - 1)
BY TextsEquation DEF TextsOn, Number, Name, UnaryOp, BinOp

\* A deeper bound admits more text.
LEMMA TextsGrow ==
    \A n, k \in Nat : n <= k => TextsTo(n) \subseteq TextsTo(k)
<1> DEFINE S == {n \in Nat : TextsTo(n) \subseteq TextsTo(n + 1)}
           L == [n \in Nat |-> TextsTo(n)]
<1>1. \A A, B : A \subseteq B => TextsOn(A) \subseteq TextsOn(B)
  BY DEF TextsOn
<1>2. 0 \in S
  BY TextsEquation
<1>3. ASSUME NEW n \in Nat, n \in S PROVE n + 1 \in S
  <2>1. n + 1 \in Nat /\ n + 2 \in Nat /\ (n + 1) - 1 = n /\ (n + 2) - 1 = n + 1
        /\ (n + 1) + 1 = n + 2 /\ n + 1 # 0 /\ n + 2 # 0
    OBVIOUS
  <2>2. TextsOn(TextsTo(n)) \subseteq TextsOn(TextsTo(n + 1))
    BY <1>1, <1>3
  <2>3. TextsTo(n + 1) \subseteq TextsTo(n + 2)
    BY <2>1, <2>2, TextsEquation
  <2> QED BY <2>1, <2>3
<1> HIDE DEF S
<1>4. Nat \subseteq S
  BY <1>2, <1>3, TextsRec!NatSetInduction
<1>5. \A n \in Nat : L[n] \subseteq L[n + 1]
  BY <1>4 DEF S
<1> HIDE DEF L
<1>6. \A n, k \in Nat : n <= k => L[n] \subseteq L[k]
  BY <1>5, TextsRec!LevelsGrow
<1> QED BY <1>6 DEF L

TextLevel == [n \in Nat |-> TextsTo(n)]

TextDomain(p)    == Text
TextHeight(p, t) == TextsRec!LevelOf(TextLevel, t)

\* The operands of text are text, and less high.
LEMMA TextDescends ==
    ASSUME NEW t \in Text
    PROVE  /\ TextHeight(0, t) \in Nat
           /\ t.kind \in {"UnaryOp", "BinOp"} =>
                 t.a \in Text /\ TextHeight(0, t.a) < TextHeight(0, t)
           /\ t.kind = "BinOp" =>
                 t.b \in Text /\ TextHeight(0, t.b) < TextHeight(0, t)
<1> DEFINE H(x) == TextHeight(0, x)
<1>0. Depth \in Nat
  BY DepthAssumption
<1>1. ASSUME NEW x, NEW n \in Nat, x \in TextsTo(n)
      PROVE  H(x) \in Nat /\ x \in TextsTo(H(x)) /\ H(x) <= n
  BY <1>1, TextsRec!FirstLevel DEF TextHeight, TextLevel
<1> HIDE DEF H
<1>2. H(t) \in Nat /\ t \in TextsTo(H(t)) /\ H(t) <= Depth
  BY <1>0, <1>1 DEF Text
<1>3. \A n \in Nat : n <= Depth => TextsTo(n) \subseteq Text
  BY <1>0, TextsGrow DEF Text
<1>4. ASSUME NEW x, H(t) # 0, x \in TextsTo(H(t) - 1)
      PROVE  x \in Text /\ H(x) < H(t)
  <2>1. H(t) - 1 \in Nat /\ H(t) - 1 <= Depth
    BY <1>0, <1>2, <1>4
  <2>2. H(x) \in Nat /\ H(x) <= H(t) - 1
    BY <1>1, <1>4, <2>1
  <2> QED BY <1>2, <1>3, <1>4, <2>1, <2>2
<1>5. \/ t.kind \in {"Constant", "Name"}
      \/ t.kind = "UnaryOp" /\ H(t) # 0 /\ t.a \in TextsTo(H(t) - 1)
      \/ /\ t.kind = "BinOp" /\ H(t) # 0
         /\ t.a \in TextsTo(H(t) - 1) /\ t.b \in TextsTo(H(t) - 1)
  BY <1>2, TextCases
<1> QED BY <1>2, <1>4, <1>5 DEF H

TextValueRec == INSTANCE Recursion
    WITH Domain <- TextDomain, Rank <- TextHeight, Step <- TextValueNode

\* What text means, by its root.
LEMMA TextValueEquation ==
    ASSUME NEW leaf
    PROVE  \E value :
               /\ \A t : TextValue(t, leaf) = value[t]
               /\ \A t \in Text : value[t] = TextValueNode(leaf, value, t)
<1>0. \A t \in Text : TextHeight(leaf, t) \in Nat /\ TextHeight(leaf, t) = TextHeight(0, t)
  BY TextDescends DEF TextHeight
<1>1. TextValueRec!Ranked(leaf)
  BY <1>0 DEF TextValueRec!Ranked, TextDomain
<1>2. TextValueRec!Descends(leaf)
  <2>1. SUFFICES ASSUME NEW g, NEW h, NEW t \in Text,
                        \A u \in Text :
                            TextHeight(leaf, u) < TextHeight(leaf, t) => g[u] = h[u]
                 PROVE  TextValueNode(leaf, g, t) = TextValueNode(leaf, h, t)
    BY DEF TextValueRec!Descends, TextDomain
  <2>2. /\ t.kind \in {"UnaryOp", "BinOp"} => g[t.a] = h[t.a]
        /\ t.kind = "BinOp" => g[t.b] = h[t.b]
    BY <1>0, <2>1, TextDescends
  <2> QED BY <2>2 DEF TextValueNode
<1>3. \A t : TextValue(t, leaf) = TextValueRec!Fix(leaf)[t]
  BY DEF TextValue, TextValueRec!Fix, TextDomain
<1>4. \A t \in Text :
          TextValueRec!Fix(leaf)[t] = TextValueNode(leaf, TextValueRec!Fix(leaf), t)
  BY <1>1, <1>2, TextValueRec!RecursiveEquation DEF TextDomain
<1> QED BY <1>3, <1>4

\* The same by what the text is.
LEMMA TextValueFacts ==
    ASSUME NEW leaf
    PROVE  /\ \A v \in Int : TextValue(Number(v), leaf) = v % Modulus
           /\ \A i \in Nat : TextValue(Name(i), leaf) = leaf[i]
           /\ \A op, a : UnaryOp(op, a) \in Text =>
                 TextValue(UnaryOp(op, a), leaf) =
                     IF op = "+" THEN TextValue(a, leaf)
                     ELSE ApplyUn(op, TextValue(a, leaf))
           /\ \A op, a, b : BinOp(op, a, b) \in Text =>
                 TextValue(BinOp(op, a, b), leaf) =
                     ApplyBin(op, TextValue(a, leaf), TextValue(b, leaf))
<1>0. PICK value :
          /\ \A t : TextValue(t, leaf) = value[t]
          /\ \A t \in Text : value[t] = TextValueNode(leaf, value, t)
  BY TextValueEquation
<1>1. /\ \A v \in Int : Number(v) \in Text
      /\ \A i \in Nat : Name(i) \in Text
  BY TextMake, DepthAssumption DEF Text
<1>2. \A v \in Int : TextValue(Number(v), leaf) = v % Modulus
  BY <1>0, <1>1 DEF TextValueNode, Number
<1>3. \A i \in Nat : TextValue(Name(i), leaf) = leaf[i]
  BY <1>0, <1>1 DEF TextValueNode, Name
<1>4. ASSUME NEW op, NEW a, UnaryOp(op, a) \in Text
      PROVE  TextValue(UnaryOp(op, a), leaf) =
                 IF op = "+" THEN TextValue(a, leaf) ELSE ApplyUn(op, TextValue(a, leaf))
  <2> DEFINE x == UnaryOp(op, a)
  <2>1. x.kind = "UnaryOp" /\ x.op = op /\ x.a = a /\ x \in Text
    BY <1>4 DEF UnaryOp
  <2> HIDE DEF x
  <2>2. value[x] = IF op = "+" THEN value[a] ELSE ApplyUn(op, value[a])
    BY <1>0, <2>1 DEF TextValueNode
  <2> QED BY <1>0, <2>2 DEF x
<1>5. ASSUME NEW op, NEW a, NEW b, BinOp(op, a, b) \in Text
      PROVE  TextValue(BinOp(op, a, b), leaf) =
                 ApplyBin(op, TextValue(a, leaf), TextValue(b, leaf))
  <2> DEFINE x == BinOp(op, a, b)
  <2>1. x.kind = "BinOp" /\ x.op = op /\ x.a = a /\ x.b = b /\ x \in Text
    BY <1>5 DEF BinOp
  <2> HIDE DEF x
  <2>2. value[x] = ApplyBin(op, value[a], value[b])
    BY <1>0, <2>1 DEF TextValueNode
  <2> QED BY <1>0, <2>2 DEF x
<1> QED BY <1>2, <1>3, <1>4, <1>5

RenderRec == INSTANCE Recursion
    WITH Domain <- TreeDomain, Rank <- TreeHeight, Step <- RenderNode

\* The text of a tree, by its root.
LEMMA RenderEquation ==
    ASSUME NEW names
    PROVE  /\ \A v \in Int : Render(names, Const(v)) = Number(v)
           /\ \A l \in Label : Render(names, Leaf(l)) = Name(Index(names, l))
           /\ \A op, a : Un(op, a) \in Tree =>
                 Render(names, Un(op, a)) = UnaryOp(op, Render(names, a))
           /\ \A op, a, b : Bin(op, a, b) \in Tree =>
                 Render(names, Bin(op, a, b)) = BinOp(op, Render(names, a), Render(names, b))
<1> DEFINE F == RenderRec!Fix(names)
<1>1. RenderRec!Ranked(names)
  BY HeightDescends DEF RenderRec!Ranked, TreeDomain, TreeHeight
<1>2. RenderRec!Descends(names)
  <2>1. SUFFICES ASSUME NEW g, NEW h, NEW t \in Tree,
                        \A u \in Tree : Height(u) < Height(t) => g[u] = h[u]
                 PROVE  RenderNode(names, g, t) = RenderNode(names, h, t)
    BY DEF RenderRec!Descends, TreeDomain, TreeHeight
  <2> QED BY <2>1, HeightDescends DEF RenderNode
<1>3. \A t : Render(names, t) = F[t]
  BY DEF Render, RenderRec!Fix, TreeDomain
<1>4. \A t \in Tree : F[t] = RenderNode(names, F, t)
  BY <1>1, <1>2, RenderRec!RecursiveEquation DEF TreeDomain
<1> HIDE DEF F
<1>5. \A v \in Int : Render(names, Const(v)) = Number(v)
  BY <1>3, <1>4, LeavesAreTrees DEF Const, RenderNode
<1>6. \A l \in Label : Render(names, Leaf(l)) = Name(Index(names, l))
  BY <1>3, <1>4, LeavesAreTrees DEF Leaf, RenderNode
<1>7. \A op, a : Un(op, a) \in Tree =>
          Render(names, Un(op, a)) = UnaryOp(op, Render(names, a))
  BY <1>3, <1>4 DEF Un, RenderNode
<1>8. \A op, a, b : Bin(op, a, b) \in Tree =>
          Render(names, Bin(op, a, b)) = BinOp(op, Render(names, a), Render(names, b))
  BY <1>3, <1>4 DEF Bin, RenderNode
<1> QED BY <1>5, <1>6, <1>7, <1>8

\* cobra-cli is given text with the meaning of the tree.
LEMMA RenderMeans ==
    ASSUME NEW names, GoodNames(names), NEW leaf \in [0..Len(names) - 1 -> Int]
    PROVE  \A t \in TreesOver(Declared(names), Depth) :
               /\ Render(names, t) \in Text
               /\ TextValue(Render(names, t), leaf) = Evaluate(t, NamedValues(names, leaf))
<1> DEFINE labels == Declared(names)
           values == NamedValues(names, leaf)
           S == {n \in Nat : n <= Depth =>
                   \A t \in TreesOver(labels, n) :
                       /\ Render(names, t) \in TextsTo(n)
                       /\ TextValue(Render(names, t), leaf) = Evaluate(t, values)}
<1>0. /\ labels \in SUBSET Label /\ Depth \in Nat
      /\ \A l \in labels : l \in Label /\ Index(names, l) \in Nat
                           /\ values[l] = leaf[Index(names, l)]
  BY IndexFacts, DepthAssumption DEF Label, NamedValues
<1> HIDE DEF values
<1>1. \A n \in Nat : n <= Depth =>
          /\ TreesOver(labels, n) \subseteq Tree
          /\ TextsTo(n) \subseteq Text
  BY <1>0, TreesGrow, TextsGrow DEF Tree, Text
<1>2. \A n \in Nat : \A v \in Int :
          /\ Render(names, Const(v)) \in TextsTo(n)
          /\ TextValue(Render(names, Const(v)), leaf) = Evaluate(Const(v), values)
  <2>1. \A v \in Int : Render(names, Const(v)) = Number(v)
    BY RenderEquation
  <2>2. \A v \in Int : TextValue(Number(v), leaf) = v % Modulus
    BY TextValueFacts
  <2>3. \A v \in Int : Evaluate(Const(v), values) = v % Modulus
    BY EvaluateEquation
  <2>4. \A n \in Nat : \A v \in Int : Number(v) \in TextsTo(n)
    BY TextMake
  <2> QED BY <2>1, <2>2, <2>3, <2>4
<1>3. \A n \in Nat : \A l \in labels :
          /\ Render(names, Leaf(l)) \in TextsTo(n)
          /\ TextValue(Render(names, Leaf(l)), leaf) = Evaluate(Leaf(l), values)
  BY <1>0, TextMake, RenderEquation, TextValueFacts, EvaluateEquation
<1>4. 0 \in S
  <2>1. \A t \in TreesOver(labels, 0) :
            \/ t.value \in Int /\ t = Const(t.value)
            \/ t.name \in labels /\ t = Leaf(t.name)
    BY TreeCases
  <2> QED BY <1>2, <1>3, <2>1
<1>5. ASSUME NEW n \in Nat, n \in S PROVE n + 1 \in S
  <2>1. SUFFICES ASSUME n + 1 <= Depth, NEW t \in TreesOver(labels, n + 1)
                 PROVE  /\ Render(names, t) \in TextsTo(n + 1)
                        /\ TextValue(Render(names, t), leaf) = Evaluate(t, values)
    OBVIOUS
  <2>2. n + 1 \in Nat /\ (n + 1) - 1 = n /\ n <= Depth
    BY <1>0, <2>1
  <2>3. \A u \in TreesOver(labels, n) :
            /\ Render(names, u) \in TextsTo(n)
            /\ TextValue(Render(names, u), leaf) = Evaluate(u, values)
    BY <1>5, <2>2
  <2>4. \/ t.kind = "const" /\ t.value \in Int /\ t = Const(t.value)
        \/ t.kind = "var" /\ t.name \in labels /\ t = Leaf(t.name)
        \/ /\ t.kind = "un" /\ t.op \in Prefix /\ t = Un(t.op, t.a)
           /\ t.a \in TreesOver(labels, n)
        \/ /\ t.kind = "bin" /\ t.op \in Infix /\ t = Bin(t.op, t.a, t.b)
           /\ t.a \in TreesOver(labels, n) /\ t.b \in TreesOver(labels, n)
    BY <2>2, TreeCases
  <2>5. CASE t.kind = "const"
    BY <1>2, <2>2, <2>4, <2>5
  <2>6. CASE t.kind = "var"
    BY <1>3, <2>2, <2>4, <2>6
  <2>7. CASE t.kind = "un"
    <3> DEFINE op == t.op
               a == t.a
    <3>1. op \in Prefix /\ t = Un(op, a) /\ a \in TreesOver(labels, n) /\ t \in Tree
      BY <1>1, <2>1, <2>2, <2>4, <2>7
    <3> HIDE DEF op, a
    <3>2. Render(names, t) = UnaryOp(op, Render(names, a))
      BY <3>1, RenderEquation
    <3>3. Render(names, t) \in TextsTo(n + 1)
      BY <2>3, <3>1, <3>2, TextMake
    <3>4. UnaryOp(op, Render(names, a)) \in Text /\ op # "+"
      BY <1>1, <2>1, <2>2, <3>1, <3>2, <3>3 DEF Prefix
    <3>5. TextValue(Render(names, t), leaf) = ApplyUn(op, TextValue(Render(names, a), leaf))
      BY <3>2, <3>4, TextValueFacts
    <3>6. Evaluate(t, values) = ApplyUn(op, Evaluate(a, values))
      BY <3>1, EvaluateEquation
    <3> QED BY <2>3, <3>1, <3>3, <3>5, <3>6
  <2>8. CASE t.kind = "bin"
    <3> DEFINE op == t.op
               a == t.a
               b == t.b
    <3>1. op \in Infix /\ t = Bin(op, a, b) /\ a \in TreesOver(labels, n)
          /\ b \in TreesOver(labels, n) /\ t \in Tree
      BY <1>1, <2>1, <2>2, <2>4, <2>8
    <3> HIDE DEF op, a, b
    <3>2. Render(names, t) = BinOp(op, Render(names, a), Render(names, b))
      <4>1. \A o, x, y : Bin(o, x, y) \in Tree =>
                Render(names, Bin(o, x, y)) = BinOp(o, Render(names, x), Render(names, y))
        BY RenderEquation
      <4> QED BY <3>1, <4>1
    <3>3. Render(names, t) \in TextsTo(n + 1)
      BY <2>3, <3>1, <3>2, TextMake
    <3>4. BinOp(op, Render(names, a), Render(names, b)) \in Text
      BY <1>1, <2>1, <2>2, <3>2, <3>3
    <3>5. TextValue(Render(names, t), leaf) =
              ApplyBin(op, TextValue(Render(names, a), leaf), TextValue(Render(names, b), leaf))
      BY <3>2, <3>4, TextValueFacts
    <3>6. Evaluate(t, values) = ApplyBin(op, Evaluate(a, values), Evaluate(b, values))
      <4>1. \A o, x, y : Bin(o, x, y) \in Tree =>
                Evaluate(Bin(o, x, y), values) =
                    ApplyBin(o, Evaluate(x, values), Evaluate(y, values))
        BY EvaluateEquation
      <4> QED BY <3>1, <4>1
    <3> QED BY <2>3, <3>1, <3>3, <3>5, <3>6
  <2> QED BY <2>4, <2>5, <2>6, <2>7, <2>8
<1> HIDE DEF S
<1>6. Nat \subseteq S
  BY <1>4, <1>5, TextsRec!NatSetInduction
<1>7. Depth \in S
  BY <1>0, <1>6
<1> QED BY <1>0, <1>7 DEF S, Text, values

-----------------------------------------------------------------------------
(* The answer of cobra-cli.                                                *)

ConvertRec == INSTANCE Recursion
    WITH Domain <- TextDomain, Rank <- TextHeight, Step <- ConvertNode

\* What text is parsed as, by its root.
LEMMA ConvertEquation ==
    ASSUME NEW names
    PROVE  /\ \A v \in Int : Convert(names, Number(v)) = Const(v)
           /\ \A i \in Nat : Convert(names, Name(i)) =
                 IF i < Len(names) THEN Leaf(names[i + 1]) ELSE Nothing
           /\ \A op, a : UnaryOp(op, a) \in Text =>
                 Convert(names, UnaryOp(op, a)) =
                     IF Convert(names, a) = Nothing THEN Nothing
                     ELSE CASE op = "~" -> Un("~", Convert(names, a))
                            [] op = "-" -> NegateParsed(Convert(names, a))
                            [] op = "+" -> Convert(names, a)
           /\ \A op, a, b : BinOp(op, a, b) \in Text =>
                 Convert(names, BinOp(op, a, b)) =
                     IF \/ op \notin BoolOps \cup ArithOps
                        \/ Convert(names, a) = Nothing \/ Convert(names, b) = Nothing
                     THEN Nothing ELSE Bin(op, Convert(names, a), Convert(names, b))
<1> DEFINE F == ConvertRec!Fix(names)
<1>0. \A t \in Text : TextHeight(names, t) \in Nat /\ TextHeight(names, t) = TextHeight(0, t)
  BY TextDescends DEF TextHeight
<1>1. ConvertRec!Ranked(names)
  BY <1>0 DEF ConvertRec!Ranked, TextDomain
<1>2. ConvertRec!Descends(names)
  <2>1. SUFFICES ASSUME NEW g, NEW h, NEW t \in Text,
                        \A u \in Text :
                            TextHeight(names, u) < TextHeight(names, t) => g[u] = h[u]
                 PROVE  ConvertNode(names, g, t) = ConvertNode(names, h, t)
    BY DEF ConvertRec!Descends, TextDomain
  <2>2. /\ t.kind \in {"UnaryOp", "BinOp"} => g[t.a] = h[t.a]
        /\ t.kind = "BinOp" => g[t.b] = h[t.b]
    BY <1>0, <2>1, TextDescends
  <2>3. t.kind \in {"Constant", "Name", "UnaryOp", "BinOp"}
    BY TextCases, DepthAssumption DEF Text
  <2>4. CASE t.kind \in {"Constant", "Name"}
    BY <2>4 DEF ConvertNode
  <2>5. CASE t.kind = "UnaryOp"
    BY <2>2, <2>5 DEF ConvertNode
  <2>6. CASE t.kind = "BinOp"
    BY <2>2, <2>6 DEF ConvertNode
  <2> QED BY <2>3, <2>4, <2>5, <2>6
<1>3. \A t : Convert(names, t) = F[t]
  BY DEF Convert, ConvertRec!Fix, TextDomain
<1>4. \A t \in Text : F[t] = ConvertNode(names, F, t)
  BY <1>1, <1>2, ConvertRec!RecursiveEquation DEF TextDomain
<1> HIDE DEF F
<1>5. /\ \A v \in Int : Number(v) \in Text
      /\ \A i \in Nat : Name(i) \in Text
  BY TextMake, DepthAssumption DEF Text
<1>6. \A v \in Int : Convert(names, Number(v)) = Const(v)
  BY <1>3, <1>4, <1>5 DEF Number, ConvertNode
<1>7. \A i \in Nat : Convert(names, Name(i)) =
          IF i < Len(names) THEN Leaf(names[i + 1]) ELSE Nothing
  BY <1>3, <1>4, <1>5 DEF Name, ConvertNode
<1>8. ASSUME NEW op, NEW a, UnaryOp(op, a) \in Text
      PROVE  Convert(names, UnaryOp(op, a)) =
                 IF Convert(names, a) = Nothing THEN Nothing
                 ELSE CASE op = "~" -> Un("~", Convert(names, a))
                        [] op = "-" -> NegateParsed(Convert(names, a))
                        [] op = "+" -> Convert(names, a)
  <2> DEFINE x == UnaryOp(op, a)
  <2>1. x.kind = "UnaryOp" /\ x.op = op /\ x.a = a /\ x \in Text
    BY <1>8 DEF UnaryOp
  <2> HIDE DEF x
  <2>2. F[x] = IF F[a] = Nothing THEN Nothing
               ELSE CASE op = "~" -> Un("~", F[a])
                      [] op = "-" -> NegateParsed(F[a])
                      [] op = "+" -> F[a]
    BY <1>4, <2>1 DEF ConvertNode
  <2>3. Convert(names, x) = F[x] /\ Convert(names, a) = F[a]
    BY <1>3
  <2> QED BY <2>2, <2>3, Zenon DEF x
<1>9. ASSUME NEW op, NEW a, NEW b, BinOp(op, a, b) \in Text
      PROVE  Convert(names, BinOp(op, a, b)) =
                 IF \/ op \notin BoolOps \cup ArithOps
                    \/ Convert(names, a) = Nothing \/ Convert(names, b) = Nothing
                 THEN Nothing ELSE Bin(op, Convert(names, a), Convert(names, b))
  <2> DEFINE x == BinOp(op, a, b)
  <2>1. x.kind = "BinOp" /\ x.op = op /\ x.a = a /\ x.b = b /\ x \in Text
    BY <1>9 DEF BinOp
  <2> HIDE DEF x
  <2>2. F[x] = IF op \notin BoolOps \cup ArithOps \/ F[a] = Nothing \/ F[b] = Nothing
               THEN Nothing ELSE Bin(op, F[a], F[b])
    BY <1>4, <2>1 DEF ConvertNode
  <2> QED BY <1>3, <2>2 DEF x
<1> QED BY <1>6, <1>7, <1>8, <1>9

\* t, if there is one, is a tree over the names, and m is what it means.
Faithful(names, n, t, m) ==
    t # Nothing =>
        /\ t \in TreesOver(Declared(names), n)
        /\ \A leaf \in [0..Len(names) - 1 -> Int] :
              Evaluate(t, NamedValues(names, leaf)) = m[leaf]

\* What is made of a constant and of a leaf.
LEMMA FaithfulLeaf ==
    ASSUME NEW names, GoodNames(names), NEW n \in Nat, n <= Depth
    PROVE  /\ \A v \in Int : \A m :
                 (\A leaf \in [0..Len(names) - 1 -> Int] : m[leaf] = v % Modulus)
                     => Faithful(names, n, Const(v), m)
           /\ \A i \in Nat : \A m :
                 i < Len(names)
                 /\ (\A leaf \in [0..Len(names) - 1 -> Int] : m[leaf] = leaf[i])
                     => Faithful(names, n, Leaf(names[i + 1]), m)
<1>1. \A v \in Int : Const(v) \in TreesOver(Declared(names), n)
  BY TreeMake
<1>2. \A l \in Declared(names) : Leaf(l) \in TreesOver(Declared(names), n) /\ l \in Label
  BY TreeMake, IndexFacts DEF Label
<1>3. \A values : \A v \in Int : Evaluate(Const(v), values) = v % Modulus
  BY EvaluateEquation
<1>4. \A values : \A l \in Label : Evaluate(Leaf(l), values) = values[l]
  BY EvaluateEquation
<1>5. \A i \in Nat : i < Len(names) =>
          names[i + 1] \in Declared(names) /\ Index(names, names[i + 1]) = i
  BY IndexFacts
<1>6. \A leaf : \A l \in Declared(names) : NamedValues(names, leaf)[l] = leaf[Index(names, l)]
  BY DEF NamedValues
<1>7. ASSUME NEW v \in Int, NEW m,
             \A leaf \in [0..Len(names) - 1 -> Int] : m[leaf] = v % Modulus
      PROVE  Faithful(names, n, Const(v), m)
  BY <1>1, <1>3, <1>7 DEF Faithful
<1>8. ASSUME NEW i \in Nat, NEW m, i < Len(names),
             \A leaf \in [0..Len(names) - 1 -> Int] : m[leaf] = leaf[i]
      PROVE  Faithful(names, n, Leaf(names[i + 1]), m)
  <2> DEFINE l == names[i + 1]
  <2>1. l \in Declared(names) /\ Index(names, l) = i /\ l \in Label
    BY <1>2, <1>5, <1>8
  <2> HIDE DEF l
  <2>2. \A leaf : Evaluate(Leaf(l), NamedValues(names, leaf)) = leaf[i]
    BY <1>4, <1>6, <2>1
  <2> QED BY <1>2, <1>8, <2>1, <2>2 DEF Faithful, l
<1> QED BY <1>7, <1>8

\* What is made of operators.
LEMMA FaithfulOperator ==
    ASSUME NEW names, GoodNames(names), NEW n \in Nat, n + 1 <= Depth
    PROVE  /\ \A op \in Prefix : \A a, f, m :
                 a # Nothing /\ Faithful(names, n, a, f)
                 /\ (\A leaf \in [0..Len(names) - 1 -> Int] : m[leaf] = ApplyUn(op, f[leaf]))
                     => Faithful(names, n + 1, Un(op, a), m)
           /\ \A op \in Infix : \A a, b, f, g, m :
                 a # Nothing /\ Faithful(names, n, a, f)
                 /\ b # Nothing /\ Faithful(names, n, b, g)
                 /\ (\A leaf \in [0..Len(names) - 1 -> Int] :
                        m[leaf] = ApplyBin(op, f[leaf], g[leaf]))
                     => Faithful(names, n + 1, Bin(op, a, b), m)
<1> DEFINE labels == Declared(names)
           leaves == [0..Len(names) - 1 -> Int]
<1>1. TreesOver(labels, n + 1) \subseteq Tree
  <2>1. labels \subseteq Label /\ n + 1 \in Nat /\ Depth \in Nat
    BY IndexFacts, DepthAssumption DEF Label
  <2> QED BY <2>1, TreesGrow DEF Tree
<1>2. ASSUME NEW op \in Prefix, NEW a, NEW f, NEW m, a # Nothing, Faithful(names, n, a, f),
             \A leaf \in leaves : m[leaf] = ApplyUn(op, f[leaf])
      PROVE  Faithful(names, n + 1, Un(op, a), m)
  <2>1. a \in TreesOver(labels, n)
        /\ \A leaf \in leaves : Evaluate(a, NamedValues(names, leaf)) = f[leaf]
    BY <1>2 DEF Faithful
  <2>2. Un(op, a) \in TreesOver(labels, n + 1)
    BY <2>1, TreeMake
  <2>3. \A values : Evaluate(Un(op, a), values) = ApplyUn(op, Evaluate(a, values))
    BY <1>1, <2>2, EvaluateEquation
  <2> HIDE DEF leaves
  <2>4. \A leaf \in leaves : Evaluate(Un(op, a), NamedValues(names, leaf)) = m[leaf]
    BY <1>2, <2>1, <2>3
  <2> QED BY <2>2, <2>4 DEF Faithful, leaves
<1>3. ASSUME NEW op \in Infix, NEW a, NEW b, NEW f, NEW g, NEW m,
             a # Nothing, Faithful(names, n, a, f), b # Nothing, Faithful(names, n, b, g),
             \A leaf \in leaves : m[leaf] = ApplyBin(op, f[leaf], g[leaf])
      PROVE  Faithful(names, n + 1, Bin(op, a, b), m)
  <2>1. a \in TreesOver(labels, n)
        /\ \A leaf \in leaves : Evaluate(a, NamedValues(names, leaf)) = f[leaf]
    BY <1>3 DEF Faithful
  <2>2. b \in TreesOver(labels, n)
        /\ \A leaf \in leaves : Evaluate(b, NamedValues(names, leaf)) = g[leaf]
    BY <1>3 DEF Faithful
  <2>3. Bin(op, a, b) \in TreesOver(labels, n + 1)
    BY <2>1, <2>2, TreeMake
  <2>4. \A values : Evaluate(Bin(op, a, b), values) =
                        ApplyBin(op, Evaluate(a, values), Evaluate(b, values))
    <3>1. \A values : \A o, x, y : Bin(o, x, y) \in Tree =>
              Evaluate(Bin(o, x, y), values) =
                  ApplyBin(o, Evaluate(x, values), Evaluate(y, values))
      BY EvaluateEquation
    <3>2. Bin(op, a, b) \in Tree
      BY <1>1, <2>3
    <3> QED BY <3>1, <3>2, Zenon
  <2> HIDE DEF leaves
  <2>5. \A leaf \in leaves : Evaluate(Bin(op, a, b), NamedValues(names, leaf)) = m[leaf]
    BY <1>3, <2>1, <2>2, <2>4
  <2> QED BY <2>3, <2>5 DEF Faithful, leaves
<1> QED BY <1>2, <1>3

\* What text means to those who number its leaves.
TextMeaning(names, t) ==
    [leaf \in [0..Len(names) - 1 -> Int] |-> TextValue(t, leaf)]

\* What is parsed means what was printed.
LEMMA ConvertFaithful ==
    ASSUME NEW names, GoodNames(names)
    PROVE  \A t \in Text :
               Faithful(names, Depth, Convert(names, t), TextMeaning(names, t))
<1> DEFINE labels == Declared(names)
           leaves == [0..Len(names) - 1 -> Int]
           M(t) == TextMeaning(names, t)
           C(t) == Convert(names, t)
           S == {n \in Nat : n <= Depth => \A t \in TextsTo(n) : Faithful(names, n, C(t), M(t))}
<1>0. Depth \in Nat /\ Len(names) \in Nat
  BY IndexFacts, DepthAssumption
<1>1. \A t : \A leaf \in leaves : M(t)[leaf] = TextValue(t, leaf)
  BY DEF TextMeaning
<1>2. \A n \in Nat : n <= Depth => TextsTo(n) \subseteq Text
  BY <1>0, TextsGrow DEF Text
<1>3. ASSUME NEW n \in Nat, n <= Depth, NEW v \in Int
      PROVE  Faithful(names, n, C(Number(v)), M(Number(v)))
  <2>1. C(Number(v)) = Const(v)
    BY ConvertEquation
  <2>2. \A leaf \in leaves : M(Number(v))[leaf] = v % Modulus
    BY <1>1, TextValueFacts
  <2> HIDE DEF M, C
  <2> QED BY <1>3, <2>1, <2>2, FaithfulLeaf
<1>4. ASSUME NEW n \in Nat, n <= Depth, NEW i \in Nat
      PROVE  Faithful(names, n, C(Name(i)), M(Name(i)))
  <2>1. C(Name(i)) = IF i < Len(names) THEN Leaf(names[i + 1]) ELSE Nothing
    BY ConvertEquation
  <2>2. \A leaf \in leaves : M(Name(i))[leaf] = leaf[i]
    BY <1>1, TextValueFacts
  <2> HIDE DEF M, C
  <2>3. CASE i < Len(names)
    BY <1>4, <2>1, <2>2, <2>3, FaithfulLeaf
  <2>4. CASE ~(i < Len(names))
    BY <2>1, <2>4 DEF Faithful
  <2> QED BY <2>3, <2>4
<1>5. ASSUME NEW n \in Nat, n + 1 <= Depth, NEW op \in {"~", "-", "+"}, NEW a,
             UnaryOp(op, a) \in Text, Faithful(names, n, C(a), M(a))
      PROVE  Faithful(names, n + 1, C(UnaryOp(op, a)), M(UnaryOp(op, a)))
  <2> DEFINE t == UnaryOp(op, a)
  <2>1. C(t) = IF C(a) = Nothing THEN Nothing
               ELSE CASE op = "~" -> Un("~", C(a))
                      [] op = "-" -> NegateParsed(C(a))
                      [] op = "+" -> C(a)
    BY <1>5, ConvertEquation
  <2>2. \A leaf \in leaves : M(t)[leaf] = IF op = "+" THEN M(a)[leaf]
                                          ELSE ApplyUn(op, M(a)[leaf])
    <3>1. \A leaf : TextValue(t, leaf) = IF op = "+" THEN TextValue(a, leaf)
                                         ELSE ApplyUn(op, TextValue(a, leaf))
      BY <1>5, TextValueFacts
    <3> HIDE DEF t, M
    <3> QED BY <1>1, <3>1
  <2> HIDE DEF t, M, C
  <2>3. CASE C(a) = Nothing
    BY <2>1, <2>3 DEF Faithful, t
  <2>4. CASE C(a) # Nothing /\ op = "+"
    <3>1. C(t) = C(a) /\ \A leaf \in leaves : M(t)[leaf] = M(a)[leaf]
      BY <2>1, <2>2, <2>4
    <3>2. TreesOver(labels, n) \subseteq TreesOver(labels, n + 1)
      BY TreesGrow
    <3> QED BY <1>5, <3>1, <3>2 DEF Faithful, t
  <2>5. CASE C(a) # Nothing /\ (op = "~" \/ (op = "-" /\ C(a).kind # "const"))
    <3>1. C(t) = Un(op, C(a)) /\ op \in Prefix
          /\ \A leaf \in leaves : M(t)[leaf] = ApplyUn(op, M(a)[leaf])
      BY <2>1, <2>2, <2>5 DEF NegateParsed, Prefix
    <3>2. Faithful(names, n + 1, Un(op, C(a)), M(t))
      <4> DEFINE f == M(a)
                 m == M(t)
                 x == C(a)
      <4>1. x # Nothing /\ Faithful(names, n, x, f)
            /\ \A leaf \in leaves : m[leaf] = ApplyUn(op, f[leaf])
        BY <1>5, <2>5, <3>1
      <4> HIDE DEF f, m, x
      <4>2. Faithful(names, n + 1, Un(op, x), m)
        BY <1>5, <3>1, <4>1, FaithfulOperator
      <4> QED BY <4>2 DEF m, x
    <3> QED BY <3>1, <3>2 DEF t
  <2>6. CASE C(a) # Nothing /\ op = "-" /\ C(a).kind = "const"
    <3> DEFINE v == C(a).value
    <3>1. C(a) \in TreesOver(labels, n)
          /\ \A leaf \in leaves : Evaluate(C(a), NamedValues(names, leaf)) = M(a)[leaf]
      BY <1>5, <2>6 DEF Faithful
    <3>2. v \in Int /\ C(a) = Const(v)
      BY <2>6, <3>1, TreeCases
    <3>3. C(t) = Const(-v) /\ -v \in Int
      BY <2>1, <2>6, <3>2 DEF NegateParsed
    <3> HIDE DEF v
    <3>4. \A leaf \in leaves : M(a)[leaf] = v % Modulus
      <4>1. \A values : Evaluate(Const(v), values) = v % Modulus
        BY <3>2, EvaluateEquation
      <4> HIDE DEF leaves
      <4> QED BY <3>1, <3>2, <4>1
    <3>5. \A leaf \in leaves : M(t)[leaf] = (-v) % Modulus
      <4> HIDE DEF leaves
      <4> QED BY <2>2, <2>6, <3>2, <3>4, NegatedNumber
    <3>6. n + 1 \in Nat
      OBVIOUS
    <3>7. Faithful(names, n + 1, Const(-v), M(t))
      <4> DEFINE m == M(t)
                 w == -v
                 k == n + 1
      <4>1. w \in Int /\ k \in Nat /\ k <= Depth
            /\ \A leaf \in leaves : m[leaf] = w % Modulus
        BY <1>5, <3>3, <3>5, <3>6
      <4> HIDE DEF m, w, k
      <4>2. Faithful(names, k, Const(w), m)
        BY <4>1, FaithfulLeaf
      <4> QED BY <4>2 DEF m, w, k
    <3> QED BY <3>3, <3>7 DEF t
  <2>7. op = "~" \/ op = "-" \/ op = "+"
    OBVIOUS
  <2> QED BY <2>3, <2>4, <2>5, <2>6, <2>7
<1>6. ASSUME NEW n \in Nat, n + 1 <= Depth, NEW op \in Infix \cup {"<<"}, NEW a, NEW b,
             BinOp(op, a, b) \in Text,
             Faithful(names, n, C(a), M(a)), Faithful(names, n, C(b), M(b))
      PROVE  Faithful(names, n + 1, C(BinOp(op, a, b)), M(BinOp(op, a, b)))
  <2> DEFINE t == BinOp(op, a, b)
  <2>1. C(t) = IF op \notin BoolOps \cup ArithOps \/ C(a) = Nothing \/ C(b) = Nothing
               THEN Nothing ELSE Bin(op, C(a), C(b))
    <3>1. \A o, x, y : BinOp(o, x, y) \in Text =>
              Convert(names, BinOp(o, x, y)) =
                  IF \/ o \notin BoolOps \cup ArithOps
                     \/ Convert(names, x) = Nothing \/ Convert(names, y) = Nothing
                  THEN Nothing ELSE Bin(o, Convert(names, x), Convert(names, y))
      BY ConvertEquation
    <3>2. Convert(names, t) =
              IF \/ op \notin BoolOps \cup ArithOps
                 \/ Convert(names, a) = Nothing \/ Convert(names, b) = Nothing
              THEN Nothing ELSE Bin(op, Convert(names, a), Convert(names, b))
      BY <1>6, <3>1, Zenon
    <3> QED BY <3>2
  <2>2. \A leaf \in leaves : M(t)[leaf] = ApplyBin(op, M(a)[leaf], M(b)[leaf])
    <3>1. \A leaf : TextValue(t, leaf) = ApplyBin(op, TextValue(a, leaf), TextValue(b, leaf))
      <4>1. \A leaf : \A o, x, y : BinOp(o, x, y) \in Text =>
                TextValue(BinOp(o, x, y), leaf) =
                    ApplyBin(o, TextValue(x, leaf), TextValue(y, leaf))
        BY TextValueFacts
      <4> QED BY <1>6, <4>1, ZenonT(60)
    <3> HIDE DEF t, M
    <3> QED BY <1>1, <3>1
  <2> HIDE DEF t, M, C
  <2>3. CASE op \notin BoolOps \cup ArithOps \/ C(a) = Nothing \/ C(b) = Nothing
    BY <2>1, <2>3 DEF Faithful, t
  <2>4. CASE op \in BoolOps \cup ArithOps /\ C(a) # Nothing /\ C(b) # Nothing
    <3>1. C(t) = Bin(op, C(a), C(b)) /\ op \in Infix
      BY <2>1, <2>4 DEF BoolOps, ArithOps, Infix
    <3> DEFINE f == M(a)
               g == M(b)
               m == M(t)
               x == C(a)
               y == C(b)
    <3>2. x # Nothing /\ Faithful(names, n, x, f) /\ y # Nothing /\ Faithful(names, n, y, g)
          /\ \A leaf \in leaves : m[leaf] = ApplyBin(op, f[leaf], g[leaf])
      BY <1>6, <2>2, <2>4
    <3> HIDE DEF f, g, m, x, y
    <3>3. Faithful(names, n + 1, Bin(op, x, y), m)
      BY <1>6, <3>1, <3>2, FaithfulOperator
    <3> QED BY <3>1, <3>3 DEF m, x, y, t
  <2> QED BY <2>3, <2>4
<1> HIDE DEF M, C
<1>7. 0 \in S
  <2>1. \A t \in TextsTo(0) :
            \/ t.value \in Int /\ t = Number(t.value)
            \/ t.var \in Nat /\ t = Name(t.var)
    BY TextCases
  <2> QED BY <1>3, <1>4, <2>1
<1>8. ASSUME NEW n \in Nat, n \in S PROVE n + 1 \in S
  <2>1. SUFFICES ASSUME n + 1 <= Depth, NEW t \in TextsTo(n + 1)
                 PROVE  Faithful(names, n + 1, C(t), M(t))
    OBVIOUS
  <2>2. n + 1 \in Nat /\ (n + 1) - 1 = n /\ n <= Depth
    BY <1>0, <2>1
  <2>3. \A u \in TextsTo(n) : Faithful(names, n, C(u), M(u))
    BY <1>8, <2>2
  <2>4. t \in Text
    BY <1>2, <2>1, <2>2
  <2>5. \/ t.kind = "Constant" /\ t.value \in Int /\ t = Number(t.value)
        \/ t.kind = "Name" /\ t.var \in Nat /\ t = Name(t.var)
        \/ /\ t.kind = "UnaryOp" /\ t.op \in {"~", "-", "+"} /\ t = UnaryOp(t.op, t.a)
           /\ t.a \in TextsTo(n)
        \/ /\ t.kind = "BinOp" /\ t.op \in Infix \cup {"<<"} /\ t = BinOp(t.op, t.a, t.b)
           /\ t.a \in TextsTo(n) /\ t.b \in TextsTo(n)
    BY <2>2, TextCases
  <2>6. CASE t.kind = "Constant"
    BY <1>3, <2>1, <2>2, <2>5, <2>6
  <2>7. CASE t.kind = "Name"
    BY <1>4, <2>1, <2>2, <2>5, <2>7
  <2>8. CASE t.kind = "UnaryOp"
    BY <1>5, <2>1, <2>3, <2>4, <2>5, <2>8
  <2>9. CASE t.kind = "BinOp"
    BY <1>6, <2>1, <2>3, <2>4, <2>5, <2>9
  <2> QED BY <2>5, <2>6, <2>7, <2>8, <2>9
<1> HIDE DEF S
<1>9. Nat \subseteq S
  BY <1>7, <1>8, TextsRec!NatSetInduction
<1>10. Depth \in S
  BY <1>0, <1>9
<1> QED BY <1>0, <1>10 DEF S, Text, M, C

-----------------------------------------------------------------------------
(* The answer of the binding.                                              *)

\* What an expression means, by its kind.
LEMMA ExprValueKinds ==
    ASSUME NEW leaf, NEW e \in Exprs
    PROVE  /\ e.kind = "constant" => ExprValue(e, leaf) = e.value % Modulus
           /\ e.kind = "variable" => ExprValue(e, leaf) = leaf[e.var]
           /\ \A op \in Prefix : e.kind = UnaryKind(op) =>
                 ExprValue(e, leaf) = ApplyUn(op, ExprValue(e.children[1], leaf))
           /\ \A op \in DOMAIN KindOf : e.kind = KindOf[op] =>
                 ExprValue(e, leaf) =
                     ApplyBin(op, ExprValue(e.children[1], leaf),
                                  ExprValue(e.children[2], leaf))
<1>0. PICK value :
          /\ \A x : ExprValue(x, leaf) = value[x]
          /\ \A x \in Exprs : value[x] = ExprValueNode(leaf, value, x)
  BY ExprValueEquation
<1>1. /\ e.kind = "constant" => value[e] = e.value % Modulus
      /\ e.kind = "variable" => value[e] = leaf[e.var]
  BY <1>0 DEF ExprValueNode
<1>2. ASSUME NEW op \in Prefix, e.kind = UnaryKind(op)
      PROVE  value[e] = ApplyUn(op, value[e.children[1]])
  BY <1>0, <1>2 DEF ExprValueNode, UnaryKind, Prefix
<1>3. ASSUME NEW op \in DOMAIN KindOf, e.kind = KindOf[op]
      PROVE  value[e] = ApplyBin(op, value[e.children[1]], value[e.children[2]])
  BY <1>0, <1>3 DEF ExprValueNode, KindOf
<1> QED BY <1>0, <1>1, <1>2, <1>3

FlattenExprStep(p, encoded, x) ==
    [ns \in Seq(FlatNode) |-> FlattenExprNode(encoded, x, ns)]

FlattenExprRec == INSTANCE Recursion
    WITH Domain <- ExprDomain, Rank <- ExprHeight, Step <- FlattenExprStep

\* The encoding of an expression, by its root.
LEMMA FlattenExprEquation ==
    ASSUME NEW e \in Exprs, NEW ns \in Seq(FlatNode)
    PROVE  /\ Len(e.children) = 0 =>
                 FlattenExpr(e, ns) = Append(ns, Node(e.kind, e.value, e.var, -1, -1))
           /\ Len(e.children) = 1 =>
                 FlattenExpr(e, ns) =
                     Append(FlattenExpr(e.children[1], ns),
                            Node(e.kind, e.value, e.var,
                                 Last(FlattenExpr(e.children[1], ns)), -1))
           /\ Len(e.children) = 2 =>
                 FlattenExpr(e, ns) =
                     Append(FlattenExpr(e.children[2], FlattenExpr(e.children[1], ns)),
                            Node(e.kind, e.value, e.var,
                                 Last(FlattenExpr(e.children[1], ns)),
                                 Last(FlattenExpr(e.children[2],
                                                  FlattenExpr(e.children[1], ns)))))
<1> DEFINE F == FlattenExprRec!Fix(0)
<1>0. \A x \in Exprs :
          /\ ExprHeight(0, x) \in Nat
          /\ Len(x.children) \in {1, 2} =>
                x.children[1] \in Exprs /\ ExprHeight(0, x.children[1]) < ExprHeight(0, x)
          /\ Len(x.children) = 2 =>
                x.children[2] \in Exprs /\ ExprHeight(0, x.children[2]) < ExprHeight(0, x)
          /\ Len(x.children) \in {0, 1, 2}
  <2> SUFFICES ASSUME NEW x \in Exprs
               PROVE  /\ ExprHeight(0, x) \in Nat
                      /\ Len(x.children) \in {1, 2} =>
                            /\ x.children[1] \in Exprs
                            /\ ExprHeight(0, x.children[1]) < ExprHeight(0, x)
                      /\ Len(x.children) = 2 =>
                            /\ x.children[2] \in Exprs
                            /\ ExprHeight(0, x.children[2]) < ExprHeight(0, x)
                      /\ Len(x.children) \in {0, 1, 2}
    OBVIOUS
  <2>1. 2 * Depth \in Nat
    BY DepthAssumption
  <2>2. \/ x.kind \in {"constant", "variable"} /\ Len(x.children) = 0
        \/ x.kind \in UnaryKinds /\ Len(x.children) = 1
        \/ x.kind \in BinaryKinds /\ Len(x.children) = 2
    BY <2>1, ExprCases DEF Exprs
  <2> QED BY <2>2, ExprDescends
<1>1. FlattenExprRec!Ranked(0)
  BY <1>0 DEF FlattenExprRec!Ranked, ExprDomain
<1>2. FlattenExprRec!Descends(0)
  <2>1. SUFFICES ASSUME NEW g, NEW h, NEW x \in Exprs,
                        \A u \in Exprs : ExprHeight(0, u) < ExprHeight(0, x) => g[u] = h[u]
                 PROVE  FlattenExprStep(0, g, x) = FlattenExprStep(0, h, x)
    BY DEF FlattenExprRec!Descends, ExprDomain
  <2>2. /\ Len(x.children) \in {1, 2} => g[x.children[1]] = h[x.children[1]]
        /\ Len(x.children) = 2 => g[x.children[2]] = h[x.children[2]]
    BY <1>0, <2>1
  <2>3. \A s : FlattenExprNode(g, x, s) = FlattenExprNode(h, x, s)
    BY <1>0, <2>2 DEF FlattenExprNode
  <2> QED BY <2>3 DEF FlattenExprStep
<1>3. \A x, s : FlattenExpr(x, s) = F[x][s]
  BY DEF FlattenExpr, FlattenExprRec!Fix, ExprDomain, FlattenExprStep
<1>4. F[e] = FlattenExprStep(0, F, e)
  BY <1>1, <1>2, FlattenExprRec!RecursiveEquation DEF ExprDomain
<1> HIDE DEF F
<1>5. F[e][ns] = FlattenExprNode(F, e, ns)
  BY <1>4 DEF FlattenExprStep
<1>6. Len(e.children) = 0 =>
          FlattenExpr(e, ns) = Append(ns, Node(e.kind, e.value, e.var, -1, -1))
  BY <1>3, <1>5 DEF FlattenExprNode
<1>7. Len(e.children) = 1 =>
          FlattenExprNode(F, e, ns) =
              LET a == FlattenExpr(e.children[1], ns)
              IN  Append(a, Node(e.kind, e.value, e.var, Last(a), -1))
  <2> SUFFICES ASSUME Len(e.children) = 1
               PROVE  FlattenExprNode(F, e, ns) =
                          LET a == FlattenExpr(e.children[1], ns)
                          IN  Append(a, Node(e.kind, e.value, e.var, Last(a), -1))
    OBVIOUS
  <2>1. Len(e.children) = 1 /\ Len(e.children) # 0 /\ Len(e.children) # 2
    OBVIOUS
  <2>2. FlattenExprNode(F, e, ns) =
            LET a == F[e.children[1]][ns]
            IN  Append(a, Node(e.kind, e.value, e.var, Last(a), -1))
    BY <2>1, Zenon DEF FlattenExprNode
  <2>3. F[e.children[1]][ns] = FlattenExpr(e.children[1], ns)
    BY <1>3
  <2> QED BY <2>2, <2>3, Zenon
<1>8. Len(e.children) = 2 =>
          FlattenExprNode(F, e, ns) =
              LET a == FlattenExpr(e.children[1], ns)
                  b == FlattenExpr(e.children[2], a)
              IN  Append(b, Node(e.kind, e.value, e.var, Last(a), Last(b)))
  <2> SUFFICES ASSUME Len(e.children) = 2
               PROVE  FlattenExprNode(F, e, ns) =
                          LET a == FlattenExpr(e.children[1], ns)
                              b == FlattenExpr(e.children[2], a)
                          IN  Append(b, Node(e.kind, e.value, e.var, Last(a), Last(b)))
    OBVIOUS
  <2>1. Len(e.children) = 2 /\ Len(e.children) # 0 /\ Len(e.children) # 1
    OBVIOUS
  <2>2. FlattenExprNode(F, e, ns) =
            LET a == F[e.children[1]][ns]
                b == F[e.children[2]][a]
            IN  Append(b, Node(e.kind, e.value, e.var, Last(a), Last(b)))
    BY <2>1, Zenon DEF FlattenExprNode
  <2> DEFINE a == FlattenExpr(e.children[1], ns)
             b == FlattenExpr(e.children[2], a)
  <2>3. F[e.children[1]][ns] = a
    BY <1>3
  <2>4. F[e.children[2]][a] = b
    <3> HIDE DEF a
    <3> QED BY <1>3
  <2> QED BY <2>2, <2>3, <2>4, Zenon
<1> QED BY <1>3, <1>5, <1>6, <1>7, <1>8

\* Operands come before their operator.
WellFormed(ns) ==
    /\ ns \in Seq(FlatNode)
    /\ \A i \in 0..Len(ns) - 1 :
          /\ ns[i + 1].kind \in UnaryKinds \cup BinaryKinds => ns[i + 1].child0 \in 0..i - 1
          /\ ns[i + 1].kind \in BinaryKinds => ns[i + 1].child1 \in 0..i - 1

BuildDomain(p)        == 0..Last(p[2])
BuildStep(p, tree, i) == BuildNode(p[1], p[2], tree, i)

BuildRec == INSTANCE Recursion
    WITH Domain <- BuildDomain, Rank <- Itself, Step <- BuildStep

\* The tree of an encoding, by its last node.
LEMMA BuildEquation ==
    ASSUME NEW names, NEW ns, WellFormed(ns)
    PROVE  \E tree :
               /\ \A i : BuildTree(names, ns, i) = tree[i]
               /\ \A i \in 0..Len(ns) - 1 : tree[i] = BuildNode(names, ns, tree, i)
<1> DEFINE p == <<names, ns>>
<1>1. p[1] = names /\ p[2] = ns
  OBVIOUS
<1>2. \A i : BuildTree(names, ns, i) = BuildRec!Fix(p)[i]
  BY DEF BuildTree, BuildRec!Fix, BuildDomain, BuildStep
<1> HIDE DEF p
<1>3. BuildDomain(p) = 0..Len(ns) - 1 /\ Len(ns) \in Nat
  BY <1>1 DEF BuildDomain, Last, WellFormed
<1>4. BuildRec!Ranked(p)
  BY <1>3 DEF BuildRec!Ranked, Itself
<1>5. BuildRec!Descends(p)
  <2>1. SUFFICES ASSUME NEW g, NEW h, NEW i \in 0..Len(ns) - 1,
                        \A u \in 0..Len(ns) - 1 : u < i => g[u] = h[u]
                 PROVE  BuildNode(names, ns, g, i) = BuildNode(names, ns, h, i)
    BY <1>1, <1>3 DEF BuildRec!Descends, Itself, BuildStep
  <2> DEFINE n == ns[i + 1]
  <2>2. /\ n.kind \in UnaryKinds \cup BinaryKinds => n.child0 \in 0..i - 1
        /\ n.kind \in BinaryKinds => n.child1 \in 0..i - 1
        /\ n \in FlatNode
    BY <1>3 DEF WellFormed
  <2>3. \A u \in 0..i - 1 : g[u] = h[u]
    BY <1>3, <2>1
  <2> HIDE DEF n
  <2>4. /\ n.kind \in UnaryKinds \cup BinaryKinds => g[n.child0] = h[n.child0]
        /\ n.kind \in BinaryKinds => g[n.child1] = h[n.child1]
    BY <2>2, <2>3
  <2>5. n.kind \in {"constant", "variable"} \cup UnaryKinds \cup BinaryKinds
    BY <2>2 DEF FlatNode, UnaryKinds, BinaryKinds
  <2>6. DOMAIN UnaryOps = {"not", "neg"} /\ DOMAIN BinaryOps = BinaryKinds
    BY DEF UnaryOps, BinaryOps, BinaryKinds
  <2> QED BY <2>4, <2>5, <2>6 DEF BuildNode, n, UnaryKinds, BinaryKinds
<1>6. \A i \in 0..Len(ns) - 1 : BuildRec!Fix(p)[i] = BuildNode(names, ns, BuildRec!Fix(p), i)
  BY <1>1, <1>3, <1>4, <1>5, BuildRec!RecursiveEquation DEF BuildStep
<1> QED BY <1>2, <1>6

\* The tree of an encoding, by the kind of its last node n.
Built(names, ns, i, n) ==
    LET a == BuildTree(names, ns, n.child0)
        b == BuildTree(names, ns, n.child1)
    IN  /\ n.kind = "constant" => BuildTree(names, ns, i) = Const(n.value)
        /\ n.kind = "variable" =>
              BuildTree(names, ns, i) =
                  IF n.var < Len(names) THEN Leaf(names[n.var + 1]) ELSE Nothing
        /\ n.kind = "shr" => BuildTree(names, ns, i) = Nothing
        /\ \A op \in Prefix : n.kind = UnaryKind(op) =>
              BuildTree(names, ns, i) = IF a = Nothing THEN Nothing ELSE Un(op, a)
        /\ \A op \in DOMAIN KindOf : n.kind = KindOf[op] =>
              BuildTree(names, ns, i) =
                  IF a = Nothing \/ b = Nothing THEN Nothing ELSE Bin(op, a, b)

\* On nodes whose children come first _build follows its cases at every node.
LEMMA BuildFacts ==
    ASSUME NEW names, NEW ns, WellFormed(ns), NEW i \in 0..Len(ns) - 1
    PROVE  Built(names, ns, i, ns[i + 1])
<1> DEFINE n == ns[i + 1]
<1>0. PICK tree :
          /\ \A j : BuildTree(names, ns, j) = tree[j]
          /\ \A j \in 0..Len(ns) - 1 : tree[j] = BuildNode(names, ns, tree, j)
  BY BuildEquation
<1>1. /\ DOMAIN UnaryOps = {"not", "neg"} /\ DOMAIN BinaryOps = BinaryKinds
      /\ UnaryOps["not"] = "~" /\ UnaryOps["neg"] = "-"
  BY DEF UnaryOps, BinaryOps, BinaryKinds
<1>2. \A op \in DOMAIN KindOf : KindOf[op] \in BinaryKinds /\ BinaryOps[KindOf[op]] = op
  <2>1. /\ DOMAIN KindOf = {"+", "*", "&", "|", "^"}
        /\ KindOf["+"] = "add" /\ KindOf["*"] = "mul" /\ KindOf["&"] = "and"
        /\ KindOf["|"] = "or" /\ KindOf["^"] = "xor"
    BY DEF KindOf
  <2>2. \A op \in DOMAIN KindOf : KindOf[op] \in BinaryKinds
    BY <2>1 DEF BinaryKinds
  <2>3. \A op, o \in DOMAIN KindOf : KindOf[o] = KindOf[op] => o = op
    BY <2>1
  <2>4. ASSUME NEW op \in DOMAIN KindOf
        PROVE  BinaryOps[KindOf[op]] = op
    <3>1. BinaryOps[KindOf[op]] = CHOOSE o \in DOMAIN KindOf : KindOf[o] = KindOf[op]
      BY <2>2 DEF BinaryOps, BinaryKinds
    <3> QED BY <2>3, <3>1
  <2> QED BY <2>2, <2>4
<1>3. tree[i] = BuildNode(names, ns, tree, i)
  BY <1>0
<1>4. /\ n.kind = "constant" => tree[i] = Const(n.value)
      /\ n.kind = "variable" =>
            tree[i] = IF n.var < Len(names) THEN Leaf(names[n.var + 1]) ELSE Nothing
      /\ n.kind = "shr" => tree[i] = Nothing
  BY <1>1, <1>3 DEF BuildNode, BinaryKinds
<1>5. ASSUME NEW op \in Prefix, n.kind = UnaryKind(op)
      PROVE  tree[i] = IF tree[n.child0] = Nothing THEN Nothing ELSE Un(op, tree[n.child0])
  <2>1. n.kind \in {"not", "neg"} /\ UnaryOps[n.kind] = op
    BY <1>1, <1>5 DEF UnaryKind, Prefix
  <2> QED BY <1>1, <1>3, <2>1 DEF BuildNode, BinaryKinds
<1>6. ASSUME NEW op \in DOMAIN KindOf, n.kind = KindOf[op]
      PROVE  tree[i] = IF tree[n.child0] = Nothing \/ tree[n.child1] = Nothing THEN Nothing
                       ELSE Bin(op, tree[n.child0], tree[n.child1])
  <2>1. n.kind \in BinaryKinds /\ BinaryOps[n.kind] = op
    BY <1>2, <1>6
  <2> QED BY <1>1, <1>3, <2>1 DEF BuildNode, BinaryKinds
<1> HIDE DEF n
<1>7. Built(names, ns, i, n)
  BY <1>0, <1>4, <1>5, <1>6 DEF Built
<1> QED BY <1>7 DEF n

\* An operator after its operands.
LEMMA AppendWellFormed ==
    ASSUME NEW ns, WellFormed(ns), NEW node \in FlatNode,
           node.kind \in UnaryKinds \cup BinaryKinds => node.child0 \in 0..Last(ns),
           node.kind \in BinaryKinds => node.child1 \in 0..Last(ns)
    PROVE  WellFormed(Append(ns, node))
<1> DEFINE out == Append(ns, node)
<1>1. /\ out \in Seq(FlatNode) /\ Len(out) = Len(ns) + 1 /\ Len(ns) \in Nat
      /\ out[Len(ns) + 1] = node /\ \A j \in 1..Len(ns) : out[j] = ns[j]
  BY DEF WellFormed
<1> HIDE DEF out
<1>2. ASSUME NEW i \in 0..Len(out) - 1
      PROVE  /\ out[i + 1].kind \in UnaryKinds \cup BinaryKinds => out[i + 1].child0 \in 0..i - 1
             /\ out[i + 1].kind \in BinaryKinds => out[i + 1].child1 \in 0..i - 1
  <2>1. CASE i = Len(ns)
    BY <1>1, <2>1 DEF Last
  <2>2. CASE i # Len(ns)
    <3>1. i \in 0..Len(ns) - 1 /\ i + 1 \in 1..Len(ns)
      BY <1>1, <1>2, <2>2
    <3> QED BY <1>1, <3>1 DEF WellFormed
  <2> QED BY <2>1, <2>2
<1> QED BY <1>1, <1>2 DEF WellFormed, out

\* What an expression means to those who number its leaves.
ExprMeaning(names, e) ==
    [leaf \in [0..Len(names) - 1 -> Int] |-> ExprValue(e, leaf)]

\* However out is gone on with, the tree built of its last node is faithful to e.
Builds(names, k, e, ns, out) ==
    /\ Extends(out, ns) /\ Len(ns) < Len(out) /\ WellFormed(out)
    /\ \A more : Extends(more, out) /\ WellFormed(more) =>
          Faithful(names, k, BuildTree(names, more, Last(out)), ExprMeaning(names, e))

\* What there is when the operands are encoded.
LEMMA AppendBuilds ==
    ASSUME NEW names, NEW k, NEW e, NEW ns, NEW out, NEW node \in FlatNode,
           Extends(out, ns), WellFormed(out),
           node.kind \in UnaryKinds \cup BinaryKinds => node.child0 \in 0..Last(out),
           node.kind \in BinaryKinds => node.child1 \in 0..Last(out),
           \A more : \A i \in 0..Len(more) - 1 :
               WellFormed(more) /\ Extends(more, out) /\ more[i + 1] = node =>
                   Faithful(names, k, BuildTree(names, more, i), ExprMeaning(names, e))
    PROVE  Builds(names, k, e, ns, Append(out, node))
<1> DEFINE longer == Append(out, node)
<1>1. /\ Extends(longer, out) /\ Len(longer) = Len(out) + 1 /\ Last(longer) = Len(out)
      /\ Len(out) \in Nat
      /\ \A more : Extends(more, longer) =>
            /\ Extends(more, out) /\ Len(out) < Len(more) /\ Len(more) \in Nat
            /\ more[Len(out) + 1] = node
  BY AppendNode DEF WellFormed
<1>2. WellFormed(longer)
  BY AppendWellFormed
<1> HIDE DEF longer
<1>3. Extends(longer, ns) /\ Len(ns) < Len(longer)
  <2>1. Len(ns) <= Len(out) /\ Len(ns) \in Nat
    BY DEF Extends
  <2> QED BY <1>1, <2>1, ExtendsTwice
<1>4. ASSUME NEW more, Extends(more, longer), WellFormed(more)
      PROVE  Faithful(names, k, BuildTree(names, more, Last(longer)), ExprMeaning(names, e))
  <2> DEFINE i == Len(out)
  <2>1. i \in 0..Len(more) - 1 /\ Extends(more, out) /\ more[i + 1] = node
    BY <1>1, <1>4
  <2>2. Last(longer) = i
    BY <1>1
  <2> HIDE DEF i
  <2> QED BY <1>4, <2>1, <2>2
<1> QED BY <1>2, <1>3, <1>4 DEF Builds, longer

\* A binding's answer is read back as a tree that means it, or not at all.
LEMMA FlattenExprBuilds ==
    ASSUME NEW names, GoodNames(names)
    PROVE  \A n \in Nat : n <= Depth =>
               \A e \in ExprsTo(n) : \A ns : WellFormed(ns) =>
                   Builds(names, n, e, ns, FlattenExpr(e, ns))
<1> DEFINE leaves == [0..Len(names) - 1 -> Int]
           S == {n \in Nat : n <= Depth =>
                   \A e \in ExprsTo(n) : \A ns : WellFormed(ns) =>
                       Builds(names, n, e, ns, FlattenExpr(e, ns))}
<1>0. Depth \in Nat /\ 2 * Depth \in Nat /\ -1 \in Int
  BY DepthAssumption
<1>1. \A e : \A leaf \in leaves : ExprMeaning(names, e)[leaf] = ExprValue(e, leaf)
  BY DEF ExprMeaning
<1>2. \A n \in Nat : n <= Depth => ExprsTo(n) \subseteq Exprs
  <2>1. \A n \in Nat : n <= Depth => n <= 2 * Depth
    BY <1>0
  <2> QED BY <1>0, <2>1, ExprsGrow DEF Exprs
<1>3. \A ns : WellFormed(ns) => ns \in Seq(FlatNode) /\ Extends(ns, ns) /\ Len(ns) \in Nat
  BY DEF WellFormed, Extends
<1>4. ASSUME NEW n \in Nat, n <= Depth, NEW e \in Exprs, NEW ns, WellFormed(ns),
             e.kind \in {"constant", "variable"}, e.value \in Int, e.var \in Nat,
             Len(e.children) = 0
      PROVE  Builds(names, n, e, ns, FlattenExpr(e, ns))
  <2> DEFINE node == Node(e.kind, e.value, e.var, -1, -1)
  <2>1. /\ node \in FlatNode /\ node.kind = e.kind
        /\ node.value = e.value /\ node.var = e.var
        /\ node.kind \notin UnaryKinds \cup BinaryKinds
    BY <1>4 DEF Node, FlatNode, UnaryKinds, BinaryKinds
  <2>2. FlattenExpr(e, ns) = Append(ns, node)
    BY <1>3, <1>4, FlattenExprEquation
  <2> HIDE DEF node
  <2>3. ASSUME NEW more, NEW i \in 0..Len(more) - 1, WellFormed(more), more[i + 1] = node
        PROVE  Faithful(names, n, BuildTree(names, more, i), ExprMeaning(names, e))
    <3>0. Built(names, more, i, node)
      BY <2>3, BuildFacts
    <3>1. CASE e.kind = "constant"
      <4>1. BuildTree(names, more, i) = Const(e.value)
        BY <2>1, <3>0, <3>1 DEF Built
      <4>2. \A leaf \in leaves : ExprMeaning(names, e)[leaf] = e.value % Modulus
        BY <1>1, <3>1, <1>4, ExprValueKinds
      <4> QED BY <1>4, <4>1, <4>2, FaithfulLeaf
    <3>2. CASE e.kind = "variable"
      <4>1. BuildTree(names, more, i) =
                IF e.var < Len(names) THEN Leaf(names[e.var + 1]) ELSE Nothing
        BY <2>1, <3>0, <3>2 DEF Built
      <4>2. \A leaf \in leaves : ExprMeaning(names, e)[leaf] = leaf[e.var]
        BY <1>1, <3>2, <1>4, ExprValueKinds
      <4>3. CASE e.var < Len(names)
        BY <1>4, <4>1, <4>2, <4>3, FaithfulLeaf
      <4>4. CASE ~(e.var < Len(names))
        BY <4>1, <4>4 DEF Faithful
      <4> QED BY <4>3, <4>4
    <3> QED BY <1>4, <3>1, <3>2
  <2>4. Extends(ns, ns)
    BY <1>3, <1>4
  <2>5. Builds(names, n, e, ns, Append(ns, node))
    BY <1>4, <2>1, <2>3, <2>4, AppendBuilds
  <2> QED BY <2>2, <2>5
<1>5. ASSUME NEW n \in Nat, n + 1 <= Depth, NEW e \in Exprs, NEW ns, WellFormed(ns),
             e.kind \in UnaryKinds, e.value \in Nat, e.var = 0, Len(e.children) = 1,
             Builds(names, n, e.children[1], ns, FlattenExpr(e.children[1], ns))
      PROVE  Builds(names, n + 1, e, ns, FlattenExpr(e, ns))
  <2> DEFINE x == e.children[1]
             out == FlattenExpr(x, ns)
             node == Node(e.kind, e.value, e.var, Last(out), -1)
  <2>1. /\ Extends(out, ns) /\ WellFormed(out) /\ Last(out) \in 0..Last(out)
        /\ Last(out) \in Int
        /\ \A more : Extends(more, out) /\ WellFormed(more) =>
              Faithful(names, n, BuildTree(names, more, Last(out)), ExprMeaning(names, x))
    <3>1. Extends(out, ns) /\ WellFormed(out) /\ Len(ns) < Len(out)
      BY <1>5 DEF Builds
    <3> HIDE DEF out
    <3>2. Last(out) \in 0..Last(out) /\ Last(out) \in Int
      BY <1>3, <1>5, <3>1 DEF Last
    <3> QED BY <1>5, <3>1, <3>2 DEF Builds, out
  <2>2. FlattenExpr(e, ns) = Append(out, node)
    BY <1>3, <1>5, FlattenExprEquation
  <2> HIDE DEF out
  <2>3. /\ node \in FlatNode /\ node.kind = e.kind /\ node.child0 = Last(out)
        /\ node.kind \notin BinaryKinds
    BY <1>0, <1>5, <2>1 DEF Node, FlatNode, UnaryKinds, BinaryKinds
  <2> HIDE DEF node
  <2>4. ASSUME NEW more, NEW i \in 0..Len(more) - 1, WellFormed(more),
               Extends(more, out), more[i + 1] = node
        PROVE  Faithful(names, n + 1, BuildTree(names, more, i), ExprMeaning(names, e))
    <3> DEFINE f == ExprMeaning(names, x)
               m == ExprMeaning(names, e)
               a == BuildTree(names, more, Last(out))
               whole == BuildTree(names, more, i)
    <3>0. Built(names, more, i, node)
      BY <2>4, BuildFacts
    <3>1. Faithful(names, n, a, f)
      BY <2>1, <2>4
    <3>2. CASE e.kind = "shr"
      <4>1. whole = Nothing
        BY <2>3, <3>0, <3>2 DEF Built
      <4> QED BY <4>1 DEF Faithful
    <3>3. ASSUME NEW op \in Prefix, e.kind = UnaryKind(op)
          PROVE  Faithful(names, n + 1, whole, m)
      <4>1. whole = IF a = Nothing THEN Nothing ELSE Un(op, a)
        BY <2>3, <3>0, <3>3 DEF Built
      <4>2. \A leaf \in leaves : m[leaf] = ApplyUn(op, f[leaf])
        <5>1. \A leaf : ExprValue(e, leaf) = ApplyUn(op, ExprValue(x, leaf))
          BY <1>5, <3>3, ExprValueKinds
        <5> HIDE DEF x
        <5> QED BY <1>1, <5>1
      <4> HIDE DEF f, m, a, whole
      <4>3. CASE a = Nothing
        BY <4>1, <4>3 DEF Faithful
      <4>4. CASE a # Nothing
        <5>1. Faithful(names, n + 1, Un(op, a), m)
          BY <1>5, <3>1, <4>2, <4>4, FaithfulOperator
        <5> QED BY <4>1, <4>4, <5>1
      <4> QED BY <4>3, <4>4
    <3>4. e.kind = "shr" \/ (\E op \in Prefix : e.kind = UnaryKind(op))
      BY <1>5 DEF UnaryKinds, UnaryKind, Prefix
    <3> QED BY <3>2, <3>3, <3>4
  <2>5. Builds(names, n + 1, e, ns, Append(out, node))
    <3> DEFINE k == n + 1
    <3>1. \A more : \A i \in 0..Len(more) - 1 :
              WellFormed(more) /\ Extends(more, out) /\ more[i + 1] = node =>
                  Faithful(names, k, BuildTree(names, more, i), ExprMeaning(names, e))
      BY <2>4
    <3> HIDE DEF k
    <3>2. Builds(names, k, e, ns, Append(out, node))
      BY <2>1, <2>3, <3>1, AppendBuilds
    <3> QED BY <3>2 DEF k
  <2> QED BY <2>2, <2>5
<1>6. ASSUME NEW n \in Nat, n + 1 <= Depth, NEW e \in Exprs, NEW ns, WellFormed(ns),
             e.kind \in BinaryKinds, e.value = 0, e.var = 0, Len(e.children) = 2,
             Builds(names, n, e.children[1], ns, FlattenExpr(e.children[1], ns)),
             \A out : WellFormed(out) =>
                 Builds(names, n, e.children[2], out, FlattenExpr(e.children[2], out))
      PROVE  Builds(names, n + 1, e, ns, FlattenExpr(e, ns))
  <2> DEFINE x == e.children[1]
             y == e.children[2]
             out == FlattenExpr(x, ns)
             out2 == FlattenExpr(y, out)
             node == Node(e.kind, e.value, e.var, Last(out), Last(out2))
  <2>1. /\ Extends(out, ns) /\ WellFormed(out) /\ Len(ns) < Len(out)
        /\ \A more : Extends(more, out) /\ WellFormed(more) =>
              Faithful(names, n, BuildTree(names, more, Last(out)), ExprMeaning(names, x))
    BY <1>6 DEF Builds
  <2>2. FlattenExpr(e, ns) = Append(out2, node)
    BY <1>3, <1>6, FlattenExprEquation
  <2> HIDE DEF out
  <2>3. /\ Extends(out2, out) /\ WellFormed(out2) /\ Len(out) < Len(out2)
        /\ \A more : Extends(more, out2) /\ WellFormed(more) =>
              Faithful(names, n, BuildTree(names, more, Last(out2)), ExprMeaning(names, y))
    <3>1. Builds(names, n, y, out, out2)
      BY <1>6, <2>1
    <3> HIDE DEF out2
    <3> QED BY <3>1 DEF Builds
  <2> HIDE DEF out2
  <2>4. /\ Last(out) \in 0..Last(out2) /\ Last(out2) \in 0..Last(out2)
        /\ Last(out) \in Int /\ Last(out2) \in Int
    BY <1>3, <1>6, <2>1, <2>3 DEF Last
  <2>5. Extends(out2, ns) /\ \A more : Extends(more, out2) => Extends(more, out)
    BY <2>1, <2>3, ExtendsTwice
  <2>6. /\ node \in FlatNode /\ node.kind = e.kind
        /\ node.child0 = Last(out) /\ node.child1 = Last(out2)
    BY <1>6, <2>4 DEF Node, FlatNode, UnaryKinds, BinaryKinds
  <2> HIDE DEF node
  <2>7. ASSUME NEW more, NEW i \in 0..Len(more) - 1, WellFormed(more),
               Extends(more, out2), more[i + 1] = node
        PROVE  Faithful(names, n + 1, BuildTree(names, more, i), ExprMeaning(names, e))
    <3> DEFINE f == ExprMeaning(names, x)
               g == ExprMeaning(names, y)
               m == ExprMeaning(names, e)
               a == BuildTree(names, more, Last(out))
               b == BuildTree(names, more, Last(out2))
               whole == BuildTree(names, more, i)
    <3>1. Faithful(names, n, a, f) /\ Faithful(names, n, b, g)
      BY <2>1, <2>3, <2>5, <2>7
    <3>2. PICK op \in DOMAIN KindOf : e.kind = KindOf[op]
      BY <1>6 DEF BinaryKinds, KindOf
    <3>3. whole = IF a = Nothing \/ b = Nothing THEN Nothing ELSE Bin(op, a, b)
      <4>1. Built(names, more, i, node)
        BY <2>7, BuildFacts
      <4> QED BY <2>6, <3>2, <4>1 DEF Built
    <3>4. \A leaf \in leaves : m[leaf] = ApplyBin(op, f[leaf], g[leaf])
      <4>1. \A leaf : ExprValue(e, leaf) = ApplyBin(op, ExprValue(x, leaf), ExprValue(y, leaf))
        BY <1>6, <3>2, ExprValueKinds
      <4> HIDE DEF x, y
      <4> QED BY <1>1, <4>1
    <3>5. op \in Infix
      BY DEF KindOf, Infix
    <3> HIDE DEF f, g, m, a, b, whole
    <3>6. CASE a = Nothing \/ b = Nothing
      BY <3>3, <3>6 DEF Faithful, whole, m
    <3>7. CASE a # Nothing /\ b # Nothing
      <4>1. Faithful(names, n + 1, Bin(op, a, b), m)
        BY <1>6, <3>1, <3>4, <3>5, <3>7, FaithfulOperator
      <4> QED BY <3>3, <3>7, <4>1 DEF whole, m
    <3> QED BY <3>6, <3>7
  <2>8. Builds(names, n + 1, e, ns, Append(out2, node))
    <3> DEFINE k == n + 1
    <3>1. \A more : \A i \in 0..Len(more) - 1 :
              WellFormed(more) /\ Extends(more, out2) /\ more[i + 1] = node =>
                  Faithful(names, k, BuildTree(names, more, i), ExprMeaning(names, e))
      BY <2>7
    <3> HIDE DEF k
    <3>2. Builds(names, k, e, ns, Append(out2, node))
      BY <2>3, <2>4, <2>5, <2>6, <3>1, AppendBuilds
    <3> QED BY <3>2 DEF k
  <2> QED BY <2>2, <2>8
<1>7. 0 \in S
  <2>1. ASSUME NEW e \in ExprsTo(0), NEW ns, WellFormed(ns)
        PROVE  Builds(names, 0, e, ns, FlattenExpr(e, ns))
    <3>1. /\ e.kind \in {"constant", "variable"} /\ e.value \in Int /\ e.var \in Nat
          /\ Len(e.children) = 0
      BY ExprCases
    <3>2. e \in Exprs /\ 0 <= Depth
      BY <1>0, <1>2
    <3> QED BY <1>4, <2>1, <3>1, <3>2
  <2> QED BY <2>1
<1>8. ASSUME NEW n \in Nat, n \in S PROVE n + 1 \in S
  <2>1. SUFFICES ASSUME n + 1 <= Depth, NEW e \in ExprsTo(n + 1), NEW ns, WellFormed(ns)
                 PROVE  Builds(names, n + 1, e, ns, FlattenExpr(e, ns))
    OBVIOUS
  <2>2. n + 1 \in Nat /\ (n + 1) - 1 = n /\ n <= Depth
    BY <1>0, <2>1
  <2>3. \A x \in ExprsTo(n) : \A out : WellFormed(out) =>
            Builds(names, n, x, out, FlattenExpr(x, out))
    BY <1>8, <2>2
  <2>4. e \in Exprs
    BY <1>2, <2>1, <2>2
  <2>5. \/ /\ e.kind \in {"constant", "variable"} /\ e.value \in Int /\ e.var \in Nat
           /\ Len(e.children) = 0
        \/ /\ e.kind \in UnaryKinds /\ e.value \in Nat /\ e.var = 0
           /\ Len(e.children) = 1 /\ e.children[1] \in ExprsTo(n)
        \/ /\ e.kind \in BinaryKinds /\ e.value = 0 /\ e.var = 0
           /\ Len(e.children) = 2
           /\ e.children[1] \in ExprsTo(n) /\ e.children[2] \in ExprsTo(n)
    BY <2>2, ExprCases
  <2>6. CASE e.kind \in {"constant", "variable"} /\ e.value \in Int /\ e.var \in Nat
             /\ Len(e.children) = 0
    <3> DEFINE k == n + 1
    <3>1. k \in Nat /\ k <= Depth
      BY <2>1, <2>2
    <3> HIDE DEF k
    <3>2. Builds(names, k, e, ns, FlattenExpr(e, ns))
      BY <1>4, <2>1, <2>4, <2>6, <3>1
    <3> QED BY <3>2 DEF k
  <2>7. CASE e.kind \in UnaryKinds /\ e.value \in Nat /\ e.var = 0
             /\ Len(e.children) = 1 /\ e.children[1] \in ExprsTo(n)
    <3>1. Builds(names, n, e.children[1], ns, FlattenExpr(e.children[1], ns))
      BY <2>1, <2>3, <2>7
    <3> QED BY <1>5, <2>1, <2>4, <2>7, <3>1
  <2>8. CASE e.kind \in BinaryKinds /\ e.value = 0 /\ e.var = 0 /\ Len(e.children) = 2
             /\ e.children[1] \in ExprsTo(n) /\ e.children[2] \in ExprsTo(n)
    <3>1. Builds(names, n, e.children[1], ns, FlattenExpr(e.children[1], ns))
      BY <2>1, <2>3, <2>8
    <3>2. \A out : WellFormed(out) =>
              Builds(names, n, e.children[2], out, FlattenExpr(e.children[2], out))
      BY <2>3, <2>8
    <3> QED BY <1>6, <2>1, <2>4, <2>8, <3>1, <3>2
  <2> QED BY <2>5, <2>6, <2>7, <2>8
<1> HIDE DEF S
<1>9. Nat \subseteq S
  BY <1>7, <1>8, ExprsRec!NatSetInduction
<1> QED BY <1>9 DEF S

\* The binding's answer arrives as a tree that means it, or as an exception.
LEMMA BuildFaithful ==
    ASSUME NEW names, GoodNames(names), NEW e \in ExprsTo(Depth), NEW ns,
           ns = FlattenExpr(e, <<>>)
    PROVE  /\ ns \in Seq(FlatNode) /\ Len(ns) \in Nat \ {0}
           /\ Faithful(names, Depth, BuildTree(names, ns, Last(ns)), ExprMeaning(names, e))
<1>1. WellFormed(<<>>) /\ Depth \in Nat /\ Len(<<>>) = 0
  BY DepthAssumption DEF WellFormed
<1>2. Builds(names, Depth, e, <<>>, ns)
  <2>1. \A n \in Nat : n <= Depth =>
            \A x \in ExprsTo(n) : \A s : WellFormed(s) =>
                Builds(names, n, x, s, FlattenExpr(x, s))
    BY FlattenExprBuilds
  <2>2. Depth <= Depth
    BY <1>1
  <2>3. Builds(names, Depth, e, <<>>, FlattenExpr(e, <<>>))
    BY <1>1, <2>1, <2>2, Zenon
  <2> QED BY <2>3
<1>3. ns \in Seq(FlatNode) /\ Len(<<>>) < Len(ns) /\ WellFormed(ns)
  BY <1>2 DEF Builds, Extends
<1>4. Len(ns) \in Nat \ {0} /\ Extends(ns, ns)
  BY <1>1, <1>3 DEF Extends
<1> QED BY <1>2, <1>3, <1>4 DEF Builds

-----------------------------------------------------------------------------
(* The front end.                                                          *)

\* SignatureOf, Unflatten after Flatten and BuildTree after FlattenExpr, by what
\* they depend on.
SignatureFor(names, tree) ==
    [i \in 1..Pow2[Len(names)] |->
        Evaluate(tree, [n \in Declared(names) |-> Bit(i - 1, Index(names, n))])]

Heard(names, tree) ==
    LET ns == Flatten(names, tree, <<>>) IN Unflatten(ns, Last(ns), 0)

Read(names, e) ==
    LET ns == FlattenExpr(e, <<>>) IN BuildTree(names, ns, Last(ns))

\* What the solver is asked is of the request, from before it is given until
\* the end: flat is written once, before the first solve, and given is always
\* read from it.
AskedInv ==
    /\ request \in Requests
    /\ stage = "ask" => given = Nothing /\ pc = "enter"
    /\ path = "cli" =>
          /\ stage # "simplify"
          /\ given # Nothing =>
                /\ LeafSet(request.tree) \subseteq Declared(request.names)
                /\ given = Render(request.names, request.tree)
    /\ path # "cli" =>
          /\ pc \in {"enter", "flatten"} => given = Nothing
          /\ pc \in {"allocate", "fill", "nodes", "solve", "grow"} =>
                /\ LeafSet(request.tree) \subseteq Declared(request.names)
                /\ flat = Flatten(request.names, request.tree, <<>>)
          /\ given # Nothing =>
                /\ LeafSet(request.tree) \subseteq Declared(request.names)
                /\ given = Heard(request.names, request.tree)
    /\ path = "binding" /\ (stage = "simplify" \/ given # Nothing) =>
          signature = SignatureFor(request.names, request.tree)

\* Every step keeps it: a retry reads the same flat again.
LEMMA AskedStep == AskedInv /\ [Next]_vars => AskedInv'
<1> SUFFICES ASSUME AskedInv, [Next]_vars PROVE AskedInv'
  OBVIOUS
<1> USE DEF AskedInv
<1>1. SignatureOf(request.tree) = SignatureFor(request.names, request.tree)
  BY DEF SignatureOf, SignatureFor, Names
<1>2. CASE SolveSignature
  BY <1>1, <1>2 DEF SolveSignature, GoTo, End, Names, simplifyVars
<1>3. CASE CallSimplify
  BY <1>3 DEF CallSimplify, GoTo, simplifyVars
<1>4. CASE RunSimplify
  <2>0. UNCHANGED askVars /\ UNCHANGED result /\ path # "cli" /\ stage = "simplify" /\ Simplify
    BY <1>4 DEF RunSimplify
  <2> USE DEF askVars, dataVars, memVars, outVars, Leave, Finally
  <2>1. ASSUME NEW ok, Enter(ok), UNCHANGED dataVars PROVE AskedInv'
    BY <2>0, <2>1 DEF Enter
  <2>2. ASSUME FlattenInput(Encodable(request.tree)),
               flat' = IF Encodable(request.tree) THEN Flatten(Names, request.tree, <<>>)
                       ELSE flat,
               UNCHANGED <<signature, given, answer, buffer, built>>
        PROVE  AskedInv'
    BY <2>0, <2>2 DEF FlattenInput, Encodable, Names
  <2>3. ASSUME NEW got, Allocate(got), UNCHANGED dataVars PROVE AskedInv'
    BY <2>0, <2>3 DEF Allocate
  <2>4. ASSUME NEW ok, Fill(ok), UNCHANGED dataVars PROVE AskedInv'
    BY <2>0, <2>4 DEF Fill
  <2>5. ASSUME NEW ok, AllocateNodes(ok), UNCHANGED dataVars PROVE AskedInv'
    BY <2>0, <2>5 DEF AllocateNodes, MallocNodes
  <2>6. ASSUME NEW code, NEW n, Shim(code, n), given' = Unflatten(flat, Last(flat), 0),
               UNCHANGED <<signature, flat>>
        PROVE  AskedInv'
    <3>1. pc = "solve" /\ pc' \in {"grow", "decide"}
      BY <2>6 DEF Shim
    <3>2. given' = Heard(request.names, request.tree)
      BY <2>0, <2>6, <3>1 DEF Heard
    <3> QED BY <2>0, <2>6, <3>1, <3>2
  <2>7. ASSUME NEW ok, Grow(ok), UNCHANGED dataVars PROVE AskedInv'
    BY <2>0, <2>7 DEF Grow, MallocNodes
  <2>8. ASSUME Decide, UNCHANGED dataVars PROVE AskedInv'
    BY <2>0, <2>8 DEF Decide
  <2>9. ASSUME NEW ok, Build(ok), UNCHANGED <<signature, flat, given, answer, buffer>>
        PROVE  AskedInv'
    BY <2>0, <2>9 DEF Build
  <2>10. ASSUME Free, UNCHANGED dataVars PROVE AskedInv'
    BY <2>0, <2>10 DEF Free
  <2> QED BY <2>0, <2>1, <2>2, <2>3, <2>4, <2>5, <2>6, <2>7, <2>8, <2>9, <2>10 DEF Simplify
<1>5. CASE Collect
  BY <1>5 DEF Collect, GoTo, End, simplifyVars, dataVars
<1>6. CASE SolveExpression
  BY <1>6 DEF SolveExpression, GoTo, End, Names, simplifyVars
<1>7. CASE UNCHANGED vars
  BY <1>7 DEF vars, simplifyVars, askVars, dataVars
<1> QED BY <1>2, <1>3, <1>4, <1>5, <1>6, <1>7 DEF Next

\* What the invariant says of the question is what the property asks.
LEMMA AskedSuffices == AskedInv => SolverIsAskedAboutTree
<1> SUFFICES ASSUME AskedInv, given # Nothing
             PROVE  /\ \A leaf \in Assignments :
                          Evaluate(request.tree, ByName(leaf)) =
                              IF path = "cli" THEN TextValue(given, leaf)
                              ELSE ExprValue(given, leaf)
                    /\ path = "binding" =>
                          \A i \in 1..Len(signature) :
                              signature[i] = ExprValue(given,
                                  [k \in 0..Len(Names) - 1 |-> Bit(i - 1, k)])
  BY DEF SolverIsAskedAboutTree
<1> DEFINE names == request.names
           tree  == request.tree
           leaves == [0..Len(names) - 1 -> Int]
<1>1. request \in Requests /\ LeafSet(tree) \subseteq Declared(names)
  BY DEF AskedInv
<1>2. GoodNames(names) /\ tree \in TreesOver(Var, Depth)
  BY <1>1, RequestAssumption DEF GoodNames, NoRepeats
<1>3. tree \in TreesOver(Declared(names), Depth)
  <2>1. TreesOver(Var, Depth) \subseteq Tree
    BY TreesGrow, DepthAssumption DEF Tree, Label
  <2> QED BY <1>1, <1>2, <2>1, TreeOverItsLeaves
<1>4. Assignments \subseteq leaves /\ \A leaf : ByName(leaf) = NamedValues(names, leaf)
  <2>1. Word \subseteq Int
    BY ModulusType DEF Word
  <2> QED BY <2>1 DEF Assignments, Names, ByName, NamedValues
<1> HIDE DEF names, tree
<1>5. CASE path = "cli"
  <2>1. given = Render(names, tree)
    BY <1>5 DEF AskedInv, names, tree
  <2>2. \A leaf \in leaves : TextValue(given, leaf) = Evaluate(tree, NamedValues(names, leaf))
    BY <1>2, <1>3, <2>1, RenderMeans
  <2> HIDE DEF leaves
  <2> QED BY <1>4, <1>5, <2>2 DEF tree
<1>6. CASE path # "cli"
  <2>1. given = Heard(names, tree)
    BY <1>6 DEF AskedInv, names, tree
  <2>2. \A leaf \in leaves : ExprValue(given, leaf) = Evaluate(tree, NamedValues(names, leaf))
    <3>1. \A ns : ns = Flatten(names, tree, <<>>) =>
              \A leaf \in leaves : ExprValue(Unflatten(ns, Last(ns), 0), leaf) =
                                       Evaluate(tree, NamedValues(names, leaf))
      BY <1>2, <1>3, UnflattenFlatten
    <3> QED BY <2>1, <3>1 DEF Heard
  <2>3. \A leaf \in Assignments :
            Evaluate(request.tree, ByName(leaf)) = ExprValue(given, leaf)
    <3> HIDE DEF leaves
    <3> QED BY <1>4, <2>2 DEF tree
  <2>4. ASSUME path = "binding", NEW i \in 1..Len(signature)
        PROVE  signature[i] = ExprValue(given, [k \in 0..Len(Names) - 1 |-> Bit(i - 1, k)])
    <3> DEFINE leaf == [k \in 0..Len(names) - 1 |-> Bit(i - 1, k)]
    <3>1. signature = SignatureFor(names, tree)
      BY <2>4 DEF AskedInv, names, tree
    <3>2. Len(names) \in Nat /\ Pow2[Len(names)] \in Nat
      BY <1>2, Pow2Facts, IndexFacts
    <3>3. i \in 1..Pow2[Len(names)] /\ i - 1 \in Nat
      BY <2>4, <3>1, <3>2 DEF SignatureFor
    <3>4. signature[i] = Evaluate(tree, [n \in Declared(names) |-> Bit(i - 1, Index(names, n))])
      BY <3>1, <3>3 DEF SignatureFor
    <3>5. \A k \in 0..Len(names) - 1 : Bit(i - 1, k) \in Int
      <4> DEFINE x == i - 1
      <4>1. x \in Nat
        BY <3>3
      <4> HIDE DEF x
      <4>2. ASSUME NEW k \in 0..Len(names) - 1 PROVE Bit(x, k) \in Int
        <5>1. k \in Nat
          BY <3>2
        <5>2. Pow2[k] \in Nat \ {0}
          BY <5>1, Pow2Facts
        <5>3. x \div Pow2[k] \in Int
          BY <4>1, <5>2
        <5> QED BY <5>3 DEF Bit
      <4> QED BY <4>2 DEF x
    <3>6. leaf \in leaves
      BY <3>5
    <3>7. NamedValues(names, leaf) = [n \in Declared(names) |-> Bit(i - 1, Index(names, n))]
      <4>1. \A n \in Declared(names) : Index(names, n) \in 0..Len(names) - 1
        BY <1>2, IndexFacts
      <4> QED BY <4>1 DEF NamedValues
    <3>8. leaf = [k \in 0..Len(Names) - 1 |-> Bit(i - 1, k)]
      BY DEF Names, names
    <3> HIDE DEF leaf, leaves
    <3> QED BY <2>2, <3>4, <3>6, <3>7, <3>8
  <2> QED BY <1>6, <2>3, <2>4
<1> QED BY <1>5, <1>6

\* The expression the solver gets means the tree it is asked about, and so does
\* the truth vector: for any trees, any names and any width.
THEOREM AsksAboutTree == Spec => []SolverIsAskedAboutTree
<1>1. Init => AskedInv
  BY DEF Init, SimplifyInit, AskedInv
<1> QED BY <1>1, AskedStep, AskedSuffices, PTL DEF Spec

\* An answer that was copied out whole is in the buffer when it is built from,
\* and what was built of it is what solve_signature hands on.
ArrivesInv ==
    /\ request \in Requests
    /\ stage = "ask" => outcome = "none" /\ result = Pending /\ pc = "enter"
    /\ stage = "simplify" => result = Pending /\ path # "cli"
    /\ stage \in {"ask", "simplify", "done"}
    /\ pc \in {"enter", "flatten", "allocate", "fill", "nodes", "solve", "grow",
               "decide", "build"} => outcome = "none"
    /\ pc \in {"decide", "build"} /\ status = "OK" =>
          /\ answer \in Answers
          /\ buffer = FlattenExpr(answer, <<>>)
          /\ root = Last(FlattenExpr(answer, <<>>))
    /\ pc = "build" => status = "OK"
    /\ outcome = "tree" =>
          /\ answer \in Answers
          /\ built = Read(request.names, answer)
          /\ built # Nothing
    /\ result.status = "solved" =>
          IF path = "cli"
          THEN /\ answer \in Texts
               /\ result.tree = Convert(request.names, answer)
               /\ result.tree # Nothing
          ELSE /\ answer \in Answers
               /\ result.tree = Read(request.names, answer)
               /\ result.tree # Nothing

\* Every step keeps it: the answer is not touched between the shim's OK and
\* the end.
LEMMA ArrivesStep == ArrivesInv /\ [Next]_vars => ArrivesInv'
<1> SUFFICES ASSUME ArrivesInv, [Next]_vars PROVE ArrivesInv'
  OBVIOUS
<1> USE DEF ArrivesInv
<1>0. Pending.status # "solved" /\ Failed.status # "solved"
      /\ \A t : Result("unchanged", t).status # "solved"
                /\ Result("solved", t).tree = t
  BY DEF Pending, Failed, Result
<1>1. CASE SolveSignature
  BY <1>0, <1>1 DEF SolveSignature, GoTo, End, simplifyVars, memVars, outVars
<1>2. CASE CallSimplify
  BY <1>2 DEF CallSimplify, GoTo, simplifyVars, memVars, outVars
<1>3. CASE RunSimplify
  <2>0. UNCHANGED askVars /\ UNCHANGED result /\ path # "cli" /\ stage = "simplify" /\ Simplify
        /\ result.status # "solved"
    BY <1>0, <1>3 DEF RunSimplify
  <2> USE DEF askVars, dataVars, memVars, outVars, Leave, Finally
  <2>1. ASSUME NEW ok, Enter(ok), UNCHANGED dataVars PROVE ArrivesInv'
    BY <2>0, <2>1 DEF Enter
  <2>2. ASSUME NEW ok, FlattenInput(ok),
               UNCHANGED <<signature, given, answer, buffer, built>>
        PROVE  ArrivesInv'
    BY <2>0, <2>2 DEF FlattenInput
  <2>3. ASSUME NEW got, Allocate(got), UNCHANGED dataVars PROVE ArrivesInv'
    BY <2>0, <2>3 DEF Allocate
  <2>4. ASSUME NEW ok, Fill(ok), UNCHANGED dataVars PROVE ArrivesInv'
    BY <2>0, <2>4 DEF Fill
  <2>5. ASSUME NEW ok, AllocateNodes(ok), UNCHANGED dataVars PROVE ArrivesInv'
    BY <2>0, <2>5 DEF AllocateNodes, MallocNodes
  <2>6. ASSUME NEW code, NEW n, code # "OK", Shim(code, n), UNCHANGED built
        PROVE  ArrivesInv'
    BY <2>0, <2>6 DEF Shim
  <2>7. ASSUME answer' \in Answers,
               Shim("OK", Len(FlattenExpr(answer', <<>>))),
               buffer' = FlattenExpr(answer', <<>>), UNCHANGED built
        PROVE  ArrivesInv'
    BY <2>0, <2>7 DEF Shim, Last
  <2>8. ASSUME NEW ok, Grow(ok), UNCHANGED dataVars PROVE ArrivesInv'
    BY <2>0, <2>8 DEF Grow, MallocNodes
  <2>9. ASSUME Decide, UNCHANGED dataVars PROVE ArrivesInv'
    BY <2>0, <2>9 DEF Decide
  <2>10. ASSUME pc = "build", built' = BuildTree(Names, buffer, root), Build(built' # Nothing),
                UNCHANGED <<signature, flat, given, answer, buffer>>
         PROVE  ArrivesInv'
    <3>1. built' = Read(request.names, answer)
      BY <2>10 DEF Read, Names
    <3> QED BY <2>0, <2>10, <3>1 DEF Build
  <2>11. ASSUME Free, UNCHANGED dataVars PROVE ArrivesInv'
    BY <2>0, <2>11 DEF Free
  <2> QED BY <2>0, <2>1, <2>2, <2>3, <2>4, <2>5, <2>6, <2>7, <2>8, <2>9, <2>10, <2>11
             DEF Simplify
<1>4. CASE Collect
  <2>1. /\ stage' = "done" /\ UNCHANGED <<path, request>>
        /\ UNCHANGED <<pc, status, root, outcome, answer, buffer, built>>
        /\ stage = "simplify" /\ pc = "done" /\ path # "cli"
    BY <1>4 DEF Collect, GoTo, End, simplifyVars, dataVars, outVars
  <2>2. result' = CASE outcome = "unchanged" -> Result("unchanged", Nothing)
                    [] outcome = "tree" ->
                          IF path = "binding" /\ built = request.tree
                          THEN Result("unchanged", Nothing)
                          ELSE Result("solved", built)
                    [] outcome \notin {"unchanged", "tree"} -> Failed
    BY <1>4 DEF Collect, End
  <2>3. result'.status = "solved" => outcome = "tree" /\ result'.tree = built
    <3>1. CASE outcome = "unchanged"
      BY <1>0, <2>2, <3>1
    <3>2. CASE outcome = "tree"
      BY <1>0, <2>2, <3>2
    <3>3. CASE outcome \notin {"unchanged", "tree"}
      BY <1>0, <2>2, <3>3
    <3> QED BY <3>1, <3>2, <3>3
  <2> QED BY <2>1, <2>3
<1>5. CASE SolveExpression
  <2>1. /\ stage' = "done" /\ UNCHANGED <<path, request>> /\ path = "cli"
        /\ UNCHANGED <<pc, status, root, outcome, buffer>>
        /\ stage = "ask" /\ pc = "enter" /\ outcome = "none"
    BY <1>5 DEF SolveExpression, GoTo, End, simplifyVars, outVars
  <2>2. \/ result' \in {Failed, Result("unchanged", Nothing)}
        \/ /\ answer' \in Texts
           /\ built' = Convert(request.names, answer')
           /\ result' = IF built' = Nothing THEN Failed ELSE Result("solved", built')
    BY <1>5 DEF SolveExpression, End, Names
  <2>3. result'.status = "solved" =>
            /\ answer' \in Texts
            /\ result'.tree = Convert(request.names, answer')
            /\ result'.tree # Nothing
    BY <1>0, <2>2
  <2> QED BY <2>1, <2>3
<1>6. CASE UNCHANGED vars
  BY <1>6 DEF vars, simplifyVars, askVars, dataVars, outVars
<1> QED BY <1>1, <1>2, <1>3, <1>4, <1>5, <1>6 DEF Next

\* What the invariant says of the answer is what the property asks.
LEMMA ArrivesSuffices == ArrivesInv => AnswerArrives
<1> SUFFICES ASSUME ArrivesInv, result.status = "solved"
             PROVE  /\ LeafSet(result.tree) \subseteq Declared(Names)
                    /\ \A leaf \in Assignments :
                          Evaluate(result.tree, ByName(leaf)) =
                              IF path = "cli" THEN TextValue(answer, leaf)
                              ELSE ExprValue(answer, leaf)
  BY DEF AnswerArrives
<1> DEFINE names == request.names
           leaves == [0..Len(names) - 1 -> Int]
           tree == result.tree
<1>1. GoodNames(names)
  BY RequestAssumption DEF ArrivesInv, GoodNames, NoRepeats
<1>2. Assignments \subseteq leaves /\ \A leaf : ByName(leaf) = NamedValues(names, leaf)
  <2>1. Word \subseteq Int
    BY ModulusType DEF Word
  <2> QED BY <2>1 DEF Assignments, Names, ByName, NamedValues
<1> HIDE DEF names
<1>3. ASSUME NEW m, Faithful(names, Depth, tree, m), tree # Nothing
      PROVE  /\ LeafSet(tree) \subseteq Declared(names)
             /\ \A leaf \in Assignments : Evaluate(tree, ByName(leaf)) = m[leaf]
  <2>1. tree \in TreesOver(Declared(names), Depth)
        /\ \A leaf \in leaves : Evaluate(tree, NamedValues(names, leaf)) = m[leaf]
    BY <1>3 DEF Faithful
  <2>2. Declared(names) \in SUBSET Label
    BY <1>1, IndexFacts DEF Label
  <2>3. LeafSet(tree) \subseteq Declared(names)
    <3> DEFINE zero == [l \in Declared(names) |-> 0]
    <3>1. \A l \in Declared(names) : zero[l] \in Int
      OBVIOUS
    <3> HIDE DEF zero
    <3> QED BY <2>1, <2>2, <3>1, TreeOverLabels
  <2> HIDE DEF leaves
  <2> QED BY <1>2, <2>1, <2>3
<1>4. CASE path = "cli"
  <2>1. answer \in Text /\ tree = Convert(names, answer) /\ tree # Nothing
    BY <1>4, TextAssumption DEF ArrivesInv, names
  <2>2. Faithful(names, Depth, tree, TextMeaning(names, answer))
    BY <1>1, <2>1, ConvertFaithful
  <2>3. \A leaf \in Assignments : TextMeaning(names, answer)[leaf] = TextValue(answer, leaf)
    BY <1>2 DEF TextMeaning
  <2> HIDE DEF tree
  <2> QED BY <1>3, <1>4, <2>1, <2>2, <2>3 DEF tree, names, Names
<1>5. CASE path # "cli"
  <2>1. answer \in ExprsTo(Depth) /\ tree = Read(names, answer) /\ tree # Nothing
    BY <1>5, AnswerAssumption DEF ArrivesInv, names
  <2>2. Faithful(names, Depth, tree, ExprMeaning(names, answer))
    <3>1. \A ns : ns = FlattenExpr(answer, <<>>) =>
              Faithful(names, Depth, BuildTree(names, ns, Last(ns)), ExprMeaning(names, answer))
      BY <1>1, <2>1, BuildFaithful
    <3> QED BY <2>1, <3>1 DEF Read
  <2>3. \A leaf \in Assignments : ExprMeaning(names, answer)[leaf] = ExprValue(answer, leaf)
    BY <1>2 DEF ExprMeaning
  <2> HIDE DEF tree
  <2> QED BY <1>3, <1>5, <2>1, <2>2, <2>3 DEF tree, names, Names
<1> QED BY <1>4, <1>5

\* A tree that is handed on means what the solver answered last, over the leaves
\* it was asked for: for any answers the solver gives.
THEOREM AnswersArrive == Spec => []AnswerArrives
<1>1. Init => ArrivesInv
  BY DEF Init, SimplifyInit, ArrivesInv, Pending, Result
<1> QED BY <1>1, ArrivesStep, ArrivesSuffices, PTL DEF Spec

\* The front end uses the binding as SimplifyCall has it, whatever the nodes say.
THEOREM SolveCallsSimplify == Spec => SimplifySpec
<1>1. Init => SimplifyInit
  BY DEF Init
<1>2. ArrivesInv /\ [Next]_vars => [SimplifyNext]_simplifyVars
  <2> SUFFICES ASSUME ArrivesInv, [Next]_vars PROVE [SimplifyNext]_simplifyVars
    OBVIOUS
  <2>1. CASE RunSimplify
    <3>0. Simplify
      BY <2>1 DEF RunSimplify
    <3>1. ASSUME NEW ok, ok \in BOOLEAN,
                 \/ Enter(ok) \/ FlattenInput(ok) \/ Fill(ok) \/ AllocateNodes(ok)
                 \/ Grow(ok) \/ Build(ok)
          PROVE  SimplifyNext
      BY <3>1 DEF SimplifyNext
    <3>2. ASSUME NEW code \in Status \ {"none"}, NEW n \in 1..MaxAnswer, Shim(code, n)
          PROVE  SimplifyNext
      BY <3>2 DEF SimplifyNext
    <3>3. 1 \in 1..MaxAnswer /\ {"UNCHANGED", "ERROR", "EXCEPTION", "OK", "TOO_SMALL"} \subseteq Status \ {"none"}
      BY CapacityAssumption DEF Status
    <3>4. ASSUME answer' \in Answers PROVE Len(FlattenExpr(answer', <<>>)) \in 1..MaxAnswer
      <4> DEFINE e == answer'
      <4>1. e \in Answers /\ e \in ExprsTo(Depth)
        BY <3>4, AnswerAssumption
      <4>2. GoodNames(request.names)
        BY RequestAssumption DEF ArrivesInv, GoodNames, NoRepeats
      <4> HIDE DEF e
      <4>3. Len(FlattenExpr(e, <<>>)) \in Nat \ {0}
        BY <4>1, <4>2, BuildFaithful
      <4>4. Len(FlattenExpr(e, <<>>)) \in 1..MaxAnswer
        BY <4>1, <4>3, AnswerSizeAssumption, CapacityAssumption
      <4> QED BY <4>4 DEF e
    <3>5. ASSUME NEW got \in SUBSET Fixed, Allocate(got) PROVE SimplifyNext
      BY <3>5 DEF SimplifyNext
    <3>6. Decide \/ Free => SimplifyNext
      BY DEF SimplifyNext
    <3>7. Encodable(request.tree) \in BOOLEAN
      BY DEF Encodable
    <3> QED BY <3>0, <3>1, <3>2, <3>3, <3>4, <3>5, <3>6, <3>7 DEF Simplify
  <2>2. CASE SolveSignature \/ CallSimplify \/ Collect \/ SolveExpression \/ UNCHANGED vars
    BY <2>2 DEF SolveSignature, CallSimplify, Collect, SolveExpression, vars
  <2> QED BY <2>1, <2>2 DEF Next
<1>3. Init => ArrivesInv
  BY DEF Init, SimplifyInit, ArrivesInv, Pending, Result
<1> QED BY <1>1, <1>2, <1>3, ArrivesStep, PTL DEF Spec, SimplifySpec

\* So the memory of a call is handled right when the front end makes it.
THEOREM SolveHandlesMemory ==
    Spec => [](NothingLeaks /\ MemoryIsLive /\ WritesFit /\ BuildsWhatWasWritten)
BY SolveCallsSimplify, EverythingIsFreed, NoMisuse, ShimStaysInside, BuildReadsTheAnswer, PTL
=============================================================================
