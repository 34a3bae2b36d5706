------------------------------- MODULE Detect -------------------------------
(***************************************************************************)
(* The detector of detect.py on one block: it walks the instructions,      *)
(* models each as a tree, substitutes the temporaries it knows, and keeps  *)
(* the trees that mix Boolean and arithmetic operators.  The block is the  *)
(* input, so Scan chooses the next instruction as it goes.                 *)
(*                                                                         *)
(* An operand is a number, a leaf, or a nested instruction.  A leaf's name *)
(* determines its size, as the text dstr() gives it does.                  *)
(***************************************************************************)
EXTENDS ExprTree

CONSTANTS        \* Var: registers, stack and global variables
    Heap,        \* the memory an ldx reads
    None,        \* no destination, no operand
    Size,        \* the bits of each leaf, and of that memory
    Code,        \* instructions, their address not yet set
    MaxLen,      \* bound on the length of the block
    MaxLeaves,   \* max_leaves
    MaxDepth,    \* _MAX_INLINE_DEPTH
    MaxNodes     \* _MAX_INLINE_NODES

ASSUME DetectAssumption ==
    /\ Size \in [Var \cup {Heap} -> 1..Width]
    /\ {Heap, None} \cap Var = {}
    /\ {MaxLen, MaxLeaves, MaxDepth, MaxNodes} \subseteq Nat
    /\ Depth \in Nat \ {0} /\ MaxDepth <= Depth

VARIABLES
    code,        \* the instructions scanned, each with its ea
    env,         \* the tree each temporary stands for, or None
    candidates,  \* what has been detected, in order
    seen         \* the expressions already reported

detectVars == <<code, env, candidates, seen>>

-----------------------------------------------------------------------------
(* Instructions as trees.                                                  *)

UnOp  == [neg |-> "-", bnot |-> "~"]
BinOp == [add |-> "+", sub |-> "-", mul |-> "*",
          or |-> "|", and |-> "&", xor |-> "^"]

Nested(ins) == [kind |-> "ins", ins |-> ins]

\* ldx stands for the operations that are not modelled as trees.
Mnemonic == {"mov", "shl", "xdu", "ldx"} \cup DOMAIN UnOp \cup DOMAIN BinOp

\* Instructions, nested in their operands up to depth.
InstructionsTo(depth) ==
    LET level[n \in Nat] ==
            LET Operand ==
                    [kind : {"const"}, value : Nat] \cup [kind : {"var"}, name : Var]
                    \cup [kind : {"none"}]
                    \cup IF n = 0 THEN {} ELSE [kind : {"ins"}, ins : level[n - 1]]
            IN  [op : Mnemonic, l : Operand, r : Operand,
                 d : Var \cup {None}, ea : Nat]
    IN  level[depth]

Instruction == InstructionsTo(Depth - 1)

\* As in ExprTree, a function on instructions is given by its value on one, from
\* its values on those nested in it.
SupportedNode(supported, i) ==
    LET operand(o) == \/ o.kind \in {"const", "var"}
                      \/ o.kind = "ins" /\ supported[o.ins]
    IN  /\ i.op # "ldx"
        /\ operand(i.l)
        /\ i.op = "shl" => i.r.kind = "const" /\ i.r.value < 64
        /\ i.op \in DOMAIN BinOp => operand(i.r)

Supported(ins) ==
    LET supported[i \in Instruction] == SupportedNode(supported, i)
    IN  supported[ins]

\* 8 * ins.l.size.  Only a leaf has a size of its own here: what zero-extends
\* anything narrower is a leaf wherever SizedCode holds.
Bits(o) == IF o.kind = "var" THEN Size[o.name] ELSE Width

TreeNode(tree, i) ==
    LET operand(o) == IF o.kind = "ins" THEN tree[o.ins] ELSE o
        a == operand(i.l)
    IN  CASE i.op = "mov" -> a
          [] i.op = "shl" -> Bin("*", a, Const(Pow2[i.r.value]))
          [] i.op = "xdu" -> Bin("&", a, Const(Pow2[Bits(i.l)] - 1))
          [] i.op \in DOMAIN UnOp  -> Un(UnOp[i.op], a)
          [] i.op \in DOMAIN BinOp -> Bin(BinOp[i.op], a, operand(i.r))

TreeOf(ins) ==
    LET tree[i \in Instruction] == TreeNode(tree, i) IN tree[ins]

ASSUME CodeAssumption == Code \subseteq Instruction

-----------------------------------------------------------------------------
(* Substituting temporaries.  Raised is the UnsupportedMicrocode exception. *)

Raised == [kind |-> "raised"]

InlineNode(known, inlined, depth, t) ==
    IF depth > MaxDepth THEN Raised
    ELSE LET a == inlined[depth + 1][t.a]
             b == inlined[depth + 1][t.b]
         IN  CASE t.kind = "const" -> t
               [] t.kind = "var" ->
                    LET bound == known[t.name] IN
                    IF bound # None /\ NodeCount(bound) < MaxNodes
                    THEN inlined[depth + 1][bound] ELSE t
               [] t.kind = "un" -> IF a = Raised THEN Raised ELSE Un(t.op, a)
               [] t.kind = "bin" ->
                    IF Raised \in {a, b} THEN Raised ELSE Bin(t.op, a, b)

Inline(tree, known, depth) ==
    LET inlined[n \in Nat] == [t \in Tree |-> InlineNode(known, inlined, n, t)]
    IN  inlined[depth][tree]

Definition(ins) == IF Supported(ins) THEN Inline(TreeOf(ins), env, 0) ELSE Raised

-----------------------------------------------------------------------------
(* One turn of detect_candidates' loop.                                    *)

Classified(ins, tree) ==
    /\ tree.kind \in {"un", "bin"}
    /\ OpsOf(tree) \cap BoolOps # {}
    /\ OpsOf(tree) \cap ArithOps # {}
    /\ Len(LeafNames(tree)) \in 1..MaxLeaves
    /\ ins.d # None
    /\ \A n \in LeafSet(tree) : Size[n] = Size[ins.d]
    /\ CanonicalKey(tree) \notin seen

DetectInit ==
    /\ code = <<>>
    /\ env = [v \in Var |-> None]
    /\ candidates = <<>>
    /\ seen = {}

\* Mutant: a definition that cannot be modelled leaves the old binding.
BindKeeping(ins, tree) ==
    env' = IF ins.d = None \/ tree = Raised THEN env
           ELSE [env EXCEPT ![ins.d] = tree]

Bind(ins, tree) ==
    env' = IF ins.d = None THEN env
           ELSE [env EXCEPT ![ins.d] = IF tree = Raised THEN None ELSE tree]

Scan(ins) ==
    /\ Len(code) < MaxLen
    /\ code' = Append(code, ins)
    /\ LET tree == Definition(ins) IN
       /\ Bind(ins, tree)
       /\ IF tree # Raised /\ Classified(ins, tree)
          THEN /\ candidates' = Append(candidates,
                      [ea |-> ins.ea, tree |-> tree, bits |-> Size[ins.d]])
               /\ seen' = seen \cup {CanonicalKey(tree)}
          ELSE UNCHANGED <<candidates, seen>>

-----------------------------------------------------------------------------
(* What the code itself computes: the machine.                             *)

Memory == {m \in [Var \cup {Heap} -> Word] :
              \A v \in Var \cup {Heap} : m[v] < Pow2[Size[v]]}

ValueNode(m, value, i) ==
    LET operand(o) == CASE o.kind = "const" -> o.value % Modulus
                        [] o.kind = "var"   -> m[o.name]
                        [] o.kind = "ins"   -> value[o.ins]
    IN  CASE i.op = "ldx" -> m[Heap]
          [] i.op \in {"mov", "xdu"} -> operand(i.l)
          [] i.op = "shl" -> (operand(i.l) * Pow2[i.r.value]) % Modulus
          [] i.op \in DOMAIN UnOp  -> ApplyUn(UnOp[i.op], operand(i.l))
          [] i.op \in DOMAIN BinOp ->
                ApplyBin(BinOp[i.op], operand(i.l), operand(i.r))

ValueOf(ins, m) ==
    LET value[i \in Instruction] == ValueNode(m, value, i) IN value[ins]

\* Memory after one instruction, and after the first n of block, started in m.
Executed(ins, m) ==
    IF ins.d = None THEN m
    ELSE [m EXCEPT ![ins.d] = ValueOf(ins, m) % Pow2[Size[ins.d]]]

After(block, n, m) ==
    LET memory[k \in Nat] ==
            IF k = 0 THEN m ELSE Executed(block[k], memory[k - 1])
    IN  memory[n]

-----------------------------------------------------------------------------
(* Properties of detection.                                                *)

ReadsNode(read, i) ==
    LET operand(o) == CASE o.kind = "var" -> {o.name}
                        [] o.kind = "ins" -> read[o.ins]
                        [] OTHER          -> {}
    IN  operand(i.l) \cup operand(i.r)

Reads(ins) ==
    LET read[i \in Instruction] == ReadsNode(read, i) IN read[ins]

\* No instruction assigns a variable that an earlier one reads, so what was read
\* is still there when a temporary is substituted.
ReadsStayCurrent(block) ==
    \A j \in 1..Len(block) : \A i \in 1..(j - 1) : block[j].d \notin Reads(block[i])

DistinctEa(block) ==
    \A i, j \in 1..Len(block) : block[i].ea = block[j].ea => i = j

\* Candidate c evaluates, at instruction n of block, to what the instruction
\* computes, as far as its destination holds it.
MeansItsInstruction(block, c, n) ==
    LET kept == Pow2[Size[block[n].d]] IN
    \A m \in Memory :
        LET before == After(block, n - 1, m)
        IN  Evaluate(c.tree, before) % kept = ValueOf(block[n], before) % kept

\* What the decompiler's verifier asks of an instruction that computes bits: its
\* operands have that size, and only an xdu reads a leaf that is narrower.
SizedNode(bits, sized, i) ==
    LET operand(o) == \/ o.kind = "const"
                      \/ o.kind = "var" /\ Size[o.name] = bits
                      \/ o.kind = "ins" /\ sized[o.ins]
    IN  \/ i.op = "ldx"
        \/ i.op = "xdu" /\ i.l.kind = "var" /\ Size[i.l.name] <= bits
        \/ /\ operand(i.l)
           /\ i.op = "shl" => i.r.kind = "const"
           /\ i.op \in DOMAIN BinOp => operand(i.r)

Sized(ins, bits) ==
    LET sized[i \in Instruction] == SizedNode(bits, sized, i) IN sized[ins]

WellSized(ins) == ins.d # None => Sized(ins, Size[ins.d])

SizedCode == \A ins \in Code : WellSized(ins)
=============================================================================
