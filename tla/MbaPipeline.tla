----------------------------- MODULE MbaPipeline -----------------------------
(***************************************************************************)
(* run_mba_solve of executor.py on one block: detect, then for each        *)
(* candidate in turn solve, accept, prove, rebuild and install.  The       *)
(* solver is external and may offer anything, so a rewrite is chosen from  *)
(* Rewrites; every way to refuse one is Skip.                              *)
(***************************************************************************)
EXTENDS Detect

CONSTANTS
    RequireProof,  \* the require_proof argument
    Rewrites(_)    \* what the solver may answer about a tree with these leaves

ASSUME PipelineAssumption ==
    /\ RequireProof \in BOOLEAN
    /\ \A leaves \in SUBSET Var : Rewrites(leaves) \subseteq TreesOver(leaves, Depth)

VARIABLES
    todo,       \* the candidates not yet looked at
    original,   \* history: the block as it was detected
    stage       \* "detect" or "rewrite"

vars == <<detectVars, todo, original, stage>>

Init ==
    /\ DetectInit
    /\ todo = <<>> /\ original = <<>>
    /\ stage = "detect"

\* Addresses for the next instruction: several may share one, as the microcode
\* of one machine instruction does.
Addresses ==
    IF code = <<>> THEN {1} ELSE LET ea == code[Len(code)].ea IN {ea, ea + 1}

Detect ==
    /\ stage = "detect"
    /\ \E c \in Code, ea \in Addresses :
          Scan([c EXCEPT !.ea = ea])
    /\ UNCHANGED <<todo, original, stage>>

EndOfBlock ==
    /\ stage = "detect"
    /\ stage' = "rewrite"
    /\ todo' = candidates
    /\ original' = code
    /\ UNCHANGED detectVars

-----------------------------------------------------------------------------
(* The solver's answers, and the gates.                                    *)

\* Mutant: a rewrite that agrees on the 0/1 signature is taken as proved.
ProvedOnSignature(tree, rewrite, bits) ==
    \A values \in [LeafSet(tree) -> {0, 1}] :
        Evaluate(tree, values) % Pow2[bits] = Evaluate(rewrite, values) % Pow2[bits]

Proved(tree, rewrite, bits) == EquivalentOver(bits, LeafSet(tree), tree, rewrite)

-----------------------------------------------------------------------------
(* Rebuilding and installing.                                              *)

Opcode(table, op) == CHOOSE o \in DOMAIN table : table[o] = op

\* An operator becomes an instruction, nested in the one above it; a leaf is none.
RebuiltNode(c, built, t) ==
    LET operand(s) == CASE s.kind = "const" -> Const(s.value % Pow2[c.bits])
                        [] s.kind = "var"   -> s
                        [] OTHER            -> Nested(built[s])
    IN  CASE t.kind = "un" ->
                [op |-> Opcode(UnOp, t.op), l |-> operand(t.a),
                 r |-> [kind |-> "none"], d |-> None, ea |-> c.ea]
          [] t.kind = "bin" ->
                [op |-> Opcode(BinOp, t.op), l |-> operand(t.a),
                 r |-> operand(t.b), d |-> None, ea |-> c.ea]
          [] OTHER -> None

\* build_replacement: for candidate c, into dest.
Rebuilt(c, tree, dest) ==
    LET built[t \in Tree] == RebuiltNode(c, built, t)
    IN  [built[tree] EXCEPT !.d = dest]

\* _find_instruction: the first instruction of the block at ea.
Target(ea) ==
    CHOOSE n \in 1..Len(code) :
        code[n].ea = ea /\ \A i \in 1..(n - 1) : code[i].ea # ea

Install ==
    /\ stage = "rewrite" /\ todo # <<>>
    /\ LET c == Head(todo)
           n == Target(c.ea)
       IN  \E rewrite \in Rewrites(LeafSet(c.tree)) \ {c.tree} :
              /\ AcceptRewrite(c.tree, rewrite)
              /\ RequireProof => Proved(c.tree, rewrite, c.bits)
              /\ rewrite.kind \notin {"const", "var"}   \* ReconstructionError
              /\ code' = [code EXCEPT ![n] = Rebuilt(c, rewrite, code[n].d)]
    /\ todo' = Tail(todo)
    /\ UNCHANGED <<env, candidates, seen, original, stage>>

\* Unsolved, unchanged, not smaller, not proved, or not rebuilt.
Skip ==
    /\ stage = "rewrite" /\ todo # <<>>
    /\ todo' = Tail(todo)
    /\ UNCHANGED <<detectVars, original, stage>>

Next ==
    \/ Detect
    \/ EndOfBlock
    \/ Install
    \/ Skip

Spec == Init /\ [][Next]_vars

-----------------------------------------------------------------------------
(* Properties.                                                             *)

\* The candidate just detected evaluates to what its instruction computes: one
\* expression, reassembled across instructions.
Reassembled ==
    stage = "detect" /\ candidates # <<>> /\ DistinctEa(code) =>
        LET c == candidates[Len(candidates)]
            n == Len(code)
        IN  c.ea = code[n].ea => MeansItsInstruction(code, c, n)

\* The same for blocks that do not overwrite what they read.  A temporary may be
\* assigned again, by an instruction that cannot be modelled or from itself.
ReassembledWhenCurrent == ReadsStayCurrent(code) => Reassembled

SameEffect(p, q) ==
    \A m \in Memory : After(p, Len(p), m) = After(q, Len(q), m)

\* What is installed leaves the effect of the block as it was, in blocks whose
\* addresses tell instructions apart and that do not overwrite what they read.
BlockPreserved ==
    stage = "rewrite" /\ DistinctEa(original) /\ ReadsStayCurrent(original) =>
        \/ code = original
        \/ SameEffect(code, original)

\* The same when instructions share an address: a candidate is matched back to
\* the instruction it came from.
MatchedBack ==
    stage = "rewrite" /\ ReadsStayCurrent(original) =>
        \/ code = original
        \/ SameEffect(code, original)

\* A rewrite proved for one tree and handed out, through the table, for another
\* tree with the same key is equivalent to that one too.
TableHitSound ==
    \A s, t \in {env[v] : v \in Var} \ {None} :
        stage = "detect" /\ s # t /\ CanonicalKey(s) = CanonicalKey(t) =>
            \A rewrite \in Rewrites(LeafSet(s)), bits \in 1..Width :
                Proved(s, rewrite, bits) =>
                    Proved(t, Instantiate(ToPositional(rewrite, s), t), bits)
=============================================================================
