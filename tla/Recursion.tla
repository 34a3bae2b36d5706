----------------------------- MODULE Recursion -----------------------------
(***************************************************************************)
(* Recursive functions.  The prover knows f[t \in S] == e only as          *)
(* CHOOSE f : f = [t \in S |-> e].  Here it is proved once, for a          *)
(* definition with a parameter p, that such an f exists when the           *)
(* recursion only looks at arguments of smaller rank; and that facts can   *)
(* be proved by induction on the rank.  An INSTANCE gives the operators    *)
(* their values, which an ASSUME of a theorem could not.                   *)
(***************************************************************************)
EXTENDS Integers, WellFoundedInduction, TLAPS

CONSTANTS
    Domain(_),     \* of the function, for each parameter
    Rank(_, _),    \* of an argument: a natural number
    Step(_, _, _)  \* Step(p, f, t) is what f[t] is defined to be

Fix(p) == CHOOSE f : f = [t \in Domain(p) |-> Step(p, f, t)]

Ranked(p) == \A t \in Domain(p) : Rank(p, t) \in Nat

\* Step looks at f only at arguments of smaller rank.
Descends(p) ==
    \A g, h : \A t \in Domain(p) :
        (\A u \in Domain(p) : Rank(p, u) < Rank(p, t) => g[u] = h[u])
            => Step(p, g, t) = Step(p, h, t)

-----------------------------------------------------------------------------
(* Induction.                                                              *)

\* A set of naturals that is not empty has a least element.
LEMMA LeastNat ==
    ASSUME NEW T \in SUBSET Nat, T # {}
    PROVE  \E m \in T : \A n \in T : m <= n
<1>1. \E m \in T : \A n \in T : ~ (n < m)
  <2>1. PICK m \in T : \A n \in T : ~ (<<n, m>> \in OpToRel(<, Nat))
    BY NatLessThanWellFounded, WFMin
  <2>2. \A n \in T : ~ (n < m)
    BY <2>1 DEF OpToRel
  <2> QED BY <2>2
<1> QED BY <1>1

\* A set that has zero and, with a number, the next one, has every number.
THEOREM NatSetInduction ==
    ASSUME NEW S, 0 \in S, \A n \in Nat : n \in S => n + 1 \in S
    PROVE  Nat \subseteq S
<1>1. SUFFICES ASSUME Nat \ S # {} PROVE FALSE
  OBVIOUS
<1>2. PICK m \in Nat \ S : \A n \in Nat \ S : m <= n
  BY <1>1, LeastNat
<1>3. m # 0 /\ m - 1 \in Nat /\ m - 1 \notin Nat \ S
  BY <1>2
<1> QED BY <1>2, <1>3

\* A set that has an argument whenever it has those of smaller rank has all.
THEOREM RankInduction ==
    ASSUME NEW p, Ranked(p), NEW S,
           \A t \in Domain(p) :
               (\A u \in Domain(p) : Rank(p, u) < Rank(p, t) => u \in S)
                   => t \in S
    PROVE  Domain(p) \subseteq S
<1>1. SUFFICES ASSUME Domain(p) \ S # {} PROVE FALSE
  OBVIOUS
<1> DEFINE T == {Rank(p, t) : t \in Domain(p) \ S}
<1>2. T \in SUBSET Nat /\ T # {}
  BY <1>1 DEF Ranked
<1>3. PICK m \in T : \A n \in T : m <= n
  BY <1>2, LeastNat
<1>4. PICK t \in Domain(p) \ S : m = Rank(p, t)
  BY <1>3
<1>5. \A u \in Domain(p) : Rank(p, u) < Rank(p, t) => u \in S
  BY <1>3, <1>4, <1>2, SMTT(60) DEF Ranked
<1> QED BY <1>4, <1>5

\* In sets given level by level, the first level something is in: the rank that
\* recursion over such sets descends by.
LevelOf(L, t) == CHOOSE n \in Nat : t \in L[n] /\ \A k \in Nat : t \in L[k] => n <= k

\* There is a first level, not after any level the element is known to be in.
LEMMA FirstLevel ==
    ASSUME NEW L, NEW t, NEW n \in Nat, t \in L[n]
    PROVE  LevelOf(L, t) \in Nat /\ t \in L[LevelOf(L, t)] /\ LevelOf(L, t) <= n
<1> DEFINE T == {k \in Nat : t \in L[k]}
<1>1. T \in SUBSET Nat /\ T # {}
  OBVIOUS
<1>2. \E m \in T : \A k \in T : m <= k
  <2> HIDE DEF T
  <2> QED BY <1>1, LeastNat
<1>3. \E m \in Nat : t \in L[m] /\ \A k \in Nat : t \in L[k] => m <= k
  BY <1>2
<1> QED BY <1>3 DEF LevelOf

\* Levels that each contain the one before contain all those before.
LEMMA LevelsGrow ==
    ASSUME NEW L, \A n \in Nat : L[n] \subseteq L[n + 1]
    PROVE  \A n, k \in Nat : n <= k => L[n] \subseteq L[k]
<1> DEFINE S == {k \in Nat : \A n \in Nat : n <= k => L[n] \subseteq L[k]}
<1>1. 0 \in S
  OBVIOUS
<1>2. ASSUME NEW k \in Nat, k \in S PROVE k + 1 \in S
  <2>1. \A n \in Nat : n <= k + 1 => n <= k \/ n = k + 1
    OBVIOUS
  <2>2. L[k] \subseteq L[k + 1]
    OBVIOUS
  <2> QED BY <1>2, <2>1, <2>2
<1> HIDE DEF S
<1>3. Nat \subseteq S
  BY <1>1, <1>2, NatSetInduction
<1> QED BY <1>3 DEF S

-----------------------------------------------------------------------------
(* Existence.                                                              *)

\* g is the function up to rank n.
Upto(p, n, g) ==
    \A t \in Domain(p) : Rank(p, t) < n => g[t] = Step(p, g, t)

\* Two functions that are right up to a rank agree up to it.
LEMMA UptoUnique ==
    ASSUME NEW p, Ranked(p), Descends(p), NEW n, NEW k, NEW g, NEW h,
           n \in Nat, k \in Nat, Upto(p, n, g), Upto(p, k, h)
    PROVE  \A t \in Domain(p) : Rank(p, t) < n /\ Rank(p, t) < k => g[t] = h[t]
<1> DEFINE S == {t \in Domain(p) :
                    Rank(p, t) < n /\ Rank(p, t) < k => g[t] = h[t]}
<1>1. ASSUME NEW t \in Domain(p),
             \A u \in Domain(p) : Rank(p, u) < Rank(p, t) => u \in S
      PROVE  t \in S
  <2>1. SUFFICES ASSUME Rank(p, t) < n, Rank(p, t) < k PROVE g[t] = h[t]
    OBVIOUS
  <2>2. \A u \in Domain(p) : Rank(p, u) < Rank(p, t) => g[u] = h[u]
    BY <1>1, <2>1 DEF Ranked
  <2>3. Step(p, g, t) = Step(p, h, t)
    BY <2>2 DEF Descends
  <2> QED BY <2>1, <2>3 DEF Upto
<1>2. Domain(p) \subseteq S
  <2> HIDE DEF S
  <2> QED BY <1>1, RankInduction
<1> QED BY <1>2

\* There is such a function for every rank.
LEMMA UptoExists ==
    ASSUME NEW p, Ranked(p), Descends(p)
    PROVE  \A n \in Nat : \E g : Upto(p, n, g)
<1> DEFINE S == {n \in Nat : \E g : Upto(p, n, g)}
<1>1. 0 \in S
  BY DEF Upto, Ranked
<1>2. ASSUME NEW n \in Nat, n \in S PROVE n + 1 \in S
  <2>1. PICK g : Upto(p, n, g)
    BY <1>2
  <2> DEFINE h == [t \in Domain(p) |-> Step(p, g, t)]
  <2>2. ASSUME NEW t \in Domain(p), Rank(p, t) < n + 1
        PROVE  h[t] = Step(p, h, t)
    <3>1. \A u \in Domain(p) : Rank(p, u) < Rank(p, t) => g[u] = h[u]
      BY <2>1, <2>2 DEF Upto, Ranked
    <3>2. Step(p, g, t) = Step(p, h, t)
      <4> HIDE DEF h
      <4> QED BY <3>1 DEF Descends
    <3> QED BY <3>2
  <2>3. Upto(p, n + 1, h)
    <3> HIDE DEF h
    <3> QED BY <2>2 DEF Upto
  <2> HIDE DEF h
  <2> QED BY <2>3
<1> HIDE DEF S
<1>3. Nat \subseteq S
  BY <1>1, <1>2, NatSetInduction
<1> QED BY <1>3 DEF S

\* A recursive function satisfies its equation.
THEOREM RecursiveEquation ==
    ASSUME NEW p, Ranked(p), Descends(p)
    PROVE  /\ Fix(p) = [t \in Domain(p) |-> Step(p, Fix(p), t)]
           /\ \A t \in Domain(p) : Fix(p)[t] = Step(p, Fix(p), t)
<1> DEFINE at(n) == CHOOSE g : Upto(p, n, g)
           f == [t \in Domain(p) |-> at(Rank(p, t) + 1)[t]]
<1>1. \A n \in Nat : Upto(p, n, at(n))
  BY UptoExists
<1>2. ASSUME NEW t \in Domain(p) PROVE f[t] = Step(p, f, t)
  <2> DEFINE g == at(Rank(p, t) + 1)
  <2>1. Upto(p, Rank(p, t) + 1, g)
    BY <1>1 DEF Ranked
  <2>2. ASSUME NEW u \in Domain(p), Rank(p, u) < Rank(p, t)
        PROVE  g[u] = f[u]
    <3> DEFINE h == at(Rank(p, u) + 1)
    <3>1. Upto(p, Rank(p, u) + 1, h)
      BY <1>1 DEF Ranked
    <3>2. /\ Rank(p, u) \in Nat /\ Rank(p, t) \in Nat
          /\ Rank(p, u) + 1 \in Nat /\ Rank(p, t) + 1 \in Nat
          /\ Rank(p, u) < Rank(p, u) + 1 /\ Rank(p, u) < Rank(p, t) + 1
      BY <2>2 DEF Ranked
    <3>3. g[u] = h[u]
      <4> HIDE DEF g, h
      <4> QED BY <3>1, <2>1, <3>2, UptoUnique
    <3> QED BY <3>3
  <2>3. Step(p, g, t) = Step(p, f, t)
    <3> HIDE DEF f, g
    <3> QED BY <2>2 DEF Descends
  <2>4. g[t] = Step(p, g, t)
    <3> HIDE DEF g
    <3> QED BY <2>1 DEF Upto, Ranked
  <2> QED BY <2>3, <2>4
<1>3. f = [t \in Domain(p) |-> Step(p, f, t)]
  <2>1. f = [t \in Domain(p) |-> f[t]]
    OBVIOUS
  <2> HIDE DEF f
  <2> QED BY <1>2, <2>1
<1>4. Fix(p) = [t \in Domain(p) |-> Step(p, Fix(p), t)]
  <2> HIDE DEF f
  <2> QED BY <1>3 DEF Fix
<1> DEFINE F == Fix(p)
<1>5. F = [t \in Domain(p) |-> Step(p, F, t)]
  BY <1>4
<1> HIDE DEF F
<1>6. \A t \in Domain(p) : F[t] = Step(p, F, t)
  BY <1>5
<1> QED BY <1>5, <1>6 DEF F
=============================================================================
