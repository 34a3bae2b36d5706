---------------------------- MODULE Z3GateProofs ----------------------------
(***************************************************************************)
(* Theorems about Z3Gate, for any set of threads and any number of bumps.  *)
(***************************************************************************)
EXTENDS Z3Gate, TLAPS

-----------------------------------------------------------------------------
(* Types.                                                                  *)

\* The variables of Z3Gate keep their types.
THEOREM TypeCorrect == Spec => []TypeOK
<1> USE GateAssumption
<1>1. Init => TypeOK
  <2> SUFFICES ASSUME Init PROVE TypeOK
    OBVIOUS
  <2>1. -1 \in -1..MaxGeneration /\ 0 \in 0..MaxGeneration
    OBVIOUS
  <2>2. QED
    BY <2>1 DEF Init, TypeOK
<1>2. TypeOK /\ [Next]_vars => TypeOK'
  <2> SUFFICES ASSUME TypeOK, [Next]_vars
               PROVE  TypeOK'
    OBVIOUS
  <2>1. CASE Install
    BY <2>1 DEF Install, TypeOK, cacheVars, callVars, raceVars
  <2>2. CASE Bump
    BY <2>2 DEF Bump, TypeOK, cacheVars, callVars, raceVars
  <2>3. CASE Reset
    BY <2>3 DEF Reset, TypeOK, callVars, raceVars
  <2>4. ASSUME NEW t \in Thread, Call(t)
        PROVE  TypeOK'
    <3>1. CASE ReadGeneration(t)
      BY <3>1 DEF ReadGeneration, GoTo, TypeOK, hostVars, cacheVars, raceVars
    <3>2. CASE Check(t)
      BY <3>2 DEF Check, GoTo, TypeOK, hostVars, cacheVars, raceVars
    <3>3. CASE Import(t)
      BY <3>3 DEF Import, GoTo, TypeOK, hostVars, cacheVars, raceVars
    <3>4. CASE Bind(t)
      BY <3>4 DEF Bind, GoTo, TypeOK, hostVars, raceVars
    <3>5. CASE Store(t)
      BY <3>5 DEF Store, GoTo, TypeOK, hostVars, raceVars
    <3>6. CASE Stamp(t)
      BY <3>6 DEF Stamp, GoTo, TypeOK, hostVars, raceVars
    <3>7. CASE Return(t)
      BY <3>7 DEF Return, GoTo, TypeOK, hostVars, cacheVars, raceVars
    <3>8. CASE Done(t)
      BY <3>8 DEF Done, GoTo, TypeOK, hostVars, cacheVars, raceVars
    <3>9. QED
      BY <2>4, <3>1, <3>2, <3>3, <3>4, <3>5, <3>6, <3>7, <3>8 DEF Call
  <2>5. CASE UNCHANGED vars
    BY <2>5 DEF vars, hostVars, cacheVars, callVars, raceVars, TypeOK
  <2>6. QED
    BY <2>1, <2>2, <2>3, <2>4, <2>5 DEF Next
<1>3. QED
  BY <1>1, <1>2, PTL DEF Spec

-----------------------------------------------------------------------------
(* The global is bound before anybody can be told that z3 is there.        *)

BoundInv ==
    /\ available = "True" => z3
    /\ \A t \in Thread :
          /\ pc[t] \in {"store", "stamp"} /\ probed[t] = "True" => z3
          /\ pc[t] = "answered" /\ answer[t] = "True" => z3

\* A thread that is told z3 is available can use the global z3.
THEOREM NobodyUsesNone == Spec => []NeverUsedUnbound
<1>1. Init => BoundInv
  BY DEF Init, BoundInv
<1>2. TypeOK /\ BoundInv /\ [Next]_vars => BoundInv'
  <2> SUFFICES ASSUME TypeOK, BoundInv, [Next]_vars
               PROVE  BoundInv'
    OBVIOUS
  <2> USE DEF BoundInv, TypeOK
  <2>1. CASE Install
    BY <2>1 DEF Install, cacheVars, callVars
  <2>2. CASE Bump
    BY <2>2 DEF Bump, cacheVars, callVars
  <2>3. CASE Reset
    BY <2>3 DEF Reset, callVars
  <2>4. ASSUME NEW t \in Thread, Call(t)
        PROVE  BoundInv'
    <3>1. CASE ReadGeneration(t)
      BY <3>1 DEF ReadGeneration, GoTo, cacheVars
    <3>2. CASE Check(t)
      BY <3>2 DEF Check, GoTo, cacheVars
    <3>3. CASE Import(t)
      BY <3>3 DEF Import, GoTo, cacheVars
    <3>4. CASE Bind(t)
      BY <3>4 DEF Bind, GoTo
    <3>5. CASE Store(t)
      BY <3>5 DEF Store, GoTo
    <3>6. CASE Stamp(t)
      BY <3>6 DEF Stamp, GoTo
    <3>7. CASE Return(t)
      BY <3>7 DEF Return, GoTo, cacheVars
    <3>8. CASE Done(t)
      BY <3>8 DEF Done, GoTo, cacheVars
    <3>9. QED
      BY <2>4, <3>1, <3>2, <3>3, <3>4, <3>5, <3>6, <3>7, <3>8 DEF Call
  <2>5. CASE UNCHANGED vars
    BY <2>5 DEF vars, cacheVars, callVars
  <2>6. QED
    BY <2>1, <2>2, <2>3, <2>4, <2>5 DEF Next
<1>3. BoundInv => NeverUsedUnbound
  BY DEF BoundInv, NeverUsedUnbound
<1>4. QED
  BY <1>1, <1>2, <1>3, TypeCorrect, PTL DEF Spec

-----------------------------------------------------------------------------
(* None is only ever read because of a reset.                              *)

DefiniteInv ==
    \A t \in Thread :
        /\ pc[t] \in {"stamp", "return"} => available # "None" \/ hit[t]
        /\ pc[t] = "answered" => answer[t] # "None" \/ hit[t]

\* A call is answered with a bool, unless a reset has come since it looked at
\* the cached answer: whatever the other threads do, and however often others
\* are reset.
THEOREM AnswersAreBools == Spec => []AnswersAreDefinite
<1>1. Init => DefiniteInv
  BY DEF Init, DefiniteInv
<1>2. TypeOK /\ DefiniteInv /\ [Next]_vars => DefiniteInv'
  <2> SUFFICES ASSUME TypeOK, DefiniteInv, [Next]_vars
               PROVE  DefiniteInv'
    OBVIOUS
  <2> USE DEF DefiniteInv, TypeOK
  <2>1. CASE Install
    BY <2>1 DEF Install, cacheVars, callVars, raceVars
  <2>2. CASE Bump
    BY <2>2 DEF Bump, cacheVars, callVars, raceVars
  <2>3. CASE Reset
    BY <2>3 DEF Reset, callVars, raceVars
  <2>4. ASSUME NEW t \in Thread, Call(t)
        PROVE  DefiniteInv'
    <3>1. CASE ReadGeneration(t)
      BY <3>1 DEF ReadGeneration, GoTo, cacheVars, raceVars
    <3>2. CASE Check(t)
      BY <3>2 DEF Check, Stale, GoTo, cacheVars, raceVars
    <3>3. CASE Import(t)
      BY <3>3 DEF Import, GoTo, cacheVars, raceVars
    <3>4. CASE Bind(t)
      BY <3>4 DEF Bind, GoTo, raceVars
    <3>5. CASE Store(t)
      BY <3>5 DEF Store, GoTo
    <3>6. CASE Stamp(t)
      BY <3>6 DEF Stamp, GoTo, raceVars
    <3>7. CASE Return(t)
      BY <3>7 DEF Return, GoTo, cacheVars, raceVars
    <3>8. CASE Done(t)
      BY <3>8 DEF Done, GoTo, cacheVars, raceVars
    <3>9. QED
      BY <2>4, <3>1, <3>2, <3>3, <3>4, <3>5, <3>6, <3>7, <3>8 DEF Call
  <2>5. CASE UNCHANGED vars
    BY <2>5 DEF vars, cacheVars, callVars, raceVars
  <2>6. QED
    BY <2>1, <2>2, <2>3, <2>4, <2>5 DEF Next
<1>3. DefiniteInv => AnswersAreDefinite
  BY DEF DefiniteInv, AnswersAreDefinite
<1>4. QED
  BY <1>1, <1>2, <1>3, TypeCorrect, PTL DEF Spec

-----------------------------------------------------------------------------
(* Once announced, z3 is seen.                                             *)

\* Nobody is about to store that z3 is absent ...
NoneLate == \A t \in Thread : pc[t] = "store" => probed[t] = "True"

\* ... and the cache does not say so.
SaysTrue == available = "True" /\ NoneLate

\* No thread and no stamp is ahead of the generation, and z3 is announced only
\* when it is there.
Stamps ==
    /\ cached <= generation
    /\ since <= generation
    /\ \A t \in Thread : seen[t] <= generation
    /\ Announced => installed

\* What follows from a generation that is not older than the announcement,
\* whether it is the cache's stamp or a thread's.
Open ==
    /\ cached >= since => NoneLate /\ available # "False"
    /\ \A t \in Thread : seen[t] >= since =>
          /\ pc[t] = "store" => probed[t] = "True"
          /\ pc[t] = "stamp" => SaysTrue
          /\ pc[t] = "return" /\ ~hit[t] => SaysTrue
          /\ pc[t] = "answered" /\ ~hit[t] => answer[t] = "True"

OpenInv == Announced /\ ~overlapped => Open

\* No stamp and no thread is ever ahead of the published generation.
LEMMA StampsHold == Spec => []Stamps
<1>1. Init => Stamps
  BY DEF Init, Stamps, Announced
<1>2. TypeOK /\ Stamps /\ [Next]_vars => Stamps'
  <2> SUFFICES ASSUME TypeOK, Stamps, [Next]_vars
               PROVE  Stamps'
    OBVIOUS
  <2> USE GateAssumption DEF Stamps, TypeOK, Announced
  <2>1. CASE Install
    BY <2>1 DEF Install, cacheVars, callVars
  <2>2. CASE Bump
    BY <2>2 DEF Bump, cacheVars, callVars
  <2>3. CASE Reset
    BY <2>3 DEF Reset, callVars
  <2>4. ASSUME NEW t \in Thread, Call(t)
        PROVE  Stamps'
    <3>1. CASE ReadGeneration(t)
      BY <3>1 DEF ReadGeneration, hostVars, cacheVars
    <3>2. CASE Stamp(t)
      BY <3>2 DEF Stamp, hostVars
    <3>3. CASE Check(t) \/ Import(t) \/ Bind(t) \/ Store(t) \/ Return(t)
               \/ Done(t)
      BY <3>3 DEF Check, Import, Bind, Store, Return, Done, hostVars,
                  cacheVars
    <3>4. QED
      BY <2>4, <3>1, <3>2, <3>3 DEF Call
  <2>5. CASE UNCHANGED vars
    BY <2>5 DEF vars, hostVars, cacheVars, callVars
  <2>6. QED
    BY <2>1, <2>2, <2>3, <2>4, <2>5 DEF Next
<1>3. QED
  BY <1>1, <1>2, TypeCorrect, PTL DEF Spec

\* The gate opens: after the announcement every call is answered True that no
\* reset overtakes, unless a refresh under way was overtaken by another's
\* answer or by a reset.
THEOREM TheGateOpens == Spec => []GateOpens
<1>1. Init => OpenInv
  BY DEF Init, OpenInv, Announced
<1>2. TypeOK /\ Stamps /\ OpenInv /\ [Next]_vars => OpenInv'
  <2> SUFFICES ASSUME TypeOK, Stamps, OpenInv, [Next]_vars,
                      Announced', ~overlapped'
               PROVE  Open'
    BY DEF OpenInv
  <2> USE GateAssumption DEF TypeOK, Announced, OpenInv, Open, SaysTrue,
                            NoneLate
  <2>1. CASE Install
    BY <2>1 DEF Install, cacheVars, callVars, raceVars
  <2>2. CASE Bump
    <3>1. CASE Announced
      BY <2>2, <3>1 DEF Bump, cacheVars, callVars, raceVars
    <3>2. CASE ~Announced
      <4>1. since' = generation + 1 /\ UNCHANGED <<cached, seen>>
        BY <2>2, <3>2 DEF Bump, cacheVars, callVars, raceVars
      <4>2. ~(cached' >= since') /\ \A u \in Thread : ~(seen'[u] >= since')
        BY <4>1 DEF Stamps
      <4>3. QED
        BY <4>2
    <3>3. QED
      BY <3>1, <3>2
  <2>3. CASE Reset
    <3>1. /\ available' = "None" /\ pc' = pc
          /\ \A u \in Thread : ~Refreshing(u)
          /\ \A u \in Thread : pc[u] \notin {"idle", "check"} => hit'[u]
      BY <2>3 DEF Reset, callVars
    <3>2. \A u \in Thread : pc[u] \notin {"store", "stamp"}
      BY <3>1 DEF Refreshing
    <3>3. QED
      BY <3>1, <3>2
  <2>4. ASSUME NEW t \in Thread, Call(t)
        PROVE  Open'
    <3>0. /\ UNCHANGED hostVars
          /\ Announced /\ ~overlapped /\ installed
      BY <2>4 DEF Call, ReadGeneration, Check, Import, Bind, Store, Stamp,
                  Return, Done, hostVars, raceVars, Stamps
    <3>1. CASE ReadGeneration(t)
      BY <3>0, <3>1 DEF ReadGeneration, GoTo, hostVars, cacheVars, raceVars
    <3>2. CASE Check(t)
      BY <3>0, <3>2 DEF Check, Stale, GoTo, hostVars, cacheVars, raceVars
    <3>3. CASE Import(t)
      BY <3>0, <3>3 DEF Import, GoTo, hostVars, cacheVars, raceVars
    <3>4. CASE Bind(t)
      BY <3>0, <3>4 DEF Bind, GoTo, hostVars, raceVars
    <3>5. CASE Store(t)
      <4>1. \A u \in Thread \ {t} : ~Refreshing(u)
        BY <3>0, <3>5 DEF Store
      <4>2. \A u \in Thread : pc'[u] # "store"
        BY <3>5, <4>1 DEF Store, GoTo, Refreshing
      <4>3. ASSUME SaysTrue PROVE SaysTrue'
        BY <3>5, <4>2, <4>3 DEF Store
      <4>4. ASSUME seen[t] >= since PROVE SaysTrue'
        BY <3>0, <3>5, <4>2, <4>4 DEF Store
      <4>5. QED
        BY <3>0, <3>5, <4>1, <4>3, <4>4
           DEF Store, GoTo, hostVars, Refreshing
    <3>6. CASE Stamp(t)
      BY <3>0, <3>6 DEF Stamp, GoTo, hostVars, raceVars
    <3>7. CASE Return(t)
      BY <3>0, <3>7 DEF Return, GoTo, hostVars, cacheVars, raceVars
    <3>8. CASE Done(t)
      BY <3>0, <3>8 DEF Done, GoTo, hostVars, cacheVars, raceVars
    <3>9. QED
      BY <2>4, <3>1, <3>2, <3>3, <3>4, <3>5, <3>6, <3>7, <3>8 DEF Call
  <2>5. CASE UNCHANGED vars
    BY <2>5 DEF vars, hostVars, cacheVars, callVars, raceVars
  <2>6. QED
    BY <2>1, <2>2, <2>3, <2>4, <2>5 DEF Next
<1>3. OpenInv => GateOpens
  BY DEF OpenInv, Open, GateOpens
<1>4. QED
  BY <1>1, <1>2, <1>3, TypeCorrect, StampsHold, PTL DEF Spec

=============================================================================
