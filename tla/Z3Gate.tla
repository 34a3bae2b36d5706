------------------------------- MODULE Z3Gate -------------------------------
(***************************************************************************)
(* The cached answer of prove.py to "can z3 be imported?".                 *)
(*                                                                         *)
(* z3 may appear while the program runs.  Whoever installs it says so      *)
(* afterwards, by bumping d810's generation or, in a d810 without one, by  *)
(* calling reset_z3_detection.  Any thread may ask at any time             *)
(* (the decompiler's, before each inline proof and in configure, the       *)
(* worker before each of its own), and z3_available takes no lock: each    *)
(* read or write of a module global is a step.                             *)
(***************************************************************************)
EXTENDS Integers

CONSTANTS
    Thread,         \* the threads that call z3_available
    MaxGeneration   \* bound on the number of bumps

ASSUME GateAssumption == MaxGeneration \in Nat

VARIABLES
    installed,      \* external: the import would succeed
    generation,     \* external: d810's generation, 0 where there is none
    z3,             \* whether the global z3 is bound
    available,      \* _Z3_AVAILABLE
    cached,         \* _Z3_GENERATION
    pc,             \* where each thread is in z3_available
    seen,           \* its local generation
    probed,         \* what its _probe returned
    answer,         \* what z3_available returned to it
    since,          \* history: the generation at which z3 was first
                    \* announced, or -1
    hit,            \* history: has a reset come since the thread's call
                    \* looked at the cached answer
    overlapped      \* history: has a refresh stored its answer, or a reset
                    \* cleared it, while another refresh was under way

hostVars == <<installed, generation, since>>
cacheVars == <<z3, available, cached>>
callVars == <<pc, seen, probed, answer>>
raceVars == <<hit, overlapped>>
vars == <<hostVars, cacheVars, callVars, raceVars>>

TypeOK ==
    /\ installed \in BOOLEAN
    /\ generation \in 0..MaxGeneration
    /\ z3 \in BOOLEAN
    /\ available \in {"None", "True", "False"}
    /\ cached \in -1..MaxGeneration
    /\ pc \in [Thread -> {"idle", "check", "probe", "bind", "store", "stamp",
                          "return", "answered"}]
    /\ seen \in [Thread -> 0..MaxGeneration]
    /\ probed \in [Thread -> {"True", "False"}]
    /\ answer \in [Thread -> {"None", "True", "False"}]
    /\ since \in -1..MaxGeneration
    /\ hit \in [Thread -> BOOLEAN]
    /\ overlapped \in BOOLEAN

Init ==
    /\ installed \in BOOLEAN
    /\ generation = 0
    /\ z3 = FALSE /\ available = "None" /\ cached = -1
    /\ pc = [t \in Thread |-> "idle"]
    /\ seen = [t \in Thread |-> 0]
    /\ probed = [t \in Thread |-> "False"]
    /\ answer = [t \in Thread |-> "None"]
    /\ since = -1
    /\ hit = [t \in Thread |-> FALSE] /\ overlapped = FALSE

\* Between finding the cached answer stale and having replaced it.
Refreshing(t) == pc[t] \in {"probe", "bind", "store", "stamp"}

-----------------------------------------------------------------------------
(* The host: d810's installer, and whoever resets the detection.           *)

Announced == since >= 0

Install ==
    /\ ~installed
    /\ installed' = TRUE
    /\ UNCHANGED <<generation, since, cacheVars, callVars, raceVars>>

\* Optional dependencies have changed, z3 or others.
Bump ==
    /\ generation < MaxGeneration
    /\ generation' = generation + 1
    /\ since' = IF installed /\ ~Announced THEN generation + 1 ELSE since
    /\ UNCHANGED <<installed, cacheVars, callVars, raceVars>>

\* reset_z3_detection.
Reset ==
    /\ available' = "None"
    /\ since' = IF installed /\ ~Announced THEN generation ELSE since
    /\ hit' = [t \in Thread |-> hit[t] \/ pc[t] \notin {"idle", "check"}]
    /\ overlapped' = (overlapped \/ \E t \in Thread : Refreshing(t))
    /\ UNCHANGED <<installed, generation, z3, cached, callVars>>

-----------------------------------------------------------------------------
(* A call of z3_available by thread t.                                     *)

GoTo(t, step) == pc' = [pc EXCEPT ![t] = step]

\* _current_generation.
ReadGeneration(t) ==
    /\ pc[t] = "idle"
    /\ seen' = [seen EXCEPT ![t] = generation]
    /\ hit' = [hit EXCEPT ![t] = FALSE]
    /\ GoTo(t, "check")
    /\ UNCHANGED <<hostVars, cacheVars, probed, answer, overlapped>>

\* Mutant: only the generation is looked at.
StaleIfBumped(t) == seen[t] # cached

Stale(t) == available = "None" \/ seen[t] # cached

\* The answer is None or another generation's: probe again.
Check(t) ==
    /\ pc[t] = "check"
    /\ \/ Stale(t) /\ GoTo(t, "probe")
       \/ ~Stale(t) /\ GoTo(t, "return")
    /\ UNCHANGED <<hostVars, cacheVars, seen, probed, answer, raceVars>>

\* _probe_z3 tries the import, which may raise something else than the
\* ImportError it expects and end the call ...
Import(t) ==
    /\ pc[t] = "probe"
    /\ \/ /\ installed
          /\ GoTo(t, "bind")
          /\ UNCHANGED probed
       \/ /\ ~installed
          /\ GoTo(t, "store")
          /\ probed' = [probed EXCEPT ![t] = "False"]
       \/ /\ GoTo(t, "idle")
          /\ UNCHANGED probed
    /\ UNCHANGED <<hostVars, cacheVars, seen, answer, raceVars>>

\* Mutant: the import succeeded, but the global is not bound.
BindNothing(t) ==
    /\ pc[t] = "bind"
    /\ probed' = [probed EXCEPT ![t] = "True"]
    /\ GoTo(t, "store")
    /\ UNCHANGED <<hostVars, cacheVars, seen, answer, raceVars>>

\* ... and binds the module for the proof helpers.
Bind(t) ==
    /\ pc[t] = "bind"
    /\ z3' = TRUE
    /\ probed' = [probed EXCEPT ![t] = "True"]
    /\ GoTo(t, "store")
    /\ UNCHANGED <<hostVars, available, cached, seen, answer, raceVars>>

\* _Z3_AVAILABLE = bool(_probe()).
Store(t) ==
    /\ pc[t] = "store"
    /\ available' = probed[t]
    /\ GoTo(t, "stamp")
    /\ overlapped' = (overlapped \/ \E u \in Thread \ {t} : Refreshing(u))
    /\ UNCHANGED <<hostVars, z3, cached, seen, probed, answer, hit>>

\* Mutant: the generation is read again after the probe.
StampNow(t) ==
    /\ pc[t] = "stamp"
    /\ cached' = generation
    /\ GoTo(t, "return")
    /\ UNCHANGED <<hostVars, z3, available, seen, probed, answer, raceVars>>

\* _Z3_GENERATION = generation, the one read before the probe.
Stamp(t) ==
    /\ pc[t] = "stamp"
    /\ cached' = seen[t]
    /\ GoTo(t, "return")
    /\ UNCHANGED <<hostVars, z3, available, seen, probed, answer, raceVars>>

\* return _Z3_AVAILABLE, which is read again.
Return(t) ==
    /\ pc[t] = "return"
    /\ answer' = [answer EXCEPT ![t] = available]
    /\ GoTo(t, "answered")
    /\ UNCHANGED <<hostVars, cacheVars, seen, probed, raceVars>>

\* The caller has used the answer: prove_equivalent works on the global z3
\* or returns UNAVAILABLE, proof_gate_status warns or does not.
Done(t) ==
    /\ pc[t] = "answered"
    /\ GoTo(t, "idle")
    /\ UNCHANGED <<hostVars, cacheVars, seen, probed, answer, raceVars>>

Call(t) ==
    \/ ReadGeneration(t) \/ Check(t) \/ Import(t) \/ Bind(t)
    \/ Store(t) \/ Stamp(t) \/ Return(t) \/ Done(t)

Next ==
    \/ Install \/ Bump \/ Reset
    \/ \E t \in Thread : Call(t)

Spec == Init /\ [][Next]_vars

-----------------------------------------------------------------------------
(* Properties.                                                             *)

\* Whoever is told that z3 is there finds the global z3 bound: no proof
\* starts on the None that prove.py is imported with (prove.py:249).
NeverUsedUnbound ==
    \A t \in Thread : pc[t] = "answered" /\ answer[t] = "True" => z3

\* Once z3 has been announced, a call that begins is answered True, whatever
\* refresh the announcement overtook, unless a reset has come since it looked
\* at the cache; as long as no refresh has been under way while
\* another stored its answer or a reset cleared it ("the gate opens without
\* restarting IDA", rules/cobra_solve.py:165).
GateOpens ==
    Announced /\ ~overlapped =>
        \A t \in Thread :
            pc[t] = "answered" /\ seen[t] >= since /\ ~hit[t] =>
                answer[t] = "True"

\* z3_available answers, as it is annotated, with a bool: the None that a reset
\* leaves behind is returned only to a call that had looked at the cache when
\* the reset came, and to no call after it, however many refresh at once.
AnswersAreDefinite ==
    \A t \in Thread : pc[t] = "answered" /\ answer[t] = "None" => hit[t]
=============================================================================
