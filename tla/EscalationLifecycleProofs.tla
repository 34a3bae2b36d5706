---------------------- MODULE EscalationLifecycleProofs ----------------------
(***************************************************************************)
(* What holds of the escalation prover for any number of candidates,       *)
(* rewrites, queue places and restarts, whoever calls it and in whichever  *)
(* order.                                                                  *)
(***************************************************************************)
EXTENDS EscalationLifecycle, EscalationProverProofs

-----------------------------------------------------------------------------
(* Types.                                                                  *)

TypeInv == TypeOK /\ ProverInv

\* A prover that was never started is typed.
LEMMA TypeInit == Init => TypeInv
<1> SUFFICES ASSUME Init PROVE TypeInv
    OBVIOUS
<1>1. ProverInv
    BY ProverInitTypes DEF Init
<1>2. QED
    BY <1>1 DEF Init, ProverInit, TypeInv, TypeOK, ProverInv

\* start, stop, submit, drain and the workers keep the types.
LEMMA TypeNext == TypeInv /\ [Next]_vars => TypeInv'
<1> SUFFICES ASSUME TypeInv, [Next]_vars PROVE TypeInv'
    OBVIOUS
<1> USE DEF TypeInv, ProverInv, TypeOK, proverVars, queueVars, threadVars,
            proofVars, callVars
<1>1. CASE InstallZ3 \/ Stop \/ StopJoin \/ Drain \/ DrainReturns
           \/ UNCHANGED vars
    <2>1. TypeOK'
        BY <1>1
        DEF InstallZ3, Stop, StopJoin, Drain, DrainReturns, vars, TableTypeOK,
            ProverTypeOK
    <2>2. InHand' /\ Accounted'
        BY <1>1
        DEF InstallZ3, Stop, StopJoin, Drain, DrainReturns, vars, InHand,
            Accounted, Proving
    <2>3. QED
        BY <2>1, <2>2
<1>2. ASSUME NEW w \in Worker, Start(w) PROVE TypeInv'
    <2>1. TypeOK'
        BY <1>2 DEF Start, Spawn, TableTypeOK, ProverTypeOK
    <2>2. Proving' = Proving
        BY <1>2 DEF Start, Spawn, Proving, ProverTypeOK
    <2>3. InHand' /\ Accounted'
        BY <1>2, <2>2 DEF Start, Spawn, InHand, Accounted, ProverTypeOK
    <2>4. QED
        BY <2>1, <2>3
<1>3. ASSUME NEW i \in Item, CallSubmit(i) PROVE TypeInv'
    BY <1>3
    DEF CallSubmit, TableTypeOK, ProverTypeOK, InHand, Accounted, Proving,
        Item, Candidate
<1>4. CASE StopPut
    <2>1. /\ queue' \in Seq(Item \cup {Pill})
          /\ Len(queue') = Len(queue) + 1 /\ Len(queue') <= MaxQueue
          /\ unfinished' = unfinished + 1
        BY <1>4, EnqueueEffect DEF StopPut
    <2>2. TypeOK'
        BY <1>4, <2>1 DEF StopPut, TableTypeOK, ProverTypeOK
    <2>3. Proving' = Proving
        BY <1>4 DEF StopPut, Proving
    <2>4. InHand' /\ Accounted'
        BY <1>4, <2>1, <2>3, ProvingFinite
        DEF StopPut, InHand, Accounted, ProverTypeOK
    <2>5. QED
        BY <2>2, <2>4
<1>5. CASE SubmitStep
    BY <1>5, SubmitTypes
<1>6. ASSUME NEW w \in Worker, WorkerStep(w) PROVE TypeInv'
    BY <1>6, WorkerTypes
<1>7. QED
    BY <1>1, <1>2, <1>3, <1>4, <1>5, <1>6 DEF Next

\* The prover's variables keep their types and its queue its bound, through
\* any sequence of calls.
THEOREM TypeCorrect == Spec => []TypeOK
<1>1. TypeInv => TypeOK
    BY DEF TypeInv
<1>2. QED
    BY <1>1, TypeInit, TypeNext, PTL DEF Spec

-----------------------------------------------------------------------------
(* Nothing is lost.                                                        *)

\* Enqueueing a pill changes nobody's place in the queue.
LEMMA PillEffect ==
    ASSUME ProverTypeOK, Enqueue(Pill)
    PROVE  /\ \A j \in 1..Len(queue) : queue'[j] = queue[j]
           /\ queue'[Len(queue')] = Pill
           /\ Len(queue') = Len(queue) + 1
           /\ \A k \in Key : InQueue(k)' <=> InQueue(k)
<1>1. queue \in Seq(Item \cup {Pill}) /\ queue' = Append(queue, Pill)
    BY DEF ProverTypeOK, Enqueue
<1>2. /\ Len(queue) \in Nat /\ Len(queue') = Len(queue) + 1
      /\ \A j \in 1..Len(queue) : queue'[j] = queue[j]
      /\ queue'[Len(queue) + 1] = Pill
    BY <1>1
<1>3. \A k \in Key : InQueue(k)' <=> InQueue(k)
    BY <1>2 DEF InQueue
<1>4. QED
    BY <1>2, <1>3

\* No call and no worker leaves a PENDING entry without an owner.
LEMMA OwnedStep == TypeInv /\ AllOwned /\ [Next]_vars => AllOwned'
<1> SUFFICES ASSUME TypeInv, AllOwned, [Next]_vars PROVE AllOwned'
    OBVIOUS
<1> USE DEF TypeInv, ProverInv, ProverTypeOK, AllOwned, proverVars, queueVars,
            threadVars, proofVars, callVars
<1>1. CASE InstallZ3 \/ Stop \/ StopJoin \/ Drain \/ DrainReturns
           \/ UNCHANGED vars
    BY <1>1
    DEF InstallZ3, Stop, StopJoin, Drain, DrainReturns, vars, Owned, InQueue,
        AtWorker, AtSubmit
<1>2. ASSUME NEW w \in Worker, Start(w) PROVE AllOwned'
    BY <1>2 DEF Start, Spawn, Owned, InQueue, AtWorker, AtSubmit
<1>3. ASSUME NEW i \in Item, CallSubmit(i) PROVE AllOwned'
    BY <1>3 DEF CallSubmit, Owned, InQueue, AtWorker, AtSubmit
<1>4. CASE StopPut
    BY <1>4, PillEffect DEF StopPut, Owned, AtWorker, AtSubmit
<1>5. CASE SubmitStep
    BY <1>5, SubmitOwned
<1>6. ASSUME NEW w \in Worker, WorkerStep(w) PROVE AllOwned'
    BY <1>6, WorkerOwned
<1>7. QED
    BY <1>1, <1>2, <1>3, <1>4, <1>5, <1>6 DEF Next

\* At the start nothing is PENDING.
LEMMA OwnedInit == Init => AllOwned
BY SettledIsNotPending DEF Init, TableInit, AllOwned

\* A PENDING entry always has an owner, unless a full queue or a raising prover
\* dropped its candidate: stopping and restarting the prover lose none.
THEOREM PendingIsAccountedFor == Spec => []PendingOwned
<1>1. AllOwned => PendingOwned
    BY OwnersOf DEF AllOwned, Owned, PendingOwned
<1>2. QED
    BY <1>1, OwnedInit, OwnedStep, TypeInit, TypeNext, PTL DEF Spec

\* drain returns only from a state in which nothing is in flight, so what is
\* still PENDING was dropped: task_done is never called early.
THEOREM DrainIsComplete == Spec => DrainMeansSettled
<1>1. ASSUME TypeInv, AllOwned, [Next]_vars, pc = "drain", pc' = "idle"
      PROVE  \A k \in Key : table[k] = Pending => k \in dropped
    <2>1. unfinished = 0
        BY <1>1
        DEF Next, vars, proverVars, callVars, InstallZ3, Start, Stop, StopPut,
            StopJoin, Drain, DrainReturns, CallSubmit, SubmitStep,
            SubmitLookup, SubmitPending, SubmitPut, WorkerStep, Boot,
            CheckStopping, GetPill, GetItem, ProveOne
    <2>2. Len(queue) = 0 /\ Cardinality(Proving) = 0
        BY <1>1, <2>1, ProvingFinite
        DEF TypeInv, ProverInv, ProverTypeOK, Accounted
    <2>3. Proving = {}
        BY <2>2, ProvingFinite, FS_EmptySet
    <2>4. \A k \in Key : ~InQueue(k) /\ ~AtWorker(k) /\ ~AtSubmit(k)
        BY <1>1, <2>2, <2>3 DEF InQueue, AtWorker, AtSubmit, Proving
    <2>5. QED
        BY <1>1, <2>4 DEF AllOwned, Owned
<1>2. TypeInv /\ AllOwned /\ [Next]_vars =>
        [pc = "drain" /\ pc' = "idle" =>
            \A k \in Key : table[k] = Pending => k \in dropped]_vars
    BY <1>1
<1>3. QED
    BY <1>2, OwnedInit, OwnedStep, TypeInit, TypeNext, PTL
    DEF Spec, DrainMeansSettled

-----------------------------------------------------------------------------
(* One escalation at a time, in a table that evicts nothing.               *)

\* At the start nothing is in flight.
LEMMA OnceInit == Init => Once
BY ProverStartsOnce DEF Init

\* No call and no worker puts a candidate in flight twice.
LEMMA OnceStep ==
    ASSUME RoomForAll, TypeInv, Once, [Next]_vars
    PROVE  Once'
<1> USE DEF TypeInv, ProverInv, ProverTypeOK, proverVars, queueVars,
            threadVars, proofVars, callVars
<1>1. CASE InstallZ3 \/ Stop \/ StopJoin \/ Drain \/ DrainReturns
           \/ UNCHANGED vars
    BY <1>1, OnceFrame
    DEF InstallZ3, Stop, StopJoin, Drain, DrainReturns, vars
<1>2. ASSUME NEW w \in Worker, Start(w) PROVE Once'
    BY <1>2, OnceFrame DEF Start, Spawn
<1>3. ASSUME NEW i \in Item, CallSubmit(i) PROVE Once'
    BY <1>3, OnceFrame DEF CallSubmit
<1>4. CASE StopPut
    <2>1. /\ \A j \in 1..Len(queue) : queue'[j] = queue[j]
          /\ queue'[Len(queue')] = Pill
          /\ Len(queue') = Len(queue) + 1
          /\ \A k \in Key : InQueue(k)' <=> InQueue(k)
        BY <1>4, PillEffect DEF StopPut
    <2>2. /\ UNCHANGED <<table, at, item>> /\ pc' = "stop_join"
        BY <1>4 DEF StopPut
    <2>3. OneInQueue'
        BY <2>1 DEF Once, OneInQueue
    <2>4. \A k \in Key : (AtWorker(k)' <=> AtWorker(k)) /\ ~AtSubmit(k)'
        BY <2>2 DEF AtWorker, AtSubmit
    <2>5. MarkedOnly' /\ Apart'
        BY <2>1, <2>2, <2>4 DEF Once, MarkedOnly, Apart
    <2>6. QED
        BY <2>2, <2>3, <2>5 DEF Once, OneAtWork
<1>5. CASE SubmitStep
    BY <1>5, OnceSubmit
<1>6. ASSUME NEW w \in Worker, WorkerStep(w) PROVE Once'
    BY <1>6, OnceWorker
<1>7. QED
    BY <1>1, <1>2, <1>3, <1>4, <1>5, <1>6 DEF Next

\* A candidate is in flight at most once, and only while its entry is PENDING:
\* marking before enqueueing is enough, even with the worker running between
\* any two steps of submit.
THEOREM EscalatesOnce ==
    ASSUME RoomForAll
    PROVE  Spec => []EscalatedOnce
<1>1. Once => EscalatedOnce
    BY OnceMeansOnce
<1>2. TypeInv /\ Once /\ [Next]_vars => Once'
    BY OnceStep
<1>3. QED
    BY <1>1, <1>2, OnceInit, TypeInit, TypeNext, PTL DEF Spec

\* A verdict is final: no later submission, worker or restart replaces it.
THEOREM VerdictsAreFinal ==
    ASSUME RoomForAll
    PROVE  Spec => VerdictsStay
<1>1. ASSUME TypeInv, Once, [Next]_vars, NEW k \in Key, table[k] \in Settled
      PROVE  table'[k] = table[k]
    <2>1. CASE UNCHANGED table
        BY <2>1
    <2>2. CASE SubmitPending
        <3>1. /\ cand.key \in Key /\ Pending \in Entry /\ TableTypeOK
              /\ table[cand.key] = Missing
            BY <1>1, <2>2
            DEF SubmitPending, TypeInv, ProverInv, InHand, Item, Entry, Once,
                MarkedOnly
        <3>2. table' = [table EXCEPT ![cand.key] = Pending]
            BY <2>2, <3>1, PutWithRoom, SettledIsNotPending
            DEF SubmitPending, RecordPending
        <3>3. QED
            BY <1>1, <3>1, <3>2, SettledIsNotPending DEF TableTypeOK
    <2>3. ASSUME NEW w \in Worker, ProveOne(w) PROVE table'[k] = table[k]
        BY <1>1, <2>3, VerdictReplacesPending, SettledIsNotPending DEF TypeInv
    <2>4. QED
        BY <1>1, <2>1, <2>2, <2>3
        DEF Next, vars, InstallZ3, Start, Stop, StopPut, StopJoin, Drain,
            DrainReturns, CallSubmit, SubmitStep, SubmitLookup, SubmitPut,
            WorkerStep, Boot, CheckStopping, GetPill, GetItem
<1>2. TypeInv /\ Once /\ [Next]_vars =>
        [\A k \in Key : table[k] \in Settled => table'[k] = table[k]]_vars
    BY <1>1
<1>3. TypeInv /\ Once /\ [Next]_vars => Once'
    BY OnceStep
<1>4. QED
    BY <1>2, <1>3, OnceInit, TypeInit, TypeNext, PTL DEF Spec, VerdictsStay
=============================================================================
