----------------------- MODULE EscalationProverProofs -----------------------
(***************************************************************************)
(* What the steps of submit and of a worker preserve, whoever calls the    *)
(* prover: the part of the arguments about EscalationLifecycle and about   *)
(* CobraSolve that the two share.                                          *)
(***************************************************************************)
EXTENDS EscalationProver, FiniteSetTheorems, TLAPS

-----------------------------------------------------------------------------
(* The rewrite table.                                                     *)

\* An insertion stores its entry and changes no other key except by evicting it.
LEMMA PutEffect ==
    ASSUME TableTypeOK, NEW k \in Key, NEW e \in Entry, Put(k, e)
    PROVE  /\ TableTypeOK'
           /\ table'[k] = e
           /\ \A j \in Key \ {k} : table'[j] \in {table[j], Missing}
<1>1. CASE table' = [table EXCEPT ![k] = e]
    BY <1>1 DEF TableTypeOK
<1>2. CASE \E victim \in Cached : 
              table' = [table EXCEPT ![k] = e, ![victim] = Missing]
           /\ k \notin Cached
    BY <1>2 DEF TableTypeOK, Cached
<1>3. QED
    BY <1>1, <1>2 DEF Put

\* A table with room for every key evicts nothing.
RoomForAll == IsFiniteSet(Key) /\ Cardinality(Key) <= MaxEntries

\* With room for every key an insertion changes its own entry only.
LEMMA PutWithRoom ==
    ASSUME RoomForAll, TableTypeOK, NEW k \in Key, NEW e \in Entry, Put(k, e)
    PROVE  table' = [table EXCEPT ![k] = e]
<1>1. CASE k \in Cached
    BY <1>1 DEF Put
<1>2. CASE k \notin Cached
    <2>1. Cached \in SUBSET Key /\ Cached # Key
        BY <1>2 DEF Cached
    <2>2. Cardinality(Cached) \in Nat /\ Cardinality(Key) \in Nat
        BY <2>1, FS_Subset, FS_CardinalityType DEF RoomForAll
    <2>3. /\ Cardinality(Cached) <= Cardinality(Key)
          /\ Cardinality(Cached) # Cardinality(Key)
        BY <2>1, FS_Subset DEF RoomForAll
    <2>4. Cardinality(Cached) < MaxEntries
        BY <2>2, <2>3, TableAssumption DEF RoomForAll
    <2>5. ~(Cardinality(Cached) >= MaxEntries)
        BY <2>2, <2>4, TableAssumption
    <2>6. QED
        BY <2>5 DEF Put
<1>3. QED
    BY <1>1, <1>2

-----------------------------------------------------------------------------
(* Types.                                                                  *)

\* A thread that is past the point of taking a candidate has one.
InHand ==
    /\ pc \in {"submit", "submit_pending", "submit_put"} => cand \in Item
    /\ \A w \in Worker : at[w] = "prove" => item[w] \in Item

\* task_done is owed for what is queued and for what a worker holds, which is
\* why it is never called once too often.
Proving   == {w \in Worker : at[w] = "prove"}
Accounted == unfinished = Len(queue) + Cardinality(Proving)

ProverInv == TableTypeOK /\ ProverTypeOK /\ InHand /\ Accounted

\* The number of workers with an item is a number.
LEMMA ProvingFinite == IsFiniteSet(Proving) /\ Cardinality(Proving) \in Nat
BY ProverAssumption, FS_Subset, FS_CardinalityType DEF Proving

\* The prover starts with nothing queued and nothing owed.
LEMMA ProverInitTypes ==
    TableInit /\ ProverInit /\ z3 \in BOOLEAN => ProverInv
<1> SUFFICES ASSUME TableInit, ProverInit, z3 \in BOOLEAN PROVE ProverInv
    OBVIOUS
<1> USE DEF TableInit, ProverInit
<1>1. queue \in Seq(Item \cup {Pill}) /\ Len(queue) = 0
    OBVIOUS
<1>2. stopping \in BOOLEAN
    OBVIOUS
<1>3. TableTypeOK
    BY DEF TableTypeOK
<1>4. ProverTypeOK
    BY <1>1, <1>2, ProverAssumption DEF ProverTypeOK, Context
<1>5. Proving = {}
    BY DEF Proving
<1>6. QED
    BY <1>3, <1>4, <1>5, FS_EmptySet DEF ProverInv, InHand, Accounted

\* An enqueueing adds one item and one task owed, within the bound.
LEMMA EnqueueEffect ==
    ASSUME ProverTypeOK, NEW x \in Item \cup {Pill}, Enqueue(x)
    PROVE  /\ queue' \in Seq(Item \cup {Pill})
           /\ queue' = Append(queue, x)
           /\ Len(queue') = Len(queue) + 1 /\ Len(queue') <= MaxQueue
           /\ unfinished' = unfinished + 1
<1>1. MaxQueue \in Nat /\ queue \in Seq(Item \cup {Pill})
    BY ProverAssumption DEF ProverTypeOK
<1>2. QED
    BY <1>1 DEF Enqueue, HasRoom

\* A verdict inserts a settled entry for its key, a proof only of an equivalent
\* pair, or it drops the key.
LEMMA ConcludeEffect ==
    ASSUME TableTypeOK, ProverTypeOK, NEW i \in Item,
           NEW context \in Context \cup {None},
           NEW verdict \in Verdicts(i, context), Conclude(i, verdict)
    PROVE  /\ TableTypeOK'
           /\ dropped' \subseteq Key
           /\ \/ UNCHANGED table /\ dropped' = dropped \cup {i.key}
              \/ /\ UNCHANGED dropped
                 /\ \E e \in Settled :
                       /\ Put(i.key, e)
                       /\ \/ e = NoRewrite
                          \/ /\ e = Proved(i.rewrite)
                             /\ <<i.key, i.rewrite>> \in Equivalent
<1>1. i.key \in Key /\ i.rewrite \in Rewrite
    BY DEF Item
<1>2. Proved(i.rewrite) \in Settled /\ NoRewrite \in Settled
    BY <1>1 DEF Settled, ProvedEntry
<1>3. CASE verdict = "proved"
    <2>1. <<i.key, i.rewrite>> \in Equivalent
        BY <1>3 DEF Verdicts
    <2>2. QED
        BY <1>1, <1>2, <1>3, <2>1, PutEffect
        DEF Conclude, RecordProved, ProverTypeOK, Entry
<1>4. CASE verdict \in {"refuted", "unknown", "unavailable"}
    BY <1>1, <1>2, <1>4, PutEffect
    DEF Conclude, RecordNoRewrite, ProverTypeOK, Entry
<1>5. CASE verdict = "raised"
    BY <1>1, <1>5 DEF Conclude, TableTypeOK, ProverTypeOK
<1>6. QED
    BY <1>3, <1>4, <1>5 DEF Conclude

\* A worker that concludes a proof has an item of its own.
LEMMA ProveOneEffect ==
    ASSUME ProverInv, NEW w \in Worker, ProveOne(w)
    PROVE  /\ item[w] \in Item
           /\ TableTypeOK' /\ dropped' \subseteq Key
           /\ \/ UNCHANGED table /\ dropped' = dropped \cup {item[w].key}
              \/ /\ UNCHANGED dropped
                 /\ \E e \in Settled :
                       /\ Put(item[w].key, e)
                       /\ \/ e = NoRewrite
                          \/ /\ e = Proved(item[w].rewrite)
                             /\ <<item[w].key, item[w].rewrite>> \in Equivalent
<1>1. item[w] \in Item /\ using[w] \in Context \cup {None}
    BY DEF ProverInv, ProveOne, InHand, ProverTypeOK, Thread
<1>2. PICK verdict \in Verdicts(item[w], using[w]) : Conclude(item[w], verdict)
    BY DEF ProveOne
<1>3. TableTypeOK /\ ProverTypeOK
    BY DEF ProverInv
<1>4. QED
    BY <1>1, <1>2, <1>3, ConcludeEffect

-----------------------------------------------------------------------------
\* Every step of submit keeps the types and the count of tasks.
LEMMA SubmitTypes ==
    ASSUME ProverInv, SubmitStep
    PROVE  ProverInv' /\ pc' \in {"idle", "submit_pending", "submit_put"}
<1> USE DEF ProverInv, queueVars, threadVars, proofVars, callVars
<1>1. CASE SubmitLookup
    BY <1>1
    DEF SubmitLookup, SubmitReturns, TableTypeOK, ProverTypeOK, InHand,
        Accounted, Proving
<1>2. CASE SubmitPending
    <2>1. cand.key \in Key /\ Pending \in Entry
        BY <1>2 DEF SubmitPending, InHand, Item, Entry
    <2>2. TableTypeOK'
        BY <1>2, <2>1, PutEffect
        DEF SubmitPending, RecordPending, TableTypeOK
    <2>3. QED
        BY <1>2, <2>1, <2>2
        DEF SubmitPending, ProverTypeOK, InHand, Accounted, Proving
<1>3. CASE SubmitPut
    <2>1. cand \in Item
        BY <1>3 DEF SubmitPut, InHand
    <2>2. \/ UNCHANGED queueVars
          \/ /\ queue' \in Seq(Item \cup {Pill})
             /\ Len(queue') = Len(queue) + 1 /\ Len(queue') <= MaxQueue
             /\ unfinished' = unfinished + 1
        BY <1>3, <2>1, EnqueueEffect DEF SubmitPut
    <2>3. dropped' \subseteq Key
        BY <1>3, <2>1 DEF SubmitPut, Item, ProverTypeOK
    <2>4. TableTypeOK' /\ ProverTypeOK'
        BY <1>3, <2>2, <2>3
        DEF SubmitPut, SubmitReturns, TableTypeOK, ProverTypeOK
    <2>5. Proving' = Proving
        BY <1>3 DEF SubmitPut, Proving
    <2>6. InHand' /\ Accounted'
        BY <1>3, <2>2, <2>5, ProvingFinite
        DEF SubmitPut, SubmitReturns, InHand, Accounted, ProverTypeOK
    <2>7. QED
        BY <1>3, <2>4, <2>6 DEF SubmitPut, SubmitReturns
<1>4. QED
    BY <1>1, <1>2, <1>3 DEF SubmitStep

\* Every step of a worker keeps the types and the count of tasks.
LEMMA WorkerTypes ==
    ASSUME ProverInv, NEW w \in Worker, WorkerStep(w)
    PROVE  ProverInv' /\ UNCHANGED callVars
<1> USE DEF ProverInv, queueVars, threadVars, proofVars, callVars
<1>1. CASE Boot(w) \/ CheckStopping(w)
    <2>1. TableTypeOK' /\ ProverTypeOK'
        BY <1>1 DEF Boot, CheckStopping, TableTypeOK, ProverTypeOK, Context
    <2>2. Proving' = Proving
        BY <1>1 DEF Boot, CheckStopping, Proving, ProverTypeOK
    <2>3. InHand' /\ Accounted'
        BY <1>1, <2>2
        DEF Boot, CheckStopping, InHand, Accounted, ProverTypeOK
    <2>4. QED
        BY <1>1, <2>1, <2>3 DEF Boot, CheckStopping
<1>2. CASE GetPill(w) \/ GetItem(w)
    <2>1. /\ queue \in Seq(Item \cup {Pill}) /\ queue # <<>>
          /\ queue' = Tail(queue)
        BY <1>2 DEF GetPill, GetItem, ProverTypeOK
    <2>2. /\ queue' \in Seq(Item \cup {Pill})
          /\ Len(queue) > 0 /\ Len(queue') = Len(queue) - 1
          /\ Head(queue) \in Item \cup {Pill}
        BY <2>1
    <2>3. CASE GetPill(w)
        <3>1. Proving' = Proving
            BY <2>3 DEF GetPill, Proving, ProverTypeOK
        <3>2. Accounted' /\ unfinished' \in Nat
            BY <2>2, <2>3, <3>1, ProvingFinite
            DEF GetPill, Accounted, ProverTypeOK
        <3>3. TableTypeOK' /\ ProverTypeOK'
            BY <2>2, <2>3, <3>2, ProverAssumption
            DEF GetPill, TableTypeOK, ProverTypeOK
        <3>4. InHand'
            BY <2>3 DEF GetPill, InHand, ProverTypeOK
        <3>5. QED
            BY <2>3, <3>2, <3>3, <3>4 DEF GetPill
    <2>4. CASE GetItem(w)
        <3>1. Head(queue) \in Item
            BY <2>2, <2>4 DEF GetItem
        <3>2. Proving' = Proving \cup {w} /\ w \notin Proving
            BY <2>4 DEF GetItem, Proving, ProverTypeOK
        <3>3. Cardinality(Proving') = Cardinality(Proving) + 1
            BY <3>2, ProvingFinite, FS_AddElement
        <3>4. Accounted'
            BY <2>2, <2>4, <3>3, ProvingFinite
            DEF GetItem, Accounted, ProverTypeOK
        <3>5. using' \in [Thread -> Context \cup {None}]
            BY <2>4 DEF GetItem, EnterProof, ProverTypeOK, Thread
        <3>6. TableTypeOK' /\ ProverTypeOK'
            BY <2>2, <2>4, <3>1, <3>5, ProverAssumption
            DEF GetItem, TableTypeOK, ProverTypeOK
        <3>7. InHand'
            BY <2>4, <3>1 DEF GetItem, InHand, ProverTypeOK
        <3>8. QED
            BY <2>4, <3>4, <3>6, <3>7 DEF GetItem
    <2>5. QED
        BY <1>2, <2>3, <2>4
<1>3. CASE ProveOne(w)
    <2>1. TableTypeOK' /\ dropped' \subseteq Key
        BY <1>3, ProveOneEffect
    <2>2. w \in Proving /\ Proving' = Proving \ {w}
        BY <1>3 DEF ProveOne, Proving, ProverTypeOK
    <2>3. /\ Cardinality(Proving') = Cardinality(Proving) - 1
          /\ Cardinality(Proving') \in Nat
        BY <2>2, ProvingFinite, FS_RemoveElement, FS_Subset, FS_CardinalityType
    <2>4. Accounted' /\ unfinished' \in Nat
        BY <1>3, <2>3, ProvingFinite
        DEF ProveOne, Accounted, ProverTypeOK
    <2>5. using' \in [Thread -> Context \cup {None}]
        BY <1>3 DEF ProveOne, LeaveProof, ProverTypeOK, Thread
    <2>6. ProverTypeOK'
        BY <1>3, <2>1, <2>4, <2>5 DEF ProveOne, ProverTypeOK
    <2>7. InHand'
        BY <1>3 DEF ProveOne, InHand, ProverTypeOK
    <2>8. QED
        BY <1>3, <2>1, <2>4, <2>6, <2>7 DEF ProveOne
<1>4. QED
    BY <1>1, <1>2, <1>3 DEF WorkerStep

-----------------------------------------------------------------------------
(* Who owns a PENDING entry.                                               *)

InQueue(k)  == \E j \in 1..Len(queue) : queue[j] # Pill /\ queue[j].key = k
AtWorker(k) == \E w \in Worker : at[w] = "prove" /\ item[w].key = k
AtSubmit(k) == pc = "submit_put" /\ cand.key = k

\* The owners of a key are its places in the queue, at a worker or in submit.
LEMMA OwnersOf ==
    \A k \in Key : Owners(k) # {} <=> InQueue(k) \/ AtWorker(k) \/ AtSubmit(k)
BY DEF Owners, InQueue, AtWorker, AtSubmit

Owned(k) == k \in dropped \/ InQueue(k) \/ AtWorker(k) \/ AtSubmit(k)

AllOwned == \A k \in Key : table[k] = Pending => Owned(k)

\* Neither a verdict nor an absent entry is PENDING.
LEMMA SettledIsNotPending ==
    Pending \notin Settled /\ Missing # Pending /\ Missing \notin Settled
BY DEF Settled, ProvedEntry, Pending, NoRewrite, Proved, Missing

\* submit hands its candidate on, to the queue or to dropped.
LEMMA SubmitOwned ==
    ASSUME ProverInv, AllOwned, SubmitStep
    PROVE  AllOwned'
<1> USE DEF ProverInv, ProverTypeOK, AllOwned, queueVars, threadVars,
            proofVars, callVars
<1>1. CASE SubmitLookup
    BY <1>1 DEF SubmitLookup, Owned, InQueue, AtWorker, AtSubmit
<1>2. CASE SubmitPending
    <2>1. cand \in Item /\ cand.key \in Key /\ Pending \in Entry
        BY <1>2 DEF SubmitPending, InHand, Item, Entry
    <2>2. \A k \in Key \ {cand.key} : table'[k] \in {table[k], Missing}
        BY <1>2, <2>1, PutEffect DEF SubmitPending, RecordPending
    <2>3. QED
        BY <1>2, <2>2, SettledIsNotPending
        DEF SubmitPending, Owned, InQueue, AtWorker, AtSubmit
<1>3. CASE SubmitPut
    <2>1. UNCHANGED <<table, at, item>> /\ cand \in Item
        BY <1>3 DEF SubmitPut, InHand
    <2>2. CASE Enqueue(cand) /\ UNCHANGED dropped
        <3>1. /\ queue \in Seq(Item \cup {Pill})
              /\ queue' = Append(queue, cand) /\ cand # Pill
            BY <2>1, <2>2, ProverAssumption DEF Enqueue, Item
        <3>2. \A k \in Key : InQueue(k) => InQueue(k)'
            BY <2>1, <3>1 DEF InQueue
        <3>3. \A k \in Key : k = cand.key => InQueue(k)'
            <4>1. /\ Len(queue) + 1 \in 1..Len(queue')
                  /\ queue'[Len(queue) + 1] = cand
                BY <2>1, <3>1
            <4>2. QED
                BY <3>1, <4>1 DEF InQueue
        <3>4. QED
            BY <2>1, <2>2, <3>2, <3>3 DEF Owned, AtWorker, AtSubmit
    <2>3. CASE dropped' = dropped \cup {cand.key} /\ UNCHANGED queue
        BY <2>1, <2>3 DEF Owned, InQueue, AtWorker, AtSubmit
    <2>4. QED
        BY <1>3, <2>2, <2>3 DEF SubmitPut
<1>4. QED
    BY <1>1, <1>2, <1>3 DEF SubmitStep

\* Taking the head of the queue leaves every other place in it.
LEMMA TakeLeavesTheRest ==
    ASSUME ProverTypeOK, queue # <<>>, queue' = Tail(queue), NEW k \in Key,
           InQueue(k), Head(queue) = Pill \/ Head(queue).key # k
    PROVE  InQueue(k)'
<1>1. PICK j \in 1..Len(queue) : queue[j] # Pill /\ queue[j].key = k
    BY DEF InQueue
<1>2. queue \in Seq(Item \cup {Pill}) /\ j # 1
    BY <1>1 DEF ProverTypeOK
<1>3. j - 1 \in 1..Len(Tail(queue)) /\ Tail(queue)[j - 1] = queue[j]
    BY <1>2
<1>4. QED
    BY <1>1, <1>3 DEF InQueue

\* A worker takes an item over from the queue, and concludes or drops it.
LEMMA WorkerOwned ==
    ASSUME ProverInv, AllOwned, NEW w \in Worker, WorkerStep(w)
    PROVE  AllOwned'
<1> USE DEF ProverInv, ProverTypeOK, AllOwned, queueVars, threadVars,
            proofVars, callVars
<1>1. CASE Boot(w) \/ CheckStopping(w)
    <2>1. \A v \in Worker : at[v] = "prove" => at'[v] = "prove"
        BY <1>1 DEF Boot, CheckStopping
    <2>2. UNCHANGED <<table, queue, item, dropped, pc, cand>>
        BY <1>1 DEF Boot, CheckStopping
    <2>3. QED
        BY <2>1, <2>2 DEF Owned, InQueue, AtWorker, AtSubmit
<1>2. CASE GetPill(w) \/ GetItem(w)
    <2>1. /\ queue # <<>> /\ queue' = Tail(queue)
          /\ UNCHANGED <<table, dropped, pc, cand>>
        BY <1>2 DEF GetPill, GetItem
    <2>2. \A k \in Key : InQueue(k) =>
             InQueue(k)' \/ (Head(queue) # Pill /\ Head(queue).key = k)
        BY <2>1, TakeLeavesTheRest
    <2>3. CASE GetPill(w)
        <3>1. \A k \in Key : AtWorker(k) => AtWorker(k)'
            BY <2>3 DEF GetPill, AtWorker
        <3>2. QED
            BY <2>1, <2>2, <2>3, <3>1 DEF GetPill, Owned, AtSubmit
    <2>4. CASE GetItem(w)
        <3>1. \A k \in Key : AtWorker(k) => AtWorker(k)'
            BY <2>4 DEF GetItem, AtWorker
        <3>2. \A k \in Key : Head(queue).key = k => AtWorker(k)'
            BY <2>4 DEF GetItem, AtWorker
        <3>3. QED
            BY <2>1, <2>2, <3>1, <3>2 DEF Owned, AtSubmit
    <2>5. QED
        BY <1>2, <2>3, <2>4
<1>3. CASE ProveOne(w)
    <2>1. UNCHANGED <<queue, pc, cand>> /\ item[w].key \in Key
        BY <1>3, ProveOneEffect DEF ProveOne, Item
    <2>2. \A k \in Key \ {item[w].key} : AtWorker(k) => AtWorker(k)'
        BY <1>3 DEF ProveOne, AtWorker
    <2>3. CASE UNCHANGED table /\ dropped' = dropped \cup {item[w].key}
        BY <2>1, <2>2, <2>3 DEF Owned, InQueue, AtSubmit
    <2>4. ASSUME UNCHANGED dropped, NEW e \in Settled, Put(item[w].key, e)
          PROVE  AllOwned'
        <3>1. \A k \in Key : table'[k] = Pending =>
                 table[k] = Pending /\ k # item[w].key
            BY <2>1, <2>4, PutEffect, SettledIsNotPending DEF Entry
        <3>2. QED
            BY <2>1, <2>2, <2>4, <3>1 DEF Owned, InQueue, AtSubmit
    <2>5. QED
        BY <1>3, <2>3, <2>4, ProveOneEffect
<1>4. QED
    BY <1>1, <1>2, <1>3 DEF WorkerStep

-----------------------------------------------------------------------------
(* One escalation at a time, in a table that evicts nothing.               *)

\* Whoever holds a key holds it alone, while its entry is PENDING; submit marks
\* only a key that is still missing.
MarkedOnly ==
    /\ \A k \in Key : InQueue(k) \/ AtWorker(k) \/ AtSubmit(k) =>
                        table[k] = Pending
    /\ pc = "submit_pending" => table[cand.key] = Missing

OneInQueue ==
    \A i, j \in 1..Len(queue) :
        queue[i] # Pill /\ queue[j] # Pill /\ queue[i].key = queue[j].key
            => i = j

OneAtWork ==
    \A v, w \in Worker :
        at[v] = "prove" /\ at[w] = "prove" /\ item[v].key = item[w].key
            => v = w

Apart ==
    \A k \in Key :
        /\ ~(InQueue(k) /\ AtWorker(k))
        /\ ~(InQueue(k) /\ AtSubmit(k))
        /\ ~(AtWorker(k) /\ AtSubmit(k))

Once == MarkedOnly /\ OneInQueue /\ OneAtWork /\ Apart

\* The prover starts with nobody holding anything.
LEMMA ProverStartsOnce == TableInit /\ ProverInit => Once
BY DEF TableInit, ProverInit, Once, MarkedOnly, OneInQueue, OneAtWork, Apart,
       InQueue, AtWorker, AtSubmit

\* A step that takes no candidate over, elsewhere than at the marking, keeps it.
LEMMA OnceFrame ==
    ASSUME Once, UNCHANGED <<table, queue, item>>,
           \A w \in Worker : at'[w] = "prove" => at[w] = "prove",
           UNCHANGED <<pc, cand>> \/ pc' \notin {"submit_pending", "submit_put"}
    PROVE  Once'
BY DEF Once, MarkedOnly, OneInQueue, OneAtWork, Apart, InQueue, AtWorker,
       AtSubmit

\* Neither does an insertion for a key that is not in flight.
LEMMA OnceInsert ==
    ASSUME RoomForAll, TableTypeOK, Once, UNCHANGED <<queue, at, item>>,
           pc' \notin {"submit_pending", "submit_put"},
           NEW k \in Key, NEW e \in Entry, table[k] # Pending, Put(k, e)
    PROVE  Once'
<1>1. \A j \in Key \ {k} : table'[j] = table[j]
    BY PutWithRoom DEF TableTypeOK
<1>2. \A j \in Key : InQueue(j)' \/ AtWorker(j)' => j # k /\ table[j] = Pending
    BY DEF Once, MarkedOnly, InQueue, AtWorker
<1>3. \A j \in Key : ~AtSubmit(j)'
    BY DEF AtSubmit
<1>4. MarkedOnly' /\ OneInQueue' /\ OneAtWork'
    BY <1>1, <1>2, <1>3 DEF Once, MarkedOnly, OneInQueue, OneAtWork
<1>5. Apart'
    BY <1>3 DEF Once, Apart, InQueue, AtWorker
<1>6. QED
    BY <1>4, <1>5 DEF Once

\* submit marks a key that nobody holds, and hands it on.
LEMMA OnceSubmit ==
    ASSUME RoomForAll, ProverInv, Once, SubmitStep
    PROVE  Once'
<1> USE DEF ProverInv, ProverTypeOK, Once, queueVars, threadVars,
            proofVars, callVars
<1>1. CASE SubmitLookup
    <2>1. UNCHANGED <<table, queue, at, item>> /\ pc' # "submit_put"
        BY <1>1 DEF SubmitLookup, SubmitReturns
    <2>2. pc' = "submit_pending" => cand' = cand /\ table[cand.key] = Missing
        BY <1>1 DEF SubmitLookup, SubmitReturns, MayEscalate
    <2>3. QED
        BY <2>1, <2>2
        DEF MarkedOnly, OneInQueue, OneAtWork, Apart, InQueue, AtWorker,
            AtSubmit
<1>2. CASE SubmitPending
    <2>1. cand \in Item /\ cand.key \in Key /\ Pending \in Entry
        BY <1>2 DEF SubmitPending, InHand, Item, Entry
    <2>2. /\ ~InQueue(cand.key) /\ ~AtWorker(cand.key)
          /\ table[cand.key] = Missing
        BY <1>2, <2>1, SettledIsNotPending DEF SubmitPending, MarkedOnly
    <2>3. table' = [table EXCEPT ![cand.key] = Pending]
        BY <1>2, <2>1, <2>2, PutWithRoom, SettledIsNotPending
        DEF SubmitPending, RecordPending
    <2>4. table \in [Key -> Entry \cup {Missing}]
        BY DEF TableTypeOK
    <2>5. UNCHANGED <<queue, at, item, cand>> /\ pc' = "submit_put"
        BY <1>2 DEF SubmitPending
    <2>6. MarkedOnly'
        BY <1>2, <2>1, <2>3, <2>4, <2>5
        DEF MarkedOnly, InQueue, AtWorker, AtSubmit
    <2>7. Apart'
        BY <1>2, <2>2, <2>5
        DEF SubmitPending, Apart, InQueue, AtWorker, AtSubmit
    <2>8. QED
        BY <2>5, <2>6, <2>7 DEF OneInQueue, OneAtWork
<1>3. CASE SubmitPut
    <2>1. /\ UNCHANGED <<table, at, item>> /\ pc' = "idle"
          /\ cand \in Item /\ cand.key \in Key /\ AtSubmit(cand.key)
        BY <1>3 DEF SubmitPut, SubmitReturns, InHand, Item, AtSubmit
    <2>2. CASE UNCHANGED queue
        BY <2>1, <2>2
        DEF MarkedOnly, OneInQueue, OneAtWork, Apart, InQueue, AtWorker,
            AtSubmit
    <2>3. CASE Enqueue(cand)
        <3>1. /\ queue \in Seq(Item \cup {Pill})
              /\ queue' = Append(queue, cand)
            BY <2>3 DEF Enqueue
        <3>2. /\ Len(queue) \in Nat /\ Len(queue') = Len(queue) + 1
              /\ \A j \in 1..Len(queue) : queue'[j] = queue[j]
              /\ queue'[Len(queue) + 1] = cand
            BY <2>1, <3>1
        <3>3. \A k \in Key : InQueue(k)' => InQueue(k) \/ k = cand.key
            BY <3>2 DEF InQueue
        <3>4. ~InQueue(cand.key) /\ ~AtWorker(cand.key)
            BY <2>1 DEF Apart
        <3>5. OneInQueue'
            BY <3>2, <3>4 DEF OneInQueue, InQueue
        <3>6. \A k \in Key : /\ AtWorker(k)' <=> AtWorker(k)
                             /\ ~AtSubmit(k)'
            BY <2>1 DEF AtWorker, AtSubmit
        <3>7. MarkedOnly' /\ Apart'
            BY <2>1, <3>3, <3>4, <3>6 DEF MarkedOnly, Apart
        <3>8. QED
            BY <2>1, <3>5, <3>7 DEF OneAtWork
    <2>4. QED
        BY <1>3, <2>2, <2>3 DEF SubmitPut
<1>4. QED
    BY <1>1, <1>2, <1>3 DEF SubmitStep

\* A worker's verdict replaces a PENDING entry, and no other.
LEMMA VerdictReplacesPending ==
    ASSUME RoomForAll, ProverInv, Once, NEW w \in Worker, ProveOne(w)
    PROVE  /\ item[w].key \in Key /\ table[item[w].key] = Pending
           /\ \A k \in Key \ {item[w].key} : table'[k] = table[k]
<1>1. item[w].key \in Key /\ AtWorker(item[w].key)
    BY ProveOneEffect DEF Item, ProveOne, AtWorker
<1>2. TableTypeOK
    BY DEF ProverInv
<1>3. ASSUME NEW e \in Settled, Put(item[w].key, e)
      PROVE  \A k \in Key \ {item[w].key} : table'[k] = table[k]
    BY <1>1, <1>2, <1>3, PutWithRoom DEF Entry, TableTypeOK
<1>4. QED
    BY <1>1, <1>3, ProveOneEffect DEF Once, MarkedOnly

\* A worker's step moves its candidate along and duplicates none.
LEMMA OnceWorker ==
    ASSUME RoomForAll, ProverInv, Once, NEW w \in Worker, WorkerStep(w)
    PROVE  Once'
<1> USE DEF ProverInv, ProverTypeOK, Once, queueVars, threadVars,
            proofVars, callVars
<1>1. CASE Boot(w) \/ CheckStopping(w)
    <2>1. UNCHANGED <<table, queue, item, pc, cand>>
        BY <1>1 DEF Boot, CheckStopping
    <2>2. \A v \in Worker : at'[v] = "prove" => at[v] = "prove"
        BY <1>1 DEF Boot, CheckStopping
    <2>3. QED
        BY <2>1, <2>2
        DEF MarkedOnly, OneInQueue, OneAtWork, Apart, InQueue, AtWorker,
            AtSubmit
<1>2. CASE GetPill(w) \/ GetItem(w)
    <2>1. /\ queue \in Seq(Item \cup {Pill}) /\ queue # <<>>
          /\ queue' = Tail(queue)
          /\ UNCHANGED <<table, pc, cand>>
        BY <1>2 DEF GetPill, GetItem
    <2>2. /\ Len(queue) \in Nat \ {0} /\ Len(queue') = Len(queue) - 1
          /\ \A j \in 1..Len(queue') : queue'[j] = queue[j + 1]
          /\ Head(queue) = queue[1]
        BY <2>1
    <2>3. \A k \in Key : InQueue(k)' => InQueue(k)
        BY <2>2 DEF InQueue
    <2>4. OneInQueue'
        BY <2>2 DEF OneInQueue
    <2>5. \A k \in Key : AtSubmit(k)' <=> AtSubmit(k)
        BY <2>1 DEF AtSubmit
    <2>6. CASE GetPill(w)
        <3>1. \A v \in Worker : at'[v] = "prove" => at[v] = "prove" /\ v # w
            BY <2>6 DEF GetPill
        <3>2. UNCHANGED item
            BY <2>6 DEF GetPill
        <3>3. QED
            BY <2>1, <2>3, <2>4, <2>5, <3>1, <3>2
            DEF MarkedOnly, OneAtWork, Apart, AtWorker
    <2>7. CASE GetItem(w)
        <3>1. /\ Head(queue) \in Item /\ Head(queue) # Pill
              /\ Head(queue).key \in Key /\ InQueue(Head(queue).key)
            BY <2>1, <2>2, <2>7 DEF GetItem, Item, InQueue
        <3>2. /\ \A v \in Worker \ {w} : at'[v] = at[v] /\ item'[v] = item[v]
              /\ item'[w] = Head(queue)
            BY <2>7 DEF GetItem
        <3>3. \A k \in Key : AtWorker(k)' => AtWorker(k) \/ k = Head(queue).key
            BY <3>2 DEF AtWorker
        <3>4. \A k \in Key : k = Head(queue).key => ~InQueue(k)'
            <4>1. SUFFICES ASSUME NEW j \in 1..Len(queue'),
                                  queue'[j] # Pill,
                                  queue'[j].key = Head(queue).key
                           PROVE  FALSE
                BY DEF InQueue
            <4>2. /\ j + 1 \in 1..Len(queue) /\ 1 \in 1..Len(queue)
                  /\ queue'[j] = queue[j + 1] /\ j + 1 # 1
                BY <2>2, <4>1
            <4>3. QED
                BY <2>2, <3>1, <4>1, <4>2 DEF OneInQueue
        <3>5. ~AtWorker(Head(queue).key)
            BY <3>1 DEF Apart
        <3>6. MarkedOnly' /\ Apart'
            <4>1. MarkedOnly'
                BY <2>1, <2>3, <2>5, <3>1, <3>3 DEF MarkedOnly
            <4>2. \A k \in Key : ~(InQueue(k)' /\ AtWorker(k)')
                BY <2>3, <3>3, <3>4 DEF Apart
            <4>3. \A k \in Key : ~(InQueue(k)' /\ AtSubmit(k)')
                BY <2>3, <2>5 DEF Apart
            <4>4. \A k \in Key : ~(AtWorker(k)' /\ AtSubmit(k)')
                BY <2>5, <3>1, <3>3 DEF Apart
            <4>5. QED
                BY <4>1, <4>2, <4>3, <4>4 DEF Apart
        <3>7. OneAtWork'
            BY <3>2, <3>5 DEF OneAtWork, AtWorker
        <3>8. QED
            BY <2>4, <3>6, <3>7
    <2>8. QED
        BY <1>2, <2>6, <2>7
<1>3. CASE ProveOne(w)
    <2>1. /\ item[w].key \in Key /\ table[item[w].key] = Pending
          /\ \A k \in Key \ {item[w].key} : table'[k] = table[k]
        BY <1>3, VerdictReplacesPending
    <2>2. UNCHANGED <<queue, pc, cand>> /\ AtWorker(item[w].key)
        BY <1>3 DEF ProveOne, AtWorker
    <2>3. \A v \in Worker : at'[v] = "prove" =>
             at[v] = "prove" /\ v # w /\ item'[v] = item[v]
        BY <1>3 DEF ProveOne
    <2>4. \A k \in Key : AtWorker(k)' => AtWorker(k) /\ k # item[w].key
        BY <1>3, <2>3 DEF ProveOne, OneAtWork, AtWorker
    <2>5. \A k \in Key : /\ InQueue(k)' => InQueue(k) /\ k # item[w].key
                         /\ AtSubmit(k)' => AtSubmit(k) /\ k # item[w].key
        BY <2>2 DEF Apart, InQueue, AtSubmit
    <2>6. pc = "submit_pending" => cand.key \in Key /\ cand.key # item[w].key
        BY <2>1, SettledIsNotPending DEF MarkedOnly, InHand, Item
    <2>7. MarkedOnly' /\ Apart'
        BY <2>1, <2>2, <2>4, <2>5, <2>6 DEF MarkedOnly, Apart
    <2>8. QED
        BY <2>2, <2>3, <2>7 DEF OneInQueue, OneAtWork
<1>4. QED
    BY <1>1, <1>2, <1>3 DEF WorkerStep

\* Nobody holds a key that somebody else holds.
LEMMA OnceMeansOnce == Once => EscalatedOnce
<1> SUFFICES ASSUME Once PROVE EscalatedOnce
    OBVIOUS
<1>1. \A k \in Key : Owners(k) # {} => table[k] = Pending
    BY OwnersOf DEF Once, MarkedOnly
<1>2. ASSUME NEW k \in Key, NEW p \in Owners(k), NEW q \in Owners(k)
      PROVE  p = q
    BY <1>2
    DEF Owners, Once, OneInQueue, OneAtWork, Apart, InQueue, AtWorker,
        AtSubmit
<1>3. QED
    BY <1>1, <1>2 DEF EscalatedOnce
=============================================================================
