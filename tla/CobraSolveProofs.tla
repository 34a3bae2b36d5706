-------------------------- MODULE CobraSolveProofs --------------------------
(***************************************************************************)
(* What holds of a session of the rule for any number of candidates,       *)
(* rewrites, queue places, cache entries and sessions; and, while its      *)
(* table evicts nothing and its cache does not fail, that candidates are   *)
(* escalated once, that a crash loses less than a batch, and that the      *)
(* whole implements the ledger of verdicts.                                *)
(***************************************************************************)
EXTENDS CobraSolve, EscalationProverProofs

-----------------------------------------------------------------------------
(* The store.                                                              *)

\* Writing rows leaves every row of the disk as it was or as written.
LEMMA UpsertEffect ==
    ASSUME NEW t \in Thread, NEW new \in [Key -> Settled \cup {Missing}],
           DiskTypeOK, conn \in Thread \cup {None}, Upsert(t, new)
    PROVE  /\ disk' \in [Key -> Entry \cup {Missing}]
           /\ conn' \in Thread \cup {None}
           /\ \A k \in Key : \/ disk'[k] = disk[k]
                             \/ disk'[k] \in Settled /\ disk'[k] = new[k]
BY DEF Upsert, Connects, DiskTypeOK, Entry

\* What a flush reads is, for each key it looks at, the settled entry of the table.
LEMMA SettledRowsType ==
    ASSUME TableTypeOK, NEW keys \in SUBSET Key
    PROVE  /\ SettledRows(keys) \in [Key -> Settled \cup {Missing}]
           /\ \A k \in Key : \/ SettledRows(keys)[k] = Missing
                             \/ SettledRows(keys)[k] = table[k]
BY DEF SettledRows, SettledKeys, TableTypeOK

\* The sink only ever writes settled entries.
LEMMA SinkEffect ==
    ASSUME NEW t \in Thread, DiskTypeOK, TableTypeOK,
           conn \in Thread \cup {None}, Sink(t)
    PROVE  /\ DiskTypeOK' /\ UNCHANGED rows
           /\ conn' \in Thread \cup {None}
           /\ \A k \in Key : \/ disk'[k] = disk[k]
                             \/ disk'[k] \in Settled /\ disk'[k] = table[k]
<1>1. CASE UNCHANGED storeVars
    BY <1>1 DEF storeVars, DiskTypeOK
<1>2. CASE Upsert(t, SettledRows(Evicted)) /\ UNCHANGED rows
    <2>1. /\ SettledRows(Evicted) \in [Key -> Settled \cup {Missing}]
          /\ \A k \in Key : \/ SettledRows(Evicted)[k] = Missing
                            \/ SettledRows(Evicted)[k] = table[k]
        BY SettledRowsType DEF Evicted
    <2>2. QED
        BY <1>2, <2>1, UpsertEffect, SettledIsNotPending DEF DiskTypeOK
<1>3. QED
    BY <1>1, <1>2 DEF Sink, PutEvicted

-----------------------------------------------------------------------------
(* Types.                                                                  *)

\* A visit that is past the point of taking a candidate has one.
Holding ==
    /\ pc = "solve" => cand \in Candidate
    /\ pc = "prove" => cand \in Item
    /\ InHand

TypeInv == TypeOK /\ Holding /\ Accounted

\* The prover's part of it.
LEMMA ProverPart == TypeInv => ProverInv
BY DEF TypeInv, TypeOK, Holding, ProverInv

\* A new process, with whatever it finds on disk, is typed.
LEMMA TypeInit == Init => TypeInv
<1> SUFFICES ASSUME Init PROVE TypeInv
    OBVIOUS
<1>1. ProverInv
    BY RuleAssumption, ProverInitTypes DEF Init
<1>2. TypeOK
    BY <1>1, RuleAssumption
    DEF Init, StoreInit, ProverInit, NoRows, DiskTypeOK, ProverInv, TypeOK
<1>3. QED
    BY <1>1, <1>2 DEF Init, ProverInit, TypeInv, Holding, ProverInv

\* A settled candidate leaves the table, the disk and the batch count typed.
LEMMA SettleEffect ==
    ASSUME TypeOK, cand \in Candidate, NEW e \in Settled, SettleInline(e)
    PROVE  /\ TableTypeOK' /\ DiskTypeOK'
           /\ conn' \in Thread \cup {None}
           /\ unflushed' \in 0..FlushEvery
           /\ pc' \in {"idle", "flush"} /\ cand' = None
           /\ offPath' \subseteq Key
           /\ \A k \in Key : table'[k] \in {table[k], Missing, e}
           /\ UNCHANGED rows
           /\ \A k \in Key : \/ disk'[k] = disk[k]
                             \/ disk'[k] \in Settled /\ disk'[k] = table[k]
<1>1. cand.key \in Key /\ e \in Entry
    BY DEF Candidate, Entry
<1>2. /\ TableTypeOK'
      /\ \A k \in Key : table'[k] \in {table[k], Missing, e}
    BY <1>1, PutEffect DEF SettleInline, TypeOK
<1>3. /\ DiskTypeOK' /\ conn' \in Thread \cup {None} /\ UNCHANGED rows
      /\ \A k \in Key : \/ disk'[k] = disk[k]
                        \/ disk'[k] \in Settled /\ disk'[k] = table[k]
    BY SinkEffect DEF SettleInline, TypeOK, Thread
<1>4. /\ unflushed' \in 0..FlushEvery
      /\ pc' \in {"idle", "flush"}
    BY RuleAssumption DEF SettleInline, Count, TypeOK
<1>5. cand' = None /\ offPath' \subseteq Key
    BY DEF SettleInline, StillSettled, TypeOK
<1>6. QED
    BY <1>2, <1>3, <1>4, <1>5

\* A flush only ever reads settled entries, and only ever writes what it read.
LEMMA ReadEffect ==
    ASSUME TypeOK, NEW t \in Thread, FlushReads(t)
    PROVE  /\ DiskTypeOK' /\ UNCHANGED disk
           /\ conn' \in Thread \cup {None}
           /\ \A k \in Key : rows'[k] \in {Missing, table[k]}
BY SettledRowsType DEF FlushReads, Connects, TypeOK, DiskTypeOK

\* The transaction of a flush changes a row only to the one it has read.
LEMMA WriteEffect ==
    ASSUME TypeOK, NEW t \in Thread, FlushWrites(t)
    PROVE  /\ DiskTypeOK' /\ rows' = NoRows
           /\ conn' \in Thread \cup {None}
           /\ \A k \in Key : \/ disk'[k] = disk[k]
                             \/ disk'[k] \in Settled /\ disk'[k] = rows[k]
<1>1. rows \in [Key -> Settled \cup {Missing}]
    BY DEF TypeOK, DiskTypeOK
<1>2. QED
    BY <1>1, UpsertEffect DEF FlushWrites, TypeOK, DiskTypeOK, NoRows

\* Every step of the rule, the worker and the host keeps the types.
LEMMA TypeNext == TypeInv /\ [Next]_vars => TypeInv'
<1> SUFFICES ASSUME TypeInv, [Next]_vars PROVE TypeInv'
    OBVIOUS
<1> USE DEF TypeInv, proverVars, storeVars, ruleVars, queueVars, threadVars,
            proofVars, callVars
<1>1. CASE Configure
    <2>1. TypeOK'
        BY <1>1
        DEF Configure, Start, Spawn, TypeOK, TableTypeOK, ProverTypeOK, DiskTypeOK, Thread
    <2>2. Proving' = Proving
        BY <1>1
        DEF Configure, Start, Spawn, Proving, TypeOK, TableTypeOK, ProverTypeOK, DiskTypeOK, Thread
    <2>3. Holding' /\ Accounted'
        BY <1>1, <2>2
        DEF Configure, Start, Spawn, Holding, InHand, Accounted, TypeOK, TableTypeOK, ProverTypeOK, DiskTypeOK, Thread
    <2>4. QED
        BY <2>1, <2>2, <2>3
<1>2. CASE EnsureStore
    <2>1. TypeOK'
        BY <1>2, ProverAssumption
        DEF EnsureStore, LoadTable, Connects, TypeOK, TableTypeOK, ProverTypeOK, DiskTypeOK, Thread
    <2>2. Holding' /\ Accounted'
        BY <1>2
        DEF EnsureStore, LoadTable, Connects, Holding, InHand, Accounted, Proving, TypeOK
    <2>3. QED
        BY <2>1, <2>2
<1>3. CASE FlushStore
    <2>1. DiskTypeOK' /\ conn' \in Thread \cup {None}
        BY <1>3, ReadEffect DEF FlushStore, TypeOK, DiskTypeOK, Thread
    <2>2. TypeOK'
        BY <1>3, <2>1, RuleAssumption
        DEF FlushStore, TypeOK, TableTypeOK, ProverTypeOK
    <2>3. Holding' /\ Accounted'
        BY <1>3
        DEF FlushStore, Holding, InHand, Accounted, Proving
    <2>4. QED
        BY <2>1, <2>2, <2>3
<1>4. CASE Install
    <2>1. TypeOK'
        BY <1>4
        DEF Install, InstallZ3, TypeOK, TableTypeOK, ProverTypeOK, DiskTypeOK, Thread
    <2>2. Holding' /\ Accounted'
        BY <1>4
        DEF Install, InstallZ3, Holding, InHand, Accounted, Proving, TypeOK
    <2>3. QED
        BY <2>1, <2>2
<1>5. ASSUME NEW k \in Key, Visit(k) PROVE TypeInv'
    <2>1. TypeOK'
        BY <1>5
        DEF Visit, TypeOK, TableTypeOK, ProverTypeOK, DiskTypeOK, Thread, ProvedEntry, Item, Proved, Candidate
    <2>2. Holding' /\ Accounted'
        BY <1>5
        DEF Visit, Holding, InHand, Accounted, Proving, TypeOK, Candidate
    <2>3. QED
        BY <2>1, <2>2
<1>6. CASE SolveDeclines
    <2>1. cand \in Candidate /\ NoRewrite \in Settled
        BY <1>6
        DEF SolveDeclines, Holding, InHand, Settled, ProvedEntry
    <2>2. /\ TableTypeOK' /\ DiskTypeOK' /\ conn' \in Thread \cup {None}
          /\ unflushed' \in 0..FlushEvery /\ offPath' \subseteq Key
          /\ pc' \in {"idle", "flush"} /\ cand' = None
        BY <1>6, <2>1, SettleEffect
        DEF SolveDeclines
    <2>3. TypeOK'
        BY <1>6, <2>1, <2>2
        DEF SolveDeclines, TypeOK, ProverTypeOK, Candidate, Item
    <2>4. Holding' /\ Accounted'
        BY <1>6, <2>2
        DEF SolveDeclines, Holding, InHand, Accounted, Proving
    <2>5. QED
        BY <2>1, <2>2, <2>3, <2>4
<1>7. ASSUME NEW r \in Rewrite, SolveUnchecked(r) PROVE TypeInv'
    <2>1. cand \in Candidate /\ Proved(r) \in Settled
        BY <1>7
        DEF SolveUnchecked, Holding, InHand, Settled, ProvedEntry
    <2>2. /\ TableTypeOK' /\ DiskTypeOK' /\ conn' \in Thread \cup {None}
          /\ unflushed' \in 0..FlushEvery /\ offPath' \subseteq Key
          /\ pc' \in {"idle", "flush"} /\ cand' = None
        BY <1>7, <2>1, SettleEffect
        DEF SolveUnchecked
    <2>3. TypeOK'
        BY <1>7, <2>1, <2>2
        DEF SolveUnchecked, TypeOK, ProverTypeOK, Candidate, Item
    <2>4. Holding' /\ Accounted'
        BY <1>7, <2>2
        DEF SolveUnchecked, Holding, InHand, Accounted, Proving
    <2>5. QED
        BY <2>1, <2>2, <2>3, <2>4
<1>8. ASSUME NEW r \in Rewrite, SolveAccepted(r) PROVE TypeInv'
    <2>1. TypeOK'
        BY <1>8, ProverAssumption, ZenonT(60)
        DEF SolveAccepted, EnterProof, TypeOK, TableTypeOK, ProverTypeOK, DiskTypeOK, Thread, Candidate, Item, Context, Holding, InHand
    <2>2. Holding' /\ Accounted'
        BY <1>8
        DEF SolveAccepted, EnterProof, Holding, InHand, Accounted, Proving, TypeOK, Candidate, Item
    <2>3. QED
        BY <2>1, <2>2
<1>9. CASE ProveInline
    <2>1. cand \in Item /\ cand \in Candidate
        BY <1>9
        DEF ProveInline, Holding, InHand, Item, Candidate
    <2>2. Proved(cand.rewrite) \in Settled /\ NoRewrite \in Settled
        BY <2>1
        DEF Item, Settled, ProvedEntry
    <2>3. using' \in [Thread -> Context \cup {None}]
        BY <1>9
        DEF ProveInline, LeaveProof, TypeOK, ProverTypeOK
    <2>4. /\ TableTypeOK' /\ DiskTypeOK' /\ conn' \in Thread \cup {None}
          /\ unflushed' \in 0..FlushEvery /\ offPath' \subseteq Key
          /\ pc' \in {"idle", "flush", "submit"}
          /\ cand' \in {None, cand} /\ result' \in {cand, result}
          /\ pc' = "submit" => cand' = cand
        BY <1>9, <2>1, <2>2, SettleEffect
        DEF ProveInline, TypeOK, TableTypeOK, DiskTypeOK
    <2>5. TypeOK'
        BY <1>9, <2>1, <2>3, <2>4
        DEF ProveInline, TypeOK, ProverTypeOK
    <2>6. Holding' /\ Accounted'
        BY <1>9, <2>1, <2>4
        DEF ProveInline, Holding, InHand, Accounted, Proving
    <2>7. QED
        BY <2>1, <2>2, <2>3, <2>4, <2>5, <2>6
<1>10. CASE Flush \/ FlushWrite
    <2>1. DiskTypeOK' /\ conn' \in Thread \cup {None}
        BY <1>10, ReadEffect, WriteEffect
        DEF Flush, FlushWrite, TypeOK, DiskTypeOK, Thread
    <2>2. TypeOK'
        BY <1>10, <2>1
        DEF Flush, FlushWrite, TypeOK, TableTypeOK, ProverTypeOK
    <2>3. Holding' /\ Accounted'
        BY <1>10
        DEF Flush, FlushWrite, Holding, InHand, Accounted, Proving
    <2>4. QED
        BY <2>1, <2>2, <2>3
<1>11. CASE Submit
    <2>1. /\ DiskTypeOK' /\ conn' \in Thread \cup {None}
          /\ offPath' \subseteq Key
        BY <1>11, SinkEffect DEF Submit, StillSettled, TypeOK, Thread
    <2>2. ProverInv' /\ pc' \in {"idle", "submit_pending", "submit_put"}
        BY <1>11, ProverPart, SubmitTypes DEF Submit
    <2>3. QED
        BY <1>11, <2>1, <2>2 DEF Submit, ProverInv, TypeOK, Holding
<1>12. ASSUME NEW w \in Worker, Work(w) PROVE TypeInv'
    <2>1. ProverInv' /\ UNCHANGED <<pc, cand>>
        BY <1>12, ProverPart, WorkerTypes DEF Work
    <2>2. at[w] = "prove" => item[w].key \in Key
        BY DEF Holding, InHand, Item
    <2>3. /\ DiskTypeOK' /\ conn' \in Thread \cup {None}
          /\ offPath' \subseteq Key
        BY <1>12, <2>2, SinkEffect DEF Work, StillSettled, TypeOK, Thread
    <2>4. QED
        BY <1>12, <2>1, <2>3 DEF Work, ProverInv, TypeOK, Holding
<1>13. CASE EndSession
    <2>1. z3 \in BOOLEAN /\ stopping' \in BOOLEAN
        BY <1>13 DEF EndSession, TypeOK, ProverTypeOK
    <2>2. queue' \in Seq(Item \cup {Pill}) /\ Len(queue') = 0
        BY <1>13 DEF EndSession
    <2>3. TypeOK'
        BY <1>13, <2>1, <2>2, ProverAssumption, RuleAssumption
        DEF EndSession, TypeOK, TableTypeOK, ProverTypeOK, DiskTypeOK, NoRows,
            Context
    <2>4. Proving' = {}
        BY <1>13 DEF EndSession, Proving
    <2>5. Holding' /\ Accounted'
        BY <1>13, <2>2, <2>4, FS_EmptySet DEF EndSession, Holding, InHand, Accounted
    <2>6. QED
        BY <2>3, <2>5
<1>14. CASE UNCHANGED vars
    BY <1>14
    DEF vars, TypeOK, TableTypeOK, ProverTypeOK, DiskTypeOK, Holding, InHand,
        Accounted, Proving
<1>15. CASE StoreWrite
    <2>1. DiskTypeOK' /\ conn' \in Thread \cup {None}
        BY <1>15, WriteEffect
        DEF StoreWrite, TypeOK, DiskTypeOK, NoRows, Thread
    <2>2. TypeOK'
        BY <1>15, <2>1, RuleAssumption
        DEF StoreWrite, TypeOK, TableTypeOK, ProverTypeOK
    <2>3. Holding' /\ Accounted'
        BY <1>15 DEF StoreWrite, Holding, InHand, Accounted, Proving
    <2>4. QED
        BY <2>1, <2>2, <2>3
<1>16. QED
    BY <1>1, <1>2, <1>3, <1>4, <1>5, <1>6, <1>7, <1>8, <1>9, <1>10, <1>11,
       <1>12, <1>13, <1>14, <1>15
    DEF Next, InCall

\* Every variable of a session keeps its type: in particular the queue keeps
\* its bound, and task_done is never called more often than items were put.
THEOREM TypeCorrect == Spec => []TypeOK
<1>1. TypeInv => TypeOK
    BY DEF TypeInv
<1>2. QED
    BY <1>1, TypeInit, TypeNext, PTL DEF Spec

-----------------------------------------------------------------------------
(* What a late mark may do.                                                *)

\* Only submit marks a candidate, and it looks for a verdict as it does.
LEMMA MarkStep ==
    ASSUME TypeInv, [Next]_vars, NEW k \in Key, table[k] \in Settled
    PROVE  table'[k] # Pending
<1> USE SettledIsNotPending DEF TypeInv, TypeOK
<1>1. CASE table'[k] \in {table[k], Missing} \cup Settled
    BY <1>1
<1>2. ASSUME NEW j \in Key, NEW e \in Settled, Put(j, e)
      PROVE  table'[k] \in {table[k], Missing} \cup Settled
    BY <1>2, PutEffect DEF Entry
<1>3. NoRewrite \in Settled
    BY DEF Settled
<1>4. ASSUME NEW e \in Settled, cand \in Candidate, SettleInline(e)
      PROVE  table'[k] \in {table[k], Missing} \cup Settled
    BY <1>2, <1>4 DEF SettleInline, Candidate
<1>5. CASE SolveDeclines
    BY <1>1, <1>3, <1>4, <1>5 DEF SolveDeclines, Holding, InHand
<1>6. ASSUME NEW r \in Rewrite, SolveUnchecked(r)
      PROVE  table'[k] # Pending
    <2>1. Proved(r) \in Settled /\ cand \in Candidate /\ SettleInline(Proved(r))
        BY <1>6 DEF SolveUnchecked, Settled, ProvedEntry, Holding, InHand
    <2>2. QED
        BY <1>1, <1>4, <2>1
<1>7. CASE ProveInline
    <2>1. cand \in Candidate /\ Proved(cand.rewrite) \in Settled
        BY <1>7
        DEF ProveInline, Holding, InHand, Item, Candidate, Settled, ProvedEntry
    <2>2. \/ UNCHANGED table
          \/ SettleInline(Proved(cand.rewrite)) \/ SettleInline(NoRewrite)
        BY <1>7 DEF ProveInline
    <2>3. QED
        BY <1>1, <1>3, <1>4, <2>1, <2>2
<1>8. CASE Submit
    <2>1. CASE UNCHANGED table
        BY <1>1, <2>1
    <2>2. CASE table[cand.key] \notin Settled /\ SubmitPending /\ Put(cand.key, Pending)
        <3>1. cand.key \in Key \ {k} /\ Pending \in Entry
            BY <2>2 DEF SubmitPending, Holding, InHand, Item, Entry
        <3>2. QED
            BY <1>1, <2>2, <3>1, PutEffect
    <2>3. QED
        BY <1>8, <2>1, <2>2
        DEF Submit, SubmitStep, SubmitLookup, SubmitPending, SubmitPut,
            RecordPending
<1>9. ASSUME NEW w \in Worker, Work(w) PROVE table'[k] # Pending
    <2>1. CASE UNCHANGED table
        BY <1>1, <2>1
    <2>2. CASE ProveOne(w)
        <3>1. /\ item[w].key \in Key
              /\ UNCHANGED table \/ \E e \in Settled : Put(item[w].key, e)
            BY <2>2, ProverPart, ProveOneEffect DEF Item
        <3>2. QED
            BY <1>1, <1>2, <3>1
    <2>3. QED
        BY <1>9, <2>1, <2>2
        DEF Work, WorkerStep, Boot, CheckStopping, GetPill, GetItem
<1>10. CASE EnsureStore
    BY <1>1, <1>10 DEF EnsureStore, LoadTable
<1>11. CASE EndSession
    BY <1>1, <1>11 DEF EndSession
<1>12. CASE UNCHANGED table
    BY <1>1, <1>12
<1>13. QED
    BY <1>5, <1>6, <1>7, <1>8, <1>9, <1>10, <1>11, <1>12
    DEF Next, InCall, vars, Configure, Start, Install, InstallZ3, FlushStore,
        Flush, FlushWrite, StoreWrite, Visit, SolveAccepted

\* A mark that comes late erases no verdict, at any capacity: whoever evicts the
\* key, marks it again or concludes it between a lookup and its mark.
THEOREM MarksEraseNothing == Spec => LatePendingErasesNothing
<1>1. TypeInv /\ [Next]_vars
      => [\A k \in Key : table[k] \in Settled => table'[k] # Pending]_vars
    BY MarkStep
<1>2. QED
    BY <1>1, TypeInit, TypeNext, PTL DEF Spec, LatePendingErasesNothing

-----------------------------------------------------------------------------
(* What is on disk.                                                        *)

\* A row as this step leaves it is what it was, or a settled entry of the table
\* or of what the flush under way has read.
RowStep(k) ==
    /\ \/ disk'[k] = disk[k]
       \/ disk'[k] \in Settled /\ disk'[k] \in {table[k], rows[k]}
    /\ rows'[k] \in {Missing, table[k], rows[k]}

\* No step writes anything to disk but settled entries of the table.
LEMMA DiskStep ==
    ASSUME TypeInv, [Next]_vars
    PROVE  \A k \in Key : RowStep(k)
<1> USE DEF TypeInv, RowStep, proverVars, storeVars, ruleVars
<1>1. CASE FlushStore \/ Flush
    BY <1>1, ReadEffect DEF FlushStore, Flush, Thread
<1>2. CASE FlushWrite \/ StoreWrite
    BY <1>2, WriteEffect DEF FlushWrite, StoreWrite, NoRows, Thread
<1>3. ASSUME NEW t \in Thread, Sink(t) PROVE \A k \in Key : RowStep(k)
    BY <1>3, SinkEffect DEF TypeOK
<1>4. CASE SolveDeclines \/ ProveInline \/ Submit
    <2>1. Sink(Main) \/ UNCHANGED storeVars
        BY <1>4 DEF SolveDeclines, ProveInline, Submit, SettleInline
    <2>2. QED
        BY <1>3, <2>1 DEF Thread
<1>5. ASSUME NEW r \in Rewrite, SolveUnchecked(r)
      PROVE  \A k \in Key : RowStep(k)
    BY <1>3, <1>5 DEF SolveUnchecked, SettleInline, Thread
<1>6. ASSUME NEW w \in Worker, Work(w) PROVE \A k \in Key : RowStep(k)
    BY <1>3, <1>6 DEF Work, Thread
<1>7. CASE UNCHANGED <<disk, rows>> \/ (UNCHANGED disk /\ rows' = NoRows)
    BY <1>7 DEF NoRows
<1>8. QED
    BY <1>1, <1>2, <1>4, <1>5, <1>6, <1>7
    DEF Next, InCall, vars, Configure, EnsureStore, LoadTable, Install,
        EndSession, Visit, SolveAccepted

\* PENDING never reaches the disk: not by a flush, not by an eviction, on
\* whichever thread and at whatever capacity.
THEOREM DiskIsSettled == Spec => []PendingNeverDurable
<1>1. Init => PendingNeverDurable
    BY DEF Init, StoreInit, NoRows, PendingNeverDurable, Missing, Pending
<1>2. TypeInv /\ PendingNeverDurable /\ [Next]_vars => PendingNeverDurable'
    BY DiskStep, SettledIsNotPending DEF RowStep, PendingNeverDurable
<1>3. QED
    BY <1>1, <1>2, TypeInit, TypeNext, PTL DEF Spec

-----------------------------------------------------------------------------
(* What is installed.                                                      *)

SoundEntry(k, e) == e \in ProvedEntry => <<k, e.rewrite>> \in Equivalent

ResultEqual == result # None => Equal(result)

\* With the gate on, PROVED means proved wherever it is written.
SoundInv ==
    /\ require_proof
    /\ \A k \in Key : /\ SoundEntry(k, table[k])
                      /\ SoundEntry(k, disk[k])
                      /\ SoundEntry(k, rows[k])
    /\ ResultEqual

GatedInv == gated => SoundInv

\* Only a PROVED entry can be unsound: the other outcomes install nothing.
LEMMA NotProved ==
    \A k \in Key : /\ SoundEntry(k, Missing)
                  /\ SoundEntry(k, NoRewrite)
                  /\ SoundEntry(k, Pending)
BY DEF SoundEntry, ProvedEntry, Missing, NoRewrite, Pending, Proved

\* The gate has been on until now only if it was on before and is on now.
LEMMA GatedStep ==
    ASSUME gated => require_proof, [Next]_vars, gated'
    PROVE  gated /\ require_proof'
BY DEF Next, vars, ruleVars, Configure, EnsureStore, FlushStore, Install,
       EndSession, Visit, InCall, SolveDeclines, SolveAccepted,
       SolveUnchecked, ProveInline, Flush, FlushWrite, StoreWrite, Submit, Work

\* A proof is what puts a PROVED entry in the table.
LEMMA SoundStep ==
    ASSUME TypeInv, SoundInv, require_proof', [Next]_vars
    PROVE  SoundInv'
<1> USE DEF TypeInv, Equal, proverVars, ruleVars, callVars
<1>1. require_proof'
    OBVIOUS
<1>2. \A k \in Key : SoundEntry(k, disk'[k]) /\ SoundEntry(k, rows'[k])
    BY DiskStep, NotProved DEF RowStep, SoundInv
<1>3. /\ \A k \in Key : SoundEntry(k, table'[k])
      /\ ResultEqual'
    <2>1. ASSUME cand \in Candidate, SettleInline(NoRewrite)
          PROVE  \A k \in Key : SoundEntry(k, table'[k])
        <3>1. NoRewrite \in Settled
            BY DEF Settled
        <3>2. QED
            BY <2>1, <3>1, SettleEffect, NotProved DEF SoundInv
    <2>2. ASSUME cand \in Item, SettleInline(Proved(cand.rewrite)),
                 <<cand.key, cand.rewrite>> \in Equivalent
          PROVE  \A k \in Key : SoundEntry(k, table'[k])
        <3>1. /\ cand.key \in Key /\ cand.rewrite \in Rewrite
              /\ Proved(cand.rewrite) \in Entry
            BY <2>2 DEF Item, Entry, Settled, ProvedEntry
        <3>2. /\ table'[cand.key] = Proved(cand.rewrite)
              /\ \A j \in Key \ {cand.key} : table'[j] \in {table[j], Missing}
            BY <2>2, <3>1, PutEffect DEF SettleInline, TypeOK
        <3>3. SoundEntry(cand.key, table'[cand.key])
            BY <2>2, <3>2 DEF SoundEntry, Proved
        <3>4. \A j \in Key \ {cand.key} : SoundEntry(j, table'[j])
            BY <3>2, NotProved DEF SoundInv
        <3>5. QED
            BY <3>3, <3>4
    <2>3. CASE \/ Configure \/ Install
               \/ FlushStore \/ Flush \/ FlushWrite \/ StoreWrite
        BY <2>3 DEF Configure, Start, Install, InstallZ3, FlushStore, Flush,
                    FlushWrite, StoreWrite, SoundInv, ResultEqual
    <2>4. CASE EnsureStore
        BY <2>4 DEF EnsureStore, LoadTable, SoundInv, ResultEqual
    <2>5. ASSUME NEW k \in Key, Visit(k)
          PROVE  /\ \A j \in Key : SoundEntry(j, table'[j])
                 /\ ResultEqual'
        <3>1. UNCHANGED table
            BY <2>5 DEF Visit
        <3>2. CASE result' = None
            BY <3>1, <3>2 DEF SoundInv, ResultEqual
        <3>3. CASE /\ table[k] \in ProvedEntry
                   /\ result' = [key |-> k, rewrite |-> table[k].rewrite]
            <4>1. <<k, table[k].rewrite>> \in Equivalent
                BY <3>3 DEF SoundInv, SoundEntry
            <4>2. QED
                BY <3>1, <3>3, <4>1 DEF SoundInv, ResultEqual
        <3>4. QED
            BY <2>5, <3>2, <3>3 DEF Visit
    <2>6. CASE SolveDeclines
        BY <2>1, <2>6
        DEF SolveDeclines, Holding, InHand, SoundInv, ResultEqual
    <2>7. ASSUME NEW r \in Rewrite, SolveAccepted(r) \/ SolveUnchecked(r)
          PROVE  /\ \A j \in Key : SoundEntry(j, table'[j])
                 /\ ResultEqual'
        <3>1. SolveAccepted(r)
            BY <2>7 DEF SolveUnchecked, SoundInv
        <3>2. UNCHANGED <<table, result>>
            BY <3>1 DEF SolveAccepted
        <3>3. QED
            BY <3>2 DEF SoundInv, ResultEqual
    <2>8. CASE ProveInline
        <3>1. cand \in Item /\ cand \in Candidate
            BY <2>8 DEF ProveInline, Holding, InHand, Item, Candidate
        <3>2. ASSUME "proved" \in Verdicts(cand, using[Main])
              PROVE  <<cand.key, cand.rewrite>> \in Equivalent
            BY <3>2 DEF Verdicts
        <3>3. CASE /\ "proved" \in Verdicts(cand, using[Main])
                   /\ SettleInline(Proved(cand.rewrite)) /\ result' = cand
            BY <2>2, <3>1, <3>2, <3>3 DEF ResultEqual
        <3>4. CASE SettleInline(NoRewrite) /\ UNCHANGED result
            BY <2>1, <3>1, <3>4 DEF SoundInv, ResultEqual
        <3>5. CASE UNCHANGED <<table, result>>
            BY <3>5 DEF SoundInv, ResultEqual
        <3>6. QED
            BY <2>8, <3>3, <3>4, <3>5 DEF ProveInline, AppliedVerdicts
    <2>9. CASE Submit
        <3>1. CASE UNCHANGED table
            BY <2>9, <3>1 DEF Submit, SoundInv, ResultEqual
        <3>2. CASE SubmitPending /\ Put(cand.key, Pending)
            <4>1. cand.key \in Key /\ Pending \in Entry
                BY <3>2 DEF SubmitPending, Holding, InHand, Item, Entry
            <4>2. \A j \in Key : table'[j] \in {table[j], Missing, Pending}
                BY <3>2, <4>1, PutEffect DEF TypeOK
            <4>3. QED
                BY <2>9, <4>2, NotProved DEF Submit, SoundInv, ResultEqual
        <3>3. QED
            BY <2>9, <3>1, <3>2
            DEF Submit, SubmitStep, SubmitLookup, SubmitPending, SubmitPut,
                RecordPending
    <2>10. ASSUME NEW w \in Worker, Work(w)
           PROVE  /\ \A j \in Key : SoundEntry(j, table'[j])
                  /\ ResultEqual'
        <3>1. UNCHANGED result
            BY <2>10 DEF Work
        <3>2. CASE UNCHANGED table
            BY <3>1, <3>2 DEF SoundInv, ResultEqual
        <3>3. CASE ProveOne(w)
            <4>1. /\ item[w].key \in Key
                  /\ NoRewrite \in Entry
                  /\ Proved(item[w].rewrite) \in Entry
                BY <3>3, ProverPart, ProveOneEffect
                DEF Item, Entry, Settled, ProvedEntry
            <4>2. \A k \in Key :
                     \/ table'[k] \in {table[k], Missing, NoRewrite}
                     \/ /\ k = item[w].key
                        /\ table'[k] = Proved(item[w].rewrite)
                        /\ <<item[w].key, item[w].rewrite>> \in Equivalent
                BY <3>3, <4>1, ProverPart, ProveOneEffect, PutEffect
                DEF TypeOK
            <4>3. \A k \in Key : SoundEntry(k, table'[k])
                <5>1. ASSUME NEW k \in Key, k = item[w].key,
                             table'[k] = Proved(item[w].rewrite),
                             <<item[w].key, item[w].rewrite>> \in Equivalent
                      PROVE  SoundEntry(k, table'[k])
                    BY <5>1 DEF SoundEntry, Proved
                <5>2. ASSUME NEW k \in Key,
                             table'[k] \in {table[k], Missing, NoRewrite}
                      PROVE  SoundEntry(k, table'[k])
                    BY <5>2, NotProved DEF SoundInv
                <5>3. QED
                    BY <4>2, <5>1, <5>2
            <4>4. QED
                BY <3>1, <4>3 DEF SoundInv, ResultEqual
        <3>4. QED
            BY <2>10, <3>2, <3>3
            DEF Work, WorkerStep, Boot, CheckStopping, GetPill, GetItem
    <2>11. CASE EndSession
        BY <2>11, NotProved DEF EndSession, SoundInv, ResultEqual
    <2>12. CASE UNCHANGED vars
        BY <2>12 DEF vars, SoundInv, ResultEqual
    <2>13. QED
        BY <2>3, <2>4, <2>5, <2>6, <2>7, <2>8, <2>9, <2>10, <2>11, <2>12
        DEF Next, InCall
<1>4. QED
    BY <1>1, <1>2, <1>3 DEF SoundInv

\* Whatever a visit installs is equivalent to the candidate it replaces, as long
\* as the proof gate has been on: through the table, the worker, eviction, the
\* durable cache and any number of restarts.
THEOREM InstallsAreSound == Spec => []InstalledEquivalent
<1>1. Init => GatedInv
    BY NotProved
    DEF Init, TableInit, StoreInit, NoRows, GatedInv, SoundInv, ResultEqual
<1>2. TypeInv /\ GatedInv /\ [Next]_vars => GatedInv'
    BY GatedStep, SoundStep DEF GatedInv, SoundInv
<1>3. GatedInv => InstalledEquivalent
    BY DEF GatedInv, SoundInv, ResultEqual, InstalledEquivalent
<1>4. QED
    BY <1>1, <1>2, <1>3, TypeInit, TypeNext, PTL DEF Spec

-----------------------------------------------------------------------------
(* Who proves with which context.                                          *)

\* A worker's context is its own from the moment it takes items, because there
\* is only ever one worker and z3 was there when it started.
OwnContext ==
    /\ z3
    /\ \A w \in Worker : at[w] # "unborn" => thread = w
    /\ \A w \in Worker : at[w] \in {"check", "get", "prove"} => ctx = w
    /\ \A w \in Worker : using[w] \in {None, w}
    /\ using[Main] \in {None, DefaultCtx}

\* Before the worker starts nobody has a context.
LEMMA OwnContextInit == Z3AtStart = {TRUE} /\ Init => OwnContext
BY DEF Init, ProverInit, OwnContext, Thread

\* A worker makes its context when it boots and uses no other afterwards.
LEMMA OwnContextStep ==
    ASSUME TypeInv, OwnContext, [Next]_vars
    PROVE  OwnContext'
<1> USE ProverAssumption
    DEF TypeInv, TypeOK, ProverTypeOK, OwnContext, proverVars, storeVars,
        ruleVars, queueVars, threadVars, proofVars, callVars, Thread
<1>1. CASE Configure
    <2>1. CASE \E w \in Worker : Start(w)
        <3>1. PICK w \in Worker : Start(w)
            BY <2>1
        <3>2. \A v \in Worker : at[v] = "unborn"
            BY <3>1 DEF Start, Spawn
        <3>3. QED
            BY <3>1, <3>2 DEF Start, Spawn
    <2>2. CASE UNCHANGED <<table, proverVars>>
        BY <2>2
    <2>3. QED
        BY <1>1, <2>1, <2>2 DEF Configure
<1>2. CASE UNCHANGED <<thread, ctx, at, using, z3>>
    BY <1>2
<1>3. ASSUME NEW r \in Rewrite, SolveAccepted(r)
      PROVE  OwnContext'
    BY <1>3 DEF SolveAccepted, EnterProof
<1>4. CASE ProveInline
    BY <1>4 DEF ProveInline, LeaveProof
<1>5. CASE Install
    BY <1>5 DEF Install, InstallZ3
<1>6. ASSUME NEW w \in Worker, Work(w)
      PROVE  OwnContext'
    <2>1. CASE Boot(w)
        <3>1. \A v \in Worker \ {w} : at[v] = "unborn"
            BY <2>1 DEF Boot
        <3>2. QED
            BY <2>1, <3>1 DEF Boot
    <2>2. CASE CheckStopping(w) \/ GetPill(w)
        BY <2>2 DEF CheckStopping, GetPill
    <2>3. CASE GetItem(w)
        BY <2>3 DEF GetItem, EnterProof
    <2>4. CASE ProveOne(w)
        BY <2>4 DEF ProveOne, LeaveProof
    <2>5. QED
        BY <1>6, <2>1, <2>2, <2>3, <2>4 DEF Work, WorkerStep
<1>7. CASE EndSession
    BY <1>7 DEF EndSession
<1>8. CASE Submit
    BY <1>2, <1>8
    DEF Submit, SubmitStep, SubmitLookup, SubmitPending, SubmitPut
<1>9. CASE \/ EnsureStore \/ SolveDeclines
           \/ FlushStore \/ Flush \/ FlushWrite \/ StoreWrite
    BY <1>2, <1>9
    DEF EnsureStore, SolveDeclines, FlushStore, Flush, FlushWrite, StoreWrite
<1>10. ASSUME NEW k \in Key, Visit(k)
       PROVE  OwnContext'
    BY <1>2, <1>10 DEF Visit
<1>11. ASSUME NEW r \in Rewrite, SolveUnchecked(r)
       PROVE  OwnContext'
    BY <1>2, <1>11 DEF SolveUnchecked
<1>12. QED
    BY <1>1, <1>2, <1>3, <1>4, <1>5, <1>6, <1>7, <1>8, <1>9, <1>10, <1>11
    DEF Next, InCall, vars

\* No two threads are ever inside Z3 with the same context, provided z3 was
\* installed when the session started.
THEOREM ContextsAreExclusive ==
    ASSUME Z3AtStart = {TRUE}
    PROVE  Spec => []ContextExclusive
<1>1. Init => OwnContext
    BY OwnContextInit
<1>2. TypeInv /\ OwnContext /\ [Next]_vars => OwnContext'
    BY OwnContextStep
<1>3. OwnContext => ContextExclusive
    BY ProverAssumption DEF OwnContext, ContextExclusive, Thread
<1>4. QED
    BY <1>1, <1>2, <1>3, TypeInit, TypeNext, PTL DEF Spec

-----------------------------------------------------------------------------
(* Who owns a PENDING entry.                                               *)

\* No step of the session leaves a PENDING entry without an owner.
LEMMA OwnedStep ==
    ASSUME TypeInv, PendingNeverDurable, AllOwned, [Next]_vars
    PROVE  AllOwned'
<1> USE DEF TypeInv, TypeOK, ProverTypeOK, AllOwned, proverVars, storeVars,
            ruleVars, queueVars, threadVars, proofVars, callVars
<1>1. ASSUME \A k \in Key : table'[k] = Pending => table[k] = Pending,
             pc # "submit_put", UNCHANGED <<queue, at, item, dropped>>
      PROVE  AllOwned'
    BY <1>1 DEF Owned, InQueue, AtWorker, AtSubmit
<1>2. ASSUME cand \in Candidate, NEW e \in Settled, SettleInline(e)
      PROVE  \A k \in Key : table'[k] = Pending => table[k] = Pending
    BY <1>2, SettleEffect, SettledIsNotPending
<1>3. CASE Configure
    <2>1. UNCHANGED <<table, queue, item, dropped, pc, cand>>
        BY <1>3 DEF Configure, Start
    <2>2. \A w \in Worker : at[w] = "prove" => at'[w] = "prove"
        BY <1>3 DEF Configure, Start, Spawn
    <2>3. QED
        BY <2>1, <2>2 DEF Owned, InQueue, AtWorker, AtSubmit
<1>4. CASE EnsureStore
    BY <1>1, <1>4
    DEF EnsureStore, LoadTable, PendingNeverDurable, TableTypeOK
<1>5. CASE \/ FlushStore \/ Flush \/ FlushWrite \/ StoreWrite
           \/ Install
    <2>1. pc # "submit_put" \/ UNCHANGED <<pc, cand>>
        BY <1>5 DEF FlushStore, Flush, FlushWrite, StoreWrite, Install, InstallZ3
    <2>2. UNCHANGED <<table, queue, at, item, dropped>>
        BY <1>5 DEF FlushStore, Flush, FlushWrite, StoreWrite, Install, InstallZ3
    <2>3. QED
        BY <2>1, <2>2 DEF Owned, InQueue, AtWorker, AtSubmit
<1>6. ASSUME NEW k \in Key, Visit(k)
      PROVE  AllOwned'
    <2>1. pc = "idle" /\ UNCHANGED <<table, queue, at, item, dropped>>
        BY <1>6 DEF Visit
    <2>2. QED
        BY <1>1, <2>1
<1>7. CASE SolveDeclines
    <2>1. cand \in Candidate /\ NoRewrite \in Settled
        BY <1>7 DEF SolveDeclines, Holding, InHand, Settled
    <2>2. QED
        BY <1>1, <1>2, <1>7, <2>1 DEF SolveDeclines
<1>8. ASSUME NEW r \in Rewrite, SolveUnchecked(r)
      PROVE  AllOwned'
    <2>1. cand \in Candidate /\ Proved(r) \in Settled
        BY <1>8 DEF SolveUnchecked, Holding, InHand, Settled, ProvedEntry
    <2>2. QED
        BY <1>1, <1>2, <1>8, <2>1 DEF SolveUnchecked
<1>9. ASSUME NEW r \in Rewrite, SolveAccepted(r)
      PROVE  AllOwned'
    BY <1>1, <1>9 DEF SolveAccepted
<1>10. CASE ProveInline
    <2>1. /\ cand \in Candidate /\ NoRewrite \in Settled
          /\ Proved(cand.rewrite) \in Settled
        BY <1>10
        DEF ProveInline, Holding, InHand, Candidate, Item, Settled, ProvedEntry
    <2>2. \A k \in Key : table'[k] = Pending => table[k] = Pending
        BY <1>2, <1>10, <2>1 DEF ProveInline
    <2>3. QED
        BY <1>1, <1>10, <2>2 DEF ProveInline
<1>11. CASE Submit
    BY <1>11, ProverPart, SubmitOwned DEF Submit
<1>12. ASSUME NEW w \in Worker, Work(w)
       PROVE  AllOwned'
    BY <1>12, ProverPart, WorkerOwned DEF Work
<1>13. CASE EndSession
    BY <1>13, SettledIsNotPending DEF EndSession
<1>14. CASE UNCHANGED vars
    BY <1>14 DEF vars, Owned, InQueue, AtWorker, AtSubmit
<1>15. QED
    BY <1>3, <1>4, <1>5, <1>6, <1>7, <1>8, <1>9, <1>10, <1>11, <1>12, <1>13,
       <1>14
    DEF Next, InCall

\* A PENDING entry always has an owner, unless a full queue or a raising prover
\* dropped its candidate: nothing else can leave one behind, at any capacity.
THEOREM PendingIsAccountedFor == Spec => []PendingOwned
<1>1. Init => AllOwned
    BY SettledIsNotPending DEF Init, TableInit, AllOwned
<1>2. Init => PendingNeverDurable
    BY DEF Init, StoreInit, NoRows, PendingNeverDurable, Missing, Pending
<1>3. TypeInv /\ PendingNeverDurable /\ [Next]_vars => PendingNeverDurable'
    BY DiskStep, SettledIsNotPending DEF RowStep, PendingNeverDurable
<1>4. TypeInv /\ PendingNeverDurable /\ AllOwned /\ [Next]_vars => AllOwned'
    BY OwnedStep
<1>5. AllOwned => PendingOwned
    BY OwnersOf DEF AllOwned, Owned, PendingOwned
<1>6. QED
    BY <1>1, <1>2, <1>3, <1>4, <1>5, TypeInit, TypeNext, PTL DEF Spec

-----------------------------------------------------------------------------
(* One escalation at a time.                                               *)

\* The candidate of a visit is still missing from the table: nobody but the
\* visit itself can give it an entry.
Undecided ==
    pc \in {"solve", "prove", "submit"} =>
        cand.key \in Key /\ table[cand.key] = Missing

VisitInv == Once /\ Undecided

\* At the start nothing is being visited or escalated.
LEMMA VisitInit == Init => VisitInv
BY ProverStartsOnce DEF Init, ProverInit, VisitInv, Undecided

\* What submit does to the table: nothing, or it marks a missing key.
LEMMA SubmitChanges ==
    ASSUME RoomForAll, TypeInv, VisitInv, SubmitStep
    PROVE  \/ UNCHANGED table
           \/ /\ pc = "submit_pending" /\ pc' = "submit_put"
              /\ cand.key \in Key /\ table[cand.key] = Missing
              /\ table' = [table EXCEPT ![cand.key] = Pending]
<1>1. CASE SubmitPending
    <2>1. /\ cand.key \in Key /\ Pending \in Entry /\ TableTypeOK
          /\ table[cand.key] = Missing
        BY <1>1
        DEF SubmitPending, TypeInv, TypeOK, Holding, InHand, Item, Entry,
            VisitInv, Once, MarkedOnly
    <2>2. table' = [table EXCEPT ![cand.key] = Pending]
        BY <1>1, <2>1, PutWithRoom, SettledIsNotPending
        DEF SubmitPending, RecordPending
    <2>3. QED
        BY <1>1, <2>1, <2>2 DEF SubmitPending
<1>2. CASE SubmitLookup \/ SubmitPut
    BY <1>2 DEF SubmitLookup, SubmitPut
<1>3. QED
    BY <1>1, <1>2 DEF SubmitStep

\* What a worker does to it: nothing, or it settles a PENDING key soundly.
LEMMA WorkerChanges ==
    ASSUME RoomForAll, TypeInv, VisitInv, NEW w \in Worker, WorkerStep(w)
    PROVE  \/ UNCHANGED table
           \/ /\ at[w] = "prove" /\ item[w].key \in Key
              /\ table[item[w].key] = Pending
              /\ \E e \in Settled :
                    /\ <<item[w].key, e>> \in SoundVerdicts
                    /\ table' = [table EXCEPT ![item[w].key] = e]
<1>1. CASE ProveOne(w)
    <2>1. ProverInv /\ Once /\ TableTypeOK
        BY ProverPart DEF TypeInv, TypeOK, VisitInv
    <2>2. item[w] \in Item /\ item[w].key \in Key
        BY <1>1, <2>1, ProveOneEffect DEF Item
    <2>3. table[item[w].key] = Pending
        BY <1>1, <2>1, VerdictReplacesPending
    <2>4. ASSUME NEW e \in Settled, Put(item[w].key, e),
                 \/ e = NoRewrite
                 \/ /\ e = Proved(item[w].rewrite)
                    /\ <<item[w].key, item[w].rewrite>> \in Equivalent
          PROVE  /\ <<item[w].key, e>> \in SoundVerdicts
                 /\ table' = [table EXCEPT ![item[w].key] = e]
        <3>1. table' = [table EXCEPT ![item[w].key] = e]
            BY <2>1, <2>2, <2>4, PutWithRoom DEF Entry
        <3>2. CASE e = NoRewrite
            BY <2>2, <3>1, <3>2 DEF SoundVerdicts
        <3>3. CASE /\ e = Proved(item[w].rewrite)
                   /\ <<item[w].key, item[w].rewrite>> \in Equivalent
            BY <3>1, <3>3 DEF SoundVerdicts
        <3>4. QED
            BY <2>4, <3>2, <3>3
    <2>5. QED
        BY <1>1, <2>1, <2>2, <2>3, <2>4, ProveOneEffect DEF ProveOne
<1>2. CASE Boot(w) \/ CheckStopping(w) \/ GetPill(w) \/ GetItem(w)
    BY <1>2 DEF Boot, CheckStopping, GetPill, GetItem
<1>3. QED
    BY <1>1, <1>2 DEF WorkerStep

\* Wherever the worker runs during a visit, its candidate stays undecided.
LEMMA VisitStep ==
    ASSUME RoomForAll, TypeInv, VisitInv, [Next]_vars
    PROVE  VisitInv'
<1> USE DEF proverVars, storeVars, ruleVars, queueVars, threadVars, proofVars,
            callVars
<1>1. Once /\ ProverInv /\ TableTypeOK
    BY ProverPart DEF VisitInv, TypeInv, TypeOK
<1>2. CASE Configure
    <2>1. Once'
        BY <1>1, <1>2, OnceFrame
        DEF Configure, Start, Spawn, ProverInv, ProverTypeOK
    <2>2. QED
        BY <1>2, <2>1 DEF Configure, Start, VisitInv, Undecided
<1>3. CASE EnsureStore
    <2>1. /\ \A k \in Key : table[k] = Pending => table'[k] = Pending
          /\ UNCHANGED <<queue, at, item, pc, cand>> /\ pc = "idle"
        BY <1>3, SettledIsNotPending
        DEF EnsureStore, LoadTable, Pending, Missing
    <2>2. Once'
        BY <1>1, <2>1
        DEF Once, MarkedOnly, OneInQueue, OneAtWork, Apart, InQueue, AtWorker,
            AtSubmit
    <2>3. QED
        BY <2>1, <2>2 DEF VisitInv, Undecided
<1>4. CASE \/ FlushStore \/ Flush \/ FlushWrite \/ StoreWrite
           \/ Install \/ UNCHANGED vars
    <2>1. Once'
        BY <1>1, <1>4, OnceFrame
        DEF FlushStore, Flush, FlushWrite, StoreWrite, Install, InstallZ3, vars
    <2>2. QED
        BY <1>4, <2>1
        DEF FlushStore, Flush, FlushWrite, StoreWrite, Install, InstallZ3, vars,
            VisitInv, Undecided
<1>5. ASSUME NEW k \in Key, Visit(k) PROVE VisitInv'
    <2>1. Once'
        BY <1>1, <1>5, OnceFrame DEF Visit
    <2>2. Undecided'
        BY <1>5 DEF Visit, Undecided
    <2>3. QED
        BY <2>1, <2>2 DEF VisitInv
<1>6. ASSUME NEW e \in Settled, SettleInline(e), pc \in {"solve", "prove"},
             UNCHANGED <<queue, at, item>>
      PROVE  VisitInv'
    <2>1. /\ cand.key \in Key /\ table[cand.key] # Pending /\ e \in Entry
          /\ pc' \in {"idle", "flush"}
        BY <1>6, SettledIsNotPending
        DEF VisitInv, Undecided, SettleInline, Count, Entry
    <2>2. Once'
        BY <1>1, <1>6, <2>1, OnceInsert DEF SettleInline
    <2>3. QED
        BY <2>1, <2>2 DEF VisitInv, Undecided
<1>7. CASE SolveDeclines
    BY <1>6, <1>7 DEF SolveDeclines, Settled
<1>8. ASSUME NEW r \in Rewrite, SolveUnchecked(r) PROVE VisitInv'
    BY <1>6, <1>8 DEF SolveUnchecked, Settled, ProvedEntry
<1>9. ASSUME NEW r \in Rewrite, SolveAccepted(r) PROVE VisitInv'
    <2>1. Once'
        BY <1>1, <1>9, OnceFrame DEF SolveAccepted
    <2>2. cand'.key = cand.key
        BY <1>9 DEF SolveAccepted, TypeInv, Holding, Candidate
    <2>3. QED
        BY <1>9, <2>1, <2>2 DEF SolveAccepted, VisitInv, Undecided
<1>10. CASE ProveInline
    <2>1. Proved(cand.rewrite) \in Settled /\ NoRewrite \in Settled
        BY <1>10 DEF ProveInline, TypeInv, Holding, Item, Settled, ProvedEntry
    <2>2. ASSUME pc' \in {"submit", "idle"}, pc' = "submit" => UNCHANGED cand,
                 UNCHANGED table
          PROVE  VisitInv'
        <3>1. Once'
            BY <1>1, <1>10, <2>2, OnceFrame DEF ProveInline
        <3>2. QED
            BY <1>10, <2>2, <3>1 DEF ProveInline, VisitInv, Undecided
    <2>3. QED
        BY <1>6, <1>10, <2>1, <2>2 DEF ProveInline
<1>11. CASE Submit
    <2>1. Once'
        BY <1>1, <1>11, OnceSubmit DEF Submit
    <2>2. pc' \notin {"solve", "prove", "submit"}
        BY <1>1, <1>11, SubmitTypes DEF Submit
    <2>3. QED
        BY <2>1, <2>2 DEF VisitInv, Undecided
<1>12. ASSUME NEW w \in Worker, Work(w) PROVE VisitInv'
    <2>1. Once' /\ UNCHANGED <<pc, cand>>
        BY <1>1, <1>12, OnceWorker, WorkerTypes DEF Work
    <2>2. \A k \in Key : table[k] = Missing => table'[k] = Missing
        BY <1>1, <1>12, WorkerChanges, SettledIsNotPending
        DEF Work, TableTypeOK
    <2>3. QED
        BY <2>1, <2>2 DEF VisitInv, Undecided
<1>13. CASE EndSession
    BY <1>13
    DEF EndSession, VisitInv, Undecided, Once, MarkedOnly, OneInQueue,
        OneAtWork, Apart, InQueue, AtWorker, AtSubmit
<1>14. QED
    BY <1>2, <1>3, <1>4, <1>5, <1>7, <1>8, <1>9, <1>10, <1>11, <1>12, <1>13
    DEF Next, InCall

\* A candidate is in flight at most once, and only while its entry is PENDING,
\* also with inline verdicts, reloads and restarts around the escalations.
THEOREM SessionEscalatesOnce ==
    ASSUME RoomForAll
    PROVE  Spec => []EscalatedOnce
<1>1. TypeInv /\ VisitInv /\ [Next]_vars => VisitInv'
    BY VisitStep
<1>2. VisitInv => EscalatedOnce
    BY OnceMeansOnce DEF VisitInv
<1>3. QED
    BY <1>1, <1>2, VisitInit, TypeInit, TypeNext, PTL DEF Spec

-----------------------------------------------------------------------------
(* The steps of a session, by what they do to table and disk.              *)

\* A session that has not opened the cache knows nothing yet; one that has owns
\* the connection.
StoreInv ==
    /\ store # "disabled"
    /\ store = "unopened" =>
          /\ conn = None /\ unflushed = 0 /\ pc = "idle"
          /\ rows = NoRows /\ \A k \in Key : table[k] = Missing
    /\ store = "open" => conn = Main

\* The steps of a flush.
FlushSteps == {"flush", "flush_write", "store_write"}

OtherStep == pc \notin FlushSteps /\ pc' \notin FlushSteps

SameStep == pc' = pc \/ OtherStep

\* The keys the worker settled stay known as such.
KeepsOffPath(keys) ==
    \A j \in offPath \ keys : table'[j] \in Settled => j \in offPath'

Nothing ==
    /\ UNCHANGED <<table, storeVars, store, unflushed>>
    /\ KeepsOffPath({})
    /\ SameStep
    /\ store = "unopened" => pc' = "idle"

Marks(k) ==
    /\ table[k] = Missing /\ table' = [table EXCEPT ![k] = Pending]
    /\ UNCHANGED <<storeVars, store, unflushed>>
    /\ KeepsOffPath({})
    /\ OtherStep

WorkerSettles(k, e) ==
    /\ table[k] = Pending /\ table' = [table EXCEPT ![k] = e]
    /\ <<k, e>> \in SoundVerdicts
    /\ UNCHANGED <<storeVars, store, unflushed, pc>>
    /\ KeepsOffPath({}) /\ k \in offPath'

VisitSettles(k, e) ==
    /\ table[k] = Missing /\ table' = [table EXCEPT ![k] = e]
    /\ require_proof => <<k, e>> \in SoundVerdicts
    /\ UNCHANGED <<storeVars, store>>
    /\ KeepsOffPath({k})
    /\ pc \notin FlushSteps /\ Count

Reads ==
    /\ rows' = SettledRows(Key)
    /\ UNCHANGED <<table, disk, conn, store, unflushed, offPath>>
    /\ \/ pc = "flush" /\ pc' = "flush_write"
       \/ pc = "idle" /\ pc' = "store_write"

Writes ==
    /\ disk' = [k \in Key |-> IF rows[k] # Missing THEN rows[k] ELSE disk[k]]
    /\ rows' = NoRows
    /\ UNCHANGED <<table, conn, store, offPath>>
    /\ pc' = "idle"
    /\ \/ pc = "flush_write" /\ UNCHANGED unflushed
       \/ pc = "store_write" /\ unflushed' = 0

Opens ==
    /\ store' = "open" /\ conn' = Main
    /\ table' = disk
    /\ UNCHANGED <<disk, rows, unflushed, pc>>

InsideSession ==
    \/ Nothing
    \/ \E k \in Key : Marks(k)
    \/ \E k \in Key, e \in Settled : WorkerSettles(k, e) \/ VisitSettles(k, e)
    \/ Reads \/ Writes

\* Without eviction the sink has nothing to do.
LEMMA SinkIsQuiet ==
    ASSUME NEW t \in Thread, Sink(t),
           \A k \in Key : table[k] # Missing => table'[k] # Missing
    PROVE  UNCHANGED storeVars
BY DEF Sink, PutEvicted, Evicted, SettledKeys

\* A cache that cannot fail, and is the caller's, takes what it is given.
LEMMA WritesAll ==
    ASSUME ~Faults, conn = Main, FlushWrites(Main)
    PROVE  /\ UNCHANGED conn /\ rows' = NoRows
           /\ disk' = [k \in Key |-> IF rows[k] # Missing THEN rows[k]
                                                         ELSE disk[k]]
BY ProverAssumption DEF FlushWrites, Upsert, Connects

\* A cache that cannot fail is read in full by a table that has room for it.
LEMMA LoadReadsAll ==
    ASSUME RoomForAll, ~Faults, DiskTypeOK, TableTypeOK, conn = None,
           \A k \in Key : table[k] = Missing, LoadTable(Main)
    PROVE  table' = disk /\ conn' = Main /\ UNCHANGED <<disk, rows>>
<1>1. PICK kept \in Loadable :
         table' = [k \in Key |-> IF k \in kept /\ table[k] = Missing
                                THEN disk[k] ELSE table[k]]
    BY DEF LoadTable
<1>2. kept = OnDisk
    <2>1. OnDisk \subseteq Key /\ kept \subseteq OnDisk
        BY DEF Loadable, OnDisk
    <2>2. CASE Cardinality(kept) = MaxEntries
        <3>1. /\ Cardinality(kept) \in Nat /\ Cardinality(Key) \in Nat
              /\ Cardinality(kept) <= Cardinality(Key)
              /\ Cardinality(kept) = Cardinality(Key) => kept = Key
            BY <2>1, FS_Subset, FS_CardinalityType DEF RoomForAll
        <3>2. kept = Key
            BY <2>2, <3>1, TableAssumption DEF RoomForAll
        <3>3. QED
            BY <2>1, <3>2
    <2>3. QED
        BY <2>2 DEF Loadable
<1>3. table' = disk
    BY <1>1, <1>2 DEF OnDisk, DiskTypeOK
<1>4. QED
    BY <1>3 DEF LoadTable, Connects

\* Every step of a session without eviction or faults is one of these.
LEMMA StepKinds ==
    ASSUME RoomForAll, ~Faults, TypeInv, VisitInv, StoreInv, [Next]_vars
    PROVE  \/ store = "unopened" /\ (Nothing \/ Opens)
           \/ store = "open" /\ InsideSession
           \/ EndSession
<1> USE DEF TypeInv, TypeOK, StoreInv, proverVars, ruleVars, queueVars,
            threadVars, proofVars, callVars, FlushSteps, OtherStep
<1>0. \A k \in Key : Missing # table[k] <=> table[k] \in Entry
    BY SettledIsNotPending DEF TableTypeOK, Entry
<1>1. ASSUME UNCHANGED <<table, storeVars, store, unflushed, offPath>>,
             OtherStep, store = "unopened" => pc' = "idle"
      PROVE  Nothing
    BY <1>1 DEF Nothing, SameStep, KeepsOffPath
<1>2. CASE Configure
    BY <1>1, <1>2 DEF Configure, Start, InsideSession
<1>3. CASE EnsureStore
    BY <1>3, LoadReadsAll DEF EnsureStore, Opens
<1>4. CASE FlushStore \/ Flush
    <2>1. Reads /\ store = "open"
        BY <1>4, ProverAssumption
        DEF FlushStore, Flush, FlushReads, Connects, Thread, Reads
    <2>2. QED
        BY <2>1 DEF InsideSession
<1>5. CASE Install \/ UNCHANGED vars
    BY <1>5
    DEF Install, InstallZ3, vars, Nothing, SameStep, KeepsOffPath, InsideSession
<1>6. ASSUME NEW k \in Key, Visit(k)
      PROVE  store = "open" /\ InsideSession
    BY <1>1, <1>6 DEF Visit, InsideSession
<1>7. ASSUME NEW e \in Settled, SettleInline(e), UNCHANGED store,
             pc \in {"solve", "prove"},
             require_proof => <<cand.key, e>> \in SoundVerdicts
      PROVE  store = "open" /\ InsideSession
    <2>1. cand.key \in Key /\ table[cand.key] = Missing /\ e \in Entry
        BY <1>7 DEF VisitInv, Undecided, Entry
    <2>2. table' = [table EXCEPT ![cand.key] = e]
        BY <1>7, <2>1, PutWithRoom DEF SettleInline
    <2>3. UNCHANGED storeVars
        BY <1>0, <1>7, <2>1, <2>2, SinkIsQuiet
        DEF SettleInline, Thread, TableTypeOK
    <2>4. KeepsOffPath({cand.key})
        BY <1>7 DEF SettleInline, StillSettled, KeepsOffPath
    <2>5. VisitSettles(cand.key, e)
        BY <1>7, <2>1, <2>2, <2>3, <2>4 DEF SettleInline, VisitSettles
    <2>6. QED
        BY <1>7, <2>1, <2>5 DEF InsideSession
<1>8. CASE SolveDeclines
    <2>1. <<cand.key, NoRewrite>> \in SoundVerdicts /\ NoRewrite \in Settled
        BY <1>8
        DEF SolveDeclines, VisitInv, Undecided, SoundVerdicts, Settled
    <2>2. QED
        BY <1>7, <1>8, <2>1 DEF SolveDeclines
<1>9. ASSUME NEW r \in Rewrite, SolveUnchecked(r)
      PROVE  store = "open" /\ InsideSession
    BY <1>7, <1>9 DEF SolveUnchecked, Settled, ProvedEntry
<1>10. ASSUME NEW r \in Rewrite, SolveAccepted(r)
       PROVE  store = "open" /\ InsideSession
    BY <1>1, <1>10 DEF SolveAccepted, InsideSession
<1>11. CASE ProveInline
    <2>1. /\ NoRewrite \in Settled /\ <<cand.key, NoRewrite>> \in SoundVerdicts
          /\ Proved(cand.rewrite) \in Settled
        BY <1>11
        DEF ProveInline, Holding, Item, Settled, ProvedEntry, VisitInv,
            Undecided, SoundVerdicts
    <2>2. "proved" \in Verdicts(cand, using[Main]) =>
             <<cand.key, Proved(cand.rewrite)>> \in SoundVerdicts
        BY DEF Verdicts, SoundVerdicts
    <2>3. QED
        BY <1>1, <1>7, <1>11, <2>1, <2>2
        DEF ProveInline, AppliedVerdicts, InsideSession
<1>12. CASE Submit
    <2>1. OtherStep /\ store = "open"
        BY <1>12, ProverPart, SubmitTypes
        DEF Submit, SubmitStep, SubmitLookup, SubmitPending, SubmitPut
    <2>2. KeepsOffPath({})
        BY <1>12 DEF Submit, StillSettled, KeepsOffPath
    <2>3. CASE UNCHANGED table
        <3>1. UNCHANGED storeVars
            BY <1>12, <2>3, SinkIsQuiet DEF Submit, Thread
        <3>2. QED
            BY <1>12, <2>1, <2>2, <2>3, <3>1
            DEF Submit, SameStep, Nothing, InsideSession
    <2>4. CASE /\ cand.key \in Key /\ table[cand.key] = Missing
               /\ table' = [table EXCEPT ![cand.key] = Pending]
        <3>1. UNCHANGED storeVars
            BY <1>12, <2>4, SinkIsQuiet, SettledIsNotPending
            DEF Submit, Thread, TableTypeOK
        <3>2. Marks(cand.key)
            BY <1>12, <2>1, <2>2, <2>4, <3>1 DEF Submit, Marks
        <3>3. QED
            BY <2>1, <2>4, <3>2 DEF InsideSession
    <2>5. QED
        BY <1>12, <2>3, <2>4, SubmitChanges DEF Submit
<1>13. ASSUME NEW w \in Worker, Work(w)
       PROVE  \/ store = "unopened" /\ Nothing
              \/ store = "open" /\ InsideSession
    <2>1. UNCHANGED <<store, unflushed, pc>>
        BY <1>13, ProverPart, WorkerTypes DEF Work
    <2>2. KeepsOffPath({})
        BY <1>13 DEF Work, StillSettled, KeepsOffPath
    <2>3. CASE UNCHANGED table
        <3>1. UNCHANGED storeVars
            BY <1>13, <2>3, SinkIsQuiet DEF Work, Thread
        <3>2. Nothing
            BY <2>1, <2>2, <2>3, <3>1 DEF SameStep, Nothing
        <3>3. QED
            BY <3>2 DEF InsideSession
    <2>4. ASSUME at[w] = "prove", item[w].key \in Key,
                 table[item[w].key] = Pending,
                 NEW e \in Settled, <<item[w].key, e>> \in SoundVerdicts,
                 table' = [table EXCEPT ![item[w].key] = e]
          PROVE  store = "open" /\ InsideSession
        <3>1. UNCHANGED storeVars
            BY <1>13, <2>4, SinkIsQuiet, SettledIsNotPending
            DEF Work, Thread, TableTypeOK
        <3>2. item[w].key \in offPath'
            BY <1>13, <2>4 DEF Work, StillSettled, TableTypeOK
        <3>3. WorkerSettles(item[w].key, e)
            BY <2>1, <2>2, <2>4, <3>1, <3>2 DEF WorkerSettles
        <3>4. QED
            BY <2>4, <3>3, SettledIsNotPending DEF InsideSession
    <2>5. QED
        BY <1>13, <2>3, <2>4, WorkerChanges DEF Work
<1>14. CASE FlushWrite \/ StoreWrite
    <2>1. Writes /\ store = "open"
        BY <1>14, WritesAll DEF FlushWrite, StoreWrite, Writes
    <2>2. QED
        BY <2>1 DEF InsideSession
<1>15. QED
    BY <1>2, <1>3, <1>4, <1>5, <1>6, <1>8, <1>9, <1>10, <1>11, <1>12, <1>13,
       <1>14
    DEF Next, InCall

\* The cache starts unopened, with no flush under way.
LEMMA StoreInvInit == Init => StoreInv
BY DEF Init, TableInit, StoreInit, ProverInit, NoRows, StoreInv

\* A cache that does not fail stays open once opened, with its rows loaded.
LEMMA StoreInvStep ==
    ASSUME RoomForAll, ~Faults, TypeInv, VisitInv, StoreInv, [Next]_vars
    PROVE  StoreInv'
<1>1. CASE store = "unopened" /\ (Nothing \/ Opens)
    BY <1>1 DEF Nothing, Opens, StoreInv, storeVars
<1>2. CASE store = "open" /\ InsideSession
    BY <1>2
    DEF InsideSession, Nothing, Marks, WorkerSettles, VisitSettles, Reads,
        Writes, StoreInv, storeVars
<1>3. CASE EndSession
    BY <1>3 DEF EndSession, StoreInv
<1>4. QED
    BY <1>1, <1>2, <1>3, StepKinds

-----------------------------------------------------------------------------
(* What a crash loses.                                                     *)

AtRisk == Unsaved \ offPath

\* A flush has read everything but what the worker has settled since.
ReadAll == \A k \in SettledKeys \ offPath : rows[k] = table[k]

BatchInv ==
    store = "open" =>
        /\ Cardinality(AtRisk) <= IF pc \in {"flush", "flush_write"}
                                 THEN FlushEvery ELSE unflushed
        /\ unflushed < FlushEvery
        /\ pc \in {"flush", "flush_write"} => unflushed = 0
        /\ pc \in {"flush_write", "store_write"} => ReadAll

\* A set of candidates at risk has a size, and shrinks with the set.
LEMMA AtRiskSize ==
    ASSUME RoomForAll
    PROVE  /\ IsFiniteSet(AtRisk) /\ Cardinality(AtRisk) \in Nat
           /\ \A S : S \subseteq AtRisk => Cardinality(S) <= Cardinality(AtRisk)
           /\ \A S, k : S \subseteq AtRisk \cup {k} =>
                           Cardinality(S) <= Cardinality(AtRisk) + 1
<1>1. IsFiniteSet(AtRisk)
    BY FS_Subset DEF RoomForAll, AtRisk, Unsaved, SettledKeys
<1>2. Cardinality(AtRisk) \in Nat
    BY <1>1, FS_CardinalityType
<1>3. ASSUME NEW S, NEW k, S \subseteq AtRisk \cup {k}
      PROVE  Cardinality(S) <= Cardinality(AtRisk) + 1
    <2>1. /\ IsFiniteSet(AtRisk \cup {k})
          /\ Cardinality(AtRisk \cup {k}) <= Cardinality(AtRisk) + 1
        BY <1>1, <1>2, FS_AddElement
    <2>2. /\ Cardinality(S) <= Cardinality(AtRisk \cup {k})
          /\ Cardinality(S) \in Nat /\ Cardinality(AtRisk \cup {k}) \in Nat
        BY <1>3, <2>1, FS_Subset, FS_CardinalityType
    <2>3. QED
        BY <1>2, <2>1, <2>2
<1>4. QED
    BY <1>1, <1>2, <1>3, FS_Subset

\* Every verdict given in a visit is counted, and every full batch is flushed.
LEMMA BatchStep ==
    ASSUME RoomForAll, ~Faults, TypeInv, VisitInv, StoreInv,
           PendingNeverDurable, BatchInv, [Next]_vars
    PROVE  BatchInv'
<1> USE DEF TypeInv, TypeOK, TableTypeOK, DiskTypeOK
<1>1. FlushEvery \in Nat \ {0} /\ unflushed \in Nat
    BY RuleAssumption
<1>2. ASSUME store = "open", UNCHANGED <<store, unflushed>>,
             AtRisk' \subseteq AtRisk, SameStep, ReadAll => ReadAll'
      PROVE  BatchInv'
    <2>1. /\ Cardinality(AtRisk') \in Nat
          /\ Cardinality(AtRisk') <= Cardinality(AtRisk)
          /\ Cardinality(AtRisk) \in Nat
        BY <1>2, AtRiskSize, FS_Subset, FS_CardinalityType
    <2>2. QED
        BY <1>1, <1>2, <2>1 DEF BatchInv, SameStep, OtherStep, FlushSteps
<1>3. ASSUME store = "open", NEW k \in Key, NEW e \in Settled,
             VisitSettles(k, e)
      PROVE  BatchInv'
    <2>1. AtRisk' \subseteq AtRisk \cup {k}
        BY <1>3
        DEF VisitSettles, KeepsOffPath, AtRisk, Unsaved, SettledKeys, storeVars
    <2>2. /\ Cardinality(AtRisk') <= Cardinality(AtRisk) + 1
          /\ Cardinality(AtRisk) \in Nat
        BY <2>1, AtRiskSize
    <2>3. IsFiniteSet(AtRisk') /\ Cardinality(AtRisk') \in Nat
        <3>1. AtRisk' \subseteq Key
            BY DEF AtRisk, Unsaved, SettledKeys
        <3>2. QED
            BY <3>1, FS_Subset, FS_CardinalityType DEF RoomForAll
    <2>4. Cardinality(AtRisk) <= unflushed /\ unflushed < FlushEvery
        BY <1>3 DEF BatchInv, VisitSettles, FlushSteps
    <2>5. CASE unflushed + 1 >= FlushEvery
        <3>1. unflushed' = 0 /\ pc' = "flush" /\ store' = "open"
            BY <1>3, <2>5 DEF VisitSettles, Count, BatchFull
        <3>2. QED
            BY <1>1, <2>2, <2>3, <2>4, <3>1 DEF BatchInv
    <2>6. CASE ~(unflushed + 1 >= FlushEvery)
        <3>1. unflushed' = unflushed + 1 /\ pc' = "idle" /\ store' = "open"
            BY <1>1, <1>3, <2>6 DEF VisitSettles, Count, BatchFull
        <3>2. QED
            BY <1>1, <2>2, <2>3, <2>4, <2>6, <3>1 DEF BatchInv
    <2>7. QED
        BY <2>5, <2>6
<1>4. ASSUME AtRisk' = {}, unflushed' = 0, pc' = "idle"
      PROVE  BatchInv'
    BY <1>1, <1>4, FS_EmptySet DEF BatchInv
<1>5. CASE store = "unopened" /\ (Nothing \/ Opens)
    <2>1. CASE Nothing
        BY <1>5, <2>1 DEF Nothing, BatchInv
    <2>2. CASE Opens
        <3>1. AtRisk' = {}
            BY <2>2 DEF Opens, AtRisk, Unsaved, SettledKeys
        <3>2. QED
            BY <1>4, <1>5, <2>2, <3>1 DEF Opens, StoreInv
    <2>3. QED
        BY <1>5, <2>1, <2>2
<1>6. CASE store = "open" /\ InsideSession
    <2>1. CASE Nothing
        <3>1. AtRisk' \subseteq AtRisk /\ (ReadAll => ReadAll')
            BY <2>1
            DEF Nothing, KeepsOffPath, AtRisk, Unsaved, ReadAll, SettledKeys,
                storeVars
        <3>2. QED
            BY <1>2, <1>6, <2>1, <3>1 DEF Nothing
    <2>2. ASSUME NEW k \in Key, Marks(k) PROVE BatchInv'
        <3>1. AtRisk' \subseteq AtRisk /\ (ReadAll => ReadAll')
            BY <2>2, SettledIsNotPending
            DEF Marks, KeepsOffPath, AtRisk, Unsaved, ReadAll, SettledKeys,
                storeVars
        <3>2. QED
            BY <1>2, <1>6, <2>2, <3>1 DEF Marks, SameStep
    <2>3. ASSUME NEW k \in Key, NEW e \in Settled, WorkerSettles(k, e)
          PROVE  BatchInv'
        <3>1. AtRisk' \subseteq AtRisk /\ (ReadAll => ReadAll')
            BY <2>3
            DEF WorkerSettles, KeepsOffPath, AtRisk, Unsaved, ReadAll,
                SettledKeys, storeVars
        <3>2. QED
            BY <1>2, <1>6, <2>3, <3>1 DEF WorkerSettles, SameStep
    <2>4. CASE Reads
        <3>1. ReadAll'
            BY <2>4 DEF Reads, ReadAll, SettledRows, SettledKeys
        <3>2. AtRisk' = AtRisk
            BY <2>4 DEF Reads, AtRisk, Unsaved, SettledKeys
        <3>3. QED
            BY <1>6, <2>4, <3>1, <3>2 DEF Reads, BatchInv
    <2>5. CASE Writes
        <3>1. ReadAll
            BY <1>6, <2>5 DEF Writes, BatchInv
        <3>2. AtRisk' = {}
            BY <2>5, <3>1, SettledIsNotPending
            DEF Writes, ReadAll, AtRisk, Unsaved, SettledKeys
        <3>3. unflushed' = 0 /\ pc' = "idle"
            BY <1>6, <2>5 DEF Writes, BatchInv
        <3>4. QED
            BY <1>4, <3>2, <3>3
    <2>6. QED
        BY <1>3, <1>6, <2>1, <2>2, <2>3, <2>4, <2>5 DEF InsideSession
<1>7. CASE EndSession
    BY <1>7 DEF EndSession, BatchInv
<1>8. QED
    BY <1>5, <1>6, <1>7, StepKinds

\* What the rule settled itself and has not saved is less than a batch, for any
\* size of batch and wherever the worker runs.
THEOREM CrashIsBounded ==
    ASSUME RoomForAll, ~Faults
    PROVE  Spec => []CrashLosesFew
<1>1. Init => BatchInv
    BY DEF Init, BatchInv
<1>2. TypeInv /\ VisitInv /\ [Next]_vars => VisitInv'
    BY VisitStep
<1>3. TypeInv /\ VisitInv /\ StoreInv /\ [Next]_vars => StoreInv'
    BY StoreInvStep
<1>4. /\ TypeInv /\ VisitInv /\ StoreInv /\ PendingNeverDurable /\ BatchInv
      /\ [Next]_vars
      => BatchInv'
    BY BatchStep
<1>5. TypeInv /\ BatchInv => CrashLosesFew
    <2>1. ASSUME TypeInv, BatchInv, store = "open" PROVE CrashLosesFew
        <3>1. /\ FlushEvery \in Nat /\ unflushed \in Nat
              /\ Cardinality(AtRisk) \in Nat
            BY <2>1, RuleAssumption, AtRiskSize DEF TypeInv, TypeOK
        <3>2. QED
            BY <2>1, <3>1 DEF BatchInv, CrashLosesFew, AtRisk
    <2>2. QED
        BY <2>1 DEF CrashLosesFew
<1>6. Spec => []PendingNeverDurable
    BY DiskIsSettled
<1>7. QED
    BY <1>1, <1>2, <1>3, <1>4, <1>5, <1>6, VisitInit, StoreInvInit, TypeInit,
       TypeNext, PTL
    DEF Spec

-----------------------------------------------------------------------------
(* The ledger.                                                             *)

\* What is on disk, or about to be written there, is what the table says of
\* that key: a verdict that was saved is never revised.
DiskBehind ==
    store = "open" =>
        \A k \in Key : /\ disk[k] # Missing => table[k] = disk[k]
                       /\ rows[k] # Missing => table[k] = rows[k]

\* Neither a visit, the worker nor a flush makes the table disagree with a row.
LEMMA DiskBehindStep ==
    ASSUME RoomForAll, ~Faults, TypeInv, VisitInv, StoreInv,
           PendingNeverDurable, DiskBehind, [Next]_vars
    PROVE  DiskBehind'
<1> USE SettledIsNotPending
    DEF TypeInv, TypeOK, TableTypeOK, DiskTypeOK, storeVars
<1>1. CASE store = "unopened" /\ (Nothing \/ Opens)
    BY <1>1 DEF Nothing, Opens, StoreInv, NoRows, DiskBehind
<1>2. CASE store = "open" /\ InsideSession
    <2>1. CASE Nothing
        BY <1>2, <2>1 DEF Nothing, DiskBehind
    <2>2. ASSUME NEW k \in Key, Marks(k) PROVE DiskBehind'
        BY <1>2, <2>2 DEF Marks, DiskBehind
    <2>3. ASSUME NEW k \in Key, NEW e \in Settled,
                 WorkerSettles(k, e) \/ VisitSettles(k, e)
          PROVE  DiskBehind'
        <3>1. disk[k] = Missing /\ rows[k] = Missing
            BY <1>2, <2>3
            DEF WorkerSettles, VisitSettles, DiskBehind, PendingNeverDurable
        <3>2. QED
            BY <1>2, <2>3, <3>1 DEF WorkerSettles, VisitSettles, DiskBehind
    <2>4. CASE Reads
        BY <1>2, <2>4 DEF Reads, SettledRows, DiskBehind
    <2>5. CASE Writes
        BY <1>2, <2>5 DEF Writes, NoRows, DiskBehind
    <2>6. QED
        BY <1>2, <2>1, <2>2, <2>3, <2>4, <2>5 DEF InsideSession
<1>3. CASE EndSession
    BY <1>3 DEF EndSession, DiskBehind
<1>4. QED
    BY <1>1, <1>2, <1>3, StepKinds

\* Inside a session a step leaves the ledger alone, gives one verdict, or saves.
LEMMA StepsInLedger ==
    ASSUME TypeInv, PendingNeverDurable, DiskBehind, require_proof,
           store = "open", InsideSession
    PROVE  [Ledger!LedgerNext]_<<KnownVerdicts, disk>>
<1> USE SettledIsNotPending
    DEF TypeInv, TypeOK, TableTypeOK, DiskTypeOK, storeVars
<1>1. CASE Nothing
    BY <1>1 DEF Nothing, KnownVerdicts
<1>2. ASSUME NEW k \in Key, Marks(k)
      PROVE  UNCHANGED <<KnownVerdicts, disk>>
    BY <1>2 DEF Marks, KnownVerdicts
<1>3. ASSUME NEW k \in Key, NEW e \in Settled,
             WorkerSettles(k, e) \/ VisitSettles(k, e)
      PROVE  Ledger!Decide(k, e)
    <2>1. /\ <<k, e>> \in SoundVerdicts
          /\ table[k] \in {Missing, Pending}
          /\ table' = [table EXCEPT ![k] = e]
          /\ store' = "open" /\ UNCHANGED disk
        BY <1>3 DEF WorkerSettles, VisitSettles
    <2>2. KnownVerdicts[k] = Missing
        BY <2>1 DEF KnownVerdicts
    <2>3. KnownVerdicts' = [KnownVerdicts EXCEPT ![k] = e]
        BY <2>1 DEF KnownVerdicts
    <2>4. QED
        BY <2>1, <2>2, <2>3 DEF Ledger!Decide
<1>4. CASE Reads
    BY <1>4 DEF Reads, KnownVerdicts
<1>5. CASE Writes
    <2>1. UNCHANGED KnownVerdicts
        BY <1>5 DEF Writes, KnownVerdicts
    <2>2. \A k \in Key : rows[k] # Missing => rows[k] = KnownVerdicts[k]
        BY DEF DiskBehind, KnownVerdicts
    <2>3. DEFINE keys == {k \in Key : rows[k] # Missing}
    <2>4. /\ keys \in SUBSET {k \in Key : KnownVerdicts[k] # Missing}
          /\ disk' = [k \in Key |-> IF k \in keys THEN KnownVerdicts[k]
                                                 ELSE disk[k]]
        BY <1>5, <2>2 DEF Writes
    <2>5. QED
        BY <2>1, <2>4 DEF Ledger!LedgerNext, Ledger!Save
<1>6. QED
    BY <1>1, <1>2, <1>3, <1>4, <1>5 DEF InsideSession, Ledger!LedgerNext

\* Every step of a session is one of the ledger's, or invisible to it.
LEMMA LedgerStep ==
    ASSUME RoomForAll, ~Faults, ProofModes = {TRUE}, TypeInv, VisitInv,
           StoreInv, PendingNeverDurable, DiskBehind, [Next]_vars
    PROVE  [Ledger!LedgerNext]_<<KnownVerdicts, disk>>
<1> USE DEF TypeInv, TypeOK, TableTypeOK, DiskTypeOK, storeVars
<1>1. require_proof
    OBVIOUS
<1>2. CASE store = "unopened" /\ Nothing
    BY <1>2 DEF Nothing, KnownVerdicts
<1>3. CASE store = "unopened" /\ Opens
    <2>1. \A k \in Key : disk[k] \in Settled \cup {Missing}
        BY DEF PendingNeverDurable, Entry
    <2>2. KnownVerdicts' = disk
        BY <1>3, <2>1 DEF Opens, KnownVerdicts
    <2>3. QED
        BY <1>3, <2>2 DEF Opens, KnownVerdicts
<1>4. CASE store = "open" /\ InsideSession
    BY <1>1, <1>4, StepsInLedger
<1>5. CASE EndSession
    BY <1>5 DEF EndSession, KnownVerdicts, Ledger!LedgerNext, Ledger!Restart
<1>6. QED
    BY <1>2, <1>3, <1>4, <1>5, StepKinds

\* The rule, its worker and its cache together implement the ledger: a verdict
\* is given once, is sound, is never revised, and a session starts from exactly
\* what was saved, for any number of candidates, batches and sessions.
THEOREM SessionsImplementLedger ==
    ASSUME RoomForAll, ~Faults, ProofModes = {TRUE}
    PROVE  Spec => ImplementsLedger
<1>1. Init => Ledger!LedgerInit /\ DiskBehind
    BY DEF Init, TableInit, StoreInit, NoRows, KnownVerdicts,
           Ledger!LedgerInit, DiskBehind
<1>2. TypeInv /\ VisitInv /\ [Next]_vars => VisitInv'
    BY VisitStep
<1>3. TypeInv /\ VisitInv /\ StoreInv /\ [Next]_vars => StoreInv'
    BY StoreInvStep
<1>4. /\ TypeInv /\ VisitInv /\ StoreInv /\ PendingNeverDurable /\ DiskBehind
      /\ [Next]_vars
      => DiskBehind' /\ [Ledger!LedgerNext]_<<KnownVerdicts, disk>>
    BY DiskBehindStep, LedgerStep
<1>5. Spec => []PendingNeverDurable
    BY DiskIsSettled
<1>6. QED
    BY <1>1, <1>2, <1>3, <1>4, <1>5, VisitInit, StoreInvInit, TypeInit,
       TypeNext, PTL
    DEF Spec, ImplementsLedger, Ledger!LedgerSpec
=============================================================================
