----------------------------- MODULE CobraSolve -----------------------------
(***************************************************************************)
(* One session of the mba-solve rule of rules/cobra_solve.py, composed of  *)
(* the rule, its rewrite table, its escalation prover and its durable      *)
(* cache, followed by the next session on the same cache.                  *)
(*                                                                         *)
(* Main is the decompiler's thread: it configures the rule and calls       *)
(* check_and_replace on candidates, one at a time.  A visit looks the key  *)
(* up; on a miss it solves, accepts, proves inline, and records or         *)
(* escalates.  The worker runs between any two of these steps.  The        *)
(* filters before the lookup decide only which keys are ever visited.      *)
(***************************************************************************)
EXTENDS EscalationProver, ProofCacheStore

CONSTANTS
    FlushEvery,    \* _FLUSH_EVERY
    ProofModes,    \* the values require_proof is configured with
    Z3AtStart,     \* whether z3 may be there, may be absent, at first
    MaxSessions    \* bound on the number of sessions

ASSUME RuleAssumption ==
    /\ FlushEvery \in Nat \ {0}
    /\ ProofModes \subseteq BOOLEAN /\ ProofModes # {}
    /\ Z3AtStart \subseteq BOOLEAN /\ Z3AtStart # {}
    /\ MaxSessions \in Nat \ {0}

VARIABLES
    store,          \* self._store: "unopened", "open", or "disabled"
    unflushed,      \* self._unflushed, which nobody reads beyond FlushEvery
    require_proof,  \* self.require_proof
    result,         \* history: what the last visit under the present
                    \* configuration handed to _install, or None
    offPath,        \* history: the keys whose entry this session's worker
                    \* settled
    session,        \* history: the number of this session
    gated           \* history: has require_proof been on all along

ruleVars == <<store, unflushed, require_proof, result>>
vars == <<table, proverVars, storeVars, ruleVars, offPath, session, gated>>

Init ==
    /\ TableInit /\ StoreInit /\ ProverInit
    /\ z3 \in Z3AtStart
    /\ store = "unopened" /\ unflushed = 0
    /\ require_proof \in ProofModes
    /\ result = None
    /\ offPath = {} /\ session = 1 /\ gated = require_proof

-----------------------------------------------------------------------------
(* The table's removal listener, for an insertion made by thread t.        *)

Sink(t) == IF store = "open" THEN PutEvicted(t) ELSE UNCHANGED storeVars

\* Of these keys, those this step leaves settled.
StillSettled(keys) == {k \in keys : table'[k] \in Settled}

\* configure: set the mode, and start the worker unless one is there.
Configure ==
    /\ pc = "idle"
    /\ require_proof' \in ProofModes
    /\ gated' = (gated /\ require_proof')
    /\ \/ \E w \in Worker : Start(w)
       \/ thread # None /\ UNCHANGED <<table, proverVars>>
    /\ result' = None
    /\ UNCHANGED <<storeVars, store, unflushed, offPath, session>>

\* _ensure_store, in the first visit; a load that raises disables the store.
EnsureStore ==
    /\ pc = "idle"
    /\ store = "unopened"
    /\ \/ LoadTable(Main) /\ store' = "open"
       \/ /\ Faults /\ store' = "disabled"
          /\ Connects(Main) \/ UNCHANGED conn
          /\ UNCHANGED <<table, disk, rows>>
    /\ UNCHANGED <<proverVars, unflushed, require_proof, result, offPath,
                   session, gated>>

\* Tier 1.  Only a PROVED entry is installed; PENDING and NO_REWRITE skip.
Visit(k) ==
    /\ pc = "idle"
    /\ store # "unopened"
    /\ \/ /\ table[k] = Missing
          /\ pc' = "solve"
          /\ cand' = [key |-> k, rewrite |-> None]
          /\ result' = None
       \/ /\ table[k] \in ProvedEntry
          /\ result' = [key |-> k, rewrite |-> table[k].rewrite]
          /\ UNCHANGED callVars
       \/ /\ table[k] \in {NoRewrite, Pending}
          /\ result' = None
          /\ UNCHANGED callVars
    /\ UNCHANGED <<table, queueVars, threadVars, at, proofVars, z3, dropped,
                   storeVars, store, unflushed, require_proof, offPath,
                   session, gated>>

-----------------------------------------------------------------------------
(* Tier 2.                                                                 *)

\* Mutant: the batch is one entry late.
BatchFullLate(n) == n > FlushEvery

BatchFull(n) == n >= FlushEvery

\* _record_and_maybe_flush counts the entry, and resets the count before it
\* tries to flush.
Count ==
    LET n == unflushed + 1 IN
    IF store = "open" /\ BatchFull(n)
    THEN unflushed' = 0 /\ pc' = "flush"
    ELSE unflushed' = (IF n < FlushEvery THEN n ELSE FlushEvery)
         /\ pc' = "idle"

\* Record the verdict on the candidate at hand and return what to install.
SettleInline(e) ==
    /\ Put(cand.key, e)
    /\ Sink(Main)
    /\ Count
    /\ cand' = None
    /\ offPath' = StillSettled(offPath \ {cand.key})

\* The solver fails, changes nothing, or offers what accept_rewrite rejects.
SolveDeclines ==
    /\ pc = "solve"
    /\ SettleInline(NoRewrite)
    /\ UNCHANGED <<queueVars, threadVars, at, proofVars, z3, dropped, store,
                   require_proof, result, session, gated>>

SolveAccepted(r) ==
    /\ pc = "solve" /\ require_proof
    /\ cand' = [cand EXCEPT !.rewrite = r]
    /\ pc' = "prove"
    /\ EnterProof(Main, DefaultCtx)
    /\ UNCHANGED <<table, queueVars, threadVars, at, item, z3, dropped,
                   storeVars, ruleVars, offPath, session, gated>>

\* With require_proof off an accepted rewrite is recorded as it is.
SolveUnchecked(r) ==
    /\ pc = "solve" /\ ~require_proof
    /\ SettleInline(Proved(r))
    /\ result' = [cand EXCEPT !.rewrite = r]
    /\ UNCHANGED <<queueVars, threadVars, at, proofVars, z3, dropped, store,
                   require_proof, session, gated>>

\* Mutant: what is not refuted is applied.
AppliedUnlessRefuted == {"proved", "unknown"}

AppliedVerdicts == {"proved"}

\* The inline proof returns: apply, refuse, or hand over to the escalator.
ProveInline ==
    /\ pc = "prove"
    /\ LeaveProof(Main)
    /\ \E verdict \in Verdicts(cand, using[Main]) :
          \/ /\ verdict \in AppliedVerdicts
             /\ SettleInline(Proved(cand.rewrite))
             /\ result' = cand
          \/ /\ verdict = "refuted"
             /\ SettleInline(NoRewrite)
             /\ UNCHANGED result
          \/ /\ verdict \in {"unknown", "unavailable"} \ AppliedVerdicts
             /\ pc' = "submit"
             /\ UNCHANGED <<table, storeVars, cand, unflushed, result, offPath>>
          \/ /\ verdict = "raised"   \* caught by check_and_replace
             /\ pc' = "idle" /\ cand' = None
             /\ UNCHANGED <<table, storeVars, unflushed, result, offPath>>
    /\ UNCHANGED <<queueVars, threadVars, at, item, z3, dropped, store,
                   require_proof, session, gated>>

\* The flush of a full batch.  Its failures go no further than a log.
Flush ==
    /\ pc = "flush"
    /\ \/ FlushReads(Main) /\ pc' = "flush_write"
       \/ Faults /\ UNCHANGED storeVars /\ pc' = "idle"
    /\ UNCHANGED <<table, queueVars, threadVars, at, proofVars, z3, dropped,
                   cand, ruleVars, offPath, session, gated>>

FlushWrite ==
    /\ pc = "flush_write"
    /\ FlushWrites(Main)
    /\ pc' = "idle"
    /\ UNCHANGED <<table, queueVars, threadVars, at, proofVars, z3, dropped,
                   cand, ruleVars, offPath, session, gated>>

\* flush_store, which only the host can call.  An error the store swallows
\* resets the count, a missing connection included; an exception does not.
FlushStore ==
    /\ pc = "idle" /\ store = "open"
    /\ \/ FlushReads(Main) /\ pc' = "store_write" /\ UNCHANGED unflushed
       \/ Faults /\ conn = None /\ unflushed' = 0 /\ UNCHANGED <<storeVars, pc>>
    /\ UNCHANGED <<table, queueVars, threadVars, at, proofVars, z3, dropped,
                   cand, store, require_proof, result, offPath, session,
                   gated>>

StoreWrite ==
    /\ pc = "store_write"
    /\ \/ FlushWrites(Main) /\ unflushed' = 0
       \/ Faults /\ rows' = NoRows /\ UNCHANGED <<disk, conn, unflushed>>
    /\ pc' = "idle"
    /\ UNCHANGED <<table, queueVars, threadVars, at, proofVars, z3, dropped,
                   cand, store, require_proof, result, offPath, session,
                   gated>>

-----------------------------------------------------------------------------
(* Tier 3: the steps of submit and of the worker, now with a sink under    *)
(* the table.                                                              *)

Submit ==
    /\ SubmitStep
    /\ Sink(Main)
    /\ offPath' = StillSettled(offPath)
    /\ UNCHANGED <<ruleVars, session, gated>>

Work(w) ==
    /\ WorkerStep(w)
    /\ Sink(w)
    /\ offPath' = StillSettled(IF at[w] = "prove" THEN offPath \cup {item[w].key}
                                                 ELSE offPath)
    /\ UNCHANGED <<ruleVars, session, gated>>

Install ==
    /\ InstallZ3
    /\ UNCHANGED <<storeVars, ruleVars, offPath, session, gated>>

\* The process ends, in order or not: nothing is flushed on the way out.
EndSession ==
    /\ session < MaxSessions
    /\ session' = session + 1
    /\ table' = [k \in Key |-> Missing]
    /\ queue' = <<>> /\ unfinished' = 0
    /\ thread' = None /\ stopping' = FALSE /\ ctx' = DefaultCtx
    /\ at' = [w \in Worker |-> "unborn"]
    /\ item' = [w \in Worker |-> None]
    /\ using' = [t \in Thread |-> None]
    /\ dropped' = {}
    /\ pc' = "idle" /\ cand' = None
    /\ conn' = None /\ rows' = NoRows
    /\ store' = "unopened" /\ unflushed' = 0
    /\ require_proof' \in ProofModes
    /\ gated' = (gated /\ require_proof')
    /\ result' = None /\ offPath' = {}
    /\ UNCHANGED <<z3, disk>>

-----------------------------------------------------------------------------
InCall ==
    \/ SolveDeclines \/ ProveInline \/ Submit
    \/ Flush \/ FlushWrite \/ StoreWrite
    \/ \E r \in Rewrite : SolveAccepted(r) \/ SolveUnchecked(r)

Next ==
    \/ Configure \/ EnsureStore \/ FlushStore \/ Install \/ EndSession
    \/ \E k \in Key : Visit(k)
    \/ InCall
    \/ \E w \in Worker : Work(w)

(***************************************************************************)
(* The solver and every proof end (they have budgets), a visit under way   *)
(* goes on, and the worker is scheduled.  Nobody has to visit anything.    *)
(***************************************************************************)
Fairness == WF_vars(InCall) /\ \A w \in Worker : WF_vars(Work(w))

Spec == Init /\ [][Next]_vars /\ Fairness

-----------------------------------------------------------------------------
(* The verdict ledger this implements while nothing is evicted, the cache  *)
(* is healthy and rewrites are proved.  A session that has not opened the  *)
(* cache yet is about to know what is on disk.                             *)

KnownVerdicts ==
    IF store = "unopened" THEN disk
    ELSE [k \in Key |-> IF table[k] \in Settled THEN table[k] ELSE Missing]

SoundVerdicts ==
    (Key \X {NoRewrite}) \cup
    {<<p[1], Proved(p[2])>> : p \in Equivalent}

Ledger == INSTANCE VerdictLedger WITH
    Verdict <- Settled, NoVerdict <- Missing, Sound <- SoundVerdicts,
    known <- KnownVerdicts, saved <- disk

-----------------------------------------------------------------------------
(* Properties.                                                             *)

\* The rule, its worker and its cache together give each candidate one sound
\* verdict, never revise it, and lose to a restart only what was not saved.
ImplementsLedger == Ledger!LedgerSpec

\* The variables stay in their types.
TypeOK ==
    /\ TableTypeOK /\ ProverTypeOK /\ DiskTypeOK
    /\ conn \in Thread \cup {None}
    /\ store \in {"unopened", "open", "disabled"}
    /\ unflushed \in 0..FlushEvery
    /\ require_proof \in ProofModes
    /\ result \in Item \cup {None}
    /\ offPath \subseteq Key
    /\ session \in 1..MaxSessions
    /\ gated \in BOOLEAN
    /\ pc \in {"idle", "solve", "prove", "submit", "submit_pending",
              "submit_put", "flush", "flush_write", "store_write"}

Equal(i) == <<i.key, i.rewrite>> \in Equivalent

\* A mark that comes late never erases a verdict: not even when its key was
\* evicted and escalated again, and the worker concludes the first escalation
\* between the second one's lookup and its mark (table.py:261).
LatePendingErasesNothing ==
    [][\A k \in Key : table[k] \in Settled => table'[k] # Pending]_vars

\* As long as the gate has been on, whatever a visit hands to _install is
\* equivalent to its candidate: proved inline, by the worker, or in an earlier
\* session, whichever thread recorded it and however often it went to disk.
InstalledEquivalent == gated /\ result # None => Equal(result)

\* PENDING never reaches the disk, by flush or by eviction: a session that is
\* killed leaves nothing that looks like work outstanding.
PendingNeverDurable == \A k \in Key : disk[k] # Pending

Unsaved == {k \in SettledKeys : disk[k] # table[k]}

\* Of what the rule itself settled, less than a batch is ever unsaved (a full
\* one only while it is being flushed), whatever the worker does meanwhile.
CrashLosesFew ==
    store = "open" =>
        \/ Cardinality(Unsaved \ offPath) < FlushEvery
        \/ /\ pc \in {"flush", "flush_write"}
           /\ Cardinality(Unsaved \ offPath) = FlushEvery

Queued(k) == \E j \in 1..Len(queue) : queue[j] # Pill /\ queue[j].key = k

\* A candidate queued for a worker that has come up is concluded, unless the
\* session ends first or its prover raises: one bad candidate does not end
\* escalation for the others.
EscalationSettles ==
    \A k \in Key :
        Queued(k) /\ WorkerUp ~> table[k] # Pending \/ k \in dropped

\* With the gate on, nothing unproved is installed: a PROVED entry is a
\* Z3-proved one, whatever the gate was when it was recorded.
GateHolds == require_proof /\ result # None => Equal(result)

\* A candidate that waits for a proof is not given up while no solver is there
\* to attempt one: what the solver's absence leaves open stays open, so that
\* installing it later helps.
AbsenceDecidesNothing ==
    [][\A k \in Key : ~z3 /\ table[k] = Pending => table'[k] # NoRewrite]_vars
=============================================================================
