-------------------------- MODULE EscalationProver --------------------------
(***************************************************************************)
(* The off-path prover of escalate.py: a bounded queue.Queue, the worker   *)
(* threads that start() has spawned, and the one thread that calls start,  *)
(* stop, submit and drain (the decompiler's thread, Main).                 *)
(*                                                                         *)
(* Each step is what one thread does between two points where the other    *)
(* can see it: a locked table operation, a queue operation, an Event.      *)
(* pc is where Main is inside a call; at[w] is where worker w is in _run.  *)
(* A prover returns PROVED only for equivalent trees and REFUTED only for  *)
(* inequivalent ones (Z3 is sound); beyond that any answer may come.       *)
(***************************************************************************)
EXTENDS RewriteTable, Sequences

CONSTANTS
    Worker,       \* threads start() may spawn; |Worker| bounds the starts
    MaxQueue,     \* maxsize of the queue
    Equivalent,   \* the pairs <<key, rewrite>> that really are equivalent
    Main,         \* the thread that calls the prover's methods
    Pill,         \* the None that stop() enqueues
    DefaultCtx    \* z3's global context, used when ctx is None

ASSUME ProverAssumption ==
    /\ Equivalent \subseteq Key \X Rewrite
    /\ IsFiniteSet(Worker)
    /\ MaxQueue \in Nat \ {0}
    /\ {Main, DefaultCtx, None} \cap Worker = {}
    /\ DefaultCtx # None
    /\ Pill \notin [key : Key, rewrite : Rewrite]

VARIABLES
    queue,       \* self._queue: items and pills
    unfinished,  \* its unfinished_tasks
    thread,      \* self._thread
    stopping,    \* self._stopping
    ctx,         \* self._ctx, DefaultCtx for None
    at,          \* program counter of each worker
    item,        \* the item each worker took
    using,       \* the z3 context a thread's running proof uses
    z3,          \* does z3_available() answer True
    dropped,     \* history: keys whose escalation came to nothing
    pc, cand     \* Main's program counter and the candidate at hand

queueVars  == <<queue, unfinished>>
threadVars == <<thread, stopping, ctx>>
proofVars  == <<item, using>>
callVars   == <<pc, cand>>
proverVars == <<queueVars, threadVars, at, proofVars, z3, dropped, callVars>>

Item      == [key : Key, rewrite : Rewrite]
Candidate == [key : Key, rewrite : Rewrite \cup {None}]   \* not yet solved
Thread  == Worker \cup {Main}
Context == Worker \cup {DefaultCtx}

ProverTypeOK ==
    /\ queue \in Seq(Item \cup {Pill}) /\ Len(queue) <= MaxQueue
    /\ unfinished \in Nat
    /\ thread \in Worker \cup {None}
    /\ stopping \in BOOLEAN
    /\ ctx \in Context
    /\ at \in [Worker -> {"unborn", "boot", "check", "get", "prove", "exit"}]
    /\ item \in [Worker -> Item \cup {None}]
    /\ using \in [Thread -> Context \cup {None}]
    /\ z3 \in BOOLEAN
    /\ dropped \subseteq Key
    /\ cand \in Candidate \cup {None}

ProverInit ==
    /\ queue = <<>> /\ unfinished = 0
    /\ thread = None /\ stopping = FALSE
    /\ ctx = DefaultCtx
    /\ at = [w \in Worker |-> "unborn"]
    /\ item = [w \in Worker |-> None]
    /\ using = [t \in Thread |-> None]
    /\ dropped = {}
    /\ pc = "idle" /\ cand = None

-----------------------------------------------------------------------------
(* What prove_equivalent may return, or raise, on the item.  It consults   *)
(* z3_available() once, on entry: a thread inside it has a context in      *)
(* using, and none if the answer was False (or the import itself raised).  *)

Verdicts(i, context) ==
    IF context = None THEN {"unavailable", "raised"}
    ELSE {"unknown", "raised"} \cup
         {IF <<i.key, i.rewrite>> \in Equivalent THEN "proved" ELSE "refuted"}

EnterProof(t, context) ==
    using' = [using EXCEPT ![t] = IF z3 THEN context ELSE None]

LeaveProof(t) == using' = [using EXCEPT ![t] = None]

\* Solver support can be installed while the session runs.
InstallZ3 ==
    /\ ~z3
    /\ z3' = TRUE
    /\ UNCHANGED <<table, queueVars, threadVars, at, proofVars, dropped,
                   callVars>>

-----------------------------------------------------------------------------
(* The two ends of the queue.                                              *)

\* Mutant: the queue takes one item too many.
HasRoomOffByOne == Len(queue) <= MaxQueue

HasRoom == Len(queue) < MaxQueue

Enqueue(x) ==
    /\ HasRoom
    /\ queue' = Append(queue, x)
    /\ unfinished' = unfinished + 1

-----------------------------------------------------------------------------
(* start: a no-op while _thread is set, even if that thread has ended.     *)

Spawn(w) ==
    /\ thread = None
    /\ at[w] = "unborn"
    /\ stopping' = FALSE
    /\ thread' = w
    /\ at' = [at EXCEPT ![w] = "boot"]

Start(w) ==
    /\ pc = "idle"
    /\ Spawn(w)
    /\ UNCHANGED <<table, queueVars, ctx, proofVars, z3, dropped, callVars>>

-----------------------------------------------------------------------------
(* stop: set the event, put a pill (blocking), join, forget the thread.    *)

Stop ==
    /\ pc = "idle"
    /\ thread # None
    /\ stopping' = TRUE
    /\ pc' = "stop_put"
    /\ UNCHANGED <<table, queueVars, thread, ctx, at, proofVars,
                   z3, dropped, cand>>

\* Mutant: stop only sets the event.
StopPutNoPill ==
    /\ pc = "stop_put"
    /\ pc' = "stop_join"
    /\ UNCHANGED <<table, queueVars, threadVars, at, proofVars, z3, dropped,
                   cand>>

StopPut ==
    /\ pc = "stop_put"
    /\ Enqueue(Pill)
    /\ pc' = "stop_join"
    /\ UNCHANGED <<table, threadVars, at, proofVars, z3, dropped, cand>>

\* join returns when the worker has ended, and gives up on one that has not: a
\* proof may outlast its timeout.  The thread is forgotten either way.
StopJoin ==
    /\ pc = "stop_join"
    /\ thread' = None
    /\ pc' = "idle"
    /\ UNCHANGED <<table, queueVars, stopping, ctx, at, proofVars,
                   z3, dropped, cand>>

-----------------------------------------------------------------------------
(* drain: queue.join(), which ignores the timeout argument.                *)

Drain ==
    /\ pc = "idle"
    /\ pc' = "drain"
    /\ UNCHANGED <<table, queueVars, threadVars, at, proofVars,
                   z3, dropped, cand>>

DrainReturns ==
    /\ pc = "drain"
    /\ unfinished = 0
    /\ pc' = "idle"
    /\ UNCHANGED <<table, queueVars, threadVars, at, proofVars,
                   z3, dropped, cand>>

-----------------------------------------------------------------------------
(* submit: check the thread and the table, mark PENDING, then enqueue.     *)
(* The worker can run between any two of these.                            *)

SubmitReturns == pc' = "idle" /\ cand' = None

\* Mutants: submit trusts its caller's lookup; submit skips only pending keys.
MayEscalateAlways(k)     == TRUE
MayEscalateUnpending(k) == table[k] # Pending

MayEscalate(k) == table[k] = Missing

SubmitLookup ==
    /\ pc = "submit"
    /\ \/ /\ thread = None \/ ~MayEscalate(cand.key)
          /\ SubmitReturns
       \/ /\ thread # None /\ MayEscalate(cand.key)
          /\ pc' = "submit_pending" /\ UNCHANGED cand
    /\ UNCHANGED <<table, queueVars, threadVars, at, proofVars, z3, dropped>>

SubmitPending ==
    /\ pc = "submit_pending"
    /\ RecordPending(cand.key)
    /\ dropped' = dropped \ {cand.key}
    /\ pc' = "submit_put"
    /\ UNCHANGED <<queueVars, threadVars, at, proofVars, z3, cand>>

\* put_nowait succeeds, or raises queue.Full, which is logged and forgotten.
SubmitPut ==
    /\ pc = "submit_put"
    /\ \/ /\ Enqueue(cand)
          /\ UNCHANGED dropped
       \/ /\ ~HasRoom
          /\ dropped' = dropped \cup {cand.key}
          /\ UNCHANGED queueVars
    /\ SubmitReturns
    /\ UNCHANGED <<table, threadVars, at, proofVars, z3>>

-----------------------------------------------------------------------------
(* _run, on worker w.                                                      *)

\* Mutant: the worker uses z3's global context.
BootShared(w) ==
    /\ at[w] = "boot"
    /\ ctx' = DefaultCtx
    /\ at' = [at EXCEPT ![w] = "check"]
    /\ UNCHANGED <<table, queueVars, thread, stopping, proofVars, z3, dropped,
                   callVars>>

\* The context is created on this thread but kept on the shared prover.  Only an
\* ImportError is expected here: anything else that importing z3 or making the
\* context raises ends the thread.
Boot(w) ==
    /\ at[w] = "boot"
    /\ \/ /\ ctx' = IF z3 THEN w ELSE DefaultCtx
          /\ at' = [at EXCEPT ![w] = "check"]
       \/ /\ at' = [at EXCEPT ![w] = "exit"]
          /\ UNCHANGED ctx
    /\ UNCHANGED <<table, queueVars, thread, stopping, proofVars,
                   z3, dropped, callVars>>

CheckStopping(w) ==
    /\ at[w] = "check"
    /\ at' = [at EXCEPT ![w] = IF stopping THEN "exit" ELSE "get"]
    /\ UNCHANGED <<table, queueVars, threadVars, proofVars,
                   z3, dropped, callVars>>

GetPill(w) ==
    /\ at[w] = "get" /\ queue # <<>> /\ Head(queue) = Pill
    /\ queue' = Tail(queue)
    /\ unfinished' = unfinished - 1
    /\ at' = [at EXCEPT ![w] = "exit"]
    /\ UNCHANGED <<table, threadVars, proofVars, z3, dropped, callVars>>

\* Mutant: the item is marked done when it is taken.
GetItemDone(w) ==
    /\ at[w] = "get" /\ queue # <<>> /\ Head(queue) # Pill
    /\ queue' = Tail(queue)
    /\ unfinished' = unfinished - 1
    /\ item' = [item EXCEPT ![w] = Head(queue)]
    /\ EnterProof(w, ctx)
    /\ at' = [at EXCEPT ![w] = "prove"]
    /\ UNCHANGED <<table, threadVars, z3, dropped, callVars>>

GetItem(w) ==
    /\ at[w] = "get" /\ queue # <<>> /\ Head(queue) # Pill
    /\ queue' = Tail(queue)
    /\ item' = [item EXCEPT ![w] = Head(queue)]
    /\ EnterProof(w, ctx)
    /\ at' = [at EXCEPT ![w] = "prove"]
    /\ UNCHANGED <<table, unfinished, threadVars, z3, dropped, callVars>>

\* Mutant: only a proof or a refutation settles the candidate.
ConcludeStarved(i, verdict) ==
    \/ /\ verdict = "proved"
       /\ RecordProved(i.key, i.rewrite)
       /\ UNCHANGED dropped
    \/ /\ verdict = "refuted"
       /\ RecordNoRewrite(i.key)
       /\ UNCHANGED dropped
    \/ /\ verdict \in {"unknown", "unavailable"}
       /\ UNCHANGED <<table, dropped>>
    \/ /\ verdict = "raised"
       /\ dropped' = dropped \cup {i.key}
       /\ UNCHANGED table

\* The verdict reaches the table; an exception is logged and reaches nothing.
Conclude(i, verdict) ==
    \/ /\ verdict = "proved"
       /\ RecordProved(i.key, i.rewrite)
       /\ UNCHANGED dropped
    \/ /\ verdict \in {"refuted", "unknown", "unavailable"}
       /\ RecordNoRewrite(i.key)
       /\ UNCHANGED dropped
    \/ /\ verdict = "raised"
       /\ dropped' = dropped \cup {i.key}
       /\ UNCHANGED table

\* Mutant: a prover that raises takes its worker down.
ProveOneDies(w) ==
    /\ at[w] = "prove"
    /\ \E verdict \in Verdicts(item[w], using[w]) :
          /\ Conclude(item[w], verdict)
          /\ at' = [at EXCEPT ![w] = IF verdict = "raised" THEN "exit"
                                                         ELSE "check"]
    /\ LeaveProof(w)
    /\ item' = [item EXCEPT ![w] = None]
    /\ unfinished' = unfinished - 1
    /\ UNCHANGED <<queue, threadVars, z3, callVars>>

\* _prove_one and the task_done of its finally clause.
ProveOne(w) ==
    /\ at[w] = "prove"
    /\ \E verdict \in Verdicts(item[w], using[w]) : Conclude(item[w], verdict)
    /\ LeaveProof(w)
    /\ item' = [item EXCEPT ![w] = None]
    /\ unfinished' = unfinished - 1
    /\ at' = [at EXCEPT ![w] = "check"]
    /\ UNCHANGED <<queue, threadVars, z3, callVars>>

-----------------------------------------------------------------------------
SubmitStep == SubmitLookup \/ SubmitPending \/ SubmitPut

WorkerStep(w) ==
    Boot(w) \/ CheckStopping(w) \/ GetPill(w) \/ GetItem(w) \/ ProveOne(w)

-----------------------------------------------------------------------------
(* Properties of the prover, whoever calls it.                             *)

\* Some worker has come through its boot and is in its loop.
WorkerUp == \E w \in Worker : at[w] \in {"check", "get", "prove"}

\* Who is going to conclude key k: a place in the queue, a worker, or the
\* submit call that is about to enqueue it.
Owners(k) ==
    {<<"queue", j>> : j \in {j \in 1..Len(queue) :
                              queue[j] # Pill /\ queue[j].key = k}} \cup
    {<<"worker", w>> : w \in {w \in Worker :
                               at[w] = "prove" /\ item[w].key = k}} \cup
    (IF pc = "submit_put" /\ cand.key = k THEN {<<"submit", k>>} ELSE {})

\* A PENDING entry has an owner unless its escalation was dropped, by a full
\* queue or a prover that raised: submit, the worker and stop lose no other
\* candidate, whatever the order they run in.
PendingOwned ==
    \A k \in Key : table[k] = Pending /\ k \notin dropped => Owners(k) # {}

\* A candidate is in flight at most once, and only while its entry is PENDING:
\* what marking before enqueueing is for.  (No key is evicted.)
EscalatedOnce ==
    \A k \in Key :
        /\ Owners(k) # {} => table[k] = Pending
        /\ \A p, q \in Owners(k) : p = q

\* No two threads are ever inside Z3 with the same context: the context the
\* worker made is the only one it proves in, and nobody else proves in it.  A
\* restart after a join that gave up breaks this (escalate.py:83, 128).
ContextExclusive ==
    \A s, t \in Thread :
        s # t /\ using[s] # None => using[s] # using[t]
=============================================================================
