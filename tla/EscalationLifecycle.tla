------------------------ MODULE EscalationLifecycle ------------------------
(***************************************************************************)
(* The prover on its own, driven the way its tests drive it: one thread    *)
(* that starts, stops and restarts it, submits candidates and drains, in   *)
(* any order.  The table is large enough that nothing is evicted.          *)
(***************************************************************************)
EXTENDS EscalationProver

vars == <<table, proverVars>>

Init == TableInit /\ ProverInit /\ z3 \in BOOLEAN

\* A test calls submit with a candidate of its choice.
CallSubmit(i) ==
    /\ pc = "idle"
    /\ pc' = "submit"
    /\ cand' = i
    /\ UNCHANGED <<table, queueVars, threadVars, at, proofVars, z3, dropped>>

Next ==
    \/ InstallZ3
    \/ \E w \in Worker : Start(w)
    \/ Stop \/ StopPut \/ StopJoin
    \/ Drain \/ DrainReturns
    \/ \E i \in Item : CallSubmit(i)
    \/ SubmitStep
    \/ \E w \in Worker : WorkerStep(w)

(***************************************************************************)
(* The interpreter schedules every thread that can run, proofs have a      *)
(* timeout, and a call that is not blocked proceeds.  Nothing obliges Main *)
(* to call anything.                                                       *)
(***************************************************************************)
Fairness ==
    /\ WF_vars(StopPut) /\ WF_vars(StopJoin) /\ WF_vars(DrainReturns)
    /\ WF_vars(SubmitStep)
    /\ \A w \in Worker : WF_vars(WorkerStep(w))

Spec == Init /\ [][Next]_vars /\ Fairness

-----------------------------------------------------------------------------
(* Properties.                                                             *)

\* The variables stay in their types, and the queue within max_queue.
TypeOK ==
    /\ TableTypeOK
    /\ ProverTypeOK
    /\ pc \in {"idle", "submit", "submit_pending", "submit_put", "stop_put",
              "stop_join", "drain"}

\* When drain returns, every escalated candidate has been concluded: the queue
\* may not report itself done while a worker still holds an item.
DrainMeansSettled ==
    [][pc = "drain" /\ pc' = "idle" =>
         \A k \in Key : table[k] = Pending => k \in dropped]_vars

\* A verdict is final: no later submission or worker replaces it.  (No key is
\* evicted.)
VerdictsStay ==
    [][\A k \in Key : table[k] \in Settled => table'[k] = table[k]]_vars

\* Once stop has raised the event every worker leaves its loop, blocked on an
\* empty queue or in the middle of a proof, even when stop itself never returns;
\* only a start that clears the event first can keep it there.  (It can: join
\* gives up on a long proof, and the new worker may take the old one's pill.)
StopEndsWorker ==
    \A w \in Worker :
        stopping /\ at[w] \in {"boot", "check", "get", "prove"}
            ~> at[w] = "exit" \/ ~stopping

\* stop returns, at least when a worker is in its loop: it is documented as
\* always safe to call, with a timeout.
StopReturns == pc = "stop_put" /\ WorkerUp ~> pc = "idle"
=============================================================================
