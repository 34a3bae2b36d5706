---------------------------- MODULE RewriteTable ----------------------------
(***************************************************************************)
(* The in-memory rewrite cache of table.py: a bounded map from canonical   *)
(* keys to what is known about a candidate.  Every method of RewriteTable  *)
(* that touches the entries does so under one lock, so each is one step.   *)
(*                                                                         *)
(* A key stands for a whole class of alpha-equivalent trees at one         *)
(* bitwidth, and a rewrite for a positional tree: what canonical_key,      *)
(* _to_positional and _instantiate compute is a question about trees and   *)
(* none of the steps below depends on it.                                  *)
(***************************************************************************)
EXTENDS Naturals, FiniteSets

CONSTANTS
    Key,         \* canonical keys
    Rewrite,     \* positional rewrites
    None,        \* Python's None
    MaxEntries   \* max_size of the CacheImpl

ASSUME TableAssumption ==
    /\ None \notin Rewrite
    /\ MaxEntries \in Nat \ {0}

VARIABLE table

Missing   == [outcome |-> "missing", rewrite |-> None]
Pending   == [outcome |-> "pending", rewrite |-> None]
NoRewrite == [outcome |-> "no_rewrite", rewrite |-> None]
Proved(r) == [outcome |-> "proved", rewrite |-> r]

ProvedEntry == {Proved(r) : r \in Rewrite}
Settled     == {NoRewrite} \cup ProvedEntry
Entry       == {Pending} \cup Settled

TableTypeOK == table \in [Key -> Entry \cup {Missing}]

TableInit == table = [k \in Key |-> Missing]

Cached == {k \in Key : table[k] # Missing}

(***************************************************************************)
(* self._entries[k] = e.  A new key in a full cache pushes out one entry;  *)
(* which one is CacheImpl's business, so any may go.                       *)
(***************************************************************************)
Put(k, e) ==
    \/ /\ k \in Cached \/ Cardinality(Cached) < MaxEntries
       /\ table' = [table EXCEPT ![k] = e]
    \/ /\ k \notin Cached
       /\ Cardinality(Cached) >= MaxEntries
       /\ \E victim \in Cached :
             table' = [table EXCEPT ![k] = e, ![victim] = Missing]

\* The keys CacheImpl hands to the removal listener in this step, each with
\* the entry it had: eviction is the only thing that removes a key.
Evicted == {k \in Key : table[k] # Missing /\ table'[k] = Missing}

RecordProved(k, r) == Put(k, Proved(r))

RecordNoRewrite(k) == Put(k, NoRewrite)

\* Mutants: the candidate is not marked; a late mark replaces what is there.
RecordPendingNot(k)    == UNCHANGED table
RecordPendingErases(k) == Put(k, Pending)

\* "A late PENDING must not erase a proof that landed first."
RecordPending(k) ==
    \/ table[k] \in Settled /\ UNCHANGED table
    \/ table[k] \notin Settled /\ Put(k, Pending)

\* What to_dict serialises: the settled entries only.
SettledKeys == {k \in Key : table[k] \in Settled}
=============================================================================
