---------------------------- MODULE SimplifyCall ----------------------------
(***************************************************************************)
(* One call of simplify, the native binding of _cobra.pyx: its checks, its *)
(* four buffers, the solve that is repeated once with a larger buffer, and *)
(* the frees on every way out.  What the nodes say is left to Solve; here  *)
(* a step that may go either way does.                                     *)
(***************************************************************************)
EXTENDS Integers

CONSTANTS
    InitialCapacity,  \* _INITIAL_CAPACITY
    MaxAnswer         \* bound on the nodes of an answer

ASSUME CapacityAssumption ==
    InitialCapacity \in Nat \ {0} /\ MaxAnswer \in Nat \ {0}

VARIABLES
    pc,         \* where the call is
    heap,       \* each block of memory: "unused", "live" or "freed"
    owned,      \* which of the pointers sig, err and in_nodes are not NULL
    nodes,      \* the block the pointer nodes points to, or "NULL"
    capacity,   \* the local capacity, which the shim is told
    room,       \* the nodes the block at nodes really has room for
    written,    \* the nodes the shim has written to that block
    produced,   \* the local produced, *out_len
    root,       \* the local root, *out_root
    status,     \* the shim's last return code
    outcome,    \* how the call ends
    misuse      \* history: has a block been used or freed while not live

memVars == <<heap, owned, nodes, capacity, room, written>>
outVars == <<produced, root, status>>
simplifyVars == <<pc, memVars, outVars, outcome, misuse>>

Fixed      == {"sig", "err", "in_nodes"}
NodeBlock  == {"first", "second"}
Block      == Fixed \cup NodeBlock
Status     == {"none", "OK", "UNCHANGED", "ERROR", "TOO_SMALL", "EXCEPTION"}
Outcome    == {"none", "tree", "unchanged", "ValueError", "CobraSolverError",
               "MemoryError", "OverflowError"}

SimplifyTypeOK ==
    /\ pc \in {"enter", "flatten", "allocate", "fill", "nodes", "solve",
               "grow", "decide", "build", "finally", "done"}
    /\ heap \in [Block -> {"unused", "live", "freed"}]
    /\ owned \subseteq Fixed
    /\ nodes \in NodeBlock \cup {"NULL"}
    /\ capacity \in Nat /\ room \in Nat /\ written \in Nat
    /\ produced \in Nat /\ root \in Int
    /\ status \in Status
    /\ outcome \in Outcome
    /\ misuse \in BOOLEAN

SimplifyInit ==
    /\ pc = "enter"
    /\ heap = [b \in Block |-> "unused"]
    /\ owned = {} /\ nodes = "NULL"
    /\ capacity = InitialCapacity /\ room = 0 /\ written = 0
    /\ produced = 0 /\ root = -1 /\ status = "none"
    /\ outcome = "none" /\ misuse = FALSE

-----------------------------------------------------------------------------
(* Memory.                                                                 *)

Uses(blocks) == misuse' = (misuse \/ \E b \in blocks : heap[b] # "live")

Freed(blocks) == [b \in Block |-> IF b \in blocks THEN "freed" ELSE heap[b]]

\* free(NULL) does nothing.
AtNodes == {nodes} \ {"NULL"}

\* The call leaves with this result, before there is anything to free, or
\* through the finally clause.
Leave(how)   == pc' = "done" /\ outcome' = how
Finally(how) == pc' = "finally" /\ outcome' = how

-----------------------------------------------------------------------------
(* Steps.  ok says whether the part that may raise or fail does not.       *)

\* The length of the signature and the bitwidth are checked.
Enter(ok) ==
    /\ pc = "enter"
    /\ \/ ok /\ pc' = "flatten" /\ UNCHANGED outcome
       \/ ~ok /\ Leave("ValueError")
    /\ UNCHANGED <<memVars, outVars, misuse>>

\* _flatten refuses a leaf that is not declared and an unknown operator.
FlattenInput(ok) ==
    /\ pc = "flatten"
    /\ \/ ok /\ pc' = "allocate" /\ UNCHANGED outcome
       \/ ~ok /\ Leave("CobraSolverError")
    /\ UNCHANGED <<memVars, outVars, misuse>>

\* Three mallocs, of which those of got succeed.  If not all do, what there is
\* is freed at once: this is outside the try.
Allocate(got) ==
    /\ pc = "allocate"
    /\ owned' = got
    /\ \/ /\ got = Fixed
          /\ heap' = [b \in Block |-> IF b \in got THEN "live" ELSE heap[b]]
          /\ pc' = "fill" /\ UNCHANGED outcome
       \/ /\ got # Fixed
          /\ heap' = Freed(got)
          /\ Leave("MemoryError")
    /\ UNCHANGED <<nodes, capacity, room, written, outVars, misuse>>

\* Python integers become C ones, which raises when one does not fit.
Fill(ok) ==
    /\ pc = "fill"
    /\ Uses({"sig", "in_nodes"} \cup IF ok THEN {"err"} ELSE {})
    /\ \/ ok /\ pc' = "nodes" /\ UNCHANGED outcome
       \/ ~ok /\ Finally("OverflowError")
    /\ UNCHANGED <<memVars, outVars>>

\* nodes = malloc(capacity * sizeof(cobra_node_t)), to the unused block b.
MallocNodes(b, ok, freed, size) ==
    /\ heap' = [freed EXCEPT ![b] = IF ok THEN "live" ELSE @]
    /\ nodes' = IF ok THEN b ELSE "NULL"
    /\ room' = IF ok THEN size ELSE 0
    /\ written' = 0
    /\ \/ ok /\ pc' = "solve" /\ UNCHANGED outcome
       \/ ~ok /\ Finally("MemoryError")

AllocateNodes(ok) ==
    /\ pc = "nodes"
    /\ MallocNodes("first", ok, heap, capacity)
    /\ UNCHANGED <<owned, capacity, outVars, misuse>>

\* cobra_shim_simplify, without the GIL.  It answers code; an answer of n
\* nodes is copied out if it fits what the shim believes the capacity to be.
Shim(code, n) ==
    /\ pc = "solve"
    /\ status' = code
    /\ code \in {"OK", "TOO_SMALL"} => (code = "OK" <=> n <= capacity)
    /\ produced' = IF code \in {"OK", "TOO_SMALL"} THEN n ELSE produced
    /\ root' = IF code = "OK" THEN n - 1 ELSE root
    /\ written' = IF code = "OK" THEN n ELSE written
    /\ Uses(Fixed \cup AtNodes)
    /\ pc' = IF code = "TOO_SMALL" /\ nodes = "first" THEN "grow" ELSE "decide"
    /\ UNCHANGED <<heap, owned, nodes, capacity, room, outcome>>

\* Mutant: the old buffer is not freed.
GrowLeaking(ok) ==
    /\ pc = "grow"
    /\ capacity' = produced
    /\ MallocNodes("second", ok, heap, capacity')
    /\ Uses(AtNodes)
    /\ UNCHANGED <<owned, outVars>>

\* Mutant: the new buffer has the old one's size.
GrowInPlace(ok) ==
    /\ pc = "grow"
    /\ capacity' = produced
    /\ MallocNodes("second", ok, Freed(AtNodes), capacity)
    /\ Uses(AtNodes)
    /\ UNCHANGED <<owned, outVars>>

\* Mutant: the pointer is left at the freed block when the malloc fails.
GrowDangling(ok) ==
    /\ pc = "grow"
    /\ capacity' = produced
    /\ IF ok THEN MallocNodes("second", ok, Freed(AtNodes), capacity')
       ELSE /\ heap' = Freed(AtNodes) /\ Finally("MemoryError")
            /\ UNCHANGED <<nodes, room, written>>
    /\ Uses(AtNodes)
    /\ UNCHANGED <<owned, outVars>>

\* Once, to what the solver asked for.
Grow(ok) ==
    /\ pc = "grow"
    /\ capacity' = produced
    /\ MallocNodes("second", ok, Freed(AtNodes), capacity')
    /\ Uses(AtNodes)
    /\ UNCHANGED <<owned, outVars>>

\* Mutant: any status but an error is taken for success.
DecideLoosely ==
    /\ pc = "decide"
    /\ \/ status = "UNCHANGED" /\ Finally("unchanged")
       \/ status \in {"ERROR", "EXCEPTION"} /\ Finally("CobraSolverError")
       \/ status \in {"OK", "TOO_SMALL"} /\ pc' = "build" /\ UNCHANGED outcome
    /\ UNCHANGED <<memVars, outVars, misuse>>

RootFits == 0 <= root /\ root < produced

\* The status first, then the root.
Decide ==
    /\ pc = "decide"
    /\ \/ status = "UNCHANGED" /\ Finally("unchanged")
       \/ /\ status # "UNCHANGED" /\ ~(status = "OK" /\ RootFits)
          /\ Finally("CobraSolverError")
       \/ status = "OK" /\ RootFits /\ pc' = "build" /\ UNCHANGED outcome
    /\ UNCHANGED <<memVars, outVars, misuse>>

\* _build refuses shifts and leaves that were not supplied.
Build(ok) ==
    /\ pc = "build"
    /\ Uses(AtNodes)
    /\ Finally(IF ok THEN "tree" ELSE "CobraSolverError")
    /\ UNCHANGED <<memVars, outVars>>

\* The finally clause.
Free ==
    /\ pc = "finally"
    /\ heap' = Freed(owned \cup AtNodes)
    /\ Uses(owned \cup AtNodes)
    /\ pc' = "done"
    /\ UNCHANGED <<owned, nodes, capacity, room, written, outVars, outcome>>

SimplifyNext ==
    \/ \E ok \in BOOLEAN : Enter(ok) \/ FlattenInput(ok) \/ Fill(ok)
                           \/ AllocateNodes(ok) \/ Grow(ok) \/ Build(ok)
    \/ \E got \in SUBSET Fixed : Allocate(got)
    \/ \E code \in Status \ {"none"}, n \in 1..MaxAnswer : Shim(code, n)
    \/ Decide \/ Free

SimplifySpec == SimplifyInit /\ [][SimplifyNext]_simplifyVars

-----------------------------------------------------------------------------
(* Properties.                                                             *)

\* When simplify is over, whichever way, all its memory has been freed.
NothingLeaks == pc = "done" => \A b \in Block : heap[b] # "live"

\* No block is read, written or freed before its malloc or after its free.
MemoryIsLive == ~misuse

\* The shim never writes past the end of the node buffer, the second one
\* included.
WritesFit == written <= room

\* _build starts only inside what the shim has written to the buffer that
\* nodes points to now: never in one that was too small, twice.
BuildsWhatWasWritten ==
    pc = "build" => nodes # "NULL" /\ 0 <= root /\ root < written
=============================================================================
