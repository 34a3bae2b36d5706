# d810-cobra in TLA+

d810-cobra is a back end of the d810 deobfuscator for IDA's decompiler.  It
finds expressions that mix Boolean and arithmetic operators (MBA) in Hex-Rays
microcode, asks the CoBRA solver for a smaller one, has Z3 prove the two equal,
and puts the smaller one in place.  Proofs are expensive, so the package
remembers what it found out (in memory and in a SQLite file) and hands what it
cannot prove quickly to a background thread.

This directory models that program.  Paths below are relative to
`src/src/d810_cobra/` unless they say otherwise.

1. [The system](#1-the-system)
2. [The modules](#2-the-modules)
3. [The runs](#3-the-runs)
4. [What the code does that its text denies](#4-what-the-code-does-that-its-text-denies)
5. [The proofs](#5-the-proofs)
6. [What is not modelled](#6-what-is-not-modelled)
7. [Plan](#7-plan)

## 1. The system

    decompiler thread (Main)                        worker thread
    ------------------------                        -------------
    CobraSolveRule.check_and_replace
      |  lookup                                     EscalationProver._run
      v                                               |  get
    RewriteTable  <------------ record --------------+   prove (own Z3 context)
      |  miss: solve, accept, prove inline            ^
      |        record, or submit ----> queue ---------+
      |  every 16 inline records: flush
      |  eviction (either thread)
      v
    ProofCacheStore (SQLite, survives the process)

| component | state | operations | what is hard | what makes it correct |
|---|---|---|---|---|
| rewrite table, `table.py` | a bounded cache from canonical keys to PROVED, NO_REWRITE or PENDING | lookup, record_*, to_dict, from_dict, removal listener | two threads write it; an insertion may evict anything and calls the listener on the inserting thread; one entry serves all alpha-equivalent trees | a verdict is not lost to a late PENDING; an entry instantiated for another tree is right for that tree |
| escalation prover, `escalate.py` | a bounded queue, the worker thread, the stop event, a Z3 context | start, stop, submit, drain, the worker's loop | check, mark and enqueue are three steps; a full queue; a prover that raises; stop and restart around a blocked or busy worker | PENDING means somebody is on it; nothing is proved twice; drain means done; stop ends the worker |
| durable cache, `store.py` | rows on disk, a connection owned by the thread that opened it | load, flush, put_entry | the worker evicts on a connection that is not its own; errors are swallowed | nothing in flight is saved; a crash loses at most a batch |
| rule, `rules/cobra_solve.py` | store handle, count of unflushed entries, require_proof | configure, check_and_replace, flush_store | the visit spans solver and proof, between which the worker runs; the process ends without notice | what is installed is equivalent; verdicts are given once and kept |
| detector, `detect.py` | per block: the tree each temporary stands for; per function: the keys already seen | detect_candidates | a temporary's tree mentions variables that may change before it is used | a candidate means what its instruction computes |
| pipeline, `executor.py`, `convert.py` | the candidates still to do, the block | run_mba_solve, build_replacement, install_rewrite | candidates are matched to instructions by address after the fact | the block computes what it computed |
| expression trees, `expr.py` | none | evaluate, node_count, accept_rewrite, signature_of, parse_cobra_output | widths, wrap-around, the order of the leaves in a signature | a signature is of the tree it goes with; text and tree mean the same |
| proof gate, `prove.py` | the global `z3`, the cached answer and its generation | prove_equivalent, z3_available, reset_z3_detection | z3 may be installed mid-session; two threads refresh the answer without a lock; a context belongs to one thread | nobody proves without z3; the gate opens after an installation; two threads never share a context |
| solver front end, `solve.py`, `probe.py` | none | solve_signature, solve_expression, find_cobra_cli | external processes and a native library that may fail or answer anything | the solver is asked about the tree at hand, and its answer arrives as it was meant |
| native binding, `_cobra.pyx`, `cpp/cobra_shim.cpp` | four buffers during a call, one of them replaced | simplify, cobra_shim_simplify | a buffer that is grown once; every step may raise; encodings in two languages and two directions | no leak, no use of dead memory, no write past the end, no node read that was not written |

The hazards each of these is exposed to are listed, with the line where they
bite and the properties aimed at them, in `PROJECT.json`.

## 2. The modules

| module | models | extends |
|---|---|---|
| `RewriteTable` | the table's entries and its eviction | |
| `EscalationProver` | queue, worker threads, the calls of the one thread that uses the prover | `RewriteTable` |
| `EscalationLifecycle` | the prover alone, started, stopped, restarted and drained at will | `EscalationProver` |
| `ProofCacheStore` | the rows on disk and the connection | `RewriteTable` |
| `CobraSolve` | the rule with its table, prover and cache, over several sessions | `EscalationProver`, `ProofCacheStore` |
| `VerdictLedger` | abstract specification: verdicts given once, saved, reloaded | |
| `ExprTree` | trees, their value, canonical keys, positional storage, instantiation | |
| `Detect` | the detector's walk, and what the instructions really compute | `ExprTree` |
| `MbaPipeline` | detection, gates, rebuilding and installing, on one block | `Detect` |
| `Z3Gate` | `z3_available`, its probe, its generation and its reset, called by several threads | |
| `SimplifyCall` | one call of the native binding: checks, buffers, the repeated solve, frees | |
| `Solve` | what is asked of the solver and what comes back, through the binding or cobra-cli | `SimplifyCall`, `ExprTree` |
| `Recursion` | nothing of the code: that a recursive function whose recursion descends satisfies its equation, and induction on a rank | |
| `EscalationProverProofs` | what an insertion, submit and a worker preserve, whoever calls the prover | `EscalationProver` |
| `EscalationLifecycleProofs` | theorems about `EscalationLifecycle` | `EscalationLifecycle`, `EscalationProverProofs` |
| `CobraSolveProofs` | theorems about `CobraSolve`, and its refinement of `VerdictLedger` | `CobraSolve`, `EscalationProverProofs` |
| `Z3GateProofs` | theorems about `Z3Gate` | `Z3Gate` |
| `ExprTreeProofs` | what the functions on trees do, for every tree | `ExprTree`, instances of `Recursion` |
| `MbaPipelineProofs` | theorems about `MbaPipeline` | `MbaPipeline`, `ExprTreeProofs` |
| `SolveProofs` | theorems about `SimplifyCall` and `Solve` | `Solve`, `ExprTreeProofs` |
| `MC...` | constants for the runs | |

### Threads and steps

Python threads can be switched anywhere, so what counts is where one can see
the other.  Each action is what one thread does between two such points: a
table operation (under the table's lock), a queue operation, reading or setting
the event, entering or leaving Z3.

* `pc` is where the decompiler's thread is inside a call, `cand` the candidate
  it is working on.  A visit that misses goes `idle -> solve -> prove ->
  submit -> submit_pending -> submit_put -> idle`, or leaves that path early; a
  record that fills the batch goes on with `flush -> flush_write -> idle`, and
  the host's `flush_store` goes `idle -> store_write -> idle`.
* `at[w]` is where worker `w` is in `_run`: `boot` (making its context),
  `check` (the while condition), `get`, `prove`, `exit`.  There is one worker
  per call of `start`, so that a restart is a new thread.  A boot may fail: only
  an ImportError is expected there, and anything else ends the thread while
  `_thread` goes on naming it, so that what is queued is never proved.
  `EscalationSettles` and `StopReturns` suppose a worker that has come up
  (`WorkerUp`).
* `using[t]` is the Z3 context thread `t` is inside, if any.

A flush is two steps.  `FlushReads` copies the settled entries into `rows`, as
`to_dict` does, and `FlushWrites` puts `rows` on disk in one transaction.  Between
the two the worker may settle, evict, or send an eviction of its own to the
store.

The listener the table calls on eviction runs on the thread that inserted:
`Sink(t)` is conjoined to every action that can evict and takes the entries
this step removes (`Evicted`) to the store on behalf of `t`.  This is where
SQLite's rule that a connection belongs to its thread matters.

A key stands for a class of alpha-equivalent trees and a rewrite for a
positional tree.  Two rewrites per key, one equivalent and one not, are what
the gates can tell apart.  The solver may offer either, or nothing.  The prover
answers PROVED only of equivalent pairs and REFUTED only of inequivalent ones
(that Z3 is sound is an assumption); apart from that it may time out or raise,
and it answers UNAVAILABLE when z3 is absent.

`EndSession` is the end of the process, at any point, followed by a new one: the
code has no shutdown path, so an orderly exit and a crash lose the same things.

History variables: `dropped` (candidates whose escalation came to nothing
because the queue was full or the prover raised), `offPath` (keys whose present
verdict came from the worker), `result` (what the last visit installed), `session`,
`gated` (whether `require_proof` has been on since the cache was empty),
`since`, `hit` and `overlapped` in `Z3Gate`, and `original` in the pipeline.  No guard of the modelled code depends on one,
except the bound on `session`.

### Trees and blocks

`ExprTree`, `Detect` and `MbaPipeline` are about data, and compute it: trees are
records, `Evaluate` works modulo `2^Width`, and the block is chosen one
instruction at a time while it is scanned.  An operand's name determines its
size, as the text of an operand does in Hex-Rays; `ldx` stands for every
opcode the detector cannot model.  `ValueOf` and `After` say what the
instructions themselves compute and owe nothing to the detector; the properties
compare the two, in the bits that the destination of the instruction holds.
Memory holds one cell, and leaves do not overlap.

A function of the code that walks a tree (`evaluate`, `node_count`, the
substitution, `tree_to_ast`, the two flattenings, ...) is a recursive function
on the trees nested up to `Depth`, given by its value on a node from its values
on the operands: `EvaluateNode`, `InlineNode`, `RebuiltNode` and so on.  Written
this way it can be evaluated by TLC and reasoned about (section 5).

`Rewrites` is a constant: what the solver may answer about a tree with given
leaves, any set of trees over them.  In the instance these are all trees of up to
one operator over the leaves and the constant 1, more than a solver would offer
that `accept_rewrite` might let through at this size; the theorems are for
whatever it answers.  A candidate carries its size, `bits`, the one of its
destination.  Whether the gate proves a rewrite is decided by evaluating both
sides for all values of the leaves, modulo `2^bits` (`EquivalentOver`), which is
what Z3 decides at that size; constants of a rebuilt instruction are wrapped to
it.  `Evaluate` itself works at `Width`, the largest size, and is reduced where two
results are compared: for the operators there are that is the same.

`SizedCode` is what the decompiler's verifier asks of an instruction: operands
have the size of the destination, except that an `xdu` reads a narrower one and
a load any.  The instance assumes it of its instructions, and TLC evaluates it.
That a narrower operand is a leaf is also why `Bits`, the width of an `xdu`'s mask
(`detect.py:161`), looks at leaves only: any other operand is as wide as the
destination.

### Asking for z3

In `Z3Gate` every read and write of a module global is a step, since
`z3_available` takes no lock: reading d810's generation, comparing, importing,
binding the global `z3`, storing the answer, storing the generation, returning.
Installing and announcing are two steps of the host, in that order.  `since` is
the generation at which z3 was first announced; `hit[t]` says that a reset has
come since the call of `t` looked at the cached answer, and `overlapped` that a
refresh has stored its answer, or a reset cleared it, while another refresh was
under way.  None of them is read by the code.  The import may also raise
something the probe does not expect, which ends the call.  `Done` is the caller using the
answer: `prove_equivalent` goes on with the global `z3` or returns UNAVAILABLE.

In `CobraSolve` the same availability is one variable, `z3`, that becomes TRUE
once: there it matters what the answers lead to, in `Z3Gate` whether they are
right.

### Asking the solver

`SimplifyCall` is the control of one call of `simplify`.  Its memory is a block
per malloc (`heap`), the pointers the call holds (`owned`, `nodes`), and the
node buffer's believed size (`capacity`), real size (`room`) and contents
(`written`).  A step that may raise takes a Boolean.  `misuse` records a block
used or freed while it was not live.

`Solve` gives the buffers their contents.  There the Booleans are decided by
the data: whether the leaves are declared, a literal is negative, the answer has
a shift.  `given` is what the solver is asked and `answer` what it says; `flat`,
`buffer` and `built` are the encodings in between.  The text of cobra-cli is
represented as Python's own parser presents it, because `parse_cobra_output`
leaves the parsing to it.  A request with a negative literal, an unsupported
width or a signature of the wrong length comes from a direct caller of
`simplify`, as in the unit tests: the detector makes none.

## 3. The runs

Passing:

| run | instance | what it shows |
|---|---|---|
| `lifecycle` | 3 keys with a rewrite each, queue of 3, 2 starts, the second maybe beside the first's worker | Whatever the order of calls: a PENDING entry has an owner or was dropped; a candidate is in flight at most once; when drain returns everything escalated is concluded; verdicts are final; a worker told to stop stops, unless a restart withdraws the order. |
| `session` | 3 keys, table of 3, queue of 1, batches of 2, 2 sessions, cache healthy, z3 present or absent | The composition implements `VerdictLedger`; fewer verdicts than a batch are ever unsaved, also when the worker settles some between a flush's reading and its writing; escalated candidates get concluded even if others make the prover raise. |
| `evicting` | 2 keys, table of 1, batches of 1, cache failing at will, gate on or off, 2 sessions | Under constant eviction, failing storage, and restart: while the gate has been on what is installed is equivalent, nothing in flight is saved, no late mark erases a verdict, ownership and context exclusion still hold. |
| `z3gate` | 2 threads, 2 bumps, any number of resets | Whoever is told that z3 is there finds it bound; after an announcement every call is answered True that no reset hits, unless a refresh was overtaken by another's answer or by a reset; None is answered only to a call that a reset has hit. |
| `solve` | 9 requests, 14 answers, 10 texts, 2-bit words, a buffer for 3 nodes and answers of up to 5 | The expression and the signature the solver gets are the tree's; a tree that comes back means what was answered last; whatever fails, memory is freed once and used while live, and nothing is read or written outside it. |
| `pipeline` | blocks of up to 3 of 22 instructions, 2-bit words, one 1-bit leaf | In blocks that do not overwrite what they read, a candidate computes what its instruction computes and an installed rewrite preserves the block (where addresses are distinct); a table entry is sound for every tree with its key. |

Each of their properties is broken by a small change of the modelled code (the
`mutants` in `PROJECT.json`): a queue that takes one item too many, a submit
that marks nothing, a batch flushed one entry late, a worker in the shared
context, an inline verdict taken unless refuted, and so on.  The definitions
that carry these changes are marked `Mutant:` in the modules and are not used
by them.

Violated (section 4): `stop_blocks`, `gate`, `late_solver`, `absent_settles`,
`stale_leaf`, `shared_ea`.

### Bounds

* Three keys in `lifecycle` and a queue of three allow a proof under way, two
  items behind it and a pill, so that a pill can be left over and a restart can
  meet it.  `MaxQueue = 1` in the sessions makes the queue overflow with the
  second candidate.
* A table of one in `evicting` evicts on every insertion of another key, in
  particular entries that are PENDING and in the queue.
* Batches of two (16 in the code) give a batch that is full and one that is not;
  `evicting` flushes after every record to stay small, and its cache may refuse.
* Two sessions give something saved, reloaded and revised.  `|Worker|` bounds
  the calls of `start` that spawn.
* `unflushed` is capped at `FlushEvery`, beyond which nobody reads it.
* In the pipeline a block of three is a definition, something in between, and a
  use.  Trees are nested up to `Depth`, 5 there, which is as deep as the
  substitution goes, and 3 in `solve`, the deepest of its requests and answers;
  the theorems are for any `Depth`.  Two bits distinguish arithmetic from Boolean
  operators and one bit is a narrower leaf.  `MaxDepth` and `MaxNodes` (24 and 200 in the code) are 5, so
  that a binding that mentions itself runs into the one and a binding of five
  nodes into the other.
* `evicting` is symmetric in the keys, which no definition tells apart; the
  runs with liveness use no symmetry.
* In `z3gate` two bumps let a refresh be overtaken by an announcement and by
  another bump after it; two threads are what the program has.  The theorems
  need neither bound.
* In `solve` a buffer for 3 nodes (4096 in the code) is enough, too small once,
  or too small twice for answers of 1 to 5 nodes, as the solver may answer
  differently each time.  Two-bit words tell the operators apart.

`stop` waits for its worker for five seconds and a proof may take two minutes, so
`StopJoin` may always return, whether the worker has ended or not.  The runs
include what follows from that, and no constant rules it out:

* `start` clears the event and spawns a second worker beside the first.  The
  first, its proof done, finds the event clear and goes on; the pill meant for it
  may end the second.  Hence the `~stopping` in `StopEndsWorker`.
* The second overwrites the prover's one `_ctx` at its boot.  The first takes its
  next item with that context, and two threads prove in it, contrary to
  `escalate.py:121` and `prove.py:242`.  No run states this.  With
  `ContextExclusive` added to the INVARIANTS of `EscalationLifecycle.cfg` TLC
  finds it: two candidates are queued, stop's join gives up on the first worker
  (in TLC's shortest trace before it takes one, in practice during a long proof),
  start makes a second, and both take an item with the context of the second.

The rule of the sessions never calls `stop`, so there `ContextExclusive` is about
the worker and the rule's inline proofs.

### Fairness

Weak fairness of the worker's step and of a call that is under way.  Python
schedules every thread that can run; solver and proofs end because they have
time limits; a call blocked in `put`, `join` or `Queue.join` is obliged only
when it can go on.  Nothing obliges the host to visit anything.  `Z3Gate`,
`Solve` and the pipeline state no fairness and check safety only.

Deadlock is checked except in `lifecycle` and `stop_blocks`, whose blocked stop
is a state without a successor, and in the pipeline and `solve`, which end.

## 4. What the code does that its text denies

Each of these runs checks one property and TLC finds it violated.

* `stop_blocks` (`escalate.py:82`).  `stop` puts its pill before the join, and
  without a timeout.  A worker that saw the event has left a full queue behind.
  The caller blocks for ever, although stop is documented as safe and takes a
  timeout.
* `gate` (`rules/cobra_solve.py:386`).  With `require_proof` off rewrites are
  recorded as PROVED.  Turn it on, or restart with it on, and they are
  installed.
* `late_solver` (`escalate.py:130`).  A worker that starts before z3 is
  installed keeps no context of its own and later proves in the default one,
  which the rule uses at the same time.
* `absent_settles` (`escalate.py:168`).  Without z3 an inline proof answers
  UNAVAILABLE, which the rule hands to the worker like a starved proof.  The
  worker's own proof answers UNAVAILABLE too and is settled as NO_REWRITE, which
  a later flush writes to disk.  When z3 is installed the gate opens, as the
  rule's comment promises, but every candidate met before is settled for good.
* `stale_leaf` (`detect.py:263`).  `x = ~a; a = b; y = x + a` is read as
  `y = ~b + b`: redefining `a` drops the binding of `a`, not those that mention
  it.  The `ReadsStayCurrent` in `ReassembledWhenCurrent` is exactly this
  exception.
* `shared_ea` (`executor.py:203`).  A candidate is matched back to the first
  instruction at its address.  When the microcode of one machine instruction
  has several, another one is replaced, and its destination assigned.

Some more facts of this kind are built into properties that hold, as their
exceptions.  A candidate dropped by a full queue or a raising prover stays
PENDING with no owner, although the rule's comment says the prover owns it
(`dropped` in `PendingOwned`); and a place in the queue counts as an owner there
even when no worker is left to read it.  A verdict of the worker does not count
towards a batch and need never be saved (`offPath` in `CrashLosesFew`), although
`prove.py:138` and `tests/unit/test_cobra_prove.py:56` say that a starved proof
"is flushed to the durable proof cache": only a batch that the rule fills later
does that.  Two threads that
refresh the answer of `z3_available` at once can leave the gate shut until the
next bump, one of them storing an answer from before the installation under the
generation read after it (`overlapped` in `GateOpens`); and a call that a reset
hits answers None, though it is annotated to return a bool (`hit` in
`AnswersAreDefinite`).  A worker told to stop may go on, and share a context, after
a join that gave up ("Bounds" above).

One more contradicts its text and is neither a property nor the exception of one.
An eviction caused by the worker reaches a connection that belongs to the
decompiler's thread, which SQLite refuses, and `PutEvicted` loses that row.
`rules/cobra_solve.py:208` says that what is pushed out of the table must reach
disk on its way, and `tests/unit/test_cobra_store.py:167` that it must land there
immediately.  `evicting` takes this path.  The loss costs a second solve.

## 5. The proofs

`CobraSolveProofs` holds for any finite set of workers, any `Key`, `Rewrite`,
queue, table and batch size, any number of sessions, and storage that may or may
not fail; `EscalationLifecycleProofs` likewise for the prover alone, called in
any order; `Z3GateProofs` for any set of threads; `SolveProofs` for buffers,
names, widths and answers of any size; `MbaPipelineProofs` for any variables and
sizes, any instructions, blocks of any length, any bounds of the detector, and
any answers of the solver.  What they say of trees is for trees nested up to any
`Depth`, which is how the modules bound them.  The assumptions are the ones the
modules declare for their constants (`WidthAssumption`, `TableAssumption`,
`DetectAssumption`, ...) and the condition in the third column.

| theorem | says | provided that | rests on |
|---|---|---|---|
| of `CobraSolve`: | | | |
| `TypeCorrect` | `TypeOK` always | | `TypeInv` |
| `DiskIsSettled` | `PendingNeverDurable` always | | `TypeInv`, `DiskStep` |
| `InstallsAreSound` | `InstalledEquivalent` always: while the gate has been on | | `GatedInv` |
| `ContextsAreExclusive` | `ContextExclusive` always | z3 is there from the start | `OwnContext` |
| `PendingIsAccountedFor` | `PendingOwned` always | | `AllOwned` |
| `MarksEraseNothing` | `LatePendingErasesNothing` | | `TypeInv` |
| `SessionEscalatesOnce` | `EscalatedOnce` always | the table has room for every key | `VisitInv` |
| `CrashIsBounded` | `CrashLosesFew` always | room, and a cache that does not fail | `BatchInv` |
| `SessionsImplementLedger` | `ImplementsLedger` | room, such a cache, and the gate on | `DiskBehind` |
| of `EscalationLifecycle`: | | | |
| `TypeCorrect` | `TypeOK` always | | `TypeInv` |
| `PendingIsAccountedFor` | `PendingOwned` always | | `AllOwned` |
| `DrainIsComplete` | `DrainMeansSettled` | | `Accounted`, `AllOwned` |
| `EscalatesOnce` | `EscalatedOnce` always | the table has room for every key | `Once` |
| `VerdictsAreFinal` | `VerdictsStay` | the table has room for every key | `Once` |
| of `Z3Gate`: | | | |
| `TypeCorrect` | `TypeOK` always | | `TypeOK` |
| `NobodyUsesNone` | `NeverUsedUnbound` always | | `BoundInv` |
| `AnswersAreBools` | `AnswersAreDefinite` always | | `DefiniteInv` |
| `TheGateOpens` | `GateOpens` always | | `Stamps`, `OpenInv` |
| of `SimplifyCall`, and of it as `Solve` calls it: | | | |
| `SimplifyTypeCorrect` | `SimplifyTypeOK` always | | |
| `EverythingIsFreed`, `NoMisuse` | `NothingLeaks`, `MemoryIsLive` always | | `HeapInv` |
| `ShimStaysInside`, `BuildReadsTheAnswer` | `WritesFit`, `BuildsWhatWasWritten` always | | `BufferInv` |
| `SolveCallsSimplify` | `Solve` is one of the behaviours of `SimplifyCall` | | `ArrivesInv` |
| `SolveHandlesMemory` | so those four hold of it | | |
| of `Solve`: | | | |
| `AsksAboutTree` | `SolverIsAskedAboutTree` always | | `AskedInv` |
| `AnswersArrive` | `AnswerArrives` always | | `ArrivesInv` |
| of `MbaPipeline`: | | | |
| `SpecEnv` | the detector's bindings are trees over the variables | | `EnvInv` |
| `SpecTableHitSound` | `TableHitSound` always | | `EnvInv`, `SameKeySharesRewrites` |
| `SpecReassembled` | `ReassembledWhenCurrent` always | `SizedCode` | `ScannedInv` |
| `SpecPreserved` | `BlockPreserved` always | `SizedCode`, and the gate on | `RewrittenInv` |

`TypeOK` is not inductive by itself.  `unfinished` stays a natural number
because `task_done` is owed for exactly what is queued or held by a worker
(`Accounted`), and a candidate has its rewrite by the time it is proved or
submitted (`InHand`, and `Holding` for the rule's part).  `TypeInv` is the three
together.

`GatedInv` says that while the gate has been on every PROVED entry, in memory,
on disk and in the rows of a flush under way, is equivalent to its key.  That
must include the disk: a session starts from it, and what is evicted goes there.
`DiskStep` is the fact that makes it work: a step changes a row on disk only to
a settled entry that the table has now or that the flush has read from it.

`OwnContext` says that a worker past its boot uses a context of its own.  It
needs that no second worker ever starts in a session (the rule does not call
`stop`) and that z3 was there at the boot; `late_solver` shows the second is
needed.  Of the prover on its own, which can be stopped and restarted, it does
not hold ("Bounds" above).

`MarksEraseNothing` needs no more than the types.  Every insertion but the one of
`SubmitPending` is of a verdict, and that one looks for a verdict in the same step
(under the table's lock).  The lookup `submit` made before says nothing any more
once its key can be evicted and marked by another visit.

`AllOwned` follows a candidate: the mark is made by the submit that will enqueue
it, the place in the queue passes to the worker, and the worker either records
a verdict or drops the candidate.  Eviction only removes entries, so it cannot
orphan one.  `submit` and the worker are the same code in both settings, and
`SubmitOwned` and `WorkerOwned` are proved once for both.  `drain` returns when no
task is owed, which by `Accounted` means an empty queue and no worker with an
item: by `AllOwned` what is still PENDING then was dropped.

`EscalatedOnce` is not inductive: it does not say that the key `submit` is about
to mark is still missing, nor how a place in the queue becomes a worker's item.
`Once` adds that, and keeps queue, workers and `submit` apart.  It also gives
`VerdictsAreFinal`, because a worker's verdict then always replaces a PENDING
entry.  Both need room in the table: once a PENDING entry is evicted a second
visit finds nothing and escalates the key again.

The theorems about verdicts and the ledger sort the steps of a session first.  Without eviction and faults
a step does one of eight things to table and disk (`StepKinds`): nothing, mark a
key, settle one as a worker or in a visit, read the table for a flush, write
what was read, open the cache, or end the session.  Each argument then goes
through these cases.  `VisitInv` is `Once` with the
fact that the candidate of a visit is still missing from the table, so that a
verdict never replaces another.  `BatchInv` bounds what is unsaved by the count
of the batch, which is reset before the flush and not after it; until the write
it also says that the flush has read everything but what the worker has settled
since (`ReadAll`).  `DiskBehind` says that the table never disagrees with a row
that was saved or is about to be, which makes the write the ledger's `Save` of
some of its verdicts: those that were there when the table was read.  The
mapping reads the disk until a session has opened the cache, since it is about to
know what is there, and the table's settled entries afterwards.

In `Z3GateProofs`, `TypeCorrect` is inductive.  `NobodyUsesNone` needs `BoundInv`:
z3 is bound wherever an answer True is stored, probed or returned.
`AnswersAreBools` needs `DefiniteInv`: once a call has found the cached answer
good, or has stored its own, that answer is not None unless a reset has hit this
call.  Every call starts afresh, so neither earlier resets nor refreshes that
overlap excuse a None.  `TheGateOpens` rests on `Stamps`: no stamp and no thread is
ahead of the published generation.  So when z3 is announced, every stamp and
every thread is behind the announcement (`OpenInv` starts to hold vacuously), and
from then on whatever carries a generation that is not comes from a probe that
began with z3 installed: the cache says True, or was reset, and nobody is about
to store False.  That last part is what a second refresh under way would break.

In `SolveProofs`, `HeapInv` says which blocks are live at each step: exactly those
the call's pointers point to, so that the finally clause frees all and nothing
twice.  `BufferInv` says that
the capacity the shim is told is the size of the block `nodes` points to, and
that an OK leaves root and length inside what was written.

### About trees

A recursive function `f[t \in Tree] == Node(f, t)` is, to the prover, some
function that satisfies this equation if there is one.  `Recursion` shows once
that there is (`RecursiveEquation`), if each argument has a rank, a natural number,
and `Node` looks at the given function only below the rank of its argument.  Its
proof has functions that are right up to rank n, for every n, and puts them
together.  The library's theorems on induction take an operator as a parameter;
here the induction is over a set, the one of the ranks where the claim holds, and
`Node` and the rank are constants that an INSTANCE replaces.  `ExprTreeProofs`, `SolveProofs` and
`MbaPipelineProofs` instantiate `Recursion` for each function the modules define,
with the level at which a tree, an instruction or an expression first appears (or a
distance to the end of a buffer or to a bound) as the rank, and go on from the
equations.  Induction on trees is by the same means, over the levels of
`TreesOver`.

`SameKeySharesRewrites` is why one table entry can serve many trees.  The tree in
the key, over positions, has the value of either tree when the leaves at the same
positions have the same values; so what is equivalent to one becomes, made
positional and instantiated, equivalent to the other.  It needs that a leaf has
one position and that a rewrite has no leaves of its own.  The code's key holds the
bit width too; here it is the same on both sides.

`AskedInv` follows a question: what is flattened, handed over or rendered is the
tree of the request, over names that are declared, also when a call is repeated
with more room, and the signature is of this tree in this order of names.  That
this means the tree is a fact about the encodings: `Flatten` only appends, a node
refers to nodes before it, and a name stands at the position the solver knows it
by.  `ArrivesInv` follows the answer back: what the shim wrote is the answer
flattened, with its root last, and a tree that is handed on was built of it.  TLC
checked both on the instance of `solve`.

`ScannedInv` is what makes detection right.  After any part of the block, what is
bound to a temporary has, in the memory reached, the value the temporary holds, in
the bits it holds (`BindingMeans`); that stays true because in a block that does
not overwrite what it reads nothing the binding mentions is assigned later.  A
temporary assigned from itself is the exception, in the invariant and in the
hypothesis: its binding mentions what it replaces and means nothing, but
substituting it goes on until the depth bound and yields no tree (`SelfRaises`).
The other leaves of a binding are not substituted any further.  Of the candidates it says that they
compute what an instruction does and that their leaves all have its size
(`CandidateMeans`).

`RewrittenInv` says of every instruction of the rewritten block that it computes
what the one that stood there computes, from any memory that could reach it
(`Replaces`).  One install preserves it: its candidate means the instruction at its
address; the rewrite is proved equal over the candidate's leaves, and those are of
the candidate's size, so that reducing them loses nothing; and the instruction
built from the rewrite computes it modulo `2^bits`, however deeply it is nested
(`RebuiltMeans`), because the constants were wrapped at that size and every
operator commutes with the reduction (`ApplySame`).

`SizedCode` is a condition on the decompiler's output, which TLC evaluates on the
instance.  The gate is needed: without it a rewrite need only agree on the
signature.  `ScannedInv` and `RewrittenInv` are about all memories; TLC checked
their parts on small instances.  `EnvInv` mentions an infinite set, and is not
checked as it stands.

### Only model-checked

The liveness properties, `StopEndsWorker` and `EscalationSettles`: they need
fairness, and with it ENABLED, which the prover does not handle.  Every other
property of a passing run is a theorem.  The violations of section 4 are TLC's.

## 6. What is not modelled

* Statistics, logging, the report of `run_mba_solve`, the histogram of reasons.
* Two processes on one database.  Each upserts whole rows, so the last writer
  wins whatever the interleaving: a NO_REWRITE can replace a PROVED row, and no
  text of the package says otherwise.  There is no other state they share.
* Rows of another schema version; a row whose
  outcome this version does not know.
* `ProofCacheStore.close`, which nothing calls while the rule runs.
* What iterating over the entries during a flush does while the worker inserts:
  that is CacheImpl's, which is d810's.  The model reads all entries at once and
  lets the worker go on before they are written; an iteration that raises is a
  failing flush, which the runs with faults have.
* The grammar of cobra-cli's text (CPython's `ast.parse` reads it) and the solver
  behind both paths.
* The search for the cobra-cli program, its time limit and its exit codes beyond
  "it failed".
* Overlapping registers, and memory beyond one cell.
* Filters of `check_and_replace` before the lookup: they decide only which keys
  are visited.
* Discovery, packaging and build scripts: no state of the running system.

## 7. Plan

Done: the table, prover, cache and rule with their composition; the ledger it
implements; detection and installation on a block; the availability of z3; the
front end and the native binding; the theorems above.

Next, in this order:

1. A bound on what a crash loses when the table does evict, to be checked and
   then proved.
2. Loading rows one by one, with an outcome that is unknown and with more rows
   than the table holds.
3. The dataflow of the pipeline over several blocks.
