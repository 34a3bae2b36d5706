-------------------------- MODULE ProofCacheStore --------------------------
(***************************************************************************)
(* The durable cache of store.py: one SQLite table of settled entries, and *)
(* the connection one process holds to it.  A connection belongs to the    *)
(* thread that opened it; sqlite3 refuses it to any other thread, with an  *)
(* error the store catches like every other sqlite3.Error.                 *)
(***************************************************************************)
EXTENDS RewriteTable

CONSTANT Faults   \* whether the database can fail to open, read or write

ASSUME StoreAssumption == Faults \in BOOLEAN

VARIABLES
    disk,   \* the rows of cobra_proofs, Missing where there is none
    conn,   \* the thread that owns self._conn, None if it is not open
    rows    \* what the flush under way has read of the table

storeVars == <<disk, conn, rows>>

NoRows == [k \in Key |-> Missing]

DiskTypeOK ==
    /\ disk \in [Key -> Entry \cup {Missing}]
    /\ rows \in [Key -> Settled \cup {Missing}]

StoreInit == disk = NoRows /\ conn = None /\ rows = NoRows

OnDisk == {k \in Key : disk[k] # Missing}

\* _connect by thread t: an open connection is reused whoever owns it.
Connects(t) == conn' = IF conn = None THEN t ELSE conn

(***************************************************************************)
(* INSERT OR REPLACE of the rows in new, in one transaction.  Nothing is   *)
(* written when the connection cannot be opened, is another thread's, or   *)
(* fails; the caller is not told.                                          *)
(***************************************************************************)
Upsert(t, new) ==
    \/ /\ Connects(t)
       /\ conn' = t
       /\ disk' = [k \in Key |-> IF new[k] # Missing THEN new[k] ELSE disk[k]]
    \/ /\ Connects(t)
       /\ conn' # t \/ Faults
       /\ UNCHANGED disk
    \/ /\ Faults /\ conn = None
       /\ UNCHANGED <<disk, conn>>

\* The settled entries of these keys.
SettledRows(keys) ==
    [k \in Key |-> IF k \in keys \cap SettledKeys THEN table[k] ELSE Missing]

\* flush, by thread t, reads every settled entry of the live table, without
\* its lock, and then writes what it has read.
FlushReads(t) ==
    /\ Connects(t)
    /\ rows' = SettledRows(Key)
    /\ UNCHANGED disk

FlushWrites(t) ==
    /\ Upsert(t, rows)
    /\ rows' = NoRows

\* Mutant: put_entry persists whatever is evicted.
PutEvictedPending(t) ==
    IF Evicted = {}
    THEN UNCHANGED storeVars
    ELSE Upsert(t, [k \in Key |-> IF k \in Evicted THEN table[k] ELSE Missing])
         /\ UNCHANGED rows

\* put_entry on each key this step evicts, PENDING refused before connecting.
PutEvicted(t) ==
    IF Evicted \cap SettledKeys = {}
    THEN UNCHANGED storeVars
    ELSE Upsert(t, SettledRows(Evicted)) /\ UNCHANGED rows

\* The keys from_dict may end up with: the table it fills is bounded like any
\* other, so of more rows than MaxEntries some are left behind.
Loadable ==
    {kept \in SUBSET OnDisk : Cardinality(kept) = MaxEntries \/
                              (kept = OnDisk /\ Cardinality(kept) <= MaxEntries)}

\* load, by thread t, and the seeding of the live table from it; a cache that
\* cannot be read counts as empty.
LoadTable(t) ==
    /\ UNCHANGED <<disk, rows>>
    /\ \/ /\ Connects(t)
          /\ \E kept \in Loadable :
                table' = [k \in Key |-> IF k \in kept /\ table[k] = Missing
                                       THEN disk[k] ELSE table[k]]
       \/ /\ Faults
          /\ Connects(t) \/ UNCHANGED conn
          /\ UNCHANGED table
=============================================================================
