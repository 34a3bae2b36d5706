--------------------------- MODULE VerdictLedger ---------------------------
(***************************************************************************)
(* What the rewrite cache promises about verdicts, with no threads, queue  *)
(* or batches: a verdict is given once and never revised, it is sound, it  *)
(* may be saved, and a new session starts from exactly what was saved.     *)
(***************************************************************************)
CONSTANTS
    Key, Verdict,
    NoVerdict,
    Sound        \* the pairs <<key, verdict>> that may be given

VARIABLES
    known,       \* the verdicts this session has
    saved        \* the verdicts that outlive it

LedgerInit ==
    /\ known = [k \in Key |-> NoVerdict]
    /\ saved = [k \in Key |-> NoVerdict]

Decide(k, v) ==
    /\ known[k] = NoVerdict
    /\ <<k, v>> \in Sound
    /\ known' = [known EXCEPT ![k] = v]
    /\ UNCHANGED saved

\* Some of what is known is saved.
Save ==
    /\ \E keys \in SUBSET {k \in Key : known[k] # NoVerdict} :
          saved' = [k \in Key |-> IF k \in keys THEN known[k] ELSE saved[k]]
    /\ UNCHANGED known

Restart == known' = saved /\ UNCHANGED saved

LedgerNext ==
    \/ \E k \in Key, v \in Verdict : Decide(k, v)
    \/ Save
    \/ Restart

LedgerSpec == LedgerInit /\ [][LedgerNext]_<<known, saved>>
=============================================================================
