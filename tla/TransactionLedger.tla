------------------------- MODULE TransactionLedger -------------------------
(***************************************************************************)
(* What the rest of the installer relies on from the transaction layer:    *)
(* operations are opened one after the other, each is kept or undone as a  *)
(* whole, only the newest one still standing can be undone, and nothing is *)
(* opened while one is half done.                                          *)
(***************************************************************************)
EXTENDS Naturals

CONSTANT MaxTx

VARIABLE outcome

Ids == 1..MaxTx
Standing == {"open", "kept", "undoing"}

LInit == outcome = [i \in Ids |-> "none"]

Becomes(i, result) == outcome' = [outcome EXCEPT ![i] = result]

\* ensure_no_active, then the first save of a new journal.
Open(i) ==
  /\ outcome[i] = "none"
  /\ \A h \in 1..(i - 1) : outcome[h] # "none"
  /\ \A h \in Ids : outcome[h] \notin {"open", "undoing"}
  /\ Becomes(i, "open")

\* commit().
Keep(i) == outcome[i] = "open" /\ Becomes(i, "kept")

\* rollback() and rollback_saved(): from now on it can only be undone.
StartUndoing(i) ==
  /\ outcome[i] \in Standing
  /\ \A h \in Ids : outcome[h] \in Standing => h <= i
  /\ Becomes(i, "undoing")

Revert(i) == outcome[i] = "undoing" /\ Becomes(i, "reverted")

LNext == \E i \in Ids : Open(i) \/ Keep(i) \/ StartUndoing(i) \/ Revert(i)

LSpec == LInit /\ [][LNext]_outcome
============================================================================
