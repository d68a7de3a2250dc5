------------------------- MODULE TransactionSafety -------------------------
(* What src/installer/transaction.py promises, as properties of Transaction. *)
EXTENDS Transaction

\* Every variable keeps the shape the code gives it; a process is idle exactly
\* when it works on no transaction.
StoreOK ==
  /\ fs \in [Target -> Content]
  /\ journals \in [Tx -> Journal]
  /\ lock \in Proc \union {NoProc}
  /\ cmd \in [Tx -> [1..MaxExt -> Effect]]
  /\ used \in [edits : Nat, crashes : Nat, faults : Nat]
ProcessOK ==
  /\ pc \in [Proc -> PC]
  /\ tx \in [Proc -> Tx \union {0}]
  /\ \A p \in Proc : pc[p] = "idle" <=> tx[p] = 0
  /\ mem \in [Proc -> Journal]
  /\ reg \in [Proc -> Local]
HistoryOK ==
  /\ pre \in [Tx -> [Target -> Content]]
  /\ edit \in [Target -> {"none", "quiet", "window"}]
  /\ kept \subseteq Tx
TypeOK == StoreOK /\ ProcessOK /\ HistoryOK

\* The mutation lock serialises everything that changes state: two processes
\* are never both inside a transaction or a rollback, crashes included.
MutualExclusion ==
  \A p, q \in Proc : {pc[p], pc[q]} \subseteq Busy \ {"failed"} => p = q

\* An unfinished journal is always the one rollback_saved() picks: it is the
\* newest that can be rolled back, so there is at most one and an interrupted
\* operation can never be buried under a later one.
UnfinishedIsNewest ==
  \A i \in Tx : journals[i].status \in Unfinished => Newest(i)

\* A native undo takes effect at most once, whatever crashes and however often
\* the rollback is retried: a second one could remove what the user installed.
UndoAtMostOnce ==
  \A i \in Tx, k \in 1..MaxExt : cmd[i][k].undos <= 1

\* A journal that ends as rolled back has undone every command with an undo.
NoResidue ==
  \A i \in Tx : journals[i].status \in Reverted =>
    \A k \in DOMAIN journals[i].ext : journals[i].ext[k].undo => ~cmd[i][k].on

\* Once an operation that preserves user data was committed, no rollback of it
\* removes or rewrites user data, even after an interrupted first attempt.
UserStateSurvives ==
  \A p \in Proc :
    /\ pc[p] \in {"removing", "putting"}
    /\ tx[p] \in kept /\ mem[p].preserve
    => reg[p].cur \notin UserState

\* A rollback that reports success has put back, in every target it answers
\* for, what the target held before the transaction, unless the user changed it.
RestoresOriginals ==
  [][\A p \in Proc, i \in Tx :
       /\ pc[p] = "files" /\ pc'[p] = "idle" /\ tx[p] = i
       /\ journals'[i].status \in Reverted
       => \A t \in Tracked(journals[i]) :
            fs[t] = pre[i][t] \/ edit[t] # "none" \/ Preserved(p, t)]_vars

RestoreStep(p, t) ==
  /\ pc[p] \in {"removing", "putting"} /\ reg[p].cur = t
  /\ pc'[p] \in {"putting", "marking"}

\* Restoring never overwrites an edit that was made while no process was
\* between examining the target and acting on it and the target was signed,
\* unless it went back to what was signed or backed up.  Entries without a signature
\* are replaced unseen, and what is written while a native command runs is signed as its
\* effect (transaction.py:259, 477): of those edits nothing is said.
KeepsQuietEdits ==
  [][\A p \in Proc, t \in Target :
       RestoreStep(p, t) => edit[t] # "quiet"]_vars

\* What ties the lock, the saved journal and a busy process together; the
\* three properties above follow from it while no error comes late.
Forwards == Forward \union {"failed"}
Backwards == Undoing \union Restoring
Holds ==
  \A p \in Proc : pc[p] # "idle" =>
    /\ lock = p /\ journals[tx[p]] = mem[p]
    /\ mem[p].status = IF pc[p] \in Forwards THEN "active" ELSE "rolling_back"
Contiguous ==
  \A i, h \in Tx : h < i /\ journals[i].status # "unused" => journals[h].status # "unused"
\* A commit is never forgotten, and a restore that is about to touch a target
\* has looked whether it must preserve it.
Remembered ==
  /\ \A i \in kept : \/ journals[i].status = "committed"
                     \/ journals[i].manual /\ journals[i].status \notin {"unused", "active"}
  /\ \A p \in Proc : pc[p] \in Backwards /\ tx[p] \in kept => reg[p].saved
  /\ \A p \in Proc : pc[p] \in {"removing", "putting"} => ~Preserved(p, reg[p].cur)
LedgerInv == Holds /\ UnfinishedIsNewest /\ Contiguous /\ Remembered

\* What the journal says of an undo agrees with the effect it had: only an undo
\* that was about to run may or may not have taken effect.
UndoState(j, k) == IF k \in DOMAIN j.ext THEN j.ext[k].undoState ELSE "none"
Agrees(state, effect) ==
  /\ state \in {"none", "failed"} => effect.undos = 0
  /\ state = "running" => effect.undos <= 1
  /\ state = "applied" => effect = [on |-> FALSE, undos |-> 1]
NoUndoLeft(c) == c.undo => c.undoState = "applied"
Accounted(j, effects) ==
  /\ Len(j.ext) <= MaxExt
  /\ \A k \in 1..MaxExt : Agrees(UndoState(j, k), effects[k])
  /\ j.status \in {"unused", "active"} =>
       \A k \in DOMAIN j.ext : j.ext[k].undoState = "none"
  /\ j.status \in Reverted => \A k \in DOMAIN j.ext : NoUndoLeft(j.ext[k])

\* How far a rollback has come: the undo at hand is saved as running, and while
\* nothing went wrong every command behind the cursor has no undo left.
WellUndone(w, j, r, effects) ==
  /\ w \in {"undoing", "undone"} =>
       /\ j.ext[r.idx].undoState = "running"
       /\ IF w = "undone" /\ r.ok THEN effects[r.idx] = [on |-> FALSE, undos |-> 1]
          ELSE effects[r.idx].undos = 0
  /\ w \in Backwards /\ ~r.err =>
       \A k \in DOMAIN j.ext : w \in Restoring \/ k > r.idx => NoUndoLeft(j.ext[k])

\* The saved journals account for every undo, whatever was interrupted; the
\* two properties of undos above follow from it while no error comes late.
UndosAccounted ==
  /\ \A i \in Tx : Accounted(journals[i], cmd[i])
  /\ \A p \in Proc : pc[p] # "idle" => WellUndone(pc[p], mem[p], reg[p], cmd[tx[p]])

\* The journal statuses implement the ledger that the installer relies on.
Outcome(status) ==
  CASE status = "unused" -> "none"
    [] status = "active" -> "open"
    [] status = "committed" -> "kept"
    [] status \in {"rolling_back", "rollback_incomplete"} -> "undoing"
    [] status \in Reverted -> "reverted"

Ledger == INSTANCE TransactionLedger
            WITH outcome <- [i \in Tx |-> Outcome(journals[i].status)]

\* Crashes, retries and late restores never leave the ledger: operations open
\* one at a time, undoing starts only at the newest one standing.
ImplementsLedger == Ledger!LSpec

\* The scheduler lets a process that is rolling back take its next step.
Fairness == \A p \in Proc : WF_vars(RollBack(p) \/ Undo(p) \/ Restore(p))
FairSpec == Spec /\ Fairness

\* A failed operation always comes to an end and gives the lock back: the
\* rollback goes on past every error and never waits for anything.
RollbackEnds == \A p \in Proc : pc[p] = "failed" ~> pc[p] = "idle"
============================================================================
