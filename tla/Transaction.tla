---------------------------- MODULE Transaction ----------------------------
(***************************************************************************)
(* The installer's crash-visible transaction (src/installer/transaction.py):*)
(* a journal on disk, the backup of every target, native manager commands  *)
(* with their undo commands, automatic rollback, and the manual rollback   *)
(* of a saved journal.  Several processes, the user's editor and the host  *)
(* managers touch the same files; every process may die between two steps. *)
(*                                                                         *)
(* A file, directory or symlink is one Target and what it holds one        *)
(* Content (Absent when there is nothing).  A signature is the content it  *)
(* was taken from.  A journal read back from disk is the record saved last.*)
(* Operators named Slip... are plausible mistakes in the one that follows; *)
(* no action uses them, they show which property would notice the mistake. *)
(***************************************************************************)
EXTENDS Naturals, Sequences

CONSTANTS
  Proc,            \* installer processes
  Target,          \* paths a transaction may track
  HostConfig,      \* targets that native managers edit (track_external_mutable)
  UserState,       \* targets that _manual_state_path names
  Content, Absent, \* contents of a target
  Initial,         \* contents a target may start with
  Written,         \* what the installer writes (Absent: it removes)
  Native,          \* what a native manager writes
  Edits,           \* what the user writes
  Unsigned,        \* an entry without "applied"
  NoProc, NoTarget,
  LateErrors,      \* may the caller fail inside or just after commit()?
  MaxTx, MaxExt, MaxEdits, MaxCrashes, MaxFaults

ASSUME TransactionAssumption ==
  /\ HostConfig \subseteq Target
  /\ UserState \subseteq Target
  /\ Absent \in Content
  /\ Initial \subseteq Content
  /\ Written \subseteq Content
  /\ Native \subseteq Content
  /\ Edits \subseteq Content
  /\ Unsigned \notin Content
  /\ NoProc \notin Proc
  /\ NoTarget \notin Target
  /\ LateErrors \in BOOLEAN
  /\ {MaxTx, MaxExt, MaxEdits, MaxCrashes, MaxFaults} \subseteq Nat

VARIABLES
  fs,        \* what every target holds
  journals,  \* the saved journal of every transaction, in id order
  lock,      \* holder of .mutation.lock
  pc,        \* where each process is
  tx,        \* the transaction it works on
  mem,       \* self.data: its own copy of that journal
  reg,       \* its local variables
  cmd,       \* effect of the native commands of every transaction
  used       \* bounds already consumed

\* History the properties refer to.  The code has no such state.
VARIABLES
  pre,       \* what each target held before a transaction first touched it
  edit,      \* the user's edit since the installer or a backup last took t
  kept       \* transactions whose journal was ever saved as committed

procVars == <<pc, tx, mem, reg>>
ghosts == <<pre, edit, kept>>
vars == <<fs, journals, lock, procVars, cmd, used, ghosts>>

----------------------------------------------------------------------------
(* Types *)

Tx == 1..MaxTx
Unfinished == {"active", "rolling_back", "rollback_incomplete"}
Rollbackable == Unfinished \union {"committed"}
Reverted == {"rolled_back", "rolled_back_manual"}
Status == {"unused"} \union Rollbackable \union Reverted

Entry == [orig : Content, applied : Content \union {Unsigned},
          mutable : BOOLEAN, restored : BOOLEAN, restoring : BOOLEAN]
Command == [state : {"pending", "applied", "failed", "undo_only"},
            undo : BOOLEAN, undoState : {"none", "running", "failed", "applied"}]
Journal == [status : Status, order : Seq(Target), file : [Target -> Entry],
            ext : Seq(Command), manual : BOOLEAN, preserve : BOOLEAN]
Local == [cur : Target \union {NoTarget}, idx : Nat, ok : BOOLEAN,
          err : BOOLEAN, conflict : BOOLEAN, saved : BOOLEAN]
Effect == [on : BOOLEAN, undos : 0..2]

Forward == {"open", "write", "gap", "sign", "run", "ran", "refresh"}
Undoing == {"undo", "undoing", "undone"}
Restoring == {"files", "removing", "putting", "marking"}
Busy == Forward \union {"failed"} \union Undoing \union Restoring
PC == {"idle"} \union Busy

NoEntry == [orig |-> Absent, applied |-> Unsigned, mutable |-> FALSE,
            restored |-> FALSE, restoring |-> FALSE]
NoJournal == [status |-> "unused", order |-> <<>>, file |-> [t \in Target |-> NoEntry],
              ext |-> <<>>, manual |-> FALSE, preserve |-> TRUE]
NoLocal == [cur |-> NoTarget, idx |-> 0, ok |-> TRUE, err |-> FALSE,
            conflict |-> FALSE, saved |-> FALSE]
NoEffect == [on |-> FALSE, undos |-> 0]

Init ==
  /\ fs \in [Target -> Initial]
  /\ journals = [i \in Tx |-> NoJournal]
  /\ lock = NoProc
  /\ pc = [p \in Proc |-> "idle"]
  /\ tx = [p \in Proc |-> 0]
  /\ mem = [p \in Proc |-> NoJournal]
  /\ reg = [p \in Proc |-> NoLocal]
  /\ cmd = [i \in Tx |-> [k \in 1..MaxExt |-> NoEffect]]
  /\ used = [edits |-> 0, crashes |-> 0, faults |-> 0]
  /\ pre = [i \in Tx |-> fs]
  /\ edit = [t \in Target |-> "none"]
  /\ kept = {}

----------------------------------------------------------------------------
(* Helpers *)

Tracked(j) == {j.order[n] : n \in DOMAIN j.order}
Signed(j, t) == j.file[t].applied # Unsigned
Goto(p, where) == pc' = [pc EXCEPT ![p] = where]
Set(p, local) == reg' = [reg EXCEPT ![p] = local]

\* atomic_write_json of the journal: memory and disk agree afterwards.
Save(p, j) ==
  /\ mem' = [mem EXCEPT ![p] = j]
  /\ journals' = [journals EXCEPT ![tx[p]] = j]

\* The mutation lock dies with its holder or is released; another's stays.
Release(p) == lock' = IF lock = p THEN NoProc ELSE lock

SlipKeepTx(p) ==
  /\ Goto(p, "idle") /\ UNCHANGED tx
  /\ mem' = [mem EXCEPT ![p] = NoJournal] /\ Set(p, NoLocal) /\ Release(p)
Leave(p) ==
  /\ Goto(p, "idle")
  /\ tx' = [tx EXCEPT ![p] = 0]
  /\ mem' = [mem EXCEPT ![p] = NoJournal]
  /\ Set(p, NoLocal) /\ Release(p)

\* Host configuration files that a journal watches.
Watched(j) == {t \in Tracked(j) : j.file[t].mutable}
Changed(j) == {t \in Watched(j) : Signed(j, t) /\ fs[t] # j.file[t].applied}

\* A native manager may rewrite any of the configuration files it owns.
NativeWrites(j) ==
  \E S \in SUBSET Watched(j), c \in Native :
    /\ fs' = [t \in Target |-> IF t \in S THEN c ELSE fs[t]]
    /\ edit' = [t \in Target |-> IF t \in S THEN "none" ELSE edit[t]]

\* Sign again whatever the watched files hold now (_refresh_external_mutable).
SlipSignAll(j) ==
  [j EXCEPT !.file = [t \in Target |->
     IF t \in Tracked(j) THEN [j.file[t] EXCEPT !.applied = fs[t]] ELSE j.file[t]]]
Refreshed(j) ==
  [j EXCEPT !.file = [t \in Target |->
     IF t \in Watched(j) THEN [j.file[t] EXCEPT !.applied = fs[t]] ELSE j.file[t]]]

\* Code outside the helpers has created t, and the caller has yet to register it.
Made(p, t) == t \notin Tracked(mem[p]) /\ fs[t] # pre[tx[p]][t]

\* An edit of t to c is quiet when no process is between looking at t and acting
\* on it, and every journal that could still restore t has signed it and holds
\* neither its signature nor its backup equal to c: signatures are compared by
\* content, so an edit back to either is not told from the installer's work.
Acting(p, t) ==
  \/ pc[p] \in {"write", "gap", "sign", "removing", "putting", "marking"} /\ reg[p].cur = t
  \/ pc[p] \in {"run", "ran", "refresh", "undoing", "undone"} /\ t \in Watched(mem[p])
  \/ pc[p] \in Forward /\ Made(p, t)
Quiet(t, c) ==
  /\ \A p \in Proc : ~Acting(p, t)
  /\ \A i \in Tx : journals[i].status \in Rollbackable /\ t \in Tracked(journals[i])
                     => /\ Signed(journals[i], t)
                        /\ c \notin {journals[i].file[t].applied, journals[i].file[t].orig}

----------------------------------------------------------------------------
(* Opening a transaction *)

\* _MutationLock.acquire never waits: it is refused unless nobody holds the lock.
SlipNoLock == TRUE
LockFree == lock = NoProc

\* ensure_no_active().
SlipOnlyActive == \A i \in Tx : journals[i].status # "active"
NoneUnfinished == \A i \in Tx : journals[i].status \notin Unfinished

\* Transaction.__init__: take the lock, refuse an unfinished journal, save.
Begin(p) ==
  /\ pc[p] = "idle" /\ LockFree /\ NoneUnfinished
  /\ \E i \in Tx, b \in BOOLEAN :
       LET j == [NoJournal EXCEPT !.status = "active", !.preserve = b] IN
       /\ journals[i].status = "unused"
       /\ \A h \in 1..(i - 1) : journals[h].status # "unused"
       /\ tx' = [tx EXCEPT ![p] = i]
       /\ mem' = [mem EXCEPT ![p] = j]
       /\ journals' = [journals EXCEPT ![i] = j]
       /\ pre' = [pre EXCEPT ![i] = fs]
  /\ lock' = p /\ Goto(p, "open") /\ UNCHANGED <<fs, reg, cmd, used, edit, kept>>

----------------------------------------------------------------------------
(* The body: backups and writes *)

\* _backup: the first call keeps what t holds, a later one changes nothing.
\* (Its branch that promotes a tracked entry to a watched one has no caller.)
BackedUp(j, t, watch) ==
  IF t \in Tracked(j) THEN j
  ELSE [j EXCEPT !.order = Append(@, t),
                 !.file[t] = [NoEntry EXCEPT !.orig = fs[t], !.mutable = watch]]

\* A backup takes in the edits made so far.
TakeEdit(p, t) ==
  edit' = IF t \in Tracked(mem[p]) THEN edit ELSE [edit EXCEPT ![t] = "none"]

\* backup(): the caller lets other code write the target and signs it later.
\* Callers back up before that code runs: a target it creates is never backed
\* up, written or watched, only registered (runtime_dispatch).
Backup(p, t) ==
  /\ pc[p] = "open"
  /\ t \notin Tracked(mem[p]) /\ ~Made(p, t)
  /\ Save(p, BackedUp(mem[p], t, FALSE)) /\ TakeEdit(p, t)
  /\ UNCHANGED <<fs, lock, pc, tx, reg, cmd, used, pre, kept>>

\* write_text, write_external_text, replace_tree, remove: first the backup,
StartWrite(p, t) ==
  /\ pc[p] = "open" /\ ~Made(p, t)
  /\ Save(p, BackedUp(mem[p], t, FALSE)) /\ Set(p, [reg[p] EXCEPT !.cur = t])
  /\ Goto(p, "write") /\ TakeEdit(p, t)
  /\ UNCHANGED <<fs, lock, tx, cmd, used, pre, kept>>

\* then the write; replace_tree removes the old tree before the rename.
WriteTarget(p) ==
  /\ pc[p] \in {"write", "gap"}
  /\ LET t == reg[p].cur IN
       \/ \E c \in Written :
            /\ fs' = [fs EXCEPT ![t] = c]
            /\ Goto(p, "sign")
       \/ /\ pc[p] = "write"
          /\ fs' = [fs EXCEPT ![t] = Absent]
          /\ Goto(p, "gap")
  /\ edit' = [edit EXCEPT ![reg[p].cur] = "none"]
  /\ UNCHANGED <<journals, lock, tx, mem, reg, cmd, used, pre, kept>>

\* _mark_applied: sign what the target holds now.
Sign(p) ==
  /\ pc[p] = "sign"
  /\ Save(p, [mem[p] EXCEPT !.file[reg[p].cur].applied = fs[reg[p].cur]])
  /\ Set(p, [reg[p] EXCEPT !.cur = NoTarget]) /\ Goto(p, "open")
  /\ UNCHANGED <<fs, lock, tx, cmd, used, ghosts>>

\* track_external_mutable: back up a configuration file and sign it unchanged.
Watch(p, t) ==
  /\ pc[p] = "open"
  /\ t \in HostConfig \ Tracked(mem[p]) /\ ~Made(p, t)
  /\ Save(p, BackedUp(mem[p], t, TRUE)) /\ Set(p, [reg[p] EXCEPT !.cur = t])
  /\ Goto(p, "sign") /\ TakeEdit(p, t)
  /\ UNCHANGED <<fs, lock, tx, cmd, used, pre, kept>>

\* Code outside the helpers (the runtime CLI) writes a backed-up target, or
\* creates one that the caller registers afterwards.
NestedWrite(p, t) ==
  /\ pc[p] = "open"
  /\ \/ t \in Tracked(mem[p]) /\ ~Signed(mem[p], t)
     \/ t \notin Tracked(mem[p]) /\ fs[t] = Absent
  /\ \E c \in Written : fs[t] # c /\ fs' = [fs EXCEPT ![t] = c]
  /\ edit' = [edit EXCEPT ![t] = "none"]
  /\ UNCHANGED <<journals, lock, procVars, cmd, used, pre, kept>>

\* track_created: register what a nested writer created; the caller knows from
\* the registry it read first that the target did not exist before.  (Had the
\* user removed it again, the entry would have nothing to restore.)
TrackCreated(p, t) ==
  /\ pc[p] = "open"
  /\ Made(p, t) /\ pre[tx[p]][t] = Absent
  /\ Save(p, [mem[p] EXCEPT !.order = Append(@, t),
                            !.file[t] = [NoEntry EXCEPT !.applied = fs[t]]])
  /\ UNCHANGED <<fs, lock, pc, tx, reg, cmd, used, ghosts>>

\* capture_applied: sign every entry that is not signed yet.
Capture(p) ==
  /\ pc[p] = "open"
  /\ \E t \in Tracked(mem[p]) : ~Signed(mem[p], t)
  /\ Save(p, [mem[p] EXCEPT !.file = [t \in Target |->
       IF t \in Tracked(mem[p]) /\ ~Signed(mem[p], t)
       THEN [mem[p].file[t] EXCEPT !.applied = fs[t]] ELSE mem[p].file[t]]])
  /\ UNCHANGED <<fs, lock, pc, tx, reg, cmd, used, ghosts>>

----------------------------------------------------------------------------
(* The body: native manager commands *)

\* external(): stop on a concurrent configuration change, else save "pending".
StartCommand(p) ==
  /\ pc[p] = "open" /\ Len(mem[p].ext) < MaxExt
  /\ Changed(mem[p]) = {}
  /\ \E b \in BOOLEAN :
       Save(p, [mem[p] EXCEPT !.ext = Append(@,
                  [state |-> "pending", undo |-> b, undoState |-> "none"])])
  /\ Goto(p, "run") /\ UNCHANGED <<fs, lock, tx, reg, cmd, used, ghosts>>

\* The manager runs: it may rewrite its files even when it fails.
RunCommand(p) ==
  /\ pc[p] = "run"
  /\ NativeWrites(mem[p])
  /\ \E ok, on \in BOOLEAN :
       /\ ok => on
       /\ Set(p, [reg[p] EXCEPT !.ok = ok])
       /\ cmd' = [cmd EXCEPT ![tx[p]][Len(mem[p].ext)].on = on]
  /\ Goto(p, "ran") /\ UNCHANGED <<journals, lock, tx, mem, used, pre, kept>>

\* Its return code is saved,
RecordCommand(p) ==
  /\ pc[p] = "ran"
  /\ Save(p, [mem[p] EXCEPT !.ext[Len(mem[p].ext)].state =
                 IF reg[p].ok THEN "applied" ELSE "failed"])
  /\ Goto(p, "refresh") /\ UNCHANGED <<fs, lock, tx, reg, cmd, used, ghosts>>

\* then the configuration files are signed again, and a failure is raised.
RefreshConfig(p) ==
  /\ pc[p] = "refresh"
  /\ Save(p, Refreshed(mem[p]))
  /\ Goto(p, IF reg[p].ok THEN "open" ELSE "failed")
  /\ UNCHANGED <<fs, lock, tx, reg, cmd, used, ghosts>>

\* on_rollback(): a compensating command registered before the change.
OnRollback(p) ==
  /\ pc[p] = "open" /\ Len(mem[p].ext) < MaxExt
  /\ Save(p, [mem[p] EXCEPT !.ext = Append(@,
                [state |-> "undo_only", undo |-> TRUE, undoState |-> "none"])])
  /\ cmd' = [cmd EXCEPT ![tx[p]][Len(mem[p].ext) + 1].on = TRUE]
  /\ UNCHANGED <<fs, lock, pc, tx, reg, used, ghosts>>

----------------------------------------------------------------------------
(* The end of the body *)

\* commit(): callers have signed every entry.  The lock goes at once.
Commit(p) ==
  /\ pc[p] = "open"
  /\ \A t \in Tracked(mem[p]) : Signed(mem[p], t)
  /\ journals' = [journals EXCEPT ![tx[p]] = [mem[p] EXCEPT !.status = "committed"]]
  /\ kept' = kept \union {tx[p]} /\ Leave(p)
  /\ UNCHANGED <<fs, cmd, used, pre, edit>>

\* commit() whose save fails, or whose caller fails after it inside its own
\* try block (while it prints): "finally" has released the lock all the same.
LateError(p) ==
  /\ LateErrors /\ pc[p] = "open"
  /\ \A t \in Tracked(mem[p]) : Signed(mem[p], t)
  /\ \/ /\ Save(p, [mem[p] EXCEPT !.status = "committed"])
        /\ kept' = kept \union {tx[p]}
     \/ /\ mem' = [mem EXCEPT ![p].status = "committed"]
        /\ UNCHANGED <<journals, kept>>
  /\ Release(p) /\ Goto(p, "failed")
  /\ UNCHANGED <<fs, tx, reg, cmd, used, pre, edit>>

\* Any exception or Ctrl+C in the body, at any of its steps.
Fail(p) ==
  /\ pc[p] \in Forward
  /\ Goto(p, "failed")
  /\ UNCHANGED <<fs, journals, lock, tx, mem, reg, cmd, used, ghosts>>

----------------------------------------------------------------------------
(* Rollback *)

\* rollback(): the caller's except clause.
RollBack(p) ==
  /\ pc[p] = "failed"
  /\ Save(p, [mem[p] EXCEPT !.status = "rolling_back"])
  /\ Set(p, [NoLocal EXCEPT !.idx = Len(mem[p].ext)]) /\ Goto(p, "undo")
  /\ UNCHANGED <<fs, lock, tx, cmd, used, ghosts>>

\* The manual rollback of a committed operation stays one when it is resumed.
SlipForgetful(j) == j.status = "committed"
WasCommitted(j) == j.manual \/ j.status = "committed"

SlipAnyStanding(i) == journals[i].status \in Rollbackable
Newest(i) ==
  /\ journals[i].status \in Rollbackable
  /\ \A h \in Tx : journals[h].status \in Rollbackable => h <= i

\* rollback_saved(): only the newest journal that can be rolled back.
RollBackSaved(p) ==
  /\ pc[p] = "idle" /\ LockFree
  /\ \E i \in Tx :
       LET j == [journals[i] EXCEPT !.manual = WasCommitted(journals[i]),
                                    !.status = "rolling_back"] IN
       /\ Newest(i)
       /\ tx' = [tx EXCEPT ![p] = i]
       /\ mem' = [mem EXCEPT ![p] = j]
       /\ journals' = [journals EXCEPT ![i] = j]
       /\ Set(p, [NoLocal EXCEPT !.idx = Len(j.ext), !.saved = TRUE])
  /\ lock' = p /\ Goto(p, "undo") /\ UNCHANGED <<fs, cmd, used, ghosts>>

\* The undo loop walks the commands backwards; idx is the next one.
AtUndo(p) == pc[p] = "undo" /\ reg[p].idx > 0
TheCommand(p) == mem[p].ext[reg[p].idx]
NextIdx(p) == [reg[p] EXCEPT !.idx = @ - 1]

SlipUndoAgain(p) == TheCommand(p).undo /\ TheCommand(p).undoState # "applied"
NeedsUndo(p) == TheCommand(p).undo /\ TheCommand(p).undoState \in {"none", "failed"}

\* What a configuration file must hold before an undo may touch it.
Expected(e) == IF e.restored THEN e.orig ELSE e.applied
Conflicts(j) == {t \in Watched(j) : Signed(j, t) /\ fs[t] # Expected(j.file[t])}

\* Done or nothing to do; or its end is unknown, so it is never run again; or
\* the configuration changed, which stops this undo and all the others.
SlipWait(p) ==
  /\ AtUndo(p) /\ ~NeedsUndo(p)
  /\ Set(p, [NextIdx(p) EXCEPT !.err = @ \/ TheCommand(p).undoState = "running"])
  /\ UNCHANGED <<fs, journals, lock, pc, tx, mem, cmd, used, ghosts>>
PassUndo(p) ==
  /\ AtUndo(p)
  /\ \/ /\ ~NeedsUndo(p)
        /\ Set(p, [NextIdx(p) EXCEPT !.err = @ \/ TheCommand(p).undoState = "running"])
     \/ /\ NeedsUndo(p) /\ (reg[p].conflict \/ Conflicts(mem[p]) # {})
        /\ Set(p, [NextIdx(p) EXCEPT !.err = TRUE, !.conflict = TRUE])
  /\ UNCHANGED <<fs, journals, lock, pc, tx, mem, cmd, used, ghosts>>

StartUndo(p) ==
  /\ AtUndo(p) /\ NeedsUndo(p)
  /\ ~reg[p].conflict /\ Conflicts(mem[p]) = {}
  /\ Save(p, [mem[p] EXCEPT !.ext[reg[p].idx].undoState = "running"])
  /\ Goto(p, "undoing") /\ UNCHANGED <<fs, lock, tx, reg, cmd, used, ghosts>>

\* The undo command takes effect; undos counts how often it did.
Undone(i, k) ==
  cmd' = [cmd EXCEPT ![i][k] = [on |-> FALSE, undos |-> IF @.undos < 2 THEN @.undos + 1 ELSE 2]]

RunUndo(p) ==
  /\ pc[p] = "undoing"
  /\ NativeWrites(mem[p])
  /\ \/ Set(p, [reg[p] EXCEPT !.ok = TRUE]) /\ Undone(tx[p], reg[p].idx)
     \/ Set(p, [reg[p] EXCEPT !.ok = FALSE]) /\ UNCHANGED cmd
  /\ Goto(p, "undone") /\ UNCHANGED <<journals, lock, tx, mem, used, pre, kept>>

\* Save the outcome, sign the configuration again and restore it once more.
RecordUndo(p) ==
  /\ pc[p] = "undone"
  /\ LET j == [mem[p] EXCEPT !.ext[reg[p].idx].undoState =
                  IF reg[p].ok THEN "applied" ELSE "failed"]
     IN Save(p, [j EXCEPT !.file = [t \in Target |->
          IF t \notin Watched(j) THEN j.file[t]
          ELSE LET e == [j.file[t] EXCEPT !.applied = fs[t]]
               IN IF e.restored THEN [e EXCEPT !.restored = FALSE, !.restoring = FALSE]
                  ELSE e]])
  /\ Set(p, [NextIdx(p) EXCEPT !.err = @ \/ ~reg[p].ok])
  /\ Goto(p, "undo") /\ UNCHANGED <<fs, lock, tx, cmd, used, ghosts>>

\* The runner raises (a timeout, a missing program); the rollback goes on.
UndoRaises(p) ==
  /\ pc[p] = "undoing" /\ used.faults < MaxFaults
  /\ used' = [used EXCEPT !.faults = @ + 1]
  /\ NativeWrites(mem[p])
  /\ Undone(tx[p], reg[p].idx) \/ UNCHANGED cmd
  /\ Set(p, [NextIdx(p) EXCEPT !.err = TRUE]) /\ Goto(p, "undo")
  /\ UNCHANGED <<journals, lock, tx, mem, pre, kept>>

UndosDone(p) ==
  /\ pc[p] = "undo" /\ reg[p].idx = 0
  /\ Set(p, [reg[p] EXCEPT !.idx = Len(mem[p].order)]) /\ Goto(p, "files")
  /\ UNCHANGED <<fs, journals, lock, tx, mem, cmd, used, ghosts>>

\* The file loop walks the entries backwards.
AtFile(p) == pc[p] = "files" /\ reg[p].idx > 0
TheTarget(p) == mem[p].order[reg[p].idx]
TheEntry(p) == mem[p].file[TheTarget(p)]

\* User data survives the manual rollback of a committed operation.
Preserved(p, t) == reg[p].saved /\ mem[p].manual /\ mem[p].preserve /\ t \in UserState

ToRestore(p) == ~TheEntry(p).restored /\ ~Preserved(p, TheTarget(p))
SlipTrustMark(p) == TheEntry(p).restoring
RestoredBefore(p) == TheEntry(p).restoring /\ fs[TheTarget(p)] = TheEntry(p).orig
Overwritten(p) == Signed(mem[p], TheTarget(p)) /\ fs[TheTarget(p)] # TheEntry(p).applied

MarkEntry(p, t) ==
  Save(p, [mem[p] EXCEPT !.file[t].restored = TRUE, !.file[t].restoring = FALSE])

\* Nothing to do; or the target changed since the installer signed it: leave it.
PassFile(p) ==
  /\ AtFile(p)
  /\ \/ ~ToRestore(p) /\ Set(p, NextIdx(p))
     \/ /\ ToRestore(p) /\ ~RestoredBefore(p) /\ Overwritten(p)
        /\ Set(p, [NextIdx(p) EXCEPT !.err = TRUE])
  /\ UNCHANGED <<fs, journals, lock, pc, tx, mem, cmd, used, ghosts>>

\* A restoration that a crash interrupted turns out to be complete.
FinishRestored(p) ==
  /\ AtFile(p) /\ ToRestore(p) /\ RestoredBefore(p)
  /\ MarkEntry(p, TheTarget(p)) /\ Set(p, NextIdx(p))
  /\ UNCHANGED <<fs, lock, pc, tx, cmd, used, ghosts>>

StartRestore(p) ==
  /\ AtFile(p) /\ ToRestore(p) /\ ~RestoredBefore(p) /\ ~Overwritten(p)
  /\ Save(p, [mem[p] EXCEPT !.file[TheTarget(p)].restoring = TRUE])
  /\ Set(p, [reg[p] EXCEPT !.cur = TheTarget(p)]) /\ Goto(p, "removing")
  /\ UNCHANGED <<fs, lock, tx, cmd, used, ghosts>>

RemoveTarget(p) ==
  /\ pc[p] = "removing"
  /\ fs' = [fs EXCEPT ![reg[p].cur] = Absent] /\ Goto(p, "putting")
  /\ UNCHANGED <<journals, lock, tx, mem, reg, cmd, used, ghosts>>

PutOriginal(p) ==
  /\ pc[p] = "putting"
  /\ fs' = [fs EXCEPT ![reg[p].cur] = mem[p].file[reg[p].cur].orig]
  /\ Goto(p, "marking")
  /\ UNCHANGED <<journals, lock, tx, mem, reg, cmd, used, ghosts>>

MarkRestored(p) ==
  /\ pc[p] = "marking"
  /\ MarkEntry(p, reg[p].cur) /\ Set(p, [NextIdx(p) EXCEPT !.cur = NoTarget])
  /\ Goto(p, "files") /\ UNCHANGED <<fs, lock, tx, cmd, used, ghosts>>

\* An I/O error while a target is removed or copied back.
RestoreRaises(p) ==
  /\ pc[p] \in {"removing", "putting"} /\ used.faults < MaxFaults
  /\ used' = [used EXCEPT !.faults = @ + 1]
  /\ Set(p, [NextIdx(p) EXCEPT !.err = TRUE, !.cur = NoTarget]) /\ Goto(p, "files")
  /\ UNCHANGED <<fs, journals, lock, tx, mem, cmd, ghosts>>

\* Save the verdict and release the lock.
SlipHopeful(p) == IF reg[p].saved THEN "rolled_back_manual" ELSE "rolled_back"
FinalStatus(p) ==
  IF reg[p].err THEN "rollback_incomplete"
  ELSE IF reg[p].saved THEN "rolled_back_manual" ELSE "rolled_back"

FinishRollback(p) ==
  /\ pc[p] = "files" /\ reg[p].idx = 0
  /\ journals' = [journals EXCEPT ![tx[p]] = [mem[p] EXCEPT !.status = FinalStatus(p)]]
  /\ Leave(p) /\ UNCHANGED <<fs, cmd, used, ghosts>>

----------------------------------------------------------------------------
(* The environment *)

\* The process dies (or Ctrl+C leaves rollback()): the lock goes with it.
Crash(p) ==
  /\ pc[p] \in Busy /\ used.crashes < MaxCrashes
  /\ used' = [used EXCEPT !.crashes = @ + 1] /\ Leave(p)
  /\ UNCHANGED <<fs, journals, cmd, ghosts>>

\* The user, or another program, changes a target.
UserEdit(t) ==
  /\ used.edits < MaxEdits
  /\ used' = [used EXCEPT !.edits = @ + 1]
  /\ \E c \in Edits \ {fs[t]} :
       /\ fs' = [fs EXCEPT ![t] = c]
       /\ pre' = [i \in Tx |->
            IF /\ journals[i].status = "active" /\ t \notin Tracked(journals[i])
               /\ fs[t] = pre[i][t]
            THEN [pre[i] EXCEPT ![t] = c] ELSE pre[i]]
       /\ edit' = [edit EXCEPT ![t] = IF Quiet(t, c) THEN "quiet" ELSE "window"]
  /\ UNCHANGED <<journals, lock, procVars, cmd, kept>>

Body(p) ==
  \/ \E t \in Target : \/ Backup(p, t) \/ StartWrite(p, t) \/ Watch(p, t)
                       \/ NestedWrite(p, t) \/ TrackCreated(p, t)
  \/ WriteTarget(p) \/ Sign(p) \/ Capture(p)
  \/ StartCommand(p) \/ RunCommand(p) \/ RecordCommand(p) \/ RefreshConfig(p)
  \/ OnRollback(p) \/ Fail(p)

Ending(p) == Commit(p) \/ LateError(p) \/ Crash(p)

Undo(p) ==
  \/ PassUndo(p) \/ StartUndo(p)
  \/ RunUndo(p) \/ RecordUndo(p) \/ UndoRaises(p) \/ UndosDone(p)

Restore(p) ==
  \/ PassFile(p) \/ FinishRestored(p) \/ StartRestore(p)
  \/ RemoveTarget(p) \/ PutOriginal(p) \/ MarkRestored(p) \/ RestoreRaises(p)
  \/ FinishRollback(p)

Next ==
  \/ \E p \in Proc :
       \/ Begin(p) \/ Body(p) \/ Ending(p)
       \/ RollBack(p) \/ RollBackSaved(p) \/ Undo(p) \/ Restore(p)
  \/ \E t \in Target : UserEdit(t)

Spec == Init /\ [][Next]_vars
============================================================================
