------------------------- MODULE TransactionProofs -------------------------
(***************************************************************************)
(* Type correctness of the transaction layer for every number of           *)
(* processes, targets, transactions and commands, together with the bounds *)
(* of the loop cursors it rests on.  Then, while no error comes late       *)
(* (~LateErrors), the mutation lock excludes, an unfinished journal stays  *)
(* the newest one, user data survives the manual rollback of a committed   *)
(* operation, the journals implement the ledger, every native undo takes   *)
(* effect at most once and, after a rollback that reports success, is not  *)
(* left out; such a rollback has put every file back, and no restore       *)
(* overwrites a quiet edit.  The first of these follow from LedgerInv,     *)
(* those on undos from UndosAccounted, those on files from RestInv; each   *)
(* is inductive together with the ones before it and type correctness.     *)
(* Most steps only move a process on inside its operation: Onward says     *)
(* what these have in common.                                              *)
(***************************************************************************)
EXTENDS TransactionSafety, TLAPS

AtTarget == {"write", "gap", "sign", "removing", "putting", "marking"}
AtEntry == {"removing", "putting", "marking"}

\* The cursor of a process at w with journal j and local variables r.
CursorOK(w, j, r) ==
  /\ w \in AtTarget => r.cur \in Target
  /\ w \in {"run", "ran"} => Len(j.ext) > 0
  /\ w = "undo" => r.idx <= Len(j.ext)
  /\ w \in {"undoing", "undone"} => r.idx \in 1..Len(j.ext)
  /\ w = "files" => r.idx <= Len(j.order)
  /\ w \in AtEntry => r.idx \in 1..Len(j.order)

\* Loop cursors stay inside the journal they walk.
Cursors == \A p \in Proc : CursorOK(pc[p], mem[p], reg[p])

TypeInv == TypeOK /\ Cursors

----------------------------------------------------------------------------
(* Lemmas on the data *)

\* What the fields of a journal are.
LEMMA JournalFields ==
  ASSUME NEW j \in Journal
  PROVE  /\ j.status \in Status /\ j.order \in Seq(Target)
         /\ j.file \in [Target -> Entry] /\ j.ext \in Seq(Command)
         /\ j.manual \in BOOLEAN /\ j.preserve \in BOOLEAN
  BY DEF Journal

\* Replacing one field by a value of its type keeps a journal a journal.
LEMMA WithStatus ==
  ASSUME NEW j \in Journal, NEW s \in Status
  PROVE  [j EXCEPT !.status = s] \in Journal
  BY DEF Journal

\* The same for the entries,
LEMMA WithFile ==
  ASSUME NEW j \in Journal, NEW f \in [Target -> Entry]
  PROVE  [j EXCEPT !.file = f] \in Journal
  BY DEF Journal

\* for one entry,
LEMMA WithEntry ==
  ASSUME NEW j \in Journal, NEW t \in Target, NEW e \in Entry
  PROVE  [j EXCEPT !.file = [j.file EXCEPT ![t] = e]] \in Journal
  BY DEF Journal

\* and for the commands.
LEMMA WithExt ==
  ASSUME NEW j \in Journal, NEW x \in Seq(Command)
  PROVE  [j EXCEPT !.ext = x] \in Journal
  BY DEF Journal

\* Appending an entry for a new target.
LEMMA WithTarget ==
  ASSUME NEW j \in Journal, NEW t \in Target, NEW e \in Entry
  PROVE  [j EXCEPT !.order = Append(@, t), !.file[t] = e] \in Journal
<1> DEFINE o == Append(j.order, t)
           f == [j.file EXCEPT ![t] = e]
<1>1. o \in Seq(Target) /\ f \in [Target -> Entry]
  BY JournalFields
<1>2. [j EXCEPT !.order = Append(@, t), !.file[t] = e] = [j EXCEPT !.order = o, !.file = f]
  OBVIOUS
<1> HIDE DEF o, f
<1>3. [j EXCEPT !.order = o, !.file = f] \in Journal
  BY <1>1 DEF Journal
<1> QED
  BY <1>2, <1>3

\* What a target holds is a possible signature, and the entries the actions
\* build from it are entries.
LEMMA NewEntry ==
  ASSUME NEW c \in Content, NEW b \in BOOLEAN
  PROVE  /\ NoEntry \in Entry
         /\ [NoEntry EXCEPT !.orig = c, !.mutable = b] \in Entry
         /\ [NoEntry EXCEPT !.applied = c] \in Entry
  BY TransactionAssumption DEF NoEntry, Entry

\* The updates of an entry the actions make.
LEMMA EntryUpdates ==
  ASSUME NEW e \in Entry, NEW c \in Content, NEW b \in BOOLEAN, NEW d \in BOOLEAN
  PROVE  /\ [e EXCEPT !.applied = c] \in Entry
         /\ [e EXCEPT !.restoring = b] \in Entry
         /\ [e EXCEPT !.restored = b, !.restoring = d] \in Entry
  BY DEF Entry

\* A journal nobody has used is a journal.
LEMMA EmptyJournal == NoJournal \in Journal
<1>1. NoEntry \in Entry
  BY TransactionAssumption DEF NoEntry, Entry
<1>2. [t \in Target |-> NoEntry] \in [Target -> Entry]
  BY <1>1
<1>3. <<>> \in Seq(Target) /\ <<>> \in Seq(Command) /\ "unused" \in Status
  BY DEF Status
<1> QED
  BY <1>2, <1>3 DEF NoJournal, Journal

\* So are the local variables of an idle process.
LEMMA EmptyLocal == NoLocal \in Local
  BY DEF NoLocal, Local

\* The updates of local variables the actions make.
LEMMA LocalUpdates ==
  ASSUME NEW r \in Local, NEW t \in Target \union {NoTarget}, NEW n \in Nat, NEW b \in BOOLEAN
  PROVE  /\ [r EXCEPT !.cur = t] \in Local
         /\ [r EXCEPT !.idx = n] \in Local
         /\ [r EXCEPT !.ok = b] \in Local
         /\ [r EXCEPT !.err = b] \in Local
         /\ [r EXCEPT !.conflict = b] \in Local
         /\ [r EXCEPT !.saved = b] \in Local
         /\ r.cur \in Target \union {NoTarget} /\ r.idx \in Nat
         /\ {r.ok, r.err, r.conflict, r.saved} \subseteq BOOLEAN
  BY DEF Local

----------------------------------------------------------------------------
(* Type correctness *)

\* A process that is not idle works on a transaction, with a journal.
LEMMA AtWork ==
  ASSUME TypeInv, NEW p \in Proc
  PROVE  /\ pc[p] # "idle" => tx[p] \in Tx
         /\ mem[p] \in Journal /\ reg[p] \in Local
         /\ CursorOK(pc[p], mem[p], reg[p])
  BY DEF TypeInv, TypeOK, ProcessOK, Cursors

\* A step of process p that leaves the others alone keeps the process state.
LEMMA ProcessStep ==
  ASSUME TypeInv, NEW p \in Proc, NEW w \in PC, NEW n \in Tx \union {0},
         NEW j \in Journal, NEW r \in Local,
         pc' = [pc EXCEPT ![p] = w], tx' = [tx EXCEPT ![p] = n],
         mem' = [mem EXCEPT ![p] = j], reg' = [reg EXCEPT ![p] = r],
         w = "idle" <=> n = 0, CursorOK(w, j, r)
  PROVE  ProcessOK' /\ Cursors'
  BY DEF TypeInv, TypeOK, ProcessOK, Cursors

\* The special case of a step that goes on inside the same operation.
LEMMA InnerStep ==
  ASSUME TypeInv, NEW p \in Proc, NEW w \in PC, NEW j \in Journal, NEW r \in Local,
         pc[p] # "idle", w # "idle",
         pc' = [pc EXCEPT ![p] = w], tx' = tx,
         mem' = [mem EXCEPT ![p] = j], reg' = [reg EXCEPT ![p] = r],
         CursorOK(w, j, r)
  PROVE  ProcessOK' /\ Cursors'
  BY DEF TypeInv, TypeOK, ProcessOK, Cursors

\* Saving a journal keeps the store of journals typed.
LEMMA SaveTyped ==
  ASSUME TypeInv, NEW p \in Proc, pc[p] # "idle", NEW j \in Journal,
         journals' = [journals EXCEPT ![tx[p]] = j]
  PROVE  journals' \in [Tx -> Journal]
  BY AtWork DEF TypeInv, TypeOK, StoreOK

\* What the store holds, for the proofs that read it.
LEMMA TypedStore ==
  ASSUME TypeInv
  PROVE  /\ fs \in [Target -> Content] /\ journals \in [Tx -> Journal]
         /\ \A t \in Target : fs[t] \in Content
  BY DEF TypeInv, TypeOK, StoreOK


\* Signing, restoring and marking one entry.
LEMMA EntrySaved ==
  ASSUME NEW j \in Journal, NEW t \in Target, NEW c \in Content
  PROVE  /\ [j EXCEPT !.file[t].applied = c] \in Journal
         /\ [j EXCEPT !.file[t].restoring = TRUE] \in Journal
         /\ [j EXCEPT !.file[t].restored = TRUE, !.file[t].restoring = FALSE] \in Journal
<1> DEFINE a == [j.file[t] EXCEPT !.applied = c]
           b == [j.file[t] EXCEPT !.restoring = TRUE]
           d == [j.file[t] EXCEPT !.restored = TRUE, !.restoring = FALSE]
<1>1. j.file[t] \in Entry
  BY JournalFields
<1>2. a \in Entry /\ b \in Entry /\ d \in Entry
  BY <1>1, EntryUpdates
<1>3. /\ [j EXCEPT !.file[t].applied = c] = [j EXCEPT !.file = [j.file EXCEPT ![t] = a]]
      /\ [j EXCEPT !.file[t].restoring = TRUE] = [j EXCEPT !.file = [j.file EXCEPT ![t] = b]]
  OBVIOUS
<1>4. [j EXCEPT !.file[t].restored = TRUE, !.file[t].restoring = FALSE]
        = [j EXCEPT !.file = [j.file EXCEPT ![t] = d]]
  BY JournalFields DEF Journal
<1> HIDE DEF a, b, d
<1> QED
  BY <1>2, <1>3, <1>4, WithEntry

\* Recording how far a command or its undo has come.
LEMMA CommandSaved ==
  ASSUME NEW j \in Journal, NEW k \in 1..Len(j.ext)
  PROVE  /\ \A s \in {"applied", "failed"} :
              /\ [j EXCEPT !.ext[k].state = s] \in Journal
              /\ Len([j EXCEPT !.ext[k].state = s].ext) = Len(j.ext)
         /\ \A s \in {"running", "applied", "failed"} :
              /\ [j EXCEPT !.ext[k].undoState = s] \in Journal
              /\ Len([j EXCEPT !.ext[k].undoState = s].ext) = Len(j.ext)
<1>1. j.ext \in Seq(Command) /\ j.ext[k] \in Command
  BY JournalFields
<1>2. ASSUME NEW c \in Command
      PROVE  /\ [j.ext EXCEPT ![k] = c] \in Seq(Command)
             /\ Len([j.ext EXCEPT ![k] = c]) = Len(j.ext)
  BY <1>1
<1>3. ASSUME NEW c \in Command
      PROVE  /\ [j EXCEPT !.ext = [j.ext EXCEPT ![k] = c]] \in Journal
             /\ [j EXCEPT !.ext = [j.ext EXCEPT ![k] = c]].ext = [j.ext EXCEPT ![k] = c]
  BY <1>2, WithExt DEF Journal
<1>4. ASSUME NEW s \in {"applied", "failed"}
      PROVE  [j.ext[k] EXCEPT !.state = s] \in Command
  BY <1>1 DEF Command
<1>5. ASSUME NEW s \in {"running", "applied", "failed"}
      PROVE  [j.ext[k] EXCEPT !.undoState = s] \in Command
  BY <1>1 DEF Command
<1>6. ASSUME NEW s \in {"applied", "failed"}
      PROVE  /\ [j EXCEPT !.ext[k].state = s] \in Journal
             /\ Len([j EXCEPT !.ext[k].state = s].ext) = Len(j.ext)
  <2> DEFINE c == [j.ext[k] EXCEPT !.state = s]
  <2>1. [j EXCEPT !.ext[k].state = s] = [j EXCEPT !.ext = [j.ext EXCEPT ![k] = c]]
    OBVIOUS
  <2>2. c \in Command
    BY <1>4
  <2> HIDE DEF c
  <2> QED
    BY <1>2, <1>3, <2>1, <2>2
<1>7. ASSUME NEW s \in {"running", "applied", "failed"}
      PROVE  /\ [j EXCEPT !.ext[k].undoState = s] \in Journal
             /\ Len([j EXCEPT !.ext[k].undoState = s].ext) = Len(j.ext)
  <2> DEFINE c == [j.ext[k] EXCEPT !.undoState = s]
  <2>1. [j EXCEPT !.ext[k].undoState = s] = [j EXCEPT !.ext = [j.ext EXCEPT ![k] = c]]
    OBVIOUS
  <2>2. c \in Command
    BY <1>5
  <2> HIDE DEF c
  <2> QED
    BY <1>2, <1>3, <2>1, <2>2
<1> QED
  BY <1>6, <1>7

\* Appending a command to the journal.
LEMMA CommandAdded ==
  ASSUME NEW j \in Journal, NEW c \in Command
  PROVE  /\ [j EXCEPT !.ext = Append(@, c)] \in Journal
         /\ Len([j EXCEPT !.ext = Append(@, c)].ext) = Len(j.ext) + 1
<1>1. Append(j.ext, c) \in Seq(Command) /\ Len(Append(j.ext, c)) = Len(j.ext) + 1
  BY JournalFields
<1> QED
  BY <1>1, WithExt DEF Journal

\* The cursor moves down by one, and an error may be noted.
LEMMA Moved ==
  ASSUME TypeInv, NEW p \in Proc, reg[p].idx > 0
  PROVE  /\ NextIdx(p) \in Local
         /\ NextIdx(p).idx = reg[p].idx - 1 /\ NextIdx(p).saved = reg[p].saved
         /\ [NextIdx(p) EXCEPT !.cur = NoTarget] \in Local
         /\ [NextIdx(p) EXCEPT !.err = TRUE, !.cur = NoTarget] \in Local
         /\ \A b \in BOOLEAN : [NextIdx(p) EXCEPT !.err = b] \in Local
         /\ [NextIdx(p) EXCEPT !.err = TRUE, !.conflict = TRUE] \in Local
<1> DEFINE n == reg[p].idx - 1
<1>1. reg[p] \in Local /\ n \in Nat
  BY AtWork DEF Local
<1>2. NextIdx(p) = [reg[p] EXCEPT !.idx = n]
  BY DEF NextIdx
<1> HIDE DEF n
<1>3. NextIdx(p) \in Local /\ NextIdx(p).idx = n /\ NextIdx(p).saved = reg[p].saved
  BY <1>1, <1>2 DEF Local
<1>4. /\ [NextIdx(p) EXCEPT !.cur = NoTarget] \in Local
      /\ [NextIdx(p) EXCEPT !.err = TRUE, !.cur = NoTarget] \in Local
      /\ \A b \in BOOLEAN : [NextIdx(p) EXCEPT !.err = b] \in Local
      /\ [NextIdx(p) EXCEPT !.err = TRUE, !.conflict = TRUE] \in Local
  BY <1>3 DEF Local
<1> QED
  BY <1>3, <1>4 DEF n

\* Where the file loop stands.
LEMMA AtTargetOf ==
  ASSUME TypeInv, NEW p \in Proc, AtFile(p)
  PROVE  /\ reg[p].idx \in 1..Len(mem[p].order)
         /\ TheTarget(p) \in Target /\ TheEntry(p) \in Entry
<1>1. mem[p] \in Journal /\ reg[p].idx \in Nat /\ reg[p].idx <= Len(mem[p].order)
  BY AtWork, LocalUpdates DEF AtFile, CursorOK, Local
<1>2. reg[p].idx \in 1..Len(mem[p].order)
  BY <1>1, JournalFields DEF AtFile
<1> QED
  BY <1>1, <1>2, JournalFields DEF TheTarget, TheEntry

\* BackedUp keeps the types and the cursors.
LEMMA BackedUpTyped ==
  ASSUME TypeInv, NEW j \in Journal, NEW t \in Target, NEW b \in BOOLEAN
  PROVE  BackedUp(j, t, b) \in Journal
  BY WithTarget, NewEntry, TypedStore DEF BackedUp

\* A native manager leaves the files typed.
LEMMA NativeTyped ==
  ASSUME TypeInv, NEW j, NativeWrites(j)
  PROVE  fs' \in [Target -> Content] /\ edit' \in [Target -> {"none", "quiet", "window"}]
  BY TransactionAssumption DEF NativeWrites, TypeInv, TypeOK, StoreOK, HistoryOK

\* Whatever happens to the effect of one command, effects stay effects.
LEMMA EffectSaved ==
  ASSUME TypeInv, NEW i \in Tx, NEW k, NEW e, k \in 1..MaxExt => e \in Effect
  PROVE  [cmd EXCEPT ![i][k] = e] \in [Tx -> [1..MaxExt -> Effect]]
<1>1. cmd[i] \in [1..MaxExt -> Effect]
  BY DEF TypeInv, TypeOK, StoreOK
<1>2. [cmd[i] EXCEPT ![k] = e] \in [1..MaxExt -> Effect]
  BY <1>1
<1> QED
  BY <1>2 DEF TypeInv, TypeOK, StoreOK

\* A native command takes effect.
LEMMA EffectOn ==
  ASSUME TypeInv, NEW i \in Tx, NEW k, NEW b \in BOOLEAN,
         cmd' = [cmd EXCEPT ![i][k].on = b]
  PROVE  cmd' \in [Tx -> [1..MaxExt -> Effect]]
<1> DEFINE e == [cmd[i][k] EXCEPT !.on = b]
<1>1. k \in 1..MaxExt => e \in Effect
  <2> SUFFICES ASSUME k \in 1..MaxExt PROVE e \in Effect
    OBVIOUS
  <2>1. cmd[i][k] \in Effect
    BY DEF TypeInv, TypeOK, StoreOK
  <2> QED
    BY <2>1 DEF Effect
<1>2. cmd' = [cmd EXCEPT ![i][k] = e]
  OBVIOUS
<1> HIDE DEF e
<1>3. [cmd EXCEPT ![i][k] = e] \in [Tx -> [1..MaxExt -> Effect]]
  BY <1>1, EffectSaved
<1> QED
  BY <1>2, <1>3

\* An undo takes effect, or does not.
LEMMA EffectUndone ==
  ASSUME TypeInv, NEW i \in Tx, NEW k, Undone(i, k) \/ UNCHANGED cmd
  PROVE  cmd' \in [Tx -> [1..MaxExt -> Effect]]
<1> DEFINE u == cmd[i][k].undos
           e == [on |-> FALSE, undos |-> IF u < 2 THEN u + 1 ELSE 2]
<1>1. k \in 1..MaxExt => e \in Effect
  <2> SUFFICES ASSUME k \in 1..MaxExt PROVE e \in Effect
    OBVIOUS
  <2>1. u \in 0..2
    BY DEF TypeInv, TypeOK, StoreOK, Effect
  <2> QED
    BY <2>1 DEF Effect
<1>2. CASE Undone(i, k)
  <2>1. cmd' = [cmd EXCEPT ![i][k] = e]
    BY <1>2 DEF Undone
  <2> HIDE DEF e
  <2> QED
    BY <1>1, <2>1, EffectSaved
<1>3. CASE UNCHANGED cmd
  BY <1>3 DEF TypeInv, TypeOK, StoreOK
<1> QED
  BY <1>2, <1>3

\* Backup keeps the types and the cursors.
LEMMA BackupTyped ==
  ASSUME TypeInv, NEW p \in Proc, NEW t \in Target, Backup(p, t)
  PROVE  TypeInv'
<1> DEFINE j == BackedUp(mem[p], t, FALSE)
           r == reg[p]
<1>1. j \in Journal
  BY BackedUpTyped, AtWork DEF Backup, Save, AtUndo, AtFile, CursorOK, AtTarget
<1>2. r \in Local
  BY AtWork DEF Backup, Save
<1>3. ProcessOK' /\ Cursors'
  <2>1. mem' = [mem EXCEPT ![p] = j] /\ reg' = [reg EXCEPT ![p] = r]
    BY DEF TypeInv, TypeOK, ProcessOK, procVars, Backup, Save
  <2>2. pc' = [pc EXCEPT ![p] = "open"] /\ tx' = tx /\ pc[p] # "idle"
    BY DEF TypeInv, TypeOK, ProcessOK, procVars, Backup, Save, PC, Busy, Forward, Undoing, Restoring, AtUndo, AtFile
  <2>3. CursorOK("open", j, r)
    BY <1>1, <1>2, AtWork, JournalFields DEF CursorOK, AtTarget, AtEntry, Backup, Save, NextIdx
  <2> QED
    BY <1>1, <1>2, <2>1, <2>2, <2>3, InnerStep DEF PC, Busy, Forward, Undoing, Restoring
<1>4. StoreOK'
  BY <1>1, SaveTyped, TypedStore, TransactionAssumption, AtWork DEF Backup, Save, StoreOK, Effect, TypeInv, TypeOK
<1>5. HistoryOK'
  BY DEF Backup, TakeEdit, ghosts, HistoryOK, TypeInv, TypeOK
<1> QED
  BY <1>3, <1>4, <1>5 DEF TypeInv, TypeOK

\* StartWrite keeps the types and the cursors.
LEMMA StartWriteTyped ==
  ASSUME TypeInv, NEW p \in Proc, NEW t \in Target, StartWrite(p, t)
  PROVE  TypeInv'
<1> DEFINE j == BackedUp(mem[p], t, FALSE)
           r == [reg[p] EXCEPT !.cur = t]
<1>1. j \in Journal
  BY BackedUpTyped, AtWork DEF StartWrite, Save, Set, Goto, AtUndo, AtFile, CursorOK, AtTarget
<1>2. r \in Local
  BY LocalUpdates, AtWork DEF StartWrite, Save, Set, Goto
<1>3. ProcessOK' /\ Cursors'
  <2>1. mem' = [mem EXCEPT ![p] = j] /\ reg' = [reg EXCEPT ![p] = r]
    BY DEF TypeInv, TypeOK, ProcessOK, procVars, StartWrite, Save, Set, Goto
  <2>2. pc' = [pc EXCEPT ![p] = "write"] /\ tx' = tx /\ pc[p] # "idle"
    BY DEF TypeInv, TypeOK, ProcessOK, procVars, StartWrite, Save, Set, Goto, PC, Busy, Forward, Undoing, Restoring, AtUndo, AtFile
  <2>3. CursorOK("write", j, r)
    BY <1>1, <1>2, AtWork, JournalFields DEF CursorOK, AtTarget, AtEntry, StartWrite, Save, Set, Goto, NextIdx
  <2> QED
    BY <1>1, <1>2, <2>1, <2>2, <2>3, InnerStep DEF PC, Busy, Forward, Undoing, Restoring
<1>4. StoreOK'
  BY <1>1, SaveTyped, TypedStore, TransactionAssumption, AtWork DEF StartWrite, Save, Set, Goto, StoreOK, Effect, TypeInv, TypeOK
<1>5. HistoryOK'
  BY DEF StartWrite, TakeEdit, ghosts, HistoryOK, TypeInv, TypeOK
<1> QED
  BY <1>3, <1>4, <1>5 DEF TypeInv, TypeOK

\* Watch keeps the types and the cursors.
LEMMA WatchTyped ==
  ASSUME TypeInv, NEW p \in Proc, NEW t \in Target, Watch(p, t)
  PROVE  TypeInv'
<1> DEFINE j == BackedUp(mem[p], t, TRUE)
           r == [reg[p] EXCEPT !.cur = t]
<1>1. j \in Journal
  BY BackedUpTyped, AtWork DEF Watch, Save, Set, Goto, AtUndo, AtFile, CursorOK, AtTarget
<1>2. r \in Local
  BY LocalUpdates, AtWork DEF Watch, Save, Set, Goto
<1>3. ProcessOK' /\ Cursors'
  <2>1. mem' = [mem EXCEPT ![p] = j] /\ reg' = [reg EXCEPT ![p] = r]
    BY DEF TypeInv, TypeOK, ProcessOK, procVars, Watch, Save, Set, Goto
  <2>2. pc' = [pc EXCEPT ![p] = "sign"] /\ tx' = tx /\ pc[p] # "idle"
    BY DEF TypeInv, TypeOK, ProcessOK, procVars, Watch, Save, Set, Goto, PC, Busy, Forward, Undoing, Restoring, AtUndo, AtFile
  <2>3. CursorOK("sign", j, r)
    BY <1>1, <1>2, AtWork, JournalFields DEF CursorOK, AtTarget, AtEntry, Watch, Save, Set, Goto, NextIdx
  <2> QED
    BY <1>1, <1>2, <2>1, <2>2, <2>3, InnerStep DEF PC, Busy, Forward, Undoing, Restoring
<1>4. StoreOK'
  BY <1>1, SaveTyped, TypedStore, TransactionAssumption, AtWork DEF Watch, Save, Set, Goto, StoreOK, Effect, TypeInv, TypeOK
<1>5. HistoryOK'
  BY DEF Watch, TakeEdit, ghosts, HistoryOK, TypeInv, TypeOK
<1> QED
  BY <1>3, <1>4, <1>5 DEF TypeInv, TypeOK

\* NestedWrite keeps the types and the cursors.
LEMMA NestedWriteTyped ==
  ASSUME TypeInv, NEW p \in Proc, NEW t \in Target, NestedWrite(p, t)
  PROVE  TypeInv'
<1> DEFINE j == mem[p]
           r == reg[p]
<1>1. j \in Journal
  BY AtWork DEF NestedWrite, AtUndo, AtFile, CursorOK, AtTarget
<1>2. r \in Local
  BY AtWork DEF NestedWrite
<1>3. ProcessOK' /\ Cursors'
  <2>1. mem' = [mem EXCEPT ![p] = j] /\ reg' = [reg EXCEPT ![p] = r]
    BY DEF TypeInv, TypeOK, ProcessOK, procVars, NestedWrite
  <2>2. pc' = [pc EXCEPT ![p] = "open"] /\ tx' = tx /\ pc[p] # "idle"
    BY DEF TypeInv, TypeOK, ProcessOK, procVars, NestedWrite, PC, Busy, Forward, Undoing, Restoring, AtUndo, AtFile
  <2>3. CursorOK("open", j, r)
    BY <1>1, <1>2, AtWork, JournalFields DEF CursorOK, AtTarget, AtEntry, NestedWrite, NextIdx
  <2> QED
    BY <1>1, <1>2, <2>1, <2>2, <2>3, InnerStep DEF PC, Busy, Forward, Undoing, Restoring
<1>4. StoreOK'
  BY <1>1, SaveTyped, TypedStore, TransactionAssumption, AtWork DEF NestedWrite, StoreOK, Effect, TypeInv, TypeOK
<1>5. HistoryOK'
  BY DEF NestedWrite, ghosts, HistoryOK, TypeInv, TypeOK
<1> QED
  BY <1>3, <1>4, <1>5 DEF TypeInv, TypeOK

\* TrackCreated keeps the types and the cursors.
LEMMA TrackCreatedTyped ==
  ASSUME TypeInv, NEW p \in Proc, NEW t \in Target, TrackCreated(p, t)
  PROVE  TypeInv'
<1> DEFINE j == [mem[p] EXCEPT !.order = Append(@, t), !.file[t] = [NoEntry EXCEPT !.applied = fs[t]]]
           r == reg[p]
<1>1. j \in Journal
  BY AtWork, WithTarget, NewEntry, TypedStore DEF TrackCreated, Save, AtUndo, AtFile, CursorOK, AtTarget
<1>2. r \in Local
  BY AtWork DEF TrackCreated, Save
<1>3. ProcessOK' /\ Cursors'
  <2>1. mem' = [mem EXCEPT ![p] = j] /\ reg' = [reg EXCEPT ![p] = r]
    BY DEF TypeInv, TypeOK, ProcessOK, procVars, TrackCreated, Save
  <2>2. pc' = [pc EXCEPT ![p] = "open"] /\ tx' = tx /\ pc[p] # "idle"
    BY DEF TypeInv, TypeOK, ProcessOK, procVars, TrackCreated, Save, PC, Busy, Forward, Undoing, Restoring, AtUndo, AtFile
  <2>3. CursorOK("open", j, r)
    BY <1>1, <1>2, AtWork, JournalFields DEF CursorOK, AtTarget, AtEntry, TrackCreated, Save, NextIdx
  <2> QED
    BY <1>1, <1>2, <2>1, <2>2, <2>3, InnerStep DEF PC, Busy, Forward, Undoing, Restoring
<1>4. StoreOK'
  BY <1>1, SaveTyped, TypedStore, TransactionAssumption, AtWork DEF TrackCreated, Save, StoreOK, Effect, TypeInv, TypeOK
<1>5. HistoryOK'
  BY DEF TrackCreated, ghosts, HistoryOK, TypeInv, TypeOK
<1> QED
  BY <1>3, <1>4, <1>5 DEF TypeInv, TypeOK

\* Sign keeps the types and the cursors.
LEMMA SignTyped ==
  ASSUME TypeInv, NEW p \in Proc, Sign(p)
  PROVE  TypeInv'
<1> DEFINE j == [mem[p] EXCEPT !.file[reg[p].cur].applied = fs[reg[p].cur]]
           r == [reg[p] EXCEPT !.cur = NoTarget]
<1>1. j \in Journal
  BY AtWork, EntrySaved, TypedStore DEF Sign, Save, Set, Goto, AtUndo, AtFile, CursorOK, AtTarget
<1>2. r \in Local
  BY LocalUpdates, AtWork DEF Sign, Save, Set, Goto
<1>3. ProcessOK' /\ Cursors'
  <2>1. mem' = [mem EXCEPT ![p] = j] /\ reg' = [reg EXCEPT ![p] = r]
    BY DEF TypeInv, TypeOK, ProcessOK, procVars, Sign, Save, Set, Goto
  <2>2. pc' = [pc EXCEPT ![p] = "open"] /\ tx' = tx /\ pc[p] # "idle"
    BY DEF TypeInv, TypeOK, ProcessOK, procVars, Sign, Save, Set, Goto, PC, Busy, Forward, Undoing, Restoring, AtUndo, AtFile
  <2>3. CursorOK("open", j, r)
    BY <1>1, <1>2, AtWork, JournalFields DEF CursorOK, AtTarget, AtEntry, Sign, Save, Set, Goto, NextIdx
  <2> QED
    BY <1>1, <1>2, <2>1, <2>2, <2>3, InnerStep DEF PC, Busy, Forward, Undoing, Restoring
<1>4. StoreOK'
  BY <1>1, SaveTyped, TypedStore, TransactionAssumption, AtWork DEF Sign, Save, Set, Goto, StoreOK, Effect, TypeInv, TypeOK
<1>5. HistoryOK'
  BY DEF Sign, ghosts, HistoryOK, TypeInv, TypeOK
<1> QED
  BY <1>3, <1>4, <1>5 DEF TypeInv, TypeOK

\* Capture keeps the types and the cursors.
LEMMA CaptureTyped ==
  ASSUME TypeInv, NEW p \in Proc, Capture(p)
  PROVE  TypeInv'
<1> DEFINE j == [mem[p] EXCEPT !.file = [t \in Target |->
                IF t \in Tracked(mem[p]) /\ ~Signed(mem[p], t)
                THEN [mem[p].file[t] EXCEPT !.applied = fs[t]] ELSE mem[p].file[t]]]
           r == reg[p]
<1>1. j \in Journal
  BY AtWork, JournalFields, EntryUpdates, WithFile, TypedStore DEF Capture, Save, AtUndo, AtFile, CursorOK, AtTarget
<1>2. r \in Local
  BY AtWork DEF Capture, Save
<1>3. ProcessOK' /\ Cursors'
  <2>1. mem' = [mem EXCEPT ![p] = j] /\ reg' = [reg EXCEPT ![p] = r]
    BY DEF TypeInv, TypeOK, ProcessOK, procVars, Capture, Save
  <2>2. pc' = [pc EXCEPT ![p] = "open"] /\ tx' = tx /\ pc[p] # "idle"
    BY DEF TypeInv, TypeOK, ProcessOK, procVars, Capture, Save, PC, Busy, Forward, Undoing, Restoring, AtUndo, AtFile
  <2>3. CursorOK("open", j, r)
    BY <1>1, <1>2, AtWork, JournalFields DEF CursorOK, AtTarget, AtEntry, Capture, Save, NextIdx
  <2> QED
    BY <1>1, <1>2, <2>1, <2>2, <2>3, InnerStep DEF PC, Busy, Forward, Undoing, Restoring
<1>4. StoreOK'
  BY <1>1, SaveTyped, TypedStore, TransactionAssumption, AtWork DEF Capture, Save, StoreOK, Effect, TypeInv, TypeOK
<1>5. HistoryOK'
  BY DEF Capture, ghosts, HistoryOK, TypeInv, TypeOK
<1> QED
  BY <1>3, <1>4, <1>5 DEF TypeInv, TypeOK

\* RecordCommand keeps the types and the cursors.
LEMMA RecordCommandTyped ==
  ASSUME TypeInv, NEW p \in Proc, RecordCommand(p)
  PROVE  TypeInv'
<1> DEFINE j == [mem[p] EXCEPT !.ext[Len(mem[p].ext)].state =
                IF reg[p].ok THEN "applied" ELSE "failed"]
           r == reg[p]
<1>0. Len(mem[p].ext) \in 1..Len(mem[p].ext)
  BY AtWork, JournalFields DEF RecordCommand, CursorOK
<1>1. j \in Journal
  BY <1>0, AtWork, CommandSaved
<1>2. r \in Local
  BY AtWork DEF RecordCommand, Save, Goto
<1>3. ProcessOK' /\ Cursors'
  <2>1. mem' = [mem EXCEPT ![p] = j] /\ reg' = [reg EXCEPT ![p] = r]
    BY DEF TypeInv, TypeOK, ProcessOK, procVars, RecordCommand, Save, Goto
  <2>2. pc' = [pc EXCEPT ![p] = "refresh"] /\ tx' = tx /\ pc[p] # "idle"
    BY DEF TypeInv, TypeOK, ProcessOK, procVars, RecordCommand, Save, Goto, PC, Busy, Forward, Undoing, Restoring, AtUndo, AtFile
  <2>3. CursorOK("refresh", j, r)
    BY DEF CursorOK, AtTarget, AtEntry
  <2> QED
    BY <1>1, <1>2, <2>1, <2>2, <2>3, InnerStep DEF PC, Busy, Forward, Undoing, Restoring
<1>4. StoreOK'
  BY <1>1, SaveTyped, TypedStore, TransactionAssumption, AtWork DEF RecordCommand, Save, Goto, StoreOK, Effect, TypeInv, TypeOK
<1>5. HistoryOK'
  BY DEF RecordCommand, ghosts, HistoryOK, TypeInv, TypeOK
<1> QED
  BY <1>3, <1>4, <1>5 DEF TypeInv, TypeOK

\* RefreshConfig keeps the types and the cursors.
LEMMA RefreshConfigTyped ==
  ASSUME TypeInv, NEW p \in Proc, RefreshConfig(p)
  PROVE  TypeInv'
<1> DEFINE j == Refreshed(mem[p])
           r == reg[p]
<1>1. j \in Journal
  BY AtWork, JournalFields, EntryUpdates, WithFile, TypedStore DEF RefreshConfig, Save, Goto, AtUndo, AtFile, CursorOK, AtTarget, Refreshed
<1>2. r \in Local
  BY AtWork DEF RefreshConfig, Save, Goto
<1>3. ProcessOK' /\ Cursors'
  <2>1. mem' = [mem EXCEPT ![p] = j] /\ reg' = [reg EXCEPT ![p] = r]
    BY DEF TypeInv, TypeOK, ProcessOK, procVars, RefreshConfig, Save, Goto
  <2>2. pc' = [pc EXCEPT ![p] = IF reg[p].ok THEN "open" ELSE "failed"] /\ tx' = tx /\ pc[p] # "idle"
    BY DEF TypeInv, TypeOK, ProcessOK, procVars, RefreshConfig, Save, Goto, PC, Busy, Forward, Undoing, Restoring, AtUndo, AtFile
  <2>3. CursorOK(IF reg[p].ok THEN "open" ELSE "failed", j, r)
    BY <1>1, <1>2, AtWork, JournalFields DEF CursorOK, AtTarget, AtEntry, RefreshConfig, Save, Goto, NextIdx
  <2> QED
    BY <1>1, <1>2, <2>1, <2>2, <2>3, InnerStep DEF PC, Busy, Forward, Undoing, Restoring
<1>4. StoreOK'
  BY <1>1, SaveTyped, TypedStore, TransactionAssumption, AtWork DEF RefreshConfig, Save, Goto, StoreOK, Effect, TypeInv, TypeOK
<1>5. HistoryOK'
  BY DEF RefreshConfig, ghosts, HistoryOK, TypeInv, TypeOK
<1> QED
  BY <1>3, <1>4, <1>5 DEF TypeInv, TypeOK

\* OnRollback keeps the types and the cursors.
LEMMA OnRollbackTyped ==
  ASSUME TypeInv, NEW p \in Proc, OnRollback(p)
  PROVE  TypeInv'
<1> DEFINE j == [mem[p] EXCEPT !.ext = Append(@,
                [state |-> "undo_only", undo |-> TRUE, undoState |-> "none"])]
           r == reg[p]
<1>1. j \in Journal
  BY AtWork, CommandAdded DEF OnRollback, Save, AtUndo, AtFile, CursorOK, AtTarget, Command
<1>2. r \in Local
  BY AtWork DEF OnRollback, Save
<1>3. ProcessOK' /\ Cursors'
  <2>1. mem' = [mem EXCEPT ![p] = j] /\ reg' = [reg EXCEPT ![p] = r]
    BY DEF TypeInv, TypeOK, ProcessOK, procVars, OnRollback, Save
  <2>2. pc' = [pc EXCEPT ![p] = "open"] /\ tx' = tx /\ pc[p] # "idle"
    BY DEF TypeInv, TypeOK, ProcessOK, procVars, OnRollback, Save, PC, Busy, Forward, Undoing, Restoring, AtUndo, AtFile
  <2>3. CursorOK("open", j, r)
    BY <1>1, <1>2, AtWork, JournalFields, CommandAdded DEF CursorOK, AtTarget, AtEntry, OnRollback, Save, NextIdx
  <2> QED
    BY <1>1, <1>2, <2>1, <2>2, <2>3, InnerStep DEF PC, Busy, Forward, Undoing, Restoring
<1>4. StoreOK'
  <2>1. cmd' \in [Tx -> [1..MaxExt -> Effect]]
    BY AtWork, EffectOn DEF OnRollback
  <2>2. journals' \in [Tx -> Journal]
    BY <1>1, SaveTyped, AtWork DEF OnRollback, Save
  <2> QED
    BY <2>1, <2>2 DEF OnRollback, StoreOK, TypeInv, TypeOK
<1>5. HistoryOK'
  BY DEF OnRollback, ghosts, HistoryOK, TypeInv, TypeOK
<1> QED
  BY <1>3, <1>4, <1>5 DEF TypeInv, TypeOK

\* Fail keeps the types and the cursors.
LEMMA FailTyped ==
  ASSUME TypeInv, NEW p \in Proc, Fail(p)
  PROVE  TypeInv'
<1> DEFINE j == mem[p]
           r == reg[p]
<1>1. j \in Journal
  BY AtWork DEF Fail, Goto, AtUndo, AtFile, CursorOK, AtTarget
<1>2. r \in Local
  BY AtWork DEF Fail, Goto
<1>3. ProcessOK' /\ Cursors'
  <2>1. mem' = [mem EXCEPT ![p] = j] /\ reg' = [reg EXCEPT ![p] = r]
    BY DEF TypeInv, TypeOK, ProcessOK, procVars, Fail, Goto
  <2>2. pc' = [pc EXCEPT ![p] = "failed"] /\ tx' = tx /\ pc[p] # "idle"
    BY DEF TypeInv, TypeOK, ProcessOK, procVars, Fail, Goto, PC, Busy, Forward, Undoing, Restoring, AtUndo, AtFile
  <2>3. CursorOK("failed", j, r)
    BY <1>1, <1>2, AtWork, JournalFields DEF CursorOK, AtTarget, AtEntry, Fail, Goto, NextIdx
  <2> QED
    BY <1>1, <1>2, <2>1, <2>2, <2>3, InnerStep DEF PC, Busy, Forward, Undoing, Restoring
<1>4. StoreOK'
  BY <1>1, SaveTyped, TypedStore, TransactionAssumption, AtWork DEF Fail, Goto, StoreOK, Effect, TypeInv, TypeOK
<1>5. HistoryOK'
  BY DEF Fail, ghosts, HistoryOK, TypeInv, TypeOK
<1> QED
  BY <1>3, <1>4, <1>5 DEF TypeInv, TypeOK

\* RollBack keeps the types and the cursors.
LEMMA RollBackTyped ==
  ASSUME TypeInv, NEW p \in Proc, RollBack(p)
  PROVE  TypeInv'
<1> DEFINE j == [mem[p] EXCEPT !.status = "rolling_back"]
           r == [NoLocal EXCEPT !.idx = Len(mem[p].ext)]
<1>1. j \in Journal
  BY AtWork, WithStatus DEF Status, Rollbackable, Unfinished
<1>2. r \in Local
  <2>1. Len(mem[p].ext) \in Nat
    BY AtWork, JournalFields
  <2> QED
    BY <2>1 DEF NoLocal, Local
<1>3. ProcessOK' /\ Cursors'
  <2>1. mem' = [mem EXCEPT ![p] = j] /\ reg' = [reg EXCEPT ![p] = r]
    BY DEF TypeInv, TypeOK, ProcessOK, procVars, RollBack, Save, Set, Goto
  <2>2. pc' = [pc EXCEPT ![p] = "undo"] /\ tx' = tx /\ pc[p] # "idle"
    BY DEF TypeInv, TypeOK, ProcessOK, procVars, RollBack, Save, Set, Goto, PC, Busy, Forward, Undoing, Restoring, AtUndo, AtFile
  <2>3. CursorOK("undo", j, r)
    BY <1>1, <1>2, AtWork, JournalFields DEF CursorOK, AtTarget, AtEntry, RollBack, Save, Set, Goto, NextIdx
  <2> QED
    BY <1>1, <1>2, <2>1, <2>2, <2>3, InnerStep DEF PC, Busy, Forward, Undoing, Restoring
<1>4. StoreOK'
  BY <1>1, SaveTyped, TypedStore, TransactionAssumption, AtWork DEF RollBack, Save, Set, Goto, StoreOK, Effect, TypeInv, TypeOK
<1>5. HistoryOK'
  BY DEF RollBack, ghosts, HistoryOK, TypeInv, TypeOK
<1> QED
  BY <1>3, <1>4, <1>5 DEF TypeInv, TypeOK

\* StartUndo keeps the types and the cursors.
LEMMA StartUndoTyped ==
  ASSUME TypeInv, NEW p \in Proc, StartUndo(p)
  PROVE  TypeInv'
<1> DEFINE j == [mem[p] EXCEPT !.ext[reg[p].idx].undoState = "running"]
           r == reg[p]
<1>0. reg[p].idx \in 1..Len(mem[p].ext)
  BY AtWork, JournalFields DEF StartUndo, AtUndo, CursorOK, Local
<1>1. j \in Journal
  BY <1>0, AtWork, CommandSaved
<1>2. r \in Local
  BY AtWork DEF StartUndo, Save, Goto, AtUndo
<1>3. ProcessOK' /\ Cursors'
  <2>1. mem' = [mem EXCEPT ![p] = j] /\ reg' = [reg EXCEPT ![p] = r]
    BY DEF TypeInv, TypeOK, ProcessOK, procVars, StartUndo, Save, Goto, AtUndo
  <2>2. pc' = [pc EXCEPT ![p] = "undoing"] /\ tx' = tx /\ pc[p] # "idle"
    BY DEF TypeInv, TypeOK, ProcessOK, procVars, StartUndo, Save, Goto, AtUndo, PC, Busy, Forward, Undoing, Restoring, AtUndo, AtFile
  <2>3. CursorOK("undoing", j, r)
    BY <1>0, AtWork, CommandSaved DEF CursorOK, AtTarget, AtEntry
  <2> QED
    BY <1>1, <1>2, <2>1, <2>2, <2>3, InnerStep DEF PC, Busy, Forward, Undoing, Restoring
<1>4. StoreOK'
  BY <1>1, SaveTyped, TypedStore, TransactionAssumption, AtWork DEF StartUndo, Save, Goto, AtUndo, StoreOK, Effect, TypeInv, TypeOK
<1>5. HistoryOK'
  BY DEF StartUndo, ghosts, HistoryOK, TypeInv, TypeOK
<1> QED
  BY <1>3, <1>4, <1>5 DEF TypeInv, TypeOK

\* UndosDone keeps the types and the cursors.
LEMMA UndosDoneTyped ==
  ASSUME TypeInv, NEW p \in Proc, UndosDone(p)
  PROVE  TypeInv'
<1> DEFINE j == mem[p]
           r == [reg[p] EXCEPT !.idx = Len(mem[p].order)]
<1>1. j \in Journal
  BY AtWork DEF UndosDone, Set, Goto, AtUndo, AtFile, CursorOK, AtTarget
<1>2. r \in Local
  BY AtWork, JournalFields DEF UndosDone, Set, Goto, Local
<1>3. ProcessOK' /\ Cursors'
  <2>1. mem' = [mem EXCEPT ![p] = j] /\ reg' = [reg EXCEPT ![p] = r]
    BY DEF TypeInv, TypeOK, ProcessOK, procVars, UndosDone, Set, Goto
  <2>2. pc' = [pc EXCEPT ![p] = "files"] /\ tx' = tx /\ pc[p] # "idle"
    BY DEF TypeInv, TypeOK, ProcessOK, procVars, UndosDone, Set, Goto, PC, Busy, Forward, Undoing, Restoring, AtUndo, AtFile
  <2>3. CursorOK("files", j, r)
    BY <1>1, <1>2, AtWork, JournalFields DEF CursorOK, AtTarget, AtEntry, UndosDone, Set, Goto, NextIdx
  <2> QED
    BY <1>1, <1>2, <2>1, <2>2, <2>3, InnerStep DEF PC, Busy, Forward, Undoing, Restoring
<1>4. StoreOK'
  BY <1>1, SaveTyped, TypedStore, TransactionAssumption, AtWork DEF UndosDone, Set, Goto, StoreOK, Effect, TypeInv, TypeOK
<1>5. HistoryOK'
  BY DEF UndosDone, ghosts, HistoryOK, TypeInv, TypeOK
<1> QED
  BY <1>3, <1>4, <1>5 DEF TypeInv, TypeOK

\* StartRestore keeps the types and the cursors.
LEMMA StartRestoreTyped ==
  ASSUME TypeInv, NEW p \in Proc, StartRestore(p)
  PROVE  TypeInv'
<1> DEFINE j == [mem[p] EXCEPT !.file[TheTarget(p)].restoring = TRUE]
           r == [reg[p] EXCEPT !.cur = TheTarget(p)]
<1>1. j \in Journal
  BY AtWork, EntrySaved, AtTargetOf, TypedStore DEF StartRestore, Save, Set, Goto, AtFile, AtUndo, AtFile, CursorOK, AtTarget
<1>2. r \in Local
  BY LocalUpdates, AtWork, AtTargetOf DEF StartRestore, Save, Set, Goto, AtFile
<1>3. ProcessOK' /\ Cursors'
  <2>1. mem' = [mem EXCEPT ![p] = j] /\ reg' = [reg EXCEPT ![p] = r]
    BY DEF TypeInv, TypeOK, ProcessOK, procVars, StartRestore, Save, Set, Goto, AtFile
  <2>2. pc' = [pc EXCEPT ![p] = "removing"] /\ tx' = tx /\ pc[p] # "idle"
    BY DEF TypeInv, TypeOK, ProcessOK, procVars, StartRestore, Save, Set, Goto, AtFile, PC, Busy, Forward, Undoing, Restoring, AtUndo, AtFile
  <2>3. CursorOK("removing", j, r)
    BY <1>1, <1>2, AtWork, JournalFields, AtTargetOf, LocalUpdates DEF CursorOK, AtTarget, AtEntry, StartRestore, Save, Set, Goto, AtFile, NextIdx
  <2> QED
    BY <1>1, <1>2, <2>1, <2>2, <2>3, InnerStep DEF PC, Busy, Forward, Undoing, Restoring
<1>4. StoreOK'
  BY <1>1, SaveTyped, TypedStore, TransactionAssumption, AtWork DEF StartRestore, Save, Set, Goto, AtFile, StoreOK, Effect, TypeInv, TypeOK
<1>5. HistoryOK'
  BY DEF StartRestore, ghosts, HistoryOK, TypeInv, TypeOK
<1> QED
  BY <1>3, <1>4, <1>5 DEF TypeInv, TypeOK

\* RemoveTarget keeps the types and the cursors.
LEMMA RemoveTargetTyped ==
  ASSUME TypeInv, NEW p \in Proc, RemoveTarget(p)
  PROVE  TypeInv'
<1> DEFINE j == mem[p]
           r == reg[p]
<1>1. j \in Journal
  BY AtWork DEF RemoveTarget, Goto, AtUndo, AtFile, CursorOK, AtTarget
<1>2. r \in Local
  BY AtWork DEF RemoveTarget, Goto
<1>3. ProcessOK' /\ Cursors'
  <2>1. mem' = [mem EXCEPT ![p] = j] /\ reg' = [reg EXCEPT ![p] = r]
    BY DEF TypeInv, TypeOK, ProcessOK, procVars, RemoveTarget, Goto
  <2>2. pc' = [pc EXCEPT ![p] = "putting"] /\ tx' = tx /\ pc[p] # "idle"
    BY DEF TypeInv, TypeOK, ProcessOK, procVars, RemoveTarget, Goto, PC, Busy, Forward, Undoing, Restoring, AtUndo, AtFile
  <2>3. CursorOK("putting", j, r)
    BY <1>1, <1>2, AtWork, JournalFields DEF CursorOK, AtTarget, AtEntry, RemoveTarget, Goto, NextIdx
  <2> QED
    BY <1>1, <1>2, <2>1, <2>2, <2>3, InnerStep DEF PC, Busy, Forward, Undoing, Restoring
<1>4. StoreOK'
  BY <1>1, SaveTyped, TypedStore, TransactionAssumption, AtWork DEF RemoveTarget, Goto, StoreOK, Effect, TypeInv, TypeOK
<1>5. HistoryOK'
  BY DEF RemoveTarget, ghosts, HistoryOK, TypeInv, TypeOK
<1> QED
  BY <1>3, <1>4, <1>5 DEF TypeInv, TypeOK

\* PutOriginal keeps the types and the cursors.
LEMMA PutOriginalTyped ==
  ASSUME TypeInv, NEW p \in Proc, PutOriginal(p)
  PROVE  TypeInv'
<1> DEFINE j == mem[p]
           r == reg[p]
<1>1. j \in Journal
  BY AtWork DEF PutOriginal, Goto, AtUndo, AtFile, CursorOK, AtTarget
<1>2. r \in Local
  BY AtWork DEF PutOriginal, Goto
<1>3. ProcessOK' /\ Cursors'
  <2>1. mem' = [mem EXCEPT ![p] = j] /\ reg' = [reg EXCEPT ![p] = r]
    BY DEF TypeInv, TypeOK, ProcessOK, procVars, PutOriginal, Goto
  <2>2. pc' = [pc EXCEPT ![p] = "marking"] /\ tx' = tx /\ pc[p] # "idle"
    BY DEF TypeInv, TypeOK, ProcessOK, procVars, PutOriginal, Goto, PC, Busy, Forward, Undoing, Restoring, AtUndo, AtFile
  <2>3. CursorOK("marking", j, r)
    BY <1>1, <1>2, AtWork, JournalFields DEF CursorOK, AtTarget, AtEntry, PutOriginal, Goto, NextIdx
  <2> QED
    BY <1>1, <1>2, <2>1, <2>2, <2>3, InnerStep DEF PC, Busy, Forward, Undoing, Restoring
<1>4. StoreOK'
  <2>1. reg[p].cur \in Target
    BY AtWork DEF PutOriginal, CursorOK, AtTarget
  <2>2. mem[p].file[reg[p].cur].orig \in Content
    BY <2>1, AtWork, JournalFields DEF Entry
  <2> QED
    BY <2>2 DEF PutOriginal, StoreOK, TypeInv, TypeOK
<1>5. HistoryOK'
  BY DEF PutOriginal, ghosts, HistoryOK, TypeInv, TypeOK
<1> QED
  BY <1>3, <1>4, <1>5 DEF TypeInv, TypeOK

\* MarkRestored keeps the types and the cursors.
LEMMA MarkRestoredTyped ==
  ASSUME TypeInv, NEW p \in Proc, MarkRestored(p)
  PROVE  TypeInv'
<1> DEFINE j == [mem[p] EXCEPT !.file[reg[p].cur].restored = TRUE, !.file[reg[p].cur].restoring = FALSE]
           r == [NextIdx(p) EXCEPT !.cur = NoTarget]
<1>0. reg[p].idx \in 1..Len(mem[p].order) /\ reg[p].cur \in Target
  BY AtWork DEF MarkRestored, CursorOK, AtTarget, AtEntry
<1>1. j \in Journal
  BY <1>0, AtWork, EntrySaved, TransactionAssumption
<1>2. r \in Local /\ r.idx = reg[p].idx - 1 /\ j.order = mem[p].order
  <2>1. reg[p].idx > 0
    BY <1>0, AtWork, JournalFields
  <2> QED
    BY <2>1, Moved, AtWork, JournalFields DEF Local, Journal
<1>3. ProcessOK' /\ Cursors'
  <2>1. mem' = [mem EXCEPT ![p] = j] /\ reg' = [reg EXCEPT ![p] = r]
    BY DEF TypeInv, TypeOK, ProcessOK, procVars, MarkRestored, MarkEntry, Save, Set, Goto
  <2>2. pc' = [pc EXCEPT ![p] = "files"] /\ tx' = tx /\ pc[p] # "idle"
    BY DEF TypeInv, TypeOK, ProcessOK, procVars, MarkRestored, MarkEntry, Save, Set, Goto, PC, Busy, Forward, Undoing, Restoring, AtUndo, AtFile
  <2>3. CursorOK("files", j, r)
    BY <1>0, <1>2, AtWork, JournalFields DEF CursorOK, AtTarget, AtEntry
  <2> QED
    BY <1>1, <1>2, <2>1, <2>2, <2>3, InnerStep DEF PC, Busy, Forward, Undoing, Restoring
<1>4. StoreOK'
  BY <1>1, SaveTyped, TypedStore, TransactionAssumption, AtWork DEF MarkRestored, MarkEntry, Save, Set, Goto, StoreOK, Effect, TypeInv, TypeOK
<1>5. HistoryOK'
  BY DEF MarkRestored, ghosts, HistoryOK, TypeInv, TypeOK
<1> QED
  BY <1>3, <1>4, <1>5 DEF TypeInv, TypeOK

\* FinishRestored keeps the types and the cursors.
LEMMA FinishRestoredTyped ==
  ASSUME TypeInv, NEW p \in Proc, FinishRestored(p)
  PROVE  TypeInv'
<1> DEFINE j == [mem[p] EXCEPT !.file[TheTarget(p)].restored = TRUE, !.file[TheTarget(p)].restoring = FALSE]
           r == NextIdx(p)
<1>1. j \in Journal
  BY AtWork, EntrySaved, AtTargetOf, TypedStore DEF FinishRestored, MarkEntry, Save, Set, AtFile, AtUndo, AtFile, CursorOK, AtTarget
<1>2. r \in Local /\ r.idx = reg[p].idx - 1 /\ j.order = mem[p].order
  BY Moved, AtWork DEF FinishRestored, AtFile, Journal
<1>3. ProcessOK' /\ Cursors'
  <2>1. mem' = [mem EXCEPT ![p] = j] /\ reg' = [reg EXCEPT ![p] = r]
    BY DEF TypeInv, TypeOK, ProcessOK, procVars, FinishRestored, MarkEntry, Save, Set, AtFile
  <2>2. pc' = [pc EXCEPT ![p] = "files"] /\ tx' = tx /\ pc[p] # "idle"
    BY DEF TypeInv, TypeOK, ProcessOK, procVars, FinishRestored, MarkEntry, Save, Set, AtFile, PC, Busy, Forward, Undoing, Restoring, AtUndo, AtFile
  <2>3. CursorOK("files", j, r)
    BY <1>2, AtWork, JournalFields, AtTargetOf DEF FinishRestored, CursorOK, AtTarget, AtEntry
  <2> QED
    BY <1>1, <1>2, <2>1, <2>2, <2>3, InnerStep DEF PC, Busy, Forward, Undoing, Restoring
<1>4. StoreOK'
  BY <1>1, SaveTyped, TypedStore, TransactionAssumption, AtWork DEF FinishRestored, MarkEntry, Save, Set, AtFile, StoreOK, Effect, TypeInv, TypeOK
<1>5. HistoryOK'
  BY DEF FinishRestored, ghosts, HistoryOK, TypeInv, TypeOK
<1> QED
  BY <1>3, <1>4, <1>5 DEF TypeInv, TypeOK

\* RestoreRaises keeps the types and the cursors.
LEMMA RestoreRaisesTyped ==
  ASSUME TypeInv, NEW p \in Proc, RestoreRaises(p)
  PROVE  TypeInv'
<1> DEFINE j == mem[p]
           r == [NextIdx(p) EXCEPT !.err = TRUE, !.cur = NoTarget]
<1>1. j \in Journal
  BY AtWork DEF RestoreRaises, Set, Goto, AtUndo, AtFile, CursorOK, AtTarget
<1>0. reg[p].idx \in 1..Len(mem[p].order)
  BY AtWork DEF RestoreRaises, CursorOK, AtTarget, AtEntry
<1>2. r \in Local /\ r.idx = reg[p].idx - 1
  <2>1. reg[p].idx > 0
    BY <1>0, AtWork, JournalFields
  <2> QED
    BY <2>1, Moved DEF Local
<1>3. ProcessOK' /\ Cursors'
  <2>1. mem' = [mem EXCEPT ![p] = j] /\ reg' = [reg EXCEPT ![p] = r]
    BY DEF TypeInv, TypeOK, ProcessOK, procVars, RestoreRaises, Set, Goto
  <2>2. pc' = [pc EXCEPT ![p] = "files"] /\ tx' = tx /\ pc[p] # "idle"
    BY DEF TypeInv, TypeOK, ProcessOK, procVars, RestoreRaises, Set, Goto, PC, Busy, Forward, Undoing, Restoring, AtUndo, AtFile
  <2>3. CursorOK("files", j, r)
    BY <1>0, <1>2, AtWork, JournalFields DEF CursorOK, AtTarget, AtEntry
  <2> QED
    BY <1>1, <1>2, <2>1, <2>2, <2>3, InnerStep DEF PC, Busy, Forward, Undoing, Restoring
<1>4. StoreOK'
  BY <1>1, SaveTyped, TypedStore, TransactionAssumption, AtWork DEF RestoreRaises, Set, Goto, StoreOK, Effect, TypeInv, TypeOK
<1>5. HistoryOK'
  BY DEF RestoreRaises, ghosts, HistoryOK, TypeInv, TypeOK
<1> QED
  BY <1>3, <1>4, <1>5 DEF TypeInv, TypeOK

\* WriteTarget keeps the types and the cursors.
LEMMA WriteTargetTyped ==
  ASSUME TypeInv, NEW p \in Proc, WriteTarget(p)
  PROVE  TypeInv'
<1>1. PICK w \in {"sign", "gap"} : pc' = [pc EXCEPT ![p] = w]
  BY DEF WriteTarget, Goto
<1>2. ProcessOK' /\ Cursors'
  <2>1. mem' = [mem EXCEPT ![p] = mem[p]] /\ reg' = [reg EXCEPT ![p] = reg[p]]
    BY DEF TypeInv, TypeOK, ProcessOK, WriteTarget
  <2>2. tx' = tx /\ pc[p] # "idle" /\ CursorOK(w, mem[p], reg[p])
    BY AtWork DEF WriteTarget, CursorOK, AtTarget, AtEntry
  <2> QED
    BY <1>1, <2>1, <2>2, AtWork, InnerStep DEF PC, Busy, Forward
<1>3. StoreOK' /\ HistoryOK'
  BY TransactionAssumption DEF WriteTarget, TypeInv, TypeOK, StoreOK, HistoryOK
<1> QED
  BY <1>2, <1>3 DEF TypeInv, TypeOK

\* StartCommand keeps the types and the cursors.
LEMMA StartCommandTyped ==
  ASSUME TypeInv, NEW p \in Proc, StartCommand(p)
  PROVE  TypeInv'
<1>1. PICK b \in BOOLEAN :
        Save(p, [mem[p] EXCEPT !.ext = Append(@,
                   [state |-> "pending", undo |-> b, undoState |-> "none"])])
  BY DEF StartCommand
<1> DEFINE c == [state |-> "pending", undo |-> b, undoState |-> "none"]
           j == [mem[p] EXCEPT !.ext = Append(@, c)]
<1>2. j \in Journal /\ Len(j.ext) > 0
  <2>1. c \in Command
    BY DEF Command
  <2>2. j \in Journal /\ Len(j.ext) = Len(mem[p].ext) + 1
    BY <2>1, AtWork, CommandAdded
  <2> QED
    BY <2>2, AtWork, JournalFields
<1>3. pc' = [pc EXCEPT ![p] = "run"] /\ tx' = tx /\ pc[p] # "idle"
  BY DEF StartCommand, Goto
<1>4. mem' = [mem EXCEPT ![p] = j] /\ journals' = [journals EXCEPT ![tx[p]] = j]
  BY <1>1 DEF Save
<1> HIDE DEF j, c
<1>5. ProcessOK' /\ Cursors'
  <2>1. reg' = [reg EXCEPT ![p] = reg[p]]
    BY DEF StartCommand, TypeInv, TypeOK, ProcessOK
  <2>2. CursorOK("run", j, reg[p])
    BY <1>2 DEF CursorOK, AtTarget, AtEntry
  <2> QED
    BY <1>2, <1>3, <1>4, <2>1, <2>2, AtWork, InnerStep DEF PC, Busy, Forward
<1>6. journals' \in [Tx -> Journal]
  BY <1>2, <1>3, <1>4, SaveTyped
<1>7. StoreOK' /\ HistoryOK'
  BY <1>6 DEF StartCommand, ghosts, TypeInv, TypeOK, StoreOK, HistoryOK
<1> QED
  BY <1>5, <1>7 DEF TypeInv, TypeOK

\* RunCommand keeps the types and the cursors.
LEMMA RunCommandTyped ==
  ASSUME TypeInv, NEW p \in Proc, RunCommand(p)
  PROVE  TypeInv'
<1>1. PICK ok \in BOOLEAN, on \in BOOLEAN :
        /\ reg' = [reg EXCEPT ![p] = [reg[p] EXCEPT !.ok = ok]]
        /\ cmd' = [cmd EXCEPT ![tx[p]][Len(mem[p].ext)].on = on]
  BY DEF RunCommand, Set
<1> DEFINE r == [reg[p] EXCEPT !.ok = ok]
<1>2. ProcessOK' /\ Cursors'
  <2>1. r \in Local
    BY AtWork, LocalUpdates
  <2>2. mem' = [mem EXCEPT ![p] = mem[p]] /\ pc' = [pc EXCEPT ![p] = "ran"] /\ tx' = tx
    BY DEF RunCommand, Goto, TypeInv, TypeOK, ProcessOK
  <2>3. pc[p] # "idle" /\ CursorOK("ran", mem[p], r)
    BY AtWork DEF RunCommand, CursorOK, AtTarget, AtEntry
  <2> QED
    BY <1>1, <2>1, <2>2, <2>3, AtWork, InnerStep DEF PC, Busy, Forward
<1>3. fs' \in [Target -> Content] /\ edit' \in [Target -> {"none", "quiet", "window"}]
  BY NativeTyped DEF RunCommand
<1>4. cmd' \in [Tx -> [1..MaxExt -> Effect]]
  BY <1>1, AtWork, EffectOn DEF RunCommand
<1>5. StoreOK' /\ HistoryOK'
  BY <1>3, <1>4 DEF RunCommand, TypeInv, TypeOK, StoreOK, HistoryOK
<1> QED
  BY <1>2, <1>5 DEF TypeInv, TypeOK

\* Going home: the process keeps nothing and loses its lock.
LEMMA LeaveTyped ==
  ASSUME TypeInv, NEW p \in Proc, Leave(p)
  PROVE  ProcessOK' /\ Cursors' /\ lock' \in Proc \union {NoProc}
<1>1. CursorOK("idle", NoJournal, NoLocal)
  BY DEF CursorOK, AtTarget, AtEntry
<1>2. ProcessOK' /\ Cursors'
  BY <1>1, EmptyJournal, EmptyLocal, ProcessStep DEF Leave, Goto, Set, PC
<1>3. lock' \in Proc \union {NoProc}
  BY DEF Leave, Release, TypeInv, TypeOK, StoreOK
<1> QED
  BY <1>2, <1>3

\* Commit keeps the types and the cursors.
LEMMA CommitTyped ==
  ASSUME TypeInv, NEW p \in Proc, Commit(p)
  PROVE  TypeInv'
<1> DEFINE j == [mem[p] EXCEPT !.status = "committed"]
<1>1. pc[p] # "idle" /\ tx[p] \in Tx
  BY AtWork DEF Commit
<1>2. j \in Journal
  BY AtWork, WithStatus DEF Status, Rollbackable
<1>3. journals' \in [Tx -> Journal]
  BY <1>1, <1>2, SaveTyped DEF Commit
<1>4. ProcessOK' /\ Cursors' /\ lock' \in Proc \union {NoProc}
  BY LeaveTyped DEF Commit
<1> QED
  BY <1>1, <1>3, <1>4 DEF Commit, TypeInv, TypeOK, StoreOK, HistoryOK

\* LateError keeps the types and the cursors.
LEMMA LateErrorTyped ==
  ASSUME TypeInv, NEW p \in Proc, LateError(p)
  PROVE  TypeInv'
<1> DEFINE j == [mem[p] EXCEPT !.status = "committed"]
<1>1. pc[p] # "idle" /\ tx[p] \in Tx
  BY AtWork DEF LateError
<1>2. j \in Journal
  BY AtWork, WithStatus DEF Status, Rollbackable
<1>3. mem' = [mem EXCEPT ![p] = j]
  BY DEF LateError, Save
<1>4. journals' \in [Tx -> Journal]
  <2>1. CASE journals' = [journals EXCEPT ![tx[p]] = j]
    BY <1>1, <1>2, <2>1, SaveTyped
  <2>2. CASE UNCHANGED journals
    BY <2>2, TypedStore
  <2> QED
    BY <2>1, <2>2 DEF LateError, Save
<1>5. kept' \subseteq Tx
  BY <1>1 DEF LateError, TypeInv, TypeOK, HistoryOK
<1>6. lock' \in Proc \union {NoProc}
  BY DEF LateError, Release, TypeInv, TypeOK, StoreOK
<1>7. ProcessOK' /\ Cursors'
  <2>1. /\ reg' = [reg EXCEPT ![p] = reg[p]] /\ tx' = tx
        /\ pc' = [pc EXCEPT ![p] = "failed"]
    BY DEF LateError, Goto, TypeInv, TypeOK, ProcessOK
  <2>2. CursorOK("failed", j, reg[p])
    BY DEF CursorOK, AtTarget, AtEntry
  <2> HIDE DEF j
  <2> QED
    BY <1>1, <1>2, <1>3, <2>1, <2>2, AtWork, InnerStep DEF PC, Busy
<1> QED
  BY <1>4, <1>5, <1>6, <1>7 DEF LateError, TypeInv, TypeOK, StoreOK, HistoryOK

\* Crash keeps the types and the cursors.
LEMMA CrashTyped ==
  ASSUME TypeInv, NEW p \in Proc, Crash(p)
  PROVE  TypeInv'
<1>1. ProcessOK' /\ Cursors' /\ lock' \in Proc \union {NoProc}
  BY LeaveTyped DEF Crash
<1> QED
  BY <1>1 DEF Crash, ghosts, TypeInv, TypeOK, StoreOK, HistoryOK

\* Begin keeps the types and the cursors.
LEMMA BeginTyped ==
  ASSUME TypeInv, NEW p \in Proc, Begin(p)
  PROVE  TypeInv'
<1>1. PICK i \in Tx, b \in BOOLEAN :
        LET j == [NoJournal EXCEPT !.status = "active", !.preserve = b] IN
        /\ tx' = [tx EXCEPT ![p] = i]
        /\ mem' = [mem EXCEPT ![p] = j]
        /\ journals' = [journals EXCEPT ![i] = j]
        /\ pre' = [pre EXCEPT ![i] = fs]
  BY DEF Begin
<1> DEFINE j == [NoJournal EXCEPT !.status = "active", !.preserve = b]
<1>2. j \in Journal
  BY EmptyJournal DEF Journal, Status, Rollbackable, Unfinished
<1>3. ProcessOK' /\ Cursors'
  <2>1. reg' = [reg EXCEPT ![p] = reg[p]] /\ pc' = [pc EXCEPT ![p] = "open"]
    BY DEF Begin, Goto, TypeInv, TypeOK, ProcessOK
  <2>2. CursorOK("open", j, reg[p]) /\ i # 0
    BY DEF CursorOK, AtTarget, AtEntry, Tx
  <2> HIDE DEF j
  <2> QED
    BY <1>1, <1>2, <2>1, <2>2, AtWork, ProcessStep DEF PC, Busy, Forward, j
<1>4. journals' \in [Tx -> Journal] /\ pre' \in [Tx -> [Target -> Content]]
  BY <1>1, <1>2, TypedStore DEF TypeInv, TypeOK, HistoryOK
<1> QED
  BY <1>3, <1>4 DEF Begin, TypeInv, TypeOK, StoreOK, HistoryOK

\* RollBackSaved keeps the types and the cursors.
LEMMA RollBackSavedTyped ==
  ASSUME TypeInv, NEW p \in Proc, RollBackSaved(p)
  PROVE  TypeInv'
<1>1. PICK i \in Tx :
        LET j == [journals[i] EXCEPT
                    !.manual = WasCommitted(journals[i]), !.status = "rolling_back"] IN
        /\ tx' = [tx EXCEPT ![p] = i]
        /\ mem' = [mem EXCEPT ![p] = j]
        /\ journals' = [journals EXCEPT ![i] = j]
        /\ reg' = [reg EXCEPT ![p] = [NoLocal EXCEPT !.idx = Len(j.ext), !.saved = TRUE]]
  BY DEF RollBackSaved, Set
<1> DEFINE j == [journals[i] EXCEPT
                   !.manual = WasCommitted(journals[i]), !.status = "rolling_back"]
           r == [NoLocal EXCEPT !.idx = Len(j.ext), !.saved = TRUE]
<1>2. j \in Journal
  <2>1. journals[i] \in Journal /\ "rolling_back" \in Status
    BY TypedStore DEF Status, Rollbackable, Unfinished
  <2> QED
    BY <2>1 DEF Journal, WasCommitted
<1> HIDE DEF j
<1>3. r \in Local /\ r.idx = Len(j.ext)
  <2>1. Len(j.ext) \in Nat
    BY <1>2, JournalFields
  <2> QED
    BY <2>1 DEF NoLocal, Local
<1>4. ProcessOK' /\ Cursors'
  <2>1. pc' = [pc EXCEPT ![p] = "undo"] /\ i # 0
    BY DEF RollBackSaved, Goto, Tx
  <2>2. CursorOK("undo", j, r)
    BY <1>2, <1>3, JournalFields DEF CursorOK, AtTarget, AtEntry
  <2>3. mem' = [mem EXCEPT ![p] = j] /\ reg' = [reg EXCEPT ![p] = r]
    BY <1>1 DEF j
  <2> HIDE DEF r
  <2> QED
    BY <1>1, <1>2, <1>3, <2>1, <2>2, <2>3, ProcessStep DEF PC, Busy, Undoing
<1>5. journals' \in [Tx -> Journal]
  BY <1>1, <1>2, TypedStore DEF j
<1> QED
  BY <1>4, <1>5 DEF RollBackSaved, ghosts, TypeInv, TypeOK, StoreOK, HistoryOK

\* A loop step that only moves the cursor at w.
LEMMA PassTyped ==
  ASSUME TypeInv, NEW p \in Proc, NEW r \in Local, pc[p] \in {"undo", "files"},
         reg[p].idx > 0, r.idx = reg[p].idx - 1, reg' = [reg EXCEPT ![p] = r],
         UNCHANGED <<fs, journals, lock, pc, tx, mem, cmd, used, ghosts>>
  PROVE  TypeInv'
<1>1. ProcessOK' /\ Cursors'
  <2>1. mem' = [mem EXCEPT ![p] = mem[p]] /\ pc' = [pc EXCEPT ![p] = pc[p]] /\ tx' = tx
    BY DEF TypeInv, TypeOK, ProcessOK
  <2>2. reg[p].idx \in Nat /\ CursorOK(pc[p], mem[p], reg[p]) /\ mem[p] \in Journal
    BY AtWork, LocalUpdates DEF Local
  <2>3. CursorOK(pc[p], mem[p], r)
    BY <2>2, JournalFields DEF CursorOK, AtTarget, AtEntry
  <2> QED
    BY <2>1, <2>2, <2>3, InnerStep DEF PC, Busy, Undoing, Restoring
<1> QED
  BY <1>1 DEF ghosts, TypeInv, TypeOK, StoreOK, HistoryOK

\* PassUndo keeps the types and the cursors.
LEMMA PassUndoTyped ==
  ASSUME TypeInv, NEW p \in Proc, PassUndo(p)
  PROVE  TypeInv'
<1>1. pc[p] = "undo" /\ reg[p].idx > 0
  BY DEF PassUndo, AtUndo
<1>2. PICK r : reg' = [reg EXCEPT ![p] = r] /\
        \/ r = [NextIdx(p) EXCEPT !.err = @ \/ TheCommand(p).undoState = "running"]
        \/ r = [NextIdx(p) EXCEPT !.err = TRUE, !.conflict = TRUE]
  BY DEF PassUndo, Set
<1>3. r \in Local /\ r.idx = reg[p].idx - 1
  BY <1>1, <1>2, Moved DEF Local
<1> QED
  BY <1>1, <1>2, <1>3, PassTyped DEF PassUndo

\* PassFile keeps the types and the cursors.
LEMMA PassFileTyped ==
  ASSUME TypeInv, NEW p \in Proc, PassFile(p)
  PROVE  TypeInv'
<1>1. pc[p] = "files" /\ reg[p].idx > 0
  BY DEF PassFile, AtFile
<1>2. PICK r : reg' = [reg EXCEPT ![p] = r] /\
        (r = NextIdx(p) \/ r = [NextIdx(p) EXCEPT !.err = TRUE])
  BY DEF PassFile, Set
<1>3. r \in Local /\ r.idx = reg[p].idx - 1
  BY <1>1, <1>2, Moved DEF Local
<1> QED
  BY <1>1, <1>2, <1>3, PassTyped DEF PassFile

\* RunUndo keeps the types and the cursors.
LEMMA RunUndoTyped ==
  ASSUME TypeInv, NEW p \in Proc, RunUndo(p)
  PROVE  TypeInv'
<1>1. PICK ok \in BOOLEAN : reg' = [reg EXCEPT ![p] = [reg[p] EXCEPT !.ok = ok]]
  BY DEF RunUndo, Set
<1> DEFINE r == [reg[p] EXCEPT !.ok = ok]
<1>2. ProcessOK' /\ Cursors'
  <2>1. r \in Local /\ r.idx = reg[p].idx
    BY AtWork, LocalUpdates DEF Local
  <2>2. mem' = [mem EXCEPT ![p] = mem[p]] /\ pc' = [pc EXCEPT ![p] = "undone"] /\ tx' = tx
    BY DEF RunUndo, Goto, TypeInv, TypeOK, ProcessOK
  <2>3. pc[p] # "idle" /\ CursorOK("undone", mem[p], r)
    BY <2>1, AtWork DEF RunUndo, CursorOK, AtTarget, AtEntry
  <2> QED
    BY <1>1, <2>1, <2>2, <2>3, AtWork, InnerStep DEF PC, Busy, Undoing
<1>3. fs' \in [Target -> Content] /\ edit' \in [Target -> {"none", "quiet", "window"}]
  BY NativeTyped DEF RunUndo
<1>4. cmd' \in [Tx -> [1..MaxExt -> Effect]]
  BY AtWork, EffectUndone DEF RunUndo
<1>5. StoreOK' /\ HistoryOK'
  BY <1>3, <1>4 DEF RunUndo, TypeInv, TypeOK, StoreOK, HistoryOK
<1> QED
  BY <1>2, <1>5 DEF TypeInv, TypeOK

\* Where the undo loop stands while a command runs.
LEMMA AtCommand ==
  ASSUME TypeInv, NEW p \in Proc, pc[p] \in {"undoing", "undone"}
  PROVE  reg[p].idx \in 1..Len(mem[p].ext) /\ reg[p].idx > 0
<1>1. reg[p].idx \in 1..Len(mem[p].ext) /\ Len(mem[p].ext) \in Nat
  BY AtWork, JournalFields DEF CursorOK
<1> QED
  BY <1>1

\* RecordUndo keeps the types and the cursors.
LEMMA RecordUndoTyped ==
  ASSUME TypeInv, NEW p \in Proc, RecordUndo(p)
  PROVE  TypeInv'
<1> DEFINE j == [mem[p] EXCEPT !.ext[reg[p].idx].undoState =
                   IF reg[p].ok THEN "applied" ELSE "failed"]
           Redo(t) == LET e == [j.file[t] EXCEPT !.applied = fs[t]]
                      IN IF e.restored
                         THEN [e EXCEPT !.restored = FALSE, !.restoring = FALSE] ELSE e
           f == [t \in Target |-> IF t \notin Watched(j) THEN j.file[t] ELSE Redo(t)]
           k == [j EXCEPT !.file = f]
           r == [NextIdx(p) EXCEPT !.err = @ \/ ~reg[p].ok]
<1>1. pc[p] = "undone" /\ reg[p].idx \in 1..Len(mem[p].ext) /\ reg[p].idx > 0
  BY AtCommand DEF RecordUndo
<1>2. j \in Journal /\ Len(j.ext) = Len(mem[p].ext)
  BY <1>1, AtWork, CommandSaved
<1> HIDE DEF j
<1>3. k \in Journal /\ k.ext = j.ext
  <2>1. ASSUME NEW t \in Target
        PROVE  j.file[t] \in Entry /\ Redo(t) \in Entry
    BY <1>2, JournalFields, EntryUpdates, TypedStore
  <2> HIDE DEF Redo
  <2>2. f \in [Target -> Entry]
    BY <2>1
  <2> HIDE DEF f
  <2> QED
    BY <1>2, <2>2, WithFile DEF Journal
<1>4. r \in Local /\ r.idx = reg[p].idx - 1
  <2>1. NextIdx(p) \in Local /\ NextIdx(p).idx = reg[p].idx - 1 /\ reg[p] \in Local
    BY <1>1, Moved, AtWork
  <2> DEFINE b == NextIdx(p).err \/ ~reg[p].ok
  <2>2. b \in BOOLEAN
    OBVIOUS
  <2>3. r = [NextIdx(p) EXCEPT !.err = b]
    OBVIOUS
  <2> HIDE DEF b, r
  <2> QED
    BY <2>1, <2>2, <2>3 DEF Local
<1>5. mem' = [mem EXCEPT ![p] = k] /\ journals' = [journals EXCEPT ![tx[p]] = k]
  BY DEF RecordUndo, Save, j
<1>6. /\ reg' = [reg EXCEPT ![p] = r] /\ pc' = [pc EXCEPT ![p] = "undo"]
      /\ tx' = tx /\ pc[p] # "idle"
  BY DEF RecordUndo, Set, Goto
<1> HIDE DEF k, r
<1>7. ProcessOK' /\ Cursors'
  <2>1. CursorOK("undo", k, r)
    BY <1>1, <1>2, <1>3, <1>4, AtWork, JournalFields DEF CursorOK, AtTarget, AtEntry
  <2> QED
    BY <1>3, <1>4, <1>5, <1>6, <2>1, InnerStep DEF PC, Busy, Undoing
<1>8. journals' \in [Tx -> Journal]
  BY <1>3, <1>5, <1>6, SaveTyped
<1>9. StoreOK' /\ HistoryOK'
  BY <1>8 DEF RecordUndo, ghosts, TypeInv, TypeOK, StoreOK, HistoryOK
<1> QED
  BY <1>7, <1>9 DEF TypeInv, TypeOK

\* UndoRaises keeps the types and the cursors.
LEMMA UndoRaisesTyped ==
  ASSUME TypeInv, NEW p \in Proc, UndoRaises(p)
  PROVE  TypeInv'
<1> DEFINE r == [NextIdx(p) EXCEPT !.err = TRUE]
<1>1. pc[p] = "undoing" /\ reg[p].idx \in 1..Len(mem[p].ext) /\ reg[p].idx > 0
  BY AtCommand DEF UndoRaises
<1>2. r \in Local /\ r.idx = reg[p].idx - 1
  BY <1>1, Moved DEF Local
<1>3. ProcessOK' /\ Cursors'
  <2>1. /\ mem' = [mem EXCEPT ![p] = mem[p]] /\ pc' = [pc EXCEPT ![p] = "undo"]
        /\ reg' = [reg EXCEPT ![p] = r] /\ tx' = tx
    BY DEF UndoRaises, Goto, Set, TypeInv, TypeOK, ProcessOK
  <2>2. CursorOK("undo", mem[p], r)
    BY <1>1, <1>2, AtWork, JournalFields DEF CursorOK, AtTarget, AtEntry
  <2> QED
    BY <1>1, <1>2, <2>1, <2>2, AtWork, InnerStep DEF PC, Busy, Undoing
<1>4. fs' \in [Target -> Content] /\ edit' \in [Target -> {"none", "quiet", "window"}]
  BY NativeTyped DEF UndoRaises
<1>5. cmd' \in [Tx -> [1..MaxExt -> Effect]]
  BY <1>1, AtWork, EffectUndone DEF UndoRaises
<1>6. StoreOK' /\ HistoryOK'
  BY <1>4, <1>5 DEF UndoRaises, TypeInv, TypeOK, StoreOK, HistoryOK
<1> QED
  BY <1>3, <1>6 DEF TypeInv, TypeOK

\* FinishRollback keeps the types and the cursors.
LEMMA FinishRollbackTyped ==
  ASSUME TypeInv, NEW p \in Proc, FinishRollback(p)
  PROVE  TypeInv'
<1>1. [mem[p] EXCEPT !.status = FinalStatus(p)] \in Journal
  BY AtWork, WithStatus DEF FinalStatus, Status, Rollbackable, Unfinished, Reverted
<1>2. journals' \in [Tx -> Journal]
  BY <1>1, SaveTyped DEF FinishRollback
<1>3. ProcessOK' /\ Cursors' /\ lock' \in Proc \union {NoProc}
  BY LeaveTyped DEF FinishRollback
<1> QED
  BY <1>2, <1>3 DEF FinishRollback, ghosts, TypeInv, TypeOK, StoreOK, HistoryOK

\* UserEdit keeps the types and the cursors.
LEMMA UserEditTyped ==
  ASSUME TypeInv, NEW t \in Target, UserEdit(t)
  PROVE  TypeInv'
<1>1. PICK c \in Edits :
        /\ fs' = [fs EXCEPT ![t] = c]
        /\ pre' = [i \in Tx |->
             IF /\ journals[i].status = "active" /\ t \notin Tracked(journals[i])
                /\ fs[t] = pre[i][t]
             THEN [pre[i] EXCEPT ![t] = c] ELSE pre[i]]
  BY DEF UserEdit
<1>2. c \in Content
  BY TransactionAssumption
<1>3. pre' \in [Tx -> [Target -> Content]]
  BY <1>1, <1>2 DEF TypeInv, TypeOK, HistoryOK
<1>4. edit' \in [Target -> {"none", "quiet", "window"}]
  BY DEF UserEdit, TypeInv, TypeOK, HistoryOK
<1>5. StoreOK'
  BY <1>1, <1>2 DEF UserEdit, TypeInv, TypeOK, StoreOK
<1>6. ProcessOK' /\ Cursors'
  BY DEF UserEdit, procVars, TypeInv, TypeOK, ProcessOK, Cursors
<1> QED
  BY <1>3, <1>4, <1>5, <1>6 DEF UserEdit, TypeInv, TypeOK, HistoryOK

\* The initial states are typed.
LEMMA InitTyped == Init => TypeInv
<1> SUFFICES ASSUME Init PROVE TypeInv
  OBVIOUS
<1>1. ProcessOK
  BY EmptyJournal, EmptyLocal DEF Init, ProcessOK, PC, Tx
<1>2. Cursors
  BY DEF Init, Cursors, CursorOK, AtTarget, AtEntry
<1>3. NoEffect \in Effect
  BY DEF NoEffect, Effect
<1>4. fs \in [Target -> Content]
  BY TransactionAssumption DEF Init
<1>5. StoreOK /\ HistoryOK
  BY <1>3, <1>4, EmptyJournal DEF Init, StoreOK, HistoryOK
<1> QED
  BY <1>1, <1>2, <1>5 DEF TypeInv, TypeOK

\* Every step keeps the types and the cursors.
LEMMA NextTyped == TypeInv /\ [Next]_vars => TypeInv'
<1> SUFFICES ASSUME TypeInv, [Next]_vars PROVE TypeInv'
  OBVIOUS
<1>1. ASSUME NEW p \in Proc, Body(p) PROVE TypeInv'
  BY <1>1, BackupTyped, StartWriteTyped, WatchTyped, NestedWriteTyped, TrackCreatedTyped,
     WriteTargetTyped, SignTyped, CaptureTyped, StartCommandTyped, RunCommandTyped,
     RecordCommandTyped, RefreshConfigTyped, OnRollbackTyped, FailTyped DEF Body
<1>2. ASSUME NEW p \in Proc, Ending(p) PROVE TypeInv'
  BY <1>2, CommitTyped, LateErrorTyped, CrashTyped DEF Ending
<1>3. ASSUME NEW p \in Proc, Begin(p) \/ RollBack(p) \/ RollBackSaved(p) PROVE TypeInv'
  BY <1>3, BeginTyped, RollBackTyped, RollBackSavedTyped
<1>4. ASSUME NEW p \in Proc, Undo(p) PROVE TypeInv'
  BY <1>4, PassUndoTyped, StartUndoTyped, RunUndoTyped, RecordUndoTyped,
     UndoRaisesTyped, UndosDoneTyped DEF Undo
<1>5. ASSUME NEW p \in Proc, Restore(p) PROVE TypeInv'
  BY <1>5, PassFileTyped, FinishRestoredTyped, StartRestoreTyped, RemoveTargetTyped,
     PutOriginalTyped, MarkRestoredTyped, RestoreRaisesTyped, FinishRollbackTyped DEF Restore
<1>6. ASSUME NEW t \in Target, UserEdit(t) PROVE TypeInv'
  BY <1>6, UserEditTyped
<1>7. ASSUME UNCHANGED vars PROVE TypeInv'
  BY <1>7 DEF vars, procVars, ghosts, TypeInv, TypeOK, StoreOK, ProcessOK, HistoryOK, Cursors
<1> QED
  BY <1>1, <1>2, <1>3, <1>4, <1>5, <1>6, <1>7 DEF Next

\* Types and cursor bounds hold in every reachable state.
LEMMA TypeInvariant == Spec => []TypeInv
<1>1. Init => TypeInv
  BY InitTyped
<1>2. TypeInv /\ [Next]_vars => TypeInv'
  BY NextTyped
<1> QED
  BY <1>1, <1>2, PTL DEF Spec

\* Every variable of the transaction layer keeps its type, for any number of
\* processes, targets, transactions, edits, crashes and faults.
THEOREM TypeCorrect == Spec => []TypeOK
<1>1. TypeInv => TypeOK
  BY DEF TypeInv
<1> QED
  BY <1>1, TypeInvariant, PTL

----------------------------------------------------------------------------
(* The lock, the ledger, the undos and the files. *)

IInv == TypeInv /\ LedgerInv

\* What the ledger reads of a journal.
SameHead(j, k) ==
  k.status = j.status /\ k.manual = j.manual /\ k.preserve = j.preserve

\* Process p goes on inside its operation.
Onward(p) ==
  /\ pc[p] # "idle"
  /\ UNCHANGED <<lock, tx, kept>>
  /\ \E w \in Busy :
       /\ pc' = [pc EXCEPT ![p] = w]
       /\ w \in Forwards <=> pc[p] \in Forwards
       /\ w \in {"removing", "putting"} => ~Preserved(p, reg[p].cur)'
  /\ \E j : /\ SameHead(mem[p], j)
            /\ mem' = [mem EXCEPT ![p] = j]
            /\ journals' = [journals EXCEPT ![tx[p]] = j]
  /\ \E r : reg' = [reg EXCEPT ![p] = r] /\ r.saved = reg[p].saved

----------------------------------------------------------------------------
(* Steps that go onward *)

\* Changing entries or commands of a journal leaves its head alone.
LEMMA HeadKept ==
  ASSUME NEW j \in Journal, NEW f, NEW e, NEW o
  PROVE  /\ SameHead(j, j)
         /\ SameHead(j, [j EXCEPT !.file = f])
         /\ SameHead(j, [j EXCEPT !.ext = e])
         /\ SameHead(j, [j EXCEPT !.order = o, !.file = f])
  BY DEF SameHead, Journal

\* The same for the nested updates the actions write.
LEMMA NestedHeadKept ==
  ASSUME NEW j \in Journal, NEW t, NEW c, NEW k
  PROVE  /\ SameHead(j, [j EXCEPT !.file[t].applied = c])
         /\ SameHead(j, [j EXCEPT !.file[t].restoring = TRUE])
         /\ SameHead(j, [j EXCEPT !.file[t].restored = TRUE, !.file[t].restoring = FALSE])
         /\ SameHead(j, [j EXCEPT !.ext[k].state = c])
         /\ SameHead(j, [j EXCEPT !.ext[k].undoState = c])
         /\ SameHead(j, [j EXCEPT !.ext = Append(@, c)])
  BY DEF SameHead, Journal

\* Opening an entry, and signing the watched files again.
LEMMA EntryHeadKept ==
  ASSUME NEW j \in Journal, NEW t, NEW b
  PROVE  SameHead(j, BackedUp(j, t, b)) /\ SameHead(j, Refreshed(j))
  BY DEF SameHead, Journal, BackedUp, Refreshed

\* A process that keeps its journal and only moves: all it needs to go onward.
LEMMA Moves ==
  ASSUME IInv, NEW p \in Proc, pc[p] # "idle", NEW w \in Busy, NEW r,
         pc' = [pc EXCEPT ![p] = w], w \in Forwards <=> pc[p] \in Forwards,
         w \in {"removing", "putting"} => ~Preserved(p, reg[p].cur)',
         UNCHANGED <<lock, tx, kept, journals, mem>>,
         reg' = [reg EXCEPT ![p] = r], r.saved = reg[p].saved
  PROVE  Onward(p)
<1>1. /\ mem[p] \in Journal /\ journals[tx[p]] = mem[p] /\ tx[p] \in Tx
      /\ journals \in [Tx -> Journal] /\ mem \in [Proc -> Journal]
  BY AtWork DEF IInv, LedgerInv, Holds, TypeInv, TypeOK, StoreOK, ProcessOK
<1>2. mem' = [mem EXCEPT ![p] = mem[p]] /\ journals' = [journals EXCEPT ![tx[p]] = mem[p]]
  BY <1>1
<1>3. SameHead(mem[p], mem[p])
  BY DEF SameHead
<1> QED
  BY <1>2, <1>3 DEF Onward

\* A process that saves its journal with the head unchanged.
LEMMA Saves ==
  ASSUME IInv, NEW p \in Proc, pc[p] # "idle", NEW w \in Busy, NEW r, NEW j,
         pc' = [pc EXCEPT ![p] = w], w \in Forwards <=> pc[p] \in Forwards,
         w \in {"removing", "putting"} => ~Preserved(p, reg[p].cur)',
         UNCHANGED <<lock, tx, kept>>, Save(p, j), SameHead(mem[p], j),
         reg' = [reg EXCEPT ![p] = r], r.saved = reg[p].saved
  PROVE  Onward(p)
  BY DEF Onward, Save


\* The body of an operation.
LEMMA BodyOnward ==
  ASSUME IInv, NEW p \in Proc, Body(p)
  PROVE  Onward(p)
<1> DEFINE r == reg[p]
<1>0. mem[p] \in Journal /\ reg[p] \in Local /\ reg \in [Proc -> Local] /\ pc \in [Proc -> PC]
  BY DEF IInv, TypeInv, TypeOK, ProcessOK
<1>1. r.saved = reg[p].saved /\ reg = [reg EXCEPT ![p] = r] /\ pc = [pc EXCEPT ![p] = pc[p]]
  BY <1>0
<1>2. \A v : [reg[p] EXCEPT !.cur = v].saved = reg[p].saved
  BY <1>0 DEF Local
<1>3. \A v : [reg[p] EXCEPT !.ok = v].saved = reg[p].saved
  BY <1>0 DEF Local
<1>4. \A w \in Forwards : w \in Busy /\ w # "idle" /\ w \notin {"removing", "putting"}
  BY DEF Forwards, Busy, Forward
<1>5. \A w \in Forward \union {"failed"} : w \in Forwards
  BY DEF Forwards
<1>6. ASSUME NEW t \in Target, Backup(p, t) PROVE Onward(p)
  <2>1. SameHead(mem[p], BackedUp(mem[p], t, FALSE)) /\ "open" \in Forwards
    BY <1>0, EntryHeadKept DEF Forwards, Forward
  <2> QED
    BY <1>1, <1>4, <1>6, <2>1, Saves DEF Backup
<1>7. ASSUME NEW t \in Target, StartWrite(p, t) PROVE Onward(p)
  <2>1. SameHead(mem[p], BackedUp(mem[p], t, FALSE)) /\ {"open", "write"} \subseteq Forwards
    BY <1>0, EntryHeadKept DEF Forwards, Forward
  <2> QED
    BY <1>2, <1>4, <1>7, <2>1, Saves DEF StartWrite, Set, Goto
<1>8. ASSUME NEW t \in Target, Watch(p, t) PROVE Onward(p)
  <2>1. SameHead(mem[p], BackedUp(mem[p], t, TRUE)) /\ {"open", "sign"} \subseteq Forwards
    BY <1>0, EntryHeadKept DEF Forwards, Forward
  <2> QED
    BY <1>2, <1>4, <1>8, <2>1, Saves DEF Watch, Set, Goto
<1>9. ASSUME NEW t \in Target, NestedWrite(p, t) PROVE Onward(p)
  <2>1. "open" \in Forwards
    BY DEF Forwards, Forward
  <2> QED
    BY <1>1, <1>4, <1>9, <2>1, Moves DEF NestedWrite, procVars
<1>10. ASSUME NEW t \in Target, TrackCreated(p, t) PROVE Onward(p)
  <2> DEFINE j == [mem[p] EXCEPT !.order = Append(@, t), !.file[t] = [NoEntry EXCEPT !.applied = fs[t]]]
  <2>1. SameHead(mem[p], j)
    BY <1>0 DEF SameHead, Journal
  <2>2. "open" \in Forwards
    BY DEF Forwards, Forward
  <2>3. Save(p, j)
    BY <1>10 DEF TrackCreated
  <2> HIDE DEF j
  <2> QED
    BY <1>1, <1>4, <1>10, <2>1, <2>2, <2>3, Saves DEF TrackCreated, ghosts
<1>11. CASE WriteTarget(p)
  <2>1. PICK w \in {"sign", "gap"} : pc' = [pc EXCEPT ![p] = w]
    BY <1>11 DEF WriteTarget, Goto
  <2>2. {"write", "gap", "sign"} \subseteq Forwards
    BY DEF Forwards, Forward
  <2> QED
    BY <1>1, <1>4, <1>11, <2>1, <2>2, Moves DEF WriteTarget
<1>12. CASE Sign(p)
  <2> DEFINE j == [mem[p] EXCEPT !.file[reg[p].cur].applied = fs[reg[p].cur]]
  <2>1. SameHead(mem[p], j)
    BY <1>0, NestedHeadKept
  <2>2. {"open", "sign"} \subseteq Forwards
    BY DEF Forwards, Forward
  <2>3. Save(p, j)
    BY <1>12 DEF Sign
  <2> HIDE DEF j
  <2> QED
    BY <1>2, <1>4, <1>12, <2>1, <2>2, <2>3, Saves DEF Sign, Set, Goto, ghosts
<1>13. CASE Capture(p)
  <2>1. PICK f : Save(p, [mem[p] EXCEPT !.file = f])
    BY <1>13 DEF Capture
  <2>2. SameHead(mem[p], [mem[p] EXCEPT !.file = f]) /\ "open" \in Forwards
    BY <1>0, HeadKept DEF Forwards, Forward
  <2> QED
    BY <1>1, <1>4, <1>13, <2>1, <2>2, Saves DEF Capture, ghosts
<1>14. CASE StartCommand(p)
  <2>1. PICK c : Save(p, [mem[p] EXCEPT !.ext = Append(@, c)])
    BY <1>14 DEF StartCommand
  <2>2. SameHead(mem[p], [mem[p] EXCEPT !.ext = Append(@, c)]) /\ {"open", "run"} \subseteq Forwards
    BY <1>0, NestedHeadKept DEF Forwards, Forward
  <2> QED
    BY <1>1, <1>4, <1>14, <2>1, <2>2, Saves DEF StartCommand, Goto, ghosts
<1>15. CASE RunCommand(p)
  <2>1. PICK ok : reg' = [reg EXCEPT ![p] = [reg[p] EXCEPT !.ok = ok]]
    BY <1>15 DEF RunCommand, Set
  <2>2. {"run", "ran"} \subseteq Forwards
    BY DEF Forwards, Forward
  <2> QED
    BY <1>3, <1>4, <1>15, <2>1, <2>2, Moves DEF RunCommand, Goto
<1>16. CASE RecordCommand(p)
  <2>1. PICK s : Save(p, [mem[p] EXCEPT !.ext[Len(mem[p].ext)].state = s])
    BY <1>16 DEF RecordCommand
  <2>2. SameHead(mem[p], [mem[p] EXCEPT !.ext[Len(mem[p].ext)].state = s])
    BY <1>0, NestedHeadKept
  <2>3. {"ran", "refresh"} \subseteq Forwards
    BY DEF Forwards, Forward
  <2> QED
    BY <1>1, <1>4, <1>16, <2>1, <2>2, <2>3, Saves DEF RecordCommand, Goto, ghosts
<1>17. CASE RefreshConfig(p)
  <2>1. PICK w \in {"open", "failed"} : pc' = [pc EXCEPT ![p] = w]
    BY <1>17 DEF RefreshConfig, Goto
  <2>2. SameHead(mem[p], Refreshed(mem[p])) /\ {"open", "failed", "refresh"} \subseteq Forwards
    BY <1>0, EntryHeadKept DEF Forwards, Forward
  <2> QED
    BY <1>1, <1>4, <1>17, <2>1, <2>2, Saves DEF RefreshConfig, ghosts
<1>18. CASE OnRollback(p)
  <2>1. PICK c : Save(p, [mem[p] EXCEPT !.ext = Append(@, c)])
    BY <1>18 DEF OnRollback
  <2>2. SameHead(mem[p], [mem[p] EXCEPT !.ext = Append(@, c)]) /\ "open" \in Forwards
    BY <1>0, NestedHeadKept DEF Forwards, Forward
  <2> QED
    BY <1>1, <1>4, <1>18, <2>1, <2>2, Saves DEF OnRollback, ghosts
<1>19. CASE Fail(p)
  <2>1. pc[p] \in Forwards /\ "failed" \in Forwards
    BY <1>19 DEF Fail, Forwards
  <2> QED
    BY <1>1, <1>4, <1>19, <2>1, Moves DEF Fail, Goto, ghosts
<1> QED
  BY <1>6, <1>7, <1>8, <1>9, <1>10, <1>11, <1>12, <1>13, <1>14, <1>15, <1>16, <1>17,
     <1>18, <1>19 DEF Body

\* The undo loop.
LEMMA UndoOnward ==
  ASSUME IInv, NEW p \in Proc, Undo(p)
  PROVE  Onward(p)
<1>1. mem[p] \in Journal /\ reg[p] \in Local /\ reg \in [Proc -> Local] /\ pc \in [Proc -> PC]
  BY DEF IInv, TypeInv, TypeOK, ProcessOK
<1>2. \A w \in {"undo", "undoing", "undone", "files"} :
        w \in Busy /\ w # "idle" /\ w \notin Forwards /\ w \notin {"removing", "putting"}
  BY DEF Forwards, Forward, Busy, Undoing, Restoring
<1>3. /\ \A v : [reg[p] EXCEPT !.ok = v].saved = reg[p].saved
      /\ \A v : [reg[p] EXCEPT !.idx = v].saved = reg[p].saved
      /\ \A v : [NextIdx(p) EXCEPT !.err = v].saved = reg[p].saved
      /\ \A v, w : [NextIdx(p) EXCEPT !.err = v, !.conflict = w].saved = reg[p].saved
  BY <1>1 DEF NextIdx, Local
<1>4. CASE PassUndo(p)
  <2>1. PICK v, w : \/ reg' = [reg EXCEPT ![p] = [NextIdx(p) EXCEPT !.err = v]]
                    \/ reg' = [reg EXCEPT ![p] = [NextIdx(p) EXCEPT !.err = v, !.conflict = w]]
    BY <1>4 DEF PassUndo, Set
  <2>2. PICK r : reg' = [reg EXCEPT ![p] = r] /\ r.saved = reg[p].saved
    <3> DEFINE a == [NextIdx(p) EXCEPT !.err = v]
               b == [NextIdx(p) EXCEPT !.err = v, !.conflict = w]
    <3>1. a.saved = reg[p].saved /\ b.saved = reg[p].saved
      BY <1>3
    <3>2. reg' = [reg EXCEPT ![p] = a] \/ reg' = [reg EXCEPT ![p] = b]
      BY <2>1
    <3> HIDE DEF a, b
    <3> QED
      BY <3>1, <3>2
  <2>3. pc[p] = "undo" /\ pc' = [pc EXCEPT ![p] = "undo"]
    BY <1>1, <1>4 DEF PassUndo, AtUndo
  <2> QED
    BY <1>2, <1>4, <2>2, <2>3, Moves DEF PassUndo, ghosts
<1>5. CASE StartUndo(p)
  <2>1. SameHead(mem[p], [mem[p] EXCEPT !.ext[reg[p].idx].undoState = "running"])
    BY <1>1, NestedHeadKept
  <2>2. reg' = [reg EXCEPT ![p] = reg[p]] /\ pc' = [pc EXCEPT ![p] = "undoing"] /\ pc[p] = "undo"
    BY <1>1, <1>5 DEF StartUndo, Goto, AtUndo
  <2> QED
    BY <1>2, <1>5, <2>1, <2>2, Saves DEF StartUndo, ghosts
<1>6. CASE RunUndo(p)
  <2>1. PICK v : reg' = [reg EXCEPT ![p] = [reg[p] EXCEPT !.ok = v]]
    BY <1>6 DEF RunUndo, Set
  <2> QED
    BY <1>2, <1>3, <1>6, <2>1, Moves DEF RunUndo, Goto
<1>7. CASE RecordUndo(p)
  <2>1. PICK s, f : Save(p, [[mem[p] EXCEPT !.ext[reg[p].idx].undoState = s] EXCEPT !.file = f])
    BY <1>7 DEF RecordUndo
  <2> DEFINE k == [[mem[p] EXCEPT !.ext[reg[p].idx].undoState = s] EXCEPT !.file = f]
  <2>2. SameHead(mem[p], k)
    BY <1>1 DEF SameHead, Journal
  <2>3. PICK v : reg' = [reg EXCEPT ![p] = [NextIdx(p) EXCEPT !.err = v]]
    BY <1>7 DEF RecordUndo, Set
  <2>4. pc[p] = "undone" /\ pc' = [pc EXCEPT ![p] = "undo"]
    BY <1>7 DEF RecordUndo, Goto
  <2> HIDE DEF k
  <2> QED
    BY <1>2, <1>3, <1>7, <2>1, <2>2, <2>3, <2>4, Saves DEF RecordUndo, ghosts, k
<1>8. CASE UndoRaises(p)
  <2>1. reg' = [reg EXCEPT ![p] = [NextIdx(p) EXCEPT !.err = TRUE]]
    BY <1>8 DEF UndoRaises, Set
  <2> QED
    BY <1>2, <1>3, <1>8, <2>1, Moves DEF UndoRaises, Goto
<1>9. CASE UndosDone(p)
  <2>1. PICK v : reg' = [reg EXCEPT ![p] = [reg[p] EXCEPT !.idx = v]]
    BY <1>9 DEF UndosDone, Set
  <2> QED
    BY <1>2, <1>3, <1>9, <2>1, Moves DEF UndosDone, Goto, ghosts
<1> QED
  BY <1>4, <1>5, <1>6, <1>7, <1>8, <1>9 DEF Undo


\* The file loop, except its end.
LEMMA RestoreOnward ==
  ASSUME IInv, NEW p \in Proc, Restore(p), ~FinishRollback(p)
  PROVE  Onward(p)
<1>1. mem[p] \in Journal /\ reg[p] \in Local /\ reg \in [Proc -> Local] /\ pc \in [Proc -> PC]
      /\ mem \in [Proc -> Journal]
  BY DEF IInv, TypeInv, TypeOK, ProcessOK
<1>2. /\ \A w \in {"files", "removing", "putting", "marking"} :
           w \in Busy /\ w # "idle" /\ w \notin Forwards
      /\ \A w \in {"files", "marking"} : w \notin {"removing", "putting"}
  BY DEF Forwards, Forward, Busy, Undoing, Restoring
<1>3. /\ NextIdx(p).saved = reg[p].saved
      /\ \A v : [reg[p] EXCEPT !.cur = v].saved = reg[p].saved
      /\ \A v : [reg[p] EXCEPT !.cur = v].cur = v
      /\ \A v : [NextIdx(p) EXCEPT !.err = v].saved = reg[p].saved
      /\ \A v : [NextIdx(p) EXCEPT !.cur = v].saved = reg[p].saved
      /\ \A v, w : [NextIdx(p) EXCEPT !.err = v, !.cur = w].saved = reg[p].saved
  BY <1>1 DEF NextIdx, Local
<1>4. CASE PassFile(p)
  <2>1. \/ reg' = [reg EXCEPT ![p] = NextIdx(p)]
        \/ reg' = [reg EXCEPT ![p] = [NextIdx(p) EXCEPT !.err = TRUE]]
    BY <1>4 DEF PassFile, Set
  <2>2. PICK r : reg' = [reg EXCEPT ![p] = r] /\ r.saved = reg[p].saved
    <3> DEFINE a == [NextIdx(p) EXCEPT !.err = TRUE]
    <3>1. a.saved = reg[p].saved
      BY <1>3
    <3>2. reg' = [reg EXCEPT ![p] = NextIdx(p)] \/ reg' = [reg EXCEPT ![p] = a]
      BY <2>1
    <3> HIDE DEF a
    <3> QED
      BY <1>3, <3>1, <3>2
  <2>3. pc[p] = "files" /\ pc' = [pc EXCEPT ![p] = "files"]
    BY <1>1, <1>4 DEF PassFile, AtFile
  <2> QED
    BY <1>2, <1>4, <2>2, <2>3, Moves DEF PassFile, ghosts
<1>5. CASE FinishRestored(p)
  <2>1. PICK j : Save(p, j) /\ SameHead(mem[p], j)
    BY <1>1, <1>5, NestedHeadKept DEF FinishRestored, MarkEntry
  <2>2. reg' = [reg EXCEPT ![p] = NextIdx(p)] /\ pc[p] = "files" /\ pc' = [pc EXCEPT ![p] = "files"]
    BY <1>1, <1>5 DEF FinishRestored, AtFile, Set
  <2> QED
    BY <1>2, <1>3, <1>5, <2>1, <2>2, Saves DEF FinishRestored, ghosts
<1>6. CASE StartRestore(p)
  <2> DEFINE t == TheTarget(p)
             r == [reg[p] EXCEPT !.cur = t]
  <2>1. PICK j : Save(p, j) /\ SameHead(mem[p], j)
    BY <1>1, <1>6, NestedHeadKept DEF StartRestore
  <2>2. reg' = [reg EXCEPT ![p] = r] /\ pc[p] = "files" /\ pc' = [pc EXCEPT ![p] = "removing"]
    BY <1>6 DEF StartRestore, AtFile, Set, Goto
  <2>3. ~Preserved(p, t)
    BY <1>6 DEF StartRestore, ToRestore
  <2>4. r.saved = reg[p].saved /\ r.cur = t
    BY <1>3
  <2> HIDE DEF t, r
  <2>5. reg'[p] = r /\ mem'[p] = j
    BY <1>1, <2>1, <2>2 DEF Save
  <2>6. ~Preserved(p, reg[p].cur)'
    BY <2>1, <2>3, <2>4, <2>5 DEF Preserved, SameHead
  <2> QED
    BY <1>2, <1>6, <2>1, <2>2, <2>4, <2>6, Saves DEF StartRestore, ghosts
<1>7. CASE RemoveTarget(p)
  <2>1. pc[p] = "removing" /\ pc' = [pc EXCEPT ![p] = "putting"]
    BY <1>7 DEF RemoveTarget, Goto
  <2>2. ~Preserved(p, reg[p].cur)'
    BY <1>7, <2>1 DEF RemoveTarget, Preserved, IInv, LedgerInv, Remembered
  <2>3. reg' = [reg EXCEPT ![p] = reg[p]]
    BY <1>1, <1>7 DEF RemoveTarget
  <2> QED
    BY <1>2, <1>7, <2>1, <2>2, <2>3, Moves DEF RemoveTarget, ghosts
<1>8. CASE PutOriginal(p)
  <2>1. reg' = [reg EXCEPT ![p] = reg[p]]
    BY <1>1, <1>8 DEF PutOriginal
  <2> QED
    BY <1>2, <1>8, <2>1, Moves DEF PutOriginal, Goto, ghosts
<1>9. CASE MarkRestored(p)
  <2>1. PICK j : Save(p, j) /\ SameHead(mem[p], j)
    BY <1>1, <1>9, NestedHeadKept DEF MarkRestored, MarkEntry
  <2>2. PICK v : reg' = [reg EXCEPT ![p] = [NextIdx(p) EXCEPT !.cur = v]]
    BY <1>9 DEF MarkRestored, Set
  <2> QED
    BY <1>2, <1>3, <1>9, <2>1, <2>2, Saves DEF MarkRestored, Goto, ghosts
<1>10. CASE RestoreRaises(p)
  <2>1. PICK v, w : reg' = [reg EXCEPT ![p] = [NextIdx(p) EXCEPT !.err = v, !.cur = w]]
    BY <1>10 DEF RestoreRaises, Set
  <2>2. pc[p] \in {"removing", "putting"} /\ pc' = [pc EXCEPT ![p] = "files"]
    BY <1>10 DEF RestoreRaises, Goto
  <2> DEFINE r == [NextIdx(p) EXCEPT !.err = v, !.cur = w]
  <2>3. r.saved = reg[p].saved /\ reg' = [reg EXCEPT ![p] = r]
    BY <1>3, <2>1
  <2> HIDE DEF r
  <2> QED
    BY <1>2, <1>10, <2>2, <2>3, Moves DEF RestoreRaises, ghosts
<1> QED
  BY <1>4, <1>5, <1>6, <1>7, <1>8, <1>9, <1>10 DEF Restore

----------------------------------------------------------------------------
(* The invariant is preserved *)

\* Under the lock only one process is at work.
LEMMA Alone ==
  ASSUME IInv, NEW p \in Proc, pc[p] # "idle"
  PROVE  /\ lock = p /\ journals[tx[p]] = mem[p] /\ tx[p] \in Tx
         /\ mem[p].status = IF pc[p] \in Forwards THEN "active" ELSE "rolling_back"
         /\ \A q \in Proc : q # p => pc[q] = "idle"
  BY AtWork DEF IInv, LedgerInv, Holds

\* What is known of the variables at the start of every step.
LEMMA Shapes ==
  ASSUME IInv
  PROVE  /\ pc \in [Proc -> PC] /\ tx \in [Proc -> Tx \union {0}]
         /\ mem \in [Proc -> Journal] /\ reg \in [Proc -> Local]
         /\ journals \in [Tx -> Journal] /\ kept \subseteq Tx
  BY DEF IInv, TypeInv, TypeOK, StoreOK, ProcessOK, HistoryOK

\* Whoever is not at work stays out of it while p goes onward.
LEMMA OnwardKeeps ==
  ASSUME IInv, NEW p \in Proc, Onward(p)
  PROVE  LedgerInv'
<1>1. PICK w \in Busy :
        /\ pc' = [pc EXCEPT ![p] = w]
        /\ w \in Forwards <=> pc[p] \in Forwards
        /\ w \in {"removing", "putting"} => ~Preserved(p, reg[p].cur)'
  BY DEF Onward
<1>2. PICK j : /\ SameHead(mem[p], j)
               /\ mem' = [mem EXCEPT ![p] = j]
               /\ journals' = [journals EXCEPT ![tx[p]] = j]
  BY DEF Onward
<1>3. PICK r : reg' = [reg EXCEPT ![p] = r] /\ r.saved = reg[p].saved
  BY DEF Onward
<1>4. UNCHANGED <<lock, tx, kept>> /\ pc[p] # "idle" /\ w # "idle"
  BY DEF Onward, Busy, Forward, Undoing, Restoring
<1>5. /\ pc'[p] = w /\ mem'[p] = j /\ reg'[p] = r /\ journals'[tx[p]] = j
      /\ \A q \in Proc : q # p => pc'[q] = "idle"
  BY <1>1, <1>2, <1>3, <1>4, Alone, Shapes
<1>6. \A i \in Tx : SameHead(journals[i], journals'[i])
  BY <1>2, <1>4, Alone, Shapes DEF SameHead
<1>7. Holds'
  BY <1>1, <1>2, <1>4, <1>5, Alone DEF Holds, SameHead
<1>8. UnfinishedIsNewest' /\ Contiguous'
  BY <1>6 DEF IInv, LedgerInv, UnfinishedIsNewest, Newest, Contiguous, SameHead
<1>9. Remembered'
  <2>1. \A i \in kept' : \/ journals'[i].status = "committed"
                         \/ journals'[i].manual /\ journals'[i].status \notin {"unused", "active"}
    BY <1>4, <1>6, Shapes DEF IInv, LedgerInv, Remembered, SameHead
  <2>2. ASSUME NEW q \in Proc, pc'[q] \in Backwards, tx'[q] \in kept' PROVE reg'[q].saved
    <3>1. q = p
      BY <1>5, <2>2 DEF Backwards, Undoing, Restoring
    <3>2. w \in Backwards /\ w \notin Forwards
      BY <1>5, <2>2, <3>1 DEF Backwards, Undoing, Restoring, Forwards, Forward
    <3>3. pc[p] \in Backwards
      BY <1>1, <1>4, <3>2, Shapes DEF Backwards, Forwards, PC, Busy
    <3> QED
      BY <1>3, <1>4, <1>5, <2>2, <3>1, <3>3 DEF IInv, LedgerInv, Remembered
  <2>3. ASSUME NEW q \in Proc, pc'[q] \in {"removing", "putting"}
        PROVE  ~Preserved(q, reg[q].cur)'
    BY <1>1, <1>5, <2>3
  <2> QED
    BY <2>1, <2>2, <2>3 DEF Remembered
<1> QED
  BY <1>7, <1>8, <1>9 DEF LedgerInv

\* A new journal is the newest one and the only unfinished one.
LEMMA BeginKeeps ==
  ASSUME IInv, NEW p \in Proc, Begin(p)
  PROVE  LedgerInv'
<1>1. PICK i, j :
        /\ i \in Tx
        /\ j.status = "active" /\ journals[i].status = "unused"
        /\ \A h \in 1..(i - 1) : journals[h].status # "unused"
        /\ tx' = [tx EXCEPT ![p] = i]
        /\ mem' = [mem EXCEPT ![p] = j]
        /\ journals' = [journals EXCEPT ![i] = j]
  <2>1. ASSUME NEW b \in BOOLEAN
        PROVE  [NoJournal EXCEPT !.status = "active", !.preserve = b].status = "active"
    BY DEF NoJournal
  <2> QED
    BY <2>1 DEF Begin
<1>2. /\ lock = NoProc /\ lock' = p /\ pc' = [pc EXCEPT ![p] = "open"] /\ kept' = kept
      /\ \A h \in Tx : journals[h].status \notin Unfinished
  BY DEF Begin, LockFree, NoneUnfinished, Goto
<1>3. \A q \in Proc : pc[q] = "idle"
  BY <1>2, TransactionAssumption DEF IInv, LedgerInv, Holds
<1>4. /\ pc'[p] = "open" /\ tx'[p] = i /\ mem'[p] = j /\ journals'[i] = j
      /\ \A q \in Proc : q # p => pc'[q] = "idle"
      /\ \A h \in Tx : h # i => journals'[h] = journals[h]
  BY <1>1, <1>2, <1>3, Shapes
<1>5. Holds'
  BY <1>1, <1>2, <1>4 DEF Holds, Forwards, Forward
<1>6. \A h \in Tx : h > i => journals'[h].status = "unused"
  BY <1>1, <1>4 DEF IInv, LedgerInv, Contiguous, Tx
<1>7. \A h \in Tx : h < i => journals'[h].status # "unused"
  BY <1>1, <1>4 DEF Tx
<1>8. Contiguous'
  BY <1>1, <1>4, <1>6, <1>7 DEF IInv, LedgerInv, Contiguous, Tx
<1>9. UnfinishedIsNewest'
  <2>1. ASSUME NEW h \in Tx, journals'[h].status \in Unfinished PROVE h = i
    BY <1>2, <1>4, <2>1
  <2>2. ASSUME NEW h \in Tx, journals'[h].status \in Rollbackable PROVE h <= i
    BY <1>1, <1>6, <2>2 DEF Rollbackable, Unfinished, Tx
  <2>3. journals'[i].status \in Rollbackable
    BY <1>1, <1>4 DEF Rollbackable, Unfinished
  <2> QED
    BY <2>1, <2>2, <2>3 DEF UnfinishedIsNewest, Newest
<1>10. Remembered'
  <2>1. i \notin kept
    BY <1>1 DEF IInv, LedgerInv, Remembered
  <2> QED
    BY <1>2, <1>4, <2>1, Shapes
       DEF IInv, LedgerInv, Remembered, Backwards, Undoing, Restoring
<1> QED
  BY <1>5, <1>8, <1>9, <1>10 DEF LedgerInv

\* A manual rollback starts at the newest journal and remembers the commit.
LEMMA RollBackSavedKeeps ==
  ASSUME IInv, NEW p \in Proc, RollBackSaved(p)
  PROVE  LedgerInv'
<1>1. PICK i \in Tx :
        LET j == [journals[i] EXCEPT !.manual = WasCommitted(journals[i]),
                                     !.status = "rolling_back"] IN
        /\ Newest(i)
        /\ tx' = [tx EXCEPT ![p] = i]
        /\ mem' = [mem EXCEPT ![p] = j]
        /\ journals' = [journals EXCEPT ![i] = j]
        /\ reg' = [reg EXCEPT ![p] = [NoLocal EXCEPT !.idx = Len(j.ext), !.saved = TRUE]]
  BY DEF RollBackSaved, Set
<1> DEFINE j == [journals[i] EXCEPT !.manual = WasCommitted(journals[i]),
                                    !.status = "rolling_back"]
           r == [NoLocal EXCEPT !.idx = Len(j.ext), !.saved = TRUE]
<1>2. j.status = "rolling_back" /\ j.manual = WasCommitted(journals[i]) /\ r.saved
  BY Shapes DEF Journal, NoLocal
<1>3. /\ tx' = [tx EXCEPT ![p] = i] /\ mem' = [mem EXCEPT ![p] = j]
      /\ journals' = [journals EXCEPT ![i] = j] /\ reg' = [reg EXCEPT ![p] = r]
  BY <1>1
<1> HIDE DEF j, r
<1>4. lock = NoProc /\ lock' = p /\ pc' = [pc EXCEPT ![p] = "undo"] /\ kept' = kept
  BY DEF RollBackSaved, LockFree, Goto, ghosts
<1>5. \A q \in Proc : pc[q] = "idle"
  BY <1>4, TransactionAssumption DEF IInv, LedgerInv, Holds
<1>6. /\ pc'[p] = "undo" /\ tx'[p] = i /\ mem'[p] = j /\ journals'[i] = j /\ reg'[p] = r
      /\ \A q \in Proc : q # p => pc'[q] = "idle"
      /\ \A h \in Tx : h # i => journals'[h] = journals[h]
  BY <1>3, <1>4, <1>5, Shapes
<1>7. Holds'
  BY <1>2, <1>4, <1>6 DEF Holds, Forwards, Forward
<1>8. journals[i].status \in Rollbackable
  BY <1>1 DEF Newest
<1>9. Contiguous'
  BY <1>2, <1>6, <1>8 DEF IInv, LedgerInv, Contiguous, Rollbackable, Unfinished
<1>10. UnfinishedIsNewest'
  BY <1>1, <1>2, <1>6, <1>8
     DEF IInv, LedgerInv, UnfinishedIsNewest, Newest, Rollbackable, Unfinished
<1>11. Remembered'
  <2>1. i \in kept => j.manual
    BY <1>2 DEF IInv, LedgerInv, Remembered, WasCommitted
  <2> QED
    BY <1>2, <1>4, <1>6, <2>1, Shapes
       DEF IInv, LedgerInv, Remembered, Backwards, Undoing, Restoring
<1> QED
  BY <1>7, <1>9, <1>10, <1>11 DEF LedgerInv

\* The automatic rollback starts from an active journal, so nothing was kept.
LEMMA RollBackKeeps ==
  ASSUME IInv, NEW p \in Proc, RollBack(p)
  PROVE  LedgerInv'
<1> DEFINE i == tx[p]
           j == [mem[p] EXCEPT !.status = "rolling_back"]
<1>1. /\ pc[p] = "failed" /\ pc' = [pc EXCEPT ![p] = "undo"] /\ UNCHANGED <<lock, tx, kept>>
      /\ mem' = [mem EXCEPT ![p] = j] /\ journals' = [journals EXCEPT ![i] = j]
  BY DEF RollBack, Save, Goto, ghosts
<1>2. /\ lock = p /\ journals[i] = mem[p] /\ i \in Tx /\ mem[p].status = "active"
      /\ \A q \in Proc : q # p => pc[q] = "idle"
  BY <1>1, Alone DEF Forwards
<1>3. j.status = "rolling_back"
  BY Shapes DEF Journal
<1> HIDE DEF i, j
<1>4. /\ pc'[p] = "undo" /\ mem'[p] = j /\ journals'[i] = j /\ tx'[p] = i
      /\ \A q \in Proc : q # p => pc'[q] = "idle"
      /\ \A h \in Tx : h # i => journals'[h] = journals[h]
  BY <1>1, <1>2, Shapes DEF i
<1>5. Holds'
  BY <1>1, <1>2, <1>3, <1>4 DEF Holds, Forwards, Forward
<1>6. UnfinishedIsNewest' /\ Contiguous'
  BY <1>2, <1>3, <1>4
     DEF IInv, LedgerInv, Contiguous, UnfinishedIsNewest, Newest, Rollbackable, Unfinished
<1>7. Remembered'
  <2>1. i \notin kept
    BY <1>2 DEF IInv, LedgerInv, Remembered
  <2> QED
    BY <1>1, <1>4, <2>1, Shapes
       DEF IInv, LedgerInv, Remembered, Backwards, Undoing, Restoring
<1> QED
  BY <1>5, <1>6, <1>7 DEF LedgerInv

\* A process leaves its operation with journal j saved and the lock given back.
LEMMA LeaveKeeps ==
  ASSUME IInv, NEW p \in Proc, pc[p] # "idle", Leave(p), NEW j,
         journals' = [journals EXCEPT ![tx[p]] = j], j.status \in Status \ {"unused", "active"},
         j.manual = mem[p].manual,
         tx[p] \in kept => j.manual \/ j.status = "committed",
         kept' = kept \/ (j.status = "committed" /\ kept' = kept \union {tx[p]})
  PROVE  LedgerInv'
<1> DEFINE i == tx[p]
<1>1. /\ lock = p /\ journals[i] = mem[p] /\ i \in Tx /\ journals[i].status \in Unfinished
      /\ \A q \in Proc : q # p => pc[q] = "idle"
  BY Alone DEF Unfinished
<1>2. /\ lock' = NoProc /\ \A q \in Proc : pc'[q] = "idle"
      /\ journals'[i] = j /\ \A h \in Tx : h # i => journals'[h] = journals[h]
  BY <1>1, Shapes DEF Leave, Release, Goto
<1> HIDE DEF i
<1>3. Holds' /\ Contiguous'
  BY <1>1, <1>2 DEF Holds, IInv, LedgerInv, Contiguous, Unfinished
<1>4. UnfinishedIsNewest'
  <2>1. Newest(i)
    BY <1>1 DEF IInv, LedgerInv, UnfinishedIsNewest
  <2>2. ASSUME NEW h \in Tx, journals'[h].status \in Unfinished PROVE h = i
    <3>1. CASE h # i
      <4>1. Newest(h)
        BY <1>2, <2>2, <3>1 DEF IInv, LedgerInv, UnfinishedIsNewest
      <4>2. h <= i /\ i <= h
        BY <2>1, <4>1, <1>1 DEF Newest
      <4> QED
        BY <1>1, <4>2 DEF Tx
    <3> QED
      BY <3>1
  <2> QED
    BY <1>1, <1>2, <2>1, <2>2 DEF UnfinishedIsNewest, Newest, Rollbackable
<1>5. Remembered'
  BY <1>1, <1>2, Shapes DEF IInv, LedgerInv, Remembered, Backwards, Undoing, Restoring, i
<1> QED
  BY <1>3, <1>4, <1>5 DEF LedgerInv

\* commit() is remembered in kept.
LEMMA CommitKeeps ==
  ASSUME IInv, NEW p \in Proc, Commit(p)
  PROVE  LedgerInv'
<1> DEFINE j == [mem[p] EXCEPT !.status = "committed"]
<1>1. j.status = "committed" /\ j.manual = mem[p].manual
  BY Shapes DEF Journal
<1>2. j.status \in Status \ {"unused", "active"}
  BY <1>1 DEF Status, Rollbackable
<1>3. /\ pc[p] # "idle" /\ Leave(p) /\ journals' = [journals EXCEPT ![tx[p]] = j]
      /\ kept' = kept \union {tx[p]}
  BY DEF Commit
<1> HIDE DEF j
<1> QED
  BY <1>1, <1>2, <1>3, LeaveKeeps

\* The verdict of a rollback keeps what was said of the commit.
LEMMA FinishRollbackKeeps ==
  ASSUME IInv, NEW p \in Proc, FinishRollback(p)
  PROVE  LedgerInv'
<1> DEFINE j == [mem[p] EXCEPT !.status = FinalStatus(p)]
<1>1. j.status = FinalStatus(p) /\ j.manual = mem[p].manual
  BY Shapes DEF Journal
<1>2. j.status \in Status \ {"unused", "active"}
  BY <1>1 DEF FinalStatus, Status, Rollbackable, Unfinished, Reverted
<1>3. pc[p] = "files" /\ Leave(p) /\ journals' = [journals EXCEPT ![tx[p]] = j] /\ kept' = kept
  BY DEF FinishRollback, ghosts
<1>4. tx[p] \in kept => mem[p].manual
  <2>1. journals[tx[p]] = mem[p] /\ mem[p].status = "rolling_back"
    BY <1>3, Alone DEF Forwards, Forward
  <2> QED
    BY <2>1 DEF IInv, LedgerInv, Remembered
<1> HIDE DEF j
<1> QED
  BY <1>1, <1>2, <1>3, <1>4, LeaveKeeps

\* After a crash the journal on disk still says how far the operation was.
LEMMA CrashKeeps ==
  ASSUME IInv, NEW p \in Proc, Crash(p)
  PROVE  LedgerInv'
<1>1. pc[p] # "idle" /\ Leave(p) /\ UNCHANGED <<journals, kept>>
  BY DEF Crash, ghosts, Busy, Forward, Undoing, Restoring
<1>2. lock' = NoProc /\ \A q \in Proc : pc'[q] = "idle"
  BY <1>1, Alone, Shapes DEF Leave, Release, Goto
<1>3. Holds' /\ Contiguous' /\ UnfinishedIsNewest'
  BY <1>1, <1>2 DEF IInv, LedgerInv, Holds, Contiguous, UnfinishedIsNewest, Newest
<1>4. Remembered'
  BY <1>1, <1>2 DEF IInv, LedgerInv, Remembered, Backwards, Undoing, Restoring
<1> QED
  BY <1>3, <1>4 DEF LedgerInv

\* Steps that touch nothing the ledger reads.
LEMMA OutsideKeeps ==
  ASSUME IInv, UNCHANGED <<journals, lock, procVars, kept>>
  PROVE  LedgerInv'
<1>1. Holds' /\ Contiguous' /\ UnfinishedIsNewest'
  BY DEF IInv, LedgerInv, Holds, Contiguous, UnfinishedIsNewest, Newest, procVars
<1>2. Remembered'
  BY DEF IInv, LedgerInv, Remembered, Preserved, procVars
<1> QED
  BY <1>1, <1>2 DEF LedgerInv

\* No journal, nobody at work.
LEMMA InitLedger == Init => IInv
<1> SUFFICES ASSUME Init PROVE IInv
  OBVIOUS
<1>1. \A i \in Tx : journals[i].status = "unused"
  BY DEF Init, NoJournal
<1> QED
  BY <1>1, InitTyped DEF Init, IInv, LedgerInv, Holds, Contiguous, UnfinishedIsNewest, Remembered,
     Unfinished, Backwards, Undoing, Restoring

\* Every step keeps the invariant.
LEMMA NextLedger == ~LateErrors /\ IInv /\ [Next]_vars => IInv'
<1> SUFFICES ASSUME ~LateErrors, IInv, [Next]_vars PROVE IInv'
  OBVIOUS
<1>1. TypeInv'
  BY NextTyped DEF IInv
<1>2. ASSUME NEW p \in Proc, Body(p) \/ Undo(p) \/ Restore(p) PROVE LedgerInv'
  BY <1>2, BodyOnward, UndoOnward, RestoreOnward, OnwardKeeps, FinishRollbackKeeps
<1>3. ASSUME NEW p \in Proc, Ending(p) PROVE LedgerInv'
  BY <1>3, CommitKeeps, CrashKeeps DEF Ending, LateError
<1>4. ASSUME NEW p \in Proc, Begin(p) \/ RollBack(p) \/ RollBackSaved(p) PROVE LedgerInv'
  BY <1>4, BeginKeeps, RollBackKeeps, RollBackSavedKeeps
<1>5. ASSUME NEW t \in Target, UserEdit(t) PROVE LedgerInv'
  BY <1>5, OutsideKeeps DEF UserEdit
<1>6. ASSUME UNCHANGED vars PROVE LedgerInv'
  BY <1>6, OutsideKeeps DEF vars, ghosts
<1> QED
  BY <1>1, <1>2, <1>3, <1>4, <1>5, <1>6 DEF Next, IInv

\* Type correctness and the ledger invariant together are inductive.
LEMMA Inductive == ~LateErrors /\ Spec => []IInv
<1>1. Init => IInv
  BY InitLedger
<1>2. CASE ~LateErrors
  <2>1. IInv /\ [Next]_vars => IInv'
    BY <1>2, NextLedger
  <2> QED
    BY <1>1, <2>1, PTL DEF Spec
<1> QED
  BY <1>2

\* What ties the lock, the saved journals and a busy process together is
\* invariant as long as nothing fails inside or right after commit().
THEOREM LedgerInvariant == ~LateErrors /\ Spec => []LedgerInv
<1>1. IInv => LedgerInv
  BY DEF IInv
<1> QED
  BY <1>1, Inductive, PTL

\* The mutation lock excludes: two processes are never both inside a
\* transaction or a rollback (_MutationLock, transaction.py:28-66).
THEOREM Exclusion == ~LateErrors /\ Spec => []MutualExclusion
<1>1. LedgerInv => MutualExclusion
  BY DEF LedgerInv, Holds, MutualExclusion, Busy, Forward, Undoing, Restoring
<1> QED
  BY <1>1, LedgerInvariant, PTL

\* An interrupted operation is never buried: the unfinished journal is always
\* the one the next rollback picks (ensure_no_active and rollback_saved).
THEOREM NeverBuried == ~LateErrors /\ Spec => []UnfinishedIsNewest
<1>1. LedgerInv => UnfinishedIsNewest
  BY DEF LedgerInv
<1> QED
  BY <1>1, LedgerInvariant, PTL

\* No rollback of a committed operation that preserves user data touches user
\* data, however often it was interrupted and resumed (manual_from_committed).
THEOREM UserDataKept == ~LateErrors /\ Spec => []UserStateSurvives
<1>1. IInv => UserStateSurvives
  <2> SUFFICES ASSUME IInv, NEW p \in Proc, pc[p] \in {"removing", "putting"},
                      tx[p] \in kept, mem[p].preserve
               PROVE  reg[p].cur \notin UserState
    BY DEF UserStateSurvives
  <2>1. pc[p] \in Backwards /\ pc[p] # "idle" /\ pc[p] \notin Forwards
    BY DEF Backwards, Restoring, Forwards, Forward
  <2>2. reg[p].saved /\ ~Preserved(p, reg[p].cur)
    BY <2>1 DEF IInv, LedgerInv, Remembered
  <2>3. mem[p].manual
    BY <2>1, Alone DEF IInv, LedgerInv, Remembered
  <2> QED
    BY <2>2, <2>3 DEF Preserved
<1> QED
  BY <1>1, Inductive, PTL

----------------------------------------------------------------------------
(* The journals implement the ledger *)

\* The outcome the ledger sees, per transaction.
Out == [i \in Tx |-> Outcome(journals[i].status)]

\* How statuses and outcomes correspond.
LEMMA Outcomes ==
  ASSUME NEW s \in Status
  PROVE  /\ s = "unused" <=> Outcome(s) = "none"
         /\ s = "active" <=> Outcome(s) = "open"
         /\ s = "committed" <=> Outcome(s) = "kept"
         /\ s \in {"rolling_back", "rollback_incomplete"} <=> Outcome(s) = "undoing"
         /\ s \in Reverted <=> Outcome(s) = "reverted"
         /\ s \in Rollbackable <=> Outcome(s) \in {"open", "kept", "undoing"}
         /\ s \in Unfinished <=> Outcome(s) \in {"open", "undoing"}
  BY DEF Status, Rollbackable, Unfinished, Reverted, Outcome

\* The outcome of each status the actions save.
LEMMA OutcomeOf ==
  /\ Outcome("unused") = "none" /\ Outcome("active") = "open"
  /\ Outcome("committed") = "kept"
  /\ Outcome("rolling_back") = "undoing" /\ Outcome("rollback_incomplete") = "undoing"
<1>1. {"unused", "active", "committed", "rolling_back", "rollback_incomplete"} \subseteq Status
  BY DEF Status, Rollbackable, Unfinished
<1> QED
  BY <1>1, Outcomes

\* The ledger's words for what the journals say.
LEMMA OutIs ==
  ASSUME IInv, NEW h \in Tx
  PROVE  Out[h] = Outcome(journals[h].status) /\ journals[h].status \in Status
<1>1. journals[h] \in Journal
  BY Shapes
<1> QED
  BY <1>1, JournalFields DEF Out

\* Unused journals are the ones the ledger has no outcome for.
LEMMA OutNone ==
  ASSUME IInv, NEW h \in Tx
  PROVE  journals[h].status = "unused" <=> Out[h] = "none"
  BY OutIs, Outcomes

\* Journals that can be rolled back are the ones standing.
LEMMA OutStanding ==
  ASSUME IInv, NEW h \in Tx
  PROVE  journals[h].status \in Rollbackable <=> Out[h] \in {"open", "kept", "undoing"}
  BY OutIs, Outcomes

\* Unfinished journals are the ones open or undoing.
LEMMA OutUnfinished ==
  ASSUME IInv, NEW h \in Tx
  PROVE  journals[h].status \in Unfinished <=> Out[h] \in {"open", "undoing"}
  BY OutIs, Outcomes

\* The statuses and their outcomes, before and after a step that saves one
\* journal.
LEMMA OneOutcome ==
  ASSUME IInv, IInv', NEW i \in Tx, NEW j, journals' = [journals EXCEPT ![i] = j]
  PROVE  /\ journals[i].status \in Status /\ j.status \in Status
         /\ Out[i] = Outcome(journals[i].status)
         /\ Out' = [Out EXCEPT ![i] = Outcome(j.status)]
<1>1. /\ journals \in [Tx -> Journal] /\ journals' \in [Tx -> Journal]
      /\ \A h \in Tx : journals[h].status \in Status
  BY JournalFields DEF IInv, TypeInv, TypeOK, StoreOK
<1>2. journals'[i] = j /\ j \in Journal
  BY <1>1
<1>3. j.status \in Status
  BY <1>2, JournalFields
<1>4. \A h \in Tx : journals'[h] = IF h = i THEN j ELSE journals[h]
  BY <1>1
<1>5. Out' = [Out EXCEPT ![i] = Outcome(j.status)]
  <2> DEFINE o == Outcome(j.status)
  <2>1. \A h \in Tx : Out[h] = Outcome(journals[h].status)
    BY DEF Out
  <2>2. Out' = [h \in Tx |-> Outcome(journals'[h].status)]
    BY DEF Out
  <2>3. \A h \in Tx : Outcome(journals'[h].status) = IF h = i THEN o ELSE Out[h]
    BY <1>4, <2>1
  <2> HIDE DEF o
  <2>4. Out' = [h \in Tx |-> IF h = i THEN o ELSE Out[h]]
    BY <2>2, <2>3
  <2>5. [Out EXCEPT ![i] = o] = [h \in Tx |-> IF h = i THEN o ELSE Out[h]]
    BY DEF Out
  <2> QED
    BY <2>4, <2>5 DEF o
<1> QED
  BY <1>1, <1>3, <1>5 DEF Out

\* A step that leaves every status alone.
LEMMA SameOutcomes ==
  ASSUME \A i \in Tx : journals'[i].status = journals[i].status
  PROVE  UNCHANGED Out
  BY DEF Out

\* Going onward is a stutter of the ledger.
LEMMA OnwardStutters ==
  ASSUME IInv, NEW p \in Proc, Onward(p)
  PROVE  UNCHANGED Out
<1>1. PICK j : SameHead(mem[p], j) /\ journals' = [journals EXCEPT ![tx[p]] = j]
  BY DEF Onward
<1>2. journals[tx[p]] = mem[p] /\ tx[p] \in Tx
  BY Alone DEF Onward
<1>3. \A i \in Tx : journals'[i].status = journals[i].status
  BY <1>1, <1>2, Shapes DEF SameHead
<1> QED
  BY <1>3, SameOutcomes

\* The ledger's own words, over the outcome of the journals.
LEMMA LedgerWords ==
  /\ Ledger!Ids = Tx
  /\ Ledger!LInit <=> Out = [i \in Tx |-> "none"]
  /\ \A i \in Tx :
       /\ Ledger!Open(i) <=>
            /\ Out[i] = "none"
            /\ \A h \in 1..(i - 1) : Out[h] # "none"
            /\ \A h \in Tx : Out[h] \notin {"open", "undoing"}
            /\ Out' = [Out EXCEPT ![i] = "open"]
       /\ Ledger!Keep(i) <=> Out[i] = "open" /\ Out' = [Out EXCEPT ![i] = "kept"]
       /\ Ledger!StartUndoing(i) <=>
            /\ Out[i] \in {"open", "kept", "undoing"}
            /\ \A h \in Tx : Out[h] \in {"open", "kept", "undoing"} => h <= i
            /\ Out' = [Out EXCEPT ![i] = "undoing"]
       /\ Ledger!Revert(i) <=> Out[i] = "undoing" /\ Out' = [Out EXCEPT ![i] = "reverted"]
  BY DEF Out, Tx, Ledger!Ids, Ledger!LInit, Ledger!Open, Ledger!Keep, Ledger!StartUndoing,
         Ledger!Revert, Ledger!Becomes, Ledger!Standing

\* Transaction.__init__ opens the next operation of the ledger.
LEMMA BeginOpens ==
  ASSUME IInv, IInv', NEW p \in Proc, Begin(p)
  PROVE  \E i \in Tx : Ledger!Open(i)
<1>1. PICK i, j :
        /\ i \in Tx
        /\ j.status = "active" /\ journals[i].status = "unused"
        /\ \A h \in 1..(i - 1) : journals[h].status # "unused"
        /\ journals' = [journals EXCEPT ![i] = j]
  <2>1. ASSUME NEW b \in BOOLEAN
        PROVE  [NoJournal EXCEPT !.status = "active", !.preserve = b].status = "active"
    BY DEF NoJournal
  <2> QED
    BY <2>1 DEF Begin
<1>2. \A h \in Tx : Out[h] \notin {"open", "undoing"}
  BY OutUnfinished DEF Begin, NoneUnfinished
<1>3. \A h \in 1..(i - 1) : Out[h] # "none"
  <2>1. \A h \in 1..(i - 1) : h \in Tx
    BY <1>1, TransactionAssumption DEF Tx
  <2> QED
    BY <1>1, <2>1, OutNone
<1>4. Out' = [Out EXCEPT ![i] = Outcome(j.status)]
  BY <1>1, OneOutcome
<1>5. Out' = [Out EXCEPT ![i] = "open"]
  BY <1>1, <1>4, OutcomeOf
<1>6. Out[i] = "none"
  BY <1>1, OutNone
<1> QED
  BY <1>1, <1>2, <1>3, <1>5, <1>6, LedgerWords

\* commit() keeps the operation.
LEMMA CommitKeepsIt ==
  ASSUME IInv, IInv', NEW p \in Proc, Commit(p)
  PROVE  Ledger!Keep(tx[p])
<1> DEFINE j == [mem[p] EXCEPT !.status = "committed"]
<1>1. pc[p] \in Forwards /\ pc[p] # "idle" /\ journals' = [journals EXCEPT ![tx[p]] = j]
  BY DEF Commit, Forwards, Forward
<1>2. j.status = "committed"
  BY Shapes DEF Journal
<1>3. tx[p] \in Tx /\ journals[tx[p]].status = "active"
  BY <1>1, Alone
<1> HIDE DEF j
<1>4. Out' = [Out EXCEPT ![tx[p]] = Outcome(j.status)]
  BY <1>1, <1>3, OneOutcome
<1>5. Out' = [Out EXCEPT ![tx[p]] = "kept"]
  BY <1>2, <1>4, OutcomeOf
<1>6. Out[tx[p]] = "open"
  BY <1>3, OutIs, OutcomeOf
<1> QED
  BY <1>3, <1>5, <1>6, LedgerWords

\* Both kinds of rollback start at the newest journal that is standing.
LEMMA UndoStarts ==
  ASSUME IInv, IInv', NEW i \in Tx, NEW j, Newest(i), j.status = "rolling_back",
         journals' = [journals EXCEPT ![i] = j]
  PROVE  Ledger!StartUndoing(i)
<1>1. Out' = [Out EXCEPT ![i] = Outcome(j.status)]
  BY OneOutcome
<1>2. Out' = [Out EXCEPT ![i] = "undoing"]
  BY <1>1, OutcomeOf
<1>3. Out[i] \in {"open", "kept", "undoing"}
  BY OutStanding DEF Newest
<1>4. \A h \in Tx : Out[h] \in {"open", "kept", "undoing"} => h <= i
  BY OutStanding DEF Newest
<1> QED
  BY <1>2, <1>3, <1>4, LedgerWords

\* rollback() starts undoing it.
LEMMA RollBackUndoes ==
  ASSUME IInv, IInv', NEW p \in Proc, RollBack(p)
  PROVE  Ledger!StartUndoing(tx[p])
<1> DEFINE j == [mem[p] EXCEPT !.status = "rolling_back"]
<1>1. pc[p] = "failed" /\ journals' = [journals EXCEPT ![tx[p]] = j]
  BY DEF RollBack, Save
<1>2. j.status = "rolling_back"
  BY Shapes DEF Journal
<1>3. tx[p] \in Tx /\ journals[tx[p]].status = "active"
  BY <1>1, Alone DEF Forwards
<1>4. Newest(tx[p])
  BY <1>3 DEF IInv, LedgerInv, UnfinishedIsNewest, Unfinished
<1> HIDE DEF j
<1> QED
  BY <1>1, <1>2, <1>3, <1>4, UndoStarts

\* rollback_saved() starts undoing the newest one.
LEMMA SavedUndoes ==
  ASSUME IInv, IInv', NEW p \in Proc, RollBackSaved(p)
  PROVE  \E i \in Tx : Ledger!StartUndoing(i)
<1>1. PICK i \in Tx :
        /\ Newest(i)
        /\ journals' = [journals EXCEPT ![i] =
             [journals[i] EXCEPT !.manual = WasCommitted(journals[i]), !.status = "rolling_back"]]
  BY DEF RollBackSaved
<1> DEFINE j == [journals[i] EXCEPT !.manual = WasCommitted(journals[i]), !.status = "rolling_back"]
<1>2. j.status = "rolling_back"
  BY Shapes DEF Journal
<1> HIDE DEF j
<1> QED
  BY <1>1, <1>2, UndoStarts DEF j

\* A verdict reverts the operation or leaves it half undone.
LEMMA FinishReverts ==
  ASSUME IInv, IInv', NEW p \in Proc, FinishRollback(p)
  PROVE  Ledger!Revert(tx[p]) \/ UNCHANGED Out
<1> DEFINE j == [mem[p] EXCEPT !.status = FinalStatus(p)]
<1>1. pc[p] = "files" /\ journals' = [journals EXCEPT ![tx[p]] = j]
  BY DEF FinishRollback
<1>2. j.status = FinalStatus(p)
  BY Shapes DEF Journal
<1>3. tx[p] \in Tx /\ journals[tx[p]].status = "rolling_back"
  BY <1>1, Alone DEF Forwards, Forward
<1> HIDE DEF j
<1>4. Out[tx[p]] = "undoing" /\ Out' = [Out EXCEPT ![tx[p]] = Outcome(FinalStatus(p))]
  <2>1. Out' = [Out EXCEPT ![tx[p]] = Outcome(j.status)]
    BY <1>1, <1>3, OneOutcome
  <2> QED
    BY <1>2, <1>3, <2>1, OutIs, OutcomeOf
<1>5. FinalStatus(p) \in Status
  BY <1>1, <1>2, <1>3, OneOutcome
<1>6. CASE FinalStatus(p) \in Reverted
  BY <1>3, <1>4, <1>5, <1>6, Outcomes, LedgerWords
<1>7. CASE FinalStatus(p) = "rollback_incomplete"
  <2>1. Outcome(FinalStatus(p)) = "undoing"
    BY <1>5, <1>7, Outcomes
  <2>2. Out' = [Out EXCEPT ![tx[p]] = Out[tx[p]]]
    BY <1>4, <2>1
  <2>3. Out \in [Tx -> {Out[h] : h \in Tx}]
    BY DEF Out
  <2> QED
    BY <1>3, <2>2, <2>3
<1> QED
  BY <1>6, <1>7 DEF FinalStatus, Reverted

\* Every step is a step of the ledger or a stutter.
LEMMA NextImplements ==
  ~LateErrors /\ IInv /\ IInv' /\ [Next]_vars => (\E i \in Tx : \/ Ledger!Open(i)
      \/ Ledger!Keep(i) \/ Ledger!StartUndoing(i) \/ Ledger!Revert(i)) \/ UNCHANGED Out
<1> DEFINE Goal == (\E i \in Tx : \/ Ledger!Open(i) \/ Ledger!Keep(i)
                       \/ Ledger!StartUndoing(i) \/ Ledger!Revert(i)) \/ UNCHANGED Out
<1> SUFFICES ASSUME ~LateErrors, IInv, IInv', [Next]_vars PROVE Goal
  OBVIOUS
<1>0. \A p \in Proc : pc[p] # "idle" => tx[p] \in Tx
  BY Alone
<1>1. ASSUME NEW p \in Proc, Body(p) \/ Undo(p) \/ Restore(p) PROVE Goal
  <2>1. CASE FinishRollback(p)
    <3>1. tx[p] \in Tx
      BY <1>0, <2>1 DEF FinishRollback
    <3> QED
      BY <2>1, <3>1, FinishReverts
  <2>2. CASE ~FinishRollback(p)
    BY <1>1, <2>2, BodyOnward, UndoOnward, RestoreOnward, OnwardStutters
  <2> QED
    BY <2>1, <2>2
<1>2. ASSUME NEW p \in Proc, Commit(p) PROVE Goal
  <2>1. tx[p] \in Tx
    BY <1>0, <1>2 DEF Commit
  <2> QED
    BY <1>2, <2>1, CommitKeepsIt
<1>3. ASSUME NEW p \in Proc, RollBack(p) PROVE Goal
  <2>1. tx[p] \in Tx
    BY <1>0, <1>3 DEF RollBack
  <2> QED
    BY <1>3, <2>1, RollBackUndoes
<1>4. ASSUME NEW p \in Proc, Begin(p) \/ RollBackSaved(p) PROVE Goal
  BY <1>4, BeginOpens, SavedUndoes
<1>5. ASSUME NEW p \in Proc, Crash(p) PROVE Goal
  BY <1>5, SameOutcomes DEF Crash
<1>6. ASSUME NEW t \in Target, UserEdit(t) PROVE Goal
  BY <1>6, SameOutcomes DEF UserEdit
<1>7. ASSUME UNCHANGED vars PROVE Goal
  BY <1>7, SameOutcomes DEF vars
<1> HIDE DEF Goal
<1> QED
  BY <1>1, <1>2, <1>3, <1>4, <1>5, <1>6, <1>7 DEF Next, Ending, LateError

\* The transaction layer implements the ledger the installer relies on: crashes,
\* retries and interrupted rollbacks never open, keep or undo out of turn.
THEOREM Implements == ~LateErrors /\ Spec => ImplementsLedger
<1>1. Init => Ledger!LInit
  <2>1. ASSUME Init PROVE Out = [i \in Tx |-> "none"]
    <3>1. \A i \in Tx : journals[i].status = "unused"
      BY <2>1 DEF Init, NoJournal
    <3>2. \A i \in Tx : Outcome(journals[i].status) = "none"
      BY <3>1, OutcomeOf
    <3> QED
      BY <3>2 DEF Out
  <2> QED
    BY <2>1, LedgerWords
<1>2. ~LateErrors /\ IInv /\ IInv' /\ [Next]_vars
        => [Ledger!LNext]_([i \in Tx |-> Outcome(journals[i].status)])
  BY NextImplements, LedgerWords DEF Ledger!LNext, Out
<1>3. CASE ~LateErrors
  <2>1. IInv /\ IInv' /\ [Next]_vars
          => [Ledger!LNext]_([i \in Tx |-> Outcome(journals[i].status)])
    BY <1>2, <1>3
  <2>2. Spec => []IInv
    BY <1>3, Inductive
  <2> QED
    BY <1>1, <2>1, <2>2, PTL DEF Spec, ImplementsLedger, Ledger!LSpec
<1> QED
  BY <1>3

----------------------------------------------------------------------------
(* Undos: every one takes effect at most once, and none is left behind *)

UInv == IInv /\ UndosAccounted

\* What the account of undos reads of a journal.
SameUndos(j, k) ==
  /\ k.status = j.status /\ Len(k.ext) = Len(j.ext) /\ DOMAIN k.ext = DOMAIN j.ext
  /\ \A n \in DOMAIN j.ext :
       k.ext[n].undo = j.ext[n].undo /\ k.ext[n].undoState = j.ext[n].undoState

\* Journals with the same commands have the same account.
LEMMA AccountKept ==
  ASSUME NEW j, NEW k, NEW e, SameUndos(j, k), Accounted(j, e)
  PROVE  Accounted(k, e)
BY DEF SameUndos, Accounted, UndoState, NoUndoLeft

\* Changing anything but the undo state of a command keeps the account.
LEMMA UndosSame ==
  ASSUME NEW j \in Journal, NEW f, NEW o, NEW t, NEW c
  PROVE  /\ SameUndos(j, j)
         /\ SameUndos(j, [j EXCEPT !.file = f])
         /\ SameUndos(j, [j EXCEPT !.order = o, !.file = f])
         /\ SameUndos(j, [j EXCEPT !.file[t].applied = c])
         /\ SameUndos(j, [j EXCEPT !.file[t].restoring = TRUE])
         /\ SameUndos(j, [j EXCEPT !.file[t].restored = TRUE, !.file[t].restoring = FALSE])
BY DEF SameUndos, Journal

\* So does opening an entry, and signing the watched files again.
LEMMA UndosSameOpen ==
  ASSUME NEW j \in Journal, NEW t, NEW b
  PROVE  SameUndos(j, BackedUp(j, t, b)) /\ SameUndos(j, Refreshed(j))
BY DEF SameUndos, Journal, BackedUp, Refreshed

\* What is known of the effects.
LEMMA Effects ==
  ASSUME UInv, NEW p \in Proc, pc[p] # "idle"
  PROVE  /\ tx[p] \in Tx /\ cmd[tx[p]] \in [1..MaxExt -> Effect]
         /\ cmd \in [Tx -> [1..MaxExt -> Effect]]
         /\ mem[p] \in Journal /\ journals[tx[p]] = mem[p]
         /\ Accounted(mem[p], cmd[tx[p]])
         /\ WellUndone(pc[p], mem[p], reg[p], cmd[tx[p]])
  BY Alone, Shapes DEF UInv, UndosAccounted, IInv, TypeInv, TypeOK, StoreOK

\* A step of the one process at work changes one account, its own.
LEMMA OneAccount ==
  ASSUME UInv, NEW p \in Proc, pc[p] # "idle", NEW w, NEW j, NEW r, NEW e,
         pc' = [pc EXCEPT ![p] = w], tx' = tx, mem' = [mem EXCEPT ![p] = j],
         reg' = [reg EXCEPT ![p] = r],
         journals' = [journals EXCEPT ![tx[p]] = j], cmd' = [cmd EXCEPT ![tx[p]] = e],
         Accounted(j, e), WellUndone(w, j, r, e)
  PROVE  UndosAccounted'
<1>1. \A q \in Proc : q # p => pc[q] = "idle"
  BY Alone DEF UInv
<1>2. /\ pc'[p] = w /\ mem'[p] = j /\ reg'[p] = r
      /\ journals'[tx[p]] = j /\ cmd'[tx[p]] = e
      /\ \A q \in Proc : q # p => pc'[q] = "idle"
      /\ \A i \in Tx : i # tx[p] => journals'[i] = journals[i] /\ cmd'[i] = cmd[i]
  BY <1>1, Effects, Shapes DEF UInv
<1> QED
  BY <1>2 DEF UndosAccounted, UInv

\* The common case: the commands and their effects stay as they are.
LEMMA SameAccount ==
  ASSUME UInv, NEW p \in Proc, pc[p] # "idle", NEW w, NEW j, NEW r,
         pc' = [pc EXCEPT ![p] = w], UNCHANGED <<tx, cmd>>, Save(p, j),
         reg' = [reg EXCEPT ![p] = r], SameUndos(mem[p], j), w \notin {"undoing", "undone"},
         WellUndone(w, mem[p], r, cmd[tx[p]])
  PROVE  UndosAccounted'
<1> DEFINE e == cmd[tx[p]]
<1>1. cmd' = [cmd EXCEPT ![tx[p]] = e]
  BY Effects
<1>2. Accounted(j, e)
  BY Effects, AccountKept
<1>3. WellUndone(w, j, r, e)
  BY DEF WellUndone, SameUndos, NoUndoLeft
<1> HIDE DEF e
<1> QED
  BY <1>1, <1>2, <1>3, OneAccount DEF Save

\* Before the rollback nothing is said of where the undo loop stands.
LEMMA AheadWell ==
  ASSUME NEW w \in Forwards, NEW j, NEW r, NEW e
  PROVE  WellUndone(w, j, r, e) /\ w \notin {"undoing", "undone"}
  BY DEF WellUndone, Forwards, Forward, Backwards, Undoing, Restoring

\* Moving on inside the body with the commands as they are,
LEMMA AheadSaves ==
  ASSUME UInv, NEW p \in Proc, pc[p] # "idle", NEW w \in Forwards, NEW j, NEW r,
         pc' = [pc EXCEPT ![p] = w], UNCHANGED <<tx, cmd>>, Save(p, j),
         reg' = [reg EXCEPT ![p] = r], SameUndos(mem[p], j)
  PROVE  UndosAccounted'
  BY AheadWell, SameAccount

\* or with the whole journal as it is.
LEMMA AheadMoves ==
  ASSUME UInv, NEW p \in Proc, pc[p] # "idle", NEW w \in Forwards, NEW r,
         pc' = [pc EXCEPT ![p] = w], UNCHANGED <<tx, cmd, mem, journals>>,
         reg' = [reg EXCEPT ![p] = r]
  PROVE  UndosAccounted'
<1>1. Save(p, mem[p])
  BY Effects, Shapes DEF Save, UInv
<1> QED
  BY <1>1, Effects, UndosSame, AheadSaves

\* While an operation goes forward no undo has run.
Fresh(j, e) ==
  /\ Len(j.ext) <= MaxExt
  /\ \A k \in DOMAIN j.ext : j.ext[k].undoState = "none"
  /\ \A k \in 1..MaxExt : e[k].undos = 0

\* Until then a journal is accounted for just when it is fresh.
LEMMA FreshAccount ==
  ASSUME NEW j, NEW e, j.status \in {"unused", "active"}
  PROVE  Accounted(j, e) <=> Fresh(j, e)
  BY DEF Fresh, Accounted, Agrees, UndoState, Reverted

\* A command is added, or runs forward.
LEMMA FreshKept ==
  ASSUME NEW j \in Journal, NEW e \in [1..MaxExt -> Effect], Fresh(j, e), NEW c, NEW k, NEW b,
         c.undoState = "none"
  PROVE  /\ Fresh(j, [e EXCEPT ![k].on = b])
         /\ Len(j.ext) < MaxExt => Fresh([j EXCEPT !.ext = Append(@, c)], e)
         /\ [j EXCEPT !.ext = Append(@, c)].status = j.status
<1>1. ASSUME NEW n \in 1..MaxExt PROVE [e EXCEPT ![k].on = b][n].undos = e[n].undos
  BY DEF Effect
<1>2. Fresh(j, [e EXCEPT ![k].on = b])
  BY <1>1 DEF Fresh
<1> DEFINE x == Append(j.ext, c)
<1>3. /\ [j EXCEPT !.ext = Append(@, c)].ext = x
      /\ [j EXCEPT !.ext = Append(@, c)].status = j.status
  BY DEF Journal
<1>4. /\ Len(x) = Len(j.ext) + 1 /\ DOMAIN x = 1..Len(j.ext) + 1
      /\ \A n \in DOMAIN x : x[n] = IF n = Len(j.ext) + 1 THEN c ELSE j.ext[n]
      /\ DOMAIN j.ext = 1..Len(j.ext) /\ Len(j.ext) \in Nat
  BY JournalFields
<1>5. Len(j.ext) < MaxExt => Fresh([j EXCEPT !.ext = Append(@, c)], e)
  <2> HIDE DEF x
  <2>1. Len(j.ext) < MaxExt => Len(x) <= MaxExt
    BY <1>4, TransactionAssumption
  <2>2. \A n \in DOMAIN x : x[n].undoState = "none"
    BY <1>4 DEF Fresh
  <2> QED
    BY <1>3, <2>1, <2>2 DEF Fresh
<1> QED
  BY <1>2, <1>3, <1>5

\* Recording how a command ended says nothing of its undo.
LEMMA StateRecorded ==
  ASSUME NEW j \in Journal, NEW k \in 1..Len(j.ext), NEW s
  PROVE  SameUndos(j, [j EXCEPT !.ext[k].state = s])
<1> DEFINE c == [j.ext[k] EXCEPT !.state = s]
           x == [j.ext EXCEPT ![k] = c]
<1>1. j.ext \in Seq(Command) /\ j.ext[k] \in Command
  BY JournalFields
<1>2. c.undo = j.ext[k].undo /\ c.undoState = j.ext[k].undoState
  BY <1>1 DEF Command
<1>3. [j EXCEPT !.ext[k].state = s] = [j EXCEPT !.ext = x]
  OBVIOUS
<1> HIDE DEF c
<1>4. /\ DOMAIN x = DOMAIN j.ext /\ Len(x) = Len(j.ext)
      /\ \A n \in DOMAIN j.ext : x[n] = IF n = k THEN c ELSE j.ext[n]
  BY <1>1
<1> HIDE DEF x
<1>5. [j EXCEPT !.ext = x].ext = x /\ [j EXCEPT !.ext = x].status = j.status
  BY DEF Journal
<1> QED
  BY <1>2, <1>3, <1>4, <1>5 DEF SameUndos

\* A step of the body that changes the commands or their effects.
LEMMA FreshStep ==
  ASSUME UInv, NEW p \in Proc, pc[p] # "idle", NEW w \in Forwards, NEW j, NEW r, NEW e,
         pc' = [pc EXCEPT ![p] = w], tx' = tx, mem' = [mem EXCEPT ![p] = j],
         reg' = [reg EXCEPT ![p] = r], journals' = [journals EXCEPT ![tx[p]] = j],
         cmd' = [cmd EXCEPT ![tx[p]] = e], j.status = "active", Fresh(j, e)
  PROVE  UndosAccounted'
<1>1. Accounted(j, e) /\ WellUndone(w, j, r, e)
  BY FreshAccount, AheadWell
<1> QED
  BY <1>1, OneAccount

\* Every step of the body keeps the account.
LEMMA BodyAccount ==
  ASSUME UInv, NEW p \in Proc, Body(p)
  PROVE  UndosAccounted'
<1>0. /\ pc \in [Proc -> PC] /\ reg \in [Proc -> Local] /\ mem \in [Proc -> Journal]
      /\ reg = [reg EXCEPT ![p] = reg[p]] /\ pc = [pc EXCEPT ![p] = pc[p]]
  BY Shapes DEF UInv
<1>1. Forward \subseteq Forwards /\ "failed" \in Forwards /\ pc[p] \in Forward
  BY DEF Forwards, Body, Forward, Backup, StartWrite, Watch, NestedWrite, TrackCreated,
         WriteTarget, Sign, Capture, StartCommand, RunCommand, RecordCommand, RefreshConfig,
         OnRollback, Fail
<1>2. /\ pc[p] # "idle" /\ mem[p] \in Journal /\ tx[p] \in Tx /\ mem[p].status = "active"
      /\ cmd[tx[p]] \in [1..MaxExt -> Effect] /\ cmd = [cmd EXCEPT ![tx[p]] = cmd[tx[p]]]
      /\ mem = [mem EXCEPT ![p] = mem[p]] /\ journals = [journals EXCEPT ![tx[p]] = mem[p]]
  <2>1. pc[p] # "idle"
    BY <1>1 DEF Forward
  <2> QED
    BY <1>0, <1>1, <2>1, Effects, Alone, Shapes DEF UInv
<1>3. Fresh(mem[p], cmd[tx[p]])
  BY <1>2, Effects, FreshAccount
<1>4. ASSUME NEW t \in Target, Backup(p, t) \/ StartWrite(p, t) \/ Watch(p, t)
      PROVE  UndosAccounted'
  <2>1. PICK b : Save(p, BackedUp(mem[p], t, b))
    BY <1>4 DEF Backup, StartWrite, Watch
  <2>2. PICK w, r : w \in Forwards /\ pc' = [pc EXCEPT ![p] = w] /\ reg' = [reg EXCEPT ![p] = r]
    BY <1>0, <1>1, <1>4 DEF Backup, StartWrite, Watch, Set, Goto, Forward
  <2>3. UNCHANGED <<tx, cmd>>
    BY <1>4 DEF Backup, StartWrite, Watch
  <2> QED
    BY <1>2, <2>1, <2>2, <2>3, UndosSameOpen, AheadSaves
<1>5. ASSUME NEW t \in Target, NestedWrite(p, t) PROVE UndosAccounted'
  BY <1>0, <1>1, <1>2, <1>5, AheadMoves DEF NestedWrite, procVars
<1>6. ASSUME NEW t \in Target, TrackCreated(p, t) PROVE UndosAccounted'
  <2> DEFINE j == [mem[p] EXCEPT !.order = Append(@, t), !.file[t] = [NoEntry EXCEPT !.applied = fs[t]]]
  <2>1. SameUndos(mem[p], j)
    BY <1>2 DEF SameUndos, Journal
  <2>2. Save(p, j) /\ UNCHANGED <<tx, cmd, pc, reg>>
    BY <1>6 DEF TrackCreated
  <2> HIDE DEF j
  <2> QED
    BY <1>0, <1>1, <1>2, <2>1, <2>2, AheadSaves
<1>7. CASE WriteTarget(p)
  <2>1. PICK w \in {"sign", "gap"} : pc' = [pc EXCEPT ![p] = w]
    BY <1>7 DEF WriteTarget, Goto
  <2>2. w \in Forwards /\ UNCHANGED <<tx, cmd, mem, reg, journals>>
    BY <1>1, <1>7 DEF WriteTarget, Forward
  <2> QED
    BY <1>0, <1>2, <2>1, <2>2, AheadMoves
<1>8. CASE Sign(p)
  <2> DEFINE j == [mem[p] EXCEPT !.file[reg[p].cur].applied = fs[reg[p].cur]]
  <2>1. SameUndos(mem[p], j)
    BY <1>2, UndosSame
  <2>2. Save(p, j) /\ UNCHANGED <<tx, cmd>>
    BY <1>8 DEF Sign
  <2>3. PICK w, r : w \in Forwards /\ pc' = [pc EXCEPT ![p] = w] /\ reg' = [reg EXCEPT ![p] = r]
    BY <1>1, <1>8 DEF Sign, Set, Goto, Forward
  <2> HIDE DEF j
  <2> QED
    BY <1>2, <2>1, <2>2, <2>3, AheadSaves
<1>9. CASE Capture(p)
  <2>1. PICK f : Save(p, [mem[p] EXCEPT !.file = f])
    BY <1>9 DEF Capture
  <2>2. SameUndos(mem[p], [mem[p] EXCEPT !.file = f]) /\ UNCHANGED <<tx, cmd, pc, reg>>
    BY <1>2, <1>9, UndosSame DEF Capture
  <2> QED
    BY <1>0, <1>1, <1>2, <2>1, <2>2, AheadSaves
<1>10. CASE StartCommand(p)
  <2>1. PICK b : mem' = [mem EXCEPT ![p] = [mem[p] EXCEPT !.ext = Append(@,
                     [state |-> "pending", undo |-> b, undoState |-> "none"])]]
              /\ journals' = [journals EXCEPT ![tx[p]] = [mem[p] EXCEPT !.ext = Append(@,
                     [state |-> "pending", undo |-> b, undoState |-> "none"])]]
    BY <1>10 DEF StartCommand, Save
  <2> DEFINE c == [state |-> "pending", undo |-> b, undoState |-> "none"]
             j == [mem[p] EXCEPT !.ext = Append(@, c)]
  <2>2. c.undoState = "none"
    OBVIOUS
  <2>3. mem' = [mem EXCEPT ![p] = j] /\ journals' = [journals EXCEPT ![tx[p]] = j]
    BY <2>1
  <2>4. /\ UNCHANGED <<tx, cmd, reg>> /\ Len(mem[p].ext) < MaxExt
        /\ pc' = [pc EXCEPT ![p] = "run"] /\ "run" \in Forwards
    BY <1>1, <1>10 DEF StartCommand, Goto, Forward
  <2> HIDE DEF c
  <2>5. Fresh(j, cmd[tx[p]]) /\ j.status = "active"
    BY <1>2, <1>3, <2>2, <2>4, FreshKept
  <2> HIDE DEF j
  <2> QED
    BY <1>0, <1>2, <2>3, <2>4, <2>5, FreshStep
<1>11. CASE RunCommand(p)
  <2>1. PICK ok, on : /\ reg' = [reg EXCEPT ![p] = [reg[p] EXCEPT !.ok = ok]]
                      /\ cmd' = [cmd EXCEPT ![tx[p]][Len(mem[p].ext)].on = on]
    BY <1>11 DEF RunCommand, Set
  <2> DEFINE e == [cmd[tx[p]] EXCEPT ![Len(mem[p].ext)].on = on]
  <2>2. cmd' = [cmd EXCEPT ![tx[p]] = e]
    BY <2>1
  <2>3. Fresh(mem[p], e)
    <3> DEFINE c == [undoState |-> "none"]
    <3>1. c.undoState = "none"
      OBVIOUS
    <3> QED
      BY <1>2, <1>3, <3>1, FreshKept
  <2>4. /\ UNCHANGED <<tx, mem, journals>> /\ pc' = [pc EXCEPT ![p] = "ran"]
        /\ "ran" \in Forwards
    BY <1>1, <1>11 DEF RunCommand, Goto, Forward
  <2> HIDE DEF e
  <2> QED
    BY <1>2, <2>1, <2>2, <2>3, <2>4, FreshStep
<1>12. CASE RecordCommand(p)
  <2>1. PICK s : Save(p, [mem[p] EXCEPT !.ext[Len(mem[p].ext)].state = s])
    BY <1>12 DEF RecordCommand
  <2>2. SameUndos(mem[p], [mem[p] EXCEPT !.ext[Len(mem[p].ext)].state = s])
    <3>1. Len(mem[p].ext) > 0 /\ Len(mem[p].ext) \in Nat
      BY <1>2, <1>12, AtWork, JournalFields DEF RecordCommand, CursorOK, UInv, IInv
    <3>2. Len(mem[p].ext) \in 1..Len(mem[p].ext)
      BY <3>1
    <3> QED
      BY <1>2, <3>2, StateRecorded
  <2>3. /\ UNCHANGED <<tx, cmd, reg>> /\ pc' = [pc EXCEPT ![p] = "refresh"]
        /\ "refresh" \in Forwards
    BY <1>1, <1>12 DEF RecordCommand, Goto, Forward
  <2> QED
    BY <1>0, <1>2, <2>1, <2>2, <2>3, AheadSaves
<1>13. CASE RefreshConfig(p)
  <2>1. PICK w \in {"open", "failed"} : pc' = [pc EXCEPT ![p] = w]
    BY <1>13 DEF RefreshConfig, Goto
  <2>2. w \in Forwards /\ UNCHANGED <<tx, cmd, reg>> /\ Save(p, Refreshed(mem[p]))
    BY <1>1, <1>13 DEF RefreshConfig, Forward
  <2> QED
    BY <1>0, <1>2, <2>1, <2>2, UndosSameOpen, AheadSaves
<1>14. CASE OnRollback(p)
  <2> DEFINE c == [state |-> "undo_only", undo |-> TRUE, undoState |-> "none"]
             j == [mem[p] EXCEPT !.ext = Append(@, c)]
             e == [cmd[tx[p]] EXCEPT ![Len(mem[p].ext) + 1].on = TRUE]
  <2>1. mem' = [mem EXCEPT ![p] = j] /\ journals' = [journals EXCEPT ![tx[p]] = j]
    BY <1>14 DEF OnRollback, Save
  <2>2. cmd' = [cmd EXCEPT ![tx[p]] = e]
    BY <1>14 DEF OnRollback
  <2>3. UNCHANGED <<tx, pc, reg>> /\ Len(mem[p].ext) < MaxExt
    BY <1>14 DEF OnRollback
  <2>4. c.undoState = "none"
    OBVIOUS
  <2> HIDE DEF c
  <2>5. Fresh(mem[p], e)
    BY <1>2, <1>3, <2>4, FreshKept
  <2>6. Fresh(j, e) /\ j.status = "active"
    <3>1. Fresh(j, cmd[tx[p]]) /\ j.status = "active"
      BY <1>2, <1>3, <2>3, <2>4, FreshKept
    <3> QED
      BY <2>5, <3>1 DEF Fresh
  <2> HIDE DEF j, e
  <2>7. /\ pc' = [pc EXCEPT ![p] = pc[p]] /\ reg' = [reg EXCEPT ![p] = reg[p]] /\ tx' = tx
        /\ pc[p] \in Forwards
    BY <1>0, <1>1, <2>3
  <2> QED
    BY <1>2, <2>1, <2>2, <2>6, <2>7, FreshStep
<1>15. CASE Fail(p)
  <2>1. UNCHANGED <<tx, cmd, mem, reg, journals>> /\ pc' = [pc EXCEPT ![p] = "failed"]
    BY <1>15 DEF Fail, Goto, ghosts
  <2> QED
    BY <1>0, <1>1, <1>2, <2>1, AheadMoves
<1> QED
  BY <1>4, <1>5, <1>6, <1>7, <1>8, <1>9, <1>10, <1>11, <1>12, <1>13, <1>14, <1>15 DEF Body

\* A step of the file loop that goes on saves no command and leaves an error
\* noted.
LEMMA RestoreAccount ==
  ASSUME UInv, NEW p \in Proc, Restore(p), ~FinishRollback(p)
  PROVE  UndosAccounted'
<1>0. /\ pc \in [Proc -> PC] /\ reg \in [Proc -> Local] /\ mem \in [Proc -> Journal]
      /\ reg[p] \in Local
  BY Shapes DEF UInv
<1>1. /\ pc[p] \in Restoring /\ pc[p] # "idle"
      /\ \A w \in Restoring : w \in Backwards /\ w \notin {"undoing", "undone"}
  BY DEF Restore, PassFile, FinishRestored, StartRestore, RemoveTarget, PutOriginal, MarkRestored,
         RestoreRaises, FinishRollback, AtFile, Restoring, Backwards
<1>2. /\ mem[p] \in Journal /\ tx[p] \in Tx
      /\ mem = [mem EXCEPT ![p] = mem[p]] /\ journals = [journals EXCEPT ![tx[p]] = mem[p]]
      /\ WellUndone(pc[p], mem[p], reg[p], cmd[tx[p]])
  BY <1>0, <1>1, Effects, Shapes DEF UInv
<1>3. UNCHANGED <<tx, cmd>>
  BY DEF Restore, PassFile, FinishRestored, StartRestore, RemoveTarget, PutOriginal, MarkRestored,
         RestoreRaises, ghosts
<1>4. PICK w \in Restoring : pc' = [pc EXCEPT ![p] = w]
  BY <1>0, <1>1 DEF Restore, PassFile, FinishRestored, StartRestore, RemoveTarget, PutOriginal,
     MarkRestored, RestoreRaises, Goto, Restoring
<1>5. PICK j : Save(p, j) /\ SameUndos(mem[p], j)
  <2>1. UNCHANGED <<mem, journals>> => Save(p, mem[p]) /\ SameUndos(mem[p], mem[p])
    BY <1>2, UndosSame DEF Save
  <2>2. CASE FinishRestored(p) \/ MarkRestored(p)
    <3>1. PICK t : Save(p, [mem[p] EXCEPT !.file[t].restored = TRUE, !.file[t].restoring = FALSE])
      BY <2>2 DEF FinishRestored, MarkRestored, MarkEntry
    <3> QED
      BY <1>2, <3>1, UndosSame
  <2>3. CASE StartRestore(p)
    BY <1>2, <2>3, UndosSame DEF StartRestore
  <2> QED
    BY <2>1, <2>2, <2>3 DEF Restore, PassFile, RemoveTarget, PutOriginal, RestoreRaises, ghosts
<1>6. PICK r : reg' = [reg EXCEPT ![p] = r] /\ (reg[p].err => r.err)
  <2>1. /\ NextIdx(p).err = reg[p].err /\ [NextIdx(p) EXCEPT !.err = TRUE].err
        /\ \A c : [NextIdx(p) EXCEPT !.cur = c].err = reg[p].err
        /\ \A c : [reg[p] EXCEPT !.cur = c].err = reg[p].err
        /\ \A c : [NextIdx(p) EXCEPT !.err = TRUE, !.cur = c].err
    BY <1>0 DEF NextIdx, Local
  <2>2. UNCHANGED reg => reg' = [reg EXCEPT ![p] = reg[p]]
    BY <1>0
  <2>3. CASE PassFile(p) \/ FinishRestored(p)
    <3> DEFINE a == [NextIdx(p) EXCEPT !.err = TRUE]
    <3>1. reg' = [reg EXCEPT ![p] = NextIdx(p)] \/ reg' = [reg EXCEPT ![p] = a]
      BY <2>3 DEF PassFile, FinishRestored, Set
    <3>2. NextIdx(p).err = reg[p].err /\ a.err
      BY <2>1
    <3> HIDE DEF a
    <3> QED
      BY <3>1, <3>2
  <2>4. CASE StartRestore(p)
    <3> DEFINE a == [reg[p] EXCEPT !.cur = TheTarget(p)]
    <3>1. reg' = [reg EXCEPT ![p] = a] /\ a.err = reg[p].err
      BY <2>1, <2>4 DEF StartRestore, Set
    <3> HIDE DEF a
    <3> QED
      BY <3>1
  <2>5. CASE MarkRestored(p)
    <3> DEFINE a == [NextIdx(p) EXCEPT !.cur = NoTarget]
    <3>1. reg' = [reg EXCEPT ![p] = a] /\ a.err = reg[p].err
      BY <2>1, <2>5 DEF MarkRestored, Set
    <3> HIDE DEF a
    <3> QED
      BY <3>1
  <2>6. CASE RestoreRaises(p)
    <3> DEFINE a == [NextIdx(p) EXCEPT !.err = TRUE, !.cur = NoTarget]
    <3>1. reg' = [reg EXCEPT ![p] = a] /\ a.err
      BY <2>1, <2>6 DEF RestoreRaises, Set
    <3> HIDE DEF a
    <3> QED
      BY <3>1
  <2>7. CASE RemoveTarget(p) \/ PutOriginal(p)
    BY <2>2, <2>7 DEF RemoveTarget, PutOriginal
  <2> QED
    BY <2>3, <2>4, <2>5, <2>6, <2>7 DEF Restore
<1>7. WellUndone(w, mem[p], r, cmd[tx[p]])
  BY <1>1, <1>2, <1>4, <1>6 DEF WellUndone
<1> QED
  BY <1>1, <1>3, <1>4, <1>5, <1>6, <1>7, SameAccount

\* Recording how far an undo has come changes that command only.
LEMMA UndoRecorded ==
  ASSUME NEW j \in Journal, NEW k \in 1..Len(j.ext), NEW s, NEW f
  PROVE  /\ [j EXCEPT !.ext[k].undoState = s].status = j.status
         /\ Len([j EXCEPT !.ext[k].undoState = s].ext) = Len(j.ext)
         /\ DOMAIN [j EXCEPT !.ext[k].undoState = s].ext = 1..Len(j.ext)
         /\ k \in DOMAIN j.ext /\ DOMAIN j.ext = 1..Len(j.ext)
         /\ \A n \in DOMAIN j.ext :
              /\ [j EXCEPT !.ext[k].undoState = s].ext[n].undo = j.ext[n].undo
              /\ [j EXCEPT !.ext[k].undoState = s].ext[n].undoState
                    = IF n = k THEN s ELSE j.ext[n].undoState
<1> DEFINE c == [j.ext[k] EXCEPT !.undoState = s]
           x == [j.ext EXCEPT ![k] = c]
<1>1. j.ext \in Seq(Command) /\ j.ext[k] \in Command
  BY JournalFields
<1>2. c.undo = j.ext[k].undo /\ c.undoState = s
  BY <1>1 DEF Command
<1>3. [j EXCEPT !.ext[k].undoState = s] = [j EXCEPT !.ext = x]
  OBVIOUS
<1> HIDE DEF c
<1>4. /\ DOMAIN x = 1..Len(j.ext) /\ DOMAIN j.ext = 1..Len(j.ext) /\ Len(x) = Len(j.ext)
      /\ \A n \in DOMAIN j.ext : x[n] = IF n = k THEN c ELSE j.ext[n]
  BY <1>1
<1> HIDE DEF x
<1>5. [j EXCEPT !.ext = x].ext = x /\ [j EXCEPT !.ext = x].status = j.status
  BY DEF Journal
<1> QED
  BY <1>2, <1>3, <1>4, <1>5

\* PassUndo leaves a command without an undo, or notes that something is wrong.
LEMMA PassUndoAccount ==
  ASSUME UInv, NEW p \in Proc, PassUndo(p)
  PROVE  UndosAccounted'
<1>1. /\ pc[p] = "undo" /\ pc[p] # "idle" /\ reg[p].idx \in Nat /\ reg[p].idx > 0
      /\ reg[p] \in Local /\ pc' = [pc EXCEPT ![p] = "undo"]
      /\ UNCHANGED <<tx, cmd, mem, journals>>
  BY Shapes, LocalUpdates DEF PassUndo, AtUndo, UInv, Local
<1>2. /\ mem[p] \in Journal /\ WellUndone("undo", mem[p], reg[p], cmd[tx[p]])
      /\ Save(p, mem[p]) /\ SameUndos(mem[p], mem[p])
  BY <1>1, Effects, Shapes, UndosSame DEF Save, UInv
<1>3. DOMAIN mem[p].ext \subseteq Nat
  BY <1>2, JournalFields
<1>4. ASSUME NEW r, reg' = [reg EXCEPT ![p] = r], r.idx = reg[p].idx - 1,
             ~r.err => ~reg[p].err /\ NoUndoLeft(TheCommand(p))
      PROVE  UndosAccounted'
  <2>1. ASSUME ~r.err, NEW k \in DOMAIN mem[p].ext, k > r.idx
        PROVE  NoUndoLeft(mem[p].ext[k])
    <3>1. k = reg[p].idx \/ k > reg[p].idx
      BY <1>1, <1>3, <1>4, <2>1
    <3> QED
      BY <1>2, <1>4, <2>1, <3>1 DEF TheCommand, WellUndone, Backwards, Undoing
  <2>2. WellUndone("undo", mem[p], r, cmd[tx[p]])
    BY <2>1 DEF WellUndone, Restoring
  <2> QED
    BY <1>1, <1>2, <1>4, <2>2, SameAccount
<1>5. CASE ~NeedsUndo(p)
  <2> DEFINE b == NextIdx(p).err \/ TheCommand(p).undoState = "running"
             r == [NextIdx(p) EXCEPT !.err = b]
  <2>1. reg' = [reg EXCEPT ![p] = r]
    BY <1>5 DEF PassUndo, Set
  <2>2. r.idx = reg[p].idx - 1 /\ r.err = b /\ NextIdx(p).err = reg[p].err
    BY <1>1 DEF NextIdx, Local
  <2>3. TheCommand(p).undoState \in {"none", "running", "failed", "applied"}
    <3>1. reg[p].idx \in 1..Len(mem[p].ext)
      BY <1>1, <1>2, AtWork, JournalFields DEF CursorOK, UInv, IInv
    <3>2. TheCommand(p) \in Command
      BY <1>2, <3>1, JournalFields DEF TheCommand
    <3> QED
      BY <3>2 DEF Command
  <2>4. ~b => ~reg[p].err /\ NoUndoLeft(TheCommand(p))
    BY <1>5, <2>2, <2>3 DEF NeedsUndo, NoUndoLeft
  <2> HIDE DEF b, r
  <2> QED
    BY <1>4, <2>1, <2>2, <2>4
<1>6. CASE NeedsUndo(p)
  <2> DEFINE r == [NextIdx(p) EXCEPT !.err = TRUE, !.conflict = TRUE]
  <2>1. reg' = [reg EXCEPT ![p] = r]
    BY <1>6 DEF PassUndo, Set
  <2>2. r.idx = reg[p].idx - 1 /\ r.err
    BY <1>1 DEF NextIdx, Local
  <2> HIDE DEF r
  <2> QED
    BY <1>4, <2>1, <2>2
<1> QED
  BY <1>5, <1>6

\* The undo at the cursor, with the journal that will say so, and the effects.
LEMMA AtUndoing ==
  ASSUME UInv, NEW p \in Proc, pc[p] \in {"undoing", "undone"}
  PROVE  /\ pc[p] # "idle" /\ mem[p] \in Journal /\ reg[p] \in Local /\ tx[p] \in Tx
         /\ reg[p].idx \in 1..Len(mem[p].ext) /\ reg[p].idx \in 1..MaxExt
         /\ reg[p].idx \in DOMAIN mem[p].ext /\ reg[p].idx \in Nat
         /\ DOMAIN mem[p].ext \subseteq Nat
         /\ cmd[tx[p]] \in [1..MaxExt -> Effect] /\ cmd \in [Tx -> [1..MaxExt -> Effect]]
         /\ mem[p].status = "rolling_back"
         /\ Accounted(mem[p], cmd[tx[p]])
         /\ WellUndone(pc[p], mem[p], reg[p], cmd[tx[p]])
         /\ mem[p].ext[reg[p].idx].undoState = "running"
<1>1. /\ pc[p] # "idle" /\ mem[p] \in Journal /\ reg[p] \in Local /\ tx[p] \in Tx
      /\ cmd[tx[p]] \in [1..MaxExt -> Effect] /\ cmd \in [Tx -> [1..MaxExt -> Effect]]
      /\ Accounted(mem[p], cmd[tx[p]])
      /\ WellUndone(pc[p], mem[p], reg[p], cmd[tx[p]])
  BY Effects, Shapes DEF UInv
<1>2. mem[p].status = "rolling_back"
  BY <1>1, Alone DEF UInv, Forwards, Forward
<1>3. reg[p].idx \in 1..Len(mem[p].ext) /\ Len(mem[p].ext) \in Nat
  BY <1>1, AtCommand, JournalFields DEF UInv, IInv
<1>4. Len(mem[p].ext) <= MaxExt
  BY <1>1 DEF Accounted
<1>5. reg[p].idx \in 1..MaxExt
  BY <1>3, <1>4, TransactionAssumption
<1>6. reg[p].idx \in DOMAIN mem[p].ext /\ DOMAIN mem[p].ext \subseteq Nat
  BY <1>1, <1>3, JournalFields
<1> QED
  BY <1>1, <1>2, <1>3, <1>5, <1>6 DEF WellUndone

\* StartUndo says beforehand that the undo is about to run.
LEMMA StartUndoAccount ==
  ASSUME UInv, NEW p \in Proc, StartUndo(p)
  PROVE  UndosAccounted'
<1> DEFINE i == reg[p].idx
           j == [mem[p] EXCEPT !.ext[i].undoState = "running"]
           e == cmd[tx[p]]
<1>1. /\ pc[p] = "undo" /\ i > 0 /\ NeedsUndo(p) /\ pc' = [pc EXCEPT ![p] = "undoing"]
      /\ mem' = [mem EXCEPT ![p] = j] /\ journals' = [journals EXCEPT ![tx[p]] = j]
      /\ UNCHANGED <<tx, cmd, reg>>
  BY DEF StartUndo, AtUndo, Save, Goto
<1>2. /\ pc[p] # "idle" /\ mem[p] \in Journal /\ reg[p] \in Local /\ tx[p] \in Tx
      /\ Accounted(mem[p], e) /\ WellUndone("undo", mem[p], reg[p], e)
      /\ reg' = [reg EXCEPT ![p] = reg[p]] /\ cmd' = [cmd EXCEPT ![tx[p]] = e]
  BY <1>1, Effects, Shapes DEF UInv
<1>3. i \in 1..Len(mem[p].ext) /\ Len(mem[p].ext) \in Nat /\ i \in Nat
  BY <1>1, <1>2, AtWork, JournalFields DEF CursorOK, UInv, IInv, Local
<1>4. mem[p].status = "rolling_back"
  BY <1>1, Alone DEF UInv, Forwards, Forward
<1>5. /\ j.status = mem[p].status /\ Len(j.ext) = Len(mem[p].ext)
      /\ DOMAIN j.ext = DOMAIN mem[p].ext /\ i \in DOMAIN mem[p].ext
      /\ \A n \in DOMAIN mem[p].ext :
           /\ j.ext[n].undo = mem[p].ext[n].undo
           /\ j.ext[n].undoState = IF n = i THEN "running" ELSE mem[p].ext[n].undoState
  BY <1>2, <1>3, UndoRecorded
<1>6. i \in 1..MaxExt /\ e[i].undos = 0
  <2>1. i \in 1..MaxExt
    BY <1>2, <1>3, TransactionAssumption DEF Accounted
  <2> QED
    BY <1>1, <1>2, <1>5, <2>1 DEF Accounted, Agrees, UndoState, NeedsUndo, TheCommand
<1> HIDE DEF j, e
<1>7. Accounted(j, e)
  <2>1. ASSUME NEW k \in 1..MaxExt PROVE Agrees(UndoState(j, k), e[k])
    BY <1>2, <1>5, <1>6 DEF Accounted, Agrees, UndoState
  <2> QED
    BY <1>2, <1>4, <1>5, <2>1 DEF Accounted, Reverted
<1>8. WellUndone("undoing", j, reg[p], e)
  <2>1. ASSUME ~reg[p].err, NEW k \in DOMAIN j.ext, k > i PROVE NoUndoLeft(j.ext[k])
    <3>1. k # i
      BY <1>3, <2>1
    <3> QED
      BY <1>2, <1>5, <2>1, <3>1 DEF WellUndone, NoUndoLeft, Backwards, Undoing
  <2> QED
    BY <1>5, <1>6, <2>1 DEF WellUndone, Restoring
<1> QED
  BY <1>1, <1>2, <1>7, <1>8, OneAccount

\* The undo takes effect while the journal says it is running.
LEMMA EffectCounted ==
  ASSUME UInv, NEW p \in Proc, pc[p] = "undoing"
  PROVE  /\ Undone(tx[p], reg[p].idx) =>
              \E e : /\ cmd' = [cmd EXCEPT ![tx[p]] = e]
                     /\ e[reg[p].idx] = [on |-> FALSE, undos |-> 1]
                     /\ Accounted(mem[p], e)
         /\ cmd[tx[p]][reg[p].idx].undos = 0
         /\ UNCHANGED cmd => cmd' = [cmd EXCEPT ![tx[p]] = cmd[tx[p]]]
<1> DEFINE i == reg[p].idx
           c == [on |-> FALSE, undos |-> 1]
           e == [cmd[tx[p]] EXCEPT ![i] = c]
<1>1. cmd[tx[p]][i].undos = 0 /\ i \in 1..MaxExt /\ tx[p] \in Tx
  BY AtUndoing DEF WellUndone
<1>2. Undone(tx[p], i) => cmd' = [cmd EXCEPT ![tx[p]] = e]
  <2>1. ASSUME Undone(tx[p], i) PROVE cmd' = [cmd EXCEPT ![tx[p]][i] = c]
    <3>1. (IF cmd[tx[p]][i].undos < 2 THEN cmd[tx[p]][i].undos + 1 ELSE 2) = 1
      BY <1>1
    <3> QED
      BY <2>1, <3>1 DEF Undone
  <2> HIDE DEF c
  <2> QED
    BY <2>1
<1>3. e[i] = c /\ \A k \in 1..MaxExt : k # i => e[k] = cmd[tx[p]][k]
  BY <1>1, AtUndoing
<1> HIDE DEF e
<1>4. Accounted(mem[p], e)
  BY <1>1, <1>3, AtUndoing DEF Accounted, Agrees, UndoState
<1>5. UNCHANGED cmd => cmd' = [cmd EXCEPT ![tx[p]] = cmd[tx[p]]]
  BY AtUndoing
<1> QED
  BY <1>1, <1>2, <1>3, <1>4, <1>5

\* RunUndo: the undo takes effect, or it does not.
LEMMA RunUndoAccount ==
  ASSUME UInv, NEW p \in Proc, RunUndo(p)
  PROVE  UndosAccounted'
<1>1. /\ pc[p] = "undoing" /\ pc' = [pc EXCEPT ![p] = "undone"]
      /\ UNCHANGED <<tx, mem, journals>>
  BY DEF RunUndo, Goto
<1>2. mem' = [mem EXCEPT ![p] = mem[p]] /\ journals' = [journals EXCEPT ![tx[p]] = mem[p]]
  BY <1>1, Effects, Shapes DEF UInv
<1>3. ASSUME NEW b \in BOOLEAN, NEW e, cmd' = [cmd EXCEPT ![tx[p]] = e],
             reg' = [reg EXCEPT ![p] = [reg[p] EXCEPT !.ok = b]], Accounted(mem[p], e),
             IF b THEN e[reg[p].idx] = [on |-> FALSE, undos |-> 1] ELSE e[reg[p].idx].undos = 0
      PROVE  UndosAccounted'
  <2> DEFINE r == [reg[p] EXCEPT !.ok = b]
  <2>1. r.ok = b /\ r.idx = reg[p].idx /\ r.err = reg[p].err
    BY <1>1, AtUndoing DEF Local
  <2> HIDE DEF r
  <2>2. WellUndone("undone", mem[p], r, e)
    BY <1>1, <1>3, <2>1, AtUndoing DEF WellUndone, Backwards, Undoing, Restoring
  <2> QED
    BY <1>1, <1>2, <1>3, <2>2, AtUndoing, OneAccount DEF r
<1>4. CASE Undone(tx[p], reg[p].idx) /\ reg' = [reg EXCEPT ![p] = [reg[p] EXCEPT !.ok = TRUE]]
  BY <1>1, <1>3, <1>4, EffectCounted
<1>5. CASE UNCHANGED cmd /\ reg' = [reg EXCEPT ![p] = [reg[p] EXCEPT !.ok = FALSE]]
  BY <1>1, <1>3, <1>5, EffectCounted, AtUndoing
<1> QED
  BY <1>4, <1>5 DEF RunUndo, Set

\* RecordUndo saves what became of it.
LEMMA RecordUndoAccount ==
  ASSUME UInv, NEW p \in Proc, RecordUndo(p)
  PROVE  UndosAccounted'
<1> DEFINE i == reg[p].idx
           s == IF reg[p].ok THEN "applied" ELSE "failed"
           j == [mem[p] EXCEPT !.ext[i].undoState = s]
           e == cmd[tx[p]]
<1>1. pc[p] = "undone" /\ pc' = [pc EXCEPT ![p] = "undo"] /\ UNCHANGED <<tx, cmd>>
  BY DEF RecordUndo, Goto
<1>2. PICK f : Save(p, [j EXCEPT !.file = f])
  BY DEF RecordUndo
<1>3. /\ j.status = mem[p].status /\ Len(j.ext) = Len(mem[p].ext)
      /\ DOMAIN j.ext = DOMAIN mem[p].ext /\ i \in DOMAIN mem[p].ext
      /\ \A n \in DOMAIN mem[p].ext :
           /\ j.ext[n].undo = mem[p].ext[n].undo
           /\ j.ext[n].undoState = IF n = i THEN s ELSE mem[p].ext[n].undoState
  BY <1>1, AtUndoing, UndoRecorded
<1> DEFINE h == [j EXCEPT !.file = f]
<1>4. h.status = j.status /\ h.ext = j.ext
  <2>1. j \in Journal
    BY <1>1, AtUndoing, CommandSaved
  <2> HIDE DEF j
  <2> QED
    BY <2>1 DEF Journal
<1>5. mem' = [mem EXCEPT ![p] = h] /\ journals' = [journals EXCEPT ![tx[p]] = h]
  BY <1>2 DEF Save
<1> HIDE DEF h, j
<1>6. cmd' = [cmd EXCEPT ![tx[p]] = e]
  BY <1>1, AtUndoing
<1>7. IF reg[p].ok THEN e[i] = [on |-> FALSE, undos |-> 1] ELSE e[i].undos = 0
  BY <1>1, AtUndoing DEF WellUndone
<1>8. Accounted(h, e)
  <2>1. ASSUME NEW k \in 1..MaxExt PROVE Agrees(UndoState(h, k), e[k])
    <3>1. CASE k = i
      BY <1>3, <1>4, <1>7, <3>1 DEF Agrees, UndoState
    <3>2. CASE k # i
      BY <1>1, <1>3, <1>4, <3>2, AtUndoing DEF Accounted, UndoState
    <3> QED
      BY <3>1, <3>2
  <2> QED
    BY <1>1, <1>3, <1>4, <2>1, AtUndoing DEF Accounted, Reverted
<1> DEFINE b == NextIdx(p).err \/ ~reg[p].ok
           r == [NextIdx(p) EXCEPT !.err = b]
<1>9. reg' = [reg EXCEPT ![p] = r]
  BY DEF RecordUndo, Set
<1>10. r.idx = i - 1 /\ r.err = b /\ NextIdx(p).err = reg[p].err
  BY <1>1, AtUndoing DEF NextIdx, Local
<1>11. WellUndone("undo", h, r, e)
  <2> HIDE DEF r
  <2>1. ASSUME ~r.err, NEW k \in DOMAIN h.ext, k > r.idx PROVE NoUndoLeft(h.ext[k])
    <3>1. k = i \/ k > i
      BY <1>1, <1>3, <1>4, <1>10, <2>1, AtUndoing
    <3>2. CASE k = i
      BY <1>3, <1>4, <1>10, <2>1, <3>2 DEF NoUndoLeft
    <3>3. CASE k > i /\ k # i
      <4>1. WellUndone("undone", mem[p], reg[p], e) /\ ~reg[p].err /\ k \in DOMAIN mem[p].ext
        BY <1>1, <1>3, <1>4, <1>10, <2>1, AtUndoing
      <4>2. NoUndoLeft(mem[p].ext[k])
        BY <3>3, <4>1 DEF WellUndone, Backwards, Undoing
      <4> QED
        BY <1>3, <1>4, <3>3, <4>1, <4>2 DEF NoUndoLeft
    <3> QED
      BY <1>1, <3>1, <3>2, <3>3, AtUndoing
  <2> QED
    BY <2>1 DEF WellUndone, Restoring
<1> HIDE DEF r
<1> QED
  BY <1>1, <1>5, <1>6, <1>8, <1>9, <1>11, AtUndoing, OneAccount

\* UndoRaises leaves it running, which no later rollback repeats.
LEMMA UndoRaisesAccount ==
  ASSUME UInv, NEW p \in Proc, UndoRaises(p)
  PROVE  UndosAccounted'
<1> DEFINE r == [NextIdx(p) EXCEPT !.err = TRUE]
<1>1. /\ pc[p] = "undoing" /\ pc' = [pc EXCEPT ![p] = "undo"]
      /\ reg' = [reg EXCEPT ![p] = r] /\ UNCHANGED <<tx, mem, journals>>
  BY DEF UndoRaises, Goto, Set
<1>2. mem' = [mem EXCEPT ![p] = mem[p]] /\ journals' = [journals EXCEPT ![tx[p]] = mem[p]]
  BY <1>1, Effects, Shapes DEF UInv
<1>3. r.err
  BY <1>1, AtUndoing DEF NextIdx, Local
<1> HIDE DEF r
<1>4. PICK e : cmd' = [cmd EXCEPT ![tx[p]] = e] /\ Accounted(mem[p], e)
  <2>1. Undone(tx[p], reg[p].idx) \/ UNCHANGED cmd
    BY DEF UndoRaises
  <2> QED
    BY <1>1, <2>1, EffectCounted, AtUndoing
<1>5. WellUndone("undo", mem[p], r, e)
  BY <1>3 DEF WellUndone
<1> QED
  BY <1>1, <1>2, <1>4, <1>5, AtUndoing, OneAccount

\* UndosDone: with the cursor at the first command none is left.
LEMMA UndosDoneAccount ==
  ASSUME UInv, NEW p \in Proc, UndosDone(p)
  PROVE  UndosAccounted'
<1> DEFINE r == [reg[p] EXCEPT !.idx = Len(mem[p].order)]
<1>1. /\ pc[p] = "undo" /\ pc[p] # "idle" /\ reg[p].idx = 0 /\ pc' = [pc EXCEPT ![p] = "files"]
      /\ reg' = [reg EXCEPT ![p] = r] /\ UNCHANGED <<tx, cmd, mem, journals>>
  BY DEF UndosDone, Goto, Set
<1>2. /\ mem[p] \in Journal /\ WellUndone("undo", mem[p], reg[p], cmd[tx[p]])
      /\ Save(p, mem[p]) /\ SameUndos(mem[p], mem[p])
  BY <1>1, Effects, Shapes, UndosSame DEF Save, UInv
<1>3. r.err = reg[p].err
  BY Shapes DEF Local, UInv
<1> HIDE DEF r
<1>4. \A k \in DOMAIN mem[p].ext : k > 0
  BY <1>2, JournalFields
<1>5. WellUndone("files", mem[p], r, cmd[tx[p]])
  BY <1>1, <1>2, <1>3, <1>4 DEF WellUndone, Backwards, Undoing
<1>6. "files" \notin {"undoing", "undone"} /\ UNCHANGED <<tx, cmd>>
  BY <1>1
<1> QED
  BY <1>1, <1>2, <1>5, <1>6, SameAccount

\* A new journal has no commands, and none of its effects was undone.
LEMMA BeginAccount ==
  ASSUME UInv, NEW p \in Proc, Begin(p)
  PROVE  UndosAccounted'
<1>1. PICK i \in Tx, b \in BOOLEAN :
        /\ journals[i].status = "unused"
        /\ tx' = [tx EXCEPT ![p] = i]
        /\ mem' = [mem EXCEPT ![p] = [NoJournal EXCEPT !.status = "active", !.preserve = b]]
        /\ journals' = [journals EXCEPT ![i] = [NoJournal EXCEPT !.status = "active", !.preserve = b]]
  BY DEF Begin
<1> DEFINE j == [NoJournal EXCEPT !.status = "active", !.preserve = b]
<1>2. /\ tx' = [tx EXCEPT ![p] = i] /\ mem' = [mem EXCEPT ![p] = j]
      /\ journals' = [journals EXCEPT ![i] = j]
  BY <1>1
<1>3. j.status = "active" /\ j.ext = <<>>
  BY DEF NoJournal
<1> HIDE DEF j
<1>4. /\ lock = NoProc /\ pc' = [pc EXCEPT ![p] = "open"] /\ UNCHANGED cmd
      /\ \A q \in Proc : pc[q] = "idle"
  BY TransactionAssumption DEF Begin, LockFree, Goto, UInv, IInv, LedgerInv, Holds
<1>5. /\ pc'[p] = "open" /\ journals'[i] = j
      /\ \A q \in Proc : q # p => pc'[q] = "idle"
      /\ \A h \in Tx : h # i => journals'[h] = journals[h]
  BY <1>2, <1>4, Shapes DEF UInv
<1>6. Fresh(j, cmd[i])
  <2>1. Fresh(journals[i], cmd[i])
    BY <1>1, FreshAccount DEF UInv, UndosAccounted
  <2> QED
    BY <1>3, <2>1, TransactionAssumption DEF Fresh
<1>7. Accounted(j, cmd[i])
  BY <1>3, <1>6, FreshAccount
<1>8. WellUndone("open", mem'[p], reg'[p], cmd'[tx'[p]])
  BY AheadWell DEF Forwards, Forward
<1> QED
  BY <1>4, <1>5, <1>7, <1>8 DEF UInv, UndosAccounted

\* A rollback starts behind the last command.
LEMMA StartsBehind ==
  ASSUME NEW j, NEW r, NEW e, j.ext \in Seq(Command), r.idx = Len(j.ext)
  PROVE  WellUndone("undo", j, r, e)
<1>1. \A k \in DOMAIN j.ext : ~(k > r.idx)
  OBVIOUS
<1> QED
  BY <1>1 DEF WellUndone, Restoring

\* The account of a journal whose rollback starts.
LEMMA StartAccount ==
  ASSUME NEW j \in Journal, NEW k, NEW e, k.ext = j.ext, k.status = "rolling_back",
         Accounted(j, e)
  PROVE  Accounted(k, e)
  BY DEF Accounted, UndoState, Reverted

\* rollback() keeps what the journal says of the commands.
LEMMA RollBackAccount ==
  ASSUME UInv, NEW p \in Proc, RollBack(p)
  PROVE  UndosAccounted'
<1> DEFINE j == [mem[p] EXCEPT !.status = "rolling_back"]
           r == [NoLocal EXCEPT !.idx = Len(mem[p].ext)]
           e == cmd[tx[p]]
<1>1. /\ pc[p] # "idle" /\ pc' = [pc EXCEPT ![p] = "undo"] /\ UNCHANGED <<tx, cmd>>
      /\ mem' = [mem EXCEPT ![p] = j] /\ journals' = [journals EXCEPT ![tx[p]] = j]
      /\ reg' = [reg EXCEPT ![p] = r]
  BY DEF RollBack, Save, Set, Goto
<1>2. /\ mem[p] \in Journal /\ Accounted(mem[p], e) /\ tx[p] \in Tx
      /\ cmd' = [cmd EXCEPT ![tx[p]] = e]
  BY <1>1, Effects
<1>3. j.status = "rolling_back" /\ j.ext = mem[p].ext /\ r.idx = Len(mem[p].ext)
  BY <1>2 DEF Journal, NoLocal
<1> HIDE DEF j, r, e
<1>4. Accounted(j, e) /\ WellUndone("undo", j, r, e)
  BY <1>2, <1>3, StartAccount, StartsBehind, JournalFields
<1> QED
  BY <1>1, <1>2, <1>4, OneAccount

\* So does rollback_saved() with the newest journal.
LEMMA RollBackSavedAccount ==
  ASSUME UInv, NEW p \in Proc, RollBackSaved(p)
  PROVE  UndosAccounted'
<1>1. PICK i \in Tx :
        LET j == [journals[i] EXCEPT !.manual = WasCommitted(journals[i]),
                                     !.status = "rolling_back"] IN
        /\ tx' = [tx EXCEPT ![p] = i]
        /\ mem' = [mem EXCEPT ![p] = j]
        /\ journals' = [journals EXCEPT ![i] = j]
        /\ reg' = [reg EXCEPT ![p] = [NoLocal EXCEPT !.idx = Len(j.ext), !.saved = TRUE]]
  BY DEF RollBackSaved, Set
<1> DEFINE j == [journals[i] EXCEPT !.manual = WasCommitted(journals[i]),
                                    !.status = "rolling_back"]
           r == [NoLocal EXCEPT !.idx = Len(j.ext), !.saved = TRUE]
<1>2. /\ journals[i] \in Journal /\ j.status = "rolling_back" /\ j.ext = journals[i].ext
      /\ r.idx = Len(j.ext)
  BY Shapes DEF Journal, NoLocal, UInv
<1>3. /\ tx' = [tx EXCEPT ![p] = i] /\ mem' = [mem EXCEPT ![p] = j]
      /\ journals' = [journals EXCEPT ![i] = j] /\ reg' = [reg EXCEPT ![p] = r]
  BY <1>1
<1> HIDE DEF j, r
<1>4. /\ lock = NoProc /\ pc' = [pc EXCEPT ![p] = "undo"] /\ UNCHANGED cmd
      /\ \A q \in Proc : pc[q] = "idle"
  BY TransactionAssumption DEF RollBackSaved, LockFree, Goto, UInv, IInv, LedgerInv, Holds
<1>5. /\ pc'[p] = "undo" /\ journals'[i] = j /\ mem'[p] = j /\ reg'[p] = r /\ tx'[p] = i
      /\ \A q \in Proc : q # p => pc'[q] = "idle"
      /\ \A h \in Tx : h # i => journals'[h] = journals[h]
  BY <1>3, <1>4, Shapes DEF UInv
<1>6. Accounted(j, cmd[i]) /\ WellUndone("undo", j, r, cmd[i])
  <2>1. Accounted(journals[i], cmd[i])
    BY DEF UInv, UndosAccounted
  <2> QED
    BY <1>2, <2>1, StartAccount, StartsBehind, JournalFields
<1> QED
  BY <1>4, <1>5, <1>6 DEF UInv, UndosAccounted

\* A process leaves with journal j saved.
LEMMA LeaveAccount ==
  ASSUME UInv, NEW p \in Proc, pc[p] # "idle", Leave(p), UNCHANGED cmd, NEW j,
         journals' = [journals EXCEPT ![tx[p]] = j], Accounted(j, cmd[tx[p]])
  PROVE  UndosAccounted'
<1>1. \A q \in Proc : q # p => pc[q] = "idle"
  BY Alone DEF UInv
<1>2. /\ \A q \in Proc : pc'[q] = "idle"
      /\ journals'[tx[p]] = j /\ \A h \in Tx : h # tx[p] => journals'[h] = journals[h]
  BY <1>1, Effects, Shapes DEF Leave, Goto, UInv
<1> QED
  BY <1>2 DEF UInv, UndosAccounted

\* commit() leaves every command as it is.
LEMMA CommitAccount ==
  ASSUME UInv, NEW p \in Proc, Commit(p)
  PROVE  UndosAccounted'
<1> DEFINE j == [mem[p] EXCEPT !.status = "committed"]
<1>1. /\ pc[p] # "idle" /\ Leave(p) /\ UNCHANGED cmd
      /\ journals' = [journals EXCEPT ![tx[p]] = j]
  BY DEF Commit
<1>2. mem[p] \in Journal /\ Accounted(mem[p], cmd[tx[p]])
  BY <1>1, Effects
<1>3. j.status = "committed" /\ j.ext = mem[p].ext
  BY <1>2 DEF Journal
<1> HIDE DEF j
<1>4. Accounted(j, cmd[tx[p]])
  BY <1>2, <1>3 DEF Accounted, UndoState, Reverted
<1> QED
  BY <1>1, <1>4, LeaveAccount

\* A rollback reports success only when no undo is left.
LEMMA FinishRollbackAccount ==
  ASSUME UInv, NEW p \in Proc, FinishRollback(p)
  PROVE  UndosAccounted'
<1> DEFINE j == [mem[p] EXCEPT !.status = FinalStatus(p)]
<1>1. /\ pc[p] = "files" /\ pc[p] # "idle" /\ Leave(p) /\ UNCHANGED cmd
      /\ journals' = [journals EXCEPT ![tx[p]] = j]
  BY DEF FinishRollback
<1>2. /\ mem[p] \in Journal /\ Accounted(mem[p], cmd[tx[p]])
      /\ WellUndone("files", mem[p], reg[p], cmd[tx[p]])
  BY <1>1, Effects
<1>3. j.status = FinalStatus(p) /\ j.ext = mem[p].ext
  BY <1>2 DEF Journal
<1> HIDE DEF j
<1>4. /\ FinalStatus(p) \notin {"unused", "active"}
      /\ FinalStatus(p) \in Reverted => ~reg[p].err
  BY DEF FinalStatus, Reverted
<1>5. ~reg[p].err => \A k \in DOMAIN mem[p].ext : NoUndoLeft(mem[p].ext[k])
  BY <1>2 DEF WellUndone, Backwards, Restoring
<1>6. Accounted(j, cmd[tx[p]])
  BY <1>2, <1>3, <1>4, <1>5 DEF Accounted, UndoState
<1> QED
  BY <1>1, <1>6, LeaveAccount

\* A crash leaves the account to the saved journal.
LEMMA CrashAccount ==
  ASSUME UInv, NEW p \in Proc, Crash(p)
  PROVE  UndosAccounted'
<1>1. /\ pc[p] # "idle" /\ Leave(p) /\ UNCHANGED cmd /\ UNCHANGED journals
  BY DEF Crash, Busy, Forward, Undoing, Restoring
<1>2. /\ journals' = [journals EXCEPT ![tx[p]] = mem[p]]
      /\ Accounted(mem[p], cmd[tx[p]])
  BY <1>1, Effects, Shapes DEF UInv
<1> QED
  BY <1>1, <1>2, LeaveAccount

\* Nothing is undone before the first transaction.
LEMMA InitAccount == Init => UndosAccounted
<1> SUFFICES ASSUME Init PROVE UndosAccounted
  OBVIOUS
<1>1. NoJournal.status = "unused" /\ NoJournal.ext = <<>>
  BY DEF NoJournal
<1>2. Fresh(NoJournal, [k \in 1..MaxExt |-> NoEffect])
  BY <1>1, TransactionAssumption DEF Fresh, NoEffect
<1>3. Accounted(NoJournal, [k \in 1..MaxExt |-> NoEffect])
  BY <1>1, <1>2, FreshAccount
<1> QED
  BY <1>3 DEF Init, UndosAccounted

\* Every step keeps the account.
LEMMA NextAccount == ~LateErrors /\ UInv /\ [Next]_vars => UInv'
<1> SUFFICES ASSUME ~LateErrors, UInv, [Next]_vars PROVE UInv'
  OBVIOUS
<1>1. IInv'
  BY NextLedger DEF UInv
<1>2. ASSUME NEW p \in Proc, Undo(p) PROVE UndosAccounted'
  BY <1>2, PassUndoAccount, StartUndoAccount, RunUndoAccount, RecordUndoAccount,
     UndoRaisesAccount, UndosDoneAccount DEF Undo
<1>3. ASSUME NEW p \in Proc, Body(p) \/ Restore(p) PROVE UndosAccounted'
  BY <1>3, BodyAccount, RestoreAccount, FinishRollbackAccount
<1>4. ASSUME NEW p \in Proc, Ending(p) PROVE UndosAccounted'
  BY <1>4, CommitAccount, CrashAccount DEF Ending, LateError
<1>5. ASSUME NEW p \in Proc, Begin(p) \/ RollBack(p) \/ RollBackSaved(p) PROVE UndosAccounted'
  BY <1>5, BeginAccount, RollBackAccount, RollBackSavedAccount
<1>6. ASSUME UNCHANGED <<journals, procVars, cmd>> PROVE UndosAccounted'
  BY <1>6 DEF UInv, UndosAccounted, procVars
<1>7. ASSUME NEW t \in Target, UserEdit(t) PROVE UndosAccounted'
  BY <1>6, <1>7 DEF UserEdit
<1>8. ASSUME UNCHANGED vars PROVE UndosAccounted'
  BY <1>6, <1>8 DEF vars
<1> QED
  BY <1>1, <1>2, <1>3, <1>4, <1>5, <1>7, <1>8 DEF Next, UInv

\* The saved journals account for every undo, through crashes, errors and
\* retries, as long as nothing fails inside or right after commit().
LEMMA AccountInductive == ~LateErrors /\ Spec => []UInv
<1>1. Init => UInv
  BY InitLedger, InitAccount DEF UInv
<1>2. CASE ~LateErrors
  <2>1. UInv /\ [Next]_vars => UInv'
    BY <1>2, NextAccount
  <2> QED
    BY <1>1, <2>1, PTL DEF Spec
<1> QED
  BY <1>2

\* What the journals say of the undos agrees with the effects these had.
THEOREM AccountInvariant == ~LateErrors /\ Spec => []UndosAccounted
<1>1. UInv => UndosAccounted
  BY DEF UInv
<1> QED
  BY <1>1, AccountInductive, PTL

\* No native undo command takes effect twice: it is saved as running first, and
\* one found running is never run again (_undo_external, transaction.py).
THEOREM UndoneOnce == ~LateErrors /\ Spec => []UndoAtMostOnce
<1>1. UInv => UndoAtMostOnce
  <2> SUFFICES ASSUME UInv, NEW i \in Tx, NEW k \in 1..MaxExt PROVE cmd[i][k].undos <= 1
    BY DEF UndoAtMostOnce
  <2>1. Agrees(UndoState(journals[i], k), cmd[i][k])
    BY DEF UInv, UndosAccounted, Accounted
  <2>2. UndoState(journals[i], k) \in {"none", "running", "failed", "applied"}
    <3>1. journals[i].ext \in Seq(Command)
      BY Shapes, JournalFields DEF UInv
    <3>2. k \in DOMAIN journals[i].ext => journals[i].ext[k] \in Command
      BY <3>1
    <3> QED
      BY <3>2 DEF UndoState, Command
  <2> QED
    BY <2>1, <2>2 DEF Agrees
<1> QED
  BY <1>1, AccountInductive, PTL

\* A journal that ends as rolled back has left no native change with an undo.
THEOREM NothingLeft == ~LateErrors /\ Spec => []NoResidue
<1>1. UInv => NoResidue
  <2> SUFFICES ASSUME UInv, NEW i \in Tx, journals[i].status \in Reverted,
                      NEW k \in DOMAIN journals[i].ext, journals[i].ext[k].undo
               PROVE  ~cmd[i][k].on
    BY DEF NoResidue
  <2>1. Accounted(journals[i], cmd[i])
    BY DEF UInv, UndosAccounted
  <2>2. journals[i].ext[k].undoState = "applied"
    BY <2>1 DEF Accounted, NoUndoLeft
  <2>3. k \in 1..MaxExt
    <3>1. journals[i].ext \in Seq(Command)
      BY Shapes, JournalFields DEF UInv
    <3>2. Len(journals[i].ext) <= MaxExt /\ k \in 1..Len(journals[i].ext)
      BY <2>1, <3>1 DEF Accounted
    <3> QED
      BY <3>1, <3>2, TransactionAssumption
  <2>4. cmd[i][k] = [on |-> FALSE, undos |-> 1]
    BY <2>1, <2>2, <2>3 DEF Accounted, Agrees, UndoState
  <2> QED
    BY <2>4
<1> QED
  BY <1>1, AccountInductive, PTL

----------------------------------------------------------------------------
(* Files: what a rollback puts back, and whose edits it leaves alone *)

Halfway == {"rolling_back", "rollback_incomplete"}

\* An undo may have taken effect without its end being known.
Pending(j) ==
  \E k \in DOMAIN j.ext : j.ext[k].undo /\ j.ext[k].undoState = "running"

\* What journal j says of a target that held o before the transaction, holds c
\* now, and was last edited as e says.  The backup is what was there before;
\* what is marked as restored is, but for an edit or a pending undo; a quiet
\* edit shows in the comparison with the signature and with the backup.
EntryTrue(j, t, o, c, e) ==
  /\ j.file[t].orig = o
  /\ j.status \in {"unused", "active", "committed"} => ~j.file[t].restored
  /\ j.status \in Halfway /\ j.file[t].restored =>
       c = o \/ e # "none" \/ (j.file[t].mutable /\ Pending(j))
  /\ j.status \in Rollbackable /\ e = "quiet" =>
       j.file[t].applied # Unsigned /\ c \notin {j.file[t].applied, j.file[t].orig}

\* A process at w is about to sign, register or restore t without looking again.
Uncertain(w, j, r, t, o, c) ==
  \/ w \in {"gap", "sign", "removing", "putting", "marking"} /\ r.cur = t
  \/ w \in {"run", "ran", "refresh", "undoing", "undone"} /\ t \in Watched(j)
  \/ w \in Forward /\ t \notin Tracked(j) /\ c # o

Spared(j, r, t) == r.saved /\ j.manual /\ j.preserve /\ t \in UserState
Settled(j, r, t) == j.file[t].restored \/ Spared(j, r, t)

\* Where a process stands: the undo at hand has an undo command, the target at
\* hand is the one under the cursor, not marked yet and, once copied back, as it
\* was; without an error every entry behind the cursor is settled; and no edit
\* of a target it acts on is quiet.
WalkTrue(w, j, r, o, f, e) ==
  /\ w \in {"undoing", "undone"} => j.ext[r.idx].undo
  /\ w \in AtEntry => r.cur = j.order[r.idx] /\ ~j.file[r.cur].restored
  /\ w = "marking" => f[r.cur] = j.file[r.cur].orig \/ e[r.cur] # "none"
  /\ w \in Restoring /\ ~r.err =>
       \A n \in DOMAIN j.order : n > r.idx => Settled(j, r, j.order[n])
  /\ \A t \in Target : e[t] = "quiet" => ~Uncertain(w, j, r, t, o[t], f[t])

RestInv ==
  /\ \A i \in Tx : \A t \in Tracked(journals[i]) :
       EntryTrue(journals[i], t, pre[i][t], fs[t], edit[t])
  /\ \A p \in Proc : pc[p] # "idle" =>
       WalkTrue(pc[p], mem[p], reg[p], pre[tx[p]], fs, edit)

RInv == UInv /\ RestInv

\* What the file loop reads of a journal.
SameFiles(j, k) ==
  /\ k.status = j.status /\ k.order = j.order /\ k.file = j.file
  /\ k.manual = j.manual /\ k.preserve = j.preserve

\* Changing the commands leaves the entries alone.
LEMMA ExtOnly ==
  ASSUME NEW j \in Journal, NEW x, NEW k, NEW s
  PROVE  /\ SameFiles(j, [j EXCEPT !.ext = x]) /\ [j EXCEPT !.ext = x].ext = x
         /\ SameFiles(j, [j EXCEPT !.ext[k].state = s])
         /\ SameFiles(j, [j EXCEPT !.ext[k].undoState = s])
         /\ SameFiles(j, [j EXCEPT !.ext = Append(@, s)])
  BY DEF SameFiles, Journal

\* Changing all the entries leaves the rest.
LEMMA AllEntries ==
  ASSUME NEW j \in Journal, NEW f, NEW k, k = [j EXCEPT !.file = f]
  PROVE  /\ k.status = j.status /\ k.order = j.order /\ k.ext = j.ext /\ k.file = f
         /\ k.manual = j.manual /\ k.preserve = j.preserve
  BY DEF Journal

\* What a journal tracks are targets, and appending one adds it.
LEMMA TrackedTargets ==
  ASSUME NEW j \in Journal
  PROVE  /\ Tracked(j) \subseteq Target /\ Watched(j) \subseteq Tracked(j)
         /\ \A n \in DOMAIN j.order : j.order[n] \in Tracked(j) /\ j.order[n] \in Target
         /\ DOMAIN j.order = 1..Len(j.order) /\ Len(j.order) \in Nat
  BY JournalFields DEF Tracked, Watched

LEMMA TrackedAppend ==
  ASSUME NEW j \in Journal, NEW t \in Target, NEW k, k.order = Append(j.order, t)
  PROVE  Tracked(k) = Tracked(j) \union {t}
<1>1. /\ j.order \in Seq(Target) /\ Len(j.order) \in Nat
      /\ DOMAIN j.order = 1..Len(j.order) /\ DOMAIN Append(j.order, t) = 1..Len(j.order) + 1
      /\ \A n \in 1..Len(j.order) : Append(j.order, t)[n] = j.order[n]
      /\ Append(j.order, t)[Len(j.order) + 1] = t
  BY JournalFields
<1>2. ASSUME NEW u \in Tracked(k) PROVE u \in Tracked(j) \union {t}
  <2>1. PICK n \in 1..Len(j.order) + 1 : u = k.order[n]
    BY <1>1 DEF Tracked
  <2>2. n \in 1..Len(j.order) \/ n = Len(j.order) + 1
    BY <1>1
  <2> QED
    BY <1>1, <2>1, <2>2 DEF Tracked
<1>3. ASSUME NEW u \in Tracked(j) PROVE u \in Tracked(k)
  <2>1. PICK n \in 1..Len(j.order) : u = j.order[n]
    BY <1>1 DEF Tracked
  <2>2. n \in 1..Len(j.order) + 1 /\ k.order[n] = u
    BY <1>1, <2>1
  <2> QED
    BY <1>1, <2>2 DEF Tracked
<1>4. t \in Tracked(k)
  BY <1>1 DEF Tracked
<1> QED
  BY <1>2, <1>3, <1>4

\* The entry a backup opens.
LEMMA BackedUpIs ==
  ASSUME NEW j \in Journal, NEW t \in Target, NEW b \in BOOLEAN, NEW k, k = BackedUp(j, t, b)
  PROVE  /\ t \in Tracked(j) => k = j
         /\ t \notin Tracked(j) =>
              /\ Tracked(k) = Tracked(j) \union {t} /\ k.status = j.status /\ k.ext = j.ext
              /\ k.file[t].orig = fs[t] /\ ~k.file[t].restored
              /\ \A u \in Target : u # t => k.file[u] = j.file[u]
<1> DEFINE e == [NoEntry EXCEPT !.orig = fs[t], !.mutable = b]
           o == Append(j.order, t)
           f == [j.file EXCEPT ![t] = e]
<1>1. t \notin Tracked(j) => k = [j EXCEPT !.order = o, !.file = f]
  BY DEF BackedUp
<1>2. e.orig = fs[t] /\ ~e.restored
  BY DEF NoEntry
<1>3. f[t] = e /\ \A u \in Target : u # t => f[u] = j.file[u]
  BY JournalFields
<1> HIDE DEF e, o, f
<1>4. t \notin Tracked(j) => k.order = o /\ k.file = f /\ k.status = j.status /\ k.ext = j.ext
  BY <1>1 DEF Journal
<1>5. t \notin Tracked(j) => Tracked(k) = Tracked(j) \union {t}
  BY <1>4, TrackedAppend DEF o
<1> QED
  BY <1>2, <1>3, <1>4, <1>5 DEF BackedUp

\* What is known of a process at work.
LEMMA Working ==
  ASSUME RInv, NEW p \in Proc, pc[p] # "idle"
  PROVE  /\ tx[p] \in Tx /\ mem[p] \in Journal /\ reg[p] \in Local
         /\ journals[tx[p]] = mem[p]
         /\ mem[p].status = IF pc[p] \in Forwards THEN "active" ELSE "rolling_back"
         /\ \A q \in Proc : q # p => pc[q] = "idle"
         /\ \A h \in Tx : h # tx[p] => journals[h].status \notin Unfinished
         /\ \A t \in Tracked(mem[p]) : EntryTrue(mem[p], t, pre[tx[p]][t], fs[t], edit[t])
         /\ WalkTrue(pc[p], mem[p], reg[p], pre[tx[p]], fs, edit)
         /\ CursorOK(pc[p], mem[p], reg[p])
<1>1. IInv /\ TypeInv
  BY DEF RInv, UInv, IInv
<1>2. /\ tx[p] \in Tx /\ mem[p] \in Journal /\ reg[p] \in Local
      /\ journals[tx[p]] = mem[p]
      /\ mem[p].status = IF pc[p] \in Forwards THEN "active" ELSE "rolling_back"
      /\ \A q \in Proc : q # p => pc[q] = "idle"
      /\ CursorOK(pc[p], mem[p], reg[p])
  BY <1>1, Alone, AtWork
<1>3. ASSUME NEW h \in Tx, h # tx[p], journals[h].status \in Unfinished PROVE FALSE
  <2>1. Newest(h) /\ Newest(tx[p])
    BY <1>1, <1>2, <1>3 DEF IInv, LedgerInv, UnfinishedIsNewest, Unfinished
  <2>2. h <= tx[p] /\ tx[p] <= h
    BY <1>2, <2>1 DEF Newest
  <2> QED
    BY <1>2, <1>3, <2>2 DEF Tx
<1> QED
  BY <1>2, <1>3 DEF RInv, RestInv

\* The shapes of what the invariant reads.
LEMMA RestShapes ==
  ASSUME RInv
  PROVE  /\ pc \in [Proc -> PC] /\ tx \in [Proc -> Tx \union {0}]
         /\ mem \in [Proc -> Journal] /\ reg \in [Proc -> Local]
         /\ journals \in [Tx -> Journal] /\ fs \in [Target -> Content]
         /\ edit \in [Target -> {"none", "quiet", "window"}]
         /\ pre \in [Tx -> [Target -> Content]]
  BY DEF RInv, UInv, IInv, TypeInv, TypeOK, StoreOK, ProcessOK, HistoryOK

\* A step of the one process at work: its own entries and its own place are
\* what there is to look at, if it makes no edit quiet that was not.
LEMMA OneWalk ==
  ASSUME RInv, NEW p \in Proc, pc[p] # "idle", NEW w, NEW j, NEW r,
         pc' = [pc EXCEPT ![p] = w], UNCHANGED <<tx, pre>>, mem' = [mem EXCEPT ![p] = j],
         reg' = [reg EXCEPT ![p] = r], journals' = [journals EXCEPT ![tx[p]] = j],
         \A t \in Target : edit'[t] = "quiet" => edit[t] = "quiet" /\ fs'[t] = fs[t],
         \A t \in Tracked(j) : EntryTrue(j, t, pre[tx[p]][t], fs'[t], edit'[t]),
         WalkTrue(w, j, r, pre[tx[p]], fs', edit')
  PROVE  RestInv'
<1>1. /\ pc'[p] = w /\ mem'[p] = j /\ reg'[p] = r /\ journals'[tx[p]] = j
      /\ \A q \in Proc : q # p => pc'[q] = "idle"
      /\ \A h \in Tx : h # tx[p] => journals'[h] = journals[h]
  BY Working, RestShapes
<1>2. ASSUME NEW h \in Tx, h # tx[p], NEW t \in Tracked(journals[h])
      PROVE  EntryTrue(journals[h], t, pre[h][t], fs'[t], edit'[t])
  <2>1. EntryTrue(journals[h], t, pre[h][t], fs[t], edit[t])
    BY DEF RInv, RestInv
  <2>2. journals[h].status \notin Halfway
    BY <1>2, Working DEF Halfway, Unfinished
  <2>3. t \in Target
    BY RestShapes, TrackedTargets
  <2> QED
    BY <2>1, <2>2, <2>3 DEF EntryTrue
<1>3. \A i \in Tx : \A t \in Tracked(journals'[i]) :
        EntryTrue(journals'[i], t, pre'[i][t], fs'[t], edit'[t])
  BY <1>1, <1>2
<1>4. \A q \in Proc : pc'[q] # "idle" =>
        WalkTrue(pc'[q], mem'[q], reg'[q], pre'[tx'[q]], fs', edit')
  BY <1>1
<1>5. \A i \in Tx : Tracked(journals[i])' = Tracked(journals'[i])
  BY DEF Tracked
<1> QED
  BY <1>3, <1>4, <1>5 DEF RestInv, EntryTrue, WalkTrue, Uncertain, Settled, Spared, Tracked, Watched, Pending

\* Inside the body it is enough that no quiet edit meets the process.
LEMMA AheadWalk ==
  ASSUME RInv, NEW p \in Proc, pc[p] \in Forward, NEW w \in Forwards, NEW j, NEW r,
         pc' = [pc EXCEPT ![p] = w], UNCHANGED <<tx, pre>>, mem' = [mem EXCEPT ![p] = j],
         reg' = [reg EXCEPT ![p] = r], journals' = [journals EXCEPT ![tx[p]] = j],
         \A t \in Target : edit'[t] = "quiet" => edit[t] = "quiet" /\ fs'[t] = fs[t],
         \A t \in Tracked(j) : EntryTrue(j, t, pre[tx[p]][t], fs'[t], edit'[t]),
         \A t \in Target : edit'[t] = "quiet" => ~Uncertain(w, j, r, t, pre[tx[p]][t], fs'[t])
  PROVE  RestInv'
<1>1. /\ w \notin {"undoing", "undone"} /\ w \notin AtEntry /\ w # "marking" /\ w \notin Restoring
      /\ pc[p] # "idle"
  BY DEF Forwards, Forward, AtEntry, Restoring
<1>2. WalkTrue(w, j, r, pre[tx[p]], fs', edit')
  BY <1>1 DEF WalkTrue
<1> QED
  BY <1>1, <1>2, OneWalk

\* What is known of a process in the body.
LEMMA Ahead ==
  ASSUME RInv, NEW p \in Proc, pc[p] \in Forward
  PROVE  /\ pc[p] # "idle" /\ tx[p] \in Tx /\ mem[p] \in Journal /\ reg[p] \in Local
         /\ mem[p].status = "active"
         /\ \A t \in Tracked(mem[p]) :
              /\ t \in Target /\ EntryTrue(mem[p], t, pre[tx[p]][t], fs[t], edit[t])
              /\ edit[t] = "quiet" => Signed(mem[p], t) /\ fs[t] # mem[p].file[t].applied
         /\ \A t \in Target : edit[t] = "quiet" =>
              /\ ~Uncertain(pc[p], mem[p], reg[p], t, pre[tx[p]][t], fs[t])
              /\ t \notin Tracked(mem[p]) => fs[t] = pre[tx[p]][t]
         /\ mem = [mem EXCEPT ![p] = mem[p]] /\ journals = [journals EXCEPT ![tx[p]] = mem[p]]
         /\ pc = [pc EXCEPT ![p] = pc[p]] /\ reg = [reg EXCEPT ![p] = reg[p]]
<1>1. pc[p] # "idle" /\ pc[p] \in Forwards
  BY DEF Forwards, Forward
<1>2. /\ tx[p] \in Tx /\ mem[p] \in Journal /\ reg[p] \in Local /\ mem[p].status = "active"
      /\ \A t \in Tracked(mem[p]) : EntryTrue(mem[p], t, pre[tx[p]][t], fs[t], edit[t])
      /\ WalkTrue(pc[p], mem[p], reg[p], pre[tx[p]], fs, edit)
      /\ journals[tx[p]] = mem[p]
  BY <1>1, Working
<1>3. \A t \in Tracked(mem[p]) : t \in Target
  BY <1>2, TrackedTargets
<1>4. \A t \in Tracked(mem[p]) : edit[t] = "quiet" =>
        Signed(mem[p], t) /\ fs[t] # mem[p].file[t].applied
  BY <1>2 DEF EntryTrue, Signed, Rollbackable, Unfinished
<1>5. \A t \in Target : edit[t] = "quiet" =>
        ~Uncertain(pc[p], mem[p], reg[p], t, pre[tx[p]][t], fs[t])
  BY <1>2 DEF WalkTrue
<1>6. \A t \in Target : edit[t] = "quiet" /\ t \notin Tracked(mem[p]) => fs[t] = pre[tx[p]][t]
  BY <1>5 DEF Uncertain
<1>7. /\ mem = [mem EXCEPT ![p] = mem[p]] /\ journals = [journals EXCEPT ![tx[p]] = mem[p]]
      /\ pc = [pc EXCEPT ![p] = pc[p]] /\ reg = [reg EXCEPT ![p] = reg[p]]
  BY <1>2, RestShapes
<1> QED
  BY <1>1, <1>2, <1>3, <1>4, <1>5, <1>6, <1>7

\* A target is backed up, watched, or about to be written.
LEMMA OpensRest ==
  ASSUME RInv, NEW p \in Proc, NEW t \in Target, Backup(p, t) \/ StartWrite(p, t) \/ Watch(p, t)
  PROVE  RestInv'
<1>1. PICK b \in BOOLEAN : Save(p, BackedUp(mem[p], t, b))
  BY DEF Backup, StartWrite, Watch
<1> DEFINE j == BackedUp(mem[p], t, b)
<1>0. PICK w \in {"open", "write", "sign"} : \E r :
        /\ pc' = [pc EXCEPT ![p] = w] /\ reg' = [reg EXCEPT ![p] = r]
        /\ w = "sign" => r.cur = t /\ t \notin Tracked(mem[p])
  <2> DEFINE r == [reg[p] EXCEPT !.cur = t]
  <2>1. r.cur = t
    BY RestShapes DEF Local
  <2>2. CASE Backup(p, t)
    <3>1. pc[p] = "open" /\ UNCHANGED <<pc, reg>>
      BY <2>2 DEF Backup
    <3>2. pc' = [pc EXCEPT ![p] = "open"] /\ reg' = [reg EXCEPT ![p] = reg[p]]
      BY <3>1, RestShapes
    <3> QED
      BY <3>2
  <2>3. CASE StartWrite(p, t)
    <3>1. pc' = [pc EXCEPT ![p] = "write"] /\ reg' = [reg EXCEPT ![p] = r]
      BY <2>3 DEF StartWrite, Set, Goto
    <3> HIDE DEF r
    <3> QED
      BY <3>1
  <2>4. CASE Watch(p, t)
    <3>1. /\ pc' = [pc EXCEPT ![p] = "sign"] /\ reg' = [reg EXCEPT ![p] = r]
          /\ t \notin Tracked(mem[p])
      BY <2>4 DEF Watch, Set, Goto
    <3> HIDE DEF r
    <3> QED
      BY <2>1, <3>1
  <2> QED
    BY <2>2, <2>3, <2>4
<1>2. PICK r :
        /\ pc' = [pc EXCEPT ![p] = w] /\ reg' = [reg EXCEPT ![p] = r]
        /\ w = "sign" => r.cur = t /\ t \notin Tracked(mem[p])
  BY <1>0
<1>3. /\ pc[p] = "open" /\ pc[p] \in Forward /\ w \in Forwards /\ ~Made(p, t)
      /\ TakeEdit(p, t) /\ UNCHANGED <<tx, pre, fs>>
      /\ mem' = [mem EXCEPT ![p] = j] /\ journals' = [journals EXCEPT ![tx[p]] = j]
  BY <1>1 DEF Backup, StartWrite, Watch, Made, Save, Forward, Forwards
<1>4. /\ t \in Tracked(mem[p]) => j = mem[p]
      /\ t \notin Tracked(mem[p]) =>
           /\ Tracked(j) = Tracked(mem[p]) \union {t} /\ j.status = "active"
           /\ j.file[t].orig = fs[t] /\ ~j.file[t].restored
           /\ \A u \in Target : u # t => j.file[u] = mem[p].file[u]
  BY <1>3, Ahead, BackedUpIs
<1> HIDE DEF j
<1>5. /\ t \in Tracked(mem[p]) => edit' = edit
      /\ t \notin Tracked(mem[p]) => edit' = [edit EXCEPT ![t] = "none"] /\ fs[t] = pre[tx[p]][t]
  BY <1>3 DEF TakeEdit, Made
<1>6. \A u \in Target : edit'[u] = "quiet" => edit[u] = "quiet" /\ fs'[u] = fs[u]
  BY <1>3, <1>5, RestShapes
<1>7. ASSUME NEW u \in Tracked(j) PROVE EntryTrue(j, u, pre[tx[p]][u], fs'[u], edit'[u])
  <2>1. CASE t \in Tracked(mem[p])
    BY <1>3, <1>4, <1>5, <1>7, <2>1, Ahead
  <2>2. CASE t \notin Tracked(mem[p]) /\ u = t
    <3>1. edit'[u] = "none"
      BY <1>5, <2>2, RestShapes
    <3> QED
      BY <1>3, <1>4, <1>5, <2>2, <3>1 DEF EntryTrue, Halfway
  <2>3. CASE t \notin Tracked(mem[p]) /\ u # t
    <3>1. u \in Tracked(mem[p]) /\ u \in Target
      BY <1>3, <1>4, <1>7, <2>3, Ahead
    <3>2. EntryTrue(mem[p], u, pre[tx[p]][u], fs[u], edit[u]) /\ mem[p].status = "active"
      BY <1>3, <3>1, Ahead
    <3>3. j.file[u] = mem[p].file[u] /\ edit'[u] = edit[u] /\ fs'[u] = fs[u]
      BY <1>3, <1>4, <1>5, <2>3, <3>1, RestShapes
    <3> QED
      BY <1>4, <2>3, <3>2, <3>3 DEF EntryTrue, Halfway
  <2> QED
    BY <2>1, <2>2, <2>3
<1>8. ASSUME NEW u \in Target, edit'[u] = "quiet"
      PROVE  ~Uncertain(w, j, r, u, pre[tx[p]][u], fs'[u])
  <2>1. u \notin Tracked(j) => u \notin Tracked(mem[p])
    BY <1>4
  <2>2. u \notin Tracked(mem[p]) => fs[u] = pre[tx[p]][u]
    BY <1>3, <1>6, <1>8, Ahead
  <2>3. w = "sign" => r.cur # u
    <3>1. t \notin Tracked(mem[p]) => edit'[t] = "none"
      BY <1>5, RestShapes
    <3> QED
      BY <1>2, <1>8, <3>1
  <2> QED
    BY <1>2, <1>3, <2>1, <2>2, <2>3 DEF Uncertain
<1> QED
  BY <1>2, <1>3, <1>6, <1>7, <1>8, AheadWalk

\* Entries of an active journal stay true when fs changes where no edit is left.
LEMMA WrittenTrue ==
  ASSUME NEW j, NEW t, NEW o, NEW c, NEW e, NEW d, NEW f,
         EntryTrue(j, t, o, c, e), j.status = "active",
         (d = c /\ f = e) \/ f = "none"
  PROVE  EntryTrue(j, t, o, d, f)
  BY DEF EntryTrue, Halfway

\* The installer, nested code or a manager writes.
LEMMA WritesRest ==
  ASSUME RInv, NEW p \in Proc,
         (\E t \in Target : NestedWrite(p, t)) \/ WriteTarget(p) \/ RunCommand(p)
  PROVE  RestInv'
<1>0. PICK w \in {"open", "sign", "gap", "ran"} : \E r :
        /\ pc' = [pc EXCEPT ![p] = w] /\ reg' = [reg EXCEPT ![p] = r]
        /\ w \in {"sign", "gap"} => r.cur = reg[p].cur /\ WriteTarget(p)
        /\ w = "ran" => RunCommand(p)
  <2>0. pc = [pc EXCEPT ![p] = pc[p]] /\ reg = [reg EXCEPT ![p] = reg[p]]
    BY RestShapes
  <2>1. ASSUME NEW t \in Target, NestedWrite(p, t)
        PROVE  pc' = [pc EXCEPT ![p] = "open"] /\ reg' = [reg EXCEPT ![p] = reg[p]]
    BY <2>0, <2>1 DEF NestedWrite, procVars
  <2>2. CASE WriteTarget(p)
    <3>1. \E w \in {"sign", "gap"} : pc' = [pc EXCEPT ![p] = w]
      BY <2>2 DEF WriteTarget, Goto
    <3>2. reg' = [reg EXCEPT ![p] = reg[p]]
      BY <2>0, <2>2 DEF WriteTarget
    <3> QED
      BY <2>2, <3>1, <3>2
  <2>3. CASE RunCommand(p)
    <3>1. pc' = [pc EXCEPT ![p] = "ran"] /\ \E r : reg' = [reg EXCEPT ![p] = r]
      BY <2>3 DEF RunCommand, Set, Goto
    <3> QED
      BY <2>3, <3>1
  <2> QED
    BY <2>1, <2>2, <2>3
<1>1. PICK r :
        /\ pc' = [pc EXCEPT ![p] = w] /\ reg' = [reg EXCEPT ![p] = r]
        /\ w \in {"sign", "gap"} => r.cur = reg[p].cur /\ WriteTarget(p)
        /\ w = "ran" => RunCommand(p)
  BY <1>0
<1>2. /\ pc[p] \in Forward /\ w \in Forwards
      /\ UNCHANGED <<tx, pre, mem, journals>>
  BY DEF NestedWrite, WriteTarget, RunCommand, procVars, Forward, Forwards
<1>3. \A u \in Target : (edit'[u] = edit[u] /\ fs'[u] = fs[u]) \/ edit'[u] = "none"
  <2>1. ASSUME NEW t \in Target, NestedWrite(p, t)
        PROVE  \A u \in Target : (edit'[u] = edit[u] /\ fs'[u] = fs[u]) \/ edit'[u] = "none"
    BY <2>1, RestShapes DEF NestedWrite
  <2>2. CASE WriteTarget(p)
    BY <2>2, RestShapes DEF WriteTarget
  <2>3. CASE RunCommand(p)
    BY <2>3, RestShapes DEF RunCommand, NativeWrites
  <2> QED
    BY <2>1, <2>2, <2>3
<1>4. \A u \in Target : edit'[u] = "quiet" => edit[u] = "quiet" /\ fs'[u] = fs[u]
  BY <1>3
<1>5. ASSUME NEW u \in Tracked(mem[p])
      PROVE  EntryTrue(mem[p], u, pre[tx[p]][u], fs'[u], edit'[u])
  <2>1. u \in Target /\ EntryTrue(mem[p], u, pre[tx[p]][u], fs[u], edit[u])
        /\ mem[p].status = "active"
    BY <1>2, <1>5, Ahead
  <2>2. (fs'[u] = fs[u] /\ edit'[u] = edit[u]) \/ edit'[u] = "none"
    BY <1>3, <2>1
  <2> QED
    BY <2>1, <2>2, WrittenTrue
<1>6. ASSUME NEW u \in Target, edit'[u] = "quiet"
      PROVE  ~Uncertain(w, mem[p], r, u, pre[tx[p]][u], fs'[u])
  <2>1. edit[u] = "quiet" /\ fs'[u] = fs[u]
    BY <1>4, <1>6
  <2>2. ~Uncertain(pc[p], mem[p], reg[p], u, pre[tx[p]][u], fs[u])
        /\ (u \notin Tracked(mem[p]) => fs[u] = pre[tx[p]][u])
    BY <1>2, <2>1, Ahead
  <2>3. w \in {"sign", "gap"} => r.cur # u
    <3>1. WriteTarget(p) /\ reg[p].cur = u => edit'[u] = "none"
      BY RestShapes DEF WriteTarget
    <3> QED
      BY <1>1, <1>6, <3>1
  <2>4. w = "ran" => u \notin Watched(mem[p])
    BY <1>1, <2>2 DEF RunCommand, Uncertain
  <2> QED
    BY <2>1, <2>2, <2>3, <2>4 DEF Uncertain
<1>7. mem' = [mem EXCEPT ![p] = mem[p]] /\ journals' = [journals EXCEPT ![tx[p]] = mem[p]]
  BY <1>2, Ahead
<1> QED
  BY <1>1, <1>2, <1>4, <1>5, <1>6, <1>7, AheadWalk

\* The caller registers what nested code made.
LEMMA TrackCreatedRest ==
  ASSUME RInv, NEW p \in Proc, NEW t \in Target, TrackCreated(p, t)
  PROVE  RestInv'
<1> DEFINE e == [NoEntry EXCEPT !.applied = fs[t]]
           o == Append(mem[p].order, t)
           f == [mem[p].file EXCEPT ![t] = e]
           j == [mem[p] EXCEPT !.order = o, !.file = f]
<1>1. /\ pc[p] = "open" /\ pc[p] \in Forward /\ "open" \in Forwards
      /\ t \notin Tracked(mem[p]) /\ fs[t] # pre[tx[p]][t] /\ pre[tx[p]][t] = Absent
      /\ UNCHANGED <<tx, pre, fs, edit, pc, reg>>
      /\ mem' = [mem EXCEPT ![p] = j] /\ journals' = [journals EXCEPT ![tx[p]] = j]
  BY DEF TrackCreated, Made, Save, ghosts, Forward, Forwards
<1>2. e.orig = Absent /\ ~e.restored
  BY DEF NoEntry
<1>3. f[t] = e /\ \A u \in Target : u # t => f[u] = mem[p].file[u]
  BY <1>1, Ahead, JournalFields
<1> HIDE DEF e, f
<1>4. j.order = o /\ j.file = f /\ j.status = "active"
  <2> HIDE DEF o
  <2> QED
    BY <1>1, Ahead DEF Journal
<1> HIDE DEF j
<1>5. Tracked(j) = Tracked(mem[p]) \union {t}
  <2>1. mem[p] \in Journal /\ j.order = Append(mem[p].order, t)
    BY <1>1, <1>4, Ahead
  <2> QED
    BY <2>1, TrackedAppend
<1>6. edit[t] # "quiet"
  BY <1>1, Ahead
<1>7. ASSUME NEW u \in Tracked(j) PROVE EntryTrue(j, u, pre[tx[p]][u], fs'[u], edit'[u])
  <2>1. CASE u = t
    BY <1>1, <1>2, <1>3, <1>4, <1>6, <2>1 DEF EntryTrue, Halfway
  <2>2. CASE u # t
    <3>1. u \in Target /\ EntryTrue(mem[p], u, pre[tx[p]][u], fs[u], edit[u])
          /\ mem[p].status = "active"
      BY <1>1, <1>5, <1>7, <2>2, Ahead
    <3> QED
      BY <1>1, <1>3, <1>4, <2>2, <3>1 DEF EntryTrue, Halfway
  <2> QED
    BY <2>1, <2>2
<1>8. ASSUME NEW u \in Target, edit'[u] = "quiet"
      PROVE  ~Uncertain("open", j, reg[p], u, pre[tx[p]][u], fs'[u])
  BY <1>1, <1>5, <1>8, Ahead DEF Uncertain
<1>9. pc' = [pc EXCEPT ![p] = "open"] /\ reg' = [reg EXCEPT ![p] = reg[p]]
  BY <1>1, Ahead
<1> QED
  BY <1>1, <1>7, <1>8, <1>9, AheadWalk

\* Signing what a target holds now, unless a quiet edit shows there.
LEMMA SignedTrue ==
  ASSUME NEW j, NEW k, NEW t, NEW o, NEW c, NEW e,
         EntryTrue(j, t, o, c, e), j.status = "active", k.status = "active",
         k.file[t] = j.file[t] \/ (k.file[t] = [j.file[t] EXCEPT !.applied = c] /\ e # "quiet"),
         j.file[t] \in Entry
  PROVE  EntryTrue(k, t, o, c, e)
<1>1. k.file[t].orig = j.file[t].orig /\ k.file[t].restored = j.file[t].restored
  BY DEF Entry
<1> QED
  BY <1>1 DEF EntryTrue, Halfway

\* _mark_applied, capture_applied and the refresh of the watched files.
LEMMA SignsRest ==
  ASSUME RInv, NEW p \in Proc, Sign(p) \/ Capture(p) \/ RefreshConfig(p)
  PROVE  RestInv'
<1>1. PICK j : /\ Save(p, j) /\ j.status = "active" /\ j.order = mem[p].order
               /\ \A t \in Tracked(mem[p]) :
                    \/ j.file[t] = mem[p].file[t]
                    \/ j.file[t] = [mem[p].file[t] EXCEPT !.applied = fs[t]] /\ edit[t] # "quiet"
  <2>1. pc[p] \in Forward
    BY DEF Sign, Capture, RefreshConfig, Forward
  <2>2. CASE Sign(p)
    <3> DEFINE t == reg[p].cur
               e == [mem[p].file[t] EXCEPT !.applied = fs[t]]
               j == [mem[p] EXCEPT !.file = [mem[p].file EXCEPT ![t] = e]]
    <3>1. Save(p, j) /\ pc[p] = "sign"
      BY <2>2 DEF Sign
    <3>2. t \in Target
      BY <2>1, <3>1, Ahead, Working DEF CursorOK, AtTarget
    <3>3. edit[t] # "quiet"
      BY <2>1, <3>1, <3>2, Ahead DEF Uncertain
    <3>0. j = [mem[p] EXCEPT !.file = [mem[p].file EXCEPT ![t] = e]]
          /\ mem[p] \in Journal /\ mem[p].status = "active"
      BY <2>1, Ahead
    <3> HIDE DEF e, t, j
    <3>4. /\ j.status = "active" /\ j.order = mem[p].order
          /\ j.file[t] = e /\ \A u \in Target : u # t => j.file[u] = mem[p].file[u]
      BY <3>0, <3>2, JournalFields DEF Journal
    <3>5. ASSUME NEW u \in Tracked(mem[p])
          PROVE  \/ j.file[u] = mem[p].file[u]
                 \/ j.file[u] = [mem[p].file[u] EXCEPT !.applied = fs[u]] /\ edit[u] # "quiet"
      BY <2>1, <3>3, <3>4, Ahead DEF e
    <3> QED
      BY <3>1, <3>4, <3>5
  <2>3. CASE Capture(p)
    <3> DEFINE f == [t \in Target |->
                       IF t \in Tracked(mem[p]) /\ ~Signed(mem[p], t)
                       THEN [mem[p].file[t] EXCEPT !.applied = fs[t]] ELSE mem[p].file[t]]
               j == [mem[p] EXCEPT !.file = f]
    <3>1. Save(p, j)
      BY <2>3 DEF Capture
    <3>2. ASSUME NEW u \in Tracked(mem[p])
          PROVE  \/ f[u] = mem[p].file[u]
                 \/ f[u] = [mem[p].file[u] EXCEPT !.applied = fs[u]] /\ edit[u] # "quiet"
      <4>1. u \in Target /\ (edit[u] = "quiet" => Signed(mem[p], u))
        BY <2>1, Ahead
      <4> QED
        BY <4>1
    <3> HIDE DEF f
    <3>3. j.status = "active" /\ j.order = mem[p].order /\ j.file = f
      BY <2>1, Ahead, AllEntries
    <3> HIDE DEF j
    <3> QED
      BY <3>1, <3>2, <3>3
  <2>4. CASE RefreshConfig(p)
    <3> DEFINE f == [t \in Target |->
                       IF t \in Watched(mem[p]) THEN [mem[p].file[t] EXCEPT !.applied = fs[t]]
                       ELSE mem[p].file[t]]
               j == [mem[p] EXCEPT !.file = f]
    <3>1. Save(p, j) /\ pc[p] = "refresh"
      BY <2>4 DEF RefreshConfig, Refreshed
    <3>2. ASSUME NEW u \in Tracked(mem[p])
          PROVE  \/ f[u] = mem[p].file[u]
                 \/ f[u] = [mem[p].file[u] EXCEPT !.applied = fs[u]] /\ edit[u] # "quiet"
      <4>1. u \in Target /\ (edit[u] = "quiet" => u \notin Watched(mem[p]))
        BY <2>1, <3>1, Ahead DEF Uncertain
      <4> QED
        BY <4>1
    <3> HIDE DEF f
    <3>3. j.status = "active" /\ j.order = mem[p].order /\ j.file = f
      BY <2>1, Ahead, AllEntries
    <3> HIDE DEF j
    <3> QED
      BY <3>1, <3>2, <3>3
  <2> QED
    BY <2>2, <2>3, <2>4
<1>0. PICK w \in {"open", "failed"} : \E r :
        pc' = [pc EXCEPT ![p] = w] /\ reg' = [reg EXCEPT ![p] = r]
  <2>1. CASE Sign(p)
    BY <2>1 DEF Sign, Set, Goto
  <2>2. CASE Capture(p)
    BY <2>2, RestShapes DEF Capture
  <2>3. CASE RefreshConfig(p)
    <3>1. pc' = [pc EXCEPT ![p] = "open"] \/ pc' = [pc EXCEPT ![p] = "failed"]
      BY <2>3 DEF RefreshConfig, Goto
    <3>2. reg' = [reg EXCEPT ![p] = reg[p]]
      BY <2>3, RestShapes DEF RefreshConfig
    <3> QED
      BY <3>1, <3>2
  <2> QED
    BY <2>1, <2>2, <2>3
<1>2. PICK r :
        pc' = [pc EXCEPT ![p] = w] /\ reg' = [reg EXCEPT ![p] = r]
  BY <1>0
<1>3. /\ pc[p] \in Forward /\ w \in Forwards /\ UNCHANGED <<tx, pre, fs, edit>>
      /\ mem' = [mem EXCEPT ![p] = j] /\ journals' = [journals EXCEPT ![tx[p]] = j]
  BY <1>1 DEF Sign, Capture, RefreshConfig, Save, ghosts, Forward, Forwards
<1>4. Tracked(j) = Tracked(mem[p])
  BY <1>1 DEF Tracked
<1>5. ASSUME NEW u \in Tracked(j) PROVE EntryTrue(j, u, pre[tx[p]][u], fs'[u], edit'[u])
  <2>1. /\ u \in Target /\ EntryTrue(mem[p], u, pre[tx[p]][u], fs[u], edit[u])
        /\ mem[p].status = "active" /\ mem[p].file[u] \in Entry
    BY <1>3, <1>4, <1>5, Ahead, JournalFields
  <2> QED
    BY <1>1, <1>3, <1>4, <2>1, SignedTrue
<1>6. ASSUME NEW u \in Target, edit'[u] = "quiet"
      PROVE  ~Uncertain(w, j, r, u, pre[tx[p]][u], fs'[u])
  BY <1>2, <1>3, <1>4, <1>6, Ahead DEF Uncertain
<1> QED
  BY <1>2, <1>3, <1>5, <1>6, AheadWalk

\* Entries stay true while the commands change and no pending undo is settled.
LEMMA SameTrue ==
  ASSUME NEW j, NEW k, NEW t, NEW o, NEW c, NEW e,
         EntryTrue(j, t, o, c, e), k.file[t] = j.file[t], k.status = j.status,
         Pending(j) => Pending(k)
  PROVE  EntryTrue(k, t, o, c, e)
  BY DEF EntryTrue

\* Commands are announced and recorded, or the body fails.
LEMMA CommandsRest ==
  ASSUME RInv, NEW p \in Proc,
         StartCommand(p) \/ RecordCommand(p) \/ OnRollback(p) \/ Fail(p)
  PROVE  RestInv'
<1>1. pc[p] \in Forward
  BY DEF StartCommand, RecordCommand, OnRollback, Fail, Forward
<1>2. PICK j : Save(p, j) /\ SameFiles(mem[p], j)
  <2>0. mem[p] \in Journal
    BY <1>1, Ahead
  <2>1. CASE StartCommand(p)
    <3>1. PICK c : Save(p, [mem[p] EXCEPT !.ext = Append(@, c)])
      BY <2>1 DEF StartCommand
    <3> QED
      BY <2>0, <3>1, ExtOnly
  <2>2. CASE RecordCommand(p)
    <3>1. PICK k, s : Save(p, [mem[p] EXCEPT !.ext[k].state = s])
      BY <2>2 DEF RecordCommand
    <3> DEFINE j == [mem[p] EXCEPT !.ext[k].state = s]
    <3>2. SameFiles(mem[p], j)
      BY <2>0, ExtOnly
    <3> HIDE DEF j
    <3> QED
      BY <3>1, <3>2 DEF j
  <2>3. CASE OnRollback(p)
    <3>1. PICK c : Save(p, [mem[p] EXCEPT !.ext = Append(@, c)])
      BY <2>3 DEF OnRollback
    <3> QED
      BY <2>0, <3>1, ExtOnly
  <2>4. CASE Fail(p)
    BY <1>1, <2>4, Ahead DEF Fail, Save, SameFiles
  <2> QED
    BY <2>1, <2>2, <2>3, <2>4
<1>3. PICK w \in {"run", "refresh", "open", "failed"} :
        /\ pc' = [pc EXCEPT ![p] = w]
        /\ w = "run" => Changed(mem[p]) = {}
        /\ w = "refresh" => pc[p] = "ran"
  <2>1. CASE StartCommand(p)
    BY <2>1 DEF StartCommand, Goto
  <2>2. CASE RecordCommand(p)
    BY <2>2 DEF RecordCommand, Goto
  <2>3. CASE OnRollback(p)
    BY <2>3, RestShapes DEF OnRollback
  <2>4. CASE Fail(p)
    BY <2>4 DEF Fail, Goto
  <2> QED
    BY <2>1, <2>2, <2>3, <2>4
<1>4. /\ w \in Forwards /\ UNCHANGED <<tx, pre, fs, edit, reg>>
      /\ mem' = [mem EXCEPT ![p] = j] /\ journals' = [journals EXCEPT ![tx[p]] = j]
      /\ reg' = [reg EXCEPT ![p] = reg[p]]
  BY <1>1, <1>2, Ahead
     DEF StartCommand, RecordCommand, OnRollback, Fail, Save, ghosts, Forward, Forwards
<1>5. Tracked(j) = Tracked(mem[p]) /\ Watched(j) = Watched(mem[p])
  BY <1>2 DEF Tracked, Watched, SameFiles
<1>6. ASSUME NEW u \in Tracked(j) PROVE EntryTrue(j, u, pre[tx[p]][u], fs'[u], edit'[u])
  <2>1. EntryTrue(mem[p], u, pre[tx[p]][u], fs[u], edit[u]) /\ mem[p].status = "active"
    BY <1>1, <1>5, <1>6, Ahead
  <2> QED
    BY <1>2, <1>4, <2>1 DEF EntryTrue, Halfway, SameFiles
<1>7. ASSUME NEW u \in Target, edit'[u] = "quiet"
      PROVE  ~Uncertain(w, j, reg[p], u, pre[tx[p]][u], fs'[u])
  <2>1. /\ ~Uncertain(pc[p], mem[p], reg[p], u, pre[tx[p]][u], fs[u])
        /\ u \notin Tracked(mem[p]) => fs[u] = pre[tx[p]][u]
        /\ u \in Tracked(mem[p]) => Signed(mem[p], u) /\ fs[u] # mem[p].file[u].applied
    BY <1>1, <1>4, <1>7, Ahead
  <2>2. w = "run" => u \notin Watched(mem[p])
    BY <1>3, <2>1 DEF Changed, Watched
  <2>3. w = "refresh" => u \notin Watched(mem[p])
    BY <1>3, <2>1 DEF Uncertain
  <2> QED
    BY <1>3, <1>4, <1>5, <2>1, <2>2, <2>3 DEF Uncertain
<1> QED
  BY <1>1, <1>3, <1>4, <1>6, <1>7, AheadWalk

\* Every step of the body.
LEMMA BodyRest ==
  ASSUME RInv, NEW p \in Proc, Body(p)
  PROVE  RestInv'
  BY OpensRest, WritesRest, TrackCreatedRest, SignsRest, CommandsRest DEF Body

\* What is known of a process that rolls back.
LEMMA Behind ==
  ASSUME RInv, NEW p \in Proc, pc[p] \in Backwards
  PROVE  /\ pc[p] # "idle" /\ tx[p] \in Tx /\ mem[p] \in Journal /\ reg[p] \in Local
         /\ mem[p].status = "rolling_back"
         /\ \A t \in Tracked(mem[p]) :
              t \in Target /\ EntryTrue(mem[p], t, pre[tx[p]][t], fs[t], edit[t])
         /\ WalkTrue(pc[p], mem[p], reg[p], pre[tx[p]], fs, edit)
         /\ CursorOK(pc[p], mem[p], reg[p])
         /\ mem = [mem EXCEPT ![p] = mem[p]] /\ journals = [journals EXCEPT ![tx[p]] = mem[p]]
         /\ pc = [pc EXCEPT ![p] = pc[p]] /\ reg = [reg EXCEPT ![p] = reg[p]]
<1>1. pc[p] # "idle" /\ pc[p] \notin Forwards
  BY DEF Backwards, Undoing, Restoring, Forwards, Forward
<1>2. /\ tx[p] \in Tx /\ mem[p] \in Journal /\ reg[p] \in Local /\ mem[p].status = "rolling_back"
      /\ \A t \in Tracked(mem[p]) : EntryTrue(mem[p], t, pre[tx[p]][t], fs[t], edit[t])
      /\ WalkTrue(pc[p], mem[p], reg[p], pre[tx[p]], fs, edit)
      /\ CursorOK(pc[p], mem[p], reg[p]) /\ journals[tx[p]] = mem[p]
  BY <1>1, Working
<1>3. \A t \in Tracked(mem[p]) : t \in Target
  BY <1>2, TrackedTargets
<1>4. /\ mem = [mem EXCEPT ![p] = mem[p]] /\ journals = [journals EXCEPT ![tx[p]] = mem[p]]
      /\ pc = [pc EXCEPT ![p] = pc[p]] /\ reg = [reg EXCEPT ![p] = reg[p]]
  BY <1>2, RestShapes
<1> QED
  BY <1>1, <1>2, <1>3, <1>4

\* Between two undos nothing is said of the place.
LEMMA LoopWalk ==
  ASSUME NEW j, NEW r, NEW o, NEW f, NEW e
  PROVE  /\ WalkTrue("undo", j, r, o, f, e)
         /\ (r.err \/ \A n \in DOMAIN j.order : n > r.idx => Settled(j, r, j.order[n])) =>
              WalkTrue("files", j, r, o, f, e)
  BY DEF WalkTrue, Uncertain, AtEntry, Restoring, Forward

\* An undo is passed over, or all are.
LEMMA PassUndoRest ==
  ASSUME RInv, NEW p \in Proc, PassUndo(p) \/ UndosDone(p)
  PROVE  RestInv'
<1>1. /\ pc[p] = "undo" /\ pc[p] \in Backwards
      /\ UNCHANGED <<tx, pre, fs, edit, mem, journals>>
  BY DEF PassUndo, UndosDone, AtUndo, ghosts, Backwards, Undoing
<1>0. PICK w \in {"undo", "files"} : \E r :
        /\ pc' = [pc EXCEPT ![p] = w] /\ reg' = [reg EXCEPT ![p] = r]
        /\ w = "files" => r.idx = Len(mem[p].order)
  <2>1. CASE PassUndo(p)
    <3>1. pc' = [pc EXCEPT ![p] = "undo"]
      BY <1>1, <2>1, Behind DEF PassUndo
    <3>2. \E r : reg' = [reg EXCEPT ![p] = r]
      BY <2>1 DEF PassUndo, Set
    <3> QED
      BY <3>1, <3>2
  <2>2. CASE UndosDone(p)
    <3> DEFINE r == [reg[p] EXCEPT !.idx = Len(mem[p].order)]
    <3>1. pc' = [pc EXCEPT ![p] = "files"] /\ reg' = [reg EXCEPT ![p] = r]
      BY <2>2 DEF UndosDone, Set, Goto
    <3>2. r.idx = Len(mem[p].order)
      BY <1>1, Behind DEF Local
    <3> HIDE DEF r
    <3> QED
      BY <3>1, <3>2
  <2> QED
    BY <2>1, <2>2
<1>2. PICK r :
        /\ pc' = [pc EXCEPT ![p] = w] /\ reg' = [reg EXCEPT ![p] = r]
        /\ w = "files" => r.idx = Len(mem[p].order)
  BY <1>0
<1>3. mem[p] \in Journal /\ \A n \in DOMAIN mem[p].order : ~(n > Len(mem[p].order))
  BY <1>1, Behind, TrackedTargets
<1>4. WalkTrue(w, mem[p], r, pre[tx[p]], fs', edit')
  BY <1>2, <1>3, LoopWalk
<1> QED
  BY <1>1, <1>2, <1>4, Behind, OneWalk

\* An undo is announced: its configuration files hold what the journal expects.
LEMMA StartUndoRest ==
  ASSUME RInv, NEW p \in Proc, StartUndo(p)
  PROVE  RestInv'
<1> DEFINE i == reg[p].idx
           j == [mem[p] EXCEPT !.ext[i].undoState = "running"]
<1>1. /\ pc[p] = "undo" /\ pc[p] \in Backwards /\ i > 0 /\ mem[p].ext[i].undo
      /\ Conflicts(mem[p]) = {} /\ pc' = [pc EXCEPT ![p] = "undoing"]
      /\ mem' = [mem EXCEPT ![p] = j] /\ journals' = [journals EXCEPT ![tx[p]] = j]
      /\ UNCHANGED <<tx, reg, pre, fs, edit>>
  BY DEF StartUndo, AtUndo, Save, Goto, NeedsUndo, TheCommand, Backwards, Undoing, ghosts
<1>2. i \in 1..Len(mem[p].ext)
  BY <1>1, Behind, JournalFields DEF CursorOK, Local
<1>3. /\ SameFiles(mem[p], j)
      /\ DOMAIN j.ext = DOMAIN mem[p].ext /\ i \in DOMAIN mem[p].ext
      /\ \A n \in DOMAIN mem[p].ext :
           /\ j.ext[n].undo = mem[p].ext[n].undo
           /\ j.ext[n].undoState = IF n = i THEN "running" ELSE mem[p].ext[n].undoState
  <2>1. mem[p] \in Journal
    BY <1>1, Behind
  <2>2. SameFiles(mem[p], j)
    BY <2>1, ExtOnly
  <2>3. DOMAIN j.ext = DOMAIN mem[p].ext /\ i \in DOMAIN mem[p].ext
    BY <2>1, <1>2, UndoRecorded
  <2>4. \A n \in DOMAIN mem[p].ext :
           /\ j.ext[n].undo = mem[p].ext[n].undo
           /\ j.ext[n].undoState = IF n = i THEN "running" ELSE mem[p].ext[n].undoState
    BY <2>1, <1>2, UndoRecorded
  <2> QED
    BY <2>2, <2>3, <2>4
<1> HIDE DEF j
<1>4. Tracked(j) = Tracked(mem[p]) /\ Watched(j) = Watched(mem[p])
  BY <1>3 DEF Tracked, Watched, SameFiles
<1>5. Pending(mem[p]) => Pending(j)
  BY <1>3 DEF Pending
<1>6. \A t \in Tracked(j) : EntryTrue(j, t, pre[tx[p]][t], fs'[t], edit'[t])
  BY <1>1, <1>3, <1>4, <1>5, Behind, SameTrue DEF SameFiles
<1>7. ASSUME NEW t \in Target, edit[t] = "quiet", t \in Watched(mem[p]) PROVE FALSE
  <2>1. t \in Tracked(mem[p]) /\ mem[p].status = "rolling_back"
        /\ EntryTrue(mem[p], t, pre[tx[p]][t], fs[t], edit[t])
    BY <1>1, <1>7, Behind DEF Watched
  <2>2. Signed(mem[p], t) /\ fs[t] \notin {mem[p].file[t].applied, mem[p].file[t].orig}
    BY <1>7, <2>1 DEF EntryTrue, Signed, Rollbackable, Unfinished
  <2>3. t \in Conflicts(mem[p])
    BY <1>7, <2>2 DEF Conflicts, Expected
  <2> QED
    BY <1>1, <2>3
<1>8. WalkTrue("undoing", j, reg[p], pre[tx[p]], fs', edit')
  BY <1>1, <1>3, <1>4, <1>7 DEF WalkTrue, Uncertain, AtEntry, Restoring, Forward
<1>9. reg' = [reg EXCEPT ![p] = reg[p]]
  BY <1>1, Behind
<1> QED
  BY <1>1, <1>6, <1>8, <1>9, Behind, OneWalk

\* The undo runs: only watched files change, and its end is pending.
LEMMA RunUndoRest ==
  ASSUME RInv, NEW p \in Proc, RunUndo(p) \/ UndoRaises(p)
  PROVE  RestInv'
<1>1. /\ pc[p] = "undoing" /\ pc[p] \in Backwards /\ NativeWrites(mem[p])
      /\ UNCHANGED <<tx, pre, mem, journals>>
  BY DEF RunUndo, UndoRaises, Backwards, Undoing
<1>0. PICK w \in {"undone", "undo"} : \E r :
        /\ pc' = [pc EXCEPT ![p] = w] /\ reg' = [reg EXCEPT ![p] = r]
        /\ w = "undone" => r.idx = reg[p].idx
  <2>1. CASE RunUndo(p)
    <3>1. PICK b : reg' = [reg EXCEPT ![p] = [reg[p] EXCEPT !.ok = b]]
      BY <2>1 DEF RunUndo, Set
    <3> DEFINE r == [reg[p] EXCEPT !.ok = b]
    <3>2. r.idx = reg[p].idx
      BY <1>1, Behind DEF Local
    <3>3. pc' = [pc EXCEPT ![p] = "undone"] /\ reg' = [reg EXCEPT ![p] = r]
      BY <2>1, <3>1 DEF RunUndo, Goto
    <3> HIDE DEF r
    <3> QED
      BY <3>2, <3>3
  <2>2. CASE UndoRaises(p)
    <3>1. pc' = [pc EXCEPT ![p] = "undo"] /\ \E r : reg' = [reg EXCEPT ![p] = r]
      BY <2>2 DEF UndoRaises, Set, Goto
    <3> QED
      BY <3>1
  <2> QED
    BY <2>1, <2>2
<1>2. PICK r :
        /\ pc' = [pc EXCEPT ![p] = w] /\ reg' = [reg EXCEPT ![p] = r]
        /\ w = "undone" => r.idx = reg[p].idx
  BY <1>0
<1>3. Pending(mem[p]) /\ mem[p].ext[reg[p].idx].undo
  <2>1. mem[p].ext[reg[p].idx].undo
    BY <1>1, Behind DEF WalkTrue
  <2>2. reg[p].idx \in DOMAIN mem[p].ext /\ mem[p].ext[reg[p].idx].undoState = "running"
    BY <1>1, AtUndoing DEF RInv
  <2> QED
    BY <2>1, <2>2 DEF Pending
<1>4. \A t \in Target : \/ fs'[t] = fs[t] /\ edit'[t] = edit[t]
                        \/ edit'[t] = "none" /\ t \in Watched(mem[p])
  BY <1>1, RestShapes DEF NativeWrites
<1>5. ASSUME NEW t \in Tracked(mem[p])
      PROVE  EntryTrue(mem[p], t, pre[tx[p]][t], fs'[t], edit'[t])
  <2>1. t \in Target /\ EntryTrue(mem[p], t, pre[tx[p]][t], fs[t], edit[t])
        /\ mem[p].status = "rolling_back"
    BY <1>1, <1>5, Behind
  <2>2. CASE fs'[t] = fs[t] /\ edit'[t] = edit[t]
    BY <2>1, <2>2
  <2>3. CASE edit'[t] = "none" /\ t \in Watched(mem[p])
    BY <1>3, <2>1, <2>3 DEF EntryTrue, Watched
  <2> QED
    BY <1>4, <2>1, <2>2, <2>3
<1>6. \A t \in Target : edit'[t] = "quiet" => edit[t] = "quiet" /\ fs'[t] = fs[t]
  BY <1>4
<1>7. \A t \in Target : edit'[t] = "quiet" => t \notin Watched(mem[p])
  BY <1>1, <1>6, Behind DEF WalkTrue, Uncertain
<1>8. WalkTrue(w, mem[p], r, pre[tx[p]], fs', edit')
  <2>1. CASE w = "undone"
    BY <1>2, <1>3, <1>7, <2>1 DEF WalkTrue, Uncertain, AtEntry, Restoring, Forward
  <2> QED
    BY <1>2, <2>1, LoopWalk
<1>9. mem' = [mem EXCEPT ![p] = mem[p]] /\ journals' = [journals EXCEPT ![tx[p]] = mem[p]]
  BY <1>1, Behind
<1> QED
  BY <1>1, <1>2, <1>5, <1>6, <1>8, <1>9, Behind, OneWalk

\* Its end is recorded: the watched files are signed and will be restored again.
LEMMA RecordUndoRest ==
  ASSUME RInv, NEW p \in Proc, RecordUndo(p)
  PROVE  RestInv'
<1> DEFINE s == IF reg[p].ok THEN "applied" ELSE "failed"
           j == [mem[p] EXCEPT !.ext[reg[p].idx].undoState = s]
           Redo(t) == LET e == [j.file[t] EXCEPT !.applied = fs[t]]
                      IN IF e.restored
                         THEN [e EXCEPT !.restored = FALSE, !.restoring = FALSE] ELSE e
           f == [t \in Target |-> IF t \notin Watched(j) THEN j.file[t] ELSE Redo(t)]
           k == [j EXCEPT !.file = f]
<1>1. /\ pc[p] = "undone" /\ pc[p] \in Backwards /\ pc' = [pc EXCEPT ![p] = "undo"]
      /\ UNCHANGED <<tx, pre, fs, edit>> /\ \E r : reg' = [reg EXCEPT ![p] = r]
  BY DEF RecordUndo, Goto, Set, Backwards, Undoing, ghosts
<1>2. mem' = [mem EXCEPT ![p] = k] /\ journals' = [journals EXCEPT ![tx[p]] = k]
  BY DEF RecordUndo, Save
<1>3. j \in Journal /\ SameFiles(mem[p], j)
  <2>1. j \in Journal
    BY <1>1, AtUndoing, CommandSaved DEF RInv
  <2>2. SameFiles(mem[p], j)
    BY <1>1, Behind, ExtOnly
  <2> QED
    BY <2>1, <2>2
<1> HIDE DEF j
<1>4. k.status = j.status /\ k.order = j.order /\ k.file = f
  <2> HIDE DEF f
  <2> QED
    BY <1>3, AllEntries
<1>5. Tracked(k) = Tracked(mem[p]) /\ Watched(j) = Watched(mem[p])
  BY <1>3, <1>4 DEF Tracked, Watched, SameFiles
<1> HIDE DEF k
<1>6. ASSUME NEW t \in Tracked(mem[p]) PROVE EntryTrue(k, t, pre[tx[p]][t], fs[t], edit[t])
  <2>1. /\ t \in Target /\ EntryTrue(mem[p], t, pre[tx[p]][t], fs[t], edit[t])
        /\ mem[p].status = "rolling_back" /\ mem[p].file[t] \in Entry
    BY <1>1, <1>6, Behind, JournalFields
  <2>2. /\ j.file[t] = mem[p].file[t] /\ k.status = "rolling_back" /\ t \in Tracked(mem[p])
    BY <1>3, <1>4, <1>6, <2>1 DEF SameFiles
  <2>3. CASE t \notin Watched(j)
    <3>1. k.file[t] = mem[p].file[t]
      BY <1>4, <2>1, <2>2, <2>3
    <3>2. ~mem[p].file[t].mutable
      BY <1>5, <1>6, <2>3 DEF Watched
    <3> QED
      BY <2>1, <2>2, <3>1, <3>2 DEF EntryTrue
  <2>4. CASE t \in Watched(j)
    <3>1. edit[t] # "quiet"
      BY <1>1, <1>5, <2>1, <2>4, Behind DEF WalkTrue, Uncertain
    <3>2. k.file[t] = Redo(t)
      BY <1>4, <2>1, <2>4
    <3>3. Redo(t).orig = mem[p].file[t].orig /\ ~Redo(t).restored
      BY <2>1, <2>2 DEF Entry
    <3> HIDE DEF Redo
    <3> QED
      BY <2>1, <2>2, <3>1, <3>2, <3>3 DEF EntryTrue
  <2> QED
    BY <2>3, <2>4
<1>7. \A r : WalkTrue("undo", k, r, pre[tx[p]], fs', edit')
  BY LoopWalk
<1> QED
  BY <1>1, <1>2, <1>5, <1>6, <1>7, Behind, OneWalk

\* Every step of the undo loop.
LEMMA UndoRest ==
  ASSUME RInv, NEW p \in Proc, Undo(p)
  PROVE  RestInv'
  BY PassUndoRest, StartUndoRest, RunUndoRest, RecordUndoRest DEF Undo

\* The entry under the cursor.
LEMMA AtHand ==
  ASSUME RInv, NEW p \in Proc, pc[p] \in Restoring,
         pc[p] # "files" \/ AtFile(p)
  PROVE  /\ pc[p] \in Backwards /\ reg[p].idx \in DOMAIN mem[p].order /\ reg[p].idx \in Nat
         /\ DOMAIN mem[p].order \subseteq Nat
         /\ TheTarget(p) \in Tracked(mem[p]) /\ TheTarget(p) \in Target
         /\ mem[p].file[TheTarget(p)] \in Entry
         /\ pc[p] # "files" => reg[p].cur = TheTarget(p) /\ ~TheEntry(p).restored
<1>1. pc[p] \in Backwards /\ (pc[p] # "files" => pc[p] \in AtEntry)
  BY DEF Restoring, Backwards, AtEntry
<1>2. /\ mem[p] \in Journal /\ reg[p] \in Local /\ CursorOK(pc[p], mem[p], reg[p])
      /\ WalkTrue(pc[p], mem[p], reg[p], pre[tx[p]], fs, edit)
  BY <1>1, Behind
<1>3. /\ DOMAIN mem[p].order = 1..Len(mem[p].order) /\ Len(mem[p].order) \in Nat
      /\ reg[p].idx \in Nat
  BY <1>2, TrackedTargets DEF Local
<1>4. reg[p].idx \in DOMAIN mem[p].order
  BY <1>1, <1>2, <1>3 DEF CursorOK, AtFile
<1>5. TheTarget(p) \in Tracked(mem[p]) /\ TheTarget(p) \in Target
  BY <1>2, <1>4, TrackedTargets DEF TheTarget
<1>6. mem[p].file[TheTarget(p)] \in Entry
  BY <1>2, <1>5, JournalFields
<1>7. pc[p] # "files" => reg[p].cur = TheTarget(p) /\ ~TheEntry(p).restored
  BY <1>1, <1>2 DEF WalkTrue, TheTarget, TheEntry
<1> QED
  BY <1>1, <1>3, <1>4, <1>5, <1>6, <1>7

\* The cursor moves past an entry that is settled, or an error is noted.
LEMMA FilesWalk ==
  ASSUME RInv, NEW p \in Proc, pc[p] \in Restoring, pc[p] # "files" \/ AtFile(p),
         NEW j, NEW r, j.order = mem[p].order, j.manual = mem[p].manual,
         j.preserve = mem[p].preserve, r.saved = reg[p].saved,
         r.err \/ (r.idx = reg[p].idx - 1 /\ r.err = reg[p].err),
         r.err \/ Settled(j, r, TheTarget(p)),
         \A t \in Target : t # TheTarget(p) => j.file[t].restored = mem[p].file[t].restored
  PROVE  WalkTrue("files", j, r, pre[tx[p]], fs', edit')
<1>1. ASSUME ~r.err, NEW n \in DOMAIN j.order, n > r.idx PROVE Settled(j, r, j.order[n])
  <2>1. n = reg[p].idx \/ n > reg[p].idx
    BY <1>1, AtHand
  <2>2. CASE j.order[n] = TheTarget(p)
    BY <1>1, <2>2
  <2>3. CASE n > reg[p].idx /\ j.order[n] # TheTarget(p)
    <3>1. Settled(mem[p], reg[p], mem[p].order[n])
      BY <1>1, <2>3, AtHand, Behind DEF WalkTrue
    <3>2. j.order[n] \in Target
      BY <1>1, AtHand, Behind, TrackedTargets
    <3> QED
      BY <2>3, <3>1, <3>2 DEF Settled, Spared
  <2> QED
    BY <2>1, <2>2, <2>3 DEF TheTarget
<1> QED
  BY <1>1, LoopWalk

\* Moving past an entry in the local variables.
LEMMA Passed ==
  ASSUME NEW r \in Local, NEW c
  PROVE  LET n == [r EXCEPT !.idx = @ - 1] IN
         /\ n.idx = r.idx - 1 /\ n.err = r.err /\ n.saved = r.saved
         /\ [n EXCEPT !.err = TRUE].err /\ [n EXCEPT !.err = TRUE].saved = r.saved
         /\ [n EXCEPT !.cur = c].idx = r.idx - 1 /\ [n EXCEPT !.cur = c].err = r.err
         /\ [n EXCEPT !.cur = c].saved = r.saved
         /\ [n EXCEPT !.err = TRUE, !.cur = c].err
         /\ [n EXCEPT !.err = TRUE, !.cur = c].saved = r.saved
  BY DEF Local

\* An entry is skipped, or an error stops the restoring of it.
LEMMA SkipsRest ==
  ASSUME RInv, NEW p \in Proc, PassFile(p) \/ RestoreRaises(p)
  PROVE  RestInv'
<1>1. /\ pc[p] \in Restoring /\ (pc[p] # "files" \/ AtFile(p))
      /\ UNCHANGED <<tx, pre, fs, edit, mem, journals>> /\ pc' = [pc EXCEPT ![p] = "files"]
  <2>1. CASE PassFile(p)
    BY <2>1, RestShapes DEF PassFile, AtFile, ghosts, Restoring
  <2>2. CASE RestoreRaises(p)
    BY <2>2 DEF RestoreRaises, Goto, ghosts, Restoring
  <2> QED
    BY <2>1, <2>2
<1>2. PICK r : /\ reg' = [reg EXCEPT ![p] = r] /\ r.saved = reg[p].saved
               /\ r.err \/ (r.idx = reg[p].idx - 1 /\ r.err = reg[p].err)
               /\ r.err \/ Settled(mem[p], r, TheTarget(p))
  <2>0. reg[p] \in Local
    BY RestShapes
  <2>1. CASE PassFile(p) /\ ~ToRestore(p)
    <3> DEFINE r == NextIdx(p)
    <3>1. r.idx = reg[p].idx - 1 /\ r.err = reg[p].err /\ r.saved = reg[p].saved
      BY <2>0, Passed DEF NextIdx
    <3>2. reg' = [reg EXCEPT ![p] = r]
      BY <2>1 DEF PassFile, Set
    <3> HIDE DEF r
    <3>3. Settled(mem[p], r, TheTarget(p))
      BY <2>1, <3>1 DEF Settled, Spared, ToRestore, Preserved, TheEntry
    <3> QED
      BY <3>1, <3>2, <3>3
  <2>2. CASE PassFile(p) /\ ToRestore(p)
    <3> DEFINE r == [NextIdx(p) EXCEPT !.err = TRUE]
    <3>1. r.err /\ r.saved = reg[p].saved
      BY <2>0, Passed DEF NextIdx
    <3>2. reg' = [reg EXCEPT ![p] = r]
      BY <2>2 DEF PassFile, Set
    <3> HIDE DEF r
    <3> QED
      BY <3>1, <3>2
  <2>3. CASE RestoreRaises(p)
    <3> DEFINE r == [NextIdx(p) EXCEPT !.err = TRUE, !.cur = NoTarget]
    <3>1. r.err /\ r.saved = reg[p].saved
      BY <2>0, Passed DEF NextIdx
    <3>2. reg' = [reg EXCEPT ![p] = r]
      BY <2>3 DEF RestoreRaises, Set
    <3> HIDE DEF r
    <3> QED
      BY <3>1, <3>2
  <2> QED
    BY <2>1, <2>2, <2>3
<1>3. WalkTrue("files", mem[p], r, pre[tx[p]], fs', edit')
  BY <1>1, <1>2, FilesWalk
<1> QED
  BY <1>1, <1>2, <1>3, AtHand, Behind, OneWalk

\* Marking the entry at hand, which holds what was there before.
LEMMA MarksRest ==
  ASSUME RInv, NEW p \in Proc, FinishRestored(p) \/ MarkRestored(p)
  PROVE  RestInv'
<1> DEFINE t == TheTarget(p)
           e == [mem[p].file[t] EXCEPT !.restored = TRUE, !.restoring = FALSE]
           j == [mem[p] EXCEPT !.file = [mem[p].file EXCEPT ![t] = e]]
<1>1. /\ pc[p] \in Restoring /\ (pc[p] # "files" \/ AtFile(p))
      /\ UNCHANGED <<tx, pre, fs, edit>> /\ pc' = [pc EXCEPT ![p] = "files"]
  <2>1. CASE FinishRestored(p)
    BY <2>1, RestShapes DEF FinishRestored, AtFile, ghosts, Restoring
  <2>2. CASE MarkRestored(p)
    BY <2>2 DEF MarkRestored, Goto, ghosts, Restoring
  <2> QED
    BY <2>1, <2>2
<1>2. fs[t] = mem[p].file[t].orig \/ edit[t] # "none"
  <2>1. CASE FinishRestored(p)
    BY <2>1 DEF FinishRestored, RestoredBefore, TheEntry
  <2>2. CASE MarkRestored(p)
    BY <1>1, <2>2, AtHand, Behind DEF MarkRestored, WalkTrue
  <2> QED
    BY <2>1, <2>2
<1>3. mem' = [mem EXCEPT ![p] = j] /\ journals' = [journals EXCEPT ![tx[p]] = j]
  <2>1. CASE FinishRestored(p)
    BY <2>1 DEF FinishRestored, MarkEntry, Save
  <2>2. CASE MarkRestored(p)
    <3>1. reg[p].cur = t
      BY <1>1, <2>2, AtHand DEF MarkRestored
    <3> HIDE DEF t, j
    <3>2. MarkEntry(p, t)
      BY <2>2, <3>1 DEF MarkRestored
    <3> QED
      BY <3>2 DEF MarkEntry, Save, j
  <2> QED
    BY <2>1, <2>2
<1>4. PICK r : /\ reg' = [reg EXCEPT ![p] = r] /\ r.saved = reg[p].saved
               /\ r.idx = reg[p].idx - 1 /\ r.err = reg[p].err
  <2>0. reg[p] \in Local
    BY RestShapes
  <2>1. CASE FinishRestored(p)
    <3> DEFINE r == NextIdx(p)
    <3>1. r.idx = reg[p].idx - 1 /\ r.err = reg[p].err /\ r.saved = reg[p].saved
      BY <2>0, Passed DEF NextIdx
    <3>2. reg' = [reg EXCEPT ![p] = r]
      BY <2>1 DEF FinishRestored, Set
    <3> HIDE DEF r
    <3> QED
      BY <3>1, <3>2
  <2>2. CASE MarkRestored(p)
    <3> DEFINE r == [NextIdx(p) EXCEPT !.cur = NoTarget]
    <3>1. r.idx = reg[p].idx - 1 /\ r.err = reg[p].err /\ r.saved = reg[p].saved
      BY <2>0, Passed DEF NextIdx
    <3>2. reg' = [reg EXCEPT ![p] = r]
      BY <2>2 DEF MarkRestored, Set
    <3> HIDE DEF r
    <3> QED
      BY <3>1, <3>2
  <2> QED
    BY <2>1, <2>2
<1>5. /\ t \in Target /\ mem[p] \in Journal /\ mem[p].file[t] \in Entry
      /\ mem[p].status = "rolling_back" /\ pc[p] \in Backwards /\ pc[p] # "idle"
  BY <1>1, AtHand, Behind
<1>6. e.restored /\ e.orig = mem[p].file[t].orig /\ e.applied = mem[p].file[t].applied
  BY <1>5 DEF Entry
<1>7. j = [mem[p] EXCEPT !.file = [mem[p].file EXCEPT ![t] = e]]
  OBVIOUS
<1> HIDE DEF t, e, j
<1>8. /\ j.status = mem[p].status /\ j.order = mem[p].order
      /\ j.manual = mem[p].manual /\ j.preserve = mem[p].preserve
      /\ j.file[t] = e /\ \A u \in Target : u # t => j.file[u] = mem[p].file[u]
      /\ j.ext = mem[p].ext
  BY <1>5, <1>7, JournalFields DEF Journal
<1>9. Tracked(j) = Tracked(mem[p]) /\ (Pending(mem[p]) => Pending(j))
  BY <1>8 DEF Tracked, Pending
<1>10. ASSUME NEW u \in Tracked(j) PROVE EntryTrue(j, u, pre[tx[p]][u], fs'[u], edit'[u])
  <2>1. u \in Target /\ EntryTrue(mem[p], u, pre[tx[p]][u], fs[u], edit[u])
    BY <1>5, <1>9, <1>10, Behind
  <2>2. CASE u = t
    BY <1>1, <1>2, <1>5, <1>6, <1>8, <2>1, <2>2 DEF EntryTrue
  <2>3. CASE u # t
    BY <1>1, <1>8, <1>9, <2>1, <2>3, SameTrue
  <2> QED
    BY <2>2, <2>3
<1>11. Settled(j, r, TheTarget(p))
  BY <1>6, <1>8 DEF Settled, t
<1>12. WalkTrue("files", j, r, pre[tx[p]], fs', edit')
  BY <1>1, <1>4, <1>8, <1>11, FilesWalk DEF t
<1> QED
  BY <1>1, <1>3, <1>4, <1>5, <1>10, <1>12, OneWalk

\* A target is about to be removed: it holds what the installer signed there.
LEMMA StartRestoreRest ==
  ASSUME RInv, NEW p \in Proc, StartRestore(p)
  PROVE  RestInv'
<1> DEFINE t == TheTarget(p)
           e == [mem[p].file[t] EXCEPT !.restoring = TRUE]
           j == [mem[p] EXCEPT !.file = [mem[p].file EXCEPT ![t] = e]]
           r == [reg[p] EXCEPT !.cur = t]
<1>1. /\ pc[p] = "files" /\ pc[p] \in Restoring /\ AtFile(p) /\ ToRestore(p)
      /\ ~RestoredBefore(p) /\ ~Overwritten(p)
      /\ UNCHANGED <<tx, pre, fs, edit>> /\ pc' = [pc EXCEPT ![p] = "removing"]
      /\ mem' = [mem EXCEPT ![p] = j] /\ journals' = [journals EXCEPT ![tx[p]] = j]
      /\ reg' = [reg EXCEPT ![p] = r]
  BY DEF StartRestore, AtFile, Save, Set, Goto, ghosts, Restoring
<1>2. /\ t \in Target /\ t \in Tracked(mem[p]) /\ mem[p] \in Journal /\ mem[p].file[t] \in Entry
      /\ mem[p].status = "rolling_back" /\ pc[p] \in Backwards /\ pc[p] # "idle"
      /\ reg[p] \in Local
      /\ WalkTrue("files", mem[p], reg[p], pre[tx[p]], fs, edit)
      /\ EntryTrue(mem[p], t, pre[tx[p]][t], fs[t], edit[t])
  BY <1>1, AtHand, Behind
<1>3. edit[t] # "quiet"
  <2> SUFFICES ASSUME edit[t] = "quiet" PROVE FALSE
    OBVIOUS
  <2>1. mem[p].status \in Rollbackable
    BY <1>2 DEF Rollbackable, Unfinished
  <2>2. mem[p].file[t].applied # Unsigned /\ fs[t] # mem[p].file[t].applied
    BY <1>2, <2>1 DEF EntryTrue
  <2>3. Overwritten(p)
    BY <2>2 DEF Overwritten, Signed, TheEntry
  <2> QED
    BY <1>1, <2>3
<1>4. ~mem[p].file[t].restored
  BY <1>1 DEF ToRestore, TheEntry
<1>5. /\ e.restored = mem[p].file[t].restored /\ e.orig = mem[p].file[t].orig
      /\ e.applied = mem[p].file[t].applied
      /\ r.cur = t /\ r.idx = reg[p].idx /\ r.err = reg[p].err /\ r.saved = reg[p].saved
  BY <1>2 DEF Entry, Local
<1>6. t = mem[p].order[r.idx]
  BY <1>5 DEF TheTarget
<1>7. j = [mem[p] EXCEPT !.file = [mem[p].file EXCEPT ![t] = e]]
  OBVIOUS
<1> HIDE DEF t, e, j, r
<1>8. /\ j.status = mem[p].status /\ j.order = mem[p].order
      /\ j.manual = mem[p].manual /\ j.preserve = mem[p].preserve
      /\ j.file[t] = e /\ \A u \in Target : u # t => j.file[u] = mem[p].file[u]
      /\ j.ext = mem[p].ext
  BY <1>2, <1>7, JournalFields DEF Journal
<1>9. Tracked(j) = Tracked(mem[p]) /\ (Pending(mem[p]) => Pending(j))
  BY <1>8 DEF Tracked, Pending
<1>10. ASSUME NEW u \in Tracked(j) PROVE EntryTrue(j, u, pre[tx[p]][u], fs'[u], edit'[u])
  <2>1. u \in Target /\ EntryTrue(mem[p], u, pre[tx[p]][u], fs[u], edit[u])
    BY <1>2, <1>9, <1>10, Behind
  <2>2. CASE u = t
    BY <1>1, <1>3, <1>4, <1>5, <1>8, <2>1, <2>2 DEF EntryTrue
  <2>3. CASE u # t
    BY <1>1, <1>8, <1>9, <2>1, <2>3, SameTrue
  <2> QED
    BY <2>2, <2>3
<1>11. ASSUME ~r.err, NEW n \in DOMAIN j.order, n > r.idx PROVE Settled(j, r, j.order[n])
  <2>1. Settled(mem[p], reg[p], mem[p].order[n]) /\ mem[p].order[n] \in Target
    BY <1>2, <1>5, <1>8, <1>11, TrackedTargets DEF WalkTrue, Restoring
  <2> QED
    BY <1>4, <1>5, <1>8, <2>1 DEF Settled, Spared
<1>12. WalkTrue("removing", j, r, pre[tx[p]], fs', edit')
  BY <1>1, <1>3, <1>4, <1>5, <1>6, <1>8, <1>11 DEF WalkTrue, Uncertain, Forward
<1> QED
  BY <1>1, <1>2, <1>10, <1>12, OneWalk

\* It is removed, and its backup copied back.
LEMMA PutsRest ==
  ASSUME RInv, NEW p \in Proc, RemoveTarget(p) \/ PutOriginal(p)
  PROVE  RestInv'
<1> DEFINE t == TheTarget(p)
<1>1. /\ pc[p] \in {"removing", "putting"} /\ pc[p] \in Restoring
      /\ UNCHANGED <<tx, pre, edit, reg, mem, journals>>
  BY DEF RemoveTarget, PutOriginal, ghosts, Restoring
<1>2. /\ t \in Target /\ mem[p] \in Journal /\ reg[p].cur = t /\ ~mem[p].file[t].restored
      /\ mem[p].status = "rolling_back" /\ pc[p] \in Backwards /\ pc[p] # "idle"
      /\ WalkTrue(pc[p], mem[p], reg[p], pre[tx[p]], fs, edit)
      /\ mem = [mem EXCEPT ![p] = mem[p]] /\ journals = [journals EXCEPT ![tx[p]] = mem[p]]
      /\ reg = [reg EXCEPT ![p] = reg[p]]
  BY <1>1, AtHand, Behind DEF TheEntry
<1>3. PICK w \in {"putting", "marking"} :
        /\ pc' = [pc EXCEPT ![p] = w]
        /\ w = "marking" => fs'[t] = mem[p].file[t].orig
  <2>1. CASE RemoveTarget(p)
    BY <2>1 DEF RemoveTarget, Goto
  <2>2. CASE PutOriginal(p)
    BY <1>2, <2>2, RestShapes DEF PutOriginal, Goto
  <2> QED
    BY <2>1, <2>2
<1>4. \A u \in Target : u # t => fs'[u] = fs[u]
  BY <1>2, RestShapes DEF RemoveTarget, PutOriginal
<1> HIDE DEF t
<1>5. edit[t] # "quiet"
  BY <1>1, <1>2 DEF WalkTrue, Uncertain
<1>6. ASSUME NEW u \in Tracked(mem[p])
      PROVE  EntryTrue(mem[p], u, pre[tx[p]][u], fs'[u], edit'[u])
  <2>1. u \in Target /\ EntryTrue(mem[p], u, pre[tx[p]][u], fs[u], edit[u])
    BY <1>2, <1>6, Behind
  <2>2. CASE u = t
    BY <1>1, <1>2, <1>5, <2>1, <2>2 DEF EntryTrue
  <2>3. CASE u # t
    BY <1>1, <1>4, <2>1, <2>3
  <2> QED
    BY <2>2, <2>3
<1>7. WalkTrue(w, mem[p], reg[p], pre[tx[p]], fs', edit')
  <2>1. w \in AtEntry => reg[p].cur = mem[p].order[reg[p].idx] /\ ~mem[p].file[reg[p].cur].restored
    BY <1>1, <1>2 DEF WalkTrue, AtEntry
  <2>2. ~reg[p].err => \A n \in DOMAIN mem[p].order : n > reg[p].idx =>
          Settled(mem[p], reg[p], mem[p].order[n])
    BY <1>1, <1>2 DEF WalkTrue
  <2>3. \A u \in Target : edit'[u] = "quiet" => u # t
    BY <1>1, <1>5
  <2>4. w \notin {"undoing", "undone", "run", "ran", "refresh"} /\ w \notin Forward
    BY DEF Forward
  <2> QED
    BY <1>2, <1>3, <2>1, <2>2, <2>3, <2>4 DEF WalkTrue, Uncertain
<1>8. \A u \in Target : edit'[u] = "quiet" => edit[u] = "quiet" /\ fs'[u] = fs[u]
  BY <1>1, <1>4, <1>5
<1>9. /\ mem' = [mem EXCEPT ![p] = mem[p]] /\ journals' = [journals EXCEPT ![tx[p]] = mem[p]]
      /\ reg' = [reg EXCEPT ![p] = reg[p]]
  BY <1>1, <1>2
<1> QED
  BY <1>1, <1>2, <1>3, <1>6, <1>7, <1>8, <1>9, OneWalk

\* The journal changes its status only; no process is left inside, or the
\* one at p starts to roll back.
LEMMA StatusTrue ==
  ASSUME NEW j, NEW k, NEW t, NEW o, NEW c, NEW e, EntryTrue(j, t, o, c, e),
         k.file = j.file, k.ext = j.ext, j.status # "unused",
         j.status \in Rollbackable,
         \/ k.status = "committed" /\ j.status \in {"active", "committed"}
         \/ k.status \in Halfway \union Reverted
  PROVE  EntryTrue(k, t, o, c, e)
<1>1. Pending(j) = Pending(k)
  BY DEF Pending
<1>2. j.status \in {"active", "committed"} \/ j.status \in Halfway
  BY DEF Rollbackable, Unfinished, Halfway
<1>3. k.status \in Reverted => k.status \notin Rollbackable /\ k.status \notin Halfway
        /\ k.status \notin {"unused", "active", "committed"}
  BY DEF Reverted, Rollbackable, Unfinished, Halfway
<1>4. k.status \in Halfway => k.status \notin {"unused", "active", "committed"}
  BY DEF Halfway
<1> QED
  BY <1>1, <1>2, <1>3, <1>4 DEF EntryTrue, Halfway

\* A process leaves its operation.
LEMMA LeaveRest ==
  ASSUME RInv, NEW p \in Proc, pc[p] # "idle", Leave(p), UNCHANGED <<fs, pre, edit>>, NEW j,
         journals' = [journals EXCEPT ![tx[p]] = j], j.order = mem[p].order,
         \A t \in Tracked(mem[p]) : EntryTrue(j, t, pre[tx[p]][t], fs[t], edit[t])
  PROVE  RestInv'
<1>1. /\ \A q \in Proc : pc'[q] = "idle" /\ tx[p] \in Tx
      /\ journals'[tx[p]] = j /\ \A h \in Tx : h # tx[p] => journals'[h] = journals[h]
  BY Working, RestShapes DEF Leave, Goto
<1>2. Tracked(j) = Tracked(mem[p])
  BY DEF Tracked
<1>3. \A i \in Tx : \A t \in Tracked(journals'[i]) :
        EntryTrue(journals'[i], t, pre'[i][t], fs'[t], edit'[t])
  BY <1>1, <1>2 DEF RInv, RestInv
<1>4. \A i \in Tx : Tracked(journals[i])' = Tracked(journals'[i])
  BY DEF Tracked
<1> QED
  BY <1>1, <1>3, <1>4 DEF RestInv, EntryTrue, Pending

\* Every step of the file loop but the verdict.
LEMMA RestoreRest ==
  ASSUME RInv, NEW p \in Proc, Restore(p), ~FinishRollback(p)
  PROVE  RestInv'
  BY SkipsRest, MarksRest, StartRestoreRest, PutsRest DEF Restore

\* commit(), the verdict of a rollback, and a crash.
LEMMA EndsRest ==
  ASSUME RInv, NEW p \in Proc, Commit(p) \/ FinishRollback(p) \/ Crash(p)
  PROVE  RestInv'
<1>1. /\ pc[p] # "idle" /\ Leave(p) /\ UNCHANGED <<fs, pre, edit>>
  BY DEF Commit, FinishRollback, Crash, Busy, Forward, Undoing, Restoring, ghosts
<1>2. /\ mem[p] \in Journal /\ journals = [journals EXCEPT ![tx[p]] = mem[p]]
      /\ \A t \in Tracked(mem[p]) : EntryTrue(mem[p], t, pre[tx[p]][t], fs[t], edit[t])
      /\ mem[p].status = IF pc[p] \in Forwards THEN "active" ELSE "rolling_back"
  BY <1>1, Working, RestShapes
<1>3. mem[p].status # "unused" /\ mem[p].status \in Rollbackable
  BY <1>2 DEF Rollbackable, Unfinished
<1>4. CASE Commit(p)
  <2> DEFINE j == [mem[p] EXCEPT !.status = "committed"]
  <2>1. /\ j.status = "committed" /\ j.order = mem[p].order
        /\ j.file = mem[p].file /\ j.ext = mem[p].ext
    BY <1>2 DEF Journal
  <2>2. journals' = [journals EXCEPT ![tx[p]] = j] /\ mem[p].status = "active"
    BY <1>2, <1>4 DEF Commit, Forwards, Forward
  <2> HIDE DEF j
  <2>3. \A t \in Tracked(mem[p]) : EntryTrue(j, t, pre[tx[p]][t], fs[t], edit[t])
    BY <1>2, <1>3, <2>1, <2>2, StatusTrue
  <2> QED
    BY <1>1, <2>1, <2>2, <2>3, LeaveRest
<1>5. CASE FinishRollback(p)
  <2> DEFINE j == [mem[p] EXCEPT !.status = FinalStatus(p)]
  <2>1. /\ j.status = FinalStatus(p) /\ j.order = mem[p].order
        /\ j.file = mem[p].file /\ j.ext = mem[p].ext
    BY <1>2 DEF Journal
  <2>2. journals' = [journals EXCEPT ![tx[p]] = j]
    BY <1>5 DEF FinishRollback
  <2>3. FinalStatus(p) \in Halfway \union Reverted
    BY DEF FinalStatus, Halfway, Reverted
  <2> HIDE DEF j
  <2>4. \A t \in Tracked(mem[p]) : EntryTrue(j, t, pre[tx[p]][t], fs[t], edit[t])
    BY <1>2, <1>3, <2>1, <2>3, StatusTrue
  <2> QED
    BY <1>1, <2>1, <2>2, <2>4, LeaveRest
<1>6. CASE Crash(p)
  <2>1. journals' = [journals EXCEPT ![tx[p]] = mem[p]]
    BY <1>2, <1>6 DEF Crash
  <2> QED
    BY <1>1, <1>2, <2>1, LeaveRest
<1> QED
  BY <1>4, <1>5, <1>6

\* rollback() starts with every entry as the body left it.
LEMMA RollBackRest ==
  ASSUME RInv, NEW p \in Proc, RollBack(p)
  PROVE  RestInv'
<1> DEFINE j == [mem[p] EXCEPT !.status = "rolling_back"]
           r == [NoLocal EXCEPT !.idx = Len(mem[p].ext)]
<1>1. /\ pc[p] = "failed" /\ pc' = [pc EXCEPT ![p] = "undo"] /\ UNCHANGED <<tx, fs, pre, edit>>
      /\ mem' = [mem EXCEPT ![p] = j] /\ journals' = [journals EXCEPT ![tx[p]] = j]
      /\ reg' = [reg EXCEPT ![p] = r]
  BY DEF RollBack, Save, Set, Goto, ghosts
<1>2. /\ mem[p] \in Journal /\ mem[p].status = "active"
      /\ \A t \in Tracked(mem[p]) : EntryTrue(mem[p], t, pre[tx[p]][t], fs[t], edit[t])
  BY <1>1, Working DEF Forwards
<1>3. /\ j.status = "rolling_back" /\ j.order = mem[p].order
      /\ j.file = mem[p].file /\ j.ext = mem[p].ext
  BY <1>2 DEF Journal
<1> HIDE DEF j, r
<1>4. mem[p].status \in Rollbackable /\ mem[p].status # "unused" /\ j.status \in Halfway
  BY <1>2, <1>3 DEF Rollbackable, Unfinished, Halfway
<1>5. \A t \in Tracked(mem[p]) : EntryTrue(j, t, pre[tx[p]][t], fs[t], edit[t])
  BY <1>2, <1>3, <1>4, StatusTrue
<1>6. \A t \in Tracked(j) : EntryTrue(j, t, pre[tx[p]][t], fs'[t], edit'[t])
  BY <1>1, <1>3, <1>5 DEF Tracked
<1>7. WalkTrue("undo", j, r, pre[tx[p]], fs', edit')
  BY LoopWalk
<1> QED
  BY <1>1, <1>6, <1>7, OneWalk

\* When nobody is at work and p takes up journal i, its entries and the place
\* of p are what there is to look at.
LEMMA TakesUp ==
  ASSUME RInv, NEW p \in Proc, lock = NoProc, NEW i \in Tx, NEW w, NEW j,
         pc' = [pc EXCEPT ![p] = w], tx' = [tx EXCEPT ![p] = i],
         mem' = [mem EXCEPT ![p] = j], journals' = [journals EXCEPT ![i] = j],
         UNCHANGED <<fs, edit>>, \A h \in Tx : h # i => pre'[h] = pre[h],
         \A t \in Tracked(j) : EntryTrue(j, t, pre'[i][t], fs[t], edit[t]),
         WalkTrue(w, j, reg'[p], pre'[i], fs, edit)
  PROVE  RestInv'
<1>1. \A q \in Proc : pc[q] = "idle"
  BY TransactionAssumption DEF RInv, UInv, IInv, LedgerInv, Holds
<1>2. /\ pc'[p] = w /\ tx'[p] = i /\ mem'[p] = j /\ journals'[i] = j
      /\ \A q \in Proc : q # p => pc'[q] = "idle"
      /\ \A h \in Tx : h # i => journals'[h] = journals[h]
  BY <1>1, RestShapes
<1>3. \A h \in Tx : \A t \in Tracked(journals'[h]) :
        EntryTrue(journals'[h], t, pre'[h][t], fs'[t], edit'[t])
  BY <1>2 DEF RInv, RestInv
<1>4. \A q \in Proc : pc'[q] # "idle" =>
        WalkTrue(pc'[q], mem'[q], reg'[q], pre'[tx'[q]], fs', edit')
  BY <1>2
<1>5. \A h \in Tx : Tracked(journals[h])' = Tracked(journals'[h])
  BY DEF Tracked
<1> QED
  BY <1>3, <1>4, <1>5 DEF RestInv, EntryTrue, WalkTrue, Uncertain, Settled, Spared, Tracked,
     Watched, Pending

\* rollback_saved() takes up the newest journal as it was left.
LEMMA RollBackSavedRest ==
  ASSUME RInv, NEW p \in Proc, RollBackSaved(p)
  PROVE  RestInv'
<1>1. PICK i \in Tx :
        /\ Newest(i) /\ tx' = [tx EXCEPT ![p] = i]
        /\ mem' = [mem EXCEPT ![p] = [journals[i] EXCEPT !.manual = WasCommitted(journals[i]),
                                                         !.status = "rolling_back"]]
        /\ journals' = [journals EXCEPT ![i] = [journals[i] EXCEPT
                          !.manual = WasCommitted(journals[i]), !.status = "rolling_back"]]
  BY DEF RollBackSaved
<1> DEFINE j == [journals[i] EXCEPT !.manual = WasCommitted(journals[i]),
                                    !.status = "rolling_back"]
<1>2. /\ mem' = [mem EXCEPT ![p] = j] /\ journals' = [journals EXCEPT ![i] = j]
  BY <1>1
<1>3. /\ j.status = "rolling_back" /\ j.order = journals[i].order
      /\ j.file = journals[i].file /\ j.ext = journals[i].ext
  BY RestShapes DEF Journal
<1> HIDE DEF j
<1>4. /\ lock = NoProc /\ pc' = [pc EXCEPT ![p] = "undo"] /\ UNCHANGED <<fs, pre, edit>>
  BY DEF RollBackSaved, LockFree, Goto, ghosts
<1>5. /\ journals[i].status \in Rollbackable /\ journals[i].status # "unused"
      /\ j.status \in Halfway
  BY <1>1, <1>3 DEF Newest, Rollbackable, Unfinished, Halfway
<1>6. \A t \in Tracked(journals[i]) : EntryTrue(journals[i], t, pre[i][t], fs[t], edit[t])
  BY DEF RInv, RestInv
<1>7. \A t \in Tracked(j) : EntryTrue(j, t, pre'[i][t], fs[t], edit[t])
  BY <1>3, <1>4, <1>5, <1>6, StatusTrue DEF Tracked
<1>8. WalkTrue("undo", j, reg'[p], pre'[i], fs, edit)
  BY LoopWalk
<1> QED
  BY <1>1, <1>2, <1>4, <1>7, <1>8, TakesUp

\* A new journal tracks nothing, and what is there now was there before.
LEMMA BeginRest ==
  ASSUME RInv, NEW p \in Proc, Begin(p)
  PROVE  RestInv'
<1>1. PICK i \in Tx, b \in BOOLEAN :
        /\ tx' = [tx EXCEPT ![p] = i]
        /\ mem' = [mem EXCEPT ![p] = [NoJournal EXCEPT !.status = "active", !.preserve = b]]
        /\ journals' = [journals EXCEPT ![i] = [NoJournal EXCEPT !.status = "active", !.preserve = b]]
        /\ pre' = [pre EXCEPT ![i] = fs]
  BY DEF Begin
<1> DEFINE j == [NoJournal EXCEPT !.status = "active", !.preserve = b]
<1>2. mem' = [mem EXCEPT ![p] = j] /\ journals' = [journals EXCEPT ![i] = j]
  BY <1>1
<1>3. j.order = <<>>
  BY DEF NoJournal
<1> HIDE DEF j
<1>4. lock = NoProc /\ pc' = [pc EXCEPT ![p] = "open"] /\ UNCHANGED <<fs, edit>>
  BY DEF Begin, LockFree, Goto
<1>5. pre'[i] = fs /\ \A h \in Tx : h # i => pre'[h] = pre[h]
  BY <1>1, RestShapes
<1>6. Tracked(j) = {}
  BY <1>3 DEF Tracked
<1>7. WalkTrue("open", j, reg'[p], pre'[i], fs, edit)
  <2>1. "open" \notin AtEntry /\ "open" \notin Restoring
    BY DEF AtEntry, Restoring
  <2>2. \A t \in Target : ~Uncertain("open", j, reg'[p], t, pre'[i][t], fs[t])
    BY <1>5 DEF Uncertain
  <2> QED
    BY <2>1, <2>2 DEF WalkTrue
<1> QED
  BY <1>1, <1>2, <1>4, <1>5, <1>6, <1>7, TakesUp

\* A quiet edit is one the journals can tell, and no process is about to act.
LEMMA UserEditRest ==
  ASSUME RInv, NEW t \in Target, UserEdit(t)
  PROVE  RestInv'
<1>1. PICK c \in Edits :
        /\ fs' = [fs EXCEPT ![t] = c]
        /\ pre' = [i \in Tx |->
             IF /\ journals[i].status = "active" /\ t \notin Tracked(journals[i])
                /\ fs[t] = pre[i][t]
             THEN [pre[i] EXCEPT ![t] = c] ELSE pre[i]]
        /\ edit' = [edit EXCEPT ![t] = IF Quiet(t, c) THEN "quiet" ELSE "window"]
  BY DEF UserEdit
<1>2. UNCHANGED <<journals, pc, tx, mem, reg>>
  BY DEF UserEdit, procVars
<1>3. /\ fs'[t] = c /\ edit'[t] # "none" /\ (edit'[t] = "quiet" => Quiet(t, c))
      /\ \A u \in Target : u # t => fs'[u] = fs[u] /\ edit'[u] = edit[u]
      /\ \A i \in Tx, u \in Target : u # t \/ t \in Tracked(journals[i]) => pre'[i][u] = pre[i][u]
      /\ \A i \in Tx : journals[i].status = "active" /\ t \notin Tracked(journals[i])
                         /\ fs[t] = pre[i][t] => pre'[i][t] = c
  BY <1>1, RestShapes
<1>4. ASSUME NEW i \in Tx, NEW u \in Tracked(journals[i])
      PROVE  EntryTrue(journals[i], u, pre'[i][u], fs'[u], edit'[u])
  <2>1. EntryTrue(journals[i], u, pre[i][u], fs[u], edit[u]) /\ u \in Target
    BY RestShapes, TrackedTargets DEF RInv, RestInv
  <2>2. CASE u = t
    <3>1. journals[i].status \in Rollbackable /\ edit'[t] = "quiet" =>
            /\ journals[i].file[t].applied # Unsigned
            /\ c \notin {journals[i].file[t].applied, journals[i].file[t].orig}
      BY <1>3, <1>4, <2>2 DEF Quiet, Signed
    <3> QED
      BY <1>3, <1>4, <2>1, <2>2, <3>1 DEF EntryTrue
  <2>3. CASE u # t
    BY <1>3, <2>1, <2>3
  <2> QED
    BY <2>2, <2>3
<1>5. ASSUME NEW q \in Proc, pc[q] # "idle"
      PROVE  WalkTrue(pc[q], mem[q], reg[q], pre'[tx[q]], fs', edit')
  <2>1. /\ tx[q] \in Tx /\ mem[q] \in Journal /\ journals[tx[q]] = mem[q]
        /\ mem[q].status = IF pc[q] \in Forwards THEN "active" ELSE "rolling_back"
        /\ WalkTrue(pc[q], mem[q], reg[q], pre[tx[q]], fs, edit)
        /\ CursorOK(pc[q], mem[q], reg[q])
    BY <1>5, Working
  <2>2. ASSUME pc[q] = "marking"
        PROVE  fs'[reg[q].cur] = mem[q].file[reg[q].cur].orig \/ edit'[reg[q].cur] # "none"
    <3>1. reg[q].cur \in Target
      BY <2>1, <2>2 DEF CursorOK, AtTarget
    <3>2. fs[reg[q].cur] = mem[q].file[reg[q].cur].orig \/ edit[reg[q].cur] # "none"
      BY <2>1, <2>2 DEF WalkTrue
    <3> QED
      BY <1>3, <3>1, <3>2
  <2>3. ASSUME edit'[t] = "quiet"
        PROVE  ~Uncertain(pc[q], mem[q], reg[q], t, pre'[tx[q]][t], fs'[t])
    <3>1. ~Acting(q, t)
      BY <1>3, <2>3 DEF Quiet
    <3>2. ASSUME pc[q] \in Forward, t \notin Tracked(mem[q]) PROVE fs'[t] = pre'[tx[q]][t]
      <4>1. fs[t] = pre[tx[q]][t]
        BY <3>1, <3>2 DEF Acting, Made
      <4>2. journals[tx[q]].status = "active"
        BY <2>1, <3>2 DEF Forwards
      <4> QED
        BY <1>3, <2>1, <3>2, <4>1, <4>2
    <3> QED
      BY <3>1, <3>2 DEF Uncertain, Acting
  <2>4. ASSUME NEW u \in Target, edit'[u] = "quiet"
        PROVE  ~Uncertain(pc[q], mem[q], reg[q], u, pre'[tx[q]][u], fs'[u])
    <3>1. CASE u # t
      <4>1. ~Uncertain(pc[q], mem[q], reg[q], u, pre[tx[q]][u], fs[u])
        BY <1>3, <2>1, <2>4, <3>1 DEF WalkTrue
      <4>2. fs'[u] = fs[u] /\ pre'[tx[q]][u] = pre[tx[q]][u]
        BY <1>3, <2>1, <3>1
      <4> QED
        BY <4>1, <4>2
    <3> QED
      BY <2>3, <2>4, <3>1
  <2> QED
    BY <2>1, <2>2, <2>4 DEF WalkTrue
<1>6. \A i \in Tx : \A u \in Tracked(journals'[i]) :
        EntryTrue(journals'[i], u, pre'[i][u], fs'[u], edit'[u])
  BY <1>2, <1>4
<1>7. \A q \in Proc : pc'[q] # "idle" =>
        WalkTrue(pc'[q], mem'[q], reg'[q], pre'[tx'[q]], fs', edit')
  BY <1>2, <1>5
<1>8. \A h \in Tx : Tracked(journals[h])' = Tracked(journals'[h])
  BY DEF Tracked
<1> QED
  BY <1>6, <1>7, <1>8 DEF RestInv, EntryTrue, WalkTrue, Uncertain, Settled, Spared, Tracked,
     Watched, Pending

\* No journal, no edit, nobody at work.
LEMMA InitRest == Init => RestInv
<1> SUFFICES ASSUME Init PROVE RestInv
  OBVIOUS
<1>1. \A i \in Tx : Tracked(journals[i]) = {}
  BY DEF Init, Tracked, NoJournal
<1> QED
  BY <1>1 DEF Init, RestInv

\* Steps that touch nothing the invariant reads.
LEMMA StutterRest ==
  ASSUME RInv, UNCHANGED vars
  PROVE  RestInv'
<1>1. UNCHANGED <<fs, journals, pc, tx, mem, reg, pre, edit>>
  BY DEF vars, procVars, ghosts
<1> QED
  BY <1>1 DEF RInv, RestInv, EntryTrue, WalkTrue, Uncertain, Settled, Spared, Tracked, Watched,
     Pending

\* Every step keeps the invariant.
LEMMA NextRest == ~LateErrors /\ RInv /\ [Next]_vars => RInv'
<1> SUFFICES ASSUME ~LateErrors, RInv, [Next]_vars PROVE RInv'
  OBVIOUS
<1>1. UInv'
  BY NextAccount DEF RInv
<1>2. ASSUME NEW p \in Proc, Body(p) \/ Undo(p) \/ Restore(p) PROVE RestInv'
  BY <1>2, BodyRest, UndoRest, RestoreRest, EndsRest
<1>3. ASSUME NEW p \in Proc, Ending(p) PROVE RestInv'
  BY <1>3, EndsRest DEF Ending, LateError
<1>4. ASSUME NEW p \in Proc, Begin(p) \/ RollBack(p) \/ RollBackSaved(p) PROVE RestInv'
  BY <1>4, BeginRest, RollBackRest, RollBackSavedRest
<1>5. ASSUME NEW t \in Target, UserEdit(t) PROVE RestInv'
  BY <1>5, UserEditRest
<1>6. ASSUME UNCHANGED vars PROVE RestInv'
  BY <1>6, StutterRest
<1> QED
  BY <1>1, <1>2, <1>3, <1>4, <1>5, <1>6 DEF Next, RInv

LEMMA RestInductive == ~LateErrors /\ Spec => []RInv
<1>1. Init => RInv
  BY InitLedger, InitAccount, InitRest DEF RInv, UInv
<1>2. CASE ~LateErrors
  <2>1. RInv /\ [Next]_vars => RInv'
    BY <1>2, NextRest
  <2> QED
    BY <1>1, <2>1, PTL DEF Spec
<1> QED
  BY <1>2

\* A process that leaves the file loop for good has given its verdict, died,
\* or not moved at all.
LEMMA LeavesFiles ==
  ASSUME ~LateErrors, RInv, [Next]_vars, NEW p \in Proc, pc[p] = "files", pc'[p] = "idle"
  PROVE  FinishRollback(p) \/ Crash(p)
<1>1. pc \in [Proc -> PC] /\ \A q \in Proc : q # p => pc[q] = "idle"
  BY RestShapes, Working
<1>2. ASSUME NEW q \in Proc, Begin(q) \/ RollBackSaved(q) PROVE FALSE
  <2>1. lock = NoProc /\ lock = p
    BY <1>2, Alone DEF Begin, RollBackSaved, LockFree, RInv, UInv
  <2> QED
    BY <2>1, TransactionAssumption
<1>3. ASSUME NEW q \in Proc, q # p,
             Body(q) \/ Ending(q) \/ RollBack(q) \/ Undo(q) \/ Restore(q)
      PROVE  FALSE
  BY <1>1, <1>3 DEF Body, Backup, StartWrite, Watch, NestedWrite, TrackCreated, WriteTarget,
     Sign, Capture, StartCommand, RunCommand, RecordCommand, RefreshConfig, OnRollback, Fail,
     Forward, Ending, Commit, LateError, Crash, Busy, RollBack, Undo, PassUndo, AtUndo,
     StartUndo, RunUndo, RecordUndo, UndoRaises, UndosDone, Restore, PassFile, AtFile,
     FinishRestored, StartRestore, RemoveTarget, PutOriginal, MarkRestored, RestoreRaises,
     FinishRollback, Undoing, Restoring
<1>4. ASSUME Body(p) \/ Commit(p) \/ RollBack(p) \/ Undo(p) PROVE FALSE
  BY <1>4 DEF Body, Backup, StartWrite, Watch, NestedWrite, TrackCreated, WriteTarget,
     Sign, Capture, StartCommand, RunCommand, RecordCommand, RefreshConfig, OnRollback, Fail,
     Forward, Commit, RollBack, Undo, PassUndo, AtUndo, StartUndo, RunUndo, RecordUndo,
     UndoRaises, UndosDone
<1>5. ASSUME Restore(p), ~FinishRollback(p) PROVE FALSE
  BY <1>1, <1>5 DEF Restore, PassFile, AtFile, FinishRestored, StartRestore, RemoveTarget,
     PutOriginal, MarkRestored, RestoreRaises, Goto
<1>6. ASSUME NEW t \in Target, UserEdit(t) PROVE FALSE
  BY <1>6 DEF UserEdit, procVars
<1>7. ASSUME UNCHANGED vars PROVE FALSE
  BY <1>7 DEF vars, procVars
<1> QED
  BY <1>2, <1>3, <1>4, <1>5, <1>6, <1>7 DEF Next, Ending, LateError

\* A rollback that reports success has put back, in every target it answers
\* for, what was there before the transaction, unless the user changed it
\* (_rollback, transaction.py); interrupted attempts before it included.
THEOREM OriginalsRestored == ~LateErrors /\ Spec => RestoresOriginals
<1>1. ASSUME ~LateErrors, RInv, [Next]_vars, NEW p \in Proc, NEW i \in Tx,
             pc[p] = "files", pc'[p] = "idle", tx[p] = i, journals'[i].status \in Reverted,
             NEW t \in Tracked(journals[i])
      PROVE  fs[t] = pre[i][t] \/ edit[t] # "none" \/ Preserved(p, t)
  <2>1. /\ mem[p] \in Journal /\ journals[i] = mem[p] /\ mem[p].status = "rolling_back"
        /\ EntryTrue(mem[p], t, pre[i][t], fs[t], edit[t])
        /\ WalkTrue("files", mem[p], reg[p], pre[i], fs, edit)
    BY <1>1, Working DEF Forwards, Forward
  <2>2. FinishRollback(p)
    <3>1. CASE Crash(p)
      BY <1>1, <2>1, <3>1 DEF Crash, Reverted
    <3> QED
      BY <1>1, <3>1, LeavesFiles
  <2>3. reg[p].idx = 0 /\ ~reg[p].err
    <3>1. journals'[i].status = FinalStatus(p)
      BY <1>1, <2>1, <2>2, RestShapes DEF FinishRollback, Journal
    <3> QED
      BY <1>1, <2>2, <3>1 DEF FinishRollback, FinalStatus, Reverted
  <2>4. Settled(mem[p], reg[p], t)
    <3>1. PICK n \in DOMAIN mem[p].order : t = mem[p].order[n]
      BY <2>1 DEF Tracked
    <3>2. n > reg[p].idx
      BY <2>1, <2>3, TrackedTargets
    <3> QED
      BY <2>1, <2>3, <3>1, <3>2 DEF WalkTrue, Restoring
  <2>5. ~Pending(mem[p])
    <3>1. WellUndone("files", mem[p], reg[p], cmd[i])
      BY <1>1 DEF RInv, UInv, UndosAccounted
    <3>2. \A k \in DOMAIN mem[p].ext : NoUndoLeft(mem[p].ext[k])
      BY <2>3, <3>1 DEF WellUndone, Backwards, Restoring
    <3> QED
      BY <3>2 DEF Pending, NoUndoLeft
  <2> QED
    BY <2>1, <2>4, <2>5 DEF EntryTrue, Settled, Spared, Preserved, Halfway
<1>2. CASE ~LateErrors
  <2>1. RInv /\ [Next]_vars =>
          \A p \in Proc, i \in Tx :
            /\ pc[p] = "files" /\ pc'[p] = "idle" /\ tx[p] = i
            /\ journals'[i].status \in Reverted
            => \A t \in Tracked(journals[i]) :
                 fs[t] = pre[i][t] \/ edit[t] # "none" \/ Preserved(p, t)
    BY <1>1, <1>2
  <2> QED
    BY <1>2, <2>1, RestInductive, PTL DEF Spec, RestoresOriginals
<1> QED
  BY <1>2

\* Restoring never overwrites an edit that was made while no process was
\* between looking at the target and acting on it, as long as the signature
\* and the backup tell it apart (_restore_path, transaction.py).
THEOREM QuietEditsKept == ~LateErrors /\ Spec => KeepsQuietEdits
<1>1. ASSUME RInv, NEW p \in Proc, NEW t \in Target, RestoreStep(p, t)
      PROVE  edit[t] # "quiet"
  <2>1. /\ pc[p] \in {"gap", "sign", "removing", "putting", "marking"} /\ pc[p] # "idle"
        /\ reg[p].cur = t
    BY <1>1 DEF RestoreStep
  <2> QED
    BY <2>1, <1>1, Working DEF WalkTrue, Uncertain
<1>2. RInv => \A p \in Proc, t \in Target : RestoreStep(p, t) => edit[t] # "quiet"
  BY <1>1
<1>3. CASE ~LateErrors
  BY <1>2, <1>3, RestInductive, PTL DEF KeepsQuietEdits
<1> QED
  BY <1>3

============================================================================
