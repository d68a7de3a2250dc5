---------------------------- MODULE ProjectFiles ----------------------------
(***************************************************************************)
(* One working folder and the commands that publish skills into it or take *)
(* them out: project creation and its recovery (src/installer/projects.py),*)
(* the migration of unused skill copies into an archive                    *)
(* (skill_migration.py) and the export of skills (packs.py).  Creation and *)
(* recovery hold the lock of the project's transactions, migration and     *)
(* export hold none, and the user edits the folder all the while.          *)
(*                                                                         *)
(* A tree is what the checks can tell apart: absent, an empty folder, an   *)
(* exact copy of the pack, a file this creation made, something of the     *)
(* user's, or a tree half copied or half removed.  A check and the act     *)
(* that relies on it are two steps wherever the code leaves a gap.         *)
(* Operators named Slip... are plausible mistakes in the one that follows. *)
(***************************************************************************)
EXTENDS Naturals, Sequences

CONSTANTS
  Proc,      \* commands that may run at the same time
  Pack,      \* the skills of the pack
  Manifest,  \* the manifest of the project, project.json
  Targets,   \* what a creation publishes, in order, the manifest last
  Overlap,   \* may recovery start while a creation runs?
  MaxOps,    \* bound: commands besides recovery
  MaxUpsets  \* bound: user edits, failures and crashes together

Path == Pack \union {Manifest}
TargetSet == {Targets[k] : k \in DOMAIN Targets}
ASSUME ProjectAssumption ==
  /\ Manifest \notin Pack
  /\ Targets \in Seq(Path) /\ Targets # <<>> /\ Targets[Len(Targets)] = Manifest
  /\ \A i, j \in DOMAIN Targets : Targets[i] = Targets[j] => i = j
  /\ Overlap \in BOOLEAN
  /\ MaxOps \in Nat /\ MaxUpsets \in Nat

VARIABLES
  files,     \* the working folder
  journals,  \* the creations' transactions, in id order
  moves,     \* the migrations: journal, holding folder and archive of each
  proc,      \* the commands being run
  used       \* bounds already consumed

\* History the properties refer to.  The code has no such state.
VARIABLES
  theirs,    \* entries the user wrote last
  touched,   \* entries others had when the newest creation published, or changed since
  gap        \* entries written in a gap the code leaves open: see Touch

ghosts == <<theirs, touched, gap>>
vars == <<files, journals, moves, proc, used, ghosts>>

----------------------------------------------------------------------------
(* Types *)

Content == {"none", "empty", "pack", "user", "made", "partial"}
Row == [path : Path, kind : Content, applied : Content \union {"unset"},
        restored : BOOLEAN]
Journal == [status : {"active", "incomplete", "committed", "rolled_back"}, rows : Seq(Row)]
Unfinished == {"active", "incomplete"}
RowState == {"none", "pending", "claiming", "held", "copied", "archived", "restored"}
Move == [status : {"preparing", "copied", "committed", "rolled_back", "incomplete"},
         state : [Pack -> RowState], held : [Pack -> Content], copy : [Pack -> Content]]
NoTrees == [n \in Pack |-> "none"]

Creating == {"check", "publish", "backup", "bind", "rename", "commit"}
Moving == {"claim", "move", "copy", "verify", "archive", "clear", "finish"}
Stage == {"idle", "asked", "undo", "pending", "redo", "back", "reserve", "fill"} \union Creating \union Moving
Request == [stage : Stage, i : Nat, k : Nat, bad : BOOLEAN, names : SUBSET Pack,
            created : SUBSET Pack, cur : Path]
Idle == [stage |-> "idle", i |-> 0, k |-> 0, bad |-> FALSE, names |-> {}, created |-> {}, cur |-> Manifest]

Init ==
  /\ \E start \in [Pack -> {"none", "pack", "user"}] :
       /\ files = [x \in Path |-> IF x = Manifest THEN "none" ELSE start[x]]
       /\ theirs = {n \in Pack : start[n] = "user"}
  /\ journals = <<>> /\ moves = <<>>
  /\ proc = [p \in Proc |-> Idle]
  /\ used = [ops |-> 0, upsets |-> 0]
  /\ touched = {} /\ gap = {}

----------------------------------------------------------------------------
(* Shared steps *)

Made(x) == IF x \in Pack THEN "pack" ELSE "made"
Locked(p) == proc[p].stage \in Creating \union {"undo"}
Free == \A p \in Proc : ~Locked(p)
NoneUnfinished == \A i \in DOMAIN journals : journals[i].status \notin Unfinished

MayUpset == used.upsets < MaxUpsets
Upset == used' = [used EXCEPT !.upsets = @ + 1]
Go(p, stage) == proc' = [proc EXCEPT ![p].stage = stage]
Leave(p) == proc' = [proc EXCEPT ![p] = Idle]
Ask(p, r) ==
  /\ proc[p].stage = "idle" /\ used.ops < MaxOps
  /\ proc' = [proc EXCEPT ![p] = r]
  /\ used' = [used EXCEPT !.ops = @ + 1]

\* The gaps: a target is in the journal but not bound to its signature yet, or stays
\* so after a crash; a folder is reserved by an export that has not ended.
Unbound == {x \in Path : \E i \in DOMAIN journals : \E k \in DOMAIN journals[i].rows :
              /\ journals[i].status \in Unfinished
              /\ journals[i].rows[k].path = x /\ journals[i].rows[k].applied = "unset"}
Touch(X, others) ==
  /\ touched' = touched \union X
  /\ gap' = gap \union (X \cap (Unbound \union UNION {proc[p].created : p \in others}))

\* proc[p].i is the journal, or the migration, that p works on.
Rows(p) == journals[proc[p].i].rows
SetRow(p, k, row) == journals' = [journals EXCEPT ![proc[p].i].rows[k] = row]
SetStatus(p, s) == journals' = [journals EXCEPT ![proc[p].i].status = s]
AbortCreate(p) == proc' = [proc EXCEPT ![p].stage = "undo", ![p].k = Len(Rows(p))]

----------------------------------------------------------------------------
(* create_project *)

AskCreate(p) ==
  /\ \A i \in DOMAIN Targets : files[Targets[i]] = "none"
  /\ Ask(p, [Idle EXCEPT !.stage = "asked"])
  /\ UNCHANGED <<files, journals, moves, ghosts>>

\* Transaction(): the lock, then no unfinished transaction.
Begin(p) ==
  /\ proc[p].stage = "asked"
  /\ IF Free /\ NoneUnfinished
     THEN /\ journals' = Append(journals, [status |-> "active", rows |-> <<>>])
          /\ proc' = [proc EXCEPT ![p].stage = "check", ![p].i = Len(journals) + 1]
     ELSE Leave(p) /\ UNCHANGED journals
  /\ UNCHANGED <<files, moves, used, ghosts>>

\* "Check again under lock", then everything is staged beside the journal.
SlipVacant(X) == TRUE
Vacant(X) == \A x \in X : files[x] = "none"
CheckAgain(p) ==
  /\ proc[p].stage = "check"
  /\ IF Vacant(TargetSet)
     THEN /\ proc' = [proc EXCEPT ![p].stage = "publish", ![p].k = 1]
          /\ touched' = {x \in Path : files[x] # "none"}
     ELSE AbortCreate(p) /\ UNCHANGED touched
  /\ UNCHANGED <<files, journals, moves, used, theirs, gap>>

\* _publish_tree in four steps: look, back up what is there, bind, rename.
Publish(p) ==
  LET k == proc[p].k
  IN /\ proc[p].stage = "publish"
     /\ IF k > Len(Targets) THEN Go(p, "commit")
        ELSE IF Vacant({Targets[k]}) THEN Go(p, "backup") ELSE AbortCreate(p)
     /\ UNCHANGED <<files, journals, moves, used, ghosts>>

Backup(p) ==
  LET x == Targets[proc[p].k]
      row == [path |-> x, kind |-> files[x], applied |-> "unset", restored |-> FALSE]
  IN /\ proc[p].stage = "backup"
     /\ journals' = [journals EXCEPT ![proc[p].i].rows = Append(@, row)]
     /\ Go(p, "bind")
     /\ UNCHANGED <<files, moves, used, ghosts>>

\* The signature of what will be published, saved before the rename.
SlipBound(x) == x
Bound(x) == Made(x)
Bind(p) ==
  LET k == proc[p].k
  IN /\ proc[p].stage = "bind"
     /\ SetRow(p, k, [Rows(p)[k] EXCEPT !.applied = Bound(Targets[k])])
     /\ Go(p, "rename")
     /\ UNCHANGED <<files, moves, used, ghosts>>

\* A tree may replace an empty folder; a file is linked, never over anything.
Replaceable(x) == files[x] = "none" \/ (x \in Pack /\ files[x] = "empty")
Rename(p) ==
  LET k == proc[p].k  x == Targets[k]
  IN /\ proc[p].stage = "rename"
     /\ \/ /\ Replaceable(x)
           /\ files' = [files EXCEPT ![x] = Made(x)]
           /\ proc' = [proc EXCEPT ![p].stage = "publish", ![p].k = k + 1]
           /\ UNCHANGED <<journals, used>>
        \/ /\ ~Replaceable(x)
           /\ AbortCreate(p) /\ UNCHANGED <<files, journals, used>>
        \/ /\ files[x] = "none" /\ MayUpset /\ Upset
           /\ SetRow(p, k, [Rows(p)[k] EXCEPT !.restored = TRUE])
           /\ AbortCreate(p) /\ UNCHANGED files
     /\ UNCHANGED <<moves, ghosts>>

Commit(p) ==
  /\ proc[p].stage = "commit"
  /\ SetStatus(p, "committed")
  /\ Leave(p)
  /\ UNCHANGED <<files, moves, used, ghosts>>

----------------------------------------------------------------------------
(* Rollback of a creation, by itself or by recovery *)

\* _restore of one row, the last one first.  A bound target must still hold what was
\* published.  (That a restoration died after its end needs no case: recovery marks
\* absent targets first, and refuses rows with a backup.)
SlipMine(row) == TRUE
Mine(row) == row.applied = "unset" \/ files[row.path] = row.applied
UndoRow(p) ==
  LET k == proc[p].k  row == Rows(p)[k]
      next(bad) == proc' = [proc EXCEPT ![p].k = k - 1, ![p].bad = @ \/ bad]
  IN /\ proc[p].stage = "undo" /\ k > 0
     /\ \/ /\ row.restored
           /\ next(FALSE) /\ UNCHANGED <<files, journals, used>>
        \/ /\ ~row.restored /\ ~Mine(row)
           /\ next(TRUE) /\ UNCHANGED <<files, journals, used>>
        \/ /\ ~row.restored /\ Mine(row)
           /\ files' = [files EXCEPT ![row.path] = row.kind]
           /\ SetRow(p, k, [row EXCEPT !.restored = TRUE])
           /\ next(FALSE) /\ UNCHANGED used
        \/ /\ ~row.restored /\ Mine(row)                \* dies once it is removed
           /\ MayUpset /\ Upset
           /\ files' = [files EXCEPT ![row.path] = "none"]
           /\ Leave(p) /\ UNCHANGED journals
     /\ UNCHANGED <<moves, ghosts>>

EndUndo(p) ==
  /\ proc[p].stage = "undo" /\ proc[p].k = 0
  /\ SetStatus(p, IF proc[p].bad THEN "incomplete" ELSE "rolled_back")
  /\ Leave(p)
  /\ UNCHANGED <<files, moves, used, ghosts>>

\* recover_project: which transaction is pending is read before the lock is taken.
AskRecover(p) ==
  /\ proc[p].stage = "idle" /\ (Overlap \/ Free)
  /\ \E i \in DOMAIN journals :
       /\ journals[i].status \in Unfinished
       /\ \A l \in DOMAIN journals : l > i => journals[l].status \notin Unfinished
       /\ proc' = [proc EXCEPT ![p].stage = "pending", ![p].i = i]
  /\ UNCHANGED <<files, journals, moves, used, ghosts>>

\* Under the lock: refuse a record of anything but absent targets, and mark the ones
\* that are absent still.  Its status is not looked at.
SlipGone(row) == TRUE
Gone(row) == files[row.path] = "none"
Recoverable(j) == \A k \in DOMAIN j.rows : j.rows[k].kind = "none"
MarkAbsent(p) ==
  LET i == proc[p].i
      marked(row) == [row EXCEPT !.restored = @ \/ Gone(row)]
  IN /\ proc[p].stage = "pending"
     /\ IF Free /\ Recoverable(journals[i])
        THEN /\ journals' = [journals EXCEPT ![i].rows =
                               [k \in DOMAIN @ |-> marked(@[k])]]
             /\ Go(p, "redo")
        ELSE Leave(p) /\ UNCHANGED journals
     /\ UNCHANGED <<files, moves, used, ghosts>>

\* rollback_saved takes the lock anew: the newest transaction not rolled back.
Redo(p) ==
  LET i == proc[p].i
      newest == \A l \in DOMAIN journals : l > i => journals[l].status = "rolled_back"
  IN /\ proc[p].stage = "redo"
     /\ IF Free /\ journals[i].status # "rolled_back" /\ newest
        THEN /\ SetStatus(p, "active")
             /\ proc' = [proc EXCEPT ![p].stage = "undo", ![p].k = Len(journals[i].rows)]
        ELSE Leave(p) /\ UNCHANGED journals
     /\ UNCHANGED <<files, moves, used, ghosts>>

----------------------------------------------------------------------------
(* migrate_skills *)

Mig(p) == moves[proc[p].i]
SetMig(p, m) == moves' = [moves EXCEPT ![proc[p].i] = m]
InState(m, s) == {n \in Pack : m.state[n] \in s}
Planned(m) == InState(m, RowState \ {"none"})
AbortMove(p) ==
  proc' = [proc EXCEPT ![p].stage = "back", ![p].names = Planned(Mig(p)), ![p].bad = FALSE]

\* The plan: exact copies that are not kept; the record is written before anything moves.
AskMigrate(p) ==
  \E keep \in SUBSET Pack :
    LET rows == {n \in Pack \ keep : files[n] = "pack"}
    IN /\ rows # {}
       /\ Ask(p, [Idle EXCEPT !.stage = "claim", !.i = Len(moves) + 1])
       /\ moves' = Append(moves, [status |-> "preparing", held |-> NoTrees, copy |-> NoTrees,
                     state |-> [n \in Pack |-> IF n \in rows THEN "pending" ELSE "none"]])
       /\ UNCHANGED <<files, journals, ghosts>>

\* Look at the next original once more; the record says claiming before it moves.
Unchanged(n) == files[n] = "pack"
Claim(p) ==
  LET m == Mig(p)  next == InState(m, {"pending"})
  IN /\ proc[p].stage = "claim"
     /\ \/ /\ next = {} /\ Go(p, "verify") /\ UNCHANGED moves
        \/ \E n \in next :
             IF Unchanged(n)
             THEN /\ SetMig(p, [m EXCEPT !.state[n] = "claiming"])
                  /\ proc' = [proc EXCEPT ![p].stage = "move", ![p].cur = n]
             ELSE AbortMove(p) /\ UNCHANGED moves
     /\ UNCHANGED <<files, journals, used, ghosts>>

MoveAway(p) ==
  LET m == Mig(p)  n == proc[p].cur
  IN /\ proc[p].stage = "move"
     /\ IF files[n] = "none"
        THEN /\ SetMig(p, [m EXCEPT !.state[n] = "pending"])
             /\ AbortMove(p) /\ UNCHANGED <<files, touched, gap>>
        ELSE /\ files' = [files EXCEPT ![n] = "none"]
             /\ SetMig(p, [m EXCEPT !.state[n] = "held", !.held[n] = files[n]])
             /\ Go(p, "copy") /\ Touch({n}, Proc \ {p})
     /\ UNCHANGED <<journals, used, theirs>>

\* What was moved may not be what was looked at.
SlipSound(t) == TRUE
Sound(t) == t = "pack"
Copy(p) ==
  LET m == Mig(p)  n == proc[p].cur
  IN /\ proc[p].stage = "copy"
     /\ \/ /\ ~Sound(m.held[n]) /\ AbortMove(p) /\ UNCHANGED <<moves, used>>
        \/ /\ Sound(m.held[n])
           /\ SetMig(p, [m EXCEPT !.state[n] = "copied", !.copy[n] = m.held[n]])
           /\ Go(p, "claim") /\ UNCHANGED used
        \/ /\ Sound(m.held[n]) /\ MayUpset /\ Upset
           /\ SetMig(p, [m EXCEPT !.copy[n] = "partial"])
           /\ AbortMove(p)
     /\ UNCHANGED <<files, journals, ghosts>>

VerifyHeld(p) ==
  LET m == Mig(p)
  IN /\ proc[p].stage = "verify"
     /\ SetMig(p, [m EXCEPT !.status = "copied"])
     /\ Go(p, "archive")
     /\ UNCHANGED <<files, journals, used, ghosts>>

\* Each row is marked before its original is removed, which may stop halfway.
Archive(p) ==
  LET m == Mig(p)  next == InState(m, {"copied"})
  IN /\ proc[p].stage = "archive"
     /\ \/ next = {} /\ Go(p, "finish") /\ UNCHANGED moves
        \/ \E n \in next :
             /\ SetMig(p, [m EXCEPT !.state[n] = "archived"])
             /\ proc' = [proc EXCEPT ![p].stage = "clear", ![p].cur = n]
     /\ UNCHANGED <<files, journals, used, ghosts>>

ClearHeld(p) ==
  LET m == Mig(p)  n == proc[p].cur
  IN /\ proc[p].stage = "clear"
     /\ \/ /\ SetMig(p, [m EXCEPT !.held[n] = "none"])
           /\ Go(p, "archive") /\ UNCHANGED used
        \/ /\ SetMig(p, [m EXCEPT !.held[n] = "partial"])
           /\ MayUpset /\ Upset
           /\ Leave(p) \/ proc' = [proc EXCEPT ![p].stage = "back", ![p].names = Planned(m)]
     /\ UNCHANGED <<files, journals, ghosts>>

FinishMove(p) ==
  /\ proc[p].stage = "finish"
  /\ SetMig(p, [Mig(p) EXCEPT !.status = "committed"])
  /\ Leave(p)
  /\ UNCHANGED <<files, journals, used, ghosts>>

\* _rollback of one row: never over something visible; the archived copy counts only
\* when the original in the holding folder is no longer whole.
From(m, n) ==
  IF m.state[n] = "archived" /\ m.held[n] # "pack" THEN m.copy[n] ELSE m.held[n]
PutBackRow(p) ==
  LET m == Mig(p)
      done(n, bad) == proc' = [proc EXCEPT ![p].names = @ \ {n}, ![p].bad = @ \/ bad]
  IN /\ proc[p].stage = "back"
     /\ \E n \in proc[p].names :
          \/ /\ m.state[n] = "pending"
             /\ done(n, FALSE) /\ UNCHANGED <<files, moves, used, touched, gap>>
          \/ /\ m.state[n] # "pending"
             /\ files[n] # "none" \/ From(m, n) = "none"
             /\ done(n, TRUE) /\ UNCHANGED <<files, moves, used, touched, gap>>
          \/ /\ m.state[n] # "pending" /\ files[n] = "none" /\ From(m, n) # "none"
             /\ files' = [files EXCEPT ![n] = From(m, n)]
             /\ SetMig(p, [m EXCEPT !.state[n] = "restored",
                             !.held[n] = IF @ = From(m, n) THEN "none" ELSE @])
             /\ done(n, FALSE) /\ Touch({n}, Proc \ {p}) /\ UNCHANGED used
          \/ /\ m.state[n] = "archived" /\ files[n] = "none" /\ m.held[n] # "pack"
             /\ MayUpset /\ Upset                        \* copytree stops halfway
             /\ files' = [files EXCEPT ![n] = "partial"]
             /\ done(n, TRUE) /\ Touch({n}, Proc \ {p}) /\ UNCHANGED moves
     /\ UNCHANGED <<journals, theirs>>

SlipFailed(r, m) == m.held # NoTrees
Failed(r, m) == r.bad \/ m.held # NoTrees
EndMove(p) ==
  LET m == Mig(p)
  IN /\ proc[p].stage = "back" /\ proc[p].names = {}
     /\ SetMig(p, [m EXCEPT !.status =
                     IF Failed(proc[p], m) THEN "incomplete" ELSE "rolled_back"])
     /\ Leave(p)
     /\ UNCHANGED <<files, journals, used, ghosts>>

----------------------------------------------------------------------------
(* export: _publish reserves each folder, fills it, and removes its own on failure *)

AskExport(p) ==
  \E S \in SUBSET Pack \ {{}} :
    /\ Vacant(S)
    /\ Ask(p, [Idle EXCEPT !.stage = "reserve", !.names = S])
    /\ UNCHANGED <<files, journals, moves, ghosts>>

Own(r) == r.created
Discard(p) ==
  /\ files' = [x \in Path |-> IF x \in Own(proc[p]) THEN "none" ELSE files[x]]
  /\ Touch(Own(proc[p]), Proc \ {p}) /\ Leave(p)

Reserve(p) ==
  LET r == proc[p]
  IN /\ r.stage = "reserve"
     /\ \/ r.names = {} /\ Leave(p) /\ UNCHANGED <<files, touched, gap>>
        \/ \E n \in r.names :
             IF files[n] = "none"
             THEN /\ files' = [files EXCEPT ![n] = "empty"] /\ Touch({n}, Proc \ {p})
                  /\ proc' = [proc EXCEPT ![p].stage = "fill", ![p].cur = n,
                                ![p].names = @ \ {n}, ![p].created = @ \union {n}]
             ELSE Discard(p)
     /\ UNCHANGED <<journals, moves, used, theirs>>

\* Items move over what is there by now; a folder in the way stops the export.
Fill(p) ==
  LET n == proc[p].cur
  IN /\ proc[p].stage = "fill"
     /\ \/ /\ files[n] # "none"
           /\ files' = [files EXCEPT ![n] = "pack"] /\ Touch({n}, Proc \ {p}) /\ Go(p, "reserve")
           /\ UNCHANGED used
        \/ files[n] # "empty" /\ Discard(p) /\ UNCHANGED used
        \/ /\ files[n] = "empty" /\ MayUpset /\ Upset          \* killed halfway
           /\ files' = [files EXCEPT ![n] = "partial"] /\ Touch({n}, Proc \ {p}) /\ Leave(p)
     /\ UNCHANGED <<journals, moves, theirs>>

----------------------------------------------------------------------------
(* Failures, crashes and the user *)

\* Any stage may raise: each command takes its own way back.
Fail(p) ==
  /\ MayUpset /\ Upset
  /\ \/ proc[p].stage \in Creating /\ AbortCreate(p) /\ UNCHANGED <<files, touched, gap>>
     \/ proc[p].stage \in Moving /\ AbortMove(p) /\ UNCHANGED <<files, touched, gap>>
     \/ proc[p].stage \in {"reserve", "fill"} /\ Discard(p)
     \/ proc[p].stage \in {"asked", "pending", "redo"} /\ Leave(p) /\ UNCHANGED <<files, touched, gap>>
  /\ UNCHANGED <<journals, moves, theirs>>

Crash(p) ==
  /\ proc[p].stage # "idle" /\ MayUpset /\ Upset
  /\ Leave(p)
  /\ UNCHANGED <<files, journals, moves, ghosts>>

Edit(x) ==
  /\ MayUpset /\ Upset
  /\ \E c \in {"none", "user"} \ {files[x]} :
       /\ files' = [files EXCEPT ![x] = c]
       /\ theirs' = IF c = "user" THEN theirs \union {x} ELSE theirs \ {x}
  /\ Touch({x}, Proc)
  /\ UNCHANGED <<journals, moves, proc>>

----------------------------------------------------------------------------
Create(p) ==
  \/ AskCreate(p) \/ Begin(p) \/ CheckAgain(p) \/ Publish(p) \/ Backup(p)
  \/ Bind(p) \/ Rename(p) \/ Commit(p) \/ UndoRow(p) \/ EndUndo(p)
Recover(p) == AskRecover(p) \/ MarkAbsent(p) \/ Redo(p)
Migrate(p) ==
  \/ AskMigrate(p) \/ Claim(p) \/ MoveAway(p) \/ Copy(p) \/ VerifyHeld(p)
  \/ Archive(p) \/ ClearHeld(p) \/ FinishMove(p) \/ PutBackRow(p) \/ EndMove(p)
Export(p) == AskExport(p) \/ Reserve(p) \/ Fill(p)

Next ==
  \/ \E p \in Proc : Create(p) \/ Recover(p) \/ Migrate(p) \/ Export(p) \/ Fail(p) \/ Crash(p)
  \/ \E x \in Path : Edit(x)

Spec == Init /\ [][Next]_vars

============================================================================
