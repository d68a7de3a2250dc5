------------------------- MODULE ProjectFilesSafety -------------------------
(* What creation, recovery, migration and export promise about the folder. *)
EXTENDS ProjectFiles

\* Every variable has the form the code gives it.
TypeOK ==
  /\ files \in [Path -> Content]
  /\ journals \in Seq(Journal)
  /\ moves \in Seq(Move)
  /\ proc \in [Proc -> Request]
  /\ used \in [ops : Nat, upsets : Nat]
  /\ {theirs, touched, gap} \subseteq SUBSET Path

\* What the user wrote stays where it is, or in the holding folder of a migration or the
\* backup of a creation that caught it by mistake; no failure, crash, rollback or
\* recovery erases or replaces it, unless it was written in one of the gaps
\* (docs/PROJECTS.md:38 and 44, projects.py:63-88, skill_migration.py:68, packs.py:152).
UserKept ==
  \A x \in theirs \ gap :
    \/ files[x] = "user"
    \/ \E i \in DOMAIN journals : \E k \in DOMAIN journals[i].rows :
         journals[i].rows[k].path = x /\ journals[i].rows[k].kind = "user"
    \/ x \in Pack /\ \E m \in DOMAIN moves : moves[m].held[x] = "user"

\* Nobody sees half a project: where its manifest is, everything it lists is as it was
\* published, but for what others changed since; a rollback takes the manifest away first
\* (projects.py:213-231, transaction.py:460).
CompleteManifest ==
  files[Manifest] = "made" =>
    \A x \in TargetSet \ touched : files[x] = Made(x)

\* A creation that reports "rolled back", by itself or by recovery after crashes, leaves
\* nothing it published (projects.py:233-243, docs/PROJECTS.md:38).
AllOrNothing ==
  [][\A i \in DOMAIN journals :
       journals[i].status # "rolled_back" /\ journals'[i].status = "rolled_back" =>
         \A k \in DOMAIN journals[i].rows :
           journals[i].rows[k].path \in touched \/ files'[journals[i].rows[k].path] = "none"]_vars

\* What the record, the folder and the lock say together, from which the two properties
\* above follow.  A target is clear when this creation has nothing there, shown when it
\* published it, both but for what others changed since.
Hidden(x) == x = Manifest => files[x] # "made"
Clear(x) == (files[x] = "none" \/ x \in touched) /\ Hidden(x)
Shown(x) == files[x] = Made(x) \/ x \in touched

\* The newest record that is not rolled back and has published or tried to.
Top(i) ==
  /\ journals[i].status # "rolled_back"
  /\ \A l \in DOMAIN journals : l > i => journals[l].status = "rolled_back" \/ journals[l].rows = <<>>

\* The rows of a record follow the targets, and only what others put there was backed up.
RowsFit(i) ==
  \A k \in DOMAIN journals[i].rows :
    LET row == journals[i].rows[k]
    IN /\ k \in DOMAIN Targets /\ row.path = Targets[k]
       /\ row.applied \in {"unset", Made(row.path)}
       /\ row.path = Manifest => row.kind # "made"
       /\ journals[i].status \in Unfinished => row.kind = "none" \/ row.path \in touched

\* What it has not published, or has taken back, is not there.
UndoneClear(i) ==
  LET rows == journals[i].rows
  IN Top(i) /\ rows # <<>> =>
       \A l \in DOMAIN Targets : l > Len(rows) \/ rows[l].restored => Clear(Targets[l])

\* What is on display while p creates or rolls back.
Progress(p) ==
  LET i == proc[p].i  k == proc[p].k  stage == proc[p].stage
  IN /\ stage \in Creating =>
          /\ i = Len(journals)
          /\ \A l \in DOMAIN journals \ {i} : journals[l].status \notin Unfinished
     /\ stage \in {"publish", "backup", "bind", "rename"} =>
          \A l \in DOMAIN Targets : IF l < k THEN Shown(Targets[l]) ELSE Clear(Targets[l])
     /\ stage \in {"bind", "rename"} => ~Rows(p)[k].restored
     /\ stage = "commit" => Len(Rows(p)) >= Len(Targets)
     /\ stage = "undo" =>
          /\ Top(i)
          /\ Rows(p) # <<>> => \A l \in DOMAIN Targets : l > k =>
               Hidden(Targets[l]) /\ (~proc[p].bad => Clear(Targets[l]))
     /\ stage = "redo" => Recoverable(journals[i])

\* A recovery about to undo a record does not meet the creation that is writing it.
Apart ==
  \A p, q \in Proc :
    proc[p].stage \in Creating /\ proc[q].stage = "redo" => proc[p].i # proc[q].i

WholeInv ==
  /\ CompleteManifest
  /\ \A i \in DOMAIN journals : RowsFit(i) /\ UndoneClear(i)
  /\ \A p \in Proc : Progress(p)
  /\ Apart

\* A skill that a migration has copied is whole in its holding folder or in its archive,
\* wherever the migration was stopped, and its archive never holds anything but the
\* skill (skill_migration.py:110-113, 178-190).
NeverLost ==
  \A m \in DOMAIN moves : \A n \in Pack :
    /\ moves[m].state[n] \in {"copied", "archived"} =>
         "pack" \in {moves[m].held[n], moves[m].copy[n]}
    /\ moves[m].copy[n] \in {"none", "partial", "pack"}

\* The status of a migration means what it says: committed, every planned skill is in the
\* archive and the holding folder is gone; rolled back, every skill that was claimed is
\* visible again and nothing is held (skill_migration.py:191-205).
MigrationMeans ==
  [][\A m \in DOMAIN moves :
       LET s == moves'[m].status  claimed == InState(moves'[m], RowState \ {"none", "pending"})
       IN moves[m].status # s =>
            /\ s = "committed" => /\ moves'[m].held = NoTrees
                                  /\ \A n \in Planned(moves[m]) : moves'[m].copy[n] = "pack"
            /\ s = "rolled_back" => /\ moves'[m].held = NoTrees
                                    /\ InState(moves'[m], {"restored"}) = claimed]_vars

\* "Recovery is only for a transaction in the middle of a creation; it does not undo a
\* finished child" (docs/PROJECTS.md:44).
OnlyUnfinished ==
  [][\A i \in DOMAIN journals :
       journals[i].status = "committed" => journals'[i].status = "committed"]_vars

============================================================================
