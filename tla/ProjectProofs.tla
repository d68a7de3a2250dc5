---------------------------- MODULE ProjectProofs ----------------------------
(* Creation, recovery, migration and export in one folder, for any number of *)
(* commands, skills and published targets, and any number of failures.       *)
EXTENDS ProjectFilesSafety, TLAPS

At(p) == proc[p].stage
Mover(p) == At(p) \in Moving \union {"back"}

----------------------------------------------------------------------------
(* Types, and where each command stands in the record it works on. *)

Standing(p) ==
  LET r == proc[p]
  IN /\ Locked(p) \/ At(p) \in {"pending", "redo"} => r.i \in DOMAIN journals
     /\ Mover(p) => r.i \in DOMAIN moves
     /\ At(p) = "publish" => r.k >= 1
     /\ At(p) \in {"backup", "bind", "rename"} => r.k \in DOMAIN Targets
     /\ At(p) \in {"publish", "backup"} => r.k <= Len(Rows(p)) + 1
     /\ At(p) \in {"bind", "rename", "undo"} => r.k <= Len(Rows(p))
     /\ At(p) \in {"move", "copy", "clear", "fill"} => r.cur \in Pack
     /\ At(p) = "fill" => r.cur \in r.created
     /\ At(p) \notin {"reserve", "fill"} => r.created = {}

TypeInv == TypeOK /\ \A p \in Proc : Standing(p)

\* Nothing is ever taken out of a record, and the other commands stay where they are.
Grows ==
  /\ DOMAIN journals \subseteq DOMAIN journals' /\ DOMAIN moves \subseteq DOMAIN moves'
  /\ \A i \in DOMAIN journals : Len(journals[i].rows) <= Len(journals'[i].rows)
Alone(p) == \A q \in Proc \ {p} : proc'[q] = proc[q]

LEMMA Unmoved == journals' = journals /\ moves' = moves /\ TypeOK => Grows
  BY DEF Grows, TypeOK, Journal

LEMMA OthersStand ==
  ASSUME TypeInv, TypeOK', Grows, NEW p \in Proc, Alone(p), Standing(p)'
  PROVE  TypeInv'
<1> SUFFICES ASSUME NEW q \in Proc \ {p} PROVE Standing(q)'
  BY DEF TypeInv
<1>1. proc'[q] = proc[q] /\ proc[q] \in Request /\ Standing(q)
  BY DEF Alone, TypeInv, TypeOK
<1>2. Locked(q) => Len(Rows(q)) <= Len(Rows(q)')
  BY <1>1 DEF Grows, Standing, Rows, Locked
<1>3. Locked(q) => Len(Rows(q)) \in Nat /\ Len(Rows(q)') \in Nat /\ proc[q].k \in Nat
  <2>1. Locked(q) => journals[proc[q].i] \in Journal /\ journals'[proc[q].i] \in Journal
    BY <1>1 DEF Standing, Grows, TypeInv, TypeOK
  <2> QED
    BY <1>1, <2>1 DEF Rows, Journal, Request
<1>4. /\ At(q) \in {"publish", "backup"} => proc'[q].k <= Len(Rows(q)') + 1
      /\ At(q) \in {"bind", "rename", "undo"} => proc'[q].k <= Len(Rows(q)')
  BY <1>1, <1>2, <1>3 DEF Standing, Locked, At, Creating
<1> QED
  BY <1>1, <1>4 DEF Standing, Grows, Locked, Mover, At

LEMMA SeqSet ==
  ASSUME NEW S, NEW s \in Seq(S), NEW i \in DOMAIN s, NEW e \in S
  PROVE  /\ [s EXCEPT ![i] = e] \in Seq(S) /\ DOMAIN [s EXCEPT ![i] = e] = DOMAIN s
         /\ Len([s EXCEPT ![i] = e]) = Len(s) /\ [s EXCEPT ![i] = e][i] = e
         /\ \A l \in DOMAIN s \ {i} : [s EXCEPT ![i] = e][l] = s[l]
  OBVIOUS

LEMMA SeqMap ==
  ASSUME NEW S, NEW s \in Seq(S), NEW t \in [DOMAIN s -> S]
  PROVE  t \in Seq(S) /\ Len(t) = Len(s)
  OBVIOUS

LEMMA RowMarked ==
  ASSUME NEW row \in Row, NEW b \in BOOLEAN PROVE [row EXCEPT !.restored = b] \in Row
  BY DEF Row

LEMMA Update ==
  ASSUME TypeOK, NEW p \in Proc, NEW r \in Request, proc' = [proc EXCEPT ![p] = r]
  PROVE  proc' \in [Proc -> Request] /\ proc'[p] = r /\ Alone(p)
  BY DEF TypeOK, Alone

LEMMA StageKinds ==
  /\ {"idle", "asked", "undo", "pending", "redo", "back", "reserve", "fill"} \subseteq Stage
  /\ Creating \subseteq Stage /\ Moving \subseteq Stage
  BY DEF Stage

LEMMA IdleRequest == Idle \in Request
  BY DEF Idle, Request, Stage, Path

LEMMA GoTyped ==
  ASSUME TypeOK, NEW p \in Proc, NEW s \in Stage, Go(p, s)
  PROVE  proc' \in [Proc -> Request] /\ proc'[p] = [proc[p] EXCEPT !.stage = s] /\ Alone(p)
  BY DEF TypeOK, Go, Alone, Request

LEMMA LeaveTyped ==
  ASSUME TypeOK, NEW p \in Proc, Leave(p)
  PROVE  proc' \in [Proc -> Request] /\ proc'[p] = Idle /\ Alone(p) /\ Standing(p)'
<1>1. proc' \in [Proc -> Request] /\ proc'[p] = Idle /\ Alone(p)
  BY IdleRequest DEF TypeOK, Leave, Alone
<1> QED
  BY <1>1 DEF Standing, Idle, Locked, Mover, At, Creating, Moving

LEMMA JournalTyped ==
  ASSUME TypeOK, NEW i \in DOMAIN journals
  PROVE  /\ journals[i] \in Journal /\ journals[i].rows \in Seq(Row) /\ Len(journals[i].rows) \in Nat
         /\ \A k \in DOMAIN journals[i].rows : journals[i].rows[k] \in Row
<1>1. journals[i] \in Journal
  BY DEF TypeOK
<1>2. journals[i].rows \in Seq(Row)
  BY <1>1 DEF Journal
<1> QED
  BY <1>1, <1>2

LEMMA RowsTyped ==
  ASSUME TypeInv, NEW p \in Proc, Locked(p)
  PROVE  /\ proc[p].i \in DOMAIN journals /\ journals[proc[p].i] \in Journal
         /\ Rows(p) \in Seq(Row) /\ Len(Rows(p)) \in Nat
         /\ \A k \in DOMAIN Rows(p) : Rows(p)[k] \in Row
<1>1. proc[p].i \in DOMAIN journals
  BY DEF TypeInv, Standing
<1> QED
  BY <1>1, JournalTyped DEF TypeInv, Rows

LEMMA AbortCreateTyped ==
  ASSUME TypeInv, NEW p \in Proc, Locked(p), AbortCreate(p)
  PROVE  /\ proc' \in [Proc -> Request] /\ Alone(p)
         /\ proc'[p] = [proc[p] EXCEPT !.stage = "undo", !.k = Len(Rows(p))]
<1> DEFINE r == [proc[p] EXCEPT !.stage = "undo", !.k = Len(Rows(p))]
<1>1. proc[p] \in Request /\ Len(Rows(p)) \in Nat /\ "undo" \in Stage
  BY RowsTyped, StageKinds DEF TypeInv, TypeOK
<1>2. r \in Request
  BY <1>1 DEF Request
<1>3. proc' = [proc EXCEPT ![p] = r]
  BY DEF AbortCreate
<1> HIDE DEF r
<1>4. proc' \in [Proc -> Request] /\ Alone(p) /\ proc'[p] = r
  BY <1>2, <1>3 DEF TypeInv, TypeOK, Alone
<1> QED
  BY <1>4 DEF r

\* The undo of p begins, its rows as they are or with one of them changed.
LEMMA AbortStands ==
  ASSUME TypeInv, NEW p \in Proc, Locked(p), AbortCreate(p), proc[p].stage # "fill",
         proc[p].stage # "reserve",
         DOMAIN journals' = DOMAIN journals, Len(journals'[proc[p].i].rows) = Len(Rows(p))
  PROVE  Standing(p)'
<1>1. proc'[p] = [proc[p] EXCEPT !.stage = "undo", !.k = Len(Rows(p))] /\ proc[p] \in Request
  BY AbortCreateTyped DEF TypeInv, TypeOK
<1>2. Len(Rows(p)) \in Nat /\ proc[p].i \in DOMAIN journals /\ Standing(p)
  BY RowsTyped DEF TypeInv
<1>3. /\ proc'[p].stage = "undo" /\ proc'[p].i = proc[p].i /\ proc'[p].k = Len(Rows(p))
      /\ proc'[p].created = proc[p].created
  BY <1>1 DEF Request
<1>4. Rows(p)' = journals'[proc[p].i].rows
  BY <1>3 DEF Rows
<1> QED
  BY <1>2, <1>3, <1>4 DEF Standing, Locked, Mover, At, Creating, Moving

LEMMA AbortMoveTyped ==
  ASSUME TypeInv, NEW p \in Proc, Mover(p), AbortMove(p)
  PROVE  /\ proc' \in [Proc -> Request] /\ Alone(p) /\ (moves' = moves => Standing(p)')
         /\ proc'[p] = [proc[p] EXCEPT !.stage = "back", !.names = Planned(Mig(p)), !.bad = FALSE]
         /\ (DOMAIN moves' = DOMAIN moves => Standing(p)')
<1> DEFINE r == [proc[p] EXCEPT !.stage = "back", !.names = Planned(Mig(p)), !.bad = FALSE]
<1>1. proc[p] \in Request /\ Planned(Mig(p)) \subseteq Pack /\ "back" \in Stage
  BY StageKinds DEF TypeInv, TypeOK, Planned, InState
<1>2. r \in Request
  BY <1>1 DEF Request
<1>3. proc' = [proc EXCEPT ![p] = r]
  BY DEF AbortMove
<1>4. Standing(p)
  BY DEF TypeInv
<1>5. r.stage = "back" /\ r.i = proc[p].i /\ r.created = proc[p].created
  BY <1>1 DEF Request
<1> HIDE DEF r
<1>6. proc' \in [Proc -> Request] /\ Alone(p) /\ proc'[p] = r
  BY <1>2, <1>3 DEF TypeInv, TypeOK, Alone
<1>7. DOMAIN moves' = DOMAIN moves => Standing(p)'
  BY <1>4, <1>5, <1>6 DEF Standing, Mover, Locked, At, Creating, Moving
<1> QED
  BY <1>6, <1>7 DEF r

LEMMA TouchTyped ==
  ASSUME TypeOK, NEW X \in SUBSET Path, NEW others, Touch(X, others)
  PROVE  touched' \subseteq Path /\ gap' \subseteq Path
  BY DEF TypeOK, Touch

LEMMA UpsetTyped ==
  ASSUME TypeOK, Upset \/ used' = used PROVE used' \in [ops : Nat, upsets : Nat]
  BY DEF TypeOK, Upset

\* A command that writes nothing down only has to stand right itself.
LEMMA OnlyProc ==
  ASSUME TypeInv, NEW p \in Proc, proc' \in [Proc -> Request], Alone(p), Standing(p)',
         journals' = journals, moves' = moves, files' \in [Path -> Content],
         used' \in [ops : Nat, upsets : Nat],
         theirs' \subseteq Path, touched' \subseteq Path, gap' \subseteq Path
  PROVE  TypeInv'
<1>1. TypeOK'
  BY DEF TypeInv, TypeOK
<1> QED
  BY <1>1, OthersStand, Unmoved DEF TypeInv

LEMMA JournalKept ==
  ASSUME TypeInv, NEW p \in Proc, proc' \in [Proc -> Request], Alone(p), Standing(p)',
         journals' \in Seq(Journal), DOMAIN journals' = DOMAIN journals, moves' = moves,
         \A l \in DOMAIN journals : Len(journals[l].rows) <= Len(journals'[l].rows),
         files' \in [Path -> Content], used' \in [ops : Nat, upsets : Nat], UNCHANGED ghosts
  PROVE  TypeInv'
<1>1. TypeOK'
  BY DEF TypeInv, TypeOK, ghosts
<1> QED
  BY <1>1, OthersStand DEF TypeInv, Grows

LEMMA AskTyped ==
  ASSUME TypeOK, NEW p \in Proc, NEW r \in Request, Ask(p, r)
  PROVE  /\ proc' \in [Proc -> Request] /\ proc'[p] = r /\ Alone(p)
         /\ used' \in [ops : Nat, upsets : Nat]
  BY DEF TypeOK, Ask, Alone

----------------------------------------------------------------------------
LEMMA AskCreateTyped == ASSUME TypeInv, NEW p \in Proc, AskCreate(p) PROVE TypeInv'
<1> DEFINE r == [Idle EXCEPT !.stage = "asked"]
<1>1. r \in Request
  BY IdleRequest, StageKinds DEF Request
<1>2. r.stage = "asked" /\ r.created = {}
  BY DEF Idle
<1>3. Ask(p, r) /\ UNCHANGED <<files, journals, moves, ghosts>>
  BY DEF AskCreate
<1> HIDE DEF r
<1>4. Standing(p)'
  BY <1>1, <1>2, <1>3, AskTyped DEF TypeInv, Standing, Locked, Mover, At, Creating, Moving
<1> QED
  BY <1>1, <1>3, <1>4, AskTyped, OnlyProc DEF TypeInv, TypeOK, ghosts

LEMMA BeginTyped == ASSUME TypeInv, NEW p \in Proc, Begin(p) PROVE TypeInv'
<1> DEFINE j == [status |-> "active", rows |-> <<>>]
           r == [proc[p] EXCEPT !.stage = "check", !.i = Len(journals) + 1]
<1>1. CASE Leave(p) /\ UNCHANGED journals
  BY <1>1, LeaveTyped, OnlyProc DEF Begin, ghosts, TypeInv, TypeOK
<1>2. CASE journals' = Append(journals, j) /\ proc' = [proc EXCEPT ![p] = r]
  <2>1. /\ proc[p] \in Request /\ Len(journals) + 1 \in Nat
        /\ "check" \in Stage /\ proc[p].created = {}
    BY StageKinds DEF TypeInv, TypeOK, Creating, Begin, Standing, At
  <2>2. r \in Request /\ r.stage = "check" /\ r.i = Len(journals) + 1 /\ r.created = {}
    BY <2>1 DEF Request
  <2>3. j \in Journal
    <3>1. <<>> \in Seq(Row)
      OBVIOUS
    <3> QED
      BY <3>1 DEF Journal
  <2>4. /\ journals' \in Seq(Journal) /\ Len(journals') = Len(journals) + 1
        /\ \A i \in DOMAIN journals : i \in DOMAIN journals' /\ journals'[i] = journals[i]
        /\ Len(journals) + 1 \in DOMAIN journals'
    BY <1>2, <2>3 DEF TypeInv, TypeOK
  <2> HIDE DEF r, j
  <2>5. proc' \in [Proc -> Request] /\ Alone(p) /\ proc'[p] = r
    BY <1>2, <2>2 DEF TypeInv, TypeOK, Alone
  <2>6. TypeOK'
    BY <2>4, <2>5 DEF Begin, TypeInv, TypeOK, ghosts
  <2>7. Grows
    BY <2>4, JournalTyped DEF Grows, Begin, TypeInv
  <2>8. Standing(p)'
    BY <2>2, <2>4, <2>5 DEF Standing, Locked, Mover, At, Creating, Moving
  <2> QED
    BY <2>5, <2>6, <2>7, <2>8, OthersStand
<1> QED
  BY <1>1, <1>2 DEF Begin

LEMMA CheckTyped == ASSUME TypeInv, NEW p \in Proc, CheckAgain(p) PROVE TypeInv'
<1>1. At(p) = "check" /\ Locked(p) /\ Standing(p) /\ proc[p] \in Request
  BY DEF CheckAgain, At, Locked, Creating, TypeInv, TypeOK
<1>2. touched' \subseteq Path
  BY DEF CheckAgain, TypeInv, TypeOK
<1>3. CASE AbortCreate(p)
  <2>1. journals' = journals /\ moves' = moves /\ UNCHANGED <<files, used, theirs, gap>>
    BY DEF CheckAgain
  <2>2. Standing(p)'
    BY <1>1, <1>3, <2>1, AbortStands DEF Rows, At
  <2> QED
    BY <1>1, <1>2, <1>3, <2>1, <2>2, AbortCreateTyped, OnlyProc DEF TypeInv, TypeOK
<1>4. CASE proc' = [proc EXCEPT ![p].stage = "publish", ![p].k = 1]
  <2> DEFINE r == [proc[p] EXCEPT !.stage = "publish", !.k = 1]
  <2>1. r \in Request /\ r.stage = "publish" /\ r.i = proc[p].i /\ r.k = 1 /\ r.created = {}
    BY <1>1 DEF Request, Stage, Creating, Standing
  <2>2. proc' = [proc EXCEPT ![p] = r]
    BY <1>4
  <2> HIDE DEF r
  <2>3. proc' \in [Proc -> Request] /\ Alone(p) /\ proc'[p] = r
    BY <2>1, <2>2 DEF TypeInv, TypeOK, Alone
  <2>4. Standing(p)'
    <3>1. Rows(p)' = Rows(p) /\ Len(Rows(p)) \in Nat
      BY <1>1, <2>1, <2>3, RowsTyped DEF CheckAgain, Rows
    <3> QED
      BY <1>1, <2>1, <2>3, <3>1 DEF CheckAgain, Standing, Locked, Mover, At, Creating, Moving
  <2> QED
    BY <1>2, <2>3, <2>4, OnlyProc DEF CheckAgain, TypeInv, TypeOK
<1> QED
  BY <1>3, <1>4 DEF CheckAgain

\* Most steps of a creation only move on in the record they work on.
LEMMA GoOn ==
  ASSUME TypeInv, NEW p \in Proc, NEW s \in Creating, Locked(p), At(p) # "undo", Go(p, s),
         DOMAIN journals' = DOMAIN journals,
         s = "publish" => proc[p].k >= 1,
         s \in {"backup", "bind", "rename"} => proc[p].k \in DOMAIN Targets,
         s \in {"publish", "backup"} => proc[p].k <= Len(journals'[proc[p].i].rows) + 1,
         s \in {"bind", "rename"} => proc[p].k <= Len(journals'[proc[p].i].rows)
  PROVE  proc' \in [Proc -> Request] /\ Alone(p) /\ Standing(p)'
<1>1. proc' \in [Proc -> Request] /\ proc'[p] = [proc[p] EXCEPT !.stage = s] /\ Alone(p)
  BY GoTyped, StageKinds DEF TypeInv
<1>2. proc[p] \in Request /\ Standing(p)
  BY DEF TypeInv, TypeOK
<1>3. /\ proc'[p].stage = s /\ proc'[p].i = proc[p].i /\ proc'[p].k = proc[p].k
      /\ proc'[p].created = proc[p].created
  BY <1>1, <1>2 DEF Request
<1>4. Rows(p)' = journals'[proc[p].i].rows
  BY <1>3 DEF Rows
<1> QED
  BY <1>1, <1>2, <1>3, <1>4 DEF Standing, Locked, Mover, At, Creating, Moving

LEMMA PublishTyped == ASSUME TypeInv, NEW p \in Proc, Publish(p) PROVE TypeInv'
<1>1. At(p) = "publish" /\ Locked(p) /\ Standing(p) /\ proc[p] \in Request
  BY DEF Publish, At, Locked, Creating, TypeInv, TypeOK
<1>2. UNCHANGED <<files, journals, moves, used, ghosts>>
  BY DEF Publish
<1>3. CASE AbortCreate(p)
  <2>1. Standing(p)'
    BY <1>1, <1>2, <1>3, AbortStands DEF Rows, At
  <2> QED
    BY <1>1, <1>2, <1>3, <2>1, AbortCreateTyped, OnlyProc DEF TypeInv, TypeOK, ghosts
<1>4. CASE Go(p, "commit")
  <2>1. "commit" \in Creating
    BY DEF Creating
  <2>2. proc' \in [Proc -> Request] /\ Alone(p) /\ Standing(p)'
    BY <1>1, <1>2, <1>4, <2>1, GoOn DEF At
  <2> QED
    BY <1>2, <2>2, OnlyProc DEF TypeInv, TypeOK, ghosts
<1>5. CASE proc[p].k <= Len(Targets) /\ Go(p, "backup")
  <2>1. "backup" \in Creating
    BY DEF Creating
  <2>2. proc[p].k \in DOMAIN Targets /\ proc[p].k <= Len(journals'[proc[p].i].rows) + 1
    BY <1>1, <1>2, <1>5, ProjectAssumption DEF Standing, Request, At, Rows
  <2>3. proc' \in [Proc -> Request] /\ Alone(p) /\ Standing(p)'
    BY <1>1, <1>2, <1>5, <2>1, <2>2, GoOn DEF At
  <2> QED
    BY <1>2, <2>3, OnlyProc DEF TypeInv, TypeOK, ghosts
<1>6. proc[p].k \in Nat /\ Len(Targets) \in Nat
  BY <1>1, ProjectAssumption DEF Request
<1> QED
  BY <1>3, <1>4, <1>5, <1>6 DEF Publish

\* One row more, or one row changed, in the journal of p.
LEMMA RowAdded ==
  ASSUME TypeOK, NEW i \in DOMAIN journals, NEW row \in Row,
         journals' = [journals EXCEPT ![i].rows = Append(@, row)]
  PROVE  /\ journals' \in Seq(Journal) /\ DOMAIN journals' = DOMAIN journals
         /\ journals'[i].rows = Append(journals[i].rows, row) /\ journals'[i].status = journals[i].status
         /\ \A l \in DOMAIN journals \ {i} : journals'[l] = journals[l]
         /\ \A l \in DOMAIN journals : Len(journals[l].rows) <= Len(journals'[l].rows)
<1> DEFINE j == [journals[i] EXCEPT !.rows = Append(@, row)]
<1>1. journals[i] \in Journal /\ journals[i].rows \in Seq(Row) /\ Len(journals[i].rows) \in Nat
  BY JournalTyped
<1>2. Append(journals[i].rows, row) \in Seq(Row)
      /\ Len(Append(journals[i].rows, row)) = Len(journals[i].rows) + 1
  BY <1>1
<1>3. j \in Journal /\ j.rows = Append(journals[i].rows, row) /\ j.status = journals[i].status
  BY <1>1, <1>2 DEF Journal
<1>4. journals' = [journals EXCEPT ![i] = j]
  OBVIOUS
<1> HIDE DEF j
<1>5. /\ journals' \in Seq(Journal) /\ DOMAIN journals' = DOMAIN journals /\ journals'[i] = j
      /\ \A l \in DOMAIN journals \ {i} : journals'[l] = journals[l]
  <2>1. journals \in Seq(Journal) /\ j \in Journal
    BY <1>3 DEF TypeOK
  <2> DEFINE n == [journals EXCEPT ![i] = j]
  <2>2. /\ n \in Seq(Journal) /\ DOMAIN n = DOMAIN journals /\ n[i] = j
        /\ \A l \in DOMAIN journals \ {i} : n[l] = journals[l]
    BY <2>1, SeqSet
  <2> QED
    BY <1>4, <2>2
<1>6. ASSUME NEW l \in DOMAIN journals PROVE Len(journals[l].rows) <= Len(journals'[l].rows)
  BY <1>1, <1>2, <1>3, <1>5, JournalTyped
<1> QED
  BY <1>3, <1>5, <1>6

LEMMA RowSet ==
  ASSUME TypeOK, NEW i \in DOMAIN journals, NEW k \in DOMAIN journals[i].rows, NEW row \in Row,
         journals' = [journals EXCEPT ![i].rows[k] = row]
  PROVE  /\ journals' \in Seq(Journal) /\ DOMAIN journals' = DOMAIN journals
         /\ journals'[i].rows = [journals[i].rows EXCEPT ![k] = row] /\ journals'[i].status = journals[i].status
         /\ \A l \in DOMAIN journals \ {i} : journals'[l] = journals[l]
         /\ \A l \in DOMAIN journals : Len(journals'[l].rows) = Len(journals[l].rows)
<1> DEFINE j == [journals[i] EXCEPT !.rows = [@ EXCEPT ![k] = row]]
<1>1. journals[i] \in Journal /\ journals[i].rows \in Seq(Row) /\ Len(journals[i].rows) \in Nat
  BY JournalTyped
<1>2. [journals[i].rows EXCEPT ![k] = row] \in Seq(Row)
      /\ Len([journals[i].rows EXCEPT ![k] = row]) = Len(journals[i].rows)
  BY <1>1
<1>3. /\ j \in Journal /\ j.rows = [journals[i].rows EXCEPT ![k] = row]
      /\ j.status = journals[i].status
  BY <1>1, <1>2 DEF Journal
<1>4. journals' = [journals EXCEPT ![i] = j]
  OBVIOUS
<1> HIDE DEF j
<1>5. /\ journals' \in Seq(Journal) /\ DOMAIN journals' = DOMAIN journals /\ journals'[i] = j
      /\ \A l \in DOMAIN journals \ {i} : journals'[l] = journals[l]
  <2>1. journals \in Seq(Journal) /\ j \in Journal
    BY <1>3 DEF TypeOK
  <2> QED
    BY <1>4, <2>1, SeqSet
<1>6. ASSUME NEW l \in DOMAIN journals PROVE Len(journals'[l].rows) = Len(journals[l].rows)
  BY <1>1, <1>2, <1>3, <1>5, JournalTyped
<1> QED
  BY <1>3, <1>5, <1>6

LEMMA StatusSet ==
  ASSUME TypeOK, NEW i \in DOMAIN journals, NEW s \in {"active", "incomplete", "committed", "rolled_back"},
         journals' = [journals EXCEPT ![i].status = s]
  PROVE  /\ journals' \in Seq(Journal) /\ DOMAIN journals' = DOMAIN journals
         /\ journals'[i].rows = journals[i].rows /\ journals'[i].status = s
         /\ \A l \in DOMAIN journals \ {i} : journals'[l] = journals[l]
         /\ \A l \in DOMAIN journals : journals'[l].rows = journals[l].rows
<1> DEFINE j == [journals[i] EXCEPT !.status = s]
<1>1. journals[i] \in Journal
  BY JournalTyped
<1>2. j \in Journal /\ j.rows = journals[i].rows /\ j.status = s
  BY <1>1 DEF Journal
<1>3. journals' = [journals EXCEPT ![i] = j]
  OBVIOUS
<1> HIDE DEF j
<1>4. /\ journals' \in Seq(Journal) /\ DOMAIN journals' = DOMAIN journals /\ journals'[i] = j
      /\ \A l \in DOMAIN journals \ {i} : journals'[l] = journals[l]
  <2>1. journals \in Seq(Journal) /\ j \in Journal
    BY <1>2 DEF TypeOK
  <2> QED
    BY <1>3, <2>1, SeqSet
<1> QED
  BY <1>2, <1>4

LEMMA BackupTyped == ASSUME TypeInv, NEW p \in Proc, Backup(p) PROVE TypeInv'
<1> DEFINE x == Targets[proc[p].k]
           row == [path |-> x, kind |-> files[x], applied |-> "unset", restored |-> FALSE]
<1>1. At(p) = "backup" /\ Locked(p) /\ Standing(p) /\ proc[p] \in Request
  BY DEF Backup, At, Locked, Creating, TypeInv, TypeOK
<1>2. x \in Path /\ files[x] \in Content
  BY <1>1, ProjectAssumption DEF Standing, TypeInv, TypeOK
<1>3. row \in Row
  BY <1>2 DEF Row
<1>4. journals' = [journals EXCEPT ![proc[p].i].rows = Append(@, row)] /\ Go(p, "bind")
      /\ UNCHANGED <<files, moves, used, ghosts>>
  BY DEF Backup
<1> HIDE DEF row
<1>5. /\ journals' \in Seq(Journal) /\ DOMAIN journals' = DOMAIN journals
      /\ \A l \in DOMAIN journals : Len(journals[l].rows) <= Len(journals'[l].rows)
      /\ journals'[proc[p].i].rows = Append(Rows(p), row)
  BY <1>1, <1>3, <1>4, RowsTyped, RowAdded DEF TypeInv, Rows
<1>6. proc[p].k <= Len(journals'[proc[p].i].rows) /\ proc[p].k \in DOMAIN Targets
  BY <1>1, <1>3, <1>5, RowsTyped DEF Standing, Request
<1>7. proc' \in [Proc -> Request] /\ Alone(p) /\ Standing(p)'
  BY <1>1, <1>4, <1>5, <1>6, GoOn DEF Creating, At
<1> QED
  BY <1>4, <1>5, <1>7, JournalKept DEF TypeInv, TypeOK

LEMMA BindTyped == ASSUME TypeInv, NEW p \in Proc, Bind(p) PROVE TypeInv'
<1> DEFINE k == proc[p].k
           row == [Rows(p)[k] EXCEPT !.applied = Bound(Targets[k])]
<1>1. At(p) = "bind" /\ Locked(p) /\ Standing(p) /\ proc[p] \in Request
  BY DEF Bind, At, Locked, Creating, TypeInv, TypeOK
<1>2. k \in DOMAIN Rows(p) /\ k \in DOMAIN Targets /\ Rows(p)[k] \in Row
  BY <1>1, RowsTyped, ProjectAssumption DEF Standing, Request
<1>3. row \in Row
  BY <1>2 DEF Row, Bound, Made, Content
<1>4. journals' = [journals EXCEPT ![proc[p].i].rows[k] = row] /\ Go(p, "rename")
      /\ UNCHANGED <<files, moves, used, ghosts>>
  BY DEF Bind, SetRow
<1> HIDE DEF row
<1>5. /\ journals' \in Seq(Journal) /\ DOMAIN journals' = DOMAIN journals
      /\ \A l \in DOMAIN journals : Len(journals'[l].rows) = Len(journals[l].rows)
  BY <1>1, <1>2, <1>3, <1>4, RowsTyped, RowSet DEF TypeInv, Rows
<1>6. proc[p].k <= Len(journals'[proc[p].i].rows)
  BY <1>1, <1>5, RowsTyped DEF Standing, Rows
<1>7. proc' \in [Proc -> Request] /\ Alone(p) /\ Standing(p)'
  BY <1>1, <1>2, <1>4, <1>5, <1>6, GoOn DEF Creating, At
<1>8. \A l \in DOMAIN journals : Len(journals[l].rows) <= Len(journals'[l].rows)
  BY <1>5, JournalTyped DEF TypeInv
<1> QED
  BY <1>4, <1>5, <1>7, <1>8, JournalKept DEF TypeInv, TypeOK

LEMMA RenameTyped == ASSUME TypeInv, NEW p \in Proc, Rename(p) PROVE TypeInv'
<1> DEFINE k == proc[p].k  x == Targets[k]
           row == [Rows(p)[k] EXCEPT !.restored = TRUE]
           r == [proc[p] EXCEPT !.stage = "publish", !.k = k + 1]
<1>1. At(p) = "rename" /\ Locked(p) /\ Standing(p) /\ proc[p] \in Request
  BY DEF Rename, At, Locked, Creating, TypeInv, TypeOK
<1>2. k \in DOMAIN Rows(p) /\ Rows(p)[k] \in Row /\ k \in Nat /\ k + 1 >= 1
  BY <1>1, RowsTyped, ProjectAssumption DEF Standing, Request
<1>3. UNCHANGED <<moves, ghosts>>
  BY DEF Rename
<1>4. CASE files' = [files EXCEPT ![x] = Made(x)] /\ proc' = [proc EXCEPT ![p] = r]
           /\ UNCHANGED <<journals, used>>
  <2>1. r \in Request /\ r.stage = "publish" /\ r.k = k + 1 /\ r.i = proc[p].i /\ r.created = {}
    <3>1. "publish" \in Stage /\ k + 1 \in Nat /\ proc[p].created = {}
      BY <1>1, <1>2, StageKinds DEF Creating, Standing
    <3> QED
      BY <1>1, <3>1 DEF Request
  <2>2. proc[p].k + 1 <= Len(Rows(p)) + 1
    BY <1>1, <1>2, RowsTyped DEF Standing
  <2> HIDE DEF r
  <2>3. proc' \in [Proc -> Request] /\ Alone(p) /\ proc'[p] = r
    BY <1>4, <2>1, Update DEF TypeInv
  <2>4. Rows(p)' = Rows(p)
    BY <1>4, <2>1, <2>3 DEF Rows
  <2>5. Standing(p)'
    BY <1>1, <1>2, <1>4, <2>1, <2>2, <2>3, <2>4 DEF Standing, Locked, Mover, At, Creating, Moving
  <2>6. files' \in [Path -> Content]
    BY <1>4 DEF TypeInv, TypeOK, Made, Content
  <2> QED
    BY <1>3, <1>4, <2>3, <2>5, <2>6, OnlyProc DEF TypeInv, TypeOK, ghosts
<1>5. CASE AbortCreate(p) /\ UNCHANGED <<files, journals, used>>
  <2>1. Standing(p)'
    BY <1>1, <1>5, AbortStands DEF Rows, At
  <2> QED
    BY <1>1, <1>3, <1>5, <2>1, AbortCreateTyped, OnlyProc DEF TypeInv, TypeOK, ghosts
<1>6. CASE Upset /\ SetRow(p, k, row) /\ AbortCreate(p) /\ UNCHANGED files
  <2>1. row \in Row
    BY <1>2 DEF Row
  <2> HIDE DEF row
  <2>2. /\ journals' \in Seq(Journal) /\ DOMAIN journals' = DOMAIN journals
        /\ \A l \in DOMAIN journals : Len(journals'[l].rows) = Len(journals[l].rows)
    BY <1>1, <1>2, <1>6, <2>1, RowsTyped, RowSet DEF TypeInv, Rows, SetRow
  <2>3. Standing(p)'
    BY <1>1, <1>6, <2>2, AbortStands, RowsTyped DEF Rows, At
  <2>4. \A l \in DOMAIN journals : Len(journals[l].rows) <= Len(journals'[l].rows)
    BY <2>2, JournalTyped DEF TypeInv
  <2> QED
    BY <1>1, <1>3, <1>6, <2>2, <2>3, <2>4, AbortCreateTyped, UpsetTyped, JournalKept
       DEF TypeInv, TypeOK
<1> QED
  BY <1>4, <1>5, <1>6 DEF Rename

\* The status of a record is set and the command ends, or goes on to undo it.
LEMMA EndTyped ==
  ASSUME TypeInv, NEW p \in Proc, NEW s \in {"active", "incomplete", "committed", "rolled_back"},
         proc[p].i \in DOMAIN journals, SetStatus(p, s), Leave(p), UNCHANGED <<files, moves, used, ghosts>>
  PROVE  TypeInv'
<1>1. /\ journals' \in Seq(Journal) /\ DOMAIN journals' = DOMAIN journals
      /\ \A l \in DOMAIN journals : journals'[l].rows = journals[l].rows
  BY StatusSet DEF TypeInv, SetStatus
<1>2. \A l \in DOMAIN journals : Len(journals[l].rows) <= Len(journals'[l].rows)
  BY <1>1, JournalTyped DEF TypeInv
<1> QED
  BY <1>1, <1>2, LeaveTyped, JournalKept DEF TypeInv, TypeOK

LEMMA CommitTyped == ASSUME TypeInv, NEW p \in Proc, Commit(p) PROVE TypeInv'
<1>1. proc[p].i \in DOMAIN journals
  BY RowsTyped DEF Commit, Locked, Creating
<1> QED
  BY <1>1, EndTyped DEF Commit

LEMMA EndUndoTyped == ASSUME TypeInv, NEW p \in Proc, EndUndo(p) PROVE TypeInv'
<1>1. proc[p].i \in DOMAIN journals
  BY RowsTyped DEF EndUndo, Locked
<1> QED
  BY <1>1, EndTyped DEF EndUndo

LEMMA UndoRowTyped == ASSUME TypeInv, NEW p \in Proc, UndoRow(p) PROVE TypeInv'
<1> DEFINE k == proc[p].k  row == Rows(p)[k]  done == [row EXCEPT !.restored = TRUE]
           r(bad) == [proc[p] EXCEPT !.k = k - 1, !.bad = @ \/ bad]
<1>1. At(p) = "undo" /\ Locked(p) /\ Standing(p) /\ proc[p] \in Request
  BY DEF UndoRow, At, Locked, TypeInv, TypeOK
<1>2. k \in DOMAIN Rows(p) /\ row \in Row /\ k \in Nat /\ k - 1 \in Nat
  BY <1>1, RowsTyped DEF Standing, Request, UndoRow
<1>3. UNCHANGED <<moves, ghosts>>
  BY DEF UndoRow
<1>4. row.kind \in Content /\ done \in Row
  BY <1>2 DEF Row
<1>5. ASSUME NEW bad \in BOOLEAN, proc' = [proc EXCEPT ![p] = r(bad)], DOMAIN journals' = DOMAIN journals,
             Len(journals'[proc[p].i].rows) = Len(Rows(p))
      PROVE  proc' \in [Proc -> Request] /\ Alone(p) /\ Standing(p)'
  <2>1. /\ r(bad) \in Request /\ r(bad).stage = "undo" /\ r(bad).i = proc[p].i
        /\ r(bad).k = k - 1 /\ r(bad).created = {}
    BY <1>1, <1>2 DEF Request, Standing, At
  <2>2. k - 1 <= Len(Rows(p))
    BY <1>1, <1>2, RowsTyped DEF Standing
  <2> HIDE DEF r
  <2>3. proc' \in [Proc -> Request] /\ Alone(p) /\ proc'[p] = r(bad)
    BY <1>5, <2>1, Update DEF TypeInv
  <2>4. Rows(p)' = journals'[proc[p].i].rows
    BY <2>1, <2>3 DEF Rows
  <2> QED
    BY <1>1, <1>5, <2>1, <2>2, <2>3, <2>4, RowsTyped DEF Standing, Locked, Mover, At, Creating, Moving
<1>6. CASE \E bad \in BOOLEAN : proc' = [proc EXCEPT ![p] = r(bad)] /\ UNCHANGED <<files, journals, used>>
  BY <1>3, <1>5, <1>6, OnlyProc DEF TypeInv, TypeOK, ghosts, Rows
<1>7. CASE files' = [files EXCEPT ![row.path] = row.kind] /\ SetRow(p, k, done)
           /\ proc' = [proc EXCEPT ![p] = r(FALSE)] /\ UNCHANGED used
  <2> HIDE DEF done
  <2>2. /\ journals' \in Seq(Journal) /\ DOMAIN journals' = DOMAIN journals
        /\ \A l \in DOMAIN journals : Len(journals'[l].rows) = Len(journals[l].rows)
    BY <1>1, <1>2, <1>4, <1>7, RowsTyped, RowSet DEF TypeInv, Rows, SetRow
  <2>3. proc' \in [Proc -> Request] /\ Alone(p) /\ Standing(p)'
    BY <1>1, <1>5, <1>7, <2>2, RowsTyped DEF Rows
  <2>4. \A l \in DOMAIN journals : Len(journals[l].rows) <= Len(journals'[l].rows)
    BY <2>2, JournalTyped DEF TypeInv
  <2>5. files' \in [Path -> Content]
    BY <1>4, <1>7 DEF TypeInv, TypeOK
  <2> QED
    BY <1>3, <1>7, <2>2, <2>3, <2>4, <2>5, JournalKept DEF TypeInv, TypeOK
<1>8. CASE Upset /\ files' = [files EXCEPT ![row.path] = "none"] /\ Leave(p) /\ UNCHANGED journals
  <2>1. files' \in [Path -> Content]
    BY <1>8 DEF TypeInv, TypeOK, Content
  <2> QED
    BY <1>3, <1>8, <2>1, LeaveTyped, UpsetTyped, OnlyProc DEF TypeInv, TypeOK, ghosts
<1> QED
  BY <1>6, <1>7, <1>8 DEF UndoRow

LEMMA AskRecoverTyped == ASSUME TypeInv, NEW p \in Proc, AskRecover(p) PROVE TypeInv'
<1>1. PICK i \in DOMAIN journals : proc' = [proc EXCEPT ![p].stage = "pending", ![p].i = i]
  BY DEF AskRecover
<1> DEFINE r == [proc[p] EXCEPT !.stage = "pending", !.i = i]
<1>2. proc[p] \in Request /\ proc[p].created = {} /\ i \in Nat
  BY DEF AskRecover, TypeInv, TypeOK, Standing, At
<1>3. r \in Request /\ r.stage = "pending" /\ r.i = i /\ r.created = {}
  BY <1>2, StageKinds DEF Request
<1>4. proc' = [proc EXCEPT ![p] = r]
  BY <1>1
<1> HIDE DEF r
<1>5. proc' \in [Proc -> Request] /\ Alone(p) /\ proc'[p] = r
  BY <1>3, <1>4, Update DEF TypeInv
<1>6. Standing(p)'
  BY <1>3, <1>5 DEF AskRecover, Standing, Locked, Mover, At, Creating, Moving
<1> QED
  BY <1>5, <1>6, OnlyProc DEF AskRecover, TypeInv, TypeOK, ghosts

LEMMA MarkTyped == ASSUME TypeInv, NEW p \in Proc, MarkAbsent(p) PROVE TypeInv'
<1> DEFINE i == proc[p].i
           marked(row) == [row EXCEPT !.restored = @ \/ Gone(row)]
           rows == [k \in DOMAIN journals[i].rows |-> marked(journals[i].rows[k])]
           j == [journals[i] EXCEPT !.rows = rows]
<1>1. At(p) = "pending" /\ Standing(p) /\ proc[p] \in Request /\ i \in DOMAIN journals
  BY DEF MarkAbsent, At, TypeInv, TypeOK, Standing
<1>2. UNCHANGED <<files, moves, used, ghosts>>
  BY DEF MarkAbsent
<1>3. CASE Leave(p) /\ UNCHANGED journals
  BY <1>2, <1>3, LeaveTyped, OnlyProc DEF TypeInv, TypeOK, ghosts
<1>4. CASE journals' = [journals EXCEPT ![i] = j] /\ Go(p, "redo")
  <2>1. \A k \in DOMAIN journals[i].rows : marked(journals[i].rows[k]) \in Row
    <3>1. ASSUME NEW row \in Row PROVE marked(row) \in Row
      <4>1. row.restored \in BOOLEAN /\ (row.restored \/ Gone(row)) \in BOOLEAN
        BY DEF Row, Gone
      <4> QED
        BY <4>1, RowMarked
    <3> QED
      BY <1>1, <3>1, JournalTyped DEF TypeInv
  <2>2. rows \in Seq(Row) /\ Len(rows) = Len(journals[i].rows)
    <3>1. journals[i].rows \in Seq(Row)
      BY <1>1, JournalTyped DEF TypeInv
    <3>2. rows \in [DOMAIN journals[i].rows -> Row]
      BY <2>1
    <3> HIDE DEF rows
    <3> QED
      BY <3>1, <3>2, SeqMap
  <2> HIDE DEF rows
  <2>3. j \in Journal /\ j.rows = rows
    BY <1>1, <2>2, JournalTyped DEF Journal, TypeInv
  <2> HIDE DEF j
  <2>4. journals \in Seq(Journal)
    BY DEF TypeInv, TypeOK
  <2>5. /\ journals' \in Seq(Journal) /\ DOMAIN journals' = DOMAIN journals /\ journals'[i] = j
        /\ \A l \in DOMAIN journals \ {i} : journals'[l] = journals[l]
    BY <1>1, <1>4, <2>3, <2>4, SeqSet
  <2>6. \A l \in DOMAIN journals : Len(journals[l].rows) <= Len(journals'[l].rows)
    BY <2>2, <2>3, <2>5, JournalTyped DEF TypeInv
  <2>7. proc' \in [Proc -> Request] /\ proc'[p] = [proc[p] EXCEPT !.stage = "redo"] /\ Alone(p)
    BY <1>4, GoTyped, StageKinds DEF TypeInv
  <2>8. proc'[p].stage = "redo" /\ proc'[p].i = i /\ proc'[p].created = proc[p].created
    BY <1>1, <2>7 DEF Request
  <2>9. Standing(p)'
    BY <1>1, <2>5, <2>8 DEF Standing, Locked, Mover, At, Creating, Moving
  <2> QED
    BY <1>2, <2>5, <2>6, <2>7, <2>9, JournalKept DEF TypeInv, TypeOK
<1>5. CASE journals' = [journals EXCEPT ![i].rows = [k \in DOMAIN @ |-> marked(@[k])]] /\ Go(p, "redo")
  <2>1. journals' = [journals EXCEPT ![i] = j]
    BY <1>5
  <2> QED
    BY <1>4, <1>5, <2>1
<1> QED
  BY <1>3, <1>5 DEF MarkAbsent

LEMMA RedoTyped == ASSUME TypeInv, NEW p \in Proc, Redo(p) PROVE TypeInv'
<1> DEFINE i == proc[p].i
           r == [proc[p] EXCEPT !.stage = "undo", !.k = Len(journals[i].rows)]
<1>1. At(p) = "redo" /\ Standing(p) /\ proc[p] \in Request /\ i \in DOMAIN journals
  BY DEF Redo, At, TypeInv, TypeOK, Standing
<1>2. UNCHANGED <<files, moves, used, ghosts>>
  BY DEF Redo
<1>3. CASE Leave(p) /\ UNCHANGED journals
  BY <1>2, <1>3, LeaveTyped, OnlyProc DEF TypeInv, TypeOK, ghosts
<1>4. CASE SetStatus(p, "active") /\ proc' = [proc EXCEPT ![p] = r]
  <2>1. /\ journals' \in Seq(Journal) /\ DOMAIN journals' = DOMAIN journals
        /\ \A l \in DOMAIN journals : journals'[l].rows = journals[l].rows
    BY <1>1, <1>4, StatusSet DEF TypeInv, SetStatus
  <2>2. \A l \in DOMAIN journals : Len(journals[l].rows) \in Nat
    BY JournalTyped DEF TypeInv
  <2>3. /\ r \in Request /\ r.stage = "undo" /\ r.i = i /\ r.created = {}
        /\ r.k = Len(journals[i].rows)
    <3>1. "undo" \in Stage /\ proc[p].created = {}
      BY <1>1, StageKinds DEF Standing
    <3> QED
      BY <1>1, <2>2, <3>1 DEF Request
  <2> HIDE DEF r
  <2>4. proc' \in [Proc -> Request] /\ Alone(p) /\ proc'[p] = r
    BY <1>4, <2>3, Update DEF TypeInv
  <2>5. Rows(p)' = journals[i].rows
    BY <1>1, <2>1, <2>3, <2>4 DEF Rows
  <2>6. Standing(p)'
    BY <1>1, <2>1, <2>2, <2>3, <2>4, <2>5 DEF Standing, Locked, Mover, At, Creating, Moving
  <2>7. \A l \in DOMAIN journals : Len(journals[l].rows) <= Len(journals'[l].rows)
    BY <2>1, <2>2
  <2> QED
    BY <1>2, <2>1, <2>4, <2>6, <2>7, JournalKept DEF TypeInv, TypeOK
<1> QED
  BY <1>3, <1>4 DEF Redo

----------------------------------------------------------------------------
\* Migration: the record of p is replaced by another.
LEMMA MoveTyped ==
  ASSUME TypeOK, NEW i \in DOMAIN moves
  PROVE  /\ moves[i] \in Move /\ moves[i].state \in [Pack -> RowState]
         /\ moves[i].held \in [Pack -> Content] /\ moves[i].copy \in [Pack -> Content]
<1>1. moves[i] \in Move
  BY DEF TypeOK
<1> QED
  BY <1>1 DEF Move

LEMMA MoveSet ==
  ASSUME TypeOK, NEW i \in DOMAIN moves, NEW m \in Move, moves' = [moves EXCEPT ![i] = m]
  PROVE  /\ moves' \in Seq(Move) /\ DOMAIN moves' = DOMAIN moves /\ moves'[i] = m
         /\ \A l \in DOMAIN moves \ {i} : moves'[l] = moves[l]
<1>1. moves \in Seq(Move)
  BY DEF TypeOK
<1> QED
  BY <1>1, SeqSet

LEMMA MoveKept ==
  ASSUME TypeInv, NEW p \in Proc, proc' \in [Proc -> Request], Alone(p), Standing(p)',
         moves' \in Seq(Move), DOMAIN moves \subseteq DOMAIN moves', journals' = journals,
         files' \in [Path -> Content], used' \in [ops : Nat, upsets : Nat],
         theirs' \subseteq Path, touched' \subseteq Path, gap' \subseteq Path
  PROVE  TypeInv'
<1>1. TypeOK'
  BY DEF TypeInv, TypeOK
<1>2. Grows
  BY JournalTyped DEF Grows, TypeInv
<1> QED
  BY <1>1, <1>2, OthersStand DEF TypeInv

\* The steps of a migration that stay with one skill go on in the same record.
LEMMA MoveOn ==
  ASSUME TypeInv, NEW p \in Proc, NEW s \in Moving, NEW n \in Pack \union {proc[p].cur}, Mover(p),
         proc' = [proc EXCEPT ![p].stage = s, ![p].cur = n],
         DOMAIN moves' = DOMAIN moves, s \in {"move", "copy", "clear"} => n \in Pack
  PROVE  /\ proc' \in [Proc -> Request] /\ Alone(p) /\ Standing(p)'
         /\ proc'[p] = [proc[p] EXCEPT !.stage = s, !.cur = n]
<1> DEFINE r == [proc[p] EXCEPT !.stage = s, !.cur = n]
<1>1. proc[p] \in Request /\ Standing(p) /\ s \in Stage /\ n \in Path
  BY StageKinds DEF TypeInv, TypeOK, Path, Request
<1>2. r \in Request /\ r.stage = s /\ r.i = proc[p].i /\ r.cur = n /\ r.created = proc[p].created
  BY <1>1 DEF Request
<1>3. proc' = [proc EXCEPT ![p] = r]
  OBVIOUS
<1> HIDE DEF r
<1>4. proc' \in [Proc -> Request] /\ Alone(p) /\ proc'[p] = r
  BY <1>2, <1>3, Update DEF TypeInv
<1>5. Standing(p)'
  BY <1>1, <1>2, <1>4 DEF Standing, Locked, Mover, At, Creating, Moving
<1> QED
  BY <1>4, <1>5 DEF r

LEMMA GoIsMoveOn ==
  ASSUME TypeInv, NEW p \in Proc, NEW s, Go(p, s)
  PROVE  proc' = [proc EXCEPT ![p].stage = s, ![p].cur = proc[p].cur]
<1>1. proc[p] \in Request
  BY DEF TypeInv, TypeOK
<1>2. [proc[p] EXCEPT !.stage = s] = [proc[p] EXCEPT !.stage = s, !.cur = proc[p].cur]
  BY <1>1 DEF Request
<1> QED
  BY <1>2 DEF Go

\* What may be changed in a record of a migration.
LEMMA MoveChanged ==
  ASSUME NEW m \in Move, NEW n \in Pack, NEW s \in RowState, NEW t \in Content
  PROVE  /\ [m EXCEPT !.state[n] = s] \in Move
         /\ [m EXCEPT !.held[n] = t] \in Move
         /\ [m EXCEPT !.copy[n] = t] \in Move
         /\ [m EXCEPT !.state[n] = s, !.held[n] = t] \in Move
         /\ [m EXCEPT !.state[n] = s, !.copy[n] = t] \in Move
<1>1. /\ m.state \in [Pack -> RowState] /\ m.held \in [Pack -> Content]
      /\ m.copy \in [Pack -> Content]
  BY DEF Move
<1>2. /\ [m.state EXCEPT ![n] = s] \in [Pack -> RowState]
      /\ [m.held EXCEPT ![n] = t] \in [Pack -> Content]
      /\ [m.copy EXCEPT ![n] = t] \in [Pack -> Content]
  BY <1>1
<1>3. ASSUME NEW a \in [Pack -> RowState], NEW b \in [Pack -> Content], NEW c \in [Pack -> Content]
      PROVE  /\ [m EXCEPT !.state = a] \in Move /\ [m EXCEPT !.held = b] \in Move
             /\ [m EXCEPT !.copy = c] \in Move /\ [m EXCEPT !.state = a, !.held = b] \in Move
             /\ [m EXCEPT !.state = a, !.copy = c] \in Move
  BY DEF Move
<1> DEFINE a == [m.state EXCEPT ![n] = s]  b == [m.held EXCEPT ![n] = t]
           c == [m.copy EXCEPT ![n] = t]
<1>4. /\ [m EXCEPT !.state = a] \in Move /\ [m EXCEPT !.held = b] \in Move
      /\ [m EXCEPT !.copy = c] \in Move /\ [m EXCEPT !.state = a, !.held = b] \in Move
      /\ [m EXCEPT !.state = a, !.copy = c] \in Move
  <2>1. a \in [Pack -> RowState] /\ b \in [Pack -> Content] /\ c \in [Pack -> Content]
    BY <1>2
  <2> HIDE DEF a, b, c
  <2> QED
    BY <1>3, <2>1
<1> QED
  BY <1>4

LEMMA MoveEnded ==
  ASSUME NEW m \in Move, NEW s \in {"copied", "committed", "rolled_back", "incomplete"}
  PROVE  [m EXCEPT !.status = s] \in Move
  BY DEF Move

\* Where a migration is, its record is typed.
LEMMA MigTyped ==
  ASSUME TypeInv, NEW p \in Proc, Mover(p)
  PROVE  /\ proc[p].i \in DOMAIN moves /\ Mig(p) \in Move /\ proc[p] \in Request /\ Standing(p)
         /\ Mig(p).state \in [Pack -> RowState]
         /\ Mig(p).held \in [Pack -> Content] /\ Mig(p).copy \in [Pack -> Content]
  BY MoveTyped DEF TypeInv, TypeOK, Standing, Mig

\* A step that replaces the record of p, leaves the journals alone and stands right.
LEMMA MigKept ==
  ASSUME TypeInv, NEW p \in Proc, Mover(p), proc' \in [Proc -> Request], Alone(p), Standing(p)',
         journals' = journals, NEW m \in Move, SetMig(p, m) \/ moves' = moves,
         files' \in [Path -> Content], used' \in [ops : Nat, upsets : Nat],
         theirs' \subseteq Path, touched' \subseteq Path, gap' \subseteq Path
  PROVE  TypeInv'
<1>1. moves' \in Seq(Move) /\ DOMAIN moves \subseteq DOMAIN moves'
  BY MigTyped, MoveSet DEF SetMig, TypeInv, TypeOK
<1> QED
  BY <1>1, MoveKept

LEMMA AskMigrateTyped == ASSUME TypeInv, NEW p \in Proc, AskMigrate(p) PROVE TypeInv'
<1> DEFINE m(rows) == [status |-> "preparing", held |-> NoTrees, copy |-> NoTrees,
                       state |-> [n \in Pack |-> IF n \in rows THEN "pending" ELSE "none"]]
           r == [Idle EXCEPT !.stage = "claim", !.i = Len(moves) + 1]
<1>1. PICK rows : Ask(p, r) /\ moves' = Append(moves, m(rows)) /\ UNCHANGED <<files, journals, ghosts>>
  BY DEF AskMigrate
<1>2. Len(moves) + 1 \in Nat /\ "claim" \in Stage
  BY StageKinds DEF TypeInv, TypeOK, Moving
<1>3. r \in Request /\ r.stage = "claim" /\ r.i = Len(moves) + 1 /\ r.created = {}
  BY <1>2, IdleRequest DEF Request, Idle
<1>4. m(rows) \in Move
  <2>1. NoTrees \in [Pack -> Content] /\ [n \in Pack |-> IF n \in rows THEN "pending" ELSE "none"] \in [Pack -> RowState]
    BY DEF NoTrees, Content, RowState
  <2> QED
    BY <2>1 DEF Move
<1> HIDE DEF r, m
<1>5. /\ moves' \in Seq(Move) /\ DOMAIN moves \subseteq DOMAIN moves'
      /\ Len(moves) + 1 \in DOMAIN moves'
  BY <1>1, <1>4 DEF TypeInv, TypeOK
<1>6. /\ proc' \in [Proc -> Request] /\ proc'[p] = r /\ Alone(p)
      /\ used' \in [ops : Nat, upsets : Nat]
  BY <1>1, <1>3, AskTyped DEF TypeInv
<1>7. Standing(p)'
  BY <1>3, <1>5, <1>6 DEF Standing, Locked, Mover, At, Creating, Moving
<1> QED
  BY <1>1, <1>5, <1>6, <1>7, MoveKept DEF TypeInv, TypeOK, ghosts

LEMMA ClaimTyped == ASSUME TypeInv, NEW p \in Proc, Claim(p) PROVE TypeInv'
<1>1. Mover(p) /\ "verify" \in Moving /\ "move" \in Moving /\ "claiming" \in RowState
  BY DEF Claim, Mover, At, Moving, RowState
<1>2. UNCHANGED <<files, journals, used, ghosts>>
  BY DEF Claim
<1>3. CASE Go(p, "verify") /\ UNCHANGED moves
  <2>1. proc' \in [Proc -> Request] /\ Alone(p) /\ Standing(p)'
    BY <1>1, <1>3, GoIsMoveOn, MoveOn
  <2> QED
    BY <1>2, <1>3, <2>1, OnlyProc DEF TypeInv, TypeOK, ghosts
<1>4. CASE AbortMove(p) /\ UNCHANGED moves
  BY <1>1, <1>2, <1>4, AbortMoveTyped, OnlyProc DEF TypeInv, TypeOK, ghosts
<1>5. ASSUME NEW n \in Pack, SetMig(p, [Mig(p) EXCEPT !.state[n] = "claiming"]),
             proc' = [proc EXCEPT ![p].stage = "move", ![p].cur = n]
      PROVE  TypeInv'
  <2> DEFINE m == [Mig(p) EXCEPT !.state[n] = "claiming"]
  <2>1. m \in Move
    BY <1>1, MigTyped, MoveChanged DEF Content
  <2>2. SetMig(p, m)
    BY <1>5
  <2> HIDE DEF m
  <2>3. DOMAIN moves' = DOMAIN moves
    BY <1>1, <2>1, <2>2, MigTyped, MoveSet DEF SetMig, TypeInv
  <2>4. proc' \in [Proc -> Request] /\ Alone(p) /\ Standing(p)'
    BY <1>1, <1>5, <2>3, MoveOn
  <2> QED
    BY <1>1, <1>2, <2>1, <2>2, <2>4, MigKept DEF TypeInv, TypeOK, ghosts
<1> QED
  BY <1>3, <1>4, <1>5 DEF Claim, InState

LEMMA MoveAwayTyped == ASSUME TypeInv, NEW p \in Proc, MoveAway(p) PROVE TypeInv'
<1> DEFINE n == proc[p].cur
           back == [Mig(p) EXCEPT !.state[n] = "pending"]
           held == [Mig(p) EXCEPT !.state[n] = "held", !.held[n] = files[n]]
<1>1. Mover(p) /\ At(p) = "move" /\ "copy" \in Moving /\ {"pending", "held"} \subseteq RowState
  BY DEF MoveAway, Mover, At, Moving, RowState
<1>2. n \in Pack /\ n \in Path /\ files[n] \in Content
  BY <1>1, MigTyped DEF Standing, Path, TypeInv, TypeOK
<1>3. UNCHANGED <<journals, used, theirs>>
  BY DEF MoveAway
<1>4. back \in Move /\ held \in Move
  BY <1>1, <1>2, MigTyped, MoveChanged
<1> HIDE DEF back, held
<1>5. CASE SetMig(p, back) /\ AbortMove(p) /\ UNCHANGED <<files, touched, gap>>
  <2>1. DOMAIN moves' = DOMAIN moves
    BY <1>1, <1>4, <1>5, MigTyped, MoveSet DEF SetMig, TypeInv
  <2> QED
    BY <1>1, <1>3, <1>4, <1>5, <2>1, AbortMoveTyped, MigKept DEF TypeInv, TypeOK
<1>6. CASE files' = [files EXCEPT ![n] = "none"] /\ SetMig(p, held) /\ Go(p, "copy") /\ Touch({n}, Proc \ {p})
  <2>1. DOMAIN moves' = DOMAIN moves
    BY <1>1, <1>4, <1>6, MigTyped, MoveSet DEF SetMig, TypeInv
  <2>2. proc' \in [Proc -> Request] /\ Alone(p) /\ Standing(p)'
    BY <1>1, <1>2, <1>6, <2>1, GoIsMoveOn, MoveOn
  <2>3. touched' \subseteq Path /\ gap' \subseteq Path
    BY <1>2, <1>6, TouchTyped DEF TypeInv
  <2>4. files' \in [Path -> Content]
    BY <1>6 DEF TypeInv, TypeOK, Content
  <2> QED
    BY <1>1, <1>3, <1>4, <1>6, <2>2, <2>3, <2>4, MigKept DEF TypeInv, TypeOK
<1> QED
  BY <1>5, <1>6 DEF MoveAway, back, held

\* Three ways on for a step that wrote a record m: on, to another skill, or back.
LEMMA MigGoes ==
  ASSUME TypeInv, NEW p \in Proc, Mover(p), NEW m \in Move, SetMig(p, m),
         \/ \E s \in Moving : Go(p, s) /\ (s \in {"move", "copy", "clear"} => proc[p].cur \in Pack)
         \/ \E s \in Moving, n \in Pack : proc' = [proc EXCEPT ![p].stage = s, ![p].cur = n]
         \/ AbortMove(p)
         \/ Leave(p),
         UNCHANGED <<files, journals, theirs, touched, gap>>, Upset \/ used' = used
  PROVE  TypeInv'
<1>1. DOMAIN moves' = DOMAIN moves
  BY MigTyped, MoveSet DEF SetMig, TypeInv
<1>2. proc' \in [Proc -> Request] /\ Alone(p) /\ Standing(p)'
  <2>1. CASE \E s \in Moving : Go(p, s) /\ (s \in {"move", "copy", "clear"} => proc[p].cur \in Pack)
    BY <1>1, <2>1, GoIsMoveOn, MoveOn
  <2>2. CASE \E s \in Moving, n \in Pack : proc' = [proc EXCEPT ![p].stage = s, ![p].cur = n]
    BY <1>1, <2>2, MoveOn
  <2>3. CASE AbortMove(p)
    BY <1>1, <2>3, AbortMoveTyped
  <2>4. CASE Leave(p)
    BY <2>4, LeaveTyped DEF TypeInv
  <2> QED
    BY <2>1, <2>2, <2>3, <2>4
<1> QED
  BY <1>2, MigKept, UpsetTyped DEF TypeInv, TypeOK

LEMMA CopyTyped == ASSUME TypeInv, NEW p \in Proc, Copy(p) PROVE TypeInv'
<1> DEFINE n == proc[p].cur
           whole == [Mig(p) EXCEPT !.state[n] = "copied", !.copy[n] = Mig(p).held[n]]
           part == [Mig(p) EXCEPT !.copy[n] = "partial"]
<1>1. Mover(p) /\ At(p) = "copy" /\ "claim" \in Moving /\ "copied" \in RowState
  BY DEF Copy, Mover, At, Moving, RowState
<1>2. n \in Pack /\ Mig(p).held[n] \in Content /\ "partial" \in Content
  BY <1>1, MigTyped DEF Standing, Content
<1>3. UNCHANGED <<files, journals, theirs, touched, gap>>
  BY DEF Copy, ghosts
<1>4. whole \in Move /\ part \in Move
  BY <1>1, <1>2, MigTyped, MoveChanged
<1> HIDE DEF whole, part
<1>5. CASE AbortMove(p) /\ UNCHANGED <<moves, used>>
  BY <1>1, <1>3, <1>5, AbortMoveTyped, OnlyProc DEF TypeInv, TypeOK
<1>6. CASE SetMig(p, whole) /\ Go(p, "claim") /\ UNCHANGED used
  BY <1>1, <1>3, <1>4, <1>6, MigGoes
<1>7. CASE Upset /\ SetMig(p, part) /\ AbortMove(p)
  BY <1>1, <1>3, <1>4, <1>7, MigGoes
<1> QED
  BY <1>5, <1>6, <1>7 DEF Copy, whole, part

LEMMA VerifyHeldTyped == ASSUME TypeInv, NEW p \in Proc, VerifyHeld(p) PROVE TypeInv'
<1>1. Mover(p) /\ "archive" \in Moving
  BY DEF VerifyHeld, Mover, At, Moving
<1>2. [Mig(p) EXCEPT !.status = "copied"] \in Move
  BY <1>1, MigTyped, MoveEnded
<1> QED
  BY <1>1, <1>2, MigGoes DEF VerifyHeld, ghosts

LEMMA ArchiveTyped == ASSUME TypeInv, NEW p \in Proc, Archive(p) PROVE TypeInv'
<1>1. Mover(p) /\ {"finish", "clear"} \subseteq Moving /\ "archived" \in RowState
  BY DEF Archive, Mover, At, Moving, RowState
<1>2. UNCHANGED <<files, journals, used, theirs, touched, gap>>
  BY DEF Archive, ghosts
<1>3. CASE Go(p, "finish") /\ UNCHANGED moves
  <2>1. proc' \in [Proc -> Request] /\ Alone(p) /\ Standing(p)'
    BY <1>1, <1>3, GoIsMoveOn, MoveOn
  <2> QED
    BY <1>2, <1>3, <2>1, OnlyProc DEF TypeInv, TypeOK
<1>4. ASSUME NEW n \in Pack, SetMig(p, [Mig(p) EXCEPT !.state[n] = "archived"]),
             proc' = [proc EXCEPT ![p].stage = "clear", ![p].cur = n]
      PROVE  TypeInv'
  <2>1. [Mig(p) EXCEPT !.state[n] = "archived"] \in Move
    BY <1>1, MigTyped, MoveChanged DEF Content
  <2> QED
    BY <1>1, <1>2, <1>4, <2>1, MigGoes
<1> QED
  BY <1>3, <1>4 DEF Archive, InState

LEMMA ClearHeldTyped == ASSUME TypeInv, NEW p \in Proc, ClearHeld(p) PROVE TypeInv'
<1> DEFINE n == proc[p].cur
           gone == [Mig(p) EXCEPT !.held[n] = "none"]
           part == [Mig(p) EXCEPT !.held[n] = "partial"]
           r == [proc[p] EXCEPT !.stage = "back", !.names = Planned(Mig(p))]
<1>1. Mover(p) /\ At(p) = "clear" /\ "archive" \in Moving
  BY DEF ClearHeld, Mover, At, Moving
<1>2. n \in Pack /\ {"none", "partial"} \subseteq Content
  BY <1>1, MigTyped DEF Standing, Content
<1>3. UNCHANGED <<files, journals, theirs, touched, gap>>
  BY DEF ClearHeld, ghosts
<1>4. gone \in Move /\ part \in Move
  BY <1>1, <1>2, MigTyped, MoveChanged DEF RowState
<1>5. r \in Request /\ r.stage = "back" /\ r.i = proc[p].i /\ r.created = proc[p].created
  <2>1. Planned(Mig(p)) \subseteq Pack /\ "back" \in Stage
    BY StageKinds DEF Planned, InState
  <2> QED
    BY <1>1, <2>1, MigTyped DEF Request
<1> HIDE DEF gone, part, r
<1>6. CASE SetMig(p, gone) /\ Go(p, "archive") /\ UNCHANGED used
  BY <1>1, <1>3, <1>4, <1>6, MigGoes
<1>7. CASE SetMig(p, part) /\ Upset /\ Leave(p)
  BY <1>1, <1>3, <1>4, <1>7, MigGoes
<1>8. CASE SetMig(p, part) /\ Upset /\ proc' = [proc EXCEPT ![p] = r]
  <2>1. DOMAIN moves' = DOMAIN moves
    BY <1>1, <1>4, <1>8, MigTyped, MoveSet DEF SetMig, TypeInv
  <2>2. proc' \in [Proc -> Request] /\ Alone(p) /\ proc'[p] = r
    BY <1>5, <1>8, Update DEF TypeInv
  <2>3. Standing(p)'
    BY <1>1, <1>5, <2>1, <2>2, MigTyped DEF Standing, Locked, Mover, At, Creating, Moving
  <2> QED
    BY <1>1, <1>3, <1>4, <1>8, <2>2, <2>3, MigKept, UpsetTyped DEF TypeInv, TypeOK
<1> QED
  BY <1>6, <1>7, <1>8 DEF ClearHeld, gone, part, r

LEMMA FinishMoveTyped == ASSUME TypeInv, NEW p \in Proc, FinishMove(p) PROVE TypeInv'
<1>1. Mover(p)
  BY DEF FinishMove, Mover, At, Moving
<1>2. [Mig(p) EXCEPT !.status = "committed"] \in Move
  BY <1>1, MigTyped, MoveEnded
<1> QED
  BY <1>1, <1>2, MigGoes DEF FinishMove, ghosts

LEMMA EndMoveTyped == ASSUME TypeInv, NEW p \in Proc, EndMove(p) PROVE TypeInv'
<1> DEFINE s == IF Failed(proc[p], Mig(p)) THEN "incomplete" ELSE "rolled_back"
<1>1. Mover(p)
  BY DEF EndMove, Mover, At
<1>2. [Mig(p) EXCEPT !.status = s] \in Move
  BY <1>1, MigTyped, MoveEnded
<1> QED
  BY <1>1, <1>2, MigGoes DEF EndMove, ghosts

LEMMA PutBackTyped == ASSUME TypeInv, NEW p \in Proc, PutBackRow(p) PROVE TypeInv'
<1>1. Mover(p) /\ At(p) = "back" /\ "restored" \in RowState /\ {"none", "partial"} \subseteq Content
  BY DEF PutBackRow, Mover, At, RowState, Content
<1>2. journals' = journals /\ theirs' = theirs
  BY DEF PutBackRow
<1>3. PICK n \in proc[p].names, bad \in BOOLEAN :
        /\ proc' = [proc EXCEPT ![p].names = @ \ {n}, ![p].bad = @ \/ bad]
        /\ \/ UNCHANGED <<files, moves, used, touched, gap>>
           \/ /\ files' = [files EXCEPT ![n] = From(Mig(p), n)]
              /\ SetMig(p, [Mig(p) EXCEPT !.state[n] = "restored",
                              !.held[n] = IF @ = From(Mig(p), n) THEN "none" ELSE @])
              /\ Touch({n}, Proc \ {p}) /\ UNCHANGED used
           \/ /\ files' = [files EXCEPT ![n] = "partial"]
              /\ Touch({n}, Proc \ {p}) /\ Upset /\ UNCHANGED moves
  BY DEF PutBackRow
<1>4. n \in Pack /\ n \in Path
  BY <1>1, MigTyped DEF Request, Path
<1> DEFINE r == [proc[p] EXCEPT !.names = @ \ {n}, !.bad = @ \/ bad]
           m == [Mig(p) EXCEPT !.state[n] = "restored",
                   !.held[n] = IF @ = From(Mig(p), n) THEN "none" ELSE @]
<1>5. r \in Request /\ r.stage = "back" /\ r.i = proc[p].i /\ r.created = proc[p].created
  BY <1>1, MigTyped DEF Request, At
<1>6. proc' = [proc EXCEPT ![p] = r]
  BY <1>3
<1>7. m \in Move
  <2>1. (IF Mig(p).held[n] = From(Mig(p), n) THEN "none" ELSE Mig(p).held[n]) \in Content
    BY <1>1, <1>4, MigTyped
  <2>2. [Mig(p) EXCEPT !.state[n] = "restored",
           !.held[n] = IF Mig(p).held[n] = From(Mig(p), n) THEN "none" ELSE Mig(p).held[n]] \in Move
    BY <1>1, <1>4, <2>1, MigTyped, MoveChanged
  <2> QED
    BY <2>2
<1>8. From(Mig(p), n) \in Content
  BY <1>1, <1>4, MigTyped DEF From
<1> DEFINE put == SetMig(p, m)
<1>9. put \/ moves' = moves
  BY <1>3
<1>10. files' \in [Path -> Content]
  BY <1>1, <1>3, <1>4, <1>8 DEF TypeInv, TypeOK
<1>11. touched' \subseteq Path /\ gap' \subseteq Path
  <2>1. {n} \in SUBSET Path
    BY <1>4
  <2> QED
    BY <1>3, <2>1, TouchTyped DEF TypeInv, TypeOK
<1>12. used' \in [ops : Nat, upsets : Nat]
  <2>1. Upset \/ used' = used
    BY <1>3
  <2> QED
    BY <2>1, UpsetTyped DEF TypeInv
<1>13. theirs' \subseteq Path
  BY <1>2 DEF TypeInv, TypeOK
<1> HIDE DEF r, m
<1>14. DOMAIN moves' = DOMAIN moves
  BY <1>1, <1>7, <1>9, MigTyped, MoveSet DEF SetMig, TypeInv
<1>15. proc' \in [Proc -> Request] /\ Alone(p) /\ proc'[p] = r
  BY <1>5, <1>6, Update DEF TypeInv
<1>16. Standing(p)'
  BY <1>1, <1>5, <1>14, <1>15, MigTyped DEF Standing, Locked, Mover, At, Creating, Moving
<1> QED
  BY <1>1, <1>2, <1>7, <1>9, <1>10, <1>11, <1>12, <1>13, <1>15, <1>16, MigKept

----------------------------------------------------------------------------
LEMMA AskExportTyped == ASSUME TypeInv, NEW p \in Proc, AskExport(p) PROVE TypeInv'
<1> DEFINE r(S) == [Idle EXCEPT !.stage = "reserve", !.names = S]
<1>1. PICK S \in SUBSET Pack : Ask(p, r(S)) /\ UNCHANGED <<files, journals, moves, ghosts>>
  BY DEF AskExport
<1>2. r(S) \in Request /\ r(S).stage = "reserve"
  BY IdleRequest, StageKinds DEF Request
<1> HIDE DEF r
<1>3. Standing(p)'
  BY <1>1, <1>2, AskTyped DEF TypeInv, Standing, Locked, Mover, At, Creating, Moving
<1> QED
  BY <1>1, <1>2, <1>3, AskTyped, OnlyProc DEF TypeInv, TypeOK, ghosts

\* A failing export takes back what it made.
LEMMA DiscardTyped ==
  ASSUME TypeInv, NEW p \in Proc, Discard(p), UNCHANGED <<journals, moves, theirs>>,
         Upset \/ used' = used
  PROVE  TypeInv'
<1>1. proc' \in [Proc -> Request] /\ Alone(p) /\ Standing(p)'
  BY LeaveTyped DEF Discard, TypeInv
<1>2. Own(proc[p]) \in SUBSET Path
  BY DEF Own, TypeInv, TypeOK, Request, Path
<1>3. touched' \subseteq Path /\ gap' \subseteq Path
  BY <1>2, TouchTyped DEF Discard, TypeInv
<1>4. files' \in [Path -> Content]
  BY DEF Discard, TypeInv, TypeOK, Content
<1> QED
  BY <1>1, <1>3, <1>4, UpsetTyped, OnlyProc DEF TypeInv, TypeOK

LEMMA ReserveTyped == ASSUME TypeInv, NEW p \in Proc, Reserve(p) PROVE TypeInv'
<1>1. At(p) = "reserve" /\ proc[p] \in Request /\ Standing(p)
  BY DEF Reserve, At, TypeInv, TypeOK
<1>2. UNCHANGED <<journals, moves, used, theirs>>
  BY DEF Reserve
<1>3. CASE Leave(p) /\ UNCHANGED <<files, touched, gap>>
  BY <1>2, <1>3, LeaveTyped, OnlyProc DEF TypeInv, TypeOK
<1>4. CASE Discard(p)
  BY <1>2, <1>4, DiscardTyped
<1>5. ASSUME NEW n \in proc[p].names,
             files' = [files EXCEPT ![n] = "empty"], Touch({n}, Proc \ {p}),
             proc' = [proc EXCEPT ![p].stage = "fill", ![p].cur = n,
                        ![p].names = @ \ {n}, ![p].created = @ \union {n}]
      PROVE  TypeInv'
  <2> DEFINE r == [proc[p] EXCEPT !.stage = "fill", !.cur = n,
                     !.names = @ \ {n}, !.created = @ \union {n}]
  <2>1. n \in Pack /\ n \in Path
    BY <1>1 DEF Request, Path
  <2>2. r \in Request /\ r.stage = "fill" /\ r.cur = n /\ n \in r.created
    BY <1>1, <2>1, StageKinds DEF Request
  <2>3. proc' = [proc EXCEPT ![p] = r]
    BY <1>5
  <2> HIDE DEF r
  <2>4. proc' \in [Proc -> Request] /\ Alone(p) /\ proc'[p] = r
    BY <2>2, <2>3, Update DEF TypeInv
  <2>5. Standing(p)'
    BY <2>1, <2>2, <2>4 DEF Standing, Locked, Mover, At, Creating, Moving
  <2>6. touched' \subseteq Path /\ gap' \subseteq Path
    BY <1>5, <2>1, TouchTyped DEF TypeInv
  <2>7. files' \in [Path -> Content]
    BY <1>5 DEF TypeInv, TypeOK, Content
  <2> QED
    BY <1>2, <2>4, <2>5, <2>6, <2>7, OnlyProc DEF TypeInv, TypeOK
<1> QED
  BY <1>3, <1>4, <1>5 DEF Reserve

LEMMA FillTyped == ASSUME TypeInv, NEW p \in Proc, Fill(p) PROVE TypeInv'
<1> DEFINE n == proc[p].cur
<1>1. At(p) = "fill" /\ proc[p] \in Request /\ Standing(p) /\ n \in Pack /\ n \in Path
  BY DEF Fill, At, TypeInv, TypeOK, Standing, Path
<1>2. UNCHANGED <<journals, moves, theirs>>
  BY DEF Fill
<1>3. CASE Discard(p) /\ UNCHANGED used
  BY <1>2, <1>3, DiscardTyped
<1>4. Touch({n}, Proc \ {p}) => touched' \subseteq Path /\ gap' \subseteq Path
  BY <1>1, TouchTyped DEF TypeInv
<1>5. CASE files' = [files EXCEPT ![n] = "pack"] /\ Touch({n}, Proc \ {p}) /\ Go(p, "reserve") /\ UNCHANGED used
  <2>1. proc' \in [Proc -> Request] /\ proc'[p] = [proc[p] EXCEPT !.stage = "reserve"] /\ Alone(p)
    BY <1>5, GoTyped, StageKinds DEF TypeInv
  <2>2. proc'[p].stage = "reserve"
    BY <1>1, <2>1 DEF Request
  <2>3. Standing(p)'
    BY <2>2 DEF Standing, Locked, Mover, At, Creating, Moving
  <2>4. files' \in [Path -> Content]
    BY <1>5 DEF TypeInv, TypeOK, Content
  <2> QED
    BY <1>2, <1>4, <1>5, <2>1, <2>3, <2>4, OnlyProc DEF TypeInv, TypeOK
<1>6. CASE Upset /\ files' = [files EXCEPT ![n] = "partial"] /\ Touch({n}, Proc \ {p}) /\ Leave(p)
  <2>1. files' \in [Path -> Content]
    BY <1>6 DEF TypeInv, TypeOK, Content
  <2> QED
    BY <1>2, <1>4, <1>6, <2>1, LeaveTyped, UpsetTyped, OnlyProc DEF TypeInv, TypeOK
<1> QED
  BY <1>3, <1>5, <1>6 DEF Fill

----------------------------------------------------------------------------
LEMMA FailTyped == ASSUME TypeInv, NEW p \in Proc, Fail(p) PROVE TypeInv'
<1>1. UNCHANGED <<journals, moves, theirs>> /\ Upset
  BY DEF Fail
<1>2. CASE proc[p].stage \in Creating /\ AbortCreate(p) /\ UNCHANGED <<files, touched, gap>>
  <2>1. Locked(p) /\ proc[p].stage \notin {"fill", "reserve"}
    BY <1>2 DEF Locked, Creating
  <2>2. Standing(p)'
    BY <1>1, <1>2, <2>1, AbortStands DEF Rows
  <2> QED
    BY <1>1, <1>2, <2>1, <2>2, AbortCreateTyped, UpsetTyped, OnlyProc DEF TypeInv, TypeOK
<1>3. CASE proc[p].stage \in Moving /\ AbortMove(p) /\ UNCHANGED <<files, touched, gap>>
  <2>1. Mover(p)
    BY <1>3 DEF Mover, At
  <2> QED
    BY <1>1, <1>3, <2>1, AbortMoveTyped, UpsetTyped, OnlyProc DEF TypeInv, TypeOK
<1>4. CASE Discard(p)
  BY <1>1, <1>4, DiscardTyped
<1>5. CASE Leave(p) /\ UNCHANGED <<files, touched, gap>>
  BY <1>1, <1>5, LeaveTyped, UpsetTyped, OnlyProc DEF TypeInv, TypeOK
<1> QED
  BY <1>2, <1>3, <1>4, <1>5 DEF Fail

LEMMA CrashTyped == ASSUME TypeInv, NEW p \in Proc, Crash(p) PROVE TypeInv'
  BY LeaveTyped, UpsetTyped, OnlyProc DEF Crash, TypeInv, TypeOK, ghosts

LEMMA EditTyped == ASSUME TypeInv, NEW x \in Path, Edit(x) PROVE TypeInv'
<1>1. UNCHANGED <<journals, moves, proc>> /\ Upset /\ Touch({x}, Proc)
  BY DEF Edit
<1>2. files' \in [Path -> Content] /\ theirs' \subseteq Path
  BY DEF Edit, TypeInv, TypeOK, Content
<1>3. touched' \subseteq Path /\ gap' \subseteq Path
  BY <1>1, TouchTyped DEF TypeInv
<1>4. TypeOK'
  BY <1>1, <1>2, <1>3, UpsetTyped DEF TypeInv, TypeOK
<1>5. ASSUME NEW p \in Proc PROVE Standing(p)'
  BY <1>1 DEF TypeInv, Standing, Locked, Mover, At, Rows
<1> QED
  BY <1>4, <1>5 DEF TypeInv

LEMMA StutterTyped == ASSUME TypeInv, UNCHANGED vars PROVE TypeInv'
<1>1. UNCHANGED <<files, journals, moves, proc, used, theirs, touched, gap>>
  BY DEF vars, ghosts
<1>2. TypeOK'
  BY <1>1 DEF TypeInv, TypeOK
<1>3. ASSUME NEW p \in Proc PROVE Standing(p)'
  BY <1>1 DEF TypeInv, Standing, Locked, Mover, At, Rows
<1> QED
  BY <1>2, <1>3 DEF TypeInv

LEMMA TypeInit == Init => TypeInv
<1> SUFFICES ASSUME Init PROVE TypeInv
  OBVIOUS
<1>1. files \in [Path -> Content] /\ theirs \subseteq Path
  BY DEF Init, Path, Content
<1>2. proc \in [Proc -> Request]
  BY IdleRequest DEF Init
<1>3. journals \in Seq(Journal) /\ moves \in Seq(Move)
  BY DEF Init
<1>4. TypeOK
  BY <1>1, <1>2, <1>3 DEF Init, TypeOK
<1>5. ASSUME NEW p \in Proc PROVE Standing(p)
  BY DEF Init, Idle, Standing, Locked, Mover, At, Creating, Moving
<1> QED
  BY <1>4, <1>5 DEF TypeInv

LEMMA TypeStep == TypeInv /\ [Next]_vars => TypeInv'
<1> SUFFICES ASSUME TypeInv, [Next]_vars PROVE TypeInv'
  OBVIOUS
<1>1. ASSUME NEW p \in Proc, Create(p) PROVE TypeInv'
  BY <1>1, AskCreateTyped, BeginTyped, CheckTyped, PublishTyped, BackupTyped, BindTyped,
     RenameTyped, CommitTyped, UndoRowTyped, EndUndoTyped DEF Create
<1>2. ASSUME NEW p \in Proc, Recover(p) PROVE TypeInv'
  BY <1>2, AskRecoverTyped, MarkTyped, RedoTyped DEF Recover
<1>3. ASSUME NEW p \in Proc, Migrate(p) PROVE TypeInv'
  BY <1>3, AskMigrateTyped, ClaimTyped, MoveAwayTyped, CopyTyped, VerifyHeldTyped, ArchiveTyped,
     ClearHeldTyped, FinishMoveTyped, PutBackTyped, EndMoveTyped DEF Migrate
<1>4. ASSUME NEW p \in Proc, Export(p) PROVE TypeInv'
  BY <1>4, AskExportTyped, ReserveTyped, FillTyped DEF Export
<1> QED
  BY <1>1, <1>2, <1>3, <1>4, FailTyped, CrashTyped, EditTyped, StutterTyped DEF Next

\* Whatever commands run together in a folder, and wherever they fail or die, the folder,
\* the journals and the records of the migrations keep their form (projects.py,
\* skill_migration.py, packs.py).
THEOREM ProjectTypeCorrect == Spec => []TypeOK
<1>1. TypeInv => TypeOK
  BY DEF TypeInv
<1> QED
  BY <1>1, TypeInit, TypeStep, PTL DEF Spec

----------------------------------------------------------------------------
(* Migrations.  Each record belongs to one command, which alone writes it. *)

\* What a record of a migration always says.
Sane(m) ==
  \A n \in Pack :
    /\ m.state[n] \in {"copied", "archived"} => m.copy[n] = "pack" /\ m.held[n] # "user"
    /\ m.copy[n] \in {"none", "partial", "pack"}
    /\ m.state[n] \in {"none", "pending", "claiming"} => m.held[n] = "none"

\* What it says at each step of the command that writes it.
Step(p) ==
  LET m == Mig(p)
      others(s) == \A n \in Pack \ {proc[p].cur} : m.state[n] \in s
      all(s) == \A n \in Pack : m.state[n] \in s
      cleared(n) == m.state[n] = "archived" => m.held[n] = "none"
  IN /\ At(p) = "claim" => all({"none", "pending", "copied"})
     /\ At(p) = "move" => others({"none", "pending", "copied"}) /\ m.state[proc[p].cur] = "claiming"
     /\ At(p) = "copy" => others({"none", "pending", "copied"}) /\ m.state[proc[p].cur] = "held"
     /\ At(p) = "verify" => all({"none", "copied"})
     /\ At(p) = "archive" => all({"none", "copied", "archived"}) /\ \A n \in Pack : cleared(n)
     /\ At(p) = "clear" => /\ all({"none", "copied", "archived"}) /\ m.state[proc[p].cur] = "archived"
                           /\ \A n \in Pack \ {proc[p].cur} : cleared(n)
     /\ At(p) = "finish" => all({"none", "archived"}) /\ \A n \in Pack : cleared(n)
     /\ At(p) = "back" /\ ~proc[p].bad =>
          \A n \in Pack \ proc[p].names : m.state[n] \in {"none", "pending", "restored"}

MoveInv ==
  /\ \A i \in DOMAIN moves : Sane(moves[i])
  /\ \A p, q \in Proc : Mover(p) /\ Mover(q) /\ proc[p].i = proc[q].i => p = q
  /\ \A p \in Proc : Step(p)

StatusKept == \A i \in DOMAIN moves : moves'[i].status = moves[i].status

\* A step of p that writes no record of another command.
LEMMA OwnMove ==
  ASSUME TypeInv, MoveInv, NEW p \in Proc, Alone(p),
         moves' = moves \/ (Mover(p) /\ \E m \in Move : SetMig(p, m) /\ Sane(m)),
         Mover(p)' => Mover(p) /\ proc'[p].i = proc[p].i /\ Step(p)'
  PROVE  MoveInv'
<1>1. /\ DOMAIN moves' = DOMAIN moves
      /\ \A l \in DOMAIN moves : l # proc[p].i \/ ~Mover(p) => moves'[l] = moves[l]
      /\ \A l \in DOMAIN moves : Sane(moves'[l])
  <2>1. CASE moves' = moves
    BY <2>1 DEF MoveInv
  <2>2. ASSUME Mover(p), NEW m \in Move, SetMig(p, m), Sane(m)
        PROVE  /\ DOMAIN moves' = DOMAIN moves
               /\ \A l \in DOMAIN moves : l # proc[p].i \/ ~Mover(p) => moves'[l] = moves[l]
               /\ \A l \in DOMAIN moves : Sane(moves'[l])
    <3>1. /\ DOMAIN moves' = DOMAIN moves /\ moves'[proc[p].i] = m
          /\ \A l \in DOMAIN moves \ {proc[p].i} : moves'[l] = moves[l]
      BY <2>2, MigTyped, MoveSet DEF SetMig, TypeInv
    <3> QED
      BY <2>2, <3>1 DEF MoveInv
  <2> QED
    BY <2>1, <2>2
<1>2. \A i \in DOMAIN moves' : Sane(moves[i])'
  BY <1>1 DEF Sane
<1>3. \A q \in Proc \ {p} : (Mover(q)' <=> Mover(q)) /\ proc'[q] = proc[q]
  BY DEF Alone, Mover, At
<1>4. ASSUME NEW q \in Proc, NEW t \in Proc, Mover(q)', Mover(t)', proc'[q].i = proc'[t].i PROVE q = t
  BY <1>3, <1>4 DEF MoveInv
<1>5. ASSUME NEW q \in Proc \ {p} PROVE Step(q)'
  <2>1. CASE ~Mover(q)
    BY <1>3, <2>1 DEF Step, Mover, At, Moving
  <2>2. CASE Mover(q)
    <3>1. proc[q].i \in DOMAIN moves /\ (proc[q].i # proc[p].i \/ ~Mover(p)) /\ Step(q)
      BY <2>2, MigTyped DEF MoveInv
    <3>2. Mig(q)' = Mig(q)
      BY <1>1, <1>3, <3>1 DEF Mig
    <3> QED
      BY <1>3, <3>1, <3>2 DEF Step, At
  <2> QED
    BY <2>1, <2>2
<1>6. Step(p)'
  BY DEF Step, Mover, At, Moving
<1> QED
  BY <1>2, <1>4, <1>5, <1>6 DEF MoveInv

\* No other command ever becomes a migration.
LEMMA CreateStays ==
  ASSUME TypeInv, NEW p \in Proc, Create(p)
  PROVE  moves' = moves /\ Alone(p) /\ ~Mover(p)' /\ At(p)' \notin {"reserve", "fill"}
<1>1. proc \in [Proc -> Request]
  BY DEF TypeInv, TypeOK
<1>2. CASE AskCreate(p)
  BY <1>1, <1>2 DEF AskCreate, Ask, Alone, Mover, At, Moving, Idle
<1>3. CASE Begin(p)
  BY <1>1, <1>3 DEF Begin, Leave, Alone, Mover, At, Moving, Idle, Request
<1>4. CASE CheckAgain(p)
  BY <1>1, <1>4 DEF CheckAgain, AbortCreate, Alone, Mover, At, Moving, Request
<1>5. CASE Publish(p)
  BY <1>1, <1>5 DEF Publish, Go, AbortCreate, Alone, Mover, At, Moving, Request
<1>6. CASE Backup(p)
  BY <1>1, <1>6 DEF Backup, Go, Alone, Mover, At, Moving, Request
<1>7. CASE Bind(p)
  BY <1>1, <1>7 DEF Bind, Go, Alone, Mover, At, Moving, Request
<1>8. CASE Rename(p)
  BY <1>1, <1>8 DEF Rename, AbortCreate, Alone, Mover, At, Moving, Request
<1>9. CASE Commit(p)
  BY <1>1, <1>9 DEF Commit, Leave, Alone, Mover, At, Moving, Idle
<1>10. CASE UndoRow(p)
  BY <1>1, <1>10 DEF UndoRow, Leave, Alone, Mover, At, Moving, Idle, Request
<1>11. CASE EndUndo(p)
  BY <1>1, <1>11 DEF EndUndo, Leave, Alone, Mover, At, Moving, Idle
<1> QED
  BY <1>2, <1>3, <1>4, <1>5, <1>6, <1>7, <1>8, <1>9, <1>10, <1>11 DEF Create

LEMMA RecoverStays ==
  ASSUME TypeInv, NEW p \in Proc, Recover(p)
  PROVE  moves' = moves /\ Alone(p) /\ ~Mover(p)' /\ At(p)' \notin {"reserve", "fill"}
<1>1. proc \in [Proc -> Request]
  BY DEF TypeInv, TypeOK
<1>2. CASE AskRecover(p)
  BY <1>1, <1>2 DEF AskRecover, Alone, Mover, At, Moving, Request
<1>3. CASE MarkAbsent(p)
  BY <1>1, <1>3 DEF MarkAbsent, Go, Leave, Alone, Mover, At, Moving, Idle, Request
<1>4. CASE Redo(p)
  BY <1>1, <1>4 DEF Redo, Leave, Alone, Mover, At, Moving, Idle, Request
<1> QED
  BY <1>2, <1>3, <1>4 DEF Recover

LEMMA ExportStays ==
  ASSUME TypeInv, NEW p \in Proc, Export(p) PROVE moves' = moves /\ Alone(p) /\ ~Mover(p)'
<1>1. proc \in [Proc -> Request]
  BY DEF TypeInv, TypeOK
<1>2. CASE AskExport(p)
  BY <1>1, <1>2 DEF AskExport, Ask, Alone, Mover, At, Moving, Idle
<1>3. CASE Reserve(p)
  <2>1. moves' = moves
    BY <1>3 DEF Reserve
  <2>2. Leave(p) => Alone(p) /\ ~Mover(p)'
    BY LeaveTyped DEF TypeInv, Idle, Mover, At, Moving
  <2>3. ASSUME NEW n,
               proc' = [proc EXCEPT ![p].stage = "fill", ![p].cur = n,
                          ![p].names = @ \ {n}, ![p].created = @ \union {n}]
        PROVE  Alone(p) /\ ~Mover(p)'
    BY <1>1, <2>3 DEF Alone, Mover, At, Moving, Request
  <2> QED
    BY <1>3, <2>1, <2>2, <2>3 DEF Reserve, Discard
<1>4. CASE Fill(p)
  BY <1>1, <1>4 DEF Fill, Discard, Go, Leave, Alone, Mover, At, Moving, Idle, Request
<1> QED
  BY <1>2, <1>3, <1>4 DEF Export

----------------------------------------------------------------------------
(* The steps of a migration. *)

\* Where p goes on in the record it writes.
LEMMA GoAt ==
  ASSUME TypeInv, NEW p \in Proc, Mover(p), NEW s \in Moving,
         \/ Go(p, s)
         \/ \E n \in Pack : proc' = [proc EXCEPT ![p].stage = s, ![p].cur = n]
  PROVE  /\ Alone(p) /\ proc'[p].stage = s /\ proc'[p].i = proc[p].i
         /\ Go(p, s) => proc'[p].cur = proc[p].cur
         /\ \A n \in Pack : proc' = [proc EXCEPT ![p].stage = s, ![p].cur = n] => proc'[p].cur = n
  BY DEF Go, Alone, TypeInv, TypeOK, Request

LEMMA BackAt ==
  ASSUME TypeInv, NEW p \in Proc, Mover(p), AbortMove(p)
  PROVE  /\ Alone(p) /\ proc'[p].stage = "back" /\ proc'[p].i = proc[p].i
         /\ proc'[p].names = Planned(Mig(p)) /\ proc'[p].bad = FALSE
  BY DEF AbortMove, Alone, TypeInv, TypeOK, Request

LEMMA MigSet ==
  ASSUME TypeInv, NEW p \in Proc, Mover(p), NEW m \in Move, SetMig(p, m), proc'[p].i = proc[p].i
  PROVE  Mig(p)' = m /\ (Mig(p).status = m.status => StatusKept)
<1>1. /\ moves'[proc[p].i] = m
      /\ \A l \in DOMAIN moves \ {proc[p].i} : moves'[l] = moves[l]
  BY MigTyped, MoveSet DEF SetMig, TypeInv
<1> QED
  BY <1>1 DEF Mig, StatusKept

\* A migration that stops leaves its record sound.
LEMMA BackStep ==
  ASSUME TypeInv, MoveInv, NEW p \in Proc, Mover(p), AbortMove(p),
         \/ moves' = moves
         \/ \E m \in Move : /\ SetMig(p, m) /\ Sane(m)
                            /\ \A n \in Pack : Mig(p).state[n] = "none" => m.state[n] = "none"
  PROVE  MoveInv'
<1>1. /\ Alone(p) /\ proc'[p].stage = "back" /\ proc'[p].i = proc[p].i
      /\ proc'[p].names = Planned(Mig(p))
  BY BackAt
<1>2. \A n \in Pack \ proc'[p].names : Mig(p).state[n] = "none"
  BY <1>1, MigTyped DEF Planned, InState
<1>3. \A n \in Pack \ proc'[p].names : Mig(p)'.state[n] = "none"
  <2>1. CASE moves' = moves
    BY <1>1, <1>2, <2>1 DEF Mig
  <2>2. CASE moves' # moves
    BY <1>1, <1>2, <2>2, MigSet
  <2> QED
    BY <2>1, <2>2
<1>4. Step(p)'
  BY <1>1, <1>3 DEF Step, At
<1> QED
  BY <1>1, <1>4, OwnMove

LEMMA LeaveStep ==
  ASSUME TypeInv, MoveInv, NEW p \in Proc, Leave(p),
         moves' = moves \/ (Mover(p) /\ \E m \in Move : SetMig(p, m) /\ Sane(m))
  PROVE  MoveInv'
<1>1. Alone(p) /\ ~Mover(p)'
  BY LeaveTyped DEF TypeInv, Idle, Mover, At, Moving
<1> QED
  BY <1>1, OwnMove

LEMMA AskMigrateStep == ASSUME TypeInv, MoveInv, NEW p \in Proc, AskMigrate(p) PROVE MoveInv' /\ StatusKept
<1> DEFINE state(rows) == [n \in Pack |-> IF n \in rows THEN "pending" ELSE "none"]
           m(rows) == [status |-> "preparing", held |-> NoTrees, copy |-> NoTrees, state |-> state(rows)]
           r == [Idle EXCEPT !.stage = "claim", !.i = Len(moves) + 1]
<1>1. PICK rows : Ask(p, r) /\ moves' = Append(moves, m(rows))
  BY DEF AskMigrate
<1>2. /\ Sane(m(rows)) /\ \A n \in Pack : m(rows).state[n] \in {"none", "pending"}
  BY DEF Sane, NoTrees
<1>3. /\ DOMAIN moves' = DOMAIN moves \union {Len(moves) + 1} /\ moves'[Len(moves) + 1] = m(rows)
      /\ \A l \in DOMAIN moves : moves'[l] = moves[l]
      /\ Len(moves) + 1 \notin DOMAIN moves
  BY <1>1 DEF TypeInv, TypeOK
<1>4. r.stage = "claim" /\ r.i = Len(moves) + 1
  BY DEF Idle
<1> HIDE DEF m, r
<1>5. Alone(p) /\ proc'[p] = r /\ ~Mover(p)
  BY <1>1 DEF Ask, Alone, TypeInv, TypeOK, Mover, At, Moving
<1>6. \A i \in DOMAIN moves' : Sane(moves[i])'
  BY <1>2, <1>3 DEF MoveInv, Sane
<1>7. \A q \in Proc \ {p} : (Mover(q)' <=> Mover(q)) /\ proc'[q] = proc[q]
  BY <1>5 DEF Alone, Mover, At
<1>8. \A q \in Proc \ {p} : Mover(q) => proc[q].i \in DOMAIN moves
  BY MigTyped
<1>9. ASSUME NEW q \in Proc, NEW t \in Proc, Mover(q)', Mover(t)', proc'[q].i = proc'[t].i PROVE q = t
  BY <1>3, <1>4, <1>5, <1>7, <1>8, <1>9 DEF MoveInv
<1>10. ASSUME NEW q \in Proc \ {p} PROVE Step(q)'
  <2>1. CASE ~Mover(q)
    BY <1>7, <2>1 DEF Step, Mover, At, Moving
  <2>2. CASE Mover(q)
    <3>1. Mig(q)' = Mig(q) /\ Step(q)
      BY <1>3, <1>7, <1>8, <2>2 DEF Mig, MoveInv
    <3> QED
      BY <1>7, <3>1 DEF Step, At
  <2> QED
    BY <2>1, <2>2
<1>11. Step(p)'
  <2>1. Mig(p)' = m(rows) /\ proc'[p].stage = "claim"
    BY <1>3, <1>4, <1>5 DEF Mig
  <2> QED
    BY <1>2, <2>1 DEF Step, At
<1> QED
  BY <1>3, <1>6, <1>9, <1>10, <1>11 DEF MoveInv, StatusKept

LEMMA ClaimStep == ASSUME TypeInv, MoveInv, NEW p \in Proc, Claim(p) PROVE MoveInv' /\ StatusKept
<1>1. /\ Mover(p) /\ {"verify", "move"} \subseteq Moving /\ "claiming" \in RowState
      /\ \A n \in Pack : Mig(p).state[n] \in {"none", "pending", "copied"}
  BY DEF Claim, Mover, At, Moving, RowState, MoveInv, Step
<1>2. CASE InState(Mig(p), {"pending"}) = {} /\ Go(p, "verify") /\ UNCHANGED moves
  <2>1. Alone(p) /\ proc'[p].stage = "verify" /\ proc'[p].i = proc[p].i
    BY <1>1, <1>2, GoAt
  <2>2. Mig(p)' = Mig(p) /\ \A n \in Pack : Mig(p).state[n] \in {"none", "copied"}
    BY <1>1, <1>2, <2>1 DEF Mig, InState
  <2>3. Step(p)'
    BY <2>1, <2>2 DEF Step, At
  <2> QED
    BY <1>1, <1>2, <2>1, <2>3, OwnMove DEF StatusKept
<1>3. CASE AbortMove(p) /\ UNCHANGED moves
  BY <1>1, <1>3, BackStep DEF StatusKept
<1>4. ASSUME NEW n \in InState(Mig(p), {"pending"}), SetMig(p, [Mig(p) EXCEPT !.state[n] = "claiming"]),
             proc' = [proc EXCEPT ![p].stage = "move", ![p].cur = n]
      PROVE  MoveInv' /\ StatusKept
  <2> DEFINE m == [Mig(p) EXCEPT !.state[n] = "claiming"]
  <2>1. n \in Pack /\ Mig(p).state[n] = "pending"
    BY <1>4 DEF InState
  <2>2. m \in Move
    BY <1>1, <2>1, MigTyped, MoveChanged DEF Content
  <2>3. /\ m.state = [Mig(p).state EXCEPT ![n] = "claiming"] /\ m.held = Mig(p).held
        /\ m.copy = Mig(p).copy /\ m.status = Mig(p).status
    BY <1>1, MigTyped DEF Move
  <2>4. SetMig(p, m)
    BY <1>4
  <2> HIDE DEF m
  <2>5. Sane(Mig(p)) /\ Mig(p).state \in [Pack -> RowState]
    BY <1>1, MigTyped DEF MoveInv, Mig
  <2>6. Sane(m)
    BY <2>1, <2>3, <2>5 DEF Sane
  <2>7. Alone(p) /\ proc'[p].stage = "move" /\ proc'[p].i = proc[p].i /\ proc'[p].cur = n
    BY <1>1, <1>4, <2>1, GoAt
  <2>8. Mig(p)' = m /\ StatusKept
    BY <1>1, <2>2, <2>3, <2>4, <2>7, MigSet
  <2>9. Step(p)'
    BY <1>1, <2>1, <2>3, <2>5, <2>7, <2>8 DEF Step, At
  <2> QED
    BY <1>1, <2>2, <2>4, <2>6, <2>7, <2>8, <2>9, OwnMove
<1> QED
  BY <1>2, <1>3, <1>4 DEF Claim

LEMMA MoveAwayStep == ASSUME TypeInv, MoveInv, NEW p \in Proc, MoveAway(p) PROVE MoveInv' /\ StatusKept
<1> DEFINE n == proc[p].cur
           back == [Mig(p) EXCEPT !.state[n] = "pending"]
           held == [Mig(p) EXCEPT !.state[n] = "held", !.held[n] = files[n]]
<1>1. Mover(p) /\ At(p) = "move" /\ "copy" \in Moving /\ {"pending", "held"} \subseteq RowState
  BY DEF MoveAway, Mover, At, Moving, RowState
<1>2. n \in Pack /\ files[n] \in Content
  BY <1>1, MigTyped DEF Standing, Path, TypeInv, TypeOK
<1>3. /\ Sane(Mig(p)) /\ Mig(p).state[n] = "claiming"
      /\ \A l \in Pack \ {n} : Mig(p).state[l] \in {"none", "pending", "copied"}
  BY <1>1, MigTyped DEF MoveInv, Mig, Step
<1>4. /\ Mig(p).state \in [Pack -> RowState] /\ Mig(p).held \in [Pack -> Content]
      /\ back \in Move /\ held \in Move
  BY <1>1, <1>2, MigTyped, MoveChanged
<1>5. /\ back.state = [Mig(p).state EXCEPT ![n] = "pending"] /\ back.held = Mig(p).held
      /\ back.copy = Mig(p).copy /\ back.status = Mig(p).status
      /\ held.state = [Mig(p).state EXCEPT ![n] = "held"]
      /\ held.held = [Mig(p).held EXCEPT ![n] = files[n]]
      /\ held.copy = Mig(p).copy /\ held.status = Mig(p).status
  BY <1>1, MigTyped DEF Move
<1>6. (SetMig(p, back) /\ AbortMove(p)) \/ (SetMig(p, held) /\ Go(p, "copy"))
  BY DEF MoveAway
<1> HIDE DEF back, held, n
<1>7. Sane(back) /\ Sane(held)
  BY <1>2, <1>3, <1>4, <1>5 DEF Sane
<1>8. CASE SetMig(p, back) /\ AbortMove(p)
  <2>1. \A l \in Pack : Mig(p).state[l] = "none" => back.state[l] = "none"
    BY <1>3, <1>4, <1>5
  <2>2. proc'[p].i = proc[p].i
    BY <1>1, <1>8, BackAt
  <2> QED
    BY <1>1, <1>4, <1>5, <1>7, <1>8, <2>1, <2>2, BackStep, MigSet
<1>9. CASE SetMig(p, held) /\ Go(p, "copy")
  <2>1. Alone(p) /\ proc'[p].stage = "copy" /\ proc'[p].i = proc[p].i /\ proc'[p].cur = n
    BY <1>1, <1>9, GoAt DEF n
  <2>2. Mig(p)' = held /\ StatusKept
    BY <1>1, <1>4, <1>5, <1>9, <2>1, MigSet
  <2>3. Step(p)'
    BY <1>2, <1>3, <1>4, <1>5, <2>1, <2>2 DEF Step, At
  <2> QED
    BY <1>1, <1>4, <1>7, <1>9, <2>1, <2>2, <2>3, OwnMove
<1> QED
  BY <1>6, <1>8, <1>9

LEMMA CopyStep == ASSUME TypeInv, MoveInv, NEW p \in Proc, Copy(p) PROVE MoveInv' /\ StatusKept
<1> DEFINE n == proc[p].cur
           whole == [Mig(p) EXCEPT !.state[n] = "copied", !.copy[n] = Mig(p).held[n]]
           part == [Mig(p) EXCEPT !.copy[n] = "partial"]
<1>1. Mover(p) /\ At(p) = "copy" /\ "claim" \in Moving /\ "copied" \in RowState
  BY DEF Copy, Mover, At, Moving, RowState
<1>2. n \in Pack /\ "partial" \in Content
  BY <1>1, MigTyped DEF Standing, Content
<1>3. /\ Sane(Mig(p)) /\ Mig(p).state[n] = "held"
      /\ \A l \in Pack \ {n} : Mig(p).state[l] \in {"none", "pending", "copied"}
  BY <1>1, MigTyped DEF MoveInv, Mig, Step
<1>4. /\ Mig(p).state \in [Pack -> RowState] /\ Mig(p).copy \in [Pack -> Content]
      /\ whole \in Move /\ part \in Move
  BY <1>1, <1>2, MigTyped, MoveChanged
<1>5. /\ whole.state = [Mig(p).state EXCEPT ![n] = "copied"] /\ whole.held = Mig(p).held
      /\ whole.copy = [Mig(p).copy EXCEPT ![n] = Mig(p).held[n]] /\ whole.status = Mig(p).status
      /\ part.state = Mig(p).state /\ part.held = Mig(p).held
      /\ part.copy = [Mig(p).copy EXCEPT ![n] = "partial"] /\ part.status = Mig(p).status
  BY <1>1, MigTyped DEF Move
<1>6. \/ AbortMove(p) /\ UNCHANGED moves
      \/ Mig(p).held[n] = "pack" /\ SetMig(p, whole) /\ Go(p, "claim")
      \/ SetMig(p, part) /\ AbortMove(p)
  BY DEF Copy, Sound
<1> HIDE DEF whole, part, n
<1>7. Sane(part) /\ (Mig(p).held[n] = "pack" => Sane(whole))
  BY <1>2, <1>3, <1>4, <1>5 DEF Sane
<1>8. CASE AbortMove(p) /\ UNCHANGED moves
  BY <1>1, <1>8, BackStep DEF StatusKept
<1>9. CASE Mig(p).held[n] = "pack" /\ SetMig(p, whole) /\ Go(p, "claim")
  <2>1. Alone(p) /\ proc'[p].stage = "claim" /\ proc'[p].i = proc[p].i
    BY <1>1, <1>9, GoAt
  <2>2. Mig(p)' = whole /\ StatusKept
    BY <1>1, <1>4, <1>5, <1>9, <2>1, MigSet
  <2>3. Step(p)'
    BY <1>2, <1>3, <1>4, <1>5, <2>1, <2>2 DEF Step, At
  <2> QED
    BY <1>1, <1>4, <1>7, <1>9, <2>1, <2>2, <2>3, OwnMove
<1>10. CASE SetMig(p, part) /\ AbortMove(p)
  <2>1. proc'[p].i = proc[p].i
    BY <1>1, <1>10, BackAt
  <2> QED
    BY <1>1, <1>4, <1>5, <1>7, <1>10, <2>1, BackStep, MigSet
<1> QED
  BY <1>6, <1>8, <1>9, <1>10

\* A record that only gets another status stays sound.
LEMMA StatusOnly ==
  ASSUME TypeInv, MoveInv, NEW p \in Proc, Mover(p),
         NEW s \in {"copied", "committed", "rolled_back", "incomplete"}
  PROVE  LET m == [Mig(p) EXCEPT !.status = s]
         IN /\ m \in Move /\ Sane(m) /\ m.status = s
            /\ m.state = Mig(p).state /\ m.held = Mig(p).held /\ m.copy = Mig(p).copy
<1>1. Mig(p) \in Move /\ Sane(Mig(p))
  BY MigTyped DEF MoveInv, Mig
<1> QED
  BY <1>1, MoveEnded DEF Move, Sane

LEMMA VerifyHeldStep == ASSUME TypeInv, MoveInv, NEW p \in Proc, VerifyHeld(p) PROVE MoveInv'
<1> DEFINE m == [Mig(p) EXCEPT !.status = "copied"]
<1>1. /\ Mover(p) /\ "archive" \in Moving
      /\ \A n \in Pack : Mig(p).state[n] \in {"none", "copied"}
  BY DEF VerifyHeld, Mover, At, Moving, MoveInv, Step
<1>2. m \in Move /\ Sane(m) /\ m.state = Mig(p).state
  BY <1>1, StatusOnly
<1>3. SetMig(p, m) /\ Go(p, "archive")
  BY DEF VerifyHeld
<1> HIDE DEF m
<1>4. Alone(p) /\ proc'[p].stage = "archive" /\ proc'[p].i = proc[p].i
  BY <1>1, <1>3, GoAt
<1>5. Mig(p)' = m
  BY <1>1, <1>2, <1>3, <1>4, MigSet
<1>6. Step(p)'
  BY <1>1, <1>2, <1>4, <1>5 DEF Step, At
<1> QED
  BY <1>1, <1>2, <1>3, <1>4, <1>6, OwnMove

LEMMA ArchiveStep == ASSUME TypeInv, MoveInv, NEW p \in Proc, Archive(p) PROVE MoveInv' /\ StatusKept
<1>1. /\ Mover(p) /\ {"finish", "clear"} \subseteq Moving /\ "archived" \in RowState
      /\ \A n \in Pack : /\ Mig(p).state[n] \in {"none", "copied", "archived"}
                         /\ Mig(p).state[n] = "archived" => Mig(p).held[n] = "none"
  BY DEF Archive, Mover, At, Moving, RowState, MoveInv, Step
<1>2. CASE InState(Mig(p), {"copied"}) = {} /\ Go(p, "finish") /\ UNCHANGED moves
  <2>1. Alone(p) /\ proc'[p].stage = "finish" /\ proc'[p].i = proc[p].i
    BY <1>1, <1>2, GoAt
  <2>2. Mig(p)' = Mig(p) /\ \A n \in Pack : Mig(p).state[n] \in {"none", "archived"}
    BY <1>1, <1>2, <2>1 DEF Mig, InState
  <2>3. Step(p)'
    BY <1>1, <2>1, <2>2 DEF Step, At
  <2> QED
    BY <1>1, <1>2, <2>1, <2>3, OwnMove DEF StatusKept
<1>3. ASSUME NEW n \in InState(Mig(p), {"copied"}), SetMig(p, [Mig(p) EXCEPT !.state[n] = "archived"]),
             proc' = [proc EXCEPT ![p].stage = "clear", ![p].cur = n]
      PROVE  MoveInv' /\ StatusKept
  <2> DEFINE m == [Mig(p) EXCEPT !.state[n] = "archived"]
  <2>1. n \in Pack /\ Mig(p).state[n] = "copied"
    BY <1>3 DEF InState
  <2>2. m \in Move
    BY <1>1, <2>1, MigTyped, MoveChanged DEF Content
  <2>3. /\ m.state = [Mig(p).state EXCEPT ![n] = "archived"] /\ m.held = Mig(p).held
        /\ m.copy = Mig(p).copy /\ m.status = Mig(p).status
    BY <1>1, MigTyped DEF Move
  <2>4. SetMig(p, m)
    BY <1>3
  <2> HIDE DEF m
  <2>5. Sane(Mig(p)) /\ Mig(p).state \in [Pack -> RowState]
    BY <1>1, MigTyped DEF MoveInv, Mig
  <2>6. Sane(m)
    BY <2>1, <2>3, <2>5 DEF Sane
  <2>7. Alone(p) /\ proc'[p].stage = "clear" /\ proc'[p].i = proc[p].i /\ proc'[p].cur = n
    BY <1>1, <1>3, <2>1, GoAt
  <2>8. Mig(p)' = m /\ StatusKept
    BY <1>1, <2>2, <2>3, <2>4, <2>7, MigSet
  <2>9. Step(p)'
    BY <1>1, <2>1, <2>3, <2>5, <2>7, <2>8 DEF Step, At
  <2> QED
    BY <1>1, <2>2, <2>4, <2>6, <2>7, <2>8, <2>9, OwnMove
<1> QED
  BY <1>2, <1>3 DEF Archive

LEMMA ClearHeldStep == ASSUME TypeInv, MoveInv, NEW p \in Proc, ClearHeld(p) PROVE MoveInv' /\ StatusKept
<1> DEFINE n == proc[p].cur
           gone == [Mig(p) EXCEPT !.held[n] = "none"]
           part == [Mig(p) EXCEPT !.held[n] = "partial"]
<1>1. Mover(p) /\ At(p) = "clear" /\ "archive" \in Moving
  BY DEF ClearHeld, Mover, At, Moving
<1>2. n \in Pack /\ {"none", "partial"} \subseteq Content
  BY <1>1, MigTyped DEF Standing, Content
<1>3. /\ Sane(Mig(p)) /\ Mig(p).state[n] = "archived"
      /\ \A l \in Pack : Mig(p).state[l] \in {"none", "copied", "archived"}
      /\ \A l \in Pack \ {n} : Mig(p).state[l] = "archived" => Mig(p).held[l] = "none"
  BY <1>1, MigTyped DEF MoveInv, Mig, Step
<1>4. Mig(p).held \in [Pack -> Content] /\ gone \in Move /\ part \in Move
  BY <1>1, <1>2, MigTyped, MoveChanged DEF RowState
<1>5. /\ gone.state = Mig(p).state /\ gone.held = [Mig(p).held EXCEPT ![n] = "none"]
      /\ gone.copy = Mig(p).copy /\ gone.status = Mig(p).status
      /\ part.state = Mig(p).state /\ part.held = [Mig(p).held EXCEPT ![n] = "partial"]
      /\ part.copy = Mig(p).copy /\ part.status = Mig(p).status
  BY <1>1, MigTyped DEF Move
<1>6. \/ SetMig(p, gone) /\ Go(p, "archive")
      \/ SetMig(p, part) /\ Leave(p)
      \/ SetMig(p, part) /\ proc' = [proc EXCEPT ![p].stage = "back", ![p].names = Planned(Mig(p))]
  BY DEF ClearHeld
<1> HIDE DEF gone, part, n
<1>7. Sane(gone) /\ Sane(part)
  BY <1>2, <1>3, <1>4, <1>5 DEF Sane
<1>8. CASE SetMig(p, gone) /\ Go(p, "archive")
  <2>1. Alone(p) /\ proc'[p].stage = "archive" /\ proc'[p].i = proc[p].i
    BY <1>1, <1>8, GoAt
  <2>2. Mig(p)' = gone /\ StatusKept
    BY <1>1, <1>4, <1>5, <1>8, <2>1, MigSet
  <2>3. Step(p)'
    BY <1>2, <1>3, <1>4, <1>5, <2>1, <2>2 DEF Step, At
  <2> QED
    BY <1>1, <1>4, <1>7, <1>8, <2>1, <2>2, <2>3, OwnMove
<1>9. CASE SetMig(p, part) /\ Leave(p)
  <2>1. MoveInv'
    BY <1>1, <1>4, <1>7, <1>9, LeaveStep
  <2>2. /\ moves'[proc[p].i] = part
        /\ \A l \in DOMAIN moves \ {proc[p].i} : moves'[l] = moves[l]
    BY <1>1, <1>4, <1>9, MigTyped, MoveSet DEF SetMig, TypeInv
  <2> QED
    BY <1>5, <2>1, <2>2 DEF StatusKept, Mig
<1>10. CASE /\ SetMig(p, part)
            /\ proc' = [proc EXCEPT ![p].stage = "back", ![p].names = Planned(Mig(p))]
  <2>1. Alone(p) /\ proc'[p].stage = "back" /\ proc'[p].i = proc[p].i /\ proc'[p].names = Planned(Mig(p))
    BY <1>1, <1>10, MigTyped DEF Alone, TypeInv, TypeOK, Request
  <2>2. Mig(p)' = part /\ StatusKept
    BY <1>1, <1>4, <1>5, <1>10, <2>1, MigSet
  <2>3. \A l \in Pack \ proc'[p].names : Mig(p)'.state[l] = "none"
    BY <1>1, <1>5, <2>1, <2>2, MigTyped DEF Planned, InState
  <2>4. Step(p)'
    BY <2>1, <2>3 DEF Step, At
  <2> QED
    BY <1>1, <1>4, <1>7, <1>10, <2>1, <2>2, <2>4, OwnMove
<1> QED
  BY <1>6, <1>8, <1>9, <1>10

LEMMA PutBackStep == ASSUME TypeInv, MoveInv, NEW p \in Proc, PutBackRow(p) PROVE MoveInv' /\ StatusKept
<1>1. Mover(p) /\ At(p) = "back" /\ "restored" \in RowState /\ "none" \in Content
  BY DEF PutBackRow, Mover, At, RowState, Content
<1>2. PICK n \in proc[p].names, bad \in BOOLEAN :
        /\ proc' = [proc EXCEPT ![p].names = @ \ {n}, ![p].bad = @ \/ bad]
        /\ \/ UNCHANGED moves /\ (bad \/ Mig(p).state[n] = "pending")
           \/ SetMig(p, [Mig(p) EXCEPT !.state[n] = "restored",
                           !.held[n] = IF @ = From(Mig(p), n) THEN "none" ELSE @])
  BY DEF PutBackRow
<1>3. /\ n \in Pack /\ proc[p] \in Request /\ Sane(Mig(p)) /\ Mig(p).state \in [Pack -> RowState]
      /\ Mig(p).held \in [Pack -> Content]
      /\ ~proc[p].bad => \A l \in Pack \ proc[p].names : Mig(p).state[l] \in {"none", "pending", "restored"}
  BY <1>1, MigTyped DEF Request, MoveInv, Mig, Step
<1>4. /\ Alone(p) /\ proc'[p].stage = "back" /\ proc'[p].i = proc[p].i
      /\ proc'[p].names = proc[p].names \ {n} /\ proc'[p].bad = (proc[p].bad \/ bad)
  BY <1>1, <1>2, <1>3 DEF Alone, TypeInv, TypeOK, Request, At
<1>5. CASE UNCHANGED moves /\ (bad \/ Mig(p).state[n] = "pending")
  <2>1. Mig(p)' = Mig(p)
    BY <1>4, <1>5 DEF Mig
  <2>2. Step(p)'
    BY <1>3, <1>4, <1>5, <2>1 DEF Step, At
  <2> QED
    BY <1>1, <1>4, <1>5, <2>2, OwnMove DEF StatusKept
<1> DEFINE h == IF Mig(p).held[n] = From(Mig(p), n) THEN "none" ELSE Mig(p).held[n]
           m == [Mig(p) EXCEPT !.state[n] = "restored", !.held[n] = h]
<1>6. CASE SetMig(p, m)
  <2>1. h \in Content
    BY <1>1, <1>3
  <2>2. m \in Move
    BY <1>1, <1>3, <2>1, MigTyped, MoveChanged
  <2>3. /\ m.state = [Mig(p).state EXCEPT ![n] = "restored"] /\ m.held = [Mig(p).held EXCEPT ![n] = h]
        /\ m.copy = Mig(p).copy /\ m.status = Mig(p).status
    BY <1>1, MigTyped DEF Move
  <2> HIDE DEF m, h
  <2>4. Sane(m)
    BY <1>3, <2>3 DEF Sane
  <2>5. Mig(p)' = m /\ StatusKept
    BY <1>1, <1>4, <1>6, <2>2, <2>3, MigSet
  <2>6. Step(p)'
    BY <1>3, <1>4, <2>3, <2>5 DEF Step, At
  <2> QED
    BY <1>1, <1>4, <1>6, <2>2, <2>4, <2>5, <2>6, OwnMove
<1> QED
  BY <1>2, <1>5, <1>6

\* What a status may be set to, and when.
Meant ==
  \A m \in DOMAIN moves :
    LET s == moves'[m].status  claimed == InState(moves'[m], RowState \ {"none", "pending"})
    IN moves[m].status # s =>
         /\ s = "committed" => /\ moves'[m].held = NoTrees
                               /\ \A n \in Planned(moves[m]) : moves'[m].copy[n] = "pack"
         /\ s = "rolled_back" => /\ moves'[m].held = NoTrees
                                 /\ InState(moves'[m], {"restored"}) = claimed

LEMMA MeansItsStatus ==
  ASSUME TypeInv, NEW p \in Proc, Mover(p), NEW m \in Move, SetMig(p, m),
         m.status = "committed" => m.held = NoTrees /\ \A n \in Planned(Mig(p)) : m.copy[n] = "pack",
         m.status = "rolled_back" =>
           m.held = NoTrees /\ \A n \in Pack : m.state[n] \in {"none", "pending", "restored"}
  PROVE  Meant
<1>1. /\ moves'[proc[p].i] = m
      /\ \A l \in DOMAIN moves \ {proc[p].i} : moves'[l] = moves[l]
  BY MigTyped, MoveSet DEF SetMig, TypeInv
<1>2. m.status = "rolled_back" => InState(m, {"restored"}) = InState(m, RowState \ {"none", "pending"})
  BY DEF InState, RowState
<1> QED
  BY <1>1, <1>2 DEF Meant, Mig

LEMMA NewStatus ==
  ASSUME TypeInv, MoveInv, NEW p \in Proc, VerifyHeld(p) \/ FinishMove(p) \/ EndMove(p)
  PROVE  MoveInv' /\ Meant
<1>1. CASE VerifyHeld(p)
  <2>1. Mover(p)
    BY <1>1 DEF VerifyHeld, Mover, At, Moving
  <2> QED
    BY <1>1, <2>1, VerifyHeldStep, StatusOnly, MeansItsStatus DEF VerifyHeld
<1>2. CASE FinishMove(p)
  <2> DEFINE m == [Mig(p) EXCEPT !.status = "committed"]
  <2>1. /\ Mover(p) /\ Sane(Mig(p)) /\ Mig(p).held \in [Pack -> Content]
        /\ \A n \in Pack : /\ Mig(p).state[n] \in {"none", "archived"}
                           /\ Mig(p).state[n] = "archived" => Mig(p).held[n] = "none"
    <3>1. Mover(p) /\ At(p) = "finish"
      BY <1>2 DEF FinishMove, Mover, At, Moving
    <3> QED
      BY <3>1, MigTyped DEF MoveInv, Step, Mig
  <2>2. m \in Move /\ Sane(m) /\ m.status = "committed" /\ m.held = Mig(p).held /\ m.copy = Mig(p).copy
    BY <2>1, StatusOnly
  <2>3. SetMig(p, m) /\ Leave(p)
    BY <1>2 DEF FinishMove
  <2> HIDE DEF m
  <2>4. Mig(p).held = NoTrees
    BY <2>1 DEF Sane, NoTrees
  <2>5. \A n \in Planned(Mig(p)) : Mig(p).copy[n] = "pack"
    BY <2>1 DEF Planned, InState, Sane
  <2> QED
    BY <2>1, <2>2, <2>3, <2>4, <2>5, LeaveStep, MeansItsStatus
<1>3. CASE EndMove(p)
  <2> DEFINE s == IF Failed(proc[p], Mig(p)) THEN "incomplete" ELSE "rolled_back"
             m == [Mig(p) EXCEPT !.status = s]
  <2>1. Mover(p) /\ (~proc[p].bad => \A n \in Pack : Mig(p).state[n] \in {"none", "pending", "restored"})
    <3>1. Mover(p) /\ At(p) = "back" /\ proc[p].names = {}
      BY <1>3 DEF EndMove, Mover, At
    <3> QED
      BY <3>1 DEF MoveInv, Step
  <2>2. m \in Move /\ Sane(m) /\ m.status = s /\ m.held = Mig(p).held /\ m.state = Mig(p).state
    BY <2>1, StatusOnly
  <2>3. SetMig(p, m) /\ Leave(p)
    BY <1>3 DEF EndMove
  <2>4. s = "rolled_back" => Mig(p).held = NoTrees /\ ~proc[p].bad
    BY DEF Failed
  <2>5. s # "committed"
    OBVIOUS
  <2> HIDE DEF m, s
  <2> QED
    BY <2>1, <2>2, <2>3, <2>4, <2>5, LeaveStep, MeansItsStatus
<1> QED
  BY <1>1, <1>2, <1>3

LEMMA FailStep == ASSUME TypeInv, MoveInv, NEW p \in Proc, Fail(p) PROVE MoveInv' /\ StatusKept
<1>1. moves' = moves
  BY DEF Fail
<1>2. CASE proc[p].stage \in Creating /\ AbortCreate(p)
  <2>1. Alone(p) /\ ~Mover(p)'
    <3>1. Locked(p) /\ proc[p] \in Request
      BY <1>2 DEF Locked, TypeInv, TypeOK
    <3> QED
      BY <1>2, <3>1, AbortCreateTyped DEF Mover, At, Moving, Request
  <2> QED
    BY <1>1, <2>1, OwnMove DEF StatusKept
<1>3. CASE proc[p].stage \in Moving /\ AbortMove(p)
  BY <1>1, <1>3, BackStep DEF Mover, At, StatusKept
<1>4. CASE Leave(p)
  BY <1>1, <1>4, LeaveStep DEF StatusKept
<1> QED
  BY <1>2, <1>3, <1>4 DEF Fail, Discard

\* Steps of others: no record of a migration changes.
LEMMA OthersStep ==
  ASSUME TypeInv, MoveInv,
         \/ \E p \in Proc : Create(p) \/ Recover(p) \/ Export(p) \/ Crash(p)
         \/ \E x \in Path : Edit(x)
         \/ UNCHANGED vars
  PROVE  MoveInv' /\ StatusKept
<1>1. ASSUME NEW p \in Proc, Create(p) \/ Recover(p) \/ Export(p) PROVE MoveInv' /\ StatusKept
  <2>1. moves' = moves /\ Alone(p) /\ ~Mover(p)'
    BY <1>1, CreateStays, RecoverStays, ExportStays
  <2> QED
    BY <2>1, OwnMove DEF StatusKept
<1>2. ASSUME NEW p \in Proc, Crash(p) PROVE MoveInv' /\ StatusKept
  BY <1>2, LeaveStep DEF Crash, StatusKept
<1>3. CASE moves' = moves /\ proc' = proc
  <2>1. \A i \in DOMAIN moves' : Sane(moves[i])'
    BY <1>3 DEF MoveInv, Sane
  <2>2. \A p \in Proc : Step(p)'
    BY <1>3 DEF MoveInv, Step, Mig, At
  <2>3. \A p, q \in Proc : Mover(p)' /\ Mover(q)' /\ proc'[p].i = proc'[q].i => p = q
    BY <1>3 DEF MoveInv, Mover, At
  <2> QED
    BY <1>3, <2>1, <2>2, <2>3 DEF MoveInv, StatusKept
<1> QED
  BY <1>1, <1>2, <1>3 DEF Edit, vars

LEMMA MoveStep ==
  ASSUME TypeInv, MoveInv, [Next]_vars PROVE MoveInv' /\ Meant
<1>1. StatusKept => Meant
  BY DEF StatusKept, Meant
<1>2. ASSUME NEW p \in Proc, Migrate(p) PROVE MoveInv' /\ Meant
  BY <1>1, <1>2, AskMigrateStep, ClaimStep, MoveAwayStep, CopyStep, ArchiveStep, ClearHeldStep,
     PutBackStep, NewStatus DEF Migrate
<1> QED
  BY <1>1, <1>2, FailStep, OthersStep DEF Next

LEMMA MoveInit == Init => MoveInv
  BY DEF Init, MoveInv, Step, Mover, At, Moving, Idle

\* A skill that a migration has copied is whole in its holding folder or its archive,
\* wherever the migration fails or is killed, whatever the user does to the originals and
\* however many commands run beside it (skill_migration.py:110-113, 178-190).
THEOREM SkillsNeverLost == Spec => []NeverLost
<1>1. TypeInv /\ MoveInv => NeverLost
  BY DEF TypeInv, MoveInv, Sane, NeverLost
<1>2. Init => TypeInv /\ MoveInv
  BY TypeInit, MoveInit
<1>3. TypeInv /\ MoveInv /\ [Next]_vars => TypeInv' /\ MoveInv'
  BY TypeStep, MoveStep
<1> QED
  BY <1>1, <1>2, <1>3, PTL DEF Spec

\* "committed" is written only when every planned skill is in the archive, "rolled_back"
\* only when every claimed skill is visible again, and nothing is held in either case
\* (skill_migration.py:191-205).
THEOREM StatusMeans == Spec => MigrationMeans
<1>1. Init => TypeInv /\ MoveInv
  BY TypeInit, MoveInit
<1>2. TypeInv /\ MoveInv /\ [Next]_vars => TypeInv' /\ MoveInv' /\ [Meant]_vars
  BY TypeStep, MoveStep
<1> QED
  BY <1>1, <1>2, PTL DEF Spec, MigrationMeans, Meant

----------------------------------------------------------------------------
(* Creations.  One command at a time holds the lock and writes a journal. *)

Bounded(rows) == \A k \in DOMAIN rows : rows[k].applied # "unset"

\* What the journal of the command that holds the lock says at each of its steps.
Holds(p) ==
  LET rows == Rows(p)  k == proc[p].k
  IN /\ Locked(p) => journals[proc[p].i].status = "active"
     /\ At(p) = "check" => rows = <<>>
     /\ At(p) \in {"publish", "backup"} => Len(rows) = k - 1 /\ Bounded(rows)
     /\ At(p) = "bind" => Len(rows) = k /\ \A l \in DOMAIN rows \ {k} : rows[l].applied # "unset"
     /\ At(p) = "rename" => Len(rows) = k /\ Bounded(rows)
     /\ At(p) = "commit" => Bounded(rows)

RowsOk ==
  \A i \in DOMAIN journals :
    /\ \A k \in DOMAIN journals[i].rows : journals[i].rows[k].applied \in {"unset", "pack", "made"}
    /\ journals[i].status = "committed" => Bounded(journals[i].rows)

RowsInv ==
  /\ \A p, q \in Proc : Locked(p) /\ Locked(q) => p = q
  /\ \A p \in Proc : Holds(p)
  /\ RowsOk

\* What a journal says of a target it goes on saying.
RowsKept ==
  \A i \in DOMAIN journals :
    /\ i \in DOMAIN journals'
    /\ \A k \in DOMAIN journals[i].rows :
         /\ k \in DOMAIN journals'[i].rows
         /\ journals'[i].rows[k].path = journals[i].rows[k].path
         /\ journals'[i].rows[k].kind = journals[i].rows[k].kind

LEMMA OwnRows ==
  ASSUME TypeInv, RowsInv, NEW p \in Proc, Alone(p), Locked(p)' => Holds(p)', RowsOk',
         (journals' = journals /\ ~Locked(p)') \/ Locked(p) \/ Free
  PROVE  RowsInv'
<1>1. \A q \in Proc \ {p} : (Locked(q)' <=> Locked(q)) /\ proc'[q] = proc[q]
  BY DEF Alone, Locked
<1>2. ASSUME NEW q \in Proc, NEW t \in Proc, Locked(q)', Locked(t)' PROVE q = t
  BY <1>1, <1>2 DEF RowsInv, Free
<1>3. ASSUME NEW q \in Proc \ {p} PROVE Holds(q)'
  <2>1. CASE Locked(q)
    <3>1. journals' = journals
      BY <2>1 DEF RowsInv, Free
    <3> QED
      BY <1>1, <3>1 DEF RowsInv, Holds, Locked, Rows, At
  <2>2. CASE ~Locked(q)
    BY <1>1, <2>2 DEF Holds, Locked, At, Creating
  <2> QED
    BY <2>1, <2>2
<1>4. Holds(p)'
  BY DEF Holds, Locked, At, Creating
<1> QED
  BY <1>2, <1>3, <1>4 DEF RowsInv

LEMMA SameRows ==
  ASSUME journals' = journals PROVE (RowsOk => RowsOk') /\ RowsKept /\ Unbound' = Unbound
  BY DEF RowsOk, RowsKept, Bounded, Unbound

LEMMA RowKeeps ==
  ASSUME TypeInv, RowsInv, NEW i \in DOMAIN journals, journals[i].status = "active",
         NEW k \in DOMAIN journals[i].rows, NEW row \in Row,
         journals' = [journals EXCEPT ![i].rows[k] = row],
         row.path = journals[i].rows[k].path, row.kind = journals[i].rows[k].kind,
         row.applied \in {"unset", "pack", "made"},
         row.applied = "unset" => journals[i].rows[k].applied = "unset"
  PROVE  RowsOk' /\ RowsKept /\ Unbound' \subseteq Unbound
<1>1. /\ DOMAIN journals' = DOMAIN journals
      /\ journals'[i].rows = [journals[i].rows EXCEPT ![k] = row] /\ journals'[i].status = "active"
      /\ \A l \in DOMAIN journals \ {i} : journals'[l] = journals[l]
  BY RowSet DEF TypeInv
<1>2. journals[i].rows \in Seq(Row)
  BY JournalTyped DEF TypeInv
<1>3. /\ DOMAIN journals'[i].rows = DOMAIN journals[i].rows /\ journals'[i].rows[k] = row
      /\ \A l \in DOMAIN journals[i].rows \ {k} : journals'[i].rows[l] = journals[i].rows[l]
  BY <1>1, <1>2, SeqSet
<1>4. RowsOk'
  BY <1>1, <1>3 DEF RowsInv, RowsOk, Bounded
<1>5. RowsKept
  BY <1>1, <1>3 DEF RowsKept
<1>6. Unbound' \subseteq Unbound
  BY <1>1, <1>3 DEF Unbound
<1> QED
  BY <1>4, <1>5, <1>6

LEMMA StatusKeeps ==
  ASSUME TypeInv, RowsInv, NEW i \in DOMAIN journals,
         NEW s \in {"active", "incomplete", "committed", "rolled_back"},
         journals' = [journals EXCEPT ![i].status = s],
         s = "committed" => Bounded(journals[i].rows),
         s \in Unfinished => journals[i].status # "rolled_back"
  PROVE  RowsOk' /\ RowsKept /\ Unbound' \subseteq Unbound
<1>1. /\ DOMAIN journals' = DOMAIN journals /\ journals'[i].status = s
      /\ \A l \in DOMAIN journals : journals'[l].rows = journals[l].rows
      /\ \A l \in DOMAIN journals \ {i} : journals'[l] = journals[l]
  BY StatusSet DEF TypeInv
<1>2. RowsOk'
  BY <1>1 DEF RowsInv, RowsOk, Bounded
<1>3. RowsKept
  BY <1>1 DEF RowsKept
<1>4. journals[i].status \in {"active", "incomplete", "committed", "rolled_back"}
  BY JournalTyped DEF Journal, TypeInv
<1>5. s \in Unfinished => journals[i].status \in Unfinished \/ Bounded(journals[i].rows)
  BY <1>4 DEF RowsInv, RowsOk, Unfinished
<1>6. Unbound' \subseteq Unbound
  BY <1>1, <1>5 DEF Unbound, Bounded
<1> QED
  BY <1>2, <1>3, <1>6

----------------------------------------------------------------------------
LEMMA BeginRows ==
  ASSUME TypeInv, RowsInv, NEW p \in Proc, Begin(p)
  PROVE  RowsInv' /\ RowsKept /\ Unbound' \subseteq Unbound
<1>1. CASE Leave(p) /\ UNCHANGED journals
  <2>1. Alone(p) /\ ~Locked(p)'
    BY <1>1, LeaveTyped DEF TypeInv, Idle, Locked, Creating
  <2> QED
    BY <1>1, <2>1, SameRows, OwnRows DEF RowsInv
<1> DEFINE j == [status |-> "active", rows |-> <<>>]
           r == [proc[p] EXCEPT !.stage = "check", !.i = Len(journals) + 1]
<1>2. CASE Free /\ journals' = Append(journals, j) /\ proc' = [proc EXCEPT ![p] = r]
  <2>1. j.status = "active" /\ j.rows = <<>>
    OBVIOUS
  <2>2. r.stage = "check" /\ r.i = Len(journals) + 1
    BY DEF TypeInv, TypeOK, Request
  <2> HIDE DEF r, j
  <2>3. /\ DOMAIN journals' = DOMAIN journals \union {Len(journals) + 1}
        /\ journals'[Len(journals) + 1] = j
        /\ \A l \in DOMAIN journals : journals'[l] = journals[l]
    BY <1>2 DEF TypeInv, TypeOK
  <2>4. Alone(p) /\ proc'[p] = r
    BY <1>2 DEF Alone, TypeInv, TypeOK
  <2>5. Holds(p)'
    <3>1. Rows(p)' = <<>> /\ At(p)' = "check" /\ journals'[proc'[p].i].status = "active"
      BY <2>1, <2>2, <2>3, <2>4 DEF Rows, At
    <3> QED
      BY <3>1 DEF Holds
  <2>6. DOMAIN j.rows = {}
    BY <2>1
  <2>7. RowsOk'
    BY <2>1, <2>3, <2>6 DEF RowsInv, RowsOk, Bounded
  <2>8. RowsKept
    BY <2>3 DEF RowsKept
  <2>9. Unbound' \subseteq Unbound
    BY <2>3, <2>6 DEF Unbound
  <2> QED
    BY <1>2, <2>4, <2>5, <2>7, <2>8, <2>9, OwnRows
<1> QED
  BY <1>1, <1>2 DEF Begin

LEMMA OnAt ==
  ASSUME TypeInv, NEW p \in Proc, NEW s, Go(p, s)
  PROVE  Alone(p) /\ proc'[p].stage = s /\ proc'[p].i = proc[p].i /\ proc'[p].k = proc[p].k
  BY DEF Go, Alone, TypeInv, TypeOK, Request

LEMMA AbortHolds ==
  ASSUME TypeInv, RowsInv, NEW p \in Proc, Locked(p), AbortCreate(p),
         journals' = journals \/ journals'[proc[p].i].status = "active"
  PROVE  Alone(p) /\ Holds(p)'
<1>1. Alone(p) /\ proc'[p].stage = "undo" /\ proc'[p].i = proc[p].i
  BY AbortCreateTyped DEF TypeInv, TypeOK, Request
<1>2. journals'[proc[p].i].status = "active"
  BY DEF RowsInv, Holds
<1> QED
  BY <1>1, <1>2 DEF Holds, At

\* The command that holds the lock, and the journal it works on.
LEMMA Holder ==
  ASSUME TypeInv, RowsInv, NEW p \in Proc, Locked(p)
  PROVE  /\ Holds(p) /\ Standing(p) /\ proc[p] \in Request /\ proc[p].i \in DOMAIN journals
         /\ journals[proc[p].i].status = "active" /\ Rows(p) = journals[proc[p].i].rows
         /\ Rows(p) \in Seq(Row) /\ proc[p].k \in Nat
         /\ \A k \in DOMAIN Rows(p) : Rows(p)[k] \in Row /\ Rows(p)[k].applied \in {"unset", "pack", "made"}
<1>1. proc[p].i \in DOMAIN journals /\ Rows(p) \in Seq(Row) /\ Rows(p) = journals[proc[p].i].rows
  BY RowsTyped DEF Rows
<1>2. \A k \in DOMAIN Rows(p) : Rows(p)[k] \in Row /\ Rows(p)[k].applied \in {"unset", "pack", "made"}
  BY <1>1, RowsTyped DEF RowsInv, RowsOk
<1> QED
  BY <1>1, <1>2 DEF TypeInv, TypeOK, RowsInv, Holds, Request

LEMMA CheckRows ==
  ASSUME TypeInv, RowsInv, NEW p \in Proc, CheckAgain(p)
  PROVE  RowsInv' /\ RowsKept /\ Unbound' \subseteq Unbound
<1>1. At(p) = "check" /\ Locked(p) /\ journals' = journals
  BY DEF CheckAgain, At, Locked, Creating
<1>2. CASE AbortCreate(p)
  BY <1>1, <1>2, AbortHolds, SameRows, OwnRows DEF RowsInv
<1>3. CASE proc' = [proc EXCEPT ![p].stage = "publish", ![p].k = 1]
  <2>1. Alone(p) /\ proc'[p].stage = "publish" /\ proc'[p].i = proc[p].i /\ proc'[p].k = 1
    BY <1>3 DEF Alone, TypeInv, TypeOK, Request
  <2>2. Rows(p) = <<>> /\ journals[proc[p].i].status = "active"
    BY <1>1, Holder DEF Holds
  <2>3. Rows(p)' = <<>> /\ At(p)' = "publish" /\ journals'[proc'[p].i].status = "active"
    BY <1>1, <2>1, <2>2 DEF Rows, At
  <2>4. Holds(p)'
    BY <2>1, <2>3 DEF Holds, Bounded
  <2> QED
    BY <1>1, <2>1, <2>4, SameRows, OwnRows DEF RowsInv
<1> QED
  BY <1>2, <1>3 DEF CheckAgain

LEMMA PublishRows ==
  ASSUME TypeInv, RowsInv, NEW p \in Proc, Publish(p)
  PROVE  RowsInv' /\ RowsKept /\ Unbound' \subseteq Unbound
<1>1. At(p) = "publish" /\ Locked(p) /\ journals' = journals
  BY DEF Publish, At, Locked, Creating
<1>2. CASE AbortCreate(p)
  BY <1>1, <1>2, AbortHolds, SameRows, OwnRows DEF RowsInv
<1>3. ASSUME NEW s \in {"commit", "backup"}, Go(p, s)
      PROVE  RowsInv' /\ RowsKept /\ Unbound' \subseteq Unbound
  <2>1. Alone(p) /\ proc'[p].stage = s /\ proc'[p].i = proc[p].i /\ proc'[p].k = proc[p].k
    BY <1>3, OnAt
  <2>2. Rows(p)' = Rows(p) /\ Holds(p) /\ journals'[proc[p].i].status = "active"
    BY <1>1, <2>1, Holder DEF Rows
  <2>3. Holds(p)'
    BY <1>1, <2>1, <2>2 DEF Holds, At
  <2> QED
    BY <1>1, <2>1, <2>3, SameRows, OwnRows DEF RowsInv
<1> QED
  BY <1>2, <1>3 DEF Publish

LEMMA BackupRows ==
  ASSUME TypeInv, RowsInv, NEW p \in Proc, Backup(p)
  PROVE  LET x == Targets[proc[p].k]
         IN /\ RowsInv' /\ RowsKept /\ Unbound' \subseteq Unbound \union {x}
            /\ files[x] = "user" => \E i \in DOMAIN journals' : \E k \in DOMAIN journals'[i].rows :
                 journals'[i].rows[k].path = x /\ journals'[i].rows[k].kind = "user"
<1> DEFINE x == Targets[proc[p].k]  i == proc[p].i  k == proc[p].k
           row == [path |-> x, kind |-> files[x], applied |-> "unset", restored |-> FALSE]
<1>1. At(p) = "backup" /\ Locked(p)
  BY DEF Backup, At, Locked, Creating
<1>2. x \in Path /\ row \in Row
  <2>1. x \in Path
    BY <1>1, Holder, ProjectAssumption DEF Standing
  <2>2. files[x] \in Content
    BY <2>1 DEF TypeInv, TypeOK
  <2> QED
    BY <2>1, <2>2 DEF Row
<1>3. /\ Len(Rows(p)) = k - 1 /\ Bounded(Rows(p)) /\ Rows(p) \in Seq(Row) /\ k \in Nat
      /\ i \in DOMAIN journals /\ journals[i].status = "active" /\ Rows(p) = journals[i].rows
  BY <1>1, Holder DEF Holds
<1>4. row.applied = "unset" /\ row.path = x /\ row.kind = files[x]
  OBVIOUS
<1>5. journals' = [journals EXCEPT ![i].rows = Append(@, row)] /\ Go(p, "bind")
  BY DEF Backup
<1> HIDE DEF row
<1>6. /\ DOMAIN journals' = DOMAIN journals /\ journals'[i].status = "active"
      /\ \A l \in DOMAIN journals \ {i} : journals'[l] = journals[l]
  BY <1>2, <1>3, <1>5, RowAdded DEF TypeInv
<1>7. /\ DOMAIN journals'[i].rows = DOMAIN journals[i].rows \union {k} /\ Len(journals'[i].rows) = k
      /\ journals'[i].rows[k] = row /\ k \notin DOMAIN journals[i].rows
      /\ \A l \in DOMAIN journals[i].rows : journals'[i].rows[l] = journals[i].rows[l]
  <2>1. journals'[i].rows = Append(journals[i].rows, row)
    BY <1>2, <1>3, <1>5, RowAdded DEF TypeInv
  <2> QED
    BY <1>3, <2>1
<1>8. Alone(p) /\ proc'[p].stage = "bind" /\ proc'[p].i = i /\ proc'[p].k = k
  BY <1>5, OnAt
<1>9. Holds(p)'
  <2>1. Rows(p)' = journals'[i].rows
    BY <1>8 DEF Rows
  <2> QED
    BY <1>3, <1>6, <1>7, <1>8, <2>1 DEF Holds, At, Bounded
<1>10. RowsOk'
  <2>1. ASSUME NEW l \in DOMAIN journals', NEW n \in DOMAIN journals'[l].rows
        PROVE  journals'[l].rows[n].applied \in {"unset", "pack", "made"}
    <3>1. CASE l # i
      BY <1>6, <2>1, <3>1 DEF RowsInv, RowsOk
    <3>2. CASE l = i /\ n = k
      BY <1>4, <1>7, <3>2
    <3>3. CASE l = i /\ n # k
      BY <1>3, <1>7, <2>1, <3>3 DEF RowsInv, RowsOk
    <3> QED
      BY <3>1, <3>2, <3>3
  <2>2. ASSUME NEW l \in DOMAIN journals', journals'[l].status = "committed"
        PROVE  Bounded(journals'[l].rows)
    <3>1. l # i
      BY <1>6, <2>2
    <3> QED
      BY <1>6, <2>2, <3>1 DEF RowsInv, RowsOk
  <2> QED
    BY <2>1, <2>2 DEF RowsOk
<1>11. RowsKept
  <2>1. ASSUME NEW l \in DOMAIN journals, NEW n \in DOMAIN journals[l].rows
        PROVE  n \in DOMAIN journals'[l].rows /\ journals'[l].rows[n] = journals[l].rows[n]
    <3>1. CASE l # i
      BY <1>6, <3>1
    <3>2. CASE l = i
      BY <1>7, <2>1, <3>2
    <3> QED
      BY <3>1, <3>2
  <2> QED
    BY <1>6, <2>1 DEF RowsKept
<1>12. Unbound' \subseteq Unbound \union {x}
  <2> SUFFICES ASSUME NEW y \in Path, y \in Unbound', y # x PROVE y \in Unbound
    BY DEF Unbound
  <2>1. PICK l \in DOMAIN journals' : \E n \in DOMAIN journals'[l].rows :
          /\ journals'[l].status \in Unfinished
          /\ journals'[l].rows[n].path = y /\ journals'[l].rows[n].applied = "unset"
    BY DEF Unbound
  <2>2. PICK n \in DOMAIN journals'[l].rows :
          /\ journals'[l].status \in Unfinished
          /\ journals'[l].rows[n].path = y /\ journals'[l].rows[n].applied = "unset"
    BY <2>1
  <2>3. /\ l \in DOMAIN journals /\ n \in DOMAIN journals[l].rows
        /\ journals[l].status \in Unfinished /\ journals'[l].rows[n] = journals[l].rows[n]
    <3>1. CASE l # i
      BY <1>6, <2>2, <3>1
    <3>2. CASE l = i
      <4>1. n # k
        BY <1>4, <1>7, <2>2, <3>2
      <4> QED
        BY <1>3, <1>7, <2>2, <3>2, <4>1 DEF Unfinished
    <3> QED
      BY <3>1, <3>2
  <2> QED
    BY <2>2, <2>3 DEF Unbound
<1>13. files[x] = "user" => \E l \in DOMAIN journals' : \E n \in DOMAIN journals'[l].rows :
         journals'[l].rows[n].path = x /\ journals'[l].rows[n].kind = "user"
  BY <1>3, <1>4, <1>6, <1>7
<1>14. RowsInv'
  BY <1>1, <1>8, <1>9, <1>10, OwnRows
<1> QED
  BY <1>11, <1>12, <1>13, <1>14

LEMMA BindRows ==
  ASSUME TypeInv, RowsInv, NEW p \in Proc, Bind(p)
  PROVE  RowsInv' /\ RowsKept /\ Unbound' \subseteq Unbound
<1> DEFINE i == proc[p].i  k == proc[p].k
           row == [Rows(p)[k] EXCEPT !.applied = Bound(Targets[k])]
<1>1. At(p) = "bind" /\ Locked(p)
  BY DEF Bind, At, Locked, Creating
<1>2. /\ Len(Rows(p)) = k /\ Rows(p) \in Seq(Row) /\ k \in DOMAIN Rows(p) /\ Rows(p)[k] \in Row
      /\ \A l \in DOMAIN Rows(p) \ {k} : Rows(p)[l].applied # "unset"
      /\ i \in DOMAIN journals /\ journals[i].status = "active" /\ Rows(p) = journals[i].rows
  BY <1>1, Holder, ProjectAssumption DEF Holds, Standing
<1>3. row \in Row /\ row.path = Rows(p)[k].path /\ row.kind = Rows(p)[k].kind /\ row.applied \in {"pack", "made"}
  BY <1>2 DEF Row, Bound, Made, Content
<1>4. journals' = [journals EXCEPT ![i].rows[k] = row] /\ Go(p, "rename")
  BY DEF Bind, SetRow
<1> HIDE DEF row
<1>5. RowsOk' /\ RowsKept /\ Unbound' \subseteq Unbound
  BY <1>2, <1>3, <1>4, RowKeeps
<1>6. /\ journals'[i].rows = [journals[i].rows EXCEPT ![k] = row] /\ journals'[i].status = "active"
  <2>1. TypeOK /\ k \in DOMAIN journals[i].rows
    BY <1>2 DEF TypeInv
  <2> HIDE DEF i, k
  <2> QED
    BY <1>2, <1>3, <1>4, <2>1, RowSet
<1>7. /\ DOMAIN journals'[i].rows = DOMAIN Rows(p) /\ Len(journals'[i].rows) = k
      /\ journals'[i].rows[k] = row
      /\ \A l \in DOMAIN Rows(p) \ {k} : journals'[i].rows[l] = Rows(p)[l]
  BY <1>2, <1>3, <1>6, SeqSet
<1>8. Alone(p) /\ proc'[p].stage = "rename" /\ proc'[p].i = i /\ proc'[p].k = k
  BY <1>4, OnAt
<1>9. Holds(p)'
  <2>1. Rows(p)' = journals'[i].rows
    BY <1>8 DEF Rows
  <2> QED
    BY <1>2, <1>3, <1>6, <1>7, <1>8, <2>1 DEF Holds, At, Bounded
<1> QED
  BY <1>1, <1>5, <1>8, <1>9, OwnRows

LEMMA RenameRows ==
  ASSUME TypeInv, RowsInv, NEW p \in Proc, Rename(p)
  PROVE  RowsInv' /\ RowsKept /\ Unbound' \subseteq Unbound
<1> DEFINE i == proc[p].i  k == proc[p].k
           row == [Rows(p)[k] EXCEPT !.restored = TRUE]
<1>1. At(p) = "rename" /\ Locked(p)
  BY DEF Rename, At, Locked, Creating
<1>2. /\ Len(Rows(p)) = k /\ Bounded(Rows(p)) /\ Rows(p) \in Seq(Row) /\ k \in DOMAIN Rows(p)
      /\ Rows(p)[k] \in Row /\ k \in Nat /\ Rows(p)[k].applied \in {"unset", "pack", "made"}
      /\ i \in DOMAIN journals /\ journals[i].status = "active" /\ Rows(p) = journals[i].rows
  BY <1>1, Holder, ProjectAssumption DEF Holds, Standing
<1>3. CASE proc' = [proc EXCEPT ![p].stage = "publish", ![p].k = k + 1] /\ UNCHANGED journals
  <2>1. Alone(p) /\ proc'[p].stage = "publish" /\ proc'[p].i = i /\ proc'[p].k = k + 1
    BY <1>3 DEF Alone, TypeInv, TypeOK, Request
  <2>2. Rows(p)' = Rows(p)
    BY <1>3, <2>1 DEF Rows
  <2>3. Holds(p)'
    BY <1>2, <1>3, <2>1, <2>2 DEF Holds, At
  <2> QED
    BY <1>1, <1>3, <2>1, <2>3, SameRows, OwnRows DEF RowsInv
<1>4. CASE AbortCreate(p) /\ UNCHANGED journals
  BY <1>1, <1>4, AbortHolds, SameRows, OwnRows DEF RowsInv
<1>5. CASE AbortCreate(p) /\ SetRow(p, k, row)
  <2>1. row \in Row /\ row.path = Rows(p)[k].path /\ row.kind = Rows(p)[k].kind
        /\ row.applied = Rows(p)[k].applied
    BY <1>2 DEF Row
  <2>2. journals' = [journals EXCEPT ![i].rows[k] = row]
    BY <1>5 DEF SetRow
  <2> HIDE DEF row
  <2>3. RowsOk' /\ RowsKept /\ Unbound' \subseteq Unbound
    BY <1>2, <2>1, <2>2, RowKeeps
  <2>4. journals'[i].status = "active"
    BY <1>2, <2>1, <2>2, RowSet DEF TypeInv
  <2> QED
    BY <1>1, <1>5, <2>3, <2>4, AbortHolds, OwnRows
<1> QED
  BY <1>3, <1>4, <1>5 DEF Rename

LEMMA EndRows ==
  ASSUME TypeInv, RowsInv, NEW p \in Proc, Commit(p) \/ EndUndo(p)
  PROVE  RowsInv' /\ RowsKept /\ Unbound' \subseteq Unbound
<1>1. Alone(p) /\ ~Locked(p)'
  BY LeaveTyped DEF Commit, EndUndo, TypeInv, Idle, Locked, Creating
<1>2. Locked(p) /\ (Commit(p) => Bounded(Rows(p)))
  <2>1. CASE Commit(p)
    <3>1. Locked(p) /\ At(p) = "commit"
      BY <2>1 DEF Commit, Locked, At, Creating
    <3> QED
      BY <3>1, Holder DEF Holds
  <2>2. CASE EndUndo(p) /\ ~Commit(p)
    BY <2>2 DEF EndUndo, Locked
  <2> QED
    BY <2>1, <2>2
<1>3. /\ proc[p].i \in DOMAIN journals /\ journals[proc[p].i].status = "active"
      /\ Rows(p) = journals[proc[p].i].rows
  BY <1>2, Holder
<1>4. RowsOk' /\ RowsKept /\ Unbound' \subseteq Unbound
  <2>1. CASE Commit(p)
    <3>1. journals' = [journals EXCEPT ![proc[p].i].status = "committed"]
      BY <2>1 DEF Commit, SetStatus
    <3> QED
      BY <1>2, <1>3, <2>1, <3>1, StatusKeeps
  <2>2. CASE EndUndo(p)
    <3> DEFINE s == IF proc[p].bad THEN "incomplete" ELSE "rolled_back"
    <3>1. journals' = [journals EXCEPT ![proc[p].i].status = s]
      BY <2>2 DEF EndUndo, SetStatus
    <3>2. s \in {"incomplete", "rolled_back"}
      OBVIOUS
    <3> HIDE DEF s
    <3> QED
      BY <1>3, <3>1, <3>2, StatusKeeps
  <2> QED
    BY <2>1, <2>2
<1> QED
  BY <1>1, <1>2, <1>4, OwnRows

LEMMA UndoRows ==
  ASSUME TypeInv, RowsInv, NEW p \in Proc, UndoRow(p)
  PROVE  RowsInv' /\ RowsKept /\ Unbound' \subseteq Unbound
<1> DEFINE i == proc[p].i  k == proc[p].k  row == [Rows(p)[k] EXCEPT !.restored = TRUE]
<1>1. At(p) = "undo" /\ Locked(p) /\ k > 0
  BY DEF UndoRow, At, Locked
<1>2. /\ Rows(p) \in Seq(Row) /\ k \in DOMAIN Rows(p)
      /\ Rows(p)[k] \in Row /\ k \in Nat /\ Rows(p)[k].applied \in {"unset", "pack", "made"}
      /\ i \in DOMAIN journals /\ journals[i].status = "active" /\ Rows(p) = journals[i].rows
  BY <1>1, Holder DEF Standing
<1>3. ASSUME NEW bad, proc' = [proc EXCEPT ![p].k = k - 1, ![p].bad = @ \/ bad],
             journals' = journals \/ journals'[i].status = "active"
      PROVE  Alone(p) /\ Holds(p)'
  <2>1. Alone(p) /\ proc'[p].stage = "undo" /\ proc'[p].i = i
    BY <1>1, <1>3 DEF Alone, TypeInv, TypeOK, Request, At
  <2> QED
    BY <1>2, <1>3, <2>1 DEF Holds, At
<1>4. CASE UNCHANGED journals
  <2>1. CASE Leave(p)
    BY <1>1, <1>4, <2>1, LeaveTyped, SameRows, OwnRows DEF RowsInv, TypeInv, Idle, Locked, Creating
  <2>2. CASE \E bad : proc' = [proc EXCEPT ![p].k = k - 1, ![p].bad = @ \/ bad]
    BY <1>1, <1>3, <1>4, <2>2, SameRows, OwnRows DEF RowsInv
  <2> QED
    BY <2>1, <2>2 DEF UndoRow
<1>5. CASE SetRow(p, k, row) /\ proc' = [proc EXCEPT ![p].k = k - 1, ![p].bad = @ \/ FALSE]
  <2>1. row \in Row /\ row.path = Rows(p)[k].path /\ row.kind = Rows(p)[k].kind
        /\ row.applied = Rows(p)[k].applied
    BY <1>2 DEF Row
  <2>2. journals' = [journals EXCEPT ![i].rows[k] = row]
    BY <1>5 DEF SetRow
  <2> HIDE DEF row
  <2>3. RowsOk' /\ RowsKept /\ Unbound' \subseteq Unbound
    BY <1>2, <2>1, <2>2, RowKeeps
  <2>4. journals'[i].status = "active"
    <3>1. TypeOK /\ k \in DOMAIN journals[i].rows
      BY <1>2 DEF TypeInv
    <3> HIDE DEF i, k
    <3> QED
      BY <1>2, <2>1, <2>2, <3>1, RowSet
  <2> QED
    BY <1>1, <1>3, <1>5, <2>3, <2>4, OwnRows
<1> QED
  BY <1>4, <1>5 DEF UndoRow

LEMMA MarkRows ==
  ASSUME TypeInv, RowsInv, NEW p \in Proc, MarkAbsent(p)
  PROVE  RowsInv' /\ RowsKept /\ Unbound' \subseteq Unbound
<1> DEFINE i == proc[p].i
           marked(row) == [row EXCEPT !.restored = @ \/ Gone(row)]
           rows == [k \in DOMAIN journals[i].rows |-> marked(journals[i].rows[k])]
           j == [journals[i] EXCEPT !.rows = rows]
<1>1. CASE Leave(p) /\ UNCHANGED journals
  <2>1. Alone(p) /\ ~Locked(p)'
    BY <1>1, LeaveTyped DEF TypeInv, Idle, Locked, Creating
  <2> QED
    BY <1>1, <2>1, SameRows, OwnRows DEF RowsInv
<1>2. CASE Free /\ journals' = [journals EXCEPT ![i] = j] /\ Go(p, "redo")
  <2>1. i \in DOMAIN journals /\ journals[i] \in Journal /\ journals[i].rows \in Seq(Row)
    <3>1. i \in DOMAIN journals
      BY DEF MarkAbsent, TypeInv, Standing, At
    <3> QED
      BY <3>1, JournalTyped DEF TypeInv
  <2>2. /\ DOMAIN rows = DOMAIN journals[i].rows
        /\ \A k \in DOMAIN rows : /\ rows[k].path = journals[i].rows[k].path
                                  /\ rows[k].kind = journals[i].rows[k].kind
                                  /\ rows[k].applied = journals[i].rows[k].applied
    <3>1. ASSUME NEW row \in Row
          PROVE  marked(row).path = row.path /\ marked(row).kind = row.kind /\ marked(row).applied = row.applied
      BY DEF Row
    <3>2. \A k \in DOMAIN rows : rows[k] = marked(journals[i].rows[k]) /\ journals[i].rows[k] \in Row
      BY <2>1
    <3> HIDE DEF marked
    <3> QED
      BY <3>1, <3>2
  <2> HIDE DEF rows
  <2>3. j.rows = rows /\ j.status = journals[i].status
    BY <2>1 DEF Journal
  <2> HIDE DEF j
  <2>4. /\ DOMAIN journals' = DOMAIN journals /\ journals'[i] = j
        /\ \A l \in DOMAIN journals \ {i} : journals'[l] = journals[l]
    <3>1. journals \in Seq(Journal)
      BY DEF TypeInv, TypeOK
    <3> QED
      BY <1>2, <2>1, <3>1
  <2>5. RowsOk'
    <3>1. \A k \in DOMAIN rows : rows[k].applied \in {"unset", "pack", "made"}
      BY <2>1, <2>2 DEF RowsInv, RowsOk
    <3>2. j.status = "committed" => Bounded(rows)
      BY <2>1, <2>2, <2>3 DEF RowsInv, RowsOk, Bounded
    <3> QED
      BY <2>3, <2>4, <3>1, <3>2 DEF RowsInv, RowsOk, Bounded
  <2>6. RowsKept
    BY <2>2, <2>3, <2>4 DEF RowsKept
  <2>7. Unbound' \subseteq Unbound
    BY <2>1, <2>2, <2>3, <2>4 DEF Unbound
  <2>8. Alone(p) /\ ~Locked(p)'
    BY <1>2, OnAt DEF Locked, Creating
  <2> QED
    BY <1>2, <2>5, <2>6, <2>7, <2>8, OwnRows
<1>3. CASE Free /\ journals' = [journals EXCEPT ![i].rows = [k \in DOMAIN @ |-> marked(@[k])]] /\ Go(p, "redo")
  <2>1. journals' = [journals EXCEPT ![i] = j]
    BY <1>3
  <2> QED
    BY <1>2, <1>3, <2>1
<1> QED
  BY <1>1, <1>3 DEF MarkAbsent

LEMMA RedoRows ==
  ASSUME TypeInv, RowsInv, NEW p \in Proc, Redo(p)
  PROVE  RowsInv' /\ RowsKept /\ Unbound' \subseteq Unbound
<1> DEFINE i == proc[p].i
<1>1. CASE Leave(p) /\ UNCHANGED journals
  <2>1. Alone(p) /\ ~Locked(p)'
    BY <1>1, LeaveTyped DEF TypeInv, Idle, Locked, Creating
  <2> QED
    BY <1>1, <2>1, SameRows, OwnRows DEF RowsInv
<1>2. CASE /\ Free /\ journals[i].status # "rolled_back" /\ SetStatus(p, "active")
           /\ proc' = [proc EXCEPT ![p].stage = "undo", ![p].k = Len(journals[i].rows)]
  <2>1. i \in DOMAIN journals
    BY DEF Redo, TypeInv, Standing, At
  <2>2. journals' = [journals EXCEPT ![i].status = "active"]
    BY <1>2 DEF SetStatus
  <2>3. RowsOk' /\ RowsKept /\ Unbound' \subseteq Unbound /\ journals'[i].status = "active"
    BY <1>2, <2>1, <2>2, StatusKeeps, StatusSet DEF TypeInv
  <2>4. Alone(p) /\ proc'[p].stage = "undo" /\ proc'[p].i = i
    BY <1>2 DEF Alone, TypeInv, TypeOK, Request
  <2>5. Holds(p)'
    BY <2>3, <2>4 DEF Holds, At
  <2> QED
    BY <1>2, <2>3, <2>4, <2>5, OwnRows
<1> QED
  BY <1>1, <1>2 DEF Redo

LEMMA MigrateStays ==
  ASSUME TypeInv, NEW p \in Proc, Migrate(p)
  PROVE  /\ journals' = journals /\ Alone(p) /\ theirs' = theirs
         /\ ~Locked(p)' /\ At(p)' \notin {"reserve", "fill"}
<1>1. proc \in [Proc -> Request]
  BY DEF TypeInv, TypeOK
<1>2. CASE AskMigrate(p)
  BY <1>1, <1>2 DEF AskMigrate, Ask, Alone, Locked, At, Creating, Idle, ghosts
<1>3. CASE Claim(p)
  <2>1. journals' = journals /\ theirs' = theirs /\ Mover(p) /\ {"verify", "move"} \subseteq Moving
    BY <1>3 DEF Claim, ghosts, Mover, At, Moving
  <2>2. CASE AbortMove(p)
    BY <2>1, <2>2, BackAt DEF Locked, At, Creating
  <2>3. CASE Go(p, "verify")
    BY <2>1, <2>3, GoAt DEF Locked, At, Creating
  <2>4. ASSUME NEW n \in Pack, proc' = [proc EXCEPT ![p].stage = "move", ![p].cur = n]
        PROVE  Alone(p) /\ ~Locked(p)' /\ At(p)' \notin {"reserve", "fill"}
    BY <2>1, <2>4, GoAt DEF Locked, At, Creating
  <2> QED
    BY <1>3, <2>1, <2>2, <2>3, <2>4 DEF Claim, InState
<1>4. CASE MoveAway(p)
  BY <1>1, <1>4 DEF MoveAway, Go, AbortMove, Alone, Locked, At, Creating, Request, ghosts
<1>5. CASE Copy(p)
  BY <1>1, <1>5 DEF Copy, Go, AbortMove, Alone, Locked, At, Creating, Request, ghosts
<1>6. CASE VerifyHeld(p)
  BY <1>1, <1>6 DEF VerifyHeld, Go, Alone, Locked, At, Creating, Request, ghosts
<1>7. CASE Archive(p)
  BY <1>1, <1>7 DEF Archive, Go, Alone, Locked, At, Creating, Request, ghosts
<1>8. CASE ClearHeld(p)
  BY <1>1, <1>8 DEF ClearHeld, Go, Leave, Alone, Locked, At, Creating, Request, Idle, ghosts
<1>9. CASE FinishMove(p)
  BY <1>1, <1>9 DEF FinishMove, Leave, Alone, Locked, At, Creating, Idle, ghosts
<1>10. CASE PutBackRow(p)
  BY <1>1, <1>10 DEF PutBackRow, Alone, Locked, At, Creating, Request
<1>11. CASE EndMove(p)
  BY <1>1, <1>11 DEF EndMove, Leave, Alone, Locked, At, Creating, Idle, ghosts
<1> QED
  BY <1>2, <1>3, <1>4, <1>5, <1>6, <1>7, <1>8, <1>9, <1>10, <1>11 DEF Migrate

LEMMA AskRows ==
  ASSUME TypeInv, RowsInv, NEW p \in Proc, AskCreate(p) \/ AskRecover(p)
  PROVE  RowsInv' /\ RowsKept /\ Unbound' \subseteq Unbound
<1>1. Alone(p) /\ ~Locked(p)'
  BY DEF AskCreate, AskRecover, Ask, Alone, TypeInv, TypeOK, Request, Idle, Locked, Creating
<1>2. journals' = journals
  BY DEF AskCreate, AskRecover
<1> QED
  BY <1>1, <1>2, SameRows, OwnRows DEF RowsInv

LEMMA CreateRows ==
  ASSUME TypeInv, RowsInv, NEW p \in Proc, Create(p)
  PROVE  RowsInv' /\ RowsKept /\ (Unbound' \subseteq Unbound \/ Backup(p))
  BY AskRows, BeginRows, CheckRows, PublishRows, BackupRows, BindRows, RenameRows, EndRows,
     UndoRows DEF Create

\* Every step keeps the lock and the journals as they should be, and of the targets only
\* the one that is being backed up becomes an unsigned one.
LEMMA RowsStep ==
  ASSUME TypeInv, RowsInv, [Next]_vars
  PROVE  /\ RowsInv' /\ RowsKept
         /\ Unbound' \subseteq Unbound \/ \E p \in Proc : Create(p)
<1>1. ASSUME NEW p \in Proc, journals' = journals, Alone(p), ~Locked(p)'
      PROVE  RowsInv' /\ RowsKept /\ Unbound' \subseteq Unbound
  BY <1>1, SameRows, OwnRows DEF RowsInv
<1>2. ASSUME NEW p \in Proc, Leave(p), journals' = journals
      PROVE  RowsInv' /\ RowsKept /\ Unbound' \subseteq Unbound
  <2>1. Alone(p) /\ ~Locked(p)'
    BY <1>2, LeaveTyped DEF TypeInv, Idle, Locked, Creating
  <2> QED
    BY <1>1, <1>2, <2>1
<1>3. ASSUME NEW p \in Proc, Create(p) PROVE RowsInv' /\ RowsKept
  BY <1>3, CreateRows
<1>5. ASSUME NEW p \in Proc, Recover(p) PROVE RowsInv' /\ RowsKept /\ Unbound' \subseteq Unbound
  BY <1>5, AskRows, MarkRows, RedoRows DEF Recover
<1>6. ASSUME NEW p \in Proc, Migrate(p) PROVE RowsInv' /\ RowsKept /\ Unbound' \subseteq Unbound
  BY <1>1, <1>6, MigrateStays
<1>7. ASSUME NEW p \in Proc, Export(p) PROVE RowsInv' /\ RowsKept /\ Unbound' \subseteq Unbound
  <2>1. CASE AskExport(p)
    <3>1. Alone(p) /\ ~Locked(p)'
      BY <2>1 DEF AskExport, Ask, Alone, TypeInv, TypeOK, Idle, Locked, Creating
    <3> QED
      BY <1>1, <2>1, <3>1 DEF AskExport
  <2>2. CASE Reserve(p)
    <3>1. Leave(p) \/ (Alone(p) /\ ~Locked(p)')
      <4>1. ASSUME NEW n, proc' = [proc EXCEPT ![p].stage = "fill", ![p].cur = n,
                                     ![p].names = @ \ {n}, ![p].created = @ \union {n}]
            PROVE  Alone(p) /\ ~Locked(p)'
        BY <4>1 DEF Alone, TypeInv, TypeOK, Request, Locked, Creating
      <4> QED
        BY <2>2, <4>1 DEF Reserve, Discard
    <3> QED
      BY <1>1, <1>2, <2>2, <3>1 DEF Reserve
  <2>3. CASE Fill(p)
    <3>1. Leave(p) \/ (Alone(p) /\ ~Locked(p)')
      BY <2>3, OnAt DEF Fill, Discard, Locked, Creating
    <3> QED
      BY <1>1, <1>2, <2>3, <3>1 DEF Fill
  <2> QED
    BY <1>7, <2>1, <2>2, <2>3 DEF Export
<1>8. ASSUME NEW p \in Proc, Fail(p) PROVE RowsInv' /\ RowsKept /\ Unbound' \subseteq Unbound
  <2>1. journals' = journals
    BY <1>8 DEF Fail
  <2>2. CASE proc[p].stage \in Creating /\ AbortCreate(p)
    BY <2>1, <2>2, AbortHolds, SameRows, OwnRows DEF RowsInv, Locked
  <2>3. CASE proc[p].stage \in Moving /\ AbortMove(p)
    <3>1. Alone(p) /\ ~Locked(p)'
      BY <2>3, BackAt DEF Mover, At, Locked, Creating
    <3> QED
      BY <1>1, <2>1, <3>1
  <2> QED
    BY <1>2, <1>8, <2>1, <2>2, <2>3 DEF Fail, Discard
<1>9. ASSUME journals' = journals, proc' = proc PROVE RowsInv' /\ RowsKept /\ Unbound' \subseteq Unbound
  <2>1. \A p \in Proc : Holds(p)' /\ (Locked(p)' <=> Locked(p))
    BY <1>9 DEF RowsInv, Holds, Rows, Locked, At
  <2> QED
    BY <1>9, <2>1, SameRows DEF RowsInv
<1> QED
  BY <1>2, <1>3, <1>5, <1>6, <1>7, <1>8, <1>9 DEF Next, Crash, Edit, vars

LEMMA RowsInit == Init => RowsInv
  BY DEF Init, RowsInv, RowsOk, Holds, Locked, At, Creating, Idle

----------------------------------------------------------------------------
(* What is the user's: in its place, or put away where nothing removes it. *)

Backed(x) == \E i \in DOMAIN journals : \E k \in DOMAIN journals[i].rows :
               journals[i].rows[k].path = x /\ journals[i].rows[k].kind = "user"
Away(x) == x \in Pack /\ \E m \in DOMAIN moves : moves[m].held[x] = "user"
Elsewhere(x) == Backed(x) \/ Away(x)

\* Where a command may write over or remove what it has not checked.
Exposed == Unbound \union UNION {proc[p].created : p \in Proc}

KeepInv ==
  \A x \in theirs \ gap :
    /\ files[x] = "user" \/ Elsewhere(x)
    /\ x \in Exposed => Elsewhere(x)

HeldKept ==
  \A m \in DOMAIN moves :
    m \in DOMAIN moves' /\ \A n \in Pack : moves[m].held[n] = "user" => moves'[m].held[n] = "user"

LEMMA StaysAway ==
  ASSUME RowsKept, HeldKept, NEW x, Elsewhere(x) PROVE Elsewhere(x)'
<1>1. Backed(x) => Backed(x)'
  <2> SUFFICES ASSUME Backed(x) PROVE Backed(x)'
    OBVIOUS
  <2>0. PICK i \in DOMAIN journals : \E k \in DOMAIN journals[i].rows :
          journals[i].rows[k].path = x /\ journals[i].rows[k].kind = "user"
    BY DEF Backed
  <2>1. PICK k \in DOMAIN journals[i].rows :
          journals[i].rows[k].path = x /\ journals[i].rows[k].kind = "user"
    BY <2>0
  <2>2. /\ i \in DOMAIN journals' /\ k \in DOMAIN journals'[i].rows
        /\ journals'[i].rows[k].path = x /\ journals'[i].rows[k].kind = "user"
    BY <2>1 DEF RowsKept
  <2> QED
    BY <2>2 DEF Backed
<1>2. Away(x) => Away(x)'
  BY DEF Away, HeldKept
<1> QED
  BY <1>1, <1>2 DEF Elsewhere

\* A step that only loses sight of what is put away already.
LEMMA KeepOn ==
  ASSUME KeepInv, RowsKept, HeldKept, theirs' = theirs, gap \subseteq gap',
         \A x \in theirs \ gap : files[x] = "user" /\ files'[x] # "user" => Elsewhere(x)',
         \A x \in theirs \ gap : x \in Exposed' => x \in Exposed \/ Elsewhere(x)'
  PROVE  KeepInv'
<1> SUFFICES ASSUME NEW x \in theirs' \ gap'
             PROVE  (files'[x] = "user" \/ Elsewhere(x)') /\ (x \in Exposed' => Elsewhere(x)')
  BY DEF KeepInv
<1>1. x \in theirs \ gap
  OBVIOUS
<1>2. Elsewhere(x) => Elsewhere(x)'
  BY StaysAway
<1> QED
  BY <1>1, <1>2 DEF KeepInv

LEMMA ExposedOnly ==
  ASSUME NEW p \in Proc, Alone(p), NEW X, Unbound' \subseteq Unbound \union X,
         proc'[p].created \subseteq proc[p].created \union X
  PROVE  Exposed' \subseteq Exposed \union X
  BY DEF Exposed, Alone

LEMMA SameMoves == moves' = moves => HeldKept
  BY DEF HeldKept

LEMMA NoneMade ==
  ASSUME TypeInv', NEW p \in Proc, At(p)' \notin {"reserve", "fill"} PROVE proc'[p].created = {}
  BY DEF TypeInv, Standing

LEMMA CreateKeeps ==
  ASSUME TypeInv, RowsInv, KeepInv, TypeInv', RowsKept, NEW p \in Proc, Create(p),
         Unbound' \subseteq Unbound \/ Backup(p)
  PROVE  KeepInv'
<1>1. /\ HeldKept /\ Alone(p) /\ proc'[p].created = {}
  BY CreateStays, SameMoves, NoneMade
<1>2. theirs' = theirs /\ gap' = gap
  BY DEF Create, AskCreate, Begin, CheckAgain, Publish, Backup, Bind, Rename, Commit, UndoRow, EndUndo, ghosts
<1>3. \A x \in theirs \ gap : x \in Exposed' => x \in Exposed \/ Elsewhere(x)'
  <2>1. CASE Unbound' \subseteq Unbound
    <3>1. Exposed' \subseteq Exposed \union {}
      BY <1>1, <2>1, ExposedOnly
    <3> QED
      BY <3>1
  <2>2. CASE Backup(p)
    <3>0. PICK y \in Path : y = Targets[proc[p].k]
      BY <2>2, ProjectAssumption DEF Backup, TypeInv, Standing, At
    <3>1. Exposed' \subseteq Exposed \union {y}
      <4>1. Unbound' \subseteq Unbound \union {y}
        BY <2>2, <3>0, BackupRows
      <4> QED
        BY <1>1, <4>1, ExposedOnly
    <3>2. y \in theirs \ gap => Elsewhere(y)'
      <4>1. files[y] = "user" => Backed(y)'
        <5>1. files[y] = "user" => \E i \in DOMAIN journals' : \E k \in DOMAIN journals'[i].rows :
                journals'[i].rows[k].path = y /\ journals'[i].rows[k].kind = "user"
          BY <2>2, <3>0, BackupRows
        <5> QED
          BY <5>1 DEF Backed
      <4>2. Elsewhere(y) => Elsewhere(y)'
        BY <1>1, StaysAway
      <4> QED
        BY <4>1, <4>2 DEF KeepInv, Elsewhere
    <3> QED
      BY <3>1, <3>2
  <2> QED
    BY <2>1, <2>2
<1>4. \A x \in theirs \ gap : files[x] = "user" /\ files'[x] # "user" => Elsewhere(x)'
  <2>1. CASE files' = files
    BY <2>1
  <2>2. CASE Rename(p) /\ files' # files
    <3>1. /\ files' = [files EXCEPT ![Targets[proc[p].k]] = Made(Targets[proc[p].k])]
          /\ files[Targets[proc[p].k]] # "user"
      BY <2>2 DEF Rename, Replaceable
    <3>2. files \in [Path -> Content] /\ theirs \subseteq Path
      BY DEF TypeInv, TypeOK
    <3> QED
      BY <3>1, <3>2
  <2>3. CASE UndoRow(p) /\ files' # files
    <3> DEFINE row == Rows(p)[proc[p].k]
    <3>1. /\ Mine(row) /\ proc[p].k > 0
          /\ \E c : files' = [files EXCEPT ![row.path] = c]
      BY <2>3 DEF UndoRow
    <3>2. Locked(p) /\ At(p) = "undo"
      BY <2>3 DEF UndoRow, Locked, At
    <3>3. /\ proc[p].i \in DOMAIN journals /\ journals[proc[p].i].status = "active"
          /\ proc[p].k \in DOMAIN journals[proc[p].i].rows /\ row = journals[proc[p].i].rows[proc[p].k]
          /\ row \in Row /\ row.applied \in {"unset", "pack", "made"}
      BY <3>1, <3>2, Holder DEF Standing
    <3>4. files[row.path] = "user" => row.applied = "unset"
      BY <3>1, <3>3 DEF Mine
    <3>5. row.path \in Path /\ (row.applied = "unset" => row.path \in Unbound)
      BY <3>3 DEF Unbound, Unfinished, Row
    <3>6. ASSUME NEW y, y = row.path, files[y] = "user", y \in theirs \ gap PROVE Elsewhere(y)'
      <4>1. Elsewhere(y)
        BY <3>4, <3>5, <3>6 DEF KeepInv, Exposed
      <4> QED
        BY <1>1, <4>1, StaysAway
    <3>7. files \in [Path -> Content] /\ theirs \subseteq Path
      BY DEF TypeInv, TypeOK
    <3> HIDE DEF row
    <3> SUFFICES ASSUME NEW y \in theirs \ gap, files[y] = "user", files'[y] # "user"
                 PROVE  Elsewhere(y)'
      OBVIOUS
    <3>8. y = row.path
      BY <3>1, <3>7
    <3> QED
      BY <3>6, <3>8
  <2> QED
    BY <2>1, <2>2, <2>3 DEF Create, AskCreate, Begin, CheckAgain, Publish, Backup, Bind, Commit, EndUndo
<1> QED
  BY <1>1, <1>2, <1>3, <1>4, KeepOn

LEMMA RecoverKeeps ==
  ASSUME TypeInv, KeepInv, TypeInv', RowsKept, NEW p \in Proc, Recover(p), Unbound' \subseteq Unbound
  PROVE  KeepInv'
<1>1. HeldKept /\ Alone(p) /\ proc'[p].created = {}
  BY RecoverStays, SameMoves, NoneMade
<1>2. Exposed' \subseteq Exposed \union {}
  BY <1>1, ExposedOnly
<1>3. theirs' = theirs /\ gap' = gap /\ files' = files
  BY DEF Recover, AskRecover, MarkAbsent, Redo, ghosts
<1> QED
  BY <1>1, <1>2, <1>3, KeepOn

\* A failing export removes only what it reserved.
LEMMA DiscardKeeps ==
  ASSUME TypeInv, KeepInv, RowsKept, HeldKept, NEW p \in Proc, Discard(p), theirs' = theirs,
         Unbound' \subseteq Unbound
  PROVE  KeepInv'
<1>1. Alone(p) /\ proc'[p].created = {}
  BY LeaveTyped DEF Discard, TypeInv, Idle
<1>2. Exposed' \subseteq Exposed \union {}
  BY <1>1, ExposedOnly
<1>3. gap \subseteq gap'
  BY DEF Discard, Touch
<1>4. \A x \in theirs \ gap : files[x] = "user" /\ files'[x] # "user" => Elsewhere(x)'
  <2> SUFFICES ASSUME NEW x \in theirs \ gap, files[x] = "user", files'[x] # "user"
               PROVE  Elsewhere(x)'
    OBVIOUS
  <2>1. x \in proc[p].created
    BY DEF Discard, Own, TypeInv, TypeOK
  <2>2. Elsewhere(x)
    BY <2>1 DEF KeepInv, Exposed
  <2> QED
    BY <2>2, StaysAway
<1> QED
  BY <1>2, <1>3, <1>4, KeepOn

LEMMA ExportKeeps ==
  ASSUME TypeInv, KeepInv, TypeInv', RowsKept, NEW p \in Proc, Export(p), Unbound' \subseteq Unbound
  PROVE  KeepInv'
<1>1. HeldKept /\ Alone(p)
  BY ExportStays, SameMoves
<1>2. theirs' = theirs
  BY DEF Export, AskExport, Reserve, Fill, ghosts
<1>3. CASE Discard(p)
  BY <1>1, <1>2, <1>3, DiscardKeeps
<1>4. ASSUME files' = files, gap' = gap, proc'[p].created \subseteq proc[p].created PROVE KeepInv'
  <2>1. Exposed' \subseteq Exposed \union {}
    BY <1>1, <1>4, ExposedOnly
  <2> QED
    BY <1>1, <1>2, <1>4, <2>1, KeepOn
<1>5. ASSUME NEW n \in Path, NEW c, files' = [files EXCEPT ![n] = c], gap \subseteq gap',
             n \in theirs \ gap => Elsewhere(n),
             proc'[p].created \subseteq proc[p].created \union {n}
      PROVE  KeepInv'
  <2>1. Exposed' \subseteq Exposed \union {n}
    BY <1>1, <1>5, ExposedOnly
  <2>2. Elsewhere(n) => Elsewhere(n)'
    BY <1>1, StaysAway
  <2>3. files \in [Path -> Content] /\ theirs \subseteq Path
    BY DEF TypeInv, TypeOK
  <2> QED
    BY <1>1, <1>2, <1>5, <2>1, <2>2, <2>3, KeepOn
<1>6. proc \in [Proc -> Request] /\ Standing(p)
  BY DEF TypeInv, TypeOK
<1>7. CASE AskExport(p)
  <2>1. proc'[p].created = {}
    BY <1>6, <1>7 DEF AskExport, Ask, Idle
  <2> QED
    BY <1>4, <1>7, <2>1 DEF AskExport, ghosts
<1>8. CASE Reserve(p) /\ ~Discard(p)
  <2>1. CASE Leave(p) /\ UNCHANGED <<files, touched, gap>>
    <3>1. proc'[p].created = {}
      BY <2>1, LeaveTyped DEF TypeInv, Idle
    <3> QED
      BY <1>4, <2>1, <3>1
  <2>2. ASSUME NEW n \in proc[p].names, files[n] = "none", files' = [files EXCEPT ![n] = "empty"],
               Touch({n}, Proc \ {p}),
               proc' = [proc EXCEPT ![p].stage = "fill", ![p].cur = n,
                          ![p].names = @ \ {n}, ![p].created = @ \union {n}]
        PROVE  KeepInv'
    <3>1. n \in Path
      BY <1>6 DEF Request, Path
    <3>2. proc'[p].created = proc[p].created \union {n}
      BY <1>6, <2>2 DEF Request
    <3>3. gap \subseteq gap' /\ (n \in theirs \ gap => Elsewhere(n))
      BY <2>2 DEF Touch, KeepInv
    <3> QED
      BY <1>5, <2>2, <3>1, <3>2, <3>3
  <2> QED
    BY <1>8, <2>1, <2>2 DEF Reserve
<1>9. CASE Fill(p) /\ ~Discard(p)
  <2> DEFINE n == proc[p].cur
  <2>1. n \in Path /\ n \in proc[p].created
    BY <1>6, <1>9 DEF Fill, Standing, At, Path
  <2>2. n \in theirs \ gap => Elsewhere(n)
    BY <2>1 DEF KeepInv, Exposed
  <2>3. gap \subseteq gap' /\ \E c : files' = [files EXCEPT ![n] = c]
    BY <1>9 DEF Fill, Touch
  <2>4. proc'[p].created \subseteq proc[p].created
    BY <1>6, <1>9 DEF Fill, Go, Leave, Idle, Request
  <2> HIDE DEF n
  <2> QED
    BY <1>5, <2>1, <2>2, <2>3, <2>4
<1> QED
  BY <1>3, <1>7, <1>8, <1>9 DEF Export

LEMMA HeldSet ==
  ASSUME TypeInv, NEW p \in Proc, Mover(p), NEW m \in Move, SetMig(p, m),
         \A n \in Pack : Mig(p).held[n] = "user" => m.held[n] = "user"
  PROVE  HeldKept
<1>1. /\ DOMAIN moves' = DOMAIN moves /\ moves'[proc[p].i] = m
      /\ \A l \in DOMAIN moves \ {proc[p].i} : moves'[l] = moves[l]
  BY MigTyped, MoveSet DEF SetMig, TypeInv
<1> QED
  BY <1>1 DEF HeldKept, Mig

\* Of what a migration holds nothing of the user's is lost but by putting it back.
LEMMA MigrateHolds ==
  ASSUME TypeInv, MoveInv, NEW p \in Proc, Migrate(p), ~PutBackRow(p)
  PROVE  HeldKept
<1>1. CASE AskMigrate(p)
  <2>1. PICK m : moves' = Append(moves, m)
    BY <1>1 DEF AskMigrate
  <2>2. DOMAIN moves \subseteq DOMAIN moves' /\ \A l \in DOMAIN moves : moves'[l] = moves[l]
    BY <2>1 DEF TypeInv, TypeOK
  <2> QED
    BY <2>2 DEF HeldKept
<1>2. CASE Claim(p)
  <2>1. Mover(p) /\ "claiming" \in RowState
    BY <1>2 DEF Claim, Mover, At, Moving, RowState
  <2>2. ASSUME NEW n \in Pack, SetMig(p, [Mig(p) EXCEPT !.state[n] = "claiming"]) PROVE HeldKept
    <3>1. [Mig(p) EXCEPT !.state[n] = "claiming"] \in Move
      BY <2>1, MigTyped, MoveChanged DEF Content
    <3>2. [Mig(p) EXCEPT !.state[n] = "claiming"].held = Mig(p).held
      BY <2>1, MigTyped DEF Move
    <3> QED
      BY <2>1, <2>2, <3>1, <3>2, HeldSet
  <2> QED
    BY <1>2, <2>2, SameMoves DEF Claim, InState
<1>3. CASE MoveAway(p)
  <2> DEFINE n == proc[p].cur
             back == [Mig(p) EXCEPT !.state[n] = "pending"]
             held == [Mig(p) EXCEPT !.state[n] = "held", !.held[n] = files[n]]
  <2>1. Mover(p) /\ At(p) = "move" /\ {"pending", "held"} \subseteq RowState
    BY <1>3 DEF MoveAway, Mover, At, Moving, RowState
  <2>2. n \in Pack /\ files[n] \in Content /\ Sane(Mig(p)) /\ Mig(p).state[n] = "claiming"
    BY <2>1, MigTyped DEF Standing, Path, TypeInv, TypeOK, MoveInv, Mig, Step
  <2>3. back \in Move /\ held \in Move /\ Mig(p).held \in [Pack -> Content]
    BY <2>1, <2>2, MigTyped, MoveChanged
  <2>4. back.held = Mig(p).held /\ held.held = [Mig(p).held EXCEPT ![n] = files[n]]
    BY <2>1, MigTyped DEF Move
  <2>5. SetMig(p, back) \/ SetMig(p, held)
    BY <1>3 DEF MoveAway
  <2> HIDE DEF back, held, n
  <2>6. \A l \in Pack : Mig(p).held[l] = "user" => back.held[l] = "user" /\ held.held[l] = "user"
    BY <2>2, <2>3, <2>4 DEF Sane
  <2> QED
    BY <2>1, <2>3, <2>5, <2>6, HeldSet
<1>4. CASE Copy(p)
  <2> DEFINE n == proc[p].cur
             whole == [Mig(p) EXCEPT !.state[n] = "copied", !.copy[n] = Mig(p).held[n]]
             part == [Mig(p) EXCEPT !.copy[n] = "partial"]
  <2>1. Mover(p) /\ At(p) = "copy" /\ "copied" \in RowState
    BY <1>4 DEF Copy, Mover, At, Moving, RowState
  <2>2. n \in Pack /\ Mig(p).held[n] \in Content /\ "partial" \in Content
    BY <2>1, MigTyped DEF Standing, Content
  <2>3. whole \in Move /\ part \in Move
    BY <2>1, <2>2, MigTyped, MoveChanged
  <2>4. whole.held = Mig(p).held /\ part.held = Mig(p).held
    BY <2>1, MigTyped DEF Move
  <2>5. SetMig(p, whole) \/ SetMig(p, part) \/ UNCHANGED moves
    BY <1>4 DEF Copy
  <2> HIDE DEF whole, part
  <2> QED
    BY <2>1, <2>3, <2>4, <2>5, HeldSet, SameMoves
<1>5. CASE Archive(p)
  <2>1. Mover(p) /\ "archived" \in RowState
    BY <1>5 DEF Archive, Mover, At, Moving, RowState
  <2>2. ASSUME NEW n \in Pack, SetMig(p, [Mig(p) EXCEPT !.state[n] = "archived"]) PROVE HeldKept
    <3>1. [Mig(p) EXCEPT !.state[n] = "archived"] \in Move
      BY <2>1, MigTyped, MoveChanged DEF Content
    <3>2. [Mig(p) EXCEPT !.state[n] = "archived"].held = Mig(p).held
      BY <2>1, MigTyped DEF Move
    <3> QED
      BY <2>1, <2>2, <3>1, <3>2, HeldSet
  <2> QED
    BY <1>5, <2>2, SameMoves DEF Archive, InState
<1>6. CASE ClearHeld(p)
  <2> DEFINE n == proc[p].cur
             gone == [Mig(p) EXCEPT !.held[n] = "none"]
             part == [Mig(p) EXCEPT !.held[n] = "partial"]
  <2>1. Mover(p) /\ At(p) = "clear"
    BY <1>6 DEF ClearHeld, Mover, At, Moving
  <2>2. n \in Pack /\ {"none", "partial"} \subseteq Content /\ Sane(Mig(p)) /\ Mig(p).state[n] = "archived"
    BY <2>1, MigTyped DEF Standing, Content, MoveInv, Mig, Step
  <2>3. gone \in Move /\ part \in Move /\ Mig(p).held \in [Pack -> Content]
    BY <2>1, <2>2, MigTyped, MoveChanged DEF RowState
  <2>4. gone.held = [Mig(p).held EXCEPT ![n] = "none"] /\ part.held = [Mig(p).held EXCEPT ![n] = "partial"]
    BY <2>1, MigTyped DEF Move
  <2>5. SetMig(p, gone) \/ SetMig(p, part)
    BY <1>6 DEF ClearHeld
  <2> HIDE DEF gone, part, n
  <2>6. \A l \in Pack : Mig(p).held[l] = "user" => gone.held[l] = "user" /\ part.held[l] = "user"
    BY <2>2, <2>3, <2>4 DEF Sane
  <2> QED
    BY <2>1, <2>3, <2>5, <2>6, HeldSet
<1>7. CASE VerifyHeld(p) \/ FinishMove(p) \/ EndMove(p)
  <2>1. Mover(p)
    BY <1>7 DEF VerifyHeld, FinishMove, EndMove, Mover, At, Moving
  <2>2. PICK s \in {"copied", "committed", "rolled_back", "incomplete"} : SetMig(p, [Mig(p) EXCEPT !.status = s])
    BY <1>7 DEF VerifyHeld, FinishMove, EndMove
  <2>3. [Mig(p) EXCEPT !.status = s] \in Move /\ [Mig(p) EXCEPT !.status = s].held = Mig(p).held
    BY <2>1, StatusOnly
  <2> QED
    BY <2>1, <2>2, <2>3, HeldSet
<1> QED
  BY <1>1, <1>2, <1>3, <1>4, <1>5, <1>6, <1>7 DEF Migrate

LEMMA MigrateKeeps ==
  ASSUME TypeInv, MoveInv, KeepInv, TypeInv', RowsKept, NEW p \in Proc, Migrate(p), ~PutBackRow(p),
         Unbound' \subseteq Unbound
  PROVE  KeepInv'
<1>1. HeldKept /\ Alone(p) /\ proc'[p].created = {} /\ theirs' = theirs
  BY MigrateHolds, MigrateStays, NoneMade
<1>2. Exposed' \subseteq Exposed \union {}
  BY <1>1, ExposedOnly
<1>3. CASE files' = files
  <2>1. gap \subseteq gap'
    BY DEF Migrate, AskMigrate, Claim, MoveAway, Copy, VerifyHeld, Archive, ClearHeld, FinishMove,
           EndMove, ghosts, Touch
  <2> QED
    BY <1>1, <1>2, <1>3, <2>1, KeepOn
<1>4. CASE MoveAway(p) /\ files' # files
  <2>0. Mover(p) /\ At(p) = "move" /\ "held" \in RowState
    BY <1>4 DEF MoveAway, Mover, At, Moving, RowState
  <2>1. PICK n \in Pack : n = proc[p].cur
    BY <2>0, MigTyped DEF Standing
  <2> DEFINE held == [Mig(p) EXCEPT !.state[n] = "held", !.held[n] = files[n]]
  <2>2. /\ files' = [files EXCEPT ![n] = "none"] /\ SetMig(p, held) /\ gap \subseteq gap'
    BY <1>4, <2>1 DEF MoveAway, Touch
  <2>3. held \in Move /\ held.held[n] = files[n]
    <3>1. files[n] \in Content
      BY DEF TypeInv, TypeOK, Path
    <3>2. held \in Move
      BY <2>0, <3>1, MigTyped, MoveChanged
    <3>3. held.held = [Mig(p).held EXCEPT ![n] = files[n]]
      BY <2>0, MigTyped DEF Move
    <3> QED
      BY <2>0, <3>2, <3>3, MigTyped
  <2> HIDE DEF held
  <2>4. files[n] = "user" => Elsewhere(n)'
    <3>1. proc[p].i \in DOMAIN moves' /\ moves'[proc[p].i] = held
      BY <2>0, <2>2, <2>3, MigTyped, MoveSet DEF SetMig, TypeInv
    <3> QED
      BY <2>3, <3>1 DEF Elsewhere, Away
  <2>5. files \in [Path -> Content] /\ theirs \subseteq Path
    BY DEF TypeInv, TypeOK
  <2>6. \A x \in theirs \ gap : files[x] = "user" /\ files'[x] # "user" => Elsewhere(x)'
    BY <2>2, <2>4, <2>5
  <2> QED
    BY <1>1, <1>2, <2>2, <2>6, KeepOn
<1> QED
  BY <1>3, <1>4 DEF Migrate, AskMigrate, Claim, Copy, VerifyHeld, Archive, ClearHeld, FinishMove, EndMove

\* A migration puts a skill back only where nothing is, and what others may be about to
\* write there it has in its gap.
LEMMA PutBackKeeps ==
  ASSUME TypeInv, MoveInv, KeepInv, TypeInv', RowsKept, NEW p \in Proc, PutBackRow(p),
         Unbound' \subseteq Unbound
  PROVE  KeepInv'
<1>1. Alone(p) /\ proc'[p].created = {} /\ theirs' = theirs
  BY MigrateStays, NoneMade DEF Migrate
<1>2. Exposed' \subseteq Exposed \union {}
  BY <1>1, ExposedOnly
<1>3. Mover(p) /\ At(p) = "back" /\ "restored" \in RowState /\ "none" \in Content
  BY DEF PutBackRow, Mover, At, RowState, Content
<1>4. files \in [Path -> Content] /\ theirs \subseteq Path
  BY DEF TypeInv, TypeOK
<1>5. CASE UNCHANGED <<files, moves, gap>>
  BY <1>1, <1>2, <1>5, SameMoves, KeepOn
<1>6. ASSUME NEW n \in Pack, files[n] = "none", files' = [files EXCEPT ![n] = "partial"],
             Touch({n}, Proc \ {p}), UNCHANGED moves
      PROVE  KeepInv'
  <2>1. HeldKept /\ gap \subseteq gap'
    BY <1>6, SameMoves DEF Touch
  <2>2. \A x \in theirs \ gap : files[x] = "user" /\ files'[x] # "user" => Elsewhere(x)'
    BY <1>4, <1>6
  <2> QED
    BY <1>1, <1>2, <2>1, <2>2, KeepOn
<1>7. ASSUME NEW n \in proc[p].names, files[n] = "none", files' = [files EXCEPT ![n] = From(Mig(p), n)],
             SetMig(p, [Mig(p) EXCEPT !.state[n] = "restored",
                          !.held[n] = IF @ = From(Mig(p), n) THEN "none" ELSE @]),
             Touch({n}, Proc \ {p})
      PROVE  KeepInv'
  <2> DEFINE h == IF Mig(p).held[n] = From(Mig(p), n) THEN "none" ELSE Mig(p).held[n]
             m == [Mig(p) EXCEPT !.state[n] = "restored", !.held[n] = h]
  <2>1. n \in Pack /\ n \in Path /\ Mig(p).held \in [Pack -> Content] /\ proc[p].i \in DOMAIN moves
    BY <1>3, MigTyped DEF Request, Path
  <2>2. m \in Move /\ m.held = [Mig(p).held EXCEPT ![n] = h]
    <3>1. h \in Content
      BY <1>3, <2>1
    <3>2. m \in Move
      BY <1>3, <2>1, <3>1, MigTyped, MoveChanged
    <3> QED
      BY <1>3, <3>2, MigTyped DEF Move
  <2>3. SetMig(p, m)
    BY <1>7
  <2>4. Mig(p).held[n] = "user" => From(Mig(p), n) = "user"
    BY <1>3, <2>1 DEF MoveInv, Mig, Sane, From
  <2> HIDE DEF m, h
  <2>5. /\ DOMAIN moves' = DOMAIN moves /\ moves'[proc[p].i] = m
        /\ \A l \in DOMAIN moves \ {proc[p].i} : moves'[l] = moves[l]
    BY <1>3, <2>2, <2>3, MigTyped, MoveSet DEF SetMig, TypeInv
  <2>6. ASSUME NEW x \in theirs \ gap, Elsewhere(x), x # n \/ Mig(p).held[n] # "user" PROVE Elsewhere(x)'
    <3>1. CASE Backed(x)
      <4>1. PICK i \in DOMAIN journals : \E k \in DOMAIN journals[i].rows :
              journals[i].rows[k].path = x /\ journals[i].rows[k].kind = "user"
        BY <3>1 DEF Backed
      <4>2. PICK k \in DOMAIN journals[i].rows :
              journals[i].rows[k].path = x /\ journals[i].rows[k].kind = "user"
        BY <4>1
      <4>3. /\ i \in DOMAIN journals' /\ k \in DOMAIN journals'[i].rows
            /\ journals'[i].rows[k].path = x /\ journals'[i].rows[k].kind = "user"
        BY <4>2 DEF RowsKept
      <4> QED
        BY <4>3 DEF Backed, Elsewhere
    <3>2. CASE Away(x)
      <4>1. PICK l \in DOMAIN moves : x \in Pack /\ moves[l].held[x] = "user"
        BY <3>2 DEF Away
      <4>2. moves'[l].held[x] = "user" /\ l \in DOMAIN moves'
        BY <2>1, <2>2, <2>5, <2>6, <4>1 DEF Mig
      <4> QED
        BY <4>1, <4>2 DEF Away, Elsewhere
    <3> QED
      BY <2>6, <3>1, <3>2 DEF Elsewhere
  <2>7. gap \subseteq gap' /\ (n \in Exposed' => n \in gap')
    <3>1. \A q \in Proc : n \in proc'[q].created => q # p /\ n \in proc[q].created
      BY <1>1 DEF Alone
    <3>2. n \in Exposed' => n \in Unbound \union UNION {proc[q].created : q \in Proc \ {p}}
      BY <3>1 DEF Exposed
    <3> QED
      BY <1>7, <3>2 DEF Touch
  <2>8. ASSUME NEW x \in theirs' \ gap'
        PROVE  (files'[x] = "user" \/ Elsewhere(x)') /\ (x \in Exposed' => Elsewhere(x)')
    <3>1. x \in theirs \ gap /\ x \in Path
      BY <1>1, <1>4, <2>7, <2>8
    <3>2. CASE x # n
      <4>1. files'[x] = files[x]
        BY <1>4, <1>7, <3>1, <3>2
      <4>2. Elsewhere(x) => Elsewhere(x)'
        BY <2>6, <3>1, <3>2
      <4> QED
        BY <1>2, <3>1, <4>1, <4>2 DEF KeepInv
    <3>3. CASE x = n
      <4>1. Elsewhere(x) /\ x \notin Exposed'
        BY <1>7, <2>7, <2>8, <3>1, <3>3 DEF KeepInv
      <4>2. CASE Mig(p).held[n] = "user"
        BY <1>4, <1>7, <2>1, <2>4, <3>3, <4>1, <4>2
      <4>3. CASE Mig(p).held[n] # "user"
        BY <2>6, <3>1, <4>1, <4>3
      <4> QED
        BY <4>2, <4>3
    <3> QED
      BY <3>2, <3>3
  <2> QED
    BY <2>8 DEF KeepInv
<1>8. proc[p].names \subseteq Pack
  BY <1>3, MigTyped DEF Request
<1> QED
  BY <1>5, <1>6, <1>7, <1>8 DEF PutBackRow

LEMMA FailKeeps ==
  ASSUME TypeInv, KeepInv, TypeInv', RowsKept, NEW p \in Proc, Fail(p), Unbound' \subseteq Unbound
  PROVE  KeepInv'
<1>1. HeldKept /\ theirs' = theirs
  BY SameMoves DEF Fail
<1>2. CASE Discard(p)
  BY <1>1, <1>2, DiscardKeeps
<1>3. ASSUME UNCHANGED <<files, gap>>, Alone(p), proc'[p].created \subseteq proc[p].created PROVE KeepInv'
  <2>1. Exposed' \subseteq Exposed \union {}
    BY <1>3, ExposedOnly
  <2> QED
    BY <1>1, <1>3, <2>1, KeepOn
<1>4. AbortCreate(p) \/ AbortMove(p) \/ Leave(p) => Alone(p) /\ proc'[p].created \subseteq proc[p].created
  <2>1. proc \in [Proc -> Request]
    BY DEF TypeInv, TypeOK
  <2> QED
    BY <2>1 DEF AbortCreate, AbortMove, Leave, Idle, Alone, Request
<1> QED
  BY <1>2, <1>3, <1>4 DEF Fail

LEMMA CrashKeeps ==
  ASSUME TypeInv, KeepInv, RowsKept, NEW p \in Proc, Crash(p), Unbound' \subseteq Unbound PROVE KeepInv'
<1>1. HeldKept /\ Alone(p) /\ proc'[p].created = {}
  BY LeaveTyped, SameMoves DEF Crash, TypeInv, Idle
<1>2. Exposed' \subseteq Exposed \union {}
  BY <1>1, ExposedOnly
<1> QED
  BY <1>1, <1>2, KeepOn DEF Crash, ghosts

LEMMA StandsStill ==
  ASSUME UNCHANGED <<journals, moves, proc>>
  PROVE  Exposed' = Exposed /\ \A x : Elsewhere(x)' <=> Elsewhere(x)
  BY DEF Exposed, Unbound, Elsewhere, Backed, Away

LEMMA EditKeeps ==
  ASSUME TypeInv, KeepInv, NEW x \in Path, Edit(x)
  PROVE  KeepInv'
<1>1. /\ Exposed' = Exposed /\ \A y : Elsewhere(y)' <=> Elsewhere(y)
      /\ gap \subseteq gap' /\ (x \in Exposed => x \in gap')
  BY StandsStill DEF Edit, Touch, Exposed
<1>2. PICK c \in {"none", "user"} :
        /\ files' = [files EXCEPT ![x] = c]
        /\ theirs' = IF c = "user" THEN theirs \union {x} ELSE theirs \ {x}
  BY DEF Edit
<1>3. files \in [Path -> Content] /\ theirs \subseteq Path
  BY DEF TypeInv, TypeOK
<1>4. ASSUME NEW y \in theirs' \ gap'
      PROVE  (files'[y] = "user" \/ Elsewhere(y)') /\ (y \in Exposed' => Elsewhere(y)')
  <2>1. CASE y = x
    BY <1>1, <1>2, <1>3, <1>4, <2>1
  <2>2. CASE y # x
    <3>1. y \in theirs \ gap /\ files'[y] = files[y]
      BY <1>1, <1>2, <1>3, <1>4, <2>2
    <3> QED
      BY <1>1, <3>1 DEF KeepInv
  <2> QED
    BY <2>1, <2>2
<1> QED
  BY <1>4 DEF KeepInv

LEMMA KeepStep ==
  ASSUME TypeInv, MoveInv, RowsInv, KeepInv, TypeInv', [Next]_vars PROVE KeepInv'
<1>1. CASE \E p \in Proc : Create(p)
  BY <1>1, CreateRows, CreateKeeps
<1>2. CASE ~\E p \in Proc : Create(p)
  <2>1. RowsKept /\ Unbound' \subseteq Unbound
    BY <1>2, RowsStep
  <2>2. ASSUME NEW p \in Proc, Recover(p) \/ Migrate(p) \/ Export(p) \/ Fail(p) \/ Crash(p) PROVE KeepInv'
    BY <2>1, <2>2, RecoverKeeps, MigrateKeeps, PutBackKeeps, ExportKeeps, FailKeeps, CrashKeeps
  <2>3. ASSUME NEW x \in Path, Edit(x) PROVE KeepInv'
    BY <2>3, EditKeeps
  <2>4. CASE UNCHANGED vars
    BY <2>4, StandsStill DEF vars, ghosts, KeepInv
  <2> QED
    BY <1>2, <2>2, <2>3, <2>4 DEF Next
<1> QED
  BY <1>1, <1>2

LEMMA KeepInit == Init => KeepInv
<1> SUFFICES ASSUME Init PROVE KeepInv
  OBVIOUS
<1>1. Unbound = {} /\ \A p \in Proc : proc[p].created = {}
  BY DEF Init, Unbound, Idle
<1>2. \A x \in theirs : files[x] = "user"
  BY ProjectAssumption DEF Init, Path
<1> QED
  BY <1>1, <1>2 DEF KeepInv, Exposed

\* What the user wrote stays where it is or is put away, through creation, recovery,
\* migration and export in any number, through every failure and crash and every edit in
\* between, unless it was written in one of the gaps that Touch names
\* (docs/PROJECTS.md:38 and 44, projects.py:63-88, skill_migration.py:68, packs.py:152).
THEOREM UserDataStays == Spec => []UserKept
<1> DEFINE Inv == TypeInv /\ MoveInv /\ RowsInv /\ KeepInv
<1>1. Init => Inv
  BY TypeInit, MoveInit, RowsInit, KeepInit
<1>2. Inv /\ [Next]_vars => Inv'
  BY TypeStep, MoveStep, RowsStep, KeepStep
<1>3. Inv => UserKept
  BY DEF KeepInv, UserKept, Elsewhere, Backed, Away
<1> QED
  BY <1>1, <1>2, <1>3, PTL DEF Spec

----------------------------------------------------------------------------
(* What is on display.  The folder is compared with the newest record target by *)
(* target, so a step is judged by the one target it changes.                    *)

LEMMA TargetFacts ==
  /\ DOMAIN Targets = 1..Len(Targets) /\ Len(Targets) \in Nat \ {0} /\ Targets[Len(Targets)] = Manifest
  /\ \A k \in DOMAIN Targets : /\ Targets[k] \in Path
                               /\ Targets[k] = Manifest <=> k = Len(Targets)
  /\ \A k, l \in DOMAIN Targets : Targets[k] = Targets[l] => k = l
  /\ Manifest \in Path /\ Manifest \notin Pack /\ TargetSet \subseteq Path
<1>1. Targets \in Seq(Path) /\ Targets # <<>>
  BY ProjectAssumption
<1>2. DOMAIN Targets = 1..Len(Targets) /\ Len(Targets) \in Nat \ {0} /\ \A k \in DOMAIN Targets : Targets[k] \in Path
  BY <1>1
<1>3. Len(Targets) \in DOMAIN Targets
  BY <1>2
<1> QED
  BY <1>2, <1>3, ProjectAssumption DEF TargetSet, Path

LEMMA MadeNot == \A x \in Path : Made(x) # "none" /\ (Made(x) = "made" <=> x = Manifest)
  BY TargetFacts DEF Made, Path

LEMMA Pointwise ==
  ASSUME NEW x, files'[x] = files[x], x \in touched => x \in touched'
  PROVE  (Clear(x) => Clear(x)') /\ (Hidden(x) => Hidden(x)') /\ (Shown(x) => Shown(x)')
  BY DEF Clear, Hidden, Shown

\* Of the records that published something one is the newest.
LEMMA LoneTop ==
  ASSUME TypeInv, NEW i \in DOMAIN journals, NEW l \in DOMAIN journals, Top(i), Top(l),
         journals[i].rows # <<>>, journals[l].rows # <<>>
  PROVE  i = l
<1>1. i \in Nat /\ l \in Nat
  BY DEF TypeInv, TypeOK
<1>2. ~(l > i) /\ ~(i > l)
  BY DEF Top
<1> QED
  BY <1>1, <1>2

\* A record whose entry, with what it says of the targets, stays is as right as before.
LEMMA FitSame ==
  ASSUME NEW i, RowsFit(i), journals'[i] = journals[i], touched \subseteq touched'
  PROVE  RowsFit(i)'
  BY DEF RowsFit

LEMMA TopSame ==
  ASSUME DOMAIN journals' = DOMAIN journals,
         \A i \in DOMAIN journals :
           /\ journals'[i].rows = <<>> <=> journals[i].rows = <<>>
           /\ journals'[i].status = "rolled_back" <=> journals[i].status = "rolled_back"
  PROVE  \A i \in DOMAIN journals : Top(i)' <=> Top(i)
  BY DEF Top

----------------------------------------------------------------------------
(* Steps of the user and of the commands that hold no lock *)

\* What changes others have changed, and nobody else makes a manifest.
OthersOnly ==
  /\ touched \subseteq touched'
  /\ \A x \in Path : files'[x] = files[x] \/ x \in touched'
  /\ files'[Manifest] = "made" => files[Manifest] = "made"
Out(q) == At(q) \notin Creating \union {"undo", "redo"}

LEMMA OthersLeave ==
  ASSUME OthersOnly, NEW x \in Path
  PROVE  (Clear(x) => Clear(x)') /\ (Hidden(x) => Hidden(x)') /\ (Shown(x) => Shown(x)')
  BY DEF OthersOnly, Clear, Hidden, Shown

LEMMA StillComplete ==
  ASSUME CompleteManifest, OthersOnly PROVE CompleteManifest'
  BY TargetFacts DEF CompleteManifest, OthersOnly

LEMMA RecordsStay ==
  ASSUME WholeInv, OthersOnly, journals' = journals
  PROVE  \A i \in DOMAIN journals : RowsFit(i)' /\ UndoneClear(i)'
<1> SUFFICES ASSUME NEW i \in DOMAIN journals PROVE RowsFit(i)' /\ UndoneClear(i)'
  OBVIOUS
<1>1. RowsFit(i) /\ UndoneClear(i)
  BY DEF WholeInv
<1>2. RowsFit(i)'
  BY <1>1, FitSame DEF OthersOnly
<1>3. Top(i)' <=> Top(i)
  BY DEF Top
<1>4. \A l \in DOMAIN Targets : Clear(Targets[l]) => Clear(Targets[l])'
  BY OthersLeave, TargetFacts
<1>5. UndoneClear(i)'
  BY <1>1, <1>3, <1>4 DEF UndoneClear
<1> QED
  BY <1>2, <1>5

LEMMA ProgressSame ==
  ASSUME OthersOnly, journals' = journals, NEW q, proc'[q] = proc[q], Progress(q)
  PROVE  Progress(q)'
<1>1. \A l \in DOMAIN Targets : /\ Clear(Targets[l]) => Clear(Targets[l])'
                                /\ Hidden(Targets[l]) => Hidden(Targets[l])'
                                /\ Shown(Targets[l]) => Shown(Targets[l])'
  BY OthersLeave, TargetFacts
<1>2. Top(proc[q].i) => Top(proc[q].i)'
  BY DEF Top
<1>3. Rows(q)' = Rows(q)
  BY DEF Rows
<1> QED
  BY <1>1, <1>2, <1>3 DEF Progress, Recoverable

LEMMA OutProgress == ASSUME NEW q, Out(q)' PROVE Progress(q)'
  BY DEF Out, At, Progress, Creating

LEMMA StillWhole ==
  ASSUME WholeInv, OthersOnly, journals' = journals, \A q \in Proc : proc'[q] = proc[q] \/ Out(q)'
  PROVE  WholeInv'
<1>1. \A q \in Proc : Progress(q)'
  BY ProgressSame, OutProgress DEF WholeInv
<1>2. Apart'
  BY DEF WholeInv, Apart, Out, At
<1> QED
  BY <1>1, <1>2, StillComplete, RecordsStay DEF WholeInv

----------------------------------------------------------------------------
(* Steps of the command that holds the lock, or takes it *)

\* The commands that stand by only need their record to say the same of its backups.
LEMMA HolderWhole ==
  ASSUME TypeInv, RowsInv, WholeInv, RowsKept, NEW p \in Proc, Alone(p), Locked(p) \/ Free,
         CompleteManifest', \A i \in DOMAIN journals' : RowsFit(i)' /\ UndoneClear(i)', Progress(p)',
         \A i \in DOMAIN journals : \/ DOMAIN journals'[i].rows = DOMAIN journals[i].rows
                                    \/ At(p) \in Creating /\ i = proc[p].i,
         At(p)' \in Creating =>
           (At(p) \in Creating /\ proc'[p].i = proc[p].i) \/ proc'[p].i \notin DOMAIN journals,
         At(p)' = "redo" => Free
  PROVE  WholeInv'
<1>1. ASSUME NEW q \in Proc \ {p} PROVE ~Locked(q) /\ proc'[q] = proc[q]
  BY DEF Alone, RowsInv, Free
<1>2. ASSUME NEW q \in Proc \ {p}, At(q) = "redo"
      PROVE  /\ proc[q].i \in DOMAIN journals /\ (At(p) \in Creating => proc[q].i # proc[p].i)
             /\ Recoverable(journals'[proc[q].i])
  <2>1. proc[q].i \in DOMAIN journals /\ (At(p) \in Creating => proc[q].i # proc[p].i)
    BY <1>2 DEF TypeInv, Standing, WholeInv, Apart, At
  <2>2. Recoverable(journals[proc[q].i])
    BY <1>2 DEF WholeInv, Progress, At
  <2>3. DOMAIN journals'[proc[q].i].rows = DOMAIN journals[proc[q].i].rows
    BY <2>1
  <2> QED
    BY <2>1, <2>2, <2>3 DEF Recoverable, RowsKept
<1>3. ASSUME NEW q \in Proc \ {p} PROVE Progress(q)'
  <2>1. proc'[q] = proc[q] /\ proc[q].stage \notin Creating \union {"undo"}
    BY <1>1 DEF Locked
  <2>2. proc[q].stage = "redo" => Recoverable(journals'[proc'[q].i])
    BY <1>2, <2>1 DEF At
  <2> QED
    BY <2>1, <2>2 DEF Progress, Creating
<1>4. ASSUME NEW q \in Proc, NEW t \in Proc, proc'[q].stage \in Creating, proc'[t].stage = "redo"
      PROVE  proc'[q].i # proc'[t].i
  <2>1. q # t
    BY <1>4 DEF Creating
  <2>2. CASE q = p
    <3>1. t \in Proc \ {p}
      BY <2>1, <2>2
    <3>2. At(t) = "redo" /\ proc'[t] = proc[t]
      BY <1>1, <1>4, <3>1 DEF At
    <3> QED
      BY <1>2, <1>4, <2>2, <3>1, <3>2 DEF At
  <2>3. CASE q # p
    <3>1. Locked(q)
      BY <1>1, <1>4, <2>3 DEF Locked
    <3> QED
      BY <1>1, <2>3, <3>1
  <2> QED
    BY <2>2, <2>3
<1>5. \A q \in Proc : Progress(q)'
  BY <1>3
<1>6. Apart'
  BY <1>4 DEF Apart
<1> QED
  BY <1>5, <1>6 DEF WholeInv

\* The record of a creation that runs is the newest one.
LEMMA NewestTop ==
  ASSUME TypeInv, RowsInv, WholeInv, NEW p \in Proc, At(p) \in Creating
  PROVE  /\ Locked(p) /\ Top(proc[p].i) /\ proc[p].i = Len(journals) /\ proc[p].i \in DOMAIN journals
         /\ \A l \in DOMAIN journals \ {proc[p].i} : journals[l].status \notin Unfinished
<1>1. Locked(p)
  BY DEF Locked, At
<1>2. proc[p].i \in DOMAIN journals /\ journals[proc[p].i].status = "active" /\ proc[p].i = Len(journals)
      /\ \A l \in DOMAIN journals \ {proc[p].i} : journals[l].status \notin Unfinished
  BY <1>1, Holder DEF WholeInv, Progress, At
<1>3. \A l \in DOMAIN journals : ~(l > Len(journals))
  BY DEF TypeInv, TypeOK
<1> QED
  BY <1>1, <1>2, <1>3 DEF Top

LEMMA AbortProgress ==
  ASSUME TypeInv, RowsInv, WholeInv, NEW p \in Proc, Locked(p), AbortCreate(p),
         NEW i \in DOMAIN journals, i = proc[p].i, Top(i)', UndoneClear(i)',
         Len(journals'[i].rows) = Len(Rows(p))
  PROVE  Progress(p)' /\ Alone(p) /\ At(p)' = "undo"
<1>1. Alone(p) /\ proc'[p].stage = "undo" /\ proc'[p].i = i /\ proc'[p].k = Len(Rows(p))
  BY AbortCreateTyped DEF TypeInv, TypeOK, Request
<1>2. Rows(p)' = journals'[i].rows
  BY <1>1 DEF Rows
<1>3. Rows(p)' # <<>> => \A l \in DOMAIN Targets : l > Len(Rows(p)) => Clear(Targets[l])'
  BY <1>2 DEF UndoneClear
<1>4. Rows(p)' # <<>> => \A l \in DOMAIN Targets : l > proc'[p].k => Hidden(Targets[l])' /\ Clear(Targets[l])'
  BY <1>1, <1>3 DEF Clear
<1> QED
  BY <1>1, <1>2, <1>4 DEF Progress, Creating, At

\* A creation that turns back without a change.
LEMMA AbortWhole ==
  ASSUME TypeInv, RowsInv, WholeInv, NEW p \in Proc, At(p) \in Creating, AbortCreate(p),
         UNCHANGED <<files, journals, touched>>
  PROVE  WholeInv'
<1>1. OthersOnly
  BY DEF OthersOnly
<1>2. \A i \in DOMAIN journals : RowsFit(i)' /\ UndoneClear(i)' /\ (Top(i)' <=> Top(i))
  BY <1>1, RecordsStay DEF Top
<1>3. RowsKept
  BY SameRows
<1>4. Locked(p) /\ Top(proc[p].i) /\ proc[p].i \in DOMAIN journals
  BY NewestTop
<1>5. Progress(p)' /\ Alone(p) /\ At(p)' = "undo"
  <2>1. PICK i \in DOMAIN journals : i = proc[p].i
    BY <1>4
  <2>2. Top(i)' /\ UndoneClear(i)' /\ Len(journals'[i].rows) = Len(Rows(p))
    BY <1>2, <1>4, <2>1 DEF Rows
  <2> QED
    BY <1>4, <2>1, <2>2, AbortProgress
<1>6. CompleteManifest'
  BY <1>1, StillComplete DEF WholeInv
<1> QED
  BY <1>2, <1>3, <1>4, <1>5, <1>6, HolderWhole DEF Creating

LEMMA BeginWhole ==
  ASSUME TypeInv, RowsInv, WholeInv, NEW p \in Proc, Begin(p) PROVE WholeInv'
<1>0. PICK n : n = Len(journals) + 1
  OBVIOUS
<1> DEFINE j == [status |-> "active", rows |-> <<>>]
           r == [proc[p] EXCEPT !.stage = "check", !.i = n]
<1>1. UNCHANGED <<files, touched>>
  BY DEF Begin, ghosts
<1>2. OthersOnly
  BY <1>1 DEF OthersOnly
<1>3. CASE Leave(p) /\ UNCHANGED journals
  <2>1. Alone(p) /\ Out(p)'
    BY <1>3, LeaveTyped DEF TypeInv, Idle, Out, At, Creating
  <2> QED
    BY <1>2, <1>3, <2>1, StillWhole DEF Alone
<1>4. CASE Free /\ NoneUnfinished /\ journals' = Append(journals, j) /\ proc' = [proc EXCEPT ![p] = r]
  <2>1. j.status = "active" /\ j.rows = <<>> /\ DOMAIN j.rows = {}
    OBVIOUS
  <2>2. r.stage = "check" /\ r.i = n
    BY DEF TypeInv, TypeOK, Request
  <2> HIDE DEF r, j
  <2>3. /\ DOMAIN journals' = DOMAIN journals \union {n} /\ journals'[n] = j /\ n \notin DOMAIN journals
        /\ \A l \in DOMAIN journals : journals'[l] = journals[l] /\ ~(l > n)
        /\ Len(journals') = n
    BY <1>0, <1>4 DEF TypeInv, TypeOK
  <2>4. Alone(p) /\ proc'[p] = r
    BY <1>4 DEF Alone, TypeInv, TypeOK
  <2>5. ASSUME NEW i \in DOMAIN journals PROVE RowsFit(i)' /\ UndoneClear(i)'
    <3>1. RowsFit(i)'
      BY <1>2, <2>3, FitSame DEF WholeInv, OthersOnly
    <3>2. Top(i)' => Top(i)
      BY <2>3 DEF Top
    <3>3. \A l \in DOMAIN Targets : Clear(Targets[l]) => Clear(Targets[l])'
      BY <1>2, OthersLeave, TargetFacts
    <3> QED
      BY <2>3, <3>1, <3>2, <3>3 DEF UndoneClear, WholeInv
  <2>6. RowsFit(n)' /\ UndoneClear(n)'
    BY <2>1, <2>3 DEF RowsFit, UndoneClear
  <2>7. Progress(p)'
    <3>1. \A l \in DOMAIN journals' \ {n} : journals'[l].status \notin Unfinished
      BY <1>4, <2>3 DEF NoneUnfinished
    <3> QED
      BY <2>2, <2>3, <2>4, <3>1 DEF Progress
  <2>8. RowsKept
    BY <2>3 DEF RowsKept
  <2>9. CompleteManifest'
    BY <1>2, StillComplete DEF WholeInv
  <2>10. \A i \in DOMAIN journals : DOMAIN journals'[i].rows = DOMAIN journals[i].rows
    BY <2>3
  <2>11. At(p)' = "check" /\ proc'[p].i \notin DOMAIN journals
    BY <2>2, <2>3, <2>4 DEF At
  <2>12. \A i \in DOMAIN journals' : RowsFit(i)' /\ UndoneClear(i)'
    BY <2>3, <2>5, <2>6
  <2> QED
    BY <1>4, <2>4, <2>7, <2>8, <2>9, <2>10, <2>11, <2>12, HolderWhole
<1> QED
  BY <1>0, <1>3, <1>4 DEF Begin

LEMMA CheckWhole ==
  ASSUME TypeInv, RowsInv, WholeInv, NEW p \in Proc, CheckAgain(p) PROVE WholeInv'
<1>1. At(p) = "check" /\ At(p) \in Creating /\ Locked(p) /\ UNCHANGED <<files, journals>>
  BY DEF CheckAgain, At, Creating, Locked
<1>2. CASE AbortCreate(p) /\ UNCHANGED touched
  BY <1>1, <1>2, AbortWhole
<1>3. CASE /\ Vacant(TargetSet) /\ proc' = [proc EXCEPT ![p].stage = "publish", ![p].k = 1]
           /\ touched' = {x \in Path : files[x] # "none"}
  <2> DEFINE i == proc[p].i
  <2>1. Alone(p) /\ proc'[p].stage = "publish" /\ proc'[p].i = i /\ proc'[p].k = 1
    BY <1>3 DEF Alone, TypeInv, TypeOK, Request
  <2>2. /\ Rows(p) = journals[i].rows /\ Rows(p) = <<>> /\ i \in DOMAIN journals /\ i = Len(journals)
        /\ \A l \in DOMAIN journals \ {i} : journals[l].status \notin Unfinished
    BY <1>1, Holder, NewestTop DEF Holds
  <2>3. \A l \in DOMAIN Targets : files'[Targets[l]] = "none" /\ Clear(Targets[l])'
    BY <1>1, <1>3 DEF Vacant, TargetSet, Clear, Hidden
  <2>4. CompleteManifest'
    BY <2>3, TargetFacts DEF CompleteManifest
  <2>5. ASSUME NEW l \in DOMAIN journals PROVE RowsFit(l)' /\ UndoneClear(l)'
    <3>1. UndoneClear(l)'
      BY <2>3 DEF UndoneClear
    <3>2. CASE l = i
      <4>1. journals'[l].rows = <<>>
        BY <1>1, <2>2, <3>2
      <4> QED
        BY <3>1, <4>1 DEF RowsFit
    <3>3. CASE l # i
      BY <1>1, <2>2, <3>1, <3>3 DEF RowsFit, WholeInv
    <3> QED
      BY <3>2, <3>3
  <2>6. Progress(p)'
    <3>1. \A l \in DOMAIN Targets : ~(l < 1)
      BY TargetFacts
    <3> QED
      BY <1>1, <2>1, <2>2, <2>3, <3>1 DEF Progress, Creating
  <2>7. RowsKept
    BY <1>1, SameRows
  <2> QED
    BY <1>1, <2>1, <2>4, <2>5, <2>6, <2>7, HolderWhole DEF At
<1> QED
  BY <1>2, <1>3 DEF CheckAgain

LEMMA PublishWhole ==
  ASSUME TypeInv, RowsInv, WholeInv, NEW p \in Proc, Publish(p) PROVE WholeInv'
<1>1. At(p) = "publish" /\ At(p) \in Creating /\ Locked(p) /\ UNCHANGED <<files, journals, touched>>
  BY DEF Publish, At, Creating, Locked, ghosts
<1>2. CASE AbortCreate(p)
  BY <1>1, <1>2, AbortWhole
<1>3. ASSUME NEW s \in {"commit", "backup"}, Go(p, s), s = "commit" => proc[p].k > Len(Targets)
      PROVE  WholeInv'
  <2>1. Alone(p) /\ proc'[p].stage = s /\ proc'[p].i = proc[p].i /\ proc'[p].k = proc[p].k
    BY <1>3, OnAt
  <2>2. OthersOnly /\ RowsKept
    BY <1>1, SameRows DEF OthersOnly
  <2>3. Rows(p)' = Rows(p) /\ Len(Rows(p)) = proc[p].k - 1 /\ proc[p].k \in Nat
    BY <1>1, <2>1, Holder DEF Rows, Holds
  <2>4. \A l \in DOMAIN Targets : IF l < proc[p].k THEN Shown(Targets[l])' ELSE Clear(Targets[l])'
    BY <1>1, <2>2, OthersLeave, TargetFacts DEF WholeInv, Progress, At
  <2>5. s = "commit" => Len(Rows(p)') >= Len(Targets)
    BY <1>3, <2>3, TargetFacts
  <2>6. Progress(p)'
    <3>1. proc[p].i = Len(journals) /\ \A l \in DOMAIN journals \ {proc[p].i} : journals[l].status \notin Unfinished
      BY <1>1, NewestTop
    <3> QED
      BY <1>1, <2>1, <2>4, <2>5, <3>1 DEF Progress
  <2>7. CompleteManifest' /\ \A i \in DOMAIN journals : RowsFit(i)' /\ UndoneClear(i)'
    BY <1>1, <2>2, StillComplete, RecordsStay DEF WholeInv
  <2> QED
    BY <1>1, <2>1, <2>2, <2>6, <2>7, HolderWhole DEF At
<1> QED
  BY <1>2, <1>3 DEF Publish

\* While the record at i is the newest with rows, nothing is asked of the others.
LEMMA RivalClear ==
  ASSUME TypeInv, DOMAIN journals' = DOMAIN journals, NEW i \in DOMAIN journals,
         Top(i)', journals'[i].rows # <<>>
  PROVE  \A l \in DOMAIN journals \ {i} : UndoneClear(l)'
<1>1. DOMAIN journals \subseteq Nat
  BY DEF TypeInv, TypeOK
<1>2. ASSUME NEW l \in DOMAIN journals, l # i, Top(l)', journals'[l].rows # <<>> PROVE FALSE
  <2>1. ~(l > i) /\ ~(i > l)
    BY <1>2 DEF Top
  <2> QED
    BY <1>1, <1>2, <2>1
<1> QED
  BY <1>2 DEF UndoneClear

LEMMA RivalFit ==
  ASSUME WholeInv, NEW i \in DOMAIN journals, touched' = touched,
         \A l \in DOMAIN journals \ {i} : journals'[l] = journals[l]
  PROVE  \A l \in DOMAIN journals \ {i} : RowsFit(l)'
  BY FitSame DEF WholeInv

LEMMA BackupWhole ==
  ASSUME TypeInv, RowsInv, WholeInv, RowsKept, NEW p \in Proc, Backup(p) PROVE WholeInv'
<1>0. PICK i, k, x : i = proc[p].i /\ k = proc[p].k /\ x = Targets[k]
  OBVIOUS
<1> DEFINE row == [path |-> x, kind |-> files[x], applied |-> "unset", restored |-> FALSE]
<1>1. At(p) = "backup" /\ At(p) \in Creating /\ Locked(p) /\ UNCHANGED <<files, touched>>
  BY DEF Backup, At, Creating, Locked, ghosts
<1>2. /\ Len(Rows(p)) = k - 1 /\ Rows(p) \in Seq(Row) /\ k \in Nat /\ k \in DOMAIN Targets
      /\ i \in DOMAIN journals /\ journals[i].status = "active" /\ Rows(p) = journals[i].rows
      /\ Top(i) /\ i = Len(journals)
      /\ \A l \in DOMAIN journals \ {i} : journals[l].status \notin Unfinished
  BY <1>0, <1>1, Holder, NewestTop DEF Holds, Standing
<1>3. \A l \in DOMAIN Targets : IF l < k THEN Shown(Targets[l]) ELSE Clear(Targets[l])
  BY <1>0, <1>1 DEF WholeInv, Progress, At
<1>4. x \in Path /\ Clear(x) /\ Made(x) # "none"
  <2>1. x \in Path /\ ~(k < k)
    BY <1>0, <1>2, TargetFacts
  <2> QED
    BY <1>0, <1>2, <1>3, <2>1, MadeNot
<1>5. row \in Row
  <2>1. files[x] \in Content
    BY <1>4 DEF TypeInv, TypeOK
  <2> QED
    BY <1>4, <2>1 DEF Row
<1>6. row.path = x /\ row.kind = files[x] /\ row.applied = "unset" /\ row.restored = FALSE
  OBVIOUS
<1>7. journals' = [journals EXCEPT ![i].rows = Append(@, row)] /\ Go(p, "bind")
  BY <1>0 DEF Backup
<1> HIDE DEF row
<1>8. /\ DOMAIN journals' = DOMAIN journals /\ journals'[i].status = "active"
      /\ journals'[i].rows = Append(journals[i].rows, row)
      /\ \A l \in DOMAIN journals \ {i} : journals'[l] = journals[l]
  BY <1>2, <1>5, <1>7, RowAdded DEF TypeInv
<1>9. /\ DOMAIN journals'[i].rows = DOMAIN journals[i].rows \union {k} /\ Len(journals'[i].rows) = k
      /\ journals'[i].rows[k] = row /\ k \notin DOMAIN journals[i].rows /\ journals'[i].rows # <<>>
      /\ \A l \in DOMAIN journals[i].rows : journals'[i].rows[l] = journals[i].rows[l]
      /\ DOMAIN journals[i].rows = 1..(k - 1)
  BY <1>2, <1>8
<1>10. Alone(p) /\ proc'[p].stage = "bind" /\ proc'[p].i = i /\ proc'[p].k = k
  BY <1>0, <1>7, OnAt
<1>11. Top(i)'
  <2>1. \A l \in DOMAIN journals : ~(l > i)
    BY <1>2 DEF TypeInv, TypeOK
  <2> QED
    BY <1>8, <2>1 DEF Top
<1>12. \A l \in DOMAIN Targets : (Clear(Targets[l]) => Clear(Targets[l])') /\ (Shown(Targets[l]) => Shown(Targets[l])')
  BY <1>1, Pointwise
<1>13. RowsFit(i)'
  <2>1. ASSUME NEW l \in DOMAIN journals'[i].rows, l # k
        PROVE  l \in DOMAIN journals[i].rows /\ journals'[i].rows[l] = journals[i].rows[l]
    BY <1>9, <2>1
  <2>2. row.kind = "none" \/ row.path \in touched'
    BY <1>1, <1>4, <1>6 DEF Clear
  <2>3. row.path = Manifest => row.kind # "made"
    BY <1>4, <1>6 DEF Clear, Hidden
  <2> QED
    BY <1>0, <1>1, <1>2, <1>6, <1>8, <1>9, <2>1, <2>2, <2>3 DEF RowsFit, WholeInv
<1>14. UndoneClear(i)'
  <2>1. ASSUME NEW l \in DOMAIN Targets, l > k \/ journals'[i].rows[l].restored
        PROVE  Clear(Targets[l])'
    <3>1. CASE l >= k
      BY <1>2, <1>3, <1>12, <3>1, TargetFacts
    <3>2. CASE l < k
      <4>1. l \in DOMAIN journals[i].rows /\ journals'[i].rows[l] = journals[i].rows[l]
            /\ journals[i].rows # <<>>
        BY <1>2, <1>9, <3>2, TargetFacts
      <4>2. journals[i].rows[l].restored
        BY <1>2, <2>1, <3>2, <4>1, TargetFacts
      <4> QED
        BY <1>2, <1>12, <4>1, <4>2 DEF UndoneClear, WholeInv
    <3> QED
      BY <1>2, <3>1, <3>2, TargetFacts
  <2> QED
    BY <1>9, <2>1 DEF UndoneClear
<1>15. \A l \in DOMAIN journals' : RowsFit(l)' /\ UndoneClear(l)'
  BY <1>1, <1>2, <1>8, <1>9, <1>11, <1>13, <1>14, RivalClear, RivalFit
<1>16. Progress(p)'
  <2>1. Rows(p)' = journals'[i].rows
    BY <1>10 DEF Rows
  <2>2. Len(journals') = Len(journals)
    BY <1>2, <1>5, <1>7, RowAdded DEF TypeInv, TypeOK
  <2>3. \A l \in DOMAIN journals' \ {i} : journals'[l].status \notin Unfinished
    BY <1>2, <1>8
  <2> QED
    BY <1>2, <1>3, <1>6, <1>9, <1>10, <1>12, <2>1, <2>2, <2>3 DEF Progress
<1>17. CompleteManifest'
  BY <1>1 DEF WholeInv, CompleteManifest, Shown
<1> QED
  BY <1>0, <1>1, <1>2, <1>8, <1>10, <1>15, <1>16, <1>17, HolderWhole DEF At

\* One row of the newest record changes, its path and what it backed up do not.
LEMMA RowChanged ==
  ASSUME TypeInv, WholeInv, NEW i \in DOMAIN journals, journals[i].status = "active",
         NEW k \in DOMAIN journals[i].rows, NEW row \in Row,
         journals' = [journals EXCEPT ![i].rows[k] = row], UNCHANGED touched,
         row.path = journals[i].rows[k].path, row.kind = journals[i].rows[k].kind,
         row.applied \in {"unset", Made(row.path)}
  PROVE  /\ DOMAIN journals' = DOMAIN journals /\ i \in DOMAIN journals /\ Len(journals') = Len(journals)
         /\ DOMAIN journals'[i].rows = DOMAIN journals[i].rows /\ journals'[i].rows[k] = row
         /\ Len(journals'[i].rows) = Len(journals[i].rows) /\ journals'[i].rows # <<>> /\ journals[i].rows # <<>>
         /\ \A l \in DOMAIN journals[i].rows \ {k} : journals'[i].rows[l] = journals[i].rows[l]
         /\ \A l \in DOMAIN journals \ {i} : journals'[l] = journals[l]
         /\ \A l \in DOMAIN journals : DOMAIN journals'[l].rows = DOMAIN journals[l].rows
         /\ \A l \in DOMAIN journals : RowsFit(l)' /\ (Top(l)' <=> Top(l))
         /\ journals'[i].status = "active"
<1>1. journals[i].rows \in Seq(Row)
  BY JournalTyped DEF TypeInv
<1>3. /\ DOMAIN journals' = DOMAIN journals /\ journals' \in Seq(Journal)
      /\ journals'[i].rows = [journals[i].rows EXCEPT ![k] = row] /\ journals'[i].status = "active"
      /\ \A l \in DOMAIN journals \ {i} : journals'[l] = journals[l]
  <2>1. TypeOK
    BY DEF TypeInv
  <2> QED
    BY <2>1, RowSet
<1>4. Len(journals') = Len(journals)
  BY <1>3 DEF TypeInv, TypeOK
<1>5. /\ DOMAIN journals'[i].rows = DOMAIN journals[i].rows /\ journals'[i].rows[k] = row
      /\ Len(journals'[i].rows) = Len(journals[i].rows)
      /\ \A l \in DOMAIN journals[i].rows \ {k} : journals'[i].rows[l] = journals[i].rows[l]
  <2>1. PICK rows : rows = journals[i].rows
    OBVIOUS
  <2>2. rows \in Seq(Row) /\ k \in DOMAIN rows /\ journals'[i].rows = [rows EXCEPT ![k] = row]
    BY <1>1, <1>3, <2>1
  <2>3. /\ DOMAIN [rows EXCEPT ![k] = row] = DOMAIN rows /\ [rows EXCEPT ![k] = row][k] = row
        /\ Len([rows EXCEPT ![k] = row]) = Len(rows)
        /\ \A l \in DOMAIN rows \ {k} : [rows EXCEPT ![k] = row][l] = rows[l]
    BY <2>2, SeqSet
  <2> QED
    BY <2>1, <2>2, <2>3
<1>6. journals'[i].rows # <<>> /\ journals[i].rows # <<>>
  BY <1>1, <1>5
<1>7. RowsFit(i)'
  <2>1. RowsFit(i)
    BY DEF WholeInv
  <2>2. ASSUME NEW l \in DOMAIN journals'[i].rows
        PROVE  /\ l \in DOMAIN journals[i].rows
               /\ journals'[i].rows[l].path = journals[i].rows[l].path
               /\ journals'[i].rows[l].kind = journals[i].rows[l].kind
               /\ journals'[i].rows[l].applied \in {"unset", Made(journals[i].rows[l].path)}
    BY <1>5, <2>1 DEF RowsFit
  <2> QED
    BY <1>3, <2>1, <2>2 DEF RowsFit, Unfinished
<1>8. \A l \in DOMAIN journals : Top(l)' <=> Top(l)
  <2>1. \A l \in DOMAIN journals :
           /\ journals'[l].rows = <<>> <=> journals[l].rows = <<>>
           /\ journals'[l].status = "rolled_back" <=> journals[l].status = "rolled_back"
    BY <1>1, <1>3, <1>6
  <2> QED
    BY <1>3, <2>1, TopSame
<1> QED
  BY <1>1, <1>3, <1>4, <1>5, <1>6, <1>7, <1>8, RivalFit

LEMMA BindWhole ==
  ASSUME TypeInv, RowsInv, WholeInv, RowsKept, NEW p \in Proc, Bind(p) PROVE WholeInv'
<1>0. PICK i, k : i = proc[p].i /\ k = proc[p].k
  OBVIOUS
<1> DEFINE row == [Rows(p)[k] EXCEPT !.applied = Bound(Targets[k])]
<1>1. At(p) = "bind" /\ At(p) \in Creating /\ Locked(p) /\ UNCHANGED <<files, touched>>
  BY DEF Bind, At, Creating, Locked, ghosts
<1>2. /\ Len(Rows(p)) = k /\ Rows(p) \in Seq(Row) /\ k \in Nat /\ k \in DOMAIN Targets
      /\ k \in DOMAIN Rows(p) /\ Rows(p)[k] \in Row
      /\ i \in DOMAIN journals /\ Rows(p) = journals[i].rows /\ Top(i) /\ i = Len(journals)
      /\ \A l \in DOMAIN journals \ {i} : journals[l].status \notin Unfinished
  BY <1>0, <1>1, Holder, NewestTop, TargetFacts DEF Holds, Standing
<1>3. /\ \A l \in DOMAIN Targets : IF l < k THEN Shown(Targets[l]) ELSE Clear(Targets[l])
      /\ ~Rows(p)[k].restored
  BY <1>0, <1>1 DEF WholeInv, Progress, At
<1>4. Rows(p)[k].path = Targets[k]
  BY <1>2 DEF WholeInv, RowsFit
<1>5. /\ row \in Row /\ row.path = Targets[k] /\ row.path = Rows(p)[k].path /\ row.kind = Rows(p)[k].kind
      /\ row.applied = Made(row.path) /\ row.restored = Rows(p)[k].restored
  BY <1>2, <1>4 DEF Row, Bound, Made, Content
<1>6. SetRow(p, k, row) /\ Go(p, "rename")
  BY <1>0 DEF Bind
<1> HIDE DEF row
<1>7. /\ DOMAIN journals' = DOMAIN journals /\ Len(journals') = Len(journals)
      /\ DOMAIN journals'[i].rows = DOMAIN journals[i].rows /\ journals'[i].rows[k] = row
      /\ Len(journals'[i].rows) = Len(journals[i].rows) /\ journals'[i].rows # <<>> /\ journals[i].rows # <<>>
      /\ \A l \in DOMAIN journals[i].rows \ {k} : journals'[i].rows[l] = journals[i].rows[l]
      /\ \A l \in DOMAIN journals \ {i} : journals'[l] = journals[l]
      /\ \A l \in DOMAIN journals : DOMAIN journals'[l].rows = DOMAIN journals[l].rows
      /\ \A l \in DOMAIN journals : RowsFit(l)' /\ (Top(l)' <=> Top(l))
  <2>1. journals' = [journals EXCEPT ![i].rows[k] = row] /\ journals[i].status = "active"
    BY <1>0, <1>1, <1>6, Holder DEF SetRow
  <2>2. /\ row.path = journals[i].rows[k].path /\ row.kind = journals[i].rows[k].kind
        /\ row.applied \in {"unset", Made(row.path)} /\ k \in DOMAIN journals[i].rows
    BY <1>2, <1>5
  <2>3. i \in DOMAIN journals /\ row \in Row /\ touched' = touched
    BY <1>1, <1>2, <1>5
  <2> QED
    BY <2>1, <2>2, <2>3, RowChanged
<1>8. Alone(p) /\ proc'[p].stage = "rename" /\ proc'[p].i = i /\ proc'[p].k = k
  BY <1>0, <1>6, OnAt
<1>9. \A l \in DOMAIN Targets : (Clear(Targets[l]) => Clear(Targets[l])') /\ (Shown(Targets[l]) => Shown(Targets[l])')
  BY <1>1, Pointwise
<1>10. UndoneClear(i)'
  <2>1. ASSUME NEW l \in DOMAIN Targets, l > Len(journals[i].rows) \/ journals'[i].rows[l].restored
        PROVE  Clear(Targets[l])'
    <3>1. l > Len(journals[i].rows) \/ journals[i].rows[l].restored
      <4>1. l \in DOMAIN journals[i].rows \/ l > Len(journals[i].rows)
        BY <1>2, TargetFacts
      <4> QED
        BY <1>2, <1>5, <1>7, <2>1, <4>1
    <3> QED
      BY <1>2, <1>7, <1>9, <3>1 DEF UndoneClear, WholeInv
  <2> QED
    BY <1>7, <2>1 DEF UndoneClear
<1>11. \A l \in DOMAIN journals' : RowsFit(l)' /\ UndoneClear(l)'
  BY <1>2, <1>7, <1>10, RivalClear
<1>12. Progress(p)'
  <2>1. Rows(p)' = journals'[i].rows
    BY <1>8 DEF Rows
  <2>2. \A l \in DOMAIN journals' \ {i} : journals'[l].status \notin Unfinished
    BY <1>2, <1>7
  <2> QED
    BY <1>2, <1>3, <1>5, <1>7, <1>8, <1>9, <2>1, <2>2 DEF Progress
<1>13. CompleteManifest'
  BY <1>1 DEF WholeInv, CompleteManifest, Shown
<1> QED
  BY <1>0, <1>1, <1>2, <1>7, <1>8, <1>11, <1>12, <1>13, HolderWhole DEF At

\* A step that changes one target, and no record.
LEMMA OneTarget ==
  ASSUME TypeInv, NEW x \in Path, NEW c, files' = [files EXCEPT ![x] = c], UNCHANGED touched
  PROVE  /\ files'[x] = c /\ \A y \in Path \ {x} : files'[y] = files[y]
         /\ \A y \in Path \ {x} : (Clear(y) => Clear(y)') /\ (Hidden(y) => Hidden(y)') /\ (Shown(y) => Shown(y)')
<1>1. files'[x] = c /\ \A y \in Path \ {x} : files'[y] = files[y]
  BY DEF TypeInv, TypeOK
<1> QED
  BY <1>1, Pointwise

LEMMA RenameWhole ==
  ASSUME TypeInv, RowsInv, WholeInv, RowsKept, NEW p \in Proc, Rename(p) PROVE WholeInv'
<1>0. PICK i, k, x : i = proc[p].i /\ k = proc[p].k /\ x = Targets[k]
  OBVIOUS
<1>1. At(p) = "rename" /\ At(p) \in Creating /\ Locked(p) /\ UNCHANGED touched
  BY DEF Rename, At, Creating, Locked, ghosts
<1>2. /\ Len(Rows(p)) = k /\ Rows(p) \in Seq(Row) /\ k \in Nat /\ k \in DOMAIN Targets
      /\ k \in DOMAIN Rows(p) /\ Rows(p)[k] \in Row /\ journals[i].status = "active"
      /\ i \in DOMAIN journals /\ Rows(p) = journals[i].rows /\ Top(i) /\ i = Len(journals)
      /\ \A l \in DOMAIN journals \ {i} : journals[l].status \notin Unfinished
  BY <1>0, <1>1, Holder, NewestTop, TargetFacts DEF Holds, Standing
<1>3. /\ \A l \in DOMAIN Targets : IF l < k THEN Shown(Targets[l]) ELSE Clear(Targets[l])
      /\ ~Rows(p)[k].restored
  BY <1>0, <1>1 DEF WholeInv, Progress, At
<1>4. x \in Path /\ journals[i].rows # <<>> /\ \A l \in DOMAIN Targets : Targets[l] = x <=> l = k
  BY <1>0, <1>2, TargetFacts
<1>5. CASE AbortCreate(p) /\ UNCHANGED <<files, journals>>
  BY <1>1, <1>5, AbortWhole
<1>6. CASE files' = [files EXCEPT ![x] = Made(x)] /\ UNCHANGED journals
           /\ proc' = [proc EXCEPT ![p].stage = "publish", ![p].k = k + 1]
  <2>1. Alone(p) /\ proc'[p].stage = "publish" /\ proc'[p].i = i /\ proc'[p].k = k + 1
    BY <1>0, <1>6 DEF Alone, TypeInv, TypeOK, Request
  <2>2. /\ files'[x] = Made(x) /\ \A y \in Path \ {x} : files'[y] = files[y]
        /\ \A y \in Path \ {x} : (Clear(y) => Clear(y)') /\ (Hidden(y) => Hidden(y)') /\ (Shown(y) => Shown(y)')
    BY <1>1, <1>4, <1>6, OneTarget
  <2>3. \A l \in DOMAIN Targets : IF l < k + 1 THEN Shown(Targets[l])' ELSE Clear(Targets[l])'
    <3>1. ASSUME NEW l \in DOMAIN Targets, l # k
          PROVE  /\ l < k + 1 <=> l < k
                 /\ (Clear(Targets[l]) => Clear(Targets[l])') /\ (Shown(Targets[l]) => Shown(Targets[l])')
      BY <1>2, <1>4, <2>2, <3>1, TargetFacts
    <3>2. Shown(Targets[k])' /\ k < k + 1
      BY <1>0, <1>2, <2>2 DEF Shown
    <3> QED
      BY <1>3, <3>1, <3>2
  <2>4. UndoneClear(i)'
    <3>1. Top(i)' <=> Top(i)
      BY <1>6 DEF Top
    <3>2. ASSUME NEW l \in DOMAIN Targets, l > k \/ journals[i].rows[l].restored PROVE Clear(Targets[l])'
      <4>1. l # k
        BY <1>2, <1>3, <3>2
      <4>2. Clear(Targets[l])
        BY <1>2, <1>4, <3>2 DEF UndoneClear, WholeInv
      <4> QED
        BY <1>4, <2>2, <4>1, <4>2, TargetFacts
    <3> QED
      BY <1>2, <1>6, <3>1, <3>2 DEF UndoneClear
  <2>5. \A l \in DOMAIN journals : RowsFit(l)'
    BY <1>1, <1>6, FitSame DEF WholeInv
  <2>6. Top(i)'
    BY <1>2, <1>6 DEF Top
  <2>7. \A l \in DOMAIN journals' : RowsFit(l)' /\ UndoneClear(l)'
    BY <1>2, <1>4, <1>6, <2>4, <2>5, <2>6, RivalClear
  <2>8. Progress(p)'
    BY <1>2, <1>6, <2>1, <2>3 DEF Progress
  <2>9. CompleteManifest'
    <3>1. CASE k = Len(Targets)
      <4>1. \A l \in DOMAIN Targets : Shown(Targets[l])'
        BY <2>3, <3>1, TargetFacts
      <4> QED
        BY <4>1 DEF CompleteManifest, Shown, TargetSet
    <3>2. CASE k # Len(Targets)
      <4>1. x # Manifest /\ Clear(Manifest)
        BY <1>0, <1>2, <1>3, <3>2, TargetFacts
      <4> QED
        BY <2>2, <4>1, TargetFacts DEF CompleteManifest, Clear, Hidden
    <3> QED
      BY <3>1, <3>2
  <2>10. RowsKept /\ \A l \in DOMAIN journals : DOMAIN journals'[l].rows = DOMAIN journals[l].rows
    BY <1>6
  <2> QED
    BY <1>0, <1>1, <2>1, <2>7, <2>8, <2>9, <2>10, HolderWhole DEF At
<1> DEFINE row == [Rows(p)[k] EXCEPT !.restored = TRUE]
<1>7. CASE files[x] = "none" /\ SetRow(p, k, row) /\ AbortCreate(p) /\ UNCHANGED files
  <2>1. /\ row \in Row /\ row.path = journals[i].rows[k].path /\ row.kind = journals[i].rows[k].kind
        /\ row.applied \in {"unset", Made(row.path)} /\ k \in DOMAIN journals[i].rows
    <3>1. journals[i].rows[k].applied \in {"unset", Made(journals[i].rows[k].path)}
      BY <1>2 DEF RowsFit, WholeInv
    <3> QED
      BY <1>2, <3>1 DEF Row
  <2>2. journals' = [journals EXCEPT ![i].rows[k] = row] /\ touched' = touched
    BY <1>0, <1>1, <1>7 DEF SetRow
  <2>3. i \in DOMAIN journals /\ journals[i].status = "active"
    BY <1>2
  <2> HIDE DEF row
  <2>4. /\ DOMAIN journals' = DOMAIN journals
        /\ DOMAIN journals'[i].rows = DOMAIN journals[i].rows
        /\ Len(journals'[i].rows) = Len(journals[i].rows) /\ journals'[i].rows # <<>>
        /\ \A l \in DOMAIN journals[i].rows \ {k} : journals'[i].rows[l] = journals[i].rows[l]
        /\ \A l \in DOMAIN journals : DOMAIN journals'[l].rows = DOMAIN journals[l].rows
        /\ \A l \in DOMAIN journals : RowsFit(l)' /\ (Top(l)' <=> Top(l))
    BY <2>1, <2>2, <2>3, RowChanged
  <2>5. \A l \in DOMAIN Targets : Clear(Targets[l]) => Clear(Targets[l])'
    BY <1>7, <2>2, Pointwise
  <2>6. Clear(Targets[k])'
    BY <1>0, <1>7 DEF Clear, Hidden
  <2>7. UndoneClear(i)'
    <3>1. ASSUME NEW l \in DOMAIN Targets, l > k \/ journals'[i].rows[l].restored, l # k PROVE Clear(Targets[l])'
      <4>1. l > k \/ l \in DOMAIN journals[i].rows \ {k}
        BY <1>2, <3>1, TargetFacts
      <4>2. l > k \/ journals[i].rows[l].restored
        BY <2>4, <3>1, <4>1
      <4> QED
        BY <1>2, <1>4, <2>5, <4>2 DEF UndoneClear, WholeInv
    <3> QED
      BY <1>2, <2>4, <2>6, <3>1 DEF UndoneClear
  <2>8. \A l \in DOMAIN journals' : RowsFit(l)' /\ UndoneClear(l)'
    BY <1>2, <2>3, <2>4, <2>7, RivalClear
  <2>9. Progress(p)' /\ Alone(p) /\ At(p)' = "undo"
    <3>1. Len(journals'[i].rows) = Len(Rows(p)) /\ Top(i)'
      BY <1>2, <2>4
    <3> QED
      BY <1>0, <1>1, <1>7, <2>3, <2>7, <3>1, AbortProgress
  <2>10. CompleteManifest'
    BY <1>7, <2>2 DEF WholeInv, CompleteManifest, Shown
  <2> QED
    BY <1>1, <2>4, <2>8, <2>9, <2>10, HolderWhole DEF Creating
<1> QED
  BY <1>0, <1>5, <1>6, <1>7 DEF Rename

\* The record gets another status and its command ends.
LEMMA StatusChanged ==
  ASSUME TypeInv, WholeInv, NEW i \in DOMAIN journals, NEW s \in {"active", "incomplete", "committed", "rolled_back"},
         journals' = [journals EXCEPT ![i].status = s], UNCHANGED <<files, touched>>,
         s \in Unfinished => journals[i].status \in Unfinished \/ Recoverable(journals[i])
  PROVE  /\ DOMAIN journals' = DOMAIN journals /\ journals'[i].status = s
         /\ \A l \in DOMAIN journals : RowsFit(l)' /\ journals'[l].rows = journals[l].rows
         /\ \A l \in DOMAIN journals \ {i} : journals'[l] = journals[l]
         /\ CompleteManifest'
<1>1. /\ DOMAIN journals' = DOMAIN journals /\ journals'[i].status = s
      /\ \A l \in DOMAIN journals : journals'[l].rows = journals[l].rows
      /\ \A l \in DOMAIN journals \ {i} : journals'[l] = journals[l]
  BY StatusSet DEF TypeInv
<1>2. RowsFit(i)'
  <2>1. RowsFit(i) /\ journals'[i].rows = journals[i].rows
    BY <1>1 DEF WholeInv
  <2>2. journals'[i].status \in Unfinished =>
          \A k \in DOMAIN journals[i].rows :
            journals[i].rows[k].kind = "none" \/ journals[i].rows[k].path \in touched
    BY <1>1, <2>1 DEF RowsFit, Recoverable
  <2> QED
    BY <2>1, <2>2 DEF RowsFit
<1> QED
  BY <1>1, <1>2, RivalFit DEF WholeInv, CompleteManifest

LEMMA CommitWhole ==
  ASSUME TypeInv, RowsInv, WholeInv, RowsKept, NEW p \in Proc, Commit(p) PROVE WholeInv'
<1>0. PICK i : i = proc[p].i
  OBVIOUS
<1>1. At(p) = "commit" /\ At(p) \in Creating /\ Locked(p) /\ UNCHANGED <<files, touched>>
  BY DEF Commit, At, Creating, Locked, ghosts
<1>2. i \in DOMAIN journals /\ journals[i].status = "active"
  BY <1>0, <1>1, Holder
<1>3. journals' = [journals EXCEPT ![i].status = "committed"] /\ "committed" \notin Unfinished
  BY <1>0 DEF Commit, SetStatus, Unfinished
<1>4. /\ DOMAIN journals' = DOMAIN journals /\ journals'[i].status = "committed"
      /\ \A l \in DOMAIN journals : RowsFit(l)' /\ journals'[l].rows = journals[l].rows
      /\ \A l \in DOMAIN journals \ {i} : journals'[l] = journals[l]
      /\ CompleteManifest'
  BY <1>1, <1>2, <1>3, StatusChanged
<1>5. \A l \in DOMAIN journals : Top(l)' <=> Top(l)
  <2>1. \A l \in DOMAIN journals : journals'[l].status = "rolled_back" <=> journals[l].status = "rolled_back"
    BY <1>2, <1>4
  <2> QED
    BY <1>4, <2>1, TopSame
<1>6. \A l \in DOMAIN Targets : Clear(Targets[l]) => Clear(Targets[l])'
  BY <1>1, Pointwise
<1>7. \A l \in DOMAIN journals : UndoneClear(l)'
  BY <1>4, <1>5, <1>6 DEF UndoneClear, WholeInv
<1>8. Alone(p) /\ Out(p)' /\ Progress(p)'
  <2>1. Alone(p) /\ proc'[p] = Idle
    BY LeaveTyped DEF Commit, TypeInv
  <2>2. Out(p)'
    BY <2>1 DEF Out, At, Idle, Creating
  <2> QED
    BY <2>1, <2>2, OutProgress
<1> QED
  BY <1>1, <1>4, <1>7, <1>8, HolderWhole DEF Out

\* The row that is undone is shown by nobody any more.
LEMMA UndoRowWhole ==
  ASSUME TypeInv, RowsInv, WholeInv, RowsKept, NEW p \in Proc, UndoRow(p) PROVE WholeInv'
<1>0. PICK i, k, row : i = proc[p].i /\ k = proc[p].k /\ row = Rows(p)[k]
  OBVIOUS
<1>1. At(p) = "undo" /\ Locked(p) /\ k > 0 /\ UNCHANGED touched
  BY <1>0 DEF UndoRow, At, Locked, ghosts
<1>2. /\ Rows(p) \in Seq(Row) /\ k \in Nat /\ k \in DOMAIN Rows(p) /\ row \in Row
      /\ journals[i].status = "active" /\ i \in DOMAIN journals /\ Rows(p) = journals[i].rows
      /\ k \in DOMAIN journals[i].rows /\ row = journals[i].rows[k]
  BY <1>0, <1>1, Holder DEF Standing
<1>3. journals[i].rows # <<>>
  BY <1>2
<1>4. /\ Top(i)
      /\ \A l \in DOMAIN Targets : l > k => Hidden(Targets[l]) /\ (~proc[p].bad => Clear(Targets[l]))
  BY <1>0, <1>1, <1>2, <1>3 DEF WholeInv, Progress, At
<1>5. /\ k \in DOMAIN Targets /\ row.path = Targets[k] /\ row.applied \in {"unset", Made(row.path)}
      /\ row.path = Manifest => row.kind # "made"
      /\ row.kind = "none" \/ row.path \in touched
  BY <1>2 DEF WholeInv, RowsFit, Unfinished
<1>6. /\ Targets[k] \in Path /\ \A l \in DOMAIN Targets : Targets[l] = Targets[k] <=> l = k
      /\ Targets[k] # Manifest => Len(Targets) \in DOMAIN Targets /\ Len(Targets) > k
  BY <1>5, TargetFacts
<1>7. \A l \in DOMAIN Targets : l > k - 1 <=> l > k \/ l = k
  BY <1>2, TargetFacts
\* Next row: what is gone is gone.
<1>8. ASSUME NEW bad \in BOOLEAN, proc' = [proc EXCEPT ![p].k = k - 1, ![p].bad = @ \/ bad],
             Top(i)', \A l \in DOMAIN Targets \ {k} : (Clear(Targets[l]) => Clear(Targets[l])') /\ (Hidden(Targets[l]) => Hidden(Targets[l])'),
             Hidden(Targets[k])', ~bad => Clear(Targets[k])'
      PROVE  Alone(p) /\ At(p)' = "undo" /\ Progress(p)'
  <2>1. Alone(p) /\ proc'[p].stage = "undo" /\ proc'[p].i = i /\ proc'[p].k = k - 1 /\ proc'[p].bad = (proc[p].bad \/ bad)
    BY <1>0, <1>1, <1>8 DEF Alone, TypeInv, TypeOK, Request, At
  <2>2. \A l \in DOMAIN Targets : l > k - 1 => Hidden(Targets[l])' /\ (~proc'[p].bad => Clear(Targets[l])')
    BY <1>4, <1>7, <1>8, <2>1
  <2> QED
    BY <1>8, <2>1, <2>2 DEF Progress, Creating, At
<1>9. CASE UNCHANGED <<files, journals>> /\ \E bad \in BOOLEAN :
             /\ proc' = [proc EXCEPT ![p].k = k - 1, ![p].bad = @ \/ bad]
             /\ Hidden(Targets[k]) /\ (~bad => Clear(Targets[k]))
  <2>1. OthersOnly
    BY <1>1, <1>9 DEF OthersOnly
  <2>2. \A l \in DOMAIN Targets : (Clear(Targets[l]) => Clear(Targets[l])') /\ (Hidden(Targets[l]) => Hidden(Targets[l])')
    BY <1>1, <1>9, Pointwise
  <2>3. Top(i)'
    BY <1>4, <1>9 DEF Top
  <2>4. Alone(p) /\ At(p)' = "undo" /\ Progress(p)'
    <3>1. PICK bad \in BOOLEAN :
            /\ proc' = [proc EXCEPT ![p].k = k - 1, ![p].bad = @ \/ bad]
            /\ Hidden(Targets[k]) /\ (~bad => Clear(Targets[k]))
      BY <1>9
    <3>2. Hidden(Targets[k])' /\ (~bad => Clear(Targets[k])')
      BY <1>5, <2>2, <3>1
    <3> QED
      BY <1>8, <2>2, <2>3, <3>1, <3>2
  <2>5. CompleteManifest' /\ \A l \in DOMAIN journals : RowsFit(l)' /\ UndoneClear(l)'
    BY <1>9, <2>1, StillComplete, RecordsStay DEF WholeInv
  <2> QED
    BY <1>1, <1>9, <2>4, <2>5, HolderWhole DEF Creating
\* The folder changes at the target of the row.
<1>10. ASSUME NEW c, files' = [files EXCEPT ![Targets[k]] = c], c = "none" \/ c = row.kind
       PROVE  /\ Clear(Targets[k])' /\ Hidden(Targets[k])' /\ CompleteManifest'
              /\ \A l \in DOMAIN Targets \ {k} :
                   (Clear(Targets[l]) => Clear(Targets[l])') /\ (Hidden(Targets[l]) => Hidden(Targets[l])')
  <2>1. /\ files'[Targets[k]] = c /\ \A y \in Path \ {Targets[k]} : files'[y] = files[y]
        /\ \A y \in Path \ {Targets[k]} : (Clear(y) => Clear(y)') /\ (Hidden(y) => Hidden(y)')
    BY <1>1, <1>6, <1>10, OneTarget
  <2>2. Clear(Targets[k])' /\ Hidden(Targets[k])'
    BY <1>1, <1>5, <1>10, <2>1 DEF Clear, Hidden
  <2>3. files'[Manifest] # "made"
    <3>1. CASE Targets[k] = Manifest
      BY <2>2, <3>1 DEF Hidden
    <3>2. CASE Targets[k] # Manifest
      <4>1. Hidden(Manifest)
        BY <1>4, <1>6, <3>2, TargetFacts
      <4> QED
        BY <2>1, <3>2, <4>1, TargetFacts DEF Hidden
    <3> QED
      BY <3>1, <3>2
  <2>4. \A l \in DOMAIN Targets \ {k} : Targets[l] \in Path \ {Targets[k]}
    BY <1>6, TargetFacts
  <2> QED
    BY <2>1, <2>2, <2>3, <2>4 DEF CompleteManifest
<1>11. ASSUME DOMAIN journals' = DOMAIN journals, Top(i)', journals'[i].rows # <<>>,
              Len(journals'[i].rows) = Len(journals[i].rows), Clear(Targets[k])',
              \A l \in DOMAIN journals[i].rows \ {k} : journals'[i].rows[l] = journals[i].rows[l],
              \A l \in DOMAIN Targets \ {k} : Clear(Targets[l]) => Clear(Targets[l])'
       PROVE  \A l \in DOMAIN journals : UndoneClear(l)'
  <2>1. ASSUME NEW l \in DOMAIN Targets, l > Len(journals[i].rows) \/ journals'[i].rows[l].restored, l # k
        PROVE  Clear(Targets[l])'
    <3>1. l > Len(journals[i].rows) \/ l \in DOMAIN journals[i].rows \ {k}
      BY <1>2, <2>1, TargetFacts
    <3>2. l > Len(journals[i].rows) \/ journals[i].rows[l].restored
      BY <1>11, <2>1, <3>1
    <3> QED
      BY <1>2, <1>3, <1>4, <1>11, <2>1, <3>2 DEF UndoneClear, WholeInv
  <2>2. UndoneClear(i)'
    BY <1>11, <2>1 DEF UndoneClear
  <2> QED
    BY <1>2, <1>11, <2>2, RivalClear
<1>12. CASE row.restored /\ UNCHANGED <<files, journals>>
            /\ proc' = [proc EXCEPT ![p].k = k - 1, ![p].bad = @ \/ FALSE]
  <2>1. Clear(Targets[k])
    BY <1>2, <1>3, <1>4, <1>5, <1>12 DEF UndoneClear, WholeInv
  <2> QED
    BY <1>9, <1>12, <2>1 DEF Clear
<1>13. CASE ~Mine(row) /\ UNCHANGED <<files, journals>>
            /\ proc' = [proc EXCEPT ![p].k = k - 1, ![p].bad = @ \/ TRUE]
  <2>1. Hidden(Targets[k])
    BY <1>5, <1>6, <1>13, MadeNot DEF Mine, Hidden
  <2> QED
    BY <1>9, <1>13, <2>1
<1>14. CASE files' = [files EXCEPT ![Targets[k]] = "none"] /\ Leave(p) /\ UNCHANGED journals
  <2>1. /\ Clear(Targets[k])' /\ CompleteManifest'
        /\ \A l \in DOMAIN Targets \ {k} : Clear(Targets[l]) => Clear(Targets[l])'
    BY <1>10, <1>14
  <2>2. \A l \in DOMAIN journals : UndoneClear(l)'
    BY <1>3, <1>4, <1>11, <1>14, <2>1 DEF Top
  <2>3. \A l \in DOMAIN journals : RowsFit(l)'
    BY <1>1, <1>14, FitSame DEF WholeInv
  <2>4. Alone(p) /\ proc'[p] = Idle
    BY <1>14, LeaveTyped DEF TypeInv
  <2>5. At(p)' = "idle" /\ Progress(p)'
    BY <2>4, OutProgress DEF Out, At, Idle, Creating
  <2> QED
    BY <1>1, <1>14, <2>1, <2>2, <2>3, <2>4, <2>5, HolderWhole DEF Creating
<1> DEFINE done == [row EXCEPT !.restored = TRUE]
<1>15. CASE files' = [files EXCEPT ![Targets[k]] = row.kind] /\ SetRow(p, k, done)
            /\ proc' = [proc EXCEPT ![p].k = k - 1, ![p].bad = @ \/ FALSE]
  <2>1. /\ Clear(Targets[k])' /\ Hidden(Targets[k])' /\ CompleteManifest'
        /\ \A l \in DOMAIN Targets \ {k} :
             (Clear(Targets[l]) => Clear(Targets[l])') /\ (Hidden(Targets[l]) => Hidden(Targets[l])')
    BY <1>10, <1>15
  <2>2. /\ done \in Row /\ done.path = journals[i].rows[k].path /\ done.kind = journals[i].rows[k].kind
        /\ done.applied \in {"unset", Made(done.path)}
    BY <1>2, <1>5 DEF Row
  <2>3. journals' = [journals EXCEPT ![i].rows[k] = done] /\ touched' = touched
    BY <1>0, <1>1, <1>15 DEF SetRow
  <2>4. i \in DOMAIN journals /\ journals[i].status = "active" /\ k \in DOMAIN journals[i].rows
    BY <1>2
  <2> HIDE DEF done
  <2>5. /\ DOMAIN journals' = DOMAIN journals
        /\ DOMAIN journals'[i].rows = DOMAIN journals[i].rows
        /\ Len(journals'[i].rows) = Len(journals[i].rows) /\ journals'[i].rows # <<>>
        /\ \A l \in DOMAIN journals[i].rows \ {k} : journals'[i].rows[l] = journals[i].rows[l]
        /\ \A l \in DOMAIN journals : DOMAIN journals'[l].rows = DOMAIN journals[l].rows
        /\ \A l \in DOMAIN journals : RowsFit(l)' /\ (Top(l)' <=> Top(l))
    BY <2>2, <2>3, <2>4, RowChanged
  <2>6. Top(i)'
    BY <1>4, <2>4, <2>5
  <2>7. \A l \in DOMAIN journals : UndoneClear(l)'
    BY <1>11, <2>1, <2>5, <2>6
  <2>8. Alone(p) /\ At(p)' = "undo" /\ Progress(p)'
    BY <1>8, <1>15, <2>1, <2>6
  <2> QED
    BY <1>1, <2>1, <2>5, <2>7, <2>8, HolderWhole DEF Creating
<1> QED
  BY <1>0, <1>5, <1>12, <1>13, <1>14, <1>15 DEF UndoRow

\* A rollback that says it is done has cleared every target, so the records before it
\* have nothing left to answer for.
LEMMA EndUndoWhole ==
  ASSUME TypeInv, RowsInv, WholeInv, RowsKept, NEW p \in Proc, EndUndo(p) PROVE WholeInv'
<1>0. PICK i, s : i = proc[p].i /\ s = IF proc[p].bad THEN "incomplete" ELSE "rolled_back"
  OBVIOUS
<1>1. At(p) = "undo" /\ Locked(p) /\ proc[p].k = 0 /\ UNCHANGED <<files, touched>>
  BY DEF EndUndo, At, Locked, ghosts
<1>2. i \in DOMAIN journals /\ journals[i].status = "active" /\ Rows(p) = journals[i].rows
  BY <1>0, <1>1, Holder
<1>3. /\ journals' = [journals EXCEPT ![i].status = s]
      /\ s \in {"active", "incomplete", "committed", "rolled_back"} /\ "active" \in Unfinished
  BY <1>0 DEF EndUndo, SetStatus, Unfinished
<1>4. /\ DOMAIN journals' = DOMAIN journals /\ journals'[i].status = s
      /\ \A l \in DOMAIN journals : RowsFit(l)' /\ journals'[l].rows = journals[l].rows
      /\ \A l \in DOMAIN journals \ {i} : journals'[l] = journals[l]
      /\ CompleteManifest'
  BY <1>1, <1>2, <1>3, StatusChanged
<1>5. /\ Top(i)
      /\ Rows(p) # <<>> => \A l \in DOMAIN Targets : ~proc[p].bad => Clear(Targets[l])
  BY <1>0, <1>1, TargetFacts DEF WholeInv, Progress, At
<1>6. \A l \in DOMAIN Targets : Clear(Targets[l]) => Clear(Targets[l])'
  BY <1>1, Pointwise
<1>7. ASSUME NEW l \in DOMAIN journals PROVE UndoneClear(l)'
  <2>1. CASE Top(l)' => Top(l)
    BY <1>4, <1>6, <2>1 DEF UndoneClear, WholeInv
  <2>2. CASE Top(l)' /\ ~Top(l)
    <3>1. journals[i].rows # <<>> /\ s = "rolled_back"
      BY <1>2, <1>4, <1>5, <2>2 DEF Top
    <3>2. ~proc[p].bad
      BY <1>0, <3>1
    <3> QED
      BY <1>2, <1>5, <1>6, <3>1, <3>2 DEF UndoneClear
  <2> QED
    BY <2>1, <2>2
<1>8. Alone(p) /\ Out(p)' /\ Progress(p)'
  <2>1. Alone(p) /\ proc'[p] = Idle
    BY LeaveTyped DEF EndUndo, TypeInv
  <2>2. Out(p)'
    BY <2>1 DEF Out, At, Idle, Creating
  <2> QED
    BY <2>1, <2>2, OutProgress
<1> QED
  BY <1>1, <1>4, <1>7, <1>8, HolderWhole DEF Out

LEMMA AskWhole ==
  ASSUME TypeInv, WholeInv, NEW p \in Proc, AskCreate(p) \/ AskRecover(p) PROVE WholeInv'
<1>1. Alone(p) /\ Out(p)'
  BY DEF AskCreate, AskRecover, Ask, Alone, TypeInv, TypeOK, Request, Idle, Out, At, Creating
<1>2. journals' = journals /\ OthersOnly
  BY DEF AskCreate, AskRecover, OthersOnly, ghosts
<1> QED
  BY <1>1, <1>2, StillWhole DEF Alone

LEMMA MarkWhole ==
  ASSUME TypeInv, RowsInv, WholeInv, RowsKept, NEW p \in Proc, MarkAbsent(p) PROVE WholeInv'
<1>0. PICK i : i = proc[p].i
  OBVIOUS
<1> DEFINE marked(row) == [row EXCEPT !.restored = @ \/ Gone(row)]
           rows == [k \in DOMAIN journals[i].rows |-> marked(journals[i].rows[k])]
           j == [journals[i] EXCEPT !.rows = rows]
<1>1. OthersOnly /\ UNCHANGED <<files, touched>>
  BY DEF MarkAbsent, OthersOnly, ghosts
<1>2. CASE Leave(p) /\ UNCHANGED journals
  <2>1. Alone(p) /\ Out(p)'
    BY <1>2, LeaveTyped DEF TypeInv, Idle, Out, At, Creating
  <2> QED
    BY <1>1, <1>2, <2>1, StillWhole DEF Alone
<1>3. CASE /\ Free /\ Recoverable(journals[i]) /\ journals' = [journals EXCEPT ![i] = j]
           /\ Go(p, "redo")
  <2>1. i \in DOMAIN journals /\ journals[i] \in Journal /\ journals[i].rows \in Seq(Row) /\ At(p) = "pending"
    <3>1. i \in DOMAIN journals /\ At(p) = "pending"
      BY <1>0 DEF MarkAbsent, TypeInv, Standing, At
    <3> QED
      BY <3>1, JournalTyped DEF TypeInv
  <2>2. ASSUME NEW k \in DOMAIN journals[i].rows
        PROVE  /\ rows[k].path = journals[i].rows[k].path /\ rows[k].kind = journals[i].rows[k].kind
               /\ rows[k].applied = journals[i].rows[k].applied
               /\ rows[k].restored => journals[i].rows[k].restored \/ files[rows[k].path] = "none"
    <3>1. PICK row \in Row : row = journals[i].rows[k]
      BY <2>1
    <3>2. rows[k] = marked(row)
      BY <3>1
    <3> HIDE DEF rows
    <3> QED
      BY <3>1, <3>2 DEF Row, Gone
  <2>3. /\ DOMAIN rows = DOMAIN journals[i].rows /\ Len(rows) = Len(journals[i].rows)
        /\ rows = <<>> <=> journals[i].rows = <<>>
    <3>1. DOMAIN rows = DOMAIN journals[i].rows /\ DOMAIN rows = 1..Len(journals[i].rows)
      BY <2>1
    <3>2. Len(journals[i].rows) \in Nat
      BY <2>1
    <3> HIDE DEF rows
    <3>3. rows \in Seq({rows[k] : k \in DOMAIN rows}) /\ Len(rows) = Len(journals[i].rows)
      <4>1. rows = [k \in 1..Len(journals[i].rows) |-> rows[k]]
        BY <3>1 DEF rows
      <4> QED
        BY <3>1, <3>2, <4>1
    <3> QED
      BY <2>1, <3>1, <3>3
  <2> HIDE DEF rows
  <2>4. j.rows = rows /\ j.status = journals[i].status
    BY <2>1 DEF Journal
  <2> HIDE DEF j
  <2>5. /\ DOMAIN journals' = DOMAIN journals /\ journals'[i].rows = rows /\ journals'[i].status = journals[i].status
        /\ \A l \in DOMAIN journals \ {i} : journals'[l] = journals[l]
    <3>1. journals \in Seq(Journal)
      BY DEF TypeInv, TypeOK
    <3> QED
      BY <1>3, <2>1, <2>4, <3>1
  <2>6. \A l \in DOMAIN journals : Top(l)' <=> Top(l)
    <3>1. \A l \in DOMAIN journals :
           /\ journals'[l].rows = <<>> <=> journals[l].rows = <<>>
           /\ journals'[l].status = "rolled_back" <=> journals[l].status = "rolled_back"
      BY <2>3, <2>5
    <3> QED
      BY <2>5, <3>1, TopSame
  <2>7. RowsFit(i) /\ UndoneClear(i)
    BY <2>1 DEF WholeInv
  <2>8. RowsFit(i)'
    <3>1. \A k \in DOMAIN rows :
            /\ k \in DOMAIN Targets /\ rows[k].path = Targets[k]
            /\ rows[k].applied \in {"unset", Made(rows[k].path)}
            /\ rows[k].path = Manifest => rows[k].kind # "made"
            /\ journals[i].status \in Unfinished => rows[k].kind = "none" \/ rows[k].path \in touched
      BY <2>2, <2>3, <2>7 DEF RowsFit
    <3> QED
      BY <1>1, <2>5, <3>1 DEF RowsFit
  <2>9. \A l \in DOMAIN Targets : (Clear(Targets[l]) => Clear(Targets[l])')
    BY <1>1, Pointwise
  <2>10. UndoneClear(i)'
    <3>1. ASSUME NEW l \in DOMAIN Targets, l > Len(rows) \/ rows[l].restored, Top(i), rows # <<>>
          PROVE  Clear(Targets[l])'
      <4>1. l > Len(rows) \/ l \in DOMAIN rows
        BY <2>1, <2>3, TargetFacts
      <4>2. CASE l > Len(rows) \/ (l \in DOMAIN rows /\ journals[i].rows[l].restored)
        BY <2>3, <2>7, <2>9, <3>1, <4>2 DEF UndoneClear
      <4>3. CASE l \in DOMAIN rows /\ files[rows[l].path] = "none"
        <5>1. rows[l].path = Targets[l]
          BY <2>2, <2>3, <2>7, <4>3 DEF RowsFit
        <5> QED
          BY <1>1, <4>3, <5>1 DEF Clear, Hidden
      <4> QED
        BY <2>2, <2>3, <3>1, <4>1, <4>2, <4>3
    <3> QED
      BY <2>1, <2>5, <2>6, <3>1 DEF UndoneClear
  <2>11. ASSUME NEW l \in DOMAIN journals \ {i} PROVE RowsFit(l)' /\ UndoneClear(l)'
    <3>1. RowsFit(l)'
      BY <1>1, <2>1, <2>5, RivalFit
    <3> QED
      BY <2>5, <2>6, <2>9, <3>1 DEF UndoneClear, WholeInv
  <2>12. Alone(p) /\ proc'[p].stage = "redo" /\ proc'[p].i = i
    BY <1>0, <1>3, OnAt
  <2>13. Progress(p)'
    <3>1. Recoverable(journals'[i])
      BY <1>3, <2>2, <2>3, <2>5 DEF Recoverable
    <3> QED
      BY <2>12, <3>1 DEF Progress, Creating
  <2>14. CompleteManifest'
    BY <1>1, StillComplete DEF WholeInv
  <2>15. \A l \in DOMAIN journals : DOMAIN journals'[l].rows = DOMAIN journals[l].rows
    BY <2>3, <2>5
  <2>16. \A l \in DOMAIN journals' : RowsFit(l)' /\ UndoneClear(l)'
    BY <2>5, <2>8, <2>10, <2>11
  <2> QED
    BY <1>3, <2>12, <2>13, <2>14, <2>15, <2>16, HolderWhole DEF At, Creating
<1>4. CASE /\ Free /\ Recoverable(journals[i]) /\ Go(p, "redo")
           /\ journals' = [journals EXCEPT ![i].rows = [k \in DOMAIN @ |-> marked(@[k])]]
  <2>1. journals' = [journals EXCEPT ![i] = j]
    BY <1>4
  <2> QED
    BY <1>3, <1>4, <2>1
<1> QED
  BY <1>0, <1>2, <1>4 DEF MarkAbsent

LEMMA RedoWhole ==
  ASSUME TypeInv, RowsInv, WholeInv, RowsKept, NEW p \in Proc, Redo(p) PROVE WholeInv'
<1>0. PICK i : i = proc[p].i
  OBVIOUS
<1>1. OthersOnly /\ UNCHANGED <<files, touched>> /\ At(p) = "redo"
  BY DEF Redo, OthersOnly, ghosts, At
<1>2. CASE Leave(p) /\ UNCHANGED journals
  <2>1. Alone(p) /\ Out(p)'
    BY <1>2, LeaveTyped DEF TypeInv, Idle, Out, At, Creating
  <2> QED
    BY <1>1, <1>2, <2>1, StillWhole DEF Alone
<1>3. CASE /\ Free /\ journals[i].status # "rolled_back"
           /\ \A l \in DOMAIN journals : l > i => journals[l].status = "rolled_back"
           /\ journals' = [journals EXCEPT ![i].status = "active"]
           /\ proc' = [proc EXCEPT ![p].stage = "undo", ![p].k = Len(journals[i].rows)]
  <2>1. i \in DOMAIN journals /\ Recoverable(journals[i])
    BY <1>0, <1>1 DEF TypeInv, Standing, WholeInv, Progress, At
  <2>2. Alone(p) /\ proc'[p].stage = "undo" /\ proc'[p].i = i /\ proc'[p].k = Len(journals[i].rows)
    BY <1>0, <1>3 DEF Alone, TypeInv, TypeOK, Request
  <2>3. /\ DOMAIN journals' = DOMAIN journals /\ journals'[i].status = "active"
        /\ \A l \in DOMAIN journals : RowsFit(l)' /\ journals'[l].rows = journals[l].rows
        /\ \A l \in DOMAIN journals \ {i} : journals'[l] = journals[l]
        /\ CompleteManifest'
    BY <1>1, <1>3, <2>1, StatusChanged
  <2>4. \A l \in DOMAIN journals : Top(l)' <=> Top(l)
    <3>1. \A l \in DOMAIN journals : journals'[l].status = "rolled_back" <=> journals[l].status = "rolled_back"
      BY <1>3, <2>3
    <3> QED
      BY <2>3, <3>1, TopSame
  <2>5. \A l \in DOMAIN Targets : Clear(Targets[l]) => Clear(Targets[l])'
    BY <1>1, Pointwise
  <2>6. \A l \in DOMAIN journals : UndoneClear(l)'
    BY <2>3, <2>4, <2>5 DEF UndoneClear, WholeInv
  <2>7. Progress(p)'
    <3>1. Top(i) /\ Top(i)'
      BY <1>3, <2>1, <2>4 DEF Top
    <3>2. Rows(p)' = journals[i].rows
      BY <2>1, <2>2, <2>3 DEF Rows
    <3>3. Rows(p)' # <<>> => \A l \in DOMAIN Targets : l > proc'[p].k => Hidden(Targets[l])' /\ Clear(Targets[l])'
      BY <2>1, <2>2, <2>5, <3>1, <3>2 DEF UndoneClear, WholeInv, Clear
    <3> QED
      BY <2>2, <3>1, <3>3 DEF Progress, Creating
  <2> QED
    BY <1>3, <2>2, <2>3, <2>6, <2>7, HolderWhole DEF At, Creating
<1> QED
  BY <1>0, <1>2, <1>3 DEF Redo, SetStatus

\* A change of an entry that is not a manifest, owned up to.
LEMMA TouchedOnly ==
  ASSUME TypeInv, NEW X \in SUBSET Path, NEW others, Touch(X, others),
         \A x \in Path \ X : files'[x] = files[x], Manifest \in X => files'[Manifest] # "made"
  PROVE  OthersOnly
  BY TargetFacts DEF Touch, OthersOnly

LEMMA NothingTouched == UNCHANGED <<files, touched>> => OthersOnly
  BY DEF OthersOnly

LEMMA MigrateOut ==
  ASSUME TypeInv, NEW p \in Proc, Migrate(p) PROVE At(p)' # "redo"
<1>1. proc \in [Proc -> Request]
  BY DEF TypeInv, TypeOK
<1>2. ASSUME Go(p, "verify") \/ Go(p, "copy") \/ Go(p, "claim") \/ Go(p, "archive") \/ Go(p, "finish")
      PROVE  At(p)' # "redo"
  BY <1>1, <1>2 DEF Go, At, Request
<1>3. ASSUME Leave(p) \/ AbortMove(p) PROVE At(p)' # "redo"
  BY <1>1, <1>3 DEF Leave, AbortMove, At, Request, Idle
<1>4. ASSUME AskMigrate(p) \/ Claim(p) \/ MoveAway(p) \/ Copy(p) PROVE At(p)' # "redo"
  BY <1>1, <1>2, <1>3, <1>4 DEF AskMigrate, Ask, Idle, At, Claim, MoveAway, Copy, Request
<1>5. ASSUME VerifyHeld(p) \/ Archive(p) \/ ClearHeld(p) \/ FinishMove(p) \/ PutBackRow(p) \/ EndMove(p)
      PROVE  At(p)' # "redo"
  BY <1>1, <1>2, <1>3, <1>5 DEF VerifyHeld, Archive, ClearHeld, FinishMove, PutBackRow, EndMove, At, Request
<1> QED
  BY <1>4, <1>5 DEF Migrate

LEMMA MigrateTouches ==
  ASSUME TypeInv, NEW p \in Proc, Migrate(p) PROVE OthersOnly
<1>1. Manifest \notin Pack /\ Pack \subseteq Path /\ files \in [Path -> Content]
  BY TargetFacts DEF Path, TypeInv, TypeOK
<1>2. CASE MoveAway(p)
  <2>1. CASE UNCHANGED <<files, touched>>
    BY <2>1, NothingTouched
  <2>2. CASE files' = [files EXCEPT ![proc[p].cur] = "none"] /\ Touch({proc[p].cur}, Proc \ {p})
    <3>1. PICK n \in Pack : n = proc[p].cur
      BY <1>2 DEF MoveAway, TypeInv, Standing, At
    <3>2. Touch({n}, Proc \ {p}) /\ {n} \in SUBSET Path
      BY <1>1, <2>2, <3>1
    <3>3. \A x \in Path \ {n} : files'[x] = files[x]
      BY <1>1, <2>2, <3>1
    <3> QED
      BY <1>1, <3>2, <3>3, TouchedOnly
  <2> QED
    BY <1>2, <2>1, <2>2 DEF MoveAway
<1>3. CASE PutBackRow(p)
  <2>1. CASE UNCHANGED <<files, touched>>
    BY <2>1, NothingTouched
  <2>2. ASSUME NEW n \in proc[p].names, NEW c, files' = [files EXCEPT ![n] = c], Touch({n}, Proc \ {p})
        PROVE  OthersOnly
    <3>1. n \in Pack /\ {n} \in SUBSET Path
      BY <1>1 DEF TypeInv, TypeOK, Request
    <3>2. \A x \in Path \ {n} : files'[x] = files[x]
      BY <1>1, <2>2, <3>1
    <3> QED
      BY <1>1, <2>2, <3>1, <3>2, TouchedOnly
  <2> QED
    BY <1>3, <2>1, <2>2 DEF PutBackRow
<1>4. ASSUME Migrate(p), ~MoveAway(p), ~PutBackRow(p) PROVE UNCHANGED <<files, touched>>
  BY <1>4 DEF Migrate, AskMigrate, Claim, Copy, VerifyHeld, Archive, ClearHeld, FinishMove, EndMove, ghosts
<1> QED
  BY <1>2, <1>3, <1>4, NothingTouched

LEMMA DiscardTouches ==
  ASSUME TypeInv, NEW p \in Proc, Discard(p) PROVE OthersOnly /\ Alone(p) /\ Out(p)'
<1>1. proc[p].created \subseteq Pack /\ Pack \subseteq Path
  BY DEF TypeInv, TypeOK, Request, Path
<1>2. /\ Touch(proc[p].created, Proc \ {p})
      /\ \A x \in Path \ proc[p].created : files'[x] = files[x]
  BY DEF Discard, Own
<1>3. OthersOnly
  BY <1>1, <1>2, TouchedOnly, TargetFacts
<1>4. Alone(p) /\ Out(p)'
  BY LeaveTyped DEF Discard, TypeInv, Idle, Out, At, Creating
<1> QED
  BY <1>3, <1>4

LEMMA ExportTouches ==
  ASSUME TypeInv, NEW p \in Proc, Export(p) PROVE OthersOnly /\ Alone(p) /\ Out(p)' /\ journals' = journals
<1>1. Manifest \notin Pack /\ Pack \subseteq Path /\ files \in [Path -> Content] /\ proc[p] \in Request
  BY TargetFacts DEF Path, TypeInv, TypeOK
<1>2. ASSUME NEW n \in Pack, NEW c, files' = [files EXCEPT ![n] = c], Touch({n}, Proc \ {p})
      PROVE  OthersOnly
  <2>1. \A x \in Path \ {n} : files'[x] = files[x]
    BY <1>1, <1>2
  <2> QED
    BY <1>1, <1>2, <2>1, TouchedOnly
<1>3. CASE AskExport(p)
  BY <1>3, NothingTouched DEF AskExport, Ask, Alone, Out, At, Idle, Creating, TypeInv, TypeOK, ghosts
<1>4. ASSUME Leave(p) PROVE Alone(p) /\ Out(p)'
  BY <1>4, LeaveTyped DEF TypeInv, Idle, Out, At, Creating
<1>5. CASE Reserve(p)
  <2>0. journals' = journals
    BY <1>5 DEF Reserve
  <2>1. CASE Leave(p) /\ UNCHANGED <<files, touched>>
    BY <1>4, <2>0, <2>1, NothingTouched
  <2>2. CASE Discard(p)
    BY <2>0, <2>2, DiscardTouches
  <2>3. ASSUME NEW n \in proc[p].names, files' = [files EXCEPT ![n] = "empty"], Touch({n}, Proc \ {p}),
               proc' = [proc EXCEPT ![p].stage = "fill", ![p].cur = n, ![p].names = @ \ {n},
                          ![p].created = @ \union {n}]
        PROVE  OthersOnly /\ Alone(p) /\ Out(p)'
    <3>1. OthersOnly
      BY <1>1, <1>2, <2>3 DEF Request
    <3>2. Alone(p) /\ Out(p)'
      BY <2>3 DEF Alone, Out, At, TypeInv, TypeOK, Request, Creating
    <3> QED
      BY <3>1, <3>2
  <2> QED
    BY <1>5, <2>0, <2>1, <2>2, <2>3 DEF Reserve
<1>6. CASE Fill(p)
  <2>0. journals' = journals /\ proc[p].cur \in Pack
    BY <1>6 DEF Fill, TypeInv, Standing, At
  <2>1. CASE Discard(p)
    BY <2>0, <2>1, DiscardTouches
  <2>2. ASSUME NEW c, files' = [files EXCEPT ![proc[p].cur] = c], Touch({proc[p].cur}, Proc \ {p}),
               Go(p, "reserve") \/ Leave(p)
        PROVE  OthersOnly /\ Alone(p) /\ Out(p)'
    <3>1. OthersOnly
      BY <1>2, <2>0, <2>2
    <3>2. Alone(p) /\ Out(p)'
      BY <1>4, <2>2, OnAt DEF Out, At, Creating
    <3> QED
      BY <3>1, <3>2
  <2> QED
    BY <1>6, <2>0, <2>1, <2>2 DEF Fill
<1> QED
  BY <1>3, <1>5, <1>6 DEF Export

LEMMA FailWhole ==
  ASSUME TypeInv, RowsInv, WholeInv, NEW p \in Proc, Fail(p) PROVE WholeInv'
<1>1. journals' = journals
  BY DEF Fail
<1>2. CASE At(p) \in Creating /\ AbortCreate(p) /\ UNCHANGED <<files, touched>>
  BY <1>1, <1>2, AbortWhole
<1>3. CASE At(p) \in Moving /\ AbortMove(p) /\ UNCHANGED <<files, touched>>
  <2>1. Alone(p) /\ Out(p)'
    BY <1>3, BackAt DEF Mover, Out, At, Creating
  <2> QED
    BY <1>1, <1>3, <2>1, NothingTouched, StillWhole DEF Alone
<1>4. CASE Discard(p)
  BY <1>1, <1>4, DiscardTouches, StillWhole DEF Alone
<1>5. CASE Leave(p) /\ UNCHANGED <<files, touched>>
  <2>1. Alone(p) /\ Out(p)'
    BY <1>5, LeaveTyped DEF TypeInv, Idle, Out, At, Creating
  <2> QED
    BY <1>1, <1>5, <2>1, NothingTouched, StillWhole DEF Alone
<1> QED
  BY <1>2, <1>3, <1>4, <1>5 DEF Fail, At

LEMMA WholeStep ==
  ASSUME TypeInv, RowsInv, WholeInv, [Next]_vars PROVE WholeInv'
<1>0. RowsKept
  BY RowsStep
<1>1. ASSUME NEW p \in Proc, Create(p) PROVE WholeInv'
  BY <1>0, <1>1, AskWhole, BeginWhole, CheckWhole, PublishWhole, BackupWhole, BindWhole, RenameWhole,
     CommitWhole, UndoRowWhole, EndUndoWhole DEF Create
<1>2. ASSUME NEW p \in Proc, Recover(p) PROVE WholeInv'
  BY <1>0, <1>2, AskWhole, MarkWhole, RedoWhole DEF Recover
<1>3. ASSUME NEW p \in Proc, Migrate(p) PROVE WholeInv'
  <2>1. journals' = journals /\ Alone(p) /\ Out(p)' /\ OthersOnly
    BY <1>3, MigrateStays, MigrateOut, MigrateTouches DEF Out, Locked, At
  <2> QED
    BY <2>1, StillWhole DEF Alone
<1>4. ASSUME NEW p \in Proc, Export(p) PROVE WholeInv'
  BY <1>4, ExportTouches, StillWhole DEF Alone
<1>5. ASSUME NEW p \in Proc, Crash(p) PROVE WholeInv'
  <2>1. Alone(p) /\ Out(p)' /\ journals' = journals /\ UNCHANGED <<files, touched>>
    BY <1>5, LeaveTyped DEF Crash, TypeInv, Idle, Out, At, Creating, ghosts
  <2> QED
    BY <2>1, NothingTouched, StillWhole DEF Alone
<1>6. ASSUME NEW x \in Path, Edit(x) PROVE WholeInv'
  <2>1. PICK c \in {"none", "user"} : files' = [files EXCEPT ![x] = c]
    BY <1>6 DEF Edit
  <2>2. Touch({x}, Proc) /\ UNCHANGED <<journals, proc>>
    BY <1>6 DEF Edit
  <2>3. files'[x] # "made" /\ \A y \in Path \ {x} : files'[y] = files[y]
    BY <2>1 DEF TypeInv, TypeOK
  <2>4. OthersOnly
    BY <2>2, <2>3, TouchedOnly
  <2> QED
    BY <2>2, <2>4, StillWhole
<1>7. CASE UNCHANGED vars
  BY <1>7, NothingTouched, StillWhole DEF vars, ghosts
<1> QED
  BY <1>1, <1>2, <1>3, <1>4, <1>5, <1>6, <1>7, FailWhole DEF Next

LEMMA WholeInit == Init => WholeInv
<1> SUFFICES ASSUME Init PROVE WholeInv
  OBVIOUS
<1>1. files[Manifest] = "none" /\ DOMAIN journals = {} /\ \A p \in Proc : At(p) = "idle"
  BY TargetFacts DEF Init, Idle, At
<1> QED
  BY <1>1 DEF WholeInv, CompleteManifest, Progress, Apart, At, Creating

LEMMA FolderInv == Spec => [](TypeInv /\ RowsInv /\ WholeInv)
<1> DEFINE Inv == TypeInv /\ RowsInv /\ WholeInv
<1>1. Init => Inv
  BY TypeInit, RowsInit, WholeInit
<1>2. Inv /\ [Next]_vars => Inv'
  BY TypeStep, RowsStep, WholeStep
<1> QED
  BY <1>1, <1>2, PTL DEF Spec

\* What the newest record, the folder and the command that holds the lock say of the
\* targets fits together, so the two promises below can be kept (projects.py:213-243).
THEOREM FolderAsRecorded == Spec => []WholeInv
  BY FolderInv, PTL

\* Where the manifest is, everything it lists is as it was published, but for what others
\* changed since (projects.py:213-231, transaction.py:460).
THEOREM ManifestComplete == Spec => []CompleteManifest
<1>1. WholeInv => CompleteManifest
  BY DEF WholeInv
<1> QED
  BY <1>1, FolderInv, PTL

\* Only the end of a rollback says "rolled back".
LEMMA RolledBackAt ==
  ASSUME TypeInv, RowsInv, [Next]_vars, NEW i \in DOMAIN journals,
         journals[i].status # "rolled_back", journals'[i].status = "rolled_back"
  PROVE  \E p \in Proc : EndUndo(p) /\ proc[p].i = i /\ ~proc[p].bad
<1>1. journals \in Seq(Journal)
  BY DEF TypeInv, TypeOK
<1>2. journals' # journals
  OBVIOUS
<1>3. ASSUME NEW p \in Proc, Begin(p) PROVE FALSE
  BY <1>1, <1>2, <1>3 DEF Begin
<1>4. ASSUME NEW l \in DOMAIN journals, NEW s \in {"active", "committed", "incomplete"},
             journals' = [journals EXCEPT ![l].status = s]
      PROVE  FALSE
  <2>1. journals'[l].status = s /\ \A n \in DOMAIN journals \ {l} : journals'[n] = journals[n]
    BY <1>4, StatusSet DEF TypeInv
  <2> QED
    BY <2>1
<1>5. ASSUME NEW p \in Proc, Commit(p) \/ Redo(p) PROVE FALSE
  <2>1. proc[p].i \in DOMAIN journals
    BY <1>5 DEF Commit, Redo, TypeInv, Standing, Locked, Creating, At
  <2> QED
    BY <1>2, <1>4, <1>5, <2>1 DEF Commit, Redo, SetStatus
<1>6. ASSUME NEW p \in Proc, EndUndo(p) PROVE proc[p].i = i /\ ~proc[p].bad
  <2>1. proc[p].i \in DOMAIN journals
    BY <1>6 DEF EndUndo, TypeInv, Standing, Locked, At
  <2>2. ~proc[p].bad
    BY <1>4, <1>6, <2>1 DEF EndUndo, SetStatus
  <2>3. \A n \in DOMAIN journals \ {proc[p].i} : journals'[n] = journals[n]
    BY <1>6, <2>1, <2>2, StatusSet DEF EndUndo, SetStatus, TypeInv
  <2> QED
    BY <2>2, <2>3
\* The others change rows only.
<1>7. ASSUME NEW l \in DOMAIN journals, NEW rows, journals' = [journals EXCEPT ![l].rows = rows] PROVE FALSE
  <2>1. journals[i] \in Journal
    BY <1>1
  <2>2. journals'[i].status = journals[i].status
    BY <1>1, <1>7, <2>1 DEF Journal
  <2> QED
    BY <2>2
<1>8. ASSUME NEW p \in Proc, Backup(p) \/ Bind(p) \/ Rename(p) \/ UndoRow(p) \/ MarkAbsent(p) PROVE FALSE
  <2>1. proc[p].i \in DOMAIN journals
    BY <1>8 DEF Backup, Bind, Rename, UndoRow, MarkAbsent, TypeInv, Standing, Locked, Creating, At
  <2>2. \E rows : journals' = [journals EXCEPT ![proc[p].i].rows = rows]
    BY <1>2, <1>8 DEF Backup, Bind, Rename, UndoRow, MarkAbsent, SetRow
  <2> QED
    BY <1>7, <2>1, <2>2
<1>9. ASSUME NEW p \in Proc, Migrate(p) \/ Export(p) PROVE FALSE
  BY <1>2, <1>9, MigrateStays, ExportTouches
<1> QED
  BY <1>2, <1>3, <1>5, <1>6, <1>8, <1>9
     DEF Next, vars, Create, Recover, AskCreate, AskRecover, CheckAgain, Publish, Fail, Crash, Edit

\* A creation that reports "rolled back", by itself or by recovery after any number of
\* crashes, leaves nothing it published (projects.py:233-243, docs/PROJECTS.md:38).
THEOREM NothingHalf == Spec => AllOrNothing
<1> DEFINE Inv == TypeInv /\ RowsInv /\ WholeInv
           Ends(i) == journals[i].status # "rolled_back" /\ journals'[i].status = "rolled_back" =>
                        \A k \in DOMAIN journals[i].rows :
                          journals[i].rows[k].path \in touched \/ files'[journals[i].rows[k].path] = "none"
<1>1. ASSUME Inv, [Next]_vars, NEW i \in DOMAIN journals PROVE Ends(i)
  <2> SUFFICES ASSUME journals[i].status # "rolled_back", journals'[i].status = "rolled_back",
                      NEW k \in DOMAIN journals[i].rows
               PROVE  journals[i].rows[k].path \in touched \/ files'[journals[i].rows[k].path] = "none"
    OBVIOUS
  <2>1. PICK p \in Proc : EndUndo(p) /\ proc[p].i = i /\ ~proc[p].bad
    BY <1>1, RolledBackAt
  <2>2. journals[i].rows # <<>> /\ Rows(p) = journals[i].rows
    <3>1. journals[i].rows \in Seq(Row)
      BY <1>1, JournalTyped DEF TypeInv
    <3> QED
      BY <2>1, <3>1 DEF Rows
  <2>3. k \in DOMAIN Targets /\ journals[i].rows[k].path = Targets[k]
    BY <1>1 DEF WholeInv, RowsFit
  <2>4. Clear(Targets[k])
    BY <1>1, <2>1, <2>2, <2>3, TargetFacts DEF WholeInv, Progress, EndUndo
  <2> QED
    BY <2>1, <2>3, <2>4 DEF Clear, EndUndo
<1>2. Inv /\ [Next]_vars => [\A i \in DOMAIN journals : Ends(i)]_vars
  BY <1>1
<1> HIDE DEF Ends
<1>3. Spec => [][\A i \in DOMAIN journals : Ends(i)]_vars
  BY <1>2, FolderInv, PTL DEF Spec
<1> QED
  BY <1>3 DEF AllOrNothing, Ends

=============================================================================
