----------------------------- MODULE TaskProofs -----------------------------
(* Finished cards rest on fresh evidence, for every value of the constants. *)
EXTENDS TaskSafety, TLAPS

----------------------------------------------------------------------------
(* The shape of the variables. *)

\* What a call that is recorded leaves in the log.
LEMMA RecordedTyped ==
  ASSUME TypeOK, NEW x \in Slot, Busy(x)
  PROVE  Recorded(slots[x]) \in Event
<1>1. slots[x] \in Call /\ slots[x].ws \in Workspace
  BY DEF TypeOK, SlotsTyped, Busy, Free
<1>2. Snapshot(slots[x]) \in {NoVersion} \union Version
  BY <1>1 DEF TypeOK, Snapshot, Version, NoVersion
<1> QED
  BY <1>1, <1>2 DEF Recorded, Event, Call

LEMMA FreeTyped == Free \in Call
  BY DEF Free, Call, NoVersion

LEMMA SlotSet ==
  ASSUME SlotsTyped, NEW x \in Slot, NEW call \in Call,
         call = Free \/ call.ws \in Workspace, slots' = [slots EXCEPT ![x] = call]
  PROVE  SlotsTyped'
  BY DEF SlotsTyped

LEMMA BlurTyped ==
  ASSUME SlotsTyped, NEW w \in Workspace
  PROVE  /\ Blurred(w) \in [Slot -> Call]
         /\ \A x \in Slot : Blurred(w)[x] = Free \/ Blurred(w)[x].ws \in Workspace
  BY DEF SlotsTyped, Blurred, Call, Free

LEMMA StainTyped == ASSUME CmdTyped, cmd' = Stained, UNCHANGED commands PROVE CmdTyped'
  BY DEF CmdTyped, Stained

\* Each command writes a card.
LEMMA WriteTyped ==
  ASSUME TaskAssumption, TypeOK, NEW c \in Card, NEW card \in TaskCard, Write(c, card)
  PROVE  TypeOK'
<1>1. cmd' = [at |-> "log", card |-> c, clean |-> TRUE]
  BY DEF Write, NoCmd
<1>a. commands' \in 0..MaxCommands
  BY DEF Write, TypeOK, CmdTyped, TaskAssumption
<1>2. CmdTyped'
  BY <1>1, <1>a DEF CmdTyped
<1>3. FilesTyped'
  BY DEF Write, TypeOK, FilesTyped
<1>4. SlotsTyped'
  BY DEF Write, TypeOK, SlotsTyped
<1> QED
  BY <1>2, <1>3, <1>4 DEF Write, TypeOK

LEMMA SeqOf ==
  ASSUME NEW S, NEW T, NEW s \in Seq(S), NEW f \in [DOMAIN s -> T]
  PROVE  f \in Seq(T)
<1>1. DOMAIN s = 1..Len(s) /\ Len(s) \in Nat
  OBVIOUS
<1> QED
  BY <1>1

LEMMA CriterionSet ==
  ASSUME NEW crit \in Criterion, NEW status \in {"open", "pass", "unverified"}, NEW e \in Nat
  PROVE  /\ [crit EXCEPT !.status = status] \in Criterion
         /\ [crit EXCEPT !.evidence = e, !.status = status] \in Criterion
  BY DEF Criterion

LEMMA CardTyped ==
  ASSUME TypeOK, NEW c \in Card, Exists(c)
  PROVE  /\ file[c] \in TaskCard
         /\ file[c].crits \in Seq(Criterion)
         /\ \A i \in DOMAIN file[c].crits : file[c].crits[i] \in Criterion
<1>1. file[c] \in TaskCard
  BY DEF TypeOK, FilesTyped, Exists
<1>2. file[c].crits \in Seq(Criterion)
  BY <1>1 DEF TaskCard
<1> QED
  BY <1>1, <1>2

LEMMA LookTyped ==
  ASSUME TypeOK, NEW x \in Slot, NEW k \in Check, NEW w \in Workspace, Look(x, k, w)
  PROVE  TypeOK'
<1>1. PICK ok \in BOOLEAN :
        slots' = [slots EXCEPT ![x] =
          [Free EXCEPT !.at = "ran", !.kind = "check", !.check = k, !.ws = w, !.ok = ok,
                       !.saw = IF ok THEN world[w] ELSE NoVersion]]
  BY DEF Look
<1> DEFINE call == [Free EXCEPT !.at = "ran", !.kind = "check", !.check = k, !.ws = w, !.ok = ok,
                                !.saw = IF ok THEN world[w] ELSE NoVersion]
<1>2. call \in Call /\ call.ws = w
  BY DEF TypeOK, Free, Call
<1>3. SlotsTyped'
  BY <1>1, <1>2, SlotSet DEF TypeOK
<1> QED
  BY <1>3 DEF TypeOK, Look, FilesTyped, CmdTyped

LEMMA WorkTyped ==
  ASSUME TaskAssumption, TypeOK, NEW x \in Slot, NEW kind \in {"write", "other"},
         NEW w \in Workspace, Work(x, kind, w)
  PROVE  TypeOK'
<1> DEFINE call == [Free EXCEPT !.at = "ran", !.kind = kind, !.ws = w]
<1>1. call \in Call /\ call.ws = w
  BY DEF Free, Call, NoVersion
<1>2. CASE slots' = [slots EXCEPT ![x] = call] /\ UNCHANGED <<world, cmd>>
  <2>1. SlotsTyped'
    BY <1>1, <1>2, SlotSet DEF TypeOK
  <2> QED
    BY <1>2, <2>1 DEF TypeOK, Work, FilesTyped, CmdTyped
<1>3. CASE /\ world[w] < MaxVersion
           /\ world' = [world EXCEPT ![w] = @ + 1]
           /\ slots' = [Blurred(w) EXCEPT ![x] =
                [Free EXCEPT !.at = "ran", !.kind = kind, !.ws = w, !.made = world[w] + 1]]
           /\ cmd' = Stained
  <2> DEFINE made == [Free EXCEPT !.at = "ran", !.kind = kind, !.ws = w, !.made = world[w] + 1]
  <2>1. world[w] + 1 \in Version
    BY <1>3 DEF TypeOK, Version, TaskAssumption
  <2>2. made \in Call /\ made.ws = w
    BY <2>1 DEF Free, Call, NoVersion
  <2>3. SlotsTyped'
    BY <1>3, <2>2, BlurTyped DEF TypeOK, SlotsTyped
  <2>4. CmdTyped'
    BY <1>3, StainTyped DEF TypeOK, Work
  <2>5. world' \in [Workspace -> Version]
    BY <1>3, <2>1 DEF TypeOK
  <2> QED
    BY <2>3, <2>4, <2>5 DEF TypeOK, Work, FilesTyped
<1> QED
  BY <1>2, <1>3 DEF Work

LEMMA NoteTyped == ASSUME TypeOK, NEW x \in Slot, Note(x) PROVE TypeOK'
<1> DEFINE call == [Free EXCEPT !.at = "noted", !.kind = "wrapper",
                                !.check = slots[x].check, !.ws = slots[x].ws]
<1>1. slots[x] \in Call /\ slots[x].ws \in Workspace /\ Busy(x)
  BY DEF TypeOK, SlotsTyped, Note, Busy, Free
<1>2. call \in Call /\ call.ws = slots[x].ws
  BY <1>1 DEF Free, Call, NoVersion
<1>3. SlotsTyped'
  BY <1>1, <1>2, SlotSet DEF TypeOK, Note
<1>4. log' \in Seq(Event)
  BY <1>1, RecordedTyped DEF Note, TypeOK
<1> QED
  BY <1>3, <1>4 DEF TypeOK, Note, FilesTyped, CmdTyped

LEMMA RecordTyped == ASSUME TypeOK, NEW x \in Slot, Record(x) PROVE TypeOK'
<1>1. slots[x] \in Call /\ slots[x].ws \in Workspace /\ Busy(x)
  BY DEF TypeOK, SlotsTyped, Record, Busy, Free
<1>2. SlotsTyped'
  BY FreeTyped, SlotSet DEF TypeOK, Record, Free
<1>3. log' \in Seq(Event)
  BY <1>1, RecordedTyped DEF Record, TypeOK
<1>4. changed' \in [Workspace -> {NoVersion} \union Version]
  BY <1>1 DEF Record, TypeOK, Call
<1> QED
  BY <1>2, <1>3, <1>4 DEF TypeOK, Record, FilesTyped, CmdTyped

LEMMA LoseTyped == ASSUME TypeOK, NEW x \in Slot, Lose(x) PROVE TypeOK'
<1>1. SlotsTyped'
  BY FreeTyped, SlotSet DEF TypeOK, Lose, Free
<1> QED
  BY <1>1 DEF TypeOK, Lose, FilesTyped, CmdTyped

LEMMA EditTyped == ASSUME TaskAssumption, TypeOK, NEW w \in Workspace, Edit(w) PROVE TypeOK'
<1>1. SlotsTyped'
  BY BlurTyped DEF TypeOK, Edit, SlotsTyped
<1>2. CmdTyped'
  BY StainTyped DEF TypeOK, Edit
<1>3. world' \in [Workspace -> Version]
  BY DEF TypeOK, Edit, Version, TaskAssumption
<1> QED
  BY <1>1, <1>2, <1>3 DEF TypeOK, Edit, FilesTyped

LEMMA CloseTyped == ASSUME TaskAssumption, TypeOK, NEW c \in Card, Close(c) PROVE TypeOK'
<1>1. \E clean \in BOOLEAN : cmd' = [at |-> "save", card |-> c, clean |-> clean]
  <2>1. CASE Unrecorded(file[c].ws)
    BY <2>1 DEF Close
  <2>2. CASE ~Unrecorded(file[c].ws)
    BY <2>2 DEF Close
  <2> QED
    BY <2>1, <2>2
<1>2. CmdTyped'
  BY <1>1 DEF Close, TypeOK, CmdTyped, TaskAssumption
<1> QED
  BY <1>2 DEF TypeOK, Close, FilesTyped, SlotsTyped

LEMMA SaveTyped == ASSUME TypeOK, file[cmd.card] # NoCard, Save PROVE TypeOK'
<1>1. cmd.card \in Card /\ Exists(cmd.card)
  BY DEF Save, TypeOK, CmdTyped, Exists
<1>a. \A i \in DOMAIN file[cmd.card].crits :
        [file[cmd.card].crits[i] EXCEPT !.status = "pass"] \in Criterion
  BY <1>1, CardTyped, CriterionSet
<1>2. Passed(file[cmd.card].crits) \in Seq(Criterion)
  BY <1>1, <1>a, CardTyped, SeqOf DEF Passed
<1>3. [file[cmd.card] EXCEPT !.status = "done", !.crits = Passed(@)] \in TaskCard
  BY <1>1, <1>2, CardTyped DEF TaskCard
<1>4. FilesTyped'
  BY <1>1, <1>3 DEF Save, TypeOK, FilesTyped
<1>5. CmdTyped'
  BY <1>1 DEF Save, NoCmd, TypeOK, CmdTyped
<1> QED
  BY <1>4, <1>5 DEF TypeOK, Save, SlotsTyped

LEMMA Typing ==
  ASSUME TaskAssumption, TypeOK, VerdictAlone, [Next]_vars
  PROVE  TypeOK'
<1>1. CASE UNCHANGED vars
  BY <1>1 DEF TypeOK, vars, SlotsTyped, FilesTyped, CmdTyped
<1>2. ASSUME NEW x \in Slot, Note(x) \/ Record(x) \/ Lose(x) PROVE TypeOK'
  BY <1>2, NoteTyped, RecordTyped, LoseTyped
<1>3. ASSUME NEW c \in Card, NEW r \in Risk, NEW w \in Workspace, New(c, r, w) PROVE TypeOK'
  <2>1. [status |-> "open", risk |-> r, ws |-> w, crits |-> <<>>] \in TaskCard
    BY DEF TaskCard
  <2> QED
    BY <1>3, <2>1, WriteTyped DEF New
<1>4. ASSUME NEW c \in Card, NEW k \in Check, AddCriterion(c, k) PROVE TypeOK'
  <2>1. [check |-> k, evidence |-> 0, status |-> "open"] \in Criterion
    BY DEF Criterion
  <2>a. Append(file[c].crits, [check |-> k, evidence |-> 0, status |-> "open"]) \in Seq(Criterion)
    BY <1>4, <2>1, CardTyped DEF AddCriterion
  <2>2. [file[c] EXCEPT !.crits = Append(@, [check |-> k, evidence |-> 0, status |-> "open"])]
          \in TaskCard
    BY <1>4, <2>a, CardTyped DEF AddCriterion, TaskCard
  <2> QED
    BY <1>4, <2>2, WriteTyped DEF AddCriterion
<1>5. ASSUME NEW c \in Card, NEW i \in 1..MaxCriteria, NEW e \in 1..Len(log), SetEvidence(c, i, e)
      PROVE  TypeOK'
  <2>a. file[c] \in TaskCard /\ file[c].crits \in Seq(Criterion) /\ i \in DOMAIN file[c].crits
    BY <1>5, CardTyped DEF SetEvidence
  <2>b. e \in Nat
    OBVIOUS
  <2>c. [file[c].crits[i] EXCEPT !.evidence = e, !.status = "open"] \in Criterion
    BY <1>5, <2>b, CardTyped, CriterionSet DEF SetEvidence
  <2>d. [file[c].crits EXCEPT ![i] = [file[c].crits[i] EXCEPT !.evidence = e, !.status = "open"]]
          \in Seq(Criterion)
    BY <2>a, <2>c
  <2>e. [file[c] EXCEPT !.crits =
           [file[c].crits EXCEPT ![i] = [file[c].crits[i] EXCEPT !.evidence = e, !.status = "open"]]]
          \in TaskCard
    BY <2>a, <2>d DEF TaskCard
  <2>f. [file[c] EXCEPT !.crits[i].evidence = e, !.crits[i].status = "open"]
          = [file[c] EXCEPT !.crits =
              [file[c].crits EXCEPT ![i] = [file[c].crits[i] EXCEPT !.evidence = e, !.status = "open"]]]
    BY <2>a, Zenon DEF TaskCard
  <2>1. [file[c] EXCEPT !.crits[i].evidence = e, !.crits[i].status = "open"] \in TaskCard
    BY <2>e, <2>f
  <2> QED
    BY <1>5, <2>1, WriteTyped DEF SetEvidence
<1>6. ASSUME NEW c \in Card, NEW status \in {"open", "abandoned"}, SetStatus(c, status) PROVE TypeOK'
  <2>1. [file[c] EXCEPT !.status = status] \in TaskCard
    BY <1>6, CardTyped DEF SetStatus, TaskCard
  <2> QED
    BY <1>6, <2>1, WriteTyped DEF SetStatus
<1>7. ASSUME NEW c \in Card, NEW r \in Risk, SetRisk(c, r) PROVE TypeOK'
  <2>1. [file[c] EXCEPT !.risk = r] \in TaskCard
    BY <1>7, CardTyped DEF SetRisk, TaskCard
  <2> QED
    BY <1>7, <2>1, WriteTyped DEF SetRisk
<1>8. ASSUME NEW c \in Card, NEW w \in Workspace, SetWorkspace(c, w) PROVE TypeOK'
  <2>1. [file[c] EXCEPT !.ws = w] \in TaskCard
    BY <1>8, CardTyped DEF SetWorkspace, TaskCard
  <2> QED
    BY <1>8, <2>1, WriteTyped DEF SetWorkspace
<1>9. ASSUME NEW c \in Card, Annotate(c) PROVE TypeOK'
  BY <1>9, CardTyped, WriteTyped DEF Annotate
<1>10. ASSUME NEW c \in Card, Defer(c) PROVE TypeOK'
  <2>a. \A i \in DOMAIN file[c].crits :
          /\ file[c].crits[i] \in Criterion
          /\ [file[c].crits[i] EXCEPT !.status = "unverified"] \in Criterion
    BY <1>10, CardTyped, CriterionSet DEF Defer
  <2>1. [i \in DOMAIN file[c].crits |-> IF file[c].crits[i].status = "pass" THEN file[c].crits[i]
           ELSE [file[c].crits[i] EXCEPT !.status = "unverified"]] \in Seq(Criterion)
    BY <1>10, <2>a, CardTyped, SeqOf DEF Defer
  <2>2. [file[c] EXCEPT
           !.status = "deferred",
           !.crits = [i \in DOMAIN @ |-> IF @[i].status = "pass" THEN @[i]
                                         ELSE [@[i] EXCEPT !.status = "unverified"]]] \in TaskCard
    BY <1>10, <2>1, CardTyped DEF Defer, TaskCard
  <2> QED
    BY <1>10, <2>2, WriteTyped DEF Defer
<1>11. CASE Save
  BY <1>11, SaveTyped DEF Save, VerdictAlone
<1>12. CASE LogUpdate
  <2>a. Len(log) + 1 \in Nat
    BY DEF TypeOK
  <2>1. first' \in [Card -> Nat]
    BY <1>12, <2>a DEF LogUpdate, TypeOK
  <2>2. CmdTyped'
    BY <1>12 DEF LogUpdate, TypeOK, CmdTyped, NoCmd
  <2> QED
    BY <1>12, <2>1, <2>2 DEF LogUpdate, TypeOK, SlotsTyped, FilesTyped
<1>13. CASE Kill
  <2>1. CmdTyped'
    BY <1>13 DEF Kill, TypeOK, CmdTyped, NoCmd
  <2> QED
    BY <1>13, <2>1 DEF Kill, TypeOK, SlotsTyped, FilesTyped
<1> QED
  BY <1>1, <1>2, <1>3, <1>4, <1>5, <1>6, <1>7, <1>8, <1>9, <1>10, <1>11, <1>12, <1>13,
     LookTyped, WorkTyped, EditTyped, CloseTyped DEF Next

----------------------------------------------------------------------------
(* Each action preserves the invariant. *)

LEMMA Typed ==
  ASSUME TypeOK
  PROVE  /\ \A w \in Workspace : world[w] \in Version /\ world[w] \in Nat /\ changed[w] \in Nat
         /\ \A x \in Slot : slots[x] \in Call /\ slots[x].saw \in Nat /\ slots[x].made \in Nat
         /\ \A x \in Slot : slots[x].kind = "check" \/ slots[x].made # NoVersion
                               => slots[x].ws \in Workspace
         /\ Len(log) \in Nat /\ DOMAIN log = 1..Len(log)
         /\ \A j \in DOMAIN log : log[j] \in Event /\ log[j].saw \in Nat /\ log[j].ws \in Workspace
<1>1. Version \subseteq Nat /\ NoVersion \in Nat
  BY DEF Version, NoVersion
<1>2. \A w \in Workspace : world[w] \in Version /\ changed[w] \in {NoVersion} \union Version
  BY DEF TypeOK
<1>3. \A x \in Slot : slots[x] \in Call
  BY DEF TypeOK, SlotsTyped
<1>4. \A call \in Call : call.saw \in Nat /\ call.made \in Nat
  BY <1>1 DEF Call
<1>5. \A x \in Slot : slots[x].kind = "check" \/ slots[x].made # NoVersion
                      => slots[x].ws \in Workspace
  BY DEF TypeOK, SlotsTyped, Free
<1>6. log \in Seq(Event)
  BY DEF TypeOK
<1>7. Len(log) \in Nat /\ DOMAIN log = 1..Len(log) /\ \A j \in DOMAIN log : log[j] \in Event
  BY <1>6
<1>8. \A ev \in Event : ev.saw \in Nat /\ ev.ws \in Workspace
  BY <1>1 DEF Event
<1> QED
  BY <1>1, <1>2, <1>3, <1>4, <1>5, <1>7, <1>8

LEMMA LookInv ==
  ASSUME TypeOK, EvidenceInv, NEW x \in Slot, NEW k \in Check, NEW w \in Workspace, Look(x, k, w)
  PROVE  EvidenceInv'
<1>1. PICK ok \in BOOLEAN :
        slots' = [slots EXCEPT ![x] =
          [Free EXCEPT !.at = "ran", !.kind = "check", !.check = k, !.ws = w, !.ok = ok,
                       !.saw = IF ok THEN world[w] ELSE NoVersion]]
  BY DEF Look
<1>2. /\ slots'[x].kind = "check" /\ slots'[x].ws = w /\ slots'[x].made = NoVersion
      /\ slots'[x].check = k /\ slots'[x].ok = ok /\ (ok => slots'[x].saw = world[w])
      /\ \A y \in Slot : y # x => slots'[y] = slots[y]
  BY <1>1 DEF TypeOK, SlotsTyped, Free
<1>3. EvidenceLogged' /\ ChangesLogged' /\ ClosesFresh'
  BY DEF EvidenceInv, EvidenceLogged, ChangesLogged, ClosesFresh, Look
<1>4. WorkMade'
  BY <1>2 DEF EvidenceInv, WorkMade, Look
<1>5. LookCurrent'
  <2> SUFFICES ASSUME NEW z \in Slot, slots'[z].kind = "check", slots'[z].ok, slots'[z].clean
               PROVE  /\ changed[slots'[z].ws] <= slots'[z].saw
                      /\ \A y \in Slot : slots'[y].ws = slots'[z].ws => slots'[y].made <= slots'[z].saw
                      /\ Reads(slots'[z].check) => slots'[z].saw = world[slots'[z].ws]
    BY DEF LookCurrent, Look
  <2>1. CASE z = x
    <3>1. slots'[z].saw = world[w] /\ slots'[z].ws = w
      BY <2>1, <1>2
    <3>2. \A y \in Slot : slots'[y].ws = w => slots'[y].made <= world[w]
      <4> SUFFICES ASSUME NEW y \in Slot, slots'[y].ws = w PROVE slots'[y].made <= world[w]
        OBVIOUS
      <4>1. CASE y = x
        BY <4>1, <1>2, Typed DEF NoVersion
      <4>2. CASE y # x
        BY <4>2, <1>2, Typed DEF EvidenceInv, WorkMade, NoVersion
      <4> QED
        BY <4>1, <4>2
    <3>3. changed[w] <= world[w]
      BY DEF EvidenceInv, WorkMade
    <3> QED
      BY <3>1, <3>2, <3>3
  <2>2. CASE z # x
    BY <2>2, <1>2, Typed DEF EvidenceInv, LookCurrent, NoVersion
  <2> QED
    BY <2>1, <2>2
<1>6. VerdictAlone'
  BY <1>2 DEF EvidenceInv, VerdictAlone, Unrecorded, Look
<1> QED
  BY <1>3, <1>4, <1>5, <1>6 DEF EvidenceInv

\* A verdict that is disturbed promises nothing any more.
LEMMA StainInv ==
  ASSUME TypeOK, EvidenceInv, cmd' = Stained, UNCHANGED file
  PROVE  VerdictAlone' /\ ClosesFresh'
<1>1. cmd'.at = cmd.at /\ cmd'.card = cmd.card
  BY DEF Stained, TypeOK, CmdTyped
<1>2. cmd'.at = "save" => ~cmd'.clean
  BY DEF Stained, TypeOK, CmdTyped
<1> QED
  BY <1>1, <1>2 DEF EvidenceInv, VerdictAlone, ClosesFresh

LEMMA WorkInv ==
  ASSUME TypeOK, EvidenceInv, NEW x \in Slot, NEW kind \in {"write", "other"},
         NEW w \in Workspace, Work(x, kind, w)
  PROVE  EvidenceInv'
<1>1. EvidenceLogged' /\ ChangesLogged'
  BY DEF EvidenceInv, EvidenceLogged, ChangesLogged, Work
<1>2. CASE slots' = [slots EXCEPT ![x] = [Free EXCEPT !.at = "ran", !.kind = kind, !.ws = w]]
           /\ UNCHANGED <<world, cmd>>
  <2>1. /\ slots'[x].kind = kind /\ slots'[x].made = NoVersion
        /\ \A y \in Slot : y # x => slots'[y] = slots[y]
    BY <1>2 DEF TypeOK, SlotsTyped, Free
  <2>2. WorkMade' /\ LookCurrent'
    BY <1>2, <2>1, Typed DEF EvidenceInv, WorkMade, LookCurrent, Work, NoVersion
  <2>3. VerdictAlone' /\ ClosesFresh'
    BY <1>2, <2>1 DEF EvidenceInv, VerdictAlone, ClosesFresh, Unrecorded, Work
  <2> QED
    BY <1>1, <2>2, <2>3 DEF EvidenceInv
<1>3. CASE /\ world[w] < MaxVersion
           /\ world' = [world EXCEPT ![w] = @ + 1]
           /\ slots' = [Blurred(w) EXCEPT ![x] =
                [Free EXCEPT !.at = "ran", !.kind = kind, !.ws = w, !.made = world[w] + 1]]
           /\ cmd' = Stained
  <2>1. /\ slots'[x].kind = kind /\ slots'[x].ws = w /\ slots'[x].made = world[w] + 1
        /\ \A y \in Slot : y # x => slots'[y] = Blurred(w)[y]
    BY <1>3, BlurTyped DEF TypeOK, Free
  <2>2. \A y \in Slot : y # x =>
          /\ slots'[y].kind = slots[y].kind /\ slots'[y].ws = slots[y].ws
          /\ slots'[y].made = slots[y].made /\ slots'[y].saw = slots[y].saw
          /\ slots'[y].ok = slots[y].ok /\ slots'[y].check = slots[y].check
          /\ slots'[y].clean => slots[y].clean
          /\ slots'[y].kind = "check" /\ slots'[y].clean => slots[y].ws # w
    BY <2>1 DEF Blurred, TypeOK, SlotsTyped, Call
  <2>3. \A v \in Workspace : world[v] <= world'[v] /\ (v # w => world'[v] = world[v])
                             /\ world'[w] = world[w] + 1
    BY <1>3, Typed DEF TypeOK
  <2>a. \A v \in Workspace : changed[v] <= world'[v]
    BY <2>3, Typed DEF EvidenceInv, WorkMade
  <2>b. ASSUME NEW y \in Slot, slots'[y].made # NoVersion
        PROVE  slots'[y].kind \in {"write", "other"} /\ slots'[y].made <= world'[slots'[y].ws]
    <3>1. CASE y = x
      BY <3>1, <2>1, <2>3, Typed
    <3>2. CASE y # x
      BY <3>2, <2>b, <2>2, <2>3, Typed DEF EvidenceInv, WorkMade
    <3> QED
      BY <3>1, <3>2
  <2>4. WorkMade'
    BY <2>a, <2>b DEF WorkMade, Work
  <2>5. LookCurrent'
    BY <2>1, <2>2, <2>3, Typed DEF EvidenceInv, LookCurrent, Work
  <2> QED
    BY <1>1, <1>3, <2>4, <2>5, StainInv DEF EvidenceInv, Work
<1> QED
  BY <1>2, <1>3 DEF Work

LEMMA EditInv ==
  ASSUME TypeOK, EvidenceInv, NEW w \in Workspace, Edit(w)
  PROVE  EvidenceInv'
<1>1. EvidenceLogged' /\ ChangesLogged'
  BY DEF EvidenceInv, EvidenceLogged, ChangesLogged, Edit
<1>2. \A y \in Slot :
        /\ slots'[y].kind = slots[y].kind /\ slots'[y].ws = slots[y].ws
        /\ slots'[y].made = slots[y].made /\ slots'[y].saw = slots[y].saw
        /\ slots'[y].ok = slots[y].ok /\ slots'[y].check = slots[y].check
        /\ slots'[y].clean => slots[y].clean
        /\ slots'[y].kind = "check" /\ slots'[y].clean /\ Reads(slots[y].check) => slots[y].ws # w
  BY DEF Edit, Blurred, TypeOK, SlotsTyped, Call
<1>3. \A v \in Workspace : world[v] <= world'[v] /\ (v # w => world'[v] = world[v])
  BY Typed DEF TypeOK, Edit
<1>4. WorkMade' /\ LookCurrent'
  BY <1>2, <1>3, Typed DEF EvidenceInv, WorkMade, LookCurrent, Edit, TypeOK, SlotsTyped
<1> QED
  BY <1>1, <1>4, StainInv DEF EvidenceInv, Edit

\* What is in the log stays where it is.
LEMMA Appended ==
  ASSUME TypeOK, NEW x \in Slot, log' = Append(log, Recorded(slots[x]))
  PROVE  /\ Len(log') = Len(log) + 1 /\ DOMAIN log' = 1..Len(log) + 1
         /\ \A j \in DOMAIN log : j \in DOMAIN log' /\ log'[j] = log[j]
         /\ log'[Len(log) + 1] = Recorded(slots[x])
<1>1. log \in Seq(Event)
  BY DEF TypeOK
<1> QED
  BY <1>1

LEMMA EvidenceKept ==
  ASSUME TypeOK, EvidenceInv, NEW x \in Slot, log' = Append(log, Recorded(slots[x])), UNCHANGED file
  PROVE  EvidenceLogged'
<1> SUFFICES ASSUME NEW c \in Card, file[c] # NoCard, NEW i \in DOMAIN file[c].crits
             PROVE  file[c].crits[i].evidence <= Len(log')
  BY DEF EvidenceLogged
<1>1. file[c].crits[i].evidence <= Len(log)
  BY DEF EvidenceInv, EvidenceLogged
<1>2. file[c].crits[i] \in Criterion
  BY CardTyped DEF Exists
<1>3. file[c].crits[i].evidence \in Nat
  BY <1>2 DEF Criterion
<1> QED
  BY <1>1, <1>3, Appended, Typed

\* The evidence a verdict rests on is an event of the log.
LEMMA VerdictLogged ==
  ASSUME TypeOK, EvidenceInv, cmd.at = "save", NEW i \in DOMAIN file[cmd.card].crits
  PROVE  /\ file[cmd.card].crits[i].evidence \in DOMAIN log
         /\ file[cmd.card].ws \in Workspace
<1>1. cmd.card \in Card /\ Exists(cmd.card)
  BY DEF TypeOK, CmdTyped, EvidenceInv, VerdictAlone, Exists
<1>2. file[cmd.card].crits[i] \in Criterion /\ file[cmd.card] \in TaskCard
  BY <1>1, CardTyped
<1>3. file[cmd.card].crits[i].evidence \in Nat
  BY <1>2 DEF Criterion
<1>4. file[cmd.card].crits[i].evidence # 0 /\ file[cmd.card].crits[i].evidence <= Len(log)
  BY <1>1 DEF EvidenceInv, VerdictAlone, EvidenceLogged, Exists
<1>5. file[cmd.card].ws \in Workspace
  BY <1>2 DEF TaskCard
<1> QED
  BY <1>3, <1>4, <1>5, Typed

LEMMA NoteInv == ASSUME TypeOK, EvidenceInv, NEW x \in Slot, Note(x) PROVE EvidenceInv'
<1>1. /\ slots[x].kind = "check" /\ ~Reads(slots[x].check) /\ slots[x].ws \in Workspace
      /\ log' = Append(log, Recorded(slots[x]))
      /\ UNCHANGED <<world, file, changed, cmd>>
  BY Typed DEF Note
<1>2. /\ slots'[x].kind = "wrapper" /\ slots'[x].made = NoVersion
      /\ \A y \in Slot : y # x => slots'[y] = slots[y]
  BY DEF Note, TypeOK, SlotsTyped, Free
<1>3. EvidenceLogged'
  BY <1>1, EvidenceKept
<1>4. WorkMade'
  BY <1>1, <1>2 DEF EvidenceInv, WorkMade
<1>5. LookCurrent'
  <2> SUFFICES ASSUME NEW z \in Slot, slots'[z].kind = "check", slots'[z].ok, slots'[z].clean
               PROVE  /\ changed[slots'[z].ws] <= slots'[z].saw
                      /\ \A y \in Slot : slots'[y].ws = slots'[z].ws => slots'[y].made <= slots'[z].saw
                      /\ Reads(slots'[z].check) => slots'[z].saw = world[slots'[z].ws]
    BY <1>1 DEF LookCurrent
  <2>1. z # x /\ slots'[z] = slots[z]
    BY <1>2
  <2>2. 0 <= slots[z].saw
    BY Typed
  <2> QED
    BY <2>1, <2>2, <1>2 DEF EvidenceInv, LookCurrent, NoVersion
<1>6. ChangesLogged'
  <2> SUFFICES ASSUME NEW j \in DOMAIN log', log'[j].kind = "check", log'[j].ok, log'[j].clean
               PROVE  /\ Reads(log'[j].check) => log'[j].art = log'[j].saw /\ log'[j].art # NoVersion
                      /\ changed[log'[j].ws] > log'[j].saw =>
                           \E k \in DOMAIN log' : /\ k > j /\ log'[k].ws = log'[j].ws
                                                  /\ log'[k].kind \in {"write", "other"}
    BY <1>1 DEF ChangesLogged
  <2>1. CASE j \in DOMAIN log
    BY <2>1, <1>1, Appended DEF EvidenceInv, ChangesLogged
  <2>2. CASE j = Len(log) + 1
    <3>1. log'[j] = Recorded(slots[x])
      BY <2>2, <1>1, Appended
    <3>2. ~Reads(log'[j].check) /\ changed[log'[j].ws] <= log'[j].saw
      BY <3>1, <1>1 DEF Recorded, EvidenceInv, LookCurrent
    <3>3. changed[log'[j].ws] \in Nat /\ log'[j].saw \in Nat
      BY <3>1, <1>1, Typed DEF Recorded
    <3> QED
      BY <3>2, <3>3
  <2> QED
    BY <2>1, <2>2, <1>1, Appended, Typed
<1>7. VerdictAlone'
  BY <1>1, <1>2 DEF EvidenceInv, VerdictAlone, Unrecorded
<1>8. ClosesFresh'
  BY <1>1, Appended, VerdictLogged DEF EvidenceInv, ClosesFresh
<1> QED
  BY <1>3, <1>4, <1>5, <1>6, <1>7, <1>8 DEF EvidenceInv

\* A change that is recorded is one that no verdict stands on.
LEMMA RecordInv == ASSUME TypeOK, EvidenceInv, NEW x \in Slot, Record(x) PROVE EvidenceInv'
<1>1. /\ slots[x].ws \in Workspace
      /\ log' = Append(log, Recorded(slots[x]))
      /\ UNCHANGED <<world, file, cmd>>
  BY DEF Record, TypeOK, SlotsTyped, Free
<1>2. /\ slots'[x].kind = "other" /\ slots'[x].made = NoVersion
      /\ \A y \in Slot : y # x => slots'[y] = slots[y]
  BY DEF Record, TypeOK, SlotsTyped, Free
<1>3. /\ \A v \in Workspace : v # slots[x].ws => changed'[v] = changed[v]
      /\ \/ changed' = changed
         \/ changed'[slots[x].ws] = slots[x].made /\ slots[x].made # NoVersion
  BY <1>1, Typed DEF Record, TypeOK, NoVersion
<1>4. EvidenceLogged'
  BY <1>1, EvidenceKept
<1>5. WorkMade'
  BY <1>1, <1>2, <1>3 DEF EvidenceInv, WorkMade
<1>6. LookCurrent'
  <2> SUFFICES ASSUME NEW z \in Slot, slots'[z].kind = "check", slots'[z].ok, slots'[z].clean
               PROVE  /\ changed'[slots'[z].ws] <= slots'[z].saw
                      /\ \A y \in Slot : slots'[y].ws = slots'[z].ws => slots'[y].made <= slots'[z].saw
                      /\ Reads(slots'[z].check) => slots'[z].saw = world[slots'[z].ws]
    BY <1>1 DEF LookCurrent
  <2>1. z # x /\ slots'[z] = slots[z] /\ slots[z].ws \in Workspace
    BY <1>2, Typed
  <2>2. 0 <= slots[z].saw
    BY Typed
  <2>3. changed'[slots[z].ws] <= slots[z].saw
    BY <2>1, <1>3 DEF EvidenceInv, LookCurrent
  <2> QED
    BY <2>1, <2>2, <2>3, <1>2 DEF EvidenceInv, LookCurrent, NoVersion
<1>7. ChangesLogged'
  <2> SUFFICES ASSUME NEW j \in DOMAIN log', log'[j].kind = "check", log'[j].ok, log'[j].clean
               PROVE  /\ Reads(log'[j].check) => log'[j].art = log'[j].saw /\ log'[j].art # NoVersion
                      /\ changed'[log'[j].ws] > log'[j].saw =>
                           \E k \in DOMAIN log' : /\ k > j /\ log'[k].ws = log'[j].ws
                                                  /\ log'[k].kind \in {"write", "other"}
    BY DEF ChangesLogged
  <2>1. CASE j \in DOMAIN log
    <3>1. log'[j] = log[j] /\ log[j].ws \in Workspace
      BY <2>1, <1>1, Appended, Typed
    <3>2. Reads(log[j].check) => log[j].art = log[j].saw /\ log[j].art # NoVersion
      BY <3>1, <2>1 DEF EvidenceInv, ChangesLogged
    <3>3. ASSUME changed'[log[j].ws] > log[j].saw
          PROVE  \E k \in DOMAIN log' : /\ k > j /\ log'[k].ws = log[j].ws
                                        /\ log'[k].kind \in {"write", "other"}
      <4>1. CASE changed'[log[j].ws] = changed[log[j].ws]
        BY <4>1, <3>1, <3>3, <2>1, <1>1, Appended DEF EvidenceInv, ChangesLogged
      <4>2. CASE changed'[log[j].ws] # changed[log[j].ws]
        <5>1. log[j].ws = slots[x].ws /\ slots[x].made # NoVersion
          BY <4>2, <3>1, <1>3
        <5>2. log'[Len(log) + 1] = Recorded(slots[x])
          BY <1>1, Appended
        <5>3. log'[Len(log) + 1].ws = log[j].ws /\ log'[Len(log) + 1].kind \in {"write", "other"}
          BY <5>1, <5>2 DEF EvidenceInv, WorkMade, Recorded
        <5>4. Len(log) + 1 > j /\ Len(log) + 1 \in DOMAIN log'
          BY <2>1, <1>1, Appended, Typed
        <5> QED
          BY <5>3, <5>4
      <4> QED
        BY <4>1, <4>2
    <3> QED
      BY <3>1, <3>2, <3>3
  <2>2. CASE j = Len(log) + 1
    <3>1. log'[j] = Recorded(slots[x])
      BY <2>2, <1>1, Appended
    <3>2. slots[x].kind = "check" /\ slots[x].ok /\ slots[x].clean
      BY <3>1 DEF Recorded
    <3>3. slots[x].made = NoVersion /\ changed' = changed
      BY <3>2, <1>3 DEF EvidenceInv, WorkMade
    <3>4. changed'[log'[j].ws] <= log'[j].saw
      BY <3>1, <3>2, <3>3 DEF Recorded, EvidenceInv, LookCurrent
    <3>5. changed'[log'[j].ws] \in Nat /\ log'[j].saw \in Nat
      BY <3>1, <3>3, <1>1, Typed DEF Recorded
    <3>6. Reads(log'[j].check) => log'[j].art = world[slots[x].ws] /\ log'[j].saw = world[slots[x].ws]
      BY <3>1, <3>2 DEF Recorded, Snapshot, EvidenceInv, LookCurrent
    <3>7. world[slots[x].ws] # NoVersion
      BY <1>1, Typed DEF Version, NoVersion
    <3> QED
      BY <3>4, <3>5, <3>6, <3>7
  <2> QED
    BY <2>1, <2>2, <1>1, Appended, Typed
<1>8. VerdictAlone'
  BY <1>1, <1>2 DEF EvidenceInv, VerdictAlone, Unrecorded
<1>9. ClosesFresh'
  <2> SUFFICES ASSUME cmd.at = "save", cmd.clean, NEW i \in DOMAIN file[cmd.card].crits
               PROVE  LET ev == log'[file[cmd.card].crits[i].evidence]
                      IN ev.clean =>
                           /\ ev.saw >= changed'[file[cmd.card].ws]
                           /\ file[cmd.card].crits[i].check \in ReadCheck
                                => ev.saw = world[file[cmd.card].ws]
    BY <1>1 DEF ClosesFresh
  <2>1. log'[file[cmd.card].crits[i].evidence] = log[file[cmd.card].crits[i].evidence]
    BY <1>1, Appended, VerdictLogged
  <2>2. slots[x].ws = file[cmd.card].ws => slots[x].made = NoVersion
    BY DEF EvidenceInv, VerdictAlone, Unrecorded
  <2>3. changed'[file[cmd.card].ws] = changed[file[cmd.card].ws]
    BY <2>2, <1>3, VerdictLogged
  <2> QED
    BY <2>1, <2>3 DEF EvidenceInv, ClosesFresh
<1> QED
  BY <1>4, <1>5, <1>6, <1>7, <1>8, <1>9 DEF EvidenceInv

LEMMA LoseInv == ASSUME TypeOK, EvidenceInv, NEW x \in Slot, Lose(x) PROVE EvidenceInv'
<1>1. /\ slots'[x].kind = "other" /\ slots'[x].made = NoVersion
      /\ \A y \in Slot : y # x => slots'[y] = slots[y]
      /\ UNCHANGED <<world, log, file, changed, cmd>>
  BY DEF Lose, TypeOK, SlotsTyped, Free
<1>2. EvidenceLogged' /\ ChangesLogged' /\ ClosesFresh'
  BY <1>1 DEF EvidenceInv, EvidenceLogged, ChangesLogged, ClosesFresh
<1>3. WorkMade'
  BY <1>1 DEF EvidenceInv, WorkMade
<1>4. LookCurrent'
  <2>1. \A z \in Slot : 0 <= slots[z].saw
    BY Typed
  <2> QED
    BY <1>1, <2>1 DEF EvidenceInv, LookCurrent, NoVersion
<1>5. VerdictAlone'
  BY <1>1 DEF EvidenceInv, VerdictAlone, Unrecorded
<1> QED
  BY <1>2, <1>3, <1>4, <1>5 DEF EvidenceInv

\* close() finds nothing missing only when no change it can see came after the
\* evidence: each recorded one is an event that invalidates.
LEMMA CloseInv == ASSUME TypeOK, EvidenceInv, NEW c \in Card, Close(c) PROVE EvidenceInv'
<1>1. /\ Exists(c) /\ Missing(c, file[c]) = {}
      /\ cmd' = [at |-> "save", card |-> c, clean |-> ~Unrecorded(file[c].ws)]
      /\ UNCHANGED <<world, log, slots, file, changed>>
  BY DEF Close
<1>2. EvidenceLogged' /\ WorkMade' /\ LookCurrent' /\ ChangesLogged'
  BY <1>1 DEF EvidenceInv, EvidenceLogged, WorkMade, LookCurrent, ChangesLogged
<1>3. ASSUME NEW i \in DOMAIN file[c].crits
      PROVE  /\ Sound(file[c].crits[i])
             /\ log[file[c].crits[i].evidence].ws = file[c].ws
             /\ \A j \in file[c].crits[i].evidence + 1..Len(log) : ~Invalidates(log[j], file[c])
  BY <1>1 DEF Missing
<1>4. VerdictAlone'
  BY <1>1, <1>3 DEF VerdictAlone, Sound, Unrecorded, Exists
<1>5. ClosesFresh'
  <2> SUFFICES ASSUME NEW i \in DOMAIN file[c].crits, log[file[c].crits[i].evidence].clean
               PROVE  /\ log[file[c].crits[i].evidence].saw >= changed[file[c].ws]
                      /\ file[c].crits[i].check \in ReadCheck
                           => log[file[c].crits[i].evidence].saw = world[file[c].ws]
    BY <1>1 DEF ClosesFresh
  <2> DEFINE e == file[c].crits[i].evidence
  <2>1. file[c].crits[i] \in Criterion /\ file[c] \in TaskCard
    BY <1>1, CardTyped
  <2>2. e \in Nat /\ file[c].ws \in Workspace
    BY <2>1 DEF Criterion, TaskCard
  <2>3. e # 0 /\ e <= Len(log)
    BY <1>1, <1>3 DEF Sound, EvidenceInv, EvidenceLogged, Exists
  <2>4. e \in DOMAIN log
    BY <2>2, <2>3, Typed
  <2>5. /\ log[e].kind = "check" /\ log[e].ok /\ log[e].check = file[c].crits[i].check
        /\ log[e].art # NoVersion => log[e].art = world[log[e].ws]
        /\ log[e].ws = file[c].ws
    BY <1>3 DEF Sound, Matches
  <2>6. ~ changed[log[e].ws] > log[e].saw
    <3> SUFFICES ASSUME changed[log[e].ws] > log[e].saw PROVE FALSE
      OBVIOUS
    <3>1. PICK k \in DOMAIN log : k > e /\ log[k].ws = log[e].ws /\ log[k].kind \in {"write", "other"}
      BY <2>4, <2>5 DEF EvidenceInv, ChangesLogged
    <3>2. k \in e + 1..Len(log)
      BY <3>1, <2>2, Typed
    <3>3. Effect(log[k].kind, log[k].check) \in {"write", "unknown"}
      BY <3>1 DEF Effect
    <3>4. Invalidates(log[k], file[c])
      BY <3>1, <3>3, <2>5 DEF Invalidates, Matches
    <3> QED
      BY <3>2, <3>4, <1>3
  <2>7. log[e].saw \in Nat /\ changed[file[c].ws] \in Nat
    BY <2>4, <2>2, Typed
  <2>8. file[c].crits[i].check \in ReadCheck => log[e].saw = world[file[c].ws]
    BY <2>4, <2>5 DEF EvidenceInv, ChangesLogged, Reads
  <2> QED
    BY <2>5, <2>6, <2>7, <2>8
<1> QED
  BY <1>2, <1>4, <1>5 DEF EvidenceInv

\* The commands that write a card keep, add or name evidence of the log.
LEMMA CommandInv ==
  ASSUME TaskAssumption, TypeOK, TypeOK', EvidenceInv, NEW c \in Card, NEW card,
         Write(c, card),
         \A i \in DOMAIN card.crits : card.crits[i].evidence <= Len(log)
  PROVE  EvidenceInv'
<1>1. card = file'[c]
  BY DEF Write, TypeOK, FilesTyped
<1>2. WorkMade' /\ LookCurrent' /\ ChangesLogged'
  BY DEF EvidenceInv, WorkMade, LookCurrent, ChangesLogged, Write
<1>3. EvidenceLogged'
  BY <1>1 DEF EvidenceInv, EvidenceLogged, Write, TypeOK, FilesTyped
<1>4. cmd'.at = "log"
  BY DEF Write, NoCmd
<1>5. VerdictAlone' /\ ClosesFresh'
  BY <1>4 DEF VerdictAlone, ClosesFresh
<1> QED
  BY <1>2, <1>3, <1>5 DEF EvidenceInv

LEMMA SaveInv == ASSUME TypeOK, EvidenceInv, Save PROVE EvidenceInv'
<1>1. cmd.card \in Card /\ Exists(cmd.card)
  BY DEF Save, TypeOK, CmdTyped, EvidenceInv, VerdictAlone, Exists
<1>2. \A i \in DOMAIN file[cmd.card].crits : file[cmd.card].crits[i] \in Criterion
  BY <1>1, CardTyped
<1>3. /\ DOMAIN Passed(file[cmd.card].crits) = DOMAIN file[cmd.card].crits
      /\ \A i \in DOMAIN file[cmd.card].crits :
           Passed(file[cmd.card].crits)[i].evidence = file[cmd.card].crits[i].evidence
  BY <1>2 DEF Passed, Criterion
<1>4. file[cmd.card] \in TaskCard
  BY <1>1, CardTyped
<1>5. file'[cmd.card].crits = Passed(file[cmd.card].crits)
  BY <1>1, <1>4 DEF Save, TypeOK, FilesTyped, TaskCard
<1>6. \A c \in Card : c # cmd.card => file'[c] = file[c]
  BY <1>1 DEF Save, TypeOK, FilesTyped
<1>7. EvidenceLogged'
  <2> SUFFICES ASSUME NEW c \in Card, file'[c] # NoCard, NEW i \in DOMAIN file'[c].crits
               PROVE  file'[c].crits[i].evidence <= Len(log)
    BY DEF EvidenceLogged, Save
  <2>1. CASE c = cmd.card
    BY <2>1, <1>1, <1>3, <1>5 DEF EvidenceInv, EvidenceLogged, Exists
  <2>2. CASE c # cmd.card
    BY <2>2, <1>6 DEF EvidenceInv, EvidenceLogged
  <2> QED
    BY <2>1, <2>2
<1>8. WorkMade' /\ LookCurrent' /\ ChangesLogged'
  BY DEF EvidenceInv, WorkMade, LookCurrent, ChangesLogged, Save
<1>9. cmd'.at = "log"
  BY DEF Save, NoCmd
<1>10. VerdictAlone' /\ ClosesFresh'
  BY <1>9 DEF VerdictAlone, ClosesFresh
<1> QED
  BY <1>7, <1>8, <1>10 DEF EvidenceInv

\* A command that ends, or dies, leaves the verdict behind.
LEMMA EndInv == ASSUME EvidenceInv, LogUpdate \/ Kill PROVE EvidenceInv'
<1>1. cmd'.at = "idle" /\ UNCHANGED <<world, log, slots, file, changed>>
  BY DEF LogUpdate, Kill, NoCmd
<1>2. VerdictAlone' /\ ClosesFresh'
  BY <1>1 DEF VerdictAlone, ClosesFresh
<1>3. EvidenceLogged' /\ WorkMade' /\ LookCurrent' /\ ChangesLogged'
  BY <1>1 DEF EvidenceInv, EvidenceLogged, WorkMade, LookCurrent, ChangesLogged
<1> QED
  BY <1>2, <1>3 DEF EvidenceInv

LEMMA Invariance ==
  ASSUME TaskAssumption, TypeOK, EvidenceInv, [Next]_vars
  PROVE  TypeOK' /\ EvidenceInv'
<1>1. TypeOK'
  BY Typing DEF EvidenceInv
<1>2. CASE UNCHANGED vars
  <2>1. EvidenceLogged' /\ WorkMade' /\ LookCurrent' /\ ChangesLogged'
    BY <1>2 DEF EvidenceInv, EvidenceLogged, WorkMade, LookCurrent, ChangesLogged, vars
  <2>2. VerdictAlone' /\ ClosesFresh'
    BY <1>2 DEF EvidenceInv, VerdictAlone, ClosesFresh, Unrecorded, vars
  <2> QED
    BY <1>1, <2>1, <2>2 DEF EvidenceInv
<1>3. ASSUME NEW c \in Card, Exists(c), NEW i \in DOMAIN file[c].crits
      PROVE  file[c].crits[i] \in Criterion /\ file[c].crits[i].evidence <= Len(log)
  BY <1>3, CardTyped DEF EvidenceInv, EvidenceLogged, Exists
<1>4. ASSUME NEW c \in Card, NEW r \in Risk, NEW w \in Workspace, New(c, r, w) PROVE EvidenceInv'
  <2>1. DOMAIN [status |-> "open", risk |-> r, ws |-> w, crits |-> <<>>].crits = {}
    OBVIOUS
  <2> QED
    BY <1>1, <1>4, <2>1, CommandInv DEF New
<1>5. ASSUME NEW c \in Card, NEW k \in Check, AddCriterion(c, k) PROVE EvidenceInv'
  <2> DEFINE crits == Append(file[c].crits, [check |-> k, evidence |-> 0, status |-> "open"])
             card == [file[c] EXCEPT !.crits = crits]
  <2>1. Exists(c) /\ file[c] \in TaskCard /\ file[c].crits \in Seq(Criterion)
    BY <1>5, CardTyped DEF AddCriterion
  <2>2. card.crits = crits
    BY <2>1 DEF TaskCard
  <2>3. \A i \in DOMAIN crits : crits[i].evidence <= Len(log)
    <3> SUFFICES ASSUME NEW i \in DOMAIN crits PROVE crits[i].evidence <= Len(log)
      OBVIOUS
    <3>1. \/ i \in DOMAIN file[c].crits /\ crits[i] = file[c].crits[i]
          \/ crits[i] = [check |-> k, evidence |-> 0, status |-> "open"]
      BY <2>1
    <3> QED
      BY <3>1, <2>1, <1>3, Typed
  <2>4. Write(c, card)
    BY <1>5 DEF AddCriterion
  <2> HIDE DEF crits, card
  <2> QED
    BY <1>1, <2>2, <2>3, <2>4, CommandInv
<1>6. ASSUME NEW c \in Card, NEW i \in 1..MaxCriteria, NEW e \in 1..Len(log), SetEvidence(c, i, e)
      PROVE  EvidenceInv'
  <2> DEFINE crit == [file[c].crits[i] EXCEPT !.evidence = e, !.status = "open"]
             card == [file[c] EXCEPT !.crits[i].evidence = e, !.crits[i].status = "open"]
  <2>1. /\ Exists(c) /\ i \in DOMAIN file[c].crits
        /\ file[c] \in TaskCard /\ file[c].crits \in Seq(Criterion)
    BY <1>6, CardTyped DEF SetEvidence
  <2>2. card = [file[c] EXCEPT !.crits = [file[c].crits EXCEPT ![i] = crit]]
    BY <2>1, Zenon DEF TaskCard
  <2>3. card.crits = [file[c].crits EXCEPT ![i] = crit]
    BY <2>1, <2>2 DEF TaskCard
  <2>4. crit.evidence = e
    BY <2>1, <1>3 DEF Criterion
  <2>5. \A j \in DOMAIN card.crits : card.crits[j].evidence <= Len(log)
    <3> SUFFICES ASSUME NEW j \in DOMAIN card.crits PROVE card.crits[j].evidence <= Len(log)
      OBVIOUS
    <3> HIDE DEF card, crit
    <3>1. CASE j = i
      BY <3>1, <2>1, <2>3, <2>4, Typed
    <3>2. CASE j # i
      BY <3>2, <2>1, <2>3, <1>3
    <3> QED
      BY <3>1, <3>2
  <2>6. Write(c, card)
    BY <1>6 DEF SetEvidence
  <2> HIDE DEF card, crit
  <2> QED
    BY <1>1, <2>5, <2>6, CommandInv
<1>7. ASSUME NEW c \in Card, NEW status \in {"open", "abandoned"}, SetStatus(c, status) PROVE EvidenceInv'
  <2>1. [file[c] EXCEPT !.status = status].crits = file[c].crits
    BY <1>7, CardTyped DEF SetStatus, TaskCard
  <2> QED
    BY <1>1, <1>3, <1>7, <2>1, CommandInv DEF SetStatus
<1>8. ASSUME NEW c \in Card, NEW r \in Risk, SetRisk(c, r) PROVE EvidenceInv'
  <2>1. [file[c] EXCEPT !.risk = r].crits = file[c].crits
    BY <1>8, CardTyped DEF SetRisk, TaskCard
  <2> QED
    BY <1>1, <1>3, <1>8, <2>1, CommandInv DEF SetRisk
<1>9. ASSUME NEW c \in Card, NEW w \in Workspace, SetWorkspace(c, w) PROVE EvidenceInv'
  <2>1. [file[c] EXCEPT !.ws = w].crits = file[c].crits
    BY <1>9, CardTyped DEF SetWorkspace, TaskCard
  <2> QED
    BY <1>1, <1>3, <1>9, <2>1, CommandInv DEF SetWorkspace
<1>10. ASSUME NEW c \in Card, Annotate(c) PROVE EvidenceInv'
  BY <1>1, <1>3, <1>10, CommandInv DEF Annotate
<1>11. ASSUME NEW c \in Card, Defer(c) PROVE EvidenceInv'
  <2> DEFINE crits == [i \in DOMAIN file[c].crits |->
                         IF file[c].crits[i].status = "pass" THEN file[c].crits[i]
                         ELSE [file[c].crits[i] EXCEPT !.status = "unverified"]]
             card == [file[c] EXCEPT
                        !.status = "deferred",
                        !.crits = [i \in DOMAIN @ |-> IF @[i].status = "pass" THEN @[i]
                                                      ELSE [@[i] EXCEPT !.status = "unverified"]]]
  <2>1. Exists(c) /\ file[c] \in TaskCard
    BY <1>11, CardTyped DEF Defer
  <2>2. card.crits = crits
    BY <2>1 DEF TaskCard
  <2>3. \A i \in DOMAIN crits : crits[i].evidence = file[c].crits[i].evidence
    BY <2>1, <1>3 DEF Criterion
  <2>4. Write(c, card)
    BY <1>11 DEF Defer
  <2>5. \A i \in DOMAIN crits : crits[i].evidence <= Len(log)
    BY <2>1, <2>3, <1>3
  <2> HIDE DEF crits, card
  <2> QED
    BY <1>1, <2>2, <2>4, <2>5, CommandInv
<1>12. ASSUME NEW x \in Slot, Note(x) \/ Record(x) \/ Lose(x) PROVE EvidenceInv'
  BY <1>12, NoteInv, RecordInv, LoseInv
<1>13. CASE Save
  BY <1>1, <1>13, SaveInv
<1>14. CASE LogUpdate \/ Kill
  BY <1>1, <1>14, EndInv
<1> QED
  BY <1>1, <1>2, <1>4, <1>5, <1>6, <1>7, <1>8, <1>9, <1>10, <1>11, <1>12, <1>13, <1>14,
     LookInv, WorkInv, EditInv, CloseInv DEF Next

LEMMA Initially == ASSUME TaskAssumption, Init PROVE TypeOK /\ EvidenceInv
<1>1. CmdTyped /\ FilesTyped
  BY DEF Init, CmdTyped, FilesTyped, NoCmd, TaskAssumption
<1>2. SlotsTyped
  BY FreeTyped DEF Init, SlotsTyped
<1>3. TypeOK
  BY <1>1, <1>2 DEF Init, TypeOK, Version, NoVersion, TaskAssumption
<1>4. \A x \in Slot : slots[x].kind = "other" /\ slots[x].made = NoVersion
  BY DEF Init, Free
<1>5. WorkMade /\ LookCurrent
  BY <1>4 DEF Init, WorkMade, LookCurrent, NoVersion
<1>6. EvidenceLogged /\ ChangesLogged /\ VerdictAlone /\ ClosesFresh
  BY DEF Init, EvidenceLogged, ChangesLogged, VerdictAlone, ClosesFresh, NoCmd
<1> QED
  BY <1>3, <1>5, <1>6 DEF EvidenceInv

----------------------------------------------------------------------------
(* What passed was earned. *)

\* While the verdict waits to be written, its card and the log stay as judged.
JudgedEarned ==
  cmd.at = "save" =>
    \A i \in DOMAIN file[cmd.card].crits : Earned(cmd.card, file[cmd.card].crits[i])
PassInv == PassEarned /\ JudgedEarned

\* The log only grows, and the beginning of a card is never moved.
Grows ==
  /\ log' = log \/ \E ev \in Event : log' = Append(log, ev)
  /\ \A c \in Card : first[c] # 0 => first'[c] = first[c]

LEMMA EarnedStays ==
  ASSUME TypeOK, Grows, NEW c \in Card, NEW crit \in Criterion, Earned(c, crit)
  PROVE  /\ crit.evidence \in DOMAIN log'
         /\ log'[crit.evidence].ok /\ Matches(log'[crit.evidence], crit.check)
         /\ first'[c] # 0 /\ first'[c] <= crit.evidence
<1>1. log \in Seq(Event) /\ crit.evidence \in DOMAIN log
  BY DEF TypeOK, Earned
<1>2. crit.evidence \in DOMAIN log' /\ log'[crit.evidence] = log[crit.evidence]
  BY <1>1 DEF Grows
<1>3. first'[c] = first[c] /\ first[c] # 0 /\ first[c] <= crit.evidence
  BY DEF Grows, Earned, Opened
<1> QED
  BY <1>2, <1>3 DEF Earned

\* Tool calls and edits leave cards and verdicts alone.
LEMMA PassKept ==
  ASSUME TypeOK, PassInv, VerdictAlone, Grows, file' = file,
         cmd'.at = "save" => cmd.at = "save" /\ cmd'.card = cmd.card
  PROVE  PassInv'
<1>1. ASSUME NEW c \in Card, file[c] # NoCard, NEW i \in DOMAIN file[c].crits,
             Earned(c, file[c].crits[i])
      PROVE  Earned(c, file[c].crits[i])'
  <2>1. file[c].crits[i] \in Criterion
    BY <1>1, CardTyped DEF Exists
  <2> QED
    BY <1>1, <2>1, EarnedStays DEF Earned, Opened, Matches
<1>2. PassEarned'
  BY <1>1 DEF PassInv, PassEarned
<1>3. JudgedEarned'
  <2> SUFFICES ASSUME cmd'.at = "save", NEW i \in DOMAIN file[cmd.card].crits
               PROVE  Earned(cmd.card, file[cmd.card].crits[i])'
    BY DEF JudgedEarned
  <2>1. cmd.at = "save" /\ cmd'.card = cmd.card /\ cmd.card \in Card /\ file[cmd.card] # NoCard
    BY DEF TypeOK, CmdTyped, VerdictAlone
  <2>2. Earned(cmd.card, file[cmd.card].crits[i])
    BY <2>1 DEF PassInv, JudgedEarned
  <2>3. file[cmd.card].crits[i] \in Criterion
    BY <2>1, CardTyped DEF Exists
  <2> QED
    BY <2>1, <2>2, <2>3, EarnedStays DEF Earned, Opened, Matches
<1> QED
  BY <1>2, <1>3 DEF PassInv

\* close() passes over nothing: each criterion is earned when none is missing.
LEMMA ClosePass == ASSUME TypeOK, EvidenceInv, PassInv, NEW c \in Card, Close(c) PROVE PassInv'
<1>1. /\ Exists(c) /\ Missing(c, file[c]) = {}
      /\ cmd'.at = "save" /\ cmd'.card = c /\ UNCHANGED <<log, file, first>>
  BY DEF Close
<1>2. ASSUME NEW i \in DOMAIN file[c].crits PROVE Earned(c, file[c].crits[i])
  <2>1. Sound(file[c].crits[i]) /\ Opened(c, file[c].crits[i].evidence)
    BY <1>1 DEF Missing
  <2>2. file[c].crits[i].evidence \in Nat /\ file[c].crits[i].evidence <= Len(log)
    BY <1>1, CardTyped DEF Criterion, EvidenceInv, EvidenceLogged, Exists
  <2>3. file[c].crits[i].evidence \in DOMAIN log
    BY <2>1, <2>2, Typed DEF Sound
  <2> QED
    BY <2>1, <2>3 DEF Sound, Earned
<1> QED
  BY <1>1, <1>2 DEF PassInv, PassEarned, JudgedEarned, Earned, Opened

\* Each command that writes a card lets pass only what had passed.
LEMMA WritePass ==
  ASSUME TypeOK, PassInv, NEW c \in Card, NEW card, Write(c, card),
         \A i \in DOMAIN card.crits :
           card.crits[i].status = "pass" => Earned(c, card.crits[i])
  PROVE  PassInv'
<1>1. /\ cmd'.at = "log" /\ UNCHANGED <<log, first>>
      /\ file'[c] = card /\ \A d \in Card : d # c => file'[d] = file[d]
  BY DEF Write, NoCmd, TypeOK, FilesTyped
<1>2. ASSUME NEW d \in Card, file'[d] # NoCard, NEW i \in DOMAIN file'[d].crits,
             file'[d].crits[i].status = "pass"
      PROVE  Earned(d, file'[d].crits[i])
  <2>1. CASE d = c
    BY <2>1, <1>1, <1>2
  <2>2. CASE d # c
    BY <2>2, <1>1, <1>2 DEF PassInv, PassEarned
  <2> QED
    BY <2>1, <2>2
<1> QED
  BY <1>1, <1>2 DEF PassInv, PassEarned, JudgedEarned, Earned, Opened

LEMMA SavePass == ASSUME TypeOK, EvidenceInv, PassInv, Save PROVE PassInv'
<1>1. /\ cmd.card \in Card /\ Exists(cmd.card) /\ cmd'.at = "log" /\ UNCHANGED <<log, first>>
  BY DEF Save, NoCmd, TypeOK, CmdTyped, EvidenceInv, VerdictAlone, Exists
<1>2. /\ file[cmd.card] \in TaskCard
      /\ \A i \in DOMAIN file[cmd.card].crits : file[cmd.card].crits[i] \in Criterion
  BY <1>1, CardTyped
<1>3. /\ file'[cmd.card].crits = Passed(file[cmd.card].crits)
      /\ \A d \in Card : d # cmd.card => file'[d] = file[d]
  BY <1>1, <1>2 DEF Save, TypeOK, FilesTyped, TaskCard
<1>4. /\ DOMAIN Passed(file[cmd.card].crits) = DOMAIN file[cmd.card].crits
      /\ \A i \in DOMAIN file[cmd.card].crits :
           /\ Passed(file[cmd.card].crits)[i].evidence = file[cmd.card].crits[i].evidence
           /\ Passed(file[cmd.card].crits)[i].check = file[cmd.card].crits[i].check
  BY <1>2 DEF Passed, Criterion
<1>5. ASSUME NEW d \in Card, file'[d] # NoCard, NEW i \in DOMAIN file'[d].crits,
             file'[d].crits[i].status = "pass"
      PROVE  Earned(d, file'[d].crits[i])
  <2>1. CASE d = cmd.card
    <3>1. i \in DOMAIN file[d].crits /\ Earned(d, file[d].crits[i])
      BY <2>1, <1>3, <1>4, <1>5 DEF Save, PassInv, JudgedEarned
    <3> QED
      BY <2>1, <3>1, <1>3, <1>4 DEF Earned
  <2>2. CASE d # cmd.card
    BY <2>2, <1>3, <1>5 DEF PassInv, PassEarned
  <2> QED
    BY <2>1, <2>2
<1> QED
  BY <1>1, <1>5 DEF PassInv, PassEarned, JudgedEarned, Earned, Opened

LEMMA PassStep ==
  ASSUME TaskAssumption, TypeOK, EvidenceInv, PassInv, [Next]_vars
  PROVE  PassInv'
<1>a. VerdictAlone
  BY DEF EvidenceInv
<1>b. ASSUME NEW c \in Card, Exists(c), NEW i \in DOMAIN file[c].crits,
             file[c].crits[i].status = "pass"
      PROVE  Earned(c, file[c].crits[i])
  BY <1>b DEF PassInv, PassEarned, Exists
<1>1. CASE UNCHANGED vars
  BY <1>1, <1>a, PassKept DEF vars, Grows
<1>2. ASSUME NEW x \in Slot, Note(x) \/ Record(x) PROVE PassInv'
  <2>1. slots[x] # Free /\ Busy(x)
    BY <1>2 DEF Note, Record, Free, Busy
  <2>2. Recorded(slots[x]) \in Event
    BY <2>1, RecordedTyped
  <2>3. log' = Append(log, Recorded(slots[x])) /\ UNCHANGED <<file, first, cmd>>
    BY <1>2 DEF Note, Record
  <2> QED
    BY <1>a, <2>2, <2>3, PassKept DEF Grows
<1>3. ASSUME NEW x \in Slot, NEW k \in Check, NEW w \in Workspace, Look(x, k, w) PROVE PassInv'
  BY <1>3, <1>a, PassKept DEF Look, Grows
<1>4. ASSUME NEW x \in Slot, Lose(x) PROVE PassInv'
  BY <1>4, <1>a, PassKept DEF Lose, Grows
<1>5. ASSUME NEW x \in Slot, NEW kind \in {"write", "other"}, NEW w \in Workspace, Work(x, kind, w)
      PROVE  PassInv'
  <2>1. cmd' = cmd \/ cmd' = Stained
    BY <1>5 DEF Work
  <2>2. cmd'.at = cmd.at /\ cmd'.card = cmd.card
    BY <2>1 DEF Stained, TypeOK, CmdTyped
  <2> QED
    BY <1>5, <1>a, <2>2, PassKept DEF Work, Grows
<1>6. ASSUME NEW w \in Workspace, Edit(w) PROVE PassInv'
  <2>1. cmd'.at = cmd.at /\ cmd'.card = cmd.card
    BY <1>6 DEF Edit, Stained, TypeOK, CmdTyped
  <2> QED
    BY <1>6, <1>a, <2>1, PassKept DEF Edit, Grows
<1>7. ASSUME NEW c \in Card, NEW r \in Risk, NEW w \in Workspace, New(c, r, w) PROVE PassInv'
  <2>1. DOMAIN [status |-> "open", risk |-> r, ws |-> w, crits |-> <<>>].crits = {}
    OBVIOUS
  <2> QED
    BY <1>7, <2>1, WritePass DEF New
<1>8. ASSUME NEW c \in Card, NEW k \in Check, AddCriterion(c, k) PROVE PassInv'
  <2> DEFINE new == [check |-> k, evidence |-> 0, status |-> "open"]
             crits == Append(file[c].crits, new)
             card == [file[c] EXCEPT !.crits = crits]
  <2>1. Exists(c) /\ file[c] \in TaskCard /\ file[c].crits \in Seq(Criterion)
    BY <1>8, CardTyped DEF AddCriterion
  <2>2. card.crits = crits
    BY <2>1 DEF TaskCard
  <2>3. Write(c, card)
    BY <1>8 DEF AddCriterion
  <2>4. new.status = "open"
    OBVIOUS
  <2>5. ASSUME NEW i \in DOMAIN crits, crits[i].status = "pass" PROVE Earned(c, crits[i])
    <3> HIDE DEF new
    <3>1. (i \in DOMAIN file[c].crits /\ crits[i] = file[c].crits[i]) \/ crits[i] = new
      BY <2>1
    <3> QED
      BY <3>1, <2>1, <2>4, <2>5, <1>b
  <2> HIDE DEF crits, card
  <2> QED
    BY <2>2, <2>3, <2>5, WritePass
<1>9. ASSUME NEW c \in Card, NEW i \in 1..MaxCriteria, NEW e \in 1..Len(log), SetEvidence(c, i, e)
      PROVE  PassInv'
  <2> DEFINE crit == [file[c].crits[i] EXCEPT !.evidence = e, !.status = "open"]
             card == [file[c] EXCEPT !.crits[i].evidence = e, !.crits[i].status = "open"]
  <2>1. /\ Exists(c) /\ i \in DOMAIN file[c].crits
        /\ file[c] \in TaskCard /\ file[c].crits \in Seq(Criterion)
        /\ file[c].crits[i] \in Criterion
    BY <1>9, CardTyped DEF SetEvidence
  <2>2. card = [file[c] EXCEPT !.crits = [file[c].crits EXCEPT ![i] = crit]]
    BY <2>1, Zenon DEF TaskCard
  <2>3. card.crits = [file[c].crits EXCEPT ![i] = crit]
    BY <2>1, <2>2 DEF TaskCard
  <2>4. crit.status = "open"
    BY <2>1 DEF Criterion
  <2>5. Write(c, card)
    BY <1>9 DEF SetEvidence
  <2> HIDE DEF card, crit
  <2>6. ASSUME NEW j \in DOMAIN card.crits, card.crits[j].status = "pass"
        PROVE  Earned(c, card.crits[j])
    BY <2>6, <2>1, <2>3, <2>4, <1>b
  <2> QED
    BY <2>5, <2>6, WritePass
<1>10. ASSUME NEW c \in Card, NEW card, Write(c, card), Exists(c), card.crits = file[c].crits
       PROVE  PassInv'
  BY <1>10, <1>b, WritePass
<1>11. ASSUME NEW c \in Card, NEW status \in {"open", "abandoned"}, SetStatus(c, status) PROVE PassInv'
  <2>1. Exists(c) /\ [file[c] EXCEPT !.status = status].crits = file[c].crits
    BY <1>11, CardTyped DEF SetStatus, TaskCard
  <2> QED
    BY <1>10, <1>11, <2>1 DEF SetStatus
<1>12. ASSUME NEW c \in Card, NEW r \in Risk, SetRisk(c, r) PROVE PassInv'
  <2>1. Exists(c) /\ [file[c] EXCEPT !.risk = r].crits = file[c].crits
    BY <1>12, CardTyped DEF SetRisk, TaskCard
  <2> QED
    BY <1>10, <1>12, <2>1 DEF SetRisk
<1>13. ASSUME NEW c \in Card, NEW w \in Workspace, SetWorkspace(c, w) PROVE PassInv'
  <2>1. Exists(c) /\ [file[c] EXCEPT !.ws = w].crits = file[c].crits
    BY <1>13, CardTyped DEF SetWorkspace, TaskCard
  <2> QED
    BY <1>10, <1>13, <2>1 DEF SetWorkspace
<1>14. ASSUME NEW c \in Card, Annotate(c) PROVE PassInv'
  BY <1>10, <1>14 DEF Annotate
<1>15. ASSUME NEW c \in Card, Defer(c) PROVE PassInv'
  <2> DEFINE crits == [i \in DOMAIN file[c].crits |->
                         IF file[c].crits[i].status = "pass" THEN file[c].crits[i]
                         ELSE [file[c].crits[i] EXCEPT !.status = "unverified"]]
             card == [file[c] EXCEPT
                        !.status = "deferred",
                        !.crits = [i \in DOMAIN @ |-> IF @[i].status = "pass" THEN @[i]
                                                      ELSE [@[i] EXCEPT !.status = "unverified"]]]
  <2>1. /\ Exists(c) /\ file[c] \in TaskCard
        /\ \A i \in DOMAIN file[c].crits : file[c].crits[i] \in Criterion
    BY <1>15, CardTyped DEF Defer
  <2>2. card.crits = crits
    BY <2>1 DEF TaskCard
  <2>3. Write(c, card)
    BY <1>15 DEF Defer
  <2>4. ASSUME NEW i \in DOMAIN crits, crits[i].status = "pass" PROVE Earned(c, crits[i])
    <3>1. file[c].crits[i].status = "pass"
      BY <2>4, <2>1 DEF Criterion
    <3> QED
      BY <3>1, <2>1, <1>b
  <2> HIDE DEF crits, card
  <2> QED
    BY <2>2, <2>3, <2>4, WritePass
<1>16. CASE Save
  BY <1>16, SavePass
<1>17. CASE LogUpdate \/ Kill
  <2>1. Grows /\ file' = file /\ cmd'.at = "idle"
    BY <1>17 DEF LogUpdate, Kill, NoCmd, Grows, TypeOK
  <2> QED
    BY <1>a, <2>1, PassKept
<1> QED
  BY <1>1, <1>2, <1>3, <1>4, <1>5, <1>6, <1>7, <1>8, <1>9, <1>11, <1>12, <1>13, <1>14, <1>15,
     <1>16, <1>17, ClosePass DEF Next

----------------------------------------------------------------------------
(* The theorems. *)

\* Cards, the event log and the tool calls in flight always have the shape the
\* functions of taskcard.py and hooks.py give them.
THEOREM TaskTypeCorrect == Spec => []TypeOK
<1>1. Init => TypeOK /\ EvidenceInv
  BY Initially, TaskAssumption
<1>2. TypeOK /\ EvidenceInv /\ [Next]_vars => TypeOK' /\ EvidenceInv'
  BY Invariance, TaskAssumption
<1> QED
  BY <1>1, <1>2, PTL DEF Spec

\* The facts close() relies on: a recorded change the evidence did not see is an
\* event after it, and evidence names an event that is there.
THEOREM TaskInvariant == Spec => []TaskInv
<1>1. Init => TypeOK /\ EvidenceInv
  BY Initially, TaskAssumption
<1>2. TypeOK /\ EvidenceInv /\ [Next]_vars => TypeOK' /\ EvidenceInv'
  BY Invariance, TaskAssumption
<1> QED
  BY <1>1, <1>2, PTL DEF Spec, TaskInv

\* close() decides "done" only on evidence that saw every recorded change of the
\* card's workspace, whatever calls, sessions, lost hooks and edits ran before.
THEOREM ClosedOnFreshEvidence == Spec => []ClosesFresh
<1>1. TaskInv => ClosesFresh
  BY DEF TaskInv, EvidenceInv
<1> QED
  BY <1>1, TaskInvariant, PTL

\* A criterion that passed stays earned through every later command, whatever
\* is set, moved, deferred, reopened or killed (taskcard.py:324-492): the verdict
\* of close() is about the log at that moment, and neither the log nor the card's
\* beginning is ever taken back.
THEOREM PassesEarned == Spec => []PassEarned
<1>1. Init => TypeOK /\ EvidenceInv /\ PassInv
  <2>1. Init => PassInv
    BY DEF Init, PassInv, PassEarned, JudgedEarned, NoCmd
  <2> QED
    BY <2>1, Initially, TaskAssumption
<1>2. TypeOK /\ EvidenceInv /\ PassInv /\ [Next]_vars => TypeOK' /\ EvidenceInv' /\ PassInv'
  BY Invariance, PassStep, TaskAssumption
<1>3. PassInv => PassEarned
  BY DEF PassInv
<1> QED
  BY <1>1, <1>2, <1>3, PTL DEF Spec

=============================================================================
