---------------------------- MODULE MemoryProofs ----------------------------
(* Long-term memory stays consistent, for every value of the constants. *)
EXTENDS MemorySafety, TLAPS, WellFoundedInduction

USE DEF history

----------------------------------------------------------------------------
(* The largest of a bounded set of numbers. *)

LEMMA HasMin ==
  ASSUME NEW T \in SUBSET Nat, T # {}
  PROVE  \E x \in T : \A y \in T : x <= y
<1> DEFINE R == {xy \in Nat \X Nat : xy[1] < xy[2]}
<1>1. IsWellFoundedOn(R, Nat)
  BY NatLessThanWellFounded DEF OpToRel
<1> HIDE DEF R
<1>2. PICK x \in T : \A y \in T : ~ (<<y, x>> \in R)
  BY <1>1, WFMin
<1>3. ASSUME NEW y \in T PROVE x <= y
  <2>1. ~(<<y, x>> \in R)
    BY <1>2
  <2>2. x \in Nat /\ y \in Nat
    OBVIOUS
  <2>3. ~(y < x)
    BY <2>1, <2>2 DEF R
  <2> QED
    BY <2>2, <2>3
<1> QED
  BY <1>3

LEMMA MaxFound ==
  ASSUME NEW S \in SUBSET Nat, S # {}, NEW b \in Nat, \A n \in S : n <= b
  PROVE  Max(S) \in S /\ \A n \in S : n <= Max(S)
<1> DEFINE T == {b - n : n \in S}
<1>1. T \in SUBSET Nat /\ T # {}
  <2>1. \A n \in S : b - n \in Nat
    OBVIOUS
  <2> QED
    BY <2>1
<1>2. PICK x \in T : \A y \in T : x <= y
  BY <1>1, HasMin
<1>3. PICK m \in S : x = b - m
  OBVIOUS
<1>4. \A n \in S : m >= n
  <2> SUFFICES ASSUME NEW n \in S PROVE m >= n
    OBVIOUS
  <2>1. b - m <= b - n
    BY <1>2, <1>3
  <2> QED
    BY <2>1
<1>5. \E e \in S : \A n \in S : e >= n
  BY <1>4
<1>6. Max(S) \in S /\ \A n \in S : Max(S) >= n
  BY <1>5, Zenon DEF Max
<1> QED
  BY <1>6

----------------------------------------------------------------------------
(* Ids. *)

LEMMA Belongs ==
  ASSUME TypeOK, NEW s \in Store
  PROVE  /\ profile[s] \subseteq Item
         /\ Records(s) \subseteq Retired
         /\ \A r \in Records(s) : r.item \in Item
<1>1. archive[s] \in Seq(Retired)
  BY DEF TypeOK
<1>2. \A n \in DOMAIN archive[s] : archive[s][n] \in Retired
  BY <1>1
<1> QED
  BY <1>2 DEF TypeOK, Records, Retired

\* A new id is higher than every one seen, and no higher than the items made.
LEMMA NewIdFresh ==
  ASSUME TypeOK, IdsCounted, NEW s \in Store, NEW sec \in Section
  PROVE  /\ \E n \in 1..(born + 1) : NewId(s, sec) = [sec |-> sec, num |-> n]
         /\ \A i \in profile[s] : i.id # NewId(s, sec)
<1> DEFINE ids == {i.id : i \in Seen(s)} \union {r.item.id : r \in Records(s)}
           S == {0} \union {i.num : i \in {i \in ids : i.sec = sec}}
<1>1. "global" \in Store /\ born \in Nat
  BY DEF TypeOK, Store
<1>2. \A i \in Seen(s) : i \in Item /\ i.id.num <= i.at /\ i.at <= born
  BY <1>1, Belongs DEF Seen, IdsCounted, Older, Counted
<1>3. \A r \in Records(s) : r.item \in Item /\ r.item.id.num <= r.item.at /\ r.item.at <= born
  BY Belongs DEF IdsCounted, Older, Counted
<1>4. \A i \in ids : i \in Id /\ i.num \in Nat /\ i.num <= born
  BY <1>1, <1>2, <1>3 DEF Item, Id
<1> HIDE DEF ids
<1>5. S \in SUBSET Nat /\ S # {} /\ \A n \in S : n <= born
  BY <1>1, <1>4
<1> HIDE DEF S
<1>6. Max(S) \in S /\ \A n \in S : n <= Max(S)
  BY <1>1, <1>5, MaxFound
<1>7. NewId(s, sec) = [sec |-> sec, num |-> 1 + Max(S)]
  BY DEF NewId, ids, S
<1>8. 1 + Max(S) \in 1..(born + 1)
  <2>1. Max(S) \in Nat /\ Max(S) <= born
    BY <1>5, <1>6
  <2> QED
    BY <1>1, <2>1
<1>9. ASSUME NEW i \in profile[s], i.id = NewId(s, sec) PROVE FALSE
  <2>1. i.id \in ids
    BY DEF ids, Seen
  <2>2. i.id.sec = sec /\ i.id.num = 1 + Max(S)
    BY <1>7, <1>9
  <2>3. i.id.num \in S
    <3>1. i.id \in {j \in ids : j.sec = sec}
      BY <2>1, <2>2
    <3> QED
      BY <3>1 DEF S
  <2>4. Max(S) \in Nat /\ 1 + Max(S) <= Max(S)
    BY <1>5, <1>6, <2>2, <2>3
  <2> QED
    BY <2>4
<1> QED
  BY <1>7, <1>8, <1>9

LEMMA NewItemTyped ==
  ASSUME MemoryAssumption, TypeOK, IdsCounted, born < MaxItems,
         NEW s \in Store, NEW sec \in Section, NEW c \in {0} \union Cid
  PROVE  /\ NewItem(s, sec, c) \in Item
         /\ NewItem(s, sec, c) # NoItem
         /\ NewItem(s, sec, c).cand = c
         /\ NewItem(s, sec, c).at = born + 1
         /\ NewItem(s, sec, c).id = NewId(s, sec)
         /\ NewItem(s, sec, c).id.num <= born + 1
<1>1. PICK n \in 1..(born + 1) : NewId(s, sec) = [sec |-> sec, num |-> n]
  BY NewIdFresh
<1>2. born \in Nat /\ MaxItems \in Nat
  BY DEF TypeOK, MemoryAssumption
<1>3. NewId(s, sec) \in Id
  BY <1>1, <1>2 DEF Id
<1>4. NewItem(s, sec, c) \in Item
  BY <1>2, <1>3 DEF NewItem, Item
<1> QED
  BY <1>1, <1>2, <1>4 DEF NewItem, MemoryAssumption

----------------------------------------------------------------------------
(* The shape of the variables, in whichever store an approval is retried. *)

\* What the command is at work on.
LEMMA JobTyped ==
  ASSUME TypeOK, JobSound
  PROVE  /\ job.j \in Journal /\ job.j.store \in Store /\ job.cid \in {0} \union Cid
         /\ job.j.item \in Item \union {NoItem} /\ job.j.old \in Item \union {NoItem}
         /\ job.at \in Steps \union {"profile"} =>
              /\ job.cid \in DOMAIN cands /\ job.cid \in Cid /\ cands[job.cid] \in Candidate
              /\ job.j = journal[job.cid] /\ job.j.item \in Item
         /\ At("remembered") => job.j.item \in Item
<1>1. job.j \in Journal /\ job.cid \in {0} \union Cid
  BY DEF TypeOK
<1>2. cands \in Seq(Candidate) /\ Len(cands) <= MaxCand
  BY DEF TypeOK
<1>3. ASSUME job.cid \in DOMAIN cands PROVE job.cid \in Cid /\ cands[job.cid] \in Candidate
  <2>1. cands[job.cid] \in Candidate /\ job.cid # 0
    BY <1>2, <1>3
  <2> QED
    BY <1>1, <2>1
<1> QED
  BY <1>1, <1>3 DEF Journal, JobSound

LEMMA Append1 ==
  ASSUME NEW S, NEW q \in Seq(S), NEW x \in S
  PROVE  /\ Append(q, x) \in Seq(S)
         /\ Len(Append(q, x)) = Len(q) + 1
         /\ DOMAIN Append(q, x) = DOMAIN q \union {Len(q) + 1}
         /\ \A n \in DOMAIN q : n \in DOMAIN Append(q, x) /\ Append(q, x)[n] = q[n]
         /\ Append(q, x)[Len(q) + 1] = x
OBVIOUS

LEMMA DecideTyped ==
  ASSUME TypeOK, NEW c \in DOMAIN cands, NEW status \in {"pending", "approved", "rejected"},
         Decide(c, status)
  PROVE  /\ cands' \in Seq(Candidate) /\ Len(cands') = Len(cands) /\ DOMAIN cands' = DOMAIN cands
         /\ \A b \in DOMAIN cands : b # c => cands'[b] = cands[b]
         /\ cands'[c].status = status
<1>1. cands \in Seq(Candidate)
  BY DEF TypeOK
<1>2. cands[c] \in Candidate
  BY <1>1
<1>3. [cands[c] EXCEPT !.status = status] \in Candidate /\ [cands[c] EXCEPT !.status = status].status = status
  BY <1>2 DEF Candidate
<1>4. cands' = [cands EXCEPT ![c] = [cands[c] EXCEPT !.status = status]]
  BY DEF Decide
<1>5. c \in 1..Len(cands) /\ Len(cands) \in Nat /\ DOMAIN cands = 1..Len(cands)
  BY <1>1
<1>6. cands' \in Seq(Candidate) /\ Len(cands') = Len(cands)
  BY <1>1, <1>3, <1>4, <1>5
<1> QED
  BY <1>3, <1>4, <1>5, <1>6

LEMMA LogTyped ==
  ASSUME TypeOK, NEW kind \in {"approval", "correction"}, NEW c \in {0} \union Cid,
         NEW pid \in Id \union {NoId},
         Log(kind, c, pid) \/ UNCHANGED events
  PROVE  events' \in Seq(Event)
<1>1. [kind |-> kind, cid |-> c, pid |-> pid] \in Event
  BY DEF Event
<1> QED
  <2>1. events \in Seq(Event)
    BY DEF TypeOK
  <2>2. Append(events, [kind |-> kind, cid |-> c, pid |-> pid]) \in Seq(Event)
    BY <1>1, <2>1, Append1
  <2> QED
    BY <2>1, <2>2 DEF Log

\* A command moves on in its job.
LEMMA ThenTyped ==
  ASSUME TypeOK, NEW step \in Step, Then(step)
  PROVE  /\ job' \in [at : Step, cid : {0} \union Cid, j : Journal]
         /\ job'.at = step /\ job'.cid = job.cid /\ job'.j = job.j
BY DEF TypeOK, Then

LEMMA IdleTyped ==
  /\ Idle \in [at : Step, cid : {0} \union Cid, j : Journal]
  /\ NoJournal \in Journal /\ NoJournal.item = NoItem /\ NoJournal.old = NoItem
  /\ Idle.at = "idle" /\ Idle.cid = 0 /\ Idle.j = NoJournal
BY DEF Idle, NoJournal, Journal, Step, Store

LEMMA InitTyped == MemoryAssumption /\ Init => TypeInv
<1> SUFFICES ASSUME MemoryAssumption, Init PROVE TypeInv
  OBVIOUS
<1> USE DEF Init
<1>1. TypeOK
  BY IdleTyped DEF TypeOK, MemoryAssumption
<1>2. JobSound
  BY IdleTyped DEF JobSound, Steps, At, NoJournal
<1>3. IdsCounted
  BY IdleTyped DEF IdsCounted, Records, NoJournal
<1>4. IdFree /\ UniqueIds
  BY IdleTyped DEF IdFree, At, UniqueIds
<1> QED
  BY <1>1, <1>2, <1>3, <1>4 DEF TypeInv

\* A hook adds a candidate: the ones before it stay where they are.
LEMMA AddKept ==
  ASSUME MemoryAssumption, TypeInv, NEW t \in Text, NEW sec \in Section, AddCandidate(t, sec)
  PROVE  TypeInv' /\ DOMAIN cands \subseteq DOMAIN cands'
         /\ \A c \in DOMAIN cands : cands'[c] = cands[c]
<1> DEFINE new == [text |-> t, sec |-> sec, status |-> "pending"]
<1>1. new \in Candidate /\ cands \in Seq(Candidate) /\ MaxCand \in Nat /\ Len(cands) < MaxCand
  BY DEF Candidate, TypeInv, TypeOK, AddCandidate, MemoryAssumption
<1>2. cands' = Append(cands, new)
  BY DEF AddCandidate
<1> HIDE DEF new
<1>3. cands' \in Seq(Candidate) /\ Len(cands') = Len(cands) + 1
      /\ \A c \in DOMAIN cands : c \in DOMAIN cands' /\ cands'[c] = cands[c]
  BY <1>1, <1>2, Append1
<1>4. Len(cands') <= MaxCand
  BY <1>1, <1>3
<1>5. TypeOK'
  BY <1>3, <1>4 DEF TypeInv, TypeOK, AddCandidate
<1>6. JobSound'
  BY <1>3, JobTyped DEF TypeInv, JobSound, AddCandidate, At, Pending
<1>7. IdsCounted' /\ IdFree' /\ UniqueIds'
  BY DEF TypeInv, AddCandidate, IdsCounted, Older, Counted, Records, At, IdFree, UniqueIds
<1> QED
  BY <1>3, <1>5, <1>6, <1>7 DEF TypeInv

LEMMA ApproveKept ==
  ASSUME MemoryAssumption, TypeInv, NEW c \in DOMAIN cands, NEW s \in Store, Approve(c, s)
  PROVE  TypeInv'
<1>1. PICK old \in profile[s] \union {NoItem} :
        /\ journal' = [journal EXCEPT ![c] =
             [store |-> s, item |-> NewItem(s, cands[c].sec, c), old |-> old]]
        /\ job' = [at |-> "profile", cid |-> c,
             j |-> [store |-> s, item |-> NewItem(s, cands[c].sec, c), old |-> old]]
  BY DEF Approve
<1> DEFINE item == NewItem(s, cands[c].sec, c)
           j == [store |-> s, item |-> item, old |-> old]
<1>2. TypeOK /\ IdsCounted
  BY DEF TypeInv
<1>3. c \in Cid /\ cands[c] \in Candidate /\ cands[c].sec \in Section
  <2>1. cands \in Seq(Candidate) /\ Len(cands) <= MaxCand /\ MaxCand \in Nat
    BY <1>2 DEF TypeOK, MemoryAssumption
  <2>2. cands[c] \in Candidate /\ c \in 1..Len(cands)
    BY <2>1
  <2> QED
    BY <2>1, <2>2 DEF Cid, Candidate
<1>4. born \in Nat /\ born < MaxItems /\ born' = born + 1 /\ MaxItems \in Nat
  BY <1>2 DEF Approve, TypeOK, MemoryAssumption
<1>5. /\ item \in Item /\ item # NoItem /\ item.cand = c /\ item.at = born + 1
      /\ item.id = NewId(s, cands[c].sec) /\ item.id.num <= born + 1
  <2>1. c \in {0} \union Cid
    BY <1>3
  <2> QED
    BY <1>2, <1>3, <1>4, <2>1, NewItemTyped
<1> HIDE DEF item
<1>i. PICK made : made = item
  OBVIOUS
<1>6. old \in Item \union {NoItem} /\ (old # NoItem => old \in profile[s])
  BY <1>2, Belongs
<1>7. j \in Journal
  BY <1>5, <1>6 DEF Journal
<1>8. journal' = [journal EXCEPT ![c] = j] /\ job' = [at |-> "profile", cid |-> c, j |-> j]
  BY <1>1 DEF item
<1>9. journal'[c] = j /\ \A d \in Cid : d # c => journal'[d] = journal[d]
  BY <1>2, <1>3, <1>8 DEF TypeOK
<1>10. TypeOK'
  <2>1. job' \in [at : Step, cid : {0} \union Cid, j : Journal]
    BY <1>3, <1>7, <1>8 DEF Step
  <2>2. born' \in 0..MaxItems
    BY <1>4
  <2>3. crossed' \subseteq Cid
    BY <1>2, <1>3 DEF TypeOK, Approve
  <2> QED
    BY <1>2, <1>7, <1>8, <2>1, <2>2, <2>3 DEF TypeOK, Approve
<1>11. JobSound'
  BY <1>3, <1>5, <1>8, <1>9, <1>4 DEF TypeInv, JobSound, At, Steps, Approve, Pending
<1>12. IdsCounted'
  <2>1. \A i \in Item : i.at \in Nat /\ i.id.num \in Nat
    BY DEF Item, Id
  <2>2. \A i \in Item : Older(i) => Counted(i)
    BY DEF Older
  <2>3. \A i \in Item : Counted(i) => Older(i)' /\ Counted(i)'
    BY <1>4, <2>1 DEF Older, Counted
  <2>4. Counted(made)'
    BY <1>4, <1>5, <1>i DEF Counted
  <2>5. \A p \in Store : profile'[p] = profile[p] /\ Records(p)' = Records(p)
    BY DEF Approve, Records
  <2>6. \A d \in Cid : journal[d].item \in Item \union {NoItem} /\ journal[d].old \in Item \union {NoItem}
    BY <1>2 DEF TypeOK, Journal
  <2>7. ASSUME NEW p \in Store
        PROVE  /\ \A i \in profile'[p] : Older(i)'
               /\ \A r \in Records(p)' : Older(r.item)'
    BY <1>2, <2>2, <2>3, <2>5, Belongs DEF IdsCounted
  <2>8. ASSUME NEW d \in Cid
        PROVE  /\ journal'[d].item # NoItem => Counted(journal[d].item)'
               /\ journal'[d].old # NoItem => Older(journal[d].old)'
    <3>1. CASE d = c
      <4>1. old # NoItem => Older(old)'
        BY <1>2, <1>6, <2>2, <2>3 DEF IdsCounted
      <4>2. journal'[d].item = made /\ journal'[d].old = old
        BY <1>9, <1>i, <3>1
      <4> QED
        BY <2>4, <4>1, <4>2 DEF Older, Counted
    <3>2. CASE d # c
      <4>1. journal'[d] = journal[d]
        BY <1>9, <3>2
      <4>2. journal[d].item # NoItem => Counted(journal[d].item) /\ journal[d].item \in Item
        BY <1>2, <2>6 DEF IdsCounted
      <4>3. journal[d].old # NoItem => Counted(journal[d].old) /\ journal[d].old \in Item
        BY <1>2, <2>2, <2>6 DEF IdsCounted
      <4> QED
        BY <2>3, <4>1, <4>2, <4>3 DEF Older, Counted
    <3> QED
      BY <3>1, <3>2
  <2> QED
    BY <2>7, <2>8 DEF IdsCounted
<1>13. IdFree'
  BY <1>2, <1>3, <1>5, <1>8, NewIdFresh DEF IdFree, At, Approve
<1>14. UniqueIds'
  BY DEF UniqueIds, TypeInv, Approve
<1> QED
  BY <1>10, <1>11, <1>12, <1>13, <1>14 DEF TypeInv

LEMMA ResumeKept ==
  ASSUME MemoryAssumption, TypeInv, NEW c \in DOMAIN cands, NEW s \in Store, Resume(c, s)
  PROVE  TypeInv' /\ c \in Cid /\ job'.j = journal[c] /\ job'.cid = c /\ job'.at = "archive"
<1>1. c \in Cid
  BY DEF TypeInv, TypeOK, MemoryAssumption, Cid
<1>2. job' = [at |-> "archive", cid |-> c, j |-> journal[c]] /\ journal[c].item # NoItem
  BY DEF Resume, Resumable
<1>3. TypeOK'
  <2>1. journal[c] \in Journal
    BY <1>1 DEF TypeInv, TypeOK
  <2> QED
    BY <1>1, <1>2, <2>1 DEF TypeInv, TypeOK, Resume, Step
<1>4. JobSound'
  BY <1>1, <1>2 DEF TypeInv, JobSound, At, Resume, Pending, Steps
<1>5. IdsCounted' /\ IdFree' /\ UniqueIds'
  BY <1>2 DEF TypeInv, IdsCounted, Older, Counted, Records, At, IdFree, UniqueIds, Resume
<1> QED
  BY <1>1, <1>2, <1>3, <1>4, <1>5 DEF TypeInv

\* What leaves IdsCounted as it is: no item made, and none that is not older.
LEMMA CountedKept ==
  ASSUME TypeInv, UNCHANGED born, job'.at # "profile",
         \A s \in Store : \A i \in profile'[s] : i \in profile[s] \/ Counted(i),
         \A s \in Store : \A r \in Records(s)' : r \in Records(s) \/ Counted(r.item),
         \A c \in Cid : journal'[c] \in {journal[c], NoJournal}
  PROVE  IdsCounted'
<1>1. \A i : Older(i) => Counted(i)
  BY DEF Older
<1>2. \A i : Counted(i) => Older(i)' /\ Counted(i)'
  BY DEF Older, Counted, At
<1> QED
  BY <1>1, <1>2, IdleTyped DEF TypeInv, IdsCounted

LEMMA WriteKept == ASSUME MemoryAssumption, TypeInv, WriteProfile PROVE TypeInv'
<1>1. TypeOK /\ JobSound /\ At("profile") /\ job.j.item # NoItem /\ job.j = journal[job.cid]
  BY DEF TypeInv, WriteProfile, JobSound, At
<1> DEFINE s == job.j.store
<1>2. s \in Store /\ job.j.item \in Item /\ job.cid \in Cid
  BY <1>1, JobTyped DEF At
<1>3. \A p \in Store : profile'[p] = IF p = s THEN NewProfile(job.j) ELSE profile[p]
  BY <1>1, <1>2 DEF WriteProfile, TypeOK
<1>4. NewProfile(job.j) \subseteq profile[s] \union {job.j.item}
  BY DEF NewProfile
<1>5. job'.at = "archive" /\ job'.cid = job.cid /\ job'.j = job.j
      /\ job' \in [at : Step, cid : {0} \union Cid, j : Journal]
  BY <1>1, ThenTyped DEF WriteProfile, Step
<1>6. TypeOK'
  <2>1. NewProfile(job.j) \in SUBSET Item
    BY <1>1, <1>2, <1>4, Belongs
  <2> QED
    BY <1>1, <1>5, <2>1 DEF WriteProfile, TypeOK
<1>7. JobSound'
  BY <1>1, <1>5 DEF JobSound, WriteProfile, At, Steps
<1>8. Counted(job.j.item)
  BY <1>1, <1>2 DEF TypeInv, IdsCounted
<1>9. IdsCounted'
  BY <1>3, <1>4, <1>5, <1>8, CountedKept DEF WriteProfile, Records
<1>10. IdFree' /\ UniqueIds'
  BY <1>1, <1>2, <1>3, <1>4, <1>5 DEF TypeInv, IdFree, UniqueIds, At
<1> QED
  BY <1>6, <1>7, <1>9, <1>10 DEF TypeInv

LEMMA ArchiveKept == ASSUME MemoryAssumption, TypeInv, AppendArchive PROVE TypeInv'
<1>1. TypeOK /\ JobSound /\ job.at = "archive" /\ job.j.item # NoItem /\ job.j = journal[job.cid]
  BY DEF TypeInv, AppendArchive, JobSound, At, Steps
<1> DEFINE s == job.j.store
           r == [item |-> job.j.old, by |-> job.j.item.id]
<1>2. s \in Store /\ job.j.item \in Item /\ job.cid \in Cid /\ job.j.old \in Item \union {NoItem}
  BY <1>1, JobTyped DEF Steps
<1>3. job'.at = "correction" /\ job'.cid = job.cid /\ job'.j = job.j
      /\ job' \in [at : Step, cid : {0} \union Cid, j : Journal]
  BY <1>1, ThenTyped DEF AppendArchive, Step
<1>4. \/ UNCHANGED archive
      \/ job.j.old \in Item /\ job.j.old # NoItem /\ archive' = [archive EXCEPT ![s] = Append(@, r)]
  BY <1>2 DEF AppendArchive
<1>5. archive' \in [Store -> Seq(Retired)] /\ \A p \in Store : Records(p)' \subseteq Records(p) \union {r}
      /\ (~UNCHANGED archive => job.j.old # NoItem)
  <2>1. CASE UNCHANGED archive
    BY <1>1, <2>1 DEF TypeOK, Records
  <2>2. CASE /\ job.j.old \in Item /\ job.j.old # NoItem
             /\ archive' = [archive EXCEPT ![s] = Append(@, r)]
    <3>1. r \in Retired
      BY <1>2, <2>2 DEF Retired, Item
    <3> HIDE DEF r, s
    <3>2. archive[s] \in Seq(Retired) /\ archive'[s] = Append(archive[s], r)
          /\ \A p \in Store : p # s => archive'[p] = archive[p]
      BY <1>1, <1>2, <2>2 DEF TypeOK, s
    <3>3. Append(archive[s], r) \in Seq(Retired)
      BY <3>1, <3>2, Append1
    <3>4. archive' \in [Store -> Seq(Retired)]
      BY <1>1, <2>2, <3>2, <3>3 DEF TypeOK
    <3>5. \A n \in DOMAIN archive'[s] :
             archive'[s][n] = r \/ (n \in DOMAIN archive[s] /\ archive'[s][n] = archive[s][n])
      BY <3>1, <3>2, Append1
    <3> QED
      BY <2>2, <3>2, <3>4, <3>5 DEF Records
  <2> QED
    BY <1>4, <2>1, <2>2
<1>6. TypeOK'
  BY <1>1, <1>3, <1>5 DEF AppendArchive, TypeOK
<1>7. JobSound'
  BY <1>1, <1>3 DEF JobSound, AppendArchive, At, Steps
<1>8. job.j.old # NoItem => Counted(job.j.old)
  BY <1>1, <1>2 DEF TypeInv, IdsCounted, Older
<1>9. IdsCounted'
  <2>1. \A p \in Store : \A q \in Records(p)' : q \in Records(p) \/ Counted(q.item)
    BY <1>5, <1>8 DEF Records
  <2> QED
    BY <1>3, <2>1, CountedKept DEF AppendArchive
<1>10. IdFree' /\ UniqueIds'
  BY <1>3 DEF TypeInv, IdFree, UniqueIds, At, AppendArchive
<1> QED
  BY <1>6, <1>7, <1>9, <1>10 DEF TypeInv

\* A step that leaves the files of the stores and the journals alone.
LEMMA FilesKept ==
  ASSUME TypeInv, UNCHANGED <<profile, archive, journal, born>>, job'.at # "profile"
  PROVE  IdsCounted' /\ IdFree' /\ UniqueIds'
<1>1. \A s \in Store : Records(s)' = Records(s)
  BY DEF Records
<1> QED
  BY <1>1, CountedKept DEF TypeInv, IdFree, UniqueIds, At

LEMMA LogOnceTyped ==
  ASSUME TypeInv, job.at \in Steps, NEW kind \in {"approval", "correction"},
         LogOnce(kind) \/ UNCHANGED events
  PROVE  events' \in Seq(Event)
<1>1. TypeOK /\ JobSound
  BY DEF TypeInv
<1>2. job.j.item \in Item /\ job.cid \in {0} \union Cid
  BY <1>1, JobTyped
<1>3. job.j.item.id \in Id \union {NoId}
  BY <1>2 DEF Item
<1> QED
  BY <1>1, <1>2, <1>3, LogTyped DEF LogOnce

LEMMA CorrectionKept == ASSUME MemoryAssumption, TypeInv, RecordCorrection PROVE TypeInv'
<1>1. TypeOK /\ JobSound /\ job.at = "correction"
  BY DEF TypeInv, RecordCorrection, At
<1>2. job'.at = "status" /\ job'.cid = job.cid /\ job'.j = job.j
      /\ job' \in [at : Step, cid : {0} \union Cid, j : Journal]
  BY <1>1, ThenTyped DEF RecordCorrection, Step
<1>3. job.j.old \in Item \union {NoItem}
  BY <1>1, JobTyped
<1>4. events' \in Seq(Event)
  BY <1>1, <1>3, LogOnceTyped DEF RecordCorrection, Steps
<1>5. TypeOK'
  BY <1>1, <1>2, <1>4 DEF TypeOK, RecordCorrection
<1>6. JobSound'
  BY <1>1, <1>2 DEF JobSound, RecordCorrection, At, Steps
<1> QED
  BY <1>2, <1>5, <1>6, FilesKept DEF RecordCorrection, TypeInv

LEMMA MarkKept == ASSUME MemoryAssumption, TypeInv, MarkApproved PROVE TypeInv'
<1>1. TypeOK /\ JobSound /\ job.at = "status" /\ job.cid \in DOMAIN cands
  BY DEF TypeInv, MarkApproved, JobSound, Steps, At
<1>2. job'.at = "approval" /\ job'.cid = job.cid /\ job'.j = job.j
      /\ job' \in [at : Step, cid : {0} \union Cid, j : Journal]
  BY <1>1, ThenTyped DEF MarkApproved, Step
<1>3. cands' \in Seq(Candidate) /\ Len(cands') = Len(cands) /\ DOMAIN cands' = DOMAIN cands
  BY <1>1, DecideTyped DEF MarkApproved
<1>4. TypeOK'
  BY <1>1, <1>2, <1>3 DEF TypeOK, MarkApproved
<1>5. JobSound'
  BY <1>1, <1>2, <1>3 DEF JobSound, MarkApproved, At, Steps
<1> QED
  BY <1>2, <1>4, <1>5, FilesKept DEF MarkApproved, TypeInv

LEMMA ApprovalKept == ASSUME MemoryAssumption, TypeInv, RecordApproval PROVE TypeInv'
<1>1. TypeOK /\ JobSound /\ job.at = "approval"
  BY DEF TypeInv, RecordApproval, At
<1>2. job'.at = "unlink" /\ job'.cid = job.cid /\ job'.j = job.j
      /\ job' \in [at : Step, cid : {0} \union Cid, j : Journal]
  BY <1>1, ThenTyped DEF RecordApproval, Step
<1>4. events' \in Seq(Event)
  BY <1>1, LogOnceTyped DEF RecordApproval, Steps
<1>5. TypeOK'
  BY <1>1, <1>2, <1>4 DEF TypeOK, RecordApproval
<1>6. JobSound'
  BY <1>1, <1>2 DEF JobSound, RecordApproval, At, Steps
<1> QED
  BY <1>2, <1>5, <1>6, FilesKept DEF RecordApproval, TypeInv

LEMMA RemoveKept == ASSUME MemoryAssumption, TypeInv, RemoveJournal PROVE TypeInv'
<1>1. TypeOK /\ JobSound /\ job.at = "unlink" /\ job.cid \in Cid
  BY JobTyped DEF TypeInv, RemoveJournal, At, Steps
<1>2. \A c \in Cid : journal'[c] = IF c = job.cid THEN NoJournal ELSE journal[c]
  BY <1>1 DEF RemoveJournal, TypeOK
<1>3. TypeOK'
  BY <1>1, IdleTyped DEF TypeOK, RemoveJournal
<1>4. JobSound'
  BY <1>1, <1>2, IdleTyped DEF JobSound, RemoveJournal, At, Steps
<1>5. IdsCounted'
  BY <1>2, IdleTyped, CountedKept DEF RemoveJournal, Records
<1> QED
  BY <1>3, <1>4, <1>5, IdleTyped DEF RemoveJournal, TypeInv, IdFree, UniqueIds, At

\* remember() adds an item under a fresh id, like an approval.
LEMMA RememberKept ==
  ASSUME MemoryAssumption, TypeInv, NEW s \in Store, NEW sec \in Section, Remember(s, sec)
  PROVE  TypeInv'
<1> DEFINE item == NewItem(s, sec, 0)
<1>1. TypeOK /\ IdsCounted
  BY DEF TypeInv
<1>2. born \in Nat /\ born < MaxItems /\ born' = born + 1 /\ MaxItems \in Nat
  BY <1>1 DEF Remember, TypeOK, MemoryAssumption
<1>3. /\ item \in Item /\ item # NoItem /\ item.at = born + 1
      /\ item.id = NewId(s, sec) /\ item.id.num <= born + 1
  BY <1>1, <1>2, NewItemTyped
<1>4. /\ profile' = [profile EXCEPT ![s] = @ \union {item}]
      /\ job' = [at |-> "remembered", cid |-> 0, j |-> [store |-> s, item |-> item, old |-> NoItem]]
  BY DEF Remember
<1> HIDE DEF item
<1>i. PICK made : made = item
  OBVIOUS
<1>5. TypeOK'
  <2>1. [store |-> s, item |-> made, old |-> NoItem] \in Journal
    BY <1>3, <1>i DEF Journal
  <2>2. job' \in [at : Step, cid : {0} \union Cid, j : Journal]
    BY <1>4, <1>i, <2>1 DEF Step
  <2>3. born' \in 0..MaxItems
    BY <1>2
  <2> QED
    BY <1>1, <1>3, <1>4, <2>2, <2>3 DEF TypeOK, Remember
<1>6. JobSound'
  BY <1>3, <1>4 DEF TypeInv, JobSound, At, Steps, Remember
<1>7. IdsCounted'
  <2>1. \A i \in Item : i.at \in Nat /\ i.id.num \in Nat
    BY DEF Item, Id
  <2>2. \A i \in Item : Older(i) \/ Counted(i) => Older(i)' /\ Counted(i)'
    BY <1>2, <1>4, <2>1 DEF Older, Counted, At
  <2>3. Older(made)'
    BY <1>2, <1>3, <1>4, <1>i DEF Counted, Older, At
  <2>4. \A p \in Store : profile'[p] \subseteq profile[p] \union {made} /\ Records(p)' = Records(p)
    BY <1>1, <1>4, <1>i DEF Remember, Records, TypeOK
  <2>5. ASSUME NEW p \in Store
        PROVE  /\ \A i \in profile'[p] : Older(i)'
               /\ \A r \in Records(p)' : Older(r.item)'
    BY <1>1, <2>2, <2>3, <2>4, Belongs DEF IdsCounted
  <2>6. ASSUME NEW d \in Cid
        PROVE  /\ journal'[d].item # NoItem => Counted(journal[d].item)'
               /\ journal'[d].old # NoItem => Older(journal[d].old)'
    <3>1. journal'[d] = journal[d] /\ journal[d] \in Journal
      BY <1>1 DEF Remember, TypeOK
    <3>2. journal[d].item # NoItem => Counted(journal[d].item) /\ journal[d].item \in Item
      BY <1>1, <3>1 DEF IdsCounted, Journal
    <3>3. journal[d].old # NoItem => Older(journal[d].old) /\ journal[d].old \in Item
      BY <1>1, <3>1 DEF IdsCounted, Journal
    <3> QED
      BY <2>2, <3>1, <3>2, <3>3 DEF Older, Counted
  <2> QED
    BY <2>5, <2>6 DEF IdsCounted
<1>8. IdFree'
  BY <1>4 DEF IdFree, At
<1>9. UniqueIds'
  <2>1. \A p \in Store : profile'[p] = IF p = s THEN profile[s] \union {made} ELSE profile[p]
    BY <1>1, <1>4, <1>i DEF TypeOK
  <2>2. \A i \in profile[s] : i.id # made.id
    BY <1>1, <1>3, <1>i, NewIdFresh
  <2> QED
    BY <2>1, <2>2 DEF UniqueIds, TypeInv
<1> QED
  BY <1>5, <1>6, <1>7, <1>8, <1>9 DEF TypeInv

LEMMA RememberedKept == ASSUME MemoryAssumption, TypeInv, RecordRemembered PROVE TypeInv'
<1>1. TypeOK /\ JobSound /\ job.j.item \in Item
  BY JobTyped DEF TypeInv, RecordRemembered
<1>2. events' \in Seq(Event)
  BY <1>1, LogTyped DEF RecordRemembered, Item
<1>3. TypeOK'
  BY <1>1, <1>2, IdleTyped DEF TypeOK, RecordRemembered
<1>4. JobSound'
  BY <1>1, IdleTyped DEF JobSound, RecordRemembered, At, Steps
<1> QED
  BY <1>3, <1>4, IdleTyped, FilesKept DEF RecordRemembered, TypeInv

LEMMA RejectKept ==
  ASSUME MemoryAssumption, TypeInv, NEW c \in DOMAIN cands, Reject(c)
  PROVE  TypeInv'
<1>1. TypeOK /\ JobSound /\ c \in {0} \union Cid
  BY DEF TypeInv, TypeOK, MemoryAssumption, Cid
<1>2. cands' \in Seq(Candidate) /\ Len(cands') = Len(cands) /\ DOMAIN cands' = DOMAIN cands
  BY <1>1, DecideTyped DEF Reject
<1>3. job' = [at |-> "rejected", cid |-> c, j |-> NoJournal]
  BY DEF Reject, Idle
<1>4. TypeOK'
  BY <1>1, <1>2, <1>3, IdleTyped DEF TypeOK, Reject, Step
<1>5. JobSound'
  BY <1>1, <1>2, <1>3 DEF JobSound, Reject, At, Steps
<1> QED
  BY <1>3, <1>4, <1>5, FilesKept DEF Reject, TypeInv

LEMMA RejectedKept == ASSUME MemoryAssumption, TypeInv, RecordRejection PROVE TypeInv'
<1>1. TypeOK /\ JobSound /\ job.cid \in {0} \union Cid
  BY JobTyped DEF TypeInv
<1>2. events' \in Seq(Event)
  BY <1>1, LogTyped DEF RecordRejection
<1>3. TypeOK'
  BY <1>1, <1>2, IdleTyped DEF TypeOK, RecordRejection
<1>4. JobSound'
  BY <1>1, IdleTyped DEF JobSound, RecordRejection, At, Steps
<1> QED
  BY <1>3, <1>4, IdleTyped, FilesKept DEF RecordRejection, TypeInv

LEMMA CrashKept == ASSUME MemoryAssumption, TypeInv, Crash PROVE TypeInv'
<1>1. TypeOK /\ JobSound
  BY DEF TypeInv
<1>2. crashes' \in 0..MaxCrashes
  BY <1>1 DEF Crash, TypeOK, MemoryAssumption
<1>3. TypeOK'
  BY <1>1, <1>2, IdleTyped DEF TypeOK, Crash
<1>4. JobSound'
  BY <1>1, IdleTyped DEF JobSound, Crash, At, Steps
<1> QED
  BY <1>3, <1>4, IdleTyped, FilesKept DEF Crash, TypeInv

LEMMA StutterKept == ASSUME TypeInv, UNCHANGED vars PROVE TypeInv'
<1> USE DEF vars
<1>1. TypeOK'
  BY DEF TypeInv, TypeOK
<1>2. JobSound'
  BY DEF TypeInv, JobSound, At, Pending
<1>3. IdsCounted'
  BY DEF TypeInv, IdsCounted, Older, Counted, Records, At
<1> QED
  BY <1>1, <1>2, <1>3 DEF TypeInv, IdFree, UniqueIds, At

LEMMA TypeStep == ASSUME MemoryAssumption, TypeInv, [Next]_vars PROVE TypeInv'
<1>1. CASE \E t \in Text, sec \in Section : AddCandidate(t, sec)
  BY <1>1, AddKept
<1>2. CASE \E c \in DOMAIN cands : Reject(c)
  BY <1>2, RejectKept
<1>3. CASE \E c \in DOMAIN cands : \E s \in Store : Approve(c, s)
  BY <1>3, ApproveKept
<1>4. CASE \E c \in DOMAIN cands : \E s \in Store : Resume(c, s)
  BY <1>4, ResumeKept
<1>5. CASE \E s \in Store, sec \in Section : Remember(s, sec)
  BY <1>5, RememberKept
<1>6. CASE \/ WriteProfile \/ AppendArchive \/ RecordCorrection \/ MarkApproved
           \/ RecordApproval \/ RemoveJournal \/ RecordRemembered \/ RecordRejection \/ Crash
  BY <1>6, WriteKept, ArchiveKept, CorrectionKept, MarkKept, ApprovalKept, RemoveKept,
     RememberedKept, RejectedKept, CrashKept
<1>7. CASE UNCHANGED vars
  BY <1>7, StutterKept
<1> QED
  BY <1>1, <1>2, <1>3, <1>4, <1>5, <1>6, <1>7 DEF Next

\* Whatever dies where and whichever store an approval is retried in, every file of
\* the memory (src/plugins/kiseki-da/core/ctx/store.py) keeps its shape, ...
THEOREM MemoryTypeCorrect == Spec => []TypeOK
<1>1. MemoryAssumption
  BY MemoryAssumption
<1>2. Init => TypeInv
  BY <1>1, InitTyped
<1>3. TypeInv /\ [Next]_vars => TypeInv'
  BY <1>1, TypeStep
<1>4. TypeInv => TypeOK
  BY DEF TypeInv
<1> QED
  BY <1>2, <1>3, <1>4, PTL DEF Spec

\* ... and no two live items of a store ever have the same id, although numbers are
\* counted anew from what is live and archived (store.py:312-328).
THEOREM IdsStayUnique == Spec => []UniqueIds
<1>1. MemoryAssumption
  BY MemoryAssumption
<1>2. Init => TypeInv
  BY <1>1, InitTyped
<1>3. TypeInv /\ [Next]_vars => TypeInv'
  BY <1>1, TypeStep
<1>4. TypeInv => UniqueIds
  BY DEF TypeInv
<1> QED
  BY <1>2, <1>3, <1>4, PTL DEF Spec

----------------------------------------------------------------------------
(* An approval ends as it says, however often and wherever it is retried. *)

LiveOnce == ArchiveHonest /\ MemoryOnce

LEMMA Parts ==
  /\ MemoryInv <=> /\ TypeInv /\ ItemTracked /\ Named /\ OldGone /\ NoneYet /\ Done /\ OnlyOnce
                   /\ LiveOnce
  /\ MemoryInv => TypeOK /\ JobSound /\ IdsCounted
BY DEF MemoryInv, TypeInv, LiveOnce

LEMMA PartsNext ==
  ASSUME TypeInv', ItemTracked', Named', OldGone', NoneYet', Done', OnlyOnce', LiveOnce'
  PROVE  MemoryInv'
BY DEF MemoryInv, LiveOnce

LEMMA InitInv == MemoryAssumption /\ Init => MemoryInv
<1> SUFFICES ASSUME MemoryAssumption, Init PROVE MemoryInv
  OBVIOUS
<1>1. TypeInv
  BY InitTyped
<1>2. ItemTracked /\ Named /\ OldGone /\ NoneYet /\ Done
  BY IdleTyped DEF Init, ItemTracked, Named, OldGone, NoneYet, Done, At, Steps, Store
<1>3. OnlyOnce /\ LiveOnce
  BY DEF Init, OnlyOnce, LiveOnce, ArchiveHonest, MemoryOnce, Live, Records, Store
<1> QED
  BY <1>1, <1>2, <1>3, Parts

LEMMA FilesStay ==
  ASSUME MemoryInv, UNCHANGED <<profile, archive>>, crossed \subseteq crossed', astray \subseteq astray'
  PROVE  LiveOnce'
<1>1. ArchiveHonest'
  <2>1. \A s \in Store : Records(s)' = Records(s)
    BY DEF Records
  <2> QED
    BY <2>1 DEF MemoryInv, ArchiveHonest
<1>2. MemoryOnce'
  BY DEF MemoryInv, MemoryOnce, Live, Twice
<1> QED
  BY <1>1, <1>2 DEF LiveOnce

LEMMA StoresStay == ASSUME MemoryInv, UNCHANGED <<profile, journal>> PROVE OldGone' /\ Named'
BY DEF MemoryInv, OldGone, Named

LEMMA LogStays == ASSUME MemoryInv, UNCHANGED <<events, archive>> PROVE OnlyOnce'
BY DEF MemoryInv, OnlyOnce, Says

LEMMA CandsStay ==
  ASSUME MemoryInv, UNCHANGED <<profile, journal>>, DOMAIN cands \subseteq DOMAIN cands',
         crossed \subseteq crossed', \A c \in DOMAIN cands : cands'[c] = cands[c]
  PROVE  ItemTracked'
BY DEF MemoryInv, ItemTracked

\* An item that a store holds is the one the candidate's journal names, unless the
\* approval was begun anew elsewhere.
LEMMA LiveIsJournalled ==
  ASSUME MemoryInv, NEW s \in Store, NEW i \in profile[s], NEW c \in Cid, i.cand = c,
         cands[c].status # "rejected", cands[c].status = "approved" => journal[c].item # NoItem,
         c \notin crossed
  PROVE  journal[c].item = i /\ journal[c].store = s /\ i # NoItem
<1>1. c # 0 /\ i \in Item
  BY Belongs, Parts DEF Cid
<1>2. i # NoItem
  BY <1>1, MemoryAssumption DEF MemoryAssumption
<1> QED
  BY <1>1, <1>2 DEF MemoryInv, ItemTracked

\* A new approval of a candidate starts with no live item of it, unless an unfinished
\* one was begun in the other store, now or before.
LEMMA NoLiveItem ==
  ASSUME MemoryInv, NEW c \in Cid, NEW s \in Store, Approve(c, s), c \notin crossed'
  PROVE  \A p \in Store : \A i \in profile[p] : i.cand # c
<1> SUFFICES ASSUME NEW p \in Store, NEW i \in profile[p], i.cand = c PROVE FALSE
  OBVIOUS
<1>1. cands[c].status = "pending" /\ ~Resumable(c, s) /\ c \notin crossed
      /\ (journal[c].item = NoItem \/ journal[c].store = s)
  BY DEF Approve, Pending
<1>2. journal[c].item = i /\ journal[c].store = p /\ i # NoItem
  BY <1>1, LiveIsJournalled
<1>3. p = s
  BY <1>1, <1>2
<1> QED
  BY <1>1, <1>2, <1>3 DEF Resumable

LEMMA AddInv ==
  ASSUME MemoryAssumption, MemoryInv, NEW t \in Text, NEW sec \in Section, AddCandidate(t, sec)
  PROVE  MemoryInv'
<1>1. TypeInv' /\ DOMAIN cands \subseteq DOMAIN cands' /\ \A c \in DOMAIN cands : cands'[c] = cands[c]
  BY AddKept, Parts
<1>2. ItemTracked' /\ Named' /\ OldGone' /\ OnlyOnce' /\ LiveOnce'
  BY <1>1, FilesStay, StoresStay, LogStays, CandsStay DEF AddCandidate
<1>3. NoneYet'
  BY DEF AddCandidate, MemoryInv, NoneYet, At
<1>4. Done'
  <2>1. job.at \in Steps => job.cid \in DOMAIN cands
    BY Parts, JobTyped
  <2> QED
    BY <1>1, <2>1 DEF AddCandidate, MemoryInv, Done, At, Archived, Happened, Says, Records, Steps
<1> QED
  BY <1>1, <1>2, <1>3, <1>4, PartsNext

LEMMA ApproveInv ==
  ASSUME MemoryAssumption, MemoryInv, NEW c \in DOMAIN cands, NEW s \in Store, Approve(c, s)
  PROVE  MemoryInv'
<1>1. TypeInv'
  BY ApproveKept, Parts
<1>2. c \in Cid /\ cands[c].sec \in Section
  <2>1. cands \in Seq(Candidate) /\ Len(cands) <= MaxCand /\ MaxCand \in Nat
    BY Parts DEF TypeOK, MemoryAssumption
  <2>2. cands[c] \in Candidate /\ c \in 1..Len(cands)
    BY <2>1
  <2> QED
    BY <2>1, <2>2 DEF Cid, Candidate
<1>3. c \notin crossed' => \A p \in Store : \A i \in profile[p] : i.cand # c
  BY <1>2, NoLiveItem
<1>c. crossed \subseteq crossed' /\ astray' = astray
  BY DEF Approve
<1>4. PICK old, made :
        /\ old \in profile[s] \union {NoItem}
        /\ made = NewItem(s, cands[c].sec, c)
        /\ journal' = [journal EXCEPT ![c] = [store |-> s, item |-> made, old |-> old]]
        /\ job' = [at |-> "profile", cid |-> c, j |-> [store |-> s, item |-> made, old |-> old]]
  BY DEF Approve
<1>5. \A d \in Cid : journal'[d] = IF d = c THEN [store |-> s, item |-> made, old |-> old]
                                           ELSE journal[d]
  BY <1>2, <1>4, Parts DEF TypeOK
<1>6. ItemTracked'
  <2> SUFFICES ASSUME NEW p \in Store, NEW i \in profile[p], i.cand # 0
               PROVE  /\ i.cand \in DOMAIN cands
                      /\ \/ cands[i.cand].status = "rejected"
                         \/ cands[i.cand].status = "approved" /\ journal'[i.cand].item = NoItem
                         \/ i.cand \in crossed'
                         \/ journal'[i.cand].item = i /\ journal'[i.cand].store = p
    BY DEF ItemTracked, Approve
  <2>1. \A d \in DOMAIN cands : d \in Cid
    BY Parts DEF TypeOK, MemoryAssumption, Cid
  <2> QED
    BY <1>3, <1>5, <1>c, <2>1 DEF MemoryInv, ItemTracked
<1>7. made \notin profile[s]
  BY <1>2, <1>4, NewIdFresh, Parts DEF NewItem
<1>8. OldGone'
  BY <1>5, <1>7, Parts DEF MemoryInv, OldGone, Approve
<1>n. Named'
  BY <1>2, <1>4, <1>5, NewIdFresh, Parts DEF MemoryInv, Named, Approve, NewItem
<1>9. NoneYet' /\ Done'
  BY <1>3, <1>4 DEF NoneYet, Done, At, Steps, Approve
<1>10. OnlyOnce' /\ LiveOnce'
  BY <1>c, FilesStay, LogStays DEF Approve
<1> QED
  BY <1>1, <1>6, <1>8, <1>n, <1>9, <1>10, PartsNext

LEMMA ResumeInv ==
  ASSUME MemoryAssumption, MemoryInv, NEW c \in DOMAIN cands, NEW s \in Store, Resume(c, s)
  PROVE  MemoryInv'
<1>1. TypeInv' /\ c \in Cid /\ job'.j = journal[c] /\ job'.cid = c /\ job'.at = "archive"
  BY ResumeKept, Parts
<1>2. journal[c].item # NoItem /\ cands[c].status # "rejected"
  BY DEF Resume, Resumable
<1>3. journal[c].item \in profile[journal[c].store] \/ journal[c] \in astray'
  <2>1. PICK i \in profile[s] : i.id = journal[c].item.id /\ i.cand = c
    BY DEF Resume, Resumable
  <2>2. CASE journal[c].store # s
    BY <2>2 DEF Resume
  <2>3. CASE journal[c].store = s
    BY <1>1, <1>2, <2>1, <2>3 DEF MemoryInv, Named
  <2> QED
    BY <2>2, <2>3
<1>4. ItemTracked' /\ Named' /\ OldGone' /\ OnlyOnce' /\ LiveOnce'
  BY FilesStay, StoresStay, LogStays, CandsStay DEF Resume
<1>5. NoneYet' /\ Done'
  BY <1>1, <1>2, <1>3 DEF NoneYet, Done, At, Steps, Resume
<1> QED
  BY <1>1, <1>4, <1>5, PartsNext

\* The new item is newer than everything that was live, archived or replaced.
LEMMA WriteInv == ASSUME MemoryAssumption, MemoryInv, WriteProfile PROVE MemoryInv'
<1> DEFINE s == job.j.store
           c == job.cid
           new == job.j.item
           old == job.j.old
<1>1. TypeInv'
  BY WriteKept, Parts
<1>2. /\ job.at = "profile" /\ s \in Store /\ new \in Item /\ c \in Cid /\ c \in DOMAIN cands
      /\ job.j = journal[c] /\ cands[c].status = "pending" /\ new.at = born /\ new.cand = c
      /\ new # NoItem /\ c # 0
  BY JobTyped, Parts DEF WriteProfile, At, JobSound, Pending, Cid
<1>3. /\ \A p \in Store : \A i \in profile[p] : i.at < born
      /\ \A p \in Store : \A r \in Records(p) : r.item.at < born
      /\ \A d \in Cid : journal[d].old # NoItem => journal[d].old.at < born
  BY <1>2, Parts DEF IdsCounted, Older, At
<1>4. born \in Nat
  BY Parts DEF TypeOK
<1>5. \A p \in Store : profile'[p] = IF p = s THEN NewProfile(job.j) ELSE profile[p]
  BY <1>2, Parts DEF WriteProfile, TypeOK
<1>6. /\ NewProfile(job.j) \subseteq profile[s] \union {new}
      /\ old # NoItem => \A i \in NewProfile(job.j) : i.id # old.id \/ i = new
      /\ new \in NewProfile(job.j)
  BY DEF NewProfile
<1>7. job'.at = "archive" /\ job'.cid = c /\ job'.j = job.j
  BY Parts, ThenTyped DEF WriteProfile, Step
<1>8. c \notin crossed => \A p \in Store : \A i \in profile[p] : i.cand # c
  BY <1>2 DEF MemoryInv, NoneYet, At
<1>c. crossed' = crossed /\ astray' = astray
  BY DEF WriteProfile
<1>9. ItemTracked'
  <2> SUFFICES ASSUME NEW p \in Store, NEW i \in profile'[p], i.cand # 0
               PROVE  /\ i.cand \in DOMAIN cands
                      /\ \/ cands[i.cand].status = "rejected"
                         \/ cands[i.cand].status = "approved" /\ journal[i.cand].item = NoItem
                         \/ i.cand \in crossed
                         \/ journal[i.cand].item = i /\ journal[i.cand].store = p
    BY DEF ItemTracked, WriteProfile
  <2>1. CASE i \in profile[p]
    BY <2>1 DEF MemoryInv, ItemTracked
  <2>2. CASE i \notin profile[p]
    <3>1. p = s /\ i = new
      BY <1>5, <1>6, <2>2
    <3> QED
      BY <1>2, <3>1
  <2> QED
    BY <2>1, <2>2
<1>10. OldGone'
  <2> SUFFICES ASSUME NEW d \in Cid, journal[d].item # NoItem,
                      journal[d].item \in profile'[journal[d].store],
                      journal[d].old \in profile'[journal[d].store]
               PROVE  FALSE
    BY DEF OldGone, WriteProfile
  <2>1. journal[d] \in Journal /\ journal[d].store \in Store /\ journal[d].item.cand = d
    BY Parts DEF TypeOK, Journal, JobSound
  <2>2. profile'[journal[d].store] \subseteq Item
    BY <1>1, <2>1 DEF TypeInv, TypeOK
  <2>3. journal[d].old # NoItem /\ journal[d].old.at < born /\ journal[d].old # new
    BY <1>2, <1>3, <1>4, <2>2 DEF MemoryAssumption
  <2>4. CASE d = c
    BY <1>2, <1>5, <1>6, <2>1, <2>3, <2>4
  <2>5. CASE d # c
    <3>1. journal[d].item # new
      BY <1>2, <2>1, <2>5
    <3>2. journal[d].item \in profile[journal[d].store] /\ journal[d].old \in profile[journal[d].store]
      BY <1>5, <1>6, <2>1, <2>3, <3>1
    <3> QED
      BY <3>2 DEF MemoryInv, OldGone
  <2> QED
    BY <2>4, <2>5
<1>n. Named'
  <2> SUFFICES ASSUME NEW d \in Cid, journal[d].item # NoItem, NEW i \in profile'[journal[d].store],
                      i.id = journal[d].item.id, i.cand = d
               PROVE  i = journal[d].item
    BY DEF Named, WriteProfile
  <2>1. journal[d].store \in Store
    BY Parts DEF TypeOK, Journal
  <2>2. CASE i \in profile[journal[d].store]
    BY <2>2 DEF MemoryInv, Named
  <2>3. CASE i \notin profile[journal[d].store]
    BY <1>2, <1>5, <1>6, <2>1, <2>3
  <2> QED
    BY <2>2, <2>3
<1>11. NoneYet' /\ Done'
  BY <1>2, <1>5, <1>6, <1>7 DEF NoneYet, Done, At, Steps, WriteProfile
<1>12. OnlyOnce'
  BY LogStays DEF WriteProfile
<1>13. LiveOnce'
  <2>1. ArchiveHonest'
    <3>1. \A p \in Store : Records(p)' = Records(p) /\ \A r \in Records(p) : r.item # new
      BY <1>2, <1>3, <1>4 DEF WriteProfile, Records
    <3> QED
      BY <1>5, <1>6, <1>c, <3>1 DEF ArchiveHonest, MemoryInv
  <2>2. MemoryOnce'
    <3>1. Live' \subseteq Live \union {new}
      BY <1>2, <1>5, <1>6 DEF Live, Store
    <3>2. c \notin crossed => \A i \in Live : i.cand # c
      BY <1>8 DEF Live, Store
    <3> QED
      BY <1>2, <1>c, <3>1, <3>2 DEF MemoryOnce, MemoryInv, Twice
  <2> QED
    BY <2>1, <2>2 DEF LiveOnce
<1> QED
  BY <1>1, <1>9, <1>10, <1>n, <1>11, <1>12, <1>13, PartsNext

\* Only the steps that end an approval touch what Done says.
LEMMA ArchiveInv == ASSUME MemoryAssumption, MemoryInv, AppendArchive PROVE MemoryInv'
<1>0. job.j.store \in Store
  BY Parts, JobTyped
<1>s. PICK s \in Store : s = job.j.store
  BY <1>0
<1> DEFINE new == job.j.item
           old == job.j.old
           r == [item |-> old, by |-> new.id]
<1>1. TypeInv'
  BY ArchiveKept, Parts
<1>2. /\ job.at = "archive" /\ s \in Store /\ job.j = journal[job.cid] /\ job.cid \in Cid
      /\ new # NoItem /\ (new \in profile[s] \/ job.j \in astray)
      /\ cands[job.cid].status # "rejected"
  BY <1>s, JobTyped, Parts DEF AppendArchive, At, JobSound, Steps, MemoryInv, Done
<1>3. job'.at = "correction" /\ job'.cid = job.cid /\ job'.j = job.j
  BY Parts, ThenTyped DEF AppendArchive, Step
<1>4. old \in profile[s] => job.j \in astray
  BY <1>s, <1>2 DEF MemoryInv, OldGone
<1>5. CASE old = NoItem \/ Archived(job.j)
  <2>1. UNCHANGED archive
    BY <1>5 DEF AppendArchive
  <2>2. ItemTracked' /\ Named' /\ OldGone' /\ OnlyOnce' /\ LiveOnce'
    BY <2>1, FilesStay, StoresStay, LogStays, CandsStay DEF AppendArchive
  <2>3. NoneYet' /\ Done'
    BY <1>s, <1>2, <1>3, <1>5, <2>1 DEF NoneYet, Done, At, Steps, AppendArchive, Archived, Records
  <2> QED
    BY <1>1, <2>2, <2>3, PartsNext
<1>6. CASE old # NoItem /\ ~Archived(job.j)
  <2>1. archive' = [archive EXCEPT ![s] = Append(@, r)]
    BY <1>s, <1>6 DEF AppendArchive
  <2>2. old \in Item
    BY <1>6, Parts, JobTyped
  <2>3. r \in Retired /\ r.item = old /\ r.by = new.id
    BY <1>2, <2>2, Parts, JobTyped DEF Retired, Item, Steps
  <2>4. PICK rec \in Retired : rec = r
    BY <2>3
  <2>5. PICK q \in Seq(Retired) : q = archive[s]
    BY <1>2, Parts DEF TypeOK
  <2>6. /\ \A p \in Store : p # s => archive'[p] = archive[p]
        /\ archive'[s] = Append(q, rec)
    BY <1>2, <2>1, <2>4, <2>5, Parts DEF TypeOK
  <2>7. /\ DOMAIN archive'[s] = DOMAIN q \union {Len(q) + 1}
        /\ \A n \in DOMAIN q : archive'[s][n] = q[n]
        /\ archive'[s][Len(q) + 1] = rec
    BY <2>6, Append1
  <2>8. Records(s)' = Records(s) \union {rec} /\ \A p \in Store : p # s => Records(p)' = Records(p)
    BY <2>5, <2>6, <2>7 DEF Records
  <2>9. ItemTracked' /\ Named' /\ OldGone'
    BY StoresStay, CandsStay DEF AppendArchive
  <2>10. NoneYet' /\ Done'
    BY <1>2, <1>3, <2>3, <2>4, <2>8, <1>s DEF NoneYet, Done, At, Steps, AppendArchive, Archived
  <2>11. OnlyOnce'
    <3>1. \A n \in DOMAIN q : ~(q[n].item.id = rec.item.id /\ q[n].by = rec.by)
      BY <1>s, <1>6, <2>3, <2>4, <2>5 DEF Archived, Records
    <3>2. ASSUME NEW p \in Store, NEW n \in DOMAIN archive'[p], NEW m \in DOMAIN archive'[p],
                 archive'[p][n].item.id = archive'[p][m].item.id, archive'[p][n].by = archive'[p][m].by
          PROVE  n = m
      <4>1. CASE p # s
        BY <2>6, <3>2, <4>1 DEF MemoryInv, OnlyOnce
      <4>2. CASE p = s
        <5>1. n \in DOMAIN q /\ m \in DOMAIN q => n = m
          BY <1>2, <2>5, <2>7, <3>2, <4>2 DEF MemoryInv, OnlyOnce
        <5> QED
          BY <2>7, <3>1, <3>2, <4>2, <5>1
      <4> QED
        BY <4>1, <4>2
    <3> QED
      BY <3>2 DEF OnlyOnce, MemoryInv, AppendArchive, Says
  <2>12. LiveOnce'
    <3>1. profile' = profile /\ crossed' = crossed /\ astray' = astray
      BY DEF AppendArchive
    <3>2. ArchiveHonest'
      BY <1>s, <1>4, <2>3, <2>4, <2>8, <3>1 DEF MemoryInv, ArchiveHonest
    <3>3. MemoryOnce'
      BY <3>1 DEF MemoryInv, MemoryOnce, Live
    <3> QED
      BY <3>2, <3>3 DEF LiveOnce
  <2> QED
    BY <1>1, <2>9, <2>10, <2>11, <2>12, PartsNext
<1> QED
  BY <1>5, <1>6

\* Happened after the step.
HappenedThen(kind, c, pid) ==
  \E n \in DOMAIN events' : events'[n].kind = kind /\ events'[n].cid = c /\ events'[n].pid = pid

\* An event is written once under its ids, and none is lost.
LEMMA LogOnceKeepsOnce ==
  ASSUME MemoryInv, job.at \in Steps, NEW kind, LogOnce(kind), UNCHANGED archive
  PROVE  /\ OnlyOnce'
         /\ HappenedThen(kind, job.cid, job.j.item.id)
         /\ \A k, c, pid : Happened(k, c, pid) => HappenedThen(k, c, pid)
<1>1. PICK c, pid : c = job.cid /\ pid = job.j.item.id
  OBVIOUS
<1>2. CASE Happened(kind, c, pid)
  BY <1>1, <1>2, LogStays DEF LogOnce, Happened, Says, HappenedThen
<1>3. CASE ~Happened(kind, c, pid)
  <2>1. PICK e : e = [kind |-> kind, cid |-> c, pid |-> pid]
    OBVIOUS
  <2>2. PICK q \in Seq(Event) : q = events
    BY Parts DEF TypeOK
  <2>3. events' = Append(q, e)
    BY <1>1, <1>3, <2>1, <2>2 DEF LogOnce, Log
  <2>4. /\ DOMAIN events' = DOMAIN q \union {Len(q) + 1}
        /\ \A n \in DOMAIN q : events'[n] = q[n]
        /\ events'[Len(q) + 1] = e
    BY <2>2, <2>3
  <2>5. \A n \in DOMAIN q : ~(q[n].kind = kind /\ q[n].cid = c /\ q[n].pid = pid)
    BY <1>3, <2>2 DEF Happened, Says
  <2>6. e.kind = kind /\ e.cid = c /\ e.pid = pid
    BY <2>1
  <2>7. ASSUME NEW n \in DOMAIN events', NEW m \in DOMAIN events',
               events'[n].cid # 0, events'[n].pid # NoId, events'[m].kind = events'[n].kind,
               events'[m].cid = events'[n].cid, events'[m].pid = events'[n].pid
        PROVE  n = m
    <3>1. n \in DOMAIN q /\ m \in DOMAIN q => n = m
      BY <2>2, <2>4, <2>7 DEF MemoryInv, OnlyOnce, Says
    <3> QED
      BY <2>4, <2>5, <2>6, <2>7, <3>1
  <2>8. OnlyOnce'
    BY <2>7 DEF OnlyOnce, Says, MemoryInv
  <2> QED
    BY <1>1, <2>2, <2>4, <2>6, <2>8 DEF Happened, Says, HappenedThen
<1> QED
  BY <1>1, <1>2, <1>3

LEMMA CorrectionInv == ASSUME MemoryAssumption, MemoryInv, RecordCorrection PROVE MemoryInv'
<1>1. TypeInv' /\ job.at = "correction" /\ job.at \in Steps
  BY CorrectionKept, Parts DEF RecordCorrection, At, Steps
<1>2. job'.at = "status" /\ job'.cid = job.cid /\ job'.j = job.j
  BY Parts, ThenTyped DEF RecordCorrection, Step
<1>3. ItemTracked' /\ Named' /\ OldGone' /\ LiveOnce' /\ NoneYet'
  BY <1>2, FilesStay, StoresStay, CandsStay DEF RecordCorrection, NoneYet, At
<1>4. /\ OnlyOnce'
      /\ job.j.old # NoItem => HappenedThen("correction", job.cid, job.j.item.id)
  BY <1>1, LogOnceKeepsOnce, LogStays DEF RecordCorrection
<1>5. Done'
  BY <1>1, <1>2, <1>4 DEF MemoryInv, Done, At, RecordCorrection, Archived, Records, Happened, HappenedThen, Says, Steps
<1> QED
  BY <1>1, <1>3, <1>4, <1>5, PartsNext

LEMMA MarkInv == ASSUME MemoryAssumption, MemoryInv, MarkApproved PROVE MemoryInv'
<1>1. TypeInv' /\ job.at = "status" /\ job.cid \in DOMAIN cands
  BY MarkKept, Parts DEF MarkApproved, At, Steps, JobSound
<1>2. job'.at = "approval" /\ job'.cid = job.cid /\ job'.j = job.j
  BY Parts, ThenTyped DEF MarkApproved, Step
<1>3. /\ cands'[job.cid].status = "approved" /\ DOMAIN cands' = DOMAIN cands
      /\ \A b \in DOMAIN cands : b # job.cid => cands'[b] = cands[b]
  BY <1>1, DecideTyped, Parts DEF MarkApproved
<1>4. Named' /\ OldGone' /\ LiveOnce' /\ NoneYet' /\ OnlyOnce'
  BY <1>2, FilesStay, StoresStay, LogStays DEF MarkApproved, NoneYet, At
<1>5. cands[job.cid].status # "rejected" /\ journal[job.cid].item # NoItem
  BY <1>1, Parts DEF MemoryInv, Done, Steps, JobSound
<1>6. ItemTracked'
  BY <1>3, <1>5 DEF ItemTracked, MarkApproved, MemoryInv
<1>7. Done'
  BY <1>1, <1>2, <1>3 DEF MemoryInv, Done, At, MarkApproved, Archived, Records, Happened, HappenedThen, Says, Steps
<1> QED
  BY <1>1, <1>4, <1>6, <1>7, PartsNext

LEMMA ApprovalInv == ASSUME MemoryAssumption, MemoryInv, RecordApproval PROVE MemoryInv'
<1>1. TypeInv' /\ job.at = "approval" /\ job.at \in Steps
  BY ApprovalKept, Parts DEF RecordApproval, At, Steps
<1>2. job'.at = "unlink" /\ job'.cid = job.cid /\ job'.j = job.j
  BY Parts, ThenTyped DEF RecordApproval, Step
<1>3. ItemTracked' /\ Named' /\ OldGone' /\ LiveOnce' /\ NoneYet'
  BY <1>2, FilesStay, StoresStay, CandsStay DEF RecordApproval, NoneYet, At
<1>4. /\ OnlyOnce'
      /\ HappenedThen("approval", job.cid, job.j.item.id)
      /\ \A k, c, pid : Happened(k, c, pid) => HappenedThen(k, c, pid)
  BY <1>1, LogOnceKeepsOnce DEF RecordApproval
<1>5. job.j.old # NoItem => HappenedThen("correction", job.cid, job.j.item.id)
  BY <1>1, <1>4 DEF MemoryInv, Done, Steps
<1>6. Done'
  BY <1>1, <1>2, <1>4, <1>5 DEF MemoryInv, Done, At, RecordApproval, Archived, Records, Happened, HappenedThen, Says, Steps
<1> QED
  BY <1>1, <1>3, <1>4, <1>6, PartsNext

LEMMA RemoveInv == ASSUME MemoryAssumption, MemoryInv, RemoveJournal PROVE MemoryInv'
<1>1. TypeInv' /\ job.at = "unlink" /\ job.cid \in Cid /\ cands[job.cid].status = "approved"
  BY RemoveKept, Parts, JobTyped DEF RemoveJournal, At, Steps, MemoryInv, Done
<1>2. \A c \in Cid : journal'[c] = IF c = job.cid THEN NoJournal ELSE journal[c]
  BY <1>1, Parts DEF RemoveJournal, TypeOK
<1>3. job'.at = "idle"
  BY IdleTyped DEF RemoveJournal
<1>4. LiveOnce' /\ NoneYet' /\ OnlyOnce' /\ Done'
  BY <1>3, FilesStay, LogStays DEF RemoveJournal, NoneYet, At, Done, Steps
<1>5. OldGone'
  BY <1>2, IdleTyped DEF OldGone, MemoryInv, RemoveJournal
<1>n. Named'
  BY <1>2, IdleTyped DEF Named, MemoryInv, RemoveJournal
<1>6. ItemTracked'
  <2>1. \A c \in DOMAIN cands : c \in Cid
    BY Parts DEF TypeOK, MemoryAssumption, Cid
  <2> QED
    BY <1>1, <1>2, <2>1, IdleTyped DEF ItemTracked, MemoryInv, RemoveJournal
<1> QED
  BY <1>1, <1>4, <1>5, <1>n, <1>6, PartsNext

LEMMA RememberInv ==
  ASSUME MemoryAssumption, MemoryInv, NEW s \in Store, NEW sec \in Section, Remember(s, sec)
  PROVE  MemoryInv'
<1>1. TypeInv'
  BY RememberKept, Parts
<1>2. PICK new : new = NewItem(s, sec, 0)
  OBVIOUS
<1>3. new \in Item /\ new.cand = 0 /\ new.at = born + 1
  BY <1>2, Parts, NewItemTyped DEF Remember
<1>4. \A p \in Store : profile'[p] = IF p = s THEN profile[s] \union {new} ELSE profile[p]
  BY <1>2, Parts DEF Remember, TypeOK
<1>5. job'.at = "remembered"
  BY DEF Remember
<1>6. born \in Nat /\ \A i \in Item : i.at \in Nat
  BY Parts DEF TypeOK, Item
<1>7. /\ \A p \in Store : \A i \in profile[p] : i.at <= born
      /\ \A p \in Store : \A r \in Records(p) : r.item.at <= born
      /\ \A d \in Cid : journal[d].item # NoItem => journal[d].item.at <= born
      /\ \A d \in Cid : journal[d].old # NoItem => journal[d].old.at <= born
  BY Parts DEF IdsCounted, Older, Counted
<1>8. ItemTracked'
  BY <1>3, <1>4 DEF ItemTracked, MemoryInv, Remember
<1>9. OldGone'
  <2> SUFFICES ASSUME NEW d \in Cid, journal[d].item # NoItem,
                      journal[d].item \in profile'[journal[d].store],
                      journal[d].old \in profile'[journal[d].store]
               PROVE  FALSE
    BY DEF OldGone, Remember
  <2>1. journal[d].store \in Store
    BY Parts DEF TypeOK, Journal
  <2>2. journal[d].old # NoItem
    BY <1>3, <1>4, <2>1, Belongs, Parts DEF MemoryAssumption
  <2>3. journal[d].item # new /\ journal[d].old # new
    BY <1>3, <1>6, <1>7, <2>2
  <2>4. journal[d].item \in profile[journal[d].store] /\ journal[d].old \in profile[journal[d].store]
    BY <1>4, <2>1, <2>3
  <2> QED
    BY <2>4 DEF MemoryInv, OldGone
<1>n. Named'
  <2>1. \A d \in Cid : journal[d] \in Journal
    BY Parts DEF TypeOK
  <2>2. \A d \in Cid : journal[d].store \in Store
    BY <2>1 DEF Journal
  <2>3. \A d \in Cid : d # 0
    BY DEF Cid, MemoryAssumption
  <2> QED
    BY <1>3, <1>4, <2>2, <2>3 DEF Named, MemoryInv, Remember
<1>10. NoneYet' /\ Done' /\ OnlyOnce'
  BY <1>5, LogStays DEF NoneYet, Done, At, Steps, Remember
<1>11. LiveOnce'
  <2>1. \A p \in Store : \A r \in Records(p) : r.item # new
    BY <1>3, <1>6, <1>7
  <2>2. ArchiveHonest'
    BY <1>4, <2>1 DEF ArchiveHonest, MemoryInv, Remember, Records
  <2>3. MemoryOnce'
    BY <1>3, <1>4 DEF MemoryOnce, Live, Twice, MemoryInv, Store, Remember
  <2> QED
    BY <2>2, <2>3 DEF LiveOnce
<1> QED
  BY <1>1, <1>8, <1>9, <1>n, <1>10, <1>11, PartsNext

\* An event under no candidate, or of a rejection, is not one that LogOnce looks for.
LEMMA LogKeepsOnce ==
  ASSUME MemoryInv, NEW kind, NEW c, NEW pid, c = 0 \/ pid = NoId,
         Log(kind, c, pid), UNCHANGED archive
  PROVE  OnlyOnce'
<1>1. PICK e : e = [kind |-> kind, cid |-> c, pid |-> pid]
  OBVIOUS
<1>2. PICK q \in Seq(Event) : q = events
  BY Parts DEF TypeOK
<1>3. events' = Append(q, e)
  BY <1>1, <1>2 DEF Log
<1>4. /\ DOMAIN events' = DOMAIN q \union {Len(q) + 1}
      /\ \A n \in DOMAIN q : events'[n] = q[n]
      /\ events'[Len(q) + 1] = e
  BY <1>2, <1>3
<1>5. e.cid = c /\ e.pid = pid
  BY <1>1
<1>6. ASSUME NEW n \in DOMAIN events', NEW m \in DOMAIN events',
             events'[n].cid # 0, events'[n].pid # NoId, events'[m].kind = events'[n].kind,
             events'[m].cid = events'[n].cid, events'[m].pid = events'[n].pid
      PROVE  n = m
  <2>1. n \in DOMAIN q /\ m \in DOMAIN q => n = m
    BY <1>2, <1>4, <1>6 DEF MemoryInv, OnlyOnce, Says
  <2> QED
    BY <1>4, <1>5, <1>6, <2>1
<1> QED
  BY <1>6 DEF OnlyOnce, Says, MemoryInv

LEMMA RejectInv ==
  ASSUME MemoryAssumption, MemoryInv, NEW c \in DOMAIN cands, Reject(c)
  PROVE  MemoryInv'
<1>1. TypeInv'
  BY RejectKept, Parts
<1>2. /\ cands'[c].status = "rejected" /\ DOMAIN cands' = DOMAIN cands
      /\ \A b \in DOMAIN cands : b # c => cands'[b] = cands[b]
  BY DecideTyped, Parts DEF Reject
<1>3. job'.at = "rejected"
  BY DEF Reject, Idle
<1>4. ItemTracked'
  BY <1>2 DEF ItemTracked, MemoryInv, Reject
<1>5. Named' /\ OldGone' /\ NoneYet' /\ Done' /\ OnlyOnce' /\ LiveOnce'
  BY <1>3, FilesStay, StoresStay, LogStays DEF Reject, NoneYet, Done, At, Steps
<1> QED
  BY <1>1, <1>4, <1>5, PartsNext

\* Steps that end a command, and change at most the log, leave the rest as it is.
LEMMA EndInv ==
  ASSUME MemoryAssumption, MemoryInv, RecordRemembered \/ RecordRejection \/ Crash
  PROVE  MemoryInv'
<1>1. TypeInv'
  BY RememberedKept, RejectedKept, CrashKept, Parts
<1>2. job'.at = "idle" /\ UNCHANGED <<profile, archive, journal, cands, crossed, astray>>
  BY IdleTyped DEF RecordRemembered, RecordRejection, Crash
<1>3. ItemTracked' /\ Named' /\ OldGone' /\ NoneYet' /\ Done' /\ LiveOnce'
  BY <1>2, FilesStay, StoresStay, CandsStay DEF NoneYet, Done, At, Steps
<1>4. OnlyOnce'
  BY <1>2, LogStays, LogKeepsOnce DEF RecordRemembered, RecordRejection, Crash
<1> QED
  BY <1>1, <1>3, <1>4, PartsNext

LEMMA StutterInv == ASSUME MemoryInv, UNCHANGED vars PROVE MemoryInv'
<1>1. TypeInv'
  BY StutterKept, Parts
<1>2. ItemTracked' /\ Named' /\ OldGone' /\ NoneYet' /\ OnlyOnce' /\ LiveOnce'
  BY FilesStay, StoresStay, LogStays, CandsStay DEF vars, MemoryInv, NoneYet, At
<1>3. Done'
  BY DEF vars, MemoryInv, Done, At, Archived, Records, Happened, Says
<1> QED
  BY <1>1, <1>2, <1>3, PartsNext

LEMMA InvStep ==
  ASSUME MemoryAssumption, MemoryInv, [Next]_vars
  PROVE  MemoryInv'
<1>1. CASE \E t \in Text, sec \in Section : AddCandidate(t, sec)
  BY <1>1, AddInv
<1>2. CASE \E c \in DOMAIN cands : Reject(c)
  BY <1>2, RejectInv
<1>3. CASE \E c \in DOMAIN cands : \E s \in Store : Approve(c, s)
  BY <1>3, ApproveInv
<1>4. CASE \E c \in DOMAIN cands : \E s \in Store : Resume(c, s)
  BY <1>4, ResumeInv
<1>5. CASE \E s \in Store, sec \in Section : Remember(s, sec)
  BY <1>5, RememberInv
<1>6. CASE \/ WriteProfile \/ AppendArchive \/ RecordCorrection \/ MarkApproved
           \/ RecordApproval \/ RemoveJournal \/ RecordRemembered \/ RecordRejection \/ Crash
  BY <1>6, WriteInv, ArchiveInv, CorrectionInv, MarkInv, ApprovalInv, RemoveInv, EndInv
<1>7. CASE UNCHANGED vars
  BY <1>7, StutterInv
<1> QED
  BY <1>1, <1>2, <1>3, <1>4, <1>5, <1>6, <1>7 DEF Next

\* What approvals, retries and crashes keep true of the profile, the archive, the
\* journals and the history (store.py:625-691).
THEOREM MemoryInvariant == Spec => []MemoryInv
<1>1. MemoryAssumption
  BY MemoryAssumption
<1>2. Init => MemoryInv
  BY <1>1, InitInv
<1>3. MemoryInv /\ [Next]_vars => MemoryInv'
  BY <1>1, InvStep
<1> QED
  BY <1>2, <1>3, PTL DEF Spec

\* The archive never lists an item that is still live (store.py:649-650), but for the
\* one way it can: a retry in the other store that took an item there for its own.
THEOREM ArchiveTellsTruth == Spec => []ArchiveHonest
<1>1. MemoryInv => ArchiveHonest
  BY DEF MemoryInv
<1> QED
  BY <1>1, MemoryInvariant, PTL

\* No candidate becomes two live items (store.py:660), however often its approval is
\* begun again, but for one begun anew in the other store than it was left in.
THEOREM RememberedOnce == Spec => []MemoryOnce
<1>1. MemoryInv => MemoryOnce
  BY DEF MemoryInv
<1> QED
  BY <1>1, MemoryInvariant, PTL

LEMMA OneEvent ==
  ASSUME MemoryInv, NEW kind, NEW c, NEW pid, c # 0, pid # NoId, Happened(kind, c, pid)
  PROVE  One(Logged(kind, c, pid))
<1>1. PICK n \in DOMAIN events : Says(n, kind, c, pid)
  BY DEF Happened
<1>2. \A m \in Logged(kind, c, pid) : m = n
  BY <1>1 DEF Logged, MemoryInv, OnlyOnce, Says
<1>3. n \in Logged(kind, c, pid)
  BY <1>1 DEF Logged
<1> QED
  BY <1>2, <1>3 DEF One

LEMMA OneRecord ==
  ASSUME MemoryInv, NEW j \in Journal, Archived(j)
  PROVE  One(Filed(j))
<1>1. j.store \in Store
  BY DEF Journal
<1>2. PICK n \in DOMAIN archive[j.store] :
        archive[j.store][n].item.id = j.old.id /\ archive[j.store][n].by = j.item.id
  BY DEF Archived, Records
<1>3. \A m \in Filed(j) : m = n
  BY <1>1, <1>2 DEF Filed, MemoryInv, OnlyOnce
<1>4. n \in Filed(j)
  BY <1>2 DEF Filed
<1> QED
  BY <1>3, <1>4 DEF One

\* When an approval is complete its correction, its approval and the record of what it
\* replaced are there exactly once under their ids, whatever was interrupted and
\* repeated before, in whichever stores (store.py:659-681), and its item is live,
\* unless a retry in the other store completed it.
THEOREM ApprovalsSettle == Spec => Settled
<1>1. ASSUME MemoryInv, At("unlink")
      PROVE  LET c == job.cid
                 j == job.j
             IN /\ cands[c].status = "approved" /\ (j.item \in profile[j.store] \/ j \in astray)
                /\ One(Logged("approval", c, j.item.id))
                /\ j.old # NoItem => One(Filed(j)) /\ One(Logged("correction", c, j.item.id))
  <2>1. job.j \in Journal /\ job.cid \in Cid /\ job.j.item \in Item
    BY <1>1, Parts, JobTyped DEF At, Steps
  <2>2. job.cid # 0 /\ job.j.item.id # NoId
    <3>1. job.j.item.id \in Id
      BY <2>1 DEF Item
    <3>2. job.j.item.id.num >= 1
      BY <3>1 DEF Id
    <3> QED
      BY <2>1, <3>2 DEF Cid, NoId
  <2>3. /\ cands[job.cid].status = "approved" /\ (job.j.item \in profile[job.j.store] \/ job.j \in astray)
        /\ Happened("approval", job.cid, job.j.item.id)
        /\ job.j.old # NoItem => Archived(job.j) /\ Happened("correction", job.cid, job.j.item.id)
    BY <1>1 DEF MemoryInv, Done, At, Steps
  <2> QED
    BY <1>1, <2>1, <2>2, <2>3, OneEvent, OneRecord
<1>2. MemoryInv /\ [Next]_vars =>
        [LET c == job.cid
             j == job.j
         IN At("unlink") /\ journal' # journal =>
              /\ cands[c].status = "approved" /\ (j.item \in profile[j.store] \/ j \in astray)
              /\ One(Logged("approval", c, j.item.id))
              /\ j.old # NoItem => One(Filed(j)) /\ One(Logged("correction", c, j.item.id))]_vars
  BY <1>1
<1> QED
  BY <1>2, MemoryInvariant, PTL DEF Settled, Spec
=============================================================================
