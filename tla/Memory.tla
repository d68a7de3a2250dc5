------------------------------- MODULE Memory -------------------------------
(***************************************************************************)
(* Long-term memory (src/plugins/kiseki-da/core/ctx/store.py): candidates  *)
(* that hooks collect, the approval that turns one into a profile item and *)
(* may retire an older item to the archive, its journal, rejection, and    *)
(* direct remembering.  A project sees its own store and the global one.   *)
(*                                                                         *)
(* One CLI command writes at a time (docs/ARCHITECTURE.md:85); it may fail *)
(* or die between any two files it writes, and hooks add candidates        *)
(* meanwhile.  An item is its id, the candidate it came from (0: none) and *)
(* the order it was made in, which stands for its text.                    *)
(* Operators named Slip... are plausible mistakes in the one that follows.  *)
(***************************************************************************)
EXTENDS Naturals, Sequences, FiniteSets, FiniteSetsExt

CONSTANTS
  Section,         \* the sections candidates of some kind go to
  Text,            \* what a candidate may say
  NoItem,          \* approve() without --supersedes
  MaxCand, MaxItems, MaxCrashes

VARIABLES
  profile,   \* live items of each store: profile.toml
  archive,   \* retired items of each store: archive/*.jsonl
  cands,     \* candidates.jsonl, the latest record of each
  journal,   \* approvals/<cid>.json
  events,    \* the approval and correction events
  job,       \* the command being executed
  born,      \* items made so far
  crashes

\* History: the candidates whose approval, left unfinished in one store, was begun
\* anew in the other, and the journals finished by a retry in the other store.
VARIABLES crossed, astray

history == <<crossed, astray>>
vars == <<profile, archive, cands, journal, events, job, born, crashes, history>>

----------------------------------------------------------------------------
Store == {"project", "global"}
Cid == 1..MaxCand
Id == [sec : Section, num : 1..MaxItems]
NoId == [sec |-> NoItem, num |-> 0]
Item == [id : Id, cand : {0} \union Cid, at : 1..MaxItems]
Retired == [item : Item, by : Id]
Candidate == [text : Text, sec : Section, status : {"pending", "approved", "rejected"}]
Journal == [store : Store, item : Item \union {NoItem}, old : Item \union {NoItem}]
NoJournal == [store |-> "project", item |-> NoItem, old |-> NoItem]
Event == [kind : {"approval", "correction"}, cid : {0} \union Cid, pid : Id \union {NoId}]
Step == {"idle", "profile", "archive", "correction", "status", "approval", "unlink",
         "remembered", "rejected"}
Idle == [at |-> "idle", cid |-> 0, j |-> NoJournal]

ASSUME MemoryAssumption ==
  /\ {MaxCand, MaxItems, MaxCrashes} \subseteq Nat
  /\ NoItem \notin Item

Init ==
  /\ profile = [s \in Store |-> {}]
  /\ archive = [s \in Store |-> <<>>]
  /\ cands = <<>>
  /\ journal = [c \in Cid |-> NoJournal]
  /\ events = <<>>
  /\ job = Idle
  /\ born = 0 /\ crashes = 0
  /\ crossed = {} /\ astray = {}

----------------------------------------------------------------------------
Records(s) == {archive[s][n] : n \in DOMAIN archive[s]}
Says(n, kind, c, pid) == events[n].kind = kind /\ events[n].cid = c /\ events[n].pid = pid
Happened(kind, c, pid) == \E n \in DOMAIN events : Says(n, kind, c, pid)

At(step) == job.at = step
Then(step) == job' = [job EXCEPT !.at = step]
Log(kind, c, pid) == events' = Append(events, [kind |-> kind, cid |-> c, pid |-> pid])

\* new_profile_id: a project also counts the global items it sees, but no
\* store counts the other's archive, and the global store sees no project.
Seen(s) == profile[s] \union profile["global"]
SlipCount(s, sec) ==
  [sec |-> sec, num |-> 1 + Cardinality({i \in Seen(s) : i.id.sec = sec})]
NewId(s, sec) ==
  LET ids == {i.id : i \in Seen(s)} \union {r.item.id : r \in Records(s)}
  IN [sec |-> sec, num |-> 1 + Max({0} \union {i.num : i \in {i \in ids : i.sec = sec}})]

NewItem(s, sec, c) == [id |-> NewId(s, sec), cand |-> c, at |-> born + 1]

\* append_candidate: the same pending text and kind is not added twice.
AddCandidate(t, sec) ==
  /\ Len(cands) < MaxCand
  /\ \A c \in DOMAIN cands : cands[c] # [text |-> t, sec |-> sec, status |-> "pending"]
  /\ cands' = Append(cands, [text |-> t, sec |-> sec, status |-> "pending"])
  /\ UNCHANGED <<profile, archive, journal, events, job, born, crashes, history>>

\* set_candidate_status.
Decide(c, status) == cands' = [cands EXCEPT ![c].status = status]
Pending(c) == cands[c].status = "pending"

\* An earlier attempt got as far as the profile of the store asked for now.
SlipOnlyApproved(c, s) ==
  /\ cands[c].status = "approved"
  /\ \E i \in profile[s] : i.id = journal[c].item.id /\ i.cand = c
Resumable(c, s) ==
  /\ cands[c].status # "rejected"
  /\ journal[c].item # NoItem
  /\ \E i \in profile[s] : i.id = journal[c].item.id /\ i.cand = c

\* approve(): a new attempt computes the item and saves its journal first.  The
\* user may give --global or not, whatever an unfinished attempt was begun with.
Approve(c, s) ==
  /\ At("idle") /\ Pending(c) /\ ~Resumable(c, s)
  /\ born < MaxItems /\ born' = born + 1
  /\ \E old \in profile[s] \union {NoItem} :
       LET j == [store |-> s, item |-> NewItem(s, cands[c].sec, c), old |-> old]
       IN /\ journal' = [journal EXCEPT ![c] = j]
          /\ job' = [at |-> "profile", cid |-> c, j |-> j]
  /\ crossed' = crossed \union {k \in {c} : journal[k].item # NoItem /\ journal[k].store # s}
  /\ UNCHANGED <<profile, archive, cands, events, crashes, astray>>

\* _finish_approval takes the store from the journal, approve() from its flag.
Resume(c, s) ==
  /\ At("idle") /\ Resumable(c, s)
  /\ job' = [at |-> "archive", cid |-> c, j |-> journal[c]]
  /\ astray' = astray \union {j \in {journal[c]} : j.store # s}
  /\ UNCHANGED <<profile, archive, cands, journal, events, born, crashes, crossed>>

\* write_profile replaces profile.toml; the superseded item leaves with it.
SlipWrongSection(j) ==
  {i \in profile[j.store] : j.old = NoItem \/ i.id # [j.old.id EXCEPT !.sec = j.item.id.sec]}
    \union {j.item}
NewProfile(j) == {i \in profile[j.store] : j.old = NoItem \/ i.id # j.old.id} \union {j.item}
WriteProfile ==
  /\ At("profile")
  /\ profile' = [profile EXCEPT ![job.j.store] = NewProfile(job.j)]
  /\ Then("archive") /\ UNCHANGED <<archive, cands, journal, events, born, crashes, history>>

\* _finish_approval: every step looks first whether an earlier attempt did it.
SlipArchiveAgain(j) == FALSE
Archived(j) ==
  \E r \in Records(j.store) : r.item.id = j.old.id /\ r.by = j.item.id
AppendArchive ==
  /\ At("archive")
  /\ IF job.j.old = NoItem \/ Archived(job.j) THEN UNCHANGED archive
     ELSE archive' = [archive EXCEPT ![job.j.store] =
                        Append(@, [item |-> job.j.old, by |-> job.j.item.id])]
  /\ Then("correction")
  /\ UNCHANGED <<profile, cands, journal, events, born, crashes, history>>

SlipLogAgain(kind) == Log(kind, job.cid, job.j.item.id)
LogOnce(kind) ==
  IF Happened(kind, job.cid, job.j.item.id) THEN UNCHANGED events
  ELSE Log(kind, job.cid, job.j.item.id)
RecordCorrection ==
  /\ At("correction")
  /\ IF job.j.old = NoItem THEN UNCHANGED events ELSE LogOnce("correction")
  /\ Then("status")
  /\ UNCHANGED <<profile, archive, cands, journal, born, crashes, history>>

MarkApproved ==
  /\ At("status") /\ Decide(job.cid, "approved") /\ Then("approval")
  /\ UNCHANGED <<profile, archive, journal, events, born, crashes, history>>

RecordApproval ==
  /\ At("approval") /\ LogOnce("approval") /\ Then("unlink")
  /\ UNCHANGED <<profile, archive, cands, journal, born, crashes, history>>

RemoveJournal ==
  /\ At("unlink") /\ job' = Idle
  /\ journal' = [journal EXCEPT ![job.cid] = NoJournal]
  /\ UNCHANGED <<profile, archive, cands, events, born, crashes, history>>

\* remember(): straight into the profile, then its event.
Remember(s, sec) ==
  /\ At("idle") /\ born < MaxItems /\ born' = born + 1
  /\ LET item == NewItem(s, sec, 0) IN
       /\ profile' = [profile EXCEPT ![s] = @ \union {item}]
       /\ job' = [at |-> "remembered", cid |-> 0,
                  j |-> [store |-> s, item |-> item, old |-> NoItem]]
  /\ UNCHANGED <<archive, cands, journal, events, crashes, history>>
RecordRemembered ==
  /\ At("remembered") /\ Log("approval", 0, job.j.item.id) /\ job' = Idle
  /\ UNCHANGED <<profile, archive, cands, journal, born, crashes, history>>

\* reject(): a pending candidate, whatever an unfinished approval left behind.
Rejectable(c) == Pending(c)
Reject(c) ==
  /\ At("idle") /\ Rejectable(c)
  /\ Decide(c, "rejected") /\ job' = [Idle EXCEPT !.at = "rejected", !.cid = c]
  /\ UNCHANGED <<profile, archive, journal, events, born, crashes, history>>
RecordRejection ==
  /\ At("rejected") /\ Log("approval", job.cid, NoId) /\ job' = Idle
  /\ UNCHANGED <<profile, archive, cands, journal, born, crashes, history>>

\* The command dies, or one of its writes fails.
Crash ==
  /\ ~At("idle") /\ crashes < MaxCrashes /\ crashes' = crashes + 1
  /\ job' = Idle
  /\ UNCHANGED <<profile, archive, cands, journal, events, born, history>>

Next ==
  \/ \E t \in Text, sec \in Section : AddCandidate(t, sec)
  \/ \E c \in DOMAIN cands : Reject(c) \/ \E s \in Store : Approve(c, s) \/ Resume(c, s)
  \/ WriteProfile \/ AppendArchive \/ RecordCorrection \/ MarkApproved
  \/ RecordApproval \/ RemoveJournal
  \/ \E s \in Store, sec \in Section : Remember(s, sec)
  \/ RecordRemembered \/ RecordRejection \/ Crash

Spec == Init /\ [][Next]_vars
============================================================================
