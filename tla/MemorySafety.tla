---------------------------- MODULE MemorySafety ----------------------------
(* What core/ctx/store.py promises about long-term memory, over Memory. *)
EXTENDS Memory

\* Every variable keeps the shape the code gives it.
TypeOK ==
  /\ profile \in [Store -> SUBSET Item]
  /\ archive \in [Store -> Seq(Retired)]
  /\ cands \in Seq(Candidate) /\ Len(cands) <= MaxCand
  /\ journal \in [Cid -> Journal]
  /\ events \in Seq(Event)
  /\ job \in [at : Step, cid : {0} \union Cid, j : Journal]
  /\ born \in 0..MaxItems /\ crashes \in 0..MaxCrashes
  /\ crossed \subseteq Cid /\ astray \subseteq Journal

\* An id names one live item of its store, so --supersedes and a resumed
\* approval find the item they mean, whatever was interrupted before.
UniqueIds ==
  \A s \in Store : \A i, k \in profile[s] : i.id = k.id => i = k

\* The archive never claims an item retired while it is still live
\* (store.py:649-650), although the two files are written one after the other:
\* but for what an approval was to replace that a retry in the other store, which
\* took the id of an earlier item there for its own, finished without its profile
\* ever having been written (store.py:593).
ArchiveHonest ==
  \A s \in Store : \A r \in Records(s) :
    r.item \in profile[s] => \E j \in astray : j.store = s /\ j.old = r.item

One(S) == \E n \in S : S = {n}
Logged(kind, c, pid) == {n \in DOMAIN events : Says(n, kind, c, pid)}
Filed(j) ==
  {n \in DOMAIN archive[j.store] : /\ archive[j.store][n].item.id = j.old.id
                                  /\ archive[j.store][n].by = j.item.id}

\* When an approval removes its journal, after whatever crashes and retries, in
\* whichever stores, what it replaced is archived under their two ids once, the
\* correction and the approval are each in the history under its ids once
\* (store.py:659-681), and its item is live, unless a retry in the other store
\* finished it without.
Settled ==
  [][LET c == job.cid
         j == job.j
     IN At("unlink") /\ journal' # journal =>
          /\ cands[c].status = "approved" /\ (j.item \in profile[j.store] \/ j \in astray)
          /\ One(Logged("approval", c, j.item.id))
          /\ j.old # NoItem => One(Filed(j)) /\ One(Logged("correction", c, j.item.id))]_vars

\* An approval is resumed without duplicating memory (store.py:660): no
\* candidate becomes two live items, unless its approval, left unfinished in one
\* store, was begun anew in the other.
Twice(i, k) == i.cand # 0 /\ i.cand = k.cand /\ i # k
Live == profile["project"] \union profile["global"]
MemoryOnce == \A i, k \in Live : Twice(i, k) => i.cand \in crossed

----------------------------------------------------------------------------
(* Why these hold: what TLC and the proofs check to be inductive. *)

Steps == {"archive", "correction", "status", "approval", "unlink"}

\* The command works on the journal it saved or resumed.
JobSound ==
  /\ job.at \in Steps \union {"profile"} =>
       job.cid \in DOMAIN cands /\ job.j = journal[job.cid] /\ job.j.item # NoItem
  /\ At("profile") => Pending(job.cid) /\ job.j.item.at = born
  /\ At("remembered") => job.j.item # NoItem
  /\ \A c \in Cid : journal[c].item # NoItem => c \in DOMAIN cands /\ journal[c].item.cand = c

\* No number is higher than the items made, and an item still to be written is
\* newer than all that was ever live.
Counted(i) == i.id.num <= i.at /\ i.at <= born
Older(i) == Counted(i) /\ (At("profile") => i.at < born)
IdsCounted ==
  /\ \A s \in Store : \A i \in profile[s] : Older(i)
  /\ \A s \in Store : \A r \in Records(s) : Older(r.item)
  /\ \A c \in Cid : /\ journal[c].item # NoItem => Counted(journal[c].item)
                    /\ journal[c].old # NoItem => Older(journal[c].old)

\* The id of an item still to be written is free in its store.
IdFree == At("profile") => \A i \in profile[job.j.store] : i.id # job.j.item.id

\* Unless it was rejected meanwhile or begun anew in the other store, the live item
\* of a candidate is the one in its journal, until the approval is complete; the
\* one a retry finds in the journal's store is that one; what it replaced is not live.
ItemTracked ==
  \A s \in Store : \A i \in profile[s] : i.cand # 0 =>
    LET c == i.cand
    IN /\ c \in DOMAIN cands
       /\ \/ cands[c].status = "rejected"
          \/ cands[c].status = "approved" /\ journal[c].item = NoItem
          \/ c \in crossed
          \/ journal[c].item = i /\ journal[c].store = s
Named ==
  \A c \in Cid : journal[c].item # NoItem =>
    \A i \in profile[journal[c].store] : i.id = journal[c].item.id /\ i.cand = c => i = journal[c].item
OldGone ==
  \A c \in Cid :
    LET j == journal[c]
    IN j.item # NoItem /\ j.item \in profile[j.store] => j.old \notin profile[j.store]
NoneYet ==
  At("profile") /\ job.cid \notin crossed => \A s \in Store : \A i \in profile[s] : i.cand # job.cid

\* What the steps of an approval have done so far, each once.
Done ==
  /\ job.at \in Steps =>
       /\ job.j.item \in profile[job.j.store] \/ job.j \in astray
       /\ cands[job.cid].status # "rejected"
  /\ job.at \in {"approval", "unlink"} => cands[job.cid].status = "approved"
  /\ job.at \in Steps \ {"archive"} /\ job.j.old # NoItem => Archived(job.j)
  /\ job.at \in {"status", "approval", "unlink"} /\ job.j.old # NoItem =>
       Happened("correction", job.cid, job.j.item.id)
  /\ At("unlink") => Happened("approval", job.cid, job.j.item.id)
OnlyOnce ==
  /\ \A n, m \in DOMAIN events :
       events[n].cid # 0 /\ events[n].pid # NoId /\ Says(m, events[n].kind, events[n].cid, events[n].pid)
       => n = m
  /\ \A s \in Store : \A n, m \in DOMAIN archive[s] :
       archive[s][n].item.id = archive[s][m].item.id /\ archive[s][n].by = archive[s][m].by => n = m

TypeInv == TypeOK /\ JobSound /\ IdsCounted /\ IdFree /\ UniqueIds
MemoryInv ==
  TypeInv /\ ItemTracked /\ Named /\ OldGone /\ NoneYet /\ Done /\ OnlyOnce /\ ArchiveHonest /\ MemoryOnce
============================================================================
