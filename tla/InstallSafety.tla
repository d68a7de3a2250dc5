--------------------------- MODULE InstallSafety ---------------------------
(* What the host operations promise the user and the sessions that run. *)
EXTENDS Install

\* Every variable has the form the code gives it.
World == [host : [Host -> HostState], place : [Place -> Text], home : Home]
TypeOK ==
  /\ host \in [Host -> HostState] /\ place \in [Place -> Text] /\ home \in Home
  /\ journals \in Seq(Journal)
  /\ proc \in [Proc -> Request]
  /\ used \in [ops : Nat, edits : Nat, upsets : Nat]
  /\ begin \in Seq(World) /\ Len(begin) = Len(journals)
  /\ edited \subseteq DOMAIN journals /\ own \in [Host -> {"plain", "custom"}]
  /\ theirs \subseteq Place /\ window \subseteq Host \union Place /\ shifted \subseteq Host

Quiet == Free /\ NoneUnfinished

\* A transaction that reports "rolled back" leaves the settings files, the home and the
\* files outside it as they were when it was opened, if the user changed nothing since
\* (operations.py:935, transaction.py:449), and each host that was in order then lists
\* the version it listed.  Left out are hosts in which undoing an uninstall added the
\* release of the home, which was not the recorded one (operations.py:1503).
FilesBack(i) ==
  home' = begin[i].home /\ place' = begin[i].place /\ \A h \in Host : host'[h].file = begin[i].host[h].file
\* The settings name a plugin if one is listed, and a host that is recorded and has the
\* recorded marketplace lists the recorded version, if any.
InOrder(w, h) ==
  LET s == w.host[h]
  IN /\ s.file.plugin = "absent" <=> Listed(h, s) = 0
     /\ h \in w.home.hosts =>
          /\ w.home.src[h].ver = w.home.path[h]
          /\ s.file.market = w.home.src[h] => Listed(h, s) \in {0, w.home.path[h]}
VersionsBack(i) ==
  \A h \in Host \ shifted' : InOrder(begin[i], h) => Inv(h, host'[h]) = Inv(h, begin[i].host[h])
TakenBack(i) == journals[i].status # "rolled_back" /\ journals'[i].status = "rolled_back"
PutsBack ==
  [][\A i \in DOMAIN journals \cap DOMAIN journals' :
       TakenBack(i) /\ i \notin edited => FilesBack(i) /\ VersionsBack(i)]_vars

\* A marketplace of the user's, with the plugin from it, and a launcher or pointer the
\* user wrote are never changed by the installer, in any order of commands, failures,
\* crashes and rollbacks, unless they came while a command was under way
\* (operations.py:802-845, 361, 382). A pointer with the installer's text that a record
\* or a journal already claims stays the installer's, whoever last wrote that text:
\* the code tells them apart by the text alone.
Foreign(h) == host[h].file.market.from = "user"
ForeignPlugin(h) == Listed(h, host[h]) # 0 /\ host[h].dirs[Listed(h, host[h])] = "other"
InstallerMoves == own' = own /\ theirs' = theirs /\ used'.edits = used.edits
KeepsForeign ==
  [][InstallerMoves =>
       /\ \A h \in Host \ window : Foreign(h) =>
            /\ host'[h].file.market = host[h].file.market
            /\ ForeignPlugin(h) => Inv(h, host'[h]) = Inv(h, host[h])
       /\ \A x \in theirs \ window : place'[x] = place[x]]_vars

\* Whatever was installed, updated, undone or removed, the security settings a host is
\* left with are the user's own, unless a record says that the baseline is applied and
\* what it replaced (security.py:4-6).  A host the user changed while a command was
\* between looking and ending (window) is left out: there the code may take the user's
\* edit for its own, or put back what the user replaced.
SettingsReturn ==
  Quiet => \A h \in Host \ window : home.rec[h].on \/ host[h].file.sec = own[h]

\* While an ordinary update runs, and while its own rollback does, a version path of the
\* cache that a running session may execute hooks from never stops resolving
\* (cache.py:1, operations.py:604-627).
Updating(p) == Running(p) /\ proc[p].op = "update" /\ ~proc[p].restart
HookPathsStay ==
  [][InstallerMoves => \A h \in DirHosts : \A v \in Version :
       /\ \E p \in Proc : Updating(p) /\ Live(proc[p], h)
       /\ host[h].dirs[v] # "none"
       => host'[h].dirs[v] # "none"]_vars

\* When nothing is unfinished and the user changed nothing, install.json tells the truth:
\* a recorded host has the version and source recorded for it, and passes doctor if that
\* is the version of the home; one that is not recorded has nothing of ours
\* (operations.py:640-674, 1503-1515, 1638-1673).  Left out are the hosts in which undoing
\* an uninstall added the release of the home, which was not the recorded one (1503).
Registered(h) ==
  LET inv == Inv(h, host[h])
  IN /\ inv.plugin = "on" /\ inv.version = home.path[h] /\ inv.market = home.src[h]
     /\ Usable(inv.market) /\ home.current = home.version
     /\ home.path[h] = home.version => Healthy(h)
RecordedAsIs ==
  Quiet /\ used.edits = 0 =>
    \A h \in Host \ shifted : IF h \in home.hosts THEN Registered(h)
                    ELSE host[h].file.market = NoSource /\ Inv(h, host[h]).plugin = "absent"

----------------------------------------------------------------------------
(* Why SettingsReturn holds: what TLC and the proofs check to be inductive. *)

\* Where a command stands in its transaction, the newest, which it alone works on.
Tracking == {"files", "track"}
Installing == {"prepare", "select", "remove", "add", "drop", "plug", "verify", "settings", "record"}
Uninstalling == {"restore", "unplug", "unmarket", "gone"}
InHost == (Installing \ {"settings", "record"}) \union Uninstalling
Going(p) == proc[p].stage \in Steps
Standing(r, j) ==
  /\ r.stage \in {"undo"} \union Steps => j.status = "active"
  /\ r.stage \in {"asked"} \union Steps => r.op \in {"install", "update", "uninstall"}
  /\ r.op \in {"install", "update"} => r.ver \in Version
  /\ r.stage \in Tracking \union Installing => r.op # "uninstall"
  /\ r.stage \in Uninstalling \union {"forget"} => r.op = "uninstall"
  /\ r.stage \in InHost => r.cur \in r.hosts
  /\ r.refresh \subseteq r.hosts /\ r.left \subseteq r.hosts
  /\ r.stage = "undo" => r.k <= Len(j.undo)
TypeInv ==
  /\ TypeOK
  /\ \A p \in Proc : (Running(p) => journals # <<>>) /\ Standing(proc[p], Now)
  /\ \A p, q \in Proc : Running(p) /\ Running(q) => p = q
  /\ \A i \in DOMAIN journals : journals[i].status \in Unfinished => i = Last

\* The settings a file and a record together say the user wants are o.
Mine(s, rec) == IF s.file.sec = "baseline" THEN rec.orig.sec ELSE s.file.sec
Accounts(s, rec, o) == (s.file.sec = "baseline" => rec.on) /\ Mine(s, rec) = o

\* The baseline is never there without a record of what the user had, but while a
\* rollback that could not put the file back waits to be run again.
Unsettled == ~NoneUnfinished /\ \A p \in Proc : ~Going(p)
Known(h) ==
  /\ host[h].file.sec \in {own[h], "baseline"}
  /\ host[h].file.sec = "baseline" =>
       IF home.rec[h].on THEN home.rec[h].orig.sec = own[h]
       ELSE Unsettled /\ ~Now.home.rec[h].on
Recorded(w) == \A h \in Host : w.rec[h].on => w.rec[h].applied.sec = "baseline"

\* What rolling back the unfinished transaction will leave in host h.
Reverts(h) ==
  LET k == Now.conf[h]  rec == Now.home.rec[h]
  IN /\ k.on = "no" \/ k.back => Accounts(host[h], rec, own[h])
     /\ k.on # "no" =>
          /\ host[h].file.sec = k.signed.file.sec => Accounts(k.before, rec, own[h])
          /\ k.signed.file.sec # "baseline" => Accounts(k.before, rec, k.signed.file.sec)
     /\ rec.on /\ home.rec[h].on => rec.orig.sec = home.rec[h].orig.sec

\* And a committed one, when nothing stands between it and the home that follows.
HomeAt(m) == IF m \in DOMAIN journals THEN journals[m].home ELSE home
Follows(i, m) == i < m /\ \A l \in DOMAIN journals : i < l /\ l < m => journals[l].status = "rolled_back"
Linked(i, m, h) ==
  LET k == journals[i].conf[h]  rec == journals[i].home.rec[h]  next == HomeAt(m).rec[h]
  IN /\ k.on = "no" => next = rec
     /\ k.on # "no" => /\ ~k.back
                       /\ k.signed.file.sec = "baseline" => next.on
                       /\ Accounts(k.before, rec, Mine(k.signed, next))
     /\ rec.on /\ next.on => rec.orig.sec = next.orig.sec

\* A command gives back what it knew to be the user's, and has tracked every settings
\* file before it writes it.
GivesBack(r, h) ==
  r.old.rec[h].on /\ (r.op = "uninstall" \/ h \in r.refresh) => r.old.rec[h].orig.sec = own[h]
Tracked(r, h) ==
  LET on == Now.conf[h].on # "no"
  IN /\ r.stage \in {"confirm"} \union Tracking => ~on
     /\ r.op = "uninstall" /\ r.stage \in {"host"} \union Uninstalling /\ h \in r.left => ~on
     /\ r.stage = "restore" => r.cur \notin r.left /\ (h = r.cur => ~on)
     /\ r.op # "uninstall" /\ r.stage \in {"host"} \union Installing /\ h \in r.hosts => on
     /\ r.stage \in Uninstalling \ {"restore"} /\ h = r.cur => on
     /\ ~on => home.rec[h] = Now.home.rec[h]
Watched(r, h) ==
  LET k == Now.conf[h]  rec == Now.home.rec[h]
  IN /\ k.on # "no" => ~k.back /\ k.signed.file.sec = host[h].file.sec
     /\ rec.on /\ home.rec[h] # rec => rec.orig.sec = own[h]
     /\ r.stage \in Uninstalling \ {"restore"} /\ h = r.cur => host[h].file.sec # "baseline"
Knows(r) ==
  /\ r.stage = "confirm" => home.rec = Now.home.rec
  /\ r.stage # "confirm" => r.old.rec = Now.home.rec
  /\ \A h \in Host : Tracked(r, h)
  /\ \A h \in Host \ window : Watched(r, h)

SettingsInv ==
  /\ TypeInv
  /\ Recorded(home) /\ \A i \in DOMAIN journals : Recorded(journals[i].home)
  /\ \A h \in Host \ window :
       /\ Known(h)
       /\ ~NoneUnfinished => Reverts(h)
       /\ \A i \in DOMAIN journals : \A m \in 1..Last + 1 :
            journals[i].status = "committed" /\ Follows(i, m) => Linked(i, m, h)
  /\ \A p \in Proc :
       /\ proc[p].stage \in {"asked"} \union Steps =>
            \A h \in proc[p].hosts \ window : GivesBack(proc[p], h)
       /\ Going(p) => Knows(proc[p])

============================================================================
