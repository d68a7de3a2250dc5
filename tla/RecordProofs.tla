---------------------------- MODULE RecordProofs ----------------------------
(* What install.json says of the hosts is true, for any number of hosts,       *)
(* commands, files and failures, as long as no failed undo is tried again.     *)
(*                                                                             *)
(* RecordInv follows the record of each host through a transaction: the host   *)
(* shows what the home of the newest journal records, or the undo commands     *)
(* that wait and the files that were kept lead back there (Undoable), or the   *)
(* rollback can never be completed (Stuck).  Forward says how far the command  *)
(* that holds the lock has come with the host; Marches is what its steps have  *)
(* in common, and MarchKeeps that such a step keeps RecordInv.                 *)
EXTENDS InstallProofs

\* What home w records of host h, the host shows; and the record itself is sound.
Shown(w, h, s) ==
  IF h \in w.hosts
  THEN s.file.market = w.src[h] /\ s.file.plugin = "on" /\ Listed(h, s) = w.path[h]
  ELSE s.file.market = NoSource /\ s.file.plugin = "absent"
Sound(w, h) ==
  /\ w.hosts # {} => w.current = w.version
  /\ h \in w.hosts => /\ w.path[h] \in Version /\ w.src[h].ver = w.path[h]
                      /\ w.src[h].from \in {"tag", "dir"}
                      /\ w.src[h].from = "dir" => w.path[h] \in w.runtimes
  /\ w.rec[h].on => h \in w.hosts /\ w.rec[h].orig.market = w.src[h] /\ w.rec[h].orig.plugin = "on"

\* The undo commands of host h that wait, which it has at all, and how they must be
\* queued: first what brings the plugin back, last what takes the marketplace away.
Waits(j, h, op) ==
  \E k \in DOMAIN j.undo : j.undo[k].cmd.host = h /\ j.undo[k].cmd.op = op /\ j.undo[k].state = "ready"
Only(j, h, ops) == \A k \in DOMAIN j.undo : j.undo[k].cmd.host = h => j.undo[k].cmd.op \in ops
Roots == {"plugin add", "select"}
Rank(op) == IF op \in Roots THEN 1 ELSE IF op = "market add" THEN 2 ELSE 3
Ordered(j, h) ==
  \A k, l \in DOMAIN j.undo :
    /\ j.undo[k].cmd.host = h /\ j.undo[l].cmd.host = h
    /\ Rank(j.undo[k].cmd.op) < Rank(j.undo[l].cmd.op)
    => k < l
Brings(c, h, v) ==
  /\ c.op \in Roots \union {"market add", "market remove"}
  /\ c.op \in {"market add", "select"} => c.src.ver = v
  /\ c.op = "select" => h \in DirHosts
Aimed(j, h) ==
  \A k \in DOMAIN j.undo : j.undo[k].cmd.host = h => Brings(j.undo[k].cmd, h, j.home.path[h])
\* The commands that wait lead from what the host is to the version of the record.
Leads(j, h, s) ==
  LET v == j.home.path[h] IN
  /\ Waits(j, h, "plugin add") \/ Waits(j, h, "select") \/ Listed(h, s) = v
  /\ Waits(j, h, "plugin add") /\ ~Waits(j, h, "market add") => s.file.market.ver = v
  /\ Waits(j, h, "market add") /\ ~Waits(j, h, "market remove") =>
       s.file.market = NoSource \/ s.file.market.ver = v
  /\ Waits(j, h, "market remove") => /\ Waits(j, h, "market add")
                                     /\ h \in DirHosts \/ Waits(j, h, "plugin add")
Way(j, h, s) == Aimed(j, h) /\ Ordered(j, h) /\ Leads(j, h, s)

\* What a rollback of j would leave in a host that is s, as the home of j records it.
Before(w, h, f) ==
  /\ f.market = IF h \in w.hosts THEN w.src[h] ELSE NoSource
  /\ f.plugin = IF h \in w.hosts THEN "on" ELSE "absent"
Undoable(j, h, s) ==
  LET c == j.conf[h]  w == j.home IN
  \/ Skewed(j, h)
  \/ /\ c.on = "no" => Only(j, h, {})
     /\ c.on = "no" \/ c.back => Shown(w, h, s)
     /\ c.on = "all" /\ ~c.back => Shown(w, h, c.before)
     /\ c.on = "file" /\ ~c.back => Before(w, h, c.before.file) /\ (h \in w.hosts => Way(j, h, s))

\* A rollback that cannot be completed, and what one under way has found so far.
AllDone(j) == \A k \in DOMAIN j.undo : j.undo[k].state = "done"
AllReady(j) == \A k \in DOMAIN j.undo : j.undo[k].state = "ready"
Clean(j) == AllReady(j) /\ NoneBack(j)
Stuck(j, hs) ==
  \/ \E k \in DOMAIN j.undo : j.undo[k].state \in {"running", "failed"}
  \/ \E h \in Host : ~j.conf[h].back /\ ~Same(j.conf[h], hs[h])
Undoing(r, j, hs) ==
  /\ r.bad => Stuck(j, hs)
  /\ ~r.bad => \A l \in DOMAIN j.undo : l > r.k => j.undo[l].state = "done"
  /\ \A l \in DOMAIN j.undo : l <= r.k => j.undo[l].state # "failed"

\* Where host h stands in the command r: not reached yet, worked on, or done with.
New(r) == IF r.local THEN Dir(r.ver) ELSE Tag(r.ver)
AtWork(r, h) == r.stage \in InHost \ {"prepare", "restore"} /\ h = r.cur
Waiting(r, h) ==
  \/ r.stage \in {"files", "track"} \/ h \notin r.hosts
  \/ r.stage \in {"host"} \union InHost /\ h \in r.left
  \/ h = r.cur /\ r.stage \in {"prepare", "restore"}
Worked(r, j, h, s) ==
  LET w == j.home  m == s.file.market  rep == Replaces(r, h) IN
  /\ r.stage = "unplug" => Shown(w, h, s) /\ Only(j, h, {})
  /\ r.stage = "unmarket" =>
       m = w.src[h] /\ s.file.plugin = "absent" /\ Waits(j, h, "plugin add") /\ Only(j, h, Roots)
  /\ r.stage = "gone" =>
       m = NoSource /\ s.file.plugin = "absent" /\ Waits(j, h, "plugin add")
  /\ r.stage = "select" => rep /\ ~r.restart
  /\ r.stage \in Installing /\ rep =>
       /\ IF r.restart THEN j.conf[h].on = "all"
          ELSE /\ j.conf[h].on = "file"
               /\ Waits(j, h, IF h \in DirHosts THEN "select" ELSE "plugin add")
               /\ r.stage \in {"select", "remove"} => Only(j, h, Roots)
               /\ r.stage = "add" => Only(j, h, Roots \union {"market add"})
               /\ r.stage \notin {"select", "remove"} => Waits(j, h, "market add")
       /\ r.stage \in {"select", "remove"} => m = w.src[h]
       /\ r.stage = "add" => m = NoSource
       /\ r.stage \in {"drop", "plug", "verify"} => m = New(r)
  /\ r.stage \in Installing /\ ~rep =>
       IF h \in w.hosts \/ r.stage \in {"remove", "add"} THEN Shown(w, h, s) /\ Only(j, h, {})
       ELSE m = New(r)
Ended(r, j, m, h, s) ==
  IF r.op = "uninstall"
  THEN s.file.market = NoSource /\ s.file.plugin = "absent" /\ ~m.rec[h].on /\ Waits(j, h, "plugin add")
  ELSE /\ s.file.plugin = "on" /\ Listed(h, s) = r.ver /\ s.file.market = r.src[h]
       /\ r.src[h].ver = r.ver /\ r.src[h].from \in {"tag", "dir"}
RecordKept(r, w, m, h, s) ==
  m.rec[h].on =>
    /\ \/ h = r.cur /\ r.stage \in {"unplug", "unmarket", "gone"}
       \/ m.rec[h].orig.market = s.file.market /\ m.rec[h].orig.plugin = "on"
    /\ h \in w.hosts \union r.hosts
    /\ h \in r.hosts /\ r.op # "uninstall" /\ r.stage \in {"host"} \union InHost =>
         h \in w.hosts /\ ~Replaces(r, h)
HomeHeld(r, w, m) ==
  /\ m.hosts = w.hosts /\ m.src = w.src /\ m.path = w.path /\ m.version = w.version
  /\ IF r.op = "uninstall" \/ r.stage = "files" THEN m.current = w.current /\ m.runtimes = w.runtimes
     ELSE m.current = r.ver /\ m.runtimes = w.runtimes \union {r.ver}
Told(r, w, h) ==
  h \in r.hosts => IF h \in w.hosts THEN r.inv[h] = [market |-> w.src[h], plugin |-> "on", version |-> w.path[h]]
                   ELSE r.inv[h].market = NoSource /\ r.inv[h].plugin = "absent"
\* What a command remembers of install.json is what w holds of it.
Recalled(r, w) ==
  /\ r.old.version = w.version /\ r.old.hosts = w.hosts /\ r.old.src = w.src
  /\ r.old.path = w.path /\ r.old.rec = w.rec /\ r.old.ptr = w.ptr
Forward(r, j, m, h, s) ==
  LET w == j.home IN
  /\ r.stage = "confirm" => m = w /\ Shown(w, h, s) /\ Only(j, h, {}) /\ j.conf[h].on = "no"
  /\ r.stage # "confirm" => Recalled(r, w) /\ Told(r, w, h)
  /\ r.stage \notin {"confirm", "commit"} =>
       /\ HomeHeld(r, w, m) /\ RecordKept(r, w, m, h, s)
       /\ r.op = "uninstall" => r.hosts \subseteq w.hosts
       /\ r.stage \in {"files", "track"} => r.left = r.hosts
       /\ r.stage \in InHost => r.cur \notin r.left
       /\ Waiting(r, h) => Shown(w, h, s) /\ Only(j, h, {}) /\ j.conf[h].on # "all"
       /\ AtWork(r, h) => Worked(r, j, h, s)
       /\ Waiting(r, h) \/ AtWork(r, h) \/ Ended(r, j, m, h, s)
  /\ r.stage = "commit" =>
       /\ Shown(m, h, s) /\ Sound(m, h)
       /\ h \in w.hosts \ m.hosts => Waits(j, h, "plugin add")

\* A registered version is in the cache.  What a command was asked to do does not change.
RegHeld(h, s) == h \notin DirHosts /\ s.reg # 0 => s.dirs[s.reg] # "none"
Static(r) ==
  r.stage \in {"asked"} \union Steps =>
    IF r.op = "uninstall" THEN r.hosts \subseteq r.old.hosts ELSE r.refresh = Refreshed(r)
KeptHeld(j) == \A h \in Host : j.conf[h].on # "no" => RegHeld(h, j.conf[h].before)

HostLinked(j, w, h) == \A s \in HostState : Shown(w, h, s) => Undoable(j, h, s)
Linking(h) ==
  \A i \in DOMAIN journals : \A m \in 1..Last + 1 :
    journals[i].status = "committed" /\ Follows(i, m) => HostLinked(journals[i], HomeAt(m), h)
HostTrue(h) ==
  /\ \A i \in DOMAIN journals : Sound(journals[i].home, h)
  /\ NoneUnfinished => Sound(home, h) /\ Shown(home, h, host[h])
  /\ ~NoneUnfinished => Undoable(Now, h, host[h]) \/ (Stuck(Now, host) /\ \A p \in Proc : ~Going(p))
  /\ \A p \in Proc : Going(p) => Forward(proc[p], Now, home, h, host[h])
  /\ Linking(h)
RecordInv ==
  used.edits = 0 =>
    /\ \A h \in Host : RegHeld(h, host[h])
    /\ \A i \in DOMAIN journals :
         KeptHeld(journals[i]) /\ (journals[i].status = "committed" => Clean(journals[i]))
    /\ ~NoneUnfinished => NoneBack(Now) \/ Stuck(Now, host) \/ AllDone(Now)
    /\ \A p \in Proc : /\ Static(proc[p])
                       /\ proc[p].stage = "undo" => Undoing(proc[p], Now, host)
                       /\ Going(p) => Clean(Now)
    /\ \A h \in Host \ shifted : HostTrue(h)

----------------------------------------------------------------------------
(* What the native commands do to a host's marketplace, plugin and listing. *)

LEMMA SameListed ==
  ASSUME NEW h, NEW s, NEW t, t.reg = s.reg, t.dirs = s.dirs
  PROVE  Listed(h, t) = Listed(h, s) /\ (RegHeld(h, s) => RegHeld(h, t))
BY DEF Listed, Real, RegHeld

LEMMA OnlyReal ==
  ASSUME InstallAssumption, NEW h \in DirHosts, NEW s, NEW v \in Version, Real(s) = {v}
  PROVE  Listed(h, s) = v
<1>1. v \in Nat /\ Real(s) \in SUBSET Nat /\ Real(s) # {} /\ \A n \in Real(s) : n <= v
  BY Bounds DEF Version
<1>2. Largest(Real(s)) \in Real(s)
  BY <1>1, LargestFound
<1> QED
  BY <1>2 DEF Listed

LEMMA AddedListed ==
  ASSUME InstallAssumption, NEW h \in Host, NEW s \in HostState
  PROVE  LET t == PluginAdded(h, s)
         IN /\ t.file.market = s.file.market /\ t.file.plugin = "on"
            /\ s.file.market.ver \in Version => Listed(h, t) = s.file.market.ver
            /\ RegHeld(h, t)
<1> DEFINE v == s.file.market.ver
           tree == IF s.file.market.from = "user" THEN "other" ELSE "dir"
           t == PluginAdded(h, s)
<1>1. v \in 0..MaxVersion /\ tree \in {"dir", "other"}
  BY DEF HostState, File, Source
<1>2. t.file.market = s.file.market /\ t.file.plugin = "on"
  BY DEF PluginAdded, HostState, File
<1>3. CASE h \in DirHosts
  <2>1. t.dirs = [w \in Version |-> IF w = v THEN tree ELSE "none"]
    BY <1>3 DEF PluginAdded, HostState
  <2> HIDE DEF t
  <2>2. v \in Version => Real(t) = {v}
    BY <1>1, <2>1 DEF Real
  <2>3. v \in Version => Listed(h, t) = v
    BY <1>3, <2>2, OnlyReal
  <2> QED
    BY <1>2, <1>3, <2>3 DEF RegHeld, t
<1>4. CASE h \notin DirHosts
  <2>1. t.reg = v /\ (v \in Version => t.dirs[v] = tree)
    BY <1>4 DEF PluginAdded, HostState
  <2>2. v # 0 => v \in Version
    BY <1>1, Bounds DEF Version
  <2> HIDE DEF t
  <2>3. RegHeld(h, t) /\ Listed(h, t) = v
    BY <1>1, <1>4, <2>1, <2>2 DEF RegHeld, Listed
  <2> QED
    BY <1>2, <2>3 DEF t
<1> QED
  BY <1>3, <1>4

LEMMA SelectedKeeps ==
  ASSUME InstallAssumption, NEW h \in Host, NEW s \in HostState, NEW v, NEW S
  PROVE  LET t == Selected(s, v, S)
         IN t.file = s.file /\ (RegHeld(h, s) => RegHeld(h, t))
<1> DEFINE t == Selected(s, v, S)
<1>1. t.file = s.file /\ t.reg = s.reg /\ t.dirs = [w \in Version |-> IF w = v THEN "dir" ELSE IF w \in S THEN "alias" ELSE s.dirs[w]]
  BY DEF Selected, HostState
<1>2. s.reg # 0 => s.reg \in Version
  BY Bounds DEF HostState, Version
<1> HIDE DEF t
<1> QED
  BY <1>1, <1>2 DEF RegHeld, t

LEMMA SelectedListed ==
  ASSUME InstallAssumption, NEW h \in DirHosts, NEW s \in HostState, NEW v \in Version
  PROVE  Listed(h, Selected(s, v, Others(s, v))) = v
<1> DEFINE t == Selected(s, v, Others(s, v))
<1>1. t.dirs = [w \in Version |-> IF w = v THEN "dir" ELSE IF w \in Others(s, v) THEN "alias" ELSE s.dirs[w]]
  BY DEF Selected, HostState
<1> HIDE DEF t
<1>2. Real(t) = {v}
  BY <1>1 DEF Real, Others
<1> QED
  BY <1>2, OnlyReal DEF t

LEMMA MarketEffects ==
  ASSUME InstallAssumption, NEW h \in Host, NEW s \in HostState, NEW src \in Source
  PROVE  /\ LET t == [s EXCEPT !.file.market = src]
            IN /\ t.file.market = src /\ t.file.plugin = s.file.plugin
               /\ Listed(h, t) = Listed(h, s) /\ (RegHeld(h, s) => RegHeld(h, t))
         /\ LET t == MarketRemoved(h, s)
            IN /\ t.file.market = NoSource /\ (h \in DirHosts => t.file.plugin = s.file.plugin)
               /\ t.file.plugin \in {"absent", s.file.plugin}
               /\ (h \in DirHosts => Listed(h, t) = Listed(h, s)) /\ (RegHeld(h, s) => RegHeld(h, t))
         /\ LET t == PluginRemoved(h, s)
            IN t.file.market = s.file.market /\ t.file.plugin = "absent" /\ RegHeld(h, t)
<1>1. LET t == [s EXCEPT !.file.market = src]
      IN t.file.market = src /\ t.file.plugin = s.file.plugin /\ t.reg = s.reg /\ t.dirs = s.dirs
  BY DEF HostState, File
<1>2. LET t == MarketRemoved(h, s)
      IN /\ t.file.market = NoSource /\ (h \in DirHosts => t.file.plugin = s.file.plugin)
         /\ t.file.plugin \in {"absent", s.file.plugin}
         /\ t.reg \in {0, s.reg} /\ (h \in DirHosts => t.reg = s.reg) /\ t.dirs = s.dirs
  BY DEF MarketRemoved, HostState, File
<1>3. LET t == PluginRemoved(h, s)
      IN t.file.market = s.file.market /\ t.file.plugin = "absent" /\ t.reg = 0
  BY DEF PluginRemoved, HostState, File
<1>4. PICK a : a = [s EXCEPT !.file.market = src]
  OBVIOUS
<1>5. PICK b : b = MarketRemoved(h, s)
  OBVIOUS
<1>6. Listed(h, a) = Listed(h, s) /\ (RegHeld(h, s) => RegHeld(h, a))
  <2>1. a.reg = s.reg /\ a.dirs = s.dirs
    BY <1>1, <1>4
  <2> QED
    BY <2>1, SameListed
<1>7. (h \in DirHosts => Listed(h, b) = Listed(h, s)) /\ (RegHeld(h, s) => RegHeld(h, b))
  BY <1>2, <1>5 DEF Listed, Real, RegHeld
<1>8. RegHeld(h, PluginRemoved(h, s))
  BY <1>3 DEF RegHeld
<1> QED
  BY <1>1, <1>2, <1>3, <1>4, <1>5, <1>6, <1>7, <1>8

LEMMA RemovedSays ==
  ASSUME NEW h, NEW s \in HostState
  PROVE  /\ MarketRemoved(h, s).file.market = NoSource
         /\ MarketRemoved(h, s).file.plugin \in {"absent", s.file.plugin}
         /\ PluginRemoved(h, s).file.market = s.file.market /\ PluginRemoved(h, s).file.plugin = "absent"
<1>1. MarketRemoved(h, s).file.market = NoSource /\ MarketRemoved(h, s).file.plugin \in {"absent", s.file.plugin}
  BY DEF MarketRemoved, HostState, File
<1>2. PluginRemoved(h, s).file.market = s.file.market /\ PluginRemoved(h, s).file.plugin = "absent"
  BY DEF PluginRemoved, HostState, File
<1> QED
  BY <1>1, <1>2

\* Whatever a native command does, what is registered stays in the cache.
LEMMA EffectHeld ==
  ASSUME InstallAssumption, NEW c \in Command, NEW s \in HostState, RegHeld(c.host, s)
  PROVE  RegHeld(c.host, Effect(c, s))
<1>1. c.host \in Host /\ c.src \in Source
  BY DEF Command
<1>2. CASE c.op = "market add"
  BY <1>1, <1>2, MarketEffects DEF Effect
<1>3. CASE c.op = "market remove"
  BY <1>1, <1>3, MarketEffects, Bounds DEF Effect
<1>4. CASE c.op = "plugin add"
  BY <1>1, <1>4, AddedListed DEF Effect
<1>5. CASE c.op = "plugin remove"
  BY <1>1, <1>5, MarketEffects, Bounds DEF Effect
<1>6. CASE c.op = "select"
  BY <1>1, <1>6, SelectedKeeps DEF Effect
<1> QED
  BY <1>2, <1>3, <1>4, <1>5, <1>6 DEF Command

----------------------------------------------------------------------------
(* The queue of undo commands. *)

LEMMA QueueEntries ==
  ASSUME NEW j \in Journal, NEW c \in Command
  PROVE  /\ Len(j.undo) \in Nat /\ DOMAIN j.undo = 1..Len(j.undo) /\ DOMAIN Queue(j, c).undo = 1..Len(j.undo) + 1
         /\ Queue(j, c).undo[Len(j.undo) + 1].cmd = c /\ Queue(j, c).undo[Len(j.undo) + 1].state = "ready"
         /\ \A k \in DOMAIN j.undo : k \in DOMAIN Queue(j, c).undo /\ Queue(j, c).undo[k] = j.undo[k]
<1> DEFINE e == [cmd |-> c, state |-> "ready"]  u == Append(j.undo, e)
<1>1. j.undo \in Seq(Undo) /\ e \in Undo /\ e.cmd = c /\ e.state = "ready"
  BY DEF Journal, Undo
<1>2. Queue(j, c).undo = u
  BY DEF Queue, Journal
<1> HIDE DEF e
<1>3. u[Len(j.undo) + 1] = e /\ Len(u) = Len(j.undo) + 1 /\ Len(j.undo) \in Nat
      /\ DOMAIN u = 1..Len(j.undo) + 1 /\ DOMAIN j.undo = 1..Len(j.undo)
      /\ \A k \in DOMAIN j.undo : u[k] = j.undo[k]
  BY <1>1
<1> HIDE DEF u
<1> QED
  BY <1>1, <1>2, <1>3

LEMMA QueueBase ==
  ASSUME NEW j \in Journal, NEW c \in Command
  PROVE  /\ Queue(j, c).home = j.home /\ Queue(j, c).conf = j.conf
         /\ AllReady(j) => AllReady(Queue(j, c))
<1> DEFINE n == Len(j.undo)
<1>1. PICK q : q = Queue(j, c)
  OBVIOUS
<1>2. /\ n \in Nat /\ DOMAIN j.undo = 1..n /\ DOMAIN q.undo = 1..n + 1
      /\ q.undo[n + 1].cmd = c /\ q.undo[n + 1].state = "ready"
      /\ \A k \in DOMAIN j.undo : k \in DOMAIN q.undo /\ q.undo[k] = j.undo[k]
  BY <1>1, QueueEntries
<1>3. n + 1 \in DOMAIN q.undo /\ \A k \in DOMAIN q.undo : k \in DOMAIN j.undo \/ k = n + 1
  BY <1>2
<1>4. q.home = j.home /\ q.conf = j.conf
  BY <1>1, QueueDoes
<1> HIDE DEF n
<1>5. AllReady(j) => AllReady(q)
  BY <1>2, <1>3 DEF AllReady
<1> QED
  BY <1>1, <1>4, <1>5

LEMMA QueueWaits ==
  ASSUME NEW j \in Journal, NEW c \in Command, NEW h, NEW op
  PROVE  Waits(Queue(j, c), h, op) <=> Waits(j, h, op) \/ (c.host = h /\ c.op = op)
<1> DEFINE n == Len(j.undo)
<1>1. PICK q : q = Queue(j, c)
  OBVIOUS
<1>2. /\ n \in Nat /\ DOMAIN j.undo = 1..n /\ DOMAIN q.undo = 1..n + 1
      /\ q.undo[n + 1].cmd = c /\ q.undo[n + 1].state = "ready"
      /\ \A k \in DOMAIN j.undo : k \in DOMAIN q.undo /\ q.undo[k] = j.undo[k]
  BY <1>1, QueueEntries
<1>3. n + 1 \in DOMAIN q.undo /\ \A k \in DOMAIN q.undo : k \in DOMAIN j.undo \/ k = n + 1
  BY <1>2
<1> HIDE DEF n
<1>4. Waits(q, h, op) <=> Waits(j, h, op) \/ (c.host = h /\ c.op = op)
  BY <1>2, <1>3 DEF Waits
<1> QED
  BY <1>1, <1>4

LEMMA QueueOnly ==
  ASSUME NEW j \in Journal, NEW c \in Command, NEW h, NEW ops
  PROVE  Only(Queue(j, c), h, ops) <=> Only(j, h, ops) /\ (c.host = h => c.op \in ops)
<1> DEFINE n == Len(j.undo)
<1>1. PICK q : q = Queue(j, c)
  OBVIOUS
<1>2. /\ n \in Nat /\ DOMAIN j.undo = 1..n /\ DOMAIN q.undo = 1..n + 1
      /\ q.undo[n + 1].cmd = c /\ q.undo[n + 1].state = "ready"
      /\ \A k \in DOMAIN j.undo : k \in DOMAIN q.undo /\ q.undo[k] = j.undo[k]
  BY <1>1, QueueEntries
<1>3. n + 1 \in DOMAIN q.undo /\ \A k \in DOMAIN q.undo : k \in DOMAIN j.undo \/ k = n + 1
  BY <1>2
<1> HIDE DEF n
<1>4. Only(q, h, ops) <=> Only(j, h, ops) /\ (c.host = h => c.op \in ops)
  BY <1>2, <1>3 DEF Only
<1> QED
  BY <1>1, <1>4

LEMMA QueueAimed ==
  ASSUME NEW j \in Journal, NEW c \in Command, NEW h
  PROVE  Aimed(Queue(j, c), h) <=> Aimed(j, h) /\ (c.host = h => Brings(c, h, j.home.path[h]))
<1> DEFINE n == Len(j.undo)
<1>1. PICK q : q = Queue(j, c)
  OBVIOUS
<1>2. /\ n \in Nat /\ DOMAIN j.undo = 1..n /\ DOMAIN q.undo = 1..n + 1
      /\ q.undo[n + 1].cmd = c /\ q.undo[n + 1].state = "ready"
      /\ \A k \in DOMAIN j.undo : k \in DOMAIN q.undo /\ q.undo[k] = j.undo[k]
  BY <1>1, QueueEntries
<1>3. n + 1 \in DOMAIN q.undo /\ \A k \in DOMAIN q.undo : k \in DOMAIN j.undo \/ k = n + 1
  BY <1>2
<1>4. q.home = j.home
  BY <1>1, QueueBase
<1> HIDE DEF n
<1>5. Aimed(q, h) <=> Aimed(j, h) /\ (c.host = h => Brings(c, h, j.home.path[h]))
  BY <1>2, <1>3, <1>4 DEF Aimed
<1> QED
  BY <1>1, <1>5

LEMMA QueueSkewed ==
  ASSUME NEW j \in Journal, NEW c \in Command, NEW h
  PROVE  Skewed(Queue(j, c), h) <=>
           Skewed(j, h) \/ (/\ j.conf[h].on = "file" /\ c.host = h
                            /\ c.op = "market add" /\ c.src.ver # j.home.path[h])
<1> DEFINE n == Len(j.undo)
<1>1. PICK q : q = Queue(j, c)
  OBVIOUS
<1>2. /\ n \in Nat /\ DOMAIN j.undo = 1..n /\ DOMAIN q.undo = 1..n + 1
      /\ q.undo[n + 1].cmd = c /\ q.undo[n + 1].state = "ready"
      /\ \A k \in DOMAIN j.undo : k \in DOMAIN q.undo /\ q.undo[k] = j.undo[k]
  BY <1>1, QueueEntries
<1>3. n + 1 \in DOMAIN q.undo /\ \A k \in DOMAIN q.undo : k \in DOMAIN j.undo \/ k = n + 1
  BY <1>2
<1>4. q.home = j.home /\ q.conf = j.conf
  BY <1>1, QueueBase
<1> HIDE DEF n
<1>5. Skewed(q, h) <=> Skewed(j, h) \/ (/\ j.conf[h].on = "file" /\ c.host = h
                                        /\ c.op = "market add" /\ c.src.ver # j.home.path[h])
  BY <1>2, <1>3, <1>4 DEF Skewed
<1> QED
  BY <1>1, <1>5

\* A command queued last does not disturb the order if none of a higher rank is there.
LEMMA QueueOrdered ==
  ASSUME NEW j \in Journal, NEW c \in Command, NEW h, Ordered(j, h),
         c.host = h => \E ops : Only(j, h, ops) /\ \A op \in ops : Rank(op) <= Rank(c.op)
  PROVE  Ordered(Queue(j, c), h)
<1> DEFINE q == Queue(j, c)  n == Len(j.undo)
<1>1. /\ n \in Nat /\ DOMAIN j.undo = 1..n /\ DOMAIN q.undo = 1..n + 1
      /\ q.undo[n + 1].cmd = c
      /\ \A k \in DOMAIN j.undo : k \in DOMAIN q.undo /\ q.undo[k] = j.undo[k]
  BY QueueEntries
<1> HIDE DEF q, n
<1> SUFFICES ASSUME NEW k \in DOMAIN q.undo, NEW l \in DOMAIN q.undo,
                    q.undo[k].cmd.host = h, q.undo[l].cmd.host = h,
                    Rank(q.undo[k].cmd.op) < Rank(q.undo[l].cmd.op)
             PROVE  k < l
  BY DEF Ordered, q
<1>2. CASE k \in DOMAIN j.undo /\ l \in DOMAIN j.undo
  BY <1>1, <1>2 DEF Ordered
<1>3. CASE k = n + 1 /\ l \in DOMAIN j.undo
  <2>1. c.host = h /\ q.undo[l].cmd = j.undo[l].cmd
    BY <1>1, <1>3
  <2>2. PICK ops : Only(j, h, ops) /\ \A op \in ops : Rank(op) <= Rank(c.op)
    BY <2>1
  <2>3. Rank(q.undo[l].cmd.op) <= Rank(c.op)
    BY <1>3, <2>1, <2>2 DEF Only
  <2>4. Rank(q.undo[l].cmd.op) \in Nat /\ Rank(c.op) \in Nat
    BY DEF Rank
  <2> QED
    BY <1>1, <1>3, <2>3, <2>4
<1>4. CASE l = n + 1
  <2>1. Rank(q.undo[l].cmd.op) \in Nat
    BY DEF Rank
  <2>2. k # l
    BY <2>1
  <2> QED
    BY <1>1, <1>4, <2>2
<1> QED
  BY <1>1, <1>2, <1>3, <1>4

\* What is said of a host stays when the queue of another one grows and its own
\* part of the journal is as it was.
Kin(j, k, h) ==
  /\ k.home = j.home /\ k.conf[h].on = j.conf[h].on /\ k.conf[h].before = j.conf[h].before
  /\ k.conf[h].back = j.conf[h].back
  /\ k.undo = j.undo \/ \E i \in Journal, c \in Command :
       i.undo = j.undo /\ i.home = j.home /\ i.conf[h].on = j.conf[h].on /\ c.host # h /\ k.undo = Queue(i, c).undo

LEMMA KinSays ==
  ASSUME NEW j \in Journal, NEW k, NEW h, Kin(j, k, h)
  PROVE  /\ \A op : Waits(k, h, op) <=> Waits(j, h, op)
         /\ \A ops : Only(k, h, ops) <=> Only(j, h, ops)
         /\ \A s : Undoable(k, h, s) <=> Undoable(j, h, s)
<1>1. SUFFICES /\ \A op : Waits(k, h, op) <=> Waits(j, h, op)
               /\ \A ops : Only(k, h, ops) <=> Only(j, h, ops)
               /\ Aimed(k, h) <=> Aimed(j, h)
               /\ Ordered(k, h) <=> Ordered(j, h)
               /\ Skewed(k, h) <=> Skewed(j, h)
  <2>1. ASSUME NEW s PROVE Leads(k, h, s) <=> Leads(j, h, s)
    BY <1>1 DEF Leads, Kin
  <2>2. ASSUME NEW s PROVE Undoable(k, h, s) <=> Undoable(j, h, s)
    BY <1>1, <2>1 DEF Undoable, Way, Kin
  <2> QED
    BY <1>1, <2>2
<1>2. CASE k.undo = j.undo
  BY <1>2 DEF Waits, Only, Aimed, Ordered, Skewed, Kin
<1>3. ASSUME NEW i \in Journal, NEW c \in Command, i.undo = j.undo, i.home = j.home, i.conf[h].on = j.conf[h].on, c.host # h,
             k.undo = Queue(i, c).undo
      PROVE  /\ \A op : Waits(k, h, op) <=> Waits(j, h, op)
             /\ \A ops : Only(k, h, ops) <=> Only(j, h, ops)
             /\ Aimed(k, h) <=> Aimed(j, h)
             /\ Ordered(k, h) <=> Ordered(j, h)
             /\ Skewed(k, h) <=> Skewed(j, h)
  <2>1. /\ DOMAIN j.undo = 1..Len(j.undo) /\ Len(j.undo) \in Nat /\ DOMAIN k.undo = 1..Len(j.undo) + 1
        /\ k.undo[Len(j.undo) + 1].cmd = c
        /\ \A l \in DOMAIN j.undo : l \in DOMAIN k.undo /\ k.undo[l] = j.undo[l]
    BY <1>3, QueueEntries
  <2>2. \A l \in DOMAIN k.undo : k.undo[l].cmd.host = h => l \in DOMAIN j.undo
    BY <1>3, <2>1
  <2>3. \A op : Waits(k, h, op) <=> Waits(j, h, op)
    BY <2>1, <2>2 DEF Waits
  <2>4. \A ops : Only(k, h, ops) <=> Only(j, h, ops)
    BY <2>1, <2>2 DEF Only
  <2>5. Aimed(k, h) <=> Aimed(j, h)
    BY <2>1, <2>2 DEF Aimed, Kin
  <2>6. Ordered(k, h) <=> Ordered(j, h)
    BY <2>1, <2>2 DEF Ordered
  <2>7. Skewed(k, h) <=> Skewed(j, h)
    BY <2>1, <2>2 DEF Skewed, Kin
  <2> QED
    BY <2>3, <2>4, <2>5, <2>6, <2>7
<1> QED
  BY <1>2, <1>3 DEF Kin

----------------------------------------------------------------------------
(* A step of a command before its commit. *)

Marches(p, j) ==
  /\ Going(p) /\ \A q \in Proc \ {p} : proc'[q] = proc[q]
  /\ Save(j) \/ (j = Now /\ UNCHANGED journals)
  /\ j.status = Now.status /\ j.home = Now.home /\ Clean(j) /\ KeptHeld(j)
  /\ UNCHANGED shifted /\ used'.edits = used.edits
  /\ \A h \in Host : RegHeld(h, host'[h])
  /\ Static(proc'[p])
  /\ proc'[p].stage = "undo" => proc'[p].k = Len(j.undo) /\ ~proc'[p].bad
  /\ \A h \in Host \ shifted :
       /\ Undoable(j, h, host'[h])
       /\ proc'[p].stage \in Steps => Forward(proc'[p], j, home', h, host'[h])

LEMMA RecordLinksStay ==
  ASSUME TypeInv, journals # <<>>, NEW j, Save(j) \/ (j = Now /\ UNCHANGED journals),
         Now.status \in Unfinished, j.status \in Unfinished, j.home = Now.home,
         NEW h \in Host, Linking(h)
  PROVE  Linking(h)'
<1>1. /\ Last' = Last /\ DOMAIN journals' = DOMAIN journals /\ DOMAIN journals = 1..Last /\ Last \in Nat
      /\ \A n \in DOMAIN journals : journals'[n] = IF n = Last THEN j ELSE journals[n]
  <2>1. DOMAIN journals = 1..Last /\ Last \in Nat
    BY DEF TypeInv, TypeOK, Last
  <2> QED
    BY <2>1, SavedIs DEF TypeInv
<1> SUFFICES ASSUME NEW i \in DOMAIN journals', NEW m \in 1..Last' + 1,
                    journals'[i].status = "committed", Follows(i, m)'
             PROVE  HostLinked(journals'[i], HomeAt(m)', h)
  BY DEF Linking
<1>2. i # Last /\ i < Last /\ journals'[i] = journals[i]
  BY <1>1 DEF Unfinished
<1>3. m # Last + 1
  BY <1>1, <1>2 DEF Follows, Unfinished
<1>4. m \in DOMAIN journals /\ HomeAt(m)' = HomeAt(m)
  BY <1>1, <1>3 DEF HomeAt, Now
<1>5. Follows(i, m)
  BY <1>1, <1>4 DEF Follows, Unfinished
<1> QED
  BY <1>1, <1>2, <1>4, <1>5 DEF Linking

LEMMA MarchKeeps ==
  ASSUME SettingsInv, RecordInv, NEW p \in Proc, NEW j, Marches(p, j)
  PROVE  RecordInv'
<1> SUFFICES ASSUME used'.edits = 0 PROVE RecordInv'
  BY DEF RecordInv
<1>1. used.edits = 0
  BY DEF Marches
<1>2. Running(p) /\ TypeInv
  BY DEF Marches, Going, Running, Steps, SettingsInv
<1>3. /\ TypeOK /\ journals # <<>> /\ Now.status = "active" /\ Last \in DOMAIN journals
      /\ \A q \in Proc \ {p} : ~Running(q)
  BY <1>2, RunFacts
<1>4. /\ Last' = Last /\ Now' = j /\ DOMAIN journals' = DOMAIN journals
      /\ \A i \in DOMAIN journals : journals'[i] = IF i = Last THEN j ELSE journals[i]
  BY <1>3, SavedIs DEF Marches
<1>5. j.status = "active" /\ j.home = Now.home /\ Now = journals[Last] /\ shifted' = shifted
  BY <1>3 DEF Marches, Now
<1>6. ~NoneUnfinished' /\ ~NoneUnfinished
  BY <1>3, <1>4, <1>5 DEF NoneUnfinished, Unfinished
<1>7. \A q \in Proc \ {p} : proc'[q] = proc[q] /\ proc'[q].stage \notin {"undo"} \union Steps
  BY <1>3 DEF Marches, Running, Steps
<1>8. \A i \in DOMAIN journals' :
        KeptHeld(journals'[i]) /\ (journals'[i].status = "committed" => Clean(journals'[i]))
  BY <1>1, <1>4 DEF RecordInv, Marches
<1>9. NoneBack(j)
  BY DEF Marches, Clean
<1>10. ASSUME NEW q \in Proc
       PROVE  /\ Static(proc'[q]) /\ (Going(q)' => Clean(j))
              /\ proc'[q].stage = "undo" => Undoing(proc'[q], j, host')
  <2>1. CASE q = p
    <3>1. proc'[p].stage = "undo" => Undoing(proc'[p], j, host')
      BY SMT DEF Marches, Undoing, Clean, AllReady
    <3> QED
      BY <2>1, <3>1 DEF Marches
  <2>2. CASE q # p
    BY <1>1, <1>7, <2>2 DEF RecordInv, Going
  <2> QED
    BY <2>1, <2>2
<1>11. ASSUME NEW h \in Host \ shifted PROVE HostTrue(h)'
  <2>1. HostTrue(h)
    BY <1>1, <1>11 DEF RecordInv
  <2>2. \A i \in DOMAIN journals' : Sound(journals'[i].home, h)
    BY <1>3, <1>4, <1>5, <2>1 DEF HostTrue
  <2>3. Undoable(j, h, host'[h])
    BY <1>11 DEF Marches
  <2>4. \A q \in Proc : Going(q)' => Forward(proc'[q], j, home', h, host'[h])
    BY <1>7, <1>11 DEF Marches, Going
  <2>5. Linking(h)'
    BY <1>2, <1>3, <1>5, <1>11, <2>1, RecordLinksStay DEF HostTrue, Marches, Unfinished
  <2> QED
    BY <1>4, <1>6, <2>2, <2>3, <2>4, <2>5 DEF HostTrue
<1>12. \A h \in Host : RegHeld(h, host'[h])
  BY DEF Marches
<1> QED
  BY <1>4, <1>5, <1>8, <1>9, <1>10, <1>11, <1>12 DEF RecordInv

\* What is known of a command under way.
LEMMA MarchFacts ==
  ASSUME SettingsInv, RecordInv, used.edits = 0, NEW p \in Proc, Going(p)
  PROVE  /\ TypeInv /\ TypeOK /\ journals # <<>> /\ Now \in Journal /\ Now.status = "active" /\ Running(p)
         /\ proc[p] \in Request /\ Standing(proc[p], Now) /\ Knows(proc[p]) /\ Last \in DOMAIN journals
         /\ Clean(Now) /\ KeptHeld(Now) /\ Static(proc[p]) /\ (\A h \in Host : RegHeld(h, host[h]))
         /\ \A h \in Host \ shifted : /\ Undoable(Now, h, host[h]) /\ Sound(Now.home, h)
                                      /\ Forward(proc[p], Now, home, h, host[h])
<1>1. /\ TypeInv /\ TypeOK /\ journals # <<>> /\ Now \in Journal /\ Now.status = "active" /\ Running(p)
      /\ proc[p] \in Request /\ Standing(proc[p], Now) /\ Knows(proc[p]) /\ Last \in DOMAIN journals /\ ~NoneUnfinished
  BY GoingFacts
<1>2. Clean(Now) /\ KeptHeld(Now) /\ Static(proc[p]) /\ \A h \in Host : RegHeld(h, host[h])
  BY <1>1 DEF RecordInv, Now
<1>3. ASSUME NEW h \in Host \ shifted
      PROVE  Undoable(Now, h, host[h]) /\ Sound(Now.home, h) /\ Forward(proc[p], Now, home, h, host[h])
  <2>1. HostTrue(h)
    BY <1>3 DEF RecordInv
  <2> QED
    BY <1>1, <2>1 DEF HostTrue, Now
<1> QED
  BY <1>1, <1>2, <1>3

\* Ending the work or going into the rollback, nothing else changed.
LEMMA StopsMarch ==
  ASSUME SettingsInv, RecordInv, used.edits = 0, NEW p \in Proc, Going(p), Abort(p) \/ Leave(p),
         UNCHANGED <<host, journals, shifted>>, used'.edits = used.edits
  PROVE  Marches(p, Now)
<1>1. /\ TypeOK /\ Clean(Now) /\ KeptHeld(Now) /\ (\A h \in Host : RegHeld(h, host[h]))
      /\ \A h \in Host \ shifted : Undoable(Now, h, host[h])
  BY MarchFacts
<1>2. /\ \A q \in Proc \ {p} : proc'[q] = proc[q]
      /\ proc'[p] = Idle \/ (proc'[p].stage = "undo" /\ proc'[p].k = Len(Now.undo) /\ ~proc'[p].bad)
  <2>1. proc \in [Proc -> Request] /\ proc[p] \in Request
    BY <1>1 DEF TypeOK
  <2>2. CASE Leave(p)
    BY <2>1, <2>2 DEF Leave
  <2>3. CASE Abort(p)
    BY <2>1, <2>3 DEF Abort, Request
  <2> QED
    BY <2>2, <2>3
<1>3. Idle.stage = "idle"
  BY DEF Idle
<1>4. proc'[p].stage \notin {"asked"} \union Steps /\ (proc'[p].stage = "undo" => proc'[p].k = Len(Now.undo) /\ ~proc'[p].bad)
  BY <1>2, <1>3 DEF Steps
<1>5. Static(proc'[p])
  BY <1>4 DEF Static
<1> QED
  BY <1>1, <1>2, <1>4, <1>5 DEF Marches

\* What a command was asked stays what it was.
Onward(r, t) ==
  /\ t.op = r.op /\ t.ver = r.ver /\ t.restart = r.restart /\ t.enable = r.enable /\ t.local = r.local
  /\ t.secure = r.secure /\ t.hosts = r.hosts /\ t.old = r.old /\ t.inv = r.inv /\ t.refresh = r.refresh

LEMMA OnwardSays ==
  ASSUME NEW r, NEW t, Onward(r, t)
  PROVE  /\ New(t) = New(r) /\ (\A h : Replaces(t, h) <=> Replaces(r, h))
         /\ r.stage \in {"asked"} \union Steps /\ Static(r) => Static(t)
<1>1. New(t) = New(r) /\ (\A h : Replaces(t, h) <=> Replaces(r, h))
  BY DEF Onward, New, Replaces, Replacing, Previous
<1>2. Refreshed(t) = Refreshed(r)
  BY <1>1 DEF Refreshed, Onward
<1> QED
  BY <1>1, <1>2 DEF Static, Onward

LEMMA ForwardKin ==
  ASSUME NEW r, NEW j \in Journal, NEW k, NEW h, Kin(j, k, h), NEW m, NEW s, Forward(r, j, m, h, s)
  PROVE  Forward(r, k, m, h, s)
<1>1. /\ \A op : Waits(k, h, op) <=> Waits(j, h, op)
      /\ \A ops : Only(k, h, ops) <=> Only(j, h, ops)
      /\ k.home = j.home /\ k.conf[h].on = j.conf[h].on
  BY KinSays DEF Kin
<1>2. Worked(r, j, h, s) => Worked(r, k, h, s)
  BY <1>1 DEF Worked
<1>3. Ended(r, j, m, h, s) => Ended(r, k, m, h, s)
  BY <1>1 DEF Ended
<1> QED
  BY <1>1, <1>2, <1>3 DEF Forward

\* The hosts a command is not working on do not notice its stages.
LEMMA OthersGo ==
  ASSUME NEW r, NEW t, Onward(r, t), t.cur = r.cur, t.left = r.left,
         r.stage \in InHost, t.stage \in InHost \union {"host"},
         NEW h, h # r.cur, t.src[h] = r.src[h], NEW j \in Journal, NEW k, Kin(j, k, h),
         NEW m, NEW n, n.hosts = m.hosts, n.src = m.src, n.path = m.path, n.version = m.version,
         n.current = m.current, n.runtimes = m.runtimes, n.rec[h] = m.rec[h],
         NEW s, Forward(r, j, m, h, s)
  PROVE  Forward(t, k, n, h, s)
<1>1. /\ \A op : Waits(k, h, op) <=> Waits(j, h, op)
      /\ \A ops : Only(k, h, ops) <=> Only(j, h, ops)
      /\ k.home = j.home /\ k.conf[h].on = j.conf[h].on
  BY KinSays DEF Kin
<1>2. r.stage \notin {"confirm", "commit", "files", "track"} /\ t.stage \notin {"confirm", "commit", "files", "track"}
  BY DEF InHost, Installing, Uninstalling
<1>3. HomeHeld(t, k.home, n)
  BY <1>1, <1>2 DEF Forward, HomeHeld, Onward
<1>4. RecordKept(t, k.home, n, h, s)
  BY <1>1, <1>2, OnwardSays DEF Forward, RecordKept, Onward
<1>5. (Waiting(t, h) <=> Waiting(r, h)) /\ ~AtWork(t, h) /\ ~AtWork(r, h)
  BY <1>2 DEF Waiting, AtWork, Onward
<1>6. Ended(r, j, m, h, s) => Ended(t, k, n, h, s)
  BY <1>1 DEF Ended, Onward
<1>7. Told(t, k.home, h) /\ Recalled(t, k.home)
  BY <1>1, <1>2 DEF Forward, Told, Onward, Recalled
<1> QED
  BY <1>1, <1>2, <1>3, <1>4, <1>5, <1>6, <1>7 DEF Forward, Onward

\* And the one it works on needs what the next stage builds upon.
LEMMA WorkGoes ==
  ASSUME NEW r, NEW t, Onward(r, t), t.cur = r.cur, t.left = r.left, r.cur \in r.hosts,
         r.stage \in InHost, t.stage \in InHost \ {"prepare", "restore"},
         NEW j, NEW k, k.home = j.home, NEW m, NEW s, NEW s1, Forward(r, j, m, r.cur, s1),
         RecordKept(t, k.home, m, r.cur, s), Worked(t, k, r.cur, s)
  PROVE  Forward(t, k, m, r.cur, s)
<1>1. r.stage \notin {"confirm", "commit", "files", "track"} /\ t.stage \notin {"confirm", "commit", "files", "track", "host"}
  BY DEF InHost, Installing, Uninstalling
<1>2. HomeHeld(t, k.home, m)
  BY <1>1 DEF Forward, HomeHeld, Onward
<1>3. ~Waiting(t, r.cur) /\ AtWork(t, r.cur)
  BY <1>1 DEF Waiting, AtWork, Onward, Forward
<1>4. Told(t, k.home, r.cur) /\ Recalled(t, k.home)
  BY <1>1 DEF Forward, Told, Onward, Recalled
<1> QED
  BY <1>1, <1>2, <1>3, <1>4 DEF Forward, Onward

----------------------------------------------------------------------------
(* A native command of a stage. *)

\* What a command that reports success has made of the host.
Succeeds(c, s, t) ==
  IF Able(c, s) THEN t = Effect(c, s)
  ELSE t = s /\ c.op \notin {"plugin add", "select"} /\ (c.op = "market add" => s.file.market # NoSource)

LEMMA SuccessIs ==
  ASSUME NEW c \in Command, NEW o \in Outcomes(c), o.ok PROVE Succeeds(c, host[c.host], o.s)
<1> DEFINE s == host[c.host]
           harmless == c.op = "market add" => s.file.market # NoSource
<1>1. CASE Able(c, s)
  <2>1. \/ o = [s |-> Effect(c, s), ok |-> TRUE, cost |-> 0]
        \/ \E t : o = [s |-> t, ok |-> FALSE, cost |-> 1]
    BY <1>1 DEF Outcomes
  <2> QED
    BY <1>1, <2>1 DEF Succeeds
<1>2. CASE ~Able(c, s)
  <2>1. PICK x \in (IF c.op \in {"plugin add", "select"} \/ ~harmless THEN {FALSE} ELSE BOOLEAN) :
          o = [s |-> s, ok |-> x, cost |-> 0]
    BY <1>2 DEF Outcomes
  <2>2. x = TRUE /\ o.s = s
    BY <2>1
  <2>3. c.op \notin {"plugin add", "select"} /\ harmless
    BY <2>1, <2>2
  <2> QED
    BY <1>2, <2>2, <2>3 DEF Succeeds
<1> QED
  BY <1>1, <1>2

LEMMA SignKin ==
  ASSUME InstallAssumption, NEW j \in Journal, NoneBack(j), NEW hs \in [Host -> HostState], NEW h \in Host
  PROVE  Kin(j, SignAll(j, hs), h)
<1>1. PICK t : t = SignAll(j, hs)
  OBVIOUS
<1>2. /\ t.home = j.home /\ t.undo = j.undo
      /\ IF j.conf[h].on = "no" THEN t.conf[h] = j.conf[h]
         ELSE t.conf[h].on = j.conf[h].on /\ t.conf[h].before = j.conf[h].before /\ ~t.conf[h].back
  BY <1>1, SignAllDoes
<1>3. j.conf[h].back \in BOOLEAN /\ ~j.conf[h].back
  BY DEF Journal, Kept, NoneBack
<1>4. j.conf[h].on # "no" => t.conf[h].back = j.conf[h].back
  <2>1. ASSUME j.conf[h].on # "no" PROVE t.conf[h].back \in BOOLEAN
    <3>1. t \in Journal
      BY <1>1, SignAllDoes
    <3> QED
      BY <3>1 DEF Journal, Kept
  <2> QED
    BY <1>2, <1>3, <2>1
<1>5. /\ t.conf[h].on = j.conf[h].on /\ t.conf[h].before = j.conf[h].before
      /\ t.conf[h].back = j.conf[h].back
  BY <1>2, <1>4
<1> QED
  BY <1>1, <1>2, <1>5 DEF Kin

LEMMA SignClean ==
  ASSUME InstallAssumption, NEW j \in Journal, Clean(j), KeptHeld(j), NEW hs \in [Host -> HostState]
  PROVE  LET t == SignAll(j, hs) IN t.status = j.status /\ t.home = j.home /\ Clean(t) /\ KeptHeld(t) /\ t.undo = j.undo
<1>1. \A h \in Host : Kin(j, SignAll(j, hs), h)
  BY SignKin DEF Clean
<1> HIDE DEF Kin
<1>2. SignAll(j, hs).undo = j.undo /\ SignAll(j, hs).status = j.status /\ SignAll(j, hs).home = j.home
  BY SignAllDoes
<1>3. \A h \in Host : SignAll(j, hs).conf[h].back = j.conf[h].back /\ SignAll(j, hs).conf[h].on = j.conf[h].on
                      /\ SignAll(j, hs).conf[h].before = j.conf[h].before
  BY <1>1 DEF Kin
<1> QED
  BY <1>2, <1>3 DEF Clean, AllReady, NoneBack, KeptHeld

\* The journal a command leaves: its undo queued, if it has one.
Added(j, u) == IF u = <<>> THEN j ELSE Queue(j, u[1])

LEMMA AddedSays ==
  ASSUME NEW j \in Journal, Clean(j), KeptHeld(j), NEW g,
         NEW u, u = <<>> \/ \E d \in Command : u = <<d>> /\ d.host = g
  PROVE  LET q == Added(j, u)
         IN /\ q \in Journal /\ q.status = j.status /\ q.home = j.home /\ q.conf = j.conf
            /\ Clean(q) /\ KeptHeld(q) /\ \A h \in Host \ {g} : Kin(j, q, h)
<1>1. CASE u = <<>>
  <2>1. Added(j, u) = j
    BY <1>1 DEF Added
  <2> QED
    BY <2>1 DEF Kin
<1>2. ASSUME NEW d \in Command, u = <<d>>, d.host = g PROVE
        LET q == Queue(j, d)
        IN /\ q \in Journal /\ q.status = j.status /\ q.home = j.home /\ q.conf = j.conf
           /\ Clean(q) /\ KeptHeld(q) /\ \A h \in Host \ {g} : Kin(j, q, h)
  <2>1. PICK q : q = Queue(j, d)
    OBVIOUS
  <2>2. q \in Journal /\ q.status = j.status /\ q.home = j.home /\ q.conf = j.conf
    BY <2>1, QueueDoes
  <2>3. AllReady(q)
    BY <2>1, QueueBase DEF Clean
  <2>4. ASSUME NEW h \in Host \ {g} PROVE Kin(j, q, h)
    <3>1. d.host # h /\ q.undo = Queue(j, d).undo
      BY <1>2, <2>1, <2>4
    <3>2. \E i \in Journal, c \in Command :
            i.undo = j.undo /\ i.home = j.home /\ i.conf[h].on = j.conf[h].on /\ c.host # h /\ q.undo = Queue(i, c).undo
      BY <3>1
    <3> QED
      BY <2>2, <3>2 DEF Kin
  <2> QED
    BY <2>1, <2>2, <2>3, <2>4 DEF Clean, NoneBack, KeptHeld
<1>3. \A d : u = <<d>> => u # <<>> /\ u[1] = d
  OBVIOUS
<1> QED
  BY <1>1, <1>2, <1>3 DEF Added

\* A command that is given up or done leaves what the hosts are to the rollback.
LEMMA EndsMarch ==
  ASSUME TypeOK, NEW p \in Proc, NEW j, Leave(p) \/ proc' = [proc EXCEPT ![p].stage = "undo", ![p].k = Len(j.undo), ![p].bad = FALSE]
  PROVE  /\ \A q \in Proc \ {p} : proc'[q] = proc[q]
         /\ proc'[p].stage \notin {"asked"} \union Steps /\ Static(proc'[p])
         /\ proc'[p].stage = "undo" => proc'[p].k = Len(j.undo) /\ ~proc'[p].bad
<1>1. proc \in [Proc -> Request] /\ proc[p] \in Request
  BY DEF TypeOK
<1>2. Idle.stage = "idle"
  BY DEF Idle
<1>3. /\ \A q \in Proc \ {p} : proc'[q] = proc[q]
      /\ proc'[p] = Idle \/ (proc'[p].stage = "undo" /\ proc'[p].k = Len(j.undo) /\ ~proc'[p].bad)
  <2>1. CASE Leave(p)
    BY <1>1, <2>1 DEF Leave
  <2>2. CASE proc' = [proc EXCEPT ![p].stage = "undo", ![p].k = Len(j.undo), ![p].bad = FALSE]
    BY <1>1, <2>2 DEF Request
  <2> QED
    BY <2>1, <2>2
<1>4. proc'[p].stage \notin {"asked"} \union Steps
  BY <1>2, <1>3 DEF Steps
<1> QED
  BY <1>2, <1>3, <1>4 DEF Static

LEMMA GoesOnward ==
  ASSUME TypeOK, NEW p \in Proc, NEW s \in Stage, Go(p, s)
  PROVE  /\ \A q \in Proc \ {p} : proc'[q] = proc[q]
         /\ proc'[p] = [proc[p] EXCEPT !.stage = s] /\ Onward(proc[p], proc'[p])
         /\ proc'[p].stage = s /\ proc'[p].left = proc[p].left /\ proc'[p].cur = proc[p].cur /\ proc'[p].src = proc[p].src
         /\ (proc[p].stage \in Steps /\ Static(proc[p]) => Static(proc'[p]))
<1>1. proc \in [Proc -> Request] /\ proc[p] \in Request
  BY DEF TypeOK
<1>2. /\ \A q \in Proc \ {p} : proc'[q] = proc[q]
      /\ proc'[p] = [proc[p] EXCEPT !.stage = s] /\ Onward(proc[p], proc'[p])
      /\ proc'[p].stage = s /\ proc'[p].left = proc[p].left /\ proc'[p].cur = proc[p].cur /\ proc'[p].src = proc[p].src
  BY <1>1 DEF Go, Request, Onward
<1> QED
  BY <1>2, OnwardSays

LEMMA CommandMarches ==
  ASSUME InstallAssumption, SettingsInv, RecordInv, used.edits = 0, NEW p \in Proc,
         proc[p].stage \in InHost, NEW next \in InHost \ {"prepare", "restore"},
         NEW c \in Command, c.host = proc[p].cur,
         NEW u, u = <<>> \/ \E d \in Command : u = <<d>> /\ d.host = proc[p].cur,
         External(p, c, u, next) \/ DiesRunning(p, c, u),
         c.host \notin shifted =>
           /\ \A s \in {host[c.host], Effect(c, host[c.host])} : Undoable(Added(Now, u), c.host, s)
           /\ \A s \in HostState : Succeeds(c, host[c.host], s) =>
                Forward([proc[p] EXCEPT !.stage = next], Added(Now, u), home, c.host, s)
  PROVE  \E j : Marches(p, j)
<1> DEFINE g == c.host
           t == [proc[p] EXCEPT !.stage = next]
<1>1. next \in Steps /\ next \in Stage /\ Going(p)
  BY DEF InHost, Installing, Uninstalling, Steps, Stage, Going
<1>2. /\ TypeInv /\ TypeOK /\ journals # <<>> /\ Now \in Journal /\ proc[p] \in Request
      /\ Clean(Now) /\ KeptHeld(Now) /\ Static(proc[p])
      /\ \A h \in Host : RegHeld(h, host[h])
      /\ \A h \in Host \ shifted : Undoable(Now, h, host[h]) /\ Forward(proc[p], Now, home, h, host[h])
  BY <1>1, MarchFacts
<1>3. host \in [Host -> HostState] /\ g \in Host /\ proc \in [Proc -> Request]
  BY <1>2 DEF TypeOK, Command
<1>4. PICK q : q = Added(Now, u)
  OBVIOUS
<1>5. /\ q \in Journal /\ q.status = Now.status /\ q.home = Now.home /\ q.conf = Now.conf
      /\ Clean(q) /\ KeptHeld(q) /\ \A h \in Host \ {g} : Kin(Now, q, h)
  BY <1>2, <1>4, AddedSays
<1>6. CASE External(p, c, u, next) /\ Conflict(Now)
  <2>1. Abort(p) /\ UNCHANGED <<host, journals, shifted>> /\ used' = used
    BY <1>6 DEF External, Unspent, ghosts
  <2>2. Marches(p, Now)
    BY <1>1, <2>1, StopsMarch
  <2> QED
    BY <2>2
<1>7. ASSUME NEW s \in {host[g], Effect(c, host[g])}, host' = [host EXCEPT ![g] = s],
             NEW j \in Journal, Save(j), j.status = q.status, j.home = q.home, Clean(j), KeptHeld(j),
             \A h \in Host : Kin(q, j, h), UNCHANGED <<home, shifted>>, used'.edits = used.edits,
             \/ Leave(p) \/ proc' = [proc EXCEPT ![p].stage = "undo", ![p].k = Len(j.undo), ![p].bad = FALSE]
             \/ Go(p, next) /\ Succeeds(c, host[g], s)
      PROVE  Marches(p, j)
  <2>1. s \in HostState /\ RegHeld(g, s)
    BY <1>2, <1>3, <1>7, Effects, EffectHeld
  <2>2. \A h \in Host : host'[h] = IF h = g THEN s ELSE host[h]
    BY <1>3, <1>7
  <2>3. \A h \in Host : RegHeld(h, host'[h])
    BY <1>2, <2>1, <2>2
  <2>4. ASSUME NEW h \in Host \ shifted PROVE Undoable(j, h, host'[h])
    <3>1. Kin(q, j, h)
      BY <1>7, <2>4
    <3>2. Undoable(q, h, host'[h])
      <4>1. CASE h = g
        BY <1>4, <1>7, <2>2, <2>4, <4>1
      <4>2. CASE h # g
        <5>1. Kin(Now, q, h) /\ Undoable(Now, h, host[h]) /\ host'[h] = host[h]
          BY <1>2, <1>5, <2>2, <2>4, <4>2
        <5> QED
          BY <1>2, <5>1, KinSays
      <4> QED
        BY <4>1, <4>2
    <3> QED
      BY <1>5, <3>1, <3>2, KinSays
  <2>5. CASE Go(p, next) /\ Succeeds(c, host[g], s)
    <3>1. /\ \A o \in Proc \ {p} : proc'[o] = proc[o]
          /\ proc'[p] = t /\ Onward(proc[p], t) /\ t.stage = next /\ t.left = proc[p].left /\ t.cur = proc[p].cur
          /\ t.src = proc[p].src /\ Static(t)
      BY <1>1, <1>2, <2>5, GoesOnward DEF Going
    <3> HIDE DEF t
    <3>2. ASSUME NEW h \in Host \ shifted PROVE Forward(t, j, home, h, host'[h])
      <4>1. Kin(q, j, h)
        BY <1>7, <3>2
      <4>2. Forward(t, q, home, h, host'[h])
        <5>1. CASE h = g
          BY <1>4, <1>7, <2>1, <2>2, <2>5, <3>2, <5>1 DEF t
        <5>2. CASE h # g
          <6>1. Kin(Now, q, h) /\ Forward(proc[p], Now, home, h, host[h]) /\ host'[h] = host[h]
            BY <1>2, <1>5, <2>2, <3>2, <5>2
          <6>2. h # proc[p].cur /\ t.src[h] = proc[p].src[h] /\ t.stage \in InHost \union {"host"}
            BY <3>1, <5>2
          <6>3. Forward(t, q, home, h, host[h])
            BY <1>2, <3>1, <6>1, <6>2, OthersGo
          <6> QED
            BY <6>1, <6>3
        <5> QED
          BY <5>1, <5>2
      <4> QED
        BY <1>5, <4>1, <4>2, ForwardKin
    <3>3. next # "undo" /\ home' = home
      BY <1>1, <1>7, SMTT(30) DEF Steps
    <3> QED
      BY <1>1, <1>5, <1>7, <2>3, <2>4, <3>1, <3>2, <3>3 DEF Marches
  <2>6. CASE Leave(p) \/ proc' = [proc EXCEPT ![p].stage = "undo", ![p].k = Len(j.undo), ![p].bad = FALSE]
    BY <1>1, <1>2, <1>5, <1>7, <2>3, <2>4, <2>6, EndsMarch DEF Marches
  <2> QED
    BY <1>7, <2>5, <2>6
<1>8. CASE DiesRunning(p, c, u)
  <2>1. PICK s \in {host[g], Effect(c, host[g])} : host' = [host EXCEPT ![g] = s]
    <3>1. PICK s \in {host[g], Effect(c, host[g])} :
            host' = [host EXCEPT ![g] = IF Able(c, host[g]) THEN s ELSE host[g]]
      BY <1>8 DEF DiesRunning
    <3>2. (IF Able(c, host[g]) THEN s ELSE host[g]) \in {host[g], Effect(c, host[g])}
      BY <3>1
    <3> QED
      BY <3>1, <3>2
  <2>2. Save(q) /\ Leave(p) /\ UNCHANGED <<home, shifted>> /\ used'.edits = used.edits
    BY <1>2, <1>4, <1>8 DEF DiesRunning, ghosts, Added, Spend, TypeOK
  <2>3. \A h \in Host : Kin(q, q, h)
    BY DEF Kin
  <2> QED
    BY <1>5, <1>7, <2>1, <2>2, <2>3
<1>9. CASE External(p, c, u, next) /\ ~Conflict(Now)
  <2>1. PICK o \in Outcomes(c) :
          /\ host' = [host EXCEPT ![g] = o.s] /\ Save(SignAll(q, host'))
          /\ IF o.ok THEN Go(p, next)
             ELSE proc' = [proc EXCEPT ![p].stage = "undo", ![p].k = Len(q.undo), ![p].bad = FALSE]
          /\ Spend(o.cost) /\ UNCHANGED <<home, shifted>>
    BY <1>4, <1>9 DEF External, ghosts, Added
  <2>2. o.s \in {host[g], Effect(c, host[g])} /\ (o.ok => Succeeds(c, host[g], o.s)) /\ o.s \in HostState
    BY <1>2, OutcomeIs, SuccessIs, OutcomesTyped
  <2>3. host' \in [Host -> HostState] /\ used'.edits = used.edits
    BY <1>2, <1>3, <2>1, <2>2 DEF Spend, TypeOK
  <2>4. PICK j : j = SignAll(q, host')
    OBVIOUS
  <2>5. j \in Journal /\ j.undo = q.undo
    BY <1>5, <2>3, <2>4, SignAllDoes
  <2>6. j.status = q.status /\ j.home = q.home /\ Clean(j) /\ KeptHeld(j)
    BY <1>5, <2>3, <2>4, SignClean
  <2>7. \A h \in Host : Kin(q, j, h)
    BY <1>5, <2>3, <2>4, SignKin DEF Clean
  <2>8. Save(j)
    BY <2>1, <2>4
  <2>9. \/ proc' = [proc EXCEPT ![p].stage = "undo", ![p].k = Len(j.undo), ![p].bad = FALSE]
        \/ Go(p, next) /\ Succeeds(c, host[g], o.s)
    BY <2>1, <2>2, <2>5
  <2>10. Marches(p, j)
    BY <1>7, <2>1, <2>2, <2>3, <2>5, <2>6, <2>7, <2>8, <2>9
  <2> QED
    BY <2>10
<1> QED
  BY <1>6, <1>8, <1>9

\* A stage at the host g the command works on, whatever it does to that host alone.
OwnHost(p, g, j) ==
  /\ proc[p].stage \in InHost /\ g \in Host /\ g = proc[p].cur
  /\ j \in Journal /\ (Save(j) \/ (j = Now /\ UNCHANGED journals))
  /\ j.status = Now.status /\ j.home = Now.home /\ Clean(j) /\ KeptHeld(j)
  /\ \A h \in Host \ {g} : Kin(Now, j, h) /\ host'[h] = host[h]
  /\ RegHeld(g, host'[g]) /\ UNCHANGED shifted /\ used'.edits = used.edits
  /\ g \notin shifted => Undoable(j, g, host'[g])
GivesUp(p, j) == Leave(p) \/ proc' = [proc EXCEPT ![p].stage = "undo", ![p].k = Len(j.undo), ![p].bad = FALSE]
WorksOn(p, g, j, t) ==
  /\ \A q \in Proc \ {p} : proc'[q] = proc[q]
  /\ proc'[p] = t /\ Onward(proc[p], t) /\ t.cur = proc[p].cur /\ t.left = proc[p].left
  /\ t.stage \in InHost \union {"host"} /\ \A h \in Host \ {g} : t.src[h] = proc[p].src[h]
  /\ home'.hosts = home.hosts /\ home'.src = home.src /\ home'.path = home.path
  /\ home'.version = home.version /\ home'.current = home.current /\ home'.runtimes = home.runtimes
  /\ \A h \in Host \ {g} : home'.rec[h] = home.rec[h]
  /\ g \notin shifted => Forward(t, j, home', g, host'[g])

LEMMA OwnHostDoes ==
  ASSUME SettingsInv, RecordInv, used.edits = 0, NEW p \in Proc, NEW g, NEW j, OwnHost(p, g, j)
  PROVE  /\ Going(p) /\ proc[p].stage \in Steps /\ TypeInv /\ TypeOK /\ journals # <<>> /\ Now \in Journal
         /\ proc[p] \in Request /\ Static(proc[p])
         /\ \A h \in Host \ shifted : Forward(proc[p], Now, home, h, host[h])
         /\ \A h \in Host : RegHeld(h, host'[h])
         /\ \A h \in Host \ shifted : Undoable(j, h, host'[h])
<1>1. Going(p) /\ proc[p].stage \in Steps
  BY DEF InHost, Installing, Uninstalling, Steps, Going, OwnHost
<1>2. /\ TypeInv /\ TypeOK /\ journals # <<>> /\ Now \in Journal /\ proc[p] \in Request
      /\ Clean(Now) /\ KeptHeld(Now) /\ Static(proc[p])
      /\ \A h \in Host : RegHeld(h, host[h])
      /\ \A h \in Host \ shifted : Undoable(Now, h, host[h]) /\ Forward(proc[p], Now, home, h, host[h])
  BY <1>1, MarchFacts
<1>3. \A h \in Host : RegHeld(h, host'[h])
  BY <1>2 DEF OwnHost
<1>4. ASSUME NEW h \in Host \ shifted PROVE Undoable(j, h, host'[h])
  <2>1. CASE h = g
    BY <1>4, <2>1 DEF OwnHost
  <2>2. CASE h # g
    <3>1. Kin(Now, j, h) /\ host'[h] = host[h] /\ Undoable(Now, h, host[h])
      BY <1>2, <1>4, <2>2 DEF OwnHost
    <3> QED
      BY <1>2, <3>1, KinSays
  <2> QED
    BY <2>1, <2>2
<1> QED
  BY <1>1, <1>2, <1>3, <1>4

LEMMA GivenUp ==
  ASSUME SettingsInv, RecordInv, used.edits = 0, NEW p \in Proc, NEW g, NEW j, OwnHost(p, g, j), GivesUp(p, j)
  PROVE  \E i : Marches(p, i)
<1>1. /\ \A q \in Proc \ {p} : proc'[q] = proc[q]
      /\ proc'[p].stage \notin {"asked"} \union Steps /\ Static(proc'[p])
      /\ proc'[p].stage = "undo" => proc'[p].k = Len(j.undo) /\ ~proc'[p].bad
  BY OwnHostDoes, EndsMarch DEF GivesUp
<1>2. Marches(p, j)
  BY <1>1, OwnHostDoes DEF Marches, OwnHost
<1> QED
  BY <1>2

LEMMA WorkedOn ==
  ASSUME SettingsInv, RecordInv, used.edits = 0, NEW p \in Proc, NEW g, NEW j, OwnHost(p, g, j),
         NEW t, WorksOn(p, g, j, t)
  PROVE  \E i : Marches(p, i)
<1>1. /\ Going(p) /\ proc[p].stage \in Steps /\ TypeInv /\ TypeOK /\ journals # <<>> /\ Now \in Journal
      /\ proc[p] \in Request /\ Static(proc[p])
      /\ \A h \in Host \ shifted : Forward(proc[p], Now, home, h, host[h])
      /\ \A h \in Host : RegHeld(h, host'[h])
      /\ \A h \in Host \ shifted : Undoable(j, h, host'[h])
  BY OwnHostDoes
<1>2. Static(t)
  BY <1>1, OnwardSays DEF WorksOn
<1>3. ASSUME NEW h \in Host \ shifted PROVE Forward(t, j, home', h, host'[h])
  <2>1. CASE h = g
    BY <1>3, <2>1 DEF WorksOn, OwnHost
  <2>2. CASE h # g
    <3>1. Kin(Now, j, h) /\ Forward(proc[p], Now, home, h, host[h]) /\ host'[h] = host[h] /\ h # proc[p].cur
          /\ t.src[h] = proc[p].src[h] /\ home'.rec[h] = home.rec[h]
      BY <1>1, <1>3, <2>2 DEF WorksOn, OwnHost
    <3>2. Forward(t, j, home', h, host[h])
      BY <1>1, <3>1, OthersGo DEF WorksOn, OwnHost
    <3> QED
      BY <3>1, <3>2
  <2> QED
    BY <2>1, <2>2
<1>4. t.stage # "undo"
  BY DEF InHost, Installing, Uninstalling, WorksOn
<1>5. Marches(p, j)
  BY <1>1, <1>2, <1>3, <1>4 DEF Marches, WorksOn, OwnHost
<1> QED
  BY <1>5

\* What is known of the host a command works on.
HostKnown(r, j, g, s) ==
  LET w == j.home IN
  /\ Recalled(r, w) /\ g \in r.hosts /\ g \in Host /\ s \in HostState /\ Sound(w, g)
  /\ g \in w.hosts => r.inv[g].market = w.src[g] /\ r.inv[g].plugin = "on" /\ r.inv[g].version = w.path[g]
  /\ g \notin w.hosts => r.inv[g].market = NoSource /\ r.inv[g].plugin = "absent"
  /\ (Live(r, g) <=> Replaces(r, g)) /\ (Replaces(r, g) => g \in w.hosts)
  /\ RecordKept(r, w, home, g, s) /\ Undoable(j, g, s)
  /\ j.conf[g].on \in {"no", "file", "all"} /\ ~j.conf[g].back
  /\ r.op = "uninstall" => g \in w.hosts
  /\ r.op # "uninstall" => r.ver \in Version
  /\ r.stage # "restore" => j.conf[g].on # "no"
  /\ r.stage \in {"prepare", "restore"} => Shown(w, g, s) /\ Only(j, g, {}) /\ j.conf[g].on # "all"
  /\ r.stage \notin {"prepare", "restore"} => Worked(r, j, g, s)
LEMMA HostFacts ==
  ASSUME InstallAssumption, SettingsInv, RecordInv, used.edits = 0, NEW p \in Proc, proc[p].stage \in InHost,
         proc[p].cur \notin shifted
  PROVE  /\ HostKnown(proc[p], Now, proc[p].cur, host[proc[p].cur])
         /\ Forward(proc[p], Now, home, proc[p].cur, host[proc[p].cur])
<1>0. PICK r, g, s, w : r = proc[p] /\ g = r.cur /\ s = host[g] /\ w = Now.home
  OBVIOUS
<1>1. Going(p) /\ r.stage \in Steps /\ r.stage \notin {"confirm", "commit", "files", "track"}
  BY <1>0 DEF InHost, Installing, Uninstalling, Steps, Going
<1>2. g \in Host /\ g \in r.hosts /\ s \in HostState /\ (r.op # "uninstall" => r.ver \in Version) /\ Standing(r, Now) /\ Knows(r)
  BY <1>0, AtHost
<1>3. Undoable(Now, g, s) /\ Sound(w, g) /\ Forward(r, Now, home, g, s) /\ Clean(Now) /\ Now \in Journal
  BY <1>0, <1>1, <1>2, MarchFacts
<1>4. Recalled(r, w) /\ Told(r, w, g) /\ RecordKept(r, w, home, g, s) /\ (r.op = "uninstall" => r.hosts \subseteq w.hosts)
      /\ (Waiting(r, g) => Shown(w, g, s) /\ Only(Now, g, {}) /\ Now.conf[g].on # "all")
      /\ (AtWork(r, g) => Worked(r, Now, g, s))
  BY <1>0, <1>1, <1>3 DEF Forward
<1>5. IF r.stage \in {"prepare", "restore"} THEN Shown(w, g, s) /\ Only(Now, g, {}) /\ Now.conf[g].on # "all"
      ELSE Worked(r, Now, g, s)
  BY <1>0, <1>4 DEF Waiting, AtWork
<1>6. Now.conf[g].on \in {"no", "file", "all"} /\ ~Now.conf[g].back
  BY <1>0, <1>2, <1>3 DEF Journal, Kept, Clean, NoneBack
<1>7. r.stage # "restore" => Now.conf[g].on # "no"
  <2>1. Tracked(r, g)
    BY <1>0, <1>2 DEF Knows
  <2>2. r.stage \in Installing \/ r.stage \in Uninstalling
    BY <1>0 DEF InHost
  <2>3. r.stage \in Installing => r.op # "uninstall"
    BY <1>0, <1>2 DEF Standing
  <2> QED
    BY <1>0, <1>2, <2>1, <2>2, <2>3 DEF Tracked
<1>8. IF g \in w.hosts THEN r.inv[g] = [market |-> w.src[g], plugin |-> "on", version |-> w.path[g]]
      ELSE r.inv[g].market = NoSource /\ r.inv[g].plugin = "absent"
  BY <1>0, <1>2, <1>4 DEF Told
<1>9. (Live(r, g) <=> Replaces(r, g)) /\ (Replaces(r, g) => g \in w.hosts)
  BY <1>0, <1>4, <1>8 DEF Live, Replaces, Previous, Recalled
<1> QED
  BY <1>0, <1>2, <1>3, <1>4, <1>5, <1>6, <1>7, <1>8, <1>9 DEF HostKnown

\* A stage that only passes on.
LEMMA PassesOn ==
  ASSUME InstallAssumption, SettingsInv, RecordInv, used.edits = 0, NEW p \in Proc, proc[p].stage \in InHost,
         NEW next \in InHost \ {"prepare", "restore"}, Go(p, next),
         UNCHANGED <<host, home, journals, shifted, used>>,
         proc[p].cur \notin shifted => Forward([proc[p] EXCEPT !.stage = next], Now, home, proc[p].cur, host[proc[p].cur])
  PROVE  \E j : Marches(p, j)
<1> DEFINE g == proc[p].cur  t == [proc[p] EXCEPT !.stage = next]
<1>1. Going(p) /\ proc[p].stage \in Steps /\ next \in Stage
  BY DEF InHost, Installing, Uninstalling, Steps, Going, Stage
<1>2. /\ TypeInv /\ TypeOK /\ journals # <<>> /\ Now \in Journal /\ proc[p] \in Request
      /\ Clean(Now) /\ KeptHeld(Now) /\ Static(proc[p])
      /\ \A h \in Host : RegHeld(h, host[h])
      /\ \A h \in Host \ shifted : Undoable(Now, h, host[h])
  BY <1>1, MarchFacts
<1>3. g \in Host
  BY AtHost
<1>4. /\ \A q \in Proc \ {p} : proc'[q] = proc[q]
      /\ proc'[p] = t /\ Onward(proc[p], t) /\ t.stage = next /\ t.left = proc[p].left /\ t.cur = proc[p].cur
      /\ t.src = proc[p].src
  BY <1>1, <1>2, GoesOnward
<1>5. \A h \in Host : Kin(Now, Now, h)
  BY DEF Kin
<1>6. g \notin shifted => Forward(t, Now, home', g, host'[g])
  OBVIOUS
<1> HIDE DEF t
<1>7. OwnHost(p, g, Now)
  BY <1>2, <1>3, <1>5 DEF OwnHost
<1>8. WorksOn(p, g, Now, t)
  BY <1>4, <1>6 DEF WorksOn
<1> QED
  BY <1>7, <1>8, WorkedOn

\* A native command of a stage, and what it must leave at the host for the next one.
NativeStep(p, c, u, next) ==
  /\ proc[p].stage \in InHost /\ next \in InHost \ {"prepare", "restore"}
  /\ c \in Command /\ c.host = proc[p].cur
  /\ u = <<>> \/ \E d \in Command : u = <<d>> /\ d.host = proc[p].cur
  /\ External(p, c, u, next) \/ DiesRunning(p, c, u)
Fits(c, s, q, t) ==
  /\ \A b \in {s, Effect(c, s)} : Undoable(q, t.cur, b)
  /\ \A b \in HostState : Succeeds(c, s, b) => RecordKept(t, q.home, home, t.cur, b) /\ Worked(t, q, t.cur, b)

LEMMA WorkMarches ==
  ASSUME InstallAssumption, SettingsInv, RecordInv, used.edits = 0, NEW p \in Proc,
         NEW c, NEW u, NEW next, NativeStep(p, c, u, next),
         NEW t, t = [proc[p] EXCEPT !.stage = next],
         proc[p].cur \notin shifted => Fits(c, host[proc[p].cur], Added(Now, u), t)
  PROVE  \E j : Marches(p, j)
<1>0. PICK r, g, q : r = proc[p] /\ g = r.cur /\ q = Added(Now, u)
  OBVIOUS
<1>1. /\ r.stage \in InHost /\ next \in InHost \ {"prepare", "restore"} /\ c \in Command /\ c.host = g
      /\ u = <<>> \/ \E d \in Command : u = <<d>> /\ d.host = g
  BY <1>0 DEF NativeStep
<1>2. /\ g \in Host /\ g \in r.hosts /\ r \in Request /\ Now \in Journal /\ next \in Stage
  BY <1>0, <1>1, AtHost DEF InHost, Installing, Uninstalling, Stage, Steps
<1>3. t.stage = next /\ t.cur = g /\ t.left = r.left /\ Onward(r, t)
  BY <1>0, <1>2 DEF Request, Onward
<1>4. q.home = Now.home
  <2>1. CASE u = <<>>
    BY <1>0, <2>1 DEF Added
  <2>2. ASSUME NEW d \in Command, u = <<d>> PROVE q.home = Now.home
    <3>1. q = Queue(Now, d)
      BY <1>0, <2>2 DEF Added
    <3> QED
      BY <1>2, <3>1, QueueDoes
  <2> QED
    BY <1>1, <2>1, <2>2
<1>5. ASSUME g \notin shifted, NEW s \in HostState, Succeeds(c, host[g], s) PROVE Forward(t, q, home, g, s)
  <2>1. Forward(r, Now, home, r.cur, host[g])
    BY <1>0, <1>1, <1>5, HostFacts
  <2>2. RecordKept(t, q.home, home, r.cur, s) /\ Worked(t, q, r.cur, s)
    BY <1>0, <1>3, <1>5 DEF Fits
  <2>3. r.cur \in r.hosts /\ t.cur = r.cur /\ t.stage \in InHost \ {"prepare", "restore"}
    BY <1>0, <1>1, <1>2, <1>3
  <2>4. Forward(t, q, home, r.cur, s)
    BY <1>1, <1>3, <1>4, <2>1, <2>2, <2>3, WorkGoes
  <2> QED
    BY <1>0, <2>4
<1>6. g \notin shifted => \A b \in {host[g], Effect(c, host[g])} : Undoable(q, g, b)
  BY <1>0, <1>3 DEF Fits
<1> QED
  BY <1>0, <1>1, <1>5, <1>6, CommandMarches DEF NativeStep

LEMMA PassMarches ==
  ASSUME InstallAssumption, SettingsInv, RecordInv, used.edits = 0, NEW p \in Proc, proc[p].stage \in InHost,
         NEW next \in InHost \ {"prepare", "restore"}, Go(p, next),
         UNCHANGED <<host, home, journals, shifted, used>>,
         NEW t, t = [proc[p] EXCEPT !.stage = next],
         proc[p].cur \notin shifted =>
           RecordKept(t, Now.home, home, t.cur, host[t.cur]) /\ Worked(t, Now, t.cur, host[t.cur])
  PROVE  \E j : Marches(p, j)
<1>0. PICK r, g : r = proc[p] /\ g = r.cur
  OBVIOUS
<1>1. g \in Host /\ g \in r.hosts /\ r \in Request /\ Now \in Journal /\ next \in Stage
  BY <1>0, AtHost DEF InHost, Installing, Uninstalling, Stage, Steps
<1>2. t.stage = next /\ t.cur = g /\ t.left = r.left /\ Onward(r, t)
  BY <1>0, <1>1 DEF Request, Onward
<1>3. ASSUME g \notin shifted PROVE Forward(t, Now, home, g, host[g])
  <2>1. Forward(r, Now, home, r.cur, host[g])
    BY <1>0, <1>3, HostFacts
  <2>2. /\ RecordKept(t, Now.home, home, r.cur, host[g]) /\ Worked(t, Now, r.cur, host[g])
        /\ r.cur \in r.hosts /\ t.cur = r.cur
    BY <1>0, <1>1, <1>2, <1>3
  <2>3. Forward(t, Now, home, r.cur, host[g])
    BY <1>0, <1>2, <2>1, <2>2, WorkGoes
  <2> QED
    BY <1>0, <2>3
<1> QED
  BY <1>0, <1>3, PassesOn

\* An undo command more, or a host that is otherwise, is still undone.
LEMMA StillUndoable ==
  ASSUME NEW j, NEW h, NEW s, Undoable(j, h, s), ~j.conf[h].back, j.conf[h].on \in {"file", "all"},
         NEW q, q.home = j.home, q.conf[h] = j.conf[h], Skewed(j, h) => Skewed(q, h), NEW t,
         j.conf[h].on = "file" /\ h \in j.home.hosts /\ ~Skewed(j, h) /\ Way(j, h, s) => Way(q, h, t) \/ Skewed(q, h)
  PROVE  Undoable(q, h, t)
<1>1. CASE Skewed(j, h)
  BY <1>1 DEF Undoable
<1>2. CASE ~Skewed(j, h) /\ j.conf[h].on = "all"
  BY <1>2 DEF Undoable
<1>3. CASE ~Skewed(j, h) /\ j.conf[h].on = "file"
  BY <1>3 DEF Undoable
<1> QED
  BY <1>1, <1>2, <1>3

LEMMA QueuedUndoable ==
  ASSUME NEW j \in Journal, NEW h, NEW s, Undoable(j, h, s), ~j.conf[h].back, j.conf[h].on \in {"file", "all"},
         NEW d \in Command, d.host = h, NEW t,
         j.conf[h].on = "file" /\ h \in j.home.hosts /\ Way(j, h, s) =>
           \/ /\ Brings(d, h, j.home.path[h]) /\ Leads(Queue(j, d), h, t)
              /\ \E ops : Only(j, h, ops) /\ \A op \in ops : Rank(op) <= Rank(d.op)
           \/ d.op = "market add" /\ d.src.ver # j.home.path[h]
  PROVE  Undoable(Queue(j, d), h, t)
<1>1. PICK q : q = Queue(j, d)
  OBVIOUS
<1>5. q.home = j.home /\ q.conf = j.conf
  BY <1>1, QueueBase
<1>6. Aimed(q, h) <=> Aimed(j, h) /\ (d.host = h => Brings(d, h, j.home.path[h]))
  BY <1>1, QueueAimed
<1>7. Skewed(q, h) <=> Skewed(j, h) \/ (/\ j.conf[h].on = "file" /\ d.host = h
                                        /\ d.op = "market add" /\ d.src.ver # j.home.path[h])
  <2>1. Skewed(Queue(j, d), h) <=> Skewed(j, h) \/ (/\ j.conf[h].on = "file" /\ d.host = h
                                                   /\ d.op = "market add" /\ d.src.ver # j.home.path[h])
    BY QueueSkewed, ZenonT(40)
  <2> QED
    BY <1>1, <2>1
<1>2. /\ q.home = j.home /\ q.conf = j.conf
      /\ Aimed(q, h) <=> Aimed(j, h) /\ (d.host = h => Brings(d, h, j.home.path[h]))
      /\ Skewed(q, h) <=> Skewed(j, h) \/ (/\ j.conf[h].on = "file" /\ d.host = h
                                           /\ d.op = "market add" /\ d.src.ver # j.home.path[h])
  BY <1>5, <1>6, <1>7
<1>3. ASSUME j.conf[h].on = "file", h \in j.home.hosts, Way(j, h, s) PROVE Way(q, h, t) \/ Skewed(q, h)
  <2>1. CASE d.op = "market add" /\ d.src.ver # j.home.path[h]
    BY <1>2, <1>3, <2>1
  <2>2. CASE /\ Brings(d, h, j.home.path[h]) /\ Leads(Queue(j, d), h, t)
             /\ \E ops : Only(j, h, ops) /\ \A op \in ops : Rank(op) <= Rank(d.op)
    <3>1. Aimed(q, h)
      BY <1>2, <1>3, <2>2 DEF Way
    <3>2. Ordered(q, h)
      BY <1>1, <1>3, <2>2, QueueOrdered DEF Way
    <3> QED
      BY <1>1, <2>2, <3>1, <3>2 DEF Way
  <2> QED
    BY <1>3, <2>1, <2>2
<1>4. Undoable(q, h, t)
  BY <1>2, <1>3, StillUndoable
<1> QED
  BY <1>1, <1>4

----------------------------------------------------------------------------
(* The stages of an uninstall at a host. *)

LEMMA RestoreSettingsMarches ==
  ASSUME InstallAssumption, SettingsInv, RecordInv, used.edits = 0, NEW p \in Proc, RestoreSettings(p)
  PROVE  \E j : Marches(p, j)
<1>0. PICK r, g, s, w : r = proc[p] /\ g = r.cur /\ s = host[g] /\ w = Now.home
  OBVIOUS
<1>1. r.stage = "restore" /\ r.stage \in InHost /\ Going(p) /\ "unplug" \in Stage
  BY <1>0 DEF RestoreSettings, InHost, Uninstalling, Going, Steps, Stage
<1>2. /\ TypeInv /\ TypeOK /\ journals # <<>> /\ Now \in Journal /\ r \in Request /\ r.op = "uninstall"
      /\ Clean(Now) /\ KeptHeld(Now) /\ Static(r) /\ g \in Host /\ g \in r.hosts /\ s \in HostState
      /\ \A h \in Host : RegHeld(h, host[h])
  BY <1>0, <1>1, MarchFacts, AtHost DEF Standing, Uninstalling
<1>3. PICK a : a = GiveBack(home.rec[g], s)
  OBVIOUS
<1>4. home.rec[g] \in Record /\ host \in [Host -> HostState]
  BY <1>0, <1>2 DEF TypeOK, Home
<1>5. a \in HostState /\ a.reg = s.reg /\ a.dirs = s.dirs /\ a.file = (IF home.rec[g].on THEN home.rec[g].orig ELSE s.file)
  BY <1>0, <1>2, <1>3, <1>4 DEF GiveBack, Restored, HostState, Record
<1>6. PICK j : j = Signed(Track(Now, g, s), g, a)
  OBVIOUS
<1>7. /\ host' = [host EXCEPT ![g] = a] /\ Go(p, "unplug") /\ UNCHANGED <<home, used, shifted>> /\ Save(j)
  <2>1. host' = [host EXCEPT ![g] = a]
    BY <1>0, <1>3 DEF RestoreSettings
  <2>2. host'[g] = a
    BY <1>0, <1>2, <1>4, <2>1
  <2>3. Save(Signed(Track(Now, g, host[g]), g, host'[g]))
    BY <1>0, <2>1, <1>2, <1>4 DEF RestoreSettings
  <2> QED
    BY <1>0, <1>6, <2>1, <2>2, <2>3 DEF RestoreSettings, ghosts
<1>8. /\ \A h \in Host \ {g} : host'[h] = host[h]
      /\ host'[g] = a
  BY <1>0, <1>2, <1>4, <1>7
<1>9. /\ j \in Journal /\ j.status = Now.status /\ j.home = w /\ j.undo = Now.undo
      /\ \A h \in Host \ {g} : j.conf[h] = Now.conf[h]
      /\ j.conf[g].on = "file" /\ j.conf[g].before = s /\ ~j.conf[g].back
  <2>1. Now.conf \in [Host -> Kept]
    BY <1>0, <1>2 DEF Journal
  <2>2. PICK b : b = [NoKept EXCEPT !.on = "file", !.before = s, !.signed = s]
    OBVIOUS
  <2>3. b \in Kept /\ b.on = "file" /\ b.before = s /\ ~b.back
    BY <1>0, <1>2, <2>2, FreshTyped DEF Kept, NoKept
  <2>4. PICK d : d = [b EXCEPT !.signed = a]
    OBVIOUS
  <2>5. d \in Kept /\ d.on = "file" /\ d.before = s /\ ~d.back
    BY <1>0, <1>5, <2>3, <2>4 DEF Kept
  <2>6. PICK i : i = Track(Now, g, s)
    OBVIOUS
  <2>7. i = [Now EXCEPT !.conf[g] = b]
    BY <1>0, <2>2, <2>6 DEF Track
  <2>8. /\ i \in Journal /\ i.status = Now.status /\ i.home = w /\ i.undo = Now.undo
        /\ (\A h \in Host \ {g} : i.conf[h] = Now.conf[h]) /\ i.conf[g] = b
    BY <1>0, <1>2, <2>1, <2>3, <2>7 DEF Journal
  <2>9. j = [i EXCEPT !.conf[g].signed = a]
    BY <1>0, <1>6, <2>3, <2>6, <2>8 DEF Signed
  <2>10. i.conf \in [Host -> Kept]
    BY <1>0, <2>8 DEF Journal
  <2>11. j = [i EXCEPT !.conf[g] = d]
    BY <1>0, <1>2, <2>4, <2>8, <2>9, <2>10
  <2> QED
    BY <1>0, <1>2, <2>5, <2>8, <2>10, <2>11 DEF Journal
<1>10. Clean(j) /\ KeptHeld(j)
  BY <1>0, <1>2, <1>9 DEF Clean, AllReady, NoneBack, KeptHeld
<1>11. \A h \in Host \ {g} : Kin(Now, j, h)
  BY <1>0, <1>9 DEF Kin
<1>12. RegHeld(g, a)
  BY <1>0, <1>2, <1>5, SameListed
<1>13. PICK t : t = [r EXCEPT !.stage = "unplug"]
  OBVIOUS
<1>14. /\ \A q \in Proc \ {p} : proc'[q] = proc[q]
       /\ proc'[p] = t /\ Onward(r, t) /\ t.stage = "unplug" /\ t.left = r.left /\ t.cur = r.cur /\ t.src = r.src
  BY <1>0, <1>1, <1>2, <1>7, <1>13, GoesOnward
<1>15. ASSUME g \notin shifted PROVE Undoable(j, g, a) /\ Forward(t, j, home, g, a)
  <2>1. /\ g \in w.hosts /\ Shown(w, g, s) /\ Only(Now, g, {}) /\ Sound(w, g) /\ RecordKept(r, w, home, g, s)
        /\ Forward(r, Now, home, g, s)
    <3>1. HostKnown(r, Now, g, s) /\ Forward(r, Now, home, g, s)
      BY <1>0, <1>1, <1>15, HostFacts
    <3> QED
      BY <1>0, <1>1, <1>2, <3>1 DEF HostKnown
  <2>2. Shown(w, g, a)
    <3>1. home.rec[g].on => home.rec[g].orig.market = s.file.market /\ home.rec[g].orig.plugin = "on"
      BY <1>0, <1>1, <2>1 DEF RecordKept
    <3>2. Listed(g, a) = Listed(g, s)
      BY <1>0, <1>5, SameListed
    <3> QED
      BY <1>0, <1>5, <2>1, <3>1, <3>2 DEF Shown
  <2>3. Only(j, g, {})
    BY <1>0, <1>9, <2>1 DEF Only
  <2>4. Way(j, g, a)
    <3>1. Aimed(j, g) /\ Ordered(j, g) /\ \A op : ~Waits(j, g, op)
      BY <1>0, <2>3 DEF Only, Aimed, Ordered, Waits
    <3>2. Listed(g, a) = w.path[g]
      BY <1>0, <2>1, <2>2 DEF Shown
    <3> QED
      BY <1>0, <1>9, <3>1, <3>2 DEF Way, Leads
  <2>5. Undoable(j, g, a)
    BY <1>0, <1>9, <2>1, <2>4 DEF Undoable, Before, Shown
  <2>6. RecordKept(t, w, home, g, a)
    BY <1>0, <1>14, <2>1, <1>2 DEF RecordKept, Onward
  <2>7. Worked(t, j, g, a)
    BY <1>0, <1>9, <1>14, <2>2, <2>3 DEF Worked, Installing
  <2>8. Forward(t, j, home, g, a)
    <3>1. r.stage \in InHost /\ t.stage \in InHost \ {"prepare", "restore"}
      BY <1>1, <1>14 DEF InHost, Uninstalling
    <3>2. Forward(r, Now, home, r.cur, s)
      BY <1>0, <2>1
    <3>3. RecordKept(t, j.home, home, r.cur, a) /\ Worked(t, j, r.cur, a) /\ j.home = Now.home
      BY <1>0, <1>9, <2>6, <2>7
    <3> QED
      BY <1>0, <1>2, <1>14, <2>1, <3>1, <3>2, <3>3, WorkGoes
  <2> QED
    BY <1>0, <2>5, <2>8
<1>16. OwnHost(p, g, j)
  BY <1>0, <1>1, <1>2, <1>7, <1>8, <1>9, <1>10, <1>11, <1>12, <1>15 DEF OwnHost
<1>17. WorksOn(p, g, j, t)
  BY <1>0, <1>7, <1>8, <1>14, <1>15 DEF WorksOn, InHost, Uninstalling
<1> QED
  BY <1>16, <1>17, WorkedOn

LEMMA RemovePluginMarches ==
  ASSUME InstallAssumption, SettingsInv, RecordInv, used.edits = 0, NEW p \in Proc, RemovePlugin(p)
  PROVE  \E j : Marches(p, j)
<1>0. PICK r, g, s, w : r = proc[p] /\ g = r.cur /\ s = host[g] /\ w = Now.home
  OBVIOUS
<1> DEFINE c == Cmd("plugin remove", g, NoSource)  d == Cmd("plugin add", g, NoSource)  u == <<d>>
<1>1. r.stage = "unplug" /\ r.stage \in InHost /\ "unmarket" \in InHost \ {"prepare", "restore"}
  BY <1>0 DEF RemovePlugin, InHost, Uninstalling
<1>2. g \in Host /\ s \in HostState /\ Now \in Journal /\ r \in Request /\ r.op = "uninstall"
  BY <1>0, <1>1, AtHost DEF Standing, Uninstalling
<1>3. c \in Command /\ c.host = g /\ c.op = "plugin remove" /\ d \in Command /\ d.host = g /\ d.op = "plugin add"
  BY <1>0, <1>2, Bounds DEF Cmd, Command
<1>4. Added(Now, u) = Queue(Now, d)
  BY DEF Added
<1>5. PICK t : t = [r EXCEPT !.stage = "unmarket"]
  OBVIOUS
<1>6. t.stage = "unmarket" /\ t.cur = g /\ t.op = r.op /\ t.hosts = r.hosts
  BY <1>0, <1>2, <1>5 DEF Request
<1>7. PICK q : q = Queue(Now, d)
  OBVIOUS
<1>12. q.home = w
  BY <1>0, <1>2, <1>3, <1>7, QueueBase
<1> HIDE DEF c, d
<1>8. ASSUME g \notin shifted PROVE
        /\ r.inv[g].plugin = "on"
        /\ \A b \in {s, Effect(c, s)} : Undoable(q, g, b)
        /\ \A b \in HostState : Succeeds(c, s, b) => RecordKept(t, w, home, g, b) /\ Worked(t, q, g, b)
  <2>1. /\ g \in w.hosts /\ Shown(w, g, s) /\ Only(Now, g, {}) /\ Sound(w, g) /\ RecordKept(r, w, home, g, s)
        /\ Undoable(Now, g, s) /\ r.inv[g].plugin = "on" /\ Now.conf[g].on \in {"file", "all"} /\ ~Now.conf[g].back
    <3>1. HostKnown(r, Now, g, s)
      BY <1>0, <1>1, <1>8, HostFacts
    <3> QED
      BY <1>0, <1>1, <1>2, <3>1 DEF HostKnown, Worked
  <2>2. Effect(c, s) = PluginRemoved(g, s)
    BY <1>0, <1>3 DEF Effect
  <2>3. PICK e : e = PluginRemoved(g, s)
    OBVIOUS
  <2>4. e.file.market = s.file.market /\ e.file.plugin = "absent"
    BY <1>0, <1>2, <2>3, RemovedSays
  <2>5. /\ \A op : Waits(q, g, op) <=> Waits(Now, g, op) \/ (d.host = g /\ d.op = op)
        /\ \A ops : Only(q, g, ops) <=> Only(Now, g, ops) /\ (d.host = g => d.op \in ops)
        /\ q.home = w
    <3>1. \A op : Waits(q, g, op) <=> Waits(Now, g, op) \/ (d.host = g /\ d.op = op)
      BY <1>2, <1>3, <1>7, QueueWaits
    <3>2. \A ops : Only(q, g, ops) <=> Only(Now, g, ops) /\ (d.host = g => d.op \in ops)
      BY <1>2, <1>3, <1>7, QueueOnly
    <3> QED
      BY <1>12, <3>1, <3>2
  <2>6. Waits(q, g, "plugin add") /\ ~Waits(q, g, "market add") /\ ~Waits(q, g, "market remove") /\ Only(q, g, Roots)
    <3>1. \A op : ~Waits(Now, g, op)
      BY <1>0, <2>1 DEF Only, Waits
    <3>2. Only(Now, g, Roots)
      BY <1>0, <2>1 DEF Only
    <3> QED
      BY <1>0, <1>3, <2>5, <3>1, <3>2 DEF Roots
  <2>7. s.file.market = w.src[g] /\ w.src[g].ver = w.path[g]
    BY <1>0, <2>1 DEF Shown, Sound
  <2>8. ASSUME NEW b \in {s, e} PROVE Undoable(q, g, b)
    <3>1. b.file.market.ver = w.path[g]
      BY <1>0, <2>4, <2>7, <2>8
    <3>2. Leads(q, g, b)
      BY <1>0, <2>5, <2>6, <3>1 DEF Leads
    <3>3. Brings(d, g, w.path[g])
      BY <1>0, <1>3 DEF Brings, Roots
    <3>4. \E ops : Only(Now, g, ops) /\ \A op \in ops : Rank(op) <= Rank(d.op)
      BY <1>0, <2>1
    <3> QED
      BY <1>0, <1>2, <1>3, <1>7, <2>1, <3>2, <3>3, <3>4, QueuedUndoable
  <2>9. ASSUME NEW b \in HostState, Succeeds(c, s, b) PROVE RecordKept(t, w, home, g, b) /\ Worked(t, q, g, b)
    <3>1. Able(c, s)
      BY <1>0, <1>3, <2>1 DEF Able, Shown
    <3>2. b = e
      BY <1>0, <2>2, <2>3, <2>9, <3>1 DEF Succeeds
    <3>3. RecordKept(t, w, home, g, b)
      BY <1>0, <1>1, <1>2, <1>6, <2>1 DEF RecordKept
    <3>4. Worked(t, q, g, b)
      BY <1>0, <1>6, <2>4, <2>5, <2>6, <2>7, <3>2 DEF Worked, Installing
    <3> QED
      BY <1>0, <3>3, <3>4
  <2> QED
    BY <1>0, <2>1, <2>2, <2>3, <2>8, <2>9
<1>9. CASE r.inv[g].plugin # "absent"
  <2>1. External(p, c, u, "unmarket") \/ DiesRunning(p, c, u)
    BY <1>0, <1>9 DEF RemovePlugin, c, d
  <2>2. \E b \in Command : u = <<b>> /\ b.host = g
    BY <1>0, <1>3
  <2>3. NativeStep(p, c, u, "unmarket")
    BY <1>0, <1>1, <1>3, <2>1, <2>2 DEF NativeStep
  <2>4. g \notin shifted => Fits(c, s, q, t)
    BY <1>0, <1>6, <1>8, <1>12 DEF Fits
  <2> QED
    BY <1>0, <1>4, <1>5, <1>7, <2>3, <2>4, WorkMarches
<1>10. CASE r.inv[g].plugin = "absent"
  <2>1. Go(p, "unmarket") /\ UNCHANGED <<host, home, journals, shifted, used>>
    BY <1>0, <1>10 DEF RemovePlugin, ghosts
  <2>2. g \in shifted
    BY <1>0, <1>8, <1>10
  <2> QED
    BY <1>0, <1>1, <1>5, <2>1, <2>2, PassMarches
<1> QED
  BY <1>0, <1>9, <1>10

LEMMA RootsFirst ==
  /\ \A op \in Roots : Rank(op) = 1
  /\ Rank("market add") = 2 /\ Rank("market remove") = 3
  /\ \A op \in Roots : Rank(op) <= Rank("market add")
  /\ \A op \in Roots \union {"market add"} : Rank(op) <= Rank("market remove")
<1>1. Rank("market add") = 2 /\ Rank("market remove") = 3
  BY DEF Rank, Roots
<1>2. \A op \in Roots : Rank(op) = 1
  BY DEF Rank
<1>3. 1 <= 1 /\ 1 <= 2 /\ 1 <= 3 /\ 2 <= 3
  OBVIOUS
<1>4. ASSUME NEW op \in Roots PROVE Rank(op) <= Rank("market add") /\ Rank(op) <= Rank("market remove")
  <2>1. Rank(op) = 1
    BY <1>2
  <2> QED
    BY <1>1, <1>3, <2>1
<1>5. Rank("market add") <= Rank("market remove")
  BY <1>1, <1>3
<1> QED
  BY <1>1, <1>2, <1>4, <1>5

LEMMA OursIs == ASSUME NEW src, src.from \in {"tag", "dir"} PROVE src # NoSource
<1>1. NoSource.from = "none"
  BY DEF NoSource
<1> QED
  BY <1>1

LEMMA RemoveOwnedMarketMarches ==
  ASSUME InstallAssumption, SettingsInv, RecordInv, used.edits = 0, NEW p \in Proc, RemoveOwnedMarket(p)
  PROVE  \E j : Marches(p, j)
<1>0. PICK r, g, s, w : r = proc[p] /\ g = r.cur /\ s = host[g] /\ w = Now.home
  OBVIOUS
<1> DEFINE c == Cmd("market remove", g, NoSource)  d == Cmd("market add", g, Tag(r.old.version))  u == <<d>>
<1>1. r.stage = "unmarket" /\ r.stage \in InHost /\ "gone" \in InHost \ {"prepare", "restore"}
  BY <1>0 DEF RemoveOwnedMarket, InHost, Uninstalling
<1>2. g \in Host /\ s \in HostState /\ Now \in Journal /\ r \in Request /\ r.op = "uninstall"
  BY <1>0, <1>1, AtHost DEF Standing, Uninstalling
<1>3. c \in Command /\ c.host = g /\ c.op = "market remove" /\ d \in Command /\ d.host = g /\ d.op = "market add"
      /\ d.src.ver = r.old.version
  <2>1. Tag(r.old.version) \in Source /\ Tag(r.old.version).ver = r.old.version
    BY <1>2 DEF Tag, Source, Request, Home
  <2> QED
    BY <1>0, <1>2, <2>1, Bounds DEF Cmd, Command
<1>4. Added(Now, u) = Queue(Now, d)
  BY DEF Added
<1>5. PICK t : t = [r EXCEPT !.stage = "gone"]
  OBVIOUS
<1>6. t.stage = "gone" /\ t.cur = g /\ t.op = r.op /\ t.hosts = r.hosts
  BY <1>0, <1>2, <1>5 DEF Request
<1>7. PICK q : q = Queue(Now, d)
  OBVIOUS
<1>8. q.home = w
  BY <1>0, <1>2, <1>3, <1>7, QueueBase
<1> HIDE DEF c, d
<1>9. ASSUME g \notin shifted PROVE
        /\ r.inv[g].market # NoSource
        /\ \A b \in {s, Effect(c, s)} : Undoable(q, g, b)
        /\ \A b \in HostState : Succeeds(c, s, b) => RecordKept(t, w, home, g, b) /\ Worked(t, q, g, b)
  <2>1. /\ g \in w.hosts /\ Only(Now, g, Roots) /\ Waits(Now, g, "plugin add") /\ s.file.market = w.src[g]
        /\ s.file.plugin = "absent" /\ Recalled(r, w)
        /\ Sound(w, g) /\ RecordKept(r, w, home, g, s) /\ r.inv[g].market = w.src[g]
        /\ Undoable(Now, g, s) /\ Now.conf[g].on \in {"file", "all"} /\ ~Now.conf[g].back
    <3>1. HostKnown(r, Now, g, s)
      BY <1>0, <1>1, <1>9, HostFacts
    <3> QED
      BY <1>0, <1>1, <1>2, <3>1 DEF HostKnown, Worked
  <2>2. Effect(c, s) = MarketRemoved(g, s)
    BY <1>3 DEF Effect
  <2>3. PICK e : e = MarketRemoved(g, s)
    OBVIOUS
  <2>4. e.file.market = NoSource /\ e.file.plugin = "absent"
    BY <1>2, <2>1, <2>3, RemovedSays
  <2>5. w.src[g].ver = w.path[g] /\ w.src[g] # NoSource
    <3>1. w.src[g].ver = w.path[g] /\ w.src[g].from \in {"tag", "dir"}
      BY <2>1 DEF Sound
    <3> QED
      BY <3>1, OursIs
  <2>6. Waits(q, g, "plugin add") /\ Waits(q, g, "market add") /\ ~Waits(q, g, "market remove")
    <3>1. ~Waits(Now, g, "market remove")
      BY <2>1 DEF Only, Waits, Roots
    <3> QED
      BY <1>2, <1>3, <1>7, <2>1, <3>1, QueueWaits
  <2>7. ASSUME NEW b \in {s, e} PROVE Undoable(q, g, b)
    <3>1. b.file.market = NoSource \/ b.file.market.ver = w.path[g]
      BY <2>1, <2>4, <2>5, <2>7
    <3>2. Leads(q, g, b)
      BY <1>8, <2>6, <3>1 DEF Leads
    <3>3. Brings(d, g, w.path[g]) \/ (d.op = "market add" /\ d.src.ver # w.path[g])
      BY <1>3 DEF Brings, Roots
    <3>4. \E ops : Only(Now, g, ops) /\ \A op \in ops : Rank(op) <= Rank(d.op)
      BY <1>3, <2>1, RootsFirst
    <3> QED
      BY <1>0, <1>2, <1>3, <1>7, <2>1, <3>2, <3>3, <3>4, QueuedUndoable
  <2>8. ASSUME NEW b \in HostState, Succeeds(c, s, b) PROVE RecordKept(t, w, home, g, b) /\ Worked(t, q, g, b)
    <3>1. Able(c, s)
      BY <1>3, <2>1, <2>5 DEF Able
    <3>2. b = e
      BY <2>2, <2>3, <2>8, <3>1 DEF Succeeds
    <3>3. RecordKept(t, w, home, g, b)
      BY <1>1, <1>2, <1>6, <2>1 DEF RecordKept
    <3>4. Worked(t, q, g, b)
      BY <1>6, <2>4, <2>6, <3>2 DEF Worked, Installing
    <3> QED
      BY <3>3, <3>4
  <2> QED
    BY <2>1, <2>2, <2>3, <2>5, <2>7, <2>8
<1>10. CASE r.inv[g].market # NoSource
  <2>1. External(p, c, u, "gone") \/ DiesRunning(p, c, u)
    BY <1>0, <1>10 DEF RemoveOwnedMarket, c, d
  <2>2. \E b \in Command : u = <<b>> /\ b.host = g
    BY <1>3
  <2>3. NativeStep(p, c, u, "gone")
    BY <1>0, <1>1, <1>3, <2>1, <2>2 DEF NativeStep
  <2>4. g \notin shifted => Fits(c, s, q, t)
    BY <1>6, <1>8, <1>9 DEF Fits
  <2> QED
    BY <1>0, <1>4, <1>5, <1>7, <2>3, <2>4, WorkMarches
<1>11. CASE r.inv[g].market = NoSource
  <2>1. Go(p, "gone") /\ UNCHANGED <<host, home, journals, shifted, used>>
    BY <1>0, <1>11 DEF RemoveOwnedMarket, ghosts
  <2>2. g \in shifted
    BY <1>9, <1>11
  <2> QED
    BY <1>0, <1>1, <1>5, <2>1, <2>2, PassMarches
<1> QED
  BY <1>10, <1>11

LEMMA VerifyGoneMarches ==
  ASSUME InstallAssumption, SettingsInv, RecordInv, used.edits = 0, NEW p \in Proc, VerifyGone(p)
  PROVE  \E j : Marches(p, j)
<1>0. PICK r, g, s, w : r = proc[p] /\ g = r.cur /\ s = host[g] /\ w = Now.home
  OBVIOUS
<1>1. /\ r.stage = "gone" /\ r.stage \in InHost /\ Going(p) /\ "host" \in Stage
      /\ UNCHANGED <<host, journals, used, shifted>>
  BY <1>0 DEF VerifyGone, InHost, Uninstalling, Going, Steps, Stage, ghosts
<1>2. /\ g \in Host /\ Now \in Journal /\ r \in Request /\ r.op = "uninstall" /\ TypeOK
      /\ Clean(Now) /\ KeptHeld(Now) /\ Static(r) /\ (\A h \in Host : RegHeld(h, host[h]))
      /\ \A h \in Host \ shifted : Undoable(Now, h, host[h])
  <2>1. g \in Host /\ Standing(r, Now)
    BY <1>0, <1>1, AtHost
  <2> QED
    BY <1>0, <1>1, <2>1, MarchFacts DEF Standing, Uninstalling
<1>3. OwnHost(p, g, Now)
  <2>1. \A h \in Host : Kin(Now, Now, h)
    BY DEF Kin
  <2> QED
    BY <1>0, <1>1, <1>2, <2>1 DEF OwnHost
<1>4. CASE Abort(p)
  BY <1>3, <1>4, GivenUp DEF Abort, GivesUp
<1>5. CASE ~Abort(p)
  <2>1. /\ Go(p, "host") /\ home' = [home EXCEPT !.rec[g] = NoRecord, !.trust = IF g \in DirHosts THEN 0 ELSE @]
    BY <1>0, <1>5 DEF VerifyGone
  <2>2. PICK t : t = proc'[p]
    OBVIOUS
  <2>3. /\ \A q \in Proc \ {p} : proc'[q] = proc[q]
        /\ Onward(r, t) /\ t.stage = "host" /\ t.left = r.left /\ t.cur = r.cur /\ t.src = r.src
    BY <1>0, <1>1, <1>2, <2>1, <2>2, GoesOnward
  <2>4. /\ home'.hosts = home.hosts /\ home'.src = home.src /\ home'.path = home.path
        /\ home'.version = home.version /\ home'.current = home.current /\ home'.runtimes = home.runtimes
        /\ \A h \in Host \ {g} : home'.rec[h] = home.rec[h]
        /\ ~home'.rec[g].on
    <3>1. home \in Home /\ ~NoRecord.on
      BY <1>2 DEF TypeOK, NoRecord
    <3> QED
      BY <1>2, <2>1, <3>1 DEF Home
  <2>5. ASSUME g \notin shifted PROVE Forward(t, Now, home', g, host'[g])
    <3>1. /\ s.file.market = NoSource /\ s.file.plugin = "absent" /\ Waits(Now, g, "plugin add") /\ g \in r.hosts
          /\ Forward(r, Now, home, g, s)
      <4>1. HostKnown(r, Now, g, s) /\ Forward(r, Now, home, g, s)
        BY <1>0, <1>1, <2>5, HostFacts
      <4> QED
        BY <1>1, <4>1 DEF HostKnown, Worked
    <3>2. /\ Recalled(r, w) /\ Told(r, w, g) /\ HomeHeld(r, w, home) /\ (r.op = "uninstall" => r.hosts \subseteq w.hosts)
          /\ r.cur \notin r.left
      BY <1>0, <1>1, <3>1 DEF Forward
    <3>3. Told(t, w, g) /\ HomeHeld(t, w, home') /\ RecordKept(t, w, home', g, s)
      BY <1>2, <2>3, <2>4, <3>2 DEF Told, HomeHeld, RecordKept, Onward
    <3>4. ~Waiting(t, g) /\ ~AtWork(t, g)
      BY <1>0, <2>3, <3>1, <3>2 DEF Waiting, AtWork, Onward, InHost, Installing, Uninstalling
    <3>5. Ended(t, Now, home', g, s)
      BY <1>2, <2>3, <2>4, <3>1 DEF Ended, Onward
    <3>6. Recalled(t, w) /\ t.op = r.op /\ t.hosts = r.hosts /\ host'[g] = s
      BY <1>0, <1>1, <2>3, <3>2 DEF Onward, Recalled
    <3>7. "host" \notin InHost
      BY DEF InHost, Installing, Uninstalling
    <3> QED
      BY <1>0, <2>3, <3>2, <3>3, <3>4, <3>5, <3>6, <3>7 DEF Forward
  <2>6. WorksOn(p, g, Now, t)
    BY <1>0, <2>2, <2>3, <2>4, <2>5 DEF WorksOn
  <2> QED
    BY <1>3, <2>6, WorkedOn
<1> QED
  BY <1>4, <1>5

----------------------------------------------------------------------------
(* The stages of an install or update at a host. *)

LEMMA VerifyMarches ==
  ASSUME InstallAssumption, SettingsInv, RecordInv, used.edits = 0, NEW p \in Proc, Verify(p)
  PROVE  \E j : Marches(p, j)
<1>0. PICK r, g, s, w : r = proc[p] /\ g = r.cur /\ s = host[g] /\ w = Now.home
  OBVIOUS
<1>1. /\ r.stage = "verify" /\ r.stage \in InHost /\ Going(p) /\ "host" \in Stage
      /\ UNCHANGED <<host, home, journals, used, shifted>>
  BY <1>0 DEF Verify, InHost, Installing, Going, Steps, Stage, ghosts
<1>2. /\ g \in Host /\ Now \in Journal /\ r \in Request /\ r.op # "uninstall" /\ TypeOK /\ s \in HostState
      /\ Clean(Now) /\ KeptHeld(Now) /\ Static(r) /\ (\A h \in Host : RegHeld(h, host[h]))
      /\ \A h \in Host \ shifted : Undoable(Now, h, host[h])
  <2>1. g \in Host /\ Standing(r, Now) /\ s \in HostState
    BY <1>0, <1>1, AtHost
  <2> QED
    BY <1>0, <1>1, <2>1, MarchFacts DEF Standing, Installing
<1>3. OwnHost(p, g, Now)
  <2>1. \A h \in Host : Kin(Now, Now, h)
    BY DEF Kin
  <2> QED
    BY <1>0, <1>1, <1>2, <2>1 DEF OwnHost
<1>4. CASE Abort(p)
  BY <1>3, <1>4, GivenUp DEF Abort, GivesUp
<1>5. CASE ~Abort(p)
  <2>1. PICK m : m = Inv(g, s)
    OBVIOUS
  <2>2. Shows(m, r.ver) /\ proc' = [proc EXCEPT ![p].stage = "host", ![p].src[g] = m.market]
    BY <1>0, <1>5, <2>1 DEF Verify
  <2>3. PICK t : t = proc'[p]
    OBVIOUS
  <2>4. /\ \A q \in Proc \ {p} : proc'[q] = proc[q]
        /\ Onward(r, t) /\ t.stage = "host" /\ t.left = r.left /\ t.cur = r.cur /\ t.src[g] = m.market
        /\ \A h \in Host \ {g} : t.src[h] = r.src[h]
    <3>1. proc \in [Proc -> Request] /\ r.src \in [Host -> Source]
      BY <1>0, <1>2 DEF TypeOK, Request
    <3> QED
      BY <1>0, <1>2, <2>2, <2>3, <3>1 DEF Request, Onward
  <2>5. Listed(g, s) = r.ver /\ s.file.plugin = "on" /\ m.market = s.file.market
    <3>1. m = [market |-> s.file.market, version |-> Listed(g, s),
               plugin |-> IF Listed(g, s) = 0 THEN "absent" ELSE s.file.plugin]
      BY <2>1 DEF Inv
    <3> QED
      BY <2>2, <3>1 DEF Shows
  <2>6. ASSUME g \notin shifted PROVE Forward(t, Now, home', g, host'[g])
    <3>1. HostKnown(r, Now, g, s) /\ Forward(r, Now, home, g, s)
      BY <1>0, <1>1, <2>6, HostFacts
    <3>2. /\ Recalled(r, w) /\ Told(r, w, g) /\ HomeHeld(r, w, home) /\ r.cur \notin r.left
          /\ g \in r.hosts /\ RecordKept(r, w, home, g, s) /\ Sound(w, g) /\ Worked(r, Now, g, s)
      BY <1>0, <1>1, <3>1 DEF Forward, HostKnown
    <3>3. s.file.market.ver = r.ver /\ s.file.market.from \in {"tag", "dir"}
      <4>1. CASE Replaces(r, g) \/ g \notin w.hosts
        <5>1. s.file.market = New(r)
          BY <1>0, <1>1, <3>2, <4>1 DEF Worked, Installing
        <5> QED
          BY <5>1 DEF New, Tag, Dir
      <4>2. CASE ~Replaces(r, g) /\ g \in w.hosts
        <5>1. Shown(w, g, s)
          BY <1>0, <1>1, <3>2, <4>2 DEF Worked, Installing
        <5> QED
          BY <2>5, <3>2, <4>2, <5>1 DEF Shown, Sound
      <4> QED
        BY <4>1, <4>2
    <3>4. Told(t, w, g) /\ HomeHeld(t, w, home') /\ RecordKept(t, w, home', g, s)
      <4>1. Replaces(t, g) <=> Replaces(r, g)
        BY <2>4, OnwardSays
      <4> QED
        BY <1>0, <1>1, <1>2, <2>4, <3>2, <4>1 DEF Told, HomeHeld, RecordKept, Onward
    <3>5. ~Waiting(t, g) /\ ~AtWork(t, g)
      BY <1>0, <2>4, <3>2 DEF Waiting, AtWork, Onward, InHost, Installing, Uninstalling
    <3>6. Ended(t, Now, home', g, s)
      BY <1>2, <2>4, <2>5, <3>3 DEF Ended, Onward
    <3>7. Recalled(t, w) /\ t.op = r.op /\ t.hosts = r.hosts /\ host'[g] = s
      BY <1>0, <1>1, <2>4, <3>2 DEF Onward, Recalled
    <3>8. "host" \notin InHost
      BY DEF InHost, Installing, Uninstalling
    <3> QED
      BY <1>0, <1>2, <2>4, <3>4, <3>5, <3>6, <3>7, <3>8 DEF Forward
  <2>7. WorksOn(p, g, Now, t)
    BY <1>0, <1>1, <2>3, <2>4, <2>6 DEF WorksOn
  <2> QED
    BY <1>3, <2>7, WorkedOn
<1> QED
  BY <1>4, <1>5

\* While a host is replaced or new, no security record is kept of it.
LEMMA RecordStays ==
  ASSUME NEW r, NEW t, Onward(r, t), t.cur = r.cur, r.op # "uninstall", r.stage \in InHost, r.stage \notin Uninstalling,
         t.stage \in InHost \union {"host"}, NEW g, g \in r.hosts,
         NEW w, NEW m, NEW s, RecordKept(r, w, m, g, s), NEW b,
         b.file.market = s.file.market \/ Replaces(r, g) \/ g \notin w.hosts
  PROVE  RecordKept(t, w, m, g, b)
<1>1. Replaces(t, g) <=> Replaces(r, g)
  BY OnwardSays
<1>2. r.stage \notin {"unplug", "unmarket", "gone"}
  BY DEF Uninstalling
<1> QED
  BY <1>1, <1>2 DEF RecordKept, Onward

LEMMA PrepareMarches ==
  ASSUME InstallAssumption, SettingsInv, RecordInv, used.edits = 0, NEW p \in Proc, Prepare(p)
  PROVE  \E j : Marches(p, j)
<1>0. PICK r, g, s, w : r = proc[p] /\ g = r.cur /\ s = host[g] /\ w = Now.home
  OBVIOUS
<1>1. /\ r.stage = "prepare" /\ r.stage \in InHost /\ Going(p) /\ r.stage \notin Uninstalling
      /\ UNCHANGED <<host, home, used, shifted>>
  BY <1>0 DEF Prepare, InHost, Installing, Uninstalling, Going, Steps, ghosts
<1>2. /\ g \in Host /\ Now \in Journal /\ r \in Request /\ r.op # "uninstall" /\ TypeOK /\ s \in HostState
      /\ Clean(Now) /\ KeptHeld(Now) /\ Static(r) /\ (\A h \in Host : RegHeld(h, host[h])) /\ journals # <<>>
      /\ \A h \in Host \ shifted : Undoable(Now, h, host[h])
  <2>1. g \in Host /\ Standing(r, Now) /\ s \in HostState
    BY <1>0, <1>1, AtHost
  <2> QED
    BY <1>0, <1>1, <2>1, MarchFacts DEF Standing, Installing
<1>3. \A h \in Host : Kin(Now, Now, h)
  BY DEF Kin
<1>4. PICK d, e, k : /\ d = Cmd("plugin add", g, NoSource)
                     /\ e = Cmd("select", g, [from |-> "cache", ver |-> r.old.path[g]])
                     /\ k = TrackAll(Now, g)
  OBVIOUS
<1>5. /\ d \in Command /\ d.host = g /\ d.op = "plugin add"
      /\ e \in Command /\ e.host = g /\ e.op = "select" /\ e.src.ver = r.old.path[g]
  <2>1. r.old.path[g] \in 0..MaxVersion
    BY <1>2 DEF Request, Home
  <2> QED
    BY <1>2, <1>4, <2>1, Bounds DEF Cmd, Command, Source
<1>6. CASE Abort(p) /\ UNCHANGED journals
  <2>1. OwnHost(p, g, Now)
    BY <1>0, <1>1, <1>2, <1>3, <1>6 DEF OwnHost
  <2> QED
    BY <1>6, <2>1, GivenUp DEF Abort, GivesUp
<1>7. CASE ~(Abort(p) /\ UNCHANGED journals)
  <2>1. PICK next : /\ Go(p, next)
                    /\ next = (IF Live(r, g) /\ ~r.restart /\ g \in DirHosts THEN "select" ELSE "remove")
    BY <1>0, <1>7 DEF Prepare
  <2>2. /\ Live(r, g) /\ r.restart => Save(Queue(k, d))
        /\ Live(r, g) /\ ~r.restart => Save(Queue(Now, IF g \in DirHosts THEN e ELSE d))
        /\ ~Live(r, g) => UNCHANGED journals
    BY <1>0, <1>4, <1>7 DEF Prepare
  <2>3. next \in {"select", "remove"} /\ next \in InHost \ {"prepare", "restore"} /\ next \in Stage /\ next \in Installing
    BY <2>1 DEF InHost, Installing, Stage, Steps
  <2>4. PICK t : t = proc'[p]
    OBVIOUS
  <2>5. /\ \A q \in Proc \ {p} : proc'[q] = proc[q]
        /\ Onward(r, t) /\ t.stage = next /\ t.left = r.left /\ t.cur = r.cur /\ t.src = r.src
    BY <1>0, <1>2, <2>1, <2>3, <2>4, GoesOnward
  <2>6. ASSUME g \notin shifted PROVE HostKnown(r, Now, g, s) /\ Forward(r, Now, home, g, s)
    BY <1>0, <1>1, <2>6, HostFacts
  <2>7. ASSUME g \notin shifted PROVE RecordKept(t, w, home, g, s)
    BY <1>0, <1>1, <1>2, <2>3, <2>5, <2>6, <2>7, RecordStays DEF HostKnown
  <2>8. ASSUME NEW j, j.home = w, g \notin shifted => Worked(t, j, g, s)
        PROVE  g \notin shifted => Forward(t, j, home', g, host'[g])
    <3> SUFFICES ASSUME g \notin shifted PROVE Forward(t, j, home, g, s)
      BY <1>0, <1>1
    <3>1. g \in r.hosts /\ RecordKept(t, j.home, home, r.cur, s) /\ Worked(t, j, r.cur, s) /\ Forward(r, Now, home, r.cur, s)
          /\ j.home = Now.home
      BY <1>0, <2>6, <2>7, <2>8 DEF HostKnown
    <3>2. Forward(t, j, home, r.cur, s)
      BY <1>0, <1>1, <2>3, <2>5, <3>1, WorkGoes
    <3> QED
      BY <1>0, <3>2
  <2>9. ASSUME NEW j \in Journal, OwnHost(p, g, j), g \notin shifted => Worked(t, j, g, s) PROVE \E i : Marches(p, i)
    <3>1. j.home = w
      BY <1>0, <2>9 DEF OwnHost
    <3>2. g \notin shifted => Forward(t, j, home', g, host'[g])
      BY <2>8, <2>9, <3>1
    <3>3. WorksOn(p, g, j, t)
      BY <1>0, <1>1, <2>3, <2>4, <2>5, <3>2 DEF WorksOn
    <3> QED
      BY <2>9, <3>3, WorkedOn
  <2>10. ASSUME g \notin shifted
         PROVE  /\ Shown(w, g, s) /\ Only(Now, g, {}) /\ Now.conf[g].on = "file" /\ ~Now.conf[g].back /\ Undoable(Now, g, s)
                /\ Sound(w, g) /\ Recalled(r, w) /\ (Live(r, g) <=> Replaces(r, g)) /\ (Replaces(r, g) => g \in w.hosts)
                /\ \A op : ~Waits(Now, g, op)
                /\ (Replaces(t, g) <=> Replaces(r, g))
                /\ (g \in w.hosts => s.file.market = w.src[g] /\ w.src[g].ver = w.path[g] /\ Listed(g, s) = w.path[g])
    <3>1. /\ Shown(w, g, s) /\ Only(Now, g, {}) /\ Now.conf[g].on = "file" /\ ~Now.conf[g].back /\ Undoable(Now, g, s)
          /\ Sound(w, g) /\ Recalled(r, w) /\ (Live(r, g) <=> Replaces(r, g)) /\ (Replaces(r, g) => g \in w.hosts)
      BY <1>0, <1>1, <2>6, <2>10 DEF HostKnown
    <3>2. \A op : ~Waits(Now, g, op)
      BY <3>1 DEF Only, Waits
    <3>3. Replaces(t, g) <=> Replaces(r, g)
      BY <2>5, OnwardSays
    <3> QED
      BY <3>1, <3>2, <3>3 DEF Shown, Sound
  <2>11. CASE ~Live(r, g)
    <3>1. UNCHANGED journals
      BY <2>2, <2>11
    <3>2. OwnHost(p, g, Now)
      BY <1>0, <1>1, <1>2, <1>3, <3>1 DEF OwnHost
    <3>3. g \notin shifted => Worked(t, Now, g, s)
      BY <1>0, <2>1, <2>5, <2>10, <2>11 DEF Worked, Installing
    <3> QED
      BY <1>2, <2>9, <3>2, <3>3
  <2>12. CASE Live(r, g) /\ ~r.restart
    <3>1. PICK c \in {d, e} : c = (IF g \in DirHosts THEN e ELSE d) /\ Save(Queue(Now, c))
      BY <2>2, <2>12
    <3>2. c \in Command /\ c.host = g /\ c.op = (IF g \in DirHosts THEN "select" ELSE "plugin add") /\ c.op \in Roots
          /\ (c.op = "select" => c.src.ver = r.old.path[g] /\ g \in DirHosts)
      BY <1>5, <3>1 DEF Roots
    <3>3. PICK q : q = Queue(Now, c)
      OBVIOUS
    <3>4. PICK u : u = <<c>>
      OBVIOUS
    <3>5. u = <<>> \/ \E b \in Command : u = <<b>> /\ b.host = g
      BY <3>2, <3>4
    <3>6. Added(Now, u) = q
      BY <3>3, <3>4 DEF Added
    <3>7. /\ q \in Journal /\ q.status = Now.status /\ q.home = Now.home /\ q.conf = Now.conf
          /\ Clean(q) /\ KeptHeld(q) /\ \A h \in Host \ {g} : Kin(Now, q, h)
      BY <1>2, <3>5, <3>6, AddedSays
    <3>8. ASSUME g \notin shifted PROVE Undoable(q, g, s) /\ Worked(t, q, g, s)
      <4>1. /\ Waits(q, g, c.op) /\ ~Waits(q, g, "market add") /\ ~Waits(q, g, "market remove")
            /\ (Waits(q, g, "plugin add") \/ Waits(q, g, "select"))
        <5>1. /\ Waits(q, g, "market add") <=> Waits(Now, g, "market add") \/ (c.host = g /\ c.op = "market add")
              /\ Waits(q, g, "market remove") <=> Waits(Now, g, "market remove") \/ (c.host = g /\ c.op = "market remove")
              /\ Waits(q, g, "plugin add") <=> Waits(Now, g, "plugin add") \/ (c.host = g /\ c.op = "plugin add")
              /\ Waits(q, g, "select") <=> Waits(Now, g, "select") \/ (c.host = g /\ c.op = "select")
          BY <1>2, <3>2, <3>3, QueueWaits
        <5>2. c.host = g /\ (c.op = "select" \/ c.op = "plugin add")
          BY <3>2
        <5>3. ~Waits(Now, g, "market add") /\ ~Waits(Now, g, "market remove")
          BY <2>10, <3>8
        <5> QED
          BY <5>1, <5>2, <5>3
      <4>2. Only(q, g, Roots)
        <5>1. Only(Now, g, Roots)
          BY <2>10, <3>8 DEF Only
        <5> QED
          BY <1>2, <3>2, <3>3, <5>1, QueueOnly
      <4>3. g \in w.hosts /\ Replaces(t, g)
        BY <2>10, <2>12, <3>8
      <4>4. Leads(q, g, s)
        BY <1>0, <2>10, <3>7, <3>8, <4>1, <4>3 DEF Leads
      <4>5. Brings(c, g, w.path[g])
        BY <2>10, <3>2, <3>8 DEF Brings, Roots, Recalled
      <4>6. \E ops : Only(Now, g, ops) /\ \A op \in ops : Rank(op) <= Rank(c.op)
        BY <2>10, <3>8
      <4>7. Undoable(q, g, s)
        BY <1>0, <1>2, <2>10, <3>2, <3>3, <3>8, <4>4, <4>5, <4>6, QueuedUndoable
      <4>8. t.restart = r.restart /\ q.conf[g].on = "file" /\ q.home = w
        BY <1>0, <2>5, <2>10, <3>7, <3>8 DEF Onward
      <4>9. Worked(t, q, g, s)
        BY <2>3, <2>5, <2>10, <2>12, <3>2, <3>8, <4>1, <4>2, <4>3, <4>8 DEF Worked
      <4> QED
        BY <4>7, <4>9
    <3>9. OwnHost(p, g, q)
      BY <1>0, <1>1, <1>2, <3>1, <3>3, <3>7, <3>8 DEF OwnHost
    <3> QED
      BY <2>9, <3>7, <3>8, <3>9
  <2>13. CASE Live(r, g) /\ r.restart
    <3>1. Save(Queue(k, d))
      BY <2>2, <2>13
    <3>2. /\ k \in Journal /\ k.status = Now.status /\ k.home = w /\ k.undo = Now.undo
          /\ \A h \in Host \ {g} : k.conf[h] = Now.conf[h]
          /\ k.conf[g].on = "all" /\ ~k.conf[g].back
          /\ k.conf[g].before = [s EXCEPT !.file = Now.conf[g].before.file]
      <4>1. Now.conf \in [Host -> Kept] /\ Now.conf[g].before.file \in File
        BY <1>2 DEF Journal, Kept, HostState
      <4>2. PICK b : b = [s EXCEPT !.file = Now.conf[g].before.file]
        OBVIOUS
      <4>3. b \in HostState
        BY <1>2, <4>1, <4>2 DEF HostState
      <4>4. PICK a : a = [NoKept EXCEPT !.on = "all", !.signed = [s EXCEPT !.file = Now.conf[g].signed.file], !.before = b]
        OBVIOUS
      <4>0. [s EXCEPT !.file = Now.conf[g].signed.file] \in HostState
        BY <1>2 DEF Journal, Kept, HostState
      <4>5. a \in Kept /\ a.on = "all" /\ a.before = b /\ ~a.back
        BY <1>2, <4>0, <4>3, <4>4, FreshTyped DEF Kept, NoKept
      <4>6. k = [Now EXCEPT !.conf[g] = a]
        BY <1>0, <1>4, <4>2, <4>4 DEF TrackAll
      <4> QED
        BY <1>0, <1>2, <4>1, <4>2, <4>5, <4>6 DEF Journal
    <3>3. Clean(k)
      BY <1>2, <3>2 DEF Clean, AllReady, NoneBack
    <3>4. RegHeld(g, k.conf[g].before) /\ Listed(g, k.conf[g].before) = Listed(g, s)
          /\ k.conf[g].before.file = Now.conf[g].before.file
      <4>1. k.conf[g].before.reg = s.reg /\ k.conf[g].before.dirs = s.dirs /\ k.conf[g].before.file = Now.conf[g].before.file
        BY <1>2, <3>2 DEF HostState
      <4>2. RegHeld(g, s)
        BY <1>0, <1>2
      <4> QED
        BY <4>1, <4>2, SameListed
    <3>5. KeptHeld(k)
      BY <1>2, <3>2, <3>4 DEF KeptHeld
    <3>6. PICK q : q = Queue(k, d)
      OBVIOUS
    <3>7. PICK u : u = <<d>>
      OBVIOUS
    <3>8. u = <<>> \/ \E b \in Command : u = <<b>> /\ b.host = g
      BY <1>5, <3>7
    <3>9. Added(k, u) = q
      BY <3>6, <3>7 DEF Added
    <3>10. /\ q \in Journal /\ q.status = k.status /\ q.home = k.home /\ q.conf = k.conf
           /\ Clean(q) /\ KeptHeld(q) /\ \A h \in Host \ {g} : Kin(k, q, h)
      <4>1. k \in Journal /\ Clean(k) /\ KeptHeld(k)
        BY <3>2, <3>3, <3>5
      <4>2. LET i == Added(k, u)
            IN /\ i \in Journal /\ i.status = k.status /\ i.home = k.home /\ i.conf = k.conf
               /\ Clean(i) /\ KeptHeld(i) /\ \A h \in Host \ {g} : Kin(k, i, h)
        BY <4>1, <3>8, AddedSays
      <4> QED
        BY <3>9, <4>2
    <3>11. ASSUME NEW h \in Host \ {g} PROVE Kin(Now, q, h)
      <4>1. /\ k.undo = Now.undo /\ k.home = Now.home /\ k.conf[h].on = Now.conf[h].on /\ d.host # h
            /\ q.undo = Queue(k, d).undo /\ q.conf[h] = Now.conf[h] /\ q.home = Now.home
        BY <1>0, <1>5, <3>2, <3>6, <3>10, <3>11
      <4>2. \E i \in Journal, c \in Command :
              i.undo = Now.undo /\ i.home = Now.home /\ i.conf[h].on = Now.conf[h].on /\ c.host # h
              /\ q.undo = Queue(i, c).undo
        BY <1>5, <3>2, <4>1
      <4> QED
        BY <4>1, <4>2 DEF Kin
    <3>12. ASSUME g \notin shifted PROVE Undoable(q, g, s) /\ Worked(t, q, g, s)
      <4>1. ~Skewed(Now, g)
        BY <2>10, <3>12 DEF Skewed, Only
      <4>2. g \in w.hosts /\ Replaces(t, g)
        BY <2>10, <2>13, <3>12
      <4>3. Before(w, g, Now.conf[g].before.file)
        BY <1>0, <2>10, <3>12, <4>1 DEF Undoable
      <4>4. Shown(w, g, q.conf[g].before)
        BY <2>10, <3>4, <3>10, <3>12, <4>2, <4>3 DEF Shown, Before
      <4>5. Undoable(q, g, s)
        BY <1>0, <3>2, <3>10, <4>4 DEF Undoable
      <4>6. t.stage = "remove" /\ t.restart /\ q.conf[g].on = "all" /\ q.home = w /\ s.file.market = w.src[g]
        BY <2>1, <2>5, <2>10, <2>13, <3>2, <3>10, <3>12, <4>2 DEF Onward
      <4>7. Worked(t, q, g, s)
        BY <4>2, <4>6 DEF Worked
      <4> QED
        BY <4>5, <4>7
    <3>13. OwnHost(p, g, q)
      BY <1>0, <1>1, <1>2, <3>1, <3>2, <3>6, <3>10, <3>11, <3>12 DEF OwnHost
    <3> QED
      BY <2>9, <3>10, <3>12, <3>13
  <2> QED
    BY <2>11, <2>12, <2>13
<1> QED
  BY <1>6, <1>7

LEMMA SwitchCacheMarches ==
  ASSUME InstallAssumption, SettingsInv, RecordInv, used.edits = 0, NEW p \in Proc, SwitchCache(p)
  PROVE  \E j : Marches(p, j)
<1>0. PICK r, g, s, w : r = proc[p] /\ g = r.cur /\ s = host[g] /\ w = Now.home
  OBVIOUS
<1>1. /\ r.stage = "select" /\ r.stage \in InHost /\ Going(p) /\ r.stage \notin Uninstalling
      /\ UNCHANGED <<home, journals, shifted>> /\ "remove" \in Stage
  BY <1>0 DEF SwitchCache, InHost, Installing, Uninstalling, Going, Steps, Stage, ghosts
<1>2. /\ g \in Host /\ Now \in Journal /\ r \in Request /\ r.op # "uninstall" /\ TypeOK /\ s \in HostState
      /\ Clean(Now) /\ KeptHeld(Now) /\ Static(r) /\ (\A h \in Host : RegHeld(h, host[h])) /\ journals # <<>>
      /\ \A h \in Host \ shifted : Undoable(Now, h, host[h])
  <2>1. g \in Host /\ Standing(r, Now) /\ s \in HostState
    BY <1>0, <1>1, AtHost
  <2> QED
    BY <1>0, <1>1, <2>1, MarchFacts DEF Standing, Installing
<1>3. /\ host \in [Host -> HostState] /\ used \in [ops : Nat, edits : Nat, upsets : Nat]
  BY <1>2 DEF TypeOK
<1>4. PICK b : /\ b.file = s.file /\ (RegHeld(g, s) => RegHeld(g, b)) /\ host' = [host EXCEPT ![g] = b]
               /\ used'.edits = used.edits /\ (Go(p, "remove") \/ Abort(p) \/ Leave(p))
  <2>1. CASE s.dirs[r.ver] = "other" /\ Abort(p) /\ UNCHANGED <<host, used>>
    <3>1. host' = [host EXCEPT ![g] = s]
      BY <1>0, <1>2, <1>3, <2>1
    <3> QED
      BY <2>1, <3>1
  <2>2. CASE ~(s.dirs[r.ver] = "other" /\ Abort(p) /\ UNCHANGED <<host, used>>)
    <3>1. PICK S \in SUBSET Others(s, r.ver) :
            /\ host' = [host EXCEPT ![g] = Switched(@, r.ver, S)]
            /\ \/ S = Others(s, r.ver) /\ Go(p, "remove") /\ Unspent
               \/ MayUpset /\ Spend(1) /\ (Abort(p) \/ Leave(p))
      BY <1>0, <2>2 DEF SwitchCache
    <3>2. PICK b : b = Selected(s, r.ver, S)
      OBVIOUS
    <3>3. b.file = s.file /\ (RegHeld(g, s) => RegHeld(g, b))
      BY <1>2, <3>2, SelectedKeeps
    <3>4. host' = [host EXCEPT ![g] = b]
      BY <1>0, <3>1, <3>2 DEF Switched
    <3>5. used'.edits = used.edits
      BY <1>3, <3>1 DEF Unspent, Spend
    <3> QED
      BY <3>1, <3>3, <3>4, <3>5
  <2> QED
    BY <2>1, <2>2
<1>5. host'[g] = b /\ \A h \in Host \ {g} : host'[h] = host[h]
  BY <1>2, <1>3, <1>4
<1>6. ASSUME g \notin shifted
      PROVE  /\ Worked(r, Now, g, s) /\ Now.conf[g].on = "file" /\ Undoable(Now, g, b) /\ Replaces(r, g) /\ ~r.restart
             /\ HostKnown(r, Now, g, s) /\ Forward(r, Now, home, g, s)
             /\ Waits(Now, g, IF g \in DirHosts THEN "select" ELSE "plugin add") /\ Only(Now, g, Roots)
             /\ s.file.market = w.src[g]
  <2>1. HostKnown(r, Now, g, s) /\ Forward(r, Now, home, g, s)
    BY <1>0, <1>1, <1>6, HostFacts
  <2>2. Worked(r, Now, g, s) /\ Undoable(Now, g, s) /\ ~Now.conf[g].back
    BY <1>0, <1>1, <2>1 DEF HostKnown
  <2>3. /\ Replaces(r, g) /\ ~r.restart /\ Now.conf[g].on = "file" /\ s.file.market = w.src[g]
        /\ Waits(Now, g, IF g \in DirHosts THEN "select" ELSE "plugin add") /\ Only(Now, g, Roots)
    BY <1>0, <1>1, <2>2 DEF Worked, Installing
  <2>4. Waits(Now, g, "plugin add") \/ Waits(Now, g, "select")
    BY <2>3
  <2>5. Leads(Now, g, s) => Leads(Now, g, b)
    BY <1>4, <2>4 DEF Leads
  <2>6. Undoable(Now, g, b)
    BY <1>0, <2>2, <2>3, <2>5, StillUndoable DEF Way
  <2> QED
    BY <2>1, <2>2, <2>3, <2>6
<1>7. OwnHost(p, g, Now)
  <2>1. \A h \in Host : Kin(Now, Now, h)
    BY DEF Kin
  <2> QED
    BY <1>0, <1>1, <1>2, <1>4, <1>5, <1>6, <2>1 DEF OwnHost
<1>8. CASE Abort(p) \/ Leave(p)
  BY <1>7, <1>8, GivenUp DEF Abort, GivesUp
<1>9. CASE Go(p, "remove")
  <2>1. PICK t : t = proc'[p]
    OBVIOUS
  <2>2. /\ \A q \in Proc \ {p} : proc'[q] = proc[q]
        /\ Onward(r, t) /\ t.stage = "remove" /\ t.left = r.left /\ t.cur = r.cur /\ t.src = r.src
    BY <1>0, <1>1, <1>2, <1>9, <2>1, GoesOnward
  <2>3. t.stage \in InHost \ {"prepare", "restore"} /\ t.stage \notin {"unplug", "unmarket", "gone", "select"}
    BY <2>2 DEF InHost, Installing
  <2>4. ASSUME g \notin shifted PROVE Forward(t, Now, home', g, host'[g])
    <3>1. g \in r.hosts /\ RecordKept(r, w, home, g, s)
      BY <1>0, <1>6, <2>4 DEF HostKnown
    <3>2. RecordKept(t, w, home, g, b)
      BY <1>1, <1>2, <1>4, <2>2, <2>3, <3>1, RecordStays
    <3>3. Replaces(t, g) /\ ~t.restart
      BY <1>6, <2>2, <2>4, OnwardSays DEF Onward
    <3>4. Worked(t, Now, g, b)
      BY <1>0, <1>4, <1>6, <2>2, <2>3, <2>4, <3>3 DEF Worked
    <3>5. /\ r.cur \in r.hosts /\ RecordKept(t, Now.home, home, r.cur, b) /\ Worked(t, Now, r.cur, b)
          /\ Forward(r, Now, home, r.cur, s) /\ t.stage \in InHost \ {"prepare", "restore"}
      BY <1>0, <1>6, <2>3, <2>4, <3>1, <3>2, <3>4
    <3>6. Forward(t, Now, home, r.cur, b)
      BY <1>1, <2>2, <3>5, WorkGoes
    <3> QED
      BY <1>0, <1>1, <1>5, <3>6
  <2>5. WorksOn(p, g, Now, t)
    BY <1>0, <1>1, <2>1, <2>2, <2>3, <2>4 DEF WorksOn
  <2> QED
    BY <1>7, <2>5, WorkedOn
<1> QED
  BY <1>4, <1>8, <1>9

LEMMA RemoveMarketMarches ==
  ASSUME InstallAssumption, SettingsInv, RecordInv, used.edits = 0, NEW p \in Proc, RemoveMarket(p)
  PROVE  \E j : Marches(p, j)
<1>0. PICK r, g, s, w : r = proc[p] /\ g = r.cur /\ s = host[g] /\ w = Now.home
  OBVIOUS
<1> DEFINE src == IF r.restart THEN Dir(r.old.version) ELSE r.inv[g].market
           c == Cmd("market remove", g, NoSource)  d == Cmd("market add", g, src)  u == <<d>>
<1>1. /\ r.stage = "remove" /\ r.stage \in InHost /\ r.stage \notin Uninstalling
      /\ "add" \in InHost \ {"prepare", "restore"} /\ "add" \in Installing
  BY <1>0 DEF RemoveMarket, InHost, Installing, Uninstalling
<1>2. g \in Host /\ s \in HostState /\ Now \in Journal /\ r \in Request /\ r.op # "uninstall"
  BY <1>0, <1>1, AtHost DEF Standing, Installing
<1>3. c \in Command /\ c.host = g /\ c.op = "market remove" /\ d \in Command /\ d.host = g /\ d.op = "market add"
      /\ d.src = src
  <2>1. Dir(r.old.version) \in Source /\ r.inv[g].market \in Source
    BY <1>2 DEF Dir, Source, Request, Home, Inventory
  <2> QED
    BY <1>0, <1>2, <2>1, Bounds DEF Cmd, Command
<1>4. Added(Now, u) = Queue(Now, d)
  BY DEF Added
<1>5. PICK t : t = [r EXCEPT !.stage = "add"]
  OBVIOUS
<1>6. t.stage = "add" /\ t.cur = g /\ Onward(r, t) /\ t.restart = r.restart /\ (Replaces(t, g) <=> Replaces(r, g))
  <2>1. t.stage = "add" /\ t.cur = g /\ Onward(r, t) /\ t.restart = r.restart
    BY <1>0, <1>2, <1>5 DEF Request, Onward
  <2> QED
    BY <2>1, OnwardSays
<1>7. PICK q : q = Queue(Now, d)
  OBVIOUS
<1>8. q.home = w /\ q.conf = Now.conf
  BY <1>0, <1>2, <1>3, <1>7, QueueBase
<1> HIDE DEF c, d
<1>9. ASSUME g \notin shifted
      PROVE  HostKnown(r, Now, g, s) /\ Worked(r, Now, g, s) /\ g \in r.hosts /\ RecordKept(r, w, home, g, s)
  <2>1. HostKnown(r, Now, g, s)
    BY <1>0, <1>1, <1>9, HostFacts
  <2> QED
    BY <1>0, <1>1, <2>1 DEF HostKnown
<1>10. ASSUME g \notin shifted, Replaces(r, g)
       PROVE  /\ r.inv[g].market # NoSource
              /\ \A b \in {s, Effect(c, s)} : Undoable(q, g, b)
              /\ \A b \in HostState : Succeeds(c, s, b) => RecordKept(t, w, home, g, b) /\ Worked(t, q, g, b)
  <2>1. /\ g \in w.hosts /\ Undoable(Now, g, s) /\ Now.conf[g].on \in {"file", "all"} /\ ~Now.conf[g].back
        /\ Sound(w, g) /\ r.inv[g].market = w.src[g]
    BY <1>0, <1>1, <1>9, <1>10 DEF HostKnown
  <2>2. /\ s.file.market = w.src[g]
        /\ r.restart => Now.conf[g].on = "all"
        /\ ~r.restart => /\ Now.conf[g].on = "file" /\ Only(Now, g, Roots)
                         /\ Waits(Now, g, IF g \in DirHosts THEN "select" ELSE "plugin add")
    BY <1>0, <1>1, <1>9, <1>10 DEF Worked, Installing
  <2>3. Effect(c, s) = MarketRemoved(g, s)
    BY <1>3 DEF Effect
  <2>4. PICK e : e = MarketRemoved(g, s)
    OBVIOUS
  <2>5. e.file.market = NoSource
    BY <1>2, <2>4, RemovedSays
  <2>6. w.src[g].ver = w.path[g] /\ w.src[g] # NoSource
    <3>1. w.src[g].ver = w.path[g] /\ w.src[g].from \in {"tag", "dir"}
      BY <2>1 DEF Sound
    <3> QED
      BY <3>1, OursIs
  <2>7. ASSUME ~r.restart
        PROVE  /\ Waits(q, g, IF g \in DirHosts THEN "select" ELSE "plugin add") /\ Waits(q, g, "market add")
               /\ ~Waits(q, g, "market remove") /\ Only(q, g, Roots \union {"market add"})
    <3>1. ~Waits(Now, g, "market remove") /\ Only(Now, g, Roots \union {"market add"})
      BY <2>2, <2>7 DEF Only, Waits, Roots
    <3>2. Only(q, g, Roots \union {"market add"})
      BY <1>2, <1>3, <1>7, <3>1, QueueOnly
    <3> QED
      BY <1>2, <1>3, <1>7, <2>2, <2>7, <3>1, <3>2, QueueWaits
  <2>8. ASSUME NEW b \in {s, e} PROVE Undoable(q, g, b)
    <3>1. b.file.market = NoSource \/ b.file.market.ver = w.path[g]
      BY <2>2, <2>5, <2>6, <2>8
    <3>2. CASE r.restart
      BY <1>2, <1>3, <1>7, <2>1, <2>2, <3>2, QueuedUndoable
    <3>3. CASE ~r.restart
      <4>1. Waits(q, g, "select") \/ Waits(q, g, "plugin add")
        BY <2>7, <3>3
      <4>2. Leads(q, g, b)
        BY <1>8, <2>7, <3>1, <3>3, <4>1 DEF Leads
      <4>3. Brings(d, g, w.path[g])
        BY <1>3, <2>1, <2>6, <3>3 DEF Brings
      <4>4. \E ops : Only(Now, g, ops) /\ \A op \in ops : Rank(op) <= Rank(d.op)
        BY <1>3, <2>2, <3>3, RootsFirst
      <4> QED
        BY <1>0, <1>2, <1>3, <1>7, <2>1, <4>2, <4>3, <4>4, QueuedUndoable
    <3> QED
      BY <3>2, <3>3
  <2>9. ASSUME NEW b \in HostState, Succeeds(c, s, b) PROVE RecordKept(t, w, home, g, b) /\ Worked(t, q, g, b)
    <3>1. Able(c, s)
      BY <1>3, <2>2, <2>6 DEF Able
    <3>2. b = e
      BY <2>3, <2>4, <2>9, <3>1 DEF Succeeds
    <3>3. RecordKept(t, w, home, g, b)
      BY <1>0, <1>1, <1>2, <1>6, <1>9, <1>10, RecordStays
    <3>4. Worked(t, q, g, b)
      BY <1>1, <1>6, <1>8, <1>10, <2>2, <2>5, <2>7, <3>2 DEF Worked
    <3> QED
      BY <3>3, <3>4
  <2> QED
    BY <2>1, <2>3, <2>4, <2>6, <2>8, <2>9
<1>11. CASE Replaces(r, g) /\ r.inv[g].market # NoSource
  <2>1. External(p, c, u, "add") \/ DiesRunning(p, c, u)
    BY <1>0, <1>11 DEF RemoveMarket, c, d
  <2>2. \E b \in Command : u = <<b>> /\ b.host = g
    BY <1>3
  <2>3. NativeStep(p, c, u, "add")
    BY <1>0, <1>1, <1>3, <2>1, <2>2 DEF NativeStep
  <2>4. g \notin shifted => Fits(c, s, q, t)
    BY <1>6, <1>8, <1>10, <1>11 DEF Fits
  <2> QED
    BY <1>0, <1>4, <1>5, <1>7, <2>3, <2>4, WorkMarches
<1>12. CASE ~(Replaces(r, g) /\ r.inv[g].market # NoSource)
  <2>1. Go(p, "add") /\ UNCHANGED <<host, home, journals, shifted, used>>
    BY <1>0, <1>12 DEF RemoveMarket, ghosts
  <2>2. ASSUME g \notin shifted PROVE RecordKept(t, w, home, g, s) /\ Worked(t, Now, g, s)
    <3>1. ~Replaces(r, g)
      BY <1>10, <1>12, <2>2
    <3>2. Shown(w, g, s) /\ Only(Now, g, {})
      BY <1>0, <1>1, <1>9, <2>2, <3>1 DEF Worked, Installing
    <3>3. RecordKept(t, w, home, g, s)
      BY <1>0, <1>1, <1>2, <1>6, <1>9, <2>2, RecordStays
    <3>4. Worked(t, Now, g, s)
      BY <1>0, <1>1, <1>6, <3>1, <3>2 DEF Worked
    <3> QED
      BY <3>3, <3>4
  <2>3. proc[p].cur \notin shifted =>
          RecordKept(t, Now.home, home, t.cur, host[t.cur]) /\ Worked(t, Now, t.cur, host[t.cur])
    BY <1>0, <1>6, <2>2
  <2> QED
    BY <1>0, <1>1, <1>5, <1>6, <2>1, <2>3, PassMarches
<1> QED
  BY <1>11, <1>12

LEMMA NewTyped ==
  ASSUME NEW r \in Request PROVE New(r) \in Source /\ New(r).ver = r.ver /\ New(r).from \in {"tag", "dir"}
<1>1. r.ver \in 0..MaxVersion
  BY DEF Request
<1>2. Dir(r.ver) \in Source /\ Tag(r.ver) \in Source
  BY <1>1 DEF Dir, Tag, Source
<1> QED
  BY <1>2 DEF New, Dir, Tag

LEMMA AddMarketMarches ==
  ASSUME InstallAssumption, SettingsInv, RecordInv, used.edits = 0, NEW p \in Proc, AddMarket(p)
  PROVE  \E j : Marches(p, j)
<1>0. PICK r, g, s, w : r = proc[p] /\ g = r.cur /\ s = host[g] /\ w = Now.home
  OBVIOUS
<1> DEFINE c == Cmd("market add", g, New(r))  d == Cmd("market remove", g, NoSource)  u == <<d>>
           market == IF Replaces(r, g) THEN s.file.market ELSE r.inv[g].market
<1>1. /\ r.stage = "add" /\ r.stage \in InHost /\ r.stage \notin Uninstalling
      /\ "drop" \in InHost \ {"prepare", "restore"} /\ "drop" \in Installing
  BY <1>0 DEF AddMarket, InHost, Installing, Uninstalling
<1>2. g \in Host /\ s \in HostState /\ Now \in Journal /\ r \in Request /\ r.op # "uninstall"
  BY <1>0, <1>1, AtHost DEF Standing, Installing
<1>3. c \in Command /\ c.host = g /\ c.op = "market add" /\ d \in Command /\ d.host = g /\ d.op = "market remove"
      /\ c.src = New(r) /\ New(r) \in Source
  BY <1>0, <1>2, Bounds, NewTyped DEF Cmd, Command
<1>4. Added(Now, u) = Queue(Now, d)
  BY DEF Added
<1>5. PICK t : t = [r EXCEPT !.stage = "drop"]
  OBVIOUS
<1>6. /\ t.stage = "drop" /\ t.cur = g /\ Onward(r, t) /\ t.restart = r.restart
      /\ (Replaces(t, g) <=> Replaces(r, g)) /\ New(t) = New(r)
  <2>1. t.stage = "drop" /\ t.cur = g /\ Onward(r, t) /\ t.restart = r.restart
    BY <1>0, <1>2, <1>5 DEF Request, Onward
  <2> QED
    BY <2>1, OnwardSays
<1>7. PICK q : q = Queue(Now, d)
  OBVIOUS
<1>8. q.home = w /\ q.conf = Now.conf
  BY <1>0, <1>2, <1>3, <1>7, QueueBase
<1>13. IF market = NoSource THEN External(p, c, u, "drop") \/ DiesRunning(p, c, u)
       ELSE Go(p, "drop") /\ UNCHANGED <<host, home, journals, shifted, used>>
  BY <1>0 DEF AddMarket, New, ghosts
<1> HIDE DEF c, d
<1>9. ASSUME g \notin shifted
      PROVE  /\ HostKnown(r, Now, g, s) /\ Worked(r, Now, g, s) /\ g \in r.hosts /\ RecordKept(r, w, home, g, s)
             /\ Replaces(r, g) => g \in w.hosts /\ s.file.market = NoSource
             /\ ~Replaces(r, g) => Shown(w, g, s) /\ Only(Now, g, {})
             /\ g \in w.hosts /\ ~Replaces(r, g) => market # NoSource
             /\ g \notin w.hosts => market = NoSource /\ s.file.market = NoSource
  <2>1. HostKnown(r, Now, g, s)
    BY <1>0, <1>1, <1>9, HostFacts
  <2>2. Worked(r, Now, g, s) /\ g \in r.hosts /\ RecordKept(r, w, home, g, s) /\ (Replaces(r, g) => g \in w.hosts)
        /\ Sound(w, g) /\ (g \in w.hosts => r.inv[g].market = w.src[g]) /\ (g \notin w.hosts => r.inv[g].market = NoSource)
    BY <1>0, <1>1, <2>1 DEF HostKnown
  <2>3. /\ Replaces(r, g) => s.file.market = NoSource
        /\ ~Replaces(r, g) => Shown(w, g, s) /\ Only(Now, g, {})
    BY <1>0, <1>1, <2>2 DEF Worked, Installing
  <2>4. g \in w.hosts => w.src[g] # NoSource
    BY <2>2, OursIs DEF Sound
  <2>5. g \notin w.hosts => s.file.market = NoSource
    BY <2>2, <2>3 DEF Shown
  <2> QED
    BY <2>1, <2>2, <2>3, <2>4, <2>5
<1>10. ASSUME g \notin shifted, market = NoSource
       PROVE  /\ \A b \in {s, Effect(c, s)} : Undoable(q, g, b)
              /\ \A b \in HostState : Succeeds(c, s, b) => RecordKept(t, w, home, g, b) /\ Worked(t, q, g, b)
  <2>1. /\ Undoable(Now, g, s) /\ Now.conf[g].on \in {"file", "all"} /\ ~Now.conf[g].back
        /\ s.file.market = NoSource /\ (Replaces(r, g) \/ g \notin w.hosts)
    BY <1>0, <1>1, <1>9, <1>10 DEF HostKnown
  <2>2. Replaces(r, g) =>
        /\ r.restart => Now.conf[g].on = "all"
        /\ ~r.restart => /\ Now.conf[g].on = "file" /\ Only(Now, g, Roots \union {"market add"})
                         /\ Waits(Now, g, IF g \in DirHosts THEN "select" ELSE "plugin add")
                         /\ Waits(Now, g, "market add")
    BY <1>0, <1>1, <1>9, <1>10 DEF Worked, Installing
  <2>3. Effect(c, s) = [s EXCEPT !.file.market = New(r)]
    BY <1>3 DEF Effect
  <2>4. PICK e : e = [s EXCEPT !.file.market = New(r)]
    OBVIOUS
  <2>5. e.file.market = New(r)
    BY <1>2, <2>4 DEF HostState, File
  <2>6. \A op : Waits(q, g, op) <=> Waits(Now, g, op) \/ (d.host = g /\ d.op = op)
    BY <1>2, <1>3, <1>7, QueueWaits
  <2>7. ASSUME NEW b \in {s, e} PROVE Undoable(q, g, b)
    <3>1. CASE g \notin w.hosts \/ r.restart
      BY <1>0, <1>2, <1>3, <1>7, <2>1, <2>2, <3>1, QueuedUndoable
    <3>2. CASE g \in w.hosts /\ ~r.restart
      <4>1. /\ Waits(q, g, "select") \/ Waits(q, g, "plugin add")
            /\ g \in DirHosts \/ Waits(q, g, "plugin add")
            /\ Waits(q, g, "market add") /\ Waits(q, g, "market remove")
        BY <1>3, <2>1, <2>2, <2>6, <3>2
      <4>2. Leads(q, g, b)
        BY <4>1 DEF Leads
      <4>3. Brings(d, g, w.path[g])
        BY <1>3 DEF Brings, Roots
      <4>4. \E ops : Only(Now, g, ops) /\ \A op \in ops : Rank(op) <= Rank(d.op)
        BY <1>3, <2>1, <2>2, <3>2, RootsFirst
      <4> QED
        BY <1>0, <1>2, <1>3, <1>7, <2>1, <4>2, <4>3, <4>4, QueuedUndoable
    <3> QED
      BY <3>1, <3>2
  <2>8. ASSUME NEW b \in HostState, Succeeds(c, s, b) PROVE RecordKept(t, w, home, g, b) /\ Worked(t, q, g, b)
    <3>1. Able(c, s)
      BY <1>3, <2>1, <2>8 DEF Succeeds
    <3>2. b = e
      BY <2>3, <2>4, <2>8, <3>1 DEF Succeeds
    <3>3. RecordKept(t, w, home, g, b)
      BY <1>0, <1>1, <1>2, <1>6, <1>9, <1>10, <2>1, RecordStays
    <3>4. Worked(t, q, g, b)
      BY <1>1, <1>6, <1>8, <2>1, <2>2, <2>5, <2>6, <3>2 DEF Worked
    <3> QED
      BY <3>3, <3>4
  <2> QED
    BY <2>3, <2>4, <2>7, <2>8
<1>11. CASE market = NoSource
  <2>1. External(p, c, u, "drop") \/ DiesRunning(p, c, u)
    BY <1>11, <1>13
  <2>2. \E b \in Command : u = <<b>> /\ b.host = g
    BY <1>3
  <2>3. NativeStep(p, c, u, "drop")
    BY <1>0, <1>1, <1>3, <2>1, <2>2 DEF NativeStep
  <2>4. g \notin shifted => Fits(c, s, q, t)
    BY <1>6, <1>8, <1>10, <1>11 DEF Fits
  <2> QED
    BY <1>0, <1>4, <1>5, <1>7, <2>3, <2>4, WorkMarches
<1>12. CASE market # NoSource
  <2>1. Go(p, "drop") /\ UNCHANGED <<host, home, journals, shifted, used>>
    BY <1>12, <1>13
  <2>2. ASSUME g \notin shifted PROVE RecordKept(t, w, home, g, s) /\ Worked(t, Now, g, s)
    <3>1. ~Replaces(r, g) /\ g \in w.hosts /\ Shown(w, g, s) /\ Only(Now, g, {})
      BY <1>9, <1>12, <2>2
    <3>3. RecordKept(t, w, home, g, s)
      BY <1>0, <1>1, <1>2, <1>6, <1>9, <2>2, RecordStays
    <3>4. Worked(t, Now, g, s)
      BY <1>0, <1>1, <1>6, <3>1 DEF Worked
    <3> QED
      BY <3>3, <3>4
  <2>3. proc[p].cur \notin shifted =>
          RecordKept(t, Now.home, home, t.cur, host[t.cur]) /\ Worked(t, Now, t.cur, host[t.cur])
    BY <1>0, <1>6, <2>2
  <2> QED
    BY <1>0, <1>1, <1>5, <1>6, <2>1, <2>3, PassMarches
<1> QED
  BY <1>11, <1>12

LEMMA DropDisabledMarches ==
  ASSUME InstallAssumption, SettingsInv, RecordInv, used.edits = 0, NEW p \in Proc, DropDisabled(p)
  PROVE  \E j : Marches(p, j)
<1>0. PICK r, g, s, w : r = proc[p] /\ g = r.cur /\ s = host[g] /\ w = Now.home
  OBVIOUS
<1> DEFINE c == Cmd("plugin remove", g, NoSource)  d == Cmd("plugin add", g, NoSource)  u == <<d>>
           does == r.inv[g].plugin = "off" /\ ~Replaces(r, g)
<1>1. /\ r.stage = "drop" /\ r.stage \in InHost /\ r.stage \notin Uninstalling
      /\ "plug" \in InHost \ {"prepare", "restore"} /\ "plug" \in Installing
  BY <1>0 DEF DropDisabled, InHost, Installing, Uninstalling
<1>2. g \in Host /\ s \in HostState /\ Now \in Journal /\ r \in Request /\ r.op # "uninstall"
  BY <1>0, <1>1, AtHost DEF Standing, Installing
<1>3. c \in Command /\ c.host = g /\ d \in Command /\ d.host = g
  BY <1>0, <1>2, Bounds DEF Cmd, Command
<1>5. PICK t : t = [r EXCEPT !.stage = "plug"]
  OBVIOUS
<1>6. /\ t.stage = "plug" /\ t.cur = g /\ Onward(r, t) /\ t.restart = r.restart
      /\ (Replaces(t, g) <=> Replaces(r, g)) /\ New(t) = New(r)
  <2>1. t.stage = "plug" /\ t.cur = g /\ Onward(r, t) /\ t.restart = r.restart
    BY <1>0, <1>2, <1>5 DEF Request, Onward
  <2> QED
    BY <2>1, OnwardSays
<1>13. IF does THEN External(p, c, u, "plug") \/ DiesRunning(p, c, u)
       ELSE Go(p, "plug") /\ UNCHANGED <<host, home, journals, shifted, used>>
  BY <1>0 DEF DropDisabled, ghosts
<1> HIDE DEF c, d
<1>9. ASSUME g \notin shifted
      PROVE  ~does /\ RecordKept(t, w, home, g, s) /\ Worked(t, Now, g, s)
  <2>1. HostKnown(r, Now, g, s)
    BY <1>0, <1>1, <1>9, HostFacts
  <2>2. Worked(r, Now, g, s) /\ g \in r.hosts /\ RecordKept(r, w, home, g, s) /\ r.inv[g].plugin # "off"
    BY <1>0, <1>1, <2>1 DEF HostKnown
  <2>3. RecordKept(t, w, home, g, s)
    BY <1>0, <1>1, <1>2, <1>6, <2>2, RecordStays
  <2>4. CASE Replaces(r, g)
    <3>1. /\ IF r.restart THEN Now.conf[g].on = "all"
             ELSE /\ Now.conf[g].on = "file" /\ Waits(Now, g, "market add")
                  /\ Waits(Now, g, IF g \in DirHosts THEN "select" ELSE "plugin add")
          /\ s.file.market = New(r)
      BY <1>0, <1>1, <2>2, <2>4 DEF Worked, Installing
    <3>2. Worked(t, Now, g, s)
      BY <1>1, <1>6, <2>4, <3>1 DEF Worked
    <3> QED
      BY <2>2, <2>3, <3>2
  <2>5. CASE ~Replaces(r, g)
    <3>1. IF g \in w.hosts THEN Shown(w, g, s) /\ Only(Now, g, {}) ELSE s.file.market = New(r)
      BY <1>0, <1>1, <2>2, <2>5 DEF Worked, Installing
    <3>2. Worked(t, Now, g, s)
      BY <1>0, <1>1, <1>6, <2>5, <3>1 DEF Worked
    <3> QED
      BY <2>2, <2>3, <3>2
  <2> QED
    BY <2>4, <2>5
<1>11. CASE does
  <2>1. External(p, c, u, "plug") \/ DiesRunning(p, c, u)
    BY <1>11, <1>13
  <2>2. \E b \in Command : u = <<b>> /\ b.host = g
    BY <1>3
  <2>3. NativeStep(p, c, u, "plug")
    BY <1>0, <1>1, <1>3, <2>1, <2>2 DEF NativeStep
  <2>4. g \in shifted
    BY <1>9, <1>11
  <2> QED
    BY <1>0, <1>5, <2>3, <2>4, WorkMarches
<1>12. CASE ~does
  <2>1. Go(p, "plug") /\ UNCHANGED <<host, home, journals, shifted, used>>
    BY <1>12, <1>13
  <2>2. proc[p].cur \notin shifted =>
          RecordKept(t, Now.home, home, t.cur, host[t.cur]) /\ Worked(t, Now, t.cur, host[t.cur])
    BY <1>0, <1>6, <1>9
  <2> QED
    BY <1>0, <1>1, <1>5, <1>6, <2>1, <2>2, PassMarches
<1> QED
  BY <1>11, <1>12

LEMMA AddPluginMarches ==
  ASSUME InstallAssumption, SettingsInv, RecordInv, used.edits = 0, NEW p \in Proc, AddPlugin(p)
  PROVE  \E j : Marches(p, j)
<1>0. PICK r, g, s, w : r = proc[p] /\ g = r.cur /\ s = host[g] /\ w = Now.home
  OBVIOUS
<1> DEFINE c == Cmd("plugin add", g, NoSource)  d == Cmd("plugin remove", g, NoSource)
           relist == Live(r, g) /\ g \notin DirHosts
           native == /\ ~Live(r, g) \/ r.restart
                     /\ r.inv[g].plugin # "on" \/ Replaces(r, g)
           u == IF relist THEN <<>> ELSE <<d>>
<1>1. /\ r.stage = "plug" /\ r.stage \in InHost /\ r.stage \notin Uninstalling /\ r.stage \in Installing
      /\ "verify" \in InHost \ {"prepare", "restore"} /\ "verify" \in Installing
  BY <1>0 DEF AddPlugin, InHost, Installing, Uninstalling
<1>2. g \in Host /\ s \in HostState /\ Now \in Journal /\ r \in Request /\ r.op # "uninstall" /\ r.ver \in Version
  BY <1>0, <1>1, AtHost DEF Standing, Installing
<1>3. c \in Command /\ c.host = g /\ c.op = "plugin add" /\ d \in Command /\ d.host = g /\ d.op = "plugin remove"
  BY <1>0, <1>2, Bounds DEF Cmd, Command
<1>4. PICK q : q = Added(Now, u)
  OBVIOUS
<1>5. PICK t : t = [r EXCEPT !.stage = "verify"]
  OBVIOUS
<1>6. /\ t.stage = "verify" /\ t.cur = g /\ Onward(r, t) /\ t.restart = r.restart
      /\ (Replaces(t, g) <=> Replaces(r, g)) /\ New(t) = New(r)
  <2>1. t.stage = "verify" /\ t.cur = g /\ Onward(r, t) /\ t.restart = r.restart
    BY <1>0, <1>2, <1>5 DEF Request, Onward
  <2> QED
    BY <2>1, OnwardSays
<1>7. IF relist THEN q = Now ELSE q = Queue(Now, d)
  BY <1>4 DEF Added
<1>8. q.home = w /\ q.conf = Now.conf
  BY <1>0, <1>2, <1>3, <1>7, QueueBase
<1>9. IF relist \/ native THEN External(p, c, u, "verify") \/ DiesRunning(p, c, u)
      ELSE Go(p, "verify") /\ UNCHANGED <<host, home, journals, shifted, used>>
  BY <1>0 DEF AddPlugin, ghosts
<1> HIDE DEF c, d
<1>10. ASSUME g \notin shifted
       PROVE  /\ HostKnown(r, Now, g, s) /\ Worked(r, Now, g, s) /\ g \in r.hosts /\ RecordKept(r, w, home, g, s)
              /\ Live(r, g) <=> Replaces(r, g)
              /\ ~Replaces(r, g) => IF g \in w.hosts THEN Shown(w, g, s) /\ Only(Now, g, {}) /\ r.inv[g].plugin = "on"
                                    ELSE s.file.market = New(r)
              /\ Replaces(r, g) =>
                   /\ s.file.market = New(r)
                   /\ IF r.restart THEN Now.conf[g].on = "all"
                      ELSE /\ Now.conf[g].on = "file" /\ Waits(Now, g, "market add")
                           /\ Waits(Now, g, IF g \in DirHosts THEN "select" ELSE "plugin add")
  <2>1. HostKnown(r, Now, g, s)
    BY <1>0, <1>1, <1>10, HostFacts
  <2>2. /\ Worked(r, Now, g, s) /\ g \in r.hosts /\ RecordKept(r, w, home, g, s)
        /\ Live(r, g) <=> Replaces(r, g)
        /\ g \in w.hosts => r.inv[g].plugin = "on"
    BY <1>0, <1>1, <2>1 DEF HostKnown
  <2>3. ~Replaces(r, g) => IF g \in w.hosts THEN Shown(w, g, s) /\ Only(Now, g, {}) ELSE s.file.market = New(r)
    BY <1>0, <1>1, <2>2 DEF Worked
  <2>4. Replaces(r, g) =>
          /\ s.file.market = New(r)
          /\ IF r.restart THEN Now.conf[g].on = "all"
             ELSE /\ Now.conf[g].on = "file" /\ Waits(Now, g, "market add")
                  /\ Waits(Now, g, IF g \in DirHosts THEN "select" ELSE "plugin add")
    BY <1>0, <1>1, <2>2 DEF Worked
  <2> QED
    BY <2>1, <2>2, <2>3, <2>4
<1>11. ASSUME g \notin shifted, relist \/ native
       PROVE  /\ \A b \in {s, Effect(c, s)} : Undoable(q, g, b)
              /\ \A b \in HostState : Succeeds(c, s, b) => RecordKept(t, w, home, g, b) /\ Worked(t, q, g, b)
  <2>1. /\ Undoable(Now, g, s) /\ Now.conf[g].on \in {"file", "all"} /\ ~Now.conf[g].back
        /\ g \in r.hosts /\ RecordKept(r, w, home, g, s)
    BY <1>0, <1>1, <1>10, <1>11 DEF HostKnown
  <2>2. s.file.market = New(r) /\ (Replaces(r, g) \/ g \notin w.hosts)
    BY <1>10, <1>11
  <2>3. Replaces(r, g) /\ ~r.restart =>
          /\ relist /\ q = Now /\ g \notin DirHosts /\ Now.conf[g].on = "file"
          /\ Waits(Now, g, "market add") /\ Waits(Now, g, "plugin add")
    BY <1>7, <1>10, <1>11
  <2>4. Replaces(r, g) /\ r.restart => Now.conf[g].on = "all"
    BY <1>10, <1>11
  <2>5. PICK e : e = PluginAdded(g, s)
    OBVIOUS
  <2>6. Effect(c, s) = e
    BY <1>3, <2>5 DEF Effect
  <2>7. e.file.market = s.file.market
    BY <1>2, <2>5, AddedListed
  <2>8. ASSUME NEW b \in {s, e} PROVE Undoable(q, g, b)
    <3>1. CASE Replaces(r, g) /\ ~r.restart
      <4>1. Leads(Now, g, s) => Leads(Now, g, b)
        BY <2>3, <2>7, <2>8, <3>1 DEF Leads
      <4>2. Undoable(Now, g, b)
        BY <2>1, <4>1, StillUndoable DEF Way
      <4> QED
        BY <2>3, <3>1, <4>2
    <3>2. CASE ~(Replaces(r, g) /\ ~r.restart)
      <4>1. Now.conf[g].on = "all" \/ g \notin w.hosts
        BY <2>2, <2>4, <3>2
      <4>2. CASE relist
        <5>1. Undoable(Now, g, b)
          BY <1>0, <2>1, <4>1, StillUndoable
        <5> QED
          BY <1>7, <4>2, <5>1
      <4>3. CASE ~relist
        <5>1. ~(Now.conf[g].on = "file" /\ g \in Now.home.hosts /\ Way(Now, g, s))
          BY <1>0, <2>1, <4>1
        <5>2. Undoable(Queue(Now, d), g, b)
          BY <1>2, <1>3, <2>1, <5>1, QueuedUndoable
        <5> QED
          BY <1>7, <4>3, <5>2
      <4> QED
        BY <4>2, <4>3
    <3> QED
      BY <3>1, <3>2
  <2>9. ASSUME NEW b \in HostState, Succeeds(c, s, b) PROVE RecordKept(t, w, home, g, b) /\ Worked(t, q, g, b)
    <3>1. Able(c, s)
      BY <1>3, <2>9 DEF Succeeds
    <3>2. b = e
      BY <2>6, <2>9, <3>1 DEF Succeeds
    <3>3. RecordKept(t, w, home, g, b)
      BY <1>0, <1>1, <1>2, <1>6, <2>1, <2>7, <3>2, RecordStays
    <3>4. b.file.market = New(t)
      BY <1>6, <2>2, <2>7, <3>2
    <3>5. CASE Replaces(r, g)
      <4>1. IF r.restart THEN q.conf[g].on = "all"
            ELSE /\ q.conf[g].on = "file" /\ Waits(q, g, "market add")
                 /\ Waits(q, g, IF g \in DirHosts THEN "select" ELSE "plugin add")
        BY <1>8, <2>3, <2>4, <3>5
      <4> QED
        BY <1>1, <1>6, <3>3, <3>4, <3>5, <4>1 DEF Worked
    <3>6. CASE ~Replaces(r, g)
      BY <1>6, <1>8, <2>2, <3>3, <3>4, <3>6 DEF Worked
    <3> QED
      BY <3>5, <3>6
  <2> QED
    BY <2>6, <2>8, <2>9
<1>12. CASE relist \/ native
  <2>1. External(p, c, u, "verify") \/ DiesRunning(p, c, u)
    BY <1>9, <1>12
  <2>2. u = <<>> \/ \E b \in Command : u = <<b>> /\ b.host = g
    BY <1>3
  <2>3. NativeStep(p, c, u, "verify")
    BY <1>0, <1>1, <1>3, <2>1, <2>2 DEF NativeStep
  <2>4. g \notin shifted => Fits(c, s, q, t)
    BY <1>6, <1>8, <1>11, <1>12 DEF Fits
  <2> QED
    BY <1>0, <1>4, <1>5, <2>3, <2>4, WorkMarches
<1>13. CASE ~(relist \/ native)
  <2>1. Go(p, "verify") /\ UNCHANGED <<host, home, journals, shifted, used>>
    BY <1>9, <1>13
  <2>2. ASSUME g \notin shifted PROVE RecordKept(t, w, home, g, s) /\ Worked(t, Now, g, s)
    <3>1. RecordKept(t, w, home, g, s)
      BY <1>0, <1>1, <1>2, <1>6, <1>10, <2>2, RecordStays
    <3>2. CASE Replaces(r, g)
      BY <1>1, <1>6, <1>10, <2>2, <3>1, <3>2 DEF Worked
    <3>3. CASE ~Replaces(r, g)
      BY <1>0, <1>6, <1>10, <2>2, <3>1, <3>3 DEF Worked
    <3> QED
      BY <3>2, <3>3
  <2>3. proc[p].cur \notin shifted =>
          RecordKept(t, Now.home, home, t.cur, host[t.cur]) /\ Worked(t, Now, t.cur, host[t.cur])
    BY <1>0, <1>6, <2>2
  <2> QED
    BY <1>0, <1>1, <1>5, <1>6, <2>1, <2>3, PassMarches
<1> QED
  BY <1>12, <1>13

----------------------------------------------------------------------------
(* The stages that work on no host. *)

Alike(j) ==
  /\ Save(j) \/ (j = Now /\ UNCHANGED journals)
  /\ j.status = Now.status /\ j.home = Now.home /\ j.conf = Now.conf /\ j.undo = Now.undo
Carries(p, t) ==
  /\ \A q \in Proc \ {p} : proc'[q] = proc[q]
  /\ proc'[p] = t /\ Onward(proc[p], t) /\ t.stage \in Steps

LEMMA CalmMarches ==
  ASSUME SettingsInv, RecordInv, used.edits = 0, NEW p \in Proc, Going(p), NEW j, Alike(j), NEW t, Carries(p, t),
         UNCHANGED <<host, shifted>>, used'.edits = used.edits,
         \A h \in Host \ shifted : Forward(t, Now, home', h, host[h])
  PROVE  \E i : Marches(p, i)
<1>1. /\ Now \in Journal /\ Clean(Now) /\ KeptHeld(Now) /\ Static(proc[p]) /\ (\A h \in Host : RegHeld(h, host[h]))
      /\ \A h \in Host \ shifted : Undoable(Now, h, host[h])
  BY MarchFacts
<1>2. \A h \in Host : Kin(Now, j, h)
  BY DEF Kin, Alike
<1>3. Clean(j) /\ KeptHeld(j)
  BY <1>1 DEF Clean, AllReady, NoneBack, KeptHeld, Alike
<1>4. ASSUME NEW h \in Host \ shifted PROVE Undoable(j, h, host[h]) /\ Forward(t, j, home', h, host[h])
  <2>1. Kin(Now, j, h) /\ Undoable(Now, h, host[h]) /\ Forward(t, Now, home', h, host[h])
    BY <1>1, <1>2, <1>4
  <2> QED
    BY <1>1, <2>1, KinSays, ForwardKin
<1>5. Static(t) /\ t.stage # "undo"
  BY <1>1, OnwardSays DEF Carries, Going, Steps
<1>6. Marches(p, j)
  BY <1>1, <1>3, <1>4, <1>5 DEF Marches, Alike, Carries
<1> QED
  BY <1>6

LEMMA FailMarches ==
  ASSUME InstallAssumption, SettingsInv, RecordInv, used.edits = 0, NEW p \in Proc, Going(p), Fail(p) \/ Crash(p)
  PROVE  \E j : Marches(p, j)
<1>1. TypeOK
  BY MarchFacts
<1>2. used'.edits = used.edits
  BY <1>1 DEF Fail, Crash, Spend, TypeOK
<1>3. (Abort(p) \/ Leave(p)) /\ UNCHANGED <<host, journals, shifted>>
  BY DEF Fail, Crash, ghosts
<1> QED
  BY <1>2, <1>3, StopsMarch

LEMMA ConfirmMarches ==
  ASSUME InstallAssumption, SettingsInv, RecordInv, used.edits = 0, NEW p \in Proc, Confirm(p)
  PROVE  \E j : Marches(p, j)
<1>0. PICK r, w : r = proc[p] /\ w = Now.home
  OBVIOUS
<1>1. r.stage = "confirm" /\ Going(p) /\ UNCHANGED <<host, home, journals, shifted, used>>
  BY <1>0 DEF Confirm, Going, Steps, ghosts
<1>2. r \in Request /\ proc \in [Proc -> Request] /\ Static(r)
  BY <1>0, <1>1, MarchFacts DEF TypeOK
<1>3. CASE ~Confirmed(r)
  BY <1>0, <1>1, <1>3, StopsMarch DEF Confirm
<1>4. CASE Confirmed(r)
  <2>1. PICK t : t = [r EXCEPT !.left = r.hosts, !.stage = IF r.op = "uninstall" THEN "host" ELSE "files"]
    OBVIOUS
  <2>2. /\ Onward(r, t) /\ t.left = r.hosts /\ t.stage = (IF r.op = "uninstall" THEN "host" ELSE "files")
        /\ t.stage \in Steps /\ t.stage \notin {"confirm", "commit", "track"} \union InHost
    BY <1>2, <2>1 DEF Request, Onward, Steps, InHost, Installing, Uninstalling
  <2>3. Carries(p, t)
    BY <1>0, <1>2, <1>4, <2>1, <2>2 DEF Confirm, Carries
  <2>4. ASSUME NEW h \in Host \ shifted PROVE Forward(t, Now, home, h, host[h])
    <3>1. Forward(r, Now, home, h, host[h]) /\ Sound(w, h)
      BY <1>0, <1>1, <2>4, MarchFacts
    <3>2. home = w /\ Shown(w, h, host[h]) /\ Only(Now, h, {}) /\ Now.conf[h].on = "no"
      BY <1>0, <1>1, <3>1 DEF Forward
    <3>3. Recalled(t, w) /\ Recalled(r, w) /\ \A g \in r.hosts : Inv(g, host[g]) = r.inv[g]
      <4>1. TypeOK
        BY <1>1, MarchFacts
      <4> QED
        BY <4>1, <1>4, <2>2, <3>2, MetadataIs DEF Confirmed, Onward, Recalled
    <3>4. Told(t, w, h)
      <4>1. h \in w.hosts => Listed(h, host[h]) # 0
        BY <3>1, <3>2 DEF Shown, Sound, Version
      <4>2. h \in t.hosts => t.inv[h] = Inv(h, host[h])
        BY <2>2, <3>3 DEF Onward
      <4> QED
        BY <3>2, <4>1, <4>2 DEF Told, Shown, Inv
    <3>5. HomeHeld(t, w, home) /\ RecordKept(t, w, home, h, host[h])
      BY <2>2, <3>1, <3>2 DEF HomeHeld, RecordKept, Sound, Shown, Onward
    <3>6. t.op = "uninstall" => t.hosts \subseteq w.hosts
      BY <1>1, <1>2, <2>2, <3>3 DEF Static, Onward, Steps, Recalled
    <3>7. Waiting(t, h) /\ ~AtWork(t, h)
      BY <2>2 DEF Waiting, AtWork, Onward
    <3> QED
      BY <1>0, <2>2, <3>2, <3>3, <3>4, <3>5, <3>6, <3>7 DEF Forward, Onward
  <2>5. Alike(Now)
    BY <1>1 DEF Alike
  <2> QED
    BY <1>1, <2>3, <2>4, <2>5, CalmMarches
<1> QED
  BY <1>3, <1>4

LEMMA WriteFilesMarches ==
  ASSUME InstallAssumption, SettingsInv, RecordInv, used.edits = 0, NEW p \in Proc, WriteFiles(p)
  PROVE  \E j : Marches(p, j)
<1>0. PICK r, w : r = proc[p] /\ w = Now.home
  OBVIOUS
<1>1. r.stage = "files" /\ Going(p) /\ UNCHANGED <<host, shifted, used>> /\ "track" \in Stage
  BY <1>0 DEF WriteFiles, Going, Steps, ghosts, Stage
<1>2. r \in Request /\ TypeOK /\ Static(r) /\ Standing(r, Now) /\ Now \in Journal
  BY <1>0, <1>1, MarchFacts
<1>3. r.op # "uninstall" /\ home \in Home
  BY <1>1, <1>2 DEF Standing, Tracking, TypeOK
<1>4. CASE ~MayWriteLauncher(p)
  BY <1>0, <1>1, <1>4, StopsMarch DEF WriteFiles
<1>5. CASE MayWriteLauncher(p)
  <2>1. PICK t, j : t = [r EXCEPT !.stage = "track"] /\ j = Put(Now, Launcher, "text")
    OBVIOUS
  <2>2. Go(p, "track") /\ Save(j) /\ home' = [home EXCEPT !.current = r.ver, !.runtimes = @ \union {r.ver}]
    BY <1>0, <1>5, <2>1 DEF WriteFiles
  <2>3. j.status = Now.status /\ j.home = w /\ j.conf = Now.conf /\ j.undo = Now.undo
    BY <1>0, <1>2, <2>1, PutDoes DEF InstallAssumption, Text
  <2>4. /\ \A q \in Proc \ {p} : proc'[q] = proc[q]
        /\ proc'[p] = t /\ Onward(r, t) /\ t.stage = "track" /\ t.left = r.left /\ t.cur = r.cur /\ t.src = r.src
    BY <1>0, <1>1, <1>2, <2>1, <2>2, GoesOnward
  <2>5. Carries(p, t) /\ Alike(j)
    BY <1>0, <2>2, <2>3, <2>4 DEF Carries, Steps, Alike
  <2>6. /\ home'.current = r.ver /\ home'.runtimes = home.runtimes \union {r.ver} /\ home'.hosts = home.hosts
        /\ home'.src = home.src /\ home'.path = home.path /\ home'.version = home.version /\ home'.rec = home.rec
    BY <1>3, <2>2 DEF Home
  <2>7. ASSUME NEW h \in Host \ shifted PROVE Forward(t, Now, home', h, host[h])
    <3>1. Forward(r, Now, home, h, host[h])
      BY <1>0, <1>1, <2>7, MarchFacts
    <3>2. /\ Recalled(r, w) /\ Told(r, w, h) /\ HomeHeld(r, w, home) /\ RecordKept(r, w, home, h, host[h])
          /\ Waiting(r, h) => Shown(w, h, host[h]) /\ Only(Now, h, {}) /\ Now.conf[h].on # "all"
          /\ r.left = r.hosts
      BY <1>0, <1>1, <3>1 DEF Forward
    <3>3. HomeHeld(t, w, home') /\ RecordKept(t, w, home', h, host[h]) /\ Told(t, w, h)
      BY <1>1, <1>3, <2>4, <2>6, <3>2 DEF HomeHeld, RecordKept, Told, Onward, InHost, Installing, Uninstalling
    <3>4. Waiting(r, h) /\ Waiting(t, h) /\ ~AtWork(t, h) /\ t.stage \notin InHost
      BY <1>1, <2>4, SMTT(30) DEF Waiting, AtWork, InHost, Installing, Uninstalling
    <3> QED
      BY <1>0, <1>3, <2>4, <3>2, <3>3, <3>4 DEF Forward, Onward, Recalled
  <2> QED
    BY <1>1, <2>5, <2>7, CalmMarches
<1> QED
  BY <1>4, <1>5

LEMMA NextHostMarches ==
  ASSUME InstallAssumption, SettingsInv, RecordInv, used.edits = 0, NEW p \in Proc, NextHost(p)
  PROVE  \E j : Marches(p, j)
<1>0. PICK r, w : r = proc[p] /\ w = Now.home
  OBVIOUS
<1>1. r.stage = "host" /\ Going(p) /\ UNCHANGED <<host, home, journals, shifted, used>> /\ r.stage \notin InHost
  BY <1>0 DEF NextHost, Going, Steps, ghosts, InHost, Installing, Uninstalling
<1>2. r \in Request /\ proc \in [Proc -> Request] /\ Standing(r, Now) /\ r.hosts \subseteq Host
  BY <1>0, <1>1, MarchFacts DEF TypeOK, Request
<1>3. Alike(Now) /\ Nobody \notin Host
  BY <1>1 DEF Alike, InstallAssumption
<1>4. ASSUME NEW h \in Host \ shifted
      PROVE  /\ Recalled(r, w) /\ Told(r, w, h) /\ HomeHeld(r, w, home) /\ RecordKept(r, w, home, h, host[h])
             /\ r.op = "uninstall" => r.hosts \subseteq w.hosts
             /\ h \notin r.hosts \/ h \in r.left => Shown(w, h, host[h]) /\ Only(Now, h, {}) /\ Now.conf[h].on # "all"
             /\ h \notin r.hosts \/ h \in r.left \/ Ended(r, Now, home, h, host[h])
  <2>1. Forward(r, Now, home, h, host[h])
    BY <1>0, <1>1, <1>4, MarchFacts
  <2>2. (Waiting(r, h) <=> (h \notin r.hosts \/ h \in r.left)) /\ ~AtWork(r, h)
    BY <1>1 DEF Waiting, AtWork
  <2> QED
    BY <1>0, <1>1, <2>1, <2>2 DEF Forward
<1>5. ASSUME NEW g \in r.left,
             proc' = [proc EXCEPT ![p].cur = g, ![p].left = @ \ {g},
                        ![p].stage = IF r.op = "uninstall" THEN "restore" ELSE "prepare"]
      PROVE  \E j : Marches(p, j)
  <2>1. PICK t : t = proc'[p]
    OBVIOUS
  <2>2. /\ Onward(r, t) /\ t.left = r.left \ {g} /\ t.cur = g /\ t.src = r.src
        /\ t.stage \in {"restore", "prepare"}
        /\ \A q \in Proc \ {p} : proc'[q] = proc[q]
    BY <1>0, <1>2, <1>5, <2>1 DEF Request, Onward
  <2>3. /\ Carries(p, t) /\ t.stage \in InHost
        /\ t.stage \notin {"confirm", "commit", "files", "track", "host", "unplug", "unmarket", "gone"}
    BY <1>0, <2>1, <2>2 DEF Carries, Steps, InHost, Installing, Uninstalling
  <2>4. ASSUME NEW h \in Host \ shifted PROVE Forward(t, Now, home, h, host[h])
    <3>1. Told(t, w, h) /\ Recalled(t, w) /\ (t.op = "uninstall" => t.hosts \subseteq w.hosts)
      BY <1>4, <2>2, <2>4 DEF Told, Onward, Recalled
    <3>2. HomeHeld(t, w, home) /\ (Ended(r, Now, home, h, host[h]) => Ended(t, Now, home, h, host[h]))
      BY <1>1, <1>4, <2>2, <2>3, <2>4 DEF HomeHeld, Ended, Onward
    <3>3. RecordKept(t, w, home, h, host[h])
      <4>1. Replaces(t, h) <=> Replaces(r, h)
        BY <2>2, OnwardSays
      <4>2. RecordKept(r, w, home, h, host[h])
        BY <1>4, <2>4
      <4> QED
        BY <1>1, <2>2, <2>3, <4>1, <4>2 DEF RecordKept, Onward
    <3>4. (Waiting(t, h) <=> (h \notin r.hosts \/ h \in r.left)) /\ ~AtWork(t, h)
      BY <1>5, <2>2, <2>3 DEF Waiting, AtWork, Onward
    <3> QED
      BY <1>0, <1>4, <2>2, <2>3, <2>4, <3>1, <3>2, <3>3, <3>4 DEF Forward
  <2> QED
    BY <1>1, <1>3, <2>3, <2>4, CalmMarches
<1>6. ASSUME r.left = {},
             proc' = [proc EXCEPT ![p].cur = Nobody,
                ![p].stage = IF r.op = "uninstall" THEN "forget" ELSE "settings",
                ![p].left = IF r.secure THEN r.hosts ELSE r.refresh]
      PROVE  \E j : Marches(p, j)
  <2>1. PICK t : t = proc'[p]
    OBVIOUS
  <2>2. /\ Onward(r, t) /\ t.cur = Nobody /\ t.src = r.src
        /\ t.stage \in {"forget", "settings"}
        /\ \A q \in Proc \ {p} : proc'[q] = proc[q]
    BY <1>0, <1>2, <1>6, <2>1 DEF Request, Onward
  <2>3. /\ Carries(p, t) /\ t.stage \notin InHost
        /\ t.stage \notin {"confirm", "commit", "files", "track", "host", "unplug", "unmarket", "gone"}
    BY <1>0, <2>1, <2>2 DEF Carries, Steps, InHost, Installing, Uninstalling
  <2>4. ASSUME NEW h \in Host \ shifted PROVE Forward(t, Now, home, h, host[h])
    <3>1. Told(t, w, h) /\ Recalled(t, w) /\ (t.op = "uninstall" => t.hosts \subseteq w.hosts)
      BY <1>4, <2>2, <2>4 DEF Told, Onward, Recalled
    <3>2. HomeHeld(t, w, home) /\ (Ended(r, Now, home, h, host[h]) => Ended(t, Now, home, h, host[h]))
      BY <1>1, <1>4, <2>2, <2>3, <2>4, ZenonT(40) DEF HomeHeld, Ended, Onward
    <3>3. RecordKept(t, w, home, h, host[h])
      BY <1>1, <1>4, <2>2, <2>3, <2>4 DEF RecordKept, Onward
    <3>4. (Waiting(t, h) <=> h \notin r.hosts) /\ ~AtWork(t, h) /\ h \notin r.left
      BY <1>6, <2>2, <2>3 DEF Waiting, AtWork, Onward
    <3> QED
      BY <1>0, <1>4, <2>2, <2>3, <2>4, <3>1, <3>2, <3>3, <3>4 DEF Forward
  <2> QED
    BY <1>1, <1>3, <2>3, <2>4, CalmMarches
<1> QED
  BY <1>0, <1>5, <1>6 DEF NextHost

\* A host whose security settings alone are written is still what it was.
LEMMA LikeShown ==
  ASSUME NEW h, NEW s, NEW t, t.file.market = s.file.market, t.file.plugin = s.file.plugin, t.reg = s.reg, t.dirs = s.dirs
  PROVE  /\ Listed(h, t) = Listed(h, s) /\ (RegHeld(h, s) => RegHeld(h, t))
         /\ \A w : Shown(w, h, s) => Shown(w, h, t)
         /\ \A j : Undoable(j, h, s) => Undoable(j, h, t)
<1>1. Listed(h, t) = Listed(h, s) /\ (RegHeld(h, s) => RegHeld(h, t))
  BY SameListed
<1>2. \A w : Shown(w, h, s) => Shown(w, h, t)
  BY <1>1 DEF Shown
<1>3. \A j : Way(j, h, s) => Way(j, h, t)
  BY <1>1 DEF Way, Leads
<1>4. ASSUME NEW j, Undoable(j, h, s) PROVE Undoable(j, h, t)
  BY <1>2, <1>3, <1>4 DEF Undoable
<1> QED
  BY <1>1, <1>2, <1>4

\* A host that shows the record, with nothing to undo, is undone by its settings file alone.
LEMMA NothingToUndo ==
  ASSUME NEW j, NEW h, Only(j, h, {}), NEW s, NEW b, Shown(j.home, h, s), Shown(j.home, h, b),
         j.conf[h].on = "file", ~j.conf[h].back, j.conf[h].before = b
  PROVE  Undoable(j, h, s)
<1>1. Aimed(j, h) /\ Ordered(j, h) /\ \A op : ~Waits(j, h, op)
  BY DEF Only, Aimed, Ordered, Waits
<1>2. h \in j.home.hosts => Way(j, h, s)
  BY <1>1 DEF Way, Leads, Shown
<1> QED
  BY <1>2 DEF Undoable, Before, Shown

LEMMA TrackHostsMarches ==
  ASSUME InstallAssumption, SettingsInv, RecordInv, used.edits = 0, NEW p \in Proc, TrackHosts(p)
  PROVE  \E j : Marches(p, j)
<1>0. PICK r, w : r = proc[p] /\ w = Now.home
  OBVIOUS
<1>1. r.stage = "track" /\ Going(p) /\ r.stage \in Steps /\ "host" \in Stage
  BY <1>0 DEF TrackHosts, Going, Steps, Stage
<1>2. /\ r \in Request /\ TypeOK /\ Static(r) /\ Standing(r, Now) /\ Now \in Journal /\ Clean(Now) /\ KeptHeld(Now)
      /\ (\A h \in Host : RegHeld(h, host[h])) /\ Knows(r)
      /\ \A h \in Host \ shifted : Undoable(Now, h, host[h])
  BY <1>0, <1>1, MarchFacts
<1>3. r.op \in {"install", "update"} /\ r.op # "uninstall" /\ r.hosts \subseteq Host /\ r.refresh \subseteq r.hosts /\ r.refresh = Refreshed(r)
      /\ r.old \in Home /\ r.old.rec = w.rec
  BY <1>0, <1>1, <1>2, SMTT(30) DEF Standing, Request, Tracking, Static, Knows
<1>4. host \in [Host -> HostState] /\ home \in Home
  BY <1>2, SMTT(30) DEF TypeOK
<1> DEFINE after == [h \in Host |-> IF h \in r.refresh THEN Restored(r.old.rec[h], host[h]) ELSE host[h]]
           conf == [h \in Host |-> IF h \in r.hosts THEN Signed(Track(Now, h, host[h]), h, after[h]).conf[h] ELSE Now.conf[h]]
           rec == [h \in Host |-> IF h \in r.refresh THEN NoRecord ELSE home.rec[h]]
           trust == IF r.hosts \cap DirHosts = {} THEN home.trust ELSE 0
           j == [Now EXCEPT !.conf = conf]
<1>5. /\ host' = after /\ Save(j) /\ home' = [home EXCEPT !.rec = rec, !.trust = trust]
      /\ Go(p, "host") /\ UNCHANGED <<shifted, used>>
  BY <1>0 DEF TrackHosts, ghosts
<1>6. ASSUME NEW h \in Host
      PROVE  /\ after[h] \in HostState /\ after[h].reg = host[h].reg /\ after[h].dirs = host[h].dirs
             /\ after[h].file = IF h \in r.refresh /\ w.rec[h].on THEN w.rec[h].orig ELSE host[h].file
  <2>1. host[h] \in HostState /\ r.old.rec[h] \in Record /\ r.old.rec[h] = w.rec[h]
    BY <1>3, <1>4 DEF Home
  <2>2. PICK a : a = Restored(r.old.rec[h], host[h])
    OBVIOUS
  <2>3. a \in HostState /\ a.reg = host[h].reg /\ a.dirs = host[h].dirs
        /\ a.file = IF w.rec[h].on THEN w.rec[h].orig ELSE host[h].file
    BY <2>1, <2>2 DEF Restored, HostState, Record
  <2>4. after[h] = IF h \in r.refresh THEN a ELSE host[h]
    BY <2>2
  <2> HIDE DEF after
  <2> QED
    BY <2>1, <2>3, <2>4
<1> HIDE DEF after
<1>7. ASSUME NEW h \in Host
      PROVE  /\ conf[h] \in Kept /\ (h \notin r.hosts => conf[h] = Now.conf[h])
             /\ h \in r.hosts => conf[h].on = "file" /\ conf[h].before = host[h] /\ ~conf[h].back
  <2>1. host[h] \in HostState /\ after[h] \in HostState /\ Now.conf[h] \in Kept
    BY <1>2, <1>4, <1>6 DEF Journal
  <2> QED
    BY <1>2, <2>1, TrackedBack
<1>8. conf \in [Host -> Kept]
  BY <1>7
<1> HIDE DEF conf
<1>9. j \in Journal /\ j.status = Now.status /\ j.home = w /\ j.conf = conf /\ j.undo = Now.undo
  BY <1>0, <1>2, <1>8 DEF Journal
<1>10. \A h \in Host : rec[h] = IF h \in r.refresh THEN NoRecord ELSE home.rec[h]
  OBVIOUS
<1> HIDE DEF rec, j, trust
<1>11. /\ home'.current = home.current /\ home'.runtimes = home.runtimes /\ home'.hosts = home.hosts
       /\ home'.src = home.src /\ home'.path = home.path /\ home'.version = home.version /\ home'.rec = rec
  BY <1>4, <1>5 DEF Home
<1>12. Clean(j) /\ KeptHeld(j)
  BY <1>2, <1>7, <1>9 DEF Clean, AllReady, NoneBack, KeptHeld
<1>13. ASSUME NEW h \in Host PROVE RegHeld(h, host'[h])
  BY <1>2, <1>5, <1>6, SameListed
<1>14. PICK t : t = [r EXCEPT !.stage = "host"]
  OBVIOUS
<1>15. /\ \A q \in Proc \ {p} : proc'[q] = proc[q]
       /\ proc'[p] = t /\ Onward(r, t) /\ t.stage = "host" /\ t.left = r.left /\ t.cur = r.cur /\ t.src = r.src /\ Static(t)
  BY <1>0, <1>1, <1>2, <1>5, <1>14, GoesOnward
<1>16. ASSUME NEW h \in Host \ shifted
       PROVE  Undoable(j, h, host'[h]) /\ Forward(t, j, home', h, host'[h])
  <2>1. PICK a, b : a = host'[h] /\ b = host[h]
    OBVIOUS
  <2>2. /\ a.reg = b.reg /\ a.dirs = b.dirs
        /\ a.file = IF h \in r.refresh /\ w.rec[h].on THEN w.rec[h].orig ELSE b.file
    BY <1>5, <1>6, <1>16, <2>1
  <2>3. Forward(r, Now, home, h, b) /\ Undoable(Now, h, b) /\ Sound(w, h)
    BY <1>0, <1>1, <1>16, <2>1, MarchFacts
  <2>4. /\ Recalled(r, w) /\ Told(r, w, h) /\ HomeHeld(r, w, home) /\ RecordKept(r, w, home, h, b)
        /\ Waiting(r, h) => Shown(w, h, b) /\ Only(Now, h, {}) /\ Now.conf[h].on # "all"
        /\ r.left = r.hosts
    BY <1>0, <1>1, <2>3 DEF Forward
  <2>5. Shown(w, h, b) /\ Only(Now, h, {}) /\ Now.conf[h].on # "all" /\ Only(j, h, {})
    BY <1>1, <1>9, <2>4 DEF Waiting, Only
  <2>6. Listed(h, a) = Listed(h, b)
    BY <2>2, SameListed
  <2>7. Shown(w, h, a)
    BY <2>2, <2>3, <2>5, <2>6 DEF Shown, Sound
  <2>8. Undoable(j, h, a)
    <3>1. CASE h \in r.hosts
      <4>1. j.conf[h].on = "file" /\ j.conf[h].before = b /\ ~j.conf[h].back
        BY <1>7, <1>9, <1>16, <2>1, <3>1
      <4> QED
        BY <1>9, <2>5, <2>7, <4>1, NothingToUndo
    <3>2. CASE h \notin r.hosts
      <4>1. Kin(Now, j, h)
        BY <1>0, <1>7, <1>9, <1>16, <3>2 DEF Kin
      <4>2. a.file = b.file
        BY <1>3, <2>2, <3>2
      <4>3. Undoable(Now, h, a)
        BY <2>2, <2>3, <4>2, LikeShown
      <4> QED
        BY <1>2, <4>1, <4>3, KinSays
    <3> QED
      BY <3>1, <3>2
  <2>9. HomeHeld(t, w, home') /\ Told(t, w, h)
    BY <1>1, <1>3, <1>11, <1>15, <2>4 DEF HomeHeld, Told, Onward
  <2>10. RecordKept(t, w, home', h, a)
    <3>1. SUFFICES ASSUME home'.rec[h].on PROVE RecordKept(t, w, home', h, a)
      BY DEF RecordKept
    <3>2. h \notin r.refresh /\ home'.rec[h] = home.rec[h]
      <4>1. ~NoRecord.on
        BY DEF NoRecord
      <4> QED
        BY <1>10, <1>11, <1>16, <3>1, <4>1
    <3>3. a.file = b.file
      BY <2>2, <3>2
    <3>4. home.rec[h] = w.rec[h]
      <4>1. Tracked(r, h)
        BY <1>2, <1>16 DEF Knows
      <4> QED
        BY <1>0, <1>1, <4>1 DEF Tracked, Tracking
    <3>5. h \in w.hosts
      BY <2>3, <3>1, <3>2, <3>4 DEF Sound
    <3>6. h \in r.hosts => ~Replaces(r, h)
      BY <1>3, <2>4, <3>1, <3>2, <3>4 DEF Refreshed
    <3>7. home.rec[h].orig.market = b.file.market /\ home.rec[h].orig.plugin = "on"
      BY <1>1, <2>4, <3>1, <3>2 DEF RecordKept
    <3>8. h \in t.hosts => ~Replaces(t, h)
      BY <1>15, <3>6, OnwardSays DEF Onward
    <3> QED
      BY <1>15, <3>2, <3>3, <3>5, <3>7, <3>8 DEF RecordKept
  <2>11. Waiting(t, h) /\ ~AtWork(t, h) /\ t.stage \notin InHost
    BY <1>15, <2>4 DEF Waiting, AtWork, InHost, Installing, Uninstalling, Onward
  <2>12. j.conf[h].on # "all"
    BY <1>7, <1>9, <1>16, <2>5
  <2>13. Forward(t, j, home', h, a)
    BY <1>3, <1>9, <1>15, <2>4, <2>5, <2>7, <2>9, <2>10, <2>11, <2>12 DEF Forward, Onward, Recalled
  <2> QED
    BY <2>1, <2>8, <2>13
<1>17. Marches(p, j)
  BY <1>0, <1>1, <1>5, <1>9, <1>12, <1>13, <1>15, <1>16 DEF Marches
<1> QED
  BY <1>17

\* At the settings and after: what was worked on is ended, the rest is as it was.
LEMMA Closing ==
  ASSUME SettingsInv, RecordInv, used.edits = 0, NEW p \in Proc, proc[p].stage \in {"settings", "record", "forget"},
         NEW h \in Host \ shifted
  PROVE  LET r == proc[p]  w == Now.home  s == host[h] IN
         /\ Recalled(r, w) /\ Told(r, w, h) /\ HomeHeld(r, w, home) /\ Sound(w, h)
         /\ home.rec[h].on => /\ home.rec[h].orig.market = s.file.market /\ home.rec[h].orig.plugin = "on"
                              /\ h \in w.hosts \union r.hosts
         /\ r.op = "uninstall" => r.hosts \subseteq w.hosts
         /\ h \notin r.hosts => Shown(w, h, s) /\ Only(Now, h, {}) /\ Now.conf[h].on # "all"
         /\ h \in r.hosts => Ended(r, Now, home, h, s)
<1>0. PICK r, w, s : r = proc[p] /\ w = Now.home /\ s = host[h]
  OBVIOUS
<1>1. Going(p) /\ r.stage \notin {"confirm", "commit", "files", "track", "host", "unplug", "unmarket", "gone"} \union InHost
  BY <1>0 DEF Going, Steps, InHost, Installing, Uninstalling
<1>2. Forward(r, Now, home, h, s) /\ Sound(w, h)
  BY <1>0, <1>1, MarchFacts
<1>3. /\ Recalled(r, w) /\ Told(r, w, h) /\ HomeHeld(r, w, home) /\ RecordKept(r, w, home, h, s)
      /\ r.op = "uninstall" => r.hosts \subseteq w.hosts
      /\ Waiting(r, h) => Shown(w, h, s) /\ Only(Now, h, {}) /\ Now.conf[h].on # "all"
      /\ Waiting(r, h) \/ AtWork(r, h) \/ Ended(r, Now, home, h, s)
  BY <1>0, <1>1, <1>2 DEF Forward
<1>4. (Waiting(r, h) <=> h \notin r.hosts) /\ ~AtWork(r, h)
  BY <1>0, <1>1 DEF Waiting, AtWork
<1>5. home.rec[h].on => /\ home.rec[h].orig.market = s.file.market /\ home.rec[h].orig.plugin = "on"
                        /\ h \in w.hosts \union r.hosts
  BY <1>1, <1>3 DEF RecordKept
<1> QED
  BY <1>0, <1>2, <1>3, <1>4, <1>5

LEMMA StillClosing ==
  ASSUME NEW r, NEW j, NEW m, NEW h, NEW s, r.stage \in {"settings", "record", "forget"},
         LET w == j.home IN
         /\ Recalled(r, w) /\ Told(r, w, h) /\ HomeHeld(r, w, m)
         /\ m.rec[h].on => /\ m.rec[h].orig.market = s.file.market /\ m.rec[h].orig.plugin = "on"
                           /\ h \in w.hosts \union r.hosts
         /\ r.op = "uninstall" => r.hosts \subseteq w.hosts
         /\ h \notin r.hosts => Shown(w, h, s) /\ Only(j, h, {}) /\ j.conf[h].on # "all"
         /\ h \in r.hosts => Ended(r, j, m, h, s)
  PROVE  Forward(r, j, m, h, s)
<1>1. r.stage \notin {"confirm", "commit", "files", "track", "host", "unplug", "unmarket", "gone"} \union InHost
  BY DEF InHost, Installing, Uninstalling
<1>2. (Waiting(r, h) <=> h \notin r.hosts) /\ ~AtWork(r, h)
  BY <1>1 DEF Waiting, AtWork
<1>3. RecordKept(r, j.home, m, h, s)
  BY <1>1 DEF RecordKept
<1> QED
  BY <1>1, <1>2, <1>3 DEF Forward

LEMMA ApplySettingsMarches ==
  ASSUME InstallAssumption, SettingsInv, RecordInv, used.edits = 0, NEW p \in Proc, ApplySettings(p)
  PROVE  \E j : Marches(p, j)
<1>0. PICK r, w : r = proc[p] /\ w = Now.home
  OBVIOUS
<1>1. r.stage = "settings" /\ Going(p) /\ r.stage \in Steps /\ UNCHANGED <<shifted, used>>
  BY <1>0 DEF ApplySettings, Going, Steps, ghosts
<1>2. /\ r \in Request /\ TypeOK /\ Static(r) /\ Standing(r, Now) /\ Now \in Journal /\ Clean(Now) /\ KeptHeld(Now)
      /\ (\A h \in Host : RegHeld(h, host[h])) /\ Knows(r)
      /\ \A h \in Host \ shifted : Undoable(Now, h, host[h])
  BY <1>0, <1>1, MarchFacts
<1>3. r.op # "uninstall" /\ r.hosts \subseteq Host /\ r.left \subseteq r.hosts
  BY <1>1, <1>2 DEF Standing, Request, Installing
<1>4. host \in [Host -> HostState] /\ home \in Home /\ proc \in [Proc -> Request]
  BY <1>2 DEF TypeOK
<1>5. ASSUME NEW t, t.stage \in {"settings", "record"}, Onward(r, t), t.src = r.src, NEW h \in Host \ shifted
      PROVE  Forward(t, Now, home, h, host[h])
  <2>1. /\ Recalled(r, w) /\ Told(r, w, h) /\ HomeHeld(r, w, home)
        /\ home.rec[h].on => /\ home.rec[h].orig.market = host[h].file.market /\ home.rec[h].orig.plugin = "on"
                             /\ h \in w.hosts \union r.hosts
        /\ h \notin r.hosts => Shown(w, h, host[h]) /\ Only(Now, h, {}) /\ Now.conf[h].on # "all"
        /\ h \in r.hosts => Ended(r, Now, home, h, host[h])
    BY <1>0, <1>1, <1>5, Closing
  <2>2. /\ Recalled(t, w) /\ Told(t, w, h) /\ HomeHeld(t, w, home) /\ t.hosts = r.hosts /\ t.op # "uninstall"
        /\ h \in r.hosts => Ended(t, Now, home, h, host[h])
    BY <1>1, <1>3, <1>5, <2>1 DEF Told, HomeHeld, Ended, Onward, Recalled
  <2> QED
    BY <1>0, <1>5, <2>1, <2>2, StillClosing
<1>6. CASE r.left = {} /\ Go(p, "record") /\ UNCHANGED <<host, home, journals>>
  <2>1. PICK t : t = proc'[p]
    OBVIOUS
  <2>2. /\ \A q \in Proc \ {p} : proc'[q] = proc[q]
        /\ Onward(r, t) /\ t.stage = "record" /\ t.src = r.src
    BY <1>0, <1>2, <1>6, <2>1, GoesOnward DEF Stage, Steps
  <2>3. Carries(p, t) /\ Alike(Now)
    BY <1>0, <1>6, <2>1, <2>2 DEF Carries, Steps, Alike
  <2> QED
    BY <1>1, <1>5, <1>6, <2>2, <2>3, CalmMarches
<1>7. ASSUME NEW g \in r.left,
             LET rec == home.rec[g]
                 after == [host EXCEPT ![g].file = Baseline(@)]
             IN IF rec.on
                THEN /\ IF host[g].file = rec.applied
                        THEN proc' = [proc EXCEPT ![p].left = @ \ {g}] ELSE Abort(p)
                     /\ UNCHANGED <<host, home, journals>>
                ELSE /\ host' = after
                     /\ Save(Signed(Now, g, after[g]))
                     /\ home' = [home EXCEPT !.rec[g] = [on |-> TRUE, orig |-> host[g].file,
                                                         applied |-> after[g].file]]
                     /\ proc' = [proc EXCEPT ![p].left = @ \ {g}]
      PROVE  \E j : Marches(p, j)
  <2>1. PICK t : t = [r EXCEPT !.left = @ \ {g}]
    OBVIOUS
  <2>2. Onward(r, t) /\ t.stage = "settings" /\ t.src = r.src
    BY <1>1, <1>2, <2>1 DEF Request, Onward
  <2>3. CASE home.rec[g].on
    <3>1. UNCHANGED <<host, home, journals>> /\ (proc' = [proc EXCEPT ![p].left = @ \ {g}] \/ Abort(p))
      BY <1>7, <2>3
    <3>2. CASE Abort(p)
      BY <1>1, <3>1, <3>2, StopsMarch
    <3>3. CASE proc' = [proc EXCEPT ![p].left = @ \ {g}]
      <4>1. proc' = [proc EXCEPT ![p] = t]
        BY <1>0, <2>1, <3>3
      <4>2. Carries(p, t) /\ Alike(Now)
        BY <1>0, <1>4, <2>2, <3>1, <4>1 DEF Carries, Steps, Alike
      <4> QED
        BY <1>1, <1>5, <2>2, <3>1, <4>2, CalmMarches
    <3> QED
      BY <3>1, <3>2, <3>3
  <2>4. CASE ~home.rec[g].on
    <3>1. g \in Host /\ host[g] \in HostState /\ host[g].file \in File /\ Now.conf[g] \in Kept
      BY <1>2, <1>3, <1>4, <1>7 DEF HostState, Journal
    <3> DEFINE s == [host[g] EXCEPT !.file = Baseline(@)]
               rec == [on |-> TRUE, orig |-> host[g].file, applied |-> s.file]
               l == [Now.conf[g] EXCEPT !.signed = s]
               j == [Now EXCEPT !.conf[g].signed = s]
    <3>2. s \in HostState /\ s.file.market = host[g].file.market /\ s.file.plugin = host[g].file.plugin
          /\ s.reg = host[g].reg /\ s.dirs = host[g].dirs
      BY <3>1 DEF Baseline, HostState, File
    <3>3. Now.conf[g].on # "no"
      <4>1. Tracked(r, g)
        BY <1>2, <3>1 DEF Knows
      <4> QED
        BY <1>1, <1>3, <1>7, <4>1 DEF Tracked, Installing
    <3>4. /\ host' = [host EXCEPT ![g] = s] /\ Save(j) /\ home' = [home EXCEPT !.rec[g] = rec]
          /\ proc' = [proc EXCEPT ![p] = t]
      <4>1. [host EXCEPT ![g].file = Baseline(@)][g] = s
        BY <1>4, <3>1
      <4>2. Signed(Now, g, s) = j
        BY <3>3 DEF Signed
      <4> QED
        BY <1>0, <1>7, <2>1, <2>4, <4>1, <4>2
    <3>5. rec.on /\ rec.orig = host[g].file
      OBVIOUS
    <3>6. l \in Kept /\ l.on = Now.conf[g].on /\ l.before = Now.conf[g].before /\ l.back = Now.conf[g].back
      BY <3>1, <3>2 DEF Kept
    <3>7. j = [Now EXCEPT !.conf = [Now.conf EXCEPT ![g] = l]]
      BY <1>2 DEF Journal
    <3> HIDE DEF s, rec, l, j
    <3>8. /\ j \in Journal /\ j.status = Now.status /\ j.home = w /\ j.undo = Now.undo /\ j.conf[g] = l
          /\ \A h \in Host \ {g} : j.conf[h] = Now.conf[h]
      <4> DEFINE c == [Now.conf EXCEPT ![g] = l]
      <4>1. c \in [Host -> Kept] /\ c[g] = l /\ \A h \in Host \ {g} : c[h] = Now.conf[h]
        BY <1>2, <3>1, <3>6 DEF Journal
      <4>2. j = [Now EXCEPT !.conf = c]
        BY <3>7
      <4> HIDE DEF c
      <4> QED
        BY <1>0, <1>2, <4>1, <4>2 DEF Journal
    <3>9. \A h \in Host : Kin(Now, j, h)
      BY <1>0, <3>6, <3>8 DEF Kin
    <3>10. Clean(j) /\ KeptHeld(j)
      <4>1. \A h \in Host : j.conf[h].on = Now.conf[h].on /\ j.conf[h].before = Now.conf[h].before /\ j.conf[h].back = Now.conf[h].back
        BY <3>6, <3>8
      <4> QED
        BY <1>2, <3>8, <4>1 DEF Clean, AllReady, NoneBack, KeptHeld
    <3>11. \A h \in Host : /\ host'[h].file.market = host[h].file.market /\ host'[h].file.plugin = host[h].file.plugin
                           /\ host'[h].reg = host[h].reg /\ host'[h].dirs = host[h].dirs
      BY <1>4, <3>1, <3>2, <3>4
    <3>12. \A h \in Host : RegHeld(h, host'[h])
      BY <1>2, <3>11, LikeShown
    <3>13. /\ \A q \in Proc \ {p} : proc'[q] = proc[q]
           /\ proc'[p] = t /\ Static(t)
      BY <1>0, <1>1, <1>2, <1>4, <2>2, <3>4, OnwardSays
    <3>14. /\ home'.rec[g] = rec /\ (\A h \in Host \ {g} : home'.rec[h] = home.rec[h])
           /\ home'.current = home.current /\ home'.runtimes = home.runtimes /\ home'.hosts = home.hosts
           /\ home'.src = home.src /\ home'.path = home.path /\ home'.version = home.version
      BY <1>4, <3>1, <3>4 DEF Home
    <3>15. ASSUME NEW h \in Host \ shifted PROVE Undoable(j, h, host'[h]) /\ Forward(t, j, home', h, host'[h])
      <4>1. /\ host'[h].file.market = host[h].file.market /\ host'[h].file.plugin = host[h].file.plugin
            /\ host'[h].reg = host[h].reg /\ host'[h].dirs = host[h].dirs
            /\ Kin(Now, j, h) /\ Undoable(Now, h, host[h])
        BY <1>2, <3>9, <3>11, <3>15
      <4>2. Undoable(j, h, host'[h])
        BY <1>2, <4>1, LikeShown, KinSays
      <4>3. /\ Recalled(r, w) /\ Told(r, w, h) /\ HomeHeld(r, w, home)
            /\ home.rec[h].on => /\ home.rec[h].orig.market = host[h].file.market /\ home.rec[h].orig.plugin = "on"
                                 /\ h \in w.hosts \union r.hosts
            /\ h \notin r.hosts => Shown(w, h, host[h]) /\ Only(Now, h, {}) /\ Now.conf[h].on # "all"
            /\ h \in r.hosts => Ended(r, Now, home, h, host[h])
        BY <1>0, <1>1, <3>15, Closing
      <4>4. h \notin r.hosts => Shown(w, h, host'[h])
        BY <4>1, <4>3, LikeShown
      <4>5. Recalled(t, w) /\ Told(t, w, h) /\ HomeHeld(t, w, home') /\ t.hosts = r.hosts /\ t.op # "uninstall"
        BY <1>1, <1>3, <2>2, <3>14, <4>3 DEF Told, HomeHeld, Onward, Recalled
      <4>6. h \in r.hosts => Ended(t, Now, home', h, host'[h])
        <5>1. Listed(h, host'[h]) = Listed(h, host[h])
          BY <4>1, SameListed
        <5> QED
          BY <1>3, <2>2, <4>1, <4>3, <5>1 DEF Ended, Onward
      <4>7. home'.rec[h].on => /\ home'.rec[h].orig.market = host'[h].file.market /\ home'.rec[h].orig.plugin = "on"
                               /\ h \in w.hosts \union r.hosts
        <5>1. CASE h = g
          <6>1. Ended(r, Now, home, h, host[h]) /\ h \in r.hosts
            BY <1>3, <1>7, <4>3, <5>1
          <6> QED
            BY <1>3, <3>5, <3>14, <4>1, <5>1, <6>1 DEF Ended
        <5>2. CASE h # g
          BY <3>14, <3>15, <4>1, <4>3, <5>2
        <5> QED
          BY <5>1, <5>2
      <4>8. Forward(t, Now, home', h, host'[h])
        BY <1>0, <2>2, <4>3, <4>4, <4>5, <4>6, <4>7, StillClosing
      <4>9. Forward(t, j, home', h, host'[h])
        BY <1>2, <4>1, <4>8, ForwardKin
      <4> QED
        BY <4>2, <4>9
    <3>16. Marches(p, j)
      BY <1>0, <1>1, <2>2, <3>4, <3>8, <3>10, <3>12, <3>13, <3>15 DEF Marches
    <3> QED
      BY <3>16
  <2> QED
    BY <2>3, <2>4
<1> QED
  BY <1>0, <1>6, <1>7 DEF ApplySettings

LEMMA RecordInstallMarches ==
  ASSUME InstallAssumption, SettingsInv, RecordInv, used.edits = 0, NEW p \in Proc, RecordInstall(p)
  PROVE  \E j : Marches(p, j)
<1>0. PICK r, w : r = proc[p] /\ w = Now.home
  OBVIOUS
<1>1. r.stage = "record" /\ Going(p) /\ UNCHANGED <<host, shifted, used>> /\ Go(p, "commit") /\ "commit" \in Stage
  BY <1>0 DEF RecordInstall, Going, Steps, ghosts, Stage
<1>2. r \in Request /\ TypeOK /\ Standing(r, Now) /\ Now \in Journal
  BY <1>0, <1>1, MarchFacts
<1>3. r.op # "uninstall" /\ home \in Home /\ r.hosts \subseteq Host /\ r.op \in {"install", "update"} /\ r.ver \in Version
  BY <1>1, <1>2 DEF Standing, TypeOK, Installing, Request, Steps
<1>4. \E j : Alike(j)
  <2>1. CASE r.ptr.write
    <3>1. PICK j : j = Put(Now, Pointer, "text")
      OBVIOUS
    <3>2. Save(j)
      BY <1>0, <2>1, <3>1 DEF RecordInstall
    <3>3. j.status = Now.status /\ j.home = Now.home /\ j.conf = Now.conf /\ j.undo = Now.undo
      BY <1>2, <3>1, PutDoes DEF InstallAssumption, Text
    <3> QED
      BY <3>2, <3>3 DEF Alike
  <2>2. CASE ~r.ptr.write
    BY <1>0, <2>2 DEF RecordInstall, Alike
  <2> QED
    BY <2>1, <2>2
<1>5. PICK j : Alike(j)
  BY <1>4
<1>6. PICK t : t = proc'[p]
  OBVIOUS
<1>7. /\ \A q \in Proc \ {p} : proc'[q] = proc[q]
      /\ Onward(r, t) /\ t.stage = "commit" /\ t.src = r.src
  BY <1>0, <1>1, <1>2, <1>6, GoesOnward
<1>8. Carries(p, t)
  BY <1>0, <1>6, <1>7 DEF Carries, Steps
<1>9. /\ home'.version = r.ver /\ home'.hosts = r.old.hosts \union r.hosts
      /\ home'.current = home.current /\ home'.runtimes = home.runtimes /\ home'.rec = home.rec
      /\ \A h \in Host : /\ home'.src[h] = (IF h \in r.hosts THEN r.src[h] ELSE home.src[h])
                         /\ home'.path[h] = (IF h \in r.hosts THEN r.ver ELSE home.path[h])
  BY <1>0, <1>3 DEF RecordInstall, Home
<1>10. ASSUME NEW h \in Host \ shifted PROVE Forward(t, Now, home', h, host[h])
  <2>1. PICK s : s = host[h]
    OBVIOUS
  <2>2. /\ Recalled(r, w) /\ Told(r, w, h) /\ HomeHeld(r, w, home) /\ Sound(w, h)
        /\ home.rec[h].on => /\ home.rec[h].orig.market = s.file.market /\ home.rec[h].orig.plugin = "on"
                             /\ h \in w.hosts \union r.hosts
        /\ h \notin r.hosts => Shown(w, h, s)
        /\ h \in r.hosts => Ended(r, Now, home, h, s)
    BY <1>0, <1>1, <1>10, <2>1, Closing
  <2>3. home.src = w.src /\ home.path = w.path /\ home.current = r.ver /\ home.runtimes = w.runtimes \union {r.ver}
    BY <1>1, <1>3, <2>2 DEF HomeHeld
  <2>4. h \in r.hosts =>
          /\ s.file.plugin = "on" /\ Listed(h, s) = r.ver /\ s.file.market = r.src[h]
          /\ r.src[h].ver = r.ver /\ r.src[h].from \in {"tag", "dir"}
    BY <1>3, <2>2 DEF Ended
  <2>5. home'.hosts = w.hosts \union r.hosts
    BY <1>9, <2>2 DEF Recalled
  <2>6. Shown(home', h, s)
    <3>1. CASE h \in r.hosts
      BY <1>9, <1>10, <2>4, <2>5, <3>1 DEF Shown
    <3>2. CASE h \notin r.hosts
      BY <1>9, <1>10, <2>2, <2>3, <2>5, <3>2 DEF Shown
    <3> QED
      BY <3>1, <3>2
  <2>7. Sound(home', h)
    <3>1. h \in home'.hosts =>
            /\ home'.path[h] \in Version /\ home'.src[h].ver = home'.path[h] /\ home'.src[h].from \in {"tag", "dir"}
            /\ home'.src[h].from = "dir" => home'.path[h] \in home'.runtimes
      <4>1. CASE h \in r.hosts
        BY <1>3, <1>9, <1>10, <2>3, <2>4, <4>1
      <4>2. CASE h \notin r.hosts
        BY <1>9, <1>10, <2>2, <2>3, <2>5, <4>2 DEF Sound
      <4> QED
        BY <4>1, <4>2
    <3>2. home'.rec[h].on => /\ h \in home'.hosts /\ home'.rec[h].orig.market = home'.src[h]
                             /\ home'.rec[h].orig.plugin = "on"
      BY <1>9, <2>2, <2>5, <2>6 DEF Shown
    <3> QED
      BY <1>9, <2>3, <3>1, <3>2 DEF Sound
  <2>8. Recalled(t, w) /\ Told(t, w, h)
    BY <1>7, <2>2 DEF Told, Onward, Recalled
  <2> QED
    BY <1>0, <1>7, <2>1, <2>5, <2>6, <2>7, <2>8 DEF Forward
<1> QED
  BY <1>1, <1>5, <1>8, <1>10, CalmMarches

LEMMA ForgetMarches ==
  ASSUME InstallAssumption, SettingsInv, RecordInv, used.edits = 0, NEW p \in Proc, Forget(p)
  PROVE  \E j : Marches(p, j)
<1>0. PICK r, w : r = proc[p] /\ w = Now.home
  OBVIOUS
<1>1. r.stage = "forget" /\ Going(p) /\ UNCHANGED <<host, shifted, used>> /\ Go(p, "commit") /\ "commit" \in Stage
  BY <1>0 DEF Forget, Going, Steps, ghosts, Stage
<1>2. r \in Request /\ TypeOK /\ Standing(r, Now) /\ Now \in Journal
  BY <1>0, <1>1, MarchFacts
<1>3. r.op = "uninstall" /\ home \in Home
  BY <1>1, <1>2 DEF Standing, TypeOK
<1>4. PICK left : left = home.hosts \ r.hosts
  OBVIOUS
<1>5. \E j : Alike(j)
  <2>1. CASE left = {}
    <3> DEFINE clear == {Launcher} \union (IF home.ptr THEN {Pointer} ELSE {})
               j == [Now EXCEPT !.text = [x \in Place |->
                  IF x \in clear /\ place[x] # "absent"
                  THEN [on |-> TRUE, before |-> place[x], signed |-> "absent"] ELSE @[x]]]
    <3>2. Save(j)
      BY <1>0, <1>4, <2>1 DEF Forget, Remaining
    <3>3. j.status = Now.status /\ j.home = Now.home /\ j.conf = Now.conf /\ j.undo = Now.undo
      BY <1>2 DEF Journal
    <3> QED
      BY <3>2, <3>3 DEF Alike
  <2>2. CASE left # {}
    BY <1>0, <1>4, <2>2 DEF Forget, Remaining, Alike
  <2> QED
    BY <2>1, <2>2
<1>6. PICK j : Alike(j)
  BY <1>5
<1>7. PICK t : t = proc'[p]
  OBVIOUS
<1>8. /\ \A q \in Proc \ {p} : proc'[q] = proc[q]
      /\ Onward(r, t) /\ t.stage = "commit" /\ t.src = r.src
  BY <1>0, <1>1, <1>2, <1>7, GoesOnward
<1>9. Carries(p, t)
  BY <1>0, <1>7, <1>8 DEF Carries, Steps
<1>10. /\ home'.version = home.version /\ home'.hosts = left /\ home'.rec = home.rec
       /\ left # {} => home'.current = home.current /\ home'.runtimes = home.runtimes
       /\ \A h \in left : home'.src[h] = home.src[h] /\ home'.path[h] = home.path[h]
  <2>1. left \subseteq Host
    BY <1>3, <1>4 DEF Home
  <2> DEFINE src == [h \in Host |-> IF h \in left THEN home.src[h] ELSE NoSource]
             path == [h \in Host |-> IF h \in left THEN home.path[h] ELSE 0]
             gone == [home EXCEPT !.hosts = left, !.src = src, !.path = path]
  <2>2. /\ gone.version = home.version /\ gone.hosts = left /\ gone.rec = home.rec
        /\ gone.current = home.current /\ gone.runtimes = home.runtimes /\ gone.src = src /\ gone.path = path
        /\ LET last == [gone EXCEPT !.current = 0, !.runtimes = {}]
           IN /\ last.version = home.version /\ last.hosts = left /\ last.rec = home.rec
              /\ last.src = src /\ last.path = path
    BY <1>3 DEF Home
  <2>3. home' = (IF left # {} THEN gone ELSE [gone EXCEPT !.current = 0, !.runtimes = {}])
    BY <1>0, <1>4 DEF Forget, Remaining
  <2>4. \A h \in left : src[h] = home.src[h] /\ path[h] = home.path[h]
    BY <2>1
  <2> HIDE DEF src, path, gone
  <2> QED
    BY <2>2, <2>3, <2>4
<1>11. ASSUME NEW h \in Host \ shifted PROVE Forward(t, Now, home', h, host[h])
  <2>1. PICK s : s = host[h]
    OBVIOUS
  <2>2. /\ Recalled(r, w) /\ Told(r, w, h) /\ HomeHeld(r, w, home) /\ Sound(w, h) /\ r.hosts \subseteq w.hosts
        /\ home.rec[h].on => /\ home.rec[h].orig.market = s.file.market /\ home.rec[h].orig.plugin = "on"
                             /\ h \in w.hosts \union r.hosts
        /\ h \notin r.hosts => Shown(w, h, s)
        /\ h \in r.hosts => Ended(r, Now, home, h, s)
    BY <1>0, <1>1, <1>3, <1>11, <2>1, Closing
  <2>3. home.hosts = w.hosts /\ home.src = w.src /\ home.path = w.path /\ home.version = w.version
        /\ home.current = w.current /\ home.runtimes = w.runtimes
    BY <1>1, <1>3, <2>2 DEF HomeHeld
  <2>4. h \in r.hosts =>
          s.file.market = NoSource /\ s.file.plugin = "absent" /\ ~home.rec[h].on /\ Waits(Now, h, "plugin add")
    BY <1>3, <2>2 DEF Ended
  <2>5. left = w.hosts \ r.hosts
    BY <1>4, <2>3
  <2>6. Shown(home', h, s)
    BY <1>10, <2>2, <2>3, <2>4, <2>5 DEF Shown
  <2>7. Sound(home', h)
    <3>1. h \in left => h \in w.hosts /\ h \notin r.hosts /\ s.file.market = w.src[h]
      BY <2>2, <2>5 DEF Shown
    <3>2. left # {} => home'.current = home'.version
      BY <1>10, <2>2, <2>3, <2>5 DEF Sound
    <3>3. h \in left =>
            /\ home'.path[h] \in Version /\ home'.src[h].ver = home'.path[h] /\ home'.src[h].from \in {"tag", "dir"}
            /\ home'.src[h].from = "dir" => home'.path[h] \in home'.runtimes
      BY <1>10, <2>2, <2>3, <2>5 DEF Sound
    <3>4. home'.rec[h].on => /\ h \in left /\ home'.rec[h].orig.market = home'.src[h]
                             /\ home'.rec[h].orig.plugin = "on"
      BY <1>10, <2>2, <2>3, <2>4, <2>5, <3>1
    <3> QED
      BY <1>10, <3>2, <3>3, <3>4 DEF Sound
  <2>8. Recalled(t, w) /\ Told(t, w, h)
    BY <1>8, <2>2 DEF Told, Onward, Recalled
  <2>9. h \in w.hosts \ home'.hosts => Waits(Now, h, "plugin add")
    BY <1>10, <2>4, <2>5
  <2> QED
    BY <1>0, <1>8, <2>1, <2>6, <2>7, <2>8, <2>9 DEF Forward
<1> QED
  BY <1>1, <1>6, <1>9, <1>11, CalmMarches

\* What undoes a transaction from what its home shows now, undoes it from whatever
\* shows that home.
LEMMA Links ==
  ASSUME NEW j, NEW h, NEW s, Undoable(j, h, s), ~j.conf[h].back, j.conf[h].on \in {"no", "file", "all"},
         NEW m, Shown(m, h, s), h \in j.home.hosts \ m.hosts => Waits(j, h, "plugin add")
  PROVE  HostLinked(j, m, h)
<1> SUFFICES ASSUME NEW t \in HostState, Shown(m, h, t) PROVE Undoable(j, h, t)
  BY DEF HostLinked
<1>1. /\ t.file.market = s.file.market /\ t.file.plugin = s.file.plugin
      /\ h \in m.hosts => Listed(h, t) = Listed(h, s)
      /\ (h \in m.hosts) <=> s.file.plugin = "on"
  BY DEF Shown
<1>2. Shown(j.home, h, s) => Shown(j.home, h, t)
  BY <1>1 DEF Shown
<1>3. h \in j.home.hosts /\ Way(j, h, s) => Way(j, h, t)
  BY <1>1 DEF Way, Leads
<1> QED
  BY <1>2, <1>3 DEF Undoable

LEMMA CommitKeepsRecord ==
  ASSUME InstallAssumption, SettingsInv, RecordInv, NEW p \in Proc, Commit(p)
  PROVE  RecordInv'
<1>0. PICK r, w, j : r = proc[p] /\ w = Now.home /\ j = [Now EXCEPT !.status = "committed"]
  OBVIOUS
<1>1. r.stage = "commit" /\ Going(p) /\ Save(j) /\ Leave(p) /\ UNCHANGED <<host, home, used, shifted>>
  BY <1>0 DEF Commit, Going, Steps, ghosts
<1> SUFFICES ASSUME used'.edits = 0 PROVE RecordInv'
  BY DEF RecordInv
<1>2. used.edits = 0
  BY <1>1
<1>3. /\ TypeInv /\ TypeOK /\ journals # <<>> /\ Now \in Journal /\ Last \in DOMAIN journals /\ Running(p) /\ Clean(Now) /\ KeptHeld(Now)
      /\ (\A h \in Host : RegHeld(h, host[h])) /\ Now.status = "active"
      /\ \A h \in Host \ shifted : /\ Undoable(Now, h, host[h]) /\ Sound(Now.home, h)
                                   /\ Forward(proc[p], Now, home, h, host[h])
  BY <1>1, <1>2, MarchFacts
<1>4. /\ j \in Journal /\ j.status = "committed" /\ j.home = w /\ j.conf = Now.conf /\ j.undo = Now.undo
  BY <1>0, <1>3 DEF Journal
<1>5. /\ Last' = Last /\ Now' = j /\ DOMAIN journals' = DOMAIN journals /\ DOMAIN journals = 1..Last /\ Last \in Nat
      /\ \A i \in DOMAIN journals : journals'[i] = IF i = Last THEN j ELSE journals[i]
  <2>1. journals \in Seq(Journal)
    BY <1>3 DEF TypeOK
  <2>2. DOMAIN journals = 1..Last /\ Last \in Nat
    BY <2>1 DEF Last
  <2> QED
    BY <1>1, <1>3, <2>2, SavedIs
<1>6. NoneUnfinished'
  BY <1>3, <1>4, <1>5 DEF NoneUnfinished, TypeInv, Unfinished
<1>7. \A q \in Proc : proc'[q].stage \notin {"undo"} \union Steps /\ Static(proc'[q])
  <2>1. \A q \in Proc \ {p} : ~Running(q)
    BY <1>3, RunFacts
  <2>2. (\A q \in Proc \ {p} : proc'[q] = proc[q]) /\ proc'[p] = Idle /\ Idle.stage = "idle"
    BY <1>1, <1>3 DEF Leave, TypeOK, Idle
  <2>3. \A q \in Proc : Static(proc[q])
    BY <1>2 DEF RecordInv
  <2>4. \A q \in Proc \ {p} : proc'[q].stage \notin {"undo"} \union Steps /\ Static(proc'[q])
    BY <2>1, <2>2, <2>3 DEF Running, Steps
  <2>5. proc'[p].stage \notin {"undo"} \union Steps /\ Static(proc'[p])
    BY <2>2 DEF Static, Steps
  <2> QED
    BY <2>4, <2>5
<1>8. \A i \in DOMAIN journals' :
        KeptHeld(journals'[i]) /\ (journals'[i].status = "committed" => Clean(journals'[i]))
  <2>1. KeptHeld(j) /\ Clean(j)
    BY <1>3, <1>4 DEF KeptHeld, Clean, AllReady, NoneBack
  <2> QED
    BY <1>2, <1>5, <2>1 DEF RecordInv
<1>9. ASSUME NEW h \in Host \ shifted PROVE HostTrue(h)'
  <2>1. HostTrue(h)
    BY <1>2, <1>9 DEF RecordInv
  <2>2. \A i \in DOMAIN journals' : Sound(journals'[i].home, h)
    BY <1>0, <1>3, <1>4, <1>5, <1>9, <2>1 DEF HostTrue
  <2>3. Undoable(Now, h, host[h]) /\ Forward(r, Now, home, h, host[h])
    BY <1>0, <1>3, <1>9
  <2>4. Sound(home, h) /\ Shown(home, h, host[h]) /\ (h \in w.hosts \ home.hosts => Waits(Now, h, "plugin add"))
    BY <1>0, <1>1, <2>3 DEF Forward
  <2>5. HostLinked(j, home, h)
    <3>1. Kin(Now, j, h)
      BY <1>0, <1>4 DEF Kin
    <3>2. Undoable(j, h, host[h]) /\ (h \in j.home.hosts \ home.hosts => Waits(j, h, "plugin add"))
      BY <1>3, <1>4, <2>3, <2>4, <3>1, KinSays
    <3>3. ~j.conf[h].back /\ j.conf[h].on \in {"no", "file", "all"}
      BY <1>3, <1>4, <1>9 DEF Clean, NoneBack, Journal, Kept
    <3> QED
      BY <2>4, <3>2, <3>3, Links
  <2>6. Linking(h)'
    <3> SUFFICES ASSUME NEW i \in DOMAIN journals', NEW m \in 1..Last' + 1,
                        journals'[i].status = "committed", Follows(i, m)'
                 PROVE  HostLinked(journals'[i], HomeAt(m)', h)
      BY DEF Linking
    <3>1. i < m /\ \A l \in DOMAIN journals : i < l /\ l < m => journals'[l].status = "rolled_back"
      BY <1>5 DEF Follows
    <3>2. CASE i = Last
      <4>1. m = Last + 1
        BY <1>5, <3>1, <3>2
      <4>2. HomeAt(m)' = home
        BY <1>1, <1>5, <4>1 DEF HomeAt
      <4> QED
        BY <1>3, <1>5, <2>5, <3>2, <4>2
    <3>3. CASE i # Last
      <4>1. i < Last /\ journals'[i] = journals[i]
        BY <1>5, <3>3
      <4>2. m # Last + 1
        BY <1>3, <1>4, <1>5, <3>1, <4>1
      <4>3. m \in DOMAIN journals /\ HomeAt(m)' = HomeAt(m)
        <5>1. m \in DOMAIN journals /\ m \in DOMAIN journals'
          BY <1>5, <4>2
        <5>2. journals'[m].home = journals[m].home
          BY <1>0, <1>4, <1>5, <5>1 DEF Now
        <5> QED
          BY <5>1, <5>2 DEF HomeAt
      <4>4. Follows(i, m)
        BY <1>3, <1>5, <3>1, <4>3 DEF Follows
      <4> QED
        BY <1>5, <2>1, <4>1, <4>3, <4>4 DEF HostTrue, Linking
    <3> QED
      BY <3>2, <3>3
  <2>7. \A q \in Proc : ~Going(q)'
    BY <1>7 DEF Going
  <2> QED
    BY <1>1, <1>6, <2>2, <2>4, <2>6, <2>7 DEF HostTrue
<1>10. \A h \in Host : RegHeld(h, host'[h])
  BY <1>1, <1>3
<1>11. \A h \in Host \ shifted' : HostTrue(h)'
  BY <1>1, <1>9
<1> QED
  BY <1>6, <1>7, <1>8, <1>10, <1>11 DEF RecordInv, Going

----------------------------------------------------------------------------
(* Steps beside the work: asking, leaving, opening a transaction, the rollback's start. *)

LEMMA RecordAside ==
  ASSUME RecordInv, UNCHANGED <<host, home, journals, shifted>>, used'.edits = used.edits,
         \A q \in Proc : /\ Static(proc'[q]) /\ Going(q)' = Going(q)
                         /\ Going(q) \/ proc'[q].stage = "undo" => proc'[q] = proc[q]
  PROVE  RecordInv'
<1> SUFFICES ASSUME used'.edits = 0 PROVE RecordInv'
  BY DEF RecordInv
<1>1. used.edits = 0 /\ Last' = Last /\ Now' = Now /\ NoneUnfinished' = NoneUnfinished
  BY DEF Last, Now, NoneUnfinished
<1>2. \A q \in Proc : proc'[q].stage = "undo" => Undoing(proc'[q], Now, host)
  BY <1>1 DEF RecordInv
<1>3. \A q \in Proc : Going(q)' => Clean(Now)
  BY <1>1 DEF RecordInv
<1>4. ASSUME NEW h \in Host \ shifted PROVE HostTrue(h)'
  <2>1. HostTrue(h)
    BY <1>1, <1>4 DEF RecordInv
  <2>2. Linking(h)'
    <3>1. \A i \in DOMAIN journals : \A m \in 1..Last + 1 :
            journals[i].status = "committed" /\ Follows(i, m) => HostLinked(journals[i], HomeAt(m), h)
      BY <2>1 DEF HostTrue, Linking
    <3>2. \A i : \A m : Follows(i, m)' = Follows(i, m) /\ HomeAt(m)' = HomeAt(m)
      BY DEF Follows, HomeAt
    <3> QED
      BY <1>1, <3>1, <3>2 DEF Linking
  <2> QED
    BY <1>1, <2>1, <2>2 DEF HostTrue
<1> QED
  BY <1>1, <1>2, <1>3, <1>4 DEF RecordInv

LEMMA AskKeepsRecord ==
  ASSUME TypeOK, RecordInv, NEW p \in Proc, NEW r, Ask(p, r), r.stage = "asked", Static(r)
  PROVE  RecordInv'
<1>1. proc[p].stage = "idle" /\ proc' = [proc EXCEPT ![p] = r]
      /\ UNCHANGED <<host, home, journals, shifted>> /\ used' = [used EXCEPT !.ops = @ + 1]
  BY DEF Ask
<1>2. used'.edits = used.edits /\ \A q \in Proc : proc'[q] = IF q = p THEN r ELSE proc[q]
  BY <1>1 DEF TypeOK
<1>3. ASSUME used'.edits = 0 PROVE \A q \in Proc : Static(proc'[q])
  BY <1>2, <1>3 DEF RecordInv
<1>4. \A q \in Proc : Going(q)' = Going(q) /\ (Going(q) \/ proc'[q].stage = "undo" => proc'[q] = proc[q])
  BY <1>1, <1>2 DEF Going, Steps
<1> SUFFICES ASSUME used'.edits = 0 PROVE RecordInv'
  BY DEF RecordInv
<1> QED
  BY <1>1, <1>2, <1>3, <1>4, RecordAside

LEMMA AsksKeepRecord ==
  ASSUME InstallAssumption, TypeOK, RecordInv, NEW p \in Proc, AskInstall(p) \/ AskUpdate(p) \/ AskUninstall(p)
  PROVE  RecordInv'
<1>1. home.hosts \subseteq Host
  BY DEF TypeOK, Home
<1>2. ASSUME NEW r \in Request, r.stage = "asked", r.op # "uninstall", Ask(p, [r EXCEPT !.refresh = Refreshed(r)])
      PROVE  RecordInv'
  <2> DEFINE f == Refreshed(r)  t == [r EXCEPT !.refresh = f]
  <2>1. Ask(p, t)
    BY <1>2
  <2> HIDE DEF f
  <2>2. /\ t.stage = "asked" /\ t.op = r.op /\ t.refresh = f /\ t.hosts = r.hosts /\ t.old = r.old /\ t.ver = r.ver
    BY <1>2 DEF Request
  <2> HIDE DEF t
  <2>3. Refreshed(t) = Refreshed(r)
    BY <2>2 DEF Refreshed, Replaces, Replacing, Previous
  <2>4. Static(t)
    BY <1>2, <2>2, <2>3, SMTT(30) DEF Static, f
  <2> QED
    BY <2>1, <2>2, <2>4, AskKeepsRecord
<1>3. CASE AskInstall(p)
  <2>1. PICK hs \in SUBSET Host \ {{}}, v \in Version, local \in Locals, secure \in BOOLEAN :
           LET r == [Reads EXCEPT !.op = "install", !.hosts = hs, !.ver = v, !.local = local, !.secure = secure]
           IN Probed(r) /\ Ask(p, [r EXCEPT !.refresh = Refreshed(r)])
    BY <1>3 DEF AskInstall
  <2>2. local \in BOOLEAN /\ v \in 0..MaxVersion
    BY Bounds DEF InstallAssumption
  <2> DEFINE r == [Reads EXCEPT !.op = "install", !.hosts = hs, !.ver = v, !.local = local, !.secure = secure]
  <2>3. r \in Request /\ r.stage = "asked" /\ r.op = "install"
    BY <1>1, <2>2, ReadsTyped DEF Request
  <2>4. Ask(p, [r EXCEPT !.refresh = Refreshed(r)])
    BY <2>1
  <2> HIDE DEF r
  <2> QED
    BY <1>2, <2>3, <2>4, SMTT(30)
<1>4. CASE AskUpdate(p)
  <2>1. UpdateSecurity \in BOOLEAN
    BY DEF UpdateSecurity
  <2>2. PICK v \in Version, local \in Locals, restart \in BOOLEAN, enable \in BOOLEAN :
          LET r == [Reads EXCEPT !.op = "update", !.hosts = home.hosts, !.ver = v, !.local = local,
                           !.secure = UpdateSecurity, !.restart = restart, !.enable = enable]
          IN Probed(r) /\ Ask(p, [r EXCEPT !.refresh = Refreshed(r)])
    BY <1>4, ZenonT(40) DEF AskUpdate
  <2>3. local \in BOOLEAN /\ v \in 0..MaxVersion
    BY Bounds DEF InstallAssumption
  <2> DEFINE r == Planned(Reads, home.hosts, v, local, UpdateSecurity, restart, enable)
  <2>4. r \in Request /\ r.stage = "asked" /\ r.op = "update"
    BY <1>1, <2>1, <2>3, ReadsTyped, PlannedTyped
  <2>5. Ask(p, [r EXCEPT !.refresh = Refreshed(r)])
    BY <2>2 DEF Planned
  <2> HIDE DEF r
  <2> QED
    BY <1>2, <2>4, <2>5
<1>5. CASE AskUninstall(p)
  <2>1. PICK hs \in SUBSET home.hosts \ {{}} :
          LET r == [Reads EXCEPT !.op = "uninstall", !.hosts = hs] IN Ask(p, r)
    BY <1>5 DEF AskUninstall
  <2> DEFINE r == [Reads EXCEPT !.op = "uninstall", !.hosts = hs]
  <2>2. r.stage = "asked" /\ r.op = "uninstall" /\ r.hosts = hs /\ r.old = Metadata(home)
    BY <1>1, ReadsTyped DEF Request
  <2>3. Ask(p, r)
    BY <2>1
  <2> HIDE DEF r
  <2>4. Static(r)
    BY <1>1, <2>2, MetadataIs DEF Static
  <2> QED
    BY <2>2, <2>3, <2>4, AskKeepsRecord, SMTT(30)
<1> QED
  BY <1>3, <1>4, <1>5

\* A step that ends in Idle what was not at work on a transaction, or was rolling one back.
LEMMA LeaveKeepsRecord ==
  ASSUME TypeOK, RecordInv, NEW p \in Proc, ~Going(p), Leave(p),
         UNCHANGED <<host, home, journals, shifted>>, used'.edits = used.edits
  PROVE  RecordInv'
<1> SUFFICES ASSUME used'.edits = 0 PROVE RecordInv'
  BY DEF RecordInv
<1>1. (\A q \in Proc : proc'[q] = IF q = p THEN Idle ELSE proc[q]) /\ Idle.stage = "idle"
  BY DEF TypeOK, Leave, Idle
<1>2. \A q \in Proc : Static(proc'[q])
  <2>1. Static(Idle)
    BY <1>1 DEF Static, Steps
  <2> QED
    BY <1>1, <2>1 DEF RecordInv
<1>3. \A q \in Proc : Going(q)' = Going(q) /\ (Going(q) \/ proc'[q].stage = "undo" => proc'[q] = proc[q])
  BY <1>1 DEF Going, Steps
<1> QED
  BY <1>2, <1>3, RecordAside

\* A transaction has been opened behind the others: what links the older ones still does.
LEMMA OpensLinks ==
  ASSUME TypeOK, NEW j \in Journal, journals' = Append(journals, j), j.home = home,
         j.status \in {"active", "committed"}, NEW h, Linking(h),
         j.status = "committed" => HostLinked(j, home', h)
  PROVE  Linking(h)'
<1>1. /\ Last \in Nat /\ Last' = Last + 1 /\ DOMAIN journals = 1..Last /\ DOMAIN journals' = 1..Last + 1
      /\ (\A i \in 1..Last : journals'[i] = journals[i]) /\ journals'[Last + 1] = j
  BY Appended DEF Now
<1> SUFFICES ASSUME NEW i \in DOMAIN journals', NEW m \in 1..Last' + 1,
                    journals'[i].status = "committed", Follows(i, m)'
             PROVE  HostLinked(journals'[i], HomeAt(m)', h)
  BY DEF Linking
<1>2. CASE i = Last + 1
  <2>1. m = Last + 2
    BY <1>1, <1>2 DEF Follows
  <2>2. HomeAt(m)' = home'
    BY <1>1, <2>1 DEF HomeAt
  <2> QED
    BY <1>1, <1>2, <2>2
<1>3. CASE i # Last + 1
  <2>1. i \in 1..Last /\ journals'[i] = journals[i]
    BY <1>1, <1>3
  <2>2. m # Last + 2
    BY <1>1, <2>1 DEF Follows
  <2>3. m \in 1..Last + 1 /\ HomeAt(m)' = HomeAt(m)
    BY <1>1, <2>2 DEF HomeAt
  <2>4. Follows(i, m)
    BY <1>1, <2>3 DEF Follows
  <2> QED
    BY <1>1, <2>1, <2>3, <2>4 DEF Linking
<1> QED
  BY <1>2, <1>3

\* What a transaction that has done nothing yet would undo.
Untold(j) == j.undo = <<>> /\ j.home = home /\ \A h \in Host : j.conf[h].on = "no" /\ ~j.conf[h].back
LEMMA UntoldSays ==
  ASSUME NEW j, Untold(j)
  PROVE  /\ Clean(j) /\ KeptHeld(j)
         /\ \A h \in Host : Only(j, h, {}) /\ \A s : Shown(home, h, s) => Undoable(j, h, s)
<1>1. DOMAIN j.undo = {}
  BY DEF Untold
<1>2. Clean(j) /\ KeptHeld(j) /\ \A h \in Host : Only(j, h, {})
  BY <1>1 DEF Clean, AllReady, NoneBack, KeptHeld, Only, Untold
<1> QED
  BY <1>2 DEF Undoable, Untold

LEMMA BeginKeepsRecord ==
  ASSUME InstallAssumption, SettingsInv, RecordInv, NEW p \in Proc, Begin(p) PROVE RecordInv'
<1>1. TypeInv /\ TypeOK /\ proc[p].stage = "asked" /\ Free /\ proc[p] \in Request /\ UNCHANGED <<host, home, used, shifted>>
  BY DEF SettingsInv, TypeInv, TypeOK, Begin
<1>2. CASE ~NoneUnfinished
  BY <1>1, <1>2, LeaveKeepsRecord DEF Begin, Going, Steps
<1>3. CASE NoneUnfinished
  <2> SUFFICES ASSUME used'.edits = 0 PROVE RecordInv'
    BY DEF RecordInv
  <2>0. used.edits = 0
    BY <1>1
  <2> DEFINE j == [status |-> "active", undo |-> <<>>, home |-> home,
                   conf |-> [h \in Host |-> NoKept], text |-> [x \in Place |-> NoText]]
             r == [proc[p] EXCEPT !.stage = "confirm"]
  <2>1. journals' = Append(journals, j) /\ proc' = [proc EXCEPT ![p] = r]
    BY <1>3 DEF Begin, Open, Go
  <2>2. j \in Journal /\ j.status = "active" /\ Untold(j)
    BY <1>1, OpenTyped DEF Untold
  <2> HIDE DEF j
  <2>3. r \in Request /\ r.stage = "confirm" /\ Onward(proc[p], r)
    <3>1. r \in Request /\ r.stage = "confirm"
      BY <1>1, Moves DEF Stage, Steps
    <3>2. Onward(proc[p], r)
      BY <1>1 DEF Onward, Request
    <3> QED
      BY <3>1, <3>2
  <2> HIDE DEF r
  <2>4. /\ Last \in Nat /\ Last' = Last + 1 /\ Now' = j /\ journals' # <<>>
        /\ DOMAIN journals = 1..Last /\ DOMAIN journals' = 1..Last + 1
        /\ (\A i \in 1..Last : journals'[i] = journals[i]) /\ journals'[Last + 1] = j
    BY <1>1, <2>1, <2>2, Appended DEF Now
  <2>5. proc'[p] = r /\ \A q \in Proc \ {p} : proc'[q] = proc[q] /\ proc[q].stage \notin {"undo"} \union Steps
    BY <1>1, <2>1, <2>3 DEF TypeOK, Free, Running, Steps
  <2>6. Clean(j) /\ KeptHeld(j) /\ \A h \in Host : Only(j, h, {}) /\ \A s : Shown(home, h, s) => Undoable(j, h, s)
    BY <2>2, UntoldSays
  <2>7. ~NoneUnfinished'
    BY <2>2, <2>4 DEF NoneUnfinished, Unfinished
  <2>8. \A i \in DOMAIN journals' : KeptHeld(journals'[i]) /\ (journals'[i].status = "committed" => Clean(journals'[i]))
    <3>1. \A i \in 1..Last : KeptHeld(journals[i]) /\ (journals[i].status = "committed" => Clean(journals[i]))
      BY <2>0, <2>4 DEF RecordInv
    <3>2. ASSUME NEW i \in 1..Last + 1
          PROVE  KeptHeld(journals'[i]) /\ (journals'[i].status = "committed" => Clean(journals'[i]))
      <4>1. CASE i = Last + 1
        BY <2>4, <2>6, <4>1
      <4>2. CASE i # Last + 1
        <5>1. i \in 1..Last
          BY <2>4, <4>2
        <5> QED
          BY <2>4, <3>1, <5>1
      <4> QED
        BY <4>1, <4>2
    <3> QED
      BY <2>4, <3>2
  <2>9. ASSUME NEW q \in Proc
        PROVE  Static(proc'[q]) /\ proc'[q].stage # "undo" /\ (Going(q)' <=> q = p)
    <3>1. Static(proc[p]) /\ Static(proc[q])
      BY <2>0 DEF RecordInv
    <3>2. Static(r)
      BY <1>1, <2>3, <3>1, OnwardSays
    <3> QED
      BY <2>3, <2>5, <3>1, <3>2 DEF Going, Steps
  <2>10. ASSUME NEW h \in Host \ shifted PROVE HostTrue(h)'
    <3>1. HostTrue(h)
      BY <2>0, <2>10 DEF RecordInv
    <3>2. Sound(home, h) /\ Shown(home, h, host[h])
      BY <1>3, <3>1 DEF HostTrue
    <3>3. \A i \in DOMAIN journals' : Sound(journals'[i].home, h)
      <4>1. \A i \in 1..Last : Sound(journals[i].home, h)
        BY <2>4, <3>1 DEF HostTrue
      <4>2. Sound(j.home, h)
        BY <2>2, <3>2 DEF Untold
      <4>3. \A i \in 1..Last + 1 : i \in 1..Last \/ i = Last + 1
        BY <2>4
      <4> QED
        BY <2>4, <4>1, <4>2, <4>3
    <3>4. Forward(r, j, home, h, host[h])
      BY <2>2, <2>3, <2>6, <2>10, <3>2, SMT DEF Forward, Untold, Waiting, AtWork, Ended
    <3>5. Linking(h)'
      BY <1>1, <2>1, <2>2, <3>1, OpensLinks DEF HostTrue, Untold
    <3>6. Undoable(j, h, host[h])
      BY <2>6, <2>10, <3>2
    <3>7. \A q \in Proc : Going(q)' => Forward(proc'[q], j, home, h, host[h])
      BY <2>5, <2>9, <3>4
    <3> QED
      BY <1>1, <2>4, <2>7, <3>3, <3>5, <3>6, <3>7 DEF HostTrue
  <2>11. NoneBack(j)
    BY <2>6 DEF Clean
  <2>12. \A h \in Host : RegHeld(h, host'[h])
    BY <1>1, <2>0 DEF RecordInv
  <2> QED
    BY <1>1, <2>4, <2>6, <2>8, <2>9, <2>10, <2>11, <2>12 DEF RecordInv
<1> QED
  BY <1>2, <1>3

LEMMA AttestKeepsRecord ==
  ASSUME InstallAssumption, SettingsInv, RecordInv, NEW p \in Proc, Attest(p) PROVE RecordInv'
<1> DEFINE j == [status |-> "committed", undo |-> <<>>, home |-> home,
                 conf |-> [h \in Host |-> NoKept], text |-> [x \in Place |-> NoText]]
<1>1. /\ TypeInv /\ TypeOK /\ Free /\ NoneUnfinished /\ UNCHANGED <<host, proc, shifted>>
      /\ journals' = Append(journals, j) /\ home' = [home EXCEPT !.trust = home.version]
      /\ used' = [used EXCEPT !.ops = @ + 1]
  BY DEF SettingsInv, TypeInv, Attest
<1>2. j \in Journal /\ j.status = "committed" /\ Untold(j)
  BY <1>1, OpenTyped DEF Untold
<1> HIDE DEF j
<1> SUFFICES ASSUME used'.edits = 0 PROVE RecordInv'
  BY DEF RecordInv
<1>3. used.edits = 0
  BY <1>1 DEF TypeOK
<1>4. /\ Last \in Nat /\ Last' = Last + 1 /\ Now' = j /\ journals' # <<>>
      /\ DOMAIN journals = 1..Last /\ DOMAIN journals' = 1..Last + 1
      /\ (\A i \in 1..Last : journals'[i] = journals[i]) /\ journals'[Last + 1] = j
  BY <1>1, <1>2, Appended DEF Now
<1>5. Clean(j) /\ KeptHeld(j) /\ \A h \in Host : \A s : Shown(home, h, s) => Undoable(j, h, s)
  BY <1>2, UntoldSays
<1>6. \A i \in 1..Last + 1 : i \in 1..Last \/ i = Last + 1
  BY <1>4
<1>7. NoneUnfinished'
  <2>1. \A i \in 1..Last : journals'[i].status \notin Unfinished
    BY <1>1, <1>4 DEF NoneUnfinished
  <2>2. journals'[Last + 1].status \notin Unfinished
    BY <1>2, <1>4 DEF Unfinished
  <2> QED
    BY <1>4, <1>6, <2>1, <2>2 DEF NoneUnfinished
<1>8. \A i \in DOMAIN journals' : KeptHeld(journals'[i]) /\ (journals'[i].status = "committed" => Clean(journals'[i]))
  <2>1. \A i \in 1..Last : KeptHeld(journals[i]) /\ (journals[i].status = "committed" => Clean(journals[i]))
    BY <1>3, <1>4 DEF RecordInv
  <2> QED
    BY <1>4, <1>5, <1>6, <2>1
<1>9. ASSUME NEW q \in Proc PROVE Static(proc'[q]) /\ proc'[q].stage # "undo" /\ ~Going(q)'
  BY <1>1, <1>3 DEF RecordInv, Going, Free, Running, Steps
<1>10. /\ home'.hosts = home.hosts /\ home'.current = home.current /\ home'.version = home.version
       /\ home'.path = home.path /\ home'.src = home.src /\ home'.runtimes = home.runtimes /\ home'.rec = home.rec
  BY <1>1 DEF TypeOK, Home
<1>11. ASSUME NEW h \in Host \ shifted PROVE HostTrue(h)'
  <2>1. HostTrue(h)
    BY <1>3, <1>11 DEF RecordInv
  <2>2. Sound(home, h) /\ Shown(home, h, host[h])
    BY <1>1, <2>1 DEF HostTrue
  <2>3. Sound(home', h) /\ \A s : Shown(home', h, s) <=> Shown(home, h, s)
    BY <1>10, <2>2 DEF Sound, Shown
  <2>4. \A i \in DOMAIN journals' : Sound(journals'[i].home, h)
    <3>1. \A i \in 1..Last : Sound(journals[i].home, h)
      BY <1>4, <2>1 DEF HostTrue
    <3>2. Sound(j.home, h)
      BY <1>2, <2>2 DEF Untold
    <3> QED
      BY <1>4, <1>6, <3>1, <3>2
  <2>5. HostLinked(j, home', h)
    BY <1>5, <1>11, <2>3 DEF HostLinked
  <2>6. Linking(h)'
    BY <1>1, <1>2, <2>1, <2>5, OpensLinks DEF HostTrue, Untold
  <2> QED
    BY <1>1, <1>7, <1>9, <2>2, <2>3, <2>4, <2>6 DEF HostTrue
<1>12. \A h \in Host : RegHeld(h, host'[h])
  BY <1>1, <1>3 DEF RecordInv
<1> QED
  BY <1>1, <1>7, <1>8, <1>9, <1>11, <1>12 DEF RecordInv

----------------------------------------------------------------------------
(* The rollback. *)

LEMMA StartRollbackKeepsRecord ==
  ASSUME InstallAssumption, ~Retrying, SettingsInv, RecordInv, NEW p \in Proc, StartRollback(p)
  PROVE  RecordInv'
<1>1. TypeInv /\ TypeOK /\ proc[p].stage = "idle" /\ Free /\ Rollbackable # {}
  BY DEF SettingsInv, TypeInv, StartRollback
<1>2. journals \in Seq(Journal) /\ DOMAIN journals = 1..Last /\ Last \in Nat
  BY <1>1 DEF TypeOK, Last
<1>3. PICK i : i = Largest(Rollbackable)
  OBVIOUS
<1>4. i \in Rollbackable /\ \A n \in Rollbackable : n <= i
  <2>1. Rollbackable \in SUBSET Nat /\ \A n \in Rollbackable : n <= Last
    BY <1>2 DEF Rollbackable
  <2> QED
    BY <1>1, <1>2, <1>3, <2>1, LargestFound
<1>5. i \in 1..Last /\ journals[i].status # "rolled_back" /\ journals[i] \in Journal
  BY <1>2, <1>4 DEF Rollbackable
<1>6. \A l \in 1..Last : i < l => journals[l].status = "rolled_back"
  BY <1>2, <1>4, <1>5 DEF Rollbackable
<1> DEFINE j == [journals[i] EXCEPT !.status = "active"]
           r == [Idle EXCEPT !.stage = "undo", !.op = "rollback", !.k = Len(journals[i].undo)]
<1>7. /\ journals' = Append(SubSeq(journals, 1, i - 1), j) /\ proc' = [proc EXCEPT ![p] = r]
      /\ used' = [used EXCEPT !.ops = @ + IF NoneUnfinished THEN 1 ELSE 0]
      /\ UNCHANGED <<host, home, shifted>> /\ ~HasFailed(journals[i])
  BY <1>3 DEF StartRollback
<1>8. j \in Journal /\ j.status = "active" /\ j.home = journals[i].home /\ j.conf = journals[i].conf
      /\ j.undo = journals[i].undo
  BY <1>5 DEF Journal
<1>9. r.stage = "undo" /\ r.k = Len(j.undo) /\ ~r.bad
  BY <1>8, IdleTyped DEF Request, Idle
<1> HIDE DEF j, r
<1>10. /\ journals' \in Seq(Journal) /\ Len(journals') = i /\ journals'[i] = j
       /\ \A n \in 1..i - 1 : journals'[n] = journals[n]
  BY <1>2, <1>5, <1>7, <1>8 DEF Last
<1>11. Last' = i /\ Now' = j /\ DOMAIN journals' = 1..i /\ journals' # <<>> /\ i \in Nat
  BY <1>5, <1>10 DEF Last, Now
<1>12. proc'[p] = r /\ \A q \in Proc \ {p} : proc'[q] = proc[q] /\ proc[q].stage \notin {"undo"} \union Steps
  BY <1>1, <1>7 DEF TypeOK, Free, Running, Steps
<1>13. \A h \in Host : Undoable(j, h, host[h]) <=> Undoable(journals[i], h, host[h])
  <2> SUFFICES ASSUME NEW h \in Host PROVE Undoable(j, h, host[h]) <=> Undoable(journals[i], h, host[h])
    OBVIOUS
  <2>1. Kin(journals[i], j, h)
    BY <1>8 DEF Kin
  <2> QED
    BY <1>5, <2>1, KinSays
<1> SUFFICES ASSUME used'.edits = 0 PROVE RecordInv'
  BY DEF RecordInv
<1>14. used.edits = 0
  BY <1>1, <1>7 DEF TypeOK
<1>15. ~NoneUnfinished'
  BY <1>5, <1>8, <1>10, <1>11 DEF NoneUnfinished, Unfinished
<1>16. CASE journals[i].status = "committed" \/ (i = Last /\ ~NoneUnfinished)
  <2>1. \A n \in DOMAIN journals' : KeptHeld(journals'[n]) /\ (journals'[n].status = "committed" => Clean(journals'[n]))
    <3>1. \A n \in 1..Last : KeptHeld(journals[n]) /\ (journals[n].status = "committed" => Clean(journals[n]))
      BY <1>2, <1>14 DEF RecordInv
    <3>2. KeptHeld(j)
      BY <1>5, <1>8, <3>1 DEF KeptHeld
    <3>3. \A n \in 1..i : n = i \/ (n \in 1..i - 1 /\ n \in 1..Last)
      BY <1>2, <1>5
    <3> QED
      BY <1>8, <1>10, <1>11, <3>1, <3>2, <3>3
  <2>2. NoneBack(j) \/ Stuck(j, host) \/ AllDone(j)
    <3>1. NoneBack(journals[i]) \/ Stuck(journals[i], host) \/ AllDone(journals[i])
      BY <1>2, <1>5, <1>14, <1>16 DEF RecordInv, Clean, Now
    <3> QED
      BY <1>8, <3>1 DEF NoneBack, Stuck, AllDone
  <2>3. Undoing(r, j, host)
    <3>1. j.undo \in Seq(Undo)
      BY <1>8 DEF Journal
    <3>2. DOMAIN j.undo = 1..r.k /\ r.k \in Nat
      BY <1>9, <3>1
    <3>3. \A l \in DOMAIN j.undo : j.undo[l].state # "failed"
      BY <1>7, <1>8 DEF HasFailed
    <3> QED
      BY <1>9, <3>2, <3>3 DEF Undoing
  <2>4. ASSUME NEW q \in Proc
        PROVE  Static(proc'[q]) /\ ~Going(q)' /\ (proc'[q].stage = "undo" => Undoing(proc'[q], j, host))
    <3>1. Static(r)
      BY <1>9 DEF Static, Steps
    <3>2. Static(proc[q])
      BY <1>14 DEF RecordInv
    <3> QED
      BY <1>9, <1>12, <2>3, <3>1, <3>2 DEF Going, Steps
  <2>5. ASSUME NEW h \in Host \ shifted PROVE HostTrue(h)'
    <3>1. HostTrue(h)
      BY <1>14, <2>5 DEF RecordInv
    <3>2. \A n \in DOMAIN journals' : Sound(journals'[n].home, h)
      <4>1. \A n \in 1..Last : Sound(journals[n].home, h)
        BY <1>2, <3>1 DEF HostTrue
      <4>2. \A n \in 1..i : n = i \/ (n \in 1..i - 1 /\ n \in 1..Last)
        BY <1>2, <1>5
      <4> QED
        BY <1>5, <1>8, <1>10, <1>11, <4>1, <4>2
    <3>3. Undoable(journals[i], h, host[h]) \/ Stuck(journals[i], host)
      <4>1. CASE NoneUnfinished
        <5>1. Follows(i, Last + 1) /\ Last + 1 \in 1..Last + 1 /\ i \in DOMAIN journals /\ HomeAt(Last + 1) = home
          BY <1>2, <1>5, <1>6 DEF Follows, HomeAt
        <5>2. HostLinked(journals[i], home, h)
          BY <1>16, <3>1, <4>1, <5>1 DEF HostTrue, Linking
        <5>3. Shown(home, h, host[h]) /\ host[h] \in HostState
          BY <1>1, <2>5, <3>1, <4>1 DEF HostTrue, TypeOK
        <5> QED
          BY <5>2, <5>3 DEF HostLinked
      <4>2. CASE ~NoneUnfinished
        <5>1. i = Last
          <6>1. PICK n \in 1..Last : journals[n].status \in Unfinished
            BY <1>2, <4>2 DEF NoneUnfinished
          <6>2. n = Last
            BY <1>1, <1>2, <6>1 DEF TypeInv
          <6> QED
            BY <1>2, <1>5, <1>6, <6>1, <6>2 DEF Unfinished
        <5> QED
          BY <3>1, <4>2, <5>1 DEF HostTrue, Now
      <4> QED
        BY <4>1, <4>2
    <3>4. Undoable(j, h, host[h]) \/ Stuck(j, host)
      BY <1>8, <1>13, <2>5, <3>3 DEF Stuck
    <3>5. Linking(h)'
      <4> SUFFICES ASSUME NEW n \in DOMAIN journals', NEW m \in 1..Last' + 1,
                          journals'[n].status = "committed", Follows(n, m)'
                   PROVE  HostLinked(journals'[n], HomeAt(m)', h)
        BY DEF Linking
      <4>1. n # i /\ n < i /\ n \in 1..i - 1 /\ n \in DOMAIN journals /\ journals'[n] = journals[n]
        BY <1>2, <1>5, <1>8, <1>10, <1>11
      <4>2. m # i + 1
        BY <1>8, <1>10, <1>11, <4>1 DEF Follows
      <4>3. m \in 1..i /\ m \in DOMAIN journals /\ m \in DOMAIN journals' /\ m \in 1..Last + 1
        BY <1>2, <1>5, <1>11, <4>2
      <4>4. HomeAt(m)' = HomeAt(m)
        BY <1>8, <1>10, <4>3 DEF HomeAt
      <4>5. Follows(n, m)
        BY <1>2, <1>5, <1>10, <1>11, <4>3 DEF Follows
      <4> QED
        BY <3>1, <4>1, <4>3, <4>4, <4>5 DEF HostTrue, Linking
    <3> QED
      BY <1>7, <1>11, <1>15, <2>4, <3>2, <3>4, <3>5 DEF HostTrue
  <2>6. \A h \in Host : RegHeld(h, host'[h])
    BY <1>7, <1>14 DEF RecordInv
  <2> QED
    BY <1>7, <1>11, <2>1, <2>2, <2>4, <2>5, <2>6 DEF RecordInv
<1>17. journals[i].status = "committed" \/ (i = Last /\ ~NoneUnfinished)
  <2>1. CASE journals[i].status \in Unfinished
    BY <1>1, <1>2, <1>5, <2>1 DEF TypeInv, NoneUnfinished
  <2>2. CASE journals[i].status \notin Unfinished
    BY <1>5, <2>2 DEF Journal, Unfinished
  <2> QED
    BY <2>1, <2>2
<1> QED
  BY <1>16, <1>17

\* A step of a rollback that has not come to its end.
LEMMA RollsOn ==
  ASSUME SettingsInv, RecordInv, NEW p \in Proc, proc[p].stage = "undo", used'.edits = used.edits,
         \A q \in Proc \ {p} : proc'[q] = proc[q], proc'[p].stage \in {"undo", "idle"},
         NEW j, Save(j) \/ (j = Now /\ UNCHANGED journals), UNCHANGED <<home, shifted>>,
         j.status = "active", j.home = Now.home, KeptHeld(j), \A h \in Host : RegHeld(h, host'[h]),
         NoneBack(j) \/ Stuck(j, host') \/ AllDone(j),
         proc'[p].stage = "undo" => Undoing(proc'[p], j, host'),
         \A h \in Host \ shifted : Undoable(j, h, host'[h]) \/ Stuck(j, host')
  PROVE  RecordInv'
<1> SUFFICES ASSUME used'.edits = 0 PROVE RecordInv'
  BY DEF RecordInv
<1>1. used.edits = 0 /\ Running(p) /\ TypeInv
  BY DEF Running, SettingsInv
<1>2. /\ TypeOK /\ journals # <<>> /\ Last \in DOMAIN journals /\ Now \in Journal /\ Now.status = "active"
      /\ \A q \in Proc \ {p} : ~Running(q)
  BY <1>1, RunFacts
<1>3. /\ Last' = Last /\ Now' = j /\ DOMAIN journals' = DOMAIN journals
      /\ \A i \in DOMAIN journals : journals'[i] = IF i = Last THEN j ELSE journals[i]
  BY <1>2, SavedIs
<1>4. ~NoneUnfinished /\ ~NoneUnfinished' /\ Now = journals[Last]
  BY <1>2, <1>3 DEF NoneUnfinished, Unfinished, Now
<1>5. \A i \in DOMAIN journals' : KeptHeld(journals'[i]) /\ (journals'[i].status = "committed" => Clean(journals'[i]))
  BY <1>1, <1>3 DEF RecordInv
<1>6. ASSUME NEW q \in Proc
      PROVE  Static(proc'[q]) /\ ~Going(q)' /\ (proc'[q].stage = "undo" => Undoing(proc'[q], j, host'))
  <2>1. CASE q = p
    BY <2>1 DEF Static, Going, Steps
  <2>2. CASE q # p
    BY <1>1, <1>2, <2>2 DEF RecordInv, Running, Going, Steps
  <2> QED
    BY <2>1, <2>2
<1>7. ASSUME NEW h \in Host \ shifted PROVE HostTrue(h)'
  <2>1. HostTrue(h)
    BY <1>1, <1>7 DEF RecordInv
  <2>2. \A i \in DOMAIN journals' : Sound(journals'[i].home, h)
    BY <1>2, <1>3, <1>4, <2>1 DEF HostTrue
  <2>3. Linking(h)'
    BY <1>1, <1>2, <1>7, <2>1, RecordLinksStay DEF HostTrue, Unfinished
  <2> QED
    BY <1>3, <1>4, <1>6, <1>7, <2>2, <2>3 DEF HostTrue
<1> QED
  BY <1>3, <1>5, <1>6, <1>7 DEF RecordInv

\* The entry k of j has come to another state in t.
Marked(j, k, state, t) ==
  /\ t.home = j.home /\ DOMAIN t.undo = DOMAIN j.undo
  /\ \A l \in DOMAIN j.undo : /\ t.undo[l].cmd = j.undo[l].cmd
                              /\ t.undo[l].state = IF l = k THEN state ELSE j.undo[l].state
LEMMA MarkedSays ==
  ASSUME NEW j, NEW k, NEW state, state # "ready", NEW t, Marked(j, k, state, t)
  PROVE  /\ \A h, ops : Only(t, h, ops) <=> Only(j, h, ops)
         /\ \A h : (Aimed(t, h) <=> Aimed(j, h)) /\ (Ordered(t, h) <=> Ordered(j, h))
         /\ \A h, op : j.undo[k].cmd.host # h \/ j.undo[k].cmd.op # op => (Waits(t, h, op) <=> Waits(j, h, op))
         /\ \A h : t.conf[h].on = j.conf[h].on => (Skewed(t, h) <=> Skewed(j, h))
<1>1. \A h, ops : Only(t, h, ops) <=> Only(j, h, ops)
  BY DEF Only, Marked
<1>2. \A h : (Aimed(t, h) <=> Aimed(j, h)) /\ (Ordered(t, h) <=> Ordered(j, h))
  BY DEF Aimed, Ordered, Marked
<1>3. ASSUME NEW h, NEW op, j.undo[k].cmd.host # h \/ j.undo[k].cmd.op # op
      PROVE  Waits(t, h, op) <=> Waits(j, h, op)
  BY <1>3 DEF Waits, Marked
<1>4. ASSUME NEW h, t.conf[h].on = j.conf[h].on PROVE Skewed(t, h) <=> Skewed(j, h)
  BY <1>4 DEF Skewed, Marked
<1> QED
  BY <1>1, <1>2, <1>3, <1>4

\* Of the commands of a host that wait, the last comes first, and none of a greater rank
\* waits with it.
LEMMA LastWaits ==
  ASSUME NEW j \in Journal, NEW k \in DOMAIN j.undo, NEW h, j.undo[k].cmd.host = h, Ordered(j, h),
         \A l \in DOMAIN j.undo : l > k => j.undo[l].state = "done"
  PROVE  \A op : Rank(j.undo[k].cmd.op) < Rank(op) => ~Waits(j, h, op)
<1> SUFFICES ASSUME NEW op, Rank(j.undo[k].cmd.op) < Rank(op),
                    NEW l \in DOMAIN j.undo, j.undo[l].cmd.host = h, j.undo[l].cmd.op = op, j.undo[l].state = "ready"
             PROVE  FALSE
  BY DEF Waits
<1>1. k < l
  BY DEF Ordered
<1>2. j.undo \in Seq(Undo)
  BY DEF Journal
<1>3. l > k
  BY <1>1, <1>2
<1> QED
  BY <1>3

\* Undoing the last command that waits keeps the way back to the recorded version.
LEMMA UndoLeads ==
  ASSUME InstallAssumption, NEW j \in Journal, NEW k \in DOMAIN j.undo, j.undo[k].cmd \in Command,
         j.undo[k].state = "ready", \A l \in DOMAIN j.undo : l > k => j.undo[l].state = "done",
         NEW t, Marked(j, k, "done", t), NEW h \in Host, h = j.undo[k].cmd.host, j.home.path[h] \in Version,
         NEW s \in HostState, Way(j, h, s), NEW s1, Succeeds(j.undo[k].cmd, s, s1)
  PROVE  Way(t, h, s1)
<1>1. PICK v, c : v = j.home.path[h] /\ c = j.undo[k].cmd
  OBVIOUS
<1>2. c \in Command /\ h = c.host /\ Succeeds(c, s, s1)
  BY <1>1
<1>3. /\ Aimed(t, h) /\ Ordered(t, h) /\ t.home.path[h] = v
      /\ \A op : c.op # op => (Waits(t, h, op) <=> Waits(j, h, op))
  <2>1. (Aimed(t, h) <=> Aimed(j, h)) /\ (Ordered(t, h) <=> Ordered(j, h))
        /\ \A op : j.undo[k].cmd.host # h \/ j.undo[k].cmd.op # op => (Waits(t, h, op) <=> Waits(j, h, op))
    <3>1. "done" # "ready"
      BY SMTT(30)
    <3>2. /\ \A g : (Aimed(t, g) <=> Aimed(j, g)) /\ (Ordered(t, g) <=> Ordered(j, g))
          /\ \A g, op : j.undo[k].cmd.host # g \/ j.undo[k].cmd.op # op => (Waits(t, g, op) <=> Waits(j, g, op))
      BY <3>1, MarkedSays, Zenon
    <3> QED
      BY <3>2
  <2> QED
    BY <1>1, <2>1 DEF Way, Marked
<1>4. \A op : Rank(c.op) < Rank(op) => ~Waits(j, h, op) /\ (c.op # op => ~Waits(t, h, op))
  BY <1>1, <1>2, <1>3, LastWaits DEF Way
<1>5. Brings(c, h, v) /\ Waits(j, h, c.op)
  BY <1>1, <1>2, SMTT(30) DEF Way, Aimed, Waits
<1>6. /\ Waits(j, h, "plugin add") \/ Waits(j, h, "select") \/ Listed(h, s) = v
      /\ Waits(j, h, "plugin add") /\ ~Waits(j, h, "market add") => s.file.market.ver = v
      /\ Waits(j, h, "market add") /\ ~Waits(j, h, "market remove") => s.file.market = NoSource \/ s.file.market.ver = v
      /\ Waits(j, h, "market remove") => /\ Waits(j, h, "market add")
                                         /\ h \in DirHosts \/ Waits(j, h, "plugin add")
  BY <1>1 DEF Way, Leads
<1>7. v \in Version /\ c.src \in Source
  BY <1>1, <1>2 DEF Command
<1>8. Rank("plugin add") = 1 /\ Rank("select") = 1 /\ Rank("market add") = 2 /\ Rank("market remove") = 3
  BY DEF Rank, Roots
<1>9. /\ c.op = "market add" => Rank(c.op) < Rank("market remove")
      /\ c.op \in Roots => Rank(c.op) < Rank("market remove") /\ Rank(c.op) < Rank("market add")
  <2>1. \A n, a, b : n = 2 /\ b = 3 => n < b
    OBVIOUS
  <2>2. \A n, a, b : n = 1 /\ a = 2 /\ b = 3 => n < a /\ n < b
    OBVIOUS
  <2>3. (c.op = "market add" => Rank(c.op) = 2) /\ (c.op \in Roots => Rank(c.op) = 1)
    BY ZenonT(40) DEF Rank, Roots
  <2> QED
    BY <1>8, <2>1, <2>2, <2>3, Zenon
<1>10. SUFFICES /\ Waits(t, h, "plugin add") \/ Waits(t, h, "select") \/ Listed(h, s1) = v
                /\ Waits(t, h, "plugin add") /\ ~Waits(t, h, "market add") => s1.file.market.ver = v
                /\ Waits(t, h, "market add") /\ ~Waits(t, h, "market remove") =>
                     s1.file.market = NoSource \/ s1.file.market.ver = v
                /\ Waits(t, h, "market remove") => /\ Waits(t, h, "market add")
                                                   /\ h \in DirHosts \/ Waits(t, h, "plugin add")
  BY <1>3 DEF Way, Leads
<1>11. CASE c.op = "market remove"
  <2>1. s1.file.market = NoSource /\ (h \in DirHosts => Listed(h, s1) = Listed(h, s))
    <3>1. CASE s.file.market = NoSource
      BY <1>2, <1>11, <3>1 DEF Succeeds, Able
    <3>2. CASE s.file.market # NoSource
      <4>1. s1 = MarketRemoved(h, s)
        BY <1>2, <1>11, <3>2 DEF Succeeds, Able, Effect
      <4> QED
        BY <1>7, <4>1, MarketEffects
    <3> QED
      BY <3>1, <3>2
  <2> QED
    BY <1>3, <1>5, <1>6, <1>11, <2>1
<1>12. CASE c.op = "market add"
  <2>1. ~Waits(j, h, "market remove") /\ ~Waits(t, h, "market remove") /\ c.src.ver = v
    BY <1>4, <1>5, <1>9, <1>12 DEF Brings
  <2>2. s1.file.market.ver = v /\ Listed(h, s1) = Listed(h, s)
    <3>1. CASE Able(c, s)
      <4>1. s1 = [s EXCEPT !.file.market = c.src]
        BY <1>2, <1>12, <3>1 DEF Succeeds, Effect
      <4>2. s1.file.market = c.src /\ s1.reg = s.reg /\ s1.dirs = s.dirs
        BY <4>1 DEF HostState, File
      <4> QED
        BY <2>1, <4>2, SameListed
    <3>2. CASE ~Able(c, s)
      BY <1>2, <1>5, <1>6, <1>12, <2>1, <3>2 DEF Succeeds
    <3> QED
      BY <3>1, <3>2
  <2> QED
    BY <1>3, <1>6, <1>12, <2>1, <2>2
<1>13. CASE c.op = "plugin add"
  <2>1. /\ ~Waits(j, h, "market remove") /\ ~Waits(t, h, "market remove")
        /\ ~Waits(j, h, "market add") /\ ~Waits(t, h, "market add")
    BY <1>4, <1>9, <1>13 DEF Roots
  <2>2. s.file.market.ver = v
    BY <1>5, <1>6, <1>13, <2>1
  <2>3. s1 = PluginAdded(h, s)
    BY <1>2, <1>13 DEF Succeeds, Effect
  <2>4. s1.file.market = s.file.market /\ Listed(h, s1) = v
    BY <1>7, <2>2, <2>3, AddedListed
  <2> QED
    BY <2>1, <2>2, <2>4
<1>14. CASE c.op = "select"
  <2>1. /\ ~Waits(j, h, "market remove") /\ ~Waits(t, h, "market remove")
        /\ ~Waits(j, h, "market add") /\ ~Waits(t, h, "market add") /\ c.src.ver = v /\ h \in DirHosts
    BY <1>4, <1>5, <1>9, <1>14 DEF Brings, Roots
  <2>2. s1 = Selected(s, v, Others(s, v))
    BY <1>2, <1>14, <2>1 DEF Succeeds, Effect
  <2>3. s1.file = s.file /\ Listed(h, s1) = v
    <3>1. s1.file = s.file
      BY <2>2 DEF Selected, HostState
    <3>2. Listed(h, Selected(s, v, Others(s, v))) = v
      BY <1>7, <2>1, SelectedListed
    <3> QED
      BY <2>2, <3>1, <3>2
  <2> QED
    BY <1>3, <1>6, <1>14, <2>1, <2>3
<1> QED
  BY <1>5, <1>11, <1>12, <1>13, <1>14 DEF Brings, Roots

\* What marking an undo command leaves of a journal.
LEMMA MarkedIs ==
  ASSUME NEW j \in Journal, NEW k \in DOMAIN j.undo, NEW state \in {"done", "failed", "running"},
         NEW t, t = [j EXCEPT !.undo[k].state = state]
  PROVE  t \in Journal /\ t.conf = j.conf /\ t.status = j.status /\ Marked(j, k, state, t)
<1> DEFINE e == [j.undo[k] EXCEPT !.state = state]
           undo == [j.undo EXCEPT ![k] = e]
<1>1. j.undo \in Seq(Undo)
  BY DEF Journal
<1>2. j.undo[k] \in Undo
  BY <1>1
<1>3. e \in Undo /\ e.cmd = j.undo[k].cmd /\ e.state = state
  BY <1>2 DEF Undo
<1> HIDE DEF e
<1>4. /\ undo \in Seq(Undo) /\ DOMAIN undo = DOMAIN j.undo
      /\ \A l \in DOMAIN j.undo : undo[l] = IF l = k THEN e ELSE j.undo[l]
  BY <1>1, <1>3
<1>5. t = [j EXCEPT !.undo = undo]
  BY DEF e
<1> HIDE DEF undo
<1>6. t \in Journal /\ t.undo = undo /\ t.conf = j.conf /\ t.home = j.home /\ t.status = j.status
  BY <1>4, <1>5 DEF Journal
<1>7. \A l \in DOMAIN j.undo : /\ undo[l].cmd = j.undo[l].cmd
                               /\ undo[l].state = IF l = k THEN state ELSE j.undo[l].state
  BY <1>3, <1>4
<1> QED
  BY <1>4, <1>6, <1>7 DEF Marked

\* The rollback of a host whose command has just been undone, and of every other host.
LEMMA UndoneSays ==
  ASSUME InstallAssumption, NEW j \in Journal, NEW k \in DOMAIN j.undo, NEW c \in Command, c = j.undo[k].cmd,
         j.undo[k].state = "ready", \A l \in DOMAIN j.undo : l > k => j.undo[l].state = "done",
         NEW t, Marked(j, k, "done", t), NEW h \in Host, Sound(j.home, h),
         ~j.conf[h].back, t.conf[h].on = j.conf[h].on, t.conf[h].before = j.conf[h].before, ~t.conf[h].back,
         NEW s \in HostState, Undoable(j, h, s), NEW s1, IF h = c.host THEN Succeeds(c, s, s1) ELSE s1 = s
  PROVE  Undoable(t, h, s1)
<1>1. /\ \A ops : Only(t, h, ops) <=> Only(j, h, ops)
      /\ (Aimed(t, h) <=> Aimed(j, h)) /\ (Ordered(t, h) <=> Ordered(j, h))
      /\ \A op : j.undo[k].cmd.host # h \/ j.undo[k].cmd.op # op => (Waits(t, h, op) <=> Waits(j, h, op))
      /\ Skewed(t, h) <=> Skewed(j, h)
  <2>1. "done" # "ready"
    OBVIOUS
  <2> QED
    BY <2>1, MarkedSays
<1>2. t.home = j.home
  BY DEF Marked
<1>3. CASE Skewed(j, h)
  <2>1. Skewed(t, h)
    BY <1>1, <1>3
  <2> QED
    BY <2>1, Zenon DEF Undoable
<1>4. CASE ~Skewed(j, h) /\ h = c.host
  <2>1. j.conf[h].on # "no"
    <3>1. j.conf[h].on = "no" => Only(j, h, {})
      BY <1>4, Zenon DEF Undoable
    <3>2. ~Only(j, h, {})
      BY <1>4 DEF Only
    <3> QED
      BY <3>1, <3>2
  <2>2. ASSUME j.conf[h].on = "file", h \in j.home.hosts PROVE Way(t, h, s1)
    <3>1. Way(j, h, s) /\ j.home.path[h] \in Version
      BY <1>4, <2>2 DEF Undoable, Sound
    <3>2. Succeeds(c, s, s1)
      BY <1>4
    <3> QED
      BY <1>4, <3>1, <3>2, UndoLeads
  <2> QED
    BY <1>1, <1>2, <1>4, <2>1, <2>2, ZenonT(40) DEF Undoable
<1>5. CASE ~Skewed(j, h) /\ h # c.host
  <2>1. Way(j, h, s) => Way(t, h, s)
    BY <1>1, <1>2, <1>5, ZenonT(40) DEF Way, Leads
  <2> QED
    BY <1>1, <1>2, <1>5, <2>1 DEF Undoable
<1> QED
  BY <1>3, <1>4, <1>5

LEMMA UndoNextKeepsRecord ==
  ASSUME InstallAssumption, SettingsInv, RecordInv, NEW p \in Proc, UndoNext(p) PROVE RecordInv'
<1> SUFFICES ASSUME used'.edits = 0 PROVE RecordInv'
  BY DEF RecordInv
<1>1. proc[p].stage = "undo" /\ proc[p].k > 0 /\ Running(p) /\ UNCHANGED <<home, shifted>> /\ TypeInv
  BY DEF UndoNext, Running, SettingsInv, ghosts
<1>2. /\ TypeOK /\ Now \in Journal /\ journals # <<>> /\ proc[p] \in Request /\ Now.status = "active"
      /\ Standing(proc[p], Now) /\ Last \in DOMAIN journals /\ Now = journals[Last] /\ host \in [Host -> HostState]
      /\ \A q \in Proc \ {p} : ~Running(q)
  BY <1>1, RunFacts DEF TypeOK, Now
<1>3. used'.edits = used.edits /\ used.edits = 0
  <2>1. used'.edits = used.edits
    BY <1>1, <1>2 DEF UndoNext, TypeOK, Spend, Unspent
  <2> QED
    BY <2>1, SMTT(30)
<1>4. PICK k, c, u : k = proc[p].k /\ u = Now.undo[k] /\ c = u.cmd
  OBVIOUS
<1>5. k \in DOMAIN Now.undo /\ u \in Undo /\ c \in Command /\ c.host \in Host /\ k \in Nat /\ DOMAIN Now.undo \subseteq Nat
  <2>1. k \in Nat /\ k <= Len(Now.undo) /\ Now.undo \in Seq(Undo)
    BY <1>1, <1>2, <1>4 DEF Standing, Journal, Request
  <2>2. k \in 1..Len(Now.undo) /\ DOMAIN Now.undo = 1..Len(Now.undo)
    BY <1>1, <1>4, <2>1
  <2>3. Now.undo[k] \in Undo
    BY <2>1, <2>2
  <2> QED
    <3>1. DOMAIN Now.undo \subseteq Nat
      BY <2>1
    <3>2. u \in Undo /\ c \in Command
      BY <1>4, <2>3 DEF Undo
    <3> QED
      BY <1>4, <2>1, <2>2, <3>1, <3>2 DEF Command
<1>6. /\ Undoing(proc[p], Now, host) /\ KeptHeld(Now) /\ (\A h \in Host : RegHeld(h, host[h])) /\ ~NoneUnfinished
      /\ NoneBack(Now) \/ Stuck(Now, host) \/ AllDone(Now)
  BY <1>1, <1>2, <1>3 DEF RecordInv, NoneUnfinished, Unfinished
<1>7. \A h \in Host \ shifted : Sound(Now.home, h) /\ (Undoable(Now, h, host[h]) \/ Stuck(Now, host))
  <2> SUFFICES ASSUME NEW h \in Host \ shifted PROVE Sound(Now.home, h) /\ (Undoable(Now, h, host[h]) \/ Stuck(Now, host))
    OBVIOUS
  <2>1. HostTrue(h)
    BY <1>3 DEF RecordInv
  <2> QED
    BY <1>2, <1>6, <2>1 DEF HostTrue
<1>8. ASSUME NEW n \in Nat, NEW b \in BOOLEAN, proc' = [proc EXCEPT ![p].k = n, ![p].bad = b]
      PROVE  /\ \A q \in Proc \ {p} : proc'[q] = proc[q]
             /\ proc'[p].stage = "undo" /\ proc'[p].k = n /\ proc'[p].bad = b
  BY <1>1, <1>2, <1>8 DEF TypeOK, Request
<1>9. CASE u.state \in {"done", "running"} /\ UNCHANGED <<host, journals>>
           /\ proc' = [proc EXCEPT ![p].k = @ - 1, ![p].bad = @ \/ u.state = "running"]
  <2>1. PICK n, b : n = k - 1 /\ b = (proc[p].bad \/ u.state = "running")
    OBVIOUS
  <2>2. n \in Nat /\ b \in BOOLEAN /\ proc' = [proc EXCEPT ![p].k = n, ![p].bad = b]
    <3>1. proc' = [proc EXCEPT ![p] = [proc[p] EXCEPT !.k = @ - 1, !.bad = @ \/ u.state = "running"]]
      BY <1>9
    <3>2. n \in Nat /\ b \in BOOLEAN
      BY <1>1, <1>4, <1>5, <2>1
    <3> QED
      BY <1>2, <1>4, <1>9, <2>1, <3>2 DEF Request
  <2>3. /\ \A q \in Proc \ {p} : proc'[q] = proc[q]
        /\ proc'[p].stage = "undo" /\ proc'[p].k = n /\ proc'[p].bad = b
    BY <1>8, <2>2
  <2>4. Undoing(proc'[p], Now, host)
    <3>1. b => Stuck(Now, host)
      BY <1>4, <1>5, <1>6, <2>1 DEF Undoing, Stuck
    <3>2. ~b => \A l \in DOMAIN Now.undo : l > n => Now.undo[l].state = "done"
      <4> SUFFICES ASSUME ~b, NEW l \in DOMAIN Now.undo, l > n PROVE Now.undo[l].state = "done"
        OBVIOUS
      <4>1. u.state = "done" /\ ~proc[p].bad
        BY <1>9, <2>1
      <4>2. l = k \/ l > k
        BY <1>5, <2>1
      <4> QED
        BY <1>4, <1>6, <4>1, <4>2 DEF Undoing
    <3>3. \A l \in DOMAIN Now.undo : l <= n => Now.undo[l].state # "failed"
      BY <1>4, <1>5, <1>6, <2>1 DEF Undoing
    <3> QED
      BY <2>3, <3>1, <3>2, <3>3 DEF Undoing
  <2>5. \E j : j = Now /\ (Save(j) \/ (j = Now /\ UNCHANGED journals))
    BY <1>9
  <2>6. host' = host
    BY <1>9
  <2> QED
    BY <1>1, <1>2, <1>3, <1>6, <1>7, <2>3, <2>4, <2>5, <2>6, RollsOn
<1>10. CASE u.state \in {"ready", "failed"} /\ Conflict(Now) /\ UNCHANGED <<host, journals>>
            /\ proc' = [proc EXCEPT ![p].k = 0, ![p].bad = TRUE]
  <2>1. /\ \A q \in Proc \ {p} : proc'[q] = proc[q]
        /\ proc'[p].stage = "undo" /\ proc'[p].k = 0 /\ proc'[p].bad = TRUE
    BY <1>1, <1>2, <1>10 DEF TypeOK, Request
  <2>2. Stuck(Now, host)
    <3>1. ~AllDone(Now)
      BY <1>4, <1>5, <1>10 DEF AllDone
    <3>2. NoneBack(Now) => Stuck(Now, host)
      BY <1>10 DEF NoneBack, Stuck, Conflict
    <3> QED
      BY <1>6, <3>1, <3>2
  <2>3. Undoing(proc'[p], Now, host)
    <3>1. Now.undo \in Seq(Undo)
      BY <1>2 DEF Journal
    <3>2. \A l \in DOMAIN Now.undo : ~(l <= 0)
      BY <3>1
    <3> QED
      BY <2>1, <2>2, <3>2 DEF Undoing
  <2>4. host' = host
    BY <1>10
  <2> QED
    BY <1>1, <1>2, <1>3, <1>6, <1>7, <1>10, <2>1, <2>2, <2>3, <2>4, RollsOn
<1>11. ASSUME u.state \in {"ready", "failed"}, ~Conflict(Now), NEW o \in Outcomes(c), host' = [host EXCEPT ![c.host] = o.s],
              NEW state, state = (IF o.ok THEN "done" ELSE "failed"),
              Save(SignAll([Now EXCEPT !.undo[k].state = state], host')),
              proc' = [proc EXCEPT ![p].k = @ - 1, ![p].bad = @ \/ ~o.ok]
       PROVE  RecordInv'
  <2>1. PICK n, b, m, t : /\ n = k - 1 /\ b = (proc[p].bad \/ ~o.ok)
                          /\ m = [Now EXCEPT !.undo[k].state = state] /\ t = SignAll(m, host')
    OBVIOUS
  <2>2. o.s \in HostState /\ o.ok \in BOOLEAN /\ o.s \in {host[c.host], Effect(c, host[c.host])}
    BY <1>2, <1>5, OutcomesTyped, OutcomeIs, SMTT(30)
  <2>3. n \in Nat /\ b \in BOOLEAN /\ proc' = [proc EXCEPT ![p].k = n, ![p].bad = b]
    <3>1. n \in Nat /\ b \in BOOLEAN
      BY <1>1, <1>4, <1>5, <2>1
    <3> QED
      BY <1>2, <1>4, <1>11, <2>1, <3>1 DEF Request
  <2>4. /\ \A q \in Proc \ {p} : proc'[q] = proc[q]
        /\ proc'[p].stage = "undo" /\ proc'[p].k = n /\ proc'[p].bad = b
    BY <1>8, <2>3
  <2>5. m \in Journal /\ m.conf = Now.conf /\ m.status = Now.status /\ Marked(Now, k, state, m)
    <3>1. state \in {"done", "failed", "running"}
      BY <1>11
    <3> QED
      BY <1>2, <1>5, <2>1, <3>1, MarkedIs
  <2>6. /\ t.undo = m.undo /\ t.home = m.home /\ t.status = m.status
        /\ \A h \in Host : IF m.conf[h].on = "no" THEN t.conf[h] = m.conf[h]
                           ELSE /\ t.conf[h].on = m.conf[h].on /\ t.conf[h].before = m.conf[h].before
                                /\ t.conf[h].signed = host'[h] /\ ~t.conf[h].back
    <3>1. \A h \in Host : m.conf[h] \in Kept
      BY <2>5 DEF Journal
    <3> QED
      BY <2>1, <2>5, <3>1, ZenonT(40) DEF SignAll, Journal, Kept
  <2>7. Marked(Now, k, state, t)
    BY <2>5, <2>6, SMTT(30) DEF Marked
  <2>8. Save(t) /\ t.status = "active" /\ t.home = Now.home
    BY <1>2, <1>11, <2>1, <2>5, <2>6, <2>7 DEF Marked
  <2>9. \A h \in Host : Same(Now.conf[h], host[h])
    BY <1>11 DEF Conflict
  <2>10. ASSUME Stuck(Now, host) PROVE Stuck(t, host')
    <3>1. PICK l \in DOMAIN Now.undo : Now.undo[l].state \in {"running", "failed"}
      BY <2>9, <2>10 DEF Stuck
    <3>2. CASE l # k
      BY <2>7, <3>1, <3>2, SMTT(30) DEF Stuck, Marked
    <3>3. CASE l = k
      <4>1. Now.undo[k].state # "failed"
        BY <1>4, <1>5, <1>6 DEF Undoing
      <4> QED
        BY <1>4, <1>11, <3>1, <3>3, <4>1
    <3> QED
      BY <3>2, <3>3
  <2>11. ~o.ok => Stuck(t, host')
    <3>1. ~o.ok => state = "failed"
      BY <1>11, SMTT(30)
    <3> QED
      BY <1>5, <2>7, <3>1 DEF Stuck, Marked
  <2>12. ~AllDone(Now)
    BY <1>4, <1>5, <1>11 DEF AllDone
  <2>13. NoneBack(t) \/ Stuck(t, host')
    <3>1. NoneBack(Now) => NoneBack(t)
      BY <2>5, <2>6 DEF NoneBack
    <3> QED
      BY <1>6, <2>10, <2>12, <3>1
  <2>14. Undoing(proc'[p], t, host')
    <3>1. b => Stuck(t, host')
      BY <1>6, <2>1, <2>10, <2>11 DEF Undoing
    <3>2. ~b => \A l \in DOMAIN t.undo : l > n => t.undo[l].state = "done"
      <4> SUFFICES ASSUME ~b, NEW l \in DOMAIN t.undo, l > n PROVE t.undo[l].state = "done"
        OBVIOUS
      <4>1. state = "done" /\ ~proc[p].bad /\ l \in DOMAIN Now.undo
        BY <1>11, <2>1, <2>7 DEF Marked
      <4>2. l = k \/ l > k
        BY <1>5, <2>1, <4>1
      <4> QED
        BY <1>4, <1>6, <2>7, <4>1, <4>2 DEF Undoing, Marked
    <3>3. \A l \in DOMAIN t.undo : l <= n => t.undo[l].state # "failed"
      <4> SUFFICES ASSUME NEW l \in DOMAIN t.undo, l <= n PROVE t.undo[l].state # "failed"
        OBVIOUS
      <4>1. l \in DOMAIN Now.undo
        BY <2>7 DEF Marked
      <4>2. l # k /\ l <= k
        BY <1>5, <2>1, <4>1
      <4> QED
        BY <1>4, <1>6, <2>7, <4>1, <4>2 DEF Undoing, Marked
    <3> QED
      BY <2>4, <3>1, <3>2, <3>3 DEF Undoing
  <2>15. KeptHeld(t)
    BY <1>6, <2>5, <2>6 DEF KeptHeld
  <2>16. \A h \in Host : RegHeld(h, host'[h])
    <3> SUFFICES ASSUME NEW h \in Host PROVE RegHeld(h, host'[h])
      OBVIOUS
    <3>1. CASE h = c.host
      <4>1. host'[h] = o.s /\ RegHeld(h, host[h]) /\ host[h] \in HostState
        BY <1>2, <1>6, <1>11, <3>1
      <4> QED
        BY <1>5, <2>2, <3>1, <4>1, EffectHeld
    <3>2. CASE h # c.host
      BY <1>2, <1>6, <1>11, <3>2
    <3> QED
      BY <3>1, <3>2
  <2>17. ASSUME NEW h \in Host \ shifted PROVE Undoable(t, h, host'[h]) \/ Stuck(t, host')
    <3> SUFFICES ASSUME ~Stuck(t, host') PROVE Undoable(t, h, host'[h])
      OBVIOUS
    <3>1. ~Stuck(Now, host) /\ o.ok /\ state = "done" /\ ~proc[p].bad
      BY <1>6, <1>11, <2>10, <2>11 DEF Undoing
    <3>2. Undoable(Now, h, host[h]) /\ Sound(Now.home, h) /\ NoneBack(Now) /\ NoneBack(t)
      BY <1>6, <1>7, <2>12, <2>13, <2>17, <3>1
    <3>3. u.state = "ready" /\ \A l \in DOMAIN Now.undo : l > k => Now.undo[l].state = "done"
      BY <1>4, <1>5, <1>6, <1>11, <3>1 DEF Stuck, Undoing
    <3>4. Succeeds(c, host[c.host], o.s)
      BY <1>5, <3>1, SuccessIs
    <3>5. host'[h] = IF h = c.host THEN o.s ELSE host[h]
      BY <1>2, <1>11
    <3>6. IF h = c.host THEN Succeeds(c, host[h], host'[h]) ELSE host'[h] = host[h]
      BY <3>4, <3>5
    <3>7. ~Now.conf[h].back /\ ~t.conf[h].back /\ t.conf[h].on = Now.conf[h].on /\ t.conf[h].before = Now.conf[h].before
      BY <2>5, <2>6, <3>2 DEF NoneBack
    <3>8. host[h] \in HostState
      BY <1>2
    <3>9. Marked(Now, k, "done", t)
      BY <2>7, <3>1
    <3> QED
      BY <1>2, <1>4, <1>5, <3>2, <3>3, <3>6, <3>7, <3>8, <3>9, UndoneSays, SMTT(30)
  <2> QED
    BY <1>1, <1>3, <2>4, <2>8, <2>13, <2>14, <2>15, <2>16, <2>17, RollsOn
<1>12. ASSUME NEW o \in Outcomes(c), host' = [host EXCEPT ![c.host] = o.s],
              Save([Now EXCEPT !.undo[k].state = "running"]), Leave(p)
       PROVE  RecordInv'
  <2>1. PICK t : t = [Now EXCEPT !.undo[k].state = "running"]
    OBVIOUS
  <2>2. t.conf = Now.conf /\ t.status = Now.status /\ Marked(Now, k, "running", t)
    BY <1>2, <1>5, <2>1, MarkedIs
  <2>3. (\A q \in Proc \ {p} : proc'[q] = proc[q]) /\ proc'[p].stage = "idle"
    BY <1>2, <1>12 DEF Leave, TypeOK, Idle
  <2>4. Save(t) /\ t.status = "active" /\ t.home = Now.home /\ KeptHeld(t)
    BY <1>2, <1>6, <1>12, <2>1, <2>2 DEF Marked, KeptHeld
  <2>5. Stuck(t, host')
    BY <1>5, <2>2 DEF Stuck, Marked
  <2>6. \A h \in Host : RegHeld(h, host'[h])
    <3> SUFFICES ASSUME NEW h \in Host PROVE RegHeld(h, host'[h])
      OBVIOUS
    <3>1. CASE h = c.host
      <4>1. host'[h] = o.s /\ RegHeld(h, host[h]) /\ host[h] \in HostState /\ o.s \in {host[c.host], Effect(c, host[c.host])}
        BY <1>2, <1>5, <1>6, <1>12, <3>1, OutcomeIs
      <4> QED
        BY <1>5, <3>1, <4>1, EffectHeld
    <3>2. CASE h # c.host
      BY <1>2, <1>6, <1>12, <3>2
    <3> QED
      BY <3>1, <3>2
  <2> QED
    BY <1>1, <1>3, <2>3, <2>4, <2>5, <2>6, RollsOn
<1> QED
  BY <1>1, <1>4, <1>9, <1>10, <1>11, <1>12, ZenonT(40) DEF UndoNext

\* What a rollback that was not interrupted leaves in one host: what its home records.
LEMMA HostBack ==
  ASSUME NEW j \in Journal, NEW h \in Host, NEW s \in HostState, Undoable(j, h, s), ~Skewed(j, h), AllDone(j),
         j.conf[h].back \/ Same(j.conf[h], s), Sound(j.home, h),
         NEW s1, s1 = PutBack(j.conf[h], s, s, j.conf[h].before)
  PROVE  Shown(j.home, h, s1)
<1>0. PICK c, w : c = j.conf[h] /\ w = j.home
  OBVIOUS
<1>1. c \in Kept /\ c.before \in HostState
  BY <1>0 DEF Journal, Kept
<1>2. CASE c.on = "no" \/ c.back
  BY <1>0, <1>2 DEF PutBack, Undoable
<1>3. CASE c.on = "all" /\ ~c.back
  <2>1. SameFile(c, s) /\ SameRest(c, s)
    BY <1>0, <1>3 DEF Same
  <2>2. s1.file = c.before.file /\ s1.reg = c.before.reg /\ s1.dirs = c.before.dirs
    BY <1>0, <1>3, <2>1 DEF PutBack
  <2>3. Shown(w, h, c.before)
    BY <1>0, <1>3 DEF Undoable
  <2>4. Listed(h, s1) = Listed(h, c.before)
    BY <2>2, SameListed
  <2> QED
    BY <1>0, <2>2, <2>3, <2>4 DEF Shown
<1>4. CASE c.on = "file" /\ ~c.back
  <2>1. SameFile(c, s)
    BY <1>0, <1>4 DEF Same
  <2>2. s1.file = c.before.file /\ s1.reg = s.reg /\ s1.dirs = s.dirs
    BY <1>0, <1>4, <2>1 DEF PutBack
  <2>3. Before(w, h, c.before.file) /\ (h \in w.hosts => Way(j, h, s))
    BY <1>0, <1>4 DEF Undoable
  <2>4. \A op : ~Waits(j, h, op)
    BY DEF Waits, AllDone
  <2>5. h \in w.hosts => Listed(h, s) = w.path[h]
    BY <1>0, <2>3, <2>4 DEF Way, Leads
  <2>6. Listed(h, s1) = Listed(h, s)
    BY <2>2, SameListed
  <2> QED
    BY <1>0, <2>2, <2>3, <2>5, <2>6 DEF Shown, Before
<1> QED
  BY <1>1, <1>2, <1>3, <1>4 DEF Kept

\* What putting the files back makes of one host and of its record in the journal.
LEMMA KeptBack ==
  ASSUME NEW k \in Kept, NEW s \in HostState,
         NEW s1, s1 = PutBack(k, s, s, k.before),
         NEW k1, k1.on = k.on, k1.before = k.before, k1.signed = PutBack(k, s, k.signed, k.before),
         k1.back = (k.on # "no" /\ (k.back \/ Same(k, s)))
  PROVE  /\ k1.on = k.on /\ k1.before = k.before
         /\ k.on # "no" => (k1.back <=> k.back \/ Same(k, s))
         /\ k.on # "no" /\ ~k.back /\ ~Same(k, s) => ~k1.back /\ ~Same(k1, s1)
         /\ \/ s1.reg = s.reg /\ s1.dirs = s.dirs
            \/ k.on = "all" /\ s1.reg = k.before.reg /\ s1.dirs = k.before.dirs
<1>1. /\ k1.on = k.on /\ k1.before = k.before /\ k1.signed = PutBack(k, s, k.signed, k.before)
      /\ k1.back = (k.on # "no" /\ (k.back \/ Same(k, s)))
  OBVIOUS
<1>2. ASSUME k.on # "no", ~k.back, ~Same(k, s) PROVE ~Same(k1, s1)
  <2>1. CASE ~SameFile(k, s)
    <3>1. s1.file = s.file /\ k1.signed.file = k.signed.file
      BY <1>1, <1>2, <2>1 DEF PutBack
    <3> QED
      BY <1>1, <2>1, <3>1 DEF Same, SameFile
  <2>2. CASE ~SameRest(k, s)
    <3>1. s1.reg = s.reg /\ s1.dirs = s.dirs /\ k1.signed.reg = k.signed.reg /\ k1.signed.dirs = k.signed.dirs
      BY <1>1, <1>2, <2>2 DEF PutBack
    <3> QED
      BY <1>1, <2>2, <3>1 DEF Same, SameRest
  <2> QED
    BY <1>2, <2>1, <2>2 DEF Same
<1>3. \/ s1.reg = s.reg /\ s1.dirs = s.dirs
      \/ k.on = "all" /\ s1.reg = k.before.reg /\ s1.dirs = k.before.dirs
  BY DEF PutBack
<1> QED
  BY <1>1, <1>2, <1>3

LEMMA RestoreFilesKeepsRecord ==
  ASSUME InstallAssumption, SettingsInv, RecordInv, NEW p \in Proc, RestoreFiles(p) PROVE RecordInv'
<1> SUFFICES ASSUME used'.edits = 0 PROVE RecordInv'
  BY DEF RecordInv
<1>1. Running(p) /\ proc[p].stage = "undo" /\ proc[p].k = 0 /\ UNCHANGED used /\ used.edits = 0
  BY DEF RestoreFiles, Running
<1>2. /\ TypeInv /\ TypeOK /\ journals # <<>> /\ Last \in DOMAIN journals /\ Now \in Journal /\ Now.status = "active"
      /\ (\A q \in Proc \ {p} : ~Running(q)) /\ Now = journals[Last] /\ DOMAIN journals = 1..Last /\ Last \in Nat
      /\ host \in [Host -> HostState]
  <2>1. TypeInv
    BY DEF SettingsInv
  <2>2. DOMAIN journals = 1..Last /\ Last \in Nat
    BY <2>1 DEF TypeInv, TypeOK, Last
  <2> QED
    BY <1>1, <2>1, <2>2, RunFacts DEF Now, TypeOK
<1> DEFINE ok == Whole(proc[p], Now)
           fresh(x) == Now.text[x].on /\ place[x] = Now.text[x].signed
           kept(k, s) == [k EXCEPT !.signed = PutBack(k, s, k.signed, k.before),
                                   !.back = k.on # "no" /\ (@ \/ Same(k, s))]
           conf == [h \in Host |-> kept(Now.conf[h], host[h])]
           text == [x \in Place |-> IF fresh(x) THEN NoText ELSE Now.text[x]]
           status == IF ok THEN "rolled_back" ELSE "incomplete"
<1>3. PICK j : j = [Now EXCEPT !.status = status, !.conf = conf, !.text = text]
  OBVIOUS
<1>4. /\ host' = [h \in Host |-> PutBack(Now.conf[h], host[h], host[h], Now.conf[h].before)]
      /\ home' = Now.home /\ Save(j) /\ Leave(p) /\ shifted' = shifted \union {h \in Host : Skewed(Now, h)}
  <2>1. Save([Now EXCEPT !.status = status,
                !.conf = [h \in Host |-> kept(@[h], host[h])],
                !.text = [x \in Place |-> IF fresh(x) THEN NoText ELSE @[x]]])
    BY DEF RestoreFiles
  <2> QED
    BY <1>3, <2>1 DEF RestoreFiles
<1>5. /\ j.status = status /\ j.conf = conf /\ j.undo = Now.undo /\ j.home = Now.home
      /\ \A h \in Host : Now.conf[h] \in Kept
  BY <1>2, <1>3 DEF Journal
<1>6. ASSUME NEW h \in Host
      PROVE  /\ j.conf[h].on = Now.conf[h].on /\ j.conf[h].before = Now.conf[h].before
             /\ Now.conf[h].on # "no" => (j.conf[h].back <=> Now.conf[h].back \/ Same(Now.conf[h], host[h]))
             /\ Now.conf[h].on # "no" /\ ~Now.conf[h].back /\ ~Same(Now.conf[h], host[h]) =>
                  ~j.conf[h].back /\ ~Same(j.conf[h], host'[h])
             /\ \/ host'[h].reg = host[h].reg /\ host'[h].dirs = host[h].dirs
                \/ /\ Now.conf[h].on = "all"
                   /\ host'[h].reg = Now.conf[h].before.reg /\ host'[h].dirs = Now.conf[h].before.dirs
  <2>1. j.conf[h] = kept(Now.conf[h], host[h])
    BY <1>5
  <2>2. host'[h] = PutBack(Now.conf[h], host[h], host[h], Now.conf[h].before)
    BY <1>4
  <2>3. Now.conf[h] \in Kept /\ host[h] \in HostState
    BY <1>2, <1>5
  <2>4. PICK k, s, s1, k1 : k = Now.conf[h] /\ s = host[h] /\ s1 = host'[h] /\ k1 = j.conf[h]
    OBVIOUS
  <2>5. /\ k \in Kept /\ s \in HostState /\ s1 = PutBack(k, s, s, k.before)
        /\ k1.on = k.on /\ k1.before = k.before /\ k1.signed = PutBack(k, s, k.signed, k.before)
        /\ k1.back = (k.on # "no" /\ (k.back \/ Same(k, s)))
    BY <2>1, <2>2, <2>3, <2>4 DEF Kept
  <2>6. /\ k1.on = k.on /\ k1.before = k.before
        /\ k.on # "no" => (k1.back <=> k.back \/ Same(k, s))
        /\ k.on # "no" /\ ~k.back /\ ~Same(k, s) => ~k1.back /\ ~Same(k1, s1)
        /\ \/ s1.reg = s.reg /\ s1.dirs = s.dirs
           \/ k.on = "all" /\ s1.reg = k.before.reg /\ s1.dirs = k.before.dirs
    BY <2>5, KeptBack
  <2> QED
    BY <2>4, <2>6
<1>7. ok => (\A h \in Host : Now.conf[h].back \/ Same(Now.conf[h], host[h])) /\ ~proc[p].bad
  BY DEF Whole, Untouched
<1>8. status = (IF ok THEN "rolled_back" ELSE "incomplete")
  OBVIOUS
<1> HIDE DEF conf, ok, status
<1>9. /\ Last' = Last /\ Now' = j /\ DOMAIN journals' = DOMAIN journals
      /\ \A i \in DOMAIN journals : journals'[i] = IF i = Last THEN j ELSE journals[i]
  BY <1>2, <1>4, SavedIs
<1>10. /\ Undoing(proc[p], Now, host) /\ KeptHeld(Now) /\ (\A h \in Host : RegHeld(h, host[h])) /\ ~NoneUnfinished
  BY <1>1, <1>2 DEF RecordInv, NoneUnfinished, Unfinished
<1>11. ~proc[p].bad => AllDone(Now) /\ AllDone(j)
  <2>1. Now.undo \in Seq(Undo)
    BY <1>2 DEF Journal
  <2>2. \A l \in DOMAIN Now.undo : l > 0
    BY <2>1
  <2> QED
    BY <1>1, <1>5, <1>10, <2>2 DEF Undoing, AllDone
<1>12. Stuck(Now, host) => Stuck(j, host')
  <2>1. CASE \E k \in DOMAIN Now.undo : Now.undo[k].state \in {"running", "failed"}
    BY <1>5, <2>1 DEF Stuck
  <2>2. ASSUME NEW h \in Host, ~Now.conf[h].back, ~Same(Now.conf[h], host[h]) PROVE Stuck(j, host')
    <3>1. Now.conf[h].on # "no"
      BY <2>2 DEF Same, SameFile, SameRest
    <3> QED
      BY <1>6, <2>2, <3>1 DEF Stuck
  <2> QED
    BY <2>1, <2>2 DEF Stuck
<1>13. KeptHeld(j)
  BY <1>6, <1>10 DEF KeptHeld
<1>14. \A h \in Host : RegHeld(h, host'[h])
  <2> SUFFICES ASSUME NEW h \in Host PROVE RegHeld(h, host'[h])
    OBVIOUS
  <2>1. CASE host'[h].reg = host[h].reg /\ host'[h].dirs = host[h].dirs
    BY <1>10, <2>1 DEF RegHeld
  <2>2. CASE /\ Now.conf[h].on = "all"
             /\ host'[h].reg = Now.conf[h].before.reg /\ host'[h].dirs = Now.conf[h].before.dirs
    BY <1>10, <2>2 DEF KeptHeld, RegHeld
  <2> QED
    BY <1>6, <2>1, <2>2
<1>15. ASSUME NEW q \in Proc PROVE Static(proc'[q]) /\ ~Going(q)' /\ proc'[q].stage # "undo"
  <2>1. proc' = [proc EXCEPT ![p] = Idle] /\ Idle.stage = "idle" /\ Static(proc[q])
    BY <1>1, <1>4 DEF Leave, Idle, RecordInv
  <2>2. CASE q = p
    BY <1>2, <2>1, <2>2 DEF TypeOK, Static, Going, Steps
  <2>3. CASE q # p
    BY <1>2, <2>1, <2>3 DEF TypeOK, Going, Running, Steps
  <2> QED
    BY <2>2, <2>3
<1>16. \A i \in DOMAIN journals' : KeptHeld(journals'[i]) /\ (journals'[i].status = "committed" => Clean(journals'[i]))
  BY <1>1, <1>5, <1>8, <1>9, <1>13 DEF RecordInv
<1>17. ~Stuck(Now, host) =>
         /\ \A h \in Host : Now.conf[h].back \/ Same(Now.conf[h], host[h])
         /\ AllDone(Now)
         /\ \A h \in Host \ shifted' : Shown(Now.home, h, host'[h]) /\ Undoable(j, h, host'[h])
  <2> SUFFICES ASSUME ~Stuck(Now, host)
               PROVE  /\ \A h \in Host : Now.conf[h].back \/ Same(Now.conf[h], host[h])
                      /\ AllDone(Now)
                      /\ \A h \in Host \ shifted' : Shown(Now.home, h, host'[h]) /\ Undoable(j, h, host'[h])
    OBVIOUS
  <2>1. (\A h \in Host : Now.conf[h].back \/ Same(Now.conf[h], host[h])) /\ AllDone(Now)
    BY <1>10, <1>11 DEF Undoing, Stuck
  <2>2. ASSUME NEW h \in Host \ shifted' PROVE Shown(Now.home, h, host'[h]) /\ Undoable(j, h, host'[h])
    <3>1. h \in Host \ shifted /\ ~Skewed(Now, h)
      BY <1>4, <2>2
    <3>2. HostTrue(h)
      BY <1>1, <3>1 DEF RecordInv
    <3>3. Undoable(Now, h, host[h]) /\ Sound(Now.home, h)
      BY <1>2, <1>10, <3>2 DEF HostTrue
    <3>4. host'[h] = PutBack(Now.conf[h], host[h], host[h], Now.conf[h].before) /\ host[h] \in HostState
      BY <1>2, <1>4, <3>1
    <3>5. Shown(Now.home, h, host'[h])
      BY <1>2, <2>1, <3>1, <3>3, <3>4, HostBack
    <3>6. j.conf[h].on = "no" => Only(j, h, {})
      BY <1>5, <1>6, <3>1, <3>3 DEF Undoable, Only
    <3>7. j.conf[h].on = "no" \/ j.conf[h].back
      BY <1>6, <2>1, <3>1
    <3>8. Undoable(j, h, host'[h])
      BY <1>5, <3>5, <3>6, <3>7 DEF Undoable
    <3> QED
      BY <3>5, <3>8
  <2> QED
    BY <2>1, <2>2
<1>18. ASSUME NEW h \in Host \ shifted PROVE Linking(h)'
  <2>1. HostTrue(h)
    BY <1>1, <1>18 DEF RecordInv
  <2>2. \A i \in DOMAIN journals : \A m \in 1..Last + 1 :
          journals[i].status = "committed" /\ Follows(i, m) => HostLinked(journals[i], HomeAt(m), h)
    BY <2>1 DEF HostTrue, Linking
  <2> SUFFICES ASSUME NEW i \in DOMAIN journals', NEW m \in 1..Last' + 1,
                      journals'[i].status = "committed", Follows(i, m)'
               PROVE  HostLinked(journals'[i], HomeAt(m)', h)
    BY DEF Linking
  <2>3. i \in DOMAIN journals /\ i # Last /\ i < Last /\ journals'[i] = journals[i] /\ i < m
    BY <1>2, <1>5, <1>8, <1>9 DEF Follows
  <2>4. CASE m \in DOMAIN journals
    <3>1. HomeAt(m)' = HomeAt(m)
      BY <1>2, <1>5, <1>9, <2>4 DEF HomeAt
    <3>2. Follows(i, m)
      BY <1>2, <1>9, <2>3, <2>4 DEF Follows
    <3> QED
      BY <1>2, <1>9, <2>2, <2>3, <2>4, <3>1, <3>2
  <2>5. CASE m \notin DOMAIN journals
    <3>1. m = Last + 1 /\ HomeAt(m)' = Now.home /\ HomeAt(Last) = Now.home
      BY <1>2, <1>4, <1>9, <2>5 DEF HomeAt
    <3>2. Follows(i, Last)
      BY <1>2, <1>9, <2>3, <3>1 DEF Follows
    <3> QED
      BY <1>2, <1>9, <2>2, <2>3, <3>1, <3>2
  <2> QED
    BY <2>4, <2>5
<1>19. ASSUME NEW h \in Host \ shifted'
       PROVE  Linking(h)' /\ \A i \in DOMAIN journals' : Sound(journals'[i].home, h)
  <2>1. h \in Host \ shifted
    BY <1>4, <1>19
  <2>2. HostTrue(h)
    BY <1>1, <2>1 DEF RecordInv
  <2>3. \A i \in DOMAIN journals' : Sound(journals'[i].home, h)
    BY <1>2, <1>5, <1>9, <2>2 DEF HostTrue
  <2> QED
    BY <1>18, <2>1, <2>3
<1>20. CASE ok
  <2>1. NoneUnfinished'
    BY <1>2, <1>5, <1>8, <1>9, <1>20 DEF NoneUnfinished, TypeInv, Unfinished
  <2>2. ~Stuck(Now, host)
    BY <1>7, <1>11, <1>20 DEF Stuck, AllDone
  <2>3. ASSUME NEW h \in Host \ shifted' PROVE HostTrue(h)'
    <3>1. Sound(home', h) /\ Shown(home', h, host'[h])
      BY <1>2, <1>4, <1>5, <1>9, <1>17, <1>19, <2>2, <2>3
    <3> QED
      BY <1>15, <1>19, <2>1, <2>3, <3>1 DEF HostTrue
  <2> QED
    BY <1>14, <1>15, <1>16, <2>1, <2>3 DEF RecordInv
<1>21. CASE ~ok
  <2>1. ~NoneUnfinished'
    BY <1>2, <1>5, <1>8, <1>9, <1>21 DEF NoneUnfinished, Unfinished
  <2>2. Stuck(j, host') \/ AllDone(j)
    BY <1>10, <1>11, <1>12 DEF Undoing
  <2>3. ASSUME NEW h \in Host \ shifted' PROVE HostTrue(h)'
    <3>1. Undoable(j, h, host'[h]) \/ Stuck(j, host')
      BY <1>12, <1>17, <2>3
    <3> QED
      BY <1>9, <1>15, <1>19, <2>1, <2>3, <3>1 DEF HostTrue
  <2> QED
    BY <1>9, <1>14, <1>15, <1>16, <2>1, <2>2, <2>3 DEF RecordInv
<1> QED
  BY <1>20, <1>21

----------------------------------------------------------------------------
(* The invariant, and what it says of the record. *)

LEMMA RecordBegins == ASSUME InstallAssumption, Init PROVE RecordInv
<1>1. journals = <<>> /\ home = EmptyHome /\ host = [h \in Host |-> Fresh] /\ proc = [p \in Proc |-> Idle]
  BY DEF Init
<1>2. DOMAIN journals = {} /\ Last = 0 /\ NoneUnfinished
  BY <1>1 DEF NoneUnfinished, Last
<1>3. \A p \in Proc : proc[p].stage = "idle"
  BY <1>1 DEF Idle
<1>4. \A p \in Proc : ~Going(p) /\ Static(proc[p])
  BY <1>3 DEF Going, Static, Steps
<1>5. \A h \in Host : RegHeld(h, host[h])
  BY <1>1 DEF RegHeld, Fresh
<1>6. ASSUME NEW h \in Host PROVE HostTrue(h)
  <2>1. Sound(home, h) /\ Shown(home, h, host[h])
    BY <1>1 DEF Sound, Shown, EmptyHome, NoRecord, Fresh
  <2> QED
    BY <1>2, <1>4, <2>1 DEF HostTrue, Linking
<1> QED
  BY <1>2, <1>3, <1>4, <1>5, <1>6 DEF RecordInv

\* Only a step of the user counts as an edit.
LEMMA SpendsNoEdit ==
  ASSUME TypeOK, NEW p \in Proc, Confirm(p) \/ Stages(p) \/ Fail(p) \/ Crash(p)
  PROVE  used'.edits = used.edits
<1>1. used \in [ops : Nat, edits : Nat, upsets : Nat]
  BY DEF TypeOK
<1>2. ASSUME NEW c, Spend(c) PROVE used'.edits = used.edits
  BY <1>1, <1>2 DEF Spend
<1>3. ASSUME NEW c, NEW u, NEW next, External(p, c, u, next) \/ DiesRunning(p, c, u) PROVE used'.edits = used.edits
  <2>1. CASE External(p, c, u, next)
    BY <1>2, <2>1 DEF External, Unspent
  <2>2. CASE DiesRunning(p, c, u)
    BY <1>2, <2>2 DEF DiesRunning
  <2> QED
    BY <1>3, <2>1, <2>2
<1>4. CASE Confirm(p) \/ Fail(p) \/ Crash(p)
  BY <1>2, <1>4, SMTT(30) DEF Confirm, Fail, Crash
<1>5. CASE WriteFiles(p) \/ TrackHosts(p) \/ NextHost(p) \/ Prepare(p) \/ Verify(p) \/ ApplySettings(p)
           \/ RecordInstall(p) \/ RestoreSettings(p) \/ VerifyGone(p) \/ Forget(p) \/ Commit(p)
  BY <1>5 DEF WriteFiles, TrackHosts, NextHost, Prepare, Verify, ApplySettings, RecordInstall, RestoreSettings,
              VerifyGone, Forget, Commit
<1>6. CASE SwitchCache(p)
  BY <1>2, <1>6 DEF SwitchCache, Unspent
<1>7. CASE RemoveMarket(p) \/ AddMarket(p)
  BY <1>3, <1>7 DEF RemoveMarket, AddMarket
<1>8. CASE DropDisabled(p) \/ AddPlugin(p)
  BY <1>3, <1>8 DEF DropDisabled, AddPlugin
<1>9. CASE RemovePlugin(p) \/ RemoveOwnedMarket(p)
  BY <1>3, <1>9 DEF RemovePlugin, RemoveOwnedMarket
<1> QED
  BY <1>4, <1>5, <1>6, <1>7, <1>8, <1>9 DEF Stages

LEMMA StepKeepsRecord ==
  ASSUME InstallAssumption, SettingsInv, RecordInv, NEW p \in Proc,
         Confirm(p) \/ (Stages(p) /\ ~Commit(p)) \/ (Going(p) /\ (Fail(p) \/ Crash(p)))
  PROVE  RecordInv'
<1> SUFFICES ASSUME used'.edits = 0 PROVE RecordInv'
  BY DEF RecordInv
<1>1. used.edits = 0
  <2>1. TypeOK
    BY DEF SettingsInv, TypeInv
  <2> QED
    BY <2>1, SpendsNoEdit
<1>2. CASE Confirm(p) \/ (Going(p) /\ (Fail(p) \/ Crash(p)))
  BY <1>1, <1>2, ConfirmMarches, FailMarches, MarchKeeps
<1>3. CASE WriteFiles(p) \/ TrackHosts(p) \/ NextHost(p) \/ ApplySettings(p) \/ RecordInstall(p) \/ Forget(p)
  BY <1>1, <1>3, WriteFilesMarches, TrackHostsMarches, NextHostMarches, ApplySettingsMarches, RecordInstallMarches,
     ForgetMarches, MarchKeeps
<1>4. CASE Prepare(p) \/ SwitchCache(p) \/ RemoveMarket(p) \/ AddMarket(p) \/ DropDisabled(p) \/ AddPlugin(p) \/ Verify(p)
  BY <1>1, <1>4, PrepareMarches, SwitchCacheMarches, RemoveMarketMarches, AddMarketMarches, DropDisabledMarches,
     AddPluginMarches, VerifyMarches, MarchKeeps
<1>5. CASE RestoreSettings(p) \/ RemovePlugin(p) \/ RemoveOwnedMarket(p) \/ VerifyGone(p)
  BY <1>1, <1>5, RestoreSettingsMarches, RemovePluginMarches, RemoveOwnedMarketMarches, VerifyGoneMarches, MarchKeeps
<1> QED
  BY <1>2, <1>3, <1>4, <1>5 DEF Stages

LEMMA RecordHolds ==
  ASSUME InstallAssumption, ~Retrying, SettingsInv, RecordInv, [Next]_vars PROVE RecordInv'
<1>0. TypeOK
  BY DEF SettingsInv, TypeInv
<1>1. ASSUME NEW p \in Proc, Fail(p) \/ Crash(p) PROVE RecordInv'
  <2>1. CASE Going(p)
    BY <1>1, <2>1, StepKeepsRecord
  <2>2. CASE ~Going(p)
    <3>1. Crash(p) /\ Leave(p) /\ UNCHANGED <<host, home, journals, shifted>>
      BY <1>1, <2>2 DEF Fail, Crash, Going, ghosts
    <3>2. used'.edits = used.edits
      BY <1>0, <3>1, SpendsNoEdit
    <3> QED
      BY <1>0, <2>2, <3>1, <3>2, LeaveKeepsRecord
  <2> QED
    BY <2>1, <2>2
<1>2. ASSUME NEW p \in Proc,
             \/ AskInstall(p) \/ AskUpdate(p) \/ AskUninstall(p)
             \/ Begin(p) \/ Confirm(p) \/ Stages(p)
             \/ StartRollback(p) \/ UndoNext(p) \/ RestoreFiles(p)
             \/ Attest(p) \/ Fail(p) \/ Crash(p)
      PROVE  RecordInv'
  BY <1>0, <1>1, <1>2, AsksKeepRecord, BeginKeepsRecord, StepKeepsRecord, CommitKeepsRecord, StartRollbackKeepsRecord,
     UndoNextKeepsRecord, RestoreFilesKeepsRecord, AttestKeepsRecord
<1>3. ASSUME NEW x, NEW looked, Edit(x, looked) PROVE RecordInv'
  <2>1. used'.edits = used.edits + 1 /\ used.edits \in Nat
    BY <1>0, <1>3 DEF Edit, TypeOK
  <2> QED
    BY <2>1 DEF RecordInv
<1>4. ASSUME NEW h \in Host, EditSettings(h) \/ RunManager(h) PROVE RecordInv'
  BY <1>3, <1>4 DEF EditSettings, RunManager
<1>5. ASSUME NEW x \in Place, WritePlace(x) PROVE RecordInv'
  BY <1>3, <1>5 DEF WritePlace
<1>6. CASE UNCHANGED vars
  <2> SUFFICES ASSUME used'.edits = 0 PROVE RecordInv'
    BY DEF RecordInv
  <2>1. UNCHANGED <<host, home, journals, shifted, proc, used>>
    BY <1>6 DEF vars, ghosts
  <2>2. \A q \in Proc : Static(proc'[q]) /\ Going(q)' = Going(q) /\ proc'[q] = proc[q]
    BY <2>1 DEF RecordInv, Going
  <2> QED
    BY <2>1, <2>2, RecordAside
<1> QED
  BY <1>2, <1>4, <1>5, <1>6 DEF Next

LEMMA RecordSays == ASSUME InstallAssumption, SettingsInv, RecordInv PROVE RecordedAsIs
<1>0. TypeOK
  BY DEF SettingsInv, TypeInv
<1> SUFFICES ASSUME Quiet, used.edits = 0, NEW h \in Host \ shifted
             PROVE  IF h \in home.hosts THEN Registered(h)
                    ELSE host[h].file.market = NoSource /\ Inv(h, host[h]).plugin = "absent"
  BY DEF RecordedAsIs
<1>1. Sound(home, h) /\ Shown(home, h, host[h]) /\ RegHeld(h, host[h])
  BY DEF RecordInv, HostTrue, Quiet
<1>2. CASE h \notin home.hosts
  BY <1>1, <1>2 DEF Shown, Inv
<1>3. CASE h \in home.hosts
  <2> DEFINE s == host[h]  v == home.path[h]
  <2>1. /\ s.file.market = home.src[h] /\ s.file.plugin = "on" /\ Listed(h, s) = v
        /\ v \in Version /\ home.src[h].from \in {"tag", "dir"} /\ home.src[h].ver = v
        /\ home.src[h].from = "dir" => v \in home.runtimes
        /\ home.current = home.version
    BY <1>1, <1>3 DEF Shown, Sound
  <2>2. v # 0 /\ s \in HostState /\ home.src[h] # NoSource
    BY <1>0, <2>1, Bounds DEF Version, TypeOK, NoSource
  <2>3. s.dirs[v] # "none"
    <3>1. CASE h \in DirHosts
      <4>1. Real(s) # {} /\ Real(s) \in SUBSET Nat
        BY <2>1, <2>2, <3>1, Bounds DEF Listed, Largest, Real, Version
      <4>2. Largest(Real(s)) \in Real(s)
        <5>1. \A n \in Real(s) : n <= MaxVersion
          BY Bounds DEF Real, Version
        <5> QED
          BY <4>1, <5>1, Bounds, LargestFound
      <4> QED
        BY <2>1, <3>1, <4>2 DEF Listed, Real
    <3>2. CASE h \notin DirHosts
      BY <1>1, <2>1, <2>2, <3>2 DEF Listed, RegHeld
    <3> QED
      BY <3>1, <3>2
  <2>4. Inv(h, s) = [market |-> home.src[h], version |-> v, plugin |-> "on"]
    BY <2>1, <2>2 DEF Inv
  <2>5. Usable(home.src[h])
    BY <2>1, <2>2 DEF Usable
  <2> HIDE DEF s, v
  <2>6. Registered(h)
    BY <2>1, <2>3, <2>4, <2>5 DEF Registered, Healthy, s, v
  <2> QED
    BY <1>3, <2>6
<1> QED
  BY <1>2, <1>3

(* While nothing is unfinished and the user changed nothing, a recorded host has the
   version and the source recorded for it, and passes doctor if that is the version
   of the home, and one that is not recorded has nothing of ours: after any order of
   installs, updates, uninstalls, failures, crashes and rollbacks of which none tries
   again an undo that failed (operations.py:640-674, 1503-1515, 1638-1673). *)
THEOREM RecordTellsTruth == ASSUME InstallAssumption, ~Retrying PROVE Spec => []RecordedAsIs
<1>1. Init => SettingsInv /\ RecordInv
  BY InitHolds, RecordBegins
<1>2. SettingsInv /\ RecordInv /\ [Next]_vars => (SettingsInv /\ RecordInv)'
  BY NextHolds, RecordHolds
<1>3. SettingsInv /\ RecordInv => RecordedAsIs
  BY RecordSays
<1> QED
  BY <1>1, <1>2, <1>3, PTL DEF Spec

=============================================================================
