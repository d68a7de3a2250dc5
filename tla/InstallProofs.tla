--------------------------- MODULE InstallProofs ---------------------------
(* The user's security settings come back, the hooks of running sessions stay  *)
(* where they are, and what the user put there stays as it is, for any number  *)
(* of hosts, commands, versions and files: proofs about module Install.        *)
(*                                                                             *)
(* SettingsReturn alone is not inductive: between two steps of a command the   *)
(* baseline may stand in a file whose record is not written yet, and a crash   *)
(* may come there.  SettingsInv says what each command knows of every host     *)
(* (Knows), what a rollback of the unfinished transaction would leave          *)
(* (Reverts), and what one of a committed transaction would (Linked).  Most    *)
(* steps touch neither settings nor records: CalmKeeps treats them at once.    *)
(* The others, which track, restore, apply, begin, commit or put back, are     *)
(* proved one by one, each host by host.                                       *)
EXTENDS InstallSafety, TLAPS, WellFoundedInduction

--------
(* The largest of a bounded set of numbers. *)

LEMMA HasMin ==
  ASSUME NEW T \in SUBSET Nat, T # {}
  PROVE  \E x \in T : \A y \in T : x <= y
<1> DEFINE R == {xy \in Nat \X Nat : xy[1] < xy[2]}
<1>1. IsWellFoundedOn(R, Nat)
  BY NatLessThanWellFounded DEF OpToRel
<1> HIDE DEF R
<1>2. PICK x \in T : \A y \in T : ~ (<<y, x>> \in R)
  BY <1>1, WFMin
<1>3. ASSUME NEW y \in T PROVE x <= y
  <2>1. ~(<<y, x>> \in R)
    BY <1>2
  <2>2. x \in Nat /\ y \in Nat
    OBVIOUS
  <2>3. ~(y < x)
    BY <2>1, <2>2 DEF R
  <2> QED
    BY <2>2, <2>3
<1> QED
  BY <1>3

LEMMA LargestFound ==
  ASSUME NEW S \in SUBSET Nat, S # {}, NEW b \in Nat, \A n \in S : n <= b
  PROVE  Largest(S) \in S /\ \A n \in S : n <= Largest(S)
<1> DEFINE T == {b - n : n \in S}
<1>1. T \in SUBSET Nat /\ T # {}
  <2>1. \A n \in S : b - n \in Nat
    OBVIOUS
  <2> QED
    BY <2>1
<1>2. PICK x \in T : \A y \in T : x <= y
  BY <1>1, HasMin
<1>3. PICK m \in S : x = b - m
  OBVIOUS
<1>4. \A n \in S : n <= m
  <2> SUFFICES ASSUME NEW n \in S PROVE n <= m
    OBVIOUS
  <2>1. b - m <= b - n
    BY <1>2, <1>3
  <2> QED
    BY <2>1
<1>5. \E e \in S : \A n \in S : n <= e
  BY <1>4
<1> QED
  BY <1>5, Zenon DEF Largest

--------
(* Hosts and commands. *)

LEMMA Bounds == ASSUME InstallAssumption PROVE MaxVersion \in Nat /\ Version \subseteq 0..MaxVersion /\ NoSource \in Source
BY DEF InstallAssumption, Version, NoSource, Source

LEMMA ListedTyped ==
  ASSUME InstallAssumption, NEW h \in Host, NEW s \in HostState
  PROVE  Listed(h, s) \in 0..MaxVersion /\ Inv(h, s) \in Inventory
<1>1. Listed(h, s) \in 0..MaxVersion
  <2>1. s.reg \in 0..MaxVersion
    BY DEF HostState
  <2>2. CASE Real(s) # {}
    <3>1. Real(s) \in SUBSET Nat /\ \A n \in Real(s) : n <= MaxVersion
      BY DEF Real, Version
    <3>2. Largest(Real(s)) \in Real(s)
      BY <2>2, <3>1, LargestFound, Bounds
    <3> QED
      BY <2>1, <3>2, Bounds DEF Listed, Real
  <2>3. CASE Real(s) = {}
    BY <2>1, <2>3, Bounds DEF Listed, Largest
  <2> QED
    BY <2>2, <2>3
<1>2. s.file.market \in Source /\ s.file.plugin \in {"absent", "on", "off"}
  BY DEF HostState, File
<1> QED
  BY <1>1, <1>2 DEF Inv, Inventory

LEMMA FreshTyped == ASSUME InstallAssumption PROVE Fresh \in HostState /\ Fresh.file \in File
BY Bounds DEF Fresh, HostState, File

\* What a native command does to a host, and that it leaves the security settings alone.
LEMMA Effects ==
  ASSUME InstallAssumption, NEW c \in Command, NEW s \in HostState
  PROVE  Effect(c, s) \in HostState /\ Effect(c, s).file.sec = s.file.sec
<1>1. c.host \in Host /\ c.src \in Source /\ c.src.ver \in 0..MaxVersion
  BY DEF Command, Source
<1>2. s.file \in File /\ s.file.market.ver \in 0..MaxVersion
  BY DEF HostState, File, Source
<1>3. CASE c.op = "market add"
  BY <1>1, <1>3 DEF Effect, HostState, File
<1>4. CASE c.op = "market remove"
  <2>1. MarketRemoved(c.host, s).dirs = s.dirs /\ MarketRemoved(c.host, s).reg \in {0, s.reg}
    BY DEF MarketRemoved, HostState
  <2>2. /\ MarketRemoved(c.host, s).file = IF c.host \in DirHosts THEN [s.file EXCEPT !.market = NoSource]
                                         ELSE [s.file EXCEPT !.market = NoSource, !.plugin = "absent"]
        /\ MarketRemoved(c.host, s) = [file |-> MarketRemoved(c.host, s).file, reg |-> MarketRemoved(c.host, s).reg,
                                       dirs |-> MarketRemoved(c.host, s).dirs]
    BY DEF MarketRemoved, HostState
  <2>3. s.dirs \in [Version -> {"none", "dir", "other", "alias"}] /\ s.reg \in 0..MaxVersion /\ 0 \in 0..MaxVersion
    BY Bounds DEF HostState
  <2>4. MarketRemoved(c.host, s).file \in File /\ MarketRemoved(c.host, s).file.sec = s.file.sec
    BY <1>2, <2>2, Bounds DEF File
  <2> QED
    BY <1>4, <2>1, <2>2, <2>3, <2>4 DEF Effect, HostState
<1>5. CASE c.op = "plugin add"
  <2>1. PluginAdded(c.host, s).file = [s.file EXCEPT !.plugin = "on"]
    BY <1>5 DEF PluginAdded, HostState
  <2> QED
    BY <1>1, <1>2, <1>5 DEF Effect, PluginAdded, HostState, File
<1>6. CASE c.op = "plugin remove"
  <2>1. /\ PluginRemoved(c.host, s).file = [s.file EXCEPT !.plugin = "absent"]
        /\ PluginRemoved(c.host, s).reg = 0
        /\ PluginRemoved(c.host, s).dirs \in {s.dirs, Fresh.dirs}
        /\ PluginRemoved(c.host, s) = [file |-> PluginRemoved(c.host, s).file, reg |-> PluginRemoved(c.host, s).reg,
                                       dirs |-> PluginRemoved(c.host, s).dirs]
    BY DEF PluginRemoved, HostState
  <2>2. s.dirs \in [Version -> {"none", "dir", "other", "alias"}] /\ 0 \in 0..MaxVersion
    BY Bounds DEF HostState
  <2>3. Fresh.dirs \in [Version -> {"none", "dir", "other", "alias"}]
    BY DEF Fresh
  <2>4. PluginRemoved(c.host, s).file \in File /\ PluginRemoved(c.host, s).file.sec = s.file.sec
    BY <1>2, <2>1 DEF File
  <2> QED
    BY <1>6, <2>1, <2>2, <2>3, <2>4 DEF Effect, HostState
<1>7. CASE c.op = "select"
  BY <1>1, <1>7 DEF Effect, Selected, HostState
<1> QED
  BY <1>3, <1>4, <1>5, <1>6, <1>7 DEF Command

\* Whatever a command reports, the host it ran in keeps its form and its settings.
LEMMA OutcomesTyped ==
  ASSUME InstallAssumption, TypeOK, NEW c \in Command, NEW o \in Outcomes(c)
  PROVE  /\ o.s \in HostState /\ o.s.file.sec = host[c.host].file.sec
         /\ o.ok \in BOOLEAN /\ o.cost \in Nat
<1>1. host[c.host] \in HostState
  BY DEF TypeOK, Command
<1>2. \/ o = [s |-> Effect(c, host[c.host]), ok |-> TRUE, cost |-> 0]
      \/ \E t \in {host[c.host], Effect(c, host[c.host])} : o = [s |-> t, ok |-> FALSE, cost |-> 1]
      \/ \E r \in BOOLEAN : o = [s |-> host[c.host], ok |-> r, cost |-> 0]
  BY DEF Outcomes
<1>3. \A t \in {host[c.host], Effect(c, host[c.host])} : t \in HostState /\ t.file.sec = host[c.host].file.sec
  BY <1>1, Effects
<1>4. host[c.host] \in {host[c.host], Effect(c, host[c.host])} /\ Effect(c, host[c.host]) \in {host[c.host], Effect(c, host[c.host])}
  OBVIOUS
<1>5. CASE o = [s |-> Effect(c, host[c.host]), ok |-> TRUE, cost |-> 0]
  BY <1>3, <1>4, <1>5
<1>6. ASSUME NEW t \in {host[c.host], Effect(c, host[c.host])}, o = [s |-> t, ok |-> FALSE, cost |-> 1]
      PROVE  /\ o.s \in HostState /\ o.s.file.sec = host[c.host].file.sec
             /\ o.ok \in BOOLEAN /\ o.cost \in Nat
  BY <1>3, <1>6
<1>7. ASSUME NEW r \in BOOLEAN, o = [s |-> host[c.host], ok |-> r, cost |-> 0]
      PROVE  /\ o.s \in HostState /\ o.s.file.sec = host[c.host].file.sec
             /\ o.ok \in BOOLEAN /\ o.cost \in Nat
  BY <1>3, <1>4, <1>7
<1> QED
  BY <1>2, <1>5, <1>6, <1>7

LEMMA Moves ==
  ASSUME NEW r \in Request, NEW s \in Stage
  PROVE  LET t == [r EXCEPT !.stage = s]
         IN /\ t \in Request /\ t.stage = s /\ t.op = r.op /\ t.hosts = r.hosts /\ t.ver = r.ver
            /\ t.old = r.old /\ t.cur = r.cur /\ t.left = r.left /\ t.refresh = r.refresh
BY DEF Request

--------
(* A step of the command that holds the lock. *)

Step(p, r, j) ==
  /\ Running(p) /\ proc' = [proc EXCEPT ![p] = r]
  /\ r \in Request /\ r.stage # "asked" /\ Standing(r, j)
  /\ j \in Journal /\ journals' = [journals EXCEPT ![Last] = j]
  /\ host' \in [Host -> HostState] /\ place' \in [Place -> Text] /\ home' \in Home
  /\ used' \in [ops : Nat, edits : Nat, upsets : Nat]
  /\ UNCHANGED <<begin, edited, own, theirs, window>> /\ shifted' \subseteq Host

LEMMA NowTyped ==
  ASSUME TypeOK, journals # <<>>
  PROVE  Last \in DOMAIN journals /\ Last \in Nat /\ Last >= 1 /\ Now \in Journal
<1>1. journals \in Seq(Journal)
  BY DEF TypeOK
<1>2. Last \in Nat /\ Last >= 1 /\ DOMAIN journals = 1..Last
  BY <1>1 DEF Last
<1> QED
  BY <1>1, <1>2 DEF Now, Last

LEMMA Replaced ==
  ASSUME TypeOK, journals # <<>>, NEW j \in Journal, journals' = [journals EXCEPT ![Last] = j]
  PROVE  /\ journals' \in Seq(Journal) /\ Last' = Last /\ Now' = j /\ journals' # <<>>
         /\ DOMAIN journals' = DOMAIN journals
         /\ \A i \in DOMAIN journals : journals'[i] = IF i = Last THEN j ELSE journals[i]
<1>1. journals \in Seq(Journal) /\ Last \in DOMAIN journals
  BY NowTyped DEF TypeOK
<1>2. /\ journals' \in Seq(Journal) /\ Len(journals') = Len(journals)
      /\ DOMAIN journals' = DOMAIN journals
      /\ \A i \in DOMAIN journals : journals'[i] = IF i = Last THEN j ELSE journals[i]
  BY <1>1
<1>3. Last' = Last
  BY <1>2 DEF Last
<1> QED
  BY <1>1, <1>2, <1>3 DEF Now

LEMMA RunFacts ==
  ASSUME TypeInv, NEW p \in Proc, Running(p)
  PROVE  /\ TypeOK /\ journals # <<>> /\ Standing(proc[p], Now) /\ Now.status = "active" /\ Now \in Journal
         /\ Last \in DOMAIN journals /\ proc[p] \in Request
         /\ \A q \in Proc \ {p} : ~Running(q)
<1>1. proc[p].stage \in Stage /\ proc[p] \in Request
  BY DEF TypeInv, TypeOK, Request
<1> QED
  BY <1>1, NowTyped DEF TypeInv, Running, Standing, Stage

LEMMA StepTyped ==
  ASSUME TypeInv, NEW p \in Proc, NEW r, NEW j, Step(p, r, j)
  PROVE  TypeInv'
<1>1. /\ TypeOK /\ journals # <<>> /\ Last \in DOMAIN journals
      /\ \A q \in Proc \ {p} : ~Running(q)
  BY RunFacts DEF Step
<1>2. /\ journals' \in Seq(Journal) /\ Last' = Last /\ Now' = j /\ journals' # <<>>
      /\ DOMAIN journals' = DOMAIN journals
      /\ \A i \in DOMAIN journals : journals'[i] = IF i = Last THEN j ELSE journals[i]
  BY <1>1, Replaced DEF Step
<1>3. proc' \in [Proc -> Request] /\ proc'[p] = r /\ \A q \in Proc \ {p} : proc'[q] = proc[q]
  BY <1>1 DEF Step, TypeOK
<1>4. TypeOK'
  BY <1>1, <1>2, <1>3 DEF Step, TypeOK, ghosts, Last
<1>5. \A q \in Proc : Standing(proc[q], Now)'
  <2>1. Standing(proc'[p], Now')
    BY <1>2, <1>3 DEF Step
  <2>2. ASSUME NEW q \in Proc \ {p} PROVE Standing(proc'[q], Now')
    <3>1. Standing(proc[q], Now) /\ proc[q].stage \notin {"undo"} \union Steps
      BY <1>1 DEF TypeInv, Running, Steps
    <3> QED
      BY <1>3, <3>1 DEF Standing
  <2>3. \A q \in Proc : Standing(proc'[q], Now')
    BY <2>1, <2>2
  <2> QED
    BY <2>3 DEF Standing
<1>6. \A q \in Proc \ {p} : ~Running(q)'
  BY <1>1, <1>3 DEF Running
<1>7. \A i \in DOMAIN journals' : journals'[i].status \in Unfinished => i = Last'
  BY <1>2 DEF TypeInv
<1> QED
  BY <1>2, <1>4, <1>5, <1>6, <1>7 DEF TypeInv

--------
(* Most steps of a command leave security settings and their records alone. *)

CalmConf(k, l, h) ==
  /\ (l.on = "no") = (k.on = "no")
  /\ l.on # "no" => /\ l.before.file.sec = k.before.file.sec
                    /\ h \notin window => l.signed.file.sec = k.signed.file.sec
  /\ l.back => k.back
Calm(p, r, j) ==
  /\ Step(p, r, j) /\ home'.rec = home.rec
  /\ \A h \in Host : host'[h].file.sec = host[h].file.sec
  /\ j.status = Now.status /\ j.home = Now.home
  /\ \A h \in Host : CalmConf(Now.conf[h], j.conf[h], h)
  /\ r.stage \in Steps =>
       /\ Going(p) /\ Knows(r)
       /\ r.op = proc[p].op /\ r.hosts = proc[p].hosts /\ r.old = proc[p].old /\ r.refresh = proc[p].refresh

\* The newest transaction changes, but not its status and what it began with.
LEMMA LinksStay ==
  ASSUME TypeInv, journals # <<>>, NEW j \in Journal, journals' = [journals EXCEPT ![Last] = j],
         Now.status \in Unfinished, j.status \in Unfinished, j.home = Now.home,
         NEW h \in Host, NEW i \in DOMAIN journals', NEW m \in 1..Last' + 1,
         journals'[i].status = "committed", Follows(i, m)',
         \A n \in DOMAIN journals : \A l \in 1..Last + 1 :
            journals[n].status = "committed" /\ Follows(n, l) => Linked(n, l, h)
  PROVE  Linked(i, m, h)'
<1>1. /\ Last' = Last /\ DOMAIN journals' = DOMAIN journals /\ DOMAIN journals = 1..Last /\ Last \in Nat
      /\ \A n \in DOMAIN journals : journals'[n] = IF n = Last THEN j ELSE journals[n]
  BY Replaced, NowTyped DEF TypeInv, TypeOK, Last
<1>2. i # Last /\ i < Last /\ journals'[i] = journals[i]
  BY <1>1 DEF Unfinished
<1>3. m # Last + 1
  BY <1>1, <1>2 DEF Follows, Unfinished
<1>4. m \in DOMAIN journals /\ HomeAt(m)' = HomeAt(m)
  BY <1>1, <1>3 DEF HomeAt, Now
<1>5. Follows(i, m)
  BY <1>1, <1>4 DEF Follows, Unfinished
<1> QED
  BY <1>1, <1>2, <1>4, <1>5 DEF Linked

LEMMA CalmKeeps ==
  ASSUME SettingsInv, NEW p \in Proc, NEW r, NEW j, Calm(p, r, j)
  PROVE  SettingsInv'
<1>1. TypeInv /\ Step(p, r, j)
  BY DEF SettingsInv, Calm
<1>2. TypeInv'
  BY <1>1, StepTyped
<1>3. /\ journals # <<>> /\ Now.status = "active" /\ Last \in DOMAIN journals /\ TypeOK
      /\ \A q \in Proc \ {p} : ~Running(q)
  BY <1>1, RunFacts DEF Step
<1>4. /\ Last' = Last /\ Now' = j /\ DOMAIN journals' = DOMAIN journals
      /\ \A i \in DOMAIN journals : journals'[i] = IF i = Last THEN j ELSE journals[i]
      /\ j \in Journal /\ journals' = [journals EXCEPT ![Last] = j]
  BY <1>1, <1>3, Replaced DEF Step
<1>5. /\ proc'[p] = r /\ (\A q \in Proc \ {p} : proc'[q] = proc[q]) /\ own' = own /\ window' = window
  BY <1>1, <1>3 DEF Step, TypeOK, ghosts
<1>6. j.status = "active" /\ j.home = Now.home /\ home'.rec = home.rec
  BY <1>3 DEF Calm
<1>7. Recorded(home') /\ \A i \in DOMAIN journals' : Recorded(journals'[i].home)
  BY <1>4, <1>6 DEF SettingsInv, Recorded, Now
<1>8. ~NoneUnfinished /\ ~NoneUnfinished'
  BY <1>3, <1>4, <1>6 DEF NoneUnfinished, Unfinished, Now
<1>9. (\A q \in Proc : ~Going(q)) => \A q \in Proc : ~Going(q)'
  BY <1>5 DEF Going, Calm
<1>10. ASSUME NEW h \in Host \ window' PROVE Known(h)' /\ Reverts(h)'
  <2>1. Known(h) /\ Reverts(h)
    BY <1>5, <1>8, <1>10 DEF SettingsInv
  <2>2. host'[h].file.sec = host[h].file.sec /\ CalmConf(Now.conf[h], j.conf[h], h) /\ h \notin window
    BY <1>5, <1>10 DEF Calm
  <2>3. Known(h)'
    BY <1>4, <1>5, <1>6, <1>8, <1>9, <2>1, <2>2 DEF Known, Unsettled
  <2>4. Reverts(h)'
    BY <1>4, <1>5, <1>6, <2>1, <2>2 DEF Reverts, CalmConf, Accounts, Mine
  <2> QED
    BY <2>3, <2>4
<1>11. ASSUME NEW h \in Host \ window', NEW i \in DOMAIN journals', NEW m \in 1..Last' + 1,
              journals'[i].status = "committed", Follows(i, m)'
       PROVE  Linked(i, m, h)'
  <2>1. \A n \in DOMAIN journals : \A l \in 1..Last + 1 :
            journals[n].status = "committed" /\ Follows(n, l) => Linked(n, l, h)
    BY <1>5, <1>11 DEF SettingsInv
  <2>2. Now.status \in Unfinished /\ j.status \in Unfinished
    BY <1>3, <1>6 DEF Unfinished
  <2> QED
    BY <1>1, <1>3, <1>4, <1>6, <1>11, <2>1, <2>2, LinksStay
<1>12. ASSUME NEW q \in Proc, proc'[q].stage \in {"asked"} \union Steps, NEW h \in proc'[q].hosts \ window'
       PROVE  GivesBack(proc[q], h)'
  <2>1. CASE q = p
    <3>1. r.stage \in Steps /\ Going(p)
      BY <1>1, <1>5, <1>12, <2>1 DEF Step, Calm
    <3>2. GivesBack(proc[p], h)
      BY <1>5, <1>12, <2>1, <3>1 DEF Calm, SettingsInv, Going
    <3>3. r.op = proc[p].op /\ r.old = proc[p].old /\ r.refresh = proc[p].refresh
      BY <3>1 DEF Calm
    <3> QED
      BY <1>5, <2>1, <3>2, <3>3 DEF GivesBack
  <2>2. CASE q # p
    <3>1. GivesBack(proc[q], h)
      BY <1>5, <1>12, <2>2 DEF SettingsInv
    <3> QED
      BY <1>5, <2>2, <3>1 DEF GivesBack
  <2> QED
    BY <2>1, <2>2
<1>13. ASSUME NEW q \in Proc, Going(q)' PROVE Knows(proc[q])'
  <2>1. q = p
    BY <1>3, <1>5, <1>13 DEF Going, Running, Steps
  <2>2. r.stage \in Steps /\ Knows(r)
    BY <1>5, <1>13, <2>1 DEF Calm, Going
  <2>3. \A h \in Host : Tracked(r, h)'
    BY <1>4, <1>5, <1>6, <2>2 DEF Knows, Tracked, Calm, CalmConf
  <2>4. ASSUME NEW h \in Host \ window' PROVE Watched(r, h)'
    <3>1. /\ host'[h].file.sec = host[h].file.sec /\ CalmConf(Now.conf[h], j.conf[h], h) /\ h \notin window
          /\ Watched(r, h)
      BY <1>5, <2>2, <2>4 DEF Calm, Knows
    <3> QED
      BY <1>4, <1>5, <1>6, <3>1 DEF Watched, CalmConf
  <2>5. Knows(r)'
    BY <1>4, <1>5, <1>6, <2>2, <2>3, <2>4 DEF Knows
  <2> QED
    BY <1>5, <2>1, <2>5
<1>14. \A h \in Host \ window' : \A i \in DOMAIN journals' : \A m \in 1..Last' + 1 :
         journals'[i].status = "committed" /\ Follows(i, m)' => Linked(i, m, h)'
  BY <1>11
<1>15. \A q \in Proc : proc'[q].stage \in {"asked"} \union Steps =>
         \A h \in proc'[q].hosts \ window' : GivesBack(proc[q], h)'
  BY <1>12
<1> QED
  BY <1>2, <1>7, <1>8, <1>10, <1>13, <1>14, <1>15 DEF SettingsInv

CalmData(j) ==
  /\ j \in Journal /\ journals' = [journals EXCEPT ![Last] = j]
  /\ host' \in [Host -> HostState] /\ place' \in [Place -> Text] /\ home' \in Home
  /\ used' \in [ops : Nat, edits : Nat, upsets : Nat]
  /\ UNCHANGED <<begin, edited, own, theirs, window>> /\ shifted' \subseteq Host
  /\ home'.rec = home.rec
  /\ \A h \in Host : host'[h].file.sec = host[h].file.sec
  /\ j.status = Now.status /\ j.home = Now.home
  /\ \A h \in Host : CalmConf(Now.conf[h], j.conf[h], h)

LEMMA SameData ==
  ASSUME TypeInv, NEW p \in Proc, Running(p), UNCHANGED <<host, place, home, journals, ghosts>>,
         used' \in [ops : Nat, edits : Nat, upsets : Nat]
  PROVE  CalmData(Now)
<1>1. Now \in Journal /\ Last \in DOMAIN journals /\ TypeOK
  BY RunFacts
<1>2. journals' = [journals EXCEPT ![Last] = Now]
  BY <1>1 DEF TypeOK, Now
<1> QED
  BY <1>1, <1>2 DEF CalmData, CalmConf, TypeOK, ghosts

LEMMA IdleTyped ==
  ASSUME InstallAssumption
  PROVE  /\ Idle \in Request /\ Idle.stage = "idle" /\ Idle.op = "none" /\ Idle.hosts = {}
         /\ Idle.refresh = {} /\ Idle.left = {} /\ \A j : Standing(Idle, j)
<1>1. EmptyHome \in Home
  BY Bounds, FreshTyped DEF EmptyHome, Home, NoRecord, Record
<1>2. NoInventory \in Inventory
  BY Bounds DEF NoInventory, Inventory
<1>3. Idle \in Request
  BY <1>1, <1>2, Bounds, FreshTyped DEF Idle, Request, Stage
<1> QED
  BY <1>3 DEF Idle, Standing, Steps, Tracking, Installing, Uninstalling, InHost

Aborted(p, k) == [proc[p] EXCEPT !.stage = "undo", !.k = k, !.bad = FALSE]

\* A step that ends the work of the command, or sends it into the rollback.
LEMMA CalmEnds ==
  ASSUME InstallAssumption, SettingsInv, NEW p \in Proc, Running(p), NEW j, CalmData(j), NEW r,
         proc' = [proc EXCEPT ![p] = r], r = Idle \/ r = Aborted(p, Len(j.undo))
  PROVE  SettingsInv'
<1>1. TypeInv /\ proc[p] \in Request /\ Standing(proc[p], Now) /\ Now.status = "active"
  BY RunFacts DEF SettingsInv
<1>2. CASE r = Idle
  BY <1>1, <1>2, IdleTyped, CalmKeeps DEF Calm, CalmData, Step, Steps
<1>3. CASE r = Aborted(p, Len(j.undo))
  <2>1. Len(j.undo) \in Nat
    BY DEF CalmData, Journal
  <2>2. /\ r \in Request /\ r.stage = "undo" /\ r.k = Len(j.undo) /\ r.op = proc[p].op /\ r.ver = proc[p].ver
        /\ r.refresh = proc[p].refresh /\ r.left = proc[p].left /\ r.hosts = proc[p].hosts
    BY <1>1, <1>3, <2>1 DEF Aborted, Request, Stage
  <2>3. Standing(r, j)
    BY <1>1, <2>1, <2>2 DEF Standing, Steps, Tracking, Installing, Uninstalling, InHost, CalmData
  <2> QED
    BY <1>1, <2>2, <2>3, CalmKeeps DEF Calm, CalmData, Step, Steps
<1> QED
  BY <1>2, <1>3

\* How a command goes from one stage to the next.
Flow ==
  {<<"files", "track">>, <<"prepare", "select">>, <<"prepare", "remove">>, <<"select", "remove">>,
   <<"remove", "add">>, <<"add", "drop">>, <<"drop", "plug">>, <<"plug", "verify">>, <<"verify", "host">>,
   <<"settings", "record">>, <<"record", "commit">>, <<"unplug", "unmarket">>, <<"unmarket", "gone">>,
   <<"forget", "commit">>}

LEMMA CalmGoes ==
  ASSUME InstallAssumption, SettingsInv, NEW p \in Proc, NEW j, CalmData(j), NEW r \in Request,
         proc' = [proc EXCEPT ![p] = r], <<proc[p].stage, r.stage>> \in Flow,
         r.op = proc[p].op, r.hosts = proc[p].hosts, r.old = proc[p].old, r.refresh = proc[p].refresh,
         r.ver = proc[p].ver, r.left = proc[p].left, r.cur = proc[p].cur
  PROVE  SettingsInv'
<1>1. Going(p) /\ Running(p) /\ r.stage \in Steps /\ r.stage \notin {"undo", "asked", "confirm", "restore"}
  BY DEF Flow, Going, Running, Steps
<1>2. TypeInv /\ Standing(proc[p], Now) /\ Now.status = "active" /\ Knows(proc[p])
  BY <1>1, RunFacts DEF SettingsInv
<1>3. Standing(r, j)
  BY <1>1, <1>2 DEF Flow, Standing, Steps, Tracking, Installing, Uninstalling, InHost, CalmData
<1>4. ASSUME NEW h \in Host PROVE Tracked(r, h)
  <2>1. Tracked(proc[p], h)
    BY <1>2 DEF Knows
  <2>2. Standing(proc[p], Now)
    BY <1>2
  <2> QED
    BY <1>1, <2>1, <2>2 DEF Flow, Tracked, Standing, Tracking, Installing, Uninstalling
<1>5. ASSUME NEW h \in Host \ window PROVE Watched(r, h)
  <2>1. Watched(proc[p], h)
    BY <1>2, <1>5 DEF Knows
  <2> QED
    BY <1>1, <2>1 DEF Flow, Watched, Uninstalling
<1>6. proc[p].stage # "confirm"
  BY DEF Flow
<1>7. Knows(r)
  BY <1>1, <1>2, <1>4, <1>5, <1>6 DEF Knows
<1> QED
  BY <1>1, <1>2, <1>3, <1>7, CalmKeeps DEF Calm, CalmData, Step

--------
(* What the operations of the journal do to its record of the hosts. *)

LEMMA KeptFields ==
  ASSUME InstallAssumption, NEW k \in Kept, NEW on \in {"no", "file", "all"}, NEW b \in HostState, NEW s \in HostState,
         NEW d \in BOOLEAN
  PROVE  /\ [k EXCEPT !.signed = s] \in Kept /\ [k EXCEPT !.signed = s, !.back = d] \in Kept
         /\ NoKept \in Kept
         /\ [NoKept EXCEPT !.on = on, !.before = b, !.signed = s] \in Kept
         /\ [NoKept EXCEPT !.on = on, !.signed = s, !.before = b] \in Kept
BY FreshTyped DEF Kept, NoKept

LEMMA SignAllDoes ==
  ASSUME InstallAssumption, NEW j \in Journal, NEW hs \in [Host -> HostState]
  PROVE  LET t == SignAll(j, hs)
         IN /\ t \in Journal /\ t.status = j.status /\ t.home = j.home /\ t.undo = j.undo
            /\ \A h \in Host : IF j.conf[h].on = "no" THEN t.conf[h] = j.conf[h]
                 ELSE /\ t.conf[h].on = j.conf[h].on /\ t.conf[h].before = j.conf[h].before
                      /\ t.conf[h].signed = hs[h] /\ ~t.conf[h].back
<1> DEFINE c == [h \in Host |-> IF j.conf[h].on = "no" THEN j.conf[h]
                                ELSE [j.conf[h] EXCEPT !.signed = hs[h], !.back = FALSE]]
<1>1. \A h \in Host : j.conf[h] \in Kept
  BY DEF Journal
<1>2. \A h \in Host : [j.conf[h] EXCEPT !.signed = hs[h], !.back = FALSE] \in Kept
  BY <1>1, KeptFields
<1>3. c \in [Host -> Kept]
  BY <1>1, <1>2
<1>4. \A h \in Host : j.conf[h].on # "no" =>
        /\ c[h].on = j.conf[h].on /\ c[h].before = j.conf[h].before /\ c[h].signed = hs[h] /\ ~c[h].back
  BY <1>1 DEF Kept
<1>5. \A h \in Host : j.conf[h].on = "no" => c[h] = j.conf[h]
  OBVIOUS
<1>6. SignAll(j, hs) = [j EXCEPT !.conf = c]
  BY DEF SignAll
<1> HIDE DEF c
<1> QED
  BY <1>3, <1>4, <1>5, <1>6 DEF Journal

LEMMA QueueDoes ==
  ASSUME NEW j \in Journal, NEW c \in Command
  PROVE  LET t == Queue(j, c)
         IN /\ t \in Journal /\ t.status = j.status /\ t.home = j.home /\ t.conf = j.conf
            /\ Len(t.undo) = Len(j.undo) + 1
<1> DEFINE e == [cmd |-> c, state |-> "ready"]
           u == Append(j.undo, e)
<1>1. e \in Undo
  BY DEF Undo
<1>2. j.undo \in Seq(Undo)
  BY DEF Journal
<1>3. u \in Seq(Undo) /\ Len(u) = Len(j.undo) + 1
  BY <1>1, <1>2
<1>4. Queue(j, c) = [j EXCEPT !.undo = u]
  BY DEF Queue
<1> HIDE DEF u
<1> QED
  BY <1>3, <1>4 DEF Journal

LEMMA PutDoes ==
  ASSUME TypeOK, NEW j \in Journal, NEW x \in Place, NEW t \in Text
  PROVE  LET q == Put(j, x, t)
         IN q \in Journal /\ q.status = j.status /\ q.home = j.home /\ q.conf = j.conf /\ q.undo = j.undo
<1> DEFINE e == [on |-> TRUE, signed |-> t, before |-> IF j.text[x].on THEN j.text[x].before ELSE place[x]]
<1>1. e \in KeptText
  BY DEF KeptText, Journal, TypeOK
<1>2. Put(j, x, t) = [j EXCEPT !.text = [j.text EXCEPT ![x] = e]]
  BY DEF Put, Journal
<1> HIDE DEF e
<1> QED
  BY <1>1, <1>2 DEF Journal

--------
(* A native command. *)

LEMMA CommandTyped ==
  ASSUME InstallAssumption, NEW h \in Host, NEW src \in Source,
         NEW op \in {"market add", "market remove", "plugin add", "plugin remove", "select"}
  PROVE  Cmd(op, h, src) \in Command /\ Cmd(op, h, src).host = h
BY DEF Cmd, Command

LEMMA OneHost ==
  ASSUME TypeOK, NEW h \in Host, NEW s \in HostState, s.file.sec = host[h].file.sec,
         host' = [host EXCEPT ![h] = s]
  PROVE  host' \in [Host -> HostState] /\ \A g \in Host : host'[g].file.sec = host[g].file.sec
BY DEF TypeOK

LEMMA Spent ==
  ASSUME TypeOK, NEW c \in Nat, Spend(c) \/ Unspent
  PROVE  used' \in [ops : Nat, edits : Nat, upsets : Nat]
BY DEF TypeOK, Spend, Unspent

LEMMA Queued ==
  ASSUME NEW j \in Journal, NEW u, u = <<>> \/ \E c \in Command : u = <<c>>
  PROVE  LET t == IF u = <<>> THEN j ELSE Queue(j, u[1])
         IN /\ t \in Journal /\ t.status = j.status /\ t.home = j.home /\ t.conf = j.conf
            /\ Len(t.undo) \in Nat
<1>1. CASE u = <<>>
  BY <1>1 DEF Journal
<1>2. ASSUME NEW c \in Command, u = <<c>> PROVE u # <<>> /\ u[1] = c
  BY <1>2
<1>3. ASSUME NEW c \in Command
      PROVE  /\ Queue(j, c) \in Journal /\ Queue(j, c).status = j.status /\ Queue(j, c).home = j.home
             /\ Queue(j, c).conf = j.conf /\ Len(Queue(j, c).undo) \in Nat
  BY <1>3, QueueDoes DEF Journal
<1> QED
  BY <1>1, <1>2, <1>3

\* Signing again after a command tells no lie about the settings: nobody changed them.
LEMMA SignedCalm ==
  ASSUME InstallAssumption, TypeInv, NEW p \in Proc, Running(p), NEW j \in Journal, ~Conflict(Now),
         j.conf = Now.conf, j.status = Now.status, j.home = Now.home,
         host' \in [Host -> HostState], \A h \in Host : host'[h].file.sec = host[h].file.sec,
         journals' = [journals EXCEPT ![Last] = SignAll(j, host')],
         used' \in [ops : Nat, edits : Nat, upsets : Nat], UNCHANGED <<place, home, ghosts>>
  PROVE  CalmData(SignAll(j, host')) /\ SignAll(j, host').undo = j.undo
<1>1. Now \in Journal /\ TypeOK
  BY RunFacts
<1>2. ASSUME NEW h \in Host, Now.conf[h].on # "no" PROVE Now.conf[h].signed.file.sec = host[h].file.sec
  BY <1>2 DEF Conflict, Same, SameFile
<1>3. ASSUME NEW h \in Host PROVE CalmConf(Now.conf[h], SignAll(j, host').conf[h], h)
  BY <1>2, SignAllDoes DEF CalmConf
<1> QED
  BY <1>1, <1>3, SignAllDoes DEF CalmData, TypeOK, ghosts

\* A native command, journalled and signed, whatever comes of it.
Steers(p, c, undo, next) == External(p, c, undo, next) \/ DiesRunning(p, c, undo)

LEMMA CommandCalm ==
  ASSUME InstallAssumption, SettingsInv, NEW p \in Proc, NEW c \in Command, NEW next \in Steps,
         NEW u, u = <<>> \/ \E d \in Command : u = <<d>>,
         <<proc[p].stage, next>> \in Flow, External(p, c, u, next) \/ DiesRunning(p, c, u)
  PROVE  SettingsInv'
<1>1. Running(p) /\ TypeInv
  BY DEF Flow, Running, SettingsInv
<1>2. TypeOK /\ Now \in Journal /\ proc[p] \in Request /\ c.host \in Host /\ journals # <<>>
  BY <1>1, RunFacts DEF Command
<1> DEFINE j == IF u = <<>> THEN Now ELSE Queue(Now, u[1])
<1>3. j \in Journal /\ j.status = Now.status /\ j.home = Now.home /\ j.conf = Now.conf /\ Len(j.undo) \in Nat
  BY <1>2, Queued
<1>4. CASE External(p, c, u, next) /\ Conflict(Now)
  <2>1. proc' = [proc EXCEPT ![p] = Aborted(p, Len(Now.undo))]
    BY <1>4 DEF External, Abort, Aborted
  <2>2. CalmData(Now)
    BY <1>1, <1>2, <1>4, SameData DEF External, Unspent, TypeOK
  <2> QED
    BY <1>1, <2>1, <2>2, CalmEnds
<1>5. ASSUME ~Conflict(Now), NEW o \in Outcomes(c), host' = [host EXCEPT ![c.host] = o.s],
             Save(SignAll(j, host')), Spend(o.cost), UNCHANGED <<place, home, ghosts>>,
             \/ o.ok /\ Go(p, next)
             \/ proc' = [proc EXCEPT ![p].stage = "undo", ![p].k = Len(j.undo), ![p].bad = FALSE]
      PROVE SettingsInv'
  <2>1. o.s \in HostState /\ o.s.file.sec = host[c.host].file.sec /\ o.cost \in Nat
    BY <1>2, OutcomesTyped
  <2>2. host' \in [Host -> HostState] /\ \A h \in Host : host'[h].file.sec = host[h].file.sec
    BY <1>2, <1>5, <2>1, OneHost
  <2>3. used' \in [ops : Nat, edits : Nat, upsets : Nat]
    BY <1>2, <1>5, <2>1, Spent
  <2> DEFINE t == SignAll(j, host')
  <2>4. CalmData(t) /\ t.undo = j.undo
    BY <1>1, <1>3, <1>5, <2>2, <2>3, SignedCalm DEF Save
  <2> HIDE DEF t
  <2>5. CASE Go(p, next)
    <3> DEFINE r == [proc[p] EXCEPT !.stage = next]
    <3>1. r \in Request /\ r.stage = next /\ r.op = proc[p].op /\ r.hosts = proc[p].hosts /\ r.ver = proc[p].ver
          /\ r.old = proc[p].old /\ r.cur = proc[p].cur /\ r.left = proc[p].left /\ r.refresh = proc[p].refresh
      BY <1>2, Moves DEF Stage
    <3>2. proc' = [proc EXCEPT ![p] = r]
      BY <2>5 DEF Go
    <3> HIDE DEF r
    <3> QED
      BY <2>4, <3>1, <3>2, CalmGoes
  <2>6. CASE proc' = [proc EXCEPT ![p].stage = "undo", ![p].k = Len(j.undo), ![p].bad = FALSE]
    <3>1. proc' = [proc EXCEPT ![p] = Aborted(p, Len(t.undo))]
      BY <2>4, <2>6 DEF Aborted
    <3> QED
      BY <1>1, <2>4, <3>1, CalmEnds
  <2> QED
    BY <1>5, <2>5, <2>6
<1>6. CASE External(p, c, u, next) /\ ~Conflict(Now)
  <2>1. PICK o \in Outcomes(c) :
          LET after == [host EXCEPT ![c.host] = o.s]
          IN /\ host' = after
             /\ Save(SignAll(j, after))
             /\ IF o.ok THEN Go(p, next)
                ELSE proc' = [proc EXCEPT ![p].stage = "undo", ![p].k = Len(j.undo), ![p].bad = FALSE]
             /\ Spend(o.cost)
    BY <1>6 DEF External
  <2>2. UNCHANGED <<place, home, ghosts>>
    BY <1>6 DEF External
  <2> HIDE DEF j
  <2> QED
    BY <1>5, <1>6, <2>1, <2>2
<1>7. CASE DiesRunning(p, c, u)
  <2>1. host[c.host] \in HostState
    BY <1>2 DEF TypeOK
  <2>2. PICK s \in {host[c.host], Effect(c, host[c.host])} : host' = [host EXCEPT ![c.host] = s]
    BY <1>7 DEF DiesRunning
  <2>3. s \in HostState /\ s.file.sec = host[c.host].file.sec
    BY <2>1, <2>2, Effects
  <2>4. host' \in [Host -> HostState] /\ \A h \in Host : host'[h].file.sec = host[h].file.sec
    BY <1>2, <2>2, <2>3, OneHost
  <2>5. used' \in [ops : Nat, edits : Nat, upsets : Nat]
    BY <1>2, <1>7, Spent DEF DiesRunning
  <2>6. journals' = [journals EXCEPT ![Last] = j] /\ UNCHANGED <<place, home, ghosts>>
    BY <1>7 DEF DiesRunning, Save
  <2>7. \A h \in Host : CalmConf(Now.conf[h], j.conf[h], h)
    BY <1>3 DEF CalmConf
  <2> HIDE DEF j
  <2>8. CalmData(j)
    BY <1>2, <1>3, <2>4, <2>5, <2>6, <2>7 DEF CalmData, TypeOK, ghosts
  <2>9. proc' = [proc EXCEPT ![p] = Idle]
    BY <1>7 DEF DiesRunning, Leave
  <2> QED
    BY <1>1, <2>8, <2>9, CalmEnds
<1> QED
  BY <1>4, <1>6, <1>7

--------
(* The stages that leave settings and records alone. *)

LEMMA GoesOn ==
  ASSUME InstallAssumption, SettingsInv, NEW p \in Proc, NEW j, CalmData(j), NEW next \in Steps,
         <<proc[p].stage, next>> \in Flow, Go(p, next)
  PROVE  SettingsInv'
<1> DEFINE r == [proc[p] EXCEPT !.stage = next]
<1>1. proc[p] \in Request
  BY DEF SettingsInv, TypeInv, TypeOK
<1>2. r \in Request /\ r.stage = next /\ r.op = proc[p].op /\ r.hosts = proc[p].hosts /\ r.ver = proc[p].ver
      /\ r.old = proc[p].old /\ r.cur = proc[p].cur /\ r.left = proc[p].left /\ r.refresh = proc[p].refresh
  BY <1>1, Moves DEF Stage
<1>3. proc' = [proc EXCEPT ![p] = r]
  BY DEF Go
<1> HIDE DEF r
<1> QED
  BY <1>2, <1>3, CalmGoes

LEMMA StopsHere ==
  ASSUME InstallAssumption, SettingsInv, NEW p \in Proc, Running(p), NEW j, CalmData(j), j.undo = Now.undo,
         Abort(p) \/ Leave(p)
  PROVE  SettingsInv'
<1>1. Abort(p) => proc' = [proc EXCEPT ![p] = Aborted(p, Len(j.undo))]
  BY DEF Abort, Aborted
<1>2. Leave(p) => proc' = [proc EXCEPT ![p] = Idle]
  BY DEF Leave
<1> QED
  BY <1>1, <1>2, CalmEnds

\* Nothing but the command changes, and perhaps what it has used up.
LEMMA Skips ==
  ASSUME InstallAssumption, SettingsInv, NEW p \in Proc, Running(p),
         UNCHANGED <<host, place, home, journals, ghosts>>, Unspent \/ \E c \in Nat : Spend(c),
         \/ Abort(p) \/ Leave(p)
         \/ \E next \in Steps : <<proc[p].stage, next>> \in Flow /\ Go(p, next)
  PROVE  SettingsInv'
<1>1. TypeInv /\ TypeOK
  BY DEF SettingsInv, TypeInv
<1>2. used' \in [ops : Nat, edits : Nat, upsets : Nat]
  <2>1. CASE Unspent
    BY <1>1, <2>1 DEF Unspent, TypeOK
  <2>2. ASSUME NEW c \in Nat, Spend(c) PROVE used' \in [ops : Nat, edits : Nat, upsets : Nat]
    BY <1>1, <2>2, Spent
  <2> QED
    BY <2>1, <2>2
<1>3. CalmData(Now)
  BY <1>1, <1>2, SameData
<1> QED
  BY <1>3, GoesOn, StopsHere

LEMMA WriteFilesKeeps == ASSUME InstallAssumption, SettingsInv, NEW p \in Proc, WriteFiles(p) PROVE SettingsInv'
<1>1. Running(p) /\ TypeInv /\ proc[p].stage = "files"
  BY DEF WriteFiles, Running, SettingsInv
<1>2. TypeOK /\ Now \in Journal /\ proc[p] \in Request /\ Standing(proc[p], Now) /\ Launcher \in Place
  BY <1>1, RunFacts DEF InstallAssumption
<1>3. CASE ~MayWriteLauncher(p)
  <2>1. CalmData(Now) /\ Abort(p)
    BY <1>1, <1>2, <1>3, SameData DEF WriteFiles, TypeOK
  <2> QED
    BY <1>1, <2>1, StopsHere
<1>4. CASE MayWriteLauncher(p)
  <2> DEFINE j == Put(Now, Launcher, "text")
  <2>1. j \in Journal /\ j.status = Now.status /\ j.home = Now.home /\ j.conf = Now.conf /\ j.undo = Now.undo
    BY <1>2, PutDoes DEF Text
  <2>2. journals' = [journals EXCEPT ![Last] = j] /\ place' = [place EXCEPT ![Launcher] = "text"]
        /\ home' = [home EXCEPT !.current = proc[p].ver, !.runtimes = @ \union {proc[p].ver}] /\ Go(p, "track")
        /\ UNCHANGED <<host, used, ghosts>>
    BY <1>4 DEF WriteFiles, Save
  <2> HIDE DEF j
  <2>3. proc[p].ver \in Version /\ proc[p].ver \in 0..MaxVersion
    BY <1>1, <1>2, Bounds DEF Standing, Tracking, Steps, Request
  <2>4. home' \in Home /\ home'.rec = home.rec /\ place' \in [Place -> Text]
    BY <1>2, <2>2, <2>3 DEF TypeOK, Home, Text
  <2>5. \A h \in Host : CalmConf(Now.conf[h], j.conf[h], h)
    BY <2>1 DEF CalmConf
  <2>6. CalmData(j)
    BY <1>2, <2>1, <2>2, <2>4, <2>5 DEF CalmData, TypeOK, ghosts
  <2>7. <<proc[p].stage, "track">> \in Flow /\ "track" \in Steps
    BY <1>1 DEF Flow, Steps
  <2> QED
    BY <2>2, <2>6, <2>7, GoesOn
<1> QED
  BY <1>3, <1>4

LEMMA RecordInstallKeeps == ASSUME InstallAssumption, SettingsInv, NEW p \in Proc, RecordInstall(p) PROVE SettingsInv'
<1>1. Running(p) /\ TypeInv /\ proc[p].stage = "record"
  BY DEF RecordInstall, Running, SettingsInv
<1>2. TypeOK /\ Now \in Journal /\ proc[p] \in Request /\ journals # <<>> /\ Pointer \in Place
  BY <1>1, RunFacts DEF InstallAssumption
<1> DEFINE j == IF proc[p].ptr.write THEN Put(Now, Pointer, "text") ELSE Now
<1>3. j \in Journal /\ j.status = Now.status /\ j.home = Now.home /\ j.conf = Now.conf
  BY <1>2, PutDoes DEF Text
<1>4. journals' = [journals EXCEPT ![Last] = j]
  BY <1>2 DEF RecordInstall, Save, TypeOK, Now
<1>5. place' \in [Place -> Text]
  BY <1>2 DEF RecordInstall, TypeOK, Text
<1>6. home' \in Home /\ home'.rec = home.rec
  <2> DEFINE src == [h \in Host |-> IF h \in proc[p].hosts THEN proc[p].src[h] ELSE home.src[h]]
             path == [h \in Host |-> IF h \in proc[p].hosts THEN proc[p].ver ELSE home.path[h]]
             hosts == proc[p].old.hosts \union proc[p].hosts
  <2>1. home' = [home EXCEPT !.version = proc[p].ver, !.hosts = hosts, !.ptr = proc[p].ptr.owned, !.src = src, !.path = path]
    BY DEF RecordInstall
  <2>2. src \in [Host -> Source] /\ path \in [Host -> 0..MaxVersion] /\ hosts \in SUBSET Host
        /\ proc[p].ver \in 0..MaxVersion /\ proc[p].ptr.owned \in BOOLEAN /\ home \in Home
    BY <1>2 DEF TypeOK, Request, Home
  <2> HIDE DEF src, path, hosts
  <2> QED
    BY <2>1, <2>2 DEF Home
<1>7. \A h \in Host : CalmConf(Now.conf[h], j.conf[h], h)
  BY <1>3 DEF CalmConf
<1> HIDE DEF j
<1>8. CalmData(j)
  BY <1>2, <1>3, <1>4, <1>5, <1>6, <1>7 DEF CalmData, TypeOK, RecordInstall, ghosts
<1>9. <<proc[p].stage, "commit">> \in Flow /\ "commit" \in Steps /\ Go(p, "commit")
  BY <1>1 DEF Flow, Steps, RecordInstall
<1> QED
  BY <1>8, <1>9, GoesOn

LEMMA ForgetKeeps == ASSUME InstallAssumption, SettingsInv, NEW p \in Proc, Forget(p) PROVE SettingsInv'
<1>1. Running(p) /\ TypeInv /\ proc[p].stage = "forget"
  BY DEF Forget, Running, SettingsInv
<1>2. TypeOK /\ Now \in Journal /\ proc[p] \in Request /\ journals # <<>>
  BY <1>1, RunFacts
<1> DEFINE left == Remaining(proc[p])
           clear == {Launcher} \union (IF home.ptr THEN {Pointer} ELSE {})
           src == [h \in Host |-> IF h \in left THEN home.src[h] ELSE NoSource]
           path == [h \in Host |-> IF h \in left THEN home.path[h] ELSE 0]
           gone == [home EXCEPT !.hosts = left, !.src = src, !.path = path]
           text == [x \in Place |-> IF x \in clear /\ place[x] # "absent"
                      THEN [on |-> TRUE, before |-> place[x], signed |-> "absent"] ELSE Now.text[x]]
           j == IF left # {} THEN Now ELSE [Now EXCEPT !.text = text]
<1>3. home' = IF left # {} THEN gone ELSE [gone EXCEPT !.current = 0, !.runtimes = {}]
  BY DEF Forget
<1>4. journals' = [journals EXCEPT ![Last] = j]
  BY <1>2 DEF Forget, Save, TypeOK, Now
<1>5. place' \in [Place -> Text]
  BY <1>2 DEF Forget, TypeOK, Text
<1>6. home' \in Home /\ home'.rec = home.rec
  <2>1. src \in [Host -> Source] /\ path \in [Host -> 0..MaxVersion] /\ left \in SUBSET Host /\ home \in Home
        /\ 0 \in 0..MaxVersion
    BY <1>2, Bounds DEF TypeOK, Home, Remaining
  <2> HIDE DEF src, path, left
  <2>2. gone \in Home /\ gone.rec = home.rec
    BY <2>1 DEF Home
  <2> HIDE DEF gone
  <2> QED
    BY <1>3, <2>1, <2>2 DEF Home
<1>7. j \in Journal /\ j.status = Now.status /\ j.home = Now.home /\ j.conf = Now.conf
  <2>1. text \in [Place -> KeptText]
    BY <1>2 DEF TypeOK, Journal, KeptText, Text
  <2> HIDE DEF text
  <2> QED
    BY <1>2, <2>1 DEF Journal
<1>8. \A h \in Host : CalmConf(Now.conf[h], j.conf[h], h)
  BY <1>7 DEF CalmConf
<1> HIDE DEF j
<1>9. CalmData(j)
  BY <1>2, <1>4, <1>5, <1>6, <1>7, <1>8 DEF CalmData, TypeOK, Forget, ghosts
<1>10. <<proc[p].stage, "commit">> \in Flow /\ "commit" \in Steps /\ Go(p, "commit")
  BY <1>1 DEF Flow, Steps, Forget
<1> QED
  BY <1>9, <1>10, GoesOn

LEMMA FailsKeep == ASSUME InstallAssumption, SettingsInv, NEW p \in Proc, Fail(p) \/ Crash(p) PROVE SettingsInv'
<1>1. Running(p) /\ 1 \in Nat
  BY DEF Fail, Crash, Running, Steps
<1>2. UNCHANGED <<host, place, home, journals, ghosts>> /\ Spend(1) /\ (Abort(p) \/ Leave(p))
  BY DEF Fail, Crash
<1> QED
  BY <1>1, <1>2, Skips

\* The host a command works on, and what it knows of it.
LEMMA AtHost ==
  ASSUME InstallAssumption, SettingsInv, NEW p \in Proc, proc[p].stage \in InHost
  PROVE  /\ Running(p) /\ TypeInv /\ TypeOK /\ Now \in Journal /\ proc[p] \in Request /\ journals # <<>>
         /\ proc[p].cur \in Host /\ proc[p].cur \in proc[p].hosts /\ host[proc[p].cur] \in HostState
         /\ (proc[p].op # "uninstall" => proc[p].ver \in Version /\ proc[p].ver \in 0..MaxVersion)
         /\ Standing(proc[p], Now) /\ Knows(proc[p])
<1>1. Running(p) /\ Going(p) /\ proc[p].stage \in Steps
  BY DEF Running, Going, Steps, InHost, Installing, Uninstalling
<1>2. /\ TypeInv /\ TypeOK /\ Now \in Journal /\ proc[p] \in Request /\ journals # <<>>
      /\ Standing(proc[p], Now) /\ Knows(proc[p])
  BY <1>1, RunFacts DEF SettingsInv
<1>3. proc[p].cur \in proc[p].hosts /\ proc[p].hosts \subseteq Host
  BY <1>2 DEF Standing, Request
<1>4. proc[p].op # "uninstall" => proc[p].ver \in Version
  BY <1>1, <1>2 DEF Standing
<1>5. host[proc[p].cur] \in HostState
  BY <1>2, <1>3 DEF TypeOK
<1> QED
  BY <1>1, <1>2, <1>3, <1>4, <1>5, Bounds

\* A stage that runs its command, or finds that there is none to run.
LEMMA CommandOrNot ==
  ASSUME InstallAssumption, SettingsInv, NEW p \in Proc, NEW next \in Steps,
         proc[p].stage \in InHost, <<proc[p].stage, next>> \in Flow,
         NEW op \in {"market add", "market remove", "plugin add", "plugin remove", "select"},
         NEW src \in Source, NEW u, u = <<>> \/ \E d \in Command : u = <<d>>,
         \/ External(p, Cmd(op, proc[p].cur, src), u, next)
         \/ DiesRunning(p, Cmd(op, proc[p].cur, src), u)
         \/ Go(p, next) /\ UNCHANGED <<host, place, home, journals, used, ghosts>>
  PROVE  SettingsInv'
<1>1. Running(p) /\ proc[p].cur \in Host
  BY AtHost
<1>2. Cmd(op, proc[p].cur, src) \in Command
  BY <1>1, CommandTyped
<1>3. CASE Go(p, next) /\ UNCHANGED <<host, place, home, journals, used, ghosts>>
  BY <1>1, <1>3, Skips DEF Unspent
<1>4. CASE External(p, Cmd(op, proc[p].cur, src), u, next) \/ DiesRunning(p, Cmd(op, proc[p].cur, src), u)
  BY <1>2, <1>4, CommandCalm
<1> QED
  BY <1>3, <1>4

LEMMA RemoveMarketKeeps == ASSUME InstallAssumption, SettingsInv, NEW p \in Proc, RemoveMarket(p) PROVE SettingsInv'
<1>1. proc[p].stage = "remove" /\ proc[p].stage \in InHost /\ <<proc[p].stage, "add">> \in Flow /\ "add" \in Steps
  BY DEF RemoveMarket, InHost, Installing, Flow, Steps
<1>2. proc[p] \in Request /\ proc[p].cur \in Host
  BY <1>1, AtHost
<1> DEFINE src == IF proc[p].restart THEN Dir(proc[p].old.version) ELSE proc[p].inv[proc[p].cur].market
           u == <<Cmd("market add", proc[p].cur, src)>>
<1>3. src \in Source
  BY <1>2 DEF Request, Home, Inventory, Dir, Source
<1>4. Cmd("market add", proc[p].cur, src) \in Command /\ NoSource \in Source
  BY <1>2, <1>3, CommandTyped, Bounds
<1>5. \E d \in Command : u = <<d>>
  BY <1>4
<1>6. \/ External(p, Cmd("market remove", proc[p].cur, NoSource), u, "add")
      \/ DiesRunning(p, Cmd("market remove", proc[p].cur, NoSource), u)
      \/ Go(p, "add") /\ UNCHANGED <<host, place, home, journals, used, ghosts>>
  BY DEF RemoveMarket
<1> HIDE DEF u
<1> QED
  BY <1>1, <1>4, <1>5, <1>6, CommandOrNot

LEMMA AddMarketKeeps == ASSUME InstallAssumption, SettingsInv, NEW p \in Proc, AddMarket(p) PROVE SettingsInv'
<1>1. proc[p].stage = "add" /\ proc[p].stage \in InHost /\ <<proc[p].stage, "drop">> \in Flow /\ "drop" \in Steps
  BY DEF AddMarket, InHost, Installing, Flow, Steps
<1>2. proc[p] \in Request /\ proc[p].cur \in Host
  BY <1>1, AtHost
<1> DEFINE src == IF proc[p].local THEN Dir(proc[p].ver) ELSE Tag(proc[p].ver)
           u == <<Cmd("market remove", proc[p].cur, NoSource)>>
<1>3. src \in Source
  BY <1>2 DEF Request, Dir, Tag, Source
<1>4. Cmd("market remove", proc[p].cur, NoSource) \in Command
  BY <1>2, CommandTyped, Bounds
<1>5. \E d \in Command : u = <<d>>
  BY <1>4
<1>6. \/ External(p, Cmd("market add", proc[p].cur, src), u, "drop")
      \/ DiesRunning(p, Cmd("market add", proc[p].cur, src), u)
      \/ Go(p, "drop") /\ UNCHANGED <<host, place, home, journals, used, ghosts>>
  BY DEF AddMarket
<1> HIDE DEF u, src
<1> QED
  BY <1>1, <1>3, <1>5, <1>6, CommandOrNot

LEMMA DropDisabledKeeps == ASSUME InstallAssumption, SettingsInv, NEW p \in Proc, DropDisabled(p) PROVE SettingsInv'
<1>1. proc[p].stage = "drop" /\ proc[p].stage \in InHost /\ <<proc[p].stage, "plug">> \in Flow /\ "plug" \in Steps
  BY DEF DropDisabled, InHost, Installing, Flow, Steps
<1>2. proc[p] \in Request /\ proc[p].cur \in Host
  BY <1>1, AtHost
<1> DEFINE u == <<Cmd("plugin add", proc[p].cur, NoSource)>>
<1>4. Cmd("plugin add", proc[p].cur, NoSource) \in Command /\ NoSource \in Source
  BY <1>2, CommandTyped, Bounds
<1>5. \E d \in Command : u = <<d>>
  BY <1>4
<1>6. \/ External(p, Cmd("plugin remove", proc[p].cur, NoSource), u, "plug")
      \/ DiesRunning(p, Cmd("plugin remove", proc[p].cur, NoSource), u)
      \/ Go(p, "plug") /\ UNCHANGED <<host, place, home, journals, used, ghosts>>
  BY DEF DropDisabled
<1> HIDE DEF u
<1> QED
  BY <1>1, <1>4, <1>5, <1>6, CommandOrNot

LEMMA AddPluginKeeps == ASSUME InstallAssumption, SettingsInv, NEW p \in Proc, AddPlugin(p) PROVE SettingsInv'
<1>1. proc[p].stage = "plug" /\ proc[p].stage \in InHost /\ <<proc[p].stage, "verify">> \in Flow /\ "verify" \in Steps
  BY DEF AddPlugin, InHost, Installing, Flow, Steps
<1>2. proc[p] \in Request /\ proc[p].cur \in Host
  BY <1>1, AtHost
<1> DEFINE w == <<Cmd("plugin remove", proc[p].cur, NoSource)>>
           u == IF Live(proc[p], proc[p].cur) /\ proc[p].cur \notin DirHosts THEN <<>> ELSE w
<1>4. Cmd("plugin remove", proc[p].cur, NoSource) \in Command /\ NoSource \in Source
  BY <1>2, CommandTyped, Bounds
<1>5. u = <<>> \/ \E d \in Command : u = <<d>>
  BY <1>4
<1>6. \/ External(p, Cmd("plugin add", proc[p].cur, NoSource), u, "verify")
      \/ DiesRunning(p, Cmd("plugin add", proc[p].cur, NoSource), u)
      \/ Go(p, "verify") /\ UNCHANGED <<host, place, home, journals, used, ghosts>>
  BY DEF AddPlugin
<1> HIDE DEF u
<1> QED
  BY <1>1, <1>4, <1>5, <1>6, CommandOrNot

LEMMA RemovePluginKeeps == ASSUME InstallAssumption, SettingsInv, NEW p \in Proc, RemovePlugin(p) PROVE SettingsInv'
<1>1. proc[p].stage = "unplug" /\ proc[p].stage \in InHost /\ <<proc[p].stage, "unmarket">> \in Flow /\ "unmarket" \in Steps
  BY DEF RemovePlugin, InHost, Uninstalling, Flow, Steps
<1>2. proc[p] \in Request /\ proc[p].cur \in Host
  BY <1>1, AtHost
<1> DEFINE u == <<Cmd("plugin add", proc[p].cur, NoSource)>>
<1>4. Cmd("plugin add", proc[p].cur, NoSource) \in Command /\ NoSource \in Source
  BY <1>2, CommandTyped, Bounds
<1>5. \E d \in Command : u = <<d>>
  BY <1>4
<1>6. \/ External(p, Cmd("plugin remove", proc[p].cur, NoSource), u, "unmarket")
      \/ DiesRunning(p, Cmd("plugin remove", proc[p].cur, NoSource), u)
      \/ Go(p, "unmarket") /\ UNCHANGED <<host, place, home, journals, used, ghosts>>
  BY DEF RemovePlugin
<1> HIDE DEF u
<1> QED
  BY <1>1, <1>4, <1>5, <1>6, CommandOrNot

LEMMA RemoveOwnedMarketKeeps ==
  ASSUME InstallAssumption, SettingsInv, NEW p \in Proc, RemoveOwnedMarket(p)
  PROVE  SettingsInv'
<1>1. proc[p].stage = "unmarket" /\ proc[p].stage \in InHost /\ <<proc[p].stage, "gone">> \in Flow /\ "gone" \in Steps
  BY DEF RemoveOwnedMarket, InHost, Uninstalling, Flow, Steps
<1>2. proc[p] \in Request /\ proc[p].cur \in Host
  BY <1>1, AtHost
<1> DEFINE u == <<Cmd("market add", proc[p].cur, Tag(proc[p].old.version))>>
<1>3. Tag(proc[p].old.version) \in Source
  BY <1>2 DEF Request, Home, Tag, Source
<1>4. Cmd("market add", proc[p].cur, Tag(proc[p].old.version)) \in Command /\ NoSource \in Source
  BY <1>2, <1>3, CommandTyped, Bounds
<1>5. \E d \in Command : u = <<d>>
  BY <1>4
<1>6. \/ External(p, Cmd("market remove", proc[p].cur, NoSource), u, "gone")
      \/ DiesRunning(p, Cmd("market remove", proc[p].cur, NoSource), u)
      \/ Go(p, "gone") /\ UNCHANGED <<host, place, home, journals, used, ghosts>>
  BY DEF RemoveOwnedMarket
<1> HIDE DEF u
<1> QED
  BY <1>1, <1>4, <1>5, <1>6, CommandOrNot

LEMMA VerifyKeeps == ASSUME InstallAssumption, SettingsInv, NEW p \in Proc, Verify(p) PROVE SettingsInv'
<1>1. proc[p].stage = "verify" /\ proc[p].stage \in InHost /\ UNCHANGED <<host, place, home, journals, used, ghosts>>
  BY DEF Verify, InHost, Installing
<1>2. Running(p) /\ TypeInv /\ TypeOK /\ proc[p] \in Request /\ proc[p].cur \in Host /\ host[proc[p].cur] \in HostState
  BY <1>1, AtHost
<1>3. CASE Abort(p)
  BY <1>1, <1>2, <1>3, Skips DEF Unspent
<1>4. CASE ~Abort(p)
  <2> DEFINE m == Inv(proc[p].cur, host[proc[p].cur]).market
             r == [proc[p] EXCEPT !.stage = "host", !.src[proc[p].cur] = m]
  <2>1. m \in Source
    BY <1>2, ListedTyped DEF Inventory
  <2>2. proc' = [proc EXCEPT ![p] = r]
    BY <1>4 DEF Verify
  <2> HIDE DEF m
  <2>3. r \in Request /\ r.stage = "host" /\ r.op = proc[p].op /\ r.hosts = proc[p].hosts /\ r.ver = proc[p].ver
        /\ r.old = proc[p].old /\ r.cur = proc[p].cur /\ r.left = proc[p].left /\ r.refresh = proc[p].refresh
    BY <1>2, <2>1 DEF Request, Stage, Steps
  <2> HIDE DEF r
  <2>4. CalmData(Now)
    BY <1>1, <1>2, SameData DEF TypeOK
  <2> QED
    BY <1>1, <2>2, <2>3, <2>4, CalmGoes DEF Flow
<1> QED
  BY <1>3, <1>4

LEMMA SwitchCacheKeeps == ASSUME InstallAssumption, SettingsInv, NEW p \in Proc, SwitchCache(p) PROVE SettingsInv'
<1>1. proc[p].stage = "select" /\ proc[p].stage \in InHost /\ UNCHANGED <<place, home, journals, ghosts>>
  BY DEF SwitchCache, InHost, Installing
<1> DEFINE h == proc[p].cur
<1>2. Running(p) /\ TypeInv /\ TypeOK /\ proc[p] \in Request /\ h \in Host /\ host[h] \in HostState /\ Now \in Journal
      /\ journals # <<>>
  BY <1>1, AtHost
<1>3. CASE Abort(p) /\ UNCHANGED <<host, used>>
  BY <1>1, <1>2, <1>3, Skips DEF Unspent
<1>4. ASSUME NEW S \in SUBSET Others(host[h], proc[p].ver),
             host' = [host EXCEPT ![h] = Switched(@, proc[p].ver, S)],
             \/ Go(p, "remove") /\ Unspent
             \/ Spend(1) /\ (Abort(p) \/ Leave(p))
      PROVE SettingsInv'
  <2> DEFINE s == Switched(host[h], proc[p].ver, S)
  <2>1. s \in HostState /\ s.file.sec = host[h].file.sec
    BY <1>2 DEF Switched, Selected, HostState
  <2>2. host' = [host EXCEPT ![h] = s]
    BY <1>4
  <2> HIDE DEF s
  <2>3. host' \in [Host -> HostState] /\ \A g \in Host : host'[g].file.sec = host[g].file.sec
    BY <1>2, <2>1, <2>2, OneHost
  <2>4. used' \in [ops : Nat, edits : Nat, upsets : Nat]
    BY <1>2, <1>4, Spent
  <2>5. journals' = [journals EXCEPT ![Last] = Now]
    BY <1>1, <1>2 DEF TypeOK, Now
  <2>6. CalmData(Now)
    BY <1>1, <1>2, <2>3, <2>4, <2>5 DEF CalmData, CalmConf, TypeOK, ghosts
  <2>7. <<proc[p].stage, "remove">> \in Flow /\ "remove" \in Steps
    BY <1>1 DEF Flow, Steps
  <2> QED
    BY <1>2, <1>4, <2>6, <2>7, GoesOn, StopsHere
<1> QED
  BY <1>3, <1>4 DEF SwitchCache

LEMMA MetadataIs ==
  ASSUME TypeOK
  PROVE  LET m == Metadata(home)
         IN /\ m.version = home.version /\ m.hosts = home.hosts /\ m.src = home.src
            /\ m.path = home.path /\ m.rec = home.rec /\ m.ptr = home.ptr
BY DEF Metadata, TypeOK, Home

LEMMA ConfirmKeeps == ASSUME InstallAssumption, SettingsInv, NEW p \in Proc, Confirm(p) PROVE SettingsInv'
<1>1. Running(p) /\ Going(p) /\ proc[p].stage = "confirm" /\ UNCHANGED <<host, place, home, journals, used, ghosts>>
  BY DEF Confirm, Running, Going, Steps
<1>2. TypeInv /\ TypeOK /\ Now \in Journal /\ proc[p] \in Request /\ Standing(proc[p], Now) /\ Knows(proc[p])
  BY <1>1, RunFacts DEF SettingsInv
<1>3. CASE ~Confirmed(proc[p])
  BY <1>1, <1>2, <1>3, Skips DEF Confirm, Unspent
<1>4. CASE Confirmed(proc[p])
  <2> DEFINE r == [proc[p] EXCEPT !.left = proc[p].hosts,
                                  !.stage = IF proc[p].op = "uninstall" THEN "host" ELSE "files"]
  <2>1. proc' = [proc EXCEPT ![p] = r]
    BY <1>4 DEF Confirm
  <2>2. r \in Request /\ r.stage = (IF proc[p].op = "uninstall" THEN "host" ELSE "files") /\ r.op = proc[p].op
        /\ r.hosts = proc[p].hosts /\ r.ver = proc[p].ver
        /\ r.old = proc[p].old /\ r.cur = proc[p].cur /\ r.left = proc[p].hosts /\ r.refresh = proc[p].refresh
    BY <1>2 DEF Request, Stage, Steps
  <2> HIDE DEF r
  <2>3. CalmData(Now)
    BY <1>1, <1>2, SameData DEF TypeOK
  <2>4. Standing(r, Now)
    BY <1>1, <1>2, <2>2 DEF Standing, Steps, Tracking, Installing, Uninstalling, InHost
  <2>5. home.rec = Now.home.rec /\ r.old.rec = Now.home.rec
    BY <1>1, <1>2, <1>4, <2>2, MetadataIs DEF Knows, Confirmed
  <2>6. \A h \in Host : Now.conf[h].on = "no"
    BY <1>1, <1>2 DEF Knows, Tracked
  <2>7. Knows(r)
    BY <2>2, <2>5, <2>6 DEF Knows, Tracked, Watched, Tracking, Installing, Uninstalling
  <2> QED
    BY <1>1, <2>1, <2>2, <2>3, <2>4, <2>7, CalmKeeps DEF Calm, CalmData, Step, Steps
<1> QED
  BY <1>3, <1>4

LEMMA NextHostKeeps == ASSUME InstallAssumption, SettingsInv, NEW p \in Proc, NextHost(p) PROVE SettingsInv'
<1>1. Running(p) /\ Going(p) /\ proc[p].stage = "host" /\ UNCHANGED <<host, place, home, journals, used, ghosts>>
  BY DEF NextHost, Running, Going, Steps
<1>2. TypeInv /\ TypeOK /\ Now \in Journal /\ proc[p] \in Request /\ Standing(proc[p], Now) /\ Knows(proc[p])
  BY <1>1, RunFacts DEF SettingsInv
<1>3. CalmData(Now)
  BY <1>1, <1>2, SameData DEF TypeOK
<1>4. ASSUME NEW r \in Request, proc' = [proc EXCEPT ![p] = r], r.op = proc[p].op, r.hosts = proc[p].hosts,
             r.old = proc[p].old, r.refresh = proc[p].refresh, Standing(r, Now),
             r.stage \in {"restore", "prepare", "forget", "settings"}, \A h \in Host : Tracked(r, h)
      PROVE SettingsInv'
  <2>1. \A h \in Host \ window : Watched(r, h)
    BY <1>1, <1>2, <1>4 DEF Knows, Watched, Uninstalling
  <2>2. Knows(r)
    BY <1>1, <1>2, <1>4, <2>1 DEF Knows
  <2> QED
    BY <1>1, <1>3, <1>4, <2>2, CalmKeeps DEF Calm, CalmData, Step, Steps
<1>5. ASSUME NEW h \in proc[p].left,
             proc' = [proc EXCEPT ![p].cur = h, ![p].left = @ \ {h},
                        ![p].stage = IF proc[p].op = "uninstall" THEN "restore" ELSE "prepare"]
      PROVE SettingsInv'
  <2> DEFINE r == [proc[p] EXCEPT !.cur = h, !.left = @ \ {h},
                     !.stage = IF proc[p].op = "uninstall" THEN "restore" ELSE "prepare"]
  <2>1. proc' = [proc EXCEPT ![p] = r]
    BY <1>5
  <2>2. h \in Host /\ h \in proc[p].hosts
    BY <1>2 DEF Request, Standing
  <2>3. r \in Request /\ r.stage = (IF proc[p].op = "uninstall" THEN "restore" ELSE "prepare") /\ r.op = proc[p].op
        /\ r.hosts = proc[p].hosts /\ r.ver = proc[p].ver /\ r.left = proc[p].left \ {h}
        /\ r.old = proc[p].old /\ r.cur = h /\ r.refresh = proc[p].refresh
    BY <1>2, <2>2 DEF Request, Stage, Steps
  <2> HIDE DEF r
  <2>4. Standing(r, Now)
    BY <1>1, <1>2, <2>2, <2>3 DEF Standing, Steps, Tracking, Installing, Uninstalling, InHost
  <2>5. ASSUME NEW g \in Host PROVE Tracked(r, g)
    <3>1. Tracked(proc[p], g)
      BY <1>2 DEF Knows
    <3> QED
      BY <1>1, <2>2, <2>3, <3>1 DEF Tracked, Tracking, Installing, Uninstalling
  <2> QED
    BY <1>4, <2>1, <2>3, <2>4, <2>5
<1>6. ASSUME proc' = [proc EXCEPT ![p].cur = Nobody,
                ![p].stage = IF proc[p].op = "uninstall" THEN "forget" ELSE "settings",
                ![p].left = IF proc[p].secure THEN proc[p].hosts ELSE proc[p].refresh]
      PROVE SettingsInv'
  <2> DEFINE stage == IF proc[p].op = "uninstall" THEN "forget" ELSE "settings"
             left == IF proc[p].secure THEN proc[p].hosts ELSE proc[p].refresh
             r == [proc[p] EXCEPT !.cur = Nobody, !.stage = stage, !.left = left]
  <2>1. proc' = [proc EXCEPT ![p] = r]
    BY <1>6
  <2>2. left \in SUBSET Host /\ left \in {proc[p].hosts, proc[p].refresh} /\ stage \in Stage /\ stage \in {"forget", "settings"}
    BY <1>2 DEF Request, Stage, Steps
  <2> HIDE DEF left
  <2>3. r \in Request /\ r.stage = (IF proc[p].op = "uninstall" THEN "forget" ELSE "settings") /\ r.op = proc[p].op
        /\ r.hosts = proc[p].hosts /\ r.ver = proc[p].ver /\ r.left \in {proc[p].hosts, proc[p].refresh}
        /\ r.old = proc[p].old /\ r.refresh = proc[p].refresh
    BY <1>2, <2>2 DEF Request
  <2> HIDE DEF r
  <2>4. Standing(r, Now)
    BY <1>1, <1>2, <2>3 DEF Standing, Steps, Tracking, Installing, Uninstalling, InHost
  <2>5. ASSUME NEW g \in Host PROVE Tracked(r, g)
    <3>1. Tracked(proc[p], g)
      BY <1>2 DEF Knows
    <3> QED
      BY <1>1, <2>3, <3>1 DEF Tracked, Tracking, Installing, Uninstalling
  <2> QED
    BY <1>4, <2>1, <2>3, <2>4, <2>5
<1> QED
  BY <1>5, <1>6 DEF NextHost

LEMMA PrepareKeeps == ASSUME InstallAssumption, SettingsInv, NEW p \in Proc, Prepare(p) PROVE SettingsInv'
<1>1. /\ proc[p].stage = "prepare" /\ proc[p].stage \in InHost /\ UNCHANGED <<host, place, home, used, ghosts>>
      /\ \A next \in {"select", "remove"} : next \in Steps /\ <<proc[p].stage, next>> \in Flow
  BY DEF Prepare, InHost, Installing, Flow, Steps
<1> DEFINE h == proc[p].cur
<1>2. Running(p) /\ TypeInv /\ TypeOK /\ proc[p] \in Request /\ h \in Host /\ host[h] \in HostState /\ Now \in Journal
      /\ journals # <<>> /\ h \in proc[p].hosts /\ Standing(proc[p], Now) /\ Knows(proc[p])
  BY <1>1, AtHost
<1>3. CASE Abort(p) /\ UNCHANGED journals
  BY <1>1, <1>2, <1>3, Skips DEF Unspent
<1>4. ASSUME NEW next \in {"select", "remove"}, Go(p, next), UNCHANGED journals PROVE SettingsInv'
  BY <1>1, <1>2, <1>4, Skips DEF Unspent
<1>5. ASSUME NEW next \in {"select", "remove"}, Go(p, next), NEW k \in Journal, NEW c \in Command, Save(Queue(k, c)),
             k.status = Now.status, k.home = Now.home, \A g \in Host : CalmConf(Now.conf[g], k.conf[g], g)
      PROVE SettingsInv'
  <2>1. LET t == Queue(k, c) IN t \in Journal /\ t.status = k.status /\ t.home = k.home /\ t.conf = k.conf
    BY QueueDoes
  <2>2. CalmData(Queue(k, c))
    BY <1>1, <1>2, <1>5, <2>1 DEF CalmData, TypeOK, Save, ghosts
  <2> QED
    BY <1>1, <1>5, <2>2, GoesOn
<1>6. \A g \in Host : CalmConf(Now.conf[g], Now.conf[g], g)
  BY DEF CalmConf
<1>7. [from |-> "cache", ver |-> proc[p].old.path[h]] \in Source
  BY <1>2 DEF Source, Request, Home
<1>8. Cmd("plugin add", h, NoSource) \in Command /\ Cmd("select", h, [from |-> "cache", ver |-> proc[p].old.path[h]]) \in Command
  BY <1>2, <1>7, CommandTyped, Bounds
<1>9. CASE Save(Queue(TrackAll(Now, h), Cmd("plugin add", h, NoSource))) /\ \E next \in {"select", "remove"} : Go(p, next)
  <2> DEFINE a == [host[h] EXCEPT !.file = Now.conf[h].signed.file]
             b == [host[h] EXCEPT !.file = Now.conf[h].before.file]
             l == [NoKept EXCEPT !.on = "all", !.signed = a, !.before = b]
             k == TrackAll(Now, h)
  <2>1. Now.conf[h] \in Kept
    BY <1>2 DEF Journal
  <2>2. b \in HostState /\ b.file = Now.conf[h].before.file /\ a \in HostState /\ a.file = Now.conf[h].signed.file
    BY <1>2, <2>1 DEF HostState, Kept
  <2>3. k = [Now EXCEPT !.conf[h] = l]
    BY DEF TrackAll
  <2> HIDE DEF a, b, k
  <2>4. l \in Kept /\ l.on = "all" /\ l.signed = a /\ l.before = b /\ ~l.back
    BY <1>2, <2>1, <2>2, KeptFields DEF NoKept
  <2> HIDE DEF l
  <2>5. k \in Journal /\ k.status = Now.status /\ k.home = Now.home /\ k.conf = [Now.conf EXCEPT ![h] = l]
    BY <1>2, <2>3, <2>4 DEF Journal
  <2>6. Now.conf[h].on # "no"
    <3>1. Tracked(proc[p], h) /\ proc[p].op # "uninstall"
      BY <1>1, <1>2 DEF Knows, Standing, Installing
    <3> QED
      BY <1>1, <1>2, <3>1 DEF Tracked, Installing
  <2>7. CalmConf(Now.conf[h], l, h)
    BY <2>2, <2>4, <2>6 DEF CalmConf
  <2>8. \A g \in Host : CalmConf(Now.conf[g], k.conf[g], g)
    BY <1>2, <1>6, <2>5, <2>7 DEF Journal
  <2>9. Save(Queue(k, Cmd("plugin add", h, NoSource)))
    BY <1>9 DEF k
  <2> QED
    BY <1>5, <1>8, <1>9, <2>5, <2>8, <2>9
<1>10. CASE \/ Save(Queue(Now, Cmd("plugin add", h, NoSource)))
            \/ Save(Queue(Now, Cmd("select", h, [from |-> "cache", ver |-> proc[p].old.path[h]])))
  <2>1. \E next \in {"select", "remove"} : Go(p, next) \/ (Abort(p) /\ UNCHANGED journals)
    BY DEF Prepare
  <2> QED
    BY <1>2, <1>3, <1>5, <1>6, <1>8, <1>10, <2>1
<1>11. CASE ~(Abort(p) /\ UNCHANGED journals)
  <2>1. \E next \in {"select", "remove"} : Go(p, next)
    BY <1>11 DEF Prepare
  <2>2. \/ Save(Queue(TrackAll(Now, h), Cmd("plugin add", h, NoSource)))
        \/ Save(Queue(Now, Cmd("plugin add", h, NoSource)))
        \/ Save(Queue(Now, Cmd("select", h, [from |-> "cache", ver |-> proc[p].old.path[h]])))
        \/ UNCHANGED journals
    <3> DEFINE live == Live(proc[p], h)
    <3>1. CASE live /\ proc[p].restart
      BY <1>11, <3>1 DEF Prepare
    <3>2. CASE live /\ ~proc[p].restart /\ h \in DirHosts
      BY <1>11, <3>2 DEF Prepare
    <3>3. CASE live /\ ~proc[p].restart /\ h \notin DirHosts
      BY <1>11, <3>3 DEF Prepare
    <3>4. CASE ~live
      BY <1>11, <3>4 DEF Prepare
    <3> QED
      BY <3>1, <3>2, <3>3, <3>4
  <2> QED
    BY <1>4, <1>9, <1>10, <2>1, <2>2
<1> QED
  BY <1>3, <1>11

LEMMA UndoNextKeeps == ASSUME InstallAssumption, SettingsInv, NEW p \in Proc, UndoNext(p) PROVE SettingsInv'
<1>1. Running(p) /\ proc[p].stage = "undo" /\ proc[p].k > 0 /\ UNCHANGED <<place, home, ghosts>>
  BY DEF UndoNext, Running
<1>2. TypeInv /\ TypeOK /\ Now \in Journal /\ proc[p] \in Request /\ Standing(proc[p], Now) /\ journals # <<>>
  BY <1>1, RunFacts DEF SettingsInv
<1> DEFINE k == proc[p].k  u == Now.undo[k]  c == u.cmd
<1>3. k \in DOMAIN Now.undo /\ k \in Nat /\ u \in Undo /\ c \in Command /\ Now.undo \in Seq(Undo)
  <2>1. Now.undo \in Seq(Undo) /\ k \in Nat /\ k <= Len(Now.undo)
    BY <1>1, <1>2 DEF Standing, Journal, Request
  <2> HIDE DEF k
  <2>2. k \in 1..Len(Now.undo)
    BY <1>1, <2>1 DEF k
  <2>3. u \in Undo
    BY <2>1, <2>2
  <2> QED
    BY <2>1, <2>2, <2>3 DEF Undo
<1>4. ASSUME NEW j, CalmData(j), Len(j.undo) = Len(Now.undo), NEW l \in 0..k, NEW bad \in BOOLEAN,
             proc' = [proc EXCEPT ![p].k = l, ![p].bad = bad]
      PROVE SettingsInv'
  <2> DEFINE r == [proc[p] EXCEPT !.k = l, !.bad = bad]
  <2>1. proc' = [proc EXCEPT ![p] = r]
    BY <1>4
  <2> l \in Nat
    BY <1>3, <1>4
  <2>2. r \in Request /\ r.stage = "undo" /\ r.k = l /\ r.op = proc[p].op /\ r.ver = proc[p].ver
        /\ r.refresh = proc[p].refresh /\ r.left = proc[p].left /\ r.hosts = proc[p].hosts
    BY <1>1, <1>2 DEF Request
  <2> HIDE DEF r
  <2>3. l <= Len(j.undo)
    BY <1>1, <1>2, <1>3, <1>4 DEF Standing, Journal
  <2>4. Standing(r, j)
    BY <1>1, <1>2, <1>4, <2>2, <2>3 DEF Standing, Steps, Tracking, Installing, Uninstalling, InHost, CalmData
  <2> QED
    BY <1>1, <1>4, <2>1, <2>2, <2>4, CalmKeeps DEF Calm, CalmData, Step, Steps
<1>5. ASSUME NEW l \in 0..k, NEW bad \in BOOLEAN, proc' = [proc EXCEPT ![p].k = l, ![p].bad = bad],
             Unspent, UNCHANGED <<host, journals>>
      PROVE SettingsInv'
  <2>1. CalmData(Now)
    BY <1>1, <1>2, <1>5, SameData DEF Unspent, TypeOK
  <2> QED
    BY <1>4, <1>5, <2>1
<1>6. proc[p].bad \in BOOLEAN /\ k - 1 \in 0..k /\ 0 \in 0..k
  BY <1>1, <1>2, <1>3 DEF Request
<1>7. ASSUME NEW o \in Outcomes(c), host' = [host EXCEPT ![c.host] = o.s]
      PROVE  /\ host' \in [Host -> HostState] /\ \A g \in Host : host'[g].file.sec = host[g].file.sec
             /\ o.ok \in BOOLEAN /\ o.cost \in Nat
  <2>1. o.s \in HostState /\ o.s.file.sec = host[c.host].file.sec /\ o.ok \in BOOLEAN /\ o.cost \in Nat /\ c.host \in Host
    BY <1>2, <1>3, OutcomesTyped DEF Command
  <2> QED
    BY <1>2, <1>7, <2>1, OneHost
<1>8. ASSUME NEW state \in {"ready", "running", "failed", "done"}
      PROVE LET j == [Now EXCEPT !.undo[k].state = state]
            IN j \in Journal /\ j.status = Now.status /\ j.home = Now.home /\ j.conf = Now.conf
               /\ Len(j.undo) = Len(Now.undo)
  <2> DEFINE v == [u EXCEPT !.state = state]  w == [Now.undo EXCEPT ![k] = v]
  <2>1. v \in Undo
    BY <1>3 DEF Undo
  <2>2. w \in Seq(Undo) /\ Len(w) = Len(Now.undo)
    BY <1>3, <2>1
  <2>3. [Now EXCEPT !.undo[k].state = state] = [Now EXCEPT !.undo = w]
    OBVIOUS
  <2> HIDE DEF w
  <2> QED
    BY <1>2, <2>2, <2>3 DEF Journal
<1>9. CASE /\ u.state = "done" \/ u.state = "running"
           /\ proc' = [proc EXCEPT ![p].k = @ - 1, ![p].bad = @ \/ u.state = "running"]
           /\ Unspent /\ UNCHANGED <<host, journals>>
  <2>1. proc' = [proc EXCEPT ![p].k = k - 1, ![p].bad = proc[p].bad \/ u.state = "running"]
    BY <1>9
  <2>2. (proc[p].bad \/ u.state = "running") \in BOOLEAN
    BY <1>6
  <2> HIDE DEF u
  <2> QED
    BY <1>5, <1>6, <1>9, <2>1, <2>2
<1>10. CASE /\ proc' = [proc EXCEPT ![p].k = 0, ![p].bad = TRUE]
            /\ Unspent /\ UNCHANGED <<host, journals>>
  BY <1>5, <1>6, <1>10
<1>11. ASSUME ~Conflict(Now), NEW o \in Outcomes(c), host' = [host EXCEPT ![c.host] = o.s],
              Save(SignAll([Now EXCEPT !.undo[k].state = IF o.ok THEN "done" ELSE "failed"], host')),
              proc' = [proc EXCEPT ![p].k = @ - 1, ![p].bad = @ \/ ~o.ok], Spend(o.cost)
       PROVE SettingsInv'
  <2> DEFINE state == IF o.ok THEN "done" ELSE "failed"
             j == [Now EXCEPT !.undo[k].state = state]
  <2>1. host' \in [Host -> HostState] /\ (\A g \in Host : host'[g].file.sec = host[g].file.sec) /\ o.ok \in BOOLEAN /\ o.cost \in Nat
    BY <1>7, <1>11
  <2>2. j \in Journal /\ j.status = Now.status /\ j.home = Now.home /\ j.conf = Now.conf /\ Len(j.undo) = Len(Now.undo)
    BY <1>8
  <2>3. used' \in [ops : Nat, edits : Nat, upsets : Nat]
    BY <1>2, <1>11, <2>1, Spent
  <2>4. Save(SignAll(j, host'))
    BY <1>11
  <2> HIDE DEF j
  <2>5. CalmData(SignAll(j, host')) /\ SignAll(j, host').undo = j.undo
    BY <1>1, <1>2, <1>11, <2>1, <2>2, <2>3, <2>4, SignedCalm DEF Save
  <2>6. proc' = [proc EXCEPT ![p].k = k - 1, ![p].bad = proc[p].bad \/ ~o.ok]
    BY <1>11
  <2>7. (proc[p].bad \/ ~o.ok) \in BOOLEAN
    BY <1>6, <2>1
  <2> QED
    BY <1>4, <1>6, <2>2, <2>5, <2>6, <2>7
<1>12. ASSUME NEW o \in Outcomes(c), host' = [host EXCEPT ![c.host] = o.s], Spend(1), Leave(p),
              Save([Now EXCEPT !.undo[k].state = "running"])
       PROVE SettingsInv'
  <2> DEFINE j == [Now EXCEPT !.undo[k].state = "running"]
  <2>1. host' \in [Host -> HostState] /\ (\A g \in Host : host'[g].file.sec = host[g].file.sec) /\ 1 \in Nat
    BY <1>7, <1>12
  <2>2. j \in Journal /\ j.status = Now.status /\ j.home = Now.home /\ j.conf = Now.conf /\ Len(j.undo) = Len(Now.undo)
    BY <1>8
  <2>3. used' \in [ops : Nat, edits : Nat, upsets : Nat]
    BY <1>2, <1>12, <2>1, Spent
  <2>4. Save(j)
    BY <1>12
  <2> HIDE DEF j
  <2>5. CalmData(j)
    BY <1>1, <1>2, <2>1, <2>2, <2>3, <2>4 DEF CalmData, CalmConf, TypeOK, Save, ghosts
  <2>6. proc' = [proc EXCEPT ![p] = Idle]
    BY <1>12 DEF Leave
  <2> QED
    BY <1>1, <2>5, <2>6, CalmEnds
<1>13. ASSUME u.state \in {"ready", "failed"}, ~Conflict(Now), NEW o \in Outcomes(c),
              host' = [host EXCEPT ![c.host] = o.s],
              Save(SignAll([Now EXCEPT !.undo[k].state = IF o.ok THEN "done" ELSE "failed"], host')),
              proc' = [proc EXCEPT ![p].k = @ - 1, ![p].bad = @ \/ ~o.ok], Spend(o.cost)
       PROVE SettingsInv'
  BY <1>11, <1>13
<1> HIDE DEF u, c, k
<1> QED
  <2>1. \/ /\ u.state = "done" \/ u.state = "running"
           /\ proc' = [proc EXCEPT ![p].k = @ - 1, ![p].bad = @ \/ u.state = "running"]
           /\ Unspent /\ UNCHANGED <<host, journals>>
        \/ /\ proc' = [proc EXCEPT ![p].k = 0, ![p].bad = TRUE]
           /\ Unspent /\ UNCHANGED <<host, journals>>
        \/ /\ u.state \in {"ready", "failed"} /\ ~Conflict(Now)
           /\ \E o \in Outcomes(c) :
                /\ host' = [host EXCEPT ![c.host] = o.s]
                /\ Save(SignAll([Now EXCEPT !.undo[k].state = IF o.ok THEN "done" ELSE "failed"], host'))
                /\ proc' = [proc EXCEPT ![p].k = @ - 1, ![p].bad = @ \/ ~o.ok]
                /\ Spend(o.cost)
        \/ /\ Spend(1)
           /\ \E o \in Outcomes(c) : host' = [host EXCEPT ![c.host] = o.s]
           /\ Save([Now EXCEPT !.undo[k].state = "running"])
           /\ Leave(p)
    BY DEF UndoNext, u, c, k
  <2> QED
    BY <1>9, <1>10, <1>12, <1>13, <2>1

--------
(* What happens beside the command that holds the lock. *)

\* Nobody touches the journals, the records or a watched host's security settings.
LEMMA Aside ==
  ASSUME SettingsInv, TypeInv', UNCHANGED <<home, journals>>, window \subseteq window',
         \A h \in Host \ window' : host'[h].file.sec = host[h].file.sec /\ own'[h] = own[h],
         \A q \in Proc : Going(q)' = Going(q) /\ (Going(q) => proc'[q] = proc[q]),
         \A q \in Proc : proc'[q].stage = "asked" => \A h \in proc'[q].hosts \ window' : GivesBack(proc[q], h)'
  PROVE  SettingsInv'
<1>1. Last' = Last /\ Now' = Now /\ NoneUnfinished' = NoneUnfinished /\ Unsettled' = Unsettled
  BY DEF Last, Now, NoneUnfinished, Unsettled
<1>2. Recorded(home') /\ \A i \in DOMAIN journals' : Recorded(journals'[i].home)
  BY DEF SettingsInv, Recorded
<1>3. ASSUME NEW h \in Host \ window' PROVE Known(h)' /\ (~NoneUnfinished' => Reverts(h)')
  <2>1. Known(h) /\ (~NoneUnfinished => Reverts(h)) /\ host'[h].file.sec = host[h].file.sec /\ own'[h] = own[h]
    BY <1>3 DEF SettingsInv
  <2>2. Known(h)'
    BY <1>1, <2>1 DEF Known
  <2>3. ~NoneUnfinished' => Reverts(h)'
    BY <1>1, <2>1 DEF Reverts, Accounts, Mine
  <2> QED
    BY <2>2, <2>3
<1>4. \A h \in Host \ window' : \A i \in DOMAIN journals' : \A m \in 1..Last' + 1 :
         journals'[i].status = "committed" /\ Follows(i, m)' => Linked(i, m, h)'
  BY <1>1 DEF SettingsInv, Follows, Linked, HomeAt
<1>5. ASSUME NEW q \in Proc, Going(q)'
      PROVE  Knows(proc[q])' /\ \A h \in proc'[q].hosts \ window' : GivesBack(proc[q], h)'
  <2>1. Going(q) /\ proc'[q] = proc[q] /\ Knows(proc[q])
    BY <1>5 DEF SettingsInv
  <2>2. \A h \in Host : Tracked(proc[q], h)'
    BY <1>1, <2>1 DEF Knows, Tracked
  <2>3. \A h \in Host \ window' : Watched(proc[q], h)'
    BY <1>1, <2>1 DEF Knows, Watched
  <2>4. Knows(proc[q])'
    BY <1>1, <2>1, <2>2, <2>3 DEF Knows
  <2>5. \A h \in proc[q].hosts \ window : GivesBack(proc[q], h)
    BY <2>1 DEF SettingsInv, Going
  <2>6. proc[q].hosts \subseteq Host
    BY DEF SettingsInv, TypeInv, TypeOK, Request
  <2>7. \A h \in proc'[q].hosts \ window' : GivesBack(proc[q], h)'
    BY <2>1, <2>5, <2>6 DEF GivesBack
  <2> QED
    BY <2>1, <2>4, <2>7
<1> QED
  BY <1>2, <1>3, <1>4, <1>5 DEF SettingsInv, Going

\* A command that holds no lock changes its mind; the world stays.
LEMMA AsideTyped ==
  ASSUME TypeInv, UNCHANGED <<host, place, home, journals, ghosts>>,
         used' \in [ops : Nat, edits : Nat, upsets : Nat],
         NEW p \in Proc, ~Running(p), NEW r \in Request, proc' = [proc EXCEPT ![p] = r],
         r.stage \in {"idle", "asked"}, Standing(r, Now)
  PROVE  TypeInv'
<1>1. TypeOK /\ proc' \in [Proc -> Request] /\ proc'[p] = r /\ \A q \in Proc \ {p} : proc'[q] = proc[q]
  BY DEF TypeInv, TypeOK
<1>2. Last' = Last /\ Now' = Now
  BY DEF Last, Now
<1>3. TypeOK'
  BY <1>1 DEF TypeOK, ghosts
<1>4. \A q \in Proc : Running(q)' = Running(q)
  BY <1>1 DEF Running
<1>5. \A q \in Proc : Standing(proc'[q], Now')
  BY <1>1, <1>2 DEF TypeInv
<1>6. \A q \in Proc : Standing(proc[q], Now)'
  BY <1>5 DEF Standing
<1> QED
  BY <1>2, <1>3, <1>4, <1>6 DEF TypeInv

LEMMA AskKeeps ==
  ASSUME InstallAssumption, SettingsInv, NEW p \in Proc, NEW r \in Request, Ask(p, r), r.stage = "asked",
         r.op \in {"install", "update", "uninstall"}, r.op # "uninstall" => r.ver \in Version,
         r.refresh \subseteq r.hosts, r.left = {}, r.old = Metadata(home),
         \A h \in r.hosts : r.op = "uninstall" \/ h \in r.refresh => Restorable(home.rec[h], host[h])
  PROVE  SettingsInv'
<1>1. TypeInv /\ TypeOK /\ proc[p].stage = "idle" /\ proc' = [proc EXCEPT ![p] = r]
      /\ UNCHANGED <<host, place, home, journals, ghosts>>
  BY DEF SettingsInv, TypeInv, Ask, ghosts
<1>2. used' \in [ops : Nat, edits : Nat, upsets : Nat]
  BY <1>1 DEF Ask, TypeOK
<1>3. ~Running(p) /\ Standing(r, Now)
  BY <1>1 DEF Running, Standing, Steps, Tracking, Installing, Uninstalling, InHost
<1>4. TypeInv'
  BY <1>1, <1>2, <1>3, AsideTyped
<1>5. proc'[p] = r /\ \A q \in Proc \ {p} : proc'[q] = proc[q]
  BY <1>1 DEF TypeOK
<1>6. \A q \in Proc : Going(q)' = Going(q) /\ (Going(q) => proc'[q] = proc[q])
  BY <1>1, <1>5 DEF Going, Steps
<1>7. ASSUME NEW h \in r.hosts \ window PROVE GivesBack(r, h)
  <2>1. CASE home.rec[h].on /\ (r.op = "uninstall" \/ h \in r.refresh)
    <3>1. h \in Host /\ host[h].file = home.rec[h].applied
      BY <1>7, <2>1 DEF Request, Restorable
    <3>2. home.rec[h].applied.sec = "baseline"
      BY <2>1, <3>1 DEF SettingsInv, Recorded
    <3>3. home.rec[h].orig.sec = own[h]
      BY <1>7, <2>1, <3>1, <3>2 DEF SettingsInv, Known
    <3> QED
      BY <1>1, <3>3, MetadataIs DEF GivesBack
  <2> QED
    BY <1>1, <2>1, MetadataIs DEF GivesBack
<1>8. \A q \in Proc : proc'[q].stage = "asked" => \A h \in proc'[q].hosts \ window' : GivesBack(proc[q], h)'
  <2>1. ASSUME NEW q \in Proc, proc'[q].stage = "asked", NEW h \in proc'[q].hosts \ window'
        PROVE  GivesBack(proc'[q], h)
    <3>1. CASE q = p
      BY <1>1, <1>5, <1>7, <2>1, <3>1 DEF ghosts
    <3>2. CASE q # p
      BY <1>1, <1>5, <2>1, <3>2 DEF SettingsInv, ghosts
    <3> QED
      BY <3>1, <3>2
  <2> QED
    BY <1>1, <2>1 DEF GivesBack, ghosts
<1> QED
  BY <1>1, <1>4, <1>6, <1>8, Aside DEF ghosts

LEMMA ReadsTyped ==
  ASSUME InstallAssumption, TypeOK
  PROVE  Reads \in Request /\ Reads.stage = "asked" /\ Reads.old = Metadata(home) /\ Reads.left = {} /\ Reads.refresh = {}
<1> DEFINE inv == [h \in Host |-> Inv(h, host[h])]  seen == [h \in Host |-> host[h].file]
<1>1. inv \in [Host -> Inventory]
  BY ListedTyped DEF TypeOK
<1>2. seen \in [Host -> File]
  BY DEF TypeOK, HostState
<1>3. PointerPlan \in [write : BOOLEAN, owned : BOOLEAN]
  BY DEF PointerPlan, TypeOK, Home
<1>z. home \in Home /\ 0 \in 0..MaxVersion
  BY Bounds DEF TypeOK
<1>0. Metadata(home) \in Home
  BY <1>z DEF Metadata, Home
<1>4. Idle \in Request /\ Idle.left = {} /\ Idle.refresh = {} /\ "asked" \in Stage
  BY IdleTyped DEF Stage
<1>5. Reads = [Idle EXCEPT !.stage = "asked", !.old = Metadata(home), !.inv = inv, !.seen = seen, !.ptr = PointerPlan]
  BY DEF Reads
<1> HIDE DEF inv, seen
<1> QED
  BY <1>0, <1>1, <1>2, <1>3, <1>4, <1>5 DEF Request

LEMMA Refreshes ==
  ASSUME NEW r, Probed(r)
  PROVE  Refreshed(r) \subseteq r.hosts /\ \A h \in Refreshed(r) : Restorable(home.rec[h], host[h])
BY DEF Probed, Refreshed

Planned(q, hs, v, local, secure, restart, enable) ==
  [q EXCEPT !.op = "update", !.hosts = hs, !.ver = v, !.local = local,
            !.secure = secure, !.restart = restart, !.enable = enable]
LEMMA PlannedTyped ==
  ASSUME NEW q \in Request, NEW hs \in SUBSET Host, NEW v \in 0..MaxVersion, NEW local \in BOOLEAN,
         NEW secure \in BOOLEAN, NEW restart \in BOOLEAN, NEW enable \in BOOLEAN
  PROVE  LET r == Planned(q, hs, v, local, secure, restart, enable)
         IN r \in Request /\ r.stage = q.stage /\ r.op = "update" /\ r.ver = v /\ r.old = q.old /\ r.left = q.left
BY DEF Request, Planned

LEMMA AsksKeep ==
  ASSUME InstallAssumption, SettingsInv, NEW p \in Proc, AskInstall(p) \/ AskUpdate(p) \/ AskUninstall(p)
  PROVE  SettingsInv'
<1>1. TypeOK /\ home.hosts \subseteq Host
  BY DEF SettingsInv, TypeInv, TypeOK, Home
<1>2. ASSUME NEW r \in Request, r.stage = "asked", r.op \in {"install", "update"}, r.ver \in Version,
             r.old = Metadata(home), r.left = {}, Probed(r), Ask(p, [r EXCEPT !.refresh = Refreshed(r)])
      PROVE  SettingsInv'
  <2> DEFINE f == Refreshed(r)  t == [r EXCEPT !.refresh = f]
  <2>1. f \subseteq r.hosts /\ f \subseteq Host /\ \A h \in f : Restorable(home.rec[h], host[h])
    BY <1>2, Refreshes DEF Request
  <2>2. Ask(p, t)
    BY <1>2
  <2> HIDE DEF f
  <2>3. t \in Request /\ t.stage = "asked" /\ t.op = r.op /\ t.hosts = r.hosts /\ t.ver = r.ver /\ t.old = Metadata(home)
        /\ t.left = {} /\ t.refresh = f
    BY <1>2, <2>1 DEF Request
  <2> HIDE DEF t
  <2> QED
    BY <1>2, <2>1, <2>2, <2>3, AskKeeps
<1>3. CASE AskInstall(p)
  <2>1. PICK hs \in SUBSET Host \ {{}}, v \in Version, local \in Locals, secure \in BOOLEAN :
           LET r == [Reads EXCEPT !.op = "install", !.hosts = hs, !.ver = v, !.local = local, !.secure = secure]
           IN Probed(r) /\ Ask(p, [r EXCEPT !.refresh = Refreshed(r)])
    BY <1>3 DEF AskInstall
  <2>2. local \in BOOLEAN /\ v \in 0..MaxVersion
    BY Bounds DEF InstallAssumption
  <2> DEFINE r == [Reads EXCEPT !.op = "install", !.hosts = hs, !.ver = v, !.local = local, !.secure = secure]
  <2>3. r \in Request /\ r.stage = "asked" /\ r.op = "install" /\ r.ver = v /\ r.old = Metadata(home) /\ r.left = {}
    BY <1>1, <2>2, ReadsTyped DEF Request
  <2>4. Probed(r) /\ Ask(p, [r EXCEPT !.refresh = Refreshed(r)])
    BY <2>1
  <2> HIDE DEF r
  <2> QED
    BY <1>2, <2>3, <2>4
<1>4. CASE AskUpdate(p)
  <2>1. UpdateSecurity \in BOOLEAN
    BY DEF UpdateSecurity
  <2>2. PICK v \in Version, local \in Locals, restart \in BOOLEAN, enable \in BOOLEAN :
          LET r == [Reads EXCEPT !.op = "update", !.hosts = home.hosts, !.ver = v, !.local = local,
                           !.secure = UpdateSecurity, !.restart = restart, !.enable = enable]
          IN Probed(r) /\ Ask(p, [r EXCEPT !.refresh = Refreshed(r)])
    BY <1>4 DEF AskUpdate
  <2>3. local \in BOOLEAN /\ v \in 0..MaxVersion
    BY Bounds DEF InstallAssumption
  <2> DEFINE r == Planned(Reads, home.hosts, v, local, UpdateSecurity, restart, enable)
  <2>4. r \in Request /\ r.stage = "asked" /\ r.op = "update" /\ r.ver = v /\ r.old = Metadata(home) /\ r.left = {}
    BY <1>1, <2>1, <2>3, ReadsTyped, PlannedTyped
  <2>5. Probed(r) /\ Ask(p, [r EXCEPT !.refresh = Refreshed(r)])
    BY <2>2 DEF Planned
  <2> HIDE DEF r
  <2> QED
    BY <1>2, <2>4, <2>5
<1>5. CASE AskUninstall(p)
  <2>1. PICK hs \in SUBSET home.hosts \ {{}} :
          LET r == [Reads EXCEPT !.op = "uninstall", !.hosts = hs]
          IN (\A h \in hs : Restorable(home.rec[h], host[h])) /\ Ask(p, r)
    BY <1>5 DEF AskUninstall
  <2> DEFINE r == [Reads EXCEPT !.op = "uninstall", !.hosts = hs]
  <2>2. r \in Request /\ r.stage = "asked" /\ r.op = "uninstall" /\ r.hosts = hs /\ r.old = Metadata(home) /\ r.left = {}
        /\ r.refresh = {}
    BY <1>1, ReadsTyped DEF Request
  <2>3. (\A h \in hs : Restorable(home.rec[h], host[h])) /\ Ask(p, r)
    BY <2>1
  <2> HIDE DEF r
  <2> QED
    BY <2>2, <2>3, AskKeeps
<1> QED
  BY <1>3, <1>4, <1>5

\* A transaction is opened behind the others.
LEMMA Appended ==
  ASSUME TypeOK, NEW j \in Journal, journals' = Append(journals, j)
  PROVE  /\ journals' \in Seq(Journal) /\ Last \in Nat /\ Last' = Last + 1 /\ Now' = j /\ journals' # <<>>
         /\ DOMAIN journals = 1..Last /\ DOMAIN journals' = 1..Last + 1
         /\ \A i \in 1..Last : journals'[i] = journals[i]
<1>1. journals \in Seq(Journal)
  BY DEF TypeOK
<1>2. journals' \in Seq(Journal) /\ Len(journals') = Len(journals) + 1 /\ journals'[Len(journals) + 1] = j
      /\ \A i \in 1..Len(journals) : journals'[i] = journals[i]
  BY <1>1
<1> QED
  BY <1>1, <1>2 DEF Last, Now

LEMMA OpenTyped ==
  ASSUME InstallAssumption, TypeOK, NEW status \in {"active", "committed"}
  PROVE  LET j == [status |-> status, undo |-> <<>>, home |-> home,
                   conf |-> [h \in Host |-> NoKept], text |-> [x \in Place |-> NoText]]
         IN /\ j \in Journal /\ j.status = status /\ j.home = home /\ j.undo = <<>>
            /\ \A h \in Host : j.conf[h].on = "no" /\ ~j.conf[h].back
<1>1. NoKept \in Kept /\ NoText \in KeptText
  BY FreshTyped DEF NoKept, Kept, NoText, KeptText, Text
<1>2. NoKept.on = "no" /\ ~NoKept.back /\ home \in Home /\ <<>> \in Seq(Undo)
  BY DEF NoKept, TypeOK
<1> QED
  BY <1>1, <1>2 DEF Journal

LEMMA BeginTyped ==
  ASSUME TypeOK, begin' = Append(begin, [host |-> host, place |-> place, home |-> home])
  PROVE  begin' \in Seq(World) /\ Len(begin') = Len(journals) + 1
<1>1. [host |-> host, place |-> place, home |-> home] \in World
  BY DEF TypeOK, World
<1> QED
  BY <1>1 DEF TypeOK

LEMMA BeginKeeps == ASSUME InstallAssumption, SettingsInv, NEW p \in Proc, Begin(p) PROVE SettingsInv'
<1>1. TypeInv /\ TypeOK /\ proc[p].stage = "asked" /\ Free /\ proc[p] \in Request /\ Standing(proc[p], Now)
  BY DEF SettingsInv, TypeInv, TypeOK, Begin
<1>2. CASE ~NoneUnfinished
  <2>1. proc' = [proc EXCEPT ![p] = Idle] /\ UNCHANGED <<host, place, home, journals, used, ghosts>>
    BY <1>2 DEF Begin, Leave, ghosts
  <2>2. used' \in [ops : Nat, edits : Nat, upsets : Nat]
    BY <1>1, <2>1 DEF TypeOK
  <2>3. TypeInv'
    BY <1>1, <2>1, <2>2, IdleTyped, AsideTyped DEF Running
  <2>4. proc'[p] = Idle /\ \A q \in Proc \ {p} : proc'[q] = proc[q]
    BY <1>1, <2>1 DEF TypeOK
  <2>5. \A q \in Proc : Going(q)' = Going(q) /\ (Going(q) => proc'[q] = proc[q])
    BY <1>1, <2>4, IdleTyped DEF Going, Steps
  <2>6. ASSUME NEW q \in Proc, proc'[q].stage = "asked", NEW h \in proc'[q].hosts \ window'
        PROVE  GivesBack(proc[q], h)'
    <3>1. proc'[q] = proc[q] /\ GivesBack(proc[q], h)
      BY <2>1, <2>4, <2>6, IdleTyped DEF SettingsInv, ghosts
    <3> QED
      BY <2>1, <3>1 DEF GivesBack, ghosts
  <2> QED
    BY <2>1, <2>3, <2>5, <2>6, Aside DEF ghosts
<1>3. CASE NoneUnfinished
  <2> DEFINE j == [status |-> "active", undo |-> <<>>, home |-> home,
                   conf |-> [h \in Host |-> NoKept], text |-> [x \in Place |-> NoText]]
             r == [proc[p] EXCEPT !.stage = "confirm"]
  <2>1. journals' = Append(journals, j) /\ proc' = [proc EXCEPT ![p] = r]
        /\ UNCHANGED <<host, place, home, used, edited, own, theirs, window, shifted>>
        /\ begin' = Append(begin, [host |-> host, place |-> place, home |-> home])
    BY <1>3 DEF Begin, Open, Go
  <2>2. j \in Journal /\ j.status = "active" /\ j.home = home /\ \A h \in Host : j.conf[h].on = "no"
    BY <1>1, OpenTyped
  <2> HIDE DEF j
  <2>3. r \in Request /\ r.stage = "confirm" /\ r.op = proc[p].op /\ r.hosts = proc[p].hosts /\ r.ver = proc[p].ver
        /\ r.old = proc[p].old /\ r.cur = proc[p].cur /\ r.left = proc[p].left /\ r.refresh = proc[p].refresh
    BY <1>1, Moves DEF Stage, Steps
  <2> HIDE DEF r
  <2>4. /\ journals' \in Seq(Journal) /\ Last \in Nat /\ Last' = Last + 1 /\ Now' = j /\ journals' # <<>>
        /\ DOMAIN journals = 1..Last /\ DOMAIN journals' = 1..Last + 1
        /\ \A i \in 1..Last : journals'[i] = journals[i]
    BY <1>1, <2>1, <2>2, Appended
  <2>5. journals'[Last + 1] = j
    BY <2>4 DEF Now
  <2>6. proc' \in [Proc -> Request] /\ proc'[p] = r /\ \A q \in Proc \ {p} : proc'[q] = proc[q]
    BY <1>1, <2>1, <2>3 DEF TypeOK
  <2>7. TypeInv'
    <3>1. TypeOK'
      <4>1. begin' \in Seq(World) /\ Len(begin') = Len(journals')
        BY <1>1, <2>1, <2>4, BeginTyped DEF Last
      <4>2. edited' \subseteq DOMAIN journals'
        BY <1>1, <2>1, <2>4 DEF TypeOK
      <4> QED
        BY <1>1, <2>1, <2>4, <2>6, <4>1, <4>2 DEF TypeOK
    <3>2. \A q \in Proc : Running(q)' <=> q = p
      BY <1>1, <2>3, <2>6 DEF Free, Running
    <3>3. Standing(r, j)
      BY <1>1, <2>2, <2>3 DEF Standing, Steps, Tracking, Installing, Uninstalling, InHost
    <3>4. ASSUME NEW q \in Proc \ {p} PROVE Standing(proc[q], j)
      <4>1. Standing(proc[q], Now) /\ proc[q].stage \notin {"undo"} \union Steps
        BY <1>1 DEF TypeInv, Free, Running, Steps
      <4> QED
        BY <4>1 DEF Standing
    <3>5. \A q \in Proc : Standing(proc'[q], Now')
      BY <2>4, <2>6, <3>3, <3>4
    <3>6. \A q \in Proc : Standing(proc[q], Now)'
      BY <3>5 DEF Standing
    <3>7. \A i \in DOMAIN journals' : journals'[i].status \in Unfinished => i = Last'
      BY <1>3, <2>4 DEF NoneUnfinished
    <3> QED
      BY <2>4, <3>1, <3>2, <3>6, <3>7 DEF TypeInv
  <2>8. Recorded(home)' /\ \A i \in DOMAIN journals' : Recorded(journals[i].home)'
    <3>1. Recorded(home) /\ \A i \in 1..Last : Recorded(journals[i].home)
      BY <2>4 DEF SettingsInv
    <3>2. \A i \in 1..Last + 1 : Recorded(journals'[i].home)
      BY <2>2, <2>4, <2>5, <3>1 DEF Recorded
    <3> QED
      BY <2>1, <2>4, <3>1, <3>2 DEF Recorded
  <2>9. ASSUME NEW h \in Host \ window' PROVE Known(h)' /\ Reverts(h)'
    <3>1. Known(h) /\ ~Unsettled
      BY <1>3, <2>1, <2>9 DEF SettingsInv, Unsettled
    <3>2. Known(h)'
      BY <2>1, <3>1 DEF Known
    <3>3. own[h] \in {"plain", "custom"} /\ host[h].file.sec \in {own[h], "baseline"}
      BY <1>1, <2>9, <3>1 DEF TypeOK, Known
    <3>4. Accounts(host[h], home.rec[h], own[h])
      BY <3>1 DEF Known, Accounts, Mine
    <3>5. Reverts(h)'
      BY <2>1, <2>2, <2>4, <3>4 DEF Reverts, Accounts, Mine
    <3> QED
      BY <3>2, <3>5
  <2>10. ASSUME NEW h \in Host \ window', NEW i \in DOMAIN journals', NEW m \in 1..Last' + 1,
                journals'[i].status = "committed", Follows(i, m)'
         PROVE  Linked(i, m, h)'
    <3>1. i # Last + 1 /\ i \in 1..Last /\ i \in DOMAIN journals /\ journals'[i] = journals[i]
      BY <2>2, <2>4, <2>5, <2>10
    <3>2. m # Last + 2
      BY <2>2, <2>4, <2>5, <2>10, <3>1 DEF Follows
    <3>3. m \in 1..Last + 1
      BY <2>4, <3>2
    <3>4. HomeAt(m)' = HomeAt(m)
      <4>1. CASE m \in 1..Last
        BY <2>4, <4>1 DEF HomeAt
      <4>2. CASE m = Last + 1
        BY <2>2, <2>4, <2>5, <4>2 DEF HomeAt
      <4> QED
        BY <2>4, <3>3, <4>1, <4>2
    <3>5. Follows(i, m)
      BY <2>4, <2>10, <3>3 DEF Follows
    <3>6. Linked(i, m, h)
      BY <2>1, <2>4, <2>10, <3>1, <3>3, <3>5 DEF SettingsInv
    <3> QED
      BY <3>1, <3>4, <3>6 DEF Linked
  <2>11. ASSUME NEW q \in Proc, proc'[q].stage \in {"asked"} \union Steps, NEW h \in proc'[q].hosts \ window'
         PROVE  GivesBack(proc[q], h)'
    <3>1. proc[q].stage \in {"asked"} \union Steps /\ proc[q].hosts = proc'[q].hosts /\ proc[q].old = proc'[q].old
          /\ proc[q].op = proc'[q].op /\ proc[q].refresh = proc'[q].refresh
      BY <1>1, <2>3, <2>6, <2>11
    <3>2. GivesBack(proc[q], h)
      BY <2>1, <2>11, <3>1 DEF SettingsInv
    <3> QED
      BY <2>1, <3>1, <3>2 DEF GivesBack
  <2>12. ASSUME NEW q \in Proc, Going(q)' PROVE Knows(proc[q])'
    <3>1. q = p /\ proc'[q] = r
      BY <1>1, <2>6, <2>12 DEF Going, Free, Running, Steps
    <3>2. home'.rec = Now'.home.rec /\ \A h \in Host : Now'.conf[h].on = "no"
      BY <2>1, <2>2, <2>4
    <3>3. proc'[q].stage = "confirm"
      BY <2>3, <3>1
    <3> QED
      BY <3>2, <3>3 DEF Knows, Tracked, Watched, Tracking, Installing, Uninstalling
  <2> QED
    BY <2>7, <2>8, <2>9, <2>10, <2>11, <2>12 DEF SettingsInv
<1> QED
  BY <1>2, <1>3

LEMMA AttestKeeps == ASSUME InstallAssumption, SettingsInv, NEW p \in Proc, Attest(p) PROVE SettingsInv'
<1>1. TypeInv /\ TypeOK /\ Free /\ NoneUnfinished
  BY DEF SettingsInv, TypeInv, Attest
<1> DEFINE j == [status |-> "committed", undo |-> <<>>, home |-> home,
                 conf |-> [h \in Host |-> NoKept], text |-> [x \in Place |-> NoText]]
<1>2. journals' = Append(journals, j) /\ UNCHANGED <<host, place, proc, edited, own, theirs, window, shifted>>
      /\ begin' = Append(begin, [host |-> host, place |-> place, home |-> home])
      /\ home' = [home EXCEPT !.trust = home.version] /\ used' = [used EXCEPT !.ops = @ + 1]
  BY DEF Attest
<1>3. j \in Journal /\ j.status = "committed" /\ j.home = home /\ \A h \in Host : j.conf[h].on = "no"
  BY <1>1, OpenTyped
<1> HIDE DEF j
<1>4. home' \in Home /\ home'.rec = home.rec /\ used' \in [ops : Nat, edits : Nat, upsets : Nat]
  <2>1. home \in Home /\ home.version \in 0..MaxVersion
    BY <1>1 DEF TypeOK, Home
  <2>2. home' \in Home /\ home'.rec = home.rec
    BY <1>2, <2>1 DEF Home
  <2>3. used \in [ops : Nat, edits : Nat, upsets : Nat]
    BY <1>1 DEF TypeOK
  <2>4. used' \in [ops : Nat, edits : Nat, upsets : Nat]
    BY <1>2, <2>3
  <2> QED
    BY <2>2, <2>4
<1>5. /\ journals' \in Seq(Journal) /\ Last \in Nat /\ Last' = Last + 1 /\ Now' = j /\ journals' # <<>>
      /\ DOMAIN journals = 1..Last /\ DOMAIN journals' = 1..Last + 1
      /\ \A i \in 1..Last : journals'[i] = journals[i]
  BY <1>1, <1>2, <1>3, Appended
<1>6. journals'[Last + 1] = j
  BY <1>5 DEF Now
<1>7. NoneUnfinished'
  BY <1>1, <1>3, <1>5, <1>6 DEF NoneUnfinished, Unfinished
<1>8. TypeInv'
  <2>1. TypeOK'
    <3>1. begin' \in Seq(World) /\ Len(begin') = Len(journals')
      BY <1>1, <1>2, <1>5, BeginTyped DEF Last
    <3>2. edited' \subseteq DOMAIN journals'
      BY <1>1, <1>2, <1>5 DEF TypeOK
    <3> QED
      BY <1>1, <1>2, <1>4, <1>5, <3>1, <3>2 DEF TypeOK
  <2>2. ASSUME NEW q \in Proc PROVE ~Running(q)' /\ Standing(proc[q], Now)'
    <3>1. Standing(proc[q], Now) /\ proc[q].stage \notin {"undo"} \union Steps /\ ~Running(q)
      BY <1>1 DEF TypeInv, Free, Running, Steps
    <3> QED
      BY <1>2, <3>1 DEF Standing, Running
  <2> QED
    BY <1>5, <1>7, <2>1, <2>2 DEF TypeInv, NoneUnfinished
<1>9. Recorded(home)' /\ \A i \in DOMAIN journals' : Recorded(journals[i].home)'
  <2>1. Recorded(home) /\ \A i \in 1..Last : Recorded(journals[i].home)
    BY <1>5 DEF SettingsInv
  <2>2. \A i \in 1..Last + 1 : Recorded(journals'[i].home)
    BY <1>3, <1>5, <1>6, <2>1 DEF Recorded
  <2> QED
    BY <1>4, <1>5, <2>1, <2>2 DEF Recorded
<1>10. ASSUME NEW h \in Host \ window' PROVE Known(h)'
  <2>1. Known(h) /\ ~Unsettled
    BY <1>1, <1>2, <1>10 DEF SettingsInv, Unsettled
  <2> QED
    BY <1>2, <1>4, <2>1 DEF Known
<1>11. ASSUME NEW h \in Host \ window', NEW i \in DOMAIN journals', NEW m \in 1..Last' + 1,
              journals'[i].status = "committed", Follows(i, m)'
       PROVE  Linked(i, m, h)'
  <2>1. CASE i = Last + 1
    <3>1. m = Last + 2
      BY <1>5, <1>11, <2>1 DEF Follows
    <3>2. HomeAt(m)' = home'
      BY <1>5, <3>1 DEF HomeAt
    <3> QED
      BY <1>3, <1>4, <1>6, <2>1, <3>2 DEF Linked
  <2>2. CASE i # Last + 1
    <3>1. i \in 1..Last /\ i \in DOMAIN journals /\ journals'[i] = journals[i]
      BY <1>5, <2>2
    <3>2. m # Last + 2
      BY <1>3, <1>5, <1>6, <1>11, <3>1 DEF Follows
    <3>3. m \in 1..Last + 1
      BY <1>5, <3>2
    <3>4. HomeAt(m)'.rec = HomeAt(m).rec
      <4>1. CASE m \in 1..Last
        BY <1>5, <4>1 DEF HomeAt
      <4>2. CASE m = Last + 1
        BY <1>3, <1>5, <1>6, <4>2 DEF HomeAt
      <4> QED
        BY <1>5, <3>3, <4>1, <4>2
    <3>5. Follows(i, m)
      BY <1>5, <1>11, <3>3 DEF Follows
    <3>6. Linked(i, m, h)
      BY <1>2, <1>5, <1>11, <3>1, <3>3, <3>5 DEF SettingsInv
    <3> QED
      BY <3>1, <3>4, <3>6 DEF Linked
  <2> QED
    BY <2>1, <2>2
<1>12. ASSUME NEW q \in Proc
       PROVE  ~Going(q)' /\ (proc'[q].stage \in {"asked"} \union Steps =>
                               \A h \in proc'[q].hosts \ window' : GivesBack(proc[q], h)')
  BY <1>1, <1>2 DEF SettingsInv, Going, Free, Running, Steps, GivesBack
<1> QED
  BY <1>7, <1>8, <1>9, <1>10, <1>11, <1>12 DEF SettingsInv

--------
(* The user. *)

LEMMA EditTyped ==
  ASSUME InstallAssumption, TypeInv, NEW x \in Host \union Place, NEW looked, Edit(x, looked),
         host' \in [Host -> HostState], place' \in [Place -> Text], theirs' \subseteq Place,
         own' \in [Host -> {"plain", "custom"}]
  PROVE  TypeInv' /\ window \subseteq window' /\ UNCHANGED <<home, journals, proc>>
<1>1. TypeOK /\ UNCHANGED <<home, journals, proc, begin, shifted>>
  BY DEF TypeInv, Edit
<1>2. used' \in [ops : Nat, edits : Nat, upsets : Nat] /\ edited' \subseteq DOMAIN journals'
      /\ window' \subseteq Host \union Place /\ window \subseteq window'
  <2>1. used' \in [ops : Nat, edits : Nat, upsets : Nat]
    <3>1. used \in [ops : Nat, edits : Nat, upsets : Nat]
      BY <1>1 DEF TypeOK
    <3>2. used' = [ops |-> used.ops, edits |-> used.edits + 1, upsets |-> used.upsets + 1]
      BY <3>1 DEF Edit
    <3>3. used.ops \in Nat /\ used.edits + 1 \in Nat /\ used.upsets + 1 \in Nat
      BY <3>1
    <3> QED
      BY <3>2, <3>3
  <2>2. edited' \subseteq DOMAIN journals'
    BY <1>1 DEF Edit, TypeOK
  <2>3. window' = window \/ window' = window \union {x}
    BY DEF Edit
  <2> QED
    BY <1>1, <2>1, <2>2, <2>3 DEF TypeOK
<1>3. TypeOK'
  BY <1>1, <1>2 DEF TypeOK
<1>4. Last' = Last /\ Now' = Now
  BY <1>1 DEF Last, Now
<1> QED
  BY <1>1, <1>2, <1>3, <1>4 DEF TypeInv, Running, Standing

LEMMA RunManagerKeeps == ASSUME InstallAssumption, SettingsInv, NEW h \in Host, RunManager(h) PROVE SettingsInv'
<1>1. TypeInv /\ TypeOK /\ host[h] \in HostState /\ host[h].file \in File
  BY DEF SettingsInv, TypeInv, TypeOK, HostState
<1>2. PICK s \in UserChoices(h) : host' = [host EXCEPT ![h] = s] /\ Edit(h, {"idle", "asked", "confirm"})
                                   /\ UNCHANGED <<place, own, theirs>>
  BY DEF RunManager
<1> DEFINE remove == [op |-> "plugin remove", host |-> h, src |-> NoSource]
           away == [op |-> "market remove", host |-> h, src |-> NoSource]
           add == [op |-> "plugin add", host |-> h, src |-> NoSource]
<1>3. remove \in Command /\ away \in Command /\ add \in Command
  BY Bounds DEF Command
<1>4. \A t \in HostState : /\ Effect(remove, t) = PluginRemoved(h, t) /\ Effect(away, t) = MarketRemoved(h, t)
                           /\ Effect(add, t) = PluginAdded(h, t)
  BY DEF Effect
<1>5. \A t \in HostState : \A u \in {PluginRemoved(h, t), MarketRemoved(h, t), PluginAdded(h, t)} :
         u \in HostState /\ u.file.sec = t.file.sec
  <2> SUFFICES ASSUME NEW t \in HostState
               PROVE  \A u \in {Effect(remove, t), Effect(away, t), Effect(add, t)} :
                         u \in HostState /\ u.file.sec = t.file.sec
    BY <1>4
  <2> HIDE DEF remove, away, add
  <2> QED
    BY <1>3, Effects
<1> DEFINE swap(v) == [MarketRemoved(h, host[h]) EXCEPT !.file.market = Theirs(v)]
<1>6. ASSUME NEW v \in Version PROVE swap(v) \in HostState /\ swap(v).file.sec = host[h].file.sec
  <2>1. Theirs(v) \in Source
    BY Bounds DEF Theirs, Source
  <2>2. MarketRemoved(h, host[h]) \in HostState /\ MarketRemoved(h, host[h]).file.sec = host[h].file.sec
    BY <1>1, <1>5
  <2> QED
    BY <2>1, <2>2 DEF HostState, File
<1>7. ASSUME NEW e \in {"on", "off"}
      PROVE [host[h] EXCEPT !.file.plugin = e] \in HostState /\ [host[h] EXCEPT !.file.plugin = e].file.sec = host[h].file.sec
  BY <1>1 DEF HostState, File
<1> HIDE DEF swap
<1>8. s \in HostState /\ s.file.sec = host[h].file.sec
  <2>1. \/ s \in {PluginRemoved(h, host[h]), MarketRemoved(h, host[h])}
        \/ \E v \in Version : s = swap(v) \/ s = PluginAdded(h, swap(v))
        \/ \E e \in {"on", "off"} : s = [host[h] EXCEPT !.file.plugin = e]
    BY <1>2 DEF UserChoices, swap
  <2>2. CASE s \in {PluginRemoved(h, host[h]), MarketRemoved(h, host[h])}
    BY <1>1, <1>5, <2>2
  <2>3. ASSUME NEW v \in Version, s = swap(v) \/ s = PluginAdded(h, swap(v))
        PROVE s \in HostState /\ s.file.sec = host[h].file.sec
    <3>1. swap(v) \in HostState /\ swap(v).file.sec = host[h].file.sec
      BY <1>6
    <3>2. PluginAdded(h, swap(v)) \in HostState /\ PluginAdded(h, swap(v)).file.sec = swap(v).file.sec
      BY <1>5, <3>1
    <3> QED
      BY <2>3, <3>1, <3>2
  <2>4. ASSUME NEW e \in {"on", "off"}, s = [host[h] EXCEPT !.file.plugin = e]
        PROVE s \in HostState /\ s.file.sec = host[h].file.sec
    BY <1>7, <2>4
  <2> QED
    BY <2>1, <2>2, <2>3, <2>4
<1>9. host' \in [Host -> HostState] /\ \A g \in Host : host'[g].file.sec = host[g].file.sec
  BY <1>1, <1>2, <1>8, OneHost
<1>10. TypeInv' /\ window \subseteq window' /\ UNCHANGED <<home, journals, proc>>
  BY <1>1, <1>2, <1>9, EditTyped DEF TypeOK
<1>11. \A q \in Proc : proc'[q].stage = "asked" => \A g \in proc'[q].hosts \ window' : GivesBack(proc[q], g)'
  BY <1>2, <1>10 DEF SettingsInv, GivesBack
<1> QED
  BY <1>2, <1>9, <1>10, <1>11, Aside DEF Going

LEMMA WritePlaceKeeps == ASSUME InstallAssumption, SettingsInv, NEW x \in Place, WritePlace(x) PROVE SettingsInv'
<1>1. TypeInv /\ TypeOK
  BY DEF SettingsInv, TypeInv
<1>2. PICK t \in Text : place' = [place EXCEPT ![x] = t] /\ Edit(x, {"idle"}) /\ UNCHANGED <<host, own>>
                         /\ theirs' \in {theirs \union {x}, theirs \ {x}}
  BY DEF WritePlace, Text
<1>3. TypeInv' /\ window \subseteq window' /\ UNCHANGED <<home, journals, proc>>
  BY <1>1, <1>2, EditTyped DEF TypeOK
<1>4. \A q \in Proc : proc'[q].stage = "asked" => \A g \in proc'[q].hosts \ window' : GivesBack(proc[q], g)'
  BY <1>2, <1>3 DEF SettingsInv, GivesBack
<1> QED
  BY <1>2, <1>3, <1>4, Aside DEF Going

LEMMA EditSettingsKeeps == ASSUME InstallAssumption, SettingsInv, NEW h \in Host, EditSettings(h) PROVE SettingsInv'
<1>1. TypeInv /\ TypeOK /\ host[h] \in HostState
  BY DEF SettingsInv, TypeInv, TypeOK
<1>2. PICK s \in {"plain", "custom"} : /\ host' = [host EXCEPT ![h].file.sec = s] /\ own' = [own EXCEPT ![h] = s]
                                       /\ Edit(h, {"idle"}) /\ UNCHANGED <<place, theirs>>
  BY DEF EditSettings
<1>3. /\ host' \in [Host -> HostState] /\ own' \in [Host -> {"plain", "custom"}]
      /\ host'[h].file.sec = s /\ own'[h] = s
      /\ \A g \in Host \ {h} : host'[g] = host[g] /\ own'[g] = own[g]
  <2> DEFINE t == [host[h] EXCEPT !.file.sec = s]
  <2>1. t \in HostState /\ t.file.sec = s
    BY <1>1 DEF HostState, File
  <2>2. host' = [host EXCEPT ![h] = t]
    BY <1>2
  <2> HIDE DEF t
  <2> QED
    BY <1>1, <1>2, <2>1, <2>2 DEF TypeOK
<1>4. TypeInv' /\ window \subseteq window' /\ UNCHANGED <<home, journals, proc>>
  BY <1>1, <1>2, <1>3, EditTyped DEF TypeOK
<1>5. CASE h \in window'
  <2>1. \A g \in Host \ window' : host'[g].file.sec = host[g].file.sec /\ own'[g] = own[g]
    BY <1>3, <1>5
  <2>2. \A q \in Proc : proc'[q].stage = "asked" => \A g \in proc'[q].hosts \ window' : GivesBack(proc[q], g)'
    <3>1. \A q \in Proc : proc[q].hosts \subseteq Host
      BY <1>1 DEF TypeOK, Request
    <3> QED
      BY <1>4, <2>1, <3>1 DEF SettingsInv, GivesBack
  <2> QED
    BY <1>4, <2>1, <2>2, Aside DEF Going
<1>6. CASE h \notin window'
  <2>1. \A q \in Proc : proc[q].stage = "idle"
    BY <1>2, <1>6 DEF Edit
  <2>2. Last' = Last /\ Now' = Now /\ NoneUnfinished' = NoneUnfinished /\ window \subseteq window'
    BY <1>4 DEF Last, Now, NoneUnfinished
  <2>3. ASSUME NEW g \in Host \ window' PROVE Known(g)' /\ (~NoneUnfinished' => Reverts(g)')
    <3>1. Known(g) /\ (~NoneUnfinished => Reverts(g))
      BY <2>2, <2>3 DEF SettingsInv
    <3>2. CASE g # h
      <4>1. host'[g] = host[g] /\ own'[g] = own[g]
        BY <1>3, <2>3, <3>2
      <4>2. Unsettled' = Unsettled
        BY <1>4, <2>2 DEF Unsettled, Going
      <4> QED
        BY <1>4, <2>2, <3>1, <4>1, <4>2 DEF Known, Reverts, Accounts, Mine
    <3>3. CASE g = h
      <4>1. Known(g)'
        BY <1>3, <3>3 DEF Known
      <4>2. ~NoneUnfinished' => Reverts(g)'
        BY <1>3, <1>4, <2>2, <3>1, <3>3 DEF Reverts, Accounts, Mine
      <4> QED
        BY <4>1, <4>2
    <3> QED
      BY <3>2, <3>3
  <2>4. \A g \in Host \ window' : \A i \in DOMAIN journals' : \A m \in 1..Last' + 1 :
           journals'[i].status = "committed" /\ Follows(i, m)' => Linked(i, m, g)'
    BY <1>4, <2>2 DEF SettingsInv, Follows, Linked, HomeAt
  <2>5. ASSUME NEW q \in Proc PROVE proc'[q].stage \notin {"asked"} \union Steps /\ ~Going(q)'
    BY <1>4, <2>1 DEF Going, Steps
  <2>6. Recorded(home)' /\ \A i \in DOMAIN journals' : Recorded(journals[i].home)'
    BY <1>4 DEF SettingsInv, Recorded
  <2> QED
    BY <1>4, <2>3, <2>4, <2>5, <2>6 DEF SettingsInv
<1> QED
  BY <1>5, <1>6

--------
(* The stages that write settings or their records. *)

\* The facts a writing stage starts from, for a host nobody else changed.
LEMMA GoingFacts ==
  ASSUME SettingsInv, NEW p \in Proc, Going(p)
  PROVE  /\ TypeInv /\ TypeOK /\ journals # <<>> /\ Last \in DOMAIN journals /\ Now \in Journal /\ Now.status = "active"
         /\ proc[p] \in Request /\ Standing(proc[p], Now) /\ Knows(proc[p]) /\ Running(p)
         /\ (\A q \in Proc \ {p} : ~Running(q)) /\ ~Unsettled /\ ~NoneUnfinished
         /\ \A h \in Host \ window :
              /\ Known(h) /\ Reverts(h) /\ Watched(proc[p], h) /\ (h \in proc[p].hosts => GivesBack(proc[p], h))
              /\ host[h].file.sec \in {own[h], "baseline"} /\ own[h] \in {"plain", "custom"}
              /\ host[h].file.sec = "baseline" => home.rec[h].on /\ home.rec[h].orig.sec = own[h]
<1>1. Running(p) /\ proc[p].stage \in Steps
  BY DEF Going, Running, Steps
<1>2. /\ TypeInv /\ TypeOK /\ journals # <<>> /\ Last \in DOMAIN journals /\ Now \in Journal /\ Now.status = "active"
      /\ proc[p] \in Request /\ Standing(proc[p], Now) /\ Knows(proc[p]) /\ \A q \in Proc \ {p} : ~Running(q)
  BY <1>1, RunFacts DEF SettingsInv
<1>3. ~Unsettled /\ ~NoneUnfinished
  BY <1>2 DEF Unsettled, NoneUnfinished, Now, Unfinished
<1>4. ASSUME NEW h \in Host \ window
      PROVE  /\ Known(h) /\ Reverts(h) /\ Watched(proc[p], h) /\ (h \in proc[p].hosts => GivesBack(proc[p], h))
             /\ host[h].file.sec \in {own[h], "baseline"} /\ own[h] \in {"plain", "custom"}
             /\ host[h].file.sec = "baseline" => home.rec[h].on /\ home.rec[h].orig.sec = own[h]
  <2>1. Known(h) /\ Reverts(h) /\ Watched(proc[p], h) /\ own[h] \in {"plain", "custom"}
    BY <1>2, <1>3, <1>4 DEF SettingsInv, Knows, TypeOK
  <2>2. h \in proc[p].hosts => GivesBack(proc[p], h)
    BY <1>1, <1>4 DEF SettingsInv
  <2> QED
    BY <1>3, <2>1, <2>2 DEF Known
<1> QED
  BY <1>1, <1>2, <1>3, <1>4

\* A step of a going command keeps the invariant if it keeps what is said of each host.
LEMMA StepKeeps ==
  ASSUME SettingsInv, NEW p \in Proc, Going(p), NEW r, NEW j, Step(p, r, j), r.stage \in Steps \ {"confirm"},
         r.op = proc[p].op, r.hosts = proc[p].hosts, r.old = proc[p].old, r.refresh = proc[p].refresh,
         proc[p].stage # "confirm", j.status = "active", j.home = Now.home, Recorded(home'),
         \A h \in Host : Tracked(r, h)',
         \A h \in Host \ window : Known(h)' /\ Reverts(h)' /\ Watched(r, h)'
  PROVE  SettingsInv'
<1>1. /\ TypeInv /\ TypeOK /\ journals # <<>> /\ Now.status = "active" /\ Last \in DOMAIN journals /\ Knows(proc[p])
      /\ \A q \in Proc \ {p} : ~Running(q)
  BY GoingFacts
<1>2. TypeInv'
  BY <1>1, StepTyped
<1>3. /\ Last' = Last /\ Now' = j /\ DOMAIN journals' = DOMAIN journals
      /\ \A i \in DOMAIN journals : journals'[i] = IF i = Last THEN j ELSE journals[i]
      /\ j \in Journal /\ journals' = [journals EXCEPT ![Last] = j]
  BY <1>1, Replaced DEF Step
<1>4. /\ proc'[p] = r /\ (\A q \in Proc \ {p} : proc'[q] = proc[q]) /\ own' = own /\ window' = window
  BY <1>1 DEF Step, TypeOK, ghosts
<1>5. \A i \in DOMAIN journals' : Recorded(journals'[i].home)
  BY <1>3 DEF SettingsInv, Recorded, Now
<1>6. ASSUME NEW h \in Host \ window', NEW i \in DOMAIN journals', NEW m \in 1..Last' + 1,
             journals'[i].status = "committed", Follows(i, m)'
      PROVE  Linked(i, m, h)'
  <2>1. \A n \in DOMAIN journals : \A l \in 1..Last + 1 :
            journals[n].status = "committed" /\ Follows(n, l) => Linked(n, l, h)
    BY <1>4, <1>6 DEF SettingsInv
  <2>2. Now.status \in Unfinished /\ j.status \in Unfinished
    BY <1>1 DEF Unfinished
  <2> QED
    BY <1>1, <1>3, <1>6, <2>1, <2>2, LinksStay
<1>7. ASSUME NEW q \in Proc, proc'[q].stage \in {"asked"} \union Steps, NEW h \in proc'[q].hosts \ window'
      PROVE  GivesBack(proc[q], h)'
  <2>1. proc[q].stage \in {"asked"} \union Steps /\ proc[q].hosts = proc'[q].hosts /\ proc[q].old = proc'[q].old
        /\ proc[q].op = proc'[q].op /\ proc[q].refresh = proc'[q].refresh
    BY <1>4, <1>7 DEF Going
  <2>2. GivesBack(proc[q], h)
    BY <1>4, <1>7, <2>1 DEF SettingsInv
  <2> QED
    BY <1>4, <2>1, <2>2 DEF GivesBack
<1>8. ASSUME NEW q \in Proc, Going(q)' PROVE Knows(proc[q])'
  <2>1. q = p
    BY <1>1, <1>4, <1>8 DEF Going, Running, Steps
  <2>2. proc'[q].stage # "confirm" /\ proc'[q].old.rec = Now'.home.rec
    BY <1>1, <1>3, <1>4, <2>1 DEF Knows
  <2>3. ASSUME NEW h \in Host PROVE Tracked(proc[q], h)'
    <3>1. proc'[q] = r /\ Tracked(r, h)'
      BY <1>4, <2>1
    <3> QED
      BY <3>1 DEF Tracked
  <2>4. ASSUME NEW h \in Host \ window' PROVE Watched(proc[q], h)'
    <3>1. proc'[q] = r /\ Watched(r, h)'
      BY <1>4, <2>1, <2>4
    <3> QED
      BY <3>1 DEF Watched
  <2> QED
    BY <2>2, <2>3, <2>4 DEF Knows
<1>9. \A h \in Host \ window' : Known(h)' /\ Reverts(h)'
  BY <1>4
<1> QED
  BY <1>2, <1>5, <1>6, <1>7, <1>8, <1>9 DEF SettingsInv, Recorded

\* A settings file is tracked, and the user's own comes back if one was recorded.
LEMMA TrackedBack ==
  ASSUME TypeOK, NEW j \in Journal, NEW h \in Host, NEW s \in HostState, NEW t \in HostState, InstallAssumption
  PROVE  LET u == Signed(Track(j, h, s), h, t)
         IN /\ u \in Journal /\ u.status = j.status /\ u.home = j.home /\ u.undo = j.undo
            /\ u.conf[h] \in Kept /\ u.conf[h].on = "file" /\ u.conf[h].before = s /\ u.conf[h].signed = t /\ ~u.conf[h].back
            /\ \A g \in Host \ {h} : u.conf[g] = j.conf[g]
<1> DEFINE k == [NoKept EXCEPT !.on = "file", !.before = s, !.signed = s]
           l == [k EXCEPT !.signed = t]
<1>1. k \in Kept /\ k.on = "file" /\ k.before = s /\ k.signed = s /\ ~k.back
  BY FreshTyped DEF NoKept, Kept
<1>2. l \in Kept /\ l.on = "file" /\ l.before = s /\ l.signed = t /\ ~l.back
  BY <1>1 DEF Kept
<1>3. Track(j, h, s) = [j EXCEPT !.conf[h] = k]
  BY DEF Track
<1> HIDE DEF k
<1>4. Track(j, h, s) \in Journal /\ Track(j, h, s).conf = [j.conf EXCEPT ![h] = k] /\ Track(j, h, s).conf[h] = k
      /\ Track(j, h, s).status = j.status /\ Track(j, h, s).home = j.home /\ Track(j, h, s).undo = j.undo
  BY <1>1, <1>3 DEF Journal
<1>5. Signed(Track(j, h, s), h, t) = [Track(j, h, s) EXCEPT !.conf[h].signed = t]
  BY <1>1, <1>4 DEF Signed
<1>6. Signed(Track(j, h, s), h, t) = [Track(j, h, s) EXCEPT !.conf = [j.conf EXCEPT ![h] = l]]
  BY <1>4, <1>5 DEF Journal
<1> HIDE DEF l
<1> DEFINE c == [j.conf EXCEPT ![h] = l]
<1>7. c \in [Host -> Kept] /\ c[h] = l /\ \A g \in Host \ {h} : c[g] = j.conf[g]
  BY <1>2 DEF Journal
<1> HIDE DEF c
<1>8. PICK i \in Journal : i = Track(j, h, s)
  BY <1>4
<1>9. Signed(Track(j, h, s), h, t) = [i EXCEPT !.conf = c]
  BY <1>6, <1>8 DEF c
<1>10. [i EXCEPT !.conf = c] \in Journal /\ [i EXCEPT !.conf = c].conf = c /\ [i EXCEPT !.conf = c].status = i.status
       /\ [i EXCEPT !.conf = c].home = i.home /\ [i EXCEPT !.conf = c].undo = i.undo
  BY <1>7 DEF Journal
<1> QED
  BY <1>2, <1>4, <1>7, <1>8, <1>9, <1>10

LEMMA RestoredTyped ==
  ASSUME NEW rec \in Record, NEW s \in HostState
  PROVE  LET t == Restored(rec, s)
         IN t \in HostState /\ t.file.sec = IF rec.on THEN rec.orig.sec ELSE s.file.sec
BY DEF Record, Restored, HostState

LEMMA TrackHostsKeeps == ASSUME InstallAssumption, SettingsInv, NEW p \in Proc, TrackHosts(p) PROVE SettingsInv'
<1>1. Going(p) /\ proc[p].stage = "track"
  BY DEF TrackHosts, Going, Steps
<1>2. /\ TypeInv /\ TypeOK /\ journals # <<>> /\ Last \in DOMAIN journals /\ Now \in Journal /\ Now.status = "active"
      /\ proc[p] \in Request /\ Standing(proc[p], Now) /\ Knows(proc[p]) /\ Running(p)
      /\ ~Unsettled /\ ~NoneUnfinished
      /\ \A h \in Host \ window :
           /\ Known(h) /\ Reverts(h) /\ Watched(proc[p], h) /\ (h \in proc[p].hosts => GivesBack(proc[p], h))
           /\ host[h].file.sec \in {own[h], "baseline"} /\ own[h] \in {"plain", "custom"}
           /\ host[h].file.sec = "baseline" => home.rec[h].on /\ home.rec[h].orig.sec = own[h]
  BY <1>1, GoingFacts
<1>3. PICK r : r = [proc[p] EXCEPT !.stage = "host"]
  OBVIOUS
<1>4. r \in Request /\ r.stage = "host" /\ r.op = proc[p].op /\ r.hosts = proc[p].hosts /\ r.ver = proc[p].ver
      /\ r.old = proc[p].old /\ r.cur = proc[p].cur /\ r.left = proc[p].left /\ r.refresh = proc[p].refresh
  BY <1>2, <1>3 DEF Request, Stage, Steps
<1>5. /\ r.hosts \subseteq Host /\ r.refresh \subseteq r.hosts /\ r.left \subseteq r.hosts /\ r.op \in {"install", "update"}
      /\ r.old \in Home
  BY <1>1, <1>2, <1>4 DEF Standing, Request, Tracking, Steps
<1>6. \A h \in Host : Now.conf[h].on = "no" /\ home.rec[h] = Now.home.rec[h] /\ r.old.rec[h] = Now.home.rec[h]
                      /\ home.rec[h] \in Record
  BY <1>1, <1>2, <1>4 DEF Knows, Tracked, Tracking, TypeOK, Home
<1> DEFINE after == [h \in Host |-> IF h \in r.refresh THEN Restored(r.old.rec[h], host[h]) ELSE host[h]]
           conf == [h \in Host |-> IF h \in r.hosts THEN Signed(Track(Now, h, host[h]), h, after[h]).conf[h] ELSE Now.conf[h]]
           rec == [h \in Host |-> IF h \in r.refresh THEN NoRecord ELSE home.rec[h]]
           j == [Now EXCEPT !.conf = conf]
           trust == IF r.hosts \cap DirHosts = {} THEN home.trust ELSE 0
<1>7. /\ host' = after /\ Save(j) /\ home' = [home EXCEPT !.rec = rec, !.trust = trust]
      /\ proc' = [proc EXCEPT ![p] = r] /\ UNCHANGED <<place, used, ghosts>>
  BY <1>3, <1>4 DEF TrackHosts, Go
<1>8. ASSUME NEW h \in Host
      PROVE  after[h] \in HostState /\ after[h].file.sec = IF h \in r.refresh /\ home.rec[h].on THEN home.rec[h].orig.sec
                                                           ELSE host[h].file.sec
  BY <1>2, <1>6, RestoredTyped DEF TypeOK
<1>9. after \in [Host -> HostState]
  BY <1>8
<1> HIDE DEF after
<1>10. ASSUME NEW h \in Host
       PROVE  /\ conf[h] \in Kept
              /\ h \notin r.hosts => conf[h] = Now.conf[h]
              /\ h \in r.hosts => conf[h].on = "file" /\ conf[h].before = host[h] /\ conf[h].signed = after[h] /\ ~conf[h].back
  <2>1. host[h] \in HostState /\ after[h] \in HostState /\ Now.conf[h] \in Kept
    BY <1>2, <1>8 DEF TypeOK, Journal
  <2> QED
    BY <1>2, <2>1, TrackedBack
<1>11. conf \in [Host -> Kept]
  BY <1>10
<1> HIDE DEF conf
<1>12. j \in Journal /\ j.status = "active" /\ j.home = Now.home /\ j.conf = conf
  BY <1>2, <1>11 DEF Journal
<1> HIDE DEF j
<1>13. rec \in [Host -> Record] /\ trust \in 0..MaxVersion /\ home \in Home
  BY <1>2, <1>6, Bounds, FreshTyped DEF NoRecord, Record, TypeOK, Home
<1>14. \A h \in Host : rec[h] = IF h \in r.refresh THEN NoRecord ELSE home.rec[h]
  OBVIOUS
<1> HIDE DEF rec, trust
<1>15. home' \in Home /\ home'.rec = rec
  BY <1>7, <1>13 DEF Home
<1>16. Step(p, r, j)
  <2>1. Standing(r, j)
    BY <1>1, <1>2, <1>4, <1>12 DEF Standing, Steps, Tracking, Installing, Uninstalling, InHost
  <2> QED
    BY <1>2, <1>4, <1>7, <1>9, <1>12, <1>15, <2>1 DEF Step, ghosts, Save, TypeOK
<1>17. Now' = j /\ own' = own /\ host' = after
  BY <1>2, <1>7, <1>12, Replaced DEF Save, ghosts
<1>18. Recorded(home')
  BY <1>14, <1>15 DEF SettingsInv, Recorded, NoRecord
<1>19. ASSUME NEW h \in Host PROVE Tracked(r, h)'
  BY <1>4, <1>5, <1>6, <1>10, <1>12, <1>14, <1>15, <1>17 DEF Tracked, Tracking, Installing, Uninstalling
<1>20. ASSUME NEW h \in Host \ window PROVE Known(h)' /\ Reverts(h)' /\ Watched(r, h)'
  <2>1. /\ Known(h) /\ Reverts(h) /\ Watched(proc[p], h) /\ (h \in r.hosts => GivesBack(proc[p], h))
        /\ host[h].file.sec \in {own[h], "baseline"} /\ own[h] \in {"plain", "custom"}
        /\ host[h].file.sec = "baseline" => home.rec[h].on /\ home.rec[h].orig.sec = own[h]
    BY <1>2, <1>4, <1>20
  <2>2. Accounts(host[h], Now.home.rec[h], own[h])
    BY <1>6, <1>20, <2>1 DEF Reverts
  <2>3. h \in r.refresh /\ home.rec[h].on => home.rec[h].orig.sec = own[h]
    BY <1>4, <1>5, <1>6, <1>20, <2>1 DEF GivesBack
  <2>4. CASE h \in r.refresh
    <3>1. host'[h].file.sec = own[h] /\ ~home'.rec[h].on
      BY <1>8, <1>14, <1>15, <1>17, <1>20, <2>1, <2>3, <2>4 DEF NoRecord
    <3>2. Now'.conf[h].on = "file" /\ Now'.conf[h].before = host[h] /\ Now'.conf[h].signed = host'[h] /\ ~Now'.conf[h].back
      BY <1>5, <1>10, <1>12, <1>17, <1>20, <2>4
    <3>3. Known(h)'
      BY <1>17, <2>1, <3>1 DEF Known
    <3>4. Reverts(h)'
      BY <1>12, <1>17, <2>2, <3>1, <3>2 DEF Reverts
    <3>5. Watched(r, h)'
      BY <1>4, <1>6, <1>12, <1>17, <1>20, <2>3, <2>4, <3>1, <3>2 DEF Watched, Uninstalling
    <3> QED
      BY <3>3, <3>4, <3>5
  <2>5. CASE h \in r.hosts \ r.refresh
    <3>1. host'[h].file.sec = host[h].file.sec /\ home'.rec[h] = home.rec[h]
      BY <1>8, <1>14, <1>15, <1>17, <1>20, <2>5
    <3>2. Now'.conf[h].on = "file" /\ Now'.conf[h].before = host[h] /\ Now'.conf[h].signed = host'[h] /\ ~Now'.conf[h].back
      BY <1>5, <1>10, <1>12, <1>17, <1>20, <2>5
    <3>3. Known(h)'
      BY <1>17, <2>1, <3>1 DEF Known
    <3>4. Reverts(h)'
      BY <1>6, <1>12, <1>17, <1>20, <2>1, <2>2, <3>1, <3>2 DEF Reverts
    <3>5. Watched(r, h)'
      BY <1>4, <1>6, <1>12, <1>17, <1>20, <3>1, <3>2 DEF Watched, Uninstalling
    <3> QED
      BY <3>3, <3>4, <3>5
  <2>6. CASE h \notin r.hosts
    <3>1. host'[h].file.sec = host[h].file.sec /\ home'.rec[h] = home.rec[h]
      BY <1>5, <1>8, <1>14, <1>15, <1>17, <1>20, <2>6
    <3>2. Now'.conf[h] = Now.conf[h] /\ Now'.conf[h].on = "no"
      BY <1>6, <1>10, <1>12, <1>17, <1>20, <2>6
    <3>3. Known(h)'
      BY <1>17, <2>1, <3>1 DEF Known
    <3>4. Reverts(h)'
      BY <1>6, <1>12, <1>17, <1>20, <2>1, <2>2, <3>1, <3>2 DEF Reverts, Accounts, Mine
    <3>5. Watched(r, h)'
      BY <1>4, <1>6, <1>12, <1>17, <1>20, <3>1, <3>2 DEF Watched, Uninstalling
    <3> QED
      BY <3>3, <3>4, <3>5
  <2> QED
    BY <1>5, <2>4, <2>5, <2>6
<1> QED
  BY <1>1, <1>4, <1>12, <1>16, <1>18, <1>19, <1>20, StepKeeps DEF Steps

LEMMA RestoreSettingsKeeps ==
  ASSUME InstallAssumption, SettingsInv, NEW p \in Proc, RestoreSettings(p)
  PROVE  SettingsInv'
<1>1. Going(p) /\ proc[p].stage = "restore" /\ proc[p].stage \in InHost
  BY DEF RestoreSettings, Going, Steps, InHost, Uninstalling
<1>2. /\ TypeInv /\ TypeOK /\ journals # <<>> /\ Last \in DOMAIN journals /\ Now \in Journal /\ Now.status = "active"
      /\ proc[p] \in Request /\ Standing(proc[p], Now) /\ Knows(proc[p]) /\ Running(p)
      /\ ~Unsettled /\ ~NoneUnfinished
      /\ \A g \in Host \ window :
           /\ Known(g) /\ Reverts(g) /\ Watched(proc[p], g) /\ (g \in proc[p].hosts => GivesBack(proc[p], g))
           /\ host[g].file.sec \in {own[g], "baseline"} /\ own[g] \in {"plain", "custom"}
           /\ host[g].file.sec = "baseline" => home.rec[g].on /\ home.rec[g].orig.sec = own[g]
  BY <1>1, GoingFacts
<1>3. PICK r : r = [proc[p] EXCEPT !.stage = "unplug"]
  OBVIOUS
<1>4. r \in Request /\ r.stage = "unplug" /\ r.op = proc[p].op /\ r.hosts = proc[p].hosts /\ r.ver = proc[p].ver
      /\ r.old = proc[p].old /\ r.cur = proc[p].cur /\ r.left = proc[p].left /\ r.refresh = proc[p].refresh
  BY <1>2, <1>3 DEF Request, Stage, Steps
<1>5. PICK h : h = r.cur
  OBVIOUS
<1>6. h \in Host /\ h \in r.hosts /\ r.op = "uninstall" /\ r.old \in Home /\ h \notin r.left
  BY <1>1, <1>2, <1>4, <1>5, AtHost DEF Standing, Request, Uninstalling, Knows, Tracked
<1>7. Now.conf[h].on = "no" /\ home.rec[h] = Now.home.rec[h] /\ r.old.rec[h] = Now.home.rec[h] /\ home.rec[h] \in Record
  BY <1>1, <1>2, <1>4, <1>5, <1>6 DEF Knows, Tracked, TypeOK, Home
<1> DEFINE s == Restored(home.rec[h], host[h])
           after == [host EXCEPT ![h] = s]
           j == Signed(Track(Now, h, host[h]), h, s)
<1>8. s \in HostState /\ s.file.sec = IF home.rec[h].on THEN home.rec[h].orig.sec ELSE host[h].file.sec
  BY <1>2, <1>6, <1>7, RestoredTyped DEF TypeOK
<1>9. host' = after /\ after[h] = s /\ Save(Signed(Track(Now, h, host[h]), h, after[h]))
      /\ proc' = [proc EXCEPT ![p] = r] /\ UNCHANGED <<place, home, used, ghosts>>
  BY <1>2, <1>3, <1>4, <1>5, <1>6 DEF RestoreSettings, GiveBack, Go, TypeOK
<1>10. Save(j)
  BY <1>9
<1> HIDE DEF s
<1>11. host' \in [Host -> HostState] /\ host'[h] = s /\ \A g \in Host \ {h} : host'[g] = host[g]
  BY <1>2, <1>6, <1>8, <1>9 DEF TypeOK
<1> HIDE DEF after
<1>12. /\ j \in Journal /\ j.status = "active" /\ j.home = Now.home
       /\ j.conf[h].on = "file" /\ j.conf[h].before = host[h] /\ j.conf[h].signed = s /\ ~j.conf[h].back
       /\ \A g \in Host \ {h} : j.conf[g] = Now.conf[g]
  <2>1. host[h] \in HostState
    BY <1>2, <1>6 DEF TypeOK
  <2> QED
    BY <1>2, <1>6, <1>8, <2>1, TrackedBack
<1> HIDE DEF j
<1>13. Step(p, r, j)
  <2>1. Standing(r, j)
    BY <1>1, <1>2, <1>4, <1>6, <1>12 DEF Standing, Steps, Tracking, Installing, Uninstalling, InHost
  <2> QED
    BY <1>2, <1>4, <1>9, <1>10, <1>11, <1>12, <2>1 DEF Step, ghosts, Save, TypeOK
<1>14. Now' = j /\ own' = own /\ home' = home
  BY <1>2, <1>9, <1>10, <1>12, Replaced DEF Save, ghosts
<1>15. Recorded(home')
  BY <1>14 DEF SettingsInv, Recorded
<1>16. ASSUME NEW g \in Host PROVE Tracked(r, g)'
  <2>1. Tracked(proc[p], g)
    BY <1>2 DEF Knows
  <2>2. CASE g = h
    BY <1>4, <1>6, <1>7, <1>12, <1>14, <2>2 DEF Tracked, Tracking, Installing, Uninstalling
  <2>3. CASE g # h
    <3>1. Now'.conf[g] = Now.conf[g]
      BY <1>12, <1>14, <2>3
    <3> QED
      BY <1>1, <1>4, <1>5, <1>6, <1>12, <1>14, <2>1, <2>3, <3>1 DEF Tracked, Tracking, Installing, Uninstalling
  <2> QED
    BY <2>2, <2>3
<1>17. ASSUME NEW g \in Host \ window PROVE Known(g)' /\ Reverts(g)' /\ Watched(r, g)'
  <2>1. /\ Known(g) /\ Reverts(g) /\ Watched(proc[p], g) /\ (g \in r.hosts => GivesBack(proc[p], g))
        /\ host[g].file.sec \in {own[g], "baseline"} /\ own[g] \in {"plain", "custom"}
        /\ host[g].file.sec = "baseline" => home.rec[g].on /\ home.rec[g].orig.sec = own[g]
    BY <1>2, <1>4, <1>17
  <2>2. CASE g = h
    <3>1. home.rec[h].on => home.rec[h].orig.sec = own[h]
      BY <1>4, <1>6, <1>7, <2>1, <2>2 DEF GivesBack
    <3>2. host'[h].file.sec = own[h]
      BY <1>8, <1>11, <2>1, <2>2, <3>1
    <3>3. Accounts(host[h], Now.home.rec[h], own[h])
      BY <1>7, <2>1, <2>2 DEF Reverts
    <3>4. Known(g)'
      BY <1>14, <2>1, <2>2, <3>2 DEF Known
    <3>5. Reverts(g)'
      BY <1>7, <1>11, <1>12, <1>14, <2>2, <3>2, <3>3 DEF Reverts
    <3>6. Watched(r, g)'
      BY <1>4, <1>7, <1>11, <1>12, <1>14, <2>1, <2>2, <3>2 DEF Watched
    <3> QED
      BY <3>4, <3>5, <3>6
  <2>3. CASE g # h
    <3>1. host'[g] = host[g] /\ Now'.conf[g] = Now.conf[g] /\ Now'.home = Now.home
      BY <1>11, <1>12, <1>14, <1>17, <2>3
    <3>2. Known(g)'
      BY <1>14, <2>1, <3>1 DEF Known
    <3>3. Reverts(g)'
      BY <1>14, <2>1, <3>1 DEF Reverts, Accounts, Mine
    <3>4. Watched(r, g)'
      BY <1>5, <1>14, <2>1, <2>3, <3>1 DEF Watched
    <3> QED
      BY <3>2, <3>3, <3>4
  <2> QED
    BY <2>2, <2>3
<1> QED
  BY <1>1, <1>4, <1>12, <1>13, <1>15, <1>16, <1>17, StepKeeps DEF Steps

LEMMA VerifyGoneKeeps == ASSUME InstallAssumption, SettingsInv, NEW p \in Proc, VerifyGone(p) PROVE SettingsInv'
<1>1. Going(p) /\ proc[p].stage = "gone" /\ proc[p].stage \in InHost
  BY DEF VerifyGone, Going, Steps, InHost, Uninstalling
<1>2. /\ TypeInv /\ TypeOK /\ journals # <<>> /\ Last \in DOMAIN journals /\ Now \in Journal /\ Now.status = "active"
      /\ proc[p] \in Request /\ Standing(proc[p], Now) /\ Knows(proc[p]) /\ Running(p)
      /\ ~Unsettled /\ ~NoneUnfinished
      /\ \A g \in Host \ window :
           /\ Known(g) /\ Reverts(g) /\ Watched(proc[p], g) /\ (g \in proc[p].hosts => GivesBack(proc[p], g))
           /\ host[g].file.sec \in {own[g], "baseline"} /\ own[g] \in {"plain", "custom"}
           /\ host[g].file.sec = "baseline" => home.rec[g].on /\ home.rec[g].orig.sec = own[g]
  BY <1>1, GoingFacts
<1>3. CASE Abort(p) /\ UNCHANGED home
  BY <1>2, <1>3, Skips DEF VerifyGone, Unspent
<1>4. CASE ~(Abort(p) /\ UNCHANGED home)
  <2>1. PICK r : r = [proc[p] EXCEPT !.stage = "host"]
    OBVIOUS
  <2>2. r \in Request /\ r.stage = "host" /\ r.op = proc[p].op /\ r.hosts = proc[p].hosts /\ r.ver = proc[p].ver
        /\ r.old = proc[p].old /\ r.cur = proc[p].cur /\ r.left = proc[p].left /\ r.refresh = proc[p].refresh
    BY <1>2, <2>1 DEF Request, Stage, Steps
  <2>3. PICK h : h = r.cur
    OBVIOUS
  <2>4. h \in Host /\ h \in r.hosts /\ r.op = "uninstall" /\ r.old \in Home
    BY <1>1, <1>2, <2>2, <2>3, AtHost DEF Standing, Request, Uninstalling
  <2>5. r.old.rec[h] = Now.home.rec[h] /\ Now.conf[h].on # "no"
    BY <1>1, <1>2, <2>2, <2>3, <2>4 DEF Knows, Tracked, Uninstalling
  <2> DEFINE trust == IF h \in DirHosts THEN 0 ELSE home.trust
  <2>6. /\ home' = [home EXCEPT !.rec[h] = NoRecord, !.trust = trust] /\ proc' = [proc EXCEPT ![p] = r]
        /\ UNCHANGED <<host, place, journals, used, ghosts>>
    BY <1>4, <2>1, <2>2, <2>3 DEF VerifyGone, Go
  <2>7. trust \in 0..MaxVersion /\ home \in Home /\ NoRecord \in Record /\ ~NoRecord.on
    BY <1>2, Bounds, FreshTyped DEF NoRecord, Record, TypeOK, Home
  <2> HIDE DEF trust
  <2>8. home' \in Home /\ home'.rec[h] = NoRecord /\ \A g \in Host \ {h} : home'.rec[g] = home.rec[g]
    BY <2>4, <2>6, <2>7 DEF Home
  <2>9. Step(p, r, Now)
    <3>1. Standing(r, Now)
      BY <1>1, <1>2, <2>2 DEF Standing, Steps, Tracking, Installing, Uninstalling, InHost
    <3>2. journals' = [journals EXCEPT ![Last] = Now]
      BY <1>2, <2>6 DEF TypeOK, Now
    <3> QED
      BY <1>2, <2>2, <2>6, <2>8, <3>1, <3>2 DEF Step, ghosts, TypeOK
  <2>10. Now' = Now /\ own' = own /\ host' = host
    BY <2>6 DEF Now, Last, ghosts
  <2>11. Recorded(home')
    BY <2>4, <2>7, <2>8 DEF SettingsInv, Recorded
  <2>12. ASSUME NEW g \in Host PROVE Tracked(r, g)'
    <3>1. Tracked(proc[p], g)
      BY <1>2 DEF Knows
    <3> QED
      BY <1>1, <2>2, <2>4, <2>5, <2>8, <2>10, <3>1 DEF Tracked, Tracking, Installing, Uninstalling
  <2>13. ASSUME NEW g \in Host \ window PROVE Known(g)' /\ Reverts(g)' /\ Watched(r, g)'
    <3>1. /\ Known(g) /\ Reverts(g) /\ Watched(proc[p], g) /\ (g \in r.hosts => GivesBack(proc[p], g))
          /\ host[g].file.sec \in {own[g], "baseline"} /\ own[g] \in {"plain", "custom"}
          /\ host[g].file.sec = "baseline" => home.rec[g].on /\ home.rec[g].orig.sec = own[g]
      BY <1>2, <2>2, <2>13
    <3>2. CASE g = h
      <4>1. host[g].file.sec # "baseline"
        BY <1>1, <2>2, <2>3, <3>1, <3>2 DEF Watched, Uninstalling
      <4>2. Known(g)'
        BY <2>10, <3>1, <4>1 DEF Known
      <4>3. Reverts(g)'
        BY <2>7, <2>8, <2>10, <3>1, <3>2 DEF Reverts, Accounts, Mine
      <4>4. Now.home.rec[g].on => Now.home.rec[g].orig.sec = own[g]
        BY <2>2, <2>4, <2>5, <3>1, <3>2 DEF GivesBack
      <4>5. Watched(r, g)'
        BY <2>2, <2>10, <3>1, <4>4 DEF Watched, Uninstalling
      <4> QED
        BY <4>2, <4>3, <4>5
    <3>3. CASE g # h
      <4>1. home'.rec[g] = home.rec[g]
        BY <2>8, <2>13, <3>3
      <4>2. Known(g)'
        BY <2>10, <3>1, <4>1 DEF Known
      <4>3. Reverts(g)'
        BY <2>10, <3>1, <4>1 DEF Reverts, Accounts, Mine
      <4>4. Watched(r, g)'
        BY <2>2, <2>10, <3>1, <4>1 DEF Watched, Uninstalling
      <4> QED
        BY <4>2, <4>3, <4>4
    <3> QED
      BY <3>2, <3>3
  <2> QED
    BY <1>1, <1>2, <2>2, <2>9, <2>11, <2>12, <2>13, StepKeeps DEF Steps
<1> QED
  BY <1>3, <1>4

LEMMA ApplySettingsKeeps ==
  ASSUME InstallAssumption, SettingsInv, NEW p \in Proc, ApplySettings(p)
  PROVE  SettingsInv'
<1>1. Going(p) /\ proc[p].stage = "settings"
  BY DEF ApplySettings, Going, Steps
<1>2. /\ TypeInv /\ TypeOK /\ journals # <<>> /\ Last \in DOMAIN journals /\ Now \in Journal /\ Now.status = "active"
      /\ proc[p] \in Request /\ Standing(proc[p], Now) /\ Knows(proc[p]) /\ Running(p)
      /\ ~Unsettled /\ ~NoneUnfinished
      /\ \A g \in Host \ window :
           /\ Known(g) /\ Reverts(g) /\ Watched(proc[p], g) /\ (g \in proc[p].hosts => GivesBack(proc[p], g))
           /\ host[g].file.sec \in {own[g], "baseline"} /\ own[g] \in {"plain", "custom"}
           /\ host[g].file.sec = "baseline" => home.rec[g].on /\ home.rec[g].orig.sec = own[g]
  BY <1>1, GoingFacts
<1>3. CASE proc[p].left = {} /\ Go(p, "record") /\ UNCHANGED <<host, home, journals>>
  <2>1. "record" \in Steps /\ <<proc[p].stage, "record">> \in Flow
    BY <1>1 DEF Steps, Flow
  <2> QED
    BY <1>2, <1>3, <2>1, Skips DEF ApplySettings, Unspent
<1>4. ASSUME NEW h \in proc[p].left,
             LET rec == home.rec[h]
                 after == [host EXCEPT ![h].file = Baseline(@)]
             IN IF rec.on
                THEN /\ IF host[h].file = rec.applied
                        THEN proc' = [proc EXCEPT ![p].left = @ \ {h}] ELSE Abort(p)
                     /\ UNCHANGED <<host, home, journals>>
                ELSE /\ host' = after
                     /\ Save(Signed(Now, h, after[h]))
                     /\ home' = [home EXCEPT !.rec[h] = [on |-> TRUE, orig |-> host[h].file,
                                                         applied |-> after[h].file]]
                     /\ proc' = [proc EXCEPT ![p].left = @ \ {h}]
      PROVE SettingsInv'
  <2>1. h \in Host /\ h \in proc[p].hosts /\ proc[p].op # "uninstall" /\ host[h] \in HostState /\ host[h].file \in File
        /\ UNCHANGED <<place, used, ghosts>>
    BY <1>1, <1>2 DEF Standing, Request, Installing, TypeOK, HostState, ApplySettings
  <2>2. PICK r : r = [proc[p] EXCEPT !.left = @ \ {h}]
    OBVIOUS
  <2>3. r \in Request /\ r.stage = "settings" /\ r.op = proc[p].op /\ r.hosts = proc[p].hosts /\ r.ver = proc[p].ver
        /\ r.old = proc[p].old /\ r.cur = proc[p].cur /\ r.left = proc[p].left \ {h} /\ r.refresh = proc[p].refresh
    BY <1>1, <1>2, <2>2 DEF Request
  <2>4. \A j : j.status = "active" => Standing(r, j)
    BY <1>1, <1>2, <2>3 DEF Standing, Steps, Tracking, Installing, Uninstalling, InHost
  <2>5. CASE home.rec[h].on
    <3>1. UNCHANGED <<host, place, home, journals, ghosts>> /\ Unspent
      BY <1>4, <2>1, <2>5 DEF Unspent
    <3>2. CASE Abort(p)
      BY <1>2, <3>1, <3>2, Skips
    <3>3. CASE proc' = [proc EXCEPT ![p].left = @ \ {h}]
      <4>1. CalmData(Now)
        BY <1>2, <3>1, SameData DEF Unspent, TypeOK
      <4>2. proc' = [proc EXCEPT ![p] = r]
        BY <2>2, <3>3
      <4>3. ASSUME NEW g \in Host PROVE Tracked(r, g)
        <5>1. Tracked(proc[p], g)
          BY <1>2 DEF Knows
        <5> QED
          BY <1>1, <2>3, <5>1 DEF Tracked, Tracking, Installing, Uninstalling
      <4>4. \A g \in Host \ window : Watched(r, g)
        BY <1>1, <1>2, <2>3 DEF Watched, Uninstalling
      <4>5. Knows(r)
        BY <1>1, <1>2, <2>3, <4>3, <4>4 DEF Knows
      <4> QED
        BY <1>1, <1>2, <2>3, <2>4, <4>1, <4>2, <4>5, CalmKeeps DEF Calm, CalmData, Step
    <3> QED
      BY <1>4, <2>5, <3>2, <3>3
  <2>6. CASE ~home.rec[h].on
    <3> DEFINE s == [host[h] EXCEPT !.file = Baseline(@)]
               rec == [on |-> TRUE, orig |-> host[h].file, applied |-> s.file]
               l == [Now.conf[h] EXCEPT !.signed = s]
               j == [Now EXCEPT !.conf[h].signed = s]
    <3>1. s \in HostState /\ s.file \in File /\ s.file.sec = "baseline"
      BY <2>1 DEF Baseline, HostState, File
    <3>2. Now.conf[h] \in Kept /\ Now.conf[h].on # "no"
      <4>1. Tracked(proc[p], h)
        BY <1>2, <2>1 DEF Knows
      <4> QED
        BY <1>1, <1>2, <2>1, <4>1 DEF Tracked, Installing, Journal
    <3>3. /\ host' = [host EXCEPT ![h] = s] /\ Save(j) /\ home' = [home EXCEPT !.rec[h] = rec]
          /\ proc' = [proc EXCEPT ![p] = r]
      <4>1. [host EXCEPT ![h].file = Baseline(@)][h] = s
        BY <1>2, <2>1 DEF TypeOK
      <4>2. Signed(Now, h, s) = j
        BY <3>2 DEF Signed
      <4> QED
        BY <1>4, <2>2, <2>6, <4>1, <4>2
    <3>4. rec \in Record /\ rec.on /\ rec.orig = host[h].file /\ rec.applied.sec = "baseline"
      BY <2>1, <3>1 DEF Record
    <3>5. l \in Kept /\ l.on = Now.conf[h].on /\ l.before = Now.conf[h].before /\ l.back = Now.conf[h].back /\ l.signed = s
      BY <3>1, <3>2 DEF Kept
    <3>6. j = [Now EXCEPT !.conf = [Now.conf EXCEPT ![h] = l]]
      BY <1>2 DEF Journal
    <3> HIDE DEF s, rec, l, j
    <3>7. /\ j \in Journal /\ j.status = "active" /\ j.home = Now.home /\ j.conf[h] = l
          /\ \A g \in Host \ {h} : j.conf[g] = Now.conf[g]
      <4> DEFINE c == [Now.conf EXCEPT ![h] = l]
      <4>1. c \in [Host -> Kept] /\ c[h] = l /\ \A g \in Host \ {h} : c[g] = Now.conf[g]
        BY <1>2, <2>1, <3>5 DEF Journal
      <4>2. j = [Now EXCEPT !.conf = c]
        BY <3>6
      <4> HIDE DEF c
      <4> QED
        BY <1>2, <4>1, <4>2 DEF Journal
    <3>8. host' \in [Host -> HostState] /\ host'[h] = s /\ \A g \in Host \ {h} : host'[g] = host[g]
      BY <1>2, <2>1, <3>1, <3>3 DEF TypeOK
    <3>9. home' \in Home /\ home'.rec[h] = rec /\ \A g \in Host \ {h} : home'.rec[g] = home.rec[g]
      <4>1. home \in Home
        BY <1>2 DEF TypeOK
      <4> QED
        BY <2>1, <3>3, <3>4, <4>1 DEF Home
    <3>10. Step(p, r, j)
      BY <1>2, <2>1, <2>3, <2>4, <3>3, <3>7, <3>8, <3>9 DEF Step, ghosts, Save, TypeOK
    <3>11. Now' = j /\ own' = own
      BY <1>2, <2>1, <3>3, <3>7, Replaced DEF Save, ghosts
    <3>12. Recorded(home')
      BY <3>4, <3>9 DEF SettingsInv, Recorded
    <3>13. ASSUME NEW g \in Host PROVE Tracked(r, g)'
      <4>1. Tracked(proc[p], g)
        BY <1>2 DEF Knows
      <4>2. (Now'.conf[g].on = "no") = (Now.conf[g].on = "no") /\ (Now.conf[g].on = "no" => home'.rec[g] = home.rec[g])
        BY <3>2, <3>5, <3>7, <3>9, <3>11
      <4> QED
        BY <1>1, <2>3, <3>7, <3>11, <4>1, <4>2 DEF Tracked, Tracking, Installing, Uninstalling
    <3>14. ASSUME NEW g \in Host \ window PROVE Known(g)' /\ Reverts(g)' /\ Watched(r, g)'
      <4>1. /\ Known(g) /\ Reverts(g) /\ Watched(proc[p], g)
            /\ host[g].file.sec \in {own[g], "baseline"} /\ own[g] \in {"plain", "custom"}
            /\ host[g].file.sec = "baseline" => home.rec[g].on /\ home.rec[g].orig.sec = own[g]
        BY <1>2, <3>14
      <4>2. CASE g = h
        <5>1. host[h].file.sec = own[h]
          BY <2>6, <4>1, <4>2
        <5>2. Now.home.rec[h].on => Now.home.rec[h].orig.sec = own[h]
          BY <2>6, <4>1, <4>2 DEF Watched
        <5>3. ~Now.conf[h].back /\ Accounts(Now.conf[h].before, Now.home.rec[h], own[h])
          BY <3>2, <4>1, <4>2 DEF Watched, Reverts
        <5>4. Known(g)'
          BY <3>1, <3>4, <3>8, <3>9, <3>11, <4>2, <5>1 DEF Known
        <5>5. Reverts(g)'
          BY <3>1, <3>2, <3>4, <3>5, <3>7, <3>8, <3>9, <3>11, <4>2, <5>1, <5>2, <5>3 DEF Reverts
        <5>6. Watched(r, g)'
          BY <2>3, <3>1, <3>2, <3>5, <3>7, <3>8, <3>11, <4>2, <5>2, <5>3 DEF Watched, Uninstalling
        <5> QED
          BY <5>4, <5>5, <5>6
      <4>3. CASE g # h
        <5>1. host'[g] = host[g] /\ Now'.conf[g] = Now.conf[g] /\ Now'.home = Now.home /\ home'.rec[g] = home.rec[g]
          BY <3>7, <3>8, <3>9, <3>11, <3>14, <4>3
        <5>2. Known(g)'
          BY <3>11, <4>1, <5>1 DEF Known
        <5>3. Reverts(g)'
          BY <3>11, <4>1, <5>1 DEF Reverts, Accounts, Mine
        <5>4. Watched(r, g)'
          BY <2>3, <3>11, <4>1, <5>1 DEF Watched, Uninstalling
        <5> QED
          BY <5>2, <5>3, <5>4
      <4> QED
        BY <4>2, <4>3
    <3> QED
      BY <1>1, <2>3, <3>7, <3>10, <3>12, <3>13, <3>14, StepKeeps DEF Steps
  <2> QED
    BY <2>5, <2>6
<1> QED
  BY <1>3, <1>4 DEF ApplySettings

--------
(* The ends of a transaction. *)

\* A transaction before the newest keeps what it links to, whatever the newest becomes.
LEMMA LinksBefore ==
  ASSUME TypeInv, journals # <<>>, NEW j \in Journal, journals' = [journals EXCEPT ![Last] = j],
         j.home = Now.home, NEW h \in Host, NEW i \in DOMAIN journals', NEW m \in 1..Last',
         i < Last', journals'[i].status = "committed", Follows(i, m)',
         \A n \in DOMAIN journals : \A l \in 1..Last + 1 :
            journals[n].status = "committed" /\ Follows(n, l) => Linked(n, l, h)
  PROVE  Linked(i, m, h)' /\ Linked(i, m, h) /\ journals[i].status = "committed"
<1>1. /\ Last' = Last /\ DOMAIN journals' = DOMAIN journals /\ DOMAIN journals = 1..Last /\ Last \in Nat
      /\ \A n \in DOMAIN journals : journals'[n] = IF n = Last THEN j ELSE journals[n]
  BY Replaced, NowTyped DEF TypeInv, TypeOK, Last
<1>2. i < Last /\ journals'[i] = journals[i]
  BY <1>1
<1>3. m \in DOMAIN journals /\ HomeAt(m)' = HomeAt(m)
  BY <1>1 DEF HomeAt, Now
<1>4. Follows(i, m)
  BY <1>1, <1>3 DEF Follows
<1> QED
  BY <1>1, <1>2, <1>3, <1>4 DEF Linked

LEMMA CommitKeeps == ASSUME InstallAssumption, SettingsInv, NEW p \in Proc, Commit(p) PROVE SettingsInv'
<1>1. Going(p) /\ proc[p].stage = "commit" /\ proc[p].stage # "confirm"
  BY DEF Commit, Going, Steps
<1>2. /\ TypeInv /\ TypeOK /\ journals # <<>> /\ Last \in DOMAIN journals /\ Now \in Journal /\ Now.status = "active"
      /\ proc[p] \in Request /\ Standing(proc[p], Now) /\ Knows(proc[p]) /\ Running(p)
      /\ (\A q \in Proc \ {p} : ~Running(q)) /\ ~Unsettled /\ ~NoneUnfinished
      /\ \A g \in Host \ window :
           /\ Known(g) /\ Reverts(g) /\ Watched(proc[p], g) /\ (g \in proc[p].hosts => GivesBack(proc[p], g))
           /\ host[g].file.sec \in {own[g], "baseline"} /\ own[g] \in {"plain", "custom"}
           /\ host[g].file.sec = "baseline" => home.rec[g].on /\ home.rec[g].orig.sec = own[g]
  BY <1>1, GoingFacts
<1> DEFINE j == [Now EXCEPT !.status = "committed"]
<1>3. j \in Journal /\ j.status = "committed" /\ j.home = Now.home /\ j.conf = Now.conf
  BY <1>2 DEF Journal
<1>4. journals' = [journals EXCEPT ![Last] = j] /\ proc' = [proc EXCEPT ![p] = Idle]
      /\ UNCHANGED <<host, place, home, used, ghosts>>
  BY DEF Commit, Save, Leave
<1> HIDE DEF j
<1>5. TypeInv'
  BY <1>2, <1>3, <1>4, IdleTyped, StepTyped DEF Step, ghosts, TypeOK
<1>6. /\ Last' = Last /\ Now' = j /\ DOMAIN journals' = DOMAIN journals /\ DOMAIN journals = 1..Last /\ Last \in Nat
      /\ \A i \in DOMAIN journals : journals'[i] = IF i = Last THEN j ELSE journals[i]
  <2>1. DOMAIN journals = 1..Last /\ Last \in Nat
    BY <1>2 DEF Last, TypeOK
  <2> QED
    BY <1>2, <1>3, <1>4, <2>1, Replaced
<1>7. proc'[p] = Idle /\ (\A q \in Proc \ {p} : proc'[q] = proc[q]) /\ own' = own /\ window' = window
  BY <1>2, <1>4 DEF TypeOK, ghosts
<1>8. NoneUnfinished'
  BY <1>2, <1>3, <1>6 DEF NoneUnfinished, TypeInv, Unfinished
<1>9. Recorded(home)' /\ \A i \in DOMAIN journals' : Recorded(journals[i].home)'
  BY <1>3, <1>4, <1>6 DEF SettingsInv, Recorded, Now
<1>10. ASSUME NEW h \in Host \ window' PROVE Known(h)'
  BY <1>2, <1>4, <1>7, <1>10 DEF Known
<1>11. ASSUME NEW h \in Host \ window', NEW i \in DOMAIN journals', NEW m \in 1..Last' + 1,
              journals'[i].status = "committed", Follows(i, m)'
       PROVE  Linked(i, m, h)'
  <2>1. CASE i = Last
    <3>1. m = Last + 1 /\ HomeAt(m)' = home
      BY <1>4, <1>6, <1>11, <2>1 DEF Follows, HomeAt
    <3>2. /\ Known(h) /\ Reverts(h) /\ Watched(proc[p], h) /\ Tracked(proc[p], h)
          /\ host[h].file.sec \in {own[h], "baseline"} /\ own[h] \in {"plain", "custom"}
          /\ host[h].file.sec = "baseline" => home.rec[h].on /\ home.rec[h].orig.sec = own[h]
      BY <1>2, <1>7, <1>11 DEF Knows
    <3>3. Now.conf[h].on = "no" => home.rec[h] = Now.home.rec[h]
      BY <3>2 DEF Tracked
    <3>4. Now.home.rec[h].on /\ home.rec[h].on => Now.home.rec[h].orig.sec = home.rec[h].orig.sec
      BY <3>2 DEF Reverts
    <3>5. CASE Now.conf[h].on # "no"
      <4>1. ~Now.conf[h].back /\ Now.conf[h].signed.file.sec = host[h].file.sec
        BY <3>2, <3>5 DEF Watched
      <4>2. Accounts(Now.conf[h].before, Now.home.rec[h], own[h])
        BY <3>2, <3>5, <4>1 DEF Reverts
      <4>3. Mine(Now.conf[h].signed, home.rec[h]) = own[h]
        BY <3>2, <4>1 DEF Mine
      <4> QED
        BY <1>3, <1>6, <2>1, <3>1, <3>2, <3>4, <3>5, <4>1, <4>2, <4>3 DEF Linked
    <3> QED
      BY <1>3, <1>6, <2>1, <3>1, <3>3, <3>4, <3>5 DEF Linked
  <2>2. CASE i # Last
    <3>1. i < Last' /\ m # Last + 1
      BY <1>3, <1>6, <1>11, <2>2 DEF Follows
    <3>2. m \in 1..Last'
      BY <1>6, <3>1
    <3>3. \A n \in DOMAIN journals : \A l \in 1..Last + 1 :
             journals[n].status = "committed" /\ Follows(n, l) => Linked(n, l, h)
      BY <1>7, <1>11 DEF SettingsInv
    <3> QED
      BY <1>2, <1>3, <1>4, <1>11, <3>1, <3>2, <3>3, LinksBefore
  <2> QED
    BY <2>1, <2>2
<1>12. ASSUME NEW q \in Proc
       PROVE  ~Going(q)' /\ (proc'[q].stage \in {"asked"} \union Steps =>
                               \A h \in proc'[q].hosts \ window' : GivesBack(proc[q], h)')
  <2>1. CASE q = p
    BY <1>7, <2>1, IdleTyped DEF Going, Steps
  <2>2. CASE q # p
    <3>1. proc'[q] = proc[q] /\ ~Going(q)
      BY <1>2, <1>7, <2>2 DEF Running, Going, Steps
    <3> QED
      BY <1>7, <3>1 DEF SettingsInv, Going, GivesBack
  <2> QED
    BY <2>1, <2>2
<1> QED
  BY <1>5, <1>8, <1>9, <1>10, <1>11, <1>12 DEF SettingsInv

\* The files go back: what the invariant says of one host whose command is being undone.
LEMMA PutBackHost ==
  ASSUME SettingsInv, NEW p \in Proc, proc[p].stage = "undo", NEW h \in Host \ window,
         NEW s, s = PutBack(Now.conf[h], host[h], host[h], Now.conf[h].before),
         NEW k, k = [Now.conf[h] EXCEPT
                       !.signed = PutBack(Now.conf[h], host[h], Now.conf[h].signed, Now.conf[h].before),
                       !.back = Now.conf[h].on # "no" /\ (@ \/ Same(Now.conf[h], host[h]))]
  PROVE  LET rec == Now.home.rec[h]
         IN /\ s.file.sec \in {own[h], "baseline"}
            /\ s.file.sec = "baseline" /\ rec.on => rec.orig.sec = own[h]
            /\ s.file.sec = "baseline" /\ ~rec.on => ~(Now.conf[h].back \/ Same(Now.conf[h], host[h]))
            /\ k.on = "no" \/ k.back => Accounts(s, rec, own[h])
            /\ k.on # "no" =>
                 /\ s.file.sec = k.signed.file.sec => Accounts(k.before, rec, own[h])
                 /\ k.signed.file.sec # "baseline" => Accounts(k.before, rec, k.signed.file.sec)
<1> DEFINE l == Now.conf[h]  rec == Now.home.rec[h]
<1>1. Running(p)
  BY DEF Running
<1>2. TypeInv /\ TypeOK /\ Now \in Journal /\ Now.status = "active" /\ Last \in DOMAIN journals
  BY <1>1, RunFacts DEF SettingsInv
<1>3. ~NoneUnfinished
  BY <1>2 DEF NoneUnfinished, Now, Unfinished
<1>4. Known(h) /\ Reverts(h) /\ own[h] \in {"plain", "custom"} /\ l \in Kept /\ host[h] \in HostState
  BY <1>2, <1>3 DEF SettingsInv, TypeOK, Journal
<1>5. /\ k.on = l.on /\ k.before = l.before /\ k.signed = PutBack(l, host[h], l.signed, l.before)
      /\ k.back = (l.on # "no" /\ (l.back \/ Same(l, host[h])))
  BY <1>4 DEF Kept
<1>6. rec.on /\ host[h].file.sec = "baseline" => rec.orig.sec = own[h]
  BY <1>4 DEF Known, Reverts
<1>7. /\ l.on = "no" \/ l.back => Accounts(host[h], rec, own[h])
      /\ l.on # "no" =>
           /\ host[h].file.sec = l.signed.file.sec => Accounts(l.before, rec, own[h])
           /\ l.signed.file.sec # "baseline" => Accounts(l.before, rec, l.signed.file.sec)
      /\ host[h].file.sec \in {own[h], "baseline"}
  BY <1>4 DEF Reverts, Known
<1> HIDE DEF l, rec
<1>8. s = PutBack(l, host[h], host[h], l.before)
  BY DEF l
<1>9. CASE l.on = "no" \/ l.back
  <2>1. s = host[h] /\ k.signed = l.signed
    BY <1>5, <1>8, <1>9 DEF PutBack
  <2> QED
    BY <1>4, <1>5, <1>6, <1>7, <1>9, <2>1 DEF Accounts, Mine, rec, l
<1>10. CASE l.on # "no" /\ ~l.back /\ SameFile(l, host[h])
  <2>1. s.file = l.before.file /\ k.signed.file = l.before.file /\ host[h].file.sec = l.signed.file.sec
    BY <1>5, <1>8, <1>10 DEF PutBack, SameFile
  <2>2. Accounts(l.before, rec, own[h])
    BY <1>7, <1>10, <2>1
  <2>3. Accounts(s, rec, own[h])
    BY <2>1, <2>2 DEF Accounts, Mine
  <2>4. s.file.sec # "baseline" => s.file.sec = own[h]
    BY <2>3 DEF Accounts, Mine
  <2>5. s.file.sec = "baseline" => rec.on /\ rec.orig.sec = own[h]
    BY <2>3 DEF Accounts, Mine
  <2> QED
    BY <1>5, <2>1, <2>2, <2>3, <2>4, <2>5 DEF rec, l
<1>11. CASE l.on # "no" /\ ~l.back /\ ~SameFile(l, host[h])
  <2>1. s.file = host[h].file /\ k.signed.file = l.signed.file /\ ~k.back /\ ~Same(l, host[h])
    <3>1. ~Same(l, host[h])
      BY <1>11 DEF Same
    <3>2. s.file = host[h].file /\ k.signed.file = l.signed.file
      BY <1>5, <1>8, <1>11 DEF PutBack
    <3>3. ~k.back
      BY <1>5, <1>11, <3>1
    <3> QED
      BY <3>1, <3>2, <3>3
  <2>2. /\ s.file.sec = k.signed.file.sec => Accounts(k.before, rec, own[h])
        /\ k.signed.file.sec # "baseline" => Accounts(k.before, rec, k.signed.file.sec)
    BY <1>5, <1>7, <1>11, <2>1
  <2> QED
    BY <1>5, <1>6, <1>7, <1>11, <2>1, <2>2 DEF rec, l
<1> QED
  BY <1>9, <1>10, <1>11

LEMMA PutBackTyped ==
  ASSUME NEW k \in Kept, NEW s \in HostState, NEW a \in HostState
  PROVE  PutBack(k, s, a, k.before) \in HostState
<1>1. k.before \in HostState
  BY DEF Kept
<1> QED
  BY <1>1 DEF PutBack, HostState

LEMMA RestoreFilesKeeps == ASSUME InstallAssumption, SettingsInv, NEW p \in Proc, RestoreFiles(p) PROVE SettingsInv'
<1>1. Running(p) /\ proc[p].stage = "undo"
  BY DEF RestoreFiles, Running
<1>2. /\ TypeInv /\ TypeOK /\ journals # <<>> /\ Last \in DOMAIN journals /\ Now \in Journal /\ Now.status = "active"
      /\ \A q \in Proc \ {p} : ~Running(q)
  BY <1>1, RunFacts DEF SettingsInv
<1> DEFINE ok == Whole(proc[p], Now)
           fresh(x) == Now.text[x].on /\ place[x] = Now.text[x].signed
           kept(k, s) == [k EXCEPT !.signed = PutBack(k, s, k.signed, k.before),
                                   !.back = k.on # "no" /\ (@ \/ Same(k, s))]
           status == IF ok THEN "rolled_back" ELSE "incomplete"
           conf == [h \in Host |-> kept(Now.conf[h], host[h])]
           text == [x \in Place |-> IF fresh(x) THEN NoText ELSE Now.text[x]]
           after == [h \in Host |-> PutBack(Now.conf[h], host[h], host[h], Now.conf[h].before)]
           j == [Now EXCEPT !.status = status, !.conf = conf, !.text = text]
<1>3. /\ host' = after /\ place' = [x \in Place |-> IF fresh(x) THEN Now.text[x].before ELSE place[x]]
      /\ home' = Now.home /\ journals' = [journals EXCEPT ![Last] = j] /\ proc' = [proc EXCEPT ![p] = Idle]
      /\ UNCHANGED <<used, begin, edited, own, theirs, window>> /\ shifted' = shifted \union {h \in Host : Skewed(Now, h)}
  BY DEF RestoreFiles, Save, Leave
<1>4. place' \in [Place -> Text]
  BY <1>2, <1>3 DEF TypeOK, Journal, KeptText
<1>5. \A h \in Host : Now.conf[h] \in Kept /\ host[h] \in HostState /\ Now.conf[h].signed \in HostState
  BY <1>2 DEF Journal, TypeOK, Kept
<1>6. ASSUME NEW h \in Host
      PROVE  after[h] \in HostState /\ conf[h] \in Kept /\ conf[h].on = Now.conf[h].on
  <2>1. after[h] \in HostState /\ PutBack(Now.conf[h], host[h], Now.conf[h].signed, Now.conf[h].before) \in HostState
    BY <1>5, PutBackTyped
  <2> DEFINE t == PutBack(Now.conf[h], host[h], Now.conf[h].signed, Now.conf[h].before)
             b == Now.conf[h].on # "no" /\ (Now.conf[h].back \/ Same(Now.conf[h], host[h]))
  <2>2. conf[h] = [Now.conf[h] EXCEPT !.signed = t, !.back = b]
    OBVIOUS
  <2>3. b \in BOOLEAN
    BY <1>5 DEF Kept
  <2> HIDE DEF t, b
  <2>4. [Now.conf[h] EXCEPT !.signed = t, !.back = b] \in Kept /\ [Now.conf[h] EXCEPT !.signed = t, !.back = b].on = Now.conf[h].on
    BY <1>5, <2>1, <2>3 DEF Kept, t
  <2> QED
    BY <2>1, <2>2, <2>4
<1>7. text \in [Place -> KeptText] /\ status \in {"rolled_back", "incomplete"}
  BY <1>2 DEF Journal, NoText, KeptText, Text
<1>8. conf \in [Host -> Kept] /\ after \in [Host -> HostState]
  BY <1>6
<1>9. ASSUME NEW h \in Host \ window
      PROVE  LET rec == Now.home.rec[h]
             IN /\ after[h].file.sec \in {own[h], "baseline"}
                /\ after[h].file.sec = "baseline" /\ rec.on => rec.orig.sec = own[h]
                /\ after[h].file.sec = "baseline" /\ ~rec.on => ~(Now.conf[h].back \/ Same(Now.conf[h], host[h]))
                /\ conf[h].on = "no" \/ conf[h].back => Accounts(after[h], rec, own[h])
                /\ conf[h].on # "no" =>
                     /\ after[h].file.sec = conf[h].signed.file.sec => Accounts(conf[h].before, rec, own[h])
                     /\ conf[h].signed.file.sec # "baseline" => Accounts(conf[h].before, rec, conf[h].signed.file.sec)
  BY <1>1, <1>9, PutBackHost
<1>10. status = "rolled_back" => \A h \in Host : Now.conf[h].back \/ Same(Now.conf[h], host[h])
  BY DEF Whole, Untouched
<1> HIDE DEF after, conf, text, status
<1>11. j \in Journal /\ j.status = status /\ j.home = Now.home /\ j.conf = conf
  BY <1>2, <1>7, <1>8 DEF Journal
<1> HIDE DEF j
<1>12. home' \in Home /\ host' = after /\ home'.rec = Now.home.rec
  BY <1>2, <1>3 DEF Journal
<1>13. TypeInv'
  BY <1>1, <1>2, <1>3, <1>4, <1>8, <1>11, <1>12, IdleTyped, StepTyped DEF Step, TypeOK
<1>14. /\ Last' = Last /\ Now' = j /\ DOMAIN journals' = DOMAIN journals /\ DOMAIN journals = 1..Last /\ Last \in Nat
       /\ \A i \in DOMAIN journals : journals'[i] = IF i = Last THEN j ELSE journals[i]
  <2>1. DOMAIN journals = 1..Last /\ Last \in Nat
    BY <1>2 DEF Last, TypeOK
  <2> QED
    BY <1>2, <1>3, <1>11, <2>1, Replaced
<1>15. proc'[p] = Idle /\ (\A q \in Proc \ {p} : proc'[q] = proc[q]) /\ own' = own /\ window' = window
  BY <1>2, <1>3 DEF TypeOK, ghosts
<1>16. ASSUME NEW q \in Proc
       PROVE  ~Going(q)' /\ (proc'[q].stage \in {"asked"} \union Steps =>
                               \A h \in proc'[q].hosts \ window' : GivesBack(proc[q], h)')
  <2>1. CASE q = p
    BY <1>15, <2>1, IdleTyped DEF Going, Steps
  <2>2. CASE q # p
    <3>1. proc'[q] = proc[q] /\ ~Going(q)
      BY <1>2, <1>15, <2>2 DEF Running, Going, Steps
    <3> QED
      BY <1>15, <3>1 DEF SettingsInv, Going, GivesBack
  <2> QED
    BY <2>1, <2>2
<1>17. status = "incomplete" => Unsettled'
  BY <1>2, <1>11, <1>14, <1>16 DEF Unsettled, NoneUnfinished, Unfinished
<1>18. status = "rolled_back" => NoneUnfinished'
  BY <1>2, <1>11, <1>14 DEF NoneUnfinished, Unfinished, TypeInv
<1>19. Recorded(home)' /\ \A i \in DOMAIN journals' : Recorded(journals[i].home)'
  <2>1. \A i \in DOMAIN journals : Recorded(journals[i].home)
    BY DEF SettingsInv
  <2>2. \A i \in DOMAIN journals' : Recorded(journals'[i].home)
    BY <1>2, <1>11, <1>14, <2>1 DEF Now
  <2> QED
    BY <1>2, <1>12, <1>14, <2>1, <2>2 DEF Recorded, Now
<1>20. ASSUME NEW h \in Host \ window' PROVE Known(h)'
  BY <1>7, <1>9, <1>10, <1>11, <1>12, <1>14, <1>15, <1>17, <1>20 DEF Known
<1>21. ASSUME NEW h \in Host \ window' PROVE Reverts(h)'
  BY <1>9, <1>11, <1>12, <1>14, <1>15, <1>21 DEF Reverts
<1>22. ASSUME NEW h \in Host \ window', NEW i \in DOMAIN journals', NEW m \in 1..Last' + 1,
              journals'[i].status = "committed", Follows(i, m)'
       PROVE  Linked(i, m, h)'
  <2>1. i < Last /\ i # Last
    BY <1>7, <1>11, <1>14, <1>22
  <2>2. \A n \in DOMAIN journals : \A l \in 1..Last + 1 :
           journals[n].status = "committed" /\ Follows(n, l) => Linked(n, l, h)
    BY <1>15, <1>22 DEF SettingsInv
  <2>3. CASE m # Last + 1
    <3>1. m \in 1..Last'
      BY <1>14, <1>22, <2>3
    <3> QED
      BY <1>2, <1>3, <1>11, <1>14, <1>22, <2>1, <2>2, <3>1, LinksBefore
  <2>4. CASE m = Last + 1
    <3>1. Follows(i, Last)' /\ Last \in 1..Last'
      BY <1>2, <1>14, <1>22, <2>1, <2>4 DEF Follows
    <3>2. Linked(i, Last, h) /\ journals'[i] = journals[i]
      BY <1>2, <1>3, <1>11, <1>14, <1>22, <2>1, <2>2, <3>1, LinksBefore
    <3>3. HomeAt(m)' = HomeAt(Last)
      BY <1>2, <1>3, <1>14, <2>4 DEF HomeAt, Now
    <3> QED
      BY <3>2, <3>3 DEF Linked
  <2> QED
    BY <2>3, <2>4
<1> QED
  BY <1>13, <1>16, <1>19, <1>20, <1>21, <1>22 DEF SettingsInv

LEMMA StartRollbackKeeps ==
  ASSUME InstallAssumption, SettingsInv, NEW p \in Proc, StartRollback(p)
  PROVE  SettingsInv'
<1>1. TypeInv /\ TypeOK /\ proc[p].stage = "idle" /\ Free /\ Rollbackable # {}
  BY DEF SettingsInv, TypeInv, StartRollback
<1>2. journals \in Seq(Journal) /\ DOMAIN journals = 1..Last /\ Last \in Nat
  BY <1>1 DEF TypeOK, Last
<1>3. PICK i : i = Largest(Rollbackable)
  OBVIOUS
<1>4. i \in Rollbackable /\ \A n \in Rollbackable : n <= i
  <2>1. Rollbackable \in SUBSET Nat /\ \A n \in Rollbackable : n <= Last
    BY <1>2 DEF Rollbackable
  <2> QED
    BY <1>1, <1>2, <1>3, <2>1, LargestFound
<1>5. i \in 1..Last /\ journals[i].status # "rolled_back" /\ journals[i] \in Journal
  BY <1>2, <1>4 DEF Rollbackable
<1>6. \A l \in 1..Last : i < l => journals[l].status = "rolled_back"
  BY <1>2, <1>4, <1>5 DEF Rollbackable
<1> DEFINE j == [journals[i] EXCEPT !.status = "active"]
           r == [Idle EXCEPT !.stage = "undo", !.op = "rollback", !.k = Len(journals[i].undo)]
<1>7. /\ journals' = Append(SubSeq(journals, 1, i - 1), j) /\ begin' = SubSeq(begin, 1, i)
      /\ edited' = edited \cap 1..i /\ proc' = [proc EXCEPT ![p] = r]
      /\ used' = [used EXCEPT !.ops = @ + IF NoneUnfinished THEN 1 ELSE 0]
      /\ UNCHANGED <<host, place, home, own, theirs, window, shifted>>
  BY <1>3 DEF StartRollback
<1>8. j \in Journal /\ j.status = "active" /\ j.home = journals[i].home /\ j.conf = journals[i].conf
      /\ j.undo = journals[i].undo /\ Len(j.undo) \in Nat
  BY <1>5 DEF Journal
<1>9. r \in Request /\ r.stage = "undo" /\ r.op = "rollback" /\ r.hosts = {} /\ r.k = Len(j.undo) /\ r.refresh = {} /\ r.left = {}
  BY <1>8, IdleTyped DEF Request, Stage
<1> HIDE DEF j, r
<1>10. /\ journals' \in Seq(Journal) /\ Len(journals') = i /\ journals'[i] = j
       /\ \A n \in 1..i - 1 : journals'[n] = journals[n]
  BY <1>2, <1>5, <1>7, <1>8 DEF Last
<1>11. Last' = i /\ Now' = j /\ DOMAIN journals' = 1..i /\ journals' # <<>> /\ i \in Nat
  BY <1>5, <1>10 DEF Last, Now
<1>12. proc' \in [Proc -> Request] /\ proc'[p] = r /\ \A q \in Proc \ {p} : proc'[q] = proc[q]
  BY <1>1, <1>7, <1>9 DEF TypeOK
<1>13. TypeInv'
  <2>1. TypeOK'
    <3>1. begin' \in Seq(World) /\ Len(begin') = Len(journals')
      <4>1. begin \in Seq(World) /\ i \in 1..Len(begin)
        BY <1>1, <1>2, <1>5 DEF TypeOK, Last
      <4> QED
        BY <1>7, <1>10, <4>1
    <3>2. edited' \subseteq DOMAIN journals'
      BY <1>7, <1>11
    <3>3. used' \in [ops : Nat, edits : Nat, upsets : Nat]
      <4>1. used \in [ops : Nat, edits : Nat, upsets : Nat]
        BY <1>1 DEF TypeOK
      <4>2. PICK n \in Nat : used' = [used EXCEPT !.ops = @ + n]
        BY <1>7
      <4> QED
        BY <4>1, <4>2
    <3> QED
      BY <1>1, <1>7, <1>10, <1>12, <3>1, <3>2, <3>3 DEF TypeOK
  <2>2. \A q \in Proc : Running(q)' <=> q = p
    BY <1>1, <1>9, <1>12 DEF Free, Running
  <2>3. Standing(r, j)
    BY <1>8, <1>9 DEF Standing, Steps, Tracking, Installing, Uninstalling, InHost
  <2>4. ASSUME NEW q \in Proc \ {p} PROVE Standing(proc[q], j)
    <3>1. Standing(proc[q], Now) /\ proc[q].stage \notin {"undo"} \union Steps
      BY <1>1 DEF TypeInv, Free, Running, Steps
    <3> QED
      BY <3>1 DEF Standing
  <2>5. \A q \in Proc : Standing(proc'[q], Now')
    BY <1>11, <1>12, <2>3, <2>4
  <2>6. \A q \in Proc : Standing(proc[q], Now)'
    BY <2>5 DEF Standing
  <2>7. ASSUME NEW n \in DOMAIN journals', journals'[n].status \in Unfinished PROVE n = Last'
    <3>1. CASE n # i
      <4>1. n \in DOMAIN journals /\ journals[n].status \in Unfinished /\ n < i
        BY <1>2, <1>5, <1>10, <1>11, <2>7, <3>1
      <4>2. n = Last
        BY <1>1, <4>1 DEF TypeInv
      <4> QED
        BY <1>2, <1>5, <4>1, <4>2
    <3> QED
      BY <1>11, <3>1
  <2> QED
    BY <1>11, <2>1, <2>2, <2>6, <2>7 DEF TypeInv
<1>14. ASSUME NEW q \in Proc
       PROVE  ~Going(q)' /\ ~Going(q) /\ (proc'[q].stage \in {"asked"} \union Steps =>
                               \A h \in proc'[q].hosts \ window' : GivesBack(proc[q], h)')
  <2>1. CASE q = p
    BY <1>1, <1>9, <1>12, <2>1 DEF Going, Steps
  <2>2. CASE q # p
    <3>1. proc'[q] = proc[q] /\ ~Going(q)
      BY <1>1, <1>12, <2>2 DEF Free, Running, Going, Steps
    <3> QED
      BY <1>7, <3>1 DEF SettingsInv, Going, GivesBack
  <2> QED
    BY <2>1, <2>2
<1>15. ~NoneUnfinished' /\ Unsettled'
  BY <1>5, <1>8, <1>10, <1>11, <1>14 DEF NoneUnfinished, Unfinished, Unsettled
<1>16. Recorded(home)' /\ \A n \in DOMAIN journals' : Recorded(journals[n].home)'
  <2>1. \A n \in DOMAIN journals : Recorded(journals[n].home)
    BY DEF SettingsInv
  <2>2. \A n \in 1..i : Recorded(journals'[n].home)
    BY <1>2, <1>5, <1>8, <1>10, <2>1
  <2> QED
    BY <1>7, <1>11, <2>2 DEF SettingsInv, Recorded
<1>17. ASSUME journals[i].status = "committed", NEW h \in Host \ window' PROVE Known(h)' /\ Reverts(h)'
  <2>1. NoneUnfinished
    <3>1. ASSUME NEW n \in DOMAIN journals, journals[n].status \in Unfinished PROVE FALSE
      <4>0. n = Last
        BY <1>1, <3>1 DEF TypeInv
      <4>1. n = Last /\ n # i /\ n <= i
        BY <1>2, <1>5, <1>6, <1>17, <3>1, <4>0 DEF Unfinished
      <4> QED
        BY <1>2, <1>5, <4>1
    <3> QED
      BY <3>1 DEF NoneUnfinished
  <2>2. Known(h) /\ ~Unsettled /\ own[h] \in {"plain", "custom"}
    BY <1>1, <1>7, <1>17, <2>1 DEF SettingsInv, Unsettled, TypeOK
  <2>3. /\ host[h].file.sec \in {own[h], "baseline"}
        /\ host[h].file.sec = "baseline" => home.rec[h].on /\ home.rec[h].orig.sec = own[h]
    BY <2>2 DEF Known
  <2>4. Linked(i, Last + 1, h)
    <3>1. Follows(i, Last + 1) /\ Last + 1 \in 1..Last + 1 /\ i \in DOMAIN journals
      BY <1>2, <1>5, <1>6 DEF Follows
    <3> QED
      BY <1>7, <1>17, <3>1 DEF SettingsInv
  <2>5. HomeAt(Last + 1) = home
    BY <1>2 DEF HomeAt
  <2> DEFINE k == j.conf[h]  rec == j.home.rec[h]  next == home.rec[h]
  <2>6. /\ k.on = "no" => next = rec
        /\ k.on # "no" => /\ ~k.back
                          /\ k.signed.file.sec = "baseline" => next.on
                          /\ Accounts(k.before, rec, Mine(k.signed, next))
        /\ rec.on /\ next.on => rec.orig.sec = next.orig.sec
    BY <1>8, <2>4, <2>5 DEF Linked
  <2> HIDE DEF k, rec, next
  <2>7. Known(h)'
    BY <1>7, <2>3 DEF Known
  <2>8. k.on = "no" => Accounts(host[h], rec, own[h])
    BY <2>3, <2>6 DEF Accounts, Mine, next
  <2>9. k.on # "no" /\ host[h].file.sec = k.signed.file.sec => Accounts(k.before, rec, own[h])
    BY <2>3, <2>6 DEF Mine, next
  <2>10. k.on # "no" /\ k.signed.file.sec # "baseline" => Accounts(k.before, rec, k.signed.file.sec)
    BY <2>6 DEF Mine
  <2>11. Reverts(h)'
    BY <1>7, <1>11, <2>6, <2>8, <2>9, <2>10 DEF Reverts, k, rec, next
  <2> QED
    BY <2>7, <2>11
<1>18. ASSUME journals[i].status # "committed", NEW h \in Host \ window' PROVE Known(h)' /\ Reverts(h)'
  <2>1. journals[i].status \in Unfinished
    BY <1>5, <1>18 DEF Journal, Unfinished
  <2>2. i = Last /\ Now = journals[i] /\ ~NoneUnfinished
    BY <1>1, <1>2, <1>5, <2>1 DEF TypeInv, NoneUnfinished, Now
  <2>3. Known(h) /\ Reverts(h)
    BY <1>7, <1>18, <2>2 DEF SettingsInv
  <2>4. Unsettled /\ Unsettled'
    BY <1>14, <1>15, <2>2 DEF Unsettled
  <2>5. Known(h)'
    BY <1>7, <1>8, <1>11, <2>2, <2>3, <2>4 DEF Known
  <2>6. Reverts(h)'
    BY <1>7, <1>8, <1>11, <2>2, <2>3 DEF Reverts, Accounts, Mine
  <2> QED
    BY <2>5, <2>6
<1>19. ASSUME NEW h \in Host \ window', NEW n \in DOMAIN journals', NEW m \in 1..Last' + 1,
              journals'[n].status = "committed", Follows(n, m)'
       PROVE  Linked(n, m, h)'
  <2>1. n # i /\ n < i /\ n \in 1..i - 1 /\ n \in DOMAIN journals /\ journals'[n] = journals[n]
    BY <1>2, <1>5, <1>8, <1>10, <1>11, <1>19
  <2>2. m # i + 1
    BY <1>8, <1>10, <1>11, <1>19, <2>1 DEF Follows
  <2>3. m \in 1..i /\ m \in DOMAIN journals /\ m \in DOMAIN journals' /\ m \in 1..Last + 1
    BY <1>2, <1>5, <1>11, <2>2
  <2>4. HomeAt(m)' = HomeAt(m)
    BY <1>8, <1>10, <2>3 DEF HomeAt
  <2>5. Follows(n, m)
    BY <1>2, <1>5, <1>10, <1>11, <1>19, <2>3 DEF Follows
  <2>6. Linked(n, m, h)
    BY <1>7, <1>19, <2>1, <2>3, <2>5 DEF SettingsInv
  <2> QED
    BY <2>1, <2>4, <2>6 DEF Linked
<1> QED
  BY <1>13, <1>14, <1>16, <1>17, <1>18, <1>19 DEF SettingsInv

--------
(* The theorems. *)

LEMMA InitHolds == ASSUME InstallAssumption, Init PROVE SettingsInv
<1>1. host \in [Host -> HostState] /\ place \in [Place -> Text] /\ home \in Home
  BY Bounds, FreshTyped DEF Init, Text, EmptyHome, Home, NoRecord, Record
<1>2. journals = <<>> /\ begin = <<>> /\ edited = {} /\ theirs = {} /\ window = {} /\ shifted = {}
      /\ own = [h \in Host |-> "plain"] /\ used = [ops |-> 0, edits |-> 0, upsets |-> 0]
      /\ proc = [p \in Proc |-> Idle] /\ host = [h \in Host |-> Fresh] /\ home = EmptyHome
  BY DEF Init
<1>3. proc \in [Proc -> Request]
  BY <1>2, IdleTyped
<1>4. TypeOK
  BY <1>1, <1>2, <1>3 DEF TypeOK
<1>5. \A p \in Proc : proc[p] = Idle /\ ~Running(p) /\ ~Going(p)
  BY <1>2, IdleTyped DEF Running, Going, Steps
<1>6. TypeInv
  BY <1>2, <1>4, <1>5, IdleTyped DEF TypeInv
<1>7. NoneUnfinished
  BY <1>2 DEF NoneUnfinished
<1>8. Recorded(home)
  BY <1>2 DEF Recorded, EmptyHome, NoRecord
<1>9. \A h \in Host : Known(h)
  BY <1>2 DEF Known, Fresh
<1>10. \A p \in Proc : proc[p].stage \notin {"asked"} \union Steps
  BY <1>5, IdleTyped DEF Steps
<1> QED
  BY <1>2, <1>5, <1>6, <1>7, <1>8, <1>9, <1>10 DEF SettingsInv

LEMMA StutterHolds == ASSUME SettingsInv, UNCHANGED vars PROVE SettingsInv'
<1>1. UNCHANGED <<host, place, home, journals, proc, used, begin, edited, own, theirs, window, shifted>>
  BY DEF vars, ghosts
<1>2. Last' = Last /\ Now' = Now
  BY <1>1 DEF Last, Now
<1>3. TypeInv'
  <2>1. TypeOK'
    BY <1>1 DEF SettingsInv, TypeInv, TypeOK
  <2> QED
    BY <1>1, <1>2, <2>1 DEF SettingsInv, TypeInv, Running, Standing
<1>4. \A q \in Proc : proc'[q].stage = "asked" => \A g \in proc'[q].hosts \ window' : GivesBack(proc[q], g)'
  BY <1>1 DEF SettingsInv, GivesBack
<1> QED
  BY <1>1, <1>3, <1>4, Aside DEF Going

LEMMA NextHolds == ASSUME InstallAssumption, SettingsInv, [Next]_vars PROVE SettingsInv'
<1>1. ASSUME NEW p \in Proc, Stages(p) PROVE SettingsInv'
  BY <1>1, WriteFilesKeeps, TrackHostsKeeps, NextHostKeeps, PrepareKeeps, SwitchCacheKeeps, RemoveMarketKeeps,
     AddMarketKeeps, DropDisabledKeeps, AddPluginKeeps, VerifyKeeps, ApplySettingsKeeps, RecordInstallKeeps,
     RestoreSettingsKeeps, RemovePluginKeeps, RemoveOwnedMarketKeeps, VerifyGoneKeeps, ForgetKeeps, CommitKeeps DEF Stages
<1>2. ASSUME NEW p \in Proc,
             \/ AskInstall(p) \/ AskUpdate(p) \/ AskUninstall(p)
             \/ Begin(p) \/ Confirm(p) \/ Stages(p)
             \/ StartRollback(p) \/ UndoNext(p) \/ RestoreFiles(p)
             \/ Attest(p) \/ Fail(p) \/ Crash(p)
      PROVE  SettingsInv'
  BY <1>1, <1>2, AsksKeep, BeginKeeps, ConfirmKeeps, StartRollbackKeeps, UndoNextKeeps, RestoreFilesKeeps,
     AttestKeeps, FailsKeep
<1>3. ASSUME NEW h \in Host, EditSettings(h) \/ RunManager(h) PROVE SettingsInv'
  BY <1>3, EditSettingsKeeps, RunManagerKeeps
<1> QED
  BY <1>2, <1>3, WritePlaceKeeps, StutterHolds DEF Next

(* For every set of hosts, commands and files, what SettingsInv says of records,
   files, journals and commands holds in every state: a record always knows what
   the user had before the baseline, and every journal can give it back
   (operations.py:1266-1282, 1488-1498, transaction.py:461-506, security.py:126-184). *)
THEOREM SettingsInvariant == ASSUME InstallAssumption PROVE Spec => []SettingsInv
<1>1. Init => SettingsInv
  BY InitHolds
<1>2. SettingsInv /\ [Next]_vars => SettingsInv'
  BY NextHolds
<1> QED
  BY <1>1, <1>2, PTL DEF Spec

(* Every variable keeps the form the code gives it, whatever the commands, the
   crashes and the user do; above all a rollback never counts beyond the commands
   it recorded, and there is one recorded beginning for each journal. *)
THEOREM InstallTypeCorrect == ASSUME InstallAssumption PROVE Spec => []TypeOK
<1>1. SettingsInv => TypeOK
  BY DEF SettingsInv, TypeInv
<1> QED
  BY <1>1, SettingsInvariant, PTL

(* With no command running and no journal unfinished, a host the user did not edit
   under a running command has the user's own security settings, or a record that
   the baseline is applied: after any order of installs, updates, uninstalls,
   failures, crashes and rollbacks (security.py:4-6). *)
THEOREM SettingsComeBack == ASSUME InstallAssumption PROVE Spec => []SettingsReturn
<1>1. SettingsInv => SettingsReturn
  <2> SUFFICES ASSUME SettingsInv, Quiet, NEW h \in Host \ window, ~home.rec[h].on PROVE host[h].file.sec = own[h]
    BY DEF SettingsReturn
  <2>1. Known(h) /\ ~Unsettled
    BY DEF SettingsInv, Quiet, Unsettled
  <2> QED
    BY <2>1 DEF Known
<1> QED
  BY <1>1, SettingsInvariant, PTL

--------
(* An ordinary update leaves hook paths in place: in a live host it journals no  *)
(* command that ends one, and of a cache it watches only the settings (HookInv). *)

\* What may be done or undone in a host whose sessions still run from its cache.
HookOps == {"market add", "market remove", "select"}
Ordinary(r) == r.op = "update" /\ ~r.restart
Spares(r, j) ==
  /\ \A g \in Host : j.conf[g].on # "all"
  /\ \A g \in DirHosts : Live(r, g) =>
       \A k \in DOMAIN j.undo : j.undo[k].cmd.host = g => j.undo[k].cmd.op \in HookOps
HookInv ==
  \A p \in Proc : /\ proc[p].op = "update" => proc[p].hosts \subseteq proc[p].old.hosts
                  /\ Updating(p) => Spares(proc[p], Now)

\* Every path that resolves in s resolves in t.
Resolves(s, t) == \A v \in Version : s.dirs[v] # "none" => t.dirs[v] # "none"
PathsHeld ==
  \A h \in DirHosts : (\E p \in Proc : Updating(p) /\ Live(proc[p], h)) => Resolves(host[h], host'[h])

\* A step of the command that holds the lock, which stays the command it was.
SameTask(r, t) ==
  /\ t.op = r.op /\ t.ver = r.ver /\ t.restart = r.restart /\ t.hosts = r.hosts
  /\ t.old = r.old /\ t.inv = r.inv /\ t.ptr = r.ptr
Turn(p) ==
  /\ \A q \in Proc \ {p} : proc'[q] = proc[q]
  /\ proc'[p] = Idle \/ SameTask(proc[p], proc'[p])
HookStep(p) ==
  /\ Running(p) /\ Turn(p) /\ Last' = Last
  /\ Ordinary(proc[p]) =>
       /\ Spares(proc[p], Now')
       /\ \A g \in DirHosts : Live(proc[p], g) => Resolves(host[g], host'[g])

LEMMA SameLive ==
  ASSUME NEW r, NEW t, SameTask(r, t), NEW g PROVE Live(t, g) <=> Live(r, g)
BY DEF SameTask, Live, Replaces, Replacing, Previous

LEMMA HookStepDoes ==
  ASSUME TypeInv, HookInv, NEW p \in Proc, HookStep(p)
  PROVE  HookInv' /\ PathsHeld
<1>1. \A q \in Proc \ {p} : ~Running(q) /\ proc'[q] = proc[q]
  BY DEF TypeInv, HookStep, Turn
<1>2. PathsHeld
  BY <1>1 DEF PathsHeld, Updating, HookStep, Ordinary
<1>3. ASSUME NEW q \in Proc \ {p}
      PROVE  /\ proc'[q].op = "update" => proc'[q].hosts \subseteq proc'[q].old.hosts
             /\ Updating(q)' => Spares(proc'[q], Now')
  BY <1>1 DEF HookInv, Updating, Running
<1>4. /\ proc'[p].op = "update" => proc'[p].hosts \subseteq proc'[p].old.hosts
      /\ Updating(p)' => Spares(proc'[p], Now')
  <2>1. CASE proc'[p] = Idle
    BY <2>1 DEF Idle, Updating
  <2>2. CASE SameTask(proc[p], proc'[p])
    <3>1. proc'[p].op = "update" => proc'[p].hosts \subseteq proc'[p].old.hosts
      BY <2>2 DEF SameTask, HookInv
    <3>2. Updating(p)' => Spares(proc[p], Now')
      BY <2>2 DEF SameTask, Updating, HookStep, Ordinary
    <3>3. Spares(proc[p], Now') => Spares(proc'[p], Now')
      <4>1. \A g \in DirHosts : Live(proc'[p], g) <=> Live(proc[p], g)
        BY <2>2, SameLive
      <4> QED
        BY <4>1 DEF Spares
    <3> QED
      BY <3>1, <3>2, <3>3
  <2> QED
    BY <2>1, <2>2 DEF HookStep, Turn
<1> QED
  BY <1>2, <1>3, <1>4 DEF HookInv

LEMMA Turned ==
  ASSUME TypeOK, NEW p \in Proc, Leave(p) \/ Abort(p) \/ (\E s \in Stage : Go(p, s))
  PROVE  Turn(p)
<1>1. proc \in [Proc -> Request] /\ proc[p] \in Request
  BY DEF TypeOK
<1>2. CASE Leave(p)
  BY <1>1, <1>2 DEF Leave, Turn
<1>3. CASE Abort(p)
  <2>1. proc' = [proc EXCEPT ![p] = Aborted(p, Len(Now.undo))]
    BY <1>3 DEF Abort, Aborted
  <2>2. SameTask(proc[p], Aborted(p, Len(Now.undo)))
    BY <1>1 DEF Aborted, SameTask, Request
  <2> QED
    BY <1>1, <2>1, <2>2 DEF Turn
<1>4. ASSUME NEW s \in Stage, Go(p, s) PROVE Turn(p)
  <2>1. SameTask(proc[p], [proc[p] EXCEPT !.stage = s])
    BY <1>1 DEF SameTask, Request
  <2> QED
    BY <1>1, <1>4, <2>1 DEF Go, Turn
<1> QED
  BY <1>2, <1>3, <1>4

LEMMA SavedIs ==
  ASSUME TypeOK, journals # <<>>, NEW j, Save(j) \/ (j = Now /\ UNCHANGED journals)
  PROVE  /\ Last' = Last /\ Now' = j /\ DOMAIN journals' = DOMAIN journals
         /\ \A i \in DOMAIN journals : journals'[i] = IF i = Last THEN j ELSE journals[i]
<1>1. journals \in Seq(Journal) /\ Last \in DOMAIN journals
  BY NowTyped DEF TypeOK
<1>2. CASE Save(j)
  <2>1. journals' = [journals EXCEPT ![Last] = j]
    BY <1>2 DEF Save
  <2>2. journals' \in Seq(Journal \union {j}) /\ Len(journals') = Len(journals) /\ DOMAIN journals' = DOMAIN journals
    BY <1>1, <2>1
  <2>3. Last' = Last
    BY <2>2 DEF Last
  <2> QED
    BY <1>1, <2>1, <2>2, <2>3 DEF Now
<1>3. CASE j = Now /\ UNCHANGED journals
  BY <1>3 DEF Now, Last
<1> QED
  BY <1>2, <1>3

\* A step that touches no cache and queues nothing to undo.
LEMMA MildStep ==
  ASSUME TypeInv, HookInv, NEW p \in Proc, Running(p), Turn(p),
         NEW j, Save(j) \/ (j = Now /\ UNCHANGED journals),
         Ordinary(proc[p]) => /\ j.undo = Now.undo
                              /\ \A g \in Host : Now.conf[g].on # "all" => j.conf[g].on # "all"
                              /\ \A g \in DirHosts : host'[g].dirs = host[g].dirs
  PROVE  HookStep(p)
<1>1. Last' = Last /\ Now' = j
  BY RunFacts, SavedIs
<1>2. Ordinary(proc[p]) => Spares(proc[p], Now)
  BY DEF HookInv, Updating, Ordinary
<1>3. Ordinary(proc[p]) => Spares(proc[p], j)
  BY <1>2 DEF Spares
<1> QED
  BY <1>1, <1>3 DEF HookStep, Resolves

\* Only the command and its bounds change.
LEMMA QuietStep ==
  ASSUME TypeInv, HookInv, NEW p \in Proc, Running(p), UNCHANGED <<host, journals>>,
         Leave(p) \/ Abort(p) \/ (\E s \in Stage : Go(p, s))
  PROVE  HookStep(p)
<1>1. Turn(p)
  BY RunFacts, Turned
<1> QED
  BY <1>1, MildStep

LEMMA KeepsPaths ==
  ASSUME NEW c \in Command, NEW s \in HostState, c.op \in HookOps PROVE Resolves(s, Effect(c, s))
<1>1. CASE c.op = "market add"
  BY <1>1 DEF Effect, Resolves, HostState
<1>2. CASE c.op = "market remove"
  BY <1>2 DEF Effect, MarketRemoved, Resolves, HostState
<1>3. CASE c.op = "select"
  BY <1>3 DEF Effect, Selected, Resolves, HostState
<1> QED
  BY <1>1, <1>2, <1>3 DEF HookOps

LEMMA OutcomeIs ==
  ASSUME NEW c \in Command, NEW o \in Outcomes(c) PROVE o.s \in {host[c.host], Effect(c, host[c.host])}
<1>1. \/ o = [s |-> Effect(c, host[c.host]), ok |-> TRUE, cost |-> 0]
      \/ \E t \in {host[c.host], Effect(c, host[c.host])} : o = [s |-> t, ok |-> FALSE, cost |-> 1]
      \/ \E r \in BOOLEAN : o = [s |-> host[c.host], ok |-> r, cost |-> 0]
  BY DEF Outcomes
<1> QED
  BY <1>1

LEMMA CommandPaths ==
  ASSUME TypeOK, NEW c \in Command, NEW s \in {host[c.host], Effect(c, host[c.host])},
         host' = [host EXCEPT ![c.host] = s], NEW g \in Host, c.host = g => c.op \in HookOps
  PROVE  Resolves(host[g], host'[g])
<1>1. c.host \in Host /\ host \in [Host -> HostState]
  BY DEF Command, TypeOK
<1>2. CASE c.host = g
  BY <1>1, <1>2, KeepsPaths DEF Resolves
<1>3. CASE c.host # g
  BY <1>1, <1>3 DEF Resolves
<1> QED
  BY <1>2, <1>3

LEMMA SignSpares ==
  ASSUME InstallAssumption, NEW r, NEW j \in Journal, NEW hs \in [Host -> HostState], Spares(r, j)
  PROVE  Spares(r, SignAll(j, hs))
BY SignAllDoes DEF Spares

LEMMA QueueSpares ==
  ASSUME NEW r, NEW j \in Journal, NEW d \in Command, Spares(r, j),
         \A g \in DirHosts : Live(r, g) /\ d.host = g => d.op \in HookOps
  PROVE  Spares(r, Queue(j, d))
<1> DEFINE e == [cmd |-> d, state |-> "ready"]
<1>1. j.undo \in Seq(Undo) /\ e \in Undo
  BY DEF Journal, Undo
<1>2. Queue(j, d).undo = Append(j.undo, e) /\ Queue(j, d).conf = j.conf
  BY DEF Queue, Journal
<1>3. \A k \in DOMAIN Append(j.undo, e) :
        Append(j.undo, e)[k] = e \/ (k \in DOMAIN j.undo /\ Append(j.undo, e)[k] = j.undo[k])
  BY <1>1
<1> QED
  BY <1>2, <1>3 DEF Spares

\* A native command of the update: none that ends a path runs or is queued in a live host.
LEMMA CommandHooks ==
  ASSUME InstallAssumption, TypeInv, HookInv, NEW p \in Proc, Running(p), NEW c \in Command,
         NEW next \in Stage, NEW u, u = <<>> \/ \E d \in Command : u = <<d>>,
         External(p, c, u, next) \/ DiesRunning(p, c, u),
         Ordinary(proc[p]) => \A g \in DirHosts : Live(proc[p], g) =>
           /\ c.host = g => c.op \in HookOps
           /\ u # <<>> /\ u[1].host = g => u[1].op \in HookOps
  PROVE  HookStep(p)
<1>1. TypeOK /\ Now \in Journal /\ proc[p] \in Request /\ proc \in [Proc -> Request] /\ journals # <<>>
      /\ c.host \in Host /\ host \in [Host -> HostState] /\ host[c.host] \in HostState /\ DirHosts \subseteq Host
  BY RunFacts DEF TypeOK, Command, InstallAssumption
<1> DEFINE j == IF u = <<>> THEN Now ELSE Queue(Now, u[1])
<1>2. j \in Journal
  BY <1>1, Queued
<1>3. ASSUME Ordinary(proc[p]) PROVE Spares(proc[p], j)
  <2>1. Spares(proc[p], Now)
    BY <1>3 DEF HookInv, Updating, Ordinary
  <2>2. ASSUME NEW d \in Command, u = <<d>> PROVE Spares(proc[p], j)
    <3>1. u # <<>> /\ u[1] = d
      BY <2>2
    <3> QED
      BY <1>1, <1>3, <2>1, <3>1, QueueSpares
  <2> QED
    BY <2>1, <2>2
<1> HIDE DEF j
<1>4. ASSUME NEW s \in {host[c.host], Effect(c, host[c.host])}, host' = [host EXCEPT ![c.host] = s], Turn(p),
             Save(j) \/ Save(SignAll(j, host'))
      PROVE  HookStep(p)
  <2>1. host' \in [Host -> HostState]
    BY <1>1, <1>4, Effects
  <2>2. ASSUME NEW t, Save(t), t = j \/ t = SignAll(j, host') PROVE HookStep(p)
    <3>1. Last' = Last /\ Now' = t
      BY <1>1, <2>2, SavedIs
    <3>2. Ordinary(proc[p]) => Spares(proc[p], Now')
      BY <1>2, <1>3, <2>1, <2>2, <3>1, SignSpares
    <3>3. Ordinary(proc[p]) => \A g \in DirHosts : Live(proc[p], g) => Resolves(host[g], host'[g])
      BY <1>1, <1>4, CommandPaths
    <3> QED
      BY <1>4, <3>1, <3>2, <3>3 DEF HookStep
  <2> QED
    BY <1>4, <2>2
<1>5. CASE External(p, c, u, next) /\ Conflict(Now)
  BY <1>5, QuietStep DEF External
<1>6. CASE External(p, c, u, next) /\ ~Conflict(Now)
  <2>1. PICK o \in Outcomes(c) :
          LET after == [host EXCEPT ![c.host] = o.s]
          IN /\ host' = after
             /\ Save(SignAll(j, after))
             /\ IF o.ok THEN Go(p, next)
                ELSE proc' = [proc EXCEPT ![p].stage = "undo", ![p].k = Len(j.undo), ![p].bad = FALSE]
    BY <1>6 DEF External, j
  <2>2. Turn(p)
    <3>1. CASE Go(p, next)
      BY <1>1, <3>1, Turned
    <3>2. CASE proc' = [proc EXCEPT ![p].stage = "undo", ![p].k = Len(j.undo), ![p].bad = FALSE]
      <4>1. proc' = [proc EXCEPT ![p] = Aborted(p, Len(j.undo))]
        BY <3>2 DEF Aborted
      <4>2. SameTask(proc[p], Aborted(p, Len(j.undo)))
        BY <1>1 DEF Aborted, SameTask, Request
      <4> QED
        BY <1>1, <4>1, <4>2 DEF Turn
    <3> QED
      BY <2>1, <3>1, <3>2
  <2> QED
    BY <1>4, <2>1, <2>2, OutcomeIs
<1>7. CASE DiesRunning(p, c, u)
  <2>1. PICK s \in {host[c.host], Effect(c, host[c.host])} : host' = [host EXCEPT ![c.host] = s]
    BY <1>7 DEF DiesRunning
  <2>2. Turn(p) /\ Save(j)
    BY <1>1, <1>7, Turned DEF DiesRunning, j
  <2> QED
    BY <1>4, <2>1, <2>2
<1> QED
  BY <1>5, <1>6, <1>7

\* Stages that write files, settings and records, and touch no cache.
LEMMA FilesStay ==
  ASSUME InstallAssumption, TypeInv, TypeInv', HookInv, NEW p \in Proc,
         \/ Confirm(p) \/ WriteFiles(p) \/ TrackHosts(p) \/ NextHost(p) \/ Verify(p) \/ ApplySettings(p)
         \/ RecordInstall(p) \/ Commit(p) \/ Fail(p) \/ Crash(p)
  PROVE  HookStep(p)
<1>1. Running(p)
  BY DEF Confirm, WriteFiles, TrackHosts, NextHost, Verify, ApplySettings, RecordInstall, Commit, Fail, Crash, Running, Steps
<1>2. TypeOK /\ Now \in Journal /\ proc[p] \in Request /\ proc \in [Proc -> Request]
      /\ host \in [Host -> HostState] /\ DirHosts \subseteq Host
  BY <1>1, RunFacts DEF TypeOK, InstallAssumption
<1>3. CASE Confirm(p)
  <2>1. CASE Abort(p)
    BY <1>1, <1>3, <2>1, QuietStep DEF Confirm
  <2>2. CASE proc' = [proc EXCEPT ![p].left = proc[p].hosts, ![p].stage = IF proc[p].op = "uninstall" THEN "host" ELSE "files"]
    <3>1. Turn(p)
      BY <1>2, <2>2 DEF Turn, SameTask, Request
    <3> QED
      BY <1>1, <1>3, <3>1, MildStep DEF Confirm
  <2> QED
    BY <1>3, <2>1, <2>2 DEF Confirm
<1>4. CASE WriteFiles(p)
  <2>1. Turn(p) /\ UNCHANGED host
    BY <1>2, <1>4, Turned DEF WriteFiles, Stage, Steps
  <2>2. Launcher \in Place /\ "text" \in Text
    BY DEF InstallAssumption, Text
  <2>3. Put(Now, Launcher, "text").conf = Now.conf /\ Put(Now, Launcher, "text").undo = Now.undo
    BY <1>2, <2>2, PutDoes
  <2> QED
    BY <1>1, <1>4, <2>1, <2>3, MildStep DEF WriteFiles
<1>5. CASE TrackHosts(p)
  <2> DEFINE after == [h \in Host |-> IF h \in proc[p].refresh THEN Restored(proc[p].old.rec[h], host[h]) ELSE host[h]]
             c == [h \in Host |-> IF h \in proc[p].hosts
                     THEN Signed(Track(Now, h, host[h]), h, after[h]).conf[h] ELSE Now.conf[h]]
             j == [Now EXCEPT !.conf = c]
  <2>1. Turn(p)
    BY <1>2, <1>5, Turned DEF TrackHosts, Stage, Steps
  <2>2. host' = after /\ Save(j)
    BY <1>5 DEF TrackHosts
  <2>3. \A h \in Host : after[h].dirs = host[h].dirs
    BY <1>2 DEF Restored, HostState
  <2>4. \A h \in Host : c[h].on # "all" \/ c[h] = Now.conf[h]
    BY <1>2 DEF Signed, Track, NoKept, Journal, Kept
  <2>5. j.undo = Now.undo /\ j.conf = c
    BY <1>2 DEF Journal
  <2> HIDE DEF after, c, j
  <2> QED
    BY <1>1, <1>2, <2>1, <2>2, <2>3, <2>4, <2>5, MildStep
<1>6. CASE NextHost(p)
  <2>1. Turn(p)
    <3>1. CASE proc' = [proc EXCEPT ![p].cur = Nobody,
                 ![p].stage = IF proc[p].op = "uninstall" THEN "forget" ELSE "settings",
                 ![p].left = IF proc[p].secure THEN proc[p].hosts ELSE proc[p].refresh]
      BY <1>2, <3>1 DEF Turn, SameTask, Request
    <3>2. ASSUME NEW h \in proc[p].left,
                 proc' = [proc EXCEPT ![p].cur = h, ![p].left = proc[p].left \ {h},
                      ![p].stage = IF proc[p].op = "uninstall" THEN "restore" ELSE "prepare"]
          PROVE Turn(p)
      BY <1>2, <3>2 DEF Turn, SameTask, Request
    <3> QED
      BY <1>6, <3>1, <3>2 DEF NextHost
  <2> QED
    BY <1>1, <1>6, <2>1, MildStep DEF NextHost
<1>7. CASE Verify(p)
  <2>1. Turn(p)
    <3>1. CASE Abort(p)
      BY <1>2, <3>1, Turned
    <3>2. CASE ~Abort(p)
      BY <1>2, <1>7, <3>2 DEF Verify, Turn, SameTask, Request
    <3> QED
      BY <3>1, <3>2
  <2> QED
    BY <1>1, <1>7, <2>1, MildStep DEF Verify
<1>8. CASE ApplySettings(p)
  <2>1. CASE Go(p, "record") /\ UNCHANGED <<host, journals>>
    BY <1>1, <2>1, QuietStep DEF Stage, Steps
  <2>2. ASSUME NEW h \in Host, proc' = [proc EXCEPT ![p].left = proc[p].left \ {h}] PROVE Turn(p)
    BY <1>2, <2>2 DEF Turn, SameTask, Request
  <2>3. ASSUME NEW h \in proc[p].left, home.rec[h].on,
               IF host[h].file = home.rec[h].applied
               THEN proc' = [proc EXCEPT ![p].left = proc[p].left \ {h}] ELSE Abort(p),
               UNCHANGED <<host, journals>>
        PROVE HookStep(p)
    <3>1. h \in Host
      BY <1>2 DEF Request
    <3>2. Turn(p)
      BY <1>2, <2>2, <2>3, <3>1, Turned
    <3> QED
      BY <1>1, <2>3, <3>2, MildStep
  <2>4. ASSUME NEW h \in proc[p].left, host' = [host EXCEPT ![h].file = Baseline(host[h].file)],
               Save(Signed(Now, h, host'[h])), proc' = [proc EXCEPT ![p].left = proc[p].left \ {h}]
        PROVE HookStep(p)
    <3>1. h \in Host
      BY <1>2 DEF Request
    <3>2. Turn(p)
      BY <2>2, <2>4, <3>1
    <3>3. \A g \in Host : host'[g].dirs = host[g].dirs
      BY <1>2, <2>4, <3>1 DEF HostState
    <3>4. /\ Signed(Now, h, host'[h]).undo = Now.undo
          /\ \A g \in Host : Signed(Now, h, host'[h]).conf[g].on = Now.conf[g].on
      BY <1>2, <3>1 DEF Signed, Journal, Kept
    <3> QED
      BY <1>1, <1>2, <2>4, <3>2, <3>3, <3>4, MildStep
  <2>5. \/ Go(p, "record") /\ UNCHANGED <<host, journals>>
        \/ \E h \in proc[p].left :
             IF home.rec[h].on
             THEN /\ IF host[h].file = home.rec[h].applied
                     THEN proc' = [proc EXCEPT ![p].left = proc[p].left \ {h}] ELSE Abort(p)
                  /\ UNCHANGED <<host, journals>>
             ELSE LET after == [host EXCEPT ![h].file = Baseline(host[h].file)]
                  IN /\ host' = after
                     /\ Save(Signed(Now, h, after[h]))
                     /\ proc' = [proc EXCEPT ![p].left = proc[p].left \ {h}]
    BY <1>8 DEF ApplySettings
  <2> QED
    BY <2>1, <2>3, <2>4, <2>5
<1>9. CASE RecordInstall(p)
  <2>1. Turn(p) /\ UNCHANGED host
    BY <1>2, <1>9, Turned DEF RecordInstall, Stage, Steps
  <2>2. Pointer \in Place /\ "text" \in Text
    BY DEF InstallAssumption, Text
  <2>3. Put(Now, Pointer, "text").conf = Now.conf /\ Put(Now, Pointer, "text").undo = Now.undo
    BY <1>2, <2>2, PutDoes
  <2> QED
    BY <1>1, <1>9, <2>1, <2>3, MildStep DEF RecordInstall
<1>10. CASE Commit(p)
  <2>1. Turn(p)
    BY <1>2, <1>10, Turned DEF Commit
  <2>2. /\ [Now EXCEPT !.status = "committed"].conf = Now.conf
        /\ [Now EXCEPT !.status = "committed"].undo = Now.undo
    BY <1>2 DEF Journal
  <2> QED
    BY <1>1, <1>10, <2>1, <2>2, MildStep DEF Commit
<1>11. CASE Fail(p) \/ Crash(p)
  BY <1>1, <1>11, QuietStep DEF Fail, Crash
<1> QED
  BY <1>3, <1>4, <1>5, <1>6, <1>7, <1>8, <1>9, <1>10, <1>11

\* A command of an install or update, journalled with its undo.
LEMMA StageHooks ==
  ASSUME InstallAssumption, SettingsInv, HookInv, NEW p \in Proc, NEW next \in Steps, proc[p].stage \in InHost,
         NEW op \in {"market add", "market remove", "plugin add", "plugin remove", "select"},
         NEW src \in Source, NEW u, u = <<>> \/ \E d \in Command : u = <<d>> /\ d.host = proc[p].cur,
         \/ External(p, Cmd(op, proc[p].cur, src), u, next)
         \/ DiesRunning(p, Cmd(op, proc[p].cur, src), u),
         Ordinary(proc[p]) /\ proc[p].cur \in DirHosts /\ Live(proc[p], proc[p].cur) =>
           op \in HookOps /\ (u # <<>> => u[1].op \in HookOps)
  PROVE  HookStep(p)
<1>1. Running(p) /\ TypeInv /\ proc[p].cur \in Host
  BY AtHost
<1>2. /\ Cmd(op, proc[p].cur, src) \in Command
      /\ Cmd(op, proc[p].cur, src).host = proc[p].cur /\ Cmd(op, proc[p].cur, src).op = op
  BY <1>1, CommandTyped DEF Cmd
<1>3. u # <<>> => u[1].host = proc[p].cur
  <2>1. ASSUME NEW d \in Command, u = <<d>>, d.host = proc[p].cur PROVE u[1].host = proc[p].cur
    BY <2>1
  <2> QED
    BY <2>1
<1>4. next \in Stage
  BY DEF Stage
<1> QED
  BY <1>1, <1>2, <1>3, <1>4, CommandHooks

LEMMA StagesStay ==
  ASSUME InstallAssumption, SettingsInv, HookInv, NEW p \in Proc,
         \/ RemoveMarket(p) \/ AddMarket(p) \/ DropDisabled(p) \/ AddPlugin(p)
         \/ RemovePlugin(p) \/ RemoveOwnedMarket(p)
  PROVE  HookStep(p)
<1>1. proc[p].stage \in {"remove", "add", "drop", "plug", "unplug", "unmarket"} /\ proc[p].stage \in InHost
  BY DEF RemoveMarket, AddMarket, DropDisabled, AddPlugin, RemovePlugin, RemoveOwnedMarket, InHost, Installing, Uninstalling
<1>2. /\ Running(p) /\ TypeInv /\ proc[p] \in Request /\ proc[p].cur \in Host /\ proc[p].cur \in proc[p].hosts
      /\ Standing(proc[p], Now)
  BY <1>1, AtHost
<1> DEFINE r == proc[p]
           h == proc[p].cur
<1>3. NoSource \in Source /\ \A v \in 0..MaxVersion : Tag(v) \in Source /\ Dir(v) \in Source
  BY Bounds DEF Tag, Dir, Source
<1>4. r.ver \in 0..MaxVersion /\ r.old.version \in 0..MaxVersion /\ r.inv[h].market \in Source
  BY <1>2 DEF Request, Home, Inventory
<1>5. ASSUME NEW op \in {"market add", "market remove", "plugin add", "plugin remove"}, NEW src \in Source
      PROVE  \E d \in Command : <<Cmd(op, h, src)>> = <<d>> /\ d.host = h
  BY <1>2, CommandTyped
<1>6. ASSUME NEW op, NEW src PROVE <<Cmd(op, h, src)>>[1].op = op
  BY DEF Cmd
<1>7. Ordinary(r) => Replaces(r, h)
  BY <1>2 DEF Ordinary, HookInv, Replaces, Replacing, Previous
<1>8. ASSUME NEW s \in Steps, Go(p, s), UNCHANGED <<host, journals>> PROVE HookStep(p)
  BY <1>2, <1>8, QuietStep DEF Stage
<1>9. {"add", "drop", "plug", "verify", "unmarket", "gone"} \subseteq Steps
  BY DEF Steps
<1>10. CASE RemoveMarket(p)
  <2> DEFINE src == IF r.restart THEN Dir(r.old.version) ELSE r.inv[h].market
             u == <<Cmd("market add", h, src)>>
  <2>1. src \in Source
    BY <1>3, <1>4
  <2>2. u = <<>> \/ \E d \in Command : u = <<d>> /\ d.host = h
    BY <1>5, <2>1
  <2>3. u[1].op \in HookOps /\ "market remove" \in HookOps
    BY <1>6 DEF HookOps
  <2>4. \/ External(p, Cmd("market remove", h, NoSource), u, "add")
        \/ DiesRunning(p, Cmd("market remove", h, NoSource), u)
        \/ Go(p, "add") /\ UNCHANGED <<host, journals>>
    BY <1>10 DEF RemoveMarket
  <2> HIDE DEF u
  <2> QED
    BY <1>1, <1>3, <1>8, <1>9, <2>2, <2>3, <2>4, StageHooks
<1>11. CASE AddMarket(p)
  <2> DEFINE src == IF r.local THEN Dir(r.ver) ELSE Tag(r.ver)
             u == <<Cmd("market remove", h, NoSource)>>
  <2>1. src \in Source
    BY <1>3, <1>4
  <2>2. u = <<>> \/ \E d \in Command : u = <<d>> /\ d.host = h
    BY <1>3, <1>5
  <2>3. u[1].op \in HookOps /\ "market add" \in HookOps
    BY <1>6 DEF HookOps
  <2>4. \/ External(p, Cmd("market add", h, src), u, "drop")
        \/ DiesRunning(p, Cmd("market add", h, src), u)
        \/ Go(p, "drop") /\ UNCHANGED <<host, journals>>
    BY <1>11 DEF AddMarket
  <2> HIDE DEF u, src
  <2> QED
    BY <1>1, <1>8, <1>9, <2>1, <2>2, <2>3, <2>4, StageHooks
<1>12. CASE DropDisabled(p)
  <2> DEFINE u == <<Cmd("plugin add", h, NoSource)>>
  <2>1. u = <<>> \/ \E d \in Command : u = <<d>> /\ d.host = h
    BY <1>3, <1>5
  <2>2. \/ /\ ~Replaces(r, h)
           /\ \/ External(p, Cmd("plugin remove", h, NoSource), u, "plug")
              \/ DiesRunning(p, Cmd("plugin remove", h, NoSource), u)
        \/ Go(p, "plug") /\ UNCHANGED <<host, journals>>
    BY <1>12 DEF DropDisabled
  <2> HIDE DEF u
  <2> QED
    BY <1>1, <1>3, <1>7, <1>8, <1>9, <2>1, <2>2, StageHooks
<1>13. CASE AddPlugin(p)
  <2> DEFINE relist == Live(r, h) /\ h \notin DirHosts
             u == IF relist THEN <<>> ELSE <<Cmd("plugin remove", h, NoSource)>>
  <2>1. u = <<>> \/ \E d \in Command : u = <<d>> /\ d.host = h
    BY <1>3, <1>5
  <2>2. \/ /\ relist \/ ~Live(r, h) \/ r.restart
           /\ \/ External(p, Cmd("plugin add", h, NoSource), u, "verify")
              \/ DiesRunning(p, Cmd("plugin add", h, NoSource), u)
        \/ Go(p, "verify") /\ UNCHANGED <<host, journals>>
    BY <1>13 DEF AddPlugin
  <2>3. ~(Ordinary(r) /\ h \in DirHosts /\ Live(r, h) /\ (relist \/ ~Live(r, h) \/ r.restart))
    BY DEF Ordinary
  <2> HIDE DEF u, relist
  <2> QED
    BY <1>1, <1>3, <1>8, <1>9, <2>1, <2>2, <2>3, StageHooks
<1>14. proc[p].stage \in {"unplug", "unmarket"} => ~Ordinary(r)
  BY <1>2 DEF Ordinary, Standing, Uninstalling
<1>15. CASE RemovePlugin(p)
  <2> DEFINE u == <<Cmd("plugin add", h, NoSource)>>
  <2>1. u = <<>> \/ \E d \in Command : u = <<d>> /\ d.host = h
    BY <1>3, <1>5
  <2>2. /\ r.stage = "unplug"
        /\ \/ External(p, Cmd("plugin remove", h, NoSource), u, "unmarket")
           \/ DiesRunning(p, Cmd("plugin remove", h, NoSource), u)
           \/ Go(p, "unmarket") /\ UNCHANGED <<host, journals>>
    BY <1>15 DEF RemovePlugin
  <2> HIDE DEF u
  <2> QED
    BY <1>1, <1>3, <1>8, <1>9, <1>14, <2>1, <2>2, StageHooks
<1>16. CASE RemoveOwnedMarket(p)
  <2> DEFINE u == <<Cmd("market add", h, Tag(r.old.version))>>
  <2>1. u = <<>> \/ \E d \in Command : u = <<d>> /\ d.host = h
    BY <1>3, <1>4, <1>5
  <2>2. /\ r.stage = "unmarket"
        /\ \/ External(p, Cmd("market remove", h, NoSource), u, "gone")
           \/ DiesRunning(p, Cmd("market remove", h, NoSource), u)
           \/ Go(p, "gone") /\ UNCHANGED <<host, journals>>
    BY <1>16 DEF RemoveOwnedMarket
  <2> HIDE DEF u
  <2> QED
    BY <1>1, <1>3, <1>8, <1>9, <1>14, <2>1, <2>2, StageHooks
<1> QED
  BY <1>10, <1>11, <1>12, <1>13, <1>15, <1>16

\* An uninstall is no update; what it does with the settings and the home is no matter here.
LEMMA UninstallStays ==
  ASSUME InstallAssumption, SettingsInv, HookInv, NEW p \in Proc, RestoreSettings(p) \/ VerifyGone(p) \/ Forget(p)
  PROVE  HookStep(p)
<1>1. Running(p) /\ TypeInv /\ proc[p].stage \in {"restore", "gone", "forget"}
  BY DEF RestoreSettings, VerifyGone, Forget, Running, SettingsInv
<1>2. TypeOK /\ Standing(proc[p], Now)
  BY <1>1, RunFacts
<1>3. ~Ordinary(proc[p])
  BY <1>1, <1>2 DEF Ordinary, Standing, Uninstalling
<1>4. Turn(p)
  BY <1>2, Turned DEF RestoreSettings, VerifyGone, Forget, Stage, Steps
<1>5. \E j : Save(j) \/ (j = Now /\ UNCHANGED journals)
  BY DEF RestoreSettings, VerifyGone, Forget
<1> QED
  BY <1>1, <1>3, <1>4, <1>5, MildStep

LEMMA PrepareStays ==
  ASSUME InstallAssumption, SettingsInv, HookInv, NEW p \in Proc, Prepare(p)
  PROVE  HookStep(p)
<1>1. proc[p].stage = "prepare" /\ proc[p].stage \in InHost /\ UNCHANGED host
  BY DEF Prepare, InHost, Installing
<1>2. /\ Running(p) /\ TypeInv /\ TypeOK /\ Now \in Journal /\ proc[p] \in Request /\ journals # <<>>
      /\ proc[p].cur \in Host
  BY <1>1, AtHost
<1> DEFINE h == proc[p].cur
           live == Live(proc[p], h)
           select == Cmd("select", h, [from |-> "cache", ver |-> proc[p].old.path[h]])
           add == Cmd("plugin add", h, NoSource)
<1>3. select \in Command /\ add \in Command /\ select.host = h /\ add.host = h /\ select.op \in HookOps
  <2>1. [from |-> "cache", ver |-> proc[p].old.path[h]] \in Source /\ NoSource \in Source
    BY <1>2, Bounds DEF Request, Home, Source
  <2> QED
    BY <1>2, <2>1, CommandTyped DEF Cmd, HookOps
<1>4. CASE Abort(p) /\ UNCHANGED journals
  BY <1>1, <1>2, <1>4, QuietStep
<1>5. ASSUME NEW s \in Stage, Go(p, s), UNCHANGED journals PROVE HookStep(p)
  BY <1>1, <1>2, <1>5, QuietStep
<1>6. Ordinary(proc[p]) => Spares(proc[p], Now)
  BY <1>2 DEF HookInv, Updating, Ordinary
<1>7. ASSUME NEW s \in Stage, Go(p, s), NEW j, Save(j), Ordinary(proc[p]) => Spares(proc[p], j) PROVE HookStep(p)
  <2>1. Turn(p) /\ Last' = Last /\ Now' = j
    BY <1>2, <1>7, Turned, SavedIs
  <2> QED
    BY <1>1, <1>2, <1>7, <2>1 DEF HookStep, Resolves
<1>8. \/ Abort(p) /\ UNCHANGED journals
      \/ \E s \in Stage : /\ Go(p, s)
                          /\ \/ live /\ proc[p].restart /\ Save(Queue(TrackAll(Now, h), add))
                             \/ live /\ ~proc[p].restart /\ h \in DirHosts /\ Save(Queue(Now, select))
                             \/ live /\ ~proc[p].restart /\ h \notin DirHosts /\ Save(Queue(Now, add))
                             \/ UNCHANGED journals
  <2>1. "select" \in Stage /\ "remove" \in Stage
    BY DEF Stage, Steps
  <2>2. live \in BOOLEAN /\ proc[p].restart \in BOOLEAN
    BY <1>2 DEF Request, Live, Replaces
  <2> HIDE DEF live, add, select
  <2> QED
    BY <2>1, <2>2 DEF Prepare, live, add, select
<1>9. ASSUME Ordinary(proc[p]), h \in DirHosts PROVE Spares(proc[p], Queue(Now, select))
  BY <1>2, <1>3, <1>6, <1>9, QueueSpares
<1>10. ASSUME Ordinary(proc[p]), h \notin DirHosts PROVE Spares(proc[p], Queue(Now, add))
  BY <1>2, <1>3, <1>6, <1>10, QueueSpares
<1> HIDE DEF live, add, select
<1> QED
  BY <1>4, <1>5, <1>7, <1>8, <1>9, <1>10 DEF Ordinary

LEMMA SwitchCacheStays ==
  ASSUME InstallAssumption, SettingsInv, HookInv, NEW p \in Proc, SwitchCache(p)
  PROVE  HookStep(p)
<1>1. proc[p].stage = "select" /\ proc[p].stage \in InHost /\ UNCHANGED journals
  BY DEF SwitchCache, InHost, Installing
<1>2. Running(p) /\ TypeInv /\ TypeOK /\ proc[p].cur \in Host /\ DirHosts \subseteq Host
  BY <1>1, AtHost DEF InstallAssumption
<1>3. CASE UNCHANGED host /\ Abort(p)
  BY <1>1, <1>2, <1>3, QuietStep
<1>4. ASSUME NEW S, host' = [host EXCEPT ![proc[p].cur] = Switched(host[proc[p].cur], proc[p].ver, S)],
             Go(p, "remove") \/ Abort(p) \/ Leave(p)
      PROVE  HookStep(p)
  <2>1. Turn(p) /\ Last' = Last /\ Now' = Now
    BY <1>1, <1>2, <1>4, Turned DEF Stage, Steps, Last, Now
  <2>2. \A g \in Host : Resolves(host[g], host'[g])
    <3>1. host \in [Host -> HostState]
      BY <1>2 DEF TypeOK
    <3>2. \A s \in HostState : Resolves(s, Selected(s, proc[p].ver, S))
      BY DEF Resolves, Selected, HostState
    <3>3. \A s : Resolves(s, s)
      BY DEF Resolves
    <3> QED
      BY <1>2, <1>4, <3>1, <3>2, <3>3 DEF Switched
  <2>3. Ordinary(proc[p]) => Spares(proc[p], Now)
    BY <1>2 DEF HookInv, Updating, Ordinary
  <2> QED
    BY <1>2, <2>1, <2>2, <2>3 DEF HookStep
<1> QED
  BY <1>3, <1>4 DEF SwitchCache

\* Undoing the update runs only what it queued.
LEMMA UndoStays ==
  ASSUME InstallAssumption, SettingsInv, HookInv, NEW p \in Proc, UndoNext(p)
  PROVE  HookStep(p)
<1>1. proc[p].stage = "undo" /\ proc[p].k > 0 /\ Running(p) /\ TypeInv
  BY DEF UndoNext, Running, SettingsInv
<1>2. /\ TypeOK /\ Now \in Journal /\ journals # <<>> /\ proc[p] \in Request /\ proc \in [Proc -> Request]
      /\ Standing(proc[p], Now) /\ host \in [Host -> HostState] /\ DirHosts \subseteq Host
  BY <1>1, RunFacts DEF TypeOK, InstallAssumption
<1> DEFINE k == proc[p].k
           c == Now.undo[k].cmd
<1>3. k \in DOMAIN Now.undo /\ Now.undo[k] \in Undo /\ c \in Command /\ c.host \in Host
  <2>1. k \in Nat /\ k <= Len(Now.undo) /\ Now.undo \in Seq(Undo)
    BY <1>1, <1>2 DEF Standing, Journal, Request
  <2>2. k \in 1..Len(Now.undo) /\ DOMAIN Now.undo = 1..Len(Now.undo)
    BY <1>1, <2>1
  <2>3. Now.undo[k] \in Undo
    BY <2>1, <2>2
  <2> QED
    BY <2>2, <2>3 DEF Undo, Command
<1>4. Ordinary(proc[p]) => Spares(proc[p], Now)
  BY <1>1 DEF HookInv, Updating, Ordinary
<1>5. ASSUME NEW n, NEW b, proc' = [proc EXCEPT ![p].k = n, ![p].bad = b] PROVE Turn(p)
  BY <1>2, <1>5 DEF Turn, SameTask, Request
<1>6. ASSUME NEW n, NEW b, proc' = [proc EXCEPT ![p].k = n, ![p].bad = b], UNCHANGED <<host, journals>>
      PROVE  HookStep(p)
  BY <1>1, <1>5, <1>6, MildStep
<1> DEFINE j(state) == [Now EXCEPT !.undo[k].state = state]
<1>7. ASSUME NEW state \in {"done", "failed", "running"}
      PROVE  j(state) \in Journal /\ (Ordinary(proc[p]) => Spares(proc[p], j(state)))
  <2> DEFINE e == [Now.undo[k] EXCEPT !.state = state]
             undo == [Now.undo EXCEPT ![k] = e]
  <2>1. e \in Undo /\ e.cmd = c
    BY <1>3 DEF Undo
  <2>2. Now.undo \in Seq(Undo)
    BY <1>2 DEF Journal
  <2>3. undo \in Seq(Undo) /\ DOMAIN undo = DOMAIN Now.undo /\ \A i \in DOMAIN Now.undo : undo[i].cmd = Now.undo[i].cmd
    BY <1>3, <2>1, <2>2
  <2>4. j(state) = [Now EXCEPT !.undo = undo]
    OBVIOUS
  <2> HIDE DEF undo, j
  <2>5. j(state) \in Journal /\ j(state).undo = undo /\ j(state).conf = Now.conf
    BY <1>2, <2>3, <2>4 DEF Journal
  <2> QED
    BY <1>4, <2>3, <2>5 DEF Spares
<1> HIDE DEF j
<1>8. ASSUME NEW o \in Outcomes(c), host' = [host EXCEPT ![c.host] = o.s], Turn(p),
             NEW state \in {"done", "failed", "running"}, Save(j(state)) \/ Save(SignAll(j(state), host'))
      PROVE  HookStep(p)
  <2>1. o.s \in {host[c.host], Effect(c, host[c.host])}
    BY <1>3, OutcomeIs
  <2>2. host' \in [Host -> HostState]
    BY <1>2, <1>3, <1>8, OutcomesTyped
  <2>3. Ordinary(proc[p]) => \A g \in DirHosts : Live(proc[p], g) /\ c.host = g => c.op \in HookOps
    BY <1>3, <1>4 DEF Spares
  <2>4. Ordinary(proc[p]) => \A g \in DirHosts : Live(proc[p], g) => Resolves(host[g], host'[g])
    BY <1>2, <1>3, <1>8, <2>1, <2>3, CommandPaths
  <2>5. ASSUME NEW t, Save(t), t = j(state) \/ t = SignAll(j(state), host') PROVE HookStep(p)
    <3>1. Last' = Last /\ Now' = t
      BY <1>2, <2>5, SavedIs
    <3>2. Ordinary(proc[p]) => Spares(proc[p], Now')
      BY <1>7, <2>2, <2>5, <3>1, SignSpares
    <3> QED
      BY <1>1, <1>8, <2>4, <3>1, <3>2 DEF HookStep
  <2> QED
    BY <1>8, <2>5
<1>9. \/ \E n, b : proc' = [proc EXCEPT ![p].k = n, ![p].bad = b] /\ UNCHANGED <<host, journals>>
      \/ \E o \in Outcomes(c) : /\ host' = [host EXCEPT ![c.host] = o.s]
                                /\ Save(SignAll(j(IF o.ok THEN "done" ELSE "failed"), host'))
                                /\ \E n, b : proc' = [proc EXCEPT ![p].k = n, ![p].bad = b]
      \/ /\ \E o \in Outcomes(c) : host' = [host EXCEPT ![c.host] = o.s]
         /\ Save(j("running")) /\ Leave(p)
  BY DEF UndoNext, j
<1>10. Leave(p) => Turn(p)
  BY <1>2, Turned
<1> QED
  BY <1>5, <1>6, <1>8, <1>9, <1>10

\* The files go back, but no cache: an ordinary update watches settings files only.
LEMMA RestoreStays ==
  ASSUME InstallAssumption, SettingsInv, HookInv, NEW p \in Proc, RestoreFiles(p)
  PROVE  HookStep(p)
<1>1. Running(p) /\ TypeInv
  BY DEF RestoreFiles, Running, SettingsInv
<1>2. TypeOK /\ Now \in Journal /\ journals # <<>> /\ host \in [Host -> HostState] /\ DirHosts \subseteq Host
  BY <1>1, RunFacts DEF TypeOK, InstallAssumption
<1> DEFINE kept(k, s) == [k EXCEPT !.signed = PutBack(k, s, k.signed, k.before),
                                   !.back = k.on # "no" /\ (k.back \/ Same(k, s))]
           conf == [h \in Host |-> kept(Now.conf[h], host[h])]
<1>3. PICK st, text : Save([Now EXCEPT !.status = st, !.conf = conf, !.text = text])
  <2>1. \A h \in Host : Now.conf[h].on \in {"no", "file", "all"}
    BY <1>2 DEF Journal, Kept
  <2> QED
    BY DEF RestoreFiles
<1> DEFINE j == [Now EXCEPT !.status = st, !.conf = conf, !.text = text]
<1>4. j.undo = Now.undo /\ \A g \in Host : j.conf[g].on = Now.conf[g].on
  <2>1. ASSUME NEW k \in Kept, NEW s PROVE kept(k, s).on = k.on
    BY DEF Kept
  <2>2. \A g \in Host : Now.conf[g] \in Kept
    BY <1>2 DEF Journal
  <2> HIDE DEF kept
  <2>3. \A g \in Host : conf[g].on = Now.conf[g].on
    BY <2>1, <2>2
  <2> HIDE DEF conf
  <2>4. j.undo = Now.undo /\ j.conf = conf
    BY <1>2 DEF Journal
  <2> QED
    BY <2>3, <2>4
<1>5. Turn(p)
  BY <1>2, Turned DEF RestoreFiles
<1>6. Ordinary(proc[p]) => \A g \in DirHosts : host'[g].dirs = host[g].dirs
  <2> SUFFICES ASSUME Ordinary(proc[p]), NEW g \in DirHosts PROVE host'[g].dirs = host[g].dirs
    OBVIOUS
  <2>1. Now.conf[g].on # "all" /\ g \in Host
    BY <1>1, <1>2 DEF HookInv, Updating, Ordinary, Spares
  <2>2. host'[g] = PutBack(Now.conf[g], host[g], host[g], Now.conf[g].before)
    BY <2>1 DEF RestoreFiles
  <2> QED
    BY <2>1, <2>2 DEF PutBack
<1> HIDE DEF j
<1>7. Save(j)
  BY <1>3 DEF j
<1> QED
  BY <1>1, <1>4, <1>5, <1>6, <1>7, MildStep

\* What changes nothing of the command that holds the lock, or comes when nobody does.
LEMMA BesideHooks ==
  ASSUME InstallAssumption, TypeInv, HookInv, NEW p \in Proc,
         AskInstall(p) \/ AskUpdate(p) \/ AskUninstall(p) \/ Begin(p) \/ StartRollback(p) \/ Attest(p)
  PROVE  HookInv' /\ PathsHeld
<1>1. UNCHANGED host /\ PathsHeld
  BY DEF AskInstall, AskUpdate, AskUninstall, Ask, Begin, StartRollback, Attest, PathsHeld, Resolves
<1>2. proc \in [Proc -> Request] /\ proc[p] \in Request
  BY DEF TypeInv, TypeOK
<1>3. ASSUME NEW r, proc' = [proc EXCEPT ![p] = r], r.stage = "asked", UNCHANGED journals,
             r.op = "update" => r.hosts \subseteq r.old.hosts
      PROVE  HookInv'
  <2>1. Last' = Last /\ Now' = Now
    BY <1>3 DEF Last, Now
  <2> QED
    BY <1>2, <1>3, <2>1 DEF HookInv, Updating, Running
<1>4. CASE AskInstall(p) \/ AskUpdate(p) \/ AskUninstall(p)
  <2>1. Reads \in Request /\ Reads.stage = "asked" /\ Reads.op = "none" /\ Reads.old = Metadata(home)
    BY ReadsTyped DEF TypeInv, Reads, Idle
  <2>2. CASE AskInstall(p)
    <3>1. PICK hs \in SUBSET Host \ {{}}, v \in Version, local \in Locals, secure \in BOOLEAN :
             LET r == [Reads EXCEPT !.op = "install", !.hosts = hs, !.ver = v, !.local = local, !.secure = secure]
             IN Ask(p, [r EXCEPT !.refresh = Refreshed(r)])
      BY <2>2 DEF AskInstall
    <3> DEFINE q == [Reads EXCEPT !.op = "install", !.hosts = hs, !.ver = v, !.local = local, !.secure = secure]
               r == [q EXCEPT !.refresh = Refreshed(q)]
    <3>2. r.stage = "asked" /\ r.op = "install"
      BY <2>1 DEF Request
    <3>3. Ask(p, r)
      BY <3>1
    <3> HIDE DEF r
    <3> QED
      BY <1>1, <1>3, <3>2, <3>3 DEF Ask
  <2>3. CASE AskUpdate(p)
    <3>1. PICK v \in Version, local \in Locals, restart \in BOOLEAN, enable \in BOOLEAN :
            LET r == Planned(Reads, home.hosts, v, local, UpdateSecurity, restart, enable)
            IN Ask(p, [r EXCEPT !.refresh = Refreshed(r)])
      BY <2>3 DEF AskUpdate, Planned
    <3> DEFINE q == Planned(Reads, home.hosts, v, local, UpdateSecurity, restart, enable)
               r == [q EXCEPT !.refresh = Refreshed(q)]
    <3>2. r.stage = "asked" /\ r.hosts = home.hosts /\ r.old = Metadata(home)
      BY <2>1 DEF Request, Planned
    <3>3. Ask(p, r)
      BY <3>1
    <3> HIDE DEF r
    <3> QED
      BY <1>1, <1>3, <3>2, <3>3, MetadataIs DEF Ask, TypeInv
  <2>4. CASE AskUninstall(p)
    <3>1. PICK hs \in SUBSET home.hosts \ {{}} : Ask(p, [Reads EXCEPT !.op = "uninstall", !.hosts = hs])
      BY <2>4 DEF AskUninstall
    <3> DEFINE r == [Reads EXCEPT !.op = "uninstall", !.hosts = hs]
    <3>2. r.stage = "asked" /\ r.op = "uninstall"
      BY <2>1 DEF Request
    <3>3. Ask(p, r)
      BY <3>1
    <3> HIDE DEF r
    <3> QED
      BY <1>1, <1>3, <3>2, <3>3 DEF Ask
  <2> QED
    BY <1>4, <2>2, <2>3, <2>4
<1>5. ASSUME NEW r, proc' = [proc EXCEPT ![p] = r], Free,
             r.op = "update" => r.hosts \subseteq r.old.hosts /\ (r.stage # "idle" => Spares(r, Now'))
      PROVE  HookInv'
  BY <1>2, <1>5 DEF HookInv, Updating, Running, Free
<1>6. CASE Begin(p)
  <2>1. CASE Leave(p)
    BY <1>1, <1>5, <1>6, <2>1 DEF Begin, Leave, Idle
  <2>2. CASE Open(p)
    <3> DEFINE j == [status |-> "active", undo |-> <<>>, home |-> home,
                     conf |-> [h \in Host |-> NoKept], text |-> [x \in Place |-> NoText]]
               r == [proc[p] EXCEPT !.stage = "confirm"]
    <3>1. journals' = Append(journals, j) /\ proc' = [proc EXCEPT ![p] = r]
      BY <2>2 DEF Open, Go
    <3>2. j \in Journal /\ j.undo = <<>> /\ \A h \in Host : j.conf[h].on = "no"
      BY OpenTyped DEF TypeInv
    <3> HIDE DEF j
    <3>3. Now' = j
      BY <3>1, <3>2, Appended DEF TypeInv
    <3>4. Spares(r, j)
      BY <3>2 DEF Spares
    <3>5. r.op = "update" => r.hosts \subseteq r.old.hosts
      BY <1>2 DEF HookInv, Request
    <3> HIDE DEF r
    <3> QED
      BY <1>1, <1>5, <1>6, <3>1, <3>3, <3>4, <3>5 DEF Begin
  <2> QED
    BY <1>6, <2>1, <2>2 DEF Begin
<1>7. CASE StartRollback(p)
  <2>1. PICK k : proc' = [proc EXCEPT ![p] = [Idle EXCEPT !.stage = "undo", !.op = "rollback", !.k = k]]
    BY <1>7 DEF StartRollback
  <2> DEFINE r == [Idle EXCEPT !.stage = "undo", !.op = "rollback", !.k = k]
  <2>2. r.op = "rollback"
    BY DEF Idle
  <2> HIDE DEF r
  <2>3. proc' = [proc EXCEPT ![p] = r]
    BY <2>1 DEF r
  <2> QED
    BY <1>1, <1>5, <1>7, <2>2, <2>3 DEF StartRollback
<1>8. CASE Attest(p)
  BY <1>1, <1>8 DEF Attest, HookInv, Updating, Free, Running
<1> QED
  BY <1>1, <1>4, <1>6, <1>7, <1>8

LEMMA HookBegins == ASSUME Init PROVE HookInv
BY DEF Init, HookInv, Updating, Running, Idle

LEMMA HookHolds ==
  ASSUME InstallAssumption, SettingsInv, SettingsInv', HookInv, [Next]_vars
  PROVE  HookInv' /\ (InstallerMoves => PathsHeld)
<1>1. TypeInv /\ TypeInv'
  BY DEF SettingsInv
<1>2. ASSUME NEW p \in Proc, HookStep(p) PROVE HookInv' /\ PathsHeld
  BY <1>1, <1>2, HookStepDoes
<1>3. ASSUME NEW p \in Proc, Stages(p) PROVE HookStep(p)
  BY <1>1, <1>3, FilesStay, StagesStay, UninstallStays, PrepareStays, SwitchCacheStays DEF Stages
<1>4. ASSUME NEW p \in Proc,
             \/ AskInstall(p) \/ AskUpdate(p) \/ AskUninstall(p)
             \/ Begin(p) \/ Confirm(p) \/ Stages(p)
             \/ StartRollback(p) \/ UndoNext(p) \/ RestoreFiles(p)
             \/ Attest(p) \/ Fail(p) \/ Crash(p)
      PROVE  HookInv' /\ PathsHeld
  BY <1>1, <1>2, <1>3, <1>4, BesideHooks, FilesStay, UndoStays, RestoreStays
<1>5. ASSUME UNCHANGED <<journals, proc>> PROVE HookInv'
  <2>1. Last' = Last /\ Now' = Now
    BY <1>5 DEF Last, Now
  <2> QED
    BY <1>5, <2>1 DEF HookInv, Updating, Running
<1>6. ASSUME NEW x, NEW looked, Edit(x, looked) PROVE HookInv' /\ ~InstallerMoves
  <2>1. HookInv'
    BY <1>5, <1>6 DEF Edit
  <2>2. used \in [ops : Nat, edits : Nat, upsets : Nat]
    BY <1>1 DEF TypeInv, TypeOK
  <2>3. used'.edits # used.edits
    BY <1>6, <2>2 DEF Edit
  <2> QED
    BY <2>1, <2>3 DEF InstallerMoves
<1>7. CASE \/ \E h \in Host : EditSettings(h) \/ RunManager(h)
          \/ \E x \in Place : WritePlace(x)
  BY <1>6, <1>7 DEF EditSettings, RunManager, WritePlace
<1>8. CASE UNCHANGED vars
  BY <1>5, <1>8 DEF vars, PathsHeld, Resolves
<1> QED
  BY <1>4, <1>7, <1>8 DEF Next

(* While an ordinary update runs, or its own rollback, no version path a session may
   run hooks from stops resolving, for any hosts, releases, failures and crashes
   (cache.py:1, operations.py:604-627). *)
THEOREM HooksResolve == ASSUME InstallAssumption PROVE Spec => HookPathsStay
<1>1. Init => SettingsInv /\ HookInv
  BY InitHolds, HookBegins
<1>2. SettingsInv /\ HookInv /\ [Next]_vars => (SettingsInv /\ HookInv)'
  BY NextHolds, HookHolds
<1>3. SettingsInv /\ HookInv /\ [Next]_vars =>
        [InstallerMoves => \A h \in DirHosts : \A v \in Version :
           /\ \E p \in Proc : Updating(p) /\ Live(proc[p], h)
           /\ host[h].dirs[v] # "none"
           => host'[h].dirs[v] # "none"]_vars
  BY NextHolds, HookHolds DEF PathsHeld, Resolves
<1> QED
  BY <1>1, <1>2, <1>3, PTL DEF Spec, HookPathsStay

--------
(* A marketplace, a plugin, a launcher or a pointer of the user's stays as it is *)
(* (KeepsForeign).  What is to be done or undone was decided long before it is   *)
(* done: KeepInv says that in a host outside window nothing that was read,       *)
(* queued, recorded or kept for a rollback comes from the user's marketplace,    *)
(* and that no plan, record or journal claims a file outside window that the     *)
(* user wrote.                                                                   *)

\* A source, a home, a watched file, a journal with nothing of the user's in host h.
Ours(src) == src.from # "user"
ForeignIn(h, s) == Listed(h, s) # 0 /\ s.dirs[Listed(h, s)] = "other"
SameTree(s, t) == s.reg = t.reg /\ s.dirs = t.dirs
HomeOurs(h, w) == Ours(w.src[h]) /\ (w.rec[h].on => Ours(w.rec[h].orig.market))
KeptOurs(h, k) ==
  /\ k.on # "no" => Ours(k.signed.file.market) /\ Ours(k.before.file.market)
  /\ k.on = "all" => SameTree(k.signed, k.before) \/ ~ForeignIn(h, k.signed)
UndoOurs(h, j) ==
  \A k \in DOMAIN j.undo : j.undo[k].cmd.host = h => Ours(j.undo[k].cmd.src) /\ j.conf[h].on # "no"
OurJournal(h, j) == HomeOurs(h, j.home) /\ KeptOurs(h, j.conf[h]) /\ UndoOurs(h, j)

\* What a command has read of host h, and what it relies on once it has confirmed that.
CommandOurs(h, r) ==
  /\ HomeOurs(h, r.old) /\ Ours(r.src[h])
  /\ r.stage \in {"asked"} \union Steps /\ h \in r.hosts => Ours(r.inv[h].market)
  /\ r.stage = "select" => ~r.restart
Past(r) == r.stage \in Steps \ {"confirm"}
Stands(h, r, k, s) ==
  /\ h \in r.hosts => Ours(s.file.market)
  /\ k.on = "all" => r.restart /\ SameTree(s, k.signed)
MarketInv ==
  \A h \in Host \ window :
    /\ HomeOurs(h, home) /\ \A i \in DOMAIN journals : OurJournal(h, journals[i])
    /\ \A p \in Proc : /\ CommandOurs(h, proc[p])
                       /\ Past(proc[p]) => Stands(h, proc[p], Now.conf[h], host[h])
HostKept(h) ==
  Foreign(h) => /\ host'[h].file.market = host[h].file.market
                /\ ForeignPlugin(h) => Inv(h, host'[h]) = Inv(h, host[h])

\* Files of the user's outside the home, and what plan, home and journals say of them.
UserFiles == theirs \ window
PlanKeeps(r, U) ==
  /\ r.op \in {"install", "update"} =>
       /\ r.ptr.write \/ (r.ptr.owned /\ ~r.old.ptr) => Pointer \notin U
       /\ r.old.ptr => r.ptr.owned
  /\ r.op = "uninstall" /\ r.old.hosts \subseteq r.hosts =>
       Launcher \notin U /\ (r.old.ptr => Pointer \notin U)
Recalls(r, w) ==
  r.stage \in Steps \ {"confirm", "commit"} =>
    w.ptr = r.old.ptr /\ (r.op = "uninstall" => w.hosts = r.old.hosts)
Stood(i) == journals[i].status # "rolled_back"
Answers(v, w) == v.ptr => w.ptr
Writes(j, t) == j.text[Pointer].on /\ j.text[Pointer].signed = t
Undone(j) == \A x \in Place : j.text[x].on => j.text[x].signed # "other"
PlaceInv ==
  /\ Launcher \in UserFiles => place[Launcher] = "other"
  /\ Pointer \in UserFiles => place[Pointer] = "other" \/ (place[Pointer] = "text" /\ ~Claimed)
  /\ \A i \in DOMAIN journals : Undone(journals[i])
  /\ \A i \in DOMAIN journals : Stood(i) => Answers(journals[i].home, home)
  /\ \A i, m \in DOMAIN journals : i < m /\ Stood(i) /\ Stood(m) => Answers(journals[i].home, journals[m].home)
  /\ \A p \in Proc : /\ proc[p].stage \in {"asked"} \union Steps => PlanKeeps(proc[p], UserFiles)
                     /\ Recalls(proc[p], home)
FileKept(x) == place'[x] = place[x]

\* A step of the command that holds the lock, with what it makes of the journal.
Advance(p, j) ==
  /\ Running(p) /\ Turn(p) /\ UNCHANGED <<begin, edited, own, theirs, window>>
  /\ Save(j) \/ (j = Now /\ UNCHANGED journals)
  /\ proc'[p].stage \in {"asked"} \union Steps => Going(p)
MarketStep(p, j) ==
  /\ proc'[p].stage = "select" => ~proc[p].restart
  /\ \A h \in Host \ window :
       /\ OurJournal(h, j) /\ HomeOurs(h, home') /\ Ours(proc'[p].src[h]) /\ HostKept(h)
       /\ Past(proc'[p]) => Stands(h, proc[p], j.conf[h], host'[h])
PlaceStep(p, j) ==
  /\ j.home = Now.home /\ Undone(j) /\ \A x \in UserFiles : FileKept(x)
  /\ Pointer \in UserFiles => (Writes(j, "text") \/ home'.ptr => Claimed)
  /\ \A i \in DOMAIN journals : (IF i = Last THEN j.status # "rolled_back" ELSE Stood(i)) =>
       Answers(journals[i].home, home')
  /\ Recalls(proc'[p], home')

LEMMA MarketStepDoes ==
  ASSUME TypeInv, MarketInv, NEW p \in Proc, NEW j, Advance(p, j), MarketStep(p, j)
  PROVE  MarketInv' /\ \A h \in Host \ window : HostKept(h)
<1>1. /\ \A q \in Proc \ {p} : ~Running(q) /\ proc'[q] = proc[q]
      /\ proc'[p] = Idle \/ SameTask(proc[p], proc'[p])
      /\ TypeOK /\ journals # <<>> /\ Last \in DOMAIN journals
  BY RunFacts DEF Advance, Turn
<1>2. /\ Now' = j /\ DOMAIN journals' = DOMAIN journals
      /\ \A i \in DOMAIN journals : journals'[i] = IF i = Last THEN j ELSE journals[i]
  BY <1>1, SavedIs DEF Advance
<1>3. window' = window
  BY DEF Advance, ghosts
<1>4. SUFFICES ASSUME NEW h \in Host \ window
      PROVE  /\ HomeOurs(h, home') /\ \A i \in DOMAIN journals' : OurJournal(h, journals'[i])
             /\ \A q \in Proc : /\ CommandOurs(h, proc'[q])
                                /\ Past(proc'[q]) => Stands(h, proc'[q], Now'.conf[h], host'[h])
  BY <1>3 DEF MarketInv, MarketStep
<1>5. HomeOurs(h, home') /\ \A i \in DOMAIN journals' : OurJournal(h, journals'[i])
  BY <1>2 DEF MarketInv, MarketStep
<1>6. ASSUME NEW q \in Proc \ {p}
      PROVE  CommandOurs(h, proc'[q]) /\ ~Past(proc'[q])
  BY <1>1 DEF MarketInv, Running, Past, Steps
<1>7. CASE proc'[p] = Idle
  <2>1. Ours(NoSource) /\ HomeOurs(h, EmptyHome)
    BY DEF Ours, NoSource, HomeOurs, EmptyHome, NoRecord
  <2>2. Idle.stage = "idle" /\ Idle.old = EmptyHome /\ Idle.src[h] = NoSource
    BY DEF Idle
  <2>3. CommandOurs(h, proc'[p]) /\ ~Past(proc'[p])
    BY <1>7, <2>1, <2>2 DEF CommandOurs, Past, Steps
  <2> QED
    BY <1>5, <1>6, <2>3
<1>8. CASE SameTask(proc[p], proc'[p])
  <2>1. CommandOurs(h, proc[p])
    BY DEF MarketInv
  <2>2. CommandOurs(h, proc'[p])
    BY <1>8, <2>1 DEF CommandOurs, SameTask, Advance, MarketStep, Going
  <2>3. Past(proc'[p]) => Stands(h, proc'[p], Now'.conf[h], host'[h])
    BY <1>2, <1>8 DEF Stands, SameTask, MarketStep
  <2> QED
    BY <1>5, <1>6, <2>2, <2>3
<1> QED
  BY <1>1, <1>7, <1>8

LEMMA PlaceStepDoes ==
  ASSUME InstallAssumption, TypeInv, PlaceInv, NEW p \in Proc, NEW j, Advance(p, j), PlaceStep(p, j)
  PROVE  PlaceInv' /\ \A x \in UserFiles : FileKept(x)
<1>1. /\ \A q \in Proc \ {p} : ~Running(q) /\ proc'[q] = proc[q]
      /\ proc'[p] = Idle \/ SameTask(proc[p], proc'[p])
      /\ TypeOK /\ journals # <<>> /\ Last \in DOMAIN journals
  BY RunFacts DEF Advance, Turn
<1>2. /\ DOMAIN journals' = DOMAIN journals
      /\ \A i \in DOMAIN journals : journals'[i] = IF i = Last THEN j ELSE journals[i]
      /\ Now = journals[Last]
  BY <1>1, SavedIs DEF Advance, Now
<1>3. UserFiles' = UserFiles
  BY DEF Advance, ghosts, UserFiles
<1>4. Launcher \in UserFiles => place'[Launcher] = "other"
  BY DEF PlaceStep, PlaceInv, FileKept
<1>5. Pointer \in UserFiles => (Claimed' => Claimed)
  BY <1>2 DEF PlaceStep, Claimed, Writes
<1>6. Pointer \in UserFiles => place'[Pointer] = "other" \/ (place'[Pointer] = "text" /\ ~Claimed')
  BY <1>5 DEF PlaceStep, PlaceInv, FileKept
<1>7. \A i \in DOMAIN journals' : Undone(journals'[i])
  BY <1>2 DEF PlaceStep, PlaceInv
<1>8. \A i \in DOMAIN journals : /\ journals'[i].home = journals[i].home
                                 /\ Stood(i)' => IF i = Last THEN j.status # "rolled_back" ELSE Stood(i)
  BY <1>2 DEF PlaceStep, Stood
<1>9. \A i \in DOMAIN journals' : Stood(i)' => Answers(journals'[i].home, home')
  BY <1>2, <1>8 DEF PlaceStep
<1>10. \A i \in DOMAIN journals : Stood(i)' => Stood(i)
  <2>1. Now.status = "active"
    BY RunFacts DEF Advance
  <2> QED
    BY <1>2, <1>8, <2>1 DEF Stood
<1>11. \A i, m \in DOMAIN journals' : i < m /\ Stood(i)' /\ Stood(m)' => Answers(journals'[i].home, journals'[m].home)
  BY <1>2, <1>8, <1>10 DEF PlaceInv
<1>12. ASSUME NEW q \in Proc \ {p}
       PROVE (proc'[q].stage \in {"asked"} \union Steps => PlanKeeps(proc'[q], UserFiles')) /\ Recalls(proc'[q], home')
  <2>1. proc'[q] = proc[q] /\ ~Running(q)
    BY <1>1
  <2>2. proc[q].stage \in {"asked"} \union Steps => PlanKeeps(proc[q], UserFiles)
    BY DEF PlaceInv
  <2>3. PlanKeeps(proc'[q], UserFiles') <=> PlanKeeps(proc[q], UserFiles)
    BY <1>3, <2>1 DEF PlanKeeps
  <2>4. Recalls(proc'[q], home')
    BY <2>1 DEF Recalls, Running, Steps
  <2> QED
    BY <2>1, <2>2, <2>3, <2>4
<1>13. proc'[p].stage \in {"asked"} \union Steps => PlanKeeps(proc'[p], UserFiles')
  <2>1. CASE proc'[p] = Idle
    BY <2>1 DEF Idle, Steps
  <2>2. CASE SameTask(proc[p], proc'[p])
    <3>1. PlanKeeps(proc'[p], UserFiles') <=> PlanKeeps(proc[p], UserFiles)
      BY <1>3, <2>2 DEF PlanKeeps, SameTask
    <3> QED
      BY <3>1 DEF PlaceInv, Advance, Going
  <2> QED
    BY <1>1, <2>1, <2>2
<1>14. \A q \in Proc : /\ proc'[q].stage \in {"asked"} \union Steps => PlanKeeps(proc'[q], UserFiles')
                       /\ Recalls(proc'[q], home')
  BY <1>12, <1>13 DEF PlaceStep
<1> QED
  BY <1>3, <1>4, <1>6, <1>7, <1>9, <1>11, <1>14 DEF PlaceInv, PlaceStep

KeepInv == MarketInv /\ PlaceInv
KeepStep(p) == \E j : Advance(p, j) /\ MarketStep(p, j) /\ PlaceStep(p, j)

\* The command goes on as it was, or ends its work.
Steady(p) ==
  /\ Turn(p)
  /\ proc'[p].stage \in {"asked"} \union Steps => Going(p)
  /\ \A h \in Host : Ours(proc[p].src[h]) => Ours(proc'[p].src[h])

LEMMA GoesSteady ==
  ASSUME TypeOK, NEW p \in Proc, NEW r, proc' = [proc EXCEPT ![p] = r],
         \/ r = Idle
         \/ SameTask(proc[p], r) /\ r.src = proc[p].src /\ (r.stage = "undo" \/ (r.stage \in Steps /\ Going(p)))
  PROVE  Steady(p) /\ proc'[p] = r
<1>1. proc \in [Proc -> Request] /\ proc'[p] = r /\ \A q \in Proc \ {p} : proc'[q] = proc[q]
  BY DEF TypeOK
<1>2. Turn(p)
  BY <1>1 DEF Turn
<1>3. CASE r = Idle
  BY <1>1, <1>2, <1>3 DEF Steady, Idle, Steps, Ours, NoSource
<1>4. CASE SameTask(proc[p], r) /\ r.src = proc[p].src /\ (r.stage = "undo" \/ (r.stage \in Steps /\ Going(p)))
  BY <1>1, <1>2, <1>4 DEF Steady, Steps
<1> QED
  BY <1>3, <1>4

LEMMA Ends ==
  ASSUME TypeOK, NEW p \in Proc, Leave(p) \/ Abort(p)
         \/ \E k : proc' = [proc EXCEPT ![p].stage = "undo", ![p].k = k, ![p].bad = FALSE]
  PROVE  Steady(p) /\ proc'[p].stage \in {"idle", "undo"}
<1>1. proc[p] \in Request
  BY DEF TypeOK
<1>2. CASE Leave(p)
  <2>1. proc' = [proc EXCEPT ![p] = Idle]
    BY <1>2 DEF Leave
  <2>2. Steady(p) /\ proc'[p] = Idle
    BY <2>1, GoesSteady
  <2>3. Idle.stage = "idle"
    BY DEF Idle
  <2> QED
    BY <2>2, <2>3
<1>3. ASSUME NEW k, proc' = [proc EXCEPT ![p] = Aborted(p, k)]
      PROVE Steady(p) /\ proc'[p].stage = "undo"
  <2>1. /\ SameTask(proc[p], Aborted(p, k)) /\ Aborted(p, k).src = proc[p].src
        /\ Aborted(p, k).stage = "undo"
    BY <1>1 DEF Aborted, SameTask, Request
  <2> QED
    BY <1>3, <2>1, GoesSteady
<1> QED
  BY <1>2, <1>3 DEF Abort, Aborted

LEMMA Goes ==
  ASSUME TypeOK, NEW p \in Proc, Going(p), NEW s \in Steps, Go(p, s)
  PROVE  Steady(p) /\ proc'[p].stage = s
<1>1. proc[p] \in Request
  BY DEF TypeOK
<1> DEFINE r == [proc[p] EXCEPT !.stage = s]
<1>2. SameTask(proc[p], r) /\ r.src = proc[p].src /\ r.stage = s
  BY <1>1 DEF SameTask, Request
<1>3. proc' = [proc EXCEPT ![p] = r]
  BY DEF Go
<1> HIDE DEF r
<1> QED
  BY <1>2, <1>3, GoesSteady

\* What leaves hosts, watched files and queue alone, or files outside the home.
LEMMA HostsCalm ==
  ASSUME TypeInv, MarketInv, NEW p \in Proc, Running(p), Steady(p), NEW j, j.home = Now.home,
         j.conf = Now.conf, j.undo = Now.undo, UNCHANGED host,
         \A h \in Host \ window : HomeOurs(h, home) => HomeOurs(h, home'),
         Past(proc'[p]) => Past(proc[p]), proc'[p].stage = "select" => ~proc[p].restart
  PROVE  MarketStep(p, j)
<1>1. Last \in DOMAIN journals
  BY RunFacts
<1>2. SUFFICES ASSUME NEW h \in Host \ window
      PROVE  /\ OurJournal(h, j) /\ HomeOurs(h, home') /\ Ours(proc'[p].src[h]) /\ HostKept(h)
             /\ Past(proc'[p]) => Stands(h, proc[p], j.conf[h], host'[h])
  BY DEF MarketStep
<1>3. OurJournal(h, Now) /\ HomeOurs(h, home) /\ Ours(proc[p].src[h])
      /\ (Past(proc[p]) => Stands(h, proc[p], Now.conf[h], host[h]))
  BY <1>1 DEF MarketInv, Now, CommandOurs
<1>4. OurJournal(h, j)
  BY <1>3 DEF OurJournal, UndoOurs
<1>5. HostKept(h)
  BY DEF HostKept
<1> QED
  BY <1>3, <1>4, <1>5 DEF Steady

LEMMA StillAnswers ==
  ASSUME TypeInv, PlaceInv, NEW p \in Proc, Running(p)
  PROVE  \A i \in DOMAIN journals : i = Last \/ Stood(i) => Stood(i) /\ Answers(journals[i].home, home)
<1>1. Now = journals[Last] /\ Now.status = "active"
  BY RunFacts DEF Now
<1> QED
  BY <1>1 DEF PlaceInv, Stood

LEMMA PlacesCalm ==
  ASSUME TypeInv, PlaceInv, NEW p \in Proc, Running(p), Steady(p), NEW j, j.home = Now.home, j.text = Now.text,
         UNCHANGED place, home'.ptr = home.ptr, home'.hosts = home.hosts,
         proc'[p].stage \in Steps \ {"confirm", "commit"} =>
           proc[p].stage \in Steps \ {"confirm", "commit"} \/ Metadata(home) = proc[p].old
  PROVE  PlaceStep(p, j)
<1>1. Last \in DOMAIN journals /\ Now = journals[Last]
  BY RunFacts DEF Now
<1>2. \A x \in UserFiles : FileKept(x)
  BY DEF FileKept
<1>3. Undone(j)
  BY <1>1 DEF PlaceInv, Undone
<1>4. Writes(j, "text") \/ home'.ptr => Claimed
  BY <1>1 DEF Writes, Claimed
<1>5. \A i \in DOMAIN journals : i = Last \/ Stood(i) => Answers(journals[i].home, home')
  BY StillAnswers DEF Answers
<1>6. Recalls(proc'[p], home')
  <2>1. CASE proc'[p] = Idle
    BY <2>1 DEF Recalls, Idle, Steps
  <2>2. CASE SameTask(proc[p], proc'[p])
    <3>1. Recalls(proc[p], home) /\ TypeOK
      BY DEF PlaceInv, TypeInv
    <3> QED
      BY <2>2, <3>1, MetadataIs DEF Recalls, SameTask
  <2> QED
    BY <2>1, <2>2 DEF Steady, Turn
<1> QED
  BY <1>2, <1>3, <1>4, <1>5, <1>6 DEF PlaceStep

\* Nothing but the command changes.
LEMMA Advances ==
  ASSUME NEW p \in Proc, Running(p), Steady(p), NEW j, Save(j) \/ (j = Now /\ UNCHANGED journals), UNCHANGED ghosts
  PROVE  Advance(p, j)
BY DEF Advance, Steady, ghosts

LEMMA OnlySteps ==
  ASSUME TypeInv, KeepInv, NEW p \in Proc, Running(p), UNCHANGED <<host, place, home, journals, ghosts>>, Steady(p),
         \/ proc'[p].stage \in {"idle", "undo"}
         \/ /\ proc'[p].stage \in Steps \ {"select"}
            /\ proc[p].stage \in Steps \ {"confirm", "commit"}
  PROVE  KeepStep(p)
<1>1. Advance(p, Now)
  BY Advances
<1>2. MarketStep(p, Now)
  <2>1. Past(proc'[p]) => Past(proc[p])
    BY DEF Past, Steps
  <2>2. proc'[p].stage # "select"
    OBVIOUS
  <2>3. MarketInv /\ UNCHANGED host /\ UNCHANGED home
    BY DEF KeepInv
  <2> QED
    BY <2>1, <2>2, <2>3, HostsCalm
<1>3. PlaceStep(p, Now)
  <2>1. proc'[p].stage \in Steps \ {"confirm", "commit"} => proc[p].stage \in Steps \ {"confirm", "commit"}
    BY DEF Steps
  <2>2. PlaceInv /\ UNCHANGED place /\ UNCHANGED home
    BY DEF KeepInv
  <2> QED
    BY <2>1, <2>2, PlacesCalm
<1> QED
  BY <1>1, <1>2, <1>3 DEF KeepStep

\* What a native command with a source of ours makes of a host that had nothing of the user's.
LEMMA NothingListed ==
  ASSUME InstallAssumption, NEW h \in Host, NEW s \in HostState, \A v \in Version : s.dirs[v] # "other"
  PROVE  ~ForeignIn(h, s)
<1>1. CASE h \in DirHosts
  <2>1. Real(s) \subseteq Version /\ MaxVersion \in Nat
    BY Bounds DEF Real
  <2>2. Listed(h, s) = 0 \/ Listed(h, s) \in Version
    <3>1. CASE Real(s) = {}
      BY <1>1, <3>1 DEF Listed, Largest
    <3>2. CASE Real(s) # {}
      <4>1. Real(s) \in SUBSET Nat /\ \A n \in Real(s) : n <= MaxVersion
        BY <2>1 DEF Version
      <4>2. Largest(Real(s)) \in Real(s)
        BY <2>1, <3>2, <4>1, LargestFound
      <4> QED
        BY <1>1, <2>1, <4>2 DEF Listed
    <3> QED
      BY <3>1, <3>2
  <2> QED
    BY <2>2 DEF ForeignIn
<1>2. CASE h \notin DirHosts
  <2>1. Listed(h, s) = s.reg /\ s.reg \in 0..MaxVersion /\ MaxVersion \in Nat
    BY <1>2, Bounds DEF Listed, HostState
  <2>2. s.reg = 0 \/ s.reg \in Version
    BY <2>1 DEF Version
  <2> QED
    BY <2>1, <2>2 DEF ForeignIn
<1> QED
  BY <1>1, <1>2

LEMMA EffectOurs ==
  ASSUME InstallAssumption, NEW c \in Command, NEW s \in HostState, Ours(c.src), Ours(s.file.market)
  PROVE  LET t == Effect(c, s)
         IN Ours(t.file.market) /\ (SameTree(t, s) \/ ~ForeignIn(c.host, t))
<1> DEFINE h == c.host
           t == Effect(c, s)
<1>1. h \in Host /\ s.file \in File /\ s.dirs \in [Version -> {"none", "dir", "other", "alias"}] /\ Ours(NoSource)
  BY DEF Command, HostState, Ours, NoSource
<1>2. t \in HostState
  BY Effects
<1>3. CASE c.op = "market add"
  BY <1>1, <1>3 DEF Effect, SameTree, HostState, File
<1>4. CASE c.op = "market remove"
  <2>1. Ours(t.file.market)
    BY <1>1, <1>4 DEF Effect, MarketRemoved, HostState, File
  <2>2. CASE h \in DirHosts
    BY <1>4, <2>1, <2>2 DEF Effect, MarketRemoved, SameTree, HostState
  <2>3. CASE h \notin DirHosts
    <3>1. t.reg = 0
      BY <1>4, <2>3 DEF Effect, MarketRemoved, HostState
    <3> QED
      BY <2>1, <2>3, <3>1 DEF ForeignIn, Listed
  <2> QED
    BY <2>2, <2>3
<1>5. CASE c.op = "plugin add"
  <2>1. t = PluginAdded(h, s)
    BY <1>5 DEF Effect
  <2>2. Ours(t.file.market)
    BY <1>1, <2>1 DEF PluginAdded, HostState, File
  <2>3. CASE h \in DirHosts
    <3>1. \A v \in Version : t.dirs[v] # "other"
      BY <1>1, <2>1, <2>3 DEF PluginAdded, HostState, Ours
    <3> QED
      BY <1>1, <1>2, <2>2, <3>1, NothingListed
  <2>4. CASE h \notin DirHosts
    <3>1. /\ Listed(h, t) = s.file.market.ver
          /\ s.file.market.ver \in Version => t.dirs[s.file.market.ver] = "dir"
      BY <1>1, <2>1, <2>4 DEF PluginAdded, HostState, File, Ours, Listed
    <3>2. s.file.market.ver \in 0..MaxVersion /\ MaxVersion \in Nat
      BY <1>1, Bounds DEF File, Source
    <3>3. s.file.market.ver = 0 \/ s.file.market.ver \in Version
      BY <3>2 DEF Version
    <3> QED
      BY <2>2, <3>1, <3>3 DEF ForeignIn
  <2> QED
    BY <2>3, <2>4
<1>6. CASE c.op = "plugin remove"
  <2>1. t = PluginRemoved(h, s)
    BY <1>6 DEF Effect
  <2>2. Ours(t.file.market)
    BY <1>1, <2>1 DEF PluginRemoved, HostState, File
  <2>3. CASE h \in DirHosts
    <3>1. \A v \in Version : t.dirs[v] # "other"
      BY <1>1, <2>1, <2>3 DEF PluginRemoved, HostState, Fresh
    <3> QED
      BY <1>1, <1>2, <2>2, <3>1, NothingListed
  <2>4. CASE h \notin DirHosts
    <3>1. t.reg = 0
      BY <2>1, <2>4 DEF PluginRemoved, HostState
    <3> QED
      BY <2>2, <2>4, <3>1 DEF ForeignIn, Listed
  <2> QED
    BY <2>3, <2>4
<1>7. CASE c.op = "select"
  <2>1. t = Selected(s, c.src.ver, Others(s, c.src.ver))
    BY <1>7 DEF Effect
  <2>2. Ours(t.file.market)
    BY <2>1 DEF Selected, HostState
  <2>3. \A v \in Version : t.dirs[v] # "other"
    BY <1>1, <2>1 DEF Selected, Others, Real, HostState
  <2> QED
    BY <1>1, <1>2, <2>2, <2>3, NothingListed
<1> QED
  BY <1>3, <1>4, <1>5, <1>6, <1>7 DEF Command

LEMMA ForeignTree ==
  ASSUME NEW h, NEW s, NEW t, SameTree(s, t) PROVE ForeignIn(h, s) <=> ForeignIn(h, t)
BY DEF SameTree, ForeignIn, Listed, Real

\* Signed again after a command in a host that is watched, or of another host.
LEMMA SignedOurs ==
  ASSUME InstallAssumption, TypeInv, NEW p \in Proc, Running(p), ~Conflict(Now),
         NEW j \in Journal, j.conf = Now.conf, NEW h \in Host, OurJournal(h, j),
         NEW c \in Command, NEW s \in {host[c.host], Effect(c, host[c.host])}, host' = [host EXCEPT ![c.host] = s],
         c.host = h => Ours(c.src) /\ Now.conf[h].on # "no"
  PROVE  /\ OurJournal(h, SignAll(j, host')) /\ HostKept(h)
         /\ Ours(host[h].file.market) => Ours(host'[h].file.market)
         /\ SignAll(j, host').conf[h].on = "all" =>
              SameTree(host'[h], SignAll(j, host').conf[h].signed) /\ Now.conf[h].on = "all"
<1>1. TypeOK /\ host \in [Host -> HostState] /\ c.host \in Host
  BY RunFacts DEF TypeOK, Command
<1>2. host' \in [Host -> HostState]
  BY <1>1, Effects
<1> DEFINE k == Now.conf[h]
           t == host'[h]
<1>3. k \in Kept /\ KeptOurs(h, k) /\ HomeOurs(h, j.home) /\ UndoOurs(h, j)
  BY RunFacts DEF OurJournal, Journal
<1>4. /\ k.on # "no" => host[h].file = k.signed.file
      /\ k.on = "all" => SameTree(host[h], k.signed)
  BY DEF Conflict, Same, SameFile, SameRest, SameTree
<1>5. c.host # h => t = host[h]
  BY <1>1
<1>6. c.host = h => /\ t = host[h] \/ t = Effect(c, host[h])
                    /\ Ours(c.src) /\ Ours(host[h].file.market)
  BY <1>1, <1>3, <1>4 DEF KeptOurs
<1>7. c.host = h => Ours(t.file.market) /\ (SameTree(t, host[h]) \/ ~ForeignIn(h, t))
  BY <1>1, <1>6, EffectOurs DEF SameTree
<1>8. k.on # "no" => Ours(t.file.market)
  BY <1>3, <1>4, <1>5, <1>7 DEF KeptOurs
<1>9. k.on = "all" => SameTree(t, k.before) \/ ~ForeignIn(h, t)
  <2> SUFFICES ASSUME k.on = "all", ForeignIn(h, t) PROVE SameTree(t, k.before)
    OBVIOUS
  <2>1. SameTree(t, host[h])
    BY <1>5, <1>7 DEF SameTree
  <2>2. SameTree(t, k.signed)
    BY <1>4, <2>1 DEF SameTree
  <2>3. ForeignIn(h, k.signed)
    BY <2>2, ForeignTree
  <2> QED
    BY <1>3, <2>2, <2>3 DEF KeptOurs, SameTree
<1> DEFINE l == SignAll(j, host').conf[h]
<1>10. /\ l.on = k.on /\ (k.on # "no" => l.signed = t /\ l.before = k.before)
       /\ SignAll(j, host').undo = j.undo /\ SignAll(j, host').home = j.home
  <2> DEFINE u == SignAll(j, host')
  <2>1. /\ u.undo = j.undo /\ u.home = j.home
        /\ IF j.conf[h].on = "no" THEN u.conf[h] = j.conf[h]
           ELSE u.conf[h].on = j.conf[h].on /\ u.conf[h].before = j.conf[h].before /\ u.conf[h].signed = host'[h]
    BY <1>2, SignAllDoes
  <2> HIDE DEF u
  <2>2. j.conf[h] = k
    OBVIOUS
  <2> QED
    BY <2>1, <2>2 DEF u
<1>11. KeptOurs(h, l)
  BY <1>3, <1>8, <1>9, <1>10 DEF KeptOurs, Kept
<1>12. OurJournal(h, SignAll(j, host'))
  BY <1>3, <1>10, <1>11 DEF OurJournal, UndoOurs
<1>13. HostKept(h)
  <2>1. CASE c.host = h
    BY <1>6, <2>1 DEF HostKept, Foreign, Ours
  <2>2. CASE c.host # h
    BY <1>5, <2>2 DEF HostKept
  <2> QED
    BY <2>1, <2>2
<1>14. Ours(host[h].file.market) => Ours(t.file.market)
  BY <1>5, <1>7
<1> HIDE DEF k, l
<1> QED
  BY <1>10, <1>12, <1>13, <1>14 DEF SameTree, k, l

\* The journal with the undo of a command of ours, in a host that is watched.
LEMMA QueuedOurs ==
  ASSUME NEW j \in Journal, NEW u, u = <<>> \/ (\E d \in Command : u = <<d>>),
         NEW h \in Host, OurJournal(h, j),
         u # <<>> /\ u[1].host = h => Ours(u[1].src) /\ j.conf[h].on # "no"
  PROVE  LET t == IF u = <<>> THEN j ELSE Queue(j, u[1])
         IN OurJournal(h, t) /\ t.text = j.text /\ t.home = j.home /\ t.conf = j.conf
<1>1. ASSUME NEW d \in Command, d.host = h => Ours(d.src) /\ j.conf[h].on # "no"
      PROVE  LET t == Queue(j, d) IN OurJournal(h, t) /\ t.text = j.text /\ t.home = j.home /\ t.conf = j.conf
  <2> DEFINE e == [cmd |-> d, state |-> "ready"]
             t == Queue(j, d)
  <2>1. j.undo \in Seq(Undo) /\ e \in Undo
    BY DEF Journal, Undo
  <2>2. t.undo = Append(j.undo, e) /\ t.conf = j.conf /\ t.home = j.home /\ t.text = j.text
    BY DEF Queue, Journal
  <2>3. \A k \in DOMAIN Append(j.undo, e) :
          Append(j.undo, e)[k] = e \/ (k \in DOMAIN j.undo /\ Append(j.undo, e)[k] = j.undo[k])
    BY <2>1
  <2>4. UndoOurs(h, t)
    BY <1>1, <2>2, <2>3 DEF OurJournal, UndoOurs
  <2> QED
    BY <2>2, <2>4 DEF OurJournal
<1>2. ASSUME NEW d \in Command, u = <<d>> PROVE u # <<>> /\ u[1] = d
  BY <1>2
<1> QED
  BY <1>1, <1>2

LEMMA CommandKeeps ==
  ASSUME InstallAssumption, SettingsInv, KeepInv, NEW p \in Proc, proc[p].stage \in InHost,
         NEW next \in Steps \ {"select"},
         NEW op \in {"market add", "market remove", "plugin add", "plugin remove", "select"},
         NEW src \in Source, NEW u, u = <<>> \/ (\E d \in Command : u = <<d>> /\ d.host = proc[p].cur),
         Now.conf[proc[p].cur].on # "no",
         proc[p].cur \notin window => Ours(src) /\ (u # <<>> => Ours(u[1].src)),
         \/ External(p, Cmd(op, proc[p].cur, src), u, next)
         \/ DiesRunning(p, Cmd(op, proc[p].cur, src), u)
  PROVE  KeepStep(p)
<1> DEFINE r == proc[p]
           g == proc[p].cur
           c == Cmd(op, g, src)
           j == IF u = <<>> THEN Now ELSE Queue(Now, u[1])
<1>1. /\ Running(p) /\ TypeInv /\ TypeOK /\ Now \in Journal /\ r \in Request /\ journals # <<>>
      /\ g \in Host /\ g \in r.hosts /\ host \in [Host -> HostState] /\ MarketInv /\ PlaceInv
  BY AtHost DEF TypeOK, KeepInv
<1>2. Going(p) /\ Past(r) /\ r.stage \in Steps \ {"confirm", "commit"} /\ Now = journals[Last] /\ Last \in DOMAIN journals
  BY <1>1, RunFacts DEF Going, Past, InHost, Installing, Uninstalling, Steps, Now
<1>3. c \in Command /\ c.host = g /\ c.src = src
  BY <1>1, CommandTyped DEF Cmd
<1>4. u # <<>> => u[1].host = g
  <2>1. ASSUME NEW d \in Command, u = <<d>>, d.host = g PROVE u[1].host = g
    BY <2>1
  <2> QED
    BY <2>1
<1>5. j \in Journal /\ j.conf = Now.conf
  BY <1>1, Queued
<1>6. ASSUME NEW h \in Host \ window
      PROVE  /\ OurJournal(h, Now) /\ OurJournal(h, j) /\ j.text = Now.text /\ j.home = Now.home
             /\ Stands(h, r, Now.conf[h], host[h]) /\ HomeOurs(h, home) /\ Ours(r.src[h])
  <2>1. OurJournal(h, Now) /\ Stands(h, r, Now.conf[h], host[h]) /\ HomeOurs(h, home) /\ Ours(r.src[h])
    BY <1>1, <1>2 DEF MarketInv, CommandOurs
  <2>2. u # <<>> /\ u[1].host = h => Ours(u[1].src) /\ Now.conf[h].on # "no"
    BY <1>4
  <2> QED
    BY <1>1, <2>1, <2>2, QueuedOurs
<1>7. j.text = Now.text /\ j.home = Now.home
  BY <1>1 DEF Queue, Journal
<1> HIDE DEF j, c
<1>8. ASSUME NEW t, t.text = Now.text, t.home = Now.home, Steady(p), UNCHANGED <<place, home>>
      PROVE  PlaceStep(p, t)
  BY <1>1, <1>2, <1>8, PlacesCalm
<1>9. CASE External(p, c, u, next) /\ Conflict(Now)
  <2>1. Abort(p) /\ UNCHANGED <<host, place, home, journals, ghosts>>
    BY <1>9 DEF External
  <2>2. Steady(p) /\ proc'[p].stage \in {"idle", "undo"}
    BY <1>1, <2>1, Ends
  <2> QED
    BY <1>1, <2>1, <2>2, OnlySteps
<1>10. CASE External(p, c, u, next) /\ ~Conflict(Now)
  <2>1. PICK o \in Outcomes(c) :
          LET after == [host EXCEPT ![c.host] = o.s]
          IN /\ host' = after
             /\ Save(SignAll(j, after))
             /\ IF o.ok THEN Go(p, next)
                ELSE proc' = [proc EXCEPT ![p].stage = "undo", ![p].k = Len(j.undo), ![p].bad = FALSE]
    BY <1>10 DEF External, j
  <2>2. UNCHANGED <<place, home, ghosts>>
    BY <1>10 DEF External
  <2>3. o.s \in {host[c.host], Effect(c, host[c.host])}
    BY <1>3, OutcomeIs
  <2> DEFINE t == SignAll(j, host')
  <2>4. Save(t)
    BY <2>1
  <2>5. Steady(p) /\ proc'[p].stage # "select"
    <3>1. CASE Go(p, next)
      BY <1>1, <1>2, <3>1, Goes
    <3>2. CASE proc' = [proc EXCEPT ![p].stage = "undo", ![p].k = Len(j.undo), ![p].bad = FALSE]
      <4>1. \E k : proc' = [proc EXCEPT ![p].stage = "undo", ![p].k = k, ![p].bad = FALSE]
        BY <3>2
      <4> QED
        BY <1>1, <4>1, Ends
    <3> QED
      BY <2>1, <3>1, <3>2
  <2>6. ASSUME NEW h \in Host \ window
        PROVE  /\ OurJournal(h, t) /\ HomeOurs(h, home') /\ Ours(proc'[p].src[h]) /\ HostKept(h)
               /\ Stands(h, r, t.conf[h], host'[h])
    <3>1. /\ OurJournal(h, t) /\ HostKept(h)
          /\ Ours(host[h].file.market) => Ours(host'[h].file.market)
          /\ t.conf[h].on = "all" => SameTree(host'[h], t.conf[h].signed) /\ Now.conf[h].on = "all"
      <4>1. c.host = h => Ours(c.src) /\ Now.conf[h].on # "no"
        BY <1>3
      <4> QED
        BY <1>1, <1>3, <1>5, <1>6, <1>10, <2>1, <2>3, <4>1, SignedOurs
    <3>2. Stands(h, r, t.conf[h], host'[h])
      BY <1>6, <3>1 DEF Stands
    <3> QED
      BY <1>6, <2>2, <2>5, <3>1, <3>2 DEF Steady
  <2>7. t.text = Now.text /\ t.home = Now.home
    BY <1>5, <1>7 DEF SignAll, Journal
  <2> HIDE DEF t
  <2>8. MarketStep(p, t)
    BY <2>5, <2>6 DEF MarketStep
  <2>9. Advance(p, t) /\ PlaceStep(p, t)
    BY <1>1, <1>8, <2>2, <2>4, <2>5, <2>7, Advances
  <2> QED
    BY <2>8, <2>9 DEF KeepStep
<1>11. CASE DiesRunning(p, c, u)
  <2>1. PICK s : host' = [host EXCEPT ![c.host] = s]
    BY <1>11 DEF DiesRunning
  <2>2. Save(j) /\ Leave(p) /\ UNCHANGED <<place, home, ghosts>>
    BY <1>11 DEF DiesRunning, j
  <2>3. Steady(p) /\ proc'[p].stage \in {"idle", "undo"}
    BY <1>1, <2>2, Ends
  <2>4. ASSUME NEW h \in Host \ window
        PROVE  OurJournal(h, j) /\ HomeOurs(h, home') /\ Ours(proc'[p].src[h]) /\ HostKept(h)
    <3>1. HostKept(h)
      <4>1. CASE h = g
        BY <1>1, <1>6, <4>1 DEF HostKept, Foreign, Stands, Ours
      <4>2. CASE h # g
        BY <1>1, <1>3, <2>1, <4>2 DEF HostKept
      <4> QED
        BY <4>1, <4>2
    <3> QED
      BY <1>6, <2>2, <2>3, <3>1 DEF Steady
  <2>5. ~Past(proc'[p]) /\ proc'[p].stage # "select"
    BY <2>3 DEF Past, Steps
  <2>6. MarketStep(p, j)
    BY <2>4, <2>5 DEF MarketStep
  <2>7. Advance(p, j) /\ PlaceStep(p, j)
    BY <1>1, <1>7, <1>8, <2>2, <2>3, Advances
  <2> QED
    BY <2>6, <2>7 DEF KeepStep
<1> QED
  BY <1>9, <1>10, <1>11 DEF c

\* The stages of an install, an update and an uninstall that run such a command.
LEMMA StageCommandsKeep ==
  ASSUME InstallAssumption, SettingsInv, KeepInv, NEW p \in Proc,
         \/ RemoveMarket(p) \/ AddMarket(p) \/ DropDisabled(p) \/ AddPlugin(p)
         \/ RemovePlugin(p) \/ RemoveOwnedMarket(p)
  PROVE  KeepStep(p)
<1> DEFINE r == proc[p]
           h == proc[p].cur
<1>1. r.stage \in {"remove", "add", "drop", "plug", "unplug", "unmarket"} /\ r.stage \in InHost
  BY DEF RemoveMarket, AddMarket, DropDisabled, AddPlugin, RemovePlugin, RemoveOwnedMarket, InHost, Installing, Uninstalling
<1>2. /\ Running(p) /\ TypeInv /\ TypeOK /\ r \in Request /\ h \in Host /\ h \in r.hosts
      /\ Standing(r, Now) /\ Knows(r)
  BY <1>1, AtHost
<1>3. Now.conf[h].on # "no"
  <2>1. Tracked(r, h)
    BY <1>2 DEF Knows
  <2>2. r.stage \in {"unplug", "unmarket"} => r.op = "uninstall"
    BY <1>2 DEF Standing, Uninstalling
  <2>3. r.stage \in {"remove", "add", "drop", "plug"} => r.op # "uninstall"
    BY <1>2 DEF Standing, Installing
  <2> QED
    BY <1>1, <1>2, <2>1, <2>2, <2>3 DEF Tracked, Installing, Uninstalling
<1>4. /\ NoSource \in Source /\ Ours(NoSource)
      /\ \A v \in 0..MaxVersion : /\ Tag(v) \in Source /\ Dir(v) \in Source
                                  /\ Ours(Tag(v)) /\ Ours(Dir(v))
  BY Bounds DEF Tag, Dir, Source, Ours, NoSource
<1>5. r.ver \in 0..MaxVersion /\ r.old.version \in 0..MaxVersion /\ r.inv[h].market \in Source
  BY <1>2 DEF Request, Home, Inventory
<1>6. h \notin window => Ours(r.inv[h].market)
  BY <1>1, <1>2 DEF KeepInv, MarketInv, CommandOurs, Steps
<1>7. ASSUME NEW op \in {"market add", "market remove", "plugin add", "plugin remove"}, NEW src \in Source
      PROVE  \E d \in Command : <<Cmd(op, h, src)>> = <<d>> /\ d.host = h
  BY <1>2, CommandTyped
<1>8. ASSUME NEW op, NEW src PROVE <<Cmd(op, h, src)>>[1].src = src
  BY DEF Cmd
<1>9. ASSUME NEW s \in Steps \ {"select"}, Go(p, s), UNCHANGED <<host, place, home, journals, ghosts>> PROVE KeepStep(p)
  <2>1. Going(p) /\ r.stage \in Steps \ {"confirm", "commit"}
    BY <1>1 DEF Going, Steps
  <2>2. Steady(p) /\ proc'[p].stage = s
    BY <1>2, <1>9, <2>1, Goes
  <2> QED
    BY <1>2, <1>9, <2>1, <2>2, OnlySteps
<1>10. {"add", "drop", "plug", "verify", "unmarket", "gone"} \subseteq Steps \ {"select"}
  BY DEF Steps
<1>11. ASSUME NEW op \in {"market add", "market remove", "plugin add", "plugin remove"}, NEW src \in Source,
              h \notin window => Ours(src),
              NEW undo \in {"market add", "market remove", "plugin add", "plugin remove"}, NEW from \in Source,
              h \notin window => Ours(from),
              NEW u, u = <<>> \/ u = <<Cmd(undo, h, from)>>,
              NEW next \in {"add", "drop", "plug", "verify", "unmarket", "gone"},
              \/ External(p, Cmd(op, h, src), u, next)
              \/ DiesRunning(p, Cmd(op, h, src), u)
              \/ Go(p, next) /\ UNCHANGED <<host, place, home, journals, ghosts>>
       PROVE  KeepStep(p)
  <2>1. u = <<>> \/ \E d \in Command : u = <<d>> /\ d.host = h
    <3>1. CASE u = <<Cmd(undo, h, from)>>
      <4>1. PICK d \in Command : <<Cmd(undo, h, from)>> = <<d>> /\ d.host = h
        BY <1>7, <1>11
      <4> QED
        BY <3>1, <4>1
    <3> QED
      BY <1>11, <3>1
  <2>2. u # <<>> => u[1].src = from
    BY <1>8, <1>11
  <2>3. next \in Steps \ {"select"}
    BY <1>10
  <2>4. CASE Go(p, next) /\ UNCHANGED <<host, place, home, journals, ghosts>>
    BY <1>9, <2>3, <2>4
  <2>5. CASE External(p, Cmd(op, h, src), u, next) \/ DiesRunning(p, Cmd(op, h, src), u)
    BY <1>1, <1>3, <1>11, <2>1, <2>2, <2>3, <2>5, CommandKeeps
  <2> QED
    BY <1>11, <2>4, <2>5
<1>12. CASE RemoveMarket(p)
  <2> DEFINE from == IF r.restart THEN Dir(r.old.version) ELSE r.inv[h].market
  <2>1. from \in Source /\ (h \notin window => Ours(from))
    BY <1>4, <1>5, <1>6
  <2>2. \/ External(p, Cmd("market remove", h, NoSource), <<Cmd("market add", h, from)>>, "add")
        \/ DiesRunning(p, Cmd("market remove", h, NoSource), <<Cmd("market add", h, from)>>)
        \/ Go(p, "add") /\ UNCHANGED <<host, place, home, journals, ghosts>>
    BY <1>12 DEF RemoveMarket
  <2> HIDE DEF from
  <2> QED
    BY <1>4, <1>11, <2>1, <2>2
<1>13. CASE AddMarket(p)
  <2> DEFINE src == IF r.local THEN Dir(r.ver) ELSE Tag(r.ver)
  <2>1. src \in Source /\ (h \notin window => Ours(src))
    BY <1>4, <1>5
  <2>2. \/ External(p, Cmd("market add", h, src), <<Cmd("market remove", h, NoSource)>>, "drop")
        \/ DiesRunning(p, Cmd("market add", h, src), <<Cmd("market remove", h, NoSource)>>)
        \/ Go(p, "drop") /\ UNCHANGED <<host, place, home, journals, ghosts>>
    BY <1>13 DEF AddMarket
  <2> HIDE DEF src
  <2> QED
    BY <1>4, <1>11, <2>1, <2>2
<1>14. CASE DropDisabled(p)
  <2>1. \/ External(p, Cmd("plugin remove", h, NoSource), <<Cmd("plugin add", h, NoSource)>>, "plug")
        \/ DiesRunning(p, Cmd("plugin remove", h, NoSource), <<Cmd("plugin add", h, NoSource)>>)
        \/ Go(p, "plug") /\ UNCHANGED <<host, place, home, journals, ghosts>>
    BY <1>14 DEF DropDisabled
  <2> QED
    BY <1>4, <1>11, <2>1
<1>15. CASE AddPlugin(p)
  <2> DEFINE u == IF Live(r, h) /\ h \notin DirHosts THEN <<>> ELSE <<Cmd("plugin remove", h, NoSource)>>
  <2>1. \/ External(p, Cmd("plugin add", h, NoSource), u, "verify")
        \/ DiesRunning(p, Cmd("plugin add", h, NoSource), u)
        \/ Go(p, "verify") /\ UNCHANGED <<host, place, home, journals, ghosts>>
    BY <1>15 DEF AddPlugin
  <2>2. u = <<>> \/ u = <<Cmd("plugin remove", h, NoSource)>>
    OBVIOUS
  <2> HIDE DEF u
  <2> QED
    BY <1>4, <1>11, <2>1, <2>2
<1>16. CASE RemovePlugin(p)
  <2>1. \/ External(p, Cmd("plugin remove", h, NoSource), <<Cmd("plugin add", h, NoSource)>>, "unmarket")
        \/ DiesRunning(p, Cmd("plugin remove", h, NoSource), <<Cmd("plugin add", h, NoSource)>>)
        \/ Go(p, "unmarket") /\ UNCHANGED <<host, place, home, journals, ghosts>>
    BY <1>16 DEF RemovePlugin
  <2> QED
    BY <1>4, <1>11, <2>1
<1>17. CASE RemoveOwnedMarket(p)
  <2>1. \/ External(p, Cmd("market remove", h, NoSource), <<Cmd("market add", h, Tag(r.old.version))>>, "gone")
        \/ DiesRunning(p, Cmd("market remove", h, NoSource), <<Cmd("market add", h, Tag(r.old.version))>>)
        \/ Go(p, "gone") /\ UNCHANGED <<host, place, home, journals, ghosts>>
    BY <1>17 DEF RemoveOwnedMarket
  <2>2. Tag(r.old.version) \in Source /\ Ours(Tag(r.old.version))
    BY <1>4, <1>5
  <2> QED
    BY <1>4, <1>11, <2>1, <2>2
<1> QED
  BY <1>12, <1>13, <1>14, <1>15, <1>16, <1>17

LEMMA AtStage ==
  ASSUME InstallAssumption, SettingsInv, KeepInv, NEW p \in Proc, Going(p)
  PROVE  /\ Running(p) /\ TypeInv /\ TypeOK /\ Now \in Journal /\ proc[p] \in Request /\ journals # <<>>
         /\ host \in [Host -> HostState] /\ MarketInv /\ PlaceInv /\ Standing(proc[p], Now) /\ Knows(proc[p])
         /\ Last \in DOMAIN journals /\ Now = journals[Last] /\ proc[p].hosts \subseteq Host
         /\ proc \in [Proc -> Request] /\ home \in Home
         /\ \A h \in Host \ window :
              /\ OurJournal(h, Now) /\ HomeOurs(h, home) /\ Ours(proc[p].src[h]) /\ HomeOurs(h, proc[p].old)
              /\ Past(proc[p]) => Stands(h, proc[p], Now.conf[h], host[h])
              /\ h \in proc[p].hosts => Ours(proc[p].inv[h].market)
<1>1. Running(p)
  BY DEF Running, Going, Steps
<1>2. TypeInv /\ MarketInv /\ PlaceInv /\ Knows(proc[p])
  BY <1>1 DEF SettingsInv, KeepInv
<1>3. /\ TypeOK /\ journals # <<>> /\ Standing(proc[p], Now) /\ Now \in Journal
      /\ Last \in DOMAIN journals /\ proc[p] \in Request /\ Now = journals[Last]
  BY <1>1, <1>2, RunFacts DEF Now
<1>4. \A h \in Host \ window :
        /\ OurJournal(h, Now) /\ HomeOurs(h, home) /\ Ours(proc[p].src[h]) /\ HomeOurs(h, proc[p].old)
        /\ Past(proc[p]) => Stands(h, proc[p], Now.conf[h], host[h])
        /\ h \in proc[p].hosts => Ours(proc[p].inv[h].market)
  BY <1>2, <1>3 DEF MarketInv, CommandOurs, Going
<1> QED
  BY <1>1, <1>2, <1>3, <1>4 DEF TypeOK, Request

LEMMA EndsKeep ==
  ASSUME InstallAssumption, SettingsInv, KeepInv, NEW p \in Proc, Running(p),
         UNCHANGED <<host, place, home, journals, ghosts>>, Leave(p) \/ Abort(p)
  PROVE  KeepStep(p)
<1>1. TypeInv /\ TypeOK
  BY DEF SettingsInv, TypeInv
<1> QED
  BY <1>1, Ends, OnlySteps

LEMMA ConfirmKeepsOurs ==
  ASSUME InstallAssumption, SettingsInv, KeepInv, NEW p \in Proc, Confirm(p)
  PROVE  KeepStep(p)
<1>1. Going(p) /\ proc[p].stage = "confirm" /\ UNCHANGED <<host, place, home, journals, ghosts>>
  BY DEF Confirm, Going, Steps
<1>2. Running(p) /\ TypeInv /\ TypeOK /\ proc[p] \in Request /\ PlaceInv /\ Knows(proc[p])
  BY <1>1, AtStage
<1> DEFINE r == [proc[p] EXCEPT !.left = proc[p].hosts, !.stage = IF proc[p].op = "uninstall" THEN "host" ELSE "files"]
<1>3. CASE Abort(p)
  BY <1>1, <1>2, <1>3, EndsKeep
<1>4. CASE Confirmed(proc[p]) /\ proc' = [proc EXCEPT ![p] = r]
  <2>1. SameTask(proc[p], r) /\ r.src = proc[p].src /\ r.stage \in {"host", "files"}
    BY <1>2 DEF SameTask, Request
  <2> HIDE DEF r
  <2>2. Steady(p) /\ proc'[p] = r
    BY <1>1, <1>2, <1>4, <2>1, GoesSteady DEF Steps
  <2>3. ASSUME NEW h \in Host \ window
        PROVE  /\ OurJournal(h, Now) /\ HomeOurs(h, home') /\ Ours(proc'[p].src[h]) /\ HostKept(h)
               /\ Stands(h, proc[p], Now.conf[h], host'[h])
    <3>1. Now.conf[h].on = "no"
      BY <1>1, <1>2 DEF Knows, Tracked
    <3>2. h \in proc[p].hosts => host[h].file.market = proc[p].inv[h].market
      <4>1. Inv(h, host[h]).market = host[h].file.market
        BY DEF Inv
      <4> QED
        BY <1>4, <4>1 DEF Confirmed
    <3>3. Stands(h, proc[p], Now.conf[h], host'[h])
      BY <1>1, <3>1, <3>2, AtStage DEF Stands
    <3>4. HostKept(h)
      BY <1>1 DEF HostKept
    <3> QED
      BY <1>1, <2>2, <3>3, <3>4, AtStage DEF Steady
  <2>4. MarketStep(p, Now)
    BY <2>1, <2>2, <2>3 DEF MarketStep
  <2>5. Metadata(home) = proc[p].old
    BY <1>4 DEF Confirmed
  <2>6. PlaceStep(p, Now) /\ Advance(p, Now)
    BY <1>1, <1>2, <2>2, <2>5, PlacesCalm, Advances
  <2> QED
    BY <2>4, <2>6 DEF KeepStep
<1> QED
  BY <1>3, <1>4 DEF Confirm

LEMMA NextHostKeepsOurs ==
  ASSUME InstallAssumption, SettingsInv, KeepInv, NEW p \in Proc, NextHost(p)
  PROVE  KeepStep(p)
<1>1. Going(p) /\ proc[p].stage = "host" /\ UNCHANGED <<host, place, home, journals, ghosts>>
  BY DEF NextHost, Going, Steps
<1>2. Running(p) /\ TypeInv /\ TypeOK /\ proc[p] \in Request
  BY <1>1, AtStage
<1>3. PICK r : /\ SameTask(proc[p], r) /\ r.src = proc[p].src /\ r.stage \in {"restore", "prepare", "forget", "settings"}
               /\ proc' = [proc EXCEPT ![p] = r]
  <2>2. CASE proc' = [proc EXCEPT ![p].cur = Nobody,
                ![p].stage = IF proc[p].op = "uninstall" THEN "forget" ELSE "settings",
                ![p].left = IF proc[p].secure THEN proc[p].hosts ELSE proc[p].refresh]
    <3> DEFINE s == IF proc[p].op = "uninstall" THEN "forget" ELSE "settings"
               l == IF proc[p].secure THEN proc[p].hosts ELSE proc[p].refresh
               r == [proc[p] EXCEPT !.cur = Nobody, !.stage = s, !.left = l]
    <3>1. proc' = [proc EXCEPT ![p] = r]
      BY <2>2
    <3>2. s \in {"restore", "prepare", "forget", "settings"}
      OBVIOUS
    <3>3. SameTask(proc[p], r) /\ r.src = proc[p].src /\ r.stage = s
      BY <1>2 DEF SameTask, Request
    <3> HIDE DEF s, r
    <3> QED
      BY <3>1, <3>2, <3>3
  <2>3. ASSUME NEW h \in proc[p].left,
               proc' = [proc EXCEPT ![p].cur = h, ![p].left = proc[p].left \ {h},
                      ![p].stage = IF proc[p].op = "uninstall" THEN "restore" ELSE "prepare"]
        PROVE \E r : /\ SameTask(proc[p], r) /\ r.src = proc[p].src
                     /\ r.stage \in {"restore", "prepare", "forget", "settings"} /\ proc' = [proc EXCEPT ![p] = r]
    <3> DEFINE s == IF proc[p].op = "uninstall" THEN "restore" ELSE "prepare"
               l == proc[p].left \ {h}
               r == [proc[p] EXCEPT !.cur = h, !.left = l, !.stage = s]
    <3>1. proc' = [proc EXCEPT ![p] = r]
      BY <2>3
    <3>2. s \in {"restore", "prepare", "forget", "settings"}
      OBVIOUS
    <3>3. SameTask(proc[p], r) /\ r.src = proc[p].src /\ r.stage = s
      BY <1>2 DEF SameTask, Request
    <3> HIDE DEF s, r
    <3> QED
      BY <3>1, <3>2, <3>3
  <2> QED
    BY <2>2, <2>3 DEF NextHost
<1>6. r.stage \in Steps \ {"select"}
  BY <1>3 DEF Steps
<1>7. Steady(p) /\ proc'[p] = r
  BY <1>1, <1>2, <1>3, <1>6, GoesSteady
<1>8. proc[p].stage \in Steps \ {"confirm", "commit"}
  BY <1>1 DEF Steps
<1> QED
  BY <1>1, <1>2, <1>6, <1>7, <1>8, OnlySteps

LEMMA VerifyKeepsOurs ==
  ASSUME InstallAssumption, SettingsInv, KeepInv, NEW p \in Proc, Verify(p)
  PROVE  KeepStep(p)
<1>1. Going(p) /\ proc[p].stage = "verify" /\ proc[p].stage \in InHost /\ UNCHANGED <<host, place, home, journals, ghosts>>
  BY DEF Verify, Going, Steps, InHost, Installing
<1>2. Running(p) /\ TypeInv /\ TypeOK /\ proc[p] \in Request /\ PlaceInv /\ proc[p].cur \in Host
      /\ proc[p].cur \in proc[p].hosts /\ Past(proc[p])
  BY <1>1, AtStage, AtHost DEF Past, Steps
<1> DEFINE g == proc[p].cur
           m == Inv(g, host[g]).market
           r == [proc[p] EXCEPT !.stage = "host", !.src[g] = m]
<1>3. CASE Abort(p)
  BY <1>1, <1>2, <1>3, EndsKeep
<1>4. CASE proc' = [proc EXCEPT ![p] = r]
  <2>1. SameTask(proc[p], r) /\ r.src = [proc[p].src EXCEPT ![g] = m] /\ r.stage = "host"
    BY <1>2 DEF SameTask, Request
  <2>2. m = host[g].file.market /\ proc[p].src \in [Host -> Source]
    BY <1>2 DEF Inv, Request
  <2> HIDE DEF r, m
  <2>3. proc'[p] = r /\ \A q \in Proc \ {p} : proc'[q] = proc[q]
    BY <1>2, <1>4 DEF TypeOK
  <2>4. ASSUME NEW h \in Host \ window
        PROVE  /\ OurJournal(h, Now) /\ HomeOurs(h, home') /\ Ours(proc'[p].src[h]) /\ HostKept(h)
               /\ Stands(h, proc[p], Now.conf[h], host'[h])
    <3>1. Ours(proc[p].src[h]) /\ Stands(h, proc[p], Now.conf[h], host[h]) /\ OurJournal(h, Now) /\ HomeOurs(h, home)
      BY <1>1, <1>2, AtStage
    <3>2. Ours(r.src[h])
      BY <1>2, <2>1, <2>2, <3>1 DEF Stands
    <3>3. HostKept(h)
      BY <1>1 DEF HostKept
    <3> QED
      BY <1>1, <2>3, <3>1, <3>2, <3>3
  <2>5. MarketStep(p, Now)
    BY <2>1, <2>3, <2>4 DEF MarketStep
  <2>6. Turn(p)
    BY <2>1, <2>3 DEF Turn
  <2>7. Advance(p, Now)
    BY <1>1, <1>2, <2>6 DEF Advance, ghosts
  <2>8. PlaceStep(p, Now)
    <3>1. Recalls(proc'[p], home)
      <4>1. Recalls(proc[p], home)
        BY <1>2 DEF PlaceInv
      <4> QED
        BY <1>1, <2>1, <2>3, <4>1 DEF Recalls, SameTask, Steps
    <3>2. Undone(Now) /\ (Writes(Now, "text") \/ home.ptr => Claimed)
      BY <1>1, <1>2, AtStage DEF PlaceInv, Writes, Claimed
    <3>3. \A i \in DOMAIN journals : i = Last \/ Stood(i) => Answers(journals[i].home, home)
      BY <1>2, StillAnswers
    <3>4. \A x \in UserFiles : FileKept(x)
      BY <1>1 DEF FileKept
    <3> QED
      BY <1>1, <3>1, <3>2, <3>3, <3>4 DEF PlaceStep
  <2> QED
    BY <2>5, <2>7, <2>8 DEF KeepStep
<1> QED
  BY <1>3, <1>4 DEF Verify

LEMMA CommitKeepsOurs ==
  ASSUME InstallAssumption, SettingsInv, KeepInv, NEW p \in Proc, Commit(p)
  PROVE  KeepStep(p)
<1>1. Going(p) /\ UNCHANGED <<host, place, home, ghosts>> /\ Leave(p) /\ Save([Now EXCEPT !.status = "committed"])
  BY DEF Commit, Going, Steps
<1>2. Running(p) /\ TypeInv /\ TypeOK /\ MarketInv /\ PlaceInv /\ Now \in Journal
  BY <1>1, AtStage
<1> DEFINE j == [Now EXCEPT !.status = "committed"]
<1>3. j.home = Now.home /\ j.conf = Now.conf /\ j.undo = Now.undo /\ j.text = Now.text
  BY <1>2 DEF Journal
<1> HIDE DEF j
<1>4. Steady(p) /\ proc'[p].stage \in {"idle", "undo"}
  BY <1>1, <1>2, Ends
<1>5. ~Past(proc'[p]) /\ proc'[p].stage # "select" /\ proc'[p].stage \notin Steps
  BY <1>4 DEF Past, Steps
<1>6. MarketStep(p, j)
  BY <1>1, <1>2, <1>3, <1>4, <1>5, HostsCalm
<1>7. PlaceStep(p, j)
  BY <1>1, <1>2, <1>3, <1>4, <1>5, PlacesCalm
<1>8. Advance(p, j)
  BY <1>1, <1>2, <1>4, Advances DEF j
<1> QED
  BY <1>6, <1>7, <1>8 DEF KeepStep

\* What a file outside the home becomes in the journal.
LEMMA PutOurs ==
  ASSUME NEW j \in Journal, Undone(j), NEW x \in Place, NEW t \in {"text", "absent"}
  PROVE  LET k == Put(j, x, t)
         IN /\ k.home = j.home /\ k.conf = j.conf /\ k.undo = j.undo /\ Undone(k)
            /\ x # Pointer => k.text[Pointer] = j.text[Pointer]
<1> DEFINE e == [on |-> TRUE, signed |-> t, before |-> IF j.text[x].on THEN j.text[x].before ELSE place[x]]
           k == Put(j, x, t)
<1>1. k.home = j.home /\ k.conf = j.conf /\ k.undo = j.undo /\ k.text = [j.text EXCEPT ![x] = e]
  BY DEF Put, Journal
<1>2. j.text \in [Place -> KeptText] /\ e.signed # "other"
  BY DEF Journal
<1> HIDE DEF e, k
<1>3. \A y \in Place : k.text[y] = IF y = x THEN e ELSE j.text[y]
  BY <1>1, <1>2
<1>4. Undone(k)
  BY <1>2, <1>3 DEF Undone
<1>5. x # Pointer => k.text[Pointer] = j.text[Pointer]
  BY <1>1, <1>2
<1> QED
  BY <1>1, <1>4, <1>5 DEF k

LEMMA WriteFilesKeepsOurs ==
  ASSUME InstallAssumption, SettingsInv, KeepInv, NEW p \in Proc, WriteFiles(p)
  PROVE  KeepStep(p)
<1>1. Going(p) /\ proc[p].stage = "files" /\ UNCHANGED <<host, ghosts>>
  BY DEF WriteFiles, Going, Steps
<1>2. /\ Running(p) /\ TypeInv /\ TypeOK /\ proc[p] \in Request /\ PlaceInv /\ MarketInv /\ Now \in Journal
      /\ home \in Home /\ Launcher \in Place /\ Launcher # Pointer /\ Last \in DOMAIN journals /\ Now = journals[Last]
  BY <1>1, AtStage DEF InstallAssumption
<1>3. CASE ~MayWriteLauncher(p)
  BY <1>1, <1>2, <1>3, EndsKeep DEF WriteFiles
<1>4. CASE MayWriteLauncher(p)
  <2> DEFINE j == Put(Now, Launcher, "text")
  <2>1. Undone(Now)
    BY <1>2 DEF PlaceInv
  <2>2. j.home = Now.home /\ j.conf = Now.conf /\ j.undo = Now.undo /\ Undone(j) /\ j.text[Pointer] = Now.text[Pointer]
    BY <1>2, <2>1, PutOurs
  <2>3. Save(j) /\ place' = [place EXCEPT ![Launcher] = "text"] /\ Go(p, "track")
        /\ home' = [home EXCEPT !.current = proc[p].ver, !.runtimes = @ \union {proc[p].ver}]
    BY <1>4 DEF WriteFiles
  <2> HIDE DEF j
  <2>4. home'.src = home.src /\ home'.rec = home.rec /\ home'.ptr = home.ptr /\ home'.hosts = home.hosts
    BY <1>2, <2>3 DEF Home
  <2>5. "track" \in Steps \ {"confirm", "commit", "select"} /\ proc[p].stage \in Steps \ {"confirm", "commit"}
    BY <1>1 DEF Steps
  <2>6. Steady(p) /\ proc'[p].stage = "track"
    BY <1>1, <1>2, <2>3, <2>5, Goes
  <2>7. Past(proc[p])
    BY <2>5 DEF Past
  <2>8. \A h \in Host \ window : HomeOurs(h, home) => HomeOurs(h, home')
    BY <2>4 DEF HomeOurs
  <2>9. MarketStep(p, j)
    BY <1>1, <1>2, <2>2, <2>6, <2>7, <2>8, HostsCalm
  <2>10. \A x \in UserFiles : FileKept(x)
    <3>1. Launcher \notin UserFiles
      BY <1>2, <1>4 DEF MayWriteLauncher, PlaceInv
    <3>2. place \in [Place -> Text] /\ UserFiles \subseteq Place
      BY <1>2 DEF TypeOK, UserFiles
    <3> QED
      BY <2>3, <3>1, <3>2 DEF FileKept
  <2>11. Writes(j, "text") \/ home'.ptr => Claimed
    BY <1>2, <2>2, <2>4 DEF Writes, Claimed
  <2>12. \A i \in DOMAIN journals : i = Last \/ Stood(i) => Answers(journals[i].home, home')
    BY <1>2, <2>4, StillAnswers DEF Answers
  <2>13. Recalls(proc'[p], home')
    <3>1. Recalls(proc[p], home)
      BY <1>2 DEF PlaceInv
    <3>2. SameTask(proc[p], proc'[p])
      BY <2>6 DEF Steady, Turn, Idle
    <3> QED
      BY <2>4, <2>5, <3>1, <3>2 DEF Recalls, SameTask
  <2>14. PlaceStep(p, j) /\ Advance(p, j)
    BY <1>1, <1>2, <2>2, <2>3, <2>6, <2>10, <2>11, <2>12, <2>13, Advances DEF PlaceStep
  <2> QED
    BY <2>9, <2>14 DEF KeepStep
<1> QED
  BY <1>3, <1>4

LEMMA RecordInstallKeepsOurs ==
  ASSUME InstallAssumption, SettingsInv, KeepInv, NEW p \in Proc, RecordInstall(p)
  PROVE  KeepStep(p)
<1> DEFINE r == proc[p]
<1>1. Going(p) /\ r.stage = "record" /\ UNCHANGED <<host, ghosts>> /\ Go(p, "commit")
  BY DEF RecordInstall, Going, Steps
<1>2. /\ Running(p) /\ TypeInv /\ TypeOK /\ r \in Request /\ PlaceInv /\ MarketInv /\ Now \in Journal /\ Standing(r, Now)
      /\ home \in Home /\ Pointer \in Place /\ Last \in DOMAIN journals /\ Now = journals[Last]
  BY <1>1, AtStage DEF InstallAssumption
<1>3. r.op \in {"install", "update"}
  BY <1>1, <1>2 DEF Standing, Installing, Steps
<1>4. PlanKeeps(r, UserFiles) /\ home.ptr = r.old.ptr
  BY <1>1, <1>2 DEF PlaceInv, Recalls, Steps
<1> DEFINE j == IF r.ptr.write THEN Put(Now, Pointer, "text") ELSE Now
<1>5. j.home = Now.home /\ j.conf = Now.conf /\ j.undo = Now.undo /\ Undone(j)
  BY <1>2, PutOurs DEF PlaceInv
<1>6. Save(j) \/ (j = Now /\ UNCHANGED journals)
  BY DEF RecordInstall
<1>7. r.ptr.write => Pointer \notin UserFiles
  BY <1>3, <1>4 DEF PlanKeeps
<1>8. Pointer \in UserFiles => j = Now
  BY <1>7
<1> HIDE DEF j
<1>9. /\ home'.ptr = r.ptr.owned /\ home'.rec = home.rec
      /\ \A h \in Host : home'.src[h] = IF h \in r.hosts THEN r.src[h] ELSE home.src[h]
  <2> DEFINE src == [h \in Host |-> IF h \in r.hosts THEN r.src[h] ELSE home.src[h]]
             path == [h \in Host |-> IF h \in r.hosts THEN r.ver ELSE home.path[h]]
  <2>1. home' = [home EXCEPT !.version = r.ver, !.hosts = r.old.hosts \union r.hosts, !.ptr = r.ptr.owned,
                             !.src = src, !.path = path]
    BY DEF RecordInstall
  <2>2. home'.ptr = r.ptr.owned /\ home'.rec = home.rec /\ home'.src = src
    BY <1>2, <2>1 DEF Home
  <2> QED
    BY <2>2
<1>10. "commit" \in Steps /\ r.stage \in Steps \ {"confirm"}
  BY <1>1 DEF Steps
<1>11. Steady(p) /\ proc'[p].stage = "commit"
  BY <1>1, <1>2, <1>10, Goes
<1>12. MarketStep(p, j)
  <2>1. \A h \in Host \ window : HomeOurs(h, home')
    BY <1>1, <1>9, AtStage DEF HomeOurs
  <2>2. Past(r) /\ proc'[p].stage # "select"
    BY <1>10, <1>11 DEF Past
  <2> QED
    BY <1>1, <1>2, <1>5, <1>11, <2>1, <2>2, HostsCalm
<1>13. \A x \in UserFiles : FileKept(x)
  <2>1. place \in [Place -> Text] /\ UserFiles \subseteq Place
    BY <1>2 DEF TypeOK, UserFiles
  <2>2. place' = place \/ (Pointer \notin UserFiles /\ place' = [place EXCEPT ![Pointer] = "text"])
    BY <1>7 DEF RecordInstall
  <2> QED
    BY <2>1, <2>2 DEF FileKept
<1>14. Pointer \in UserFiles => (Writes(j, "text") \/ home'.ptr => Claimed)
  <2> SUFFICES ASSUME Pointer \in UserFiles, Writes(j, "text") \/ home'.ptr PROVE Claimed
    OBVIOUS
  <2>1. Writes(Now, "text") => Claimed
    BY <1>2 DEF Writes, Claimed
  <2>2. home'.ptr => home.ptr
    BY <1>3, <1>4, <1>9 DEF PlanKeeps
  <2> QED
    BY <1>8, <2>1, <2>2 DEF Claimed
<1>15. \A i \in DOMAIN journals : i = Last \/ Stood(i) => Answers(journals[i].home, home')
  <2>1. home.ptr => home'.ptr
    BY <1>3, <1>4, <1>9 DEF PlanKeeps
  <2> QED
    BY <1>2, <2>1, StillAnswers DEF Answers
<1>16. Recalls(proc'[p], home')
  BY <1>11 DEF Recalls
<1>17. PlaceStep(p, j) /\ Advance(p, j)
  BY <1>1, <1>2, <1>5, <1>6, <1>11, <1>13, <1>14, <1>15, <1>16, Advances DEF PlaceStep
<1> QED
  BY <1>12, <1>17 DEF KeepStep

LEMMA ForgetKeepsOurs ==
  ASSUME InstallAssumption, SettingsInv, KeepInv, NEW p \in Proc, Forget(p)
  PROVE  KeepStep(p)
<1> DEFINE r == proc[p]
           left == Remaining(r)
           clear == {Launcher} \union (IF home.ptr THEN {Pointer} ELSE {})
           src == [h \in Host |-> IF h \in left THEN home.src[h] ELSE NoSource]
           path == [h \in Host |-> IF h \in left THEN home.path[h] ELSE 0]
           gone == [home EXCEPT !.hosts = left, !.src = src, !.path = path]
           text == [x \in Place |-> IF x \in clear /\ place[x] # "absent"
                      THEN [on |-> TRUE, before |-> place[x], signed |-> "absent"] ELSE Now.text[x]]
           j == IF left # {} THEN Now ELSE [Now EXCEPT !.text = text]
<1>1. Going(p) /\ r.stage = "forget" /\ UNCHANGED <<host, ghosts>> /\ Go(p, "commit")
  BY DEF Forget, Going, Steps
<1>2. /\ Running(p) /\ TypeInv /\ TypeOK /\ r \in Request /\ PlaceInv /\ MarketInv /\ Now \in Journal /\ Standing(r, Now)
      /\ home \in Home /\ Pointer \in Place /\ Last \in DOMAIN journals /\ Now = journals[Last]
  BY <1>1, AtStage DEF InstallAssumption
<1>3. r.op = "uninstall"
  BY <1>1, <1>2 DEF Standing
<1>4. PlanKeeps(r, UserFiles) /\ home.ptr = r.old.ptr /\ home.hosts = r.old.hosts
  BY <1>1, <1>2, <1>3 DEF PlaceInv, Recalls, Steps
<1>5. left = {} => UserFiles \cap clear = {}
  BY <1>3, <1>4 DEF PlanKeeps, Remaining
<1>6. Save(j) \/ (j = Now /\ UNCHANGED journals)
  BY DEF Forget
<1>7. /\ j.home = Now.home /\ j.conf = Now.conf /\ j.undo = Now.undo /\ Undone(j)
      /\ Writes(j, "text") => Writes(Now, "text")
  <2>1. Undone(Now)
    BY <1>2 DEF PlaceInv
  <2>2. CASE left # {}
    BY <2>1, <2>2
  <2>3. CASE left = {}
    <3>1. j.home = Now.home /\ j.conf = Now.conf /\ j.undo = Now.undo /\ j.text = text
      BY <1>2, <2>3 DEF Journal
    <3>2. \A x \in Place : text[x].signed = "absent" \/ text[x] = Now.text[x]
      OBVIOUS
    <3> HIDE DEF text, j
    <3> QED
      BY <1>2, <2>1, <3>1, <3>2 DEF Undone, Writes
  <2> QED
    BY <2>2, <2>3
<1>8. \A x \in UserFiles : FileKept(x)
  <2>1. place \in [Place -> Text] /\ UserFiles \subseteq Place
    BY <1>2 DEF TypeOK, UserFiles
  <2>2. place' = place \/ (left = {} /\ place' = [x \in Place |-> IF x \in clear THEN "absent" ELSE place[x]])
    BY DEF Forget
  <2> QED
    BY <1>5, <2>1, <2>2 DEF FileKept
<1>9. home'.ptr = home.ptr /\ home'.rec = home.rec /\ home'.src = src
  <2>1. home' = gone \/ home' = [gone EXCEPT !.current = 0, !.runtimes = {}]
    BY DEF Forget
  <2>2. gone.ptr = home.ptr /\ gone.rec = home.rec /\ gone.src = src /\ DOMAIN gone = DOMAIN home
    BY <1>2 DEF Home
  <2> HIDE DEF gone
  <2> QED
    BY <1>2, <2>1, <2>2 DEF Home
<1> HIDE DEF j, text, gone
<1>10. "commit" \in Steps /\ r.stage \in Steps \ {"confirm"}
  BY <1>1 DEF Steps
<1>11. Steady(p) /\ proc'[p].stage = "commit"
  BY <1>1, <1>2, <1>10, Goes
<1>12. MarketStep(p, j)
  <2>1. ASSUME NEW h \in Host \ window PROVE HomeOurs(h, home) => HomeOurs(h, home')
    BY <1>9 DEF HomeOurs, Ours, NoSource
  <2>2. Past(r) /\ proc'[p].stage # "select"
    BY <1>10, <1>11 DEF Past
  <2> QED
    BY <1>1, <1>2, <1>7, <1>11, <2>1, <2>2, HostsCalm
<1>13. Writes(j, "text") \/ home'.ptr => Claimed
  BY <1>2, <1>7, <1>9 DEF Writes, Claimed
<1>14. \A i \in DOMAIN journals : i = Last \/ Stood(i) => Answers(journals[i].home, home')
  BY <1>2, <1>9, StillAnswers DEF Answers
<1>15. Recalls(proc'[p], home')
  BY <1>11 DEF Recalls
<1>16. PlaceStep(p, j) /\ Advance(p, j)
  BY <1>1, <1>2, <1>6, <1>7, <1>8, <1>11, <1>13, <1>14, <1>15, Advances DEF PlaceStep
<1> QED
  BY <1>12, <1>16 DEF KeepStep

\* A stage that changes what hosts of the command hold, or what is watched in them.
LEMMA HostsStep ==
  ASSUME InstallAssumption, SettingsInv, KeepInv, NEW p \in Proc, proc[p].stage \in Steps \ {"confirm", "commit"},
         UNCHANGED <<place, ghosts>>, home'.ptr = home.ptr, home'.hosts = home.hosts, Steady(p),
         NEW j, Save(j) \/ (j = Now /\ UNCHANGED journals), j.home = Now.home, j.text = Now.text,
         proc'[p].stage = "select" => ~proc[p].restart,
         \A h \in Host \ proc[p].hosts : host'[h] = host[h],
         \A h \in Host \ window :
           /\ HomeOurs(h, home') /\ KeptOurs(h, j.conf[h]) /\ UndoOurs(h, j)
           /\ Stands(h, proc[p], j.conf[h], host'[h])
  PROVE  KeepStep(p)
<1>1. Going(p) /\ Past(proc[p])
  BY DEF Going, Past
<1>2. Running(p) /\ TypeInv /\ PlaceInv
  BY <1>1, AtStage
<1>3. Advance(p, j)
  BY <1>2, Advances
<1>4. PlaceStep(p, j)
  BY <1>2, PlacesCalm
<1>5. MarketStep(p, j)
  <2>1. ASSUME NEW h \in Host \ window
        PROVE  OurJournal(h, j) /\ HomeOurs(h, home') /\ Ours(proc'[p].src[h]) /\ HostKept(h)
               /\ Stands(h, proc[p], j.conf[h], host'[h])
    <3>1. OurJournal(h, Now) /\ Ours(proc[p].src[h]) /\ Stands(h, proc[p], Now.conf[h], host[h])
      BY <1>1, AtStage
    <3>2. HostKept(h)
      BY <3>1 DEF HostKept, Foreign, Stands, Ours
    <3> QED
      BY <3>1, <3>2 DEF OurJournal, Steady
  <2> QED
    BY <2>1 DEF MarketStep
<1> QED
  BY <1>3, <1>4, <1>5 DEF KeepStep

LEMMA TrackHostsKeepsOurs ==
  ASSUME InstallAssumption, SettingsInv, KeepInv, NEW p \in Proc, TrackHosts(p)
  PROVE  KeepStep(p)
<1> DEFINE r == proc[p]
           after == [h \in Host |-> IF h \in r.refresh THEN Restored(r.old.rec[h], host[h]) ELSE host[h]]
           conf == [h \in Host |-> IF h \in r.hosts THEN Signed(Track(Now, h, host[h]), h, after[h]).conf[h] ELSE Now.conf[h]]
           rec == [h \in Host |-> IF h \in r.refresh THEN NoRecord ELSE home.rec[h]]
           j == [Now EXCEPT !.conf = conf]
           trust == IF r.hosts \cap DirHosts = {} THEN home.trust ELSE 0
<1>1. Going(p) /\ r.stage = "track" /\ r.stage \in Steps \ {"confirm", "commit"} /\ Past(r) /\ "host" \in Steps \ {"select"}
  BY DEF TrackHosts, Going, Steps, Past
<1>2. /\ Running(p) /\ TypeInv /\ TypeOK /\ r \in Request /\ Now \in Journal /\ Standing(r, Now) /\ Knows(r)
      /\ home \in Home /\ host \in [Host -> HostState] /\ r.refresh \subseteq r.hosts
  BY <1>1, AtStage DEF Standing
<1>3. host' = after /\ Save(j) /\ home' = [home EXCEPT !.rec = rec, !.trust = trust] /\ Go(p, "host") /\ UNCHANGED <<place, ghosts>>
  BY DEF TrackHosts
<1>4. Steady(p) /\ proc'[p].stage = "host"
  BY <1>1, <1>2, <1>3, Goes
<1>5. ASSUME NEW h \in Host
      PROVE  /\ after[h] \in HostState /\ Now.conf[h].on = "no"
             /\ after[h] = host[h] \/ (r.old.rec[h].on /\ after[h].file = r.old.rec[h].orig)
             /\ h \notin r.hosts => after[h] = host[h]
  <2>1. r.old.rec[h] \in Record /\ host[h] \in HostState
    BY <1>2 DEF Request, Home
  <2>2. Restored(r.old.rec[h], host[h]) \in HostState
    BY <2>1, RestoredTyped
  <2>3. Restored(r.old.rec[h], host[h]) = host[h]
        \/ (r.old.rec[h].on /\ Restored(r.old.rec[h], host[h]).file = r.old.rec[h].orig)
    BY <2>1 DEF Restored, HostState
  <2>4. Now.conf[h].on = "no"
    BY <1>1, <1>2 DEF Knows, Tracked, Tracking
  <2> QED
    BY <1>2, <2>1, <2>2, <2>3, <2>4
<1> HIDE DEF after
<1>6. ASSUME NEW h \in Host
      PROVE  IF h \in r.hosts THEN conf[h].on = "file" /\ conf[h].before = host[h] /\ conf[h].signed = after[h]
             ELSE conf[h] = Now.conf[h]
  <2>1. host[h] \in HostState /\ after[h] \in HostState
    BY <1>2, <1>5
  <2> QED
    BY <1>2, <2>1, TrackedBack
<1> HIDE DEF conf
<1>7. j.home = Now.home /\ j.text = Now.text /\ j.undo = Now.undo /\ j.conf = conf
  BY <1>2 DEF Journal
<1> HIDE DEF j
<1>8. home'.ptr = home.ptr /\ home'.hosts = home.hosts /\ home'.src = home.src /\ home'.rec = rec
  BY <1>2, <1>3 DEF Home
<1>9. ASSUME NEW h \in Host \ window
      PROVE  /\ HomeOurs(h, home') /\ KeptOurs(h, j.conf[h]) /\ UndoOurs(h, j)
             /\ Stands(h, r, j.conf[h], host'[h])
  <2>1. /\ OurJournal(h, Now) /\ HomeOurs(h, home) /\ HomeOurs(h, r.old) /\ Stands(h, r, Now.conf[h], host[h])
    BY <1>1, AtStage
  <2>2. HomeOurs(h, home')
    BY <1>8, <2>1 DEF HomeOurs, NoRecord
  <2>3. h \in r.hosts => Ours(host[h].file.market) /\ Ours(after[h].file.market)
    BY <1>5, <2>1 DEF Stands, HomeOurs
  <2>4. KeptOurs(h, j.conf[h]) /\ Stands(h, r, j.conf[h], host'[h])
    BY <1>3, <1>5, <1>6, <1>7, <2>3 DEF KeptOurs, Stands
  <2>5. UndoOurs(h, j)
    BY <1>5, <1>7, <2>1 DEF OurJournal, UndoOurs
  <2> QED
    BY <2>2, <2>4, <2>5
<1>10. \A h \in Host \ r.hosts : host'[h] = host[h]
  BY <1>3, <1>5
<1> QED
  BY <1>1, <1>3, <1>4, <1>7, <1>8, <1>9, <1>10, HostsStep

LEMMA RestoreSettingsKeepsOurs ==
  ASSUME InstallAssumption, SettingsInv, KeepInv, NEW p \in Proc, RestoreSettings(p)
  PROVE  KeepStep(p)
<1> DEFINE r == proc[p]
           g == proc[p].cur
           s == Restored(home.rec[g], host[g])
           j == Signed(Track(Now, g, host[g]), g, s)
<1>1. /\ Going(p) /\ r.stage = "restore" /\ r.stage \in Steps \ {"confirm", "commit"} /\ Past(r)
      /\ r.stage \in InHost /\ "unplug" \in Steps \ {"select"}
  BY DEF RestoreSettings, Going, Steps, Past, InHost, Uninstalling
<1>2. /\ Running(p) /\ TypeInv /\ TypeOK /\ r \in Request /\ Now \in Journal /\ Knows(r)
      /\ home \in Home /\ host \in [Host -> HostState] /\ g \in Host /\ g \in r.hosts
  BY <1>1, AtStage, AtHost
<1>3. s \in HostState /\ (s = host[g] \/ (home.rec[g].on /\ s.file = home.rec[g].orig))
  <2>1. home.rec[g] \in Record /\ host[g] \in HostState
    BY <1>2 DEF Home
  <2> QED
    BY <2>1, RestoredTyped DEF Restored, HostState
<1>4. Now.conf[g].on = "no"
  BY <1>1, <1>2 DEF Knows, Tracked
<1>5. host' = [host EXCEPT ![g] = s] /\ Save(j) /\ Go(p, "unplug") /\ UNCHANGED <<place, home, ghosts>>
  <2>1. [host EXCEPT ![g] = s][g] = s
    BY <1>2
  <2> QED
    BY <2>1 DEF RestoreSettings, GiveBack
<1>6. /\ j.home = Now.home /\ j.undo = Now.undo
      /\ j.conf[g].on = "file" /\ j.conf[g].before = host[g] /\ j.conf[g].signed = s
      /\ \A h \in Host \ {g} : j.conf[h] = Now.conf[h]
  <2> HIDE DEF s
  <2>1. TypeOK /\ Now \in Journal /\ g \in Host /\ host[g] \in HostState /\ s \in HostState
    BY <1>2, <1>3
  <2> HIDE DEF g
  <2> QED
    BY <2>1, TrackedBack
<1>7. j.text = Now.text
  BY <1>2 DEF Signed, Track, Journal
<1> HIDE DEF s, j
<1>8. Steady(p) /\ proc'[p].stage = "unplug"
  BY <1>1, <1>2, <1>5, Goes
<1>9. ASSUME NEW h \in Host \ window
      PROVE  /\ HomeOurs(h, home') /\ KeptOurs(h, j.conf[h]) /\ UndoOurs(h, j)
             /\ Stands(h, r, j.conf[h], host'[h])
  <2>1. /\ OurJournal(h, Now) /\ HomeOurs(h, home) /\ Stands(h, r, Now.conf[h], host[h])
    BY <1>1, AtStage
  <2>2. CASE h = g
    <3>1. Ours(host[g].file.market) /\ Ours(s.file.market)
      BY <1>2, <1>3, <2>1, <2>2 DEF Stands, HomeOurs
    <3>2. KeptOurs(h, j.conf[h]) /\ Stands(h, r, j.conf[h], host'[h])
      BY <1>2, <1>5, <1>6, <2>2, <3>1 DEF KeptOurs, Stands
    <3>3. UndoOurs(h, j)
      BY <1>4, <1>6, <2>1, <2>2 DEF OurJournal, UndoOurs
    <3> QED
      BY <1>5, <2>1, <3>2, <3>3
  <2>3. CASE h # g
    <3>1. host'[h] = host[h] /\ j.conf[h] = Now.conf[h]
      BY <1>2, <1>5, <1>6, <2>3
    <3> QED
      BY <1>5, <1>6, <2>1, <3>1 DEF OurJournal, UndoOurs
  <2> QED
    BY <2>2, <2>3
<1>10. \A h \in Host \ r.hosts : host'[h] = host[h]
  BY <1>2, <1>5
<1>11. home'.ptr = home.ptr /\ home'.hosts = home.hosts
  BY <1>5
<1> QED
  BY <1>1, <1>5, <1>6, <1>7, <1>8, <1>9, <1>10, <1>11, HostsStep

LEMMA VerifyGoneKeepsOurs ==
  ASSUME InstallAssumption, SettingsInv, KeepInv, NEW p \in Proc, VerifyGone(p)
  PROVE  KeepStep(p)
<1> DEFINE r == proc[p]
           g == proc[p].cur
           trust == IF g \in DirHosts THEN 0 ELSE home.trust
<1>1. /\ Going(p) /\ r.stage = "gone" /\ r.stage \in Steps \ {"confirm", "commit"} /\ Past(r)
      /\ "host" \in Steps \ {"select"} /\ UNCHANGED <<host, place, journals, ghosts>>
  BY DEF VerifyGone, Going, Steps, Past
<1>2. /\ Running(p) /\ TypeInv /\ TypeOK /\ home \in Home /\ MarketInv /\ PlaceInv
  BY <1>1, AtStage
<1>3. CASE Abort(p) /\ UNCHANGED home
  BY <1>1, <1>2, <1>3, EndsKeep
<1>4. CASE home' = [home EXCEPT !.rec[g] = NoRecord, !.trust = trust] /\ Go(p, "host")
  <2>1. Steady(p) /\ proc'[p].stage = "host"
    BY <1>1, <1>2, <1>4, Goes
  <2>2. /\ home'.ptr = home.ptr /\ home'.hosts = home.hosts /\ home'.src = home.src
        /\ \A h \in Host : home'.rec[h] = home.rec[h] \/ home'.rec[h] = NoRecord
    <3>1. home' = [home EXCEPT !.rec = [home.rec EXCEPT ![g] = NoRecord], !.trust = trust]
      BY <1>2, <1>4 DEF Home
    <3> HIDE DEF trust
    <3>2. home'.ptr = home.ptr /\ home'.hosts = home.hosts /\ home'.src = home.src /\ home'.rec = [home.rec EXCEPT ![g] = NoRecord]
      BY <1>2, <3>1 DEF Home
    <3> QED
      BY <1>2, <3>2 DEF Home
  <2>3. ASSUME NEW h \in Host PROVE HomeOurs(h, home) => HomeOurs(h, home')
    BY <2>2 DEF HomeOurs, NoRecord
  <2>4. MarketStep(p, Now)
    BY <1>1, <1>2, <2>1, <2>3, HostsCalm
  <2>5. PlaceStep(p, Now) /\ Advance(p, Now)
    BY <1>1, <1>2, <2>1, <2>2, PlacesCalm, Advances
  <2> QED
    BY <2>4, <2>5 DEF KeepStep
<1> QED
  BY <1>3, <1>4 DEF VerifyGone

LEMMA ApplySettingsKeepsOurs ==
  ASSUME InstallAssumption, SettingsInv, KeepInv, NEW p \in Proc, ApplySettings(p)
  PROVE  KeepStep(p)
<1> DEFINE r == proc[p]
<1>1. /\ Going(p) /\ r.stage = "settings" /\ r.stage \in Steps \ {"confirm", "commit", "select"} /\ Past(r)
      /\ "record" \in Steps \ {"select"} /\ UNCHANGED <<place, ghosts>>
  BY DEF ApplySettings, Going, Steps, Past
<1>2. /\ Running(p) /\ TypeInv /\ TypeOK /\ r \in Request /\ Now \in Journal /\ Standing(r, Now) /\ Knows(r)
      /\ home \in Home /\ host \in [Host -> HostState] /\ r.left \subseteq r.hosts /\ r.hosts \subseteq Host
  BY <1>1, AtStage DEF Standing
<1>3. CASE r.left = {} /\ Go(p, "record") /\ UNCHANGED <<host, home, journals>>
  <2>1. Steady(p) /\ proc'[p].stage = "record"
    BY <1>1, <1>2, <1>3, Goes
  <2> QED
    BY <1>1, <1>2, <1>3, <2>1, OnlySteps
<1>4. ASSUME NEW g \in r.left,
             LET rec == home.rec[g]
                 after == [host EXCEPT ![g].file = Baseline(@)]
             IN IF rec.on
                THEN /\ IF host[g].file = rec.applied
                        THEN proc' = [proc EXCEPT ![p].left = @ \ {g}] ELSE Abort(p)
                     /\ UNCHANGED <<host, home, journals>>
                ELSE /\ host' = after
                     /\ Save(Signed(Now, g, after[g]))
                     /\ home' = [home EXCEPT !.rec[g] = [on |-> TRUE, orig |-> host[g].file,
                                                         applied |-> after[g].file]]
                     /\ proc' = [proc EXCEPT ![p].left = @ \ {g}]
      PROVE KeepStep(p)
  <2>1. g \in Host /\ g \in r.hosts /\ host[g] \in HostState /\ host[g].file \in File
    BY <1>2 DEF HostState
  <2>2. ASSUME proc' = [proc EXCEPT ![p].left = @ \ {g}]
        PROVE  Steady(p) /\ proc'[p].stage = "settings"
    <3> DEFINE t == [proc[p] EXCEPT !.left = @ \ {g}]
    <3>1. SameTask(proc[p], t) /\ t.src = proc[p].src /\ t.stage = "settings"
      BY <1>1, <1>2 DEF SameTask, Request
    <3>2. proc' = [proc EXCEPT ![p] = t]
      BY <2>2
    <3> HIDE DEF t
    <3> QED
      BY <1>1, <1>2, <3>1, <3>2, GoesSteady
  <2>3. CASE home.rec[g].on
    <3>1. UNCHANGED <<host, place, home, journals, ghosts>>
      BY <1>1, <1>4, <2>3
    <3>2. CASE Abort(p)
      BY <1>2, <3>1, <3>2, EndsKeep
    <3>3. CASE proc' = [proc EXCEPT ![p].left = @ \ {g}]
      BY <1>1, <1>2, <2>2, <3>1, <3>3, OnlySteps
    <3> QED
      BY <1>4, <2>3, <3>2, <3>3
  <2>4. CASE ~home.rec[g].on
    <3> DEFINE s == [host[g] EXCEPT !.file = Baseline(@)]
               rec == [on |-> TRUE, orig |-> host[g].file, applied |-> s.file]
               j == [Now EXCEPT !.conf[g].signed = s]
               l == [Now.conf[g] EXCEPT !.signed = s]
    <3>1. s.file.market = host[g].file.market /\ SameTree(s, host[g])
      BY <2>1 DEF Baseline, HostState, File, SameTree
    <3>2. Now.conf[g] \in Kept /\ Now.conf[g].on # "no"
      <4>1. Tracked(r, g) /\ r.op # "uninstall"
        BY <1>1, <1>2, <2>1 DEF Knows, Standing, Installing
      <4> QED
        BY <1>1, <1>2, <2>1, <4>1 DEF Tracked, Installing, Journal
    <3>3. /\ host' = [host EXCEPT ![g] = s] /\ Save(j) /\ home' = [home EXCEPT !.rec[g] = rec]
          /\ proc' = [proc EXCEPT ![p].left = @ \ {g}]
      <4>1. [host EXCEPT ![g].file = Baseline(@)][g] = s
        BY <1>2, <2>1
      <4>2. Signed(Now, g, s) = j
        BY <3>2 DEF Signed
      <4> QED
        BY <1>4, <2>4, <4>1, <4>2
    <3>4. l.on = Now.conf[g].on /\ l.before = Now.conf[g].before /\ l.signed = s
      BY <3>2 DEF Kept
    <3>5. j.home = Now.home /\ j.text = Now.text /\ j.undo = Now.undo /\ j.conf = [Now.conf EXCEPT ![g] = l]
      BY <1>2 DEF Journal
    <3>6. rec.on /\ rec.orig = host[g].file
      OBVIOUS
    <3> HIDE DEF s, rec, j, l
    <3>7. j.conf[g] = l /\ \A h \in Host \ {g} : j.conf[h] = Now.conf[h]
      BY <1>2, <2>1, <3>5 DEF Journal
    <3>8. /\ home'.ptr = home.ptr /\ home'.hosts = home.hosts /\ home'.src = home.src /\ home'.rec[g] = rec
          /\ \A h \in Host \ {g} : home'.rec[h] = home.rec[h]
      BY <1>2, <2>1, <3>3 DEF Home
    <3>9. host'[g] = s /\ \A h \in Host \ {g} : host'[h] = host[h]
      BY <1>2, <2>1, <3>3
    <3>10. ASSUME NEW h \in Host \ window
           PROVE  /\ HomeOurs(h, home') /\ KeptOurs(h, j.conf[h]) /\ UndoOurs(h, j)
                  /\ Stands(h, r, j.conf[h], host'[h])
      <4>1. OurJournal(h, Now) /\ HomeOurs(h, home) /\ Stands(h, r, Now.conf[h], host[h])
        BY <1>1, AtStage
      <4>2. UndoOurs(h, j)
        BY <3>2, <3>4, <3>5, <3>7, <4>1 DEF OurJournal, UndoOurs
      <4>3. CASE h = g
        <5>1. Ours(host[g].file.market)
          BY <2>1, <4>1, <4>3 DEF Stands
        <5>2. HomeOurs(h, home')
          BY <3>6, <3>8, <4>1, <4>3, <5>1 DEF HomeOurs
        <5>3. ASSUME l.on = "all" PROVE SameTree(s, Now.conf[g].signed)
          BY <3>1, <3>4, <4>1, <4>3, <5>3 DEF Stands, SameTree
        <5>4. ASSUME l.on = "all" PROVE SameTree(s, l.before) \/ ~ForeignIn(h, s)
          <6>1. SameTree(Now.conf[g].signed, l.before) \/ ~ForeignIn(h, Now.conf[g].signed)
            BY <3>4, <4>1, <4>3, <5>4 DEF OurJournal, KeptOurs
          <6> QED
            BY <5>3, <5>4, <6>1, ForeignTree DEF SameTree
        <5>5. KeptOurs(h, j.conf[h])
          BY <3>1, <3>2, <3>4, <3>7, <4>1, <4>3, <5>1, <5>4 DEF OurJournal, KeptOurs
        <5>6. Stands(h, r, j.conf[h], host'[h])
          BY <3>1, <3>4, <3>7, <3>9, <4>1, <4>3, <5>1 DEF Stands, SameTree
        <5> QED
          BY <4>2, <5>2, <5>5, <5>6
      <4>4. CASE h # g
        <5>1. j.conf[h] = Now.conf[h] /\ host'[h] = host[h] /\ home'.rec[h] = home.rec[h] /\ home'.src = home.src
          BY <3>7, <3>8, <3>9, <4>4
        <5> QED
          BY <4>1, <4>2, <5>1 DEF OurJournal, HomeOurs
      <4> QED
        BY <4>3, <4>4
    <3>11. Steady(p) /\ proc'[p].stage = "settings"
      BY <2>2, <3>3
    <3>12. \A h \in Host \ r.hosts : host'[h] = host[h]
      BY <2>1, <3>9
    <3> QED
      BY <1>1, <3>3, <3>5, <3>8, <3>10, <3>11, <3>12, HostsStep
  <2> QED
    BY <2>3, <2>4
<1> QED
  BY <1>3, <1>4 DEF ApplySettings

LEMMA PrepareKeepsOurs ==
  ASSUME InstallAssumption, SettingsInv, KeepInv, NEW p \in Proc, Prepare(p)
  PROVE  KeepStep(p)
<1> DEFINE r == proc[p]
           g == proc[p].cur
           live == Live(r, g)
           select == Cmd("select", g, [from |-> "cache", ver |-> r.old.path[g]])
           add == Cmd("plugin add", g, NoSource)
           all == TrackAll(Now, g)
<1>1. /\ Going(p) /\ r.stage = "prepare" /\ r.stage \in Steps \ {"confirm", "commit", "select"} /\ Past(r)
      /\ r.stage \in InHost /\ {"select", "remove"} \subseteq Steps /\ UNCHANGED <<host, place, home, ghosts>>
  BY DEF Prepare, Going, Steps, Past, InHost, Installing
<1>2. /\ Running(p) /\ TypeInv /\ TypeOK /\ r \in Request /\ Now \in Journal /\ Standing(r, Now) /\ Knows(r)
      /\ home \in Home /\ host \in [Host -> HostState] /\ g \in Host /\ g \in r.hosts /\ host[g] \in HostState
  BY <1>1, AtStage, AtHost
<1>3. /\ select \in Command /\ add \in Command /\ select.host = g /\ add.host = g
      /\ Ours(select.src) /\ Ours(add.src)
  <2>1. [from |-> "cache", ver |-> r.old.path[g]] \in Source /\ NoSource \in Source
    BY <1>2, Bounds DEF Request, Home, Source
  <2> QED
    BY <1>2, <2>1, CommandTyped DEF Cmd, Ours, NoSource
<1>4. Now.conf[g] \in Kept /\ Now.conf[g].on # "no"
  <2>1. Tracked(r, g) /\ r.op # "uninstall"
    BY <1>1, <1>2 DEF Knows, Standing, Installing
  <2> QED
    BY <1>1, <1>2, <2>1 DEF Tracked, Installing, Journal
<1>5. ASSUME NEW next \in {"select", "remove"}, Go(p, next), next = "select" => ~r.restart,
             NEW k \in Journal, k.home = Now.home, k.text = Now.text, k.undo = Now.undo,
             \A h \in Host : k.conf[h].on = "no" => Now.conf[h].on = "no",
             \A h \in Host \ window : KeptOurs(h, k.conf[h]) /\ Stands(h, r, k.conf[h], host[h]),
             NEW u, u = <<>> \/ (\E d \in Command : u = <<d>>), u # <<>> => u[1].host = g /\ Ours(u[1].src),
             IF u = <<>> THEN k = Now /\ UNCHANGED journals ELSE Save(Queue(k, u[1]))
      PROVE KeepStep(p)
  <2> DEFINE j == IF u = <<>> THEN k ELSE Queue(k, u[1])
  <2>1. Steady(p) /\ proc'[p].stage = next
    BY <1>1, <1>2, <1>5, Goes
  <2>2. j.home = Now.home /\ j.text = Now.text /\ j.conf = k.conf
    BY <1>5 DEF Queue, Journal
  <2>3. Save(j) \/ (j = Now /\ UNCHANGED journals)
    BY <1>5
  <2>4. k.conf[g].on # "no"
    BY <1>2, <1>4, <1>5
  <2>5. ASSUME NEW h \in Host \ window
        PROVE  /\ HomeOurs(h, home') /\ KeptOurs(h, j.conf[h]) /\ UndoOurs(h, j)
               /\ Stands(h, r, j.conf[h], host'[h])
    <3>1. OurJournal(h, Now) /\ HomeOurs(h, home)
      BY <1>1, AtStage
    <3>2. OurJournal(h, k)
      BY <1>5, <3>1 DEF OurJournal, UndoOurs
    <3>3. OurJournal(h, j)
      <4>1. u # <<>> /\ u[1].host = h => Ours(u[1].src) /\ k.conf[h].on # "no"
        BY <1>5, <2>4
      <4> QED
        BY <1>5, <3>2, <4>1, QueuedOurs
    <3> HIDE DEF j
    <3> QED
      BY <1>1, <1>5, <2>2, <3>1, <3>3 DEF OurJournal
  <2> HIDE DEF j
  <2>6. \A h \in Host \ r.hosts : host'[h] = host[h]
    BY <1>1
  <2>7. home'.ptr = home.ptr /\ home'.hosts = home.hosts
    BY <1>1
  <2> QED
    BY <1>1, <1>5, <2>1, <2>2, <2>3, <2>5, <2>6, <2>7, HostsStep
<1>6. \A h \in Host \ window : KeptOurs(h, Now.conf[h]) /\ Stands(h, r, Now.conf[h], host[h])
  BY <1>1, AtStage DEF OurJournal
<1>7. ASSUME r.restart
      PROVE  /\ all \in Journal /\ all.home = Now.home /\ all.text = Now.text /\ all.undo = Now.undo
             /\ \A h \in Host : all.conf[h].on = "no" => Now.conf[h].on = "no"
             /\ \A h \in Host \ window : KeptOurs(h, all.conf[h]) /\ Stands(h, r, all.conf[h], host[h])
  <2> DEFINE a == [host[g] EXCEPT !.file = Now.conf[g].signed.file]
             b == [host[g] EXCEPT !.file = Now.conf[g].before.file]
             l == [NoKept EXCEPT !.on = "all", !.signed = a, !.before = b]
  <2>1. /\ b \in HostState /\ b.file = Now.conf[g].before.file /\ SameTree(host[g], b)
        /\ a \in HostState /\ a.file = Now.conf[g].signed.file /\ SameTree(host[g], a)
    BY <1>2, <1>4 DEF HostState, Kept, SameTree
  <2>2. all = [Now EXCEPT !.conf[g] = l]
    BY DEF TrackAll
  <2> HIDE DEF a, b, all
  <2>3. l \in Kept /\ l.on = "all" /\ l.signed = a /\ l.before = b
    BY <1>2, <1>4, <2>1, KeptFields DEF NoKept
  <2> HIDE DEF l
  <2>4. all \in Journal /\ all.home = Now.home /\ all.text = Now.text /\ all.undo = Now.undo /\ all.conf = [Now.conf EXCEPT ![g] = l]
    BY <1>2, <2>2, <2>3 DEF Journal
  <2>5. all.conf[g] = l /\ \A h \in Host \ {g} : all.conf[h] = Now.conf[h]
    BY <1>2, <2>4 DEF Journal
  <2>6. ASSUME NEW h \in Host \ window PROVE KeptOurs(h, all.conf[h]) /\ Stands(h, r, all.conf[h], host[h])
    <3>1. CASE h = g
      BY <1>2, <1>4, <1>6, <1>7, <2>1, <2>3, <2>5, <3>1 DEF KeptOurs, Stands, SameTree
    <3>2. CASE h # g
      BY <1>6, <2>5, <3>2
    <3> QED
      BY <3>1, <3>2
  <2> QED
    BY <2>3, <2>4, <2>5, <2>6
<1>8. \/ Abort(p) /\ UNCHANGED journals
      \/ live /\ r.restart /\ Save(Queue(all, add)) /\ Go(p, "remove")
      \/ live /\ ~r.restart /\ g \in DirHosts /\ Save(Queue(Now, select)) /\ Go(p, "select")
      \/ live /\ ~r.restart /\ g \notin DirHosts /\ Save(Queue(Now, add)) /\ Go(p, "remove")
      \/ Go(p, "remove") /\ UNCHANGED journals
  <2>1. live \in BOOLEAN /\ r.restart \in BOOLEAN
    BY <1>2 DEF Request, Live, Replaces
  <2> HIDE DEF live, add, select, all
  <2> QED
    BY <2>1 DEF Prepare, live, add, select, all
<1>9. ASSUME NEW c PROVE <<c>> # <<>> /\ <<c>>[1] = c
  OBVIOUS
<1> HIDE DEF live, add, select, all
<1>10. CASE Abort(p) /\ UNCHANGED journals
  BY <1>1, <1>2, <1>10, EndsKeep
<1>11. CASE r.restart /\ Save(Queue(all, add)) /\ Go(p, "remove")
  <2>1. PICK u : u = <<add>>
    OBVIOUS
  <2> QED
    BY <1>3, <1>5, <1>7, <1>9, <1>11, <2>1
<1>12. CASE ~r.restart /\ Save(Queue(Now, select)) /\ Go(p, "select")
  <2>1. PICK u : u = <<select>>
    OBVIOUS
  <2> QED
    BY <1>2, <1>3, <1>5, <1>6, <1>9, <1>12, <2>1
<1>13. CASE ~r.restart /\ Save(Queue(Now, add)) /\ Go(p, "remove")
  <2>1. PICK u : u = <<add>>
    OBVIOUS
  <2> QED
    BY <1>2, <1>3, <1>5, <1>6, <1>9, <1>13, <2>1
<1>14. CASE Go(p, "remove") /\ UNCHANGED journals
  <2>1. PICK u : u = <<>>
    OBVIOUS
  <2> QED
    BY <1>2, <1>5, <1>6, <1>14, <2>1
<1> QED
  BY <1>8, <1>10, <1>11, <1>12, <1>13, <1>14

LEMMA SwitchCacheKeepsOurs ==
  ASSUME InstallAssumption, SettingsInv, KeepInv, NEW p \in Proc, SwitchCache(p)
  PROVE  KeepStep(p)
<1> DEFINE r == proc[p]
           g == proc[p].cur
<1>1. /\ Going(p) /\ r.stage = "select" /\ r.stage \in Steps \ {"confirm", "commit"} /\ Past(r)
      /\ r.stage \in InHost /\ "remove" \in Steps \ {"select"} /\ UNCHANGED <<place, home, journals, ghosts>>
  BY DEF SwitchCache, Going, Steps, Past, InHost, Installing
<1>2. /\ Running(p) /\ TypeInv /\ TypeOK /\ r \in Request /\ MarketInv
      /\ host \in [Host -> HostState] /\ g \in Host /\ g \in r.hosts /\ host[g] \in HostState
  BY <1>1, AtStage, AtHost
<1>3. CASE Abort(p) /\ UNCHANGED host
  BY <1>1, <1>2, <1>3, EndsKeep
<1>4. ASSUME NEW S, host' = [host EXCEPT ![g] = Switched(host[g], r.ver, S)], Go(p, "remove") \/ Abort(p) \/ Leave(p)
      PROVE  KeepStep(p)
  <2> DEFINE s == Switched(host[g], r.ver, S)
  <2>1. s.file = host[g].file
    BY <1>2 DEF Switched, Selected, HostState
  <2> HIDE DEF s
  <2>2. host'[g] = s /\ \A h \in Host \ {g} : host'[h] = host[h]
    BY <1>2, <1>4 DEF s
  <2>3. Steady(p) /\ proc'[p].stage # "select"
    <3>1. CASE Go(p, "remove")
      BY <1>1, <1>2, <3>1, Goes
    <3>2. CASE Abort(p) \/ Leave(p)
      BY <1>2, <3>2, Ends
    <3> QED
      BY <1>4, <3>1, <3>2
  <2>4. ASSUME NEW h \in Host \ window
        PROVE  /\ HomeOurs(h, home') /\ KeptOurs(h, Now.conf[h]) /\ UndoOurs(h, Now)
               /\ Stands(h, r, Now.conf[h], host'[h])
    <3>1. OurJournal(h, Now) /\ HomeOurs(h, home) /\ Stands(h, r, Now.conf[h], host[h])
      BY <1>1, AtStage
    <3>2. ~r.restart
      BY <1>1, <1>2 DEF MarketInv, CommandOurs
    <3>3. host'[h].file = host[h].file
      BY <2>1, <2>2
    <3> QED
      BY <1>1, <3>1, <3>2, <3>3 DEF OurJournal, Stands
  <2>5. \A h \in Host \ r.hosts : host'[h] = host[h]
    BY <1>2, <2>2
  <2>6. home'.ptr = home.ptr /\ home'.hosts = home.hosts
    BY <1>1
  <2> QED
    BY <1>1, <2>3, <2>4, <2>5, <2>6, HostsStep
<1> QED
  BY <1>3, <1>4 DEF SwitchCache

\* An undo command in a watched host was queued by ours, and finds the file as we left it.
LEMMA UndoNextKeepsOurs ==
  ASSUME InstallAssumption, SettingsInv, KeepInv, NEW p \in Proc, UndoNext(p)
  PROVE  KeepStep(p)
<1>1. proc[p].stage = "undo" /\ proc[p].k > 0 /\ Running(p) /\ TypeInv /\ MarketInv /\ PlaceInv
      /\ UNCHANGED <<place, home, ghosts>>
  BY DEF UndoNext, Running, SettingsInv, KeepInv
<1>2. /\ TypeOK /\ Now \in Journal /\ journals # <<>> /\ proc[p] \in Request /\ proc \in [Proc -> Request]
      /\ Standing(proc[p], Now) /\ host \in [Host -> HostState] /\ Last \in DOMAIN journals /\ Now = journals[Last]
  BY <1>1, RunFacts DEF TypeOK, Now
<1> DEFINE k == proc[p].k
           c == Now.undo[k].cmd
           j(state) == [Now EXCEPT !.undo[k].state = state]
<1>3. k \in DOMAIN Now.undo /\ Now.undo[k] \in Undo /\ c \in Command /\ c.host \in Host
  <2>1. k \in Nat /\ k <= Len(Now.undo) /\ Now.undo \in Seq(Undo)
    BY <1>1, <1>2 DEF Standing, Journal, Request
  <2>2. k \in 1..Len(Now.undo) /\ DOMAIN Now.undo = 1..Len(Now.undo)
    BY <1>1, <2>1
  <2>3. Now.undo[k] \in Undo
    BY <2>1, <2>2
  <2> QED
    BY <2>2, <2>3 DEF Undo, Command
<1>4. ASSUME NEW n, NEW b, proc' = [proc EXCEPT ![p].k = n, ![p].bad = b]
      PROVE  Steady(p) /\ proc'[p].stage \in {"idle", "undo"}
  <2> DEFINE t == [proc[p] EXCEPT !.k = n, !.bad = b]
  <2>1. SameTask(proc[p], t) /\ t.src = proc[p].src /\ t.stage = "undo"
    BY <1>1, <1>2 DEF SameTask, Request
  <2>2. proc' = [proc EXCEPT ![p] = t]
    BY <1>4
  <2> HIDE DEF t
  <2> QED
    BY <1>2, <2>1, <2>2, GoesSteady
<1>5. ASSUME NEW state \in {"done", "failed", "running"}
      PROVE  /\ j(state) \in Journal /\ j(state).conf = Now.conf /\ j(state).home = Now.home /\ j(state).text = Now.text
             /\ \A h \in Host : OurJournal(h, Now) => OurJournal(h, j(state))
  <2> DEFINE e == [Now.undo[k] EXCEPT !.state = state]
             undo == [Now.undo EXCEPT ![k] = e]
  <2>1. e \in Undo /\ e.cmd = c
    BY <1>3 DEF Undo
  <2>2. Now.undo \in Seq(Undo)
    BY <1>2 DEF Journal
  <2>3. undo \in Seq(Undo) /\ DOMAIN undo = DOMAIN Now.undo /\ \A i \in DOMAIN Now.undo : undo[i].cmd = Now.undo[i].cmd
    BY <1>3, <2>1, <2>2
  <2>4. j(state) = [Now EXCEPT !.undo = undo]
    OBVIOUS
  <2> HIDE DEF undo, j
  <2>5. j(state) \in Journal /\ j(state).undo = undo /\ j(state).conf = Now.conf /\ j(state).home = Now.home
        /\ j(state).text = Now.text
    BY <1>2, <2>3, <2>4 DEF Journal
  <2> QED
    BY <2>3, <2>5 DEF OurJournal, UndoOurs
<1> HIDE DEF j
<1>6. ASSUME NEW h \in Host \ window
      PROVE  /\ OurJournal(h, Now) /\ HomeOurs(h, home) /\ Ours(proc[p].src[h])
             /\ c.host = h => Ours(c.src) /\ Now.conf[h].on # "no"
  <2>1. OurJournal(h, Now) /\ HomeOurs(h, home) /\ Ours(proc[p].src[h])
    BY <1>1, <1>2 DEF MarketInv, CommandOurs
  <2> QED
    BY <1>3, <2>1 DEF OurJournal, UndoOurs
<1> HIDE DEF k, c
<1>7. ASSUME NEW t, Save(t), t.home = Now.home, t.text = Now.text, Steady(p), proc'[p].stage \in {"idle", "undo"},
             \A h \in Host \ window : OurJournal(h, t) /\ HostKept(h)
      PROVE  KeepStep(p)
  <2>1. Advance(p, t)
    BY <1>1, <1>7, Advances
  <2>2. PlaceStep(p, t)
    BY <1>1, <1>7, PlacesCalm DEF Steps
  <2>3. MarketStep(p, t)
    BY <1>1, <1>6, <1>7 DEF MarketStep, Steady, Past, Steps
  <2> QED
    BY <2>1, <2>2, <2>3 DEF KeepStep
<1>8. CASE \E n, b : proc' = [proc EXCEPT ![p].k = n, ![p].bad = b] /\ UNCHANGED <<host, journals>>
  <2>1. Steady(p) /\ proc'[p].stage \in {"idle", "undo"}
    BY <1>4, <1>8
  <2> QED
    BY <1>1, <1>8, <2>1, OnlySteps
<1>9. ASSUME ~Conflict(Now), NEW o \in Outcomes(c), host' = [host EXCEPT ![c.host] = o.s],
             NEW state \in {"done", "failed"}, Save(SignAll(j(state), host')),
             \E n, b : proc' = [proc EXCEPT ![p].k = n, ![p].bad = b]
      PROVE  KeepStep(p)
  <2>1. o.s \in {host[c.host], Effect(c, host[c.host])}
    BY <1>3, OutcomeIs
  <2> DEFINE t == SignAll(j(state), host')
  <2>2. \A h \in Host \ window : OurJournal(h, t) /\ HostKept(h)
    BY <1>1, <1>3, <1>5, <1>6, <1>9, <2>1, SignedOurs
  <2>3. t.home = Now.home /\ t.text = Now.text
    BY <1>5 DEF SignAll, Journal
  <2>4. Save(t)
    BY <1>9
  <2> HIDE DEF t
  <2> QED
    BY <1>4, <1>7, <1>9, <2>2, <2>3, <2>4
<1>10. ASSUME ~Conflict(Now), NEW o \in Outcomes(c), host' = [host EXCEPT ![c.host] = o.s], Save(j("running")), Leave(p)
       PROVE  KeepStep(p)
  <2>1. Steady(p) /\ proc'[p].stage \in {"idle", "undo"}
    BY <1>2, <1>10, Ends
  <2>2. ASSUME NEW h \in Host \ window PROVE OurJournal(h, j("running")) /\ HostKept(h)
    <3>1. CASE c.host = h
      <4>1. Now.conf[h].on # "no" /\ KeptOurs(h, Now.conf[h])
        BY <1>6, <3>1 DEF OurJournal
      <4>2. host[h].file = Now.conf[h].signed.file
        BY <1>10, <4>1 DEF Conflict, Same, SameFile
      <4> QED
        BY <1>5, <1>6, <4>1, <4>2 DEF KeptOurs, HostKept, Foreign, Ours
    <3>2. CASE c.host # h
      BY <1>2, <1>5, <1>6, <1>10, <3>2 DEF HostKept
    <3> QED
      BY <3>1, <3>2
  <2> QED
    BY <1>5, <1>7, <1>10, <2>1, <2>2
<1>11. \/ \E n, b : proc' = [proc EXCEPT ![p].k = n, ![p].bad = b] /\ UNCHANGED <<host, journals>>
       \/ ~Conflict(Now) /\ \E o \in Outcomes(c) :
                                /\ host' = [host EXCEPT ![c.host] = o.s]
                                /\ Save(SignAll(j(IF o.ok THEN "done" ELSE "failed"), host'))
                                /\ \E n, b : proc' = [proc EXCEPT ![p].k = n, ![p].bad = b]
       \/ /\ ~Conflict(Now) /\ \E o \in Outcomes(c) : host' = [host EXCEPT ![c.host] = o.s]
          /\ Save(j("running")) /\ Leave(p)
  BY DEF UndoNext, j, c, k
<1> QED
  BY <1>8, <1>9, <1>10, <1>11

\* What is put back was ours, and where the user put something nothing is.
LEMMA PutBackKeeps ==
  ASSUME NEW k \in Kept, NEW h, NEW s \in HostState, NEW j, KeptOurs(h, k), NEW t, t = PutBack(k, s, s, k.before),
         j.on = k.on, j.before = k.before, j.signed = PutBack(k, s, k.signed, k.before)
  PROVE  KeptOurs(h, j) /\ (~Ours(s.file.market) => t.file = s.file /\ (ForeignIn(h, s) => SameTree(t, s)))
<1> DEFINE u == PutBack(k, s, k.signed, k.before)
<1>1. j.on = k.on /\ j.signed = u /\ j.before = k.before
  OBVIOUS
<1>2. /\ u.file = k.signed.file \/ u.file = k.before.file
      /\ SameTree(u, k.signed) \/ SameTree(u, k.before)
  BY DEF PutBack, SameTree, Kept
<1>3. KeptOurs(h, j)
  <2>1. j.on = "all" => SameTree(u, k.before) \/ ~ForeignIn(h, u)
    <3>1. CASE SameTree(u, k.before)
      BY <3>1
    <3>2. CASE SameTree(u, k.signed)
      BY <1>1, <3>2, ForeignTree DEF KeptOurs, SameTree
    <3> QED
      BY <1>2, <3>1, <3>2
  <2> QED
    BY <1>1, <1>2, <2>1 DEF KeptOurs
<1>4. ASSUME ~Ours(s.file.market) PROVE t.file = s.file /\ (ForeignIn(h, s) => SameTree(t, s))
  <2>1. k.on # "no" => ~SameFile(k, s)
    BY <1>4 DEF KeptOurs, SameFile
  <2>2. t.file = s.file
    BY <2>1 DEF PutBack, HostState
  <2>3. ASSUME ForeignIn(h, s) PROVE SameTree(t, s)
    <3>1. CASE k.on = "all" /\ SameRest(k, s)
      <4>1. SameTree(s, k.signed)
        BY <3>1 DEF SameRest, SameTree
      <4>2. ForeignIn(h, k.signed)
        BY <2>3, <4>1, ForeignTree
      <4>3. SameTree(k.before, s)
        BY <3>1, <4>1, <4>2 DEF KeptOurs, SameTree
      <4> QED
        BY <4>3 DEF PutBack, SameTree
    <3>2. CASE ~(k.on = "all" /\ SameRest(k, s))
      BY <3>2 DEF PutBack, SameTree
    <3> QED
      BY <3>1, <3>2
  <2> QED
    BY <2>2, <2>3
<1> QED
  BY <1>3, <1>4

LEMMA RestoreFilesKeepsOurs ==
  ASSUME InstallAssumption, SettingsInv, KeepInv, NEW p \in Proc, RestoreFiles(p)
  PROVE  KeepStep(p)
<1>1. proc[p].stage = "undo" /\ Running(p) /\ TypeInv /\ MarketInv /\ PlaceInv /\ UNCHANGED <<begin, edited, own, theirs, window>>
  BY DEF RestoreFiles, Running, SettingsInv, KeepInv
<1>2. /\ TypeOK /\ Now \in Journal /\ Now.status = "active" /\ host \in [Host -> HostState] /\ place \in [Place -> Text]
      /\ Last \in DOMAIN journals /\ Now = journals[Last] /\ Pointer \in Place
      /\ UserFiles \subseteq Place /\ Place = {Launcher, Pointer}
  BY <1>1, RunFacts DEF TypeOK, Now, InstallAssumption, UserFiles
<1> DEFINE fresh(x) == Now.text[x].on /\ place[x] = Now.text[x].signed
           kept(k, s) == [k EXCEPT !.signed = PutBack(k, s, k.signed, k.before),
                                   !.back = k.on # "no" /\ (@ \/ Same(k, s))]
           status == IF Whole(proc[p], Now) THEN "rolled_back" ELSE "incomplete"
           conf == [h \in Host |-> kept(Now.conf[h], host[h])]
           text == [x \in Place |-> IF fresh(x) THEN NoText ELSE Now.text[x]]
           j == [Now EXCEPT !.status = status, !.conf = conf, !.text = text]
<1>3. /\ host' = [h \in Host |-> PutBack(Now.conf[h], host[h], host[h], Now.conf[h].before)]
      /\ place' = [x \in Place |-> IF fresh(x) THEN Now.text[x].before ELSE place[x]]
      /\ home' = Now.home /\ Save(j) /\ Leave(p)
  BY DEF RestoreFiles
<1>4. ASSUME NEW h \in Host, KeptOurs(h, Now.conf[h])
      PROVE  KeptOurs(h, conf[h]) /\ conf[h].on = Now.conf[h].on /\ HostKept(h)
  <2>1. Now.conf[h] \in Kept /\ host[h] \in HostState
    BY <1>2 DEF Journal
  <2>2. /\ KeptOurs(h, conf[h]) /\ conf[h].on = Now.conf[h].on
        /\ ~Ours(host[h].file.market) =>
              host'[h].file = host[h].file /\ (ForeignIn(h, host[h]) => SameTree(host'[h], host[h]))
    <3>1. PICK k, l : k = Now.conf[h] /\ l = conf[h]
      OBVIOUS
    <3>2. l = [k EXCEPT !.signed = PutBack(k, host[h], k.signed, k.before),
                        !.back = k.on # "no" /\ (@ \/ Same(k, host[h]))]
      BY <3>1
    <3>3. host'[h] = PutBack(k, host[h], host[h], k.before) /\ k \in Kept /\ KeptOurs(h, k)
      BY <1>3, <1>4, <2>1, <3>1
    <3> HIDE DEF conf
    <3>4. l.on = k.on /\ l.before = k.before /\ l.signed = PutBack(k, host[h], k.signed, k.before)
      BY <3>2, <3>3 DEF Kept
    <3> QED
      BY <2>1, <3>1, <3>3, <3>4, PutBackKeeps
  <2>3. HostKept(h)
    BY <2>2 DEF HostKept, Foreign, ForeignPlugin, ForeignIn, Ours, Inv, SameTree, Listed, Real
  <2> QED
    BY <2>2, <2>3
<1> HIDE DEF conf
<1>5. \A x \in Place : fresh(x) => x \notin UserFiles
  <2>1. Undone(Now)
    BY <1>1, <1>2 DEF PlaceInv
  <2>2. fresh(Pointer) /\ place[Pointer] = "text" => Claimed
    BY <1>2 DEF Claimed
  <2>3. \A x \in Place : fresh(x) => place[x] # "other"
    BY <2>1 DEF Undone
  <2> HIDE DEF fresh
  <2> QED
    BY <1>1, <1>2, <2>2, <2>3 DEF PlaceInv
<1>6. \A x \in UserFiles : FileKept(x)
  BY <1>2, <1>3, <1>5 DEF FileKept
<1>7. \A x \in Place : text[x] = Now.text[x] \/ text[x] = NoText
  OBVIOUS
<1> HIDE DEF text, status
<1>8. j.home = Now.home /\ j.undo = Now.undo /\ j.conf = conf /\ j.text = text /\ j.status = status
  BY <1>2 DEF Journal
<1> HIDE DEF j
<1>9. Steady(p) /\ proc'[p].stage \in {"idle", "undo"}
  BY <1>2, <1>3, Ends
<1>10. Advance(p, j)
  BY <1>1, <1>3, <1>9 DEF Advance, Steady
<1>11. MarketStep(p, j)
  <2>1. ASSUME NEW h \in Host \ window
        PROVE  OurJournal(h, j) /\ HomeOurs(h, home') /\ Ours(proc'[p].src[h]) /\ HostKept(h)
    <3>1. OurJournal(h, Now) /\ Ours(proc[p].src[h])
      BY <1>1, <1>2 DEF MarketInv, CommandOurs
    <3>2. KeptOurs(h, conf[h]) /\ conf[h].on = Now.conf[h].on /\ HostKept(h)
      BY <1>4, <3>1 DEF OurJournal
    <3> QED
      BY <1>3, <1>8, <1>9, <3>1, <3>2 DEF OurJournal, UndoOurs, Steady
  <2> QED
    BY <1>9, <2>1 DEF MarketStep, Past, Steps
<1>12. PlaceStep(p, j)
  <2>1. Undone(j)
    BY <1>1, <1>2, <1>7, <1>8 DEF PlaceInv, Undone, NoText
  <2>2. Writes(j, "text") \/ home'.ptr => Claimed
    <3>1. Writes(j, "text") => Claimed
      BY <1>2, <1>7, <1>8 DEF Writes, Claimed, NoText
    <3>2. Now.home.ptr => home.ptr
      BY <1>1, StillAnswers, <1>2 DEF Answers
    <3> QED
      BY <1>3, <3>1, <3>2 DEF Claimed
  <2>3. \A i \in DOMAIN journals : i = Last \/ Stood(i) => Answers(journals[i].home, home')
    <3>1. Stood(Last) /\ DOMAIN journals = 1..Last /\ Last \in Nat
      BY <1>2 DEF Stood, TypeOK, Last
    <3> QED
      BY <1>1, <1>2, <1>3, <3>1 DEF PlaceInv, Answers
  <2>4. Recalls(proc'[p], home')
    BY <1>9 DEF Recalls, Steps
  <2> QED
    BY <1>6, <1>8, <2>1, <2>2, <2>3, <2>4 DEF PlaceStep
<1> QED
  BY <1>10, <1>11, <1>12 DEF KeepStep

\* Steps of a command that holds no lock.
JournalsOurs == \A h \in Host \ window : \A i \in DOMAIN journals : OurJournal(h, journals[i])
AsBefore(i) == i \in DOMAIN journals /\ Stood(i) /\ journals'[i].home = journals[i].home
Newcomer(r) ==
  /\ ~Past(r) /\ \A h \in Host \ window : CommandOurs(h, r)
  /\ r.stage \in {"asked"} \union Steps => PlanKeeps(r, UserFiles)

LEMMA BesideKeepsOurs ==
  ASSUME TypeInv, KeepInv, UNCHANGED <<host, place, theirs, window>>,
         home'.ptr = home.ptr, home'.src = home.src, home'.rec = home.rec, home'.hosts = home.hosts,
         \A q \in Proc : \/ proc'[q] = proc[q] /\ (Past(proc[q]) => Now' = Now)
                         \/ Newcomer(proc'[q]),
         JournalsOurs', DOMAIN journals' = 1..Last', Last' \in Nat, \A i \in DOMAIN journals' : Undone(journals'[i]),
         \A i \in DOMAIN journals' : Stood(i)' => AsBefore(i) \/ (i = Last' /\ journals'[i].home = home),
         Claimed' => Claimed
  PROVE  KeepInv'
<1>1. UserFiles' = UserFiles
  BY DEF UserFiles
<1>2. MarketInv /\ PlaceInv
  BY DEF KeepInv
<1>3. MarketInv'
  <2>1. SUFFICES ASSUME NEW h \in Host \ window
        PROVE  /\ HomeOurs(h, home')
               /\ \A q \in Proc : CommandOurs(h, proc'[q])
                                  /\ (Past(proc'[q]) => Stands(h, proc'[q], Now'.conf[h], host[h]))
    BY DEF MarketInv, JournalsOurs
  <2>2. HomeOurs(h, home')
    BY <1>2 DEF MarketInv, HomeOurs
  <2>3. ASSUME NEW q \in Proc
        PROVE  CommandOurs(h, proc'[q]) /\ (Past(proc'[q]) => Stands(h, proc'[q], Now'.conf[h], host[h]))
    <3>1. CASE proc'[q] = proc[q] /\ (Past(proc[q]) => Now' = Now)
      BY <1>2, <3>1 DEF MarketInv
    <3>2. CASE Newcomer(proc'[q])
      BY <3>2 DEF Newcomer
    <3> QED
      BY <3>1, <3>2
  <2> QED
    BY <2>2, <2>3
<1>4. PlaceInv'
  <2>1. Launcher \in UserFiles => place[Launcher] = "other"
    BY <1>2 DEF PlaceInv
  <2>2. Pointer \in UserFiles => place[Pointer] = "other" \/ (place[Pointer] = "text" /\ ~Claimed')
    BY <1>2 DEF PlaceInv
  <2>3. \A i \in DOMAIN journals' : Stood(i)' => Answers(journals'[i].home, home')
    BY <1>2 DEF PlaceInv, AsBefore, Answers
  <2>4. ASSUME NEW i \in DOMAIN journals', NEW m \in DOMAIN journals', i < m, Stood(i)', Stood(m)'
        PROVE  Answers(journals'[i].home, journals'[m].home)
    <3>1. AsBefore(i)
      BY <2>4
    <3>2. CASE AsBefore(m)
      BY <1>2, <2>4, <3>1, <3>2 DEF PlaceInv, AsBefore
    <3>3. CASE journals'[m].home = home
      BY <1>2, <3>1, <3>3 DEF PlaceInv, AsBefore
    <3> QED
      BY <2>4, <3>2, <3>3
  <2>5. ASSUME NEW q \in Proc
        PROVE  (proc'[q].stage \in {"asked"} \union Steps => PlanKeeps(proc'[q], UserFiles)) /\ Recalls(proc'[q], home')
    <3>1. CASE proc'[q] = proc[q]
      BY <1>2, <3>1 DEF PlaceInv, Recalls
    <3>2. CASE Newcomer(proc'[q])
      BY <3>2 DEF Newcomer, Recalls, Past
    <3> QED
      BY <3>1, <3>2
  <2>6. \A q \in Proc : (proc'[q].stage \in {"asked"} \union Steps => PlanKeeps(proc[q], UserFiles)') /\ Recalls(proc'[q], home')
    BY <1>1, <2>5 DEF PlanKeeps
  <2> QED
    BY <1>1, <2>1, <2>2, <2>3, <2>4, <2>6 DEF PlaceInv
<1> QED
  BY <1>3, <1>4 DEF KeepInv

\* The journals stay as well.
LEMMA AsideKeepsOurs ==
  ASSUME TypeInv, KeepInv, NEW p \in Proc, NEW t, proc' = [proc EXCEPT ![p] = t],
         UNCHANGED <<host, place, home, journals, theirs, window>>, Newcomer(t)
  PROVE  KeepInv'
<1>1. TypeOK /\ journals \in Seq(Journal) /\ DOMAIN journals = 1..Last /\ Last \in Nat
  BY DEF TypeInv, TypeOK, Last
<1>2. Last' = Last /\ Now' = Now
  BY DEF Last, Now
<1>3. \A q \in Proc : proc'[q] = IF q = p THEN t ELSE proc[q]
  BY <1>1 DEF TypeOK
<1>4. JournalsOurs'
  BY DEF JournalsOurs, KeepInv, MarketInv
<1>5. \A i \in DOMAIN journals' : Undone(journals'[i]) /\ (Stood(i)' => AsBefore(i))
  BY DEF KeepInv, PlaceInv, Stood, AsBefore
<1>6. Claimed' => Claimed
  BY DEF Claimed
<1> QED
  BY <1>1, <1>2, <1>3, <1>4, <1>5, <1>6, BesideKeepsOurs

LEMMA ReadOurs ==
  ASSUME InstallAssumption, TypeOK
  PROVE  /\ Reads.src = [h \in Host |-> NoSource] /\ Reads.ptr = PointerPlan /\ Reads.restart = FALSE
         /\ \A h \in Host : Reads.inv[h] = Inv(h, host[h])
<1>1. Idle.src = [h \in Host |-> NoSource] /\ Idle.restart = FALSE
  BY DEF Idle
<1> DEFINE inv == [h \in Host |-> Inv(h, host[h])]  seen == [h \in Host |-> host[h].file]
<1>2. Reads = [Idle EXCEPT !.stage = "asked", !.old = Metadata(home), !.inv = inv, !.seen = seen, !.ptr = PointerPlan]
  BY DEF Reads
<1>3. \A h \in Host : inv[h] = Inv(h, host[h])
  OBVIOUS
<1> HIDE DEF inv, seen
<1>4. Idle \in Request
  BY IdleTyped
<1> QED
  BY <1>1, <1>2, <1>3, <1>4 DEF Request

LEMMA AskKeepsOurs ==
  ASSUME TypeInv, KeepInv, NEW p \in Proc, NEW r, Ask(p, r), r.stage = "asked", r.old = Metadata(home),
         r.src = [h \in Host |-> NoSource],
         \A h \in r.hosts : r.inv[h].market = NoSource \/ r.inv[h].market = home.src[h],
         PlanKeeps(r, UserFiles)
  PROVE  KeepInv'
<1>1. ~Past(r) /\ r.stage # "select"
  BY DEF Past, Steps
<1>2. ASSUME NEW h \in Host \ window PROVE CommandOurs(h, r)
  <2>1. HomeOurs(h, home) /\ Ours(home.src[h]) /\ Ours(NoSource)
    BY DEF KeepInv, MarketInv, HomeOurs, Ours, NoSource
  <2> QED
    BY <1>1, <2>1, MetadataIs DEF CommandOurs, HomeOurs, TypeInv
<1>3. Newcomer(r)
  BY <1>1, <1>2 DEF Newcomer
<1> QED
  BY <1>3, AsideKeepsOurs DEF Ask

\* The probe refuses a pointer that is not the installer's, and keeps the plan for one that is.
LEMMA PointerPlanned ==
  ASSUME InstallAssumption, TypeOK, PlaceInv, NEW r, r.op # "uninstall", r.old = Metadata(home), r.ptr = PointerPlan, place[Pointer] # "other"
  PROVE  PlanKeeps(r, UserFiles)
<1> DEFINE owned == home.ptr /\ place[Pointer] = "text"
<1>1. r.ptr.write = (place[Pointer] # "text") /\ r.ptr.owned = (owned \/ place[Pointer] = "absent")
  BY DEF PointerPlan
<1>2. place[Pointer] \in {"absent", "text"}
  BY DEF TypeOK, InstallAssumption, Text
<1>3. Pointer \in UserFiles => place[Pointer] = "text" /\ ~Claimed
  BY DEF PlaceInv
<1>4. Pointer \in UserFiles => ~home.ptr
  BY <1>3 DEF Claimed
<1>5. Pointer \in UserFiles => ~r.ptr.write /\ ~r.ptr.owned
  BY <1>1, <1>3, <1>4
<1>6. home.ptr => r.ptr.owned
  BY <1>1, <1>2
<1> QED
  BY <1>5, <1>6, MetadataIs DEF PlanKeeps

LEMMA InstallAskKeepsOurs ==
  ASSUME InstallAssumption, TypeInv, KeepInv, NEW p \in Proc, NEW r, Probed(r),
         r \in Request, r.stage = "asked", r.op # "uninstall", r.old = Metadata(home), r.src = [h \in Host |-> NoSource],
         r.ptr = PointerPlan, Ask(p, [r EXCEPT !.refresh = Refreshed(r)])
  PROVE  KeepInv'
<1>1. TypeOK /\ PlaceInv
  BY DEF TypeInv, KeepInv
<1> DEFINE t == [r EXCEPT !.refresh = Refreshed(r)]
<1>2. /\ t.stage = "asked" /\ t.op = r.op /\ t.old = Metadata(home) /\ t.hosts = r.hosts /\ t.inv = r.inv
      /\ t.src = r.src /\ t.ptr = r.ptr
  BY DEF Request
<1>3. Ask(p, t)
  OBVIOUS
<1> HIDE DEF t
<1>4. place[Pointer] # "other"
  BY DEF Probed
<1>5. PlanKeeps(t, UserFiles)
  BY <1>1, <1>2, <1>4, PointerPlanned
<1>6. \A h \in t.hosts : t.inv[h].market = NoSource \/ t.inv[h].market = home.src[h]
  BY <1>1, <1>2, MetadataIs DEF Probed, MayOwn
<1> QED
  BY <1>2, <1>3, <1>5, <1>6, AskKeepsOurs

LEMMA AsksKeepOurs ==
  ASSUME InstallAssumption, TypeInv, KeepInv, NEW p \in Proc, AskInstall(p) \/ AskUpdate(p) \/ AskUninstall(p)
  PROVE  KeepInv'
<1>1. TypeOK /\ home.hosts \subseteq Host /\ PlaceInv
  BY DEF TypeInv, TypeOK, Home, KeepInv
<1>2. CASE AskInstall(p)
  <2>1. PICK hs \in SUBSET Host \ {{}}, v \in Version, local \in Locals, secure \in BOOLEAN :
           LET r == [Reads EXCEPT !.op = "install", !.hosts = hs, !.ver = v, !.local = local, !.secure = secure]
           IN Probed(r) /\ Ask(p, [r EXCEPT !.refresh = Refreshed(r)])
    BY <1>2 DEF AskInstall
  <2>2. local \in BOOLEAN /\ v \in 0..MaxVersion
    BY Bounds DEF InstallAssumption
  <2> DEFINE r == [Reads EXCEPT !.op = "install", !.hosts = hs, !.ver = v, !.local = local, !.secure = secure]
  <2>3. r \in Request /\ r.stage = "asked" /\ r.op = "install" /\ r.old = Metadata(home)
        /\ r.src = [h \in Host |-> NoSource] /\ r.ptr = PointerPlan
    BY <1>1, <2>2, ReadsTyped, ReadOurs DEF Request
  <2>4. Probed(r) /\ Ask(p, [r EXCEPT !.refresh = Refreshed(r)])
    BY <2>1
  <2> HIDE DEF r
  <2> QED
    BY <2>3, <2>4, InstallAskKeepsOurs
<1>3. CASE AskUpdate(p)
  <2>1. UpdateSecurity \in BOOLEAN
    BY DEF UpdateSecurity
  <2>2. PICK v \in Version, local \in Locals, restart \in BOOLEAN, enable \in BOOLEAN :
          LET r == [Reads EXCEPT !.op = "update", !.hosts = home.hosts, !.ver = v, !.local = local,
                           !.secure = UpdateSecurity, !.restart = restart, !.enable = enable]
          IN Probed(r) /\ Ask(p, [r EXCEPT !.refresh = Refreshed(r)])
    BY <1>3 DEF AskUpdate
  <2>3. local \in BOOLEAN /\ v \in 0..MaxVersion
    BY Bounds DEF InstallAssumption
  <2> DEFINE r == Planned(Reads, home.hosts, v, local, UpdateSecurity, restart, enable)
  <2>4. r \in Request /\ r.stage = "asked" /\ r.op = "update" /\ r.old = Metadata(home)
    BY <1>1, <2>1, <2>3, ReadsTyped, PlannedTyped
  <2>5. r.src = [h \in Host |-> NoSource] /\ r.ptr = PointerPlan
    BY <1>1, <2>1, <2>3, ReadsTyped, ReadOurs DEF Request, Planned
  <2>6. Probed(r) /\ Ask(p, [r EXCEPT !.refresh = Refreshed(r)])
    BY <2>2 DEF Planned
  <2> HIDE DEF r
  <2> QED
    BY <2>4, <2>5, <2>6, InstallAskKeepsOurs
<1>4. CASE AskUninstall(p)
  <2>1. PICK hs \in SUBSET home.hosts \ {{}} :
          LET r == [Reads EXCEPT !.op = "uninstall", !.hosts = hs]
          IN /\ \A h \in hs : r.inv[h].market \in {NoSource, home.src[h]}
             /\ hs = home.hosts => place[Launcher] = "text" /\ (home.ptr => place[Pointer] # "other")
             /\ Ask(p, r)
    BY <1>4 DEF AskUninstall
  <2> DEFINE r == [Reads EXCEPT !.op = "uninstall", !.hosts = hs]
  <2>2. r.stage = "asked" /\ r.op = "uninstall" /\ r.hosts = hs /\ r.old = Metadata(home) /\ r.src = [h \in Host |-> NoSource]
    BY <1>1, ReadsTyped, ReadOurs DEF Request
  <2>3. /\ \A h \in hs : r.inv[h].market \in {NoSource, home.src[h]}
        /\ hs = home.hosts => place[Launcher] = "text" /\ (home.ptr => place[Pointer] # "other")
        /\ Ask(p, r)
    BY <2>1
  <2> HIDE DEF r
  <2>4. PlanKeeps(r, UserFiles)
    BY <1>1, <2>2, <2>3, MetadataIs DEF PlanKeeps, PlaceInv, Claimed
  <2> QED
    BY <2>2, <2>3, <2>4, AskKeepsOurs
<1> QED
  BY <1>2, <1>3, <1>4

\* A transaction is opened: it remembers the home, and watches nothing yet.
LEMMA OpensOurs ==
  ASSUME InstallAssumption, TypeInv, KeepInv, NEW status \in {"active", "committed"},
         journals' = Append(journals, [status |-> status, undo |-> <<>>, home |-> home,
                   conf |-> [h \in Host |-> NoKept], text |-> [x \in Place |-> NoText]]),
         UNCHANGED <<host, place, theirs, window>>,
         home'.ptr = home.ptr, home'.src = home.src, home'.rec = home.rec, home'.hosts = home.hosts,
         \A q \in Proc : (proc'[q] = proc[q] /\ ~Past(proc[q])) \/ Newcomer(proc'[q])
  PROVE  KeepInv'
<1> DEFINE j == [status |-> status, undo |-> <<>>, home |-> home,
                 conf |-> [h \in Host |-> NoKept], text |-> [x \in Place |-> NoText]]
<1>1. TypeOK /\ MarketInv /\ PlaceInv
  BY DEF TypeInv, KeepInv
<1>2. j \in Journal /\ j.home = home /\ j.undo = <<>> /\ \A h \in Host : j.conf[h].on = "no"
  BY <1>1, OpenTyped
<1>3. \A x \in Place : ~j.text[x].on
  BY DEF NoText
<1>4. journals' = Append(journals, j)
  OBVIOUS
<1> HIDE DEF j
<1>5. /\ Last \in Nat /\ Last' = Last + 1 /\ Now' = j
      /\ DOMAIN journals = 1..Last /\ DOMAIN journals' = 1..Last + 1
      /\ \A i \in 1..Last : journals'[i] = journals[i]
  BY <1>1, <1>2, <1>4, Appended
<1>6. journals'[Last + 1] = j
  BY <1>5 DEF Now
<1>7. \A i \in DOMAIN journals' : (i \in DOMAIN journals /\ journals'[i] = journals[i]) \/ (i = Last' /\ journals'[i] = j)
  BY <1>5, <1>6
<1>8. JournalsOurs'
  <2>1. ASSUME NEW h \in Host \ window PROVE OurJournal(h, j)
    <3>1. HomeOurs(h, home)
      BY <1>1 DEF MarketInv
    <3> QED
      BY <1>2, <3>1 DEF OurJournal, KeptOurs, UndoOurs
  <2> QED
    BY <1>1, <1>7, <2>1 DEF MarketInv, JournalsOurs
<1>9. \A i \in DOMAIN journals' : Undone(journals'[i])
  BY <1>1, <1>3, <1>7 DEF PlaceInv, Undone
<1>10. \A i \in DOMAIN journals' : Stood(i)' => AsBefore(i) \/ (i = Last' /\ journals'[i].home = home)
  BY <1>2, <1>7 DEF Stood, AsBefore
<1>11. Claimed' => Claimed
  BY <1>3, <1>7 DEF Claimed, InstallAssumption
<1> QED
  BY <1>5, <1>8, <1>9, <1>10, <1>11, BesideKeepsOurs

LEMMA BeginKeepsOurs ==
  ASSUME InstallAssumption, TypeInv, KeepInv, NEW p \in Proc, Begin(p)
  PROVE  KeepInv'
<1>1. TypeOK /\ proc[p] \in Request /\ proc[p].stage = "asked" /\ MarketInv /\ PlaceInv
  BY DEF TypeInv, TypeOK, Begin, KeepInv
<1>2. CASE ~NoneUnfinished
  <2>1. proc' = [proc EXCEPT ![p] = Idle] /\ UNCHANGED <<host, place, home, journals, theirs, window>>
    BY <1>2 DEF Begin, Leave
  <2>2. Newcomer(Idle)
    <3>1. Idle.stage = "idle" /\ Idle.old = EmptyHome /\ \A h \in Host : Idle.src[h] = NoSource
      BY DEF Idle
    <3>2. \A h \in Host : Ours(NoSource) /\ HomeOurs(h, EmptyHome)
      BY DEF Ours, NoSource, HomeOurs, EmptyHome, NoRecord
    <3> QED
      BY <3>1, <3>2 DEF Newcomer, Past, CommandOurs, Steps
  <2> QED
    BY <2>1, <2>2, AsideKeepsOurs
<1>3. CASE NoneUnfinished
  <2> DEFINE r == [proc[p] EXCEPT !.stage = "confirm"]
  <2>1. /\ proc' = [proc EXCEPT ![p] = r] /\ UNCHANGED <<host, place, home, theirs, window>>
        /\ journals' = Append(journals, [status |-> "active", undo |-> <<>>, home |-> home,
                   conf |-> [h \in Host |-> NoKept], text |-> [x \in Place |-> NoText]])
    BY <1>3 DEF Begin, Open, Go
  <2>2. /\ r.stage = "confirm" /\ r.op = proc[p].op /\ r.hosts = proc[p].hosts /\ r.old = proc[p].old
        /\ r.src = proc[p].src /\ r.inv = proc[p].inv /\ r.ptr = proc[p].ptr /\ r.restart = proc[p].restart
    BY <1>1 DEF Request
  <2> HIDE DEF r
  <2>3. Newcomer(r)
    <3>1. \A h \in Host \ window : CommandOurs(h, proc[p])
      BY <1>1 DEF MarketInv
    <3>2. \A h \in Host \ window : CommandOurs(h, r)
      BY <1>1, <2>2, <3>1 DEF CommandOurs
    <3>3. PlanKeeps(r, UserFiles)
      BY <1>1, <2>2 DEF PlaceInv, PlanKeeps
    <3> QED
      BY <2>2, <3>2, <3>3 DEF Newcomer, Past
  <2>4. \A q \in Proc : proc'[q] = (IF q = p THEN r ELSE proc[q]) /\ ~Past(proc[q])
    BY <1>1, <2>1 DEF Begin, Free, Running, Past, Steps, TypeOK
  <2> QED
    BY <2>1, <2>3, <2>4, OpensOurs
<1> QED
  BY <1>2, <1>3

LEMMA AttestKeepsOurs ==
  ASSUME InstallAssumption, TypeInv, KeepInv, NEW p \in Proc, Attest(p)
  PROVE  KeepInv'
<1>1. TypeOK /\ home \in Home
  BY DEF TypeInv, TypeOK
<1>2. /\ UNCHANGED <<host, place, theirs, window, proc>> /\ home' = [home EXCEPT !.trust = home.version]
      /\ journals' = Append(journals, [status |-> "committed", undo |-> <<>>, home |-> home,
                   conf |-> [h \in Host |-> NoKept], text |-> [x \in Place |-> NoText]])
  BY DEF Attest
<1>3. home'.ptr = home.ptr /\ home'.src = home.src /\ home'.rec = home.rec /\ home'.hosts = home.hosts
  BY <1>1, <1>2 DEF Home
<1>4. \A q \in Proc : proc'[q] = proc[q] /\ ~Past(proc[q])
  BY <1>2 DEF Attest, Free, Running, Past, Steps
<1> QED
  BY <1>2, <1>3, <1>4, OpensOurs

\* The newest transaction that can still be undone is taken up again.
LEMMA StartRollbackKeepsOurs ==
  ASSUME InstallAssumption, TypeInv, KeepInv, NEW p \in Proc, StartRollback(p)
  PROVE  KeepInv'
<1>1. TypeOK /\ Free /\ Rollbackable # {} /\ MarketInv /\ PlaceInv
  BY DEF TypeInv, StartRollback, KeepInv
<1>2. journals \in Seq(Journal) /\ DOMAIN journals = 1..Last /\ Last \in Nat
  BY <1>1 DEF TypeOK, Last
<1>3. PICK i : i = Largest(Rollbackable)
  OBVIOUS
<1>4. i \in Rollbackable
  <2>1. Rollbackable \in SUBSET Nat /\ \A n \in Rollbackable : n <= Last
    BY <1>2 DEF Rollbackable
  <2> QED
    BY <1>1, <1>2, <1>3, <2>1, LargestFound
<1>5. i \in 1..Last /\ Stood(i) /\ journals[i] \in Journal
  BY <1>2, <1>4 DEF Rollbackable, Stood
<1> DEFINE j == [journals[i] EXCEPT !.status = "active"]
           r == [Idle EXCEPT !.stage = "undo", !.op = "rollback", !.k = Len(journals[i].undo)]
<1>6. /\ journals' = Append(SubSeq(journals, 1, i - 1), j) /\ proc' = [proc EXCEPT ![p] = r]
      /\ UNCHANGED <<host, place, home, theirs, window>>
  BY <1>3 DEF StartRollback
<1>7. /\ j \in Journal /\ j.home = journals[i].home /\ j.conf = journals[i].conf
      /\ j.undo = journals[i].undo /\ j.text = journals[i].text
  BY <1>5 DEF Journal
<1>8. r.stage = "undo" /\ r.old = EmptyHome /\ \A h \in Host : r.src[h] = NoSource
  BY DEF Idle
<1> HIDE DEF j, r
<1>9. /\ journals' \in Seq(Journal) /\ Len(journals') = i /\ journals'[i] = j
      /\ \A n \in 1..i - 1 : journals'[n] = journals[n]
  BY <1>2, <1>5, <1>6, <1>7 DEF Last
<1>10. Last' = i /\ DOMAIN journals' = 1..i /\ i \in Nat
  BY <1>5, <1>9 DEF Last
<1>11. \A n \in DOMAIN journals' : n \in DOMAIN journals /\ (journals'[n] = journals[n] \/ (n = i /\ journals'[n] = j))
  BY <1>2, <1>5, <1>9, <1>10
<1>12. JournalsOurs'
  <2>1. \A h \in Host \ window : OurJournal(h, journals[i])
    BY <1>1, <1>2, <1>5 DEF MarketInv
  <2>2. \A h \in Host \ window : OurJournal(h, j)
    BY <1>7, <2>1 DEF OurJournal, UndoOurs
  <2> QED
    BY <1>1, <1>6, <1>11, <2>2 DEF MarketInv, JournalsOurs
<1>13. \A n \in DOMAIN journals' : Undone(journals'[n])
  BY <1>1, <1>7, <1>11 DEF PlaceInv, Undone
<1>14. \A n \in DOMAIN journals' : Stood(n)' => AsBefore(n)
  BY <1>5, <1>7, <1>11 DEF Stood, AsBefore
<1>15. Claimed' => Claimed
  <2>1. \A n \in DOMAIN journals' : n \in DOMAIN journals /\ journals'[n].text = journals[n].text
    BY <1>7, <1>11
  <2> QED
    BY <1>6, <2>1 DEF Claimed
<1>16. Newcomer(r)
  <2>1. \A h \in Host : Ours(NoSource) /\ HomeOurs(h, EmptyHome)
    BY DEF Ours, NoSource, HomeOurs, EmptyHome, NoRecord
  <2> QED
    BY <1>8, <2>1 DEF Newcomer, Past, CommandOurs, Steps
<1>17. \A q \in Proc : proc'[q] = (IF q = p THEN r ELSE proc[q]) /\ ~Past(proc[q])
  BY <1>1, <1>6 DEF Free, Running, Past, Steps, TypeOK
<1> QED
  BY <1>6, <1>10, <1>12, <1>13, <1>14, <1>15, <1>16, <1>17, BesideKeepsOurs

\* What a step of the user leaves of the claims.
LEMMA EditFacts ==
  ASSUME TypeOK, NEW x, NEW looked, Edit(x, looked)
  PROVE  /\ UNCHANGED <<home, journals, proc>> /\ Last' = Last /\ Now' = Now /\ ~InstallerMoves
         /\ window \subseteq window' /\ window' \subseteq window \union {x}
         /\ x \notin window' => \A p \in Proc : proc[p].stage \in looked
<1>1. UNCHANGED <<home, journals, proc>>
  BY DEF Edit
<1>2. Last' = Last /\ Now' = Now
  BY <1>1 DEF Last, Now
<1>3. used \in [ops : Nat, edits : Nat, upsets : Nat]
  BY DEF TypeOK
<1>4. used'.edits # used.edits
  BY <1>3 DEF Edit
<1> QED
  BY <1>1, <1>2, <1>4 DEF InstallerMoves, Edit

LEMMA EditsKeepMarket ==
  ASSUME TypeOK, MarketInv, NEW x, NEW looked, Edit(x, looked),
         \A h \in Host \ window' :
           \/ host'[h] = host[h]
           \/ h = x /\ looked \subseteq {"idle", "asked", "confirm"}
           \/ SameTree(host'[h], host[h]) /\ host'[h].file.market = host[h].file.market
  PROVE  MarketInv'
<1>1. /\ UNCHANGED <<home, journals, proc>> /\ Now' = Now /\ window \subseteq window'
      /\ x \notin window' => \A p \in Proc : proc[p].stage \in looked
  BY EditFacts
<1>2. SUFFICES ASSUME NEW h \in Host \ window'
      PROVE  /\ HomeOurs(h, home) /\ \A i \in DOMAIN journals : OurJournal(h, journals[i])
             /\ \A p \in Proc : CommandOurs(h, proc[p])
                                /\ (Past(proc[p]) => Stands(h, proc[p], Now.conf[h], host'[h]))
  BY <1>1 DEF MarketInv
<1>3. /\ HomeOurs(h, home) /\ \A i \in DOMAIN journals : OurJournal(h, journals[i])
      /\ \A p \in Proc : CommandOurs(h, proc[p]) /\ (Past(proc[p]) => Stands(h, proc[p], Now.conf[h], host[h]))
  BY <1>1 DEF MarketInv
<1>4. ASSUME NEW p \in Proc, Past(proc[p]) PROVE Stands(h, proc[p], Now.conf[h], host'[h])
  <2>1. CASE host'[h] = host[h]
    BY <1>3, <1>4, <2>1
  <2>2. CASE h = x /\ looked \subseteq {"idle", "asked", "confirm"}
    BY <1>1, <1>4, <2>2 DEF Past, Steps
  <2>3. CASE SameTree(host'[h], host[h]) /\ host'[h].file.market = host[h].file.market
    BY <1>3, <1>4, <2>3 DEF Stands, SameTree
  <2> QED
    BY <2>1, <2>2, <2>3
<1> QED
  BY <1>3, <1>4

LEMMA EditsKeepPlace ==
  ASSUME TypeOK, PlaceInv, NEW x, NEW looked, Edit(x, looked),
         UserFiles' \subseteq UserFiles \/ \A p \in Proc : proc[p].stage = "idle",
         Launcher \in UserFiles' => place'[Launcher] = "other",
         Pointer \in UserFiles' => place'[Pointer] = "other" \/ (place'[Pointer] = "text" /\ ~Claimed)
  PROVE  PlaceInv'
<1>1. UNCHANGED <<home, journals, proc>>
  BY EditFacts
<1>2. Claimed' = Claimed
  BY <1>1 DEF Claimed
<1>3. \A p \in Proc : proc[p].stage \in {"asked"} \union Steps => PlanKeeps(proc[p], UserFiles')
  <2>1. CASE UserFiles' \subseteq UserFiles
    <3>1. \A p \in Proc : proc[p].stage \in {"asked"} \union Steps => PlanKeeps(proc[p], UserFiles)
      BY DEF PlaceInv
    <3> QED
      BY <2>1, <3>1 DEF PlanKeeps
  <2>2. CASE \A p \in Proc : proc[p].stage = "idle"
    BY <2>2 DEF Steps
  <2> QED
    BY <2>1, <2>2
<1>4. \A p \in Proc : proc'[p].stage \in {"asked"} \union Steps => PlanKeeps(proc[p], UserFiles)'
  BY <1>1, <1>3 DEF PlanKeeps
<1>5. \A p \in Proc : Recalls(proc'[p], home')
  BY <1>1 DEF PlaceInv
<1>6. /\ \A i \in DOMAIN journals' : Undone(journals'[i])
      /\ \A i \in DOMAIN journals' : Stood(i)' => Answers(journals'[i].home, home')
      /\ \A i, m \in DOMAIN journals' : i < m /\ Stood(i)' /\ Stood(m)' => Answers(journals'[i].home, journals'[m].home)
  BY <1>1 DEF PlaceInv, Stood
<1> QED
  BY <1>2, <1>4, <1>5, <1>6 DEF PlaceInv

LEMMA UserKeepsOurs ==
  ASSUME InstallAssumption, TypeInv, KeepInv,
         (\E h \in Host : EditSettings(h) \/ RunManager(h)) \/ \E x \in Place : WritePlace(x)
  PROVE  KeepInv' /\ ~InstallerMoves
<1>1. TypeOK /\ MarketInv /\ PlaceInv
  BY DEF TypeInv, KeepInv
<1>2. ASSUME NEW h \in Host, NEW looked, Edit(h, looked), UNCHANGED <<place, theirs>>
      PROVE  PlaceInv' /\ ~InstallerMoves
  <2>1. UserFiles' \subseteq UserFiles
    BY <1>1, <1>2, EditFacts DEF UserFiles
  <2> QED
    BY <1>1, <1>2, <2>1, EditFacts, EditsKeepPlace DEF PlaceInv
<1>3. ASSUME NEW h \in Host, EditSettings(h) PROVE KeepInv' /\ ~InstallerMoves
  <2>1. PICK s : host' = [host EXCEPT ![h].file.sec = s] /\ Edit(h, {"idle"}) /\ UNCHANGED <<place, theirs>>
    BY <1>3 DEF EditSettings
  <2>2. \A g \in Host : /\ host'[g].file.market = host[g].file.market
                        /\ host'[g].reg = host[g].reg /\ host'[g].dirs = host[g].dirs
    BY <1>1, <2>1 DEF TypeOK, HostState, File
  <2>3. MarketInv'
    BY <1>1, <2>1, <2>2, EditsKeepMarket DEF SameTree
  <2> QED
    BY <1>2, <2>1, <2>3 DEF KeepInv
<1>4. ASSUME NEW h \in Host, RunManager(h) PROVE KeepInv' /\ ~InstallerMoves
  <2>1. PICK s : /\ host' = [host EXCEPT ![h] = s] /\ Edit(h, {"idle", "asked", "confirm"})
                 /\ UNCHANGED <<place, theirs>>
    BY <1>4 DEF RunManager
  <2> DEFINE looked == {"idle", "asked", "confirm"}
  <2>2. /\ \A g \in Host : host'[g] = host[g] \/ (g = h /\ looked \subseteq {"idle", "asked", "confirm"})
        /\ Edit(h, looked)
    BY <1>1, <2>1 DEF TypeOK
  <2> HIDE DEF looked
  <2>3. MarketInv'
    BY <1>1, <2>2, EditsKeepMarket
  <2> QED
    BY <1>2, <2>1, <2>3 DEF KeepInv
<1>5. ASSUME NEW x \in Place, WritePlace(x) PROVE KeepInv' /\ ~InstallerMoves
  <2>1. PICK t : /\ x # Pointer => t \in {"absent", "other"}
                 /\ place' = [place EXCEPT ![x] = t] /\ Edit(x, {"idle"}) /\ UNCHANGED host
                 /\ theirs' = IF t = "other" \/ (t = "text" /\ ~Claimed) THEN theirs \union {x} ELSE theirs \ {x}
    BY <1>5 DEF WritePlace
  <2>2. /\ window \subseteq window' /\ window' \subseteq window \union {x} /\ ~InstallerMoves
        /\ x \notin window' => \A p \in Proc : proc[p].stage = "idle"
    BY <1>1, <2>1, EditFacts
  <2>3. MarketInv'
    BY <1>1, <2>1, EditsKeepMarket
  <2>4. UserFiles' \subseteq UserFiles \/ \A p \in Proc : proc[p].stage = "idle"
    BY <2>1, <2>2 DEF UserFiles
  <2>5. \A y \in Place : place'[y] = IF y = x THEN t ELSE place[y]
    BY <1>1, <2>1 DEF TypeOK
  <2>6. \A y \in Place : y # x /\ y \in UserFiles' => y \in UserFiles
    BY <2>1, <2>2 DEF UserFiles
  <2>7. x \in UserFiles' => t = "other" \/ (t = "text" /\ ~Claimed)
    BY <2>1 DEF UserFiles
  <2>8. Launcher \in Place /\ Pointer \in Place /\ Launcher # Pointer
    BY DEF InstallAssumption
  <2>9. Launcher \in UserFiles' => place'[Launcher] = "other"
    BY <1>1, <2>1, <2>5, <2>6, <2>7, <2>8 DEF PlaceInv
  <2>10. Pointer \in UserFiles' => place'[Pointer] = "other" \/ (place'[Pointer] = "text" /\ ~Claimed)
    BY <1>1, <2>5, <2>6, <2>7, <2>8 DEF PlaceInv
  <2>11. PlaceInv'
    BY <1>1, <2>1, <2>4, <2>9, <2>10, EditsKeepPlace
  <2> QED
    BY <2>2, <2>3, <2>11 DEF KeepInv
<1> QED
  BY <1>3, <1>4, <1>5

LEMMA KeepBegins == ASSUME InstallAssumption, Init PROVE KeepInv
<1>1. /\ home = EmptyHome /\ journals = <<>> /\ DOMAIN journals = {} /\ theirs = {}
      /\ \A p \in Proc : proc[p] = Idle
  BY DEF Init
<1>2. Idle.stage = "idle" /\ Idle.old = EmptyHome /\ \A h \in Host : Idle.src[h] = NoSource
  BY DEF Idle
<1>3. \A h \in Host : Ours(NoSource) /\ HomeOurs(h, EmptyHome)
  BY DEF Ours, NoSource, HomeOurs, EmptyHome, NoRecord
<1>4. MarketInv
  BY <1>1, <1>2, <1>3 DEF MarketInv, CommandOurs, Past, Steps
<1>5. PlaceInv
  BY <1>1, <1>2 DEF PlaceInv, UserFiles, Recalls, Steps
<1> QED
  BY <1>4, <1>5 DEF KeepInv

KeptAll == (\A h \in Host \ window : HostKept(h)) /\ \A x \in UserFiles : FileKept(x)
LEMMA KeepHolds ==
  ASSUME InstallAssumption, SettingsInv, KeepInv, [Next]_vars
  PROVE  KeepInv' /\ (InstallerMoves => KeptAll)
<1>1. TypeInv /\ MarketInv /\ PlaceInv
  BY DEF SettingsInv, KeepInv
<1>2. ASSUME NEW p \in Proc, KeepStep(p) PROVE KeepInv' /\ KeptAll
  <2>1. PICK j : Advance(p, j) /\ MarketStep(p, j) /\ PlaceStep(p, j)
    BY <1>2 DEF KeepStep
  <2> QED
    BY <1>1, <2>1, MarketStepDoes, PlaceStepDoes DEF KeepInv, KeptAll
<1>3. ASSUME NEW p \in Proc, Stages(p) PROVE KeepStep(p)
  BY <1>3, WriteFilesKeepsOurs, TrackHostsKeepsOurs, NextHostKeepsOurs, PrepareKeepsOurs, SwitchCacheKeepsOurs,
     StageCommandsKeep, VerifyKeepsOurs, ApplySettingsKeepsOurs, RecordInstallKeepsOurs,
     RestoreSettingsKeepsOurs, VerifyGoneKeepsOurs, ForgetKeepsOurs, CommitKeepsOurs DEF Stages
<1>4. ASSUME NEW p \in Proc, Fail(p) \/ Crash(p) PROVE KeepStep(p)
  BY <1>4, EndsKeep DEF Fail, Crash, Running, Steps
<1>5. ASSUME UNCHANGED host, UNCHANGED place PROVE KeptAll
  BY <1>5 DEF KeptAll, HostKept, FileKept
<1>6. ASSUME NEW p \in Proc,
             \/ AskInstall(p) \/ AskUpdate(p) \/ AskUninstall(p) \/ Begin(p) \/ StartRollback(p) \/ Attest(p)
      PROVE  KeepInv' /\ KeptAll
  <2>1. UNCHANGED host /\ UNCHANGED place
    BY <1>6 DEF AskInstall, AskUpdate, AskUninstall, Ask, Begin, StartRollback, Attest
  <2> QED
    BY <1>1, <1>5, <1>6, <2>1, AsksKeepOurs, BeginKeepsOurs, StartRollbackKeepsOurs, AttestKeepsOurs
<1>7. ASSUME NEW p \in Proc,
             \/ AskInstall(p) \/ AskUpdate(p) \/ AskUninstall(p)
             \/ Begin(p) \/ Confirm(p) \/ Stages(p)
             \/ StartRollback(p) \/ UndoNext(p) \/ RestoreFiles(p)
             \/ Attest(p) \/ Fail(p) \/ Crash(p)
      PROVE  KeepInv' /\ KeptAll
  BY <1>2, <1>3, <1>4, <1>6, <1>7, ConfirmKeepsOurs, UndoNextKeepsOurs, RestoreFilesKeepsOurs
<1>8. CASE (\E h \in Host : EditSettings(h) \/ RunManager(h)) \/ \E x \in Place : WritePlace(x)
  BY <1>1, <1>8, UserKeepsOurs
<1>9. CASE UNCHANGED vars
  <2>1. UNCHANGED <<host, place, home, journals, proc, theirs, window>>
    BY <1>9 DEF vars, ghosts
  <2>2. Last' = Last /\ Now' = Now
    BY <2>1 DEF Last, Now
  <2>3. MarketInv'
    BY <1>1, <2>1, <2>2 DEF MarketInv
  <2>4. Claimed' = Claimed /\ UserFiles' = UserFiles
    BY <2>1 DEF Claimed, UserFiles
  <2>5. \A p \in Proc : proc[p].stage \in {"asked"} \union Steps => PlanKeeps(proc[p], UserFiles')
    BY <1>1, <2>4 DEF PlaceInv
  <2>6. \A p \in Proc : proc'[p].stage \in {"asked"} \union Steps => PlanKeeps(proc[p], UserFiles)'
    BY <2>1, <2>5 DEF PlanKeeps
  <2>7. PlaceInv'
    BY <1>1, <2>1, <2>4, <2>6 DEF PlaceInv, Stood
  <2> QED
    BY <1>5, <2>1, <2>3, <2>7 DEF KeepInv
<1> QED
  BY <1>7, <1>8, <1>9 DEF Next

(* No step of the installer changes a marketplace of the user's that has the product's
   name, or the plugin that came from it, nor a launcher or pointer the user wrote, in
   any host or file the user left alone since the command began
   (operations.py:802-845, 361, 382), for any hosts, releases, failures and crashes. *)
THEOREM ForeignKept == ASSUME InstallAssumption PROVE Spec => KeepsForeign
<1>1. Init => SettingsInv /\ KeepInv
  BY InitHolds, KeepBegins
<1>2. SettingsInv /\ KeepInv /\ [Next]_vars => (SettingsInv /\ KeepInv)'
  BY NextHolds, KeepHolds
<1>3. SettingsInv /\ KeepInv /\ [Next]_vars =>
        [InstallerMoves =>
           /\ \A h \in Host \ window : Foreign(h) =>
                /\ host'[h].file.market = host[h].file.market
                /\ ForeignPlugin(h) => Inv(h, host'[h]) = Inv(h, host[h])
           /\ \A x \in theirs \ window : place'[x] = place[x]]_vars
  BY KeepHolds DEF KeptAll, HostKept, FileKept, UserFiles
<1> QED
  BY <1>1, <1>2, <1>3, PTL DEF Spec, KeepsForeign

--------
(* What a rollback that succeeds puts back.                                      *)
(*                                                                               *)
(* FilesBack is decided long before the rollback, when each file was tracked:    *)
(* Restores says that what was kept, or what is still there where nothing was    *)
(* kept, is what world b had.  A rollback that could not be completed marks      *)
(* files as put back, and a native command undone later may change them again;   *)
(* it is then signed anew and no longer marked (Settled), or the rollback died   *)
(* in that command (CutOff) and will never again report success.            *)

Here == [host |-> host, place |-> place, home |-> home]
WorldAt(m) == IF m \in DOMAIN journals THEN begin[m] ELSE Here
Restores(j, b, w) ==
  /\ j.home = b.home
  /\ \A h \in Host : IF j.conf[h].on = "no" THEN w.host[h].file = b.host[h].file
                     ELSE j.conf[h].before.file = b.host[h].file
  /\ \A x \in Place : (IF j.text[x].on THEN j.text[x].before ELSE w.place[x]) = b.place[x]
NoneBack(j) == \A h \in Host : ~j.conf[h].back
Settled(j, b, w) == \A h \in Host : j.conf[h].back => w.host[h].file = b.host[h].file
CutOff(j) == \E k \in DOMAIN j.undo : j.undo[k].state = "running"
Covered(j) == \A k \in DOMAIN j.undo : j.conf[j.undo[k].cmd.host].on # "no"
Returns(j, b, w) == Restores(j, b, w) /\ (CutOff(j) \/ Settled(j, b, w))

\* What the command r has found or may rely on while it works on journal j.
Holding(r, j) ==
  /\ r.stage = "undo" /\ ~r.bad => \A l \in DOMAIN j.undo : l > r.k => j.undo[l].state = "done"
  /\ r.stage \in Steps =>
       NoneBack(j) /\ (r.op = "uninstall" /\ r.stage # "commit" => \A x \in Place : ~j.text[x].on)
FileInv ==
  /\ \A i \in DOMAIN journals :
       Covered(journals[i]) /\ (journals[i].status = "committed" => NoneBack(journals[i]))
  /\ \A i, m \in DOMAIN journals : i < m /\ m \in edited => i \in edited
  /\ \A i \in DOMAIN journals \ edited : \A m \in 1..Last + 1 :
       journals[i].status = "committed" /\ Follows(i, m) => Restores(journals[i], begin[i], WorldAt(m))
  /\ \A i \in DOMAIN journals \ edited :
       journals[i].status \in Unfinished => Returns(journals[i], begin[i], Here)
  /\ \A p \in Proc : Holding(proc[p], Now)

\* Every step keeps this, and a transaction that it takes back has its files back.
FilesOK ==
  /\ FileInv'
  /\ \A i \in DOMAIN journals \cap DOMAIN journals' : TakenBack(i) /\ i \notin edited => FilesBack(i)

LEMMA WorldsSame ==
  ASSUME NEW j, NEW b, NEW v, NEW w, Restores(j, b, v), \A x \in Place : w.place[x] = v.place[x],
         \A h \in Host : w.host[h].file = v.host[h].file
  PROVE  Restores(j, b, w)
BY DEF Restores

LEMMA HereIs == /\ Here.host = host /\ Here.place = place /\ Here.home = home
                /\ Here'.host = host' /\ Here'.place = place' /\ Here'.home = home'
BY DEF Here

\* A step of the command that holds the lock, in its transaction.
LEMMA FileSteps ==
  ASSUME TypeInv, FileInv, NEW p \in Proc, Running(p), UNCHANGED <<begin, edited>>,
         NEW j, Save(j) \/ (j = Now /\ UNCHANGED journals), Covered(j), j.status = "committed" => NoneBack(j),
         Last \notin edited =>
           /\ j.status = "committed" => Restores(j, begin[Last], Here')
           /\ j.status \in Unfinished => Returns(j, begin[Last], Here')
           /\ j.status = "rolled_back" => FilesBack(Last),
         \A q \in Proc \ {p} : proc'[q] = proc[q], Holding(proc'[p], j)
  PROVE  FilesOK
<1>1. /\ TypeOK /\ journals # <<>> /\ Last \in DOMAIN journals /\ Now.status = "active"
      /\ \A q \in Proc \ {p} : ~Running(q)
  BY RunFacts
<1>2. /\ Last' = Last /\ Now' = j /\ DOMAIN journals' = DOMAIN journals
      /\ \A i \in DOMAIN journals : journals'[i] = IF i = Last THEN j ELSE journals[i]
  BY <1>1, SavedIs
<1>3. DOMAIN journals = 1..Last /\ Last \in Nat
  BY <1>1 DEF TypeOK, Last
<1>4. \A i \in DOMAIN journals : Covered(journals'[i]) /\ (journals'[i].status = "committed" => NoneBack(journals'[i]))
  BY <1>2 DEF FileInv
<1>5. ASSUME NEW i \in DOMAIN journals \ edited, NEW m \in 1..Last + 1, journals'[i].status = "committed", Follows(i, m)'
      PROVE  Restores(journals'[i], begin[i], WorldAt(m)')
  <2>1. i < m /\ \A l \in DOMAIN journals : i < l /\ l < m => journals'[l].status = "rolled_back"
    BY <1>2, <1>5 DEF Follows
  <2>2. WorldAt(m)' = IF m \in DOMAIN journals THEN begin[m] ELSE Here'
    BY <1>2 DEF WorldAt
  <2>3. CASE i = Last
    <3>1. m = Last + 1 /\ m \notin DOMAIN journals
      BY <1>3, <1>5, <2>1, <2>3
    <3> QED
      BY <1>2, <1>5, <2>2, <2>3, <3>1
  <2>4. CASE i # Last /\ m # Last + 1
    <3>1. m \in DOMAIN journals /\ Follows(i, m) /\ journals'[i] = journals[i] /\ WorldAt(m) = begin[m]
      BY <1>2, <1>3, <1>5, <2>1, <2>4 DEF Follows, WorldAt
    <3> QED
      BY <1>5, <2>2, <3>1 DEF FileInv
  <2>5. CASE i # Last /\ m = Last + 1
    <3>1. Follows(i, Last) /\ journals'[i] = journals[i] /\ WorldAt(Last) = begin[Last] /\ i < Last /\ m \notin DOMAIN journals
      BY <1>1, <1>2, <1>3, <1>5, <2>1, <2>5 DEF Follows, WorldAt
    <3>2. j.status = "rolled_back" /\ Last \notin edited
      BY <1>1, <1>2, <1>3, <1>5, <2>1, <2>5, <3>1 DEF FileInv
    <3>3. Restores(journals[i], begin[i], begin[Last])
      BY <1>3, <1>5, <3>1 DEF FileInv
    <3>4. place' = begin[Last].place /\ \A h \in Host : host'[h].file = begin[Last].host[h].file
      BY <3>2 DEF FilesBack
    <3> QED
      BY <2>2, <3>1, <3>3, <3>4, HereIs, WorldsSame
  <2> QED
    BY <2>3, <2>4, <2>5
<1>6. ASSUME NEW i \in DOMAIN journals \ edited, journals'[i].status \in Unfinished
      PROVE  Returns(journals'[i], begin[i], Here')
  <2>1. i = Last
    BY <1>2, <1>6 DEF TypeInv
  <2> QED
    BY <1>2, <1>6, <2>1
<1>7. ASSUME NEW q \in Proc PROVE Holding(proc'[q], Now')
  <2>1. CASE q = p
    BY <1>2, <2>1
  <2>2. CASE q # p
    BY <1>1, <2>2 DEF Holding, Running, Steps
  <2> QED
    BY <2>1, <2>2
<1>8. begin' = begin /\ edited' = edited
  OBVIOUS
<1>9. FileInv'
  BY <1>2, <1>4, <1>5, <1>6, <1>7, <1>8 DEF FileInv, Holding
<1>10. ASSUME NEW i \in DOMAIN journals, TakenBack(i), i \notin edited PROVE FilesBack(i)
  <2>1. i = Last /\ j.status = "rolled_back"
    BY <1>2, <1>10 DEF TakenBack
  <2> QED
    BY <1>10, <2>1
<1> QED
  BY <1>2, <1>9, <1>10 DEF FilesOK

\* What a step of a command at work does to the record of each file, and where it goes.
KeepsFile(k, l, f, g) ==
  IF l.on = "no" THEN k.on = "no" /\ g = f /\ l.back = k.back
  ELSE ~l.back /\ l.before.file = IF k.on = "no" THEN f ELSE k.before.file
KeepsPlace(k, l, t, u) ==
  \/ l = k /\ (k.on \/ u = t)
  \/ l.on /\ l.before = IF k.on THEN k.before ELSE t
FileWork(j) ==
  /\ j.home = Now.home /\ j.status = Now.status
  /\ \A h \in Host : KeepsFile(Now.conf[h], j.conf[h], host[h].file, host'[h].file)
  /\ \A x \in Place : KeepsPlace(Now.text[x], j.text[x], place[x], place'[x])
Turns(p, j) ==
  /\ \A q \in Proc \ {p} : proc'[q] = proc[q]
  /\ \/ proc'[p].stage = "idle"
     \/ proc'[p].stage = "undo" /\ proc'[p].k = Len(j.undo)
     \/ /\ proc'[p].stage \in Steps /\ proc'[p].op = proc[p].op
        /\ proc[p].op # "uninstall" \/ proc'[p].stage = "commit" \/ (proc[p].stage # "commit" /\ j.text = Now.text)

LEMMA FileWorks ==
  ASSUME InstallAssumption, SettingsInv, FileInv, NEW p \in Proc, Going(p), UNCHANGED <<begin, edited>>,
         NEW j \in Journal, Save(j) \/ (j = Now /\ UNCHANGED journals), FileWork(j), Covered(j), Turns(p, j)
  PROVE  FilesOK
<1>1. /\ TypeInv /\ TypeOK /\ Last \in DOMAIN journals /\ Now.status = "active" /\ Running(p) /\ Now = journals[Last]
      /\ journals # <<>>
  BY GoingFacts DEF Now
<1>2. Holding(proc[p], Now) /\ NoneBack(Now)
  BY DEF FileInv, Holding, Going
<1>3. j.status \in Unfinished /\ Now.status \in Unfinished /\ j.status \notin {"committed", "rolled_back"}
  BY <1>1 DEF FileWork, Unfinished
<1>4. NoneBack(j)
  BY <1>2 DEF NoneBack, FileWork, KeepsFile
<1>5. ASSUME Last \notin edited PROVE Returns(j, begin[Last], Here')
  <2>1. Restores(Now, begin[Last], Here)
    BY <1>1, <1>3, <1>5 DEF FileInv, Returns
  <2>2. ASSUME NEW h \in Host
        PROVE  IF j.conf[h].on = "no" THEN Here'.host[h].file = begin[Last].host[h].file
               ELSE j.conf[h].before.file = begin[Last].host[h].file
    BY <2>1, HereIs DEF Restores, FileWork, KeepsFile
  <2>3. ASSUME NEW x \in Place
        PROVE  (IF j.text[x].on THEN j.text[x].before ELSE Here'.place[x]) = begin[Last].place[x]
    BY <2>1, HereIs DEF Restores, FileWork, KeepsPlace
  <2>4. Restores(j, begin[Last], Here')
    BY <2>1, <2>2, <2>3 DEF Restores, FileWork
  <2>5. Settled(j, begin[Last], Here')
    BY <1>4 DEF NoneBack, Settled
  <2> QED
    BY <2>4, <2>5 DEF Returns
<1>6. Holding(proc'[p], j)
  <2>1. CASE proc'[p].stage = "idle"
    BY <2>1 DEF Holding, Steps
  <2>2. CASE proc'[p].stage = "undo" /\ proc'[p].k = Len(j.undo)
    <3>1. DOMAIN j.undo = 1..Len(j.undo) /\ Len(j.undo) \in Nat
      BY DEF Journal
    <3>2. \A l \in DOMAIN j.undo : ~(l > proc'[p].k)
      BY <2>2, <3>1
    <3> QED
      BY <2>2, <3>2 DEF Holding, Steps
  <2>3. CASE proc'[p].stage \in Steps
    BY <1>2, <1>4, <2>3 DEF Turns, Holding, Going, Steps
  <2> QED
    BY <2>1, <2>2, <2>3 DEF Turns
<1> QED
  BY <1>1, <1>3, <1>5, <1>6, FileSteps DEF Turns

\* The same commands, in hosts that are kept as they were.
LEMMA SameCovered ==
  ASSUME NEW j \in Journal, NEW t, Covered(j), DOMAIN t.undo = DOMAIN j.undo,
         \A k \in DOMAIN j.undo : t.undo[k].cmd = j.undo[k].cmd,
         \A h \in Host : j.conf[h].on # "no" => t.conf[h].on # "no"
  PROVE  Covered(t)
<1>1. \A k \in DOMAIN j.undo : j.undo[k] \in Undo
  BY DEF Journal
<1>2. \A k \in DOMAIN j.undo : j.undo[k].cmd.host \in Host
  BY <1>1 DEF Undo, Command
<1> QED
  BY <1>2 DEF Covered

\* Where a step leads the command.
LEMMA TurnsSo ==
  ASSUME TypeOK, NEW p \in Proc, NEW j,
         \/ Leave(p)
         \/ proc' = [proc EXCEPT ![p].stage = "undo", ![p].k = Len(j.undo), ![p].bad = FALSE]
         \/ \E s \in Steps : Go(p, s) /\ (proc[p].op # "uninstall" \/ s = "commit"
                                          \/ (proc[p].stage # "commit" /\ j.text = Now.text))
  PROVE  Turns(p, j)
<1>1. proc \in [Proc -> Request] /\ proc[p] \in Request
  BY DEF TypeOK
<1>2. CASE Leave(p)
  BY <1>1, <1>2 DEF Leave, Turns, Idle
<1>3. CASE proc' = [proc EXCEPT ![p] = Aborted(p, Len(j.undo))]
  <2>1. Aborted(p, Len(j.undo)).stage = "undo" /\ Aborted(p, Len(j.undo)).k = Len(j.undo)
    BY <1>1 DEF Aborted, Request
  <2> QED
    BY <1>1, <1>3, <2>1 DEF Turns
<1>4. ASSUME NEW s \in Steps, Go(p, s), proc[p].op # "uninstall" \/ s = "commit"
                                        \/ (proc[p].stage # "commit" /\ j.text = Now.text)
      PROVE Turns(p, j)
  <2>1. [proc[p] EXCEPT !.stage = s].stage = s /\ [proc[p] EXCEPT !.stage = s].op = proc[p].op
    BY <1>1 DEF Request
  <2> QED
    BY <1>1, <1>4, <2>1 DEF Go, Turns
<1> QED
  BY <1>2, <1>3, <1>4 DEF Aborted

\* No file changes, but for those of a host whose file is kept.
LEMMA SameFiles ==
  ASSUME InstallAssumption, SettingsInv, FileInv, NEW p \in Proc, Going(p), UNCHANGED <<place, journals, begin, edited>>,
         \A h \in Host : host'[h].file = host[h].file \/ Now.conf[h].on # "no", Turns(p, Now)
  PROVE  FilesOK
<1>1. Now \in Journal /\ Last \in DOMAIN journals /\ Now = journals[Last]
  BY GoingFacts DEF Now
<1>2. NoneBack(Now) /\ Covered(Now)
  BY <1>1 DEF FileInv, Holding, Going
<1>3. FileWork(Now)
  BY <1>2 DEF FileWork, KeepsFile, KeepsPlace, NoneBack
<1> QED
  BY <1>1, <1>2, <1>3, FileWorks

LEMMA Quietly ==
  ASSUME InstallAssumption, SettingsInv, FileInv, NEW p \in Proc, Going(p), proc[p].stage # "commit",
         UNCHANGED <<host, place, journals, ghosts>>,
         Leave(p) \/ Abort(p) \/ \E s \in Steps : Go(p, s)
  PROVE  FilesOK
<1>1. Turns(p, Now)
  BY GoingFacts, TurnsSo DEF Abort
<1> QED
  BY <1>1, SameFiles DEF ghosts

\* A command tracks the settings file of a host before it works on it.
LEMMA CurrentKept ==
  ASSUME InstallAssumption, SettingsInv, NEW p \in Proc, proc[p].stage \in InHost \ {"restore"}
  PROVE  /\ Going(p) /\ proc[p].cur \in Host /\ Now.conf[proc[p].cur].on # "no" /\ proc[p].stage # "commit"
<1>1. proc[p].stage \in Steps
  BY DEF InHost, Installing, Uninstalling, Steps
<1>2. proc[p].cur \in Host /\ proc[p].cur \in proc[p].hosts /\ Standing(proc[p], Now) /\ Tracked(proc[p], proc[p].cur)
  BY AtHost DEF Knows
<1>3. proc[p].stage \in Installing => proc[p].op # "uninstall"
  BY <1>2 DEF Standing
<1> QED
  BY <1>1, <1>2, <1>3 DEF Going, Tracked, InHost, Installing, Uninstalling

LEMMA QueueCovers ==
  ASSUME NEW j \in Journal, NEW c \in Command, Covered(j), j.conf[c.host].on # "no"
  PROVE  Covered(Queue(j, c)) /\ Queue(j, c).text = j.text /\ Queue(j, c).conf = j.conf
<1> DEFINE e == [cmd |-> c, state |-> "ready"]  u == Append(j.undo, e)
<1>1. j.undo \in Seq(Undo) /\ e \in Undo /\ e.cmd = c
  BY DEF Journal, Undo
<1>2. Queue(j, c).undo = u /\ Queue(j, c).text = j.text /\ Queue(j, c).conf = j.conf
  BY DEF Queue, Journal
<1> HIDE DEF e
<1>3. \A k \in DOMAIN u : u[k] = e \/ (k \in DOMAIN j.undo /\ u[k] = j.undo[k])
  BY <1>1
<1> HIDE DEF u
<1> QED
  BY <1>1, <1>2, <1>3 DEF Covered

LEMMA SignCovers ==
  ASSUME InstallAssumption, NEW j \in Journal, NEW hs \in [Host -> HostState], Covered(j)
  PROVE  Covered(SignAll(j, hs)) /\ SignAll(j, hs).text = j.text
<1> DEFINE t == SignAll(j, hs)
<1>1. t.text = j.text
  BY DEF SignAll, Journal
<1>2. t.undo = j.undo /\ \A h \in Host : j.conf[h].on # "no" => t.conf[h].on # "no"
  BY SignAllDoes
<1> HIDE DEF t
<1>3. Covered(t)
  BY <1>2, SameCovered
<1> QED
  BY <1>1, <1>3 DEF t

LEMMA CommandFiles ==
  ASSUME InstallAssumption, SettingsInv, FileInv, NEW p \in Proc, proc[p].stage \in InHost \ {"restore"},
         NEW c \in Command, c.host = proc[p].cur, NEW next \in Steps,
         NEW u, u = <<>> \/ \E d \in Command : d.host = proc[p].cur /\ u = <<d>>,
         External(p, c, u, next) \/ DiesRunning(p, c, u)
  PROVE  FilesOK
<1>1. /\ Going(p) /\ Now.conf[c.host].on # "no" /\ c.host \in Host /\ proc[p].stage # "commit"
      /\ TypeOK /\ Now \in Journal /\ Last \in DOMAIN journals /\ Now = journals[Last] /\ host \in [Host -> HostState]
  BY CurrentKept, GoingFacts DEF Now, TypeOK
<1>2. NoneBack(Now) /\ Covered(Now)
  BY <1>1 DEF FileInv, Holding, Going
<1> DEFINE j == IF u = <<>> THEN Now ELSE Queue(Now, u[1])
<1>3. j \in Journal /\ j.status = Now.status /\ j.home = Now.home /\ j.conf = Now.conf /\ j.text = Now.text /\ Covered(j)
  <2>1. CASE u = <<>>
    BY <1>1, <1>2, <2>1
  <2>2. ASSUME NEW d \in Command, d.host = proc[p].cur, u = <<d>>
        PROVE  j \in Journal /\ j.status = Now.status /\ j.home = Now.home /\ j.conf = Now.conf /\ j.text = Now.text /\ Covered(j)
    <3>1. j = Queue(Now, d)
      BY <2>2
    <3> QED
      BY <1>1, <1>2, <2>2, <3>1, QueueDoes, QueueCovers
  <2> QED
    BY <2>1, <2>2
<1> HIDE DEF j
<1>4. ASSUME NEW s \in HostState, host' = [host EXCEPT ![c.host] = s]
      PROVE  /\ host' \in [Host -> HostState]
             /\ \A h \in Host : host'[h].file = host[h].file \/ Now.conf[h].on # "no"
  BY <1>1, <1>4
<1>5. CASE External(p, c, u, next) /\ Conflict(Now)
  <2>1. Abort(p) /\ UNCHANGED <<host, place, journals, ghosts>>
    BY <1>5 DEF External
  <2> QED
    BY <1>1, <2>1, Quietly
<1>6. ASSUME NEW o \in Outcomes(c), host' = [host EXCEPT ![c.host] = o.s],
             Save(SignAll(j, host')), UNCHANGED <<place, home, ghosts>>,
             Go(p, next) \/ proc' = [proc EXCEPT ![p].stage = "undo", ![p].k = Len(j.undo), ![p].bad = FALSE]
      PROVE FilesOK
  <2>1. o.s \in HostState
    BY <1>1, OutcomesTyped
  <2>2. host' \in [Host -> HostState] /\ \A h \in Host : host'[h].file = host[h].file \/ Now.conf[h].on # "no"
    BY <1>4, <1>6, <2>1
  <2> DEFINE t == SignAll(j, host')
  <2>3. /\ t \in Journal /\ t.status = j.status /\ t.home = j.home /\ t.undo = j.undo /\ t.text = j.text /\ Covered(t)
        /\ \A h \in Host : IF j.conf[h].on = "no" THEN t.conf[h] = j.conf[h]
                           ELSE t.conf[h].on = j.conf[h].on /\ t.conf[h].before = j.conf[h].before /\ ~t.conf[h].back
    BY <1>3, <2>2, SignAllDoes, SignCovers
  <2> HIDE DEF t
  <2>4. FileWork(t)
    <3>1. \A h \in Host : KeepsFile(Now.conf[h], t.conf[h], host[h].file, host'[h].file)
      BY <1>2, <1>3, <2>2, <2>3 DEF KeepsFile
    <3> QED
      BY <1>3, <1>6, <2>3, <3>1 DEF FileWork, KeepsPlace
  <2>5. Turns(p, t)
    <3>1. CASE Go(p, next)
      BY <1>1, <1>3, <2>3, <3>1, TurnsSo
    <3>2. CASE proc' = [proc EXCEPT ![p].stage = "undo", ![p].k = Len(j.undo), ![p].bad = FALSE]
      <4>1. proc' = [proc EXCEPT ![p].stage = "undo", ![p].k = Len(t.undo), ![p].bad = FALSE]
        BY <2>3, <3>2
      <4> QED
        BY <1>1, <4>1, TurnsSo
    <3> QED
      BY <1>6, <3>1, <3>2
  <2> QED
    BY <1>1, <1>6, <2>3, <2>4, <2>5, FileWorks DEF ghosts, t
<1>7. CASE DiesRunning(p, c, u)
  <2>1. PICK s : host' = [host EXCEPT ![c.host] = s] /\ s \in {host[c.host], Effect(c, host[c.host])}
    BY <1>7 DEF DiesRunning
  <2>2. Save(j) /\ Leave(p) /\ UNCHANGED <<place, home, ghosts>>
    BY <1>7 DEF DiesRunning, j
  <2>3. s \in HostState
    BY <1>1, <2>1, Effects
  <2>4. FileWork(j)
    <3>1. \A h \in Host : host'[h].file = host[h].file \/ Now.conf[h].on # "no"
      BY <1>4, <2>1, <2>3
    <3> QED
      BY <1>2, <1>3, <2>2, <3>1 DEF FileWork, KeepsFile, KeepsPlace, NoneBack
  <2>5. Turns(p, j)
    BY <1>1, <2>2, TurnsSo
  <2> QED
    BY <1>1, <1>3, <2>2, <2>4, <2>5, FileWorks DEF ghosts
<1>8. CASE External(p, c, u, next) /\ ~Conflict(Now)
  BY <1>6, <1>8 DEF External, j
<1> QED
  BY <1>5, <1>7, <1>8

LEMMA CommandStagesFiles ==
  ASSUME InstallAssumption, SettingsInv, FileInv, NEW p \in Proc,
         \/ RemoveMarket(p) \/ AddMarket(p) \/ DropDisabled(p) \/ AddPlugin(p)
         \/ RemovePlugin(p) \/ RemoveOwnedMarket(p)
  PROVE  FilesOK
<1> DEFINE h == proc[p].cur  r == proc[p]
<1>1. /\ r.stage \in {"remove", "add", "drop", "plug", "unplug", "unmarket"}
      /\ r.stage \in InHost \ {"restore"} /\ r.stage \in InHost
  BY DEF RemoveMarket, AddMarket, DropDisabled, AddPlugin, RemovePlugin, RemoveOwnedMarket, InHost, Installing, Uninstalling
<1>2. h \in Host /\ r \in Request /\ Going(p) /\ r.stage # "commit" /\ NoSource \in Source
  BY <1>1, AtHost, CurrentKept, Bounds
<1>3. /\ Tag(r.old.version) \in Source /\ (\A v \in 0..MaxVersion : Tag(v) \in Source /\ Dir(v) \in Source)
      /\ r.inv[h].market \in Source /\ Dir(r.old.version) \in Source /\ r.ver \in 0..MaxVersion
  BY <1>2 DEF Request, Home, Inventory, Dir, Tag, Source
<1>4. ASSUME NEW op \in {"market add", "market remove", "plugin add", "plugin remove", "select"}, NEW src \in Source,
             NEW next \in Steps, NEW u, u = <<>> \/ \E d \in Command : d.host = h /\ u = <<d>>,
             \/ External(p, Cmd(op, h, src), u, next) \/ DiesRunning(p, Cmd(op, h, src), u)
             \/ Go(p, next) /\ UNCHANGED <<host, place, home, journals, used, ghosts>>
      PROVE FilesOK
  <2>1. Cmd(op, h, src) \in Command /\ Cmd(op, h, src).host = h
    BY <1>2, CommandTyped
  <2>2. CASE Go(p, next) /\ UNCHANGED <<host, place, home, journals, used, ghosts>>
    BY <1>2, <2>2, Quietly
  <2>3. CASE External(p, Cmd(op, h, src), u, next) \/ DiesRunning(p, Cmd(op, h, src), u)
    BY <1>1, <1>4, <2>1, <2>3, CommandFiles
  <2> QED
    BY <1>4, <2>2, <2>3
<1>5. ASSUME NEW op \in {"market add", "market remove", "plugin add", "plugin remove", "select"}, NEW src \in Source
      PROVE \E d \in Command : d.host = h /\ <<Cmd(op, h, src)>> = <<d>>
  BY <1>2, CommandTyped
<1>6. {"add", "drop", "plug", "verify", "unmarket", "gone"} \subseteq Steps
  BY DEF Steps
<1> HIDE DEF h, r
<1>7. CASE RemoveMarket(p)
  <2> DEFINE src == IF r.restart THEN Dir(r.old.version) ELSE r.inv[h].market
             u == <<Cmd("market add", h, src)>>
  <2>1. \E d \in Command : d.host = h /\ u = <<d>>
    BY <1>3, <1>5
  <2>2. \/ External(p, Cmd("market remove", h, NoSource), u, "add") \/ DiesRunning(p, Cmd("market remove", h, NoSource), u)
        \/ Go(p, "add") /\ UNCHANGED <<host, place, home, journals, used, ghosts>>
    BY <1>7 DEF RemoveMarket, h, r
  <2> HIDE DEF u
  <2> QED
    BY <1>2, <1>4, <1>6, <2>1, <2>2
<1>8. CASE AddMarket(p)
  <2> DEFINE src == IF r.local THEN Dir(r.ver) ELSE Tag(r.ver)
             u == <<Cmd("market remove", h, NoSource)>>
  <2>1. (\E d \in Command : d.host = h /\ u = <<d>>) /\ src \in Source
    BY <1>2, <1>3, <1>5
  <2>2. \/ External(p, Cmd("market add", h, src), u, "drop") \/ DiesRunning(p, Cmd("market add", h, src), u)
        \/ Go(p, "drop") /\ UNCHANGED <<host, place, home, journals, used, ghosts>>
    BY <1>8 DEF AddMarket, h, r
  <2> HIDE DEF u, src
  <2> QED
    BY <1>4, <1>6, <2>1, <2>2
<1>9. CASE DropDisabled(p)
  <2> DEFINE u == <<Cmd("plugin add", h, NoSource)>>
  <2>1. \E d \in Command : d.host = h /\ u = <<d>>
    BY <1>2, <1>5
  <2>2. \/ External(p, Cmd("plugin remove", h, NoSource), u, "plug") \/ DiesRunning(p, Cmd("plugin remove", h, NoSource), u)
        \/ Go(p, "plug") /\ UNCHANGED <<host, place, home, journals, used, ghosts>>
    BY <1>9 DEF DropDisabled, h, r
  <2> HIDE DEF u
  <2> QED
    BY <1>2, <1>4, <1>6, <2>1, <2>2
<1>10. CASE AddPlugin(p)
  <2> DEFINE w == <<Cmd("plugin remove", h, NoSource)>>
             u == IF Live(r, h) /\ h \notin DirHosts THEN <<>> ELSE w
  <2>1. u = <<>> \/ \E d \in Command : d.host = h /\ u = <<d>>
    BY <1>2, <1>5
  <2>2. \/ External(p, Cmd("plugin add", h, NoSource), u, "verify") \/ DiesRunning(p, Cmd("plugin add", h, NoSource), u)
        \/ Go(p, "verify") /\ UNCHANGED <<host, place, home, journals, used, ghosts>>
    BY <1>10 DEF AddPlugin, h, r
  <2> HIDE DEF u
  <2> QED
    BY <1>2, <1>4, <1>6, <2>1, <2>2
<1>11. CASE RemovePlugin(p)
  <2> DEFINE u == <<Cmd("plugin add", h, NoSource)>>
  <2>1. \E d \in Command : d.host = h /\ u = <<d>>
    BY <1>2, <1>5
  <2>2. \/ External(p, Cmd("plugin remove", h, NoSource), u, "unmarket") \/ DiesRunning(p, Cmd("plugin remove", h, NoSource), u)
        \/ Go(p, "unmarket") /\ UNCHANGED <<host, place, home, journals, used, ghosts>>
    BY <1>11 DEF RemovePlugin, h, r
  <2> HIDE DEF u
  <2> QED
    BY <1>2, <1>4, <1>6, <2>1, <2>2
<1>12. CASE RemoveOwnedMarket(p)
  <2> DEFINE u == <<Cmd("market add", h, Tag(r.old.version))>>
  <2>1. \E d \in Command : d.host = h /\ u = <<d>>
    BY <1>3, <1>5
  <2>2. \/ External(p, Cmd("market remove", h, NoSource), u, "gone") \/ DiesRunning(p, Cmd("market remove", h, NoSource), u)
        \/ Go(p, "gone") /\ UNCHANGED <<host, place, home, journals, used, ghosts>>
    BY <1>12 DEF RemoveOwnedMarket, h, r
  <2> HIDE DEF u
  <2> QED
    BY <1>2, <1>4, <1>6, <2>1, <2>2
<1> QED
  BY <1>7, <1>8, <1>9, <1>10, <1>11, <1>12

\* The stages that change no file of a host and none outside the home.
LEMMA CalmFiles ==
  ASSUME InstallAssumption, SettingsInv, FileInv, NEW p \in Proc,
         Confirm(p) \/ NextHost(p) \/ Verify(p) \/ VerifyGone(p) \/ SwitchCache(p)
  PROVE  FilesOK
<1>1. Going(p) /\ proc[p].stage # "commit" /\ UNCHANGED <<place, journals, ghosts>>
  BY DEF Confirm, NextHost, Verify, VerifyGone, SwitchCache, Going, Steps
<1>2. TypeOK /\ proc[p] \in Request /\ proc \in [Proc -> Request] /\ {"host", "files", "restore", "prepare", "forget", "settings", "remove"} \subseteq Steps
  BY <1>1, GoingFacts DEF TypeOK, Steps
<1>3. ASSUME NEW r \in Request, proc' = [proc EXCEPT ![p] = r], r.stage \in Steps, r.op = proc[p].op PROVE Turns(p, Now)
  BY <1>1, <1>2, <1>3 DEF Turns
<1>4. Abort(p) \/ Leave(p) \/ (\E s \in Steps : Go(p, s)) => Turns(p, Now)
  BY <1>1, <1>2, TurnsSo DEF Abort
<1>5. CASE Confirm(p)
  <2> DEFINE r == [proc[p] EXCEPT !.left = proc[p].hosts, !.stage = IF proc[p].op = "uninstall" THEN "host" ELSE "files"]
  <2>1. r \in Request /\ r.stage \in Steps /\ r.op = proc[p].op
    BY <1>2 DEF Request, Stage
  <2>2. Abort(p) \/ proc' = [proc EXCEPT ![p] = r]
    BY <1>5 DEF Confirm
  <2> HIDE DEF r
  <2>3. Turns(p, Now)
    BY <1>3, <1>4, <2>1, <2>2
  <2> QED
    BY <1>1, <1>5, <2>3, SameFiles DEF Confirm, ghosts
<1>6. CASE NextHost(p)
  <2>1. PICK h \in Host \union {Nobody}, left \in SUBSET Host, s \in {"restore", "prepare", "forget", "settings"} :
          proc' = [proc EXCEPT ![p] = [proc[p] EXCEPT !.cur = h, !.left = left, !.stage = s]]
    <3>1. proc[p].left \subseteq Host /\ proc[p].hosts \subseteq Host /\ proc[p].refresh \subseteq Host
      BY <1>2 DEF Request
    <3>2. CASE \E h \in proc[p].left :
             proc' = [proc EXCEPT ![p].cur = h, ![p].left = @ \ {h},
                        ![p].stage = IF proc[p].op = "uninstall" THEN "restore" ELSE "prepare"]
      <4>1. PICK h \in proc[p].left :
             proc' = [proc EXCEPT ![p].cur = h, ![p].left = @ \ {h},
                        ![p].stage = IF proc[p].op = "uninstall" THEN "restore" ELSE "prepare"]
        BY <3>2
      <4>2. h \in Host /\ proc[p].left \ {h} \in SUBSET Host
        BY <3>1
      <4>3. proc' = [proc EXCEPT ![p] = [proc[p] EXCEPT !.cur = h, !.left = proc[p].left \ {h},
                        !.stage = IF proc[p].op = "uninstall" THEN "restore" ELSE "prepare"]]
        BY <4>1
      <4> QED
        BY <4>2, <4>3
    <3>3. CASE proc' = [proc EXCEPT ![p].cur = Nobody,
                ![p].stage = IF proc[p].op = "uninstall" THEN "forget" ELSE "settings",
                ![p].left = IF proc[p].secure THEN proc[p].hosts ELSE proc[p].refresh]
      <4> DEFINE left == IF proc[p].secure THEN proc[p].hosts ELSE proc[p].refresh
                 s == IF proc[p].op = "uninstall" THEN "forget" ELSE "settings"
      <4>1. proc' = [proc EXCEPT ![p] = [proc[p] EXCEPT !.cur = Nobody, !.stage = s, !.left = left]]
        BY <3>3
      <4>2. left \in SUBSET Host /\ s \in {"restore", "prepare", "forget", "settings"} /\ Nobody \in Host \union {Nobody}
        BY <3>1
      <4> HIDE DEF left, s
      <4>3. [proc[p] EXCEPT !.cur = Nobody, !.stage = s, !.left = left] = [proc[p] EXCEPT !.cur = Nobody, !.left = left, !.stage = s]
        BY <1>2 DEF Request
      <4> QED
        BY <4>1, <4>2, <4>3
    <3> QED
      BY <1>6, <3>2, <3>3 DEF NextHost
  <2>2. [proc[p] EXCEPT !.cur = h, !.left = left, !.stage = s] \in Request
        /\ [proc[p] EXCEPT !.cur = h, !.left = left, !.stage = s].stage = s
        /\ [proc[p] EXCEPT !.cur = h, !.left = left, !.stage = s].op = proc[p].op
    BY <1>2 DEF Request, Stage
  <2>3. Turns(p, Now)
    BY <1>2, <1>3, <2>1, <2>2
  <2> QED
    BY <1>1, <1>6, <2>3, SameFiles DEF NextHost, ghosts
<1>7. CASE Verify(p)
  <2>1. proc[p].cur \in Host
    BY <1>7, AtHost DEF Verify, InHost, Installing
  <2> DEFINE m == Inv(proc[p].cur, host[proc[p].cur]).market
             r == [proc[p] EXCEPT !.stage = "host", !.src = [proc[p].src EXCEPT ![proc[p].cur] = m]]
  <2>2. m \in Source
    BY <1>2, <2>1 DEF Inv, TypeOK, HostState, File
  <2> HIDE DEF m
  <2>3. r \in Request /\ r.stage \in Steps /\ r.op = proc[p].op
    BY <1>2, <2>2 DEF Request, Stage
  <2>4. Abort(p) \/ proc' = [proc EXCEPT ![p] = r]
    BY <1>2, <1>7 DEF Verify, m, Request
  <2> HIDE DEF r
  <2>5. Turns(p, Now)
    BY <1>3, <1>4, <2>3, <2>4
  <2> QED
    BY <1>1, <1>7, <2>5, SameFiles DEF Verify, ghosts
<1>8. CASE VerifyGone(p)
  <2>1. Abort(p) \/ Go(p, "host")
    BY <1>8 DEF VerifyGone
  <2> QED
    BY <1>1, <1>2, <1>4, <1>8, <2>1, SameFiles DEF VerifyGone, ghosts
<1>9. CASE SwitchCache(p)
  <2>1. proc[p].stage \in InHost \ {"restore"} /\ (Abort(p) \/ Leave(p) \/ Go(p, "remove"))
    BY <1>9 DEF SwitchCache, InHost, Installing
  <2>2. proc[p].cur \in Host /\ Now.conf[proc[p].cur].on # "no"
    BY <2>1, CurrentKept
  <2>3. \A h \in Host : host'[h].file = host[h].file \/ Now.conf[h].on # "no"
    <3>1. host' = host \/ \E s : host' = [host EXCEPT ![proc[p].cur] = s]
      BY <1>9 DEF SwitchCache
    <3> QED
      BY <1>2, <2>2, <3>1 DEF TypeOK
  <2> QED
    BY <1>1, <1>2, <1>4, <2>1, <2>3, SameFiles DEF ghosts
<1> QED
  BY <1>5, <1>6, <1>7, <1>8, <1>9

LEMMA PutText ==
  ASSUME NEW j \in Journal, NEW x \in Place, NEW t \in Text
  PROVE  /\ Put(j, x, t).text[x].on /\ Put(j, x, t).text[x].before = IF j.text[x].on THEN j.text[x].before ELSE place[x]
         /\ \A y \in Place \ {x} : Put(j, x, t).text[y] = j.text[y]
<1> DEFINE e == [on |-> TRUE, signed |-> t, before |-> IF j.text[x].on THEN j.text[x].before ELSE place[x]]
<1>1. e.on /\ e.before = IF j.text[x].on THEN j.text[x].before ELSE place[x]
  OBVIOUS
<1>2. Put(j, x, t) = [j EXCEPT !.text = [j.text EXCEPT ![x] = e]]
  BY DEF Put, Journal
<1> HIDE DEF e
<1>3. Put(j, x, t).text = [j.text EXCEPT ![x] = e] /\ j.text \in [Place -> KeptText]
  BY <1>2 DEF Journal
<1> QED
  BY <1>1, <1>3

\* A file outside the home is written, once what it was is kept.
LEMMA PlaceWritten ==
  ASSUME InstallAssumption, SettingsInv, FileInv, NEW p \in Proc, Going(p), proc[p].op # "uninstall", NEW x \in Place,
         Save(Put(Now, x, "text")), place' = [place EXCEPT ![x] = "text"], UNCHANGED <<host, ghosts>>,
         NEW s \in Steps, Go(p, s)
  PROVE  FilesOK
<1>1. TypeOK /\ Now \in Journal /\ Last \in DOMAIN journals /\ Now = journals[Last] /\ place \in [Place -> Text]
  BY GoingFacts DEF TypeOK, Now
<1>2. Covered(Now) /\ NoneBack(Now)
  BY <1>1 DEF FileInv, Holding, Going
<1>3. PICK j : j = Put(Now, x, "text")
  OBVIOUS
<1>4. "text" \in Text
  BY DEF Text
<1>5. j \in Journal /\ j.status = Now.status /\ j.home = Now.home /\ j.conf = Now.conf /\ j.undo = Now.undo
  BY <1>1, <1>3, <1>4, PutDoes
<1>6. /\ j.text[x].on /\ j.text[x].before = IF Now.text[x].on THEN Now.text[x].before ELSE place[x]
      /\ \A y \in Place \ {x} : j.text[y] = Now.text[y] /\ place'[y] = place[y]
  BY <1>1, <1>3, <1>4, PutText
<1>7. \A y \in Place : KeepsPlace(Now.text[y], j.text[y], place[y], place'[y])
  BY <1>6 DEF KeepsPlace
<1>8. FileWork(j) /\ Covered(j)
  BY <1>2, <1>5, <1>7 DEF FileWork, KeepsFile, NoneBack, Covered
<1>9. Turns(p, j)
  BY <1>1, TurnsSo
<1> QED
  BY <1>3, <1>5, <1>8, <1>9, FileWorks DEF ghosts

LEMMA PlaceStagesFiles ==
  ASSUME InstallAssumption, SettingsInv, FileInv, NEW p \in Proc, WriteFiles(p) \/ RecordInstall(p)
  PROVE  FilesOK
<1>1. proc[p].stage \in {"files", "record"} /\ Going(p) /\ proc[p].stage # "commit"
  BY DEF WriteFiles, RecordInstall, Going, Steps
<1>2. proc[p].op # "uninstall" /\ Launcher \in Place /\ Pointer \in Place /\ "track" \in Steps /\ "commit" \in Steps
  BY <1>1, GoingFacts DEF Standing, Tracking, Installing, InstallAssumption, Steps
<1>3. CASE WriteFiles(p)
  <2>1. CASE ~MayWriteLauncher(p)
    BY <1>1, <1>3, <2>1, Quietly DEF WriteFiles
  <2>2. CASE MayWriteLauncher(p)
    BY <1>1, <1>2, <1>3, <2>2, PlaceWritten DEF WriteFiles
  <2> QED
    BY <2>1, <2>2
<1>4. CASE RecordInstall(p)
  <2>1. CASE proc[p].ptr.write
    BY <1>1, <1>2, <1>4, <2>1, PlaceWritten DEF RecordInstall
  <2>2. CASE ~proc[p].ptr.write
    BY <1>1, <1>2, <1>4, <2>2, Quietly DEF RecordInstall
  <2> QED
    BY <2>1, <2>2
<1> QED
  BY <1>3, <1>4

LEMMA TrackHostsFiles ==
  ASSUME InstallAssumption, SettingsInv, FileInv, NEW p \in Proc, TrackHosts(p) PROVE FilesOK
<1> DEFINE r == proc[p]
<1>1. Going(p) /\ r.stage = "track"
  BY DEF TrackHosts, Going, Steps
<1>2. /\ TypeInv /\ TypeOK /\ Last \in DOMAIN journals /\ Now \in Journal /\ Now = journals[Last]
      /\ r \in Request /\ Standing(r, Now) /\ Knows(r)
  BY <1>1, GoingFacts DEF Now
<1>3. /\ r.refresh \subseteq r.hosts /\ r.op # "uninstall" /\ r.old \in Home /\ "host" \in Steps
      /\ \A h \in Host : Now.conf[h].on = "no"
  BY <1>1, <1>2 DEF Standing, Request, Tracking, Steps, Knows, Tracked
<1>4. Covered(Now) /\ NoneBack(Now) /\ \A h \in Host : r.old.rec[h] \in Record
  BY <1>1, <1>2, <1>3 DEF FileInv, Holding, Going, Home
<1> DEFINE after == [h \in Host |-> IF h \in r.refresh THEN Restored(r.old.rec[h], host[h]) ELSE host[h]]
           conf == [h \in Host |-> IF h \in r.hosts THEN Signed(Track(Now, h, host[h]), h, after[h]).conf[h] ELSE Now.conf[h]]
           j == [Now EXCEPT !.conf = conf]
<1>5. host' = after /\ Save(j) /\ Go(p, "host") /\ UNCHANGED <<place, used, ghosts>>
  BY DEF TrackHosts
<1>6. ASSUME NEW h \in Host PROVE after[h] \in HostState
  BY <1>2, <1>4, RestoredTyped DEF TypeOK
<1>7. \A h \in Host : h \notin r.refresh => after[h] = host[h]
  OBVIOUS
<1> HIDE DEF after
<1>8. ASSUME NEW h \in Host
      PROVE  /\ conf[h] \in Kept
             /\ h \notin r.hosts => conf[h] = Now.conf[h]
             /\ h \in r.hosts => conf[h].on = "file" /\ conf[h].before = host[h] /\ ~conf[h].back
  <2>1. host[h] \in HostState /\ after[h] \in HostState /\ Now.conf[h] \in Kept
    BY <1>2, <1>6 DEF TypeOK, Journal
  <2> QED
    BY <1>2, <2>1, TrackedBack
<1>9. conf \in [Host -> Kept]
  BY <1>8
<1> HIDE DEF conf
<1>10. /\ j \in Journal /\ j.status = Now.status /\ j.home = Now.home /\ j.undo = Now.undo /\ j.text = Now.text
       /\ j.conf = conf
  BY <1>2, <1>9 DEF Journal
<1> HIDE DEF j
<1>11. FileWork(j)
  <2>1. \A h \in Host : KeepsFile(Now.conf[h], j.conf[h], host[h].file, host'[h].file)
    BY <1>3, <1>5, <1>7, <1>8, <1>10 DEF KeepsFile
  <2> QED
    BY <1>5, <1>10, <2>1 DEF FileWork, KeepsPlace
<1>12. Covered(j)
  <2>1. \A h \in Host : Now.conf[h].on # "no" => j.conf[h].on # "no"
    BY <1>3
  <2> QED
    BY <1>2, <1>4, <1>10, <2>1, SameCovered
<1>13. Turns(p, j)
  BY <1>2, <1>3, <1>5, TurnsSo
<1> QED
  BY <1>1, <1>5, <1>10, <1>11, <1>12, <1>13, FileWorks DEF ghosts

LEMMA RestoreSettingsFiles ==
  ASSUME InstallAssumption, SettingsInv, FileInv, NEW p \in Proc, RestoreSettings(p) PROVE FilesOK
<1> DEFINE r == proc[p]  h == r.cur  s == GiveBack(home.rec[h], host[h])
<1>1. Going(p) /\ r.stage = "restore" /\ r.stage \in InHost
  BY DEF RestoreSettings, Going, Steps, InHost, Uninstalling
<1>2. /\ TypeOK /\ Last \in DOMAIN journals /\ Now \in Journal /\ Now = journals[Last] /\ Knows(r) /\ h \in Host
      /\ home \in Home /\ host \in [Host -> HostState] /\ "unplug" \in Steps
  BY <1>1, GoingFacts, AtHost DEF Now, TypeOK, Steps
<1>3. Now.conf[h].on = "no" /\ Covered(Now) /\ NoneBack(Now)
  BY <1>1, <1>2 DEF Knows, Tracked, FileInv, Holding, Going
<1>4. s \in HostState
  BY <1>2, RestoredTyped DEF GiveBack, Home
<1> HIDE DEF s
<1>5. /\ host' = [host EXCEPT ![h] = s]
      /\ Save(Signed(Track(Now, h, host[h]), h, host'[h])) /\ Go(p, "unplug") /\ UNCHANGED <<place, home, ghosts>>
  BY DEF RestoreSettings, s
<1>6. host'[h] = s /\ \A g \in Host \ {h} : host'[g] = host[g]
  BY <1>2, <1>5
<1> DEFINE j == Signed(Track(Now, h, host[h]), h, s)
<1>7. /\ j \in Journal /\ j.status = Now.status /\ j.home = Now.home /\ j.undo = Now.undo
      /\ j.conf[h].on = "file" /\ j.conf[h].before = host[h] /\ ~j.conf[h].back
      /\ \A g \in Host \ {h} : j.conf[g] = Now.conf[g]
  <2>1. TypeOK /\ Now \in Journal /\ h \in Host /\ host[h] \in HostState /\ s \in HostState
    BY <1>2, <1>4
  <2> HIDE DEF h
  <2> QED
    BY <2>1, TrackedBack
<1>8. j.text = Now.text
  <2> DEFINE t == Track(Now, h, host[h])
  <2>1. t.text = Now.text
    BY <1>2 DEF Track, Journal
  <2>2. j = t \/ \E conf : j = [t EXCEPT !.conf = conf]
    BY DEF Signed
  <2>3. \A conf : [t EXCEPT !.conf = conf].text = t.text
    BY <1>2 DEF Track, Journal
  <2> HIDE DEF t, j
  <2> QED
    BY <2>1, <2>2, <2>3
<1> HIDE DEF j
<1>9. FileWork(j)
  <2>1. \A g \in Host : KeepsFile(Now.conf[g], j.conf[g], host[g].file, host'[g].file)
    BY <1>3, <1>6, <1>7 DEF KeepsFile, NoneBack
  <2> QED
    BY <1>5, <1>7, <1>8, <2>1 DEF FileWork, KeepsPlace
<1>10. Covered(j)
  <2>1. \A g \in Host : Now.conf[g].on # "no" => j.conf[g].on # "no"
    BY <1>3, <1>7
  <2> QED
    BY <1>2, <1>3, <1>7, <2>1, SameCovered
<1>11. Turns(p, j)
  BY <1>1, <1>2, <1>5, <1>8, TurnsSo
<1> QED
  BY <1>1, <1>5, <1>6, <1>7, <1>9, <1>10, <1>11, FileWorks DEF ghosts, j

LEMMA PrepareFiles ==
  ASSUME InstallAssumption, SettingsInv, FileInv, NEW p \in Proc, Prepare(p) PROVE FilesOK
<1> DEFINE r == proc[p]  h == r.cur
<1>1. Going(p) /\ r.stage = "prepare" /\ r.stage \in InHost \ {"restore"} /\ UNCHANGED <<host, place, home, used, ghosts>>
  BY DEF Prepare, Going, Steps, InHost, Installing
<1>2. /\ TypeOK /\ Last \in DOMAIN journals /\ Now \in Journal /\ Now = journals[Last] /\ h \in Host /\ r \in Request
      /\ Now.conf[h].on # "no" /\ host \in [Host -> HostState] /\ {"select", "remove"} \subseteq Steps
  BY <1>1, GoingFacts, CurrentKept DEF Now, TypeOK, Steps
<1>3. Covered(Now) /\ NoneBack(Now)
  BY <1>1, <1>2 DEF FileInv, Holding, Going
<1>4. ASSUME NEW j \in Journal, Save(j), j.status = Now.status, j.home = Now.home, j.text = Now.text, Covered(j),
             \E s \in {"select", "remove"} : Go(p, s),
             \A g \in Host : KeepsFile(Now.conf[g], j.conf[g], host[g].file, host[g].file)
      PROVE  FilesOK
  <2>1. FileWork(j) /\ Turns(p, j)
    BY <1>1, <1>2, <1>4, TurnsSo DEF FileWork, KeepsPlace
  <2> QED
    BY <1>1, <1>4, <2>1, FileWorks DEF ghosts
<1>5. \A g \in Host : KeepsFile(Now.conf[g], Now.conf[g], host[g].file, host[g].file)
  BY <1>3 DEF KeepsFile, NoneBack
<1>6. ASSUME NEW c \in Command, c.host = h, Save(Queue(Now, c)), \E s \in {"select", "remove"} : Go(p, s) PROVE FilesOK
  <2>1. /\ Queue(Now, c) \in Journal /\ Queue(Now, c).status = Now.status /\ Queue(Now, c).home = Now.home
        /\ Queue(Now, c).text = Now.text /\ Covered(Queue(Now, c)) /\ Queue(Now, c).conf = Now.conf
    BY <1>2, <1>3, <1>6, QueueDoes, QueueCovers
  <2> QED
    BY <1>4, <1>5, <1>6, <2>1
<1>7. ASSUME NEW c \in Command, c.host = h, Save(Queue(TrackAll(Now, h), c)), Go(p, "remove") PROVE FilesOK
  <2> DEFINE k == [NoKept EXCEPT !.on = "all", !.signed = [host[h] EXCEPT !.file = Now.conf[h].signed.file],
                           !.before = [host[h] EXCEPT !.file = Now.conf[h].before.file]]
             t == TrackAll(Now, h)
  <2>1. Now.conf[h].before.file \in File /\ Now.conf[h].signed.file \in File /\ host[h] \in HostState
    BY <1>2 DEF Journal, Kept, HostState
  <2>a. [host[h] EXCEPT !.file = Now.conf[h].signed.file] \in HostState
    BY <2>1 DEF HostState
  <2>2. [host[h] EXCEPT !.file = Now.conf[h].before.file] \in HostState
        /\ [host[h] EXCEPT !.file = Now.conf[h].before.file].file = Now.conf[h].before.file
    BY <2>1 DEF HostState
  <2>3. k \in Kept /\ k.on = "all" /\ k.before.file = Now.conf[h].before.file /\ ~k.back
    BY <2>1, <2>2, <2>a, FreshTyped DEF NoKept, Kept
  <2>4. t = [Now EXCEPT !.conf[h] = k]
    BY DEF TrackAll
  <2> HIDE DEF k, t
  <2>5. /\ t \in Journal /\ t.status = Now.status /\ t.home = Now.home /\ t.text = Now.text /\ t.undo = Now.undo
        /\ t.conf[h] = k /\ \A g \in Host \ {h} : t.conf[g] = Now.conf[g]
    BY <1>2, <2>3, <2>4 DEF Journal
  <2>6. Covered(t)
    <3>1. \A g \in Host : Now.conf[g].on # "no" => t.conf[g].on # "no"
      BY <2>3, <2>5
    <3> QED
      BY <1>2, <1>3, <2>5, <3>1, SameCovered
  <2>7. /\ Queue(t, c) \in Journal /\ Queue(t, c).status = Now.status /\ Queue(t, c).home = Now.home
        /\ Queue(t, c).text = Now.text /\ Covered(Queue(t, c)) /\ Queue(t, c).conf = t.conf
    BY <1>7, <2>3, <2>5, <2>6, QueueDoes, QueueCovers
  <2>8. \A g \in Host : KeepsFile(Now.conf[g], t.conf[g], host[g].file, host[g].file)
    BY <1>2, <1>5, <2>3, <2>5 DEF KeepsFile
  <2> QED
    BY <1>4, <1>7, <2>7, <2>8 DEF t
<1>8. Cmd("plugin add", h, NoSource) \in Command /\ Cmd("plugin add", h, NoSource).host = h
      /\ Cmd("select", h, [from |-> "cache", ver |-> r.old.path[h]]) \in Command
      /\ Cmd("select", h, [from |-> "cache", ver |-> r.old.path[h]]).host = h
  <2>1. NoSource \in Source /\ [from |-> "cache", ver |-> r.old.path[h]] \in Source
    BY <1>2, Bounds DEF Request, Home, Source
  <2> QED
    BY <1>2, <2>1, CommandTyped
<1>9. r.stage # "commit"
  BY <1>1
<1> DEFINE live == Live(r, h)
           go == Go(p, IF live /\ ~r.restart /\ h \in DirHosts THEN "select" ELSE "remove")
<1>10. \/ Abort(p) /\ UNCHANGED journals
       \/ live /\ r.restart /\ go /\ Save(Queue(TrackAll(Now, h), Cmd("plugin add", h, NoSource)))
       \/ live /\ ~r.restart /\ h \in DirHosts /\ go
            /\ Save(Queue(Now, Cmd("select", h, [from |-> "cache", ver |-> r.old.path[h]])))
       \/ live /\ ~r.restart /\ h \notin DirHosts /\ go /\ Save(Queue(Now, Cmd("plugin add", h, NoSource)))
       \/ ~live /\ go /\ UNCHANGED journals
  BY DEF Prepare
<1> HIDE DEF live, h, r
<1>11. (\E s \in {"select", "remove"} : go => Go(p, s)) /\ (live /\ r.restart /\ go => Go(p, "remove"))
  OBVIOUS
<1> HIDE DEF go
<1>12. CASE (Abort(p) \/ (~live /\ go)) /\ UNCHANGED journals
  <2>1. proc[p].stage # "commit" /\ (Abort(p) \/ \E s \in Steps : Go(p, s))
    BY <1>2, <1>9, <1>11, <1>12 DEF r
  <2> QED
    BY <1>1, <1>12, <2>1, Quietly
<1> QED
  BY <1>6, <1>7, <1>8, <1>10, <1>11, <1>12

LEMMA ApplySettingsFiles ==
  ASSUME InstallAssumption, SettingsInv, FileInv, NEW p \in Proc, ApplySettings(p) PROVE FilesOK
<1> DEFINE r == proc[p]
<1>1. Going(p) /\ r.stage = "settings" /\ r.stage # "commit" /\ "record" \in Steps /\ UNCHANGED <<place, ghosts>>
  BY DEF ApplySettings, Going, Steps, ghosts
<1>2. /\ TypeOK /\ Last \in DOMAIN journals /\ Now \in Journal /\ Now = journals[Last] /\ Knows(r)
      /\ r \in Request /\ Standing(r, Now) /\ host \in [Host -> HostState] /\ proc \in [Proc -> Request]
  BY <1>1, GoingFacts DEF Now, TypeOK
<1>3. r.op # "uninstall" /\ r.left \subseteq r.hosts /\ r.hosts \subseteq Host /\ Covered(Now) /\ NoneBack(Now)
  BY <1>1, <1>2 DEF Standing, Request, Installing, FileInv, Holding, Going
<1>4. ASSUME NEW h \in r.left, proc' = [proc EXCEPT ![p].left = @ \ {h}], NEW j PROVE Turns(p, j)
  <2> DEFINE q == [r EXCEPT !.left = @ \ {h}]
  <2>1. q.stage \in Steps /\ q.op = r.op /\ proc' = [proc EXCEPT ![p] = q]
    BY <1>1, <1>2, <1>4 DEF Request, Going
  <2> HIDE DEF q
  <2> QED
    BY <1>2, <1>3, <2>1 DEF Turns
<1>5. CASE r.left = {} /\ Go(p, "record") /\ UNCHANGED <<host, home, journals>>
  BY <1>1, <1>5, Quietly
<1>6. ASSUME NEW h \in r.left, home.rec[h].on, UNCHANGED <<host, home, journals>>,
             Abort(p) \/ proc' = [proc EXCEPT ![p].left = @ \ {h}]
      PROVE FilesOK
  <2>1. CASE Abort(p)
    BY <1>1, <1>6, <2>1, Quietly
  <2>2. CASE proc' = [proc EXCEPT ![p].left = @ \ {h}]
    BY <1>1, <1>4, <1>6, <2>2, SameFiles DEF ghosts
  <2> QED
    BY <1>6, <2>1, <2>2
<1>7. ASSUME NEW h \in r.left, NEW s, s = [host[h] EXCEPT !.file = Baseline(@)], host' = [host EXCEPT ![h] = s],
             Save(Signed(Now, h, s)), proc' = [proc EXCEPT ![p].left = @ \ {h}]
      PROVE FilesOK
  <2>1. h \in Host /\ Now.conf[h].on # "no" /\ Now.conf[h] \in Kept
    <3>1. h \in Host /\ h \in r.hosts /\ Tracked(r, h)
      BY <1>2, <1>3 DEF Knows
    <3> QED
      BY <1>1, <1>2, <1>3, <3>1 DEF Tracked, Installing, Journal
  <2>2. host[h] \in HostState /\ Baseline(host[h].file) \in File
    BY <1>2, <2>1 DEF HostState, File, Baseline
  <2>3. s \in HostState
    BY <1>7, <2>2 DEF HostState
  <2> DEFINE k == [Now.conf[h] EXCEPT !.signed = s]  j == Signed(Now, h, s)
  <2>4. k \in Kept /\ k.on = Now.conf[h].on /\ k.before = Now.conf[h].before /\ k.back = Now.conf[h].back
    BY <2>1, <2>3 DEF Kept
  <2>5. j = [Now EXCEPT !.conf = [Now.conf EXCEPT ![h] = k]]
    BY <2>1 DEF Signed
  <2> HIDE DEF k, j
  <2>6. /\ j \in Journal /\ j.status = Now.status /\ j.home = Now.home /\ j.undo = Now.undo /\ j.text = Now.text
        /\ j.conf[h] = k /\ \A g \in Host \ {h} : j.conf[g] = Now.conf[g]
    BY <1>2, <2>1, <2>4, <2>5 DEF Journal
  <2>7. \A g \in Host \ {h} : host'[g] = host[g]
    BY <1>2, <1>7, <2>1
  <2>8. \A g \in Host : KeepsFile(Now.conf[g], j.conf[g], host[g].file, host'[g].file)
    BY <1>3, <2>1, <2>4, <2>6, <2>7 DEF KeepsFile, NoneBack
  <2>9. FileWork(j)
    BY <1>1, <2>6, <2>8 DEF FileWork, KeepsPlace
  <2>10. Covered(j)
    <3>1. \A g \in Host : Now.conf[g].on # "no" => j.conf[g].on # "no"
      BY <2>4, <2>6
    <3> QED
      BY <1>2, <1>3, <2>6, <3>1, SameCovered
  <2>11. Turns(p, j)
    BY <1>4, <1>7
  <2> QED
    BY <1>1, <1>7, <2>6, <2>9, <2>10, <2>11, FileWorks DEF ghosts, j
<1>8. ASSUME NEW h \in r.left, ~home.rec[h].on,
             LET after == [host EXCEPT ![h].file = Baseline(@)]
             IN host' = after /\ Save(Signed(Now, h, after[h])) /\ proc' = [proc EXCEPT ![p].left = @ \ {h}]
      PROVE FilesOK
  <2>1. PICK s : s = [host[h] EXCEPT !.file = Baseline(@)]
    OBVIOUS
  <2>2. host' = [host EXCEPT ![h] = s] /\ h \in Host
    BY <1>2, <1>3, <1>8, <2>1
  <2>3. [host EXCEPT ![h].file = Baseline(@)][h] = s
    BY <1>2, <2>1, <2>2
  <2> QED
    BY <1>7, <1>8, <2>1, <2>2, <2>3
<1> QED
  BY <1>5, <1>6, <1>8 DEF ApplySettings

LEMMA ForgetFiles ==
  ASSUME InstallAssumption, SettingsInv, FileInv, NEW p \in Proc, Forget(p) PROVE FilesOK
<1> DEFINE clear == {Launcher} \union (IF home.ptr THEN {Pointer} ELSE {})
           text == [x \in Place |-> IF x \in clear /\ place[x] # "absent"
                      THEN [on |-> TRUE, before |-> place[x], signed |-> "absent"] ELSE Now.text[x]]
           j == [Now EXCEPT !.text = text]
<1>1. Going(p) /\ proc[p].stage = "forget" /\ "commit" \in Steps /\ Go(p, "commit") /\ UNCHANGED <<host, ghosts>>
  BY DEF Forget, Going, Steps
<1>2. /\ TypeOK /\ Last \in DOMAIN journals /\ Now \in Journal /\ Now = journals[Last] /\ Standing(proc[p], Now)
  BY <1>1, GoingFacts DEF Now
<1>3. Covered(Now) /\ NoneBack(Now) /\ proc[p].op = "uninstall" /\ \A x \in Place : ~Now.text[x].on
  BY <1>1, <1>2 DEF FileInv, Holding, Going, Standing
<1>4. CASE UNCHANGED <<place, journals>>
  BY <1>1, <1>4, Quietly
<1>5. CASE Save(j) /\ place' = [x \in Place |-> IF x \in clear THEN "absent" ELSE place[x]]
  <2>1. text \in [Place -> KeptText]
    BY <1>2 DEF TypeOK, Journal, KeptText, Text
  <2>2. ASSUME NEW x \in Place PROVE KeepsPlace(Now.text[x], text[x], place[x], place'[x])
    BY <1>3, <1>5 DEF KeepsPlace
  <2> HIDE DEF text, clear
  <2>3. /\ j \in Journal /\ j.status = Now.status /\ j.home = Now.home /\ j.undo = Now.undo /\ j.text = text
        /\ j.conf = Now.conf
    BY <1>2, <2>1 DEF Journal
  <2> HIDE DEF j
  <2>4. FileWork(j) /\ Covered(j)
    BY <1>1, <1>3, <2>2, <2>3 DEF FileWork, KeepsFile, NoneBack, Covered
  <2>5. Turns(p, j)
    BY <1>1, <1>2, TurnsSo
  <2> QED
    BY <1>1, <1>5, <2>3, <2>4, <2>5, FileWorks DEF ghosts
<1> QED
  BY <1>4, <1>5 DEF Forget

\* Nothing is left to do for one that stops, in its work or while it undoes it.
LEMMA EndsFiles ==
  ASSUME InstallAssumption, SettingsInv, FileInv, NEW p \in Proc, Fail(p) \/ Crash(p) PROVE FilesOK
<1>1. UNCHANGED <<host, place, home, journals, ghosts>> /\ (Leave(p) \/ (Abort(p) /\ Going(p)))
  BY DEF Fail, Crash, Going
<1>2. CASE Going(p)
  <2>1. Turns(p, Now)
    BY <1>1, <1>2, GoingFacts, TurnsSo DEF Abort
  <2> QED
    BY <1>1, <1>2, <2>1, SameFiles DEF ghosts
<1>3. CASE ~Going(p)
  <2>1. Running(p) /\ Leave(p) /\ TypeInv
    BY <1>1, <1>3 DEF Fail, Crash, Going, SettingsInv
  <2>2. TypeOK /\ Last \in DOMAIN journals /\ Now.status = "active" /\ Now = journals[Last]
    BY <2>1, RunFacts DEF Now
  <2>3. proc'[p] = Idle /\ (\A q \in Proc \ {p} : proc'[q] = proc[q]) /\ Idle.stage = "idle"
    BY <2>1, <2>2 DEF Leave, TypeOK, Idle
  <2>4. Covered(Now) /\ Here' = Here /\ (Last \notin edited => Returns(Now, begin[Last], Here))
    BY <1>1, <2>2 DEF FileInv, Here, Unfinished
  <2>5. Holding(proc'[p], Now)
    BY <2>3 DEF Holding, Steps
  <2> QED
    BY <1>1, <2>1, <2>2, <2>3, <2>4, <2>5, FileSteps DEF ghosts
<1> QED
  BY <1>2, <1>3

LEMMA CommitFiles ==
  ASSUME InstallAssumption, SettingsInv, FileInv, NEW p \in Proc, Commit(p) PROVE FilesOK
<1>1. Going(p) /\ proc[p].stage = "commit" /\ Leave(p) /\ UNCHANGED <<host, place, home, used, ghosts>>
  BY DEF Commit, Going, Steps
<1>2. /\ TypeInv /\ TypeOK /\ Last \in DOMAIN journals /\ Now \in Journal /\ Now = journals[Last] /\ Now.status = "active"
      /\ Running(p)
  BY <1>1, GoingFacts DEF Now
<1>3. PICK j : j = [Now EXCEPT !.status = "committed"]
  OBVIOUS
<1>4. Save(j) /\ j.status = "committed" /\ j.home = Now.home /\ j.conf = Now.conf /\ j.text = Now.text /\ j.undo = Now.undo
  BY <1>2, <1>3 DEF Commit, Journal
<1>5. Covered(Now) /\ NoneBack(Now) /\ (Last \notin edited => Restores(Now, begin[Last], Here)) /\ Here' = Here
  BY <1>1, <1>2 DEF FileInv, Holding, Going, Returns, Unfinished, Here
<1>6. Covered(j) /\ NoneBack(j) /\ (Last \notin edited => Restores(j, begin[Last], Here'))
  BY <1>4, <1>5 DEF Covered, NoneBack, Restores
<1>7. proc'[p] = Idle /\ (\A q \in Proc \ {p} : proc'[q] = proc[q]) /\ Idle.stage = "idle"
  BY <1>1, <1>2 DEF Leave, TypeOK, Idle
<1>8. Holding(proc'[p], j)
  BY <1>7 DEF Holding, Steps
<1> QED
  BY <1>1, <1>2, <1>4, <1>6, <1>7, <1>8, FileSteps DEF ghosts, Unfinished

\* One command is undone; what was put back before is no longer marked.
LEMMA UndoNextFiles ==
  ASSUME InstallAssumption, SettingsInv, FileInv, NEW p \in Proc, UndoNext(p) PROVE FilesOK
<1> DEFINE r == proc[p]  k == r.k  u == Now.undo[k]  c == u.cmd  b == begin[Last]
<1>1. Running(p) /\ r.stage = "undo" /\ k > 0 /\ UNCHANGED <<place, home, ghosts>>
  BY DEF UndoNext, Running
<1>2. /\ TypeInv /\ TypeOK /\ Now \in Journal /\ r \in Request /\ Standing(r, Now) /\ Last \in DOMAIN journals
      /\ Now.status = "active" /\ Now = journals[Last] /\ host \in [Host -> HostState] /\ proc \in [Proc -> Request]
  BY <1>1, RunFacts DEF SettingsInv, Now, TypeOK
<1>3. k \in DOMAIN Now.undo /\ k \in Nat /\ u \in Undo /\ c \in Command /\ c.host \in Host /\ Now.undo \in Seq(Undo)
  <2>1. Now.undo \in Seq(Undo) /\ k \in Nat /\ k <= Len(Now.undo)
    BY <1>1, <1>2 DEF Standing, Journal, Request
  <2> HIDE DEF k
  <2>2. k \in 1..Len(Now.undo)
    BY <1>1, <2>1 DEF k
  <2>3. u \in Undo /\ k \in DOMAIN Now.undo
    BY <2>1, <2>2
  <2>4. c \in Command
    BY <2>3 DEF Undo
  <2> HIDE DEF u, c
  <2>5. c.host \in Host
    BY <2>4 DEF Command
  <2> QED
    BY <2>1, <2>3, <2>4, <2>5
<1>4. /\ Covered(Now) /\ Now.conf[c.host].on # "no" /\ Holding(r, Now)
      /\ Last \notin edited => Returns(Now, b, Here)
  BY <1>2, <1>3 DEF FileInv, Covered, Unfinished
<1> HIDE DEF b
\* The next command, in a journal that is the same but for the state of this one.
<1>5. ASSUME NEW j, Save(j) \/ (j = Now /\ UNCHANGED journals), j.status = "active", Covered(j),
             Last \notin edited => Returns(j, b, Here'), Holding(proc'[p], j),
             \A q \in Proc \ {p} : proc'[q] = proc[q]
      PROVE FilesOK
  <2>1. UNCHANGED <<begin, edited>> /\ j.status \notin {"committed", "rolled_back"}
    BY <1>1, <1>5 DEF ghosts
  <2> QED
    BY <1>1, <1>2, <1>5, <2>1, FileSteps DEF b
<1>6. ASSUME NEW l \in Nat, NEW bad \in BOOLEAN, proc' = [proc EXCEPT ![p].k = l, ![p].bad = bad]
      PROVE  /\ proc'[p].stage = "undo" /\ proc'[p].k = l /\ proc'[p].bad = bad
             /\ \A q \in Proc \ {p} : proc'[q] = proc[q]
  BY <1>1, <1>2, <1>6 DEF Request
<1>7. r.bad \in BOOLEAN /\ k - 1 \in Nat
  BY <1>1, <1>2, <1>3 DEF Request
<1>8. CASE /\ u.state = "done" \/ u.state = "running"
           /\ proc' = [proc EXCEPT ![p].k = @ - 1, ![p].bad = @ \/ u.state = "running"]
           /\ Unspent /\ UNCHANGED <<host, journals>>
  <2>1. PICK bad \in BOOLEAN : bad = (r.bad \/ u.state = "running")
    BY <1>7
  <2>2. proc' = [proc EXCEPT ![p].k = k - 1, ![p].bad = bad]
    BY <1>8, <2>1
  <2>3. /\ proc'[p].stage = "undo" /\ proc'[p].k = k - 1 /\ proc'[p].bad = bad
        /\ \A q \in Proc \ {p} : proc'[q] = proc[q]
    BY <1>6, <1>7, <2>2
  <2>4. ASSUME ~bad, NEW l \in DOMAIN Now.undo, l > k - 1 PROVE Now.undo[l].state = "done"
    <3>1. DOMAIN Now.undo = 1..Len(Now.undo) /\ Len(Now.undo) \in Nat
      BY <1>3
    <3>2. l = k \/ l > k
      BY <1>3, <2>4, <3>1
    <3> QED
      BY <1>1, <1>4, <1>8, <2>1, <2>4, <3>2 DEF Holding
  <2>5. Holding(proc'[p], Now) /\ Here' = Here
    BY <1>1, <1>8, <2>3, <2>4 DEF Holding, Steps, Here
  <2> QED
    BY <1>2, <1>4, <1>5, <1>8, <2>3, <2>5
<1>9. CASE /\ proc' = [proc EXCEPT ![p].k = 0, ![p].bad = TRUE]
           /\ Unspent /\ UNCHANGED <<host, journals>>
  <2>1. /\ proc'[p].stage = "undo" /\ proc'[p].bad = TRUE
        /\ \A q \in Proc \ {p} : proc'[q] = proc[q]
    BY <1>6, <1>9
  <2>2. Holding(proc'[p], Now) /\ Here' = Here
    BY <1>1, <1>9, <2>1 DEF Holding, Steps, Here
  <2> QED
    BY <1>2, <1>4, <1>5, <1>9, <2>1, <2>2
<1>10. ASSUME NEW o \in Outcomes(c), host' = [host EXCEPT ![c.host] = o.s]
       PROVE  host' \in [Host -> HostState] /\ o.ok \in BOOLEAN /\ \A h \in Host \ {c.host} : host'[h] = host[h]
  <2>1. o.s \in HostState /\ o.ok \in BOOLEAN
    BY <1>2, <1>3, OutcomesTyped
  <2> QED
    BY <1>2, <1>3, <1>10, <2>1
<1>11. ASSUME NEW state \in {"ready", "running", "failed", "done"}, NEW j, j = [Now EXCEPT !.undo[k].state = state]
       PROVE  /\ j \in Journal /\ j.status = Now.status /\ j.home = Now.home /\ j.conf = Now.conf /\ j.text = Now.text
              /\ DOMAIN j.undo = DOMAIN Now.undo /\ j.undo[k].state = state
              /\ \A l \in DOMAIN Now.undo : j.undo[l].cmd = Now.undo[l].cmd /\ (l # k => j.undo[l] = Now.undo[l])
  <2> DEFINE v == [u EXCEPT !.state = state]  w == [Now.undo EXCEPT ![k] = v]
  <2>1. v \in Undo /\ v.cmd = u.cmd /\ v.state = state
    BY <1>3 DEF Undo
  <2> HIDE DEF v
  <2>2. w \in Seq(Undo) /\ DOMAIN w = DOMAIN Now.undo /\ w[k] = v /\ \A l \in DOMAIN Now.undo : l # k => w[l] = Now.undo[l]
    BY <1>3, <2>1
  <2>3. j = [Now EXCEPT !.undo = w]
    BY <1>11 DEF v
  <2> HIDE DEF w
  <2>4. /\ j \in Journal /\ j.status = Now.status /\ j.home = Now.home /\ j.conf = Now.conf /\ j.text = Now.text /\ j.undo = w
    BY <1>2, <2>2, <2>3 DEF Journal
  <2> QED
    BY <2>1, <2>2, <2>4
\* What the command changes is a file that is kept.
<1>12. ASSUME NEW j, j.home = Now.home, j.text = Now.text, \A h \in Host \ {c.host} : host'[h] = host[h],
              \A h \in Host : j.conf[h].on = Now.conf[h].on /\ j.conf[h].before = Now.conf[h].before, Last \notin edited
       PROVE  Restores(j, b, Here')
  <2>1. Restores(Now, b, Here)
    BY <1>4, <1>12 DEF Returns
  <2>2. ASSUME NEW h \in Host
        PROVE  IF j.conf[h].on = "no" THEN Here'.host[h].file = b.host[h].file ELSE j.conf[h].before.file = b.host[h].file
    BY <1>4, <1>12, <2>1, HereIs DEF Restores
  <2> QED
    BY <1>1, <1>12, <2>1, <2>2, HereIs DEF Restores
<1>13. ASSUME NEW o \in Outcomes(c), host' = [host EXCEPT ![c.host] = o.s],
              NEW j, j = [Now EXCEPT !.undo[k].state = IF o.ok THEN "done" ELSE "failed"],
              Save(SignAll(j, host')), proc' = [proc EXCEPT ![p].k = @ - 1, ![p].bad = @ \/ ~o.ok]
       PROVE FilesOK
  <2>1. host' \in [Host -> HostState] /\ o.ok \in BOOLEAN /\ \A h \in Host \ {c.host} : host'[h] = host[h]
    BY <1>10, <1>13
  <2>2. PICK state \in {"failed", "done"} : state = IF o.ok THEN "done" ELSE "failed"
    OBVIOUS
  <2>3. /\ j \in Journal /\ j.status = Now.status /\ j.home = Now.home /\ j.conf = Now.conf /\ j.text = Now.text
        /\ DOMAIN j.undo = DOMAIN Now.undo /\ j.undo[k].state = state
        /\ \A l \in DOMAIN Now.undo : j.undo[l].cmd = Now.undo[l].cmd /\ (l # k => j.undo[l] = Now.undo[l])
    <3>1. j = [Now EXCEPT !.undo[k].state = state]
      BY <1>13, <2>2
    <3> HIDE DEF k
    <3> QED
      BY <1>11, <3>1
  <2>4. Covered(j)
    BY <1>2, <1>4, <2>3, SameCovered
  <2> DEFINE t == SignAll(j, host')
  <2>5. /\ t \in Journal /\ t.status = j.status /\ t.home = j.home /\ t.undo = j.undo /\ t.text = j.text /\ Covered(t)
        /\ \A h \in Host : IF j.conf[h].on = "no" THEN t.conf[h] = j.conf[h]
                           ELSE t.conf[h].on = j.conf[h].on /\ t.conf[h].before = j.conf[h].before /\ ~t.conf[h].back
    BY <2>1, <2>3, <2>4, SignAllDoes, SignCovers
  <2> HIDE DEF t
  <2>6. ASSUME Last \notin edited PROVE Returns(t, b, Here')
    <3>1. Restores(t, b, Here')
      BY <1>12, <2>1, <2>3, <2>5, <2>6
    <3>2. Settled(t, b, Here')
      BY <2>3, <2>5, <3>1 DEF Restores, Settled
    <3> QED
      BY <3>1, <3>2 DEF Returns
  <2>7. PICK bad \in BOOLEAN : bad = (r.bad \/ ~o.ok)
    BY <1>7
  <2>8. proc' = [proc EXCEPT ![p].k = k - 1, ![p].bad = bad]
    BY <1>13, <2>7
  <2>9. /\ proc'[p].stage = "undo" /\ proc'[p].k = k - 1 /\ proc'[p].bad = bad
        /\ \A q \in Proc \ {p} : proc'[q] = proc[q]
    BY <1>6, <1>7, <2>8
  <2>10. ASSUME ~bad, NEW l \in DOMAIN t.undo, l > k - 1 PROVE t.undo[l].state = "done"
    <3>1. DOMAIN Now.undo = 1..Len(Now.undo) /\ Len(Now.undo) \in Nat
      BY <1>3
    <3>2. l \in DOMAIN Now.undo /\ (l = k \/ l > k)
      BY <1>3, <2>3, <2>5, <2>10, <3>1
    <3>3. CASE l = k
      BY <2>2, <2>3, <2>5, <2>7, <2>10, <3>3
    <3>4. CASE l # k /\ l > k
      <4>1. ~r.bad
        BY <2>7, <2>10
      <4>2. Now.undo[l].state = "done"
        BY <1>1, <1>4, <3>2, <3>4, <4>1 DEF Holding
      <4> QED
        BY <2>3, <2>5, <3>2, <3>4, <4>2
    <3> QED
      BY <3>2, <3>3, <3>4
  <2>11. Holding(proc'[p], t)
    BY <2>9, <2>10 DEF Holding, Steps
  <2>12. Save(t) /\ t.status = "active"
    BY <1>2, <1>13, <2>3, <2>5 DEF t
  <2> QED
    BY <1>5, <2>5, <2>6, <2>9, <2>11, <2>12
<1>14. ASSUME NEW o \in Outcomes(c), host' = [host EXCEPT ![c.host] = o.s],
              NEW j, j = [Now EXCEPT !.undo[k].state = "running"], Save(j), Leave(p)
       PROVE FilesOK
  <2>1. \A h \in Host \ {c.host} : host'[h] = host[h]
    BY <1>10, <1>14
  <2>2. /\ j \in Journal /\ j.status = Now.status /\ j.home = Now.home /\ j.conf = Now.conf /\ j.text = Now.text
        /\ DOMAIN j.undo = DOMAIN Now.undo /\ j.undo[k].state = "running"
        /\ \A l \in DOMAIN Now.undo : j.undo[l].cmd = Now.undo[l].cmd /\ (l # k => j.undo[l] = Now.undo[l])
    BY <1>11, <1>14
  <2>3. Covered(j) /\ CutOff(j)
    BY <1>2, <1>3, <1>4, <2>2, SameCovered DEF CutOff
  <2>4. Last \notin edited => Returns(j, b, Here')
    BY <1>12, <2>1, <2>2, <2>3 DEF Returns
  <2>5. proc'[p] = Idle /\ (\A q \in Proc \ {p} : proc'[q] = proc[q]) /\ Idle.stage = "idle"
    BY <1>2, <1>14 DEF Leave, Idle
  <2>6. Holding(proc'[p], j)
    BY <2>5 DEF Holding, Steps
  <2> QED
    BY <1>2, <1>5, <1>14, <2>2, <2>3, <2>4, <2>5, <2>6
<1>15. CASE /\ u.state \in {"ready", "failed"} /\ ~Conflict(Now)
            /\ \E o \in Outcomes(c) :
                /\ host' = [host EXCEPT ![c.host] = o.s]
                /\ Save(SignAll([Now EXCEPT !.undo[k].state = IF o.ok THEN "done" ELSE "failed"], host'))
                /\ proc' = [proc EXCEPT ![p].k = @ - 1, ![p].bad = @ \/ ~o.ok]
                /\ Spend(o.cost)
  BY <1>13, <1>15
<1>16. CASE /\ u.state \in {"ready", "failed"} /\ ~Conflict(Now)
            /\ MayUpset /\ Spend(1)
            /\ \E o \in Outcomes(c) : host' = [host EXCEPT ![c.host] = o.s]
            /\ Save([Now EXCEPT !.undo[k].state = "running"])
            /\ Leave(p)
  BY <1>14, <1>16
<1> QED
  BY <1>8, <1>9, <1>15, <1>16 DEF UndoNext

\* The files go back.  When the rollback reports success no undo command was
\* interrupted, and each file is put back now or was and still is as it was.
LEMMA RestoreFilesFiles ==
  ASSUME InstallAssumption, SettingsInv, FileInv, NEW p \in Proc, RestoreFiles(p) PROVE FilesOK
<1> DEFINE r == proc[p]  b == begin[Last]
           ok == Whole(r, Now)
           fresh(x) == Now.text[x].on /\ place[x] = Now.text[x].signed
           kept(k, s) == [k EXCEPT !.signed = PutBack(k, s, k.signed, k.before),
                                   !.back = k.on # "no" /\ (@ \/ Same(k, s))]
           status == IF ok THEN "rolled_back" ELSE "incomplete"
           conf == [h \in Host |-> kept(Now.conf[h], host[h])]
           text == [x \in Place |-> IF fresh(x) THEN NoText ELSE Now.text[x]]
           j == [Now EXCEPT !.status = status, !.conf = conf, !.text = text]
<1>1. Running(p) /\ r.stage = "undo" /\ r.k = 0 /\ UNCHANGED <<begin, edited>>
  BY DEF RestoreFiles, Running
<1>2. /\ TypeInv /\ TypeOK /\ Now \in Journal /\ Last \in DOMAIN journals /\ proc \in [Proc -> Request]
      /\ Now.status = "active" /\ Now = journals[Last]
      /\ \A h \in Host : Now.conf[h] \in Kept /\ host[h] \in HostState
  BY <1>1, RunFacts DEF SettingsInv, Now, TypeOK, Journal
<1>3. /\ \A h \in Host : host'[h] = PutBack(Now.conf[h], host[h], host[h], Now.conf[h].before)
      /\ place' = [x \in Place |-> IF fresh(x) THEN Now.text[x].before ELSE place[x]]
      /\ home' = Now.home /\ Save(j) /\ Leave(p)
  BY DEF RestoreFiles
<1>4. Covered(Now) /\ Holding(r, Now) /\ (Last \notin edited => Returns(Now, b, Here))
  BY <1>2 DEF FileInv, Unfinished
<1>5. ASSUME NEW h \in Host
      PROVE  /\ conf[h].on = Now.conf[h].on /\ conf[h].before = Now.conf[h].before
             /\ conf[h].back = (Now.conf[h].on # "no" /\ (Now.conf[h].back \/ Same(Now.conf[h], host[h])))
  BY <1>2 DEF Kept
<1>6. ASSUME NEW h \in Host
      PROVE  /\ Now.conf[h].on = "no" \/ Now.conf[h].back => host'[h].file = host[h].file
             /\ Now.conf[h].on # "no" /\ ~Now.conf[h].back /\ Same(Now.conf[h], host[h])
                  => host'[h].file = Now.conf[h].before.file
  <2>1. Now.conf[h].on = "no" \/ Now.conf[h].back => host'[h] = host[h]
    BY <1>3 DEF PutBack
  <2>2. \A c, g, a, z : c.on # "no" /\ ~c.back /\ SameFile(c, g) => PutBack(c, g, a, z).file = z.file
    BY DEF PutBack
  <2>3. Now.conf[h].on # "no" /\ ~Now.conf[h].back /\ SameFile(Now.conf[h], host[h]) => host'[h].file = Now.conf[h].before.file
    BY <1>3, <2>2
  <2> QED
    BY <2>1, <2>3 DEF Same
<1>7. /\ DOMAIN Now.undo \subseteq Nat \ {0}
      /\ ok => ~CutOff(Now)
  <2>1. DOMAIN Now.undo \subseteq Nat \ {0}
    BY <1>2 DEF Journal
  <2>2. ASSUME ok, NEW l \in DOMAIN Now.undo PROVE Now.undo[l].state = "done"
    <3>1. ~r.bad /\ l > r.k
      BY <1>1, <2>1, <2>2 DEF Whole
    <3> QED
      BY <1>1, <1>4, <3>1 DEF Holding
  <2> QED
    BY <2>1, <2>2 DEF CutOff
<1>8. ok => /\ \A h \in Host : Now.conf[h].back \/ Same(Now.conf[h], host[h])
            /\ \A x \in Place : Now.text[x].on => fresh(x)
  BY DEF Whole, Untouched
<1>9. \A x \in Place : IF fresh(x) THEN ~text[x].on /\ place'[x] = Now.text[x].before
                       ELSE text[x] = Now.text[x] /\ place'[x] = place[x]
  BY <1>3 DEF NoText
<1>10. place' \in [Place -> Text]
  BY <1>2, <1>3 DEF TypeOK, Journal, KeptText
<1>11. \A x \in Place : fresh(x) => Now.text[x].on
  OBVIOUS
<1>12. status = IF ok THEN "rolled_back" ELSE "incomplete"
  OBVIOUS
<1> HIDE DEF conf, text, status, ok, fresh
<1>13. j.status = status /\ j.conf = conf /\ j.text = text /\ j.home = Now.home /\ j.undo = Now.undo
  BY <1>2 DEF Journal
<1> HIDE DEF j
<1>14. Covered(j)
  <2>1. \A h \in Host : Now.conf[h].on # "no" => j.conf[h].on # "no"
    BY <1>5, <1>13
  <2> QED
    BY <1>2, <1>4, <1>13, <2>1, SameCovered
<1>15. ASSUME Last \notin edited, ok PROVE FilesBack(Last)
  <2>1. Restores(Now, b, Here) /\ Settled(Now, b, Here)
    BY <1>4, <1>7, <1>15 DEF Returns
  <2>2. \A h \in Host : host'[h].file = b.host[h].file
    BY <1>6, <1>8, <1>15, <2>1, HereIs DEF Restores, Settled
  <2>3. \A x \in Place : place'[x] = b.place[x]
    BY <1>8, <1>9, <1>11, <1>15, <2>1, HereIs DEF Restores
  <2>4. b.place \in [Place -> Text]
    <3>1. begin \in Seq(World) /\ Last \in DOMAIN begin
      BY <1>2 DEF TypeOK, Last
    <3>2. b \in World
      BY <3>1
    <3> HIDE DEF b
    <3> QED
      BY <3>2 DEF World
  <2>5. place' = b.place
    BY <1>10, <2>3, <2>4
  <2> QED
    BY <1>3, <2>1, <2>2, <2>5 DEF FilesBack, Restores
<1>16. ASSUME Last \notin edited PROVE Returns(j, b, Here')
  <2>1. Restores(Now, b, Here) /\ (CutOff(Now) \/ Settled(Now, b, Here))
    BY <1>4, <1>16 DEF Returns
  <2>2. \A h \in Host : IF j.conf[h].on = "no" THEN host'[h].file = b.host[h].file
                        ELSE j.conf[h].before.file = b.host[h].file
    BY <1>5, <1>6, <1>13, <2>1, HereIs DEF Restores
  <2>3. \A x \in Place : (IF j.text[x].on THEN j.text[x].before ELSE place'[x]) = b.place[x]
    BY <1>9, <1>11, <1>13, <2>1, HereIs DEF Restores
  <2>4. Restores(j, b, Here')
    BY <1>13, <2>1, <2>2, <2>3, HereIs DEF Restores
  <2>5. CutOff(Now) => CutOff(j)
    BY <1>13 DEF CutOff
  <2>6. ASSUME Settled(Now, b, Here) PROVE Settled(j, b, Here')
    BY <1>5, <1>6, <1>13, <2>1, <2>6, HereIs DEF Restores, Settled
  <2> QED
    BY <2>1, <2>4, <2>5, <2>6 DEF Returns
<1>17. proc'[p] = Idle /\ (\A q \in Proc \ {p} : proc'[q] = proc[q]) /\ Idle.stage = "idle"
  BY <1>2, <1>3 DEF Leave, Idle
<1>18. Holding(proc'[p], j)
  BY <1>17 DEF Holding, Steps
<1>19. j.status # "committed" /\ (j.status = "rolled_back" => ok)
  BY <1>12, <1>13
<1> QED
  BY <1>1, <1>2, <1>3, <1>14, <1>15, <1>16, <1>17, <1>18, <1>19, FileSteps

\* The newest transaction that is not undone is undone; what comes behind it was.
LEMMA StartRollbackFiles ==
  ASSUME InstallAssumption, SettingsInv, FileInv, NEW p \in Proc, StartRollback(p) PROVE FilesOK
<1>1. TypeInv /\ TypeOK /\ proc[p].stage = "idle" /\ Free /\ Rollbackable # {}
  BY DEF SettingsInv, TypeInv, StartRollback
<1>2. journals \in Seq(Journal) /\ DOMAIN journals = 1..Last /\ Last \in Nat
  BY <1>1 DEF TypeOK, Last
<1>3. PICK i : i = Largest(Rollbackable)
  OBVIOUS
<1>4. i \in Rollbackable /\ \A n \in Rollbackable : n <= i
  <2>1. Rollbackable \in SUBSET Nat /\ \A n \in Rollbackable : n <= Last
    BY <1>2 DEF Rollbackable
  <2> QED
    BY <1>1, <1>2, <1>3, <2>1, LargestFound
<1>5. i \in 1..Last /\ i \in Nat /\ journals[i].status # "rolled_back" /\ journals[i] \in Journal
  BY <1>2, <1>4 DEF Rollbackable
<1>6. \A l \in 1..Last : i < l => journals[l].status = "rolled_back"
  BY <1>2, <1>4, <1>5 DEF Rollbackable
<1> DEFINE j == [journals[i] EXCEPT !.status = "active"]
           r == [Idle EXCEPT !.stage = "undo", !.op = "rollback", !.k = Len(journals[i].undo)]
<1>7. /\ journals' = Append(SubSeq(journals, 1, i - 1), j) /\ begin' = SubSeq(begin, 1, i)
      /\ edited' = edited \cap 1..i /\ proc' = [proc EXCEPT ![p] = r] /\ UNCHANGED <<host, place, home>>
  BY <1>3 DEF StartRollback
<1>8. j \in Journal /\ j.status = "active" /\ j.home = journals[i].home /\ j.conf = journals[i].conf
      /\ j.undo = journals[i].undo /\ j.text = journals[i].text
  BY <1>5 DEF Journal
<1>9. r.stage = "undo" /\ r.k = Len(j.undo)
  BY <1>8, IdleTyped DEF Request
<1> HIDE DEF j, r
<1>10. /\ Len(journals') = i /\ DOMAIN journals' = 1..i /\ journals'[i] = j
       /\ \A n \in 1..i - 1 : journals'[n] = journals[n]
  BY <1>2, <1>5, <1>7, <1>8 DEF Last
<1>11. Last' = i /\ Now' = j /\ Here' = Here
  BY <1>7, <1>10 DEF Last, Now, Here
<1>12. \A n \in 1..i : begin'[n] = begin[n]
  <2>1. begin \in Seq(World) /\ i \in 1..Len(begin)
    BY <1>1, <1>2, <1>5 DEF TypeOK, Last
  <2> QED
    BY <1>5, <1>7, <2>1
<1>13. Covered(j)
  BY <1>2, <1>5, <1>8 DEF Covered, FileInv
<1>14. \A n \in DOMAIN journals' : Covered(journals'[n]) /\ (journals'[n].status = "committed" => NoneBack(journals'[n]))
  <2> SUFFICES ASSUME NEW n \in 1..i
               PROVE  Covered(journals'[n]) /\ (journals'[n].status = "committed" => NoneBack(journals'[n]))
    BY <1>10
  <2>1. CASE n = i
    BY <1>8, <1>10, <1>13, <2>1
  <2>2. CASE n # i
    <3>1. n \in 1..i - 1 /\ n \in DOMAIN journals
      BY <1>2, <1>5, <2>2
    <3> QED
      BY <1>10, <3>1 DEF FileInv
  <2> QED
    BY <2>1, <2>2
<1>15. \A n, m \in DOMAIN journals' : n < m /\ m \in edited' => n \in edited'
  BY <1>2, <1>5, <1>7, <1>10 DEF FileInv
<1>16. ASSUME NEW n \in DOMAIN journals' \ edited', NEW m \in 1..Last' + 1, journals'[n].status = "committed", Follows(n, m)'
       PROVE  Restores(journals'[n], begin'[n], WorldAt(m)')
  <2>1. n \in 1..i - 1 /\ n \in DOMAIN journals \ edited /\ journals'[n] = journals[n] /\ n \in 1..i
    <3>1. n \in 1..i /\ n # i
      BY <1>8, <1>10, <1>16
    <3> QED
      BY <1>2, <1>5, <1>7, <1>10, <3>1
  <2>2. m \in 1..i + 1 /\ n < m /\ \A l \in 1..i : n < l /\ l < m => journals'[l].status = "rolled_back"
    BY <1>10, <1>11, <1>16 DEF Follows
  <2>3. m # i + 1
    <3>1. journals'[i].status # "rolled_back" /\ i \in 1..i /\ n < i
      BY <1>5, <1>8, <1>10, <2>1
    <3> QED
      BY <1>5, <2>2, <3>1
  <2>4. m \in 1..i /\ m \in DOMAIN journals /\ m \in DOMAIN journals' /\ m \in 1..Last + 1
    BY <1>2, <1>5, <1>10, <2>2, <2>3
  <2>5. ASSUME NEW l \in DOMAIN journals, n < l, l < m PROVE journals[l].status = "rolled_back"
    <3>1. l \in 1..i - 1 /\ l \in 1..i
      BY <1>2, <1>5, <2>4, <2>5
    <3> QED
      BY <1>10, <2>2, <2>5, <3>1
  <2>6. Follows(n, m)
    BY <2>2, <2>5 DEF Follows
  <2>7. WorldAt(m) = begin[m] /\ WorldAt(m)' = begin[m] /\ begin'[n] = begin[n]
    BY <1>12, <2>1, <2>4 DEF WorldAt
  <2> QED
    BY <1>16, <2>1, <2>4, <2>6, <2>7 DEF FileInv
<1>17. ASSUME i \notin edited PROVE Returns(journals[i], begin[i], Here)
  <2>1. CASE journals[i].status \in Unfinished
    BY <1>2, <1>5, <1>17, <2>1 DEF FileInv
  <2>2. CASE journals[i].status = "committed"
    <3>1. Follows(i, Last + 1) /\ Last + 1 \in 1..Last + 1 /\ Last + 1 \notin DOMAIN journals
      BY <1>2, <1>5, <1>6 DEF Follows
    <3>2. Restores(journals[i], begin[i], Here) /\ NoneBack(journals[i])
      BY <1>2, <1>5, <1>17, <2>2, <3>1 DEF FileInv, WorldAt
    <3> QED
      BY <3>2 DEF Returns, NoneBack, Settled
  <2> QED
    BY <1>5, <2>1, <2>2 DEF Journal, Unfinished
<1>18. ASSUME NEW n \in DOMAIN journals' \ edited', journals'[n].status \in Unfinished
       PROVE  Returns(journals'[n], begin'[n], Here')
  <2>1. n = i
    <3>1. CASE n # i
      <4>1. n \in 1..i - 1 /\ n \in DOMAIN journals /\ n # Last
        BY <1>2, <1>5, <1>10, <3>1
      <4> QED
        BY <1>1, <1>10, <1>18, <4>1 DEF TypeInv
    <3> QED
      BY <3>1
  <2>2. i \notin edited /\ i \in 1..i
    BY <1>5, <1>7, <1>18, <2>1
  <2> QED
    BY <1>8, <1>10, <1>11, <1>12, <1>17, <2>1, <2>2 DEF Returns, Restores, CutOff, Settled
<1>19. ASSUME NEW q \in Proc PROVE Holding(proc'[q], Now')
  <2>1. CASE q = p
    <3>1. proc'[q] = r
      BY <1>1, <1>7, <2>1 DEF TypeOK
    <3>2. DOMAIN j.undo = 1..Len(j.undo) /\ Len(j.undo) \in Nat
      BY <1>8 DEF Journal
    <3>3. \A l \in DOMAIN j.undo : ~(l > r.k)
      BY <1>9, <3>2
    <3> QED
      BY <1>9, <1>11, <3>1, <3>3 DEF Holding, Steps
  <2>2. CASE q # p
    <3>1. proc'[q] = proc[q] /\ ~Running(q)
      BY <1>1, <1>7, <2>2 DEF TypeOK, Free
    <3> QED
      BY <3>1 DEF Holding, Running, Steps
  <2> QED
    BY <2>1, <2>2
<1>20. FileInv'
  BY <1>11, <1>14, <1>15, <1>16, <1>18, <1>19 DEF FileInv, Holding
<1>21. ASSUME NEW n \in DOMAIN journals \cap DOMAIN journals' PROVE ~TakenBack(n)
  <2>1. CASE n = i
    BY <1>8, <1>10, <2>1 DEF TakenBack
  <2>2. CASE n # i
    <3>1. n \in 1..i - 1
      BY <1>5, <1>10, <2>2
    <3> QED
      BY <1>10, <3>1 DEF TakenBack
  <2> QED
    BY <2>1, <2>2
<1> QED
  BY <1>20, <1>21 DEF FilesOK

\* A transaction that has kept nothing yet is opened where nothing is unfinished.
LEMMA OpensFiles ==
  ASSUME TypeInv, FileInv, NoneUnfinished, NEW j, journals' = Append(journals, j), j \in Journal,
         begin' = Append(begin, [host |-> host, place |-> place, home |-> home]),
         UNCHANGED <<host, place, edited>>, j.status \in {"active", "committed"}, j.home = home, j.undo = <<>>,
         \A h \in Host : j.conf[h].on = "no" /\ ~j.conf[h].back, \A x \in Place : ~j.text[x].on,
         \A q \in Proc : Holding(proc'[q], j)
  PROVE  FilesOK
<1>1. /\ TypeOK /\ Last \in Nat /\ Last' = Last + 1 /\ Now' = j /\ edited \subseteq 1..Last
      /\ DOMAIN journals = 1..Last /\ DOMAIN journals' = 1..Last + 1
      /\ (\A i \in 1..Last : journals'[i] = journals[i]) /\ journals'[Last + 1] = j
  <2>1. TypeOK
    BY DEF TypeInv
  <2>2. /\ Last \in Nat /\ Last' = Last + 1 /\ Now' = j
        /\ DOMAIN journals = 1..Last /\ DOMAIN journals' = 1..Last + 1
        /\ \A i \in 1..Last : journals'[i] = journals[i]
    BY <2>1, Appended
  <2> QED
    BY <2>1, <2>2 DEF TypeOK, Now
<1>2. begin'[Last + 1] = Here /\ \A i \in 1..Last : begin'[i] = begin[i]
  <2>1. begin \in Seq(World) /\ Len(begin) = Last
    BY <1>1 DEF TypeOK, Last
  <2> QED
    BY <1>1, <2>1 DEF Here
<1>3. Covered(j) /\ NoneBack(j)
  BY DEF Covered, NoneBack
<1>4. Restores(j, Here, Here')
  BY HereIs DEF Restores
<1>5. \A i \in DOMAIN journals' : Covered(journals'[i]) /\ (journals'[i].status = "committed" => NoneBack(journals'[i]))
  <2> SUFFICES ASSUME NEW i \in 1..Last + 1
               PROVE  Covered(journals'[i]) /\ (journals'[i].status = "committed" => NoneBack(journals'[i]))
    BY <1>1
  <2> QED
    BY <1>1, <1>3 DEF FileInv
<1>6. \A i, m \in DOMAIN journals' : i < m /\ m \in edited => i \in edited
  BY <1>1 DEF FileInv
<1>7. ASSUME NEW i \in DOMAIN journals' \ edited, NEW m \in 1..Last + 2, journals'[i].status = "committed", Follows(i, m)'
      PROVE  Restores(journals'[i], begin'[i], WorldAt(m)')
  <2>1. i < m /\ i \in 1..Last + 1 /\ \A l \in 1..Last + 1 : i < l /\ l < m => journals'[l].status = "rolled_back"
    BY <1>1, <1>7 DEF Follows
  <2>2. CASE i = Last + 1
    <3>1. m = Last + 2 /\ m \notin DOMAIN journals'
      BY <1>1, <2>1, <2>2
    <3>2. WorldAt(m)' = Here'
      BY <3>1 DEF WorldAt
    <3> QED
      BY <1>1, <1>2, <1>4, <2>2, <3>2
  <2>3. CASE i # Last + 1
    <3>1. m # Last + 2
      BY <1>1, <2>1, <2>3
    <3>2. i \in DOMAIN journals \ edited /\ m \in 1..Last + 1 /\ journals'[i] = journals[i] /\ begin'[i] = begin[i]
      <4>1. i \in 1..Last /\ m \in 1..Last + 1
        BY <1>1, <1>7, <2>1, <2>3, <3>1
      <4> QED
        BY <1>1, <1>2, <1>7, <4>1
    <3>3. ASSUME NEW l \in DOMAIN journals, i < l, l < m PROVE journals[l].status = "rolled_back"
      BY <1>1, <2>1, <3>3
    <3>4. Follows(i, m)
      BY <2>1, <3>3 DEF Follows
    <3>5. Restores(journals[i], begin[i], WorldAt(m))
      BY <1>7, <3>2, <3>4 DEF FileInv
    <3>6. WorldAt(m)' = WorldAt(m)
      <4>1. CASE m \in 1..Last
        <5>1. m \in DOMAIN journals /\ m \in DOMAIN journals'
          BY <1>1, <4>1
        <5> QED
          BY <1>2, <4>1, <5>1 DEF WorldAt
      <4>2. CASE m = Last + 1
        <5>1. m \notin DOMAIN journals /\ m \in DOMAIN journals'
          BY <1>1, <4>2
        <5> QED
          BY <1>2, <4>2, <5>1 DEF WorldAt
      <4> QED
        BY <1>1, <3>2, <4>1, <4>2
    <3> QED
      BY <3>2, <3>5, <3>6
  <2> QED
    BY <2>2, <2>3
<1>8. ASSUME NEW i \in DOMAIN journals' \ edited, journals'[i].status \in Unfinished
      PROVE  Returns(journals'[i], begin'[i], Here')
  <2>1. i = Last + 1
    BY <1>1, <1>8 DEF NoneUnfinished
  <2> QED
    BY <1>1, <1>2, <1>3, <1>4, <2>1 DEF Returns, NoneBack, Settled
<1>9. Last' + 1 = Last + 2
  BY <1>1
<1>10. FileInv'
  BY <1>1, <1>5, <1>6, <1>7, <1>8, <1>9 DEF FileInv, Holding
<1>11. \A i \in DOMAIN journals \cap DOMAIN journals' : ~TakenBack(i)
  BY <1>1 DEF TakenBack
<1> QED
  BY <1>10, <1>11 DEF FilesOK

\* Nothing changes but what commands without the lock know.
LEMMA BesideFiles ==
  ASSUME FileInv, UNCHANGED <<host, place, home, journals, begin, edited>>, \A q \in Proc : Holding(proc'[q], Now)
  PROVE  FilesOK
<1>1. Last' = Last /\ Now' = Now /\ Here' = Here
  BY DEF Last, Now, Here
<1>2. \A m : WorldAt(m)' = WorldAt(m)
  BY <1>1 DEF WorldAt
<1>3. \A i, m : Follows(i, m)' = Follows(i, m)
  BY DEF Follows
<1>4. FileInv'
  BY <1>1, <1>2, <1>3 DEF FileInv, Holding
<1>5. \A i \in DOMAIN journals \cap DOMAIN journals' : ~TakenBack(i)
  BY DEF TakenBack
<1> QED
  BY <1>4, <1>5 DEF FilesOK

LEMMA OpeningsFiles ==
  ASSUME InstallAssumption, SettingsInv, FileInv, NEW p \in Proc, Begin(p) \/ Attest(p) PROVE FilesOK
<1> DEFINE opened(status) == [status |-> status, undo |-> <<>>, home |-> home,
                              conf |-> [h \in Host |-> NoKept], text |-> [x \in Place |-> NoText]]
<1>1. TypeInv /\ TypeOK /\ Free /\ UNCHANGED <<host, place, edited>> /\ proc \in [Proc -> Request]
  BY DEF Begin, Attest, SettingsInv, TypeInv, TypeOK
<1>2. ASSUME NEW status \in {"active", "committed"}
      PROVE  /\ opened(status) \in Journal /\ opened(status).status = status /\ opened(status).home = home
             /\ opened(status).undo = <<>> /\ (\A h \in Host : opened(status).conf[h].on = "no" /\ ~opened(status).conf[h].back)
             /\ \A x \in Place : ~opened(status).text[x].on
  BY <1>1, OpenTyped DEF NoText
<1> HIDE DEF opened
<1>3. ASSUME NEW q \in Proc, NEW j PROVE Holding(proc[q], j)
  BY <1>1 DEF Holding, Free, Running, Steps
<1>4. CASE Begin(p) /\ ~NoneUnfinished
  <2>1. Leave(p) /\ UNCHANGED <<host, place, home, journals, begin, edited>>
    BY <1>4 DEF Begin
  <2>2. \A q \in Proc : proc'[q] = IF q = p THEN Idle ELSE proc[q]
    BY <1>1, <2>1 DEF Leave
  <2>3. Idle.stage = "idle"
    BY DEF Idle
  <2>4. \A q \in Proc : Holding(proc'[q], Now)
    BY <1>3, <2>2, <2>3 DEF Holding, Steps
  <2> QED
    BY <2>1, <2>4, BesideFiles
<1>5. CASE Begin(p) /\ NoneUnfinished
  <2>1. /\ journals' = Append(journals, opened("active"))
        /\ begin' = Append(begin, [host |-> host, place |-> place, home |-> home]) /\ Go(p, "confirm")
    BY <1>5 DEF Begin, Open, opened
  <2>2. proc'[p].stage = "confirm" /\ proc'[p].op = proc[p].op /\ \A q \in Proc \ {p} : proc'[q] = proc[q]
    BY <1>1, <2>1 DEF Go, Request
  <2>3. "active" \in {"active", "committed"}
    OBVIOUS
  <2>4. NoneBack(opened("active"))
    BY <1>2, <2>3 DEF NoneBack
  <2>5. \A q \in Proc : Holding(proc'[q], opened("active"))
    BY <1>2, <1>3, <2>2, <2>3, <2>4 DEF Holding, Steps
  <2> QED
    BY <1>1, <1>2, <1>5, <2>1, <2>3, <2>5, OpensFiles
<1>6. CASE Attest(p)
  <2>1. /\ journals' = Append(journals, opened("committed")) /\ NoneUnfinished /\ proc' = proc
        /\ begin' = Append(begin, [host |-> host, place |-> place, home |-> home])
    BY <1>6 DEF Attest, opened
  <2>2. \A q \in Proc : Holding(proc'[q], opened("committed"))
    BY <1>3, <2>1
  <2>3. "committed" \in {"active", "committed"}
    OBVIOUS
  <2> QED
    BY <1>1, <1>2, <2>1, <2>2, <2>3, OpensFiles
<1> QED
  BY <1>4, <1>5, <1>6

LEMMA AsksFiles ==
  ASSUME InstallAssumption, SettingsInv, FileInv, NEW p \in Proc, AskInstall(p) \/ AskUpdate(p) \/ AskUninstall(p)
  PROVE  FilesOK
<1>1. TypeOK /\ home.hosts \subseteq Host /\ Reads \in Request /\ Reads.stage = "asked" /\ proc \in [Proc -> Request]
  BY ReadsTyped DEF SettingsInv, TypeInv, TypeOK, Home
<1>2. ASSUME NEW r, r.stage = "asked", Ask(p, r) PROVE FilesOK
  <2>1. UNCHANGED <<host, place, home, journals, begin, edited>> /\ \A q \in Proc : proc'[q] = IF q = p THEN r ELSE proc[q]
    BY <1>1, <1>2 DEF Ask
  <2>2. \A q \in Proc : Holding(proc'[q], Now)
    BY <1>2, <2>1 DEF FileInv, Holding, Steps
  <2> QED
    BY <2>1, <2>2, BesideFiles
<1>3. CASE AskInstall(p)
  <2>1. PICK hs \in SUBSET Host \ {{}}, v \in Version, local \in Locals, secure \in BOOLEAN :
           LET r == [Reads EXCEPT !.op = "install", !.hosts = hs, !.ver = v, !.local = local, !.secure = secure]
           IN Ask(p, [r EXCEPT !.refresh = Refreshed(r)])
    BY <1>3 DEF AskInstall
  <2> DEFINE r == [Reads EXCEPT !.op = "install", !.hosts = hs, !.ver = v, !.local = local, !.secure = secure]
             f == Refreshed(r)
  <2>2. Ask(p, [r EXCEPT !.refresh = f])
    BY <2>1
  <2> HIDE DEF f
  <2>3. [r EXCEPT !.refresh = f].stage = "asked"
    BY <1>1 DEF Request
  <2> HIDE DEF r
  <2> QED
    BY <1>2, <2>2, <2>3
<1>4. CASE AskUpdate(p)
  <2>1. PICK v \in Version, local \in Locals, restart \in BOOLEAN, enable \in BOOLEAN :
          LET r == [Reads EXCEPT !.op = "update", !.hosts = home.hosts, !.ver = v, !.local = local,
                           !.secure = UpdateSecurity, !.restart = restart, !.enable = enable]
          IN Ask(p, [r EXCEPT !.refresh = Refreshed(r)])
    BY <1>4 DEF AskUpdate
  <2> DEFINE r == [Reads EXCEPT !.op = "update", !.hosts = home.hosts, !.ver = v, !.local = local,
                           !.secure = UpdateSecurity, !.restart = restart, !.enable = enable]
             f == Refreshed(r)
  <2>2. Ask(p, [r EXCEPT !.refresh = f])
    BY <2>1
  <2> HIDE DEF f
  <2>3. [r EXCEPT !.refresh = f].stage = "asked"
    BY <1>1 DEF Request
  <2> HIDE DEF r
  <2> QED
    BY <1>2, <2>2, <2>3
<1>5. CASE AskUninstall(p)
  <2>1. PICK hs \in SUBSET home.hosts \ {{}} : Ask(p, [Reads EXCEPT !.op = "uninstall", !.hosts = hs])
    BY <1>5 DEF AskUninstall
  <2>2. [Reads EXCEPT !.op = "uninstall", !.hosts = hs].stage = "asked"
    BY <1>1 DEF Request
  <2> QED
    BY <1>2, <2>1, <2>2
<1> QED
  BY <1>3, <1>4, <1>5

\* After an edit of the user's nothing is promised of the transactions there are.
LEMMA UserFilesFiles ==
  ASSUME TypeInv, FileInv, (\E h \in Host : EditSettings(h) \/ RunManager(h)) \/ \E x \in Place : WritePlace(x)
  PROVE  FilesOK
<1>1. edited' = edited \union DOMAIN journals /\ UNCHANGED <<journals, proc>>
  BY DEF EditSettings, RunManager, WritePlace, Edit
<1>2. Last' = Last /\ Now' = Now
  BY <1>1 DEF Last, Now
<1>3. FileInv'
  BY <1>1, <1>2 DEF FileInv, Holding
<1>4. \A i \in DOMAIN journals \cap DOMAIN journals' : ~TakenBack(i)
  BY <1>1 DEF TakenBack
<1> QED
  BY <1>3, <1>4 DEF FilesOK

LEMMA FilesHold == ASSUME InstallAssumption, SettingsInv, FileInv, [Next]_vars PROVE FilesOK
<1>1. TypeInv
  BY DEF SettingsInv
<1>2. ASSUME NEW p \in Proc,
             \/ AskInstall(p) \/ AskUpdate(p) \/ AskUninstall(p)
             \/ Begin(p) \/ Confirm(p) \/ Stages(p)
             \/ StartRollback(p) \/ UndoNext(p) \/ RestoreFiles(p)
             \/ Attest(p) \/ Fail(p) \/ Crash(p)
      PROVE  FilesOK
  <2>1. ASSUME Stages(p) PROVE FilesOK
    BY <2>1, PlaceStagesFiles, TrackHostsFiles, CalmFiles, PrepareFiles, CommandStagesFiles, ApplySettingsFiles,
       RestoreSettingsFiles, ForgetFiles, CommitFiles DEF Stages
  <2> QED
    BY <1>2, <2>1, AsksFiles, OpeningsFiles, CalmFiles, StartRollbackFiles, UndoNextFiles, RestoreFilesFiles, EndsFiles
<1>3. CASE (\E h \in Host : EditSettings(h) \/ RunManager(h)) \/ \E x \in Place : WritePlace(x)
  BY <1>1, <1>3, UserFilesFiles
<1>4. CASE UNCHANGED vars
  <2>1. UNCHANGED <<host, place, home, journals, proc, begin, edited>>
    BY <1>4 DEF vars, ghosts
  <2>2. \A q \in Proc : Holding(proc'[q], Now)
    BY <2>1 DEF FileInv
  <2> QED
    BY <2>1, <2>2, BesideFiles
<1> QED
  BY <1>2, <1>3, <1>4 DEF Next

LEMMA FilesBegin == ASSUME Init PROVE FileInv
<1>1. journals = <<>> /\ DOMAIN journals = {} /\ \A p \in Proc : proc[p] = Idle
  BY DEF Init
<1>2. Idle.stage = "idle"
  BY DEF Idle
<1> QED
  BY <1>1, <1>2 DEF FileInv, Holding, Steps

(* A transaction that reports "rolled back" leaves the settings file of every host, the
   home and the files outside it as they were when it was opened, if the user changed
   nothing since (operations.py:935, transaction.py:449): for any hosts and releases,
   after any commands of other transactions, failures and crashes, and however often
   the rollback itself was cut short and taken up again. *)
THEOREM FilesPutBack ==
  ASSUME InstallAssumption
  PROVE  Spec => [][\A i \in DOMAIN journals \cap DOMAIN journals' :
                      TakenBack(i) /\ i \notin edited => FilesBack(i)]_vars
<1>1. Init => SettingsInv /\ FileInv
  BY InitHolds, FilesBegin
<1>2. SettingsInv /\ FileInv /\ [Next]_vars => (SettingsInv /\ FileInv)'
  BY NextHolds, FilesHold DEF FilesOK
<1>3. SettingsInv /\ FileInv /\ [Next]_vars =>
        [\A i \in DOMAIN journals \cap DOMAIN journals' : TakenBack(i) /\ i \notin edited => FilesBack(i)]_vars
  BY FilesHold DEF FilesOK
<1> QED
  BY <1>1, <1>2, <1>3, PTL DEF Spec

============================================================================
