------------------------------ MODULE Install ------------------------------
(***************************************************************************)
(* Install, update, uninstall and rollback of the product in its hosts     *)
(* (src/installer/operations.py with hosts.py, security.py, cache.py and   *)
(* the update command of cli.py): what a command reads before it takes the *)
(* lock, what it checks again inside the transaction, the native manager   *)
(* commands in their order with the undo of each, the host settings it     *)
(* applies and gives back, and the hook caches a running session still     *)
(* points into.  The user edits the same settings, runs the same managers  *)
(* and may replace the launcher or the pointer at any moment.              *)
(*                                                                         *)
(* The transaction layer itself is Transaction.tla; here a journal is what *)
(* these operations put into it, and putting the files back is one step.   *)
(* A settings file is the three things that matter in it: the marketplace, *)
(* the plugin entry and the security settings.  Two hosts differ in one    *)
(* way: a DirHost (Codex) lists the newest real version directory of its   *)
(* cache, the other (Claude Code) what it has registered.                  *)
(* Operators named Slip... are plausible mistakes in the one that follows. *)
(***************************************************************************)
EXTENDS Naturals, Sequences

CONSTANTS
  Proc,         \* installer commands that may run at the same time
  Host,         \* hosts that can be installed into
  DirHosts,     \* hosts that list the version directories of their cache
  MaxVersion,   \* releases are numbered 1..MaxVersion
  Place,        \* files outside the home: the PATH launcher and the pointer
  Launcher, Pointer,
  Restarting,   \* does a user ever pass --restart-update?
  Retrying,     \* does a user ever roll back again after an undo command failed?
  Nobody,       \* no host
  Locals,       \* subset of BOOLEAN: may a command install from a copy of the source (TRUE)?
  MaxOps,       \* bound: commands, besides the rollback of an unfinished one
  MaxUpsets     \* bound: user edits, failures and crashes together

ASSUME InstallAssumption ==
  /\ DirHosts \subseteq Host
  /\ Place = {Launcher, Pointer} /\ Launcher # Pointer
  /\ Nobody \notin Host
  /\ {Restarting, Retrying} \union Locals \subseteq BOOLEAN
  /\ {MaxVersion, MaxOps, MaxUpsets} \subseteq Nat

VARIABLES
  host,      \* what each host holds: settings file, registration, cache
  place,     \* what each file outside the home holds
  home,      \* install.json, current.json, runtimes, security-backups, trust
  journals,  \* the transactions, in id order
  proc,      \* the commands being run
  used       \* bounds already consumed

\* History the properties refer to.  The code has no such state.
VARIABLES
  begin,     \* the world when each transaction was opened
  edited,    \* transactions since whose begin the user changed something
  own,       \* the security settings the user last chose in each host
  theirs,    \* files outside the home that the user wrote
  window,    \* hosts and files the user changed while a command was under way
  shifted    \* hosts that undoing an uninstall left at another version than recorded

ghosts == <<begin, edited, own, theirs, window, shifted>>
vars == <<host, place, home, journals, proc, used, ghosts>>

----------------------------------------------------------------------------
(* Types *)

Version == 1..MaxVersion
Source == [from : {"none", "tag", "dir", "user", "cache"}, ver : 0..MaxVersion]
NoSource == [from |-> "none", ver |-> 0]
Tag(v) == [from |-> "tag", ver |-> v]        \* the release repository at v<version>
Dir(v) == [from |-> "dir", ver |-> v]        \* the copied runtime of a version
Theirs(v) == [from |-> "user", ver |-> v]    \* a marketplace of the same name, not ours

File == [market : Source, plugin : {"absent", "on", "off"},
         sec : {"plain", "custom", "baseline"}]
HostState == [file : File, reg : 0..MaxVersion, dirs : [Version -> {"none", "dir", "other", "alias"}]]
Fresh == [file |-> [market |-> NoSource, plugin |-> "absent", sec |-> "plain"],
          reg |-> 0, dirs |-> [v \in Version |-> "none"]]

Record == [on : BOOLEAN, orig : File, applied : File]
NoRecord == [on |-> FALSE, orig |-> Fresh.file, applied |-> Fresh.file]
Home == [version : 0..MaxVersion, hosts : SUBSET Host, src : [Host -> Source],
         path : [Host -> 0..MaxVersion], rec : [Host -> Record], ptr : BOOLEAN,
         current : 0..MaxVersion, runtimes : SUBSET Version, trust : 0..MaxVersion]
EmptyHome == [version |-> 0, hosts |-> {}, src |-> [h \in Host |-> NoSource],
              path |-> [h \in Host |-> 0], rec |-> [h \in Host |-> NoRecord], ptr |-> FALSE,
              current |-> 0, runtimes |-> {}, trust |-> 0]

Text == {"absent", "text", "other"}          \* ours by content, or something else
Command == [op : {"market add", "market remove", "plugin add", "plugin remove", "select"},
            host : Host, src : Source]
Cmd(op, h, src) == [op |-> op, host |-> h, src |-> src]
Undo == [cmd : Command, state : {"ready", "running", "failed", "done"}]
Kept == [on : {"no", "file", "all"}, before : HostState, signed : HostState, back : BOOLEAN]
KeptText == [on : BOOLEAN, before : Text, signed : Text]
Journal == [status : {"active", "committed", "incomplete", "rolled_back"},
            undo : Seq(Undo), conf : [Host -> Kept], text : [Place -> KeptText], home : Home]
Unfinished == {"active", "incomplete"}

Inventory == [market : Source, plugin : {"absent", "on", "off"}, version : 0..MaxVersion]
NoInventory == [market |-> NoSource, plugin |-> "absent", version |-> 0]
Steps == {"confirm", "files", "track", "host", "prepare", "select", "remove", "add", "drop",
          "plug", "verify", "settings", "record", "restore", "unplug", "unmarket", "gone",
          "forget", "commit"}
Stage == {"idle", "asked", "undo"} \union Steps
Request == [stage : Stage, op : {"none", "install", "update", "uninstall", "rollback"},
            hosts : SUBSET Host, ver : 0..MaxVersion, restart : BOOLEAN, enable : BOOLEAN,
            local : BOOLEAN, secure : BOOLEAN, old : Home, inv : [Host -> Inventory],
            seen : [Host -> File], src : [Host -> Source], refresh : SUBSET Host,
            ptr : [write : BOOLEAN, owned : BOOLEAN],
            left : SUBSET Host, cur : Host \union {Nobody}, k : Nat, bad : BOOLEAN]
Idle == [stage |-> "idle", op |-> "none", hosts |-> {}, ver |-> 0, restart |-> FALSE,
         enable |-> FALSE, local |-> FALSE, secure |-> FALSE, old |-> EmptyHome,
         inv |-> [h \in Host |-> NoInventory], seen |-> [h \in Host |-> Fresh.file],
         src |-> [h \in Host |-> NoSource], refresh |-> {},
         ptr |-> [write |-> FALSE, owned |-> FALSE],
         left |-> {}, cur |-> Nobody, k |-> 0, bad |-> FALSE]

Init ==
  /\ host = [h \in Host |-> Fresh]
  /\ place = [x \in Place |-> "absent"]
  /\ home = EmptyHome
  /\ journals = <<>>
  /\ proc = [p \in Proc |-> Idle]
  /\ used = [ops |-> 0, edits |-> 0, upsets |-> 0]
  /\ begin = <<>> /\ edited = {} /\ own = [h \in Host |-> "plain"]
  /\ theirs = {} /\ window = {} /\ shifted = {}

----------------------------------------------------------------------------
(* The hosts and their managers *)

Largest(S) == IF S = {} THEN 0 ELSE CHOOSE v \in S : \A w \in S : w <= v

\* A version directory holds our release or another ("other") marketplace's plugin; an
\* alias leads to the archived copy, which is never removed, and is not listed.
Real(s) == {v \in Version : s.dirs[v] \in {"dir", "other"}}
Listed(h, s) == IF h \in DirHosts THEN Largest(Real(s)) ELSE s.reg

Inv(h, s) ==
  [market |-> s.file.market, version |-> Listed(h, s),
   plugin |-> IF Listed(h, s) = 0 THEN "absent" ELSE s.file.plugin]

\* A local marketplace needs its runtime directory.
Usable(src) == src # NoSource /\ (src.from = "dir" => src.ver \in home.runtimes)

\* Plugin add of a DirHost prunes every other version; the other host only adds one.
PluginAdded(h, s) ==
  LET v == s.file.market.ver
      tree == IF s.file.market.from = "user" THEN "other" ELSE "dir"
      on == [s EXCEPT !.file.plugin = "on"]
  IN IF h \in DirHosts THEN [on EXCEPT !.dirs = [w \in Version |-> IF w = v THEN tree ELSE "none"]]
                       ELSE [on EXCEPT !.reg = v, !.dirs[v] = tree]
PluginRemoved(h, s) ==
  LET off == [s EXCEPT !.file.plugin = "absent", !.reg = 0]
  IN IF h \in DirHosts THEN [off EXCEPT !.dirs = Fresh.dirs] ELSE off
\* Removing a registered marketplace unregisters its plugins, but not in a DirHost.
MarketRemoved(h, s) ==
  LET bare == [s EXCEPT !.file.market = NoSource]
  IN IF h \in DirHosts THEN bare ELSE [bare EXCEPT !.file.plugin = "absent", !.reg = 0]

\* One real directory for v; the versions in S become aliases of their archived copy.
Selected(s, v, S) ==
  [s EXCEPT !.dirs = [w \in Version |-> IF w = v THEN "dir" ELSE IF w \in S THEN "alias" ELSE s.dirs[w]]]
Others(s, v) == Real(s) \ {v}

MayUpset == used.upsets < MaxUpsets

\* What a native command can do at best, and whether it has anything to do.
Able(c, s) ==
  CASE c.op = "market add" -> s.file.market = NoSource /\ Usable(c.src)
    [] c.op = "market remove" -> s.file.market # NoSource
    [] c.op = "plugin add" -> Usable(s.file.market)
    [] c.op = "plugin remove" -> s.file.plugin # "absent"
    [] c.op = "select" -> s.dirs[c.src.ver] # "none"
Effect(c, s) ==
  CASE c.op = "market add" -> [s EXCEPT !.file.market = c.src]
    [] c.op = "market remove" -> MarketRemoved(c.host, s)
    [] c.op = "plugin add" -> PluginAdded(c.host, s)
    [] c.op = "plugin remove" -> PluginRemoved(c.host, s)
    [] c.op = "select" -> Selected(s, c.src.ver, Others(s, c.src.ver))

\* run_command: the exit code and what the host holds afterwards.  A command may
\* fail before or (timeout) after its effect; one with nothing to do reports either.
Outcomes(c) ==
  LET s == host[c.host]
      harmless == c.op = "market add" => s.file.market # NoSource
      results == IF c.op \in {"plugin add", "select"} \/ ~harmless THEN {FALSE} ELSE BOOLEAN
      faulty == IF MayUpset THEN {s, Effect(c, s)} ELSE {}
  IN IF Able(c, s)
     THEN {[s |-> Effect(c, s), ok |-> TRUE, cost |-> 0]}
            \union {[s |-> t, ok |-> FALSE, cost |-> 1] : t \in faulty}
     ELSE {[s |-> s, ok |-> r, cost |-> 0] : r \in results}

----------------------------------------------------------------------------
(* The journal of the running transaction *)

Last == Len(journals)
Now == journals[Last]
Save(j) == journals' = [journals EXCEPT ![Last] = j]
NoKept == [on |-> "no", before |-> Fresh, signed |-> Fresh, back |-> FALSE]
NoText == [on |-> FALSE, before |-> "absent", signed |-> "absent"]

\* The lock: a command holds it from the begin of its transaction to the end.
Running(p) == proc[p].stage \notin {"idle", "asked"}
Free == \A p \in Proc : ~Running(p)
NoneUnfinished == \A i \in DOMAIN journals : journals[i].status \notin Unfinished

\* track_external_mutable of the settings file, or of the cache and registries too.
Track(j, h, s) ==
  [j EXCEPT !.conf[h] = [NoKept EXCEPT !.on = "file", !.before = s, !.signed = s]]
TrackAll(j, h) ==
  [j EXCEPT !.conf[h] = [NoKept EXCEPT !.on = "all",
                           !.signed = [host[h] EXCEPT !.file = j.conf[h].signed.file],
                           !.before = [host[h] EXCEPT !.file = j.conf[h].before.file]]]
\* _mark_applied after the installer wrote the settings file of h itself.
Signed(j, h, s) == IF j.conf[h].on = "no" THEN j ELSE [j EXCEPT !.conf[h].signed = s]
\* _refresh_external_mutable after a native command.
SignAll(j, hs) ==
  [j EXCEPT !.conf = [h \in Host |-> IF j.conf[h].on = "no" THEN j.conf[h]
                                     ELSE [j.conf[h] EXCEPT !.signed = hs[h], !.back = FALSE]]]
SameFile(k, s) == k.on # "no" => s.file = k.signed.file
SameRest(k, s) == k.on = "all" => s.reg = k.signed.reg /\ s.dirs = k.signed.dirs
Same(k, s) == SameFile(k, s) /\ SameRest(k, s)
Conflict(j) == \E h \in Host : ~Same(j.conf[h], host[h])

Queue(j, cmd) == [j EXCEPT !.undo = Append(@, [cmd |-> cmd, state |-> "ready"])]
\* Write a file outside the home, with its backup and signature.
Put(j, x, t) ==
  [j EXCEPT !.text[x] = [on |-> TRUE, signed |-> t,
                         before |-> IF @.on THEN @.before ELSE place[x]]]

Go(p, stage) == proc' = [proc EXCEPT ![p].stage = stage]
Leave(p) == proc' = [proc EXCEPT ![p] = Idle]
\* A raise inside the transaction: roll back from the last undo command.
Abort(p) == proc' = [proc EXCEPT ![p].stage = "undo", ![p].k = Len(Now.undo), ![p].bad = FALSE]
Spend(c) == used' = [used EXCEPT !.upsets = @ + c]
Unspent == used' = used

\* Transaction.external: refuse when a watched file changed, journal the command,
\* run it, sign again; a failed command keeps its undo and ends the operation.
External(p, c, undo, next) ==
  LET j == IF undo = <<>> THEN Now ELSE Queue(Now, undo[1])
  IN /\ IF Conflict(Now)
        THEN Abort(p) /\ Unspent /\ UNCHANGED <<host, journals>>
        ELSE \E o \in Outcomes(c) :
               LET after == [host EXCEPT ![c.host] = o.s]
               IN /\ host' = after
                  /\ Save(SignAll(j, after))
                  /\ IF o.ok THEN Go(p, next)
                     ELSE proc' = [proc EXCEPT ![p].stage = "undo", ![p].k = Len(j.undo),
                                               ![p].bad = FALSE]
                  /\ Spend(o.cost)
     /\ UNCHANGED <<place, home, ghosts>>

\* The process dies while the command runs: journalled, perhaps done, not signed.
DiesRunning(p, c, undo) ==
  /\ MayUpset
  /\ ~Conflict(Now)
  /\ \E s \in {host[c.host], Effect(c, host[c.host])} :
       host' = [host EXCEPT ![c.host] = IF Able(c, host[c.host]) THEN s ELSE host[c.host]]
  /\ Save(IF undo = <<>> THEN Now ELSE Queue(Now, undo[1]))
  /\ Leave(p)
  /\ Spend(1)
  /\ UNCHANGED <<place, home, ghosts>>

----------------------------------------------------------------------------
(* What a command reads before the lock: validation, probes, the plan *)

Chosen(p) == proc[p].hosts
Previous(r) == r.old.hosts
Replacing(r) == r.op = "update" \/ (r.old.version # 0 /\ r.old.version # r.ver)
Replaces(r, h) == Replacing(r) /\ h \in Previous(r)
Live(r, h) == Replaces(r, h) /\ r.inv[h].plugin # "absent"
Refreshed(r) == {h \in r.hosts : Replaces(r, h) /\ r.old.rec[h].on}

\* _host_ownership: never adopt a marketplace or a plugin the installer did not record.
MayOwn(r, h) ==
  LET inv == r.inv[h]
  IN /\ inv.plugin # "absent" => inv.market # NoSource
     /\ IF h \in Previous(r) THEN inv.market \in {NoSource, r.old.src[h]}
        ELSE inv.market = NoSource /\ inv.plugin = "absent"

\* validate_restore: the settings must still be what the installer applied.
Restorable(rec, s) == rec.on => s.file = rec.applied

\* _location_pointer_plan
PointerPlan ==
  LET owned == home.ptr /\ place[Pointer] = "text"
  IN [write |-> place[Pointer] # "text", owned |-> owned \/ place[Pointer] = "absent"]

Ask(p, r) ==
  /\ proc[p].stage = "idle" /\ used.ops < MaxOps
  /\ proc' = [proc EXCEPT ![p] = r]
  /\ used' = [used EXCEPT !.ops = @ + 1]
  /\ UNCHANGED <<host, place, home, journals, begin, edited, own, theirs, window, shifted>>

\* install.json of a home.  Its time stamps, to the second, are left out.
Metadata(m) == [m EXCEPT !.current = 0, !.runtimes = {}, !.trust = 0]

Reads == [Idle EXCEPT !.stage = "asked", !.old = Metadata(home),
          !.inv = [h \in Host |-> Inv(h, host[h])], !.seen = [h \in Host |-> host[h].file],
          !.ptr = PointerPlan]

\* _prepare_install and _probe_install_hosts
Probed(r) ==
  /\ r.restart =>
       r.op = "update" /\ r.old.version \notin {0, r.ver} /\ r.old.version \in home.runtimes
  /\ r.enable => r.restart
  /\ place[Pointer] # "other"
  /\ \A h \in r.hosts :
       /\ MayOwn(r, h)
       /\ Replacing(r) /\ r.inv[h].plugin = "off" => r.restart /\ r.enable
       /\ h \in Refreshed(r) => Restorable(home.rec[h], host[h])

AskInstall(p) ==
  \E hs \in SUBSET Host \ {{}}, v \in Version, local \in Locals, secure \in BOOLEAN :
    LET r == [Reads EXCEPT !.op = "install", !.hosts = hs, !.ver = v,
                           !.local = local, !.secure = secure]
    IN /\ Probed(r)
       /\ Ask(p, [r EXCEPT !.refresh = Refreshed(r)])

\* update: every recorded host, and the security mode the metadata names as a whole.
UpdateSecurity == \E h \in Host : home.rec[h].on
AskUpdate(p) ==
  \E v \in Version, local \in Locals, restart, enable \in BOOLEAN :
    LET r == [Reads EXCEPT !.op = "update", !.hosts = home.hosts, !.ver = v, !.local = local,
                           !.secure = UpdateSecurity, !.restart = restart, !.enable = enable]
    IN /\ home.hosts # {} /\ restart => Restarting
       /\ Probed(r)
       /\ Ask(p, [r EXCEPT !.refresh = Refreshed(r)])

\* _prepare_uninstall and _probe_uninstall_hosts
AskUninstall(p) ==
  \E hs \in SUBSET home.hosts \ {{}} :
    LET r == [Reads EXCEPT !.op = "uninstall", !.hosts = hs]
    IN /\ \A h \in hs : /\ Restorable(home.rec[h], host[h])
                        /\ r.inv[h].market \in {NoSource, home.src[h]}
       /\ hs = home.hosts =>
            place[Launcher] = "text" /\ (home.ptr => place[Pointer] # "other")
       /\ Ask(p, r)

----------------------------------------------------------------------------
(* The transaction: begin, and what is checked again inside it *)

Open(p) ==
  /\ journals' = Append(journals, [status |-> "active", undo |-> <<>>, home |-> home,
                   conf |-> [h \in Host |-> NoKept], text |-> [x \in Place |-> NoText]])
  /\ begin' = Append(begin, [host |-> host, place |-> place, home |-> home])
  /\ Go(p, "confirm")

Begin(p) ==
  /\ proc[p].stage = "asked" /\ Free
  /\ IF NoneUnfinished THEN Open(p) ELSE Leave(p) /\ UNCHANGED <<journals, begin>>
  /\ UNCHANGED <<host, place, home, used, edited, own, theirs, window, shifted>>

\* _confirm_install_inputs_unchanged and its part of _apply_uninstall
SlipConfirmed(r) == Metadata(home) = r.old
Confirmed(r) ==
  /\ Metadata(home) = r.old
  /\ \A h \in r.hosts : Inv(h, host[h]) = r.inv[h]
  /\ r.op # "uninstall" /\ r.secure => \A h \in r.hosts : host[h].file = r.seen[h]

Confirm(p) ==
  LET r == proc[p]
  IN /\ r.stage = "confirm"
     /\ IF ~Confirmed(r) THEN Abort(p)
        ELSE proc' = [proc EXCEPT ![p].left = r.hosts,
                        ![p].stage = IF r.op = "uninstall" THEN "host" ELSE "files"]
     /\ UNCHANGED <<host, place, home, journals, used, ghosts>>

----------------------------------------------------------------------------
(* Install and update: the stages of _apply_install *)

\* _install_runtime_files: runtime, launchers (never over a foreign one), current.json.
MayWriteLauncher(p) == place[Launcher] # "other"
WriteFiles(p) ==
  /\ proc[p].stage = "files"
  /\ IF ~MayWriteLauncher(p) THEN Abort(p) /\ UNCHANGED <<place, home, journals>>
     ELSE /\ Save(Put(Now, Launcher, "text"))
          /\ place' = [place EXCEPT ![Launcher] = "text"]
          /\ home' = [home EXCEPT !.current = proc[p].ver, !.runtimes = @ \union {proc[p].ver}]
          /\ Go(p, "track")
  /\ UNCHANGED <<host, used, ghosts>>

\* restore(): the whole original settings file comes back, once it is tracked.
SlipRestored(rec, s) == IF rec.on THEN [s EXCEPT !.file = rec.applied] ELSE s
Restored(rec, s) == IF rec.on THEN [s EXCEPT !.file = rec.orig] ELSE s

\* _restore_security_for_refresh
TrackHosts(p) ==
  LET r == proc[p]
      after == [h \in Host |-> IF h \in r.refresh THEN Restored(r.old.rec[h], host[h]) ELSE host[h]]
  IN /\ r.stage = "track"
     /\ host' = after
     /\ Save([Now EXCEPT !.conf = [h \in Host |-> IF h \in r.hosts
          THEN Signed(Track(Now, h, host[h]), h, after[h]).conf[h] ELSE @[h]]])
     /\ home' = [home EXCEPT !.rec = [h \in Host |-> IF h \in r.refresh THEN NoRecord ELSE @[h]],
                             !.trust = IF r.hosts \cap DirHosts = {} THEN @ ELSE 0]
     /\ Go(p, "host")
     /\ UNCHANGED <<place, used, ghosts>>

\* The next host of the loop; after the last one the installed hooks are smoke-tested.
NextHost(p) ==
  LET r == proc[p]
  IN /\ r.stage = "host"
     /\ \/ \E h \in r.left :
             proc' = [proc EXCEPT ![p].cur = h, ![p].left = @ \ {h},
                        ![p].stage = IF r.op = "uninstall" THEN "restore" ELSE "prepare"]
        \/ /\ r.left = {}
           /\ proc' = [proc EXCEPT ![p].cur = Nobody,
                ![p].stage = IF r.op = "uninstall" THEN "forget" ELSE "settings",
                ![p].left = IF r.secure THEN r.hosts ELSE r.refresh]
     /\ UNCHANGED <<host, place, home, journals, used, ghosts>>

\* _manager_steps, before any native command: backups and the undo of what follows.
Prepare(p) ==
  LET r == proc[p]  h == r.cur  live == Live(r, h)
      revive == r.enable /\ r.inv[h].plugin = "off"
      family == /\ r.old.path[h] # 0
                /\ \/ host[h].dirs[r.old.path[h]] \in {"dir", "other"}
                   \/ revive /\ host[h].dirs[r.old.path[h]] = "none"
  IN /\ r.stage = "prepare"
     /\ IF live /\ r.restart /\ ~family
        THEN Abort(p) /\ UNCHANGED journals
        ELSE /\ CASE live /\ r.restart ->
                       Save(Queue(TrackAll(Now, h), Cmd("plugin add", h, NoSource)))
                  [] live /\ ~r.restart /\ h \in DirHosts ->
                       Save(Queue(Now, Cmd("select", h, [from |-> "cache", ver |-> r.old.path[h]])))
                  [] live /\ ~r.restart /\ h \notin DirHosts ->
                       Save(Queue(Now, Cmd("plugin add", h, NoSource)))
                  [] ~live -> UNCHANGED journals
             /\ Go(p, IF live /\ ~r.restart /\ h \in DirHosts THEN "select" ELSE "remove")
     /\ UNCHANGED <<host, place, home, used, ghosts>>

\* retain_external_tree and select_cache: the staged version becomes the one real
\* directory; stopping in between leaves some of the others not yet aliased.  A
\* directory of that version with other content is refused.
SlipSwitched(s, v, S) == PluginAdded(CHOOSE h \in DirHosts : TRUE, [s EXCEPT !.file.market = Tag(v)])
Switched(s, v, S) == Selected(s, v, S)
SwitchCache(p) ==
  LET r == proc[p]  h == r.cur
  IN /\ r.stage = "select"
     /\ \/ host[h].dirs[r.ver] = "other" /\ Abort(p) /\ UNCHANGED <<host, used>>
        \/ /\ host[h].dirs[r.ver] # "other"
           /\ \E S \in SUBSET Others(host[h], r.ver) :
                /\ host' = [host EXCEPT ![h] = Switched(@, r.ver, S)]
                /\ \/ S = Others(host[h], r.ver) /\ Go(p, "remove") /\ Unspent
                   \/ MayUpset /\ Spend(1) /\ (Abort(p) \/ Leave(p))
     /\ UNCHANGED <<place, home, journals, ghosts>>

\* The old marketplace goes; its undo brings back the recorded source, or in a
\* restart update the old runtime.
RemoveMarket(p) ==
  LET r == proc[p]  h == r.cur
      undo == Cmd("market add", h, IF r.restart THEN Dir(r.old.version) ELSE r.inv[h].market)
      cmd == Cmd("market remove", h, NoSource)
  IN /\ r.stage = "remove"
     /\ IF Replaces(r, h) /\ r.inv[h].market # NoSource
        THEN External(p, cmd, <<undo>>, "add") \/ DiesRunning(p, cmd, <<undo>>)
        ELSE Go(p, "add") /\ UNCHANGED <<host, place, home, journals, used, ghosts>>

\* After a removal the inventory is read again, otherwise the probe still counts.
AddMarket(p) ==
  LET r == proc[p]  h == r.cur
      market == IF Replaces(r, h) THEN host[h].file.market ELSE r.inv[h].market
      cmd == Cmd("market add", h, IF r.local THEN Dir(r.ver) ELSE Tag(r.ver))
      undo == Cmd("market remove", h, NoSource)
  IN /\ r.stage = "add"
     /\ IF market = NoSource
        THEN External(p, cmd, <<undo>>, "drop") \/ DiesRunning(p, cmd, <<undo>>)
        ELSE Go(p, "drop") /\ UNCHANGED <<host, place, home, journals, used, ghosts>>

\* A disabled plugin of ours is removed first so that adding it enables it.
DropDisabled(p) ==
  LET r == proc[p]  h == r.cur
      cmd == Cmd("plugin remove", h, NoSource)
      undo == Cmd("plugin add", h, NoSource)
  IN /\ r.stage = "drop"
     /\ IF r.inv[h].plugin = "off" /\ ~Replaces(r, h)
        THEN External(p, cmd, <<undo>>, "plug") \/ DiesRunning(p, cmd, <<undo>>)
        ELSE Go(p, "plug") /\ UNCHANGED <<host, place, home, journals, used, ghosts>>

AddPlugin(p) ==
  LET r == proc[p]  h == r.cur
      relist == Live(r, h) /\ h \notin DirHosts    \* its undo is already queued
      native == /\ ~Live(r, h) \/ r.restart
                /\ r.inv[h].plugin # "on" \/ Replaces(r, h)
      cmd == Cmd("plugin add", h, NoSource)
      undo == IF relist THEN <<>> ELSE <<Cmd("plugin remove", h, NoSource)>>
  IN /\ r.stage = "plug"
     /\ IF relist \/ native
        THEN External(p, cmd, undo, "verify") \/ DiesRunning(p, cmd, undo)
        ELSE Go(p, "verify") /\ UNCHANGED <<host, place, home, journals, used, ghosts>>

\* The inventory afterwards must show the version; its source is what gets recorded.
Shows(inv, v) == inv.market # NoSource /\ inv.plugin = "on" /\ inv.version = v
Verify(p) ==
  LET r == proc[p]  h == r.cur  inv == Inv(h, host[h])
  IN /\ r.stage = "verify"
     /\ IF Shows(inv, r.ver)
        THEN proc' = [proc EXCEPT ![p].stage = "host", ![p].src[h] = inv.market]
        ELSE Abort(p)
     /\ UNCHANGED <<host, place, home, journals, used, ghosts>>

\* security.apply after the managers are done, so that the record describes the final file.
Baseline(f) == [f EXCEPT !.sec = "baseline"]
ApplySettings(p) ==
  LET r == proc[p]
  IN /\ r.stage = "settings"
     /\ \/ \E h \in r.left :
             LET rec == home.rec[h]
                 after == [host EXCEPT ![h].file = Baseline(@)]
             IN IF rec.on
                THEN /\ IF host[h].file = rec.applied
                        THEN proc' = [proc EXCEPT ![p].left = @ \ {h}] ELSE Abort(p)
                     /\ UNCHANGED <<host, home, journals>>
                ELSE /\ host' = after
                     /\ Save(Signed(Now, h, after[h]))
                     /\ home' = [home EXCEPT !.rec[h] = [on |-> TRUE, orig |-> host[h].file,
                                                         applied |-> after[h].file]]
                     /\ proc' = [proc EXCEPT ![p].left = @ \ {h}]
        \/ r.left = {} /\ Go(p, "record") /\ UNCHANGED <<host, home, journals>>
     /\ UNCHANGED <<place, used, ghosts>>

\* _write_location_pointer (as planned at the start) and _install_metadata
RecordInstall(p) ==
  LET r == proc[p]
  IN /\ r.stage = "record"
     /\ IF r.ptr.write
        THEN Save(Put(Now, Pointer, "text")) /\ place' = [place EXCEPT ![Pointer] = "text"]
        ELSE UNCHANGED <<journals, place>>
     /\ home' = [home EXCEPT !.version = r.ver, !.hosts = r.old.hosts \union r.hosts,
          !.ptr = r.ptr.owned,
          !.src = [h \in Host |-> IF h \in r.hosts THEN r.src[h] ELSE @[h]],
          !.path = [h \in Host |-> IF h \in r.hosts THEN r.ver ELSE @[h]]]
     /\ Go(p, "commit")
     /\ UNCHANGED <<host, used, ghosts>>

Commit(p) ==
  /\ proc[p].stage = "commit"
  /\ Save([Now EXCEPT !.status = "committed"]) /\ Leave(p)
  /\ UNCHANGED <<host, place, home, used, ghosts>>

----------------------------------------------------------------------------
(* Uninstall: the stages of _apply_uninstall *)

\* Track the settings file, then put the original back before the plugin goes.
SlipGiveBack(rec, s) == s
GiveBack(rec, s) == Restored(rec, s)
RestoreSettings(p) ==
  LET h == proc[p].cur
      after == [host EXCEPT ![h] = GiveBack(home.rec[h], @)]
  IN /\ proc[p].stage = "restore"
     /\ host' = after
     /\ Save(Signed(Track(Now, h, host[h]), h, after[h]))
     /\ Go(p, "unplug")
     /\ UNCHANGED <<place, home, used, ghosts>>

RemovePlugin(p) ==
  LET r == proc[p]  h == r.cur
      cmd == Cmd("plugin remove", h, NoSource)
      undo == Cmd("plugin add", h, NoSource)
  IN /\ r.stage = "unplug"
     /\ IF r.inv[h].plugin # "absent"
        THEN External(p, cmd, <<undo>>, "unmarket") \/ DiesRunning(p, cmd, <<undo>>)
        ELSE Go(p, "unmarket") /\ UNCHANGED <<host, place, home, journals, used, ghosts>>

\* Unlike an update, the undo here is the release tag of the recorded version.
RemoveOwnedMarket(p) ==
  LET r == proc[p]  h == r.cur
      cmd == Cmd("market remove", h, NoSource)
      undo == Cmd("market add", h, Tag(r.old.version))
  IN /\ r.stage = "unmarket"
     /\ IF r.inv[h].market # NoSource
        THEN External(p, cmd, <<undo>>, "gone") \/ DiesRunning(p, cmd, <<undo>>)
        ELSE Go(p, "gone") /\ UNCHANGED <<host, place, home, journals, used, ghosts>>

Gone(inv) == inv.plugin = "absent" /\ inv.market = NoSource
VerifyGone(p) ==
  LET h == proc[p].cur
  IN /\ proc[p].stage = "gone"
     /\ IF Gone(Inv(h, host[h]))
        THEN /\ home' = [home EXCEPT !.rec[h] = NoRecord,
                                     !.trust = IF h \in DirHosts THEN 0 ELSE @]
             /\ Go(p, "host")
        ELSE Abort(p) /\ UNCHANGED home
     /\ UNCHANGED <<host, place, journals, used, ghosts>>

\* install.json without the hosts; after the last one _remove_runtime_files.
SlipRemaining(r) == {}
Remaining(r) == home.hosts \ r.hosts
Forget(p) ==
  LET r == proc[p]
      left == Remaining(r)
      clear == {Launcher} \union (IF home.ptr THEN {Pointer} ELSE {})
      gone == [home EXCEPT !.hosts = left,
                 !.src = [h \in Host |-> IF h \in left THEN @[h] ELSE NoSource],
                 !.path = [h \in Host |-> IF h \in left THEN @[h] ELSE 0]]
  IN /\ r.stage = "forget"
     /\ IF left # {} THEN home' = gone /\ UNCHANGED <<place, journals>>
        ELSE /\ home' = [gone EXCEPT !.current = 0, !.runtimes = {}]
             /\ place' = [x \in Place |-> IF x \in clear THEN "absent" ELSE place[x]]
             /\ Save([Now EXCEPT !.text = [x \in Place |->
                  IF x \in clear /\ place[x] # "absent"
                  THEN [on |-> TRUE, before |-> place[x], signed |-> "absent"] ELSE @[x]]])
     /\ Go(p, "commit")
     /\ UNCHANGED <<host, used, ghosts>>

----------------------------------------------------------------------------
(* Rollback, automatic or by command; failures and crashes *)

\* rollback_saved "latest": the newest transaction that can still be undone.
Rollbackable == {i \in DOMAIN journals : journals[i].status # "rolled_back"}
HasFailed(j) == \E k \in DOMAIN j.undo : j.undo[k].state = "failed"
StartRollback(p) ==
  /\ proc[p].stage = "idle" /\ Free /\ Rollbackable # {}
  /\ NoneUnfinished => used.ops < MaxOps
  /\ LET i == Largest(Rollbackable)
     IN /\ Retrying \/ ~HasFailed(journals[i])
        /\ journals' = Append(SubSeq(journals, 1, i - 1), [journals[i] EXCEPT !.status = "active"])
        /\ begin' = SubSeq(begin, 1, i)
        /\ edited' = edited \cap 1..i
        /\ proc' = [proc EXCEPT ![p] = [Idle EXCEPT !.stage = "undo", !.op = "rollback",
                                                    !.k = Len(journals[i].undo)]]
  /\ used' = [used EXCEPT !.ops = @ + IF NoneUnfinished THEN 1 ELSE 0]
  /\ UNCHANGED <<host, place, home, own, theirs, window, shifted>>

\* One undo command of _restore.  A changed watched file stops the native undos; one
\* that was running when a rollback died is never run again, one that failed is.
UndoNext(p) ==
  LET r == proc[p]  u == Now.undo[r.k]
      settle(ok, state) == Save(SignAll([Now EXCEPT !.undo[r.k].state = state], host'))
                           /\ proc' = [proc EXCEPT ![p].k = @ - 1, ![p].bad = @ \/ ~ok]
  IN /\ r.stage = "undo" /\ r.k > 0
     /\ \/ /\ u.state = "done" \/ u.state = "running"
           /\ proc' = [proc EXCEPT ![p].k = @ - 1, ![p].bad = @ \/ u.state = "running"]
           /\ Unspent /\ UNCHANGED <<host, journals>>
        \/ /\ u.state \in {"ready", "failed"} /\ Conflict(Now)
           /\ proc' = [proc EXCEPT ![p].k = 0, ![p].bad = TRUE]
           /\ Unspent /\ UNCHANGED <<host, journals>>
        \/ /\ u.state \in {"ready", "failed"} /\ ~Conflict(Now)
           /\ \E o \in Outcomes(u.cmd) :
                /\ host' = [host EXCEPT ![u.cmd.host] = o.s]
                /\ settle(o.ok, IF o.ok THEN "done" ELSE "failed")
                /\ Spend(o.cost)
        \/ /\ u.state \in {"ready", "failed"} /\ ~Conflict(Now)
           /\ MayUpset /\ Spend(1)
           /\ \E o \in Outcomes(u.cmd) : host' = [host EXCEPT ![u.cmd.host] = o.s]
           /\ Save([Now EXCEPT !.undo[r.k].state = "running"])
           /\ Leave(p)
     /\ UNCHANGED <<place, home, ghosts>>

\* Then every file goes back unless it changed since or is back already; the home's
\* files always do.  PutBack(k, s, a, b): the watched parts of b where s is unchanged, else a.
PutBack(k, s, a, b) ==
  IF k.on = "no" \/ k.back THEN a
  ELSE LET rest == IF k.on = "all" /\ SameRest(k, s) THEN b ELSE a
       IN [file |-> IF SameFile(k, s) THEN b.file ELSE a.file, reg |-> rest.reg, dirs |-> rest.dirs]
Untouched(j) ==
  /\ \A h \in Host : j.conf[h].back \/ Same(j.conf[h], host[h])
  /\ \A x \in Place : j.text[x].on => place[x] = j.text[x].signed
\* The undo of an uninstall adds the release tag of the home's version, whatever
\* version was recorded for the host.
Skewed(j, h) ==
  /\ j.conf[h].on = "file"
  /\ \E k \in DOMAIN j.undo : LET c == j.undo[k].cmd
                               IN c.host = h /\ c.op = "market add" /\ c.src.ver # j.home.path[h]
SlipWhole(r, j) == Untouched(j)
Whole(r, j) == Untouched(j) /\ ~r.bad
RestoreFiles(p) ==
  LET r == proc[p]  j == Now
      ok == Whole(r, j)
      fresh(x) == j.text[x].on /\ place[x] = j.text[x].signed
      kept(k, s) == [k EXCEPT !.signed = PutBack(k, s, k.signed, k.before),
                              !.back = k.on # "no" /\ (@ \/ Same(k, s))]
  IN /\ r.stage = "undo" /\ r.k = 0
     /\ host' = [h \in Host |-> PutBack(j.conf[h], host[h], host[h], j.conf[h].before)]
     /\ place' = [x \in Place |-> IF fresh(x) THEN j.text[x].before ELSE place[x]]
     /\ home' = j.home
     /\ Save([j EXCEPT !.status = IF ok THEN "rolled_back" ELSE "incomplete",
                       !.conf = [h \in Host |-> kept(@[h], host[h])],
                       !.text = [x \in Place |-> IF fresh(x) THEN NoText ELSE @[x]]])
     /\ Leave(p)
     /\ shifted' = shifted \union {h \in Host : Skewed(j, h)}
     /\ UNCHANGED <<used, begin, edited, own, theirs, window>>

\* attest_codex_trust: a transaction of one write, for the recorded plugin directory.
Attest(p) ==
  /\ proc[p].stage = "idle" /\ used.ops < MaxOps
  /\ Free /\ NoneUnfinished
  /\ \E h \in DirHosts \cap home.hosts :
       /\ Inv(h, host[h]).plugin = "on"
       /\ host[h].dirs[home.path[h]] # "none" /\ home.path[h] = home.version
  /\ journals' = Append(journals, [status |-> "committed", undo |-> <<>>, home |-> home,
                   conf |-> [h \in Host |-> NoKept], text |-> [x \in Place |-> NoText]])
  /\ begin' = Append(begin, [host |-> host, place |-> place, home |-> home])
  /\ home' = [home EXCEPT !.trust = home.version]
  /\ used' = [used EXCEPT !.ops = @ + 1]
  /\ UNCHANGED <<host, place, proc, edited, own, theirs, window, shifted>>

\* _check_host: what doctor calls a host that is installed and in order.
Healthy(h) ==
  LET inv == Inv(h, host[h])
  IN /\ inv.plugin = "on" /\ inv.version = home.version /\ inv.market = home.src[h]
     /\ home.path[h] = home.version /\ host[h].dirs[home.path[h]] # "none"

\* Copying, a smoke test, Ctrl+C: any stage may raise.
Fail(p) ==
  /\ proc[p].stage \in Steps /\ MayUpset
  /\ Abort(p)
  /\ Spend(1)
  /\ UNCHANGED <<host, place, home, journals, ghosts>>

Crash(p) ==
  /\ Running(p) /\ MayUpset
  /\ Leave(p)
  /\ Spend(1)
  /\ UNCHANGED <<host, place, home, journals, ghosts>>

----------------------------------------------------------------------------
(* The user *)

\* Between the stages in "looked" and the end of the command nothing looks again.
Edit(x, looked) ==
  /\ MayUpset /\ used' = [used EXCEPT !.edits = @ + 1, !.upsets = @ + 1]
  /\ edited' = edited \union DOMAIN journals
  /\ window' = IF \A p \in Proc : proc[p].stage \in looked THEN window ELSE window \union {x}
  /\ UNCHANGED <<home, journals, proc, begin, shifted>>

EditSettings(h) ==
  \E s \in {"plain", "custom"} \ {host[h].file.sec} :
    /\ host' = [host EXCEPT ![h].file.sec = s] /\ own' = [own EXCEPT ![h] = s]
    /\ Edit(h, {"idle"}) /\ UNCHANGED <<place, theirs>>

\* The user's own use of the host: enable, disable, remove, or another marketplace.
UserChoices(h) ==
  LET s == host[h]
      swapped == {[MarketRemoved(h, s) EXCEPT !.file.market = Theirs(v)] : v \in Version}
  IN {PluginRemoved(h, s), MarketRemoved(h, s)}
     \union swapped \union {PluginAdded(h, t) : t \in swapped}
     \union (IF s.file.plugin = "absent" THEN {}
             ELSE {[s EXCEPT !.file.plugin = e] : e \in {"on", "off"}})
RunManager(h) ==
  \E s \in UserChoices(h) \ {host[h]} :
    /\ host' = [host EXCEPT ![h] = s]
    /\ Edit(h, {"idle", "asked", "confirm"}) /\ UNCHANGED <<place, own, theirs>>

\* Even a pointer with the very text the installer would write is the user's, but not
\* when the installer wrote one and still answers for it (operations.py:381-383).
Claimed ==
  home.ptr \/ \E i \in DOMAIN journals :
    journals[i].text[Pointer].on /\ journals[i].text[Pointer].signed = "text"
WritePlace(x) ==
  \E t \in (IF x = Pointer THEN Text ELSE {"absent", "other"}) \ {place[x]} :
    /\ place' = [place EXCEPT ![x] = t]
    /\ theirs' = IF t = "other" \/ (t = "text" /\ ~Claimed) THEN theirs \union {x} ELSE theirs \ {x}
    /\ Edit(x, {"idle"}) /\ UNCHANGED <<host, own>>

----------------------------------------------------------------------------
Stages(p) ==
  \/ WriteFiles(p) \/ TrackHosts(p) \/ NextHost(p)
  \/ Prepare(p) \/ SwitchCache(p) \/ RemoveMarket(p) \/ AddMarket(p)
  \/ DropDisabled(p) \/ AddPlugin(p) \/ Verify(p)
  \/ ApplySettings(p) \/ RecordInstall(p)
  \/ RestoreSettings(p) \/ RemovePlugin(p) \/ RemoveOwnedMarket(p)
  \/ VerifyGone(p) \/ Forget(p) \/ Commit(p)

Next ==
  \/ \E p \in Proc :
       \/ AskInstall(p) \/ AskUpdate(p) \/ AskUninstall(p)
       \/ Begin(p) \/ Confirm(p) \/ Stages(p)
       \/ StartRollback(p) \/ UndoNext(p) \/ RestoreFiles(p)
       \/ Attest(p) \/ Fail(p) \/ Crash(p)
  \/ \E h \in Host : EditSettings(h) \/ RunManager(h)
  \/ \E x \in Place : WritePlace(x)

Spec == Init /\ [][Next]_vars

============================================================================
