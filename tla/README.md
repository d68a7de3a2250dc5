# Kiseki DA in TLA+

Kiseki DA is a personal harness for coding agents. An installer puts plugins into the Claude Code
and Codex hosts and keeps every change undoable. A runtime (hooks and the `kiseki-da` command) keeps
the user's profile, task cards and one event log, and feeds them to the agent. This directory holds
TLA+ modules of the parts where order, failure and concurrency matter, TLC configurations that check
them on small instances, and TLAPS proofs for every instance.

Paths below are relative to the repository; `core/ctx/` stands for `plugins/kiseki-da/core/ctx/`.

## The system

| Part | Code | State it keeps | Operations | What is hard |
|---|---|---|---|---|
| Installer transactions | `installer/transaction.py` | `transactions/<id>/journal.json`, backups, `.mutation.lock` | begin, backup, write, watch, external command, commit, rollback, manual rollback | crash between any two steps, retry, user edits, native managers that edit the same files |
| Install, update, uninstall | `installer/operations.py`, `hosts.py`, `cli.py` | `install.json`, `current.json`, runtimes, launcher, pointer | install, update (ordinary, restarting), uninstall, rollback, attestation of hooks | what was read before the lock; the undo of each native command; hosts that behave differently |
| Host security settings | `installer/security.py` | `security-backups/`, the hosts' settings files | apply, validate, restore | whose settings the record describes after updates and rollbacks |
| Plugin cache | `installer/cache.py` | version directories and aliases | select, undo | sessions that run hooks out of the directory being exchanged |
| Project creation and recovery | `installer/projects.py` | the project's files and its journal | create, publish, recover, rollback | check then rename; recovery that edits a journal |
| Skill migration and export | `installer/skill_migration.py`, `packs.py` | migration record, holding folder, archive | migrate, roll back, export | failure between two moves; the user's folder is being used |
| Long-term memory | `core/ctx/store.py`, `cmd_memory.py` | `profile.toml`, archive, `candidates.jsonl`, `approvals/*.json` | add candidate, approve, reject, remember | one approval writes six files; retry after failure; two stores |
| Event log and sessions | `core/ctx/store.py`, `fileio.py`, `cli_common.py` | `events.jsonl`, `session/active/*`, `session/current` | append event, set / clear session, record user input | parallel hooks, best-effort lock, several sessions |
| Task cards and evidence | `core/ctx/taskcard.py`, `cmd_task.py`, `evidence.py` | `tasks/*.md`, tool events | new, set, evidence, close, defer, verify | evidence that goes stale, check before write |
| Hooks, guard, stop gate | `core/ctx/hooks.py`, `gate.py`, `scripts/hook_entry.py` | guard and gate events, overrides | pre-tool, post-tool, stop, session start / end | single-use overrides, one block per card and session, hooks cut short |
| Context building | `core/ctx/build.py`, `search.py`, `report.py` | none of its own | build, required context pages | pages read while constraints change |
| Scope registry, persona | `core/ctx/scope.py`, `persona.py` | `projects.json`, `[persona]` | add, remove, mode, edit | nested projects |

They interact through files. An installer flow opens one transaction, does everything through it and
commits or rolls back. Configuration commands of the runtime run inside a transaction of the
installer (`runtime_dispatch`). Memory, tasks and hooks write the same home directory without it.
Hooks are separate processes that the host starts, several at once when tools run in parallel.

`PROJECT.json` lists every component with its status and every hazard with the line where it bites.

## Modules

| Module | What it is |
|---|---|
| `Transaction` | the transaction layer: one action per step of `transaction.py` that a crash or another process can tell from its neighbours |
| `TransactionSafety` | its properties, the inductive invariant, fairness, the refinement mapping |
| `TransactionLedger` | the abstract specification: operations are opened one after the other, kept or undone as a whole, newest first |
| `MCTransaction`, `TransactionProofs` | instances for TLC; the theorems |
| `Install`, `InstallSafety`, `MCInstall`, `InstallProofs`, `RecordProofs` | install, update, uninstall and rollback in the hosts, with host settings and the plugin cache; theorems, those about what `install.json` records in the last |
| `ProjectFiles`, `ProjectFilesSafety`, `MCProjectFiles`, `ProjectProofs` | creation, recovery, migration and export side by side in one folder; theorems |
| `Memory`, `MemorySafety`, `MCMemory`, `MemoryProofs` | long-term memory: approval with its journal and retries; theorems |
| `Task`, `TaskSafety`, `MCTask`, `TaskProofs` | task cards, evidence and the tool events it is judged by; theorems |
| `Session`, `SessionSafety`, `MCSession`, `SessionProofs` | hooks side by side: required constraints, instructions and overrides; theorems |
| `Gate`, `GateSafety`, `MCGate`, `GateProofs` | session markers, the session an event belongs to, and the stop gate over cards that commands change; theorems |

Operators named `Slip...` are plausible mistakes (a dropped guard, a mark that is trusted, an
off-by-one) in the definition that follows them. No action uses them. Put in place of that
definition, each makes TLC report the property that is there to notice it; `PROJECT.json` pairs them
under `mutants`.

### Transaction

A path is a `Target`, what it holds a `Content` (`Absent` for nothing); a signature is the content
it was taken from. `journals[i]` is the JSON file of transaction `i` as saved last, `mem[p]` the
copy a process holds (`self.data`), `reg[p]` its local variables and `pc[p]` where it stands.
`Begin` is `Transaction.__init__`; `Backup`, `StartWrite`/`WriteTarget`/`Sign`, `Watch`,
`TrackCreated`, `Capture` are the filesystem helpers, split where a crash leaves different files;
`StartCommand`, `RunCommand`, `RecordCommand`, `RefreshConfig` are `external()`; `OnRollback`
registers a compensating command; `Commit` ends the body and `Fail` is any exception in it.
`RollBack` (automatic) and `RollBackSaved` (manual, newest journal only) enter the two loops of
`_restore`: `PassUndo` … `UndosDone` walk the commands backwards, `PassFile` … `MarkRestored` the
files, `FinishRollback` saves the verdict.

The environment: `Crash` kills a process at any step and the operating system drops its lock; a
native manager rewrites any watched configuration file, also when it fails; `UserEdit` is an edit at
any moment; commands and file operations may raise. `NestedWrite` is code that writes a target
itself (the runtime command inside `runtime_dispatch`); what it creates (`Made`) is only registered
afterwards, for its caller backs up every other path before it lets that code run. `LateErrors`
allows a failure inside or just after `commit()`, which releases the lock before its caller is done.

Three variables are history for the properties: `pre` (what a target held when a transaction began,
the user's own edits of untracked targets included), `edit` (the user's edit that nobody took in
since, `quiet` if no process was between looking and acting, the entry was signed and the edit
differs from the signature and the backup: signatures compare content, so a return to either cannot
be told from the installer's work) and `kept`
(transactions ever saved as committed).

### Install

A host is its settings file (the marketplace, the plugin entry, the kind of security settings), what
it has registered, and what each version directory of its cache holds. The two kinds of host differ
in what they list: a `DirHost` (Codex) the newest real directory, the other (Claude Code) its
registration; they differ also in what `plugin add`, `plugin remove` and `marketplace remove` take
with them. These managers are not in the repository: `Able`, `Effect` and `Outcomes` are what its
code and tests expect of them. A command may fail before its effect, or after it (a timeout).

A command reads the home, the inventory and the settings first (`AskInstall`, `AskUpdate`,
`AskUninstall` with `Probed`), then takes the lock (`Begin`), looks again (`Confirm`), and goes
through the stages of `_apply_install` (`WriteFiles`, `TrackHosts`, per host `Prepare`,
`SwitchCache`, `RemoveMarket`, `AddMarket`, `DropDisabled`, `AddPlugin`, `Verify`, then
`ApplySettings`, `RecordInstall`, `Commit`) or of `_apply_uninstall` (per host `RestoreSettings`,
`RemovePlugin`, `RemoveOwnedMarket`, `VerifyGone`, then `Forget`). Of the home a command remembers
`install.json` alone (`Metadata`, without its time stamps), and only that is compared again. A
restarting update signs the cache family and the registries anew (`TrackAll`) but not the settings
file, and only if the recorded path is an entry of the family's own (`Prepare`; one that is gone
will do when a disabled plugin is enabled). `External` is `Transaction.external` with the conflict
check before and the signatures after. `StartRollback`, `UndoNext` and `RestoreFiles` are
`rollback_saved` and `_restore` as `Transaction` has them in detail; putting the files back is one
step here. `Attest` is `attest_codex_trust`. `Fail` raises at any stage, `Crash` kills at any step.
The user edits security settings (`EditSettings`), runs the managers (`RunManager`) and writes the
launcher or the pointer (`WritePlace`) at any moment.

History: `begin` (the world when each transaction opened), `edited` (transactions the user changed
something since), `own` (the security settings the user last chose), `theirs` (files outside the
home that the user wrote; `Claimed` says when a pointer with the installer's text is not among
them), `window` (what the user changed while a command was between looking and ending; the
properties do not speak of it, see "What the checks found"), `shifted` (hosts whose settings file a
rollback put back after undoing, in the same transaction, an uninstall of a version other than the
home's; `RecordedAsIs` does not speak of them). Left out: `setup`, `scope` and the legacy import, and
which keys form the baseline.

### ProjectFiles

A tree is what the checks can tell apart: absent, an empty folder, an exact copy of the pack, a file
a creation made, something of the user's, or half a tree. `AskCreate` … `Commit` are
`create_project`; `Publish`, `Backup`, `Bind`, `Rename` are the four steps of `_publish_tree`,
`UndoRow` and `EndUndo` its rollback. `AskRecover` reads which transaction is pending, `MarkAbsent`
edits its journal under the lock, `Redo` takes the lock anew for `rollback_saved`. `Overlap` says
whether a recovery may start while a creation runs. `AskMigrate` … `FinishMove` are
`migrate_skills`, with the record saved before each move, and `PutBackRow`, `EndMove` its
`_rollback`; `AskExport`, `Reserve`, `Fill` are `_publish` of `packs.py`. Creation and recovery hold
the lock of the project's transactions, migration and export none. `Fail`, `Crash` and the user's
`Edit` come between any two steps.

History: `theirs` (entries the user wrote last), `touched` (entries others changed since the newest
creation published) and `gap`: entries written while the journal named the target but had not bound
its signature, or while an export held the folder reserved. Left out: what is in the staged files,
the host settings of a project, the commands that only read one.

### Memory

A project store beside the global store. Each file that `approve` writes is a step: journal,
profile, archive, correction event, candidate status, approval event, journal removed. `Crash`
stands for the process dying and for a write that fails. `Resume` is the branch of `approve` that
finds its own earlier item. A retry may give another `--global` choice than the attempt it repeats
(`cmd_memory.py:120-130`): `Resumable` looks into the store asked for now, the tail works on the
journal's. History: `crossed` (candidates whose approval, left unfinished in one store, was begun
anew in the other) and `astray` (journals finished by a retry in the other store). An item is its id, its candidate and the order it was made in; the
archive keeps the item and the id it gave way to, and the approval event that `reject` logs names
no item. There is one writing command at a time, as
`docs/ARCHITECTURE.md:85` has it, while hooks add candidates.
Left out: wording, confidence, review dates, the check that the user really said it, and the
candidate event, which nothing reads.

### Task

What a workspace contains is a version number, and every change makes a new one. A tool call
occupies a slot from its effect to its end: `Look` is a call that is somebody's check (it sees the
version there is), `Work` any other, which may leave a new version. `Record` is the post-tool hook,
which logs the call, `Lose` a call or hook that fails. Calls that run in parallel are logged in any
order. `Note` is the event `verify run` writes itself; the shell call `kiseki-da verify run` that
the host sees is then still to be recorded, or lost when it was typed in a terminal. `Edit` is a
change no hook sees. `Write` is load, change and save of a card, with one action for each function
that changes it; `LogUpdate` is the `task_update` event that follows, `Kill` the process dying
before it. `Close` is the verdict of `missing_evidence`, `Save` the write after it, so calls and
edits may come between.

A check is one exact request (`Matches`). Three kinds matter: reading a file, whose hash is kept in
the event (`ReadCheck`); a command known to only read, such as a test runner; and any other command,
whose effect is `unknown` (`Checker`). The evidence of a criterion is a position in the log and may
name any call. Assumed, as the program does: a registered check changes nothing. There is one task
command at a time (`docs/ARCHITECTURE.md:85`); a `task set` with several options is several commands
here. `changed`, `saw`, `made` and `clean` are history for the properties. Left out: rendering and
parsing of cards, budgets, briefs, ids of sessions (a session only matters by its workspace);
overrides are in `Session`.

### Session

Each hook or command is a process, and several of one session run at once. `hooks[p]` is what
process `p` has read so far; its steps are the points where another process can change what it reads
next. `required[w]` is the text of the constraints of a workspace (profile and open cards), which
`Change` replaces at any moment; its hash is the pair of workspace and text. `Start` (the
session-start hook) and `Build` (the command) render the context, `LogManifest` logs what it claims
to contain, `Show` is the output reaching the host. `PrintPage` and `LogRead` are `context
required`. A pre-tool hook reads the constraints (`Pre`), then what was logged as read (`Look`),
then the present instruction (`Ask`), then the overrides (`Find`), and marks the one it takes
(`Use`). `Say` is `record_user_input`, `Record` is `task override`. `Die` is a process that is
killed, times out or raises, which the host ignores: it then acts as if there were no hook, so a
dead pre-tool hook guards nothing, by design. `events.jsonl` is split into four variables by who
reads it back; an event nobody reads back (guard, session start) is left out. `shown`, `unshown`,
`began` and `beside` are history for the properties.

Abstracted: whether the budget loop kept every constraint is a free choice; a request is asked about
by `guard` or not, and changes something or not; one operating-system read is one step. A session
says one thing at a time.

### Gate

`active` and `current` are the markers under `session/`; `touched`, `blocked` and `advised` are the
events of `events.jsonl` the gate reads back. `Register`, `Unregister`/`Unlink`, `CountActive` and
`Point` are `set_current_sid` and `clear_current_sid`, which read the markers and write `current` in
separate steps; `session clear` runs as `hooks[NoSid]`. A task command is `Begin`, `Check`
(`_make_store`), `Load`, `Save` and then `LogEvent` (`effective_sid` once more), `Refuse` where it
cannot be attributed, or `NoneActive` and `LogCurrent` when no session is registered. `MoreOptions`
saves the same copy again, as a `task set` with several options does. `Stop` is the pass of
`stop_gate` over the log, `LoadCard` each card it then reads, `Block` the logged gate event, `Show`
the answer reaching the host, `Pass` letting the session go. `Die` cuts a hook or a command short at
any step; the error is swallowed.

A stop whose payload has `stop_hook_active` is let go without a look at any card (`Follow`,
`gate.py:203-205`). The host sends that flag to a session that goes on only because it received a
block: `again`, set by `Show` and cleared by the next stop of either kind (the user may have written
meanwhile) and by the end of the session. Blocks by other plugins' hooks, which set the flag too, are
left out.

The code blocks on the card updated last; here it is any of those found open, which no property
tells apart. A host runs the hooks of one session one after the other, so two stop gates of one
session never overlap. `shown`, `unheard`, `fresh` and `due` are history.

## What the runs check

`MemoryInv`, `TaskInv`, `SessionInv` and `SettingsInv` contain the `TypeOK` of their module, so those
runs check it too.

| Run | Instance | Shows |
|---|---|---|
| `TxCrash` | one process, a watched configuration file and a user-data path, each there before or not, two commands, a crash | an undo takes effect at most once; a rollback that reports success left no command in force and put back every target it answers for; user data survives the manual rollback of a committed operation, also when it is resumed; `UndosAccounted` |
| `TxLock` | two processes, three operations, a crash | mutual exclusion; `LedgerInv` (an unfinished journal is the newest is one of its parts); the ledger is implemented |
| `TxFair` | one path, two edits or removals, one raised error, one crash, late errors | every rollback ends; quiet edits are never overwritten |
| `InsFlow` | one command at a time, a host of each kind, two releases, two commands, one edit, failed native command, error or crash | what is undone is put back; what is the user's is left alone; the user's settings come back; `install.json` tells the truth of every host not in `shifted`; version paths resolve during an update; `SettingsInv` |
| `InsRetry` | one host, a second rollback after a failed undo | **violated** `PutsBack`: the second rollback removes what the first brought back (`transaction.py:446`) |
| `PrjFiles` | two commands at a time, two skills, two operations, two edits, errors or crashes | nothing of the user's is erased; no half project is visible; a rolled-back creation leaves nothing; a migrated skill is whole somewhere; a migration's status means what it says; `WholeInv` |
| `PrjRecover` | a recovery that starts while a creation runs | **violated** `OnlyUnfinished`: a finished creation is undone (`projects.py:254`) |
| `MemApprove` | two texts, two sections, two candidates, three items, two failures | ids name one live item; the archive is honest and a candidate becomes one item, but for retries in the other store as the properties say; a finished approval did everything once; `MemoryInv` |
| `TaskClose` | a card, a script and a file as checks, two workspaces, two calls in flight, two events, two versions, one criterion, five commands: enough to open, add, name evidence, close and then name other evidence | a verdict rests on evidence that saw every recorded change and on files as they are; what passed stays earned whatever is done with the card afterwards (`PassEarned`); `TaskInv` |
| `TaskVerify` | the same | **violated** `VerifyRunStands`: evidence made by `verify run` from the host's shell is stale as soon as that call is logged (`README.md:184`) |
| `SesHooks` | one session, two processes, constraints of no or two pages, two instructions, one override | a change passes only over constraints the agent was shown; an override serves one call under its own instruction; both but for the race the property names; `SessionInv` |
| `GateStop` | two sessions, two cards, one command, two writes, one thing cut short or cleared | a session is stopped and reminded once per card; a stop the gate looks at lets it go past no open card it was not told of, and one it does not look at comes only just after the agent was told of a further card; a command of a registered session is never put down to another |

Bounds. Every step of a rollback is per entry or per command, and entries interact only through
order and the shared conflict flag: two targets and two commands show every pair. One crash falls in
the body, in a rollback, in the manual rollback of what was committed, and in the one that resumes a
rollback with errors; that any number of crashes changes nothing is proved. Two edits let the user
return to what the installer wrote or found. Mutual exclusion needs two processes; three operations let
one be opened above a committed one and below a new one.

`InsFlow` needs a host of each kind, because an operation on both fails in the second after the
first is done, and two releases to make an update. Two commands give install and then update,
uninstall, repair or rollback; finishing an interrupted transaction is not counted. One upset is one
edit, failed native command, error or crash at any point. The installer lock makes a second process
wait or leave, which `TxLock` shows. In `PrjFiles` the two commands overlap at every step, and two
upsets are a crash and an edit between it and the recovery, or two crashes; the creation publishes
one of the two skills and the manifest, so the other is only migrated or exported.

An approval involves an item, what it replaces and one more to take the freed place, hence three
items; two failures let a retry fail too. Evidence and one later event, and a version before and
after a change, are all that staleness compares; two slots let a change and a check overlap, and
four commands make a card, ask for a check, name its evidence and close it. Two hooks are enough for
one to act between the reads of the other, two pages for a text read in part, two instructions for
one that is replaced. With one workspace `SesHooks` does not move a session to another folder.
`GateStop` has a session for the event's owner and one it could be put down to; two writes open a
card and raise, close or reopen it; sessions and cards are interchangeable, which the symmetry uses.
A session may stop, start and end any number of times. The proofs remove these bounds for what they
prove. Runs do not check deadlock: the bounds
(`MaxTx`, `MaxItems`, `MaxLog`, `MaxOps`, …) end every behaviour, and a process may simply stop.

Fairness. `TxFair` assumes weak fairness of the steps of a rollback of each process, and of nothing
else: a process that runs is scheduled, and its loops wait for nothing (the lock is never waited
for, commands have timeouts). Users, crashes and new operations are not fair.

## What is proved

For any processes, targets, contents and bounds that satisfy `TransactionAssumption`:

- `TypeCorrect`: `Spec => []TypeOK`, by one lemma per action.
- `LedgerInvariant`: `LedgerInv` is invariant when no error comes after commit (`~LateErrors`).
  Mutual exclusion alone is not inductive: one must know that a busy process holds the lock, that
  its copy of the journal is the saved one and what status it has (`Holds`), that journals are used
  in order (`Contiguous`), that an unfinished journal is the newest standing one, and that a commit
  is remembered across interrupted manual rollbacks (`Remembered`).
- From it follow `Exclusion`, `NeverBuried`, `UserDataKept` and `Implements` (the refinement: each
  step opens, keeps, starts to undo or reverts the operation of its process, or leaves all outcomes
  alone).
- `AccountInvariant`: `UndosAccounted` is invariant, also under `~LateErrors`, and from it
  `UndoneOnce` (`[]UndoAtMostOnce`) and `NothingLeft` (`[]NoResidue`). Neither is inductive: the
  journal says `running` before an undo has run and `applied` after, so one must know which of the
  two the host's manager has seen (`Agrees`), that a resumed rollback tries neither of them again,
  and that a rollback with no error so far has nothing left behind its cursor (`WellUndone`). It
  stands on `LedgerInv`: what a process saves is what the journal said.
- `OriginalsRestored` (`RestoresOriginals`) and `QuietEditsKept` (`KeepsQuietEdits`), both action
  properties, from `RestInv`, which is inductive over the invariants above. `EntryTrue` says what a
  journal knows of a target, for every journal that could still be rolled back: its backup is what
  was there before; what is marked restored is back, unless the user edited it since or an undo
  command that may be running can still rewrite it; and a quiet edit differs from the signature and
  from the backup, so that the comparison finds it. `WalkTrue` says where a rollback stands: every
  entry behind its cursor is settled unless an error was noted, the target at hand is not marked
  yet, and no quiet edit is of a target that is about to be signed, registered, removed or copied
  back without another look. When a rollback reports success no undo is pending (`WellUndone`), so
  every marked target is as it was.

Without `~LateErrors` mutual exclusion does not hold: an error after `commit()` rolls back without
the lock.

For any cards, workspaces, checks, slots and bounds that satisfy `TaskAssumption`:

- `TaskTypeCorrect`: `Spec => []TypeOK`.
- `TaskInvariant`, and from it `ClosedOnFreshEvidence`: `Spec => []ClosesFresh`. `ClosesFresh`
  speaks of the moment of the verdict; the invariant carries what a check saw to that moment. A
  check that has looked and was not overtaken saw every change there is, recorded or not
  (`LookCurrent`); so a recorded change that a logged check did not see was logged after it, by a
  call that is no check (`ChangesLogged`, with `WorkMade`); such an event invalidates the evidence,
  so `close()` refuses. `VerdictAlone` keeps this true until the card is written unless something
  ran beside it.

- `PassesEarned`: `[]PassEarned`. It is not inductive: between the verdict and the write,
  `JudgedEarned` says that every criterion of the judged card is earned already, because the log
  only grows, the beginning of a card is never moved (`Grows`) and no other command runs. A command
  that writes a card lets pass only what had passed, and naming other evidence opens the criterion.

`ClosesFresh` excepts what the code cannot see: evidence whose own call overlapped a change
(`ev.clean`), and a change between the verdict and the write or not yet recorded at the verdict
(`cmd.clean`). For a file that was read it also covers changes no hook saw, by its hash.

For any sessions, workspaces, processes, texts, pages, requests and bounds that satisfy
`SessionAssumption`:

- `SessionTypeCorrect`: `Spec => []TypeOK`.
- `SessionInvariant`, and from it `NoUninformedChange` (`[]Informed`), `OverrideOnce` (`[]UsedOnce`)
  and `OverrideAsSaid` (`[]UsedAsSaid`). `Informed` is not inductive: one must know that what is
  logged as read was shown, and that what a manifest claims was shown, is about to be, or is on the
  list of overstatements (`LogTrue`). The step proof rests on two lemmas about every action: what is
  `Covered` stays so (`StepKept`), and a hook that has passed did so before or passes now
  (`StepPasses`). For overrides, `Chosen` says that the one a hook has taken fits its call, and that
  if somebody used it meanwhile the hook is marked as beside.

For any sessions, cards, commands and bounds that satisfy `GateAssumption`:

- `GateTypeCorrect`: `Spec => []TypeOK`.
- `GateInvariant`, and from it `NeverAskedTwice` (`[]AskedOnce`) and `NothingSlipsBy`. That the
  lists have no repetition is not inductive: `Good(s)` adds that what a gate has still to load, or
  has found open, was not asked about before, that what it will advise was not advised, and that
  every card asked about was shown, is about to be, or is in `unheard`. With it, a card of `due`
  that is open is among those still to load or found open, so `Pass` has none. A stop
  that looks at no card (`stop_hook_active`) follows a block; `Fresh` says that the host is told of
  a card once, and so `News` that the block was of a card new to the agent.
- `EventsStayHome`: `OwnLog`, from the types alone and the definition of `Owner`, `CurrentSid` and
  the steps that use them: with its own session registered, a command finds either that one or
  several, and never goes by `current`.

For any commands, skills, targets and bounds that satisfy `ProjectAssumption`, and both values of
`Overlap`:

- `ProjectTypeCorrect`: `Spec => []TypeOK`; the inductive `TypeInv` adds where each command stands
  in its record (`Standing`).
- `SkillsNeverLost` and `StatusMeans` from `MoveInv`: every migration record is `Sane`, has one
  writer, and says at each step of its command what is in the holding folder and the archive
  (`Step`).
- `UserDataStays` from `KeepInv`, over `RowsInv`. `RowsInv`: the holder of the lock works on the one
  active journal and its rows are bound as far as its step says (`Holds`); a committed journal has
  every target bound. `KeepInv`: an entry of the user's is in place or held elsewhere (a backup, a
  holding folder), and what is exposed, a target not yet bound or a reserved folder, is the user's
  only if it is elsewhere too or in `gap`. So what a rollback or a failing export removes was not
  the user's.
- `FolderAsRecorded`: `WholeInv` is invariant, and from it `ManifestComplete`
  (`[]CompleteManifest`) and `NothingHalf` (`AllOrNothing`). That the manifest comes last is not
  enough: other commands, rollbacks of rollbacks and the user act in the same folder. The invariant
  says, target by target, what the newest record still standing (`Top`) has there: what is published
  so far is shown, what is not, or was taken back, is clear (`Progress`, `UndoneClear`), and a
  target that a record backed up was touched by somebody else (`RowsFit`). `Apart`: a recovery and
  a creation never hold the same record.

For any sections, candidates and bounds that satisfy `MemoryAssumption`, in whichever store an
approval is retried:

- `MemoryTypeCorrect` and `IdsStayUnique` (`[]UniqueIds`). An id is free when it is given because its number is above every item of its section that
  the command sees (`IdsCounted`, `IdFree`).
- `MemoryInvariant` (`[]MemoryInv`), and from it `ArchiveTellsTruth`, `RememberedOnce` and
  `ApprovalsSettle` (`Settled`), with the exceptions those properties name. One must know that a
  live item is the one in the journal of its candidate until the approval is complete, rejected or
  begun anew in the other store (`ItemTracked`), that the item a retry finds in the journal's own
  store is that item (`Named`: its id was free when it was given), that what it replaces is gone as
  soon as it is live (`OldGone`), and which files the command has written at each of its steps
  (`Done`, `OnlyOnce`).

For any hosts, commands, versions and bounds that satisfy `InstallAssumption`, with restarting
updates, repeated rollbacks and commands side by side or without:

- `SettingsInvariant` (`[]SettingsInv`), and from it `SettingsComeBack` (`[]SettingsReturn`) and
  `InstallTypeCorrect` (`[]TypeOK`). `SettingsReturn` is not inductive: between two steps of a
  command the baseline may be in the file and not in the record, and a crash may come there.
  `Known` says that only an interrupted command leaves it so, and `Reverts` what the unfinished
  journal will then put back: the user's own file, or the baseline together with the record of what
  it replaced, judged by the signature the rollback compares with. A committed journal can be rolled
  back later, so `Linked` relates what it would put back to the home that stands after it, through
  any operations undone in between. `Knows` says what each stage may rely on: it tracks a settings
  file before it writes it, writes it only while it is as signed, and what it read of the records
  before the lock is what stands (`confirm`). All of it is said for hosts outside `window`, those
  the user edited while a command was under way; the code answers for no others.
- Most stages write neither settings nor records. `CalmKeeps` proves them at once, `CommandCalm`
  that a native command is such a step whatever it reports or when it dies. The stages that write
  them, the beginning and the ends of a transaction and the user are proved host by host.
- `HooksResolve` (`HookPathsStay`). That no stage of an ordinary update takes a path away is not
  enough, for what was queued is run later, by the rollback of the process that queued it. The
  property ends with that process: a rollback by hand, after a crash, may take the path away, and
  nothing is said of it. `HookInv` says
  that a journal of an ordinary update queued no command that ends a path in a live host, and watches
  no cache of one; `HookStep` and the lemmas under it carry it through every step.
- `ForeignKept` (`KeepsForeign`). A marketplace is judged once, before the lock; it is removed later,
  by the command, by an undo command it queued, or by a rollback that puts a whole settings file
  back. `MarketInv` says for each host outside `window` that no source the command read or will
  record, no queued command, no home and no file kept for a rollback is of the user's marketplace,
  and that past `confirm` the host still has none. `PlaceInv` says the same of the launcher and the
  pointer: where the user's file stands outside `window`, no plan writes or owns it and no journal
  has a signature for it; and once a home answers for the pointer every later one does, among the
  transactions that can still be rolled back. A stage or undo command is a `KeepStep`;
  what is read before the lock, begins, rollbacks begun and edits are proved apart.

- `FilesPutBack`: the first half of `PutsBack`. A transaction that reports "rolled back", of which
  the user changed nothing since, leaves every settings file, the home and the files outside it as
  they were, with repeated rollbacks too. `FileInv` decides it when a file is tracked: what is kept
  of it, or what is there where nothing is kept, is what it was at the beginning (`Restores`), for a
  committed transaction as seen from the world the next one began in. What a rollback that could not
  be completed has marked as put back is as it was (`Settled`) until an undo command changes it and
  it is signed anew, unless the rollback died in that command (`CutOff`) and can never succeed.

- `RecordTellsTruth` (`[]RecordedAsIs`), as long as no failed undo command is tried again
  (`~Retrying`; with it `InsRetry` shows a rollback that reports success after it undid its own
  repair). The property speaks of quiet moments; in between, the home is written last and the hosts
  one by one, so the invariant, `RecordInv`, says for each host where it stands. Either it shows
  what the home of the newest transaction records (`Shown`), or that transaction can still lead
  back there (`Undoable`): the file kept for it is the recorded one, and the undo commands that
  wait bring the recorded version, each in time (`Way`: the marketplace is there when the plugin is
  added, the plugin's directory when a link is made). `Ordered` says they were queued so that
  walking backwards meets them in that order, `Leads` what they still have to do, and `UndoLeads`
  that one undo command that succeeds shortens that list. Or the rollback can never report success
  (`Stuck`): an undo failed or was cut short, or a kept file is not as signed. `Forward` says how
  far the command under way has come with the host (`Waiting`, `AtWork`, `Ended`), so that its
  `commit` leaves what the new home records and a failure before it leaves something undoable. A
  committed transaction may be rolled back later: `Linking` says that it is then undoable from
  whatever the home that follows records, also after the operations between were undone.
  `MarchKeeps` is the step of any stage in a host, `RollsOn` the step of any rollback; the lemmas
  `...Says` compute what one command does in one kind of host.

Only model-checked: `VersionsBack`, the second half of `PutsBack` of `InstallSafety`, and
`RollbackEnds` (liveness under fairness and `ENABLED` are beyond the proof system). `PutsBack` can
hold only without `Retrying`, as `InsRetry` shows; its first half, `FilesBack`, holds with it too.
`VersionsBack` compares with what a host listed when the transaction began rather than with a
record, also in hosts the user changed before, so `RecordInv`, which speaks of worlds without
edits, does not give it. `TxFair` checks
`KeepsQuietEdits` with late errors too; the theorem is without them. No module declares a recursive
operator; where a proof needs a least number or a finite set (`MemoryProofs`, `InstallProofs`), it
cites the library's theorems for it.

## What the checks found

Three statements of the repository are violated, each by a run of its own: `TaskVerify`, `InsRetry`
and `PrjRecover`; `PROJECT.json` quotes the text and tells what happens. The observations below were
met while modelling and have no run of their own: some are the exceptions a property names, some
lie behind a constant the runs hold fixed, and for most of the rest the repository promises nothing.

Transactions. An edit of a target that has no signature is overwritten by a rollback
(`transaction.py:477`, against `docs/INSTALLATION.md:58`). A crash between removing a target and
copying it back leaves a conflict that no later rollback can clear (`transaction.py:490`). An error
after `commit()` rolls back without the lock (`transaction.py:367`; `LateErrors`). The newest
journal is chosen by an id that begins with local wall-clock time (`transaction.py:110`).

Installer. `update` hands on one security mode for all hosts, and the metadata says "recommended" as
soon as one host has a record, so the baseline may be applied to a host it was not chosen for
(`cli.py:309`, `operations.py:1331`, against `docs/INSTALLATION.md:96`). Between the last check and
the moment a file is tracked nothing looks: settings edited there are overwritten
(`operations.py:1392` to `1494`, `1144` to `1273`), and a marketplace changed there is removed by an
old inventory (`1217`, `641`) or recorded as ours. That is `window`. The undo of an uninstall adds
the release tag of the home's version, not the source recorded for the host (`1503`); `shifted`
keeps the hosts where it happened: two hosts at different versions, one
uninstalled with an error, are enough for `install.json` to name a version the host does not have,
and a later update of such a host that fails leaves it at another version than it found
(`VersionsBack`, with `InOrder`). A native command that failed without effect keeps an undo that then fails, so the
rollback ends incomplete. Installing another version into one host leaves the other unhealthy in
`doctor`.

Projects. The backup row is saved before its signature is bound (`projects.py:77-82`): after a crash
in between, a tree the user makes there is deleted by `recover`. A target that appears between the
check and the backup makes recovery refuse for ever (`projects.py:271-273`). What is written into a
folder that an export has reserved, or published over it by a creation, goes when the export fails
(`packs.py:149-164`). These are `gap`. A rollback also erases an identical export at a target it has
bound. A migration that cannot save its record while claiming reports `rollback_incomplete` although
nothing moved, and one that was killed leaves skills in the holding folder with no command to bring
them back.

Memory. Nothing makes a retried approval go to the store it was begun in (`store.py:593`,
`cmd_memory.py:120-130`). Approved in the project, dead once the profile is written, and approved
again with `--global`, a candidate becomes two live items, against "without duplicating
memory/history" (`store.py:660`); without the exception for `crossed`, TLC shows it for `MemoryOnce`.
If that second attempt dies with its journal saved, and a third in the project finds the first
attempt's item under the same id, it runs the tail of the second: what that was to replace is
archived and stays live, against "the archive never claims an item retired while it is still live"
(`store.py:649-650`); without the exception for `astray`, TLC shows it for `ArchiveHonest`. An id that an interrupted approval frees is
given again (`store.py:313-328`), and an approval resumed under it may then find the correction
event of another item and log none of its own (`664`, `674`; `docs/PRINCIPLES.md:68`). A
half-approved candidate may be rejected, which leaves its item live and the replaced one in no file
but the journal of the approval (`store.py:683`).

Tasks and gate. A done card may get a new open criterion or a higher risk and stays done
(`taskcard.py:324`, `358`); a process killed between a card's first write and its event leaves a
card that no session owns (`taskcard.py:229`). A stop hook cut short after its gate event has used
up the one question about that card: the agent was not told and will not be (`unheard`). When a
session starts between the check and the event of a command without `--sid`, the card is written and
its event refused (`cli_common.py:36-39`). After two markers are set and cleared at once,
`session/current` may name a session that has ended.

Sessions. The exceptions of `Informed` and `UsedOnce` are real. The constraints a manifest calls
complete are read a second time (`build.py:360`) and logged before they are shown (`hooks.py:196`):
a change in between, or a session-start hook that times out after logging, leaves constraints that
count as read and were not. Two pre-tool hooks for the same request may both find the override
before either marks it (`evidence.py:341`), so one `task override` can let two parallel calls
through.

## Not modelled, and the plan

Text conversion, command patterns of the guard, search ranking, reports, persona wording, host
inventories as text, argument parsing, download and release tooling have no state whose order
matters. The scope registry and the persona are single writes of one file under the user's own
command. In order:

1. Install: `setup`, `scope` and the legacy import inside the same transaction; two commands at a
   time beside the lock.
2. Event numbers when the lock of `fileio.py` cannot be used; stop hooks of one session side by
   side.
3. `Context`: the budget loop, with which constraints it keeps. `Scope`: nearest project, add and
   remove.
4. Proofs: `VersionsBack`, along the lines of `RecordInv` with what each host was at the beginning in
   place of the record.
