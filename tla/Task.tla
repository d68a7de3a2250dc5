-------------------------------- MODULE Task --------------------------------
(***************************************************************************)
(* Task cards and their evidence: taskcard.py, evidence.py, cmd_task.py of *)
(* src/plugins/kiseki-da/core/ctx, and the post-tool branch of hooks.py.   *)
(*                                                                         *)
(* Tool calls of any sessions run in parallel; each logs its result when   *)
(* it has ended, if its hook works.  The task command loads a card, judges *)
(* it against the log, writes it and logs the update, and may die between. *)
(* Task commands run one at a time (docs/ARCHITECTURE.md:85).              *)
(*                                                                         *)
(* The content of a workspace is a version: every change makes a new one.  *)
(* `log' holds the tool_call events of events.jsonl; what is asked of the  *)
(* other events is kept as `first'.                                        *)
(* Operators named Slip... are plausible mistakes in the one that follows.  *)
(***************************************************************************)
EXTENDS Naturals, Sequences, FiniteSets

CONSTANTS
  Card,            \* ids of cards
  Workspace,       \* project folders
  Check,           \* what a criterion may ask for: an exact tool request
  ReadCheck,       \* those that are `Read <path>' of a file small enough to hash
  Checker,         \* those whose effect() is "unknown", e.g. a project's own script
  Slot,            \* tool calls that may be in flight at once
  Risk,            \* the n of "R<n>"
  NoCard, NoCheck, NoWorkspace,
  MaxLog, MaxVersion, MaxCriteria, MaxCommands

ASSUME TaskAssumption ==
  /\ ReadCheck \subseteq Check /\ Checker \subseteq Check \ ReadCheck
  /\ NoCheck \notin Check
  /\ Risk \subseteq 0..3
  /\ {MaxLog, MaxCriteria, MaxCommands} \subseteq Nat
  /\ MaxVersion \in Nat \ {0}
  /\ NoWorkspace \notin Workspace

VARIABLES
  world,     \* what each workspace contains
  log,       \* tool_call events, oldest first
  slots,     \* tool calls in flight
  file,      \* tasks/<id>.md
  first,     \* the first log position after a card's first event, 0: it has none
  cmd,       \* the task command being executed
  commands   \* how many there were

\* History: the version the latest recorded change made.  (So are `saw',
\* `made' and `clean' in the records below.)
VARIABLE changed

vars == <<world, log, slots, file, first, cmd, commands, changed>>

----------------------------------------------------------------------------
Version == 1..MaxVersion
NoVersion == 0

\* A tool_call event.  `art' is the hash of the file that was read (none for
\* other tools), `saw' the version the call worked on, `clean' that nothing in
\* its workspace changed between its look and its record.
Event == [kind : {"check", "write", "other", "wrapper"}, check : Check \union {NoCheck},
          ws : Workspace, ok : BOOLEAN, art : {NoVersion} \union Version,
          saw : {NoVersion} \union Version, clean : BOOLEAN]

Free == [at |-> "free", kind |-> "other", check |-> NoCheck, ws |-> NoWorkspace,
         ok |-> FALSE, saw |-> NoVersion, made |-> NoVersion, clean |-> TRUE]
Call == [at : {"free", "ran", "noted"}, kind : {"check", "write", "other", "wrapper"},
         check : Check \union {NoCheck}, ws : Workspace \union {NoWorkspace}, ok : BOOLEAN,
         saw : {NoVersion} \union Version, made : {NoVersion} \union Version, clean : BOOLEAN]

\* evidence: a position in the log, 0 for "-".
Criterion == [check : Check, evidence : Nat, status : {"open", "pass", "unverified"}]
TaskCard == [status : {"open", "done", "deferred", "abandoned"}, risk : Risk, ws : Workspace,
             crits : Seq(Criterion)]

\* The card and, for close(), that no change came beside the verdict.
NoCmd == [at |-> "idle", card |-> NoCard, clean |-> TRUE]

Init ==
  /\ world = [w \in Workspace |-> 1]
  /\ log = <<>>
  /\ slots = [x \in Slot |-> Free]
  /\ file = [c \in Card |-> NoCard]
  /\ first = [c \in Card |-> 0]
  /\ cmd = NoCmd /\ commands = 0
  /\ changed = [w \in Workspace |-> NoVersion]

----------------------------------------------------------------------------
\* Reading the log.

Effect(kind, k) ==
  CASE kind = "write" -> "write"
    [] kind = "check" /\ k \notin Checker -> "read"
    [] OTHER -> "unknown"

\* The request hash of an event is that of the check.
Matches(ev, k) == ev.kind = "check" /\ ev.check = k

\* invalidating(): may this later event have changed what the card is about?
Invalidates(ev, card) ==
  /\ ev.ws = card.ws
  /\ \/ Effect(ev.kind, ev.check) = "write"
     \/ /\ Effect(ev.kind, ev.check) = "unknown"
        /\ \A i \in DOMAIN card.crits : ~Matches(ev, card.crits[i].check)

\* check_evidence(): a successful call of exactly this check, on a file that
\* is still the same.
Sound(crit) ==
  /\ crit.evidence # 0
  /\ LET ev == log[crit.evidence]
     IN /\ ev.ok
        /\ Matches(ev, crit.check)
        /\ ev.art # NoVersion => ev.art = world[ev.ws]

\* The card was known before this event was logged.
Opened(c, e) == first[c] # 0 /\ first[c] <= e

\* missing_evidence(): the criteria that are not met.
SlipMissing(c, card) ==
  {i \in DOMAIN card.crits :
     LET e == card.crits[i].evidence
     IN ~ /\ Sound(card.crits[i])
          /\ \A j \in e + 1..Len(log) : ~Invalidates(log[j], card)
          /\ Opened(c, e)}
Missing(c, card) ==
  {i \in DOMAIN card.crits :
     LET e == card.crits[i].evidence
     IN ~ /\ Sound(card.crits[i])
          /\ log[e].ws = card.ws
          /\ \A j \in e + 1..Len(log) : ~Invalidates(log[j], card)
          /\ Opened(c, e)}

----------------------------------------------------------------------------
\* Tool calls.

Busy(x) == slots[x].at # "free"
Room == Len(log) + Cardinality({x \in Slot : Busy(x)}) < MaxLog
Reads(k) == k \in ReadCheck
Stained == IF cmd.at = "save" THEN [cmd EXCEPT !.clean = FALSE] ELSE cmd

\* The slots when somebody changes workspace w: the checks that already looked
\* and are not recorded yet lose their `clean'.
Blurred(w) ==
  [x \in Slot |-> IF slots[x].kind = "check" /\ slots[x].ws = w
                  THEN [slots[x] EXCEPT !.clean = FALSE] ELSE slots[x]]

\* A check looks at the workspace and succeeds or not.
Look(x, k, w) ==
  /\ ~Busy(x) /\ Room
  /\ \E ok \in BOOLEAN :
       slots' = [slots EXCEPT ![x] =
         [Free EXCEPT !.at = "ran", !.kind = "check", !.check = k, !.ws = w, !.ok = ok,
                      !.saw = IF ok THEN world[w] ELSE NoVersion]]
  /\ UNCHANGED <<world, log, file, first, cmd, commands, changed>>

\* Any other call may leave the workspace changed.
Work(x, kind, w) ==
  /\ ~Busy(x) /\ Room
  /\ kind \in {"write", "other"}
  /\ \/ /\ slots' = [slots EXCEPT ![x] = [Free EXCEPT !.at = "ran", !.kind = kind, !.ws = w]]
        /\ UNCHANGED <<world, cmd>>
     \/ /\ world[w] < MaxVersion
        /\ world' = [world EXCEPT ![w] = @ + 1]
        /\ slots' = [Blurred(w) EXCEPT ![x] =
             [Free EXCEPT !.at = "ran", !.kind = kind, !.ws = w, !.made = world[w] + 1]]
        /\ cmd' = Stained
  /\ UNCHANGED <<log, file, first, commands, changed>>

\* The hash of the file that was read, taken when the call is recorded.
SlipSnapshot(call) == NoVersion
Snapshot(call) == IF call.ok /\ Reads(call.check) THEN world[call.ws] ELSE NoVersion
Recorded(call) ==
  [kind |-> call.kind, check |-> call.check, ws |-> call.ws, ok |-> call.ok,
   art |-> Snapshot(call), saw |-> call.saw, clean |-> call.clean]

\* The check ran under `verify run', which records it before its own process
\* ends.  In a terminal there is no hook to record that process: see Lose.
Note(x) ==
  LET call == slots[x]
  IN /\ call.at = "ran" /\ call.kind = "check" /\ ~Reads(call.check)
     /\ log' = Append(log, Recorded(call))
     /\ slots' = [slots EXCEPT ![x] = [Free EXCEPT !.at = "noted", !.kind = "wrapper",
                                                   !.check = call.check, !.ws = call.ws]]
     /\ UNCHANGED <<world, file, first, cmd, commands, changed>>

\* The post-tool hook records the call; the shell command `kiseki-da verify
\* run ...' is one too.
Record(x) ==
  LET call == slots[x]
  IN /\ call.at \in {"ran", "noted"}
     /\ log' = Append(log, Recorded(call))
     /\ slots' = [slots EXCEPT ![x] = Free]
     /\ changed' = IF call.made <= changed[call.ws] THEN changed
                   ELSE [changed EXCEPT ![call.ws] = call.made]
     /\ UNCHANGED <<world, file, first, cmd, commands>>

\* The call dies, or its hook fails open: nothing is recorded.
Lose(x) ==
  /\ Busy(x)
  /\ slots' = [slots EXCEPT ![x] = Free]
  /\ UNCHANGED <<world, log, file, first, cmd, changed, commands>>

\* The user edits in an editor, unseen by any hook.
Edit(w) ==
  /\ world[w] < MaxVersion
  /\ world' = [world EXCEPT ![w] = @ + 1]
  /\ slots' = [x \in Slot |-> IF Reads(slots[x].check) THEN Blurred(w)[x] ELSE slots[x]]
  /\ cmd' = Stained
  /\ UNCHANGED <<log, file, first, commands, changed>>

----------------------------------------------------------------------------
\* A change was made that its hook has not recorded yet.
Unrecorded(w) == \E x \in Slot : slots[x].ws = w /\ slots[x].made # NoVersion

\* The task command: load the card, write it, log the update.  Nobody else
\* writes cards, so loading and writing are one step, except in close().
Write(c, card) ==
  /\ cmd.at = "idle" /\ commands < MaxCommands
  /\ commands' = commands + 1
  /\ file' = [file EXCEPT ![c] = card]
  /\ cmd' = [NoCmd EXCEPT !.at = "log", !.card = c]
  /\ UNCHANGED <<world, log, slots, first, changed>>

Exists(c) == file[c] # NoCard

\* new_card()
New(c, r, w) ==
  ~Exists(c) /\ Write(c, [status |-> "open", risk |-> r, ws |-> w, crits |-> <<>>])

AddCriterion(c, k) ==
  /\ Exists(c) /\ Len(file[c].crits) < MaxCriteria
  /\ Write(c, [file[c] EXCEPT !.crits = Append(@, [check |-> k, evidence |-> 0, status |-> "open"])])

\* Any tool_call of the log may be named; close() judges it.
SlipSetEvidence(c, i, e) ==
  /\ Exists(c) /\ i \in DOMAIN file[c].crits
  /\ Write(c, [file[c] EXCEPT !.crits[i].evidence = e])
SetEvidence(c, i, e) ==
  /\ Exists(c) /\ i \in DOMAIN file[c].crits
  /\ Write(c, [file[c] EXCEPT !.crits[i].evidence = e, !.crits[i].status = "open"])

SetStatus(c, status) ==
  /\ Exists(c) /\ status \notin {"done", "deferred"}
  /\ Write(c, [file[c] EXCEPT !.status = status])

SetRisk(c, r) ==
  /\ Exists(c) /\ r >= file[c].risk
  /\ Write(c, [file[c] EXCEPT !.risk = r])

SetWorkspace(c, w) ==
  Exists(c) /\ Write(c, [file[c] EXCEPT !.ws = w])

\* --assume, --question, --decide, --note, --constraint, --next
Annotate(c) ==
  Exists(c) /\ Write(c, file[c])

\* close(): judge the card; nothing is written while something is missing.
Close(c) ==
  /\ Exists(c)
  /\ file[c].crits # <<>> \/ file[c].risk = 0
  /\ Missing(c, file[c]) = {}
  /\ cmd.at = "idle" /\ commands < MaxCommands
  /\ commands' = commands + 1
  /\ cmd' = [at |-> "save", card |-> c, clean |-> ~Unrecorded(file[c].ws)]
  /\ UNCHANGED <<world, log, slots, file, first, changed>>

Passed(crits) == [i \in DOMAIN crits |-> [crits[i] EXCEPT !.status = "pass"]]

Save ==
  /\ cmd.at = "save"
  /\ file' = [file EXCEPT ![cmd.card].status = "done", ![cmd.card].crits = Passed(@)]
  /\ cmd' = [NoCmd EXCEPT !.at = "log", !.card = cmd.card]
  /\ UNCHANGED <<world, log, slots, first, commands, changed>>

Defer(c) ==
  /\ Exists(c)
  /\ Write(c, [file[c] EXCEPT
       !.status = "deferred",
       !.crits = [i \in DOMAIN @ |-> IF @[i].status = "pass" THEN @[i]
                                     ELSE [@[i] EXCEPT !.status = "unverified"]]])

LogUpdate ==
  /\ cmd.at = "log"
  /\ first' = IF first[cmd.card] = 0 THEN [first EXCEPT ![cmd.card] = Len(log) + 1] ELSE first
  /\ cmd' = NoCmd
  /\ UNCHANGED <<world, log, slots, file, changed, commands>>

Kill ==
  /\ cmd.at # "idle"
  /\ cmd' = NoCmd
  /\ UNCHANGED <<world, log, slots, file, first, changed, commands>>

Next ==
  \/ \E x \in Slot :
       \/ \E k \in Check, w \in Workspace : Look(x, k, w)
       \/ \E kind \in {"write", "other"}, w \in Workspace : Work(x, kind, w)
       \/ Note(x)
       \/ Record(x)
       \/ Lose(x)
  \/ \E w \in Workspace : Edit(w)
  \/ \E c \in Card :
       \/ \E r \in Risk, w \in Workspace : New(c, r, w)
       \/ \E k \in Check : AddCriterion(c, k)
       \/ \E i \in 1..MaxCriteria, e \in 1..Len(log) : SetEvidence(c, i, e)
       \/ \E status \in {"open", "abandoned"} : SetStatus(c, status)
       \/ \E r \in Risk : SetRisk(c, r)
       \/ \E w \in Workspace : SetWorkspace(c, w)
       \/ Annotate(c)
       \/ Close(c)
       \/ Defer(c)
  \/ Save
  \/ LogUpdate
  \/ Kill

Spec == Init /\ [][Next]_vars
============================================================================
