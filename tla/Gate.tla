-------------------------------- MODULE Gate --------------------------------
(***************************************************************************)
(* Which session a command belongs to, and the stop gate: the session      *)
(* markers of store.py, the task-card commands as far as they touch the    *)
(* event log (cmd_task.py, taskcard.py), and the session-start, stop and   *)
(* session-end hooks (hooks.py, gate.py), in src/plugins/kiseki-da/core/ctx.*)
(*                                                                         *)
(* A host runs the hooks of one session one after the other; sessions, and *)
(* the commands their agents leave running, go on side by side.  A hook is *)
(* cut short at any step (the host's timeout) and its error is swallowed;  *)
(* a command is killed at any step.                                        *)
(*                                                                         *)
(* A stop whose payload has stop_hook_active is let go without a look at   *)
(* any card.  The host sends it to a session that goes on only because a   *)
(* stop was blocked; blocks by other plugins are left out.  Risks are R1   *)
(* (advise) and R2 (block; R3 is treated alike, R0 not at all).            *)
(* Operators named Slip... are plausible mistakes in the one that follows.  *)
(***************************************************************************)
EXTENDS Naturals, Sequences

CONSTANTS
  Sid,
  NoSid,     \* "nosession", and the file session/current when it is absent
  Proc,      \* task commands that may run at once
  Card,
  MaxSave,   \* how often cards are written
  MaxUpset   \* uses of `session clear', hooks and commands cut short

ASSUME GateAssumption == NoSid \notin Sid /\ {MaxSave, MaxUpset} \subseteq Nat

VARIABLES
  active,    \* the sids of session/active
  current,   \* session/current
  cards,     \* tasks/<id>.md
  touched,   \* per sid, the cards of its task_open and task_update events
  blocked,   \* per session, the cards of its blocking gate events, in order
  advised,   \* per session, the advisory_tasks of the others, in order
  hooks,     \* the hook a session is in; hooks[NoSid] is `session clear'
  cmds,      \* the commands under way
  again,     \* the sessions that go on because the host received a block
  saves, upsets

\* History: the blocked cards whose reason the host received, those whose hook
\* was cut short after it had logged the block, and the sessions of `again' whose
\* block was for a card their agent had not been told of.
VARIABLES shown, unheard, fresh

log == <<touched, blocked, advised>>
markers == <<active, current>>
bounds == <<saves, upsets>>
host == <<again, shown, unheard, fresh>>
vars == <<markers, cards, log, hooks, cmds, bounds, host>>

----------------------------------------------------------------------------
Absent == [status |-> "absent", risk |-> "R1"]
Written == [status : {"open", "closed"}, risk : {"R1", "R2"}]

Idle == [at |-> "idle"]
Marking == [at : {"unlink"}, todo : SUBSET Sid] \union [at : {"count"}] \union [at : {"point"}, only : SUBSET Sid]
\* `due' is history: the cards the log names when the gate begins, as long as
\* nobody has saved them since.
Gating == [at : {"load"}, todo : SUBSET Card, advised : SUBSET Card,
           open : SUBSET Card, advisory : SUBSET Card, due : SUBSET Card]
Showing == [at : {"show"}, card : Card]
Hook == {Idle} \union Marking \union Gating \union Showing

\* `own' is the session whose agent runs the command, `said' whether with --sid.
Command ==
  {Idle} \union [at : {"check", "load", "save", "log", "current"}, own : Sid, said : BOOLEAN,
                 card : Card, copy : Written \union {Absent}]

Init ==
  /\ active = {} /\ current = NoSid
  /\ cards = [c \in Card |-> Absent]
  /\ touched = [s \in Sid \union {NoSid} |-> {}]
  /\ blocked = [s \in Sid |-> <<>>] /\ advised = [s \in Sid |-> <<>>]
  /\ hooks = [s \in Sid \union {NoSid} |-> Idle]
  /\ cmds = [p \in Proc |-> Idle]
  /\ saves = 0 /\ upsets = 0
  /\ again = {} /\ shown = [s \in Sid |-> {}] /\ unheard = [s \in Sid |-> {}] /\ fresh = {}

----------------------------------------------------------------------------
\* Session markers.

\* The one active session, if there is just one.
Only == {s \in active : active = {s}}

Does(s, at) == hooks[s].at = at
Upset == upsets < MaxUpset /\ upsets' = upsets + 1
Turn(s, hook) == hooks' = [hooks EXCEPT ![s] = hook]
\* Session s no longer goes on because of a block.
Resumes(s) == again' = again \ {s} /\ fresh' = fresh \ {s} /\ UNCHANGED <<shown, unheard>>

\* set_current_sid() of the session-start hook, on resume and compaction too.
Register(s) ==
  /\ Does(s, "idle")
  /\ active' = active \union {s}
  /\ Turn(s, [at |-> "count"])
  /\ UNCHANGED <<current, cards, log, cmds, bounds, host>>

\* clear_current_sid(): the session-end hook, and `session clear' of one
\* session or all of them, which is no hook of theirs, unlink one by one.
Unregister(s, gone) ==
  /\ Does(s, "idle")
  /\ \/ s \in Sid /\ gone = {s} /\ UNCHANGED upsets
     \/ /\ s = NoSid /\ gone # {} /\ (gone = active \/ gone \in {{t} : t \in active})
        /\ Upset
  /\ Turn(s, [at |-> "unlink", todo |-> gone]) /\ Resumes(s)
  /\ UNCHANGED <<markers, cards, log, cmds, saves>>

Unlink(s, t) ==
  /\ Does(s, "unlink") /\ t \in hooks[s].todo
  /\ active' = active \ {t}
  /\ Turn(s, IF hooks[s].todo = {t} THEN [at |-> "count"] ELSE [hooks[s] EXCEPT !.todo = @ \ {t}])
  /\ UNCHANGED <<current, cards, log, cmds, bounds, host>>

\* Both read the markers again ...
CountActive(s) ==
  /\ Does(s, "count")
  /\ Turn(s, [at |-> "point", only |-> Only])
  /\ UNCHANGED <<markers, cards, log, cmds, bounds, host>>

\* ... and then write, or remove, session/current.
Point(s) ==
  /\ Does(s, "point")
  /\ current' = IF hooks[s].only = {} THEN NoSid ELSE CHOOSE t \in hooks[s].only : TRUE
  /\ Turn(s, Idle)
  /\ UNCHANGED <<active, cards, log, cmds, bounds, host>>

----------------------------------------------------------------------------
\* Task commands.

Runs(p, at) == cmds[p].at = at
Go(p, cmd) == cmds' = [cmds EXCEPT ![p] = cmd]

\* effective_sid() refuses to guess between sessions.
Attributable(cmd) == cmd.said \/ active = Only

Begin(p, s, said, card) ==
  /\ Runs(p, "idle") /\ saves < MaxSave
  /\ Go(p, [at |-> "check", own |-> s, said |-> said, card |-> card, copy |-> Absent])
  /\ UNCHANGED <<markers, cards, log, hooks, bounds, host>>

\* _make_store()
Check(p) ==
  /\ Runs(p, "check")
  /\ Go(p, IF Attributable(cmds[p]) THEN [cmds[p] EXCEPT !.at = "load"] ELSE Idle)
  /\ UNCHANGED <<markers, cards, log, hooks, bounds, host>>

Load(p) ==
  /\ Runs(p, "load")
  /\ Go(p, [cmds[p] EXCEPT !.at = "save", !.copy = cards[cmds[p].card]])
  /\ UNCHANGED <<markers, cards, log, hooks, bounds, host>>

\* new_card(); set_risk(), which never lowers it; set_status(), close() and
\* defer(); and whatever else saves a card.
SlipSaved(copy) ==
  IF copy = Absent THEN [status : {"open"}, risk : {"R1", "R2"}]
  ELSE {copy, [copy EXCEPT !.risk = IF @ = "R1" THEN "R2" ELSE "R3"],
        [copy EXCEPT !.status = "open"], [copy EXCEPT !.status = "closed"]}
Saved(copy) ==
  IF copy = Absent THEN [status : {"open"}, risk : {"R1", "R2"}]
  ELSE {copy, [copy EXCEPT !.risk = "R2"], [copy EXCEPT !.status = "open"], [copy EXCEPT !.status = "closed"]}

\* A new card asks for the folder of the session first, which may be refused.
Save(p) ==
  LET cmd == cmds[p]
  IN /\ Runs(p, "save") /\ saves < MaxSave
     /\ cmd.copy = Absent => Attributable(cmd)
     /\ \E card \in Saved(cmd.copy) :
          /\ cards' = [cards EXCEPT ![cmd.card] = card]
          /\ Go(p, [cmd EXCEPT !.at = "log", !.copy = card])
     /\ hooks' = [s \in DOMAIN hooks |->
          IF Does(s, "load") THEN [hooks[s] EXCEPT !.due = @ \ {cmd.card}] ELSE hooks[s]]
     /\ saves' = saves + 1
     /\ UNCHANGED <<markers, log, upsets, host>>

\* append_event(): effective_sid() once more ...
SlipOwner(cmd) == IF cmd.said THEN {cmd.own} ELSE IF current # NoSid THEN {current} ELSE active
Owner(cmd) == IF cmd.said THEN {cmd.own} ELSE active

\* `task set' with several options saves the same copy again.
MoreOptions(p) == Go(p, Idle) \/ Go(p, [cmds[p] EXCEPT !.at = "save"])

LogEvent(p) ==
  LET cmd == cmds[p]
  IN /\ Runs(p, "log")
     /\ \E s \in Owner(cmd) :
          /\ Owner(cmd) = {s}
          /\ touched' = [touched EXCEPT ![s] = @ \union {cmd.card}]
     /\ MoreOptions(p)
     /\ UNCHANGED <<markers, cards, blocked, advised, hooks, bounds, host>>

\* ... which fails, the card being written, when a session began meanwhile.
\* Before that a command may give up for reasons of its own (see Task.tla).
Refuse(p) ==
  /\ Runs(p, "save") \/ (Runs(p, "log") /\ ~ Attributable(cmds[p]))
  /\ Go(p, Idle)
  /\ UNCHANGED <<markers, cards, log, hooks, bounds, host>>

\* Without any session it goes on to current_sid(), which counts again.
NoneActive(p) ==
  /\ Runs(p, "log")
  /\ ~ cmds[p].said /\ active = {}
  /\ Go(p, [cmds[p] EXCEPT !.at = "current"])
  /\ UNCHANGED <<markers, cards, log, hooks, bounds, host>>

CurrentSid ==
  IF active = {} THEN current
  ELSE IF Only # {} THEN CHOOSE s \in Only : TRUE
  ELSE NoSid

LogCurrent(p) ==
  /\ Runs(p, "current")
  /\ touched' = [touched EXCEPT ![CurrentSid] = @ \union {cmds[p].card}]
  /\ MoreOptions(p)
  /\ UNCHANGED <<markers, cards, blocked, advised, hooks, bounds, host>>

----------------------------------------------------------------------------
\* stop_gate()

SlipAsked(s) == UNION {{blocked[t][i] : i \in DOMAIN blocked[t]} : t \in Sid}
Asked(s) == {blocked[s][i] : i \in DOMAIN blocked[s]}
Advised(s) == UNION {advised[s][i] : i \in DOMAIN advised[s]}

\* A stop that follows a block, and nothing the user wrote since: no card is
\* looked at, and the gate event that is logged names none.
Follow(s) ==
  /\ Does(s, "idle") /\ s \in again /\ Resumes(s)
  /\ UNCHANGED <<markers, cards, log, hooks, cmds, bounds>>

\* Any other stop: one pass over the log of the session ...
Stop(s) ==
  /\ Does(s, "idle") /\ Resumes(s)
  /\ Turn(s, [at |-> "load", todo |-> touched[s] \ Asked(s), advised |-> Advised(s),
              open |-> {}, advisory |-> {}, due |-> touched[s]])
  /\ UNCHANGED <<markers, cards, log, cmds, bounds>>

\* ... then the cards it names, one after the other.
Blocks(card) == card.status = "open" /\ card.risk = "R2"
SlipAdvises(c, hook) == cards[c].status = "open" /\ cards[c].risk = "R1"
Advises(c, hook) == cards[c].status = "open" /\ cards[c].risk = "R1" /\ c \notin hook.advised

LoadCard(s, c) ==
  LET hook == hooks[s]
  IN /\ Does(s, "load") /\ c \in hook.todo
     /\ Turn(s, [hook EXCEPT !.todo = @ \ {c},
                 !.open = IF Blocks(cards[c]) THEN @ \union {c} ELSE @,
                 !.advisory = IF Advises(c, hook) THEN @ \union {c} ELSE @])
     /\ UNCHANGED <<markers, cards, log, cmds, bounds, host>>

\* One of the open cards is blocked: in the code the latest updated, which no
\* property tells apart.  The event is logged before the host is told.
Block(s, c) ==
  LET hook == hooks[s]
  IN /\ Does(s, "load") /\ hook.todo = {} /\ c \in hook.open
     /\ blocked' = [blocked EXCEPT ![s] = Append(@, c)]
     /\ Turn(s, [at |-> "show", card |-> c])
     /\ UNCHANGED <<markers, cards, touched, advised, cmds, bounds, host>>

Pass(s) ==
  LET hook == hooks[s]
  IN /\ Does(s, "load") /\ hook.todo = {} /\ hook.open = {}
     /\ advised' = [advised EXCEPT ![s] = IF hook.advisory = {} THEN @ ELSE Append(@, hook.advisory)]
     /\ Turn(s, Idle)
     /\ UNCHANGED <<markers, cards, touched, blocked, cmds, bounds, host>>

\* format_output(): the host does not let the session stop.
Show(s) ==
  /\ Does(s, "show")
  /\ shown' = [shown EXCEPT ![s] = @ \union {hooks[s].card}]
  /\ again' = again \union {s}
  /\ fresh' = IF hooks[s].card \in shown[s] THEN fresh \ {s} ELSE fresh \union {s}
  /\ Turn(s, Idle)
  /\ UNCHANGED <<markers, cards, log, cmds, bounds, unheard>>

----------------------------------------------------------------------------
DieHook(s) ==
  /\ ~ Does(s, "idle")
  /\ Turn(s, Idle)
  /\ unheard' = IF Does(s, "show") THEN [unheard EXCEPT ![s] = @ \union {hooks[s].card}] ELSE unheard
  /\ UNCHANGED <<cmds, again, shown, fresh>>

DieCommand(p) == ~ Runs(p, "idle") /\ Go(p, Idle) /\ UNCHANGED <<hooks, host>>

Die ==
  /\ Upset
  /\ (\E s \in DOMAIN hooks : DieHook(s)) \/ (\E p \in Proc : DieCommand(p))
  /\ UNCHANGED <<markers, cards, log, saves>>

Next ==
  \/ \E s \in Sid : Register(s) \/ Follow(s) \/ Stop(s) \/ Pass(s) \/ Show(s)
  \/ \E s \in Sid, c \in Card : LoadCard(s, c) \/ Block(s, c)
  \/ \E s \in Sid \union {NoSid} : CountActive(s) \/ Point(s)
  \/ \E s \in Sid \union {NoSid}, gone \in SUBSET Sid : Unregister(s, gone)
  \/ \E s \in Sid \union {NoSid}, t \in Sid : Unlink(s, t)
  \/ \E p \in Proc, s \in Sid, said \in BOOLEAN, c \in Card : Begin(p, s, said, c)
  \/ \E p \in Proc : Check(p) \/ Load(p) \/ Save(p) \/ LogEvent(p) \/ Refuse(p) \/ NoneActive(p) \/ LogCurrent(p)
  \/ Die

Spec == Init /\ [][Next]_vars
=============================================================================
