----------------------------- MODULE GateProofs -----------------------------
(* The stop gate and the ownership of events, for any number of sessions,   *)
(* cards and commands.                                                      *)
EXTENDS GateSafety, TLAPS

Hooked == Sid \union {NoSid}

----------------------------------------------------------------------------
(* Types. *)

LEMMA Kinds ==
  ASSUME TypeOK, NEW s \in Hooked
  PROVE  /\ hooks[s] \in Hook
         /\ Does(s, "unlink") => hooks[s] \in [at : {"unlink"}, todo : SUBSET Sid]
         /\ Does(s, "point") => hooks[s] \in [at : {"point"}, only : SUBSET Sid]
         /\ Does(s, "load") => hooks[s] \in Gating
         /\ Does(s, "show") => hooks[s] \in Showing
<1>1. hooks[s] \in Hook
  BY DEF TypeOK, Hooked
<1> QED
  BY <1>1 DEF Hook, Idle, Marking, Gating, Showing, Does

LEMMA TurnTyped ==
  ASSUME TypeOK, NEW s \in Hooked, NEW hook \in Hook, Turn(s, hook)
  PROVE  hooks' \in [Hooked -> Hook]
  BY DEF TypeOK, Turn, Hooked

LEMMA HookKinds ==
  /\ Idle \in Hook /\ [at |-> "count"] \in Hook
  /\ \A gone \in SUBSET Sid : /\ [at |-> "unlink", todo |-> gone] \in Hook
                              /\ [at |-> "point", only |-> gone] \in Hook
  /\ \A c \in Card : [at |-> "show", card |-> c] \in Hook
  BY DEF Hook, Marking, Showing

LEMMA RegisterTyped == ASSUME TypeOK, NEW s \in Sid, Register(s) PROVE TypeOK'
<1>1. hooks' \in [Hooked -> Hook]
  BY TurnTyped, HookKinds DEF Register, Hooked
<1> QED
  BY <1>1 DEF Register, TypeOK, Hooked, log, bounds, host

LEMMA UnregisterTyped ==
  ASSUME TypeOK, NEW s \in Hooked, NEW gone \in SUBSET Sid, Unregister(s, gone)
  PROVE  TypeOK'
<1>1. hooks' \in [Hooked -> Hook]
  BY TurnTyped, HookKinds DEF Unregister
<1>2. upsets' \in Nat
  BY DEF Unregister, Upset, TypeOK
<1> QED
  BY <1>1, <1>2 DEF Unregister, Resumes, TypeOK, Hooked, log, markers

LEMMA UnlinkTyped ==
  ASSUME TypeOK, NEW s \in Hooked, NEW t \in Sid, Unlink(s, t) PROVE TypeOK'
<1> DEFINE rest == [hooks[s] EXCEPT !.todo = @ \ {t}]
<1>1. hooks[s] \in [at : {"unlink"}, todo : SUBSET Sid]
  BY Kinds DEF Unlink
<1>2. rest \in Hook
  BY <1>1 DEF Hook, Marking
<1>3. hooks' \in [Hooked -> Hook]
  BY <1>2, TurnTyped, HookKinds DEF Unlink
<1> QED
  BY <1>3 DEF Unlink, TypeOK, Hooked, log, bounds, host

LEMMA CountTyped == ASSUME TypeOK, NEW s \in Hooked, CountActive(s) PROVE TypeOK'
<1>1. Only \in SUBSET Sid
  BY DEF Only, TypeOK
<1>2. hooks' \in [Hooked -> Hook]
  BY <1>1, TurnTyped, HookKinds DEF CountActive
<1> QED
  BY <1>2 DEF CountActive, TypeOK, Hooked, log, markers, bounds, host

LEMMA PointTyped == ASSUME TypeOK, NEW s \in Hooked, Point(s) PROVE TypeOK'
<1>1. hooks[s] \in [at : {"point"}, only : SUBSET Sid]
  BY Kinds DEF Point
<1>2. current' \in Sid \union {NoSid}
  BY <1>1 DEF Point
<1>3. hooks' \in [Hooked -> Hook]
  BY TurnTyped, HookKinds DEF Point
<1> QED
  BY <1>2, <1>3 DEF Point, TypeOK, Hooked, log, bounds, host

----------------------------------------------------------------------------
LEMMA CommandKinds ==
  ASSUME TypeOK, NEW p \in Proc, ~ Runs(p, "idle")
  PROVE  cmds[p] \in [at : {"check", "load", "save", "log", "current"}, own : Sid, said : BOOLEAN,
                      card : Card, copy : Written \union {Absent}]
  BY DEF TypeOK, Command, Idle, Runs

LEMMA GoTyped ==
  ASSUME TypeOK, NEW p \in Proc, NEW cmd \in Command, Go(p, cmd)
  PROVE  cmds' \in [Proc -> Command]
  BY DEF TypeOK, Go

LEMMA IdleCommand == Idle \in Command
  BY DEF Command

LEMMA MoreTyped ==
  ASSUME TypeOK, NEW p \in Proc, ~ Runs(p, "idle"), MoreOptions(p)
  PROVE  cmds' \in [Proc -> Command]
<1>1. [cmds[p] EXCEPT !.at = "save"] \in Command
  BY CommandKinds DEF Command
<1> QED
  BY <1>1, GoTyped, IdleCommand DEF MoreOptions

LEMMA BeginTyped ==
  ASSUME TypeOK, NEW p \in Proc, NEW s \in Sid, NEW said \in BOOLEAN, NEW c \in Card, Begin(p, s, said, c)
  PROVE  TypeOK'
<1>1. [at |-> "check", own |-> s, said |-> said, card |-> c, copy |-> Absent] \in Command
  BY DEF Command
<1>2. cmds' \in [Proc -> Command]
  BY <1>1, GoTyped DEF Begin
<1> QED
  BY <1>2 DEF Begin, TypeOK, log, markers, bounds, host

LEMMA CheckTyped == ASSUME TypeOK, NEW p \in Proc, Check(p) PROVE TypeOK'
<1>1. [cmds[p] EXCEPT !.at = "load"] \in Command
  BY CommandKinds DEF Command, Check, Runs
<1>2. cmds' \in [Proc -> Command]
  BY <1>1, GoTyped, IdleCommand DEF Check
<1> QED
  BY <1>2 DEF Check, TypeOK, log, markers, bounds, host

LEMMA LoadTyped == ASSUME TypeOK, NEW p \in Proc, Load(p) PROVE TypeOK'
<1>1. cmds[p].card \in Card
  BY CommandKinds DEF Load, Runs
<1>2. cards[cmds[p].card] \in Written \union {Absent}
  BY <1>1 DEF TypeOK
<1>3. [cmds[p] EXCEPT !.at = "save", !.copy = cards[cmds[p].card]] \in Command
  BY <1>2, CommandKinds DEF Command, Load, Runs
<1>4. cmds' \in [Proc -> Command]
  BY <1>3, GoTyped DEF Load
<1> QED
  BY <1>4 DEF Load, TypeOK, log, markers, bounds, host

LEMMA SavedWritten == ASSUME NEW copy \in Written \union {Absent} PROVE Saved(copy) \subseteq Written
  BY DEF Saved, Written, Absent

\* What Save(p) does to the hooks.
Touched(c) ==
  [s \in DOMAIN hooks |->
     IF Does(s, "load") THEN [hooks[s] EXCEPT !.due = @ \ {c}] ELSE hooks[s]]

LEMMA SaveHooks ==
  ASSUME TypeOK, NEW c \in Card
  PROVE  /\ Touched(c) \in [Hooked -> Hook]
         /\ \A s \in Hooked :
              /\ Touched(c)[s].at = hooks[s].at
              /\ ~ Does(s, "load") => Touched(c)[s] = hooks[s]
              /\ Does(s, "load") =>
                   /\ Touched(c)[s].todo = hooks[s].todo /\ Touched(c)[s].open = hooks[s].open
                   /\ Touched(c)[s].advised = hooks[s].advised
                   /\ Touched(c)[s].advisory = hooks[s].advisory
                   /\ Touched(c)[s].due = hooks[s].due \ {c}
<1>1. DOMAIN hooks = Hooked
  BY DEF TypeOK, Hooked
<1>2. ASSUME NEW s \in Hooked, Does(s, "load")
      PROVE  /\ Touched(c)[s] = [hooks[s] EXCEPT !.due = @ \ {c}]
             /\ hooks[s] \in Gating /\ Touched(c)[s] \in Gating
  <2>1. hooks[s] \in Gating
    BY <1>2, Kinds
  <2>2. [hooks[s] EXCEPT !.due = @ \ {c}] \in Gating
    BY <2>1 DEF Gating
  <2> QED
    BY <1>1, <1>2, <2>1, <2>2 DEF Touched
<1>3. ASSUME NEW s \in Hooked, ~ Does(s, "load")
      PROVE  Touched(c)[s] = hooks[s] /\ hooks[s] \in Hook
  BY <1>1, <1>3, Kinds DEF Touched
<1>4. ASSUME NEW s \in Hooked PROVE Touched(c)[s] \in Hook
  BY <1>2, <1>3, <1>4 DEF Hook
<1>5. Touched(c) \in [Hooked -> Hook]
  BY <1>1, <1>4 DEF Touched
<1> QED
  BY <1>2, <1>3, <1>5 DEF Gating

LEMMA SaveTyped == ASSUME TypeOK, NEW p \in Proc, Save(p) PROVE TypeOK'
<1> DEFINE cmd == cmds[p]
<1>1. cmd.card \in Card /\ cmd.copy \in Written \union {Absent}
  BY CommandKinds DEF Save, Runs
<1>2. PICK card \in Saved(cmd.copy) :
        /\ cards' = [cards EXCEPT ![cmd.card] = card]
        /\ Go(p, [cmd EXCEPT !.at = "log", !.copy = card])
  BY DEF Save
<1>3. card \in Written
  BY <1>1, SavedWritten
<1>4. [cmd EXCEPT !.at = "log", !.copy = card] \in Command
  BY <1>3, CommandKinds DEF Command, Save, Runs
<1>5. cmds' \in [Proc -> Command]
  BY <1>2, <1>4, GoTyped
<1>6. hooks' \in [Hooked -> Hook]
  BY <1>1, SaveHooks DEF Save, Touched
<1>7. cards' \in [Card -> Written \union {Absent}]
  <2>1. cards \in [Card -> Written \union {Absent}] /\ cards' = [cards EXCEPT ![cmd.card] = card]
    BY <1>2 DEF TypeOK
  <2> HIDE DEF cmd
  <2> QED
    BY <1>3, <2>1
<1>8. saves' \in Nat
  BY DEF Save, TypeOK
<1> QED
  BY <1>5, <1>6, <1>7, <1>8 DEF Save, TypeOK, Hooked, log, markers, host

LEMMA LogTyped == ASSUME TypeOK, NEW p \in Proc, LogEvent(p) PROVE TypeOK'
<1>1. cmds[p].card \in Card /\ ~ Runs(p, "idle")
  BY CommandKinds DEF LogEvent, Runs
<1>2. touched' \in [Hooked -> SUBSET Card]
  <2>1. touched \in [Hooked -> SUBSET Card]
    BY DEF TypeOK, Hooked
  <2>2. PICK s : touched' = [touched EXCEPT ![s] = @ \union {cmds[p].card}]
    BY DEF LogEvent
  <2> QED
    BY <1>1, <2>1, <2>2
<1>3. cmds' \in [Proc -> Command]
  BY <1>1, MoreTyped DEF LogEvent
<1> QED
  BY <1>2, <1>3 DEF LogEvent, TypeOK, Hooked, markers, bounds, host

LEMMA LogCurrentTyped == ASSUME TypeOK, NEW p \in Proc, LogCurrent(p) PROVE TypeOK'
<1>1. cmds[p].card \in Card /\ ~ Runs(p, "idle")
  BY CommandKinds DEF LogCurrent, Runs
<1>2. touched' \in [Hooked -> SUBSET Card]
  <2>1. touched \in [Hooked -> SUBSET Card] /\ touched' = [touched EXCEPT ![CurrentSid] = @ \union {cmds[p].card}]
    BY DEF LogCurrent, TypeOK, Hooked
  <2> QED
    BY <1>1, <2>1
<1>3. cmds' \in [Proc -> Command]
  BY <1>1, MoreTyped DEF LogCurrent
<1> QED
  BY <1>2, <1>3 DEF LogCurrent, TypeOK, Hooked, markers, bounds, host

LEMMA RefuseTyped == ASSUME TypeOK, NEW p \in Proc, Refuse(p) PROVE TypeOK'
<1>1. cmds' \in [Proc -> Command]
  BY GoTyped, IdleCommand DEF Refuse
<1> QED
  BY <1>1 DEF Refuse, TypeOK, log, markers, bounds, host

LEMMA NoneActiveTyped == ASSUME TypeOK, NEW p \in Proc, NoneActive(p) PROVE TypeOK'
<1>1. [cmds[p] EXCEPT !.at = "current"] \in Command
  BY CommandKinds DEF Command, NoneActive, Runs
<1>2. cmds' \in [Proc -> Command]
  BY <1>1, GoTyped DEF NoneActive
<1> QED
  BY <1>2 DEF NoneActive, TypeOK, log, markers, bounds, host

----------------------------------------------------------------------------
LEMMA LogSets ==
  ASSUME TypeOK, NEW s \in Sid
  PROVE  Asked(s) \subseteq Card /\ Advised(s) \subseteq Card
  BY DEF TypeOK, Asked, Advised

LEMMA StopTyped == ASSUME TypeOK, NEW s \in Sid, Stop(s) PROVE TypeOK'
<1> DEFINE hook == [at |-> "load", todo |-> touched[s] \ Asked(s), advised |-> Advised(s),
                    open |-> {}, advisory |-> {}, due |-> touched[s]]
<1>1. touched[s] \in SUBSET Card
  BY DEF TypeOK
<1>2. hook \in Hook
  BY <1>1, LogSets DEF Hook, Gating
<1>3. hooks' \in [Hooked -> Hook]
  BY <1>2, TurnTyped DEF Stop, Hooked
<1> QED
  BY <1>3 DEF Stop, Resumes, TypeOK, Hooked, log, markers, bounds

LEMMA FollowTyped == ASSUME TypeOK, NEW s \in Sid, Follow(s) PROVE TypeOK'
  BY DEF Follow, Resumes, TypeOK, log, markers, bounds

LEMMA LoadCardTyped ==
  ASSUME TypeOK, NEW s \in Sid, NEW c \in Card, LoadCard(s, c) PROVE TypeOK'
<1> DEFINE hook == hooks[s]
           next == [hook EXCEPT !.todo = @ \ {c},
                      !.open = IF Blocks(cards[c]) THEN @ \union {c} ELSE @,
                      !.advisory = IF Advises(c, hook) THEN @ \union {c} ELSE @]
<1>1. hook \in Gating
  BY Kinds DEF LoadCard, Hooked
<1>2. next \in Hook
  BY <1>1 DEF Hook, Gating
<1>3. hooks' \in [Hooked -> Hook]
  BY <1>2, TurnTyped DEF LoadCard, Hooked
<1> QED
  BY <1>3 DEF LoadCard, TypeOK, Hooked, log, markers, bounds, host

LEMMA BlockTyped == ASSUME TypeOK, NEW s \in Sid, NEW c \in Card, Block(s, c) PROVE TypeOK'
<1>1. hooks' \in [Hooked -> Hook]
  BY TurnTyped, HookKinds DEF Block, Hooked
<1>2. blocked' \in [Sid -> Seq(Card)]
  BY DEF Block, TypeOK
<1> QED
  BY <1>1, <1>2 DEF Block, TypeOK, Hooked, markers, bounds, host

LEMMA PassTyped == ASSUME TypeOK, NEW s \in Sid, Pass(s) PROVE TypeOK'
<1>1. hooks[s].advisory \in SUBSET Card
  BY Kinds DEF Pass, Hooked, Gating
<1>2. advised' \in [Sid -> Seq(SUBSET Card)]
  BY <1>1 DEF Pass, TypeOK
<1>3. hooks' \in [Hooked -> Hook]
  BY TurnTyped, HookKinds DEF Pass, Hooked
<1> QED
  BY <1>2, <1>3 DEF Pass, TypeOK, Hooked, markers, bounds, host

LEMMA ShowTyped == ASSUME TypeOK, NEW s \in Sid, Show(s) PROVE TypeOK'
<1>1. hooks[s].card \in Card
  BY Kinds DEF Show, Hooked, Showing
<1>2. shown' \in [Sid -> SUBSET Card]
  BY <1>1 DEF Show, TypeOK
<1>3. hooks' \in [Hooked -> Hook]
  BY TurnTyped, HookKinds DEF Show, Hooked
<1>4. again' \subseteq Sid /\ fresh' \subseteq Sid
  BY DEF Show, TypeOK
<1> QED
  BY <1>2, <1>3, <1>4 DEF Show, TypeOK, Hooked, log, markers, bounds

LEMMA DieTyped == ASSUME TypeOK, Die PROVE TypeOK'
<1>1. upsets' \in Nat
  BY DEF Die, Upset, TypeOK
<1>2. ASSUME NEW s \in Hooked, DieHook(s) PROVE TypeOK'
  <2>1. hooks' \in [Hooked -> Hook]
    BY <1>2, TurnTyped, HookKinds DEF DieHook
  <2>2. Does(s, "show") => hooks[s].card \in Card
    BY <1>2, Kinds DEF Showing
  <2>3. unheard' \in [Sid -> SUBSET Card]
    BY <1>2, <2>2 DEF DieHook, TypeOK
  <2> QED
    BY <1>1, <1>2, <2>1, <2>3 DEF DieHook, Die, TypeOK, Hooked, log, markers
<1>3. ASSUME NEW p \in Proc, DieCommand(p) PROVE TypeOK'
  <2>1. cmds' \in [Proc -> Command]
    BY <1>3, GoTyped, IdleCommand DEF DieCommand
  <2> QED
    BY <1>1, <1>3, <2>1 DEF DieCommand, Die, TypeOK, log, markers, host
<1>4. DOMAIN hooks = Hooked
  BY DEF TypeOK, Hooked
<1> QED
  BY <1>2, <1>3, <1>4 DEF Die
LEMMA StepTyped == ASSUME GateAssumption, TypeOK, [Next]_vars PROVE TypeOK'
<1>1. ASSUME UNCHANGED vars PROVE TypeOK'
  BY <1>1 DEF TypeOK, vars, log, markers, bounds, host
<1>2. ASSUME NEW s \in Sid, Register(s) \/ Follow(s) \/ Stop(s) \/ Pass(s) \/ Show(s) PROVE TypeOK'
  BY <1>2, RegisterTyped, FollowTyped, StopTyped, PassTyped, ShowTyped
<1>3. ASSUME NEW s \in Sid, NEW c \in Card, LoadCard(s, c) \/ Block(s, c) PROVE TypeOK'
  BY <1>3, LoadCardTyped, BlockTyped
<1>4. ASSUME NEW s \in Sid \union {NoSid}, CountActive(s) \/ Point(s) PROVE TypeOK'
  BY <1>4, CountTyped, PointTyped DEF Hooked
<1>5. ASSUME NEW s \in Sid \union {NoSid}, NEW gone \in SUBSET Sid, Unregister(s, gone) PROVE TypeOK'
  BY <1>5, UnregisterTyped DEF Hooked
<1>6. ASSUME NEW s \in Sid \union {NoSid}, NEW t \in Sid, Unlink(s, t) PROVE TypeOK'
  BY <1>6, UnlinkTyped DEF Hooked
<1>7. ASSUME NEW p \in Proc, NEW s \in Sid, NEW said \in BOOLEAN, NEW c \in Card, Begin(p, s, said, c)
      PROVE  TypeOK'
  BY <1>7, BeginTyped
<1>8. ASSUME NEW p \in Proc, \/ Check(p) \/ Load(p) \/ Save(p) \/ LogEvent(p)
                             \/ Refuse(p) \/ NoneActive(p) \/ LogCurrent(p)
      PROVE  TypeOK'
  BY <1>8, CheckTyped, LoadTyped, SaveTyped, LogTyped, RefuseTyped, NoneActiveTyped, LogCurrentTyped
<1>9. ASSUME Die PROVE TypeOK'
  BY <1>9, DieTyped
<1> QED
  BY <1>1, <1>2, <1>3, <1>4, <1>5, <1>6, <1>7, <1>8, <1>9 DEF Next

LEMMA InitTyped == ASSUME Init PROVE TypeOK
<1>1. hooks \in [Hooked -> Hook] /\ cmds \in [Proc -> Command]
  BY HookKinds, IdleCommand DEF Init, Hooked
<1>2. blocked \in [Sid -> Seq(Card)] /\ advised \in [Sid -> Seq(SUBSET Card)]
  BY DEF Init
<1> QED
  BY <1>1, <1>2 DEF Init, TypeOK, Hooked

\* No order of sessions, hooks and commands, cut short anywhere, leaves the
\* markers, the cards or the log malformed.
THEOREM GateTypeCorrect == Spec => []TypeOK
<1>1. Init => TypeOK
  BY InitTyped
<1>2. TypeOK /\ [Next]_vars => TypeOK'
  BY StepTyped, GateAssumption
<1> QED
  BY <1>1, <1>2, PTL DEF Spec

----------------------------------------------------------------------------
(* The inductive invariant: the gate of each session.                       *)

Telling(s) == IF Does(s, "show") THEN {hooks[s].card} ELSE {}

\* Every block is known to the host, lost with its hook, or about to be told.
Told(s) == Asked(s) \subseteq shown[s] \union unheard[s] \union Telling(s)

\* What the host is told of a card it is told once, after the gate asked, ...
Fresh(s) ==
  shown[s] \union Telling(s) \subseteq Asked(s) /\ Telling(s) \intersect shown[s] = {}

\* ... so a session goes on because of a block only of a card new to its agent.
News == again \subseteq fresh

\* What a gate is about to ask it has not asked before, ...
New(s) ==
  Does(s, "load") =>
    /\ (hooks[s].todo \union hooks[s].open) \intersect Asked(s) = {}
    /\ hooks[s].advised = Advised(s) /\ hooks[s].advisory \intersect Advised(s) = {}

\* ... and a card nobody saved since it began is not out of its sight.
Watched(s) ==
  Does(s, "load") =>
    \A c \in hooks[s].due : Blocks(cards[c]) => c \in hooks[s].todo \union hooks[s].open \union Asked(s)

Once(s) ==
  /\ \A i, j \in DOMAIN blocked[s] : blocked[s][i] = blocked[s][j] => i = j
  /\ \A i, j \in DOMAIN advised[s] : advised[s][i] \intersect advised[s][j] # {} => i = j

Good(s) == Told(s) /\ Fresh(s) /\ New(s) /\ Watched(s) /\ Once(s)
GateInv == TypeOK /\ News /\ \A s \in Sid : Good(s)

\* The log of s and what its agent was told stay as they are.
Still(s) ==
  /\ blocked'[s] = blocked[s] /\ advised'[s] = advised[s]
  /\ shown'[s] = shown[s] /\ unheard'[s] = unheard[s]

LEMMA StillSets ==
  ASSUME NEW s, Still(s)
  PROVE  Asked(s)' = Asked(s) /\ Advised(s)' = Advised(s) /\ (Once(s) => Once(s)')
  BY DEF Still, Asked, Advised, Once

\* A step that leaves the hook of s and the cards alone keeps the gate of s.
LEMMA Apart ==
  ASSUME NEW s, Good(s), Still(s), hooks'[s] = hooks[s], cards' = cards
  PROVE  Good(s)'
<1>1. Asked(s)' = Asked(s) /\ Advised(s)' = Advised(s) /\ Once(s)'
  BY StillSets DEF Good
<1>2. Told(s)' /\ Fresh(s)' /\ New(s)' /\ Watched(s)'
  BY <1>1 DEF Good, Told, Fresh, New, Watched, Telling, Does, Still, Blocks
<1> QED
  BY <1>1, <1>2 DEF Good

\* So does one by which the hook of s goes anywhere but into the gate.
LEMMA Outside ==
  ASSUME NEW s, Good(s), Still(s), ~ Does(s, "show"), hooks'[s].at \notin {"load", "show"}
  PROVE  Good(s)'
<1>1. Asked(s)' = Asked(s) /\ Advised(s)' = Advised(s) /\ Once(s)'
  BY StillSets DEF Good
<1>2. Told(s)' /\ Fresh(s)' /\ New(s)' /\ Watched(s)'
  BY <1>1 DEF Good, Told, Fresh, New, Watched, Telling, Does, Still
<1> QED
  BY <1>1, <1>2 DEF Good

LEMMA OneTurn ==
  ASSUME TypeOK, NEW s \in Hooked, NEW hook, Turn(s, hook)
  PROVE  /\ hooks'[s] = hook
         /\ \A x \in Hooked : x # s => hooks'[x] = hooks[x]
  BY DEF TypeOK, Turn, Hooked

\* The hook of one session moves and nothing of another session does.
LEMMA OnlyOne ==
  ASSUME GateInv, NEW s \in Hooked, NEW hook, Turn(s, hook), cards' = cards,
         \A x \in Sid : x # s => Still(x),
         s \in Sid => Good(s)'
  PROVE  \A x \in Sid : Good(x)'
<1> SUFFICES ASSUME NEW x \in Sid, x # s PROVE Good(x)'
  OBVIOUS
<1>1. hooks'[x] = hooks[x]
  BY OneTurn DEF GateInv, Hooked
<1> QED
  BY <1>1, Apart DEF GateInv

\* The markers.
LEMMA MarkersKeep ==
  ASSUME GateInv, NEW s \in Hooked, NEW hook, Turn(s, hook), cards' = cards,
         UNCHANGED <<blocked, advised, shown, unheard>>,
         ~ Does(s, "show"), hook.at \notin {"load", "show"}
  PROVE  \A x \in Sid : Good(x)'
<1>1. \A x \in Sid : Still(x)
  BY DEF Still
<1>2. s \in Sid => Good(s)'
  BY <1>1, OneTurn, Outside DEF GateInv
<1> QED
  BY <1>1, <1>2, OnlyOne

LEMMA StopKeeps == ASSUME GateInv, NEW s \in Sid, Stop(s) PROVE \A x \in Sid : Good(x)'
<1> DEFINE hook == [at |-> "load", todo |-> touched[s] \ Asked(s), advised |-> Advised(s),
                    open |-> {}, advisory |-> {}, due |-> touched[s]]
<1>1. Turn(s, hook) /\ s \in Hooked /\ cards' = cards
  BY DEF Stop, Hooked
<1>2. \A x \in Sid : Still(x)
  BY DEF Stop, Resumes, Still, log
<1>3. hooks'[s] = hook
  BY <1>1, OneTurn DEF GateInv
<1>4. Asked(s)' = Asked(s) /\ Advised(s)' = Advised(s) /\ Once(s)'
  BY <1>2, StillSets DEF GateInv, Good
<1>5. Told(s)' /\ Fresh(s)'
  BY <1>2, <1>3, <1>4 DEF GateInv, Good, Told, Fresh, Telling, Does, Stop, Still
<1>6. New(s)' /\ Watched(s)'
  BY <1>3, <1>4 DEF New, Watched
<1>7. Good(s)'
  BY <1>4, <1>5, <1>6 DEF Good
<1> QED
  BY <1>1, <1>2, <1>7, OnlyOne

LEMMA LoadCardKeeps ==
  ASSUME GateInv, NEW s \in Sid, NEW c \in Card, LoadCard(s, c) PROVE \A x \in Sid : Good(x)'
<1> DEFINE hook == hooks[s]
           next == [hook EXCEPT !.todo = @ \ {c},
                      !.open = IF Blocks(cards[c]) THEN @ \union {c} ELSE @,
                      !.advisory = IF Advises(c, hook) THEN @ \union {c} ELSE @]
<1>1. Turn(s, next) /\ s \in Hooked /\ cards' = cards /\ Does(s, "load") /\ c \in hook.todo
  BY DEF LoadCard, Hooked
<1>2. \A x \in Sid : Still(x)
  BY DEF LoadCard, Still, log, host
<1>3. hook \in Gating /\ hooks'[s] = next
  BY <1>1, Kinds, OneTurn DEF GateInv
<1>4. Asked(s)' = Asked(s) /\ Advised(s)' = Advised(s) /\ Once(s)'
  BY <1>2, StillSets DEF GateInv, Good
<1>5. /\ next.at = "load" /\ next.todo = hook.todo \ {c} /\ next.advised = hook.advised
      /\ next.due = hook.due
      /\ next.open = IF Blocks(cards[c]) THEN hook.open \union {c} ELSE hook.open
      /\ next.advisory = IF Advises(c, hook) THEN hook.advisory \union {c} ELSE hook.advisory
  BY <1>1, <1>3 DEF Gating
<1>6. Told(s)' /\ Fresh(s)'
  BY <1>1, <1>2, <1>3, <1>4, <1>5 DEF GateInv, Good, Told, Fresh, Telling, Does, Still
<1>7. New(s)'
  BY <1>1, <1>3, <1>4, <1>5 DEF GateInv, Good, New, Does, Advises
<1>8. Watched(s)'
  BY <1>1, <1>3, <1>4, <1>5 DEF GateInv, Good, Watched, Does, Blocks
<1>9. Good(s)'
  BY <1>4, <1>6, <1>7, <1>8 DEF Good
<1> QED
  BY <1>1, <1>2, <1>9, OnlyOne

\* Appending to a sequence what it does not hold.
LEMMA AppendNew ==
  ASSUME NEW S, NEW seq \in Seq(S), NEW x \in S
  PROVE  /\ Append(seq, x) \in Seq(S) /\ DOMAIN Append(seq, x) = DOMAIN seq \union {Len(seq) + 1}
         /\ Append(seq, x)[Len(seq) + 1] = x
         /\ \A i \in DOMAIN seq : Append(seq, x)[i] = seq[i] /\ i # Len(seq) + 1
  OBVIOUS

LEMMA BlockKeeps ==
  ASSUME GateInv, NEW s \in Sid, NEW c \in Card, Block(s, c) PROVE \A x \in Sid : Good(x)'
<1> DEFINE next == [at |-> "show", card |-> c]
<1>1. /\ Turn(s, next) /\ s \in Hooked /\ cards' = cards /\ Does(s, "load") /\ c \in hooks[s].open
      /\ blocked' = [blocked EXCEPT ![s] = Append(@, c)]
      /\ UNCHANGED <<advised, shown, unheard>>
  BY DEF Block, Hooked, host
<1>2. blocked \in [Sid -> Seq(Card)] /\ blocked'[s] = Append(blocked[s], c)
  BY <1>1 DEF GateInv, TypeOK
<1>3. \A x \in Sid : x # s => Still(x)
  BY <1>1, <1>2 DEF Still
<1>4. hooks'[s] = next
  BY <1>1, OneTurn DEF GateInv
<1>5. c \notin Asked(s)
  BY <1>1 DEF GateInv, Good, New
<1>6. Asked(s)' = Asked(s) \union {c}
  BY <1>2, AppendNew DEF Asked
<1>7. Told(s)' /\ Fresh(s)'
  BY <1>1, <1>4, <1>5, <1>6 DEF GateInv, Good, Told, Fresh, Telling, Does
<1>8. New(s)' /\ Watched(s)'
  BY <1>4 DEF New, Watched, Does
<1>9. Once(s)'
  <2>1. \A i, j \in DOMAIN blocked'[s] : blocked'[s][i] = blocked'[s][j] => i = j
    BY <1>2, <1>5, AppendNew DEF GateInv, Good, Once, Asked
  <2> QED
    BY <1>1, <2>1 DEF GateInv, Good, Once
<1>10. Good(s)'
  BY <1>7, <1>8, <1>9 DEF Good
<1> QED
  BY <1>1, <1>3, <1>10, OnlyOne

LEMMA PassKeeps == ASSUME GateInv, NEW s \in Sid, Pass(s) PROVE \A x \in Sid : Good(x)'
<1> DEFINE hook == hooks[s]
<1>1. /\ Turn(s, Idle) /\ s \in Hooked /\ cards' = cards /\ Does(s, "load")
      /\ advised' = [advised EXCEPT ![s] = IF hook.advisory = {} THEN @ ELSE Append(@, hook.advisory)]
      /\ UNCHANGED <<blocked, shown, unheard>>
  BY DEF Pass, Hooked, host
<1>2. advised \in [Sid -> Seq(SUBSET Card)] /\ hook.advisory \in SUBSET Card
  BY <1>1, Kinds DEF GateInv, TypeOK, Gating
<1>3. \A x \in Sid : x # s => Still(x)
  BY <1>1, <1>2 DEF Still
<1>4. hooks'[s] = Idle
  BY <1>1, OneTurn DEF GateInv
<1>5. Asked(s)' = Asked(s)
  BY <1>1 DEF Asked
<1>6. Told(s)' /\ Fresh(s)' /\ New(s)' /\ Watched(s)'
  BY <1>1, <1>4, <1>5 DEF GateInv, Good, Told, Fresh, Telling, New, Watched, Does, Idle
<1>7. Once(s)'
  <2>1. CASE hook.advisory = {}
    BY <1>1, <1>2, <2>1 DEF GateInv, Good, Once
  <2>2. CASE hook.advisory # {}
    <3>1. advised'[s] = Append(advised[s], hook.advisory)
      BY <1>1, <1>2, <2>2
    <3>2. \A i \in DOMAIN advised[s] : advised[s][i] \intersect hook.advisory = {}
      BY <1>1 DEF GateInv, Good, New, Advised
    <3>3. \A i, j \in DOMAIN advised'[s] : advised'[s][i] \intersect advised'[s][j] # {} => i = j
      BY <1>2, <3>1, <3>2, AppendNew DEF GateInv, Good, Once
    <3> QED
      BY <1>1, <3>3 DEF GateInv, Good, Once
  <2> QED
    BY <2>1, <2>2
<1>8. Good(s)'
  BY <1>6, <1>7 DEF Good
<1> QED
  BY <1>1, <1>3, <1>8, OnlyOne

\* The hook of s tells the host, or is cut short telling it.
LEMMA TellKeeps ==
  ASSUME GateInv, NEW s \in Hooked, Turn(s, Idle), cards' = cards, UNCHANGED <<blocked, advised>>,
         \A x \in Sid : x # s => shown'[x] = shown[x] /\ unheard'[x] = unheard[x],
         s \in Sid => /\ shown[s] \union unheard[s] \union Telling(s) \subseteq shown'[s] \union unheard'[s]
                      /\ shown'[s] \subseteq shown[s] \union Telling(s)
  PROVE  \A x \in Sid : Good(x)'
<1>1. hooks'[s] = Idle
  BY OneTurn DEF GateInv
<1>2. \A x \in Sid : x # s => Still(x)
  BY DEF Still
<1>3. ASSUME s \in Sid PROVE Good(s)'
  <2>1. Asked(s)' = Asked(s)
    BY DEF Asked
  <2>2. Told(s)' /\ Fresh(s)'
    BY <1>1, <1>3, <2>1 DEF GateInv, Good, Told, Fresh, Telling, Does, Idle
  <2>3. New(s)' /\ Watched(s)' /\ Once(s)'
    BY <1>1, <1>3 DEF GateInv, Good, New, Watched, Once, Does, Idle
  <2> QED
    BY <2>2, <2>3 DEF Good
<1> QED
  BY <1>2, <1>3, OnlyOne

LEMMA ShowKeeps == ASSUME GateInv, NEW s \in Sid, Show(s) PROVE \A x \in Sid : Good(x)'
<1>1. shown' = [shown EXCEPT ![s] = @ \union {hooks[s].card}] /\ shown \in [Sid -> SUBSET Card]
  BY DEF Show, GateInv, TypeOK
<1>2. UNCHANGED <<cards, blocked, advised, unheard>> /\ Turn(s, Idle) /\ s \in Hooked
  BY DEF Show, log, Hooked
<1>3. Telling(s) = {hooks[s].card}
  BY DEF Show, Telling
<1> QED
  BY <1>1, <1>2, <1>3, TellKeeps

LEMMA DieKeeps == ASSUME GateInv, Die PROVE \A x \in Sid : Good(x)'
<1>1. UNCHANGED <<cards, blocked, advised>>
  BY DEF Die, log
<1>2. ASSUME NEW s \in Hooked, DieHook(s) PROVE \A x \in Sid : Good(x)'
  <2>1. unheard \in [Sid -> SUBSET Card] /\ UNCHANGED shown /\ Turn(s, Idle)
    BY <1>2 DEF DieHook, GateInv, TypeOK
  <2>2. unheard' = IF Does(s, "show") THEN [unheard EXCEPT ![s] = @ \union {hooks[s].card}] ELSE unheard
    BY <1>2 DEF DieHook
  <2>3. s \in Sid => unheard'[s] = unheard[s] \union Telling(s)
    BY <2>1, <2>2 DEF Telling
  <2>4. \A x \in Sid : x # s => unheard'[x] = unheard[x]
    BY <2>1, <2>2
  <2> QED
    BY <1>1, <2>1, <2>3, <2>4, TellKeeps
<1>3. ASSUME NEW p \in Proc, DieCommand(p) PROVE \A x \in Sid : Good(x)'
  BY <1>1, <1>3, Apart DEF DieCommand, host, Still, GateInv
<1>4. DOMAIN hooks = Hooked
  BY DEF GateInv, TypeOK, Hooked
<1> QED
  BY <1>2, <1>3, <1>4 DEF Die

\* A saved card is one the gates under way no longer answer for.
LEMMA SaveKeeps == ASSUME GateInv, NEW p \in Proc, Save(p) PROVE \A x \in Sid : Good(x)'
<1> SUFFICES ASSUME NEW x \in Sid PROVE Good(x)'
  OBVIOUS
<1> DEFINE c == cmds[p].card
<1>1. c \in Card
  BY CommandKinds DEF Save, Runs, GateInv
<1>2. hooks' = Touched(c) /\ x \in Hooked
  BY DEF Save, Touched, Hooked
<1>3. Still(x) /\ \A d \in Card \ {c} : cards'[d] = cards[d]
  BY <1>1 DEF Save, Still, log, host, GateInv, TypeOK
<1>4. Asked(x)' = Asked(x) /\ Advised(x)' = Advised(x) /\ Once(x)'
  BY <1>3, StillSets DEF GateInv, Good
<1>5. hooks'[x].at = hooks[x].at /\ (~ Does(x, "load") => hooks'[x] = hooks[x])
  BY <1>1, <1>2, SaveHooks DEF GateInv
<1>6. Does(x, "load") =>
        /\ hooks'[x].todo = hooks[x].todo /\ hooks'[x].open = hooks[x].open
        /\ hooks'[x].advised = hooks[x].advised /\ hooks'[x].advisory = hooks[x].advisory
        /\ hooks'[x].due = hooks[x].due \ {c} /\ hooks[x].due \subseteq Card
  <2>1. Does(x, "load") => hooks[x] \in Gating
    BY <1>2, Kinds DEF GateInv
  <2> QED
    BY <1>1, <1>2, <2>1, SaveHooks DEF GateInv, Gating
<1>7. Told(x)' /\ Fresh(x)'
  <2>1. Telling(x)' = Telling(x)
    BY <1>5 DEF Telling, Does
  <2> QED
    BY <1>3, <1>4, <2>1 DEF GateInv, Good, Told, Fresh, Still
<1>8. New(x)'
  BY <1>4, <1>5, <1>6 DEF GateInv, Good, New, Does
<1>9. Watched(x)'
  BY <1>3, <1>4, <1>5, <1>6 DEF GateInv, Good, Watched, Does, Blocks
<1> QED
  BY <1>4, <1>7, <1>8, <1>9 DEF Good

\* A command that only logs or only moves on.
LEMMA CommandKeeps ==
  ASSUME GateInv, UNCHANGED <<cards, blocked, advised, hooks, shown, unheard>>
  PROVE  \A x \in Sid : Good(x)'
<1>1. \A x \in Sid : Still(x)
  BY DEF Still
<1> QED
  BY <1>1, Apart DEF GateInv

LEMMA StepGood == ASSUME GateInv, [Next]_vars PROVE \A x \in Sid : Good(x)'
<1> DEFINE Goal == \A x \in Sid : Good(x)'
<1>1. ASSUME UNCHANGED vars PROVE Goal
  BY <1>1, CommandKeeps DEF vars, log, host
<1>2. ASSUME NEW s \in Sid, Register(s) PROVE Goal
  BY <1>2, MarkersKeep DEF Register, Hooked, log, host, Does
<1>3. ASSUME NEW s \in Sid, Stop(s) \/ Pass(s) \/ Show(s) PROVE Goal
  BY <1>3, StopKeeps, PassKeeps, ShowKeeps
<1>f. ASSUME NEW s \in Sid, Follow(s) PROVE Goal
  BY <1>f, CommandKeeps DEF Follow, Resumes, log
<1>4. ASSUME NEW s \in Sid, NEW c \in Card, LoadCard(s, c) \/ Block(s, c) PROVE Goal
  BY <1>4, LoadCardKeeps, BlockKeeps
<1>5. ASSUME NEW s \in Sid \union {NoSid}, CountActive(s) PROVE Goal
  BY <1>5, MarkersKeep DEF CountActive, Hooked, log, host, Does
<1>6. ASSUME NEW s \in Sid \union {NoSid}, Point(s) PROVE Goal
  BY <1>6, MarkersKeep DEF Point, Hooked, log, host, Does, Idle
<1>7. ASSUME NEW s \in Sid \union {NoSid}, NEW gone \in SUBSET Sid, Unregister(s, gone) PROVE Goal
  BY <1>7, MarkersKeep DEF Unregister, Resumes, Hooked, log, Does
<1>8. ASSUME NEW s \in Sid \union {NoSid}, NEW t \in Sid, Unlink(s, t) PROVE Goal
  <2>1. [hooks[s] EXCEPT !.todo = @ \ {t}].at = "unlink"
    BY <1>8, Kinds DEF Unlink, Hooked, GateInv
  <2> QED
    BY <1>8, <2>1, MarkersKeep DEF Unlink, Hooked, log, host, Does
<1>9. ASSUME NEW p \in Proc, NEW s \in Sid, NEW said \in BOOLEAN, NEW c \in Card, Begin(p, s, said, c)
      PROVE  Goal
  BY <1>9, CommandKeeps DEF Begin, log, host
<1>10. ASSUME NEW p \in Proc, Check(p) \/ Load(p) \/ Refuse(p) \/ NoneActive(p) PROVE Goal
  BY <1>10, CommandKeeps DEF Check, Load, Refuse, NoneActive, log, host
<1>11. ASSUME NEW p \in Proc, LogEvent(p) \/ LogCurrent(p) PROVE Goal
  BY <1>11, CommandKeeps DEF LogEvent, LogCurrent, host
<1>12. ASSUME NEW p \in Proc, Save(p) PROVE Goal
  BY <1>12, SaveKeeps
<1>13. ASSUME Die PROVE Goal
  BY <1>13, DieKeeps
<1> QED
  BY <1>1, <1>2, <1>3, <1>f, <1>4, <1>5, <1>6, <1>7, <1>8, <1>9, <1>10, <1>11, <1>12, <1>13 DEF Next

\* Only a hook that tells its block makes a session go on because of one.
LEMMA StepNews == ASSUME GateInv, [Next]_vars PROVE News'
<1>1. ASSUME UNCHANGED <<again, fresh>> PROVE News'
  BY <1>1 DEF GateInv, News
<1>2. ASSUME NEW s, Resumes(s) PROVE News'
  BY <1>2 DEF GateInv, News, Resumes
<1>3. ASSUME NEW s \in Sid, Show(s) PROVE News'
  <2>1. hooks[s].card \notin shown[s]
    BY <1>3 DEF GateInv, Good, Fresh, Telling, Show
  <2>2. again' = again \union {s} /\ fresh' = fresh \union {s}
    BY <1>3, <2>1 DEF Show
  <2> QED
    BY <2>2 DEF GateInv, News
<1>4. ASSUME NEW s \in Sid, NEW c \in Card, LoadCard(s, c) \/ Block(s, c) PROVE News'
  BY <1>1, <1>4 DEF LoadCard, Block, host
<1>5. ASSUME NEW s \in Sid \union {NoSid}, NEW t, CountActive(s) \/ Point(s) \/ Unlink(s, t) PROVE News'
  BY <1>1, <1>5 DEF CountActive, Point, Unlink, host
<1>6. ASSUME NEW s, NEW gone, Unregister(s, gone) \/ Stop(s) \/ Follow(s) PROVE News'
  BY <1>2, <1>6 DEF Unregister, Stop, Follow
<1>7. ASSUME NEW s, Register(s) \/ Pass(s) PROVE News'
  BY <1>1, <1>7 DEF Register, Pass, host
<1>8. ASSUME NEW p \in Proc, \/ Check(p) \/ Load(p) \/ Save(p) \/ LogEvent(p)
                             \/ Refuse(p) \/ NoneActive(p) \/ LogCurrent(p)
      PROVE  News'
  BY <1>1, <1>8 DEF Check, Load, Save, LogEvent, Refuse, NoneActive, LogCurrent, host
<1>9. ASSUME NEW p \in Proc, NEW s \in Sid, NEW said \in BOOLEAN, NEW c \in Card, Begin(p, s, said, c)
      PROVE  News'
  BY <1>1, <1>9 DEF Begin, host
<1>10. ASSUME Die \/ UNCHANGED vars PROVE News'
  BY <1>1, <1>10 DEF Die, DieHook, DieCommand, vars, host
<1> QED
  BY <1>3, <1>4, <1>5, <1>6, <1>7, <1>8, <1>9, <1>10 DEF Next

\* The inductive invariant: a block is known, lost or on its way to the host, a
\* gate asks nothing twice, and it still has before it, has found or has asked
\* every blocking card that nobody saved since it began.
THEOREM GateInvariant == Spec => []GateInv
<1>1. Init => GateInv
  <2> SUFFICES ASSUME Init, NEW s \in Sid PROVE Good(s)
    BY InitTyped DEF GateInv, News, Init
  <2> QED
    BY DEF Init, Idle, Good, Told, Fresh, New, Watched, Once, Asked, Telling, Does
<1>2. GateInv /\ [Next]_vars => GateInv'
  BY StepTyped, StepGood, StepNews, GateAssumption DEF GateInv
<1> QED
  BY <1>1, <1>2, PTL DEF Spec

\* No session is ever stopped for a card twice or reminded of it twice.
THEOREM NeverAskedTwice == Spec => []AskedOnce
<1>1. GateInv => AskedOnce
  BY DEF GateInv, Good, Once, AskedOnce
<1> QED
  BY <1>1, GateInvariant, PTL

----------------------------------------------------------------------------
(* What a step may never do.                                                *)

LEMMA PassTold ==
  ASSUME GateInv, NEW s \in Sid, Pass(s), NEW c \in hooks[s].due, Blocks(cards[c])
  PROVE  c \in shown[s] \union unheard[s]
<1>1. Does(s, "load") /\ hooks[s].todo = {} /\ hooks[s].open = {}
  BY DEF Pass
<1>2. c \in Asked(s)
  BY <1>1 DEF GateInv, Good, Watched
<1> QED
  BY <1>1, <1>2 DEF GateInv, Good, Told, Telling, Does

\* Only a pass lets a session go.
LEMMA OnlyPass ==
  ASSUME GateInv, [Next]_vars, NEW s \in Sid, Does(s, "load"), hooks'[s] = Idle, upsets' = upsets
  PROVE  Pass(s)
<1>1. hooks'[s] # hooks[s] /\ s \in Hooked /\ ~ Does(s, "idle")
  BY DEF Idle, Does, Hooked
<1>f. ASSUME NEW x \in Sid, Follow(x) PROVE FALSE
  BY <1>1, <1>f DEF Follow
<1>2. ASSUME NEW x \in Sid, Register(x) \/ Stop(x) \/ Show(x) PROVE FALSE
  BY <1>1, <1>2, OneTurn DEF Register, Stop, Show, Does, GateInv, Hooked
<1>3. ASSUME NEW x \in Sid, Pass(x) PROVE x = s
  BY <1>1, <1>3, OneTurn DEF Pass, GateInv, Hooked
<1>4. ASSUME NEW x \in Sid, NEW c \in Card, LoadCard(x, c) PROVE FALSE
  <2> DEFINE next == [hooks[x] EXCEPT !.todo = @ \ {c},
                        !.open = IF Blocks(cards[c]) THEN @ \union {c} ELSE @,
                        !.advisory = IF Advises(c, hooks[x]) THEN @ \union {c} ELSE @]
  <2>1. Turn(x, next) /\ x \in Hooked /\ Does(x, "load")
    BY <1>4 DEF LoadCard, Hooked
  <2>2. x = s /\ hooks'[x] = next /\ hooks[x] \in Gating
    BY <1>1, <2>1, OneTurn, Kinds DEF GateInv
  <2>3. next.at = "load"
    BY <2>2 DEF Gating
  <2> HIDE DEF next
  <2> QED
    BY <2>2, <2>3 DEF Idle
<1>5. ASSUME NEW x \in Sid, NEW c \in Card, Block(x, c) PROVE FALSE
  BY <1>1, <1>5, OneTurn DEF Block, Idle, GateInv, Hooked
<1>6. ASSUME NEW x \in Sid \union {NoSid}, CountActive(x) \/ Point(x) PROVE FALSE
  BY <1>1, <1>6, OneTurn DEF CountActive, Point, Does, GateInv, Hooked
<1>7. ASSUME NEW x \in Sid \union {NoSid}, NEW gone \in SUBSET Sid, Unregister(x, gone) PROVE FALSE
  BY <1>1, <1>7, OneTurn DEF Unregister, Does, GateInv, Hooked
<1>8. ASSUME NEW x \in Sid \union {NoSid}, NEW t \in Sid, Unlink(x, t) PROVE FALSE
  BY <1>1, <1>8, OneTurn DEF Unlink, Does, GateInv, Hooked
<1>9. ASSUME NEW p \in Proc, Save(p) PROVE FALSE
  <2>1. cmds[p].card \in Card /\ hooks' = Touched(cmds[p].card)
    BY <1>9, CommandKinds DEF Save, Runs, Touched, GateInv
  <2>2. hooks'[s].at = hooks[s].at
    BY <1>1, <2>1, SaveHooks DEF GateInv
  <2> QED
    BY <2>2 DEF Idle, Does
<1>10. ASSUME Die PROVE FALSE
  BY <1>10 DEF Die, Upset, GateInv, TypeOK
<1>11. ASSUME UNCHANGED hooks PROVE FALSE
  BY <1>1, <1>11
<1>12. ASSUME NEW p \in Proc, \/ Check(p) \/ Load(p) \/ LogEvent(p) \/ Refuse(p)
                              \/ NoneActive(p) \/ LogCurrent(p)
       PROVE  FALSE
  BY <1>11, <1>12 DEF Check, Load, LogEvent, Refuse, NoneActive, LogCurrent
<1>13. ASSUME NEW p \in Proc, NEW x \in Sid, NEW said \in BOOLEAN, NEW c \in Card, Begin(p, x, said, c)
       PROVE  FALSE
  BY <1>11, <1>13 DEF Begin
<1>14. ASSUME UNCHANGED vars PROVE FALSE
  BY <1>11, <1>14 DEF vars
<1> QED
  BY <1>f, <1>2, <1>3, <1>4, <1>5, <1>6, <1>7, <1>8, <1>9, <1>10, <1>12, <1>13, <1>14 DEF Next

\* A stop the gate looks at lets no session go past a blocking card of its own that
\* nobody saved meanwhile and that its agent was not told of; one it does not look
\* at follows a block for a card new to the agent.
THEOREM NothingSlipsBy == Spec => NothingSlips
<1>1. ASSUME GateInv, [Next]_vars, NEW s \in Sid, Looked(s), NEW c \in hooks[s].due
      PROVE  ~ Missed(s, c)
  BY <1>1, OnlyPass, PassTold DEF Looked, Missed
<1>2. GateInv => \A s \in Sid : Unlooked(s) => s \in fresh
  BY DEF GateInv, News, Unlooked
<1>3. GateInv /\ [Next]_vars =>
        \A s \in Sid :
          /\ Looked(s) => \A c \in hooks[s].due : ~ Missed(s, c)
          /\ Unlooked(s) => s \in fresh \/ \A c \in touched[s] : ~ Missed(s, c)
  BY <1>1, <1>2
<1> QED
  BY <1>3, GateInvariant, PTL DEF Spec, NothingSlips

LEMMA LogOwn ==
  ASSUME GateAssumption, TypeOK, NEW p \in Proc, LogEvent(p) \/ LogCurrent(p),
         cmds[p].own \in active, NEW s \in Sid \ {cmds[p].own}
  PROVE  touched'[s] = touched[s]
<1>1. touched \in [Sid \union {NoSid} -> SUBSET Card]
  BY DEF TypeOK
<1>2. CASE LogEvent(p)
  <2>1. PICK t \in Owner(cmds[p]) :
          Owner(cmds[p]) = {t} /\ touched' = [touched EXCEPT ![t] = @ \union {cmds[p].card}]
    BY <1>2 DEF LogEvent
  <2>2. t = cmds[p].own
    BY <2>1 DEF Owner
  <2> QED
    BY <1>1, <2>1, <2>2
<1>3. CASE LogCurrent(p)
  <2>1. active # {} /\ NoSid # s
    BY DEF GateAssumption
  <2>2. Only # {} => Only = {cmds[p].own}
    BY DEF Only
  <2>3. CurrentSid # s
    BY <2>1, <2>2 DEF CurrentSid
  <2> QED
    BY <1>1, <1>3, <2>3 DEF LogCurrent
<1> QED
  BY <1>2, <1>3

\* Only the command itself logs its event.
LEMMA OnlyLogs ==
  ASSUME TypeOK, [Next]_vars, NEW p \in Proc, cmds'[p] # cmds[p], NEW s \in Sid, touched'[s] # touched[s]
  PROVE  LogEvent(p) \/ LogCurrent(p)
<1>1. ASSUME NEW q \in Proc, LogEvent(q) \/ LogCurrent(q) PROVE q = p
  <2>1. Go(q, Idle) \/ Go(q, [cmds[q] EXCEPT !.at = "save"])
    BY <1>1 DEF LogEvent, LogCurrent, MoreOptions
  <2> QED
    BY <2>1 DEF Go, TypeOK
<1>2. ~ UNCHANGED touched
  OBVIOUS
<1>3. ASSUME NEW x \in Sid, Register(x) \/ Follow(x) \/ Stop(x) \/ Pass(x) \/ Show(x) PROVE FALSE
  BY <1>2, <1>3 DEF Register, Follow, Stop, Pass, Show, log
<1>4. ASSUME NEW x \in Sid, NEW c \in Card, LoadCard(x, c) \/ Block(x, c) PROVE FALSE
  BY <1>2, <1>4 DEF LoadCard, Block, log
<1>5. ASSUME NEW x \in Sid \union {NoSid}, CountActive(x) \/ Point(x) PROVE FALSE
  BY <1>2, <1>5 DEF CountActive, Point, log
<1>6. ASSUME NEW x \in Sid \union {NoSid}, NEW gone \in SUBSET Sid, Unregister(x, gone) PROVE FALSE
  BY <1>2, <1>6 DEF Unregister, log
<1>7. ASSUME NEW x \in Sid \union {NoSid}, NEW t \in Sid, Unlink(x, t) PROVE FALSE
  BY <1>2, <1>7 DEF Unlink, log
<1>8. ASSUME NEW q \in Proc, Check(q) \/ Load(q) \/ Save(q) \/ Refuse(q) \/ NoneActive(q) PROVE FALSE
  BY <1>2, <1>8 DEF Check, Load, Save, Refuse, NoneActive, log
<1>9. ASSUME NEW q \in Proc, NEW x \in Sid, NEW said \in BOOLEAN, NEW c \in Card, Begin(q, x, said, c)
      PROVE  FALSE
  BY <1>2, <1>9 DEF Begin, log
<1>10. ASSUME Die \/ UNCHANGED vars PROVE FALSE
  BY <1>2, <1>10 DEF Die, vars, log
<1> QED
  BY <1>1, <1>3, <1>4, <1>5, <1>6, <1>7, <1>8, <1>9, <1>10 DEF Next

\* What the agent of a registered session does to a card is never put down to
\* another session.
THEOREM EventsStayHome == Spec => OwnLog
<1>1. TypeOK /\ [Next]_vars =>
        \A p \in Proc :
          cmds[p].at \in {"log", "current"} /\ cmds'[p] # cmds[p] /\ cmds[p].own \in active =>
            \A s \in Sid \ {cmds[p].own} : touched'[s] = touched[s]
  BY OnlyLogs, LogOwn, GateAssumption
<1> QED
  BY <1>1, GateTypeCorrect, PTL DEF Spec, OwnLog
=============================================================================
