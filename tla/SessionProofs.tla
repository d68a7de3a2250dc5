--------------------------- MODULE SessionProofs ---------------------------
(* No uninformed change and no override used twice, for every value of the  *)
(* constants.                                                               *)
EXTENDS SessionSafety, TLAPS

----------------------------------------------------------------------------
(* What a process knows, and the shape of the variables. *)

LEMMA Kinds ==
  ASSUME TypeOK, NEW p \in Proc
  PROVE  /\ hooks[p] \in Hook
         /\ hooks[p].at \in {"built", "logged"} => hooks[p] \in Building
         /\ hooks[p].at = "printed" => hooks[p] \in Printed
         /\ hooks[p].at \in {"look", "ask"} => hooks[p] \in Checking
         /\ hooks[p].at = "find" => hooks[p] \in Finding
         /\ hooks[p].at = "use" => hooks[p] \in Using
<1>1. hooks[p] \in Hook
  BY DEF TypeOK
<1> QED
  BY <1>1 DEF Hook, Idle, Building, Printed, Checking, Finding, Using

LEMMA GoTyped ==
  ASSUME TypeOK, NEW p \in Proc, NEW hook \in Hook, Go(p, hook)
  PROVE  hooks' \in [Proc -> Hook]
  BY DEF TypeOK, Go

LEMMA IdleHook == Idle \in Hook
  BY DEF Hook

LEMMA HashTyped ==
  ASSUME TypeOK, NEW s \in Sid, NEW w \in Workspace
  PROVE  Where(s, w) \in Workspace /\ Hash(s, w) \in Seen
<1>1. Where(s, w) \in Workspace
  BY DEF TypeOK, Where
<1> QED
  BY <1>1 DEF TypeOK, Hash, Seen

LEMMA PageTyped ==
  ASSUME NEW hash \in Seen
  PROVE  PagesOf(hash) \subseteq Seen \X (Nat \ {0})
<1>1. \A k \in 1..Pages[hash[2]] : k \in Nat \ {0}
  OBVIOUS
<1> QED
  BY <1>1 DEF PagesOf

LEMMA RenderTyped ==
  ASSUME TypeOK, NEW p \in Proc, NEW s \in Sid, NEW w \in Workspace, NEW v \in Workspace,
         opened' \in [Sid -> Workspace \union {NoWorkspace}], Render(p, s, w, v)
  PROVE  TypeOK'
<1>1. PICK complete \in BOOLEAN :
        Go(p, [at |-> "built", sid |-> s, cwd |-> w, hash |-> <<v, required[v]>>, complete |-> complete])
  BY DEF Render
<1>2. <<v, required[v]>> \in Seen
  BY DEF TypeOK, Seen
<1>3. [at |-> "built", sid |-> s, cwd |-> w, hash |-> <<v, required[v]>>, complete |-> complete] \in Hook
  BY <1>2 DEF Hook, Building
<1>4. hooks' \in [Proc -> Hook]
  BY <1>1, <1>3, GoTyped
<1> QED
  BY <1>4 DEF Render, TypeOK, events

LEMMA LogManifestTyped == ASSUME TypeOK, NEW p \in Proc, LogManifest(p) PROVE TypeOK'
<1> DEFINE hook == hooks[p]
           hash == Hash(hook.sid, hook.cwd)
<1>1. hook \in Building
  BY Kinds DEF LogManifest
<1>2. hook.sid \in Sid /\ hook.cwd \in Workspace
  BY <1>1 DEF Building
<1>3. hash \in Seen
  BY <1>2, HashTyped
<1>4. [hook EXCEPT !.at = "logged"] \in Hook
  BY <1>1 DEF Building, Hook
<1>5. hooks' \in [Proc -> Hook]
  BY <1>4, GoTyped DEF LogManifest
<1>6. claimed' \in [Sid -> SUBSET Seen] /\ unshown' \in [Sid -> SUBSET Seen]
  BY <1>3 DEF LogManifest, TypeOK
<1> QED
  BY <1>5, <1>6 DEF LogManifest, TypeOK

LEMMA ShowTyped == ASSUME TypeOK, NEW p \in Proc, Show(p) PROVE TypeOK'
<1> DEFINE hook == hooks[p]
<1>1. hook \in Building
  BY Kinds DEF Show
<1>2. PagesOf(hook.hash) \subseteq Seen \X Nat
  <2>1. hook.hash \in Seen
    BY <1>1 DEF Building
  <2> QED
    BY <2>1, PageTyped
<1>3. shown' \in [Sid -> SUBSET (Seen \X Nat)]
  BY <1>2 DEF Show, TypeOK
<1>4. hooks' \in [Proc -> Hook]
  BY IdleHook, GoTyped DEF Show
<1> QED
  BY <1>3, <1>4 DEF Show, TypeOK, events

LEMMA PrintTyped ==
  ASSUME TypeOK, NEW p \in Proc, NEW s \in Sid, NEW k, NEW w \in Workspace, PrintPage(p, s, k, w)
  PROVE  TypeOK'
<1> DEFINE hash == Hash(s, w)
<1>1. hash \in Seen
  BY HashTyped
<1>2. k \in Nat \ {0}
  BY DEF PrintPage
<1>3. [at |-> "printed", sid |-> s, hash |-> hash, page |-> k] \in Hook
  BY <1>1, <1>2 DEF Hook, Printed
<1>4. hooks' \in [Proc -> Hook]
  BY <1>3, GoTyped DEF PrintPage
<1>5. shown' \in [Sid -> SUBSET (Seen \X Nat)]
  BY <1>1, <1>2 DEF PrintPage, TypeOK
<1> QED
  BY <1>4, <1>5 DEF PrintPage, TypeOK, events

LEMMA LogReadTyped == ASSUME TypeOK, NEW p \in Proc, LogRead(p) PROVE TypeOK'
<1> DEFINE hook == hooks[p]
<1>1. hook \in Printed
  BY Kinds DEF LogRead
<1>2. read' \in [Sid -> SUBSET (Seen \X (Nat \ {0}))]
  BY <1>1 DEF LogRead, TypeOK, Printed
<1>3. hooks' \in [Proc -> Hook]
  BY IdleHook, GoTyped DEF LogRead
<1> QED
  BY <1>2, <1>3 DEF LogRead, TypeOK

----------------------------------------------------------------------------
LEMMA PreTyped ==
  ASSUME TypeOK, NEW p \in Proc, NEW s \in Sid, NEW q \in Request, NEW w \in Workspace, Pre(p, s, q, w)
  PROVE  TypeOK'
<1> DEFINE hook == [at |-> IF q \in Changing THEN "look" ELSE "ask", sid |-> s, cwd |-> w,
                    hash |-> Hash(s, w), request |-> q, began |-> input[s].id]
<1>1. input[s].id \in Nat
  BY DEF TypeOK, Input
<1>2. hook \in Hook
  BY <1>1, HashTyped DEF Hook, Checking
<1>3. hooks' \in [Proc -> Hook]
  BY <1>2, GoTyped DEF Pre
<1> QED
  BY <1>3 DEF Pre, TypeOK, events

LEMMA LookTyped == ASSUME TypeOK, NEW p \in Proc, Look(p) PROVE TypeOK'
<1> DEFINE hook == hooks[p]
<1>1. hook \in Checking
  BY Kinds DEF Look
<1>2. [hook EXCEPT !.at = "ask"] \in Hook
  BY <1>1 DEF Hook, Checking
<1>3. hooks' \in [Proc -> Hook]
  BY <1>2, IdleHook, GoTyped DEF Look
<1> QED
  BY <1>3 DEF Look, TypeOK, events

LEMMA AskTyped == ASSUME TypeOK, NEW p \in Proc, Ask(p) PROVE TypeOK'
<1> DEFINE hook == hooks[p]
           now == input[hook.sid].id
           next == [at |-> "find", sid |-> hook.sid, cwd |-> hook.cwd, hash |-> hook.hash,
                    request |-> hook.request, began |-> hook.began, input |-> now]
<1>1. hook \in Checking
  BY Kinds DEF Ask
<1>2. now \in Nat
  BY <1>1 DEF Checking, TypeOK, Input
<1>3. next \in Hook
  BY <1>1, <1>2 DEF Hook, Checking, Finding
<1>4. hooks' \in [Proc -> Hook]
  BY <1>3, IdleHook, GoTyped DEF Ask
<1> QED
  BY <1>4 DEF Ask, TypeOK, events

LEMMA FindTyped == ASSUME TypeOK, NEW p \in Proc, Find(p) PROVE TypeOK'
<1> DEFINE hook == hooks[p]
           next(i) == [at |-> "use", sid |-> hook.sid, hash |-> hook.hash, request |-> hook.request,
                       began |-> hook.began, ref |-> i, beside |-> FALSE]
<1>1. hook \in Finding
  BY Kinds DEF Find
<1>2. \A i \in Usable(hook.sid, hook) : i \in Nat
  BY <1>1 DEF Usable, TypeOK, Finding
<1>3. \A i \in Usable(hook.sid, hook) : next(i) \in Hook
  BY <1>1, <1>2 DEF Hook, Finding, Using
<1>4. Go(p, Idle) \/ \E i \in Usable(hook.sid, hook) : Go(p, next(i))
  BY DEF Find
<1>5. hooks' \in [Proc -> Hook]
  BY <1>3, <1>4, IdleHook, GoTyped
<1> QED
  BY <1>5 DEF Find, TypeOK, events

\* What Use(p) does to the processes.
UseHooks(p) ==
  [x \in Proc |->
     IF x = p THEN Idle
     ELSE IF hooks[x].at = "use" /\ hooks[x].sid = hooks[p].sid THEN [hooks[x] EXCEPT !.beside = TRUE]
     ELSE hooks[x]]

LEMMA UseTyped == ASSUME TypeOK, NEW p \in Proc, Use(p) PROVE TypeOK'
<1> DEFINE hook == hooks[p]
           use == [ref |-> hook.ref, request |-> hook.request, began |-> hook.began, beside |-> hook.beside]
<1>1. hook \in Using
  BY Kinds DEF Use
<1>2. use \in Used /\ hook.sid \in Sid
  BY <1>1 DEF Used, Using
<1>3. used' \in [Sid -> Seq(Used)]
  BY <1>2 DEF Use, TypeOK
<1>4. \A x \in Proc : UseHooks(p)[x] \in Hook
  <2> SUFFICES ASSUME NEW x \in Proc PROVE UseHooks(p)[x] \in Hook
    OBVIOUS
  <2>1. CASE hooks[x].at = "use"
    <3>1. hooks[x] \in Using /\ hooks[x] \in Hook
      BY <2>1, Kinds
    <3>2. [hooks[x] EXCEPT !.beside = TRUE] \in Using
      BY <3>1 DEF Using
    <3> QED
      BY <3>1, <3>2, IdleHook DEF UseHooks, Hook
  <2>2. CASE hooks[x].at # "use"
    BY <2>2, Kinds, IdleHook DEF UseHooks
  <2> QED
    BY <2>1, <2>2
<1>5. hooks' \in [Proc -> Hook]
  BY <1>4 DEF Use, UseHooks
<1> QED
  BY <1>3, <1>5 DEF Use, TypeOK

LEMMA DieTyped == ASSUME TypeOK, NEW p \in Proc, Die(p) PROVE TypeOK'
<1>1. hooks' \in [Proc -> Hook]
  BY IdleHook, GoTyped DEF Die
<1>2. hooks[p].at = "logged" => hooks[p].hash \in Seen
  BY Kinds DEF Building
<1>3. unshown' \in [Sid -> SUBSET Seen]
  BY <1>2 DEF Die, TypeOK
<1> QED
  BY <1>1, <1>3 DEF Die, TypeOK, events

----------------------------------------------------------------------------
LEMMA SayTyped ==
  ASSUME SessionAssumption, TypeOK, NEW s \in Sid, NEW kind, NEW w \in Workspace, Say(s, kind, w)
  PROVE  TypeOK'
<1> DEFINE ws == Where(s, w)
           new == [id |-> said + 1, ws |-> ws, cancels |-> kind = "cancel"]
<1>1. CASE UNCHANGED <<input, said>>
  BY <1>1 DEF Say, TypeOK, events
<1>2. CASE said < MaxSaid /\ said' = said + 1 /\ input' = [input EXCEPT ![s] = new]
  <2>1. ws \in Workspace
    BY HashTyped
  <2>2. (kind = "cancel") \in BOOLEAN
    OBVIOUS
  <2>3. said \in 0..MaxSaid /\ MaxSaid \in Nat
    BY DEF TypeOK, SessionAssumption
  <2>4. new \in Input
    BY <2>1, <2>2, <2>3 DEF Input
  <2>5. said' \in 0..MaxSaid /\ said <= said'
    BY <1>2, <2>3
  <2>6. input' \in [Sid -> Input]
    BY <1>2, <2>4 DEF TypeOK
  <2>7. \A x \in Sid : input'[x].id <= said' /\ (input'[x].id # 0 => input'[x].ws \in Workspace)
    <3> SUFFICES ASSUME NEW x \in Sid
                 PROVE  input'[x].id <= said' /\ (input'[x].id # 0 => input'[x].ws \in Workspace)
      OBVIOUS
    <3>1. CASE x = s
      BY <3>1, <1>2, <2>1, <2>5 DEF TypeOK
    <3>2. CASE x # s
      <4>1. input'[x] = input[x] /\ input[x].id \in Nat /\ input[x].id <= said
        BY <3>2, <1>2 DEF TypeOK, Input
      <4> QED
        BY <4>1, <2>3, <2>5 DEF TypeOK
    <3> QED
      BY <3>1, <3>2
  <2> QED
    BY <2>5, <2>6, <2>7 DEF Say, TypeOK, events
<1> QED
  BY <1>1, <1>2 DEF Say

LEMMA RecordTyped ==
  ASSUME TypeOK, NEW s \in Sid, NEW q \in Request, NEW w \in Workspace, Record(s, q, w)
  PROVE  TypeOK'
<1>1. input[s].id \in Nat
  BY DEF TypeOK, Input
<1>2. [request |-> q, ws |-> Where(s, w), input |-> input[s].id] \in Override
  BY <1>1, HashTyped DEF Override
<1>3. overrides' \in [Sid -> Seq(Override)]
  BY <1>2 DEF Record, TypeOK
<1> QED
  BY <1>3 DEF Record, TypeOK

LEMMA ChangeTyped == ASSUME TypeOK, NEW w \in Workspace, Change(w) PROVE TypeOK'
  BY DEF Change, TypeOK, events

LEMMA StutterTyped == ASSUME TypeOK, UNCHANGED vars PROVE TypeOK'
  BY DEF TypeOK, vars, events

LEMMA StepTyped == ASSUME SessionAssumption, TypeOK, [Next]_vars PROVE TypeOK'
<1>1. ASSUME NEW p \in Proc, NEW s \in Sid, NEW w \in Workspace, Start(p, s, w) PROVE TypeOK'
  <2>1. opened' \in [Sid -> Workspace \union {NoWorkspace}]
    BY <1>1 DEF Start, TypeOK
  <2> QED
    BY <1>1, <2>1, RenderTyped DEF Start
<1>2. ASSUME NEW p \in Proc, NEW s \in Sid, NEW w \in Workspace, Build(p, s, w) PROVE TypeOK'
  <2>1. opened' \in [Sid -> Workspace \union {NoWorkspace}]
    BY <1>2 DEF Build, TypeOK
  <2> QED
    BY <1>2, <2>1, RenderTyped, HashTyped DEF Build
<1> QED
  BY <1>1, <1>2, LogManifestTyped, ShowTyped, PrintTyped, LogReadTyped, PreTyped, LookTyped, AskTyped,
     FindTyped, UseTyped, DieTyped, SayTyped, RecordTyped, ChangeTyped, StutterTyped DEF Next

LEMMA InitTyped == ASSUME SessionAssumption, Init PROVE TypeOK
<1>1. NoInput \in Input /\ NoInput.id = 0
  BY DEF NoInput, Input
<1> QED
  BY <1>1, IdleHook DEF Init, TypeOK, SessionAssumption

\* No hook and no command, in any order and dying anywhere, leaves the state of
\* a session malformed.
THEOREM SessionTypeCorrect == Spec => []TypeOK
<1>1. Init => TypeOK
  BY InitTyped, SessionAssumption
<1>2. TypeOK /\ [Next]_vars => TypeOK'
  BY StepTyped, SessionAssumption
<1> QED
  BY <1>1, <1>2, PTL DEF Spec

----------------------------------------------------------------------------
(* What the agent was shown.                                                *)

\* Nothing takes back what the agent of a session was shown: a text that is
\* covered stays so, for the process that is to show it shows it or dies.
Kept == \A hash : \A s \in Sid : Covered(s, hash) => Covered(s, hash)'

LEMMA KeptUnless ==
  ASSUME TypeOK, NEW p \in Proc, hooks[p].at # "logged",
         \A x \in Proc \ {p} : hooks[x].at = "logged" => hooks'[x] = hooks[x],
         \A s \in Sid : shown[s] \subseteq shown'[s] /\ unshown[s] \subseteq unshown'[s]
  PROVE  Kept
<1> SUFFICES ASSUME NEW s \in Sid, NEW hash, Covered(s, hash) PROVE Covered(s, hash)'
  BY DEF Kept
<1>1. ASSUME Showing(s, hash) PROVE Showing(s, hash)'
  BY <1>1 DEF Showing
<1> QED
  BY <1>1 DEF Covered, PagesOf

LEMMA KeptStill == ASSUME UNCHANGED <<shown, unshown, hooks>> PROVE Kept
  BY DEF Kept, Covered, Showing, PagesOf

LEMMA GoKept ==
  ASSUME TypeOK, NEW p \in Proc, NEW hook, hooks[p].at # "logged", Go(p, hook), UNCHANGED <<shown, unshown>>
  PROVE  Kept
<1>1. \A x \in Proc \ {p} : hooks'[x] = hooks[x]
  BY DEF Go, TypeOK
<1> QED
  BY <1>1, KeptUnless

LEMMA LogManifestKept == ASSUME TypeOK, NEW p \in Proc, LogManifest(p) PROVE Kept
<1>1. \A x \in Proc \ {p} : hooks'[x] = hooks[x]
  BY DEF LogManifest, Go, TypeOK
<1>2. \A s \in Sid : unshown[s] \subseteq unshown'[s]
  BY DEF LogManifest, TypeOK
<1> QED
  BY <1>1, <1>2, KeptUnless DEF LogManifest

LEMMA PrintKept ==
  ASSUME TypeOK, NEW p \in Proc, NEW s \in Sid, NEW k, NEW w \in Workspace, PrintPage(p, s, k, w)
  PROVE  Kept
<1>1. \A x \in Proc \ {p} : hooks'[x] = hooks[x]
  BY DEF PrintPage, Go, TypeOK
<1>2. \A r \in Sid : shown[r] \subseteq shown'[r]
  BY DEF PrintPage, TypeOK
<1>3. hooks[p].at # "logged"
  BY DEF PrintPage, IsIdle
<1> QED
  BY <1>1, <1>2, <1>3, KeptUnless DEF PrintPage

LEMMA UseKept == ASSUME TypeOK, NEW p \in Proc, Use(p) PROVE Kept
<1>1. \A x \in Proc \ {p} : hooks[x].at = "logged" => hooks'[x] = hooks[x]
  BY DEF Use
<1> QED
  BY <1>1, KeptUnless DEF Use

LEMMA ShowKept == ASSUME TypeOK, NEW p \in Proc, Show(p) PROVE Kept
<1> SUFFICES ASSUME NEW s \in Sid, NEW hash, Covered(s, hash) PROVE Covered(s, hash)'
  BY DEF Kept
<1>1. /\ \A x \in Proc \ {p} : hooks'[x] = hooks[x]
      /\ hooks[p].sid \in Sid
  BY Kinds DEF Show, Go, TypeOK, Building
<1>2. shown[s] \subseteq shown'[s] /\ unshown' = unshown
  BY DEF Show, TypeOK
<1>3. CASE hooks[p].sid = s /\ hooks[p].complete /\ hooks[p].hash = hash
  <2>1. shown'[s] = shown[s] \union PagesOf(hash)
    BY <1>1, <1>3 DEF Show, TypeOK
  <2> QED
    BY <2>1 DEF Covered, PagesOf
<1>4. CASE ~(hooks[p].sid = s /\ hooks[p].complete /\ hooks[p].hash = hash)
  <2>1. ASSUME Showing(s, hash) PROVE Showing(s, hash)'
    BY <2>1, <1>1, <1>4 DEF Showing
  <2> QED
    BY <2>1, <1>2 DEF Covered, PagesOf
<1> QED
  BY <1>3, <1>4

LEMMA DieKept == ASSUME TypeOK, NEW p \in Proc, Die(p) PROVE Kept
<1> SUFFICES ASSUME NEW s \in Sid, NEW hash, Covered(s, hash) PROVE Covered(s, hash)'
  BY DEF Kept
<1>1. /\ \A x \in Proc \ {p} : hooks'[x] = hooks[x]
      /\ hooks[p].at = "logged" => hooks[p].sid \in Sid
  BY Kinds DEF Die, Go, TypeOK, Building
<1>2. unshown[s] \subseteq unshown'[s] /\ shown' = shown
  BY DEF Die, TypeOK
<1>3. CASE hooks[p].at = "logged" /\ hooks[p].sid = s /\ hooks[p].complete /\ hooks[p].hash = hash
  <2>1. hash \in unshown'[s]
    BY <1>1, <1>3 DEF Die, TypeOK
  <2> QED
    BY <2>1 DEF Covered
<1>4. CASE ~(hooks[p].at = "logged" /\ hooks[p].sid = s /\ hooks[p].complete /\ hooks[p].hash = hash)
  <2>1. ASSUME Showing(s, hash) PROVE Showing(s, hash)'
    BY <2>1, <1>1, <1>4 DEF Showing
  <2> QED
    BY <2>1, <1>2 DEF Covered, PagesOf
<1> QED
  BY <1>3, <1>4

LEMMA StepKept == ASSUME TypeOK, [Next]_vars PROVE Kept
<1>1. ASSUME NEW p \in Proc, NEW s \in Sid, NEW w \in Workspace, Start(p, s, w) \/ Build(p, s, w)
      PROVE  Kept
  BY <1>1, GoKept DEF Start, Build, Render, IsIdle
<1>2. ASSUME NEW p \in Proc, LogRead(p) PROVE Kept
  BY <1>2, GoKept DEF LogRead
<1>3. ASSUME NEW p \in Proc, NEW s \in Sid, NEW q \in Request, NEW w \in Workspace, Pre(p, s, q, w)
      PROVE  Kept
  BY <1>3, GoKept DEF Pre, IsIdle
<1>4. ASSUME NEW p \in Proc, Look(p) PROVE Kept
  BY <1>4, GoKept DEF Look
<1>5. ASSUME NEW p \in Proc, Ask(p) PROVE Kept
  BY <1>5, GoKept DEF Ask
<1>6. ASSUME NEW p \in Proc, Find(p) PROVE Kept
  BY <1>6, GoKept DEF Find
<1>7. ASSUME NEW s \in Sid, NEW kind, NEW w \in Workspace, Say(s, kind, w) PROVE Kept
  BY <1>7, KeptStill DEF Say
<1>8. ASSUME NEW s \in Sid, NEW q \in Request, NEW w \in Workspace, Record(s, q, w) PROVE Kept
  BY <1>8, KeptStill DEF Record
<1>9. ASSUME NEW w \in Workspace, Change(w) PROVE Kept
  BY <1>9, KeptStill DEF Change
<1>10. ASSUME UNCHANGED vars PROVE Kept
  BY <1>10, KeptStill DEF vars
<1> QED
  BY <1>1, <1>2, <1>3, <1>4, <1>5, <1>6, <1>7, <1>8, <1>9, <1>10,
     LogManifestKept, ShowKept, PrintKept, UseKept, DieKept DEF Next

\* A hook that has passed did so before, or passes now because needs_context()
\* finds nothing to read.
Passes(p) ==
  /\ hooks'[p].sid = hooks[p].sid /\ hooks'[p].hash = hooks[p].hash
  /\ \/ Passed(hooks[p])
     \/ /\ hooks[p].at = "look" /\ hooks[p] \in Checking
        /\ ~NeedsContext(hooks[p].sid, hooks[p].hash)

LEMMA PassesStill ==
  ASSUME NEW p \in Proc, hooks'[p] = hooks[p], Passed(hooks'[p])
  PROVE  Passes(p)
  BY DEF Passes

LEMMA GoPasses ==
  ASSUME TypeOK, NEW p \in Proc, NEW x \in Proc, NEW hook, Go(x, hook), Passed(hooks'[p]),
         Passed(hook) => x # p \/ Passes(p)
  PROVE  Passes(p)
<1>1. CASE p = x
  BY <1>1 DEF Go, TypeOK
<1>2. CASE p # x
  BY <1>2, PassesStill DEF Go, TypeOK
<1> QED
  BY <1>1, <1>2

LEMMA IdlePasses == ~Passed(Idle)
  BY DEF Passed, Idle

LEMMA RenderPasses ==
  ASSUME TypeOK, NEW p \in Proc, NEW x \in Proc, NEW s, NEW w, NEW v, Render(x, s, w, v), Passed(hooks'[p])
  PROVE  Passes(p)
<1>1. PICK complete \in BOOLEAN :
        Go(x, [at |-> "built", sid |-> s, cwd |-> w, hash |-> <<v, required[v]>>, complete |-> complete])
  BY DEF Render
<1>2. ~Passed([at |-> "built", sid |-> s, cwd |-> w, hash |-> <<v, required[v]>>, complete |-> complete])
  BY DEF Passed
<1> QED
  BY <1>1, <1>2, GoPasses

LEMMA LogManifestPasses ==
  ASSUME TypeOK, NEW p \in Proc, NEW x \in Proc, LogManifest(x), Passed(hooks'[p]) PROVE Passes(p)
<1>1. hooks[x] \in Building
  BY Kinds DEF LogManifest
<1>2. ~Passed([hooks[x] EXCEPT !.at = "logged"])
  BY <1>1 DEF Passed, Building
<1> QED
  BY <1>2, GoPasses DEF LogManifest

LEMMA PrintPasses ==
  ASSUME TypeOK, NEW p \in Proc, NEW x \in Proc, NEW s, NEW k, NEW w, PrintPage(x, s, k, w), Passed(hooks'[p])
  PROVE  Passes(p)
<1>1. ~Passed([at |-> "printed", sid |-> s, hash |-> Hash(s, w), page |-> k])
  BY DEF Passed
<1> QED
  BY <1>1, GoPasses DEF PrintPage

LEMMA PrePasses ==
  ASSUME TypeOK, NEW p \in Proc, NEW x \in Proc, NEW s, NEW q, NEW w, Pre(x, s, q, w), Passed(hooks'[p])
  PROVE  Passes(p)
<1> DEFINE hook == [at |-> IF q \in Changing THEN "look" ELSE "ask", sid |-> s, cwd |-> w,
                    hash |-> Hash(s, w), request |-> q, began |-> input[s].id]
<1>1. ~Passed(hook)
  BY DEF Passed
<1> QED
  BY <1>1, GoPasses DEF Pre

LEMMA LookPasses ==
  ASSUME TypeOK, NEW p \in Proc, NEW x \in Proc, Look(x), Passed(hooks'[p]) PROVE Passes(p)
<1>1. hooks[x] \in Checking
  BY Kinds DEF Look
<1>2. CASE NeedsContext(hooks[x].sid, hooks[x].hash)
  BY <1>2, IdlePasses, GoPasses DEF Look
<1>3. CASE p = x /\ ~NeedsContext(hooks[x].sid, hooks[x].hash)
  <2>1. hooks'[p] = [hooks[p] EXCEPT !.at = "ask"]
    BY <1>3 DEF Look, Go, TypeOK
  <2>2. hooks'[p].sid = hooks[p].sid /\ hooks'[p].hash = hooks[p].hash
    BY <2>1, <1>1, <1>3 DEF Checking
  <2> QED
    BY <2>2, <1>1, <1>3 DEF Passes, Look
<1>4. CASE p # x
  BY <1>4, PassesStill DEF Look, Go, TypeOK
<1> QED
  BY <1>2, <1>3, <1>4

LEMMA AskPasses ==
  ASSUME TypeOK, NEW p \in Proc, NEW x \in Proc, Ask(x), Passed(hooks'[p]) PROVE Passes(p)
<1> DEFINE hook == hooks[x]
           next == [at |-> "find", sid |-> hook.sid, cwd |-> hook.cwd, hash |-> hook.hash,
                    request |-> hook.request, began |-> hook.began, input |-> input[hook.sid].id]
<1>1. Go(x, Idle) \/ Go(x, next)
  BY DEF Ask
<1>2. CASE Go(x, Idle)
  BY <1>2, IdlePasses, GoPasses
<1>3. CASE p = x /\ Go(x, next)
  <2>1. hooks'[p] = next
    BY <1>3 DEF Go, TypeOK
  <2> QED
    BY <2>1, <1>3 DEF Passes, Passed, Ask
<1>4. CASE p # x
  BY <1>1, <1>4, PassesStill DEF Go, TypeOK
<1> QED
  BY <1>1, <1>2, <1>3, <1>4

LEMMA FindPasses ==
  ASSUME TypeOK, NEW p \in Proc, NEW x \in Proc, Find(x), Passed(hooks'[p]) PROVE Passes(p)
<1> DEFINE hook == hooks[x]
           next(i) == [at |-> "use", sid |-> hook.sid, hash |-> hook.hash, request |-> hook.request,
                       began |-> hook.began, ref |-> i, beside |-> FALSE]
<1>1. Go(x, Idle) \/ \E i \in Usable(hook.sid, hook) : Go(x, next(i))
  BY DEF Find
<1>2. CASE Go(x, Idle)
  BY <1>2, IdlePasses, GoPasses
<1>3. ASSUME NEW i, Go(x, next(i)), p = x PROVE Passes(p)
  <2>1. hooks'[p] = next(i)
    BY <1>3 DEF Go, TypeOK
  <2> QED
    BY <2>1, <1>3 DEF Passes, Passed, Find
<1>4. CASE p # x
  BY <1>1, <1>4, PassesStill DEF Go, TypeOK
<1> QED
  BY <1>1, <1>2, <1>3, <1>4

LEMMA UsePasses ==
  ASSUME TypeOK, NEW p \in Proc, NEW x \in Proc, Use(x), Passed(hooks'[p]) PROVE Passes(p)
<1>1. CASE p = x
  BY <1>1, IdlePasses DEF Use
<1>2. CASE p # x /\ hooks[p].at = "use" /\ hooks[p].sid = hooks[x].sid
  <2>1. hooks[p] \in Using
    BY <1>2, Kinds
  <2>2. hooks'[p] = [hooks[p] EXCEPT !.beside = TRUE]
    BY <1>2 DEF Use
  <2> QED
    BY <2>1, <2>2 DEF Passes, Passed, Using
<1>3. CASE p # x /\ ~(hooks[p].at = "use" /\ hooks[p].sid = hooks[x].sid)
  BY <1>3, PassesStill DEF Use
<1> QED
  BY <1>1, <1>2, <1>3

LEMMA StepPasses ==
  ASSUME TypeOK, [Next]_vars, NEW p \in Proc, Passed(hooks'[p])
  PROVE  Passes(p)
<1>1. ASSUME NEW x \in Proc, NEW s \in Sid, NEW w \in Workspace, Start(x, s, w) \/ Build(x, s, w)
      PROVE  Passes(p)
  BY <1>1, RenderPasses DEF Start, Build
<1>2. ASSUME NEW x \in Proc, Show(x) \/ LogRead(x) \/ Die(x) PROVE Passes(p)
  BY <1>2, IdlePasses, GoPasses DEF Show, LogRead, Die
<1>3. ASSUME NEW s \in Sid, NEW kind, NEW w \in Workspace, Say(s, kind, w) PROVE Passes(p)
  BY <1>3, PassesStill DEF Say
<1>4. ASSUME NEW s \in Sid, NEW q \in Request, NEW w \in Workspace, Record(s, q, w) PROVE Passes(p)
  BY <1>4, PassesStill DEF Record
<1>5. ASSUME NEW w \in Workspace, Change(w) PROVE Passes(p)
  BY <1>5, PassesStill DEF Change
<1>6. ASSUME UNCHANGED vars PROVE Passes(p)
  BY <1>6, PassesStill DEF vars
<1> QED
  BY <1>1, <1>2, <1>3, <1>4, <1>5, <1>6, LogManifestPasses, PrintPasses, PrePasses, LookPasses,
     AskPasses, FindPasses, UsePasses DEF Next

LEMMA StepInformed ==
  ASSUME SessionAssumption, TypeOK, LogTrue, Informed, [Next]_vars
  PROVE  Informed'
<1> SUFFICES ASSUME NEW p \in Proc, Passed(hooks'[p]), NEW s, NEW hash,
                    s = hooks'[p].sid, hash = hooks'[p].hash, hash[2] # Empty
             PROVE  Covered(s, hash)'
  BY DEF Informed
<1>1. Passes(p) /\ Kept
  BY StepPasses, StepKept
<1>2. s = hooks[p].sid /\ hash = hooks[p].hash
  BY <1>1 DEF Passes
<1>3. s \in Sid
  BY <1>1, <1>2, Kinds DEF Passes, Passed, Checking, Finding, Using
<1>4. Covered(s, hash)
  <2>1. CASE Passed(hooks[p])
    BY <1>2, <2>1 DEF Informed
  <2>2. CASE ~NeedsContext(s, hash)
    BY <1>3, <2>2 DEF NeedsContext, LogTrue, Covered
  <2> QED
    BY <1>1, <1>2, <2>1, <2>2 DEF Passes
<1> QED
  BY <1>1, <1>3, <1>4 DEF Kept

----------------------------------------------------------------------------
(* What is on record.                                                       *)

\* Instructions only get newer; overrides and pages shown only get more.
Grows ==
  \A s \in Sid :
    /\ shown[s] \subseteq shown'[s]
    /\ input[s].id \in Nat /\ input'[s].id \in Nat /\ input[s].id <= input'[s].id
    /\ \A i \in DOMAIN overrides[s] :
         i \in DOMAIN overrides'[s] /\ overrides'[s][i] = overrides[s][i]

LEMMA GrowsStill ==
  ASSUME TypeOK, UNCHANGED <<shown, input, overrides>> PROVE Grows
  BY DEF TypeOK, Input, Grows

LEMMA ShownGrows ==
  ASSUME TypeOK, NEW s \in Sid, NEW P, shown' = [shown EXCEPT ![s] = @ \union P], UNCHANGED <<input, overrides>>
  PROVE  Grows
  BY DEF TypeOK, Input, Grows

LEMMA ShowGrows == ASSUME TypeOK, NEW p \in Proc, Show(p) PROVE Grows
<1>1. hooks[p].sid \in Sid
  BY Kinds DEF Show, Building
<1>2. CASE hooks[p].complete
  BY <1>1, <1>2, ShownGrows DEF Show, events
<1>3. CASE ~hooks[p].complete
  <2>1. shown' = shown
    BY <1>3 DEF Show, TypeOK
  <2> QED
    BY <2>1, GrowsStill DEF Show, events
<1> QED
  BY <1>2, <1>3

LEMMA SayGrows ==
  ASSUME SessionAssumption, TypeOK, TypeOK', NEW s \in Sid, NEW kind, NEW w, Say(s, kind, w) PROVE Grows
<1>1. \A x \in Sid : input[x].id \in Nat /\ input'[x].id \in Nat
  BY DEF TypeOK, Input
<1>2. \A x \in Sid : input[x].id <= input'[x].id
  <2>1. CASE UNCHANGED <<input, said>>
    BY <2>1, <1>1
  <2>2. CASE ~Keeps(s, Where(s, w), kind)
    <3>1. input[s].id <= said /\ said \in Nat
      BY DEF TypeOK, SessionAssumption
    <3>2. input'[s].id = said + 1 /\ \A x \in Sid \ {s} : input'[x] = input[x]
      BY <2>2 DEF Say, TypeOK
    <3> QED
      BY <3>1, <3>2, <1>1
  <2> QED
    BY <2>1, <2>2 DEF Say
<1> QED
  BY <1>1, <1>2 DEF Say, Grows, events

LEMMA RecordGrows ==
  ASSUME TypeOK, NEW s \in Sid, NEW q \in Request, NEW w \in Workspace, Record(s, q, w) PROVE Grows
<1> DEFINE o == [request |-> q, ws |-> Where(s, w), input |-> input[s].id]
<1>1. o \in Override /\ overrides[s] \in Seq(Override)
  BY HashTyped DEF Override, TypeOK, Input
<1>2. overrides'[s] = Append(overrides[s], o) /\ \A x \in Sid \ {s} : overrides'[x] = overrides[x]
  BY DEF Record, TypeOK
<1>3. \A i \in DOMAIN overrides[s] :
        i \in DOMAIN Append(overrides[s], o) /\ Append(overrides[s], o)[i] = overrides[s][i]
  BY <1>1
<1> QED
  BY <1>2, <1>3 DEF Record, Grows, TypeOK, Input

LEMMA StepGrows == ASSUME SessionAssumption, TypeOK, [Next]_vars PROVE Grows
<1>1. ASSUME NEW p \in Proc, NEW s \in Sid, NEW w \in Workspace, Start(p, s, w) \/ Build(p, s, w)
      PROVE  Grows
  BY <1>1, GrowsStill DEF Start, Build, Render, events
<1>2. ASSUME NEW p \in Proc, LogManifest(p) \/ LogRead(p) \/ Look(p) \/ Ask(p) \/ Find(p) \/ Use(p) \/ Die(p)
      PROVE  Grows
  BY <1>2, GrowsStill DEF LogManifest, LogRead, Look, Ask, Find, Use, Die, events
<1>3. ASSUME NEW p \in Proc, NEW s \in Sid, NEW k, NEW w \in Workspace, PrintPage(p, s, k, w) PROVE Grows
  BY <1>3, ShownGrows DEF PrintPage, events
<1>4. ASSUME NEW p \in Proc, NEW s \in Sid, NEW q \in Request, NEW w \in Workspace, Pre(p, s, q, w)
      PROVE  Grows
  BY <1>4, GrowsStill DEF Pre, events
<1>5. ASSUME NEW w \in Workspace, Change(w) PROVE Grows
  BY <1>5, GrowsStill DEF Change, events
<1>6. ASSUME UNCHANGED vars PROVE Grows
  BY <1>6, GrowsStill DEF vars, events
<1> QED
  BY <1>1, <1>2, <1>3, <1>4, <1>5, <1>6, ShowGrows, SayGrows, RecordGrows, StepTyped DEF Next

\* Reading is logged after showing.
LEMMA StepPrinted ==
  ASSUME TypeOK, [Next]_vars, NEW p \in Proc, hooks'[p].at = "printed"
  PROVE  \/ hooks'[p] = hooks[p]
         \/ /\ hooks'[p].sid \in Sid
            /\ <<hooks'[p].hash, hooks'[p].page>> \in shown'[hooks'[p].sid]
<1>1. ASSUME NEW x \in Proc, NEW hook, Go(x, hook), hook.at # "printed" PROVE hooks'[p] = hooks[p]
  BY <1>1 DEF Go, TypeOK
<1>2. Idle.at # "printed"
  BY DEF Idle
<1>3. ASSUME NEW x \in Proc, NEW s \in Sid, NEW w \in Workspace, Start(x, s, w) \/ Build(x, s, w)
      PROVE  hooks'[p] = hooks[p]
  BY <1>1, <1>3 DEF Start, Build, Render
<1>4. ASSUME NEW x \in Proc, Show(x) \/ LogRead(x) \/ Die(x) PROVE hooks'[p] = hooks[p]
  BY <1>1, <1>2, <1>4 DEF Show, LogRead, Die
<1>5. ASSUME NEW x \in Proc, LogManifest(x) PROVE hooks'[p] = hooks[p]
  <2>1. [hooks[x] EXCEPT !.at = "logged"].at # "printed"
    BY <1>5, Kinds DEF LogManifest, Building
  <2> QED
    BY <1>1, <1>5, <2>1 DEF LogManifest
<1>6. ASSUME NEW x \in Proc, NEW s \in Sid, NEW k, NEW w \in Workspace, PrintPage(x, s, k, w)
      PROVE  \/ hooks'[p] = hooks[p]
             \/ /\ hooks'[p].sid \in Sid
                /\ <<hooks'[p].hash, hooks'[p].page>> \in shown'[hooks'[p].sid]
  <2>1. <<Hash(s, w), k>> \in shown'[s]
    BY <1>6 DEF PrintPage, TypeOK
  <2> QED
    BY <1>6, <2>1 DEF PrintPage, Go, TypeOK
<1>7. ASSUME NEW x \in Proc, NEW s \in Sid, NEW q \in Request, NEW w \in Workspace, Pre(x, s, q, w)
      PROVE  hooks'[p] = hooks[p]
  BY <1>1, <1>7 DEF Pre
<1>8. ASSUME NEW x \in Proc, Look(x) PROVE hooks'[p] = hooks[p]
  <2>1. [hooks[x] EXCEPT !.at = "ask"].at # "printed"
    BY <1>8, Kinds DEF Look, Checking
  <2> QED
    BY <1>1, <1>2, <1>8, <2>1 DEF Look
<1>9. ASSUME NEW x \in Proc, Ask(x) \/ Find(x) PROVE hooks'[p] = hooks[p]
  BY <1>1, <1>2, <1>9 DEF Ask, Find
<1>10. ASSUME NEW x \in Proc, Use(x) PROVE hooks'[p] = hooks[p]
  <2>1. CASE hooks[p].at = "use"
    <3>1. [hooks[p] EXCEPT !.beside = TRUE].at # "printed"
      BY <2>1, Kinds DEF Using
    <3> QED
      BY <1>2, <1>10, <2>1, <3>1 DEF Use
  <2>2. CASE hooks[p].at # "use"
    BY <1>2, <1>10, <2>2 DEF Use
  <2> QED
    BY <2>1, <2>2
<1>11. ASSUME UNCHANGED hooks PROVE hooks'[p] = hooks[p]
  BY <1>11
<1> QED
  BY <1>3, <1>4, <1>5, <1>6, <1>7, <1>8, <1>9, <1>10, <1>11 DEF Next, Say, Record, Change, vars

LEMMA ReadStep ==
  ASSUME TypeOK, LogTrue, [Next]_vars, Grows, NEW s \in Sid
  PROVE  read'[s] \subseteq shown'[s]
<1>1. CASE UNCHANGED read
  BY <1>1 DEF LogTrue, Grows
<1>2. ASSUME NEW p \in Proc, LogRead(p) PROVE read'[s] \subseteq shown'[s]
  <2>1. hooks[p].sid \in Sid /\ <<hooks[p].hash, hooks[p].page>> \in shown[hooks[p].sid]
    BY <1>2, Kinds DEF LogRead, LogTrue, Printed
  <2> QED
    BY <1>2, <2>1 DEF LogRead, LogTrue, TypeOK
<1> QED
  BY <1>1, <1>2 DEF Next, Start, Build, Render, LogManifest, Show, PrintPage, Pre, Look, Ask, Find, Use,
     Die, Say, Record, Change, vars, events

LEMMA ClaimStep ==
  ASSUME TypeOK, LogTrue, [Next]_vars, NEW s \in Sid, NEW hash \in claimed'[s]
  PROVE  Covered(s, hash)'
<1>1. ASSUME hash \in claimed[s] PROVE Covered(s, hash)'
  BY <1>1, StepKept DEF LogTrue, Kept
<1>2. CASE UNCHANGED claimed
  BY <1>1, <1>2
<1>3. ASSUME NEW p \in Proc, LogManifest(p), hash \notin claimed[s] PROVE Covered(s, hash)'
  <2>1. hooks[p] \in Building
    BY <1>3, Kinds DEF LogManifest
  <2>2. hooks[p].complete /\ hooks[p].sid = s /\ hash = Hash(s, hooks[p].cwd)
    BY <1>3, <2>1 DEF LogManifest, TypeOK
  <2>3. CASE hash = hooks[p].hash
    <3>1. hooks'[p] = [hooks[p] EXCEPT !.at = "logged"]
      BY <1>3 DEF LogManifest, Go, TypeOK
    <3>2. Showing(s, hash)'
      BY <2>1, <2>2, <2>3, <3>1 DEF Showing, Building
    <3> QED
      BY <3>2 DEF Covered
  <2>4. CASE hash # hooks[p].hash
    <3>1. hash \in unshown'[s]
      BY <1>3, <2>1, <2>2, <2>4 DEF LogManifest, TypeOK
    <3> QED
      BY <3>1 DEF Covered
  <2> QED
    BY <2>3, <2>4
<1> QED
  BY <1>1, <1>2, <1>3 DEF Next, Start, Build, Render, Show, PrintPage, LogRead, Pre, Look, Ask, Find, Use,
     Die, Say, Record, Change, vars, events

LEMMA StepLogTrue == ASSUME SessionAssumption, TypeOK, LogTrue, [Next]_vars PROVE LogTrue'
<1>1. Grows
  BY StepGrows
<1>2. \A s \in Sid : read'[s] \subseteq shown'[s]
  BY <1>1, ReadStep
<1>3. \A s \in Sid : \A hash \in claimed'[s] : Covered(s, hash)'
  BY ClaimStep
<1>4. ASSUME NEW p \in Proc, hooks'[p].at = "printed"
      PROVE  <<hooks'[p].hash, hooks'[p].page>> \in shown'[hooks'[p].sid]
  <2>1. CASE hooks'[p] = hooks[p]
    <3>1. hooks[p].sid \in Sid
      BY <1>4, <2>1, Kinds DEF Printed
    <3> QED
      BY <1>1, <1>4, <2>1, <3>1 DEF LogTrue, Grows
  <2> QED
    BY <1>4, <2>1, StepPrinted
<1> QED
  BY <1>2, <1>3, <1>4 DEF LogTrue

----------------------------------------------------------------------------
(* What a hook chose, and what was used.                                    *)

LEMMA ChosenStill ==
  ASSUME TypeOK, Grows, UNCHANGED used, NEW p \in Proc, hooks'[p] = hooks[p], ChoseWell(hooks[p])
  PROVE  ChoseWell(hooks[p])'
<1>1. CASE hooks[p].at \in {"look", "ask"}
  <2>1. hooks[p].sid \in Sid /\ hooks[p].began \in Nat
    BY <1>1, Kinds DEF Checking
  <2> QED
    BY <1>1, <2>1 DEF ChoseWell, Grows
<1>2. CASE hooks[p].at = "find"
  BY <1>2 DEF ChoseWell
<1>3. CASE hooks[p].at = "use"
  <2>1. hooks[p].sid \in Sid
    BY <1>3, Kinds DEF Using
  <2> QED
    BY <1>3, <2>1 DEF ChoseWell, Grows, Consumed
<1>4. CASE hooks[p].at \notin {"look", "ask", "find", "use"}
  BY <1>4 DEF ChoseWell
<1> QED
  BY <1>1, <1>2, <1>3, <1>4

LEMMA GoChosen ==
  ASSUME TypeOK, Chosen, Grows, UNCHANGED used, NEW x \in Proc, NEW hook, Go(x, hook),
         hook.at \in {"look", "ask", "find", "use"} => ChoseWell(hooks[x])'
  PROVE  Chosen'
<1> SUFFICES ASSUME NEW p \in Proc PROVE ChoseWell(hooks[p])'
  BY DEF Chosen
<1>1. CASE p = x
  <2>1. hooks'[p] = hook
    BY <1>1 DEF Go, TypeOK
  <2>2. CASE hook.at \notin {"look", "ask", "find", "use"}
    BY <2>1, <2>2 DEF ChoseWell
  <2> QED
    BY <1>1, <2>2
<1>2. CASE p # x
  <2>1. hooks'[p] = hooks[p]
    BY <1>2 DEF Go, TypeOK
  <2> QED
    BY <2>1, ChosenStill DEF Chosen
<1> QED
  BY <1>1, <1>2

LEMMA IdleOut == Idle.at \notin {"look", "ask", "find", "use"}
  BY DEF Idle

LEMMA RenderChosen ==
  ASSUME TypeOK, Chosen, Grows, NEW x \in Proc, NEW s, NEW w, NEW v, Render(x, s, w, v) PROVE Chosen'
<1>1. PICK complete \in BOOLEAN :
        Go(x, [at |-> "built", sid |-> s, cwd |-> w, hash |-> <<v, required[v]>>, complete |-> complete])
  BY DEF Render
<1> QED
  BY <1>1, GoChosen DEF Render, events

LEMMA LogManifestChosen == ASSUME TypeOK, Chosen, Grows, NEW x \in Proc, LogManifest(x) PROVE Chosen'
<1>1. [hooks[x] EXCEPT !.at = "logged"].at = "logged"
  BY Kinds DEF LogManifest, Building
<1> QED
  BY <1>1, GoChosen DEF LogManifest

LEMMA PreChosen ==
  ASSUME TypeOK, Chosen, Grows, NEW x \in Proc, NEW s \in Sid, NEW q \in Request, NEW w \in Workspace,
         Pre(x, s, q, w)
  PROVE  Chosen'
<1> DEFINE hook == [at |-> IF q \in Changing THEN "look" ELSE "ask", sid |-> s, cwd |-> w,
                    hash |-> Hash(s, w), request |-> q, began |-> input[s].id]
<1>1. Go(x, hook) /\ input' = input /\ used' = used
  BY DEF Pre, events
<1>2. hooks'[x] = hook
  BY <1>1 DEF Go, TypeOK
<1>3. hook.at \in {"look", "ask"} /\ hook.sid = s /\ hook.began = input[s].id
  OBVIOUS
<1>4. hooks'[x].at \in {"look", "ask"} /\ hooks'[x].began <= input'[hooks'[x].sid].id
  BY <1>1, <1>2, <1>3 DEF Grows
<1>5. ChoseWell(hooks[x])'
  BY <1>4 DEF ChoseWell
<1> QED
  BY <1>1, <1>5, GoChosen

LEMMA LookChosen == ASSUME TypeOK, Chosen, Grows, NEW x \in Proc, Look(x) PROVE Chosen'
<1> DEFINE hook == hooks[x]
<1>1. hook \in Checking /\ hook.at = "look"
  BY Kinds DEF Look
<1>2. UNCHANGED <<input, used>>
  BY DEF Look, events
<1>3. CASE Go(x, Idle)
  BY <1>2, <1>3, IdleOut, GoChosen
<1>4. CASE Go(x, [hook EXCEPT !.at = "ask"])
  <2>1. hooks'[x].at = "ask" /\ hooks'[x].sid = hook.sid /\ hooks'[x].began = hook.began
    BY <1>1, <1>4 DEF Go, TypeOK, Checking
  <2>2. ChoseWell(hooks[x])'
    BY <1>1, <1>2, <2>1 DEF ChoseWell, Chosen
  <2> QED
    BY <1>2, <1>4, <2>2, GoChosen
<1> QED
  BY <1>3, <1>4 DEF Look

LEMMA AskChosen == ASSUME TypeOK, Chosen, Grows, NEW x \in Proc, Ask(x) PROVE Chosen'
<1> DEFINE hook == hooks[x]
           next == [at |-> "find", sid |-> hook.sid, cwd |-> hook.cwd, hash |-> hook.hash,
                    request |-> hook.request, began |-> hook.began, input |-> input[hook.sid].id]
<1>1. hook.at = "ask" /\ UNCHANGED used /\ (Go(x, Idle) \/ Go(x, next))
  BY DEF Ask, events
<1>2. CASE Go(x, Idle)
  BY <1>1, <1>2, IdleOut, GoChosen
<1>3. CASE Go(x, next)
  <2>1. hooks'[x] = next
    BY <1>3 DEF Go, TypeOK
  <2>2. ChoseWell(hooks[x])'
    BY <1>1, <2>1 DEF ChoseWell, Chosen
  <2> QED
    BY <1>1, <1>3, <2>2, GoChosen
<1> QED
  BY <1>1, <1>2, <1>3

LEMMA FindChosen == ASSUME TypeOK, Chosen, Grows, NEW x \in Proc, Find(x) PROVE Chosen'
<1> DEFINE hook == hooks[x]
           next(i) == [at |-> "use", sid |-> hook.sid, hash |-> hook.hash, request |-> hook.request,
                       began |-> hook.began, ref |-> i, beside |-> FALSE]
<1>1. /\ hook.at = "find" /\ UNCHANGED <<used, overrides>>
      /\ Go(x, Idle) \/ \E i \in Usable(hook.sid, hook) : Go(x, next(i))
  BY DEF Find, events
<1>2. CASE Go(x, Idle)
  BY <1>1, <1>2, IdleOut, GoChosen
<1>3. ASSUME NEW i \in Usable(hook.sid, hook), Go(x, next(i)) PROVE Chosen'
  <2>1. hooks'[x] = next(i)
    BY <1>3 DEF Go, TypeOK
  <2>2. /\ i \in DOMAIN overrides[hook.sid] /\ i \notin Consumed(hook.sid)
        /\ overrides[hook.sid][i].request = hook.request
        /\ overrides[hook.sid][i].input = hook.input
    BY <1>3 DEF Usable, Fits
  <2>3. hook.began <= hook.input /\ hook.began \in Nat /\ hook.input \in Nat
    BY <1>1, Kinds DEF Chosen, ChoseWell, Finding
  <2>4. ChoseWell(hooks[x])'
    BY <1>1, <2>1, <2>2, <2>3 DEF ChoseWell, Consumed
  <2> QED
    BY <1>1, <1>3, <2>4, GoChosen
<1> QED
  BY <1>1, <1>2, <1>3

\* What Use(p) adds to the record of its session.
LEMMA UseAppends ==
  ASSUME TypeOK, NEW p \in Proc, Use(p), NEW s \in Sid, s = hooks[p].sid, NEW i \in DOMAIN used[s]
  PROVE  i \in DOMAIN used'[s] /\ used'[s][i] = used[s][i]
<1> DEFINE use == [ref |-> hooks[p].ref, request |-> hooks[p].request, began |-> hooks[p].began,
                   beside |-> hooks[p].beside]
<1>1. use \in Used /\ used[s] \in Seq(Used)
  BY Kinds DEF Use, Used, Using, TypeOK
<1>2. used'[s] = Append(used[s], use)
  BY DEF Use, TypeOK
<1>3. i \in DOMAIN Append(used[s], use) /\ Append(used[s], use)[i] = used[s][i]
  BY <1>1
<1> QED
  BY <1>2, <1>3

LEMMA UseLast ==
  ASSUME TypeOK, NEW p \in Proc, Use(p), NEW s \in Sid, s = hooks[p].sid
  PROVE  /\ DOMAIN used'[s] = 1..Len(used[s]) + 1
         /\ used'[s][Len(used[s]) + 1] =
              [ref |-> hooks[p].ref, request |-> hooks[p].request, began |-> hooks[p].began,
               beside |-> hooks[p].beside]
<1> DEFINE use == [ref |-> hooks[p].ref, request |-> hooks[p].request, began |-> hooks[p].began,
                   beside |-> hooks[p].beside]
<1>1. use \in Used /\ used[s] \in Seq(Used)
  BY Kinds DEF Use, Used, Using, TypeOK
<1>2. used'[s] = Append(used[s], use)
  BY DEF Use, TypeOK
<1>3. DOMAIN Append(used[s], use) = 1..Len(used[s]) + 1 /\ Append(used[s], use)[Len(used[s]) + 1] = use
  BY <1>1
<1> QED
  BY <1>2, <1>3

LEMMA UseElsewhere ==
  ASSUME TypeOK, NEW p \in Proc, Use(p), NEW s \in Sid, s # hooks[p].sid
  PROVE  used'[s] = used[s]
  BY DEF Use, TypeOK

LEMMA UsedSplit ==
  ASSUME TypeOK, NEW p \in Proc, Use(p), NEW s \in Sid, NEW i \in DOMAIN used'[s]
  PROVE  /\ i \in Nat /\ Len(used[s]) \in Nat /\ DOMAIN used[s] = 1..Len(used[s])
         /\ \/ i \in DOMAIN used[s] /\ used'[s][i] = used[s][i]
            \/ /\ s = hooks[p].sid /\ i = Len(used[s]) + 1
               /\ used'[s][i].ref = hooks[p].ref /\ used'[s][i].request = hooks[p].request
               /\ used'[s][i].began = hooks[p].began /\ used'[s][i].beside = hooks[p].beside
<1>1. used[s] \in Seq(Used)
  BY DEF TypeOK
<1>2. Len(used[s]) \in Nat /\ DOMAIN used[s] = 1..Len(used[s])
  BY <1>1
<1>3. CASE s # hooks[p].sid
  <2>1. used'[s] = used[s]
    BY <1>3, UseElsewhere
  <2> QED
    BY <1>2, <2>1
<1>4. CASE s = hooks[p].sid
  <2>1. DOMAIN used'[s] = 1..Len(used[s]) + 1
    BY <1>4, UseLast
  <2>2. CASE i \in DOMAIN used[s]
    <3>1. used'[s][i] = used[s][i]
      BY <1>4, <2>2, UseAppends
    <3>2. i \in Nat
      BY <1>2, <2>2
    <3> QED
      BY <1>2, <2>2, <3>1, <3>2
  <2>3. CASE i \notin DOMAIN used[s]
    <3>1. i = Len(used[s]) + 1
      BY <1>2, <2>1, <2>3
    <3>2. used'[s][i] = [ref |-> hooks[p].ref, request |-> hooks[p].request, began |-> hooks[p].began,
                         beside |-> hooks[p].beside]
      BY <1>4, <3>1, UseLast
    <3> QED
      BY <1>2, <1>4, <3>1, <3>2
  <2> QED
    BY <2>2, <2>3
<1> QED
  BY <1>3, <1>4

LEMMA UseChosen == ASSUME TypeOK, Chosen, NEW x \in Proc, Use(x) PROVE Chosen'
<1> SUFFICES ASSUME NEW p \in Proc PROVE ChoseWell(hooks[p])'
  BY DEF Chosen
<1>1. UNCHANGED <<overrides, input>> /\ hooks'[p] = UseHooks(x)[p]
  BY DEF Use, UseHooks
<1>2. CASE p = x
  BY <1>1, <1>2 DEF UseHooks, ChoseWell, Idle
<1>3. CASE p # x /\ hooks[p].at = "use" /\ hooks[p].sid = hooks[x].sid
  <2>1. hooks[p] \in Using
    BY <1>3, Kinds
  <2>2. hooks'[p] = [hooks[p] EXCEPT !.beside = TRUE]
    BY <1>1, <1>3 DEF UseHooks
  <2>3. /\ hooks'[p].at = "use" /\ hooks'[p].sid = hooks[p].sid /\ hooks'[p].ref = hooks[p].ref
        /\ hooks'[p].request = hooks[p].request /\ hooks'[p].began = hooks[p].began /\ hooks'[p].beside
    BY <2>1, <2>2, <1>3 DEF Using
  <2>4. ChoseWell(hooks[p])
    BY DEF Chosen
  <2> QED
    BY <1>1, <1>3, <2>3, <2>4 DEF ChoseWell
<1>4. CASE p # x /\ hooks[p].at = "use" /\ hooks[p].sid # hooks[x].sid
  <2>1. hooks'[p] = hooks[p] /\ hooks[p].sid \in Sid
    BY <1>1, <1>4, Kinds DEF UseHooks, Using
  <2>2. used'[hooks[p].sid] = used[hooks[p].sid]
    BY <2>1, <1>4, UseElsewhere
  <2> QED
    BY <1>1, <1>4, <2>1, <2>2 DEF ChoseWell, Chosen, Consumed
<1>5. CASE p # x /\ hooks[p].at # "use"
  <2>1. hooks'[p] = hooks[p]
    BY <1>1, <1>5 DEF UseHooks
  <2> QED
    BY <1>1, <1>5, <2>1 DEF ChoseWell, Chosen
<1> QED
  BY <1>2, <1>3, <1>4, <1>5

LEMMA StepChosen == ASSUME SessionAssumption, TypeOK, Chosen, [Next]_vars PROVE Chosen'
<1>1. Grows
  BY StepGrows
<1>2. ASSUME NEW x \in Proc, NEW s \in Sid, NEW w \in Workspace, Start(x, s, w) \/ Build(x, s, w)
      PROVE  Chosen'
  BY <1>1, <1>2, RenderChosen DEF Start, Build
<1>3. ASSUME NEW x \in Proc, Show(x) \/ LogRead(x) \/ Die(x) PROVE Chosen'
  BY <1>1, <1>3, IdleOut, GoChosen DEF Show, LogRead, Die, events
<1>4. ASSUME NEW x \in Proc, NEW s \in Sid, NEW k, NEW w \in Workspace, PrintPage(x, s, k, w) PROVE Chosen'
  <2>1. [at |-> "printed", sid |-> s, hash |-> Hash(s, w), page |-> k].at = "printed"
    OBVIOUS
  <2> QED
    BY <1>1, <1>4, <2>1, GoChosen DEF PrintPage, events
<1>5. ASSUME UNCHANGED <<hooks, used>> PROVE Chosen'
  BY <1>1, <1>5, ChosenStill DEF Chosen
<1> QED
  BY <1>1, <1>2, <1>3, <1>4, <1>5, LogManifestChosen, PreChosen, LookChosen, AskChosen, FindChosen, UseChosen
     DEF Next, Say, Record, Change, vars, events

LEMMA UsedStep == ASSUME TypeOK, [Next]_vars, ~ UNCHANGED used PROVE \E p \in Proc : Use(p)
  BY DEF Next, Start, Build, Render, LogManifest, Show, PrintPage, LogRead, Pre, Look, Ask, Find, Die,
     Say, Record, Change, vars, events

LEMMA StepUsedOnce == ASSUME TypeOK, Chosen, UsedOnce, [Next]_vars PROVE UsedOnce'
<1>1. CASE UNCHANGED used
  BY <1>1 DEF UsedOnce
<1>2. ASSUME NEW p \in Proc, Use(p) PROVE UsedOnce'
  <2> SUFFICES ASSUME NEW s \in Sid, NEW i \in DOMAIN used'[s], NEW j \in DOMAIN used'[s],
                      i < j, used'[s][i].ref = used'[s][j].ref
               PROVE  used'[s][j].beside
    BY DEF UsedOnce
  <2>1. CASE j \in DOMAIN used[s] /\ used'[s][j] = used[s][j]
    <3>1. i \in DOMAIN used[s] /\ used'[s][i] = used[s][i]
      BY <1>2, <2>1, UsedSplit
    <3> QED
      BY <2>1, <3>1 DEF UsedOnce
  <2>2. CASE /\ s = hooks[p].sid /\ j = Len(used[s]) + 1
             /\ used'[s][j].ref = hooks[p].ref /\ used'[s][j].beside = hooks[p].beside
    <3>1. i \in DOMAIN used[s] /\ used'[s][i] = used[s][i]
      BY <1>2, <2>2, UsedSplit
    <3>2. hooks[p].ref \in Consumed(s)
      BY <2>2, <3>1 DEF Consumed
    <3> QED
      BY <1>2, <2>2, <3>2 DEF Use, Chosen, ChoseWell
  <2> QED
    BY <1>2, <2>1, <2>2, UsedSplit
<1> QED
  BY <1>1, <1>2, UsedStep

LEMMA StepUsedAsSaid ==
  ASSUME SessionAssumption, TypeOK, Chosen, UsedAsSaid, [Next]_vars PROVE UsedAsSaid'
<1> SUFFICES ASSUME NEW s \in Sid, NEW i \in DOMAIN used'[s]
             PROVE  /\ used'[s][i].ref \in DOMAIN overrides'[s]
                    /\ overrides'[s][used'[s][i].ref].request = used'[s][i].request
                    /\ overrides'[s][used'[s][i].ref].input >= used'[s][i].began
  BY DEF UsedAsSaid
<1> DEFINE use == used'[s][i]
<1>1. Grows
  BY StepGrows
<1>2. /\ use.ref \in DOMAIN overrides[s]
      /\ overrides[s][use.ref].request = use.request
      /\ overrides[s][use.ref].input >= use.began
  <2>1. CASE i \in DOMAIN used[s] /\ use = used[s][i]
    BY <2>1 DEF UsedAsSaid
  <2>2. ASSUME NEW p \in Proc, Use(p), ~(i \in DOMAIN used[s] /\ use = used[s][i])
        PROVE  /\ use.ref \in DOMAIN overrides[s]
               /\ overrides[s][use.ref].request = use.request
               /\ overrides[s][use.ref].input >= use.began
    <3>1. /\ s = hooks[p].sid
          /\ use.ref = hooks[p].ref /\ use.request = hooks[p].request /\ use.began = hooks[p].began
      BY <2>2, UsedSplit
    <3> QED
      BY <2>2, <3>1 DEF Use, Chosen, ChoseWell
  <2> QED
    BY <2>1, <2>2, UsedStep
<1> QED
  BY <1>1, <1>2 DEF Grows

----------------------------------------------------------------------------
LEMMA InitInv == ASSUME SessionAssumption, Init PROVE SessionInv
<1>1. LogTrue /\ Informed /\ Chosen
  BY DEF Init, Idle, LogTrue, Informed, Passed, Chosen, ChoseWell
<1>2. UsedOnce /\ UsedAsSaid
  BY DEF Init, UsedOnce, UsedAsSaid
<1> QED
  BY <1>1, <1>2, InitTyped DEF SessionInv

\* The inductive invariant: the record of what was read is true, a hook that
\* passed did so over a covered text, and what it chose is for this call.
THEOREM SessionInvariant == Spec => []SessionInv
<1>1. Init => SessionInv
  BY InitInv, SessionAssumption
<1>2. SessionInv /\ [Next]_vars => SessionInv'
  <2> SUFFICES ASSUME SessionInv, [Next]_vars PROVE SessionInv'
    OBVIOUS
  <2>1. TypeOK'
    BY StepTyped, SessionAssumption DEF SessionInv
  <2>2. LogTrue' /\ Chosen'
    BY StepLogTrue, StepChosen, SessionAssumption DEF SessionInv
  <2>3. Informed' /\ UsedOnce' /\ UsedAsSaid'
    BY StepInformed, StepUsedOnce, StepUsedAsSaid, SessionAssumption DEF SessionInv
  <2> QED
    BY <2>1, <2>2, <2>3 DEF SessionInv
<1> QED
  BY <1>1, <1>2, PTL DEF Spec

\* A call that may change something gets past the check of needs_context() only
\* over constraints the agent was shown, but for the manifests that overstate.
THEOREM NoUninformedChange == Spec => []Informed
<1>1. SessionInv => Informed
  BY DEF SessionInv
<1> QED
  BY <1>1, SessionInvariant, PTL

\* An override serves one call only, but for hooks that chose it side by side
\* (policy/verification.md:45).
THEOREM OverrideOnce == Spec => []UsedOnce
<1>1. SessionInv => UsedOnce
  BY DEF SessionInv
<1> QED
  BY <1>1, SessionInvariant, PTL

\* It serves the call that it names, and only one that began while the instruction
\* it rests on was the user's last word.
THEOREM OverrideAsSaid == Spec => []UsedAsSaid
<1>1. SessionInv => UsedAsSaid
  BY DEF SessionInv
<1> QED
  BY <1>1, SessionInvariant, PTL
============================================================================
