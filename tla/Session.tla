------------------------------ MODULE Session ------------------------------
(***************************************************************************)
(* The hooks of a session and the commands its agent runs, as far as they  *)
(* decide what a tool call may do: the session-start and pre-tool hooks of *)
(* hooks.py, required context (build.py, cmd_memory.py), what the user said*)
(* and the overrides that rest on it (store.py, evidence.py), all in       *)
(* src/plugins/kiseki-da/core/ctx.                                         *)
(*                                                                         *)
(* Each hook or command is a process of its own; those of one session may  *)
(* run side by side, since hosts run tool calls in parallel, and each may  *)
(* die at any step.  events.jsonl is split by what reads it back: `claimed'*)
(* (context_manifest), `read' (context_read), `overrides' (human_override) *)
(* and `used' (authority_used).  Appending is atomic: fileio.py locks.     *)
(* Operators named Slip... are plausible mistakes in the one that follows.  *)
(***************************************************************************)
EXTENDS Naturals, Sequences, FiniteSets

CONSTANTS
  Sid, Workspace, NoWorkspace,
  Proc,            \* processes that may run at once
  Text,            \* what the required constraints may say
  Empty,           \* the text of no constraints
  Pages,           \* how many pages `context required' makes of a text
  Request,         \* exact tool requests that guard() does not deny
  Changing,        \* those whose effect is "write" or "unknown"
  Asking,          \* those guard() answers with "ask"
  MaxSaid,         \* instructions of the user
  MaxOverride      \* overrides of one session

ASSUME SessionAssumption ==
  /\ NoWorkspace \notin Workspace
  /\ Empty \in Text
  /\ Pages \in [Text -> Nat]
  /\ Changing \subseteq Request /\ Asking \subseteq Request
  /\ {MaxSaid, MaxOverride} \subseteq Nat

VARIABLES
  required,   \* the constraints of each workspace: its profile and its open cards
  opened,     \* session/<sid>.workspace
  input,      \* session/<sid>.user.json
  said,       \* how many ids record_user_input() has drawn
  claimed,    \* what the manifests of each session call complete
  read,       \* the pages logged as read
  overrides,  \* in the order they were recorded
  used,       \* in the order they were used
  hooks       \* what each process has read so far

\* History.  `shown[s]': the pages that reached the agent of s.  `unshown[s]':
\* the texts a manifest of s calls complete that the same hook did not show.
VARIABLES shown, unshown

events == <<claimed, read, overrides, used>>
vars == <<required, opened, input, said, events, hooks, shown, unshown>>

----------------------------------------------------------------------------
Seen == Workspace \X Text   \* a hash: required_context() hashes both

NoInput == [id |-> 0, ws |-> NoWorkspace, cancels |-> FALSE]
Input == [id : Nat, ws : Workspace \union {NoWorkspace}, cancels : BOOLEAN]

Override == [request : Request, ws : Workspace, input : Nat]

\* `began' and `beside' are history: the instruction in force when the hook
\* that used the override began, and whether it chose it before another did.
Used == [ref : Nat, request : Request, began : Nat, beside : BOOLEAN]

\* What a process knows at each step.
Idle == [at |-> "idle"]
Building == [at : {"built", "logged"}, sid : Sid, cwd : Workspace, hash : Seen, complete : BOOLEAN]
Printed == [at : {"printed"}, sid : Sid, hash : Seen, page : Nat \ {0}]
Checking == [at : {"look", "ask"}, sid : Sid, cwd : Workspace, hash : Seen, request : Request, began : Nat]
Finding == [at : {"find"}, sid : Sid, cwd : Workspace, hash : Seen, request : Request, began : Nat, input : Nat]
Using == [at : {"use"}, sid : Sid, hash : Seen, request : Request, began : Nat, ref : Nat, beside : BOOLEAN]
Hook == {Idle} \union Building \union Printed \union Checking \union Finding \union Using

Init ==
  /\ required \in [Workspace -> Text]
  /\ opened = [s \in Sid |-> NoWorkspace]
  /\ input = [s \in Sid |-> NoInput] /\ said = 0
  /\ claimed = [s \in Sid |-> {}] /\ read = [s \in Sid |-> {}]
  /\ overrides = [s \in Sid |-> <<>>] /\ used = [s \in Sid |-> <<>>]
  /\ hooks = [p \in Proc |-> Idle]
  /\ shown = [s \in Sid |-> {}] /\ unshown = [s \in Sid |-> {}]

----------------------------------------------------------------------------
\* Reading the state of a session.

\* workspace(): before a session-start hook it is the folder of the process.
Where(s, cwd) == IF opened[s] = NoWorkspace THEN cwd ELSE opened[s]
Hash(s, cwd) == <<Where(s, cwd), required[Where(s, cwd)]>>

PagesOf(hash) == {hash} \X (1..Pages[hash[2]])

\* needs_context()
SlipNeedsContext(s, hash) == hash[2] # Empty /\ ~ \E page \in PagesOf(hash) : page \in read[s]
NeedsContext(s, hash) ==
  /\ hash[2] # Empty
  /\ hash \notin claimed[s]
  /\ ~ PagesOf(hash) \subseteq read[s]

\* consume_override(): the overrides of the present instruction for this very
\* request that nobody used yet.
SlipConsumed(s) == {}
Consumed(s) == {used[s][i].ref : i \in DOMAIN used[s]}
Fits(s, hook, o) ==
  o.request = hook.request /\ o.ws = hook.cwd /\ o.ws = Where(s, hook.cwd)
SlipUsable(s, hook) == {i \in DOMAIN overrides[s] \ Consumed(s) : Fits(s, hook, overrides[s][i])}
Usable(s, hook) ==
  {i \in DOMAIN overrides[s] \ Consumed(s) :
     Fits(s, hook, overrides[s][i]) /\ overrides[s][i].input = hook.input}

----------------------------------------------------------------------------
IsIdle(p) == hooks[p].at = "idle"
Go(p, hook) == hooks' = [hooks EXCEPT ![p] = hook]

\* The session-start hook (a session may be resumed, in another folder too) and
\* the command `build': build() renders what fits the budget, ...
Render(p, s, cwd, where) ==
  /\ IsIdle(p)
  /\ \E complete \in BOOLEAN :
       Go(p, [at |-> "built", sid |-> s, cwd |-> cwd, hash |-> <<where, required[where]>>,
              complete |-> complete])
  /\ UNCHANGED <<required, input, said, events, shown, unshown>>

Start(p, s, w) == opened' = [opened EXCEPT ![s] = w] /\ Render(p, s, w, w)
Build(p, s, cwd) == UNCHANGED opened /\ Render(p, s, cwd, Where(s, cwd))

\* ... reads the constraints once more for the manifest, which is logged, ...
LogManifest(p) ==
  LET hook == hooks[p]
      hash == Hash(hook.sid, hook.cwd)
  IN /\ hook.at = "built"
     /\ claimed' = [claimed EXCEPT ![hook.sid] = IF hook.complete THEN @ \union {hash} ELSE @]
     /\ Go(p, [hook EXCEPT !.at = "logged"])
     /\ unshown' = [unshown EXCEPT ![hook.sid] =
          IF hook.complete /\ hash # hook.hash THEN @ \union {hash} ELSE @]
     /\ UNCHANGED <<required, opened, input, said, read, overrides, used, shown>>

\* ... and the host takes the output.
Show(p) ==
  LET hook == hooks[p]
  IN /\ hook.at = "logged"
     /\ shown' = [shown EXCEPT ![hook.sid] = IF hook.complete THEN @ \union PagesOf(hook.hash) ELSE @]
     /\ Go(p, Idle)
     /\ UNCHANGED <<required, opened, input, said, events, unshown>>

\* `context required --page k' prints first and logs then.
PrintPage(p, s, k, cwd) ==
  LET hash == Hash(s, cwd)
  IN /\ IsIdle(p) /\ k \in 1..Pages[hash[2]]
     /\ shown' = [shown EXCEPT ![s] = @ \union {<<hash, k>>}]
     /\ Go(p, [at |-> "printed", sid |-> s, hash |-> hash, page |-> k])
     /\ UNCHANGED <<required, opened, input, said, events, unshown>>

SlipLogRead(p) ==
  LET hook == hooks[p]
  IN /\ hook.at = "printed"
     /\ read' = [read EXCEPT ![hook.sid] = @ \union {<<hook.hash, hook.page - 1>>}]
     /\ Go(p, Idle)
     /\ UNCHANGED <<required, opened, input, said, claimed, overrides, used, shown, unshown>>
LogRead(p) ==
  LET hook == hooks[p]
  IN /\ hook.at = "printed"
     /\ read' = [read EXCEPT ![hook.sid] = @ \union {<<hook.hash, hook.page>>}]
     /\ Go(p, Idle)
     /\ UNCHANGED <<required, opened, input, said, claimed, overrides, used, shown, unshown>>

----------------------------------------------------------------------------
\* The pre-tool hook reads the constraints, ...
Pre(p, s, q, cwd) ==
  /\ IsIdle(p)
  /\ Go(p, [at |-> IF q \in Changing THEN "look" ELSE "ask", sid |-> s, cwd |-> cwd,
            hash |-> Hash(s, cwd), request |-> q, began |-> input[s].id])
  /\ UNCHANGED <<required, opened, input, said, events, shown, unshown>>

\* ... then the events, and denies the call or goes on; ...
Look(p) ==
  LET hook == hooks[p]
  IN /\ hook.at = "look"
     /\ Go(p, IF NeedsContext(hook.sid, hook.hash) THEN Idle ELSE [hook EXCEPT !.at = "ask"])
     /\ UNCHANGED <<required, opened, input, said, events, shown, unshown>>

\* ... what guard() asks about needs what the user said, ...
Ask(p) ==
  LET hook == hooks[p]
      now == input[hook.sid].id
  IN /\ hook.at = "ask"
     /\ Go(p, IF hook.request \notin Asking \/ now = 0 THEN Idle
              ELSE [at |-> "find", sid |-> hook.sid, cwd |-> hook.cwd, hash |-> hook.hash,
                    request |-> hook.request, began |-> hook.began, input |-> now])
     /\ UNCHANGED <<required, opened, input, said, events, shown, unshown>>

\* ... and the newest override for it, ...
Find(p) ==
  LET hook == hooks[p]
      usable == Usable(hook.sid, hook)
  IN /\ hook.at = "find"
     /\ \/ usable = {} /\ Go(p, Idle)
        \/ \E i \in usable :
             /\ \A j \in usable : j <= i
             /\ Go(p, [at |-> "use", sid |-> hook.sid, hash |-> hook.hash, request |-> hook.request,
                       began |-> hook.began, ref |-> i, beside |-> FALSE])
     /\ UNCHANGED <<required, opened, input, said, events, shown, unshown>>

\* ... which it marks used.  The call is allowed.
Use(p) ==
  LET hook == hooks[p]
      s == hook.sid
  IN /\ hook.at = "use"
     /\ used' = [used EXCEPT ![s] = Append(@,
          [ref |-> hook.ref, request |-> hook.request, began |-> hook.began, beside |-> hook.beside])]
     /\ hooks' = [x \in Proc |->
          IF x = p THEN Idle
          ELSE IF hooks[x].at = "use" /\ hooks[x].sid = s THEN [hooks[x] EXCEPT !.beside = TRUE]
          ELSE hooks[x]]
     /\ UNCHANGED <<required, opened, input, said, claimed, read, overrides, shown, unshown>>

\* A hook dies or times out (what it raises is swallowed): the host goes on.
Die(p) ==
  LET hook == hooks[p]
  IN /\ ~IsIdle(p)
     /\ Go(p, Idle)
     /\ unshown' = IF hook.at = "logged" /\ hook.complete
                   THEN [unshown EXCEPT ![hook.sid] = @ \union {hook.hash}] ELSE unshown
     /\ UNCHANGED <<required, opened, input, said, events, shown>>

----------------------------------------------------------------------------
\* The user and the commands.

\* record_user_input(): cheering, or "go on" after no cancellation, keeps the
\* instruction; anything else is a new one.
Keeps(s, ws, kind) ==
  /\ input[s].id # 0 /\ input[s].ws = ws
  /\ kind = "cheer" \/ (kind = "resume" /\ ~input[s].cancels)

Say(s, kind, cwd) ==
  LET ws == Where(s, cwd)
  IN /\ IF Keeps(s, ws, kind) THEN UNCHANGED <<input, said>>
        ELSE /\ said < MaxSaid
             /\ said' = said + 1
             /\ input' = [input EXCEPT ![s] = [id |-> said', ws |-> ws, cancels |-> kind = "cancel"]]
     /\ UNCHANGED <<required, opened, events, hooks, shown, unshown>>

\* `task override': the words quoted are the present instruction.
Record(s, q, cwd) ==
  LET ws == Where(s, cwd)
  IN /\ input[s].id # 0 /\ input[s].ws = ws /\ ~input[s].cancels
     /\ Len(overrides[s]) < MaxOverride
     /\ overrides' = [overrides EXCEPT ![s] = Append(@, [request |-> q, ws |-> ws, input |-> input[s].id])]
     /\ UNCHANGED <<required, opened, input, said, claimed, read, used, hooks, shown, unshown>>

\* Somebody remembers, approves, or puts a constraint on a card.
Change(w) ==
  /\ \E text \in Text : required' = [required EXCEPT ![w] = text]
  /\ UNCHANGED <<opened, input, said, events, hooks, shown, unshown>>

Next ==
  \/ \E p \in Proc :
       \/ \E s \in Sid, w \in Workspace : Start(p, s, w) \/ Build(p, s, w)
       \/ LogManifest(p)
       \/ Show(p)
       \/ \E s \in Sid, w \in Workspace : \E k \in 1..Pages[required[Where(s, w)]] : PrintPage(p, s, k, w)
       \/ LogRead(p)
       \/ \E s \in Sid, q \in Request, w \in Workspace : Pre(p, s, q, w)
       \/ Look(p)
       \/ Ask(p)
       \/ Find(p)
       \/ Use(p)
       \/ Die(p)
  \/ \E s \in Sid, w \in Workspace :
       \/ \E kind \in {"do", "cancel", "cheer", "resume"} : Say(s, kind, w)
       \/ \E q \in Request : Record(s, q, w)
  \/ \E w \in Workspace : Change(w)

Spec == Init /\ [][Next]_vars
============================================================================
