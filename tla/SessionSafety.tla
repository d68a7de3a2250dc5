--------------------------- MODULE SessionSafety ---------------------------
(* What the hooks promise about constraints and overrides, over Session. *)
EXTENDS Session

\* Every variable keeps the shape the code gives it, and no id of an
\* instruction is in use that was not drawn.
TypeOK ==
  /\ required \in [Workspace -> Text]
  /\ opened \in [Sid -> Workspace \union {NoWorkspace}]
  /\ input \in [Sid -> Input] /\ said \in 0..MaxSaid
  /\ \A s \in Sid : input[s].id <= said /\ (input[s].id # 0 => input[s].ws \in Workspace)
  /\ claimed \in [Sid -> SUBSET Seen]
  /\ read \in [Sid -> SUBSET (Seen \X (Nat \ {0}))]
  /\ overrides \in [Sid -> Seq(Override)]
  /\ used \in [Sid -> Seq(Used)]
  /\ hooks \in [Proc -> Hook]
  /\ shown \in [Sid -> SUBSET (Seen \X Nat)]
  /\ unshown \in [Sid -> SUBSET Seen]

\* A process of session s has logged this text as complete and is about to show it.
Showing(s, hash) ==
  \E p \in Proc :
    hooks[p].at = "logged" /\ hooks[p].sid = s /\ hooks[p].complete /\ hooks[p].hash = hash

\* The agent of s was shown every page, with the exceptions of Informed below.
Covered(s, hash) == PagesOf(hash) \subseteq shown[s] \/ Showing(s, hash) \/ hash \in unshown[s]

\* A call that has got past the check of needs_context().
Passed(hook) == hook.at \in {"ask", "find", "use"} /\ hook.request \in Changing

\* No change passes before all pages of the constraints were read
\* (ARCHITECTURE.md:65): a call that may change something gets past
\* needs_context() only if the agent was shown every page of the constraints
\* the hook found in force.  The exceptions are texts that a manifest calls
\* complete and its process has not shown yet, or never did (build.py:360,
\* hooks.py:196: the text logged is read a second time, and logged first).
Informed ==
  \A p \in Proc :
    LET hook == hooks[p]
    IN Passed(hook) /\ hook.hash[2] # Empty => Covered(hook.sid, hook.hash)

\* An override lifts one question only (policy/verification.md:45), unless two
\* hooks chose it before either had marked it (evidence.py:341-348).
UsedOnce ==
  \A s \in Sid : \A i, j \in DOMAIN used[s] :
    i < j /\ used[s][i].ref = used[s][j].ref => used[s][j].beside

\* An override is used for the request it names; one that rests on an
\* instruction the user has since replaced or cancelled is used only by a hook
\* that began before that (policy/verification.md:45).
UsedAsSaid ==
  \A s \in Sid : \A i \in DOMAIN used[s] :
    LET use == used[s][i]
    IN /\ use.ref \in DOMAIN overrides[s]
       /\ overrides[s][use.ref].request = use.request
       /\ overrides[s][use.ref].input >= use.began

\* What is logged as read was shown, and so was what a manifest calls complete
\* but for the exceptions of Informed (cmd_memory.py:38: flushed before logged).
LogTrue ==
  /\ \A s \in Sid :
       /\ read[s] \subseteq shown[s]
       /\ \A hash \in claimed[s] : Covered(s, hash)
  /\ \A p \in Proc : hooks[p].at = "printed" =>
       <<hooks[p].hash, hooks[p].page>> \in shown[hooks[p].sid]

\* What a pre-tool hook has read is no older than its beginning, and an
\* override it chose that is used by now was used beside it.
ChoseWell(hook) ==
  /\ hook.at \in {"look", "ask"} => hook.began <= input[hook.sid].id
  /\ hook.at = "find" => hook.began <= hook.input
  /\ hook.at = "use" =>
       /\ hook.ref \in DOMAIN overrides[hook.sid]
       /\ overrides[hook.sid][hook.ref].request = hook.request
       /\ overrides[hook.sid][hook.ref].input >= hook.began
       /\ hook.ref \in Consumed(hook.sid) => hook.beside
Chosen == \A p \in Proc : ChoseWell(hooks[p])

\* The inductive invariant behind Informed, UsedOnce and UsedAsSaid (all of
\* hooks.py:205-214).
SessionInv == TypeOK /\ LogTrue /\ Chosen /\ Informed /\ UsedOnce /\ UsedAsSaid
============================================================================
