----------------------------- MODULE TaskSafety -----------------------------
(* What taskcard.py and evidence.py promise about finished cards, over Task. *)
EXTENDS Task

SlotsTyped ==
  /\ slots \in [Slot -> Call]
  /\ \A x \in Slot : slots[x] = Free \/ slots[x].ws \in Workspace
FilesTyped == file \in [Card -> TaskCard \union {NoCard}]
CmdTyped ==
  /\ cmd \in [at : {"idle", "save", "log"}, card : Card \union {NoCard}, clean : BOOLEAN]
  /\ cmd.at # "idle" => cmd.card \in Card
  /\ commands \in 0..MaxCommands

\* Every variable keeps the shape the code gives it.
TypeOK ==
  /\ world \in [Workspace -> Version]
  /\ changed \in [Workspace -> {NoVersion} \union Version]
  /\ log \in Seq(Event)
  /\ first \in [Card -> Nat]
  /\ SlotsTyped
  /\ FilesTyped
  /\ CmdTyped

\* A card is closed on evidence that saw the present state (ARCHITECTURE.md:53).
\* When close() has decided, and nothing ran beside it, every criterion rests on
\* a call that either ran beside a change itself or saw all that recorded calls
\* changed in the card's workspace; what was read is as it was read.
ClosesFresh ==
  cmd.at = "save" /\ cmd.clean =>
    LET card == file[cmd.card]
    IN \A i \in DOMAIN card.crits :
         LET ev == log[card.crits[i].evidence]
         IN ev.clean =>
              /\ ev.saw >= changed[card.ws]
              /\ card.crits[i].check \in ReadCheck => ev.saw = world[card.ws]

\* A criterion that passed was earned, whatever was set, moved, deferred or
\* reopened since: it names a successful call of exactly its check that was
\* logged after the card was opened.  New evidence opens it again
\* (taskcard.py:342), and only close() passes it.
Earned(c, crit) ==
  /\ crit.evidence \in DOMAIN log
  /\ log[crit.evidence].ok /\ Matches(log[crit.evidence], crit.check)
  /\ Opened(c, crit.evidence)
PassEarned ==
  \A c \in Card : file[c] # NoCard =>
    \A i \in DOMAIN file[c].crits :
      file[c].crits[i].status = "pass" => Earned(c, file[c].crits[i])

Registered(ev, card) == \E i \in DOMAIN card.crits : ev.check = card.crits[i].check

\* The evidence of criterion i of card c was good when it was logged, still
\* is for what was read, and only runs of the card's own checks, and the
\* commands that run them, came after it.
OnlyVerifiedSince(c, i) ==
  LET card == file[c]
      e == card.crits[i].evidence
  IN /\ Sound(card.crits[i]) /\ log[e].ws = card.ws /\ Opened(c, e)
     /\ \A j \in e + 1..Len(log) :
          log[j].ws = card.ws =>
            log[j].kind \in {"check", "wrapper"} /\ Registered(log[j], card)

\* A check that passed remains evidence while nothing happens in the workspace
\* but the checks the card asks for (docs/EXTENDING.md:544), run by `verify run'
\* from the host's shell, the way README.md:184 tells to make it under Codex.
VerifyRunStands ==
  \A c \in Card : file[c] # NoCard =>
    \A i \in DOMAIN file[c].crits :
      OnlyVerifiedSince(c, i) => i \notin Missing(c, file[c])

----------------------------------------------------------------------------
(* Why ClosesFresh holds: what TLC and the proofs check to be inductive. *)

\* Evidence names an event that is in the log.
EvidenceLogged ==
  \A c \in Card : file[c] # NoCard =>
    \A i \in DOMAIN file[c].crits : file[c].crits[i].evidence <= Len(log)

\* Only work makes versions, and none beyond the present one.
WorkMade ==
  /\ \A w \in Workspace : changed[w] <= world[w]
  /\ \A x \in Slot : slots[x].made # NoVersion =>
       slots[x].kind \in {"write", "other"} /\ slots[x].made <= world[slots[x].ws]

\* A check that looked and was not overtaken saw every change there is.
LookCurrent ==
  \A x \in Slot :
    LET call == slots[x]
    IN call.kind = "check" /\ call.ok /\ call.clean =>
         /\ changed[call.ws] <= call.saw
         /\ \A y \in Slot : slots[y].ws = call.ws => slots[y].made <= call.saw
         /\ Reads(call.check) => call.saw = world[call.ws]

\* A recorded change a logged check did not see was logged after it.
ChangesLogged ==
  \A j \in DOMAIN log :
    LET ev == log[j]
    IN ev.kind = "check" /\ ev.ok /\ ev.clean =>
         /\ Reads(ev.check) => ev.art = ev.saw /\ ev.art # NoVersion
         /\ changed[ev.ws] > ev.saw =>
              \E k \in DOMAIN log : k > j /\ log[k].ws = ev.ws /\ log[k].kind \in {"write", "other"}

\* While a verdict waits to be written, its evidence is there and, if nothing
\* disturbed it, no change is unrecorded.
VerdictAlone ==
  cmd.at = "save" =>
    /\ file[cmd.card] # NoCard
    /\ \A i \in DOMAIN file[cmd.card].crits : file[cmd.card].crits[i].evidence # 0
    /\ cmd.clean => ~Unrecorded(file[cmd.card].ws)

EvidenceInv ==
  /\ EvidenceLogged
  /\ WorkMade
  /\ LookCurrent
  /\ ChangesLogged
  /\ VerdictAlone
  /\ ClosesFresh
TaskInv == TypeOK /\ EvidenceInv
============================================================================
