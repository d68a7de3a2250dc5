----------------------------- MODULE GateSafety -----------------------------
(* What the stop gate and the session markers promise. *)
EXTENDS Gate

\* Every variable has the form the code gives it.
TypeOK ==
  /\ active \subseteq Sid /\ current \in Sid \union {NoSid}
  /\ cards \in [Card -> Written \union {Absent}]
  /\ touched \in [Sid \union {NoSid} -> SUBSET Card]
  /\ blocked \in [Sid -> Seq(Card)] /\ advised \in [Sid -> Seq(SUBSET Card)]
  /\ hooks \in [Sid \union {NoSid} -> Hook]
  /\ cmds \in [Proc -> Command]
  /\ {saves, upsets} \subseteq Nat
  /\ shown \in [Sid -> SUBSET Card] /\ unheard \in [Sid -> SUBSET Card]
  /\ again \subseteq Sid /\ fresh \subseteq Sid

----------------------------------------------------------------------------
\* A session is stopped for a card once at most and reminded of it once at
\* most (docs/EXTENDING.md:78), however often the card is written, its risk
\* raised, closed and opened again, by whichever session (gate.py:205-214).
AskedOnce ==
  \A s \in Sid :
    /\ \A i, j \in DOMAIN blocked[s] : blocked[s][i] = blocked[s][j] => i = j
    /\ \A i, j \in DOMAIN advised[s] : advised[s][i] \intersect advised[s][j] # {} => i = j

\* A stop the gate looks at does not let the session go past a card it opened or
\* touched that is open and blocking, and was so all the time the gate looked,
\* unless the agent has been told of it, or a hook was cut short telling it
\* (gate.py:205-233).  One it does not look at, because it follows a block
\* (gate.py:203-205), may pass such a card, but only just after the agent was
\* told of another one for the first time: so each such card has its turn.
Missed(s, c) == Blocks(cards[c]) /\ c \notin shown[s] \union unheard[s]
Looked(s) == Does(s, "load") /\ hooks'[s] = Idle /\ upsets' = upsets
Unlooked(s) == Does(s, "idle") /\ hooks'[s] = hooks[s] /\ s \in again \ again'
NothingSlips ==
  [][\A s \in Sid :
       /\ Looked(s) => \A c \in hooks[s].due : ~ Missed(s, c)
       /\ Unlooked(s) => s \in fresh \/ \A c \in touched[s] : ~ Missed(s, c)]_vars

\* While a session is registered, what its agent does to a card is never put
\* down to another session, on which the gate of that one would rest
\* (store.py:393-399, 452-466): whichever sessions come and go between the
\* steps, and however stale session/current is.
OwnLog ==
  [][\A p \in Proc :
       cmds[p].at \in {"log", "current"} /\ cmds'[p] # cmds[p] /\ cmds[p].own \in active =>
         \A s \in Sid \ {cmds[p].own} : touched'[s] = touched[s]]_vars
=============================================================================
