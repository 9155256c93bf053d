------------------------- MODULE MCConcurrencyGate -------------------------
(* Small instances of ConcurrencyGate: two nodes, one chat model and one     *)
(* picture model.                                                            *)
EXTENDS ConcurrencyGate, TLC

CONSTANTS m1, p1, n1, n2, r1

OneCap == [m \in Models |-> 1]

NoCaps == [name \in {} |-> 0]

\* Two nodes serve m1, OpenRouter is configured, no pictures.
Usual == [csv |-> [m \in Models |-> {n1, n2}], serving |-> [m \in Models |-> {n1, n2}],
          openrouter |-> TRUE, images |-> {}, caps |-> NoCaps, force |-> {}]

UsualOnly == {Usual}

\* Caps as an operator may set them: none, one of the aliases on or off.
SomeCaps ==
  {NoCaps} \cup [{Local(m1)} -> {0, 2}] \cup [{Strict(m1)} -> {-1, 2}]
           \cup [{Local(m1), Strict(m1)} -> {-1, 2}]

\* Every combination of deployed nodes, reachable nodes, key, pictures (one of
\* them sharing the chat model's name), caps and forced names.
AllEnvironments ==
  [csv        : [Models -> {{}, {n1, n2}}],
   serving    : [Models -> {{}, {n1}}],
   openrouter : BOOLEAN,
   images     : {{}, {p1}, {m1}},
   caps       : SomeCaps,
   force      : {{}, {Local(m1), Strict(m1)}}]

\* A restart leads to one of the initial states, which has all that follows; it
\* happens here while a node answers.
StillSpec ==
  Init /\ [][\/ PollStep \/ Tick \/ RequestStep
             \/ (\E r \in Requests : req[r].at = "upstream") /\ Restart(env)]_vars
=============================================================================
