------------------------ MODULE MCResponsesPipeline ------------------------
EXTENDS ResponsesPipeline, TLC

CONSTANTS g1, i1, i2

OneOfEach == {g1, i1}

TwoInteractive == {g1, i1, i2}

InteractiveOnes == {i1, i2} \cap Reqs

BothRoutes == {"handoff", "acquire"}

\* Empty, within the quota and beyond it; reserved whole or by chunk.
AllKinds == [sized : {TRUE}, size : {0, 1, 3}] \cup [sized : {FALSE}, size : {2, 3}]

\* Half of the quota, or all of it.
OneOrTwo == [sized : {TRUE}, size : {1, 2}]

\* Two slots and two bytes, and one permit of everything else.
Tight == [g \in Pools |-> IF g \in {"request", "bytes"} THEN 2 ELSE 1]

Symmetry == Permutations(Reqs \ Interactive) \cup Permutations(Interactive)

=============================================================================
