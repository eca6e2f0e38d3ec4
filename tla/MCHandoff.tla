------------------------------ MODULE MCHandoff ------------------------------
(* Instances of Handoff for TLC: constants that a cfg cannot write down. *)
EXTENDS Handoff, TLC

CONSTANTS h1, h2

TwoHashes == {h1, h2}
AnySubset == (SUBSET TwoHashes) \ {{}}
WholeSet == {TwoHashes}

(* Without the combinations that behave as another one does: --confirm adds  *)
(* nothing to --source-url, and one dry run shows what a dry run does.       *)
MainModes == {m \in Mode : ~(m.source /\ m.confirm) /\ (m.dryRun => m.source)}
AutoMode == {[source |-> TRUE, confirm |-> FALSE, dryRun |-> FALSE]}

Symmetric == Permutations(TwoHashes)
==============================================================================
