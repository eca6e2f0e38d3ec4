------------------------------- MODULE MCImport -------------------------------
(* Instances of Import for TLC. *)
EXTENDS Import, TLC

CONSTANTS h1, h2

TwoHashes == {h1, h2}
AnySubset == SUBSET TwoHashes
WholeSet == {TwoHashes}

(* --allow-unverified-source adds nothing when a source is given. *)
MainModes == {m \in Mode : ~(m.source /\ m.allowUnverified) /\ (m.dryRun => m.source)}

Symmetric == Permutations(TwoHashes)
==============================================================================
