------------------------------- MODULE MCVerify -------------------------------
(* Instances of Verify for TLC. *)
EXTENDS Verify

CONSTANTS h1, h2

TwoHashes == {h1, h2}
CapsHere == {{h1}, TwoHashes}
(* Any flags without --allow-seeding; with it, both of the others or none.    *)
MostModes == {mode \in Mode : mode.allowSeeding => mode.recheck = mode.wait}
==============================================================================
