------------------------------- MODULE Custody -------------------------------
(***************************************************************************)
(* What a handoff promises about each torrent, with the two clients and    *)
(* the program abstracted away: the duty to announce it rests with the     *)
(* source, with the destination, or for "a brief gap" with nobody.  It     *)
(* moves from the source to nobody and from nobody to the destination,     *)
(* never straight across, and back to the source only out of a gap.        *)
(***************************************************************************)
CONSTANT Hashes
VARIABLE holder

Holder == {"source", "nobody", "dest"}

TypeOK == holder \in [Hashes -> Holder]

Init == holder \in [Hashes -> Holder]

(* The source falls silent. *)
Release(h) ==
  /\ holder[h] = "source"
  /\ holder' = [holder EXCEPT ![h] = "nobody"]

(* The destination starts, while nobody announces. *)
TakeOver(h) ==
  /\ holder[h] = "nobody"
  /\ holder' = [holder EXCEPT ![h] = "dest"]

(* The destination loses the files and drops out. *)
DropOut(h) ==
  /\ holder[h] = "dest"
  /\ holder' = [holder EXCEPT ![h] = "nobody"]

(* The user gives up on the destination and starts the source again. *)
TakeBack(h) ==
  /\ holder[h] = "nobody"
  /\ holder' = [holder EXCEPT ![h] = "source"]

Next == \E h \in Hashes : Release(h) \/ TakeOver(h) \/ DropOut(h) \/ TakeBack(h)

Spec == Init /\ [][Next]_holder
==============================================================================
