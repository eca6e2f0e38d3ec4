------------------------------ MODULE MCPayload ------------------------------
(* Instances of Payload for TLC. *)
EXTENDS Payload

(* Directories and torrents. *)
Names == {"", "srv", "mnt", "data", "a", "b", "x", "y", "l", "m", "n", "o"}

Here == <<"", "data">>
P(parts) == <<"">> \o parts

Whole == [f \in Files |-> "whole"]
All == [f \in Files |-> TRUE]
Content(path, name, bytes) ==
  [torrent |-> "good", resume |-> "good", path |-> path, name |-> name, bytes |-> bytes,
   disk |-> Whole, wanted |-> All]
Away == [Content(P(<<"srv">>), "o", 1) EXCEPT !.torrent = "none"]

(* Prefixes that are shared, degenerate, nested, written differently, empty,  *)
(* or relative.                                                               *)
Paths == <<P(<<"srv", "a">>), P(<<"srv", "b">>), <<"", "srv", "", "a", "">>, P(<<"mnt", "x", "a">>),
           P(<<"mnt", "y", "a">>), P(<<"mnt">>), <<"">>, <<"srv", "a">>>>

(* Two torrents anywhere, in directories of the same name unless they are one. *)
PathLibraries ==
  {<<Content(p, "n", 1), Content(q, IF Components(p) = Components(q) THEN "m" ELSE "n", 2), Away>> :
      <<p, q>> \in {<<Paths[1], Paths[1]>>} \cup
                   {<<Paths[i], Paths[j]>> : <<i, j>> \in {t \in (1..8) \X (1..8) : t[1] < t[2]}}}

(* Three torrents around a budget and a cap of 3. *)
SizeLibraries ==
  {<<Content(P(<<"srv">>), "l", size[1]), Content(P(<<"srv">>), "m", size[2]),
     Content(P(<<"srv">>), "n", size[3])>> :
      size \in {s \in {1, 2, 4} \X {1, 2, 4} \X {1, 2} : s[1] >= s[2] /\ s[2] # s[3]}}

(* One torrent with any content on disk, of which any part is wanted. *)
DiskLibraries ==
  {<<[Content(P(<<"srv", "a">>), "m", 1) EXCEPT !.disk = d, !.wanted = w],
     Content(P(<<"srv", "b">>), "n", 2), Away>> :
      d \in [Files -> Observed], w \in {All, [All EXCEPT !["g"] = FALSE]}}

(* One torrent whose files in BT_backup are damaged or missing, beside a good *)
(* one or alone.                                                              *)
PairLibraries ==
  {<<[Content(P(<<"srv", "a">>), "m", 1) EXCEPT !.torrent = t, !.resume = r],
     [Content(P(<<"srv", "b">>), "n", 2) EXCEPT !.resume = s], Away>> :
      <<t, r, s>> \in {x \in FileState \X FileState \X {"good", "none"} :
                         x[3] = "none" => x[1] = "broken"}}

(* Added or removed as a whole; one file damaged, the other one missing.      *)
Edits == {<<"good", "good">>, <<"none", "none">>, <<"broken", "good">>, <<"good", "none">>}

AllLibraries == PairLibraries \cup PathLibraries \cup SizeLibraries \cup DiskLibraries

(* What the theorems about the layout suppose. *)
ASSUME LibrariesAreDistinct == DistinctPlaces
==============================================================================
