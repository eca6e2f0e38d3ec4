------------------------------- MODULE MCMigrate -------------------------------
(* Instances of Migrate for TLC. *)
EXTENDS Migrate

(* Directories and torrents. *)
Names == {"", "srv", "mnt", "data", "a", "b", "x", "y", "m", "n"}

Here == <<"", "data">>
Content(path, name, bytes) ==
  [torrent |-> "good", resume |-> "good", path |-> path, name |-> name, bytes |-> bytes,
   disk |-> [f \in Files |-> "whole"], wanted |-> [f \in Files |-> TRUE]]

(* Two torrents in two directories of one root, and two on different mounts;   *)
(* of one size, so that a cap has to break a tie.                              *)
Plain == <<Content(<<"", "srv", "a">>, "m", 1), Content(<<"", "srv", "b">>, "n", 1)>>
Mounts == <<Content(<<"", "mnt", "x">>, "n", 1), Content(<<"", "mnt", "y">>, "n", 1)>>
TwoLibraries == {Plain, Mounts}
OneLibrary == {Plain}
Edits == {<<"good", "good">>, <<"none", "none">>}

Both == {<<1, 2>>, <<2, 1>>}

Full ==
  [from |-> "rewrite", limit |-> {}, dry |-> FALSE, handoff |-> TRUE, source |-> TRUE,
   confirm |-> FALSE, allowUnverified |-> FALSE]
(* The pipeline from its steps, with and without a cap; without a handoff;     *)
(* dry; and without a source client.                                           *)
MainMigrations ==
  {[Full EXCEPT !.from = s] : s \in {"rewrite", "import", "handoff"}}
   \cup {[Full EXCEPT !.from = s, !.limit = {1}] : s \in {"transfer", "verify"}}
   \cup {[Full EXCEPT !.from = "verify", !.handoff = FALSE],
         [Full EXCEPT !.from = "transfer", !.dry = TRUE],
         [Full EXCEPT !.source = FALSE, !.allowUnverified = TRUE, !.from = "import"]}
FullOnly == {[Full EXCEPT !.from = s] : s \in {"rewrite", "verify"}}

(* What the theorems about the layout suppose. *)
ASSUME LibrariesAreDistinct == DistinctPlaces
==============================================================================
