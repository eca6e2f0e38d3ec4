------------------------------ MODULE QbtStates ------------------------------
(***************************************************************************)
(* The state strings a qBittorrent client reports and the four classes     *)
(* crate qbt sorts them into, followed by what a client does with a        *)
(* torrent when it is asked to stop, start or recheck it.  The second half *)
(* is not this repository's code: it is the behaviour the callers and the  *)
(* comments of the crates rely on.                                         *)
(***************************************************************************)

SeedingStates == {"uploading", "stalledUP", "forcedUP", "queuedUP"}
CheckingStates == {"checkingUP", "checkingDL", "checkingResumeData"}
DownloadingStates ==
  {"downloading", "stalledDL", "forcedDL", "queuedDL", "metaDL", "allocating"}
StoppedStates == {"stoppedUP", "stoppedDL", "pausedUP", "pausedDL"}

(* What the four predicates leave over. *)
BrokenStates == {"missingFiles", "error"}
OtherStates == BrokenStates \cup {"moving", "unknown"}

(* "absent": the client does not list the torrent at all. *)
Absent == "absent"
ListedStates == SeedingStates \cup CheckingStates \cup DownloadingStates
                  \cup StoppedStates \cup OtherStates
State == ListedStates \cup {Absent}

IsSeeding(s) == s \in SeedingStates
IsChecking(s) == s \in CheckingStates
IsDownloading(s) == s \in DownloadingStates
IsStopped(s) == s \in StoppedStates
IsBroken(s) == s \in BrokenStates

(* A torrent as the callers see it: the state string, and whether           *)
(* is_piece_complete holds of amount_left and progress.                     *)
Torrent == [state : State, complete : BOOLEAN]
AbsentTorrent == [state |-> Absent, complete |-> FALSE]
IsPieceComplete(t) == t.complete

------------------------------------------------------------------------------
(* The client's side. *)

(* A stop leaves a torrent with an error in its error state. *)
AfterStop(t) ==
  CASE t.state \in BrokenStates \cup {Absent} -> t
    [] OTHER -> [t EXCEPT !.state = IF t.complete THEN "stoppedUP" ELSE "stoppedDL"]

(* A start only changes a stopped torrent; with pieces missing it downloads. *)
AfterStart(t) ==
  IF IsStopped(t.state)
    THEN [t EXCEPT !.state = IF t.complete THEN "stalledUP" ELSE "stalledDL"]
    ELSE t
==============================================================================
