------------------------------ MODULE DestClient ------------------------------
(***************************************************************************)
(* The destination qBittorrent while torrents are added and hashed.  This  *)
(* is not the repository's code: it is the client that import and verify   *)
(* are written against, as their calls and comments describe it.  Hashing  *)
(* is asynchronous and may take hours; when it ends the client may start   *)
(* the torrent by itself ("5.x may start the torrent when the hash pass    *)
(* finishes"), and a stop may cancel a hash under way ("its trailing stop  *)
(* cancels the hash on 5.x").                                              *)
(***************************************************************************)
EXTENDS Naturals, FiniteSets, QbtStates

CONSTANTS
  Hashes,           \* the infohashes in staging
  StopCancelsHash,  \* may a stop end a hash under way, with nothing proven?
  AutoStart         \* may a torrent start when its hash ends?

(* Both are sets of answers: a client that may do either has both in it.    *)
ASSUME DestClientAssumption ==
  /\ StopCancelsHash \in (SUBSET BOOLEAN) \ {{}}
  /\ AutoStart \in (SUBSET BOOLEAN) \ {{}}

VARIABLES
  dst,    \* the torrents as torrents/info reports them
  auto,   \* those the client will start when their hash ends
  whole   \* those whose files are all on disk below the save path

client == <<dst, auto, whole>>

Running(t) == IsSeeding(t.state) \/ IsDownloading(t.state)

Hashing == [state |-> "checkingDL", complete |-> FALSE]

(* torrents/add, paused: listed at once, stopped or being hashed. *)
AddEffect(h) ==
  /\ IF dst[h].state # Absent
       THEN UNCHANGED <<dst, auto>>
       ELSE \/ /\ dst' = [dst EXCEPT ![h] = [state |-> "stoppedDL", complete |-> FALSE]]
               /\ UNCHANGED auto
            \/ /\ dst' = [dst EXCEPT ![h] = Hashing]
               /\ \E a \in AutoStart : auto' = [auto EXCEPT ![h] = a]
  /\ UNCHANGED whole

StopEffect(h) ==
  /\ \E cancels \in StopCancelsHash :
       dst' = [dst EXCEPT ![h] =
                 IF IsChecking(@.state) /\ ~cancels THEN @ ELSE AfterStop(@)]
  /\ auto' = [auto EXCEPT ![h] = FALSE]
  /\ UNCHANGED whole

RecheckEffect(h) ==
  /\ IF dst[h].state = Absent
       THEN UNCHANGED <<dst, auto>>
       ELSE /\ dst' = [dst EXCEPT ![h] = Hashing]
            /\ \E a \in AutoStart : auto' = [auto EXCEPT ![h] = a]
  /\ UNCHANGED whole

(* The hash pass reaches the end of the files. *)
HashEnds(h) ==
  /\ IsChecking(dst[h].state)
  /\ LET stopped == AfterStop([dst[h] EXCEPT !.complete = h \in whole])
     IN dst' = [dst EXCEPT ![h] = IF auto[h] THEN AfterStart(stopped) ELSE stopped]
  /\ auto' = [auto EXCEPT ![h] = FALSE]
  /\ UNCHANGED whole

(* A running torrent fetches what it lacks. *)
Downloads(h) ==
  /\ IsDownloading(dst[h].state)
  /\ dst' = [dst EXCEPT ![h] = [state |-> "stalledUP", complete |-> TRUE]]
  /\ whole' = whole \cup {h}
  /\ UNCHANGED auto

ClientTypeOK ==
  /\ dst \in [Hashes -> Torrent]
  /\ auto \in [Hashes -> BOOLEAN]
  /\ whole \subseteq Hashes
  /\ \A h \in Hashes : auto[h] => IsChecking(dst[h].state)
==============================================================================
