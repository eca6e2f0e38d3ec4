------------------------------- MODULE Handoff -------------------------------
(***************************************************************************)
(* tsync handoff (crates/handoff): for each staged torrent, stop the       *)
(* source client and then start the destination client.                    *)
(*                                                                         *)
(* One process runs the command, again and again, with options that may    *)
(* differ every time.  Each step of it is one call to one client, because  *)
(* between two calls both clients, their users and the file system move on *)
(* while the process works with what it listed at the beginning.  A call   *)
(* may be refused, may be applied with its reply lost, and the process may *)
(* be killed between any two calls.                                        *)
(***************************************************************************)
EXTENDS Naturals, FiniteSets, QbtStates

CONSTANTS
  Hashes,        \* the infohashes in staging
  Caps,          \* what expected_hashes may return: the N smallest, for some N
  Modes,         \* the option records the command is invoked with
  Interference,  \* which of the users' doings outside the procedure happen
  SourceStates,  \* source states a handoff may begin with
  DestStates,    \* destination states a handoff may begin with
  UserLimit,     \* the destination's download limit before tsync came
  MaxFaults      \* bound: calls that fail, and kills, in one behaviour

Mode == [source : BOOLEAN, confirm : BOOLEAN, dryRun : BOOLEAN]

ASSUME HandoffAssumption ==
  /\ Caps \subseteq SUBSET Hashes
  /\ Modes \subseteq Mode
  /\ Interference \subseteq {"startSource", "rollback", "loseFiles"}
  /\ SourceStates \subseteq State
  /\ DestStates \subseteq State
  /\ UserLimit \in Nat
  /\ MaxFaults \in Nat

CIRCUIT_BREAKER_BPS == 1

NoHash == "none"
ASSUME NoHashAssumption == NoHash \notin Hashes

VARIABLES
  src,        \* source client: state of each torrent
  stopping,   \* source client: torrents/stop accepted, not yet in effect
  dst,        \* destination client: its torrents
  limit,      \* destination client: global download limit, 0 for none
  pc,         \* the next call of the running command
  opts,       \* Options of the running command
  expected,   \* expected_hashes(staging, max_torrents)
  seenDst,    \* dest_map
  seenSrc,    \* source_map
  candidates, \* classified as Candidate
  todo,       \* candidates the loop has not reached
  cur,        \* candidate being handed off
  didStop,    \* handoff_one: did_stop
  previous,   \* limit read before the breaker, restored by LimitGuard
  report,     \* Report, its counters as sets of hashes
  faults      \* failed calls and kills so far

clients == <<src, stopping, dst, limit>>
snapshot == <<opts, expected, seenDst, seenSrc>>
work == <<candidates, todo, cur, didStop, previous>>
vars == <<clients, pc, snapshot, work, report, faults>>

------------------------------------------------------------------------------
(* Source-side silence, as the procedure needs it: the torrent does not    *)
(* announce and will not begin to by itself.  A torrent whose stop was     *)
(* accepted is silent once it no longer reports a seeding state.           *)
Silent(h) ==
  \/ src[h] \in StoppedStates \cup BrokenStates \cup {Absent}
  \/ stopping[h] /\ ~IsSeeding(src[h])

Running(t) == IsSeeding(t.state) \/ IsDownloading(t.state)

NoTorrents == [h \in Hashes |-> AbsentTorrent]
NoStates == [h \in Hashes |-> Absent]
NoMode == [source |-> FALSE, confirm |-> FALSE, dryRun |-> FALSE]
Ends == {"none", "running", "ok", "error", "killed"}
Report ==
  [end : Ends, ready : SUBSET Hashes, started : SUBSET Hashes,
   already : SUBSET Hashes, sourceStopped : SUBSET Hashes, failed : SUBSET Hashes,
   dryRun : BOOLEAN, reportOnly : BOOLEAN]
EmptyReport(end) ==
  [end |-> end, ready |-> {}, started |-> {}, already |-> {}, sourceStopped |-> {},
   failed |-> {}, dryRun |-> FALSE, reportOnly |-> FALSE]
IsComplete == report.failed = {}

Init ==
  /\ src \in [Hashes -> SourceStates]
  /\ stopping = [h \in Hashes |-> FALSE]
  /\ dst \in [Hashes -> {t \in Torrent :
                 /\ t.state \in DestStates
                 /\ t.state \in {Absent, "stoppedDL"} \cup DownloadingStates => ~t.complete
                 /\ t.state \in SeedingStates \cup {"stoppedUP"} => t.complete
                 /\ t.state \in BrokenStates => ~t.complete}]
  \* Import left the destination paused: what runs there was handed off before.
  /\ \A h \in Hashes : Running(dst[h]) => Silent(h)
  /\ limit = UserLimit
  /\ pc = "idle"
  /\ opts = NoMode
  /\ expected = {}
  /\ seenDst = NoTorrents
  /\ seenSrc = NoStates
  /\ candidates = {}
  /\ todo = {}
  /\ cur = NoHash
  /\ didStop = FALSE
  /\ previous = 0
  /\ report = EmptyReport("none")
  /\ faults = 0

------------------------------------------------------------------------------
(* Calls.  A mutating call is answered ("ok"), never reaches the client     *)
(* ("refused"), or is applied and its reply is lost ("lost").  A read is    *)
(* answered or fails, and a failed read changes nothing.                    *)
Replies == {"ok", "refused", "lost"}
ReadReplies == {"ok", "refused"}
Charge(reply) ==
  IF reply = "ok" THEN UNCHANGED faults
                  ELSE faults < MaxFaults /\ faults' = faults + 1

(* The command is over: everything it held in memory is gone. *)
Forget ==
  /\ pc' = "idle"
  /\ opts' = NoMode
  /\ seenDst' = NoTorrents
  /\ seenSrc' = NoStates
  /\ candidates' = {}
  /\ todo' = {}
  /\ cur' = NoHash
  /\ didStop' = FALSE
  /\ previous' = 0

(* `?` before the per-torrent loop: the command returns Err. *)
Abort ==
  /\ Forget
  /\ report' = [report EXCEPT !.end = "error"]
  /\ UNCHANGED expected

(* Invocation, and expected_hashes.  --confirm without --source-url is the  *)
(* user's word that the source was stopped by hand.                         *)
Begin ==
  /\ pc = "idle"
  /\ \E mode \in Modes, cap \in Caps :
       /\ mode.confirm /\ ~mode.source => \A h \in cap : Silent(h)
       /\ opts' = mode
       /\ expected' = cap
  /\ pc' = "listDest"
  /\ report' = EmptyReport("running")
  /\ UNCHANGED <<clients, seenDst, seenSrc, work, faults>>

ListDest ==
  /\ pc = "listDest"
  /\ UNCHANGED clients
  /\ \E reply \in ReadReplies :
       /\ Charge(reply)
       /\ IF reply = "ok"
            THEN /\ seenDst' = dst
                 /\ pc' = IF opts.source THEN "listSource" ELSE "classify"
                 /\ UNCHANGED <<opts, expected, seenSrc, work, report>>
            ELSE Abort

ListSource ==
  /\ pc = "listSource"
  /\ UNCHANGED clients
  /\ \E reply \in ReadReplies :
       /\ Charge(reply)
       /\ IF reply = "ok"
            THEN /\ seenSrc' = src
                 /\ pc' = "classify"
                 /\ UNCHANGED <<opts, expected, seenDst, work, report>>
            ELSE Abort

(* classify, one operator per answer.  Without a source client seenSrc is   *)
(* all Absent, as source_map is None.                                       *)
ProvenOnDest(h) ==
  /\ seenDst[h].state # Absent
  /\ ~IsChecking(seenDst[h].state)
  /\ ~IsDownloading(seenDst[h].state)
  /\ IsPieceComplete(seenDst[h])
IsAlready(h) ==
  /\ ProvenOnDest(h)
  /\ IsSeeding(seenDst[h].state)
  /\ ~IsSeeding(seenSrc[h])
  /\ opts.source \/ opts.confirm

\* Mutant of IsCandidate: a stopped torrent is taken for a complete one.
IsCandidateUnproven(h) == IsStopped(seenDst[h].state)
\* Mutant of IsCandidate: only what the source still seeds is handed off.
IsCandidateSeeded(h) ==
  ProvenOnDest(h) /\ IsStopped(seenDst[h].state) /\ IsSeeding(seenSrc[h])

IsCandidate(h) ==
  /\ ProvenOnDest(h)
  /\ IsStopped(seenDst[h].state)
WouldStart == opts.source \/ opts.confirm

\* Mutant of Considered: every hash of the destination, not the capped set.
ConsideredAll == Hashes
(* The hashes the loop classifies. *)
Considered == expected

Classify ==
  /\ pc = "classify"
  /\ UNCHANGED <<clients, faults>>
  /\ LET ready == {h \in Considered : IsCandidate(h)}
         already == {h \in Considered : IsAlready(h)}
         classified ==
           [EmptyReport("ok") EXCEPT
              !.ready = ready, !.already = already,
              !.started = IF opts.dryRun /\ WouldStart THEN ready ELSE {},
              !.failed = Considered \ (ready \cup already),
              !.dryRun = opts.dryRun,
              !.reportOnly = ~WouldStart]
     IN IF opts.dryRun \/ ~WouldStart
          THEN /\ Forget
               /\ report' = classified
               /\ UNCHANGED expected
          ELSE /\ report' = [classified EXCEPT !.end = "running"]
               /\ candidates' = ready
               /\ todo' = ready
               /\ pc' = IF ready = {} THEN "next" ELSE "readLimit"
               /\ UNCHANGED <<snapshot, cur, didStop, previous>>

ReadLimit ==
  /\ pc = "readLimit"
  /\ UNCHANGED clients
  /\ \E reply \in ReadReplies :
       /\ Charge(reply)
       /\ IF reply = "ok"
            THEN /\ previous' = limit
                 /\ pc' = "setLimit"
                 /\ UNCHANGED <<snapshot, candidates, todo, cur, didStop, report>>
            ELSE Abort

\* Mutant of SetLimit: the guard is not bound, so it is dropped at once.
SetLimitUnbound ==
  /\ pc = "setLimit"
  /\ limit' = previous
  /\ pc' = "next"
  /\ UNCHANGED <<src, stopping, dst, snapshot, work, report, faults>>

(* LimitGuard exists only after this call has been answered. *)
SetLimit ==
  /\ pc = "setLimit"
  /\ UNCHANGED <<src, stopping, dst>>
  /\ \E reply \in Replies :
       /\ Charge(reply)
       /\ limit' = IF reply = "refused" THEN limit ELSE CIRCUIT_BREAKER_BPS
       /\ IF reply = "ok"
            THEN /\ pc' = "next"
                 /\ UNCHANGED <<snapshot, work, report>>
            ELSE Abort

\* Mutant of NeedsStop: a source that is hashing is taken for silent.
NeedsStopIfSeeding(h) == opts.source /\ IsSeeding(seenSrc[h])

(* The loop takes a candidate.  Only a source that the listing showed        *)
(* present and not stopped is stopped, and only then listed again.           *)
NeedsStop(h) == opts.source /\ seenSrc[h] # Absent /\ ~IsStopped(seenSrc[h])
Take(h) ==
  /\ pc = "next"
  /\ h \in todo
  /\ todo' = todo \ {h}
  /\ cur' = h
  /\ didStop' = FALSE
  /\ pc' = IF NeedsStop(h) THEN "stop" ELSE "start"
  /\ UNCHANGED <<clients, snapshot, candidates, previous, report, faults>>

\* Mutant of FailCurrent: the error of one torrent is swallowed.
FailCurrentSilently ==
  /\ pc' = "next"
  /\ cur' = NoHash
  /\ didStop' = FALSE
  /\ UNCHANGED <<candidates, todo, previous, report>>

(* An error in handoff_one: the torrent is recorded and the loop goes on. *)
FailCurrent ==
  /\ report' = [report EXCEPT !.failed = @ \cup {cur}]
  /\ pc' = "next"
  /\ cur' = NoHash
  /\ didStop' = FALSE
  /\ UNCHANGED <<candidates, todo, previous>>

(* torrents/stop on the source: "5.x can still report stalledUP for a beat"  *)
StopSource ==
  /\ pc = "stop"
  /\ UNCHANGED <<src, dst, limit, snapshot>>
  /\ \E reply \in Replies :
       /\ Charge(reply)
       /\ stopping' = IF reply = "refused" THEN stopping
                      ELSE [stopping EXCEPT ![cur] =
                              @ \/ src[cur] \notin StoppedStates \cup {Absent}]
       /\ IF reply = "ok"
            THEN /\ didStop' = TRUE
                 /\ pc' = "relist"
                 /\ UNCHANGED <<candidates, todo, cur, previous, report>>
            ELSE FailCurrent

\* Mutant of RelistSource: an accepted stop is trusted.
RelistSourceUnchecked ==
  /\ pc = "relist"
  /\ pc' = "start"
  /\ UNCHANGED <<clients, snapshot, work, report, faults>>

(* source_state after the sleep, and the refusal to start a dual seed.       *)
RelistSource ==
  /\ pc = "relist"
  /\ UNCHANGED <<clients, snapshot>>
  /\ \E reply \in ReadReplies :
       /\ Charge(reply)
       /\ IF reply = "ok" /\ ~IsSeeding(src[cur])
            THEN /\ pc' = "start"
                 /\ UNCHANGED <<work, report>>
            ELSE FailCurrent

StartDest ==
  /\ pc = "start"
  /\ UNCHANGED <<src, stopping, limit, snapshot>>
  /\ \E reply \in Replies :
       /\ Charge(reply)
       /\ dst' = IF reply = "refused" THEN dst
                 ELSE [dst EXCEPT ![cur] = AfterStart(@)]
       /\ IF reply = "ok"
            THEN /\ report' = [report EXCEPT
                       !.started = @ \cup {cur},
                       !.sourceStopped = IF didStop THEN @ \cup {cur} ELSE @]
                 /\ pc' = "next"
                 /\ cur' = NoHash
                 /\ didStop' = FALSE
                 /\ UNCHANGED <<candidates, todo, previous>>
            ELSE FailCurrent

(* The loop is over: LimitGuard is dropped, if there is one, its error       *)
(* ignored, and the report is printed.                                       *)
Finish ==
  /\ pc = "next"
  /\ todo = {}
  /\ UNCHANGED <<src, stopping, dst, expected>>
  /\ \E reply \in ReadReplies :
       /\ Charge(reply)
       /\ reply = "refused" => candidates # {}
       /\ limit' = IF reply = "ok" /\ candidates # {} THEN previous ELSE limit
  /\ Forget
  /\ report' = [report EXCEPT !.end = "ok"]

Kill ==
  /\ pc # "idle"
  /\ Charge("lost")
  /\ Forget
  /\ report' = [report EXCEPT !.end = "killed"]
  /\ UNCHANGED <<clients, expected>>

Step ==
  \/ ListDest \/ ListSource \/ Classify \/ ReadLimit \/ SetLimit
  \/ (\E h \in Hashes : Take(h))
  \/ StopSource \/ RelistSource \/ StartDest \/ Finish

------------------------------------------------------------------------------
(* The two clients and their users, modelled from what the code expects.     *)
process == <<pc, snapshot, work, report, faults>>

SourceStopLands(h) ==
  /\ stopping[h]
  /\ stopping' = [stopping EXCEPT ![h] = FALSE]
  /\ src' = [src EXCEPT ![h] = IF @ \in BrokenStates THEN @ ELSE "stoppedUP"]
  /\ UNCHANGED <<dst, limit, process>>

(* Hashing, moving or downloading ends and the source seeds. *)
SourceSettles(h) ==
  /\ ~stopping[h]
  /\ src[h] \in CheckingStates \cup DownloadingStates \cup {"moving"}
  /\ src' = [src EXCEPT ![h] = "stalledUP"]
  /\ UNCHANGED <<stopping, dst, limit, process>>

(* "Stop those hashes on the source, then re-run with --confirm". *)
UserStopsSource(h) ==
  /\ ~stopping[h]
  /\ src[h] \notin StoppedStates \cup {Absent}
  /\ stopping' = [stopping EXCEPT ![h] = TRUE]
  /\ UNCHANGED <<src, dst, limit, process>>

(* The user starts a torrent on the source again: between two runs, while    *)
(* the destination does not run it, or ("startSource") at any time.          *)
UserStartsSource(h) ==
  /\ Interference \cap {"startSource", "rollback"} # {}
  /\ "startSource" \notin Interference => pc = "idle" /\ ~Running(dst[h])
  /\ ~stopping[h]
  /\ IsStopped(src[h])
  /\ src' = [src EXCEPT ![h] = "stalledUP"]
  /\ UNCHANGED <<stopping, dst, limit, process>>

(* A recheck on the destination ends, or a download does. *)
DestSettles(h) ==
  /\ \/ /\ IsChecking(dst[h].state)
        /\ \E complete \in BOOLEAN :
             dst' = [dst EXCEPT ![h] = AfterStop([@ EXCEPT !.complete = complete])]
     \/ /\ IsDownloading(dst[h].state)
        /\ dst' = [dst EXCEPT ![h] = [state |-> "stalledUP", complete |-> TRUE]]
  /\ UNCHANGED <<src, stopping, limit, process>>

(* The files disappear below the destination. *)
DestLosesFiles(h) ==
  /\ "loseFiles" \in Interference
  /\ dst[h].state \in StoppedStates \cup SeedingStates
  /\ dst[h].complete
  /\ dst' = [dst EXCEPT ![h] = [state |-> "missingFiles", complete |-> FALSE]]
  /\ UNCHANGED <<src, stopping, limit, process>>

Environment ==
  \E h \in Hashes :
    \/ SourceStopLands(h) \/ SourceSettles(h) \/ UserStopsSource(h)
    \/ UserStartsSource(h) \/ DestSettles(h) \/ DestLosesFiles(h)

Next == Begin \/ Step \/ Kill \/ Environment

Spec == Init /\ [][Next]_vars

(* A command that was begun goes on; the user runs it again until every      *)
(* torrent is handed off; a client gets round to what it accepted.           *)
Fairness ==
  /\ WF_vars(Step)
  /\ WF_vars(Begin)
  /\ \A h \in Hashes : WF_vars(SourceStopLands(h)) /\ WF_vars(DestSettles(h))

FairSpec == Spec /\ Fairness

------------------------------------------------------------------------------
PCs == {"idle", "listDest", "listSource", "classify", "readLimit", "setLimit",
        "next", "stop", "relist", "start"}

TypeOK ==
  /\ src \in [Hashes -> State]
  /\ stopping \in [Hashes -> BOOLEAN]
  /\ dst \in [Hashes -> Torrent]
  /\ limit \in Nat
  /\ pc \in PCs
  /\ opts \in Mode
  /\ expected \subseteq Hashes
  /\ seenDst \in [Hashes -> Torrent]
  /\ seenSrc \in [Hashes -> State]
  /\ candidates \subseteq expected
  /\ pc \in {"idle", "listDest", "listSource", "classify"} => candidates = {}
  /\ todo \subseteq candidates
  /\ cur \in candidates \cup {NoHash}
  /\ cur = NoHash <=> pc \notin {"stop", "relist", "start"}
  /\ didStop \in BOOLEAN
  /\ previous \in Nat
  /\ report \in Report
  /\ faults \in 0..MaxFaults

(* Both clients never seed one torrent at a time, whatever calls fail and    *)
(* wherever a run is killed: "Stop the source, then start the destination.   *)
(* Never the reverse."                                                       *)
NoDualSeed == \A h \in Hashes : ~(IsSeeding(dst[h].state) /\ IsSeeding(src[h]))

(* A run that ended with nothing failed has handed over every torrent it was *)
(* asked for: the destination was started (or runs already) and the source   *)
(* will not announce, unless the destination has lost the files since and    *)
(* the user went back.  Relates the report to both clients, long after the   *)
(* listings it was computed from.                                            *)
CompleteMeansHanded ==
  report.end = "ok" /\ IsComplete /\ ~report.dryRun /\ ~report.reportOnly
    => \A h \in expected :
         /\ ~IsStopped(dst[h].state)
         /\ Silent(h) \/ IsBroken(dst[h].state)

(* The program silences a source torrent only if the destination holds the   *)
(* whole of it, or held it when the run began and has lost it since: a gap   *)
(* always has somebody who can end it.                                       *)
SilencedOnlyWhenProven ==
  [][\A h \in Hashes :
       pc = "stop" /\ cur = h /\ stopping'[h] # stopping[h]
         => \/ IsStopped(dst[h].state) /\ IsPieceComplete(dst[h])
            \/ IsBroken(dst[h].state)]_vars

(* Every start the destination obeys happens under the download limit of one *)
(* byte per second: what it lacks after all it cannot fetch from the swarm.  *)
ThrottledStart ==
  [][\A h \in Hashes :
       pc = "start" /\ dst'[h] # dst[h] => limit = CIRCUIT_BREAKER_BPS]_vars

(* The handoff refines the custody protocol: whoever is killed, refused or   *)
(* interfered with, a torrent passes from one client to the other only by    *)
(* way of a gap in which neither announces it.                               *)
holder ==
  [h \in Hashes |-> IF Running(dst[h]) THEN "dest"
                    ELSE IF Silent(h) THEN "nobody" ELSE "source"]
Promise == INSTANCE Custody WITH Hashes <- Hashes, holder <- holder
ImplementsCustody == Promise!Spec

(* With calls that fail only finitely often and a user who runs the command  *)
(* again, a torrent the destination has whole ends up seeding there and only *)
(* there: a gap a dying run left behind is closed by a later one.            *)
EventuallyHanded ==
  \A h \in Hashes :
    (IsStopped(dst[h].state) /\ dst[h].complete)
      ~> [](IsSeeding(dst[h].state) /\ Silent(h))
==============================================================================
