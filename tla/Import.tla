-------------------------------- MODULE Import --------------------------------
(***************************************************************************)
(* tsync import (crates/import): add each staged torrent to the            *)
(* destination paused, stop it, have it rechecked, and stop it again,      *)
(* under the download-rate breaker.  Each step is one call to a client;    *)
(* hashing goes on between the calls and after the command has ended.      *)
(***************************************************************************)
EXTENDS DestClient

CONSTANTS
  Caps,        \* what read_staging and take_smallest may leave of the staging
  Modes,       \* the option records the command is invoked with
  UserLimit,   \* the destination's download limit before tsync came
  MaxFaults    \* bound: calls that fail, and kills, in one behaviour

Mode == [source : BOOLEAN, allowUnverified : BOOLEAN, dryRun : BOOLEAN]

ASSUME ImportAssumption ==
  /\ Caps \subseteq SUBSET Hashes
  /\ Modes \subseteq Mode
  /\ UserLimit \in Nat
  /\ MaxFaults \in Nat

CIRCUIT_BREAKER_BPS == 1

NoHash == "none"
ASSUME NoHashAssumption == NoHash \notin Hashes

VARIABLES
  sourceSeeds,  \* source client: what it seeds; import only reads it
  limit,        \* destination: global download limit
  pc,           \* the next call of the running command
  opts,         \* its Options
  staged,       \* staged.items
  seenSeeding,  \* source_seeding, then the overlap with dest_seeding
  seenDest,     \* dest_hashes
  todo,         \* items the loop has not reached
  cur,          \* item in hand
  previous,     \* limit LimitGuard will restore
  report,       \* Report, its counters as sets of hashes
  tended,       \* history: reported without a failure by the last run to take them
  faults

call == <<pc, opts, staged, seenSeeding, seenDest, todo, cur, previous, report, tended>>
vars == <<client, sourceSeeds, limit, call, faults>>

NoMode == [source |-> FALSE, allowUnverified |-> FALSE, dryRun |-> FALSE]
EmptyReport(end) ==
  [end |-> end, imported |-> {}, already |-> {}, failed |-> {}, dryRun |-> FALSE]
IsComplete == report.failed = {}

Init ==
  /\ dst \in [Hashes -> {AbsentTorrent,
                         [state |-> "stoppedDL", complete |-> FALSE],
                         [state |-> "stalledUP", complete |-> TRUE]}]
  /\ whole \in SUBSET Hashes
  /\ \A h \in Hashes : dst[h].complete => h \in whole
  /\ auto = [h \in Hashes |-> FALSE]
  /\ sourceSeeds \in SUBSET Hashes
  /\ limit = UserLimit
  /\ pc = "idle"
  /\ opts = NoMode
  /\ staged = {}
  /\ seenSeeding = {}
  /\ seenDest = {}
  /\ todo = {}
  /\ cur = NoHash
  /\ previous = 0
  /\ report = EmptyReport("none")
  /\ tended = {}
  /\ faults = 0

------------------------------------------------------------------------------
Replies == {"ok", "refused", "lost"}
ReadReplies == {"ok", "refused"}
Charge(reply) ==
  IF reply = "ok" THEN UNCHANGED faults
                  ELSE faults < MaxFaults /\ faults' = faults + 1

(* The command is over: what it held in memory is gone. *)
End(result) ==
  /\ pc' = "idle"
  /\ opts' = NoMode
  /\ seenSeeding' = {}
  /\ seenDest' = {}
  /\ todo' = {}
  /\ cur' = NoHash
  /\ previous' = 0
  /\ report' = result
  /\ UNCHANGED <<staged, tended>>
Abort == End([report EXCEPT !.end = "error"])

(* Invocation and read_staging; SourceRequired is returned before any call. *)
Begin ==
  /\ pc = "idle"
  /\ \E mode \in Modes, cap \in Caps :
       /\ staged' = cap
       /\ IF ~mode.source /\ ~mode.allowUnverified
            THEN /\ opts' = NoMode
                 /\ report' = EmptyReport("error")
                 /\ UNCHANGED pc
            ELSE /\ opts' = mode
                 /\ report' = EmptyReport("running")
                 /\ pc' = IF mode.source THEN "listSource" ELSE "listDest"
  /\ UNCHANGED <<client, sourceSeeds, limit, seenSeeding, seenDest, todo, cur,
                 previous, tended, faults>>

(* seeding_hashes(source)? *)
ListSource ==
  /\ pc = "listSource"
  /\ UNCHANGED <<client, sourceSeeds, limit>>
  /\ \E reply \in ReadReplies :
       /\ Charge(reply)
       /\ IF reply = "ok"
            THEN /\ seenSeeding' = sourceSeeds
                 /\ pc' = "listSeeding"
                 /\ UNCHANGED <<opts, staged, seenDest, todo, cur, previous, report, tended>>
            ELSE Abort

(* seeding_hashes(dest)?, and the DualSeed refusal. *)
ListSeeding ==
  /\ pc = "listSeeding"
  /\ UNCHANGED <<client, sourceSeeds, limit>>
  /\ \E reply \in ReadReplies :
       /\ Charge(reply)
       /\ LET overlap ==
                {h \in staged : h \in seenSeeding /\ IsSeeding(dst[h].state)}
          IN IF reply = "ok" /\ overlap = {}
               THEN /\ pc' = "listDest"
                    /\ seenSeeding' = {}
                    /\ UNCHANGED <<opts, staged, seenDest, todo, cur, previous, report,
                                   tended>>
               ELSE Abort

\* Mutant of Worklist: whatever the destination holds is taken up as well.
WorklistAll(present) == staged \cup present
(* What the loop goes through, given what the destination holds. *)
Worklist(present) == staged

(* opts.dest.list()?, and the end of a dry run. *)
ListDest ==
  /\ pc = "listDest"
  /\ UNCHANGED <<client, sourceSeeds, limit>>
  /\ \E reply \in ReadReplies :
       /\ Charge(reply)
       /\ LET present == {h \in Hashes : dst[h].state # Absent}
          IN CASE reply # "ok" -> Abort
               [] reply = "ok" /\ opts.dryRun ->
                    End([EmptyReport("ok") EXCEPT
                           !.imported = staged \ present,
                           !.already = staged \cap present,
                           !.dryRun = TRUE])
               [] OTHER ->
                    /\ seenDest' = present
                    /\ todo' = Worklist(present)
                    /\ pc' = "readLimit"
                    /\ UNCHANGED <<opts, staged, seenSeeding, cur, previous, report, tended>>

ReadLimit ==
  /\ pc = "readLimit"
  /\ UNCHANGED <<client, sourceSeeds, limit>>
  /\ \E reply \in ReadReplies :
       /\ Charge(reply)
       /\ IF reply = "ok"
            THEN /\ previous' = limit
                 /\ pc' = "setLimit"
                 /\ UNCHANGED <<opts, staged, seenSeeding, seenDest, todo, cur, report,
                                tended>>
            ELSE Abort

\* Mutant of SetLimit: the guard is not bound, so it is dropped at once.
SetLimitUnbound ==
  /\ pc = "setLimit"
  /\ limit' = previous
  /\ pc' = "next"
  /\ UNCHANGED <<client, sourceSeeds, opts, staged, seenSeeding, seenDest, todo, cur,
                 previous, report, tended, faults>>

SetLimit ==
  /\ pc = "setLimit"
  /\ UNCHANGED <<client, sourceSeeds>>
  /\ \E reply \in Replies :
       /\ Charge(reply)
       /\ limit' = IF reply = "refused" THEN limit ELSE CIRCUIT_BREAKER_BPS
       /\ IF reply = "ok"
            THEN /\ pc' = "next"
                 /\ UNCHANGED <<opts, staged, seenSeeding, seenDest, todo, cur, previous,
                                report, tended>>
            ELSE Abort

(* Whether the listing at the beginning lacked the item. *)
NeedsAdd(h) == h \notin seenDest

(* The loop takes an item: one not listed is added first. *)
Take(h) ==
  /\ pc = "next"
  /\ h \in todo
  /\ todo' = todo \ {h}
  /\ cur' = h
  /\ tended' = tended \ {h}
  /\ pc' = IF NeedsAdd(h) THEN "add" ELSE "stop"
  /\ report' = IF NeedsAdd(h) THEN report ELSE [report EXCEPT !.already = @ \cup {h}]
  /\ UNCHANGED <<client, sourceSeeds, limit, opts, staged, seenSeeding, seenDest,
                 previous, faults>>

\* Mutant of FailCurrent: the error of one item is swallowed.
FailCurrentSilently ==
  /\ pc' = "next"
  /\ cur' = NoHash
  /\ UNCHANGED <<report, tended>>

(* An error in import_one or finish_import: recorded, and the loop goes on. *)
FailCurrent ==
  /\ report' = [report EXCEPT !.failed = @ \cup {cur}]
  /\ pc' = "next"
  /\ cur' = NoHash
  /\ UNCHANGED tended

Succeed ==
  /\ report' = IF cur \in report.already THEN report
               ELSE [report EXCEPT !.imported = @ \cup {cur}]
  /\ pc' = "next"
  /\ cur' = NoHash
  /\ tended' = tended \cup {cur}

GoOn(next) == pc' = next /\ UNCHANGED <<cur, report, tended>>

(* One call for the item in hand: its effect, and the step an answer leads to. *)
Call(at, Effect(_), Answered) ==
  /\ pc = at
  /\ \E reply \in Replies :
       /\ Charge(reply)
       /\ IF reply = "refused" THEN UNCHANGED client ELSE Effect(cur)
       /\ IF reply = "ok" THEN Answered ELSE FailCurrent
  /\ UNCHANGED <<sourceSeeds, limit, opts, staged, seenSeeding, seenDest, todo, previous>>

AddPaused == Call("add", AddEffect, GoOn("stop"))
Stop == Call("stop", StopEffect, GoOn("recheck"))
\* Mutant of Recheck: the torrent is not stopped a second time.
RecheckLast == Call("recheck", RecheckEffect, Succeed)
Recheck == Call("recheck", RecheckEffect, GoOn("stopAgain"))
StopAgain == Call("stopAgain", StopEffect, Succeed)

(* The loop is over: LimitGuard is dropped, its error ignored. *)
Finish ==
  /\ pc = "next"
  /\ todo = {}
  /\ \E reply \in ReadReplies :
       /\ Charge(reply)
       /\ limit' = IF reply = "ok" THEN previous ELSE limit
  /\ End([report EXCEPT !.end = "ok"])
  /\ UNCHANGED <<client, sourceSeeds>>

Kill ==
  /\ pc # "idle"
  /\ Charge("lost")
  /\ End([report EXCEPT !.end = "killed"])
  /\ UNCHANGED <<client, sourceSeeds, limit>>

Step ==
  \/ ListSource \/ ListSeeding \/ ListDest \/ ReadLimit \/ SetLimit
  \/ (\E h \in Hashes : Take(h))
  \/ AddPaused \/ Stop \/ Recheck \/ StopAgain \/ Finish

Environment ==
  /\ \E h \in Hashes : HashEnds(h) \/ Downloads(h)
  /\ UNCHANGED <<sourceSeeds, limit, call, faults>>

Next == Begin \/ Step \/ Kill \/ Environment

Spec == Init /\ [][Next]_vars

------------------------------------------------------------------------------
PCs == {"idle", "listSource", "listSeeding", "listDest", "readLimit", "setLimit",
        "next", "add", "stop", "recheck", "stopAgain"}
Report ==
  [end : {"none", "running", "ok", "error", "killed"}, imported : SUBSET Hashes,
   already : SUBSET Hashes, failed : SUBSET Hashes, dryRun : BOOLEAN]

TypeOK ==
  /\ ClientTypeOK
  /\ sourceSeeds \subseteq Hashes
  /\ limit \in Nat
  /\ pc \in PCs
  /\ opts \in Mode
  /\ staged \subseteq Hashes
  /\ seenSeeding \subseteq Hashes
  /\ seenDest \subseteq Hashes
  /\ todo \subseteq staged
  /\ pc = "idle" => todo = {}
  /\ cur \in staged \cup {NoHash}
  /\ cur = NoHash <=> pc \notin {"add", "stop", "recheck", "stopAgain"}
  /\ previous \in Nat
  /\ report \in Report
  /\ tended \subseteq Hashes
  /\ faults \in 0..MaxFaults

(* A torrent that import reports without a failure is on the destination, does *)
(* not run, and will not start by itself when its hash ends, for as long as no  *)
(* later run takes it up: "Add staged torrents to a destination client without  *)
(* starting them."                                                              *)
TendedStayQuiet ==
  \A h \in tended : dst[h].state # Absent /\ ~Running(dst[h]) /\ ~auto[h]

(* A run that ended with nothing failed has tended every item it was given.     *)
CompleteMeansTended ==
  report.end = "ok" /\ ~report.dryRun /\ IsComplete => staged \subseteq tended

(* When no call fails, whatever a torrent that starts by itself downloads, it   *)
(* downloads under the breaker: none of them outlives the run.                  *)
DownloadsAreThrottled ==
  faults = 0 => \A h \in Hashes : IsDownloading(dst[h].state) => limit = CIRCUIT_BREAKER_BPS
==============================================================================
