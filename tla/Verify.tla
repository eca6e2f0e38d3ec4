-------------------------------- MODULE Verify --------------------------------
(***************************************************************************)
(* tsync verify (crates/verify): the gate between import and handoff.  One *)
(* pass lists the destination, asks it to recheck what is stopped and      *)
(* incomplete, and classifies what the listing showed; --wait repeats the  *)
(* pass while anything is being hashed.  The client hashes meanwhile, and  *)
(* may take up a recheck only after it answered the call.                  *)
(***************************************************************************)
EXTENDS DestClient

CONSTANTS
  Caps,         \* what expected_hashes may return
  Modes,        \* the option records the command is invoked with
  DestStates,   \* destination states a run may begin with
  LateRecheck,  \* values of late that a behaviour may have
  MaxFaults     \* bound: calls that fail, and kills, in one behaviour

Mode == [recheck : BOOLEAN, wait : BOOLEAN, allowSeeding : BOOLEAN]

ASSUME VerifyAssumption ==
  /\ Caps \subseteq SUBSET Hashes
  /\ Modes \subseteq Mode
  /\ DestStates \subseteq State
  /\ LateRecheck \in (SUBSET BOOLEAN) \ {{}}
  /\ MaxFaults \in Nat

VARIABLES
  late,      \* client: may it answer a recheck before it shows it? never changes
  accepted,  \* client: rechecks it answered and has not taken up yet
  pc,        \* the next call of the running command
  opts,      \* its options; those of the last run once it has ended
  kick,      \* does the next pass recheck?
  expected,  \* expected_hashes(staging, max_torrents)
  seen,      \* dest, the listing of this pass
  toKick,    \* hashes_to_recheck the pass has not reached
  kicked,    \* hashes it had rechecked
  report,    \* Report, its counters as sets of hashes
  faults

pass == <<expected, seen, toKick, kicked>>
process == <<pc, opts, kick, pass, report>>
world == <<client, late, accepted>>
vars == <<world, process, faults>>

NoTorrents == [h \in Hashes |-> AbsentTorrent]
NoMode == [recheck |-> FALSE, wait |-> FALSE, allowSeeding |-> FALSE]
EmptyReport(end) == [end |-> end, ready |-> {}, missing |-> {}, checking |-> {}, failed |-> {}]

(* A torrent the client calls complete was hashed and its files are there.   *)
Init ==
  /\ dst \in [Hashes -> {t \in Torrent :
                 /\ t.state \in DestStates
                 /\ t.state \in {Absent, "stoppedDL"} \cup CheckingStates
                                  \cup DownloadingStates \cup BrokenStates => ~t.complete
                 /\ t.state \in SeedingStates \cup {"stoppedUP"} => t.complete}]
  /\ whole \in SUBSET Hashes
  /\ \A h \in Hashes : dst[h].complete => h \in whole
  /\ auto \in [Hashes -> AutoStart \cup {FALSE}]
  /\ \A h \in Hashes : auto[h] => IsChecking(dst[h].state)
  /\ late \in LateRecheck
  /\ accepted = {}
  /\ pc = "idle"
  /\ opts = NoMode
  /\ kick = FALSE
  /\ expected = {}
  /\ seen = NoTorrents
  /\ toKick = {}
  /\ kicked = {}
  /\ report = EmptyReport("none")
  /\ faults = 0

------------------------------------------------------------------------------
Replies == {"ok", "refused", "lost"}
ReadReplies == {"ok", "refused"}
Charge(reply) ==
  IF reply = "ok" THEN UNCHANGED faults
                  ELSE faults < MaxFaults /\ faults' = faults + 1

End(result) ==
  /\ pc' = "idle"
  /\ kick' = FALSE
  /\ seen' = NoTorrents
  /\ toKick' = {}
  /\ kicked' = {}
  /\ report' = result
  /\ UNCHANGED <<opts, expected>>
Abort == End([report EXCEPT !.end = "error"])

(* Invocation.  Staging is read again in every pass and does not change.     *)
Begin ==
  /\ pc = "idle"
  /\ \E mode \in Modes, cap \in Caps :
       /\ opts' = mode
       /\ kick' = mode.recheck
       /\ expected' = cap
  /\ pc' = "list"
  /\ report' = EmptyReport("running")
  /\ UNCHANGED <<world, seen, toKick, kicked, faults>>

\* Mutant of HashesToRecheck: nothing is rechecked that is not waited for.
HashesToRecheckWaiting(dest) ==
  {h \in expected : opts.wait /\ IsStopped(dest[h].state) /\ ~IsPieceComplete(dest[h])}
\* Mutant of HashesToRecheck: everything incomplete, stopped or not.
HashesToRecheckAll(dest) ==
  {h \in expected : dest[h].state # Absent /\ ~IsPieceComplete(dest[h])}
(* hashes_to_recheck *)
HashesToRecheck(dest) ==
  {h \in expected : IsStopped(dest[h].state) /\ ~IsPieceComplete(dest[h])}

List ==
  /\ pc = "list"
  /\ UNCHANGED world
  /\ \E reply \in ReadReplies :
       /\ Charge(reply)
       /\ IF reply = "ok"
            THEN /\ seen' = dst
                 /\ toKick' = IF kick THEN HashesToRecheck(dst) ELSE {}
                 /\ kicked' = {}
                 /\ pc' = "kick"
                 /\ UNCHANGED <<opts, kick, expected, report>>
            ELSE Abort

(* opts.dest.recheck(hash)?: an error ends the command, and what was kicked  *)
(* before it stays kicked.  A hash under way starts over at once; the client *)
(* may be slow to show a torrent it has yet to begin with.                   *)
Kick(h) ==
  /\ pc = "kick"
  /\ h \in toKick
  /\ \E reply \in Replies :
       /\ Charge(reply)
       /\ CASE reply = "refused" -> UNCHANGED <<client, accepted>>
            [] OTHER ->
                 \/ RecheckEffect(h) /\ accepted' = accepted \ {h}
                 \/ /\ late /\ ~IsChecking(dst[h].state)
                    /\ accepted' = accepted \cup {h}
                    /\ UNCHANGED client
       /\ UNCHANGED late
       /\ IF reply = "ok"
            THEN /\ toKick' = toKick \ {h}
                 /\ kicked' = kicked \cup {h}
                 /\ UNCHANGED <<pc, opts, kick, expected, seen, report>>
            ELSE Abort

\* Mutant of CountsAsChecking: the pass forgets what it has just had rechecked.
CountsAsCheckingListed(h) == IsChecking(seen[h].state)
(* A hash the pass has kicked counts as checking, whatever the listing said. *)
CountsAsChecking(h) ==
  seen[h].state # Absent /\ (IsChecking(seen[h].state) \/ h \in kicked)

\* Mutant of IsReady: what runs on the destination is no longer told apart.
IsReadyRunning(t, allowSeeding) == IsPieceComplete(t)
(* classify *)
IsReady(t, allowSeeding) ==
  /\ IsPieceComplete(t)
  /\ IsStopped(t.state) \/ (IsSeeding(t.state) /\ allowSeeding)

\* Mutant of KickAgain: --recheck holds for every pass of --wait.
KickAgainAlways == kick
(* Whether the passes after the first one recheck. *)
KickAgain == FALSE

IsComplete(r) == r.failed = {} /\ r.missing = {} /\ r.checking = {}

(* The listing is classified; --wait sleeps and goes round again while       *)
(* something is being hashed.                                                *)
Count ==
  /\ pc = "kick"
  /\ toKick = {}
  /\ UNCHANGED <<world, faults>>
  /\ LET missing == {h \in expected : seen[h].state = Absent}
         checking == {h \in expected : CountsAsChecking(h)}
         ready == {h \in expected \ (missing \cup checking) :
                     IsReady(seen[h], opts.allowSeeding)}
         counted == [end |-> "running", ready |-> ready, missing |-> missing,
                     checking |-> checking,
                     failed |-> expected \ (missing \cup checking \cup ready)]
     IN IF opts.wait /\ checking # {}
          THEN /\ kick' = KickAgain
               /\ pc' = "list"
               /\ report' = counted
               /\ seen' = NoTorrents
               /\ kicked' = {}
               /\ UNCHANGED <<opts, expected, toKick>>
          ELSE End([counted EXCEPT
                      !.end = IF IsComplete(counted) THEN "ok" ELSE "incomplete"])

Kill ==
  /\ pc # "idle"
  /\ Charge("lost")
  /\ End([report EXCEPT !.end = "killed"])
  /\ UNCHANGED world

Step == List \/ (\E h \in Hashes : Kick(h)) \/ Count

------------------------------------------------------------------------------
(* The client takes up a recheck it had accepted. *)
RecheckBegins(h) ==
  /\ h \in accepted
  /\ accepted' = accepted \ {h}
  /\ RecheckEffect(h)
  /\ UNCHANGED <<late, process, faults>>

ClientHashEnds(h) == HashEnds(h) /\ UNCHANGED <<late, accepted, process, faults>>
ClientDownloads(h) == Downloads(h) /\ UNCHANGED <<late, accepted, process, faults>>

(* Between two runs import takes a torrent up again: stop, recheck, stop (the *)
(* calls of Import).  A hash that was under way starts over or is cancelled,  *)
(* and what verify said last is out of date.                                  *)
ImportsAgain(h) ==
  /\ pc = "idle"
  /\ dst[h].state # Absent
  /\ Charge("lost")
  /\ \E cancels \in StopCancelsHash :
       dst' = [dst EXCEPT ![h] = IF cancels THEN AfterStop(Hashing) ELSE Hashing]
  /\ auto' = [auto EXCEPT ![h] = FALSE]
  /\ report' = EmptyReport("none")
  /\ UNCHANGED <<whole, late, accepted, pc, opts, kick, pass>>

Environment ==
  \/ \E h \in Hashes : ImportsAgain(h)
  \/ \E h \in Hashes : RecheckBegins(h) \/ ClientHashEnds(h) \/ ClientDownloads(h)

Next == Begin \/ Step \/ Kill \/ Environment

Spec == Init /\ [][Next]_vars

(* A command that was begun goes on, and every hash pass reaches its end.    *)
Fairness ==
  /\ WF_vars(Step)
  /\ \A h \in Hashes : WF_vars(RecheckBegins(h)) /\ WF_vars(ClientHashEnds(h))

FairSpec == Spec /\ Fairness

------------------------------------------------------------------------------
Report ==
  [end : {"none", "running", "ok", "incomplete", "error", "killed"},
   ready : SUBSET Hashes, missing : SUBSET Hashes, checking : SUBSET Hashes,
   failed : SUBSET Hashes]

(* Types, and the bookkeeping of a pass: what it kicks it found stopped.     *)
TypeOK ==
  /\ ClientTypeOK
  /\ late \in BOOLEAN
  /\ accepted \subseteq Hashes
  /\ pc \in {"idle", "list", "kick"}
  /\ opts \in Mode
  /\ kick \in BOOLEAN
  /\ expected \subseteq Hashes
  /\ seen \in [Hashes -> Torrent]
  /\ toKick \cup kicked \subseteq expected
  /\ toKick \cap kicked = {}
  /\ pc # "kick" => toKick = {} /\ kicked = {}
  /\ \A h \in toKick \cup kicked : IsStopped(seen[h].state)
  /\ report \in Report
  /\ faults \in 0..MaxFaults

(* "This command is the gate": once it has ended in success, and until it is  *)
(* run again or import takes a torrent up again, every torrent it was asked   *)
(* about has all its files, and is still stopped unless seeding was allowed,  *)
(* whatever its client was doing between the listing and the verdict.  A      *)
(* client that takes up rechecks late may begin with an earlier run's when    *)
(* the verdict is out, and start the torrent when that hash ends: then there  *)
(* is nothing left that it could download.                                    *)
ReadyMeansProven ==
  report.end = "ok" =>
    \A h \in expected :
      /\ h \in whole
      /\ \/ /\ IsStopped(dst[h].state) \/ (IsSeeding(dst[h].state) /\ opts.allowSeeding)
            /\ ~auto[h]
         \/ late /\ (IsChecking(dst[h].state) \/ IsSeeding(dst[h].state))

(* "if dest is stopped at 0% after import: tsync verify --recheck --wait":    *)
(* with a client that shows a recheck at once such a run fails only over a    *)
(* torrent that really is not there, not whole, broken, being moved or        *)
(* running, and never because of what it has itself set off.                  *)
FailsForAReason ==
  report.end = "incomplete" /\ opts.recheck /\ opts.wait /\ ~late
    => \E h \in expected :
         \/ h \notin whole
         \/ dst[h].state \in OtherStates \cup {Absent}
         \/ Running(dst[h])

(* "--wait redraws torrent/byte bars until checking is 0": every run ends,    *)
(* also when hash after hash ends with data missing.                          *)
WaitEnds == pc # "idle" ~> pc = "idle"

(* "if dest is stopped at 0% after import" (or import was repeated and has    *)
(* cancelled the hash): a user who runs verify --recheck again and again ends *)
(* with every torrent proven of which the files are there, which runs that    *)
(* fail or are killed half way, late rechecks and listings out of date do not *)
(* prevent and the hashes they restart do not delay for ever.                 *)
EventuallyProven ==
  \A h \in Hashes :
    []<>(pc = "list" /\ kick /\ h \in expected) =>
      [](h \in whole /\ (IsStopped(dst[h].state) \/ IsChecking(dst[h].state))
           => <>[]IsPieceComplete(dst[h]))
==============================================================================
