---------------------------- MODULE HandoffProofs ----------------------------
(***************************************************************************)
(* What Handoff guarantees for any set of torrents, any options and any    *)
(* number of failed calls and kills.  What is said of the source at the    *)
(* moment its torrent is started on the destination, or after the run,     *)
(* supposes that nobody starts a torrent on the source behind the          *)
(* program's back: a source that was listed as stopped may have come back. *)
(***************************************************************************)
EXTENDS Handoff, TLAPS

USE HandoffAssumption, NoHashAssumption

(* The actions, and what they are built from. *)
LEMMA AfterStartType == ASSUME NEW t \in Torrent PROVE AfterStart(t) \in Torrent
  BY DEF AfterStart, Torrent, State, ListedStates, SeedingStates, DownloadingStates,
         CheckingStates, StoppedStates, OtherStates, BrokenStates, IsStopped

LEMMA AfterStopType == ASSUME NEW t \in Torrent PROVE AfterStop(t) \in Torrent
<1>1. CASE t.state \in BrokenStates \cup {Absent}
  BY <1>1 DEF AfterStop
<1>2. CASE t.state \notin BrokenStates \cup {Absent}
  <2>1. AfterStop(t) =
          [t EXCEPT !.state = IF t.complete THEN "stoppedUP" ELSE "stoppedDL"]
    BY <1>2 DEF AfterStop
  <2> QED
    BY <2>1 DEF Torrent, State, ListedStates, StoppedStates
<1> QED
  BY <1>1, <1>2

(* Every variable stays in its type, the hash being handed off is a          *)
(* candidate, and the candidates were asked for.                             *)
LEMMA InitType == Init => TypeOK
<1> SUFFICES ASSUME Init PROVE TypeOK
  OBVIOUS
<1>1. NoTorrents \in [Hashes -> Torrent] /\ NoStates \in [Hashes -> State]
  BY DEF NoTorrents, NoStates, AbsentTorrent, Torrent, State, Absent
<1>2. report \in Report
  BY DEF Init, EmptyReport, Report, Ends
<1>3. NoMode \in Mode
  BY DEF NoMode, Mode
<1>4. src \in [Hashes -> State] /\ dst \in [Hashes -> Torrent]
  BY DEF Init
<1>5. stopping \in [Hashes -> BOOLEAN]
  BY Zenon DEF Init
<1>6. cur = NoHash <=> pc \notin {"stop", "relist", "start"}
  BY DEF Init
<1>7. faults \in 0..MaxFaults
  BY DEF Init
<1> QED
  BY <1>1, <1>2, <1>3, <1>4, <1>5, <1>6, <1>7 DEF Init, TypeOK, PCs

LEMMA ForgetType ==
  ASSUME TypeOK, Forget, report' \in Report, expected' \subseteq Hashes
  PROVE  /\ pc' \in PCs /\ opts' \in Mode
         /\ seenDst' \in [Hashes -> Torrent] /\ seenSrc' \in [Hashes -> State]
         /\ candidates' \subseteq expected' /\ todo' \subseteq candidates'
         /\ (pc' \in {"idle", "listDest", "listSource", "classify"}
               => candidates' = {})
         /\ cur' \in candidates' \cup {NoHash}
         /\ (cur' = NoHash <=> pc' \notin {"stop", "relist", "start"})
         /\ didStop' \in BOOLEAN /\ previous' \in Nat
<1>1. NoTorrents \in [Hashes -> Torrent] /\ NoStates \in [Hashes -> State]
  BY DEF NoTorrents, NoStates, AbsentTorrent, Torrent, State, Absent
<1>2. NoMode \in Mode
  BY DEF NoMode, Mode
<1> QED
  BY <1>1, <1>2 DEF Forget, PCs

LEMMA AbortType ==
  ASSUME TypeOK, Abort, UNCHANGED clients, faults' \in 0..MaxFaults
  PROVE  TypeOK'
<1>1. report' \in Report
  BY DEF TypeOK, Abort, Report, Ends
<1>2. expected' \subseteq Hashes
  BY DEF TypeOK, Abort
<1> QED
  BY <1>1, <1>2, ForgetType DEF TypeOK, Abort, clients

LEMMA ChargeType ==
  ASSUME TypeOK, NEW reply, Charge(reply)
  PROVE  faults' \in 0..MaxFaults
  BY DEF TypeOK, Charge

LEMMA FailCurrentType ==
  ASSUME TypeOK, FailCurrent, cur # NoHash, UNCHANGED snapshot,
         src' \in [Hashes -> State], stopping' \in [Hashes -> BOOLEAN],
         dst' \in [Hashes -> Torrent], limit' \in Nat, faults' \in 0..MaxFaults
  PROVE  TypeOK'
<1>1. report' \in Report
  BY DEF TypeOK, FailCurrent, Report
<1> QED
  BY <1>1 DEF TypeOK, FailCurrent, PCs, snapshot

LEMMA StepType == TypeOK /\ [Next]_vars => TypeOK'
<1> SUFFICES ASSUME TypeOK, [Next]_vars PROVE TypeOK'
  OBVIOUS
<1>1. CASE Begin
  <2>1. report' \in Report
    BY <1>1 DEF Begin, EmptyReport, Report, Ends
  <2> QED
    BY <1>1, <2>1 DEF Begin, TypeOK, PCs, clients, work
<1>2. CASE ListDest
  <2>1. PICK reply \in ReadReplies : Charge(reply) /\
               IF reply = "ok"
                 THEN /\ seenDst' = dst
                      /\ pc' = IF opts.source THEN "listSource" ELSE "classify"
                      /\ UNCHANGED <<opts, expected, seenSrc, work, report>>
                 ELSE Abort
    BY <1>2 DEF ListDest
  <2>2. faults' \in 0..MaxFaults
    BY <2>1, ChargeType
  <2>3. CASE reply = "ok"
    BY <1>2, <2>1, <2>2, <2>3 DEF ListDest, TypeOK, PCs, clients, work
  <2>4. CASE reply # "ok"
    BY <1>2, <2>1, <2>2, <2>4, AbortType DEF ListDest
  <2> QED
    BY <2>3, <2>4
<1>3. CASE ListSource
  <2>1. PICK reply \in ReadReplies : Charge(reply) /\
               IF reply = "ok"
                 THEN /\ seenSrc' = src
                      /\ pc' = "classify"
                      /\ UNCHANGED <<opts, expected, seenDst, work, report>>
                 ELSE Abort
    BY <1>3 DEF ListSource
  <2>2. faults' \in 0..MaxFaults
    BY <2>1, ChargeType
  <2>3. CASE reply = "ok"
    BY <1>3, <2>1, <2>2, <2>3 DEF ListSource, TypeOK, PCs, clients, work
  <2>4. CASE reply # "ok"
    BY <1>3, <2>1, <2>2, <2>4, AbortType DEF ListSource
  <2> QED
    BY <2>3, <2>4
<1>4. CASE Classify
  <2> DEFINE ready == {h \in Considered : IsCandidate(h)}
             already == {h \in Considered : IsAlready(h)}
             classified ==
               [EmptyReport("ok") EXCEPT
                  !.ready = ready, !.already = already,
                  !.started = IF opts.dryRun /\ WouldStart THEN ready ELSE {},
                  !.failed = Considered \ (ready \cup already),
                  !.dryRun = opts.dryRun,
                  !.reportOnly = ~WouldStart]
  <2>1. ready \subseteq expected /\ ready \subseteq Hashes
    BY DEF Considered, TypeOK
  <2>2. classified \in Report /\ [classified EXCEPT !.end = "running"] \in Report
    <3>1. ready \in SUBSET Hashes /\ already \in SUBSET Hashes
          /\ Considered \ (ready \cup already) \in SUBSET Hashes
      BY DEF Considered, TypeOK
    <3>2. opts.dryRun \in BOOLEAN /\ (~WouldStart) \in BOOLEAN
      BY DEF TypeOK, Mode, WouldStart
    <3> HIDE DEF ready, already
    <3> QED
      BY <3>1, <3>2 DEF EmptyReport, Report, Ends
  <2>3. faults' \in 0..MaxFaults
    BY <1>4 DEF Classify, TypeOK
  <2>4. CASE opts.dryRun \/ ~WouldStart
    <3>1. Forget /\ report' = classified /\ UNCHANGED <<expected, clients, faults>>
      BY <1>4, <2>4 DEF Classify
    <3> HIDE DEF classified
    <3> QED
      BY <2>2, <2>3, <3>1, ForgetType DEF TypeOK, clients
  <2>5. CASE ~(opts.dryRun \/ ~WouldStart)
    <3>1. /\ pc = "classify"
          /\ report' = [classified EXCEPT !.end = "running"]
          /\ candidates' = ready /\ todo' = ready
          /\ pc' = IF ready = {} THEN "next" ELSE "readLimit"
          /\ UNCHANGED <<clients, faults, snapshot, cur, didStop, previous>>
      BY <1>4, <2>5 DEF Classify
    <3> HIDE DEF classified, ready
    <3> QED
      BY <2>1, <2>2, <2>3, <3>1 DEF TypeOK, PCs, clients, snapshot
  <2> QED
    BY <2>4, <2>5
<1>5. CASE ReadLimit
  <2>1. PICK reply \in ReadReplies : Charge(reply) /\
               IF reply = "ok"
                 THEN /\ previous' = limit
                      /\ pc' = "setLimit"
                      /\ UNCHANGED <<snapshot, candidates, todo, cur, didStop, report>>
                 ELSE Abort
    BY <1>5 DEF ReadLimit
  <2>2. faults' \in 0..MaxFaults
    BY <2>1, ChargeType
  <2>3. CASE reply = "ok"
    BY <1>5, <2>1, <2>2, <2>3 DEF ReadLimit, TypeOK, PCs, clients, snapshot
  <2>4. CASE reply # "ok"
    BY <1>5, <2>1, <2>2, <2>4, AbortType DEF ReadLimit
  <2> QED
    BY <2>3, <2>4
<1>6. CASE SetLimit
  <2>1. PICK reply \in Replies : Charge(reply) /\
               /\ limit' = IF reply = "refused" THEN limit ELSE CIRCUIT_BREAKER_BPS
               /\ IF reply = "ok"
                    THEN pc' = "next" /\ UNCHANGED <<snapshot, work, report>>
                    ELSE Abort
    BY <1>6 DEF SetLimit
  <2>2. faults' \in 0..MaxFaults /\ limit' \in Nat
    BY <2>1, ChargeType DEF TypeOK, CIRCUIT_BREAKER_BPS
  <2>3. CASE reply = "ok"
    BY <1>6, <2>1, <2>2, <2>3 DEF SetLimit, TypeOK, PCs, snapshot, work
  <2>4. CASE reply # "ok"
    <3>1. report' \in Report /\ expected' \subseteq Hashes
      BY <2>1, <2>4 DEF Abort, TypeOK, Report, Ends
    <3> QED
      BY <1>6, <2>1, <2>2, <2>4, <3>1, ForgetType DEF SetLimit, Abort, TypeOK
  <2> QED
    BY <2>3, <2>4
<1>7. ASSUME NEW h \in Hashes, Take(h) PROVE TypeOK'
  <2>1. h # NoHash /\ h \in candidates /\ pc' \in {"stop", "start"}
    BY <1>7 DEF Take, TypeOK
  <2> QED
    BY <1>7, <2>1 DEF Take, TypeOK, PCs, clients, snapshot
<1>8. CASE StopSource
  <2>1. PICK reply \in Replies : Charge(reply) /\
               /\ stopping' = IF reply = "refused" THEN stopping
                              ELSE [stopping EXCEPT ![cur] =
                                      @ \/ src[cur] \notin StoppedStates \cup {Absent}]
               /\ IF reply = "ok"
                    THEN /\ didStop' = TRUE
                         /\ pc' = "relist"
                         /\ UNCHANGED <<candidates, todo, cur, previous, report>>
                    ELSE FailCurrent
    BY <1>8 DEF StopSource
  <2>2. faults' \in 0..MaxFaults
    BY <2>1, ChargeType
  <2>3. stopping' \in [Hashes -> BOOLEAN]
    BY <2>1 DEF TypeOK
  <2>4. CASE reply = "ok"
    BY <1>8, <2>1, <2>2, <2>3, <2>4 DEF StopSource, TypeOK, PCs, snapshot
  <2>5. CASE reply # "ok"
    <3>1. cur # NoHash
      BY <1>8 DEF StopSource, TypeOK
    <3> QED
      BY <1>8, <2>1, <2>2, <2>3, <2>5, <3>1, FailCurrentType DEF StopSource, TypeOK
  <2> QED
    BY <2>4, <2>5
<1>9. CASE RelistSource
  <2>1. PICK reply \in ReadReplies : Charge(reply) /\
               IF reply = "ok" /\ ~IsSeeding(src[cur])
                 THEN pc' = "start" /\ UNCHANGED <<work, report>>
                 ELSE FailCurrent
    BY <1>9 DEF RelistSource
  <2>2. faults' \in 0..MaxFaults
    BY <2>1, ChargeType
  <2>3. CASE reply = "ok" /\ ~IsSeeding(src[cur])
    BY <1>9, <2>1, <2>2, <2>3 DEF RelistSource, TypeOK, PCs, clients, snapshot, work
  <2>4. CASE ~(reply = "ok" /\ ~IsSeeding(src[cur]))
    <3>1. cur # NoHash
      BY <1>9 DEF RelistSource, TypeOK
    <3> QED
      BY <1>9, <2>1, <2>2, <2>4, <3>1, FailCurrentType DEF RelistSource, TypeOK, clients
  <2> QED
    BY <2>3, <2>4
<1>10. CASE StartDest
  <2>1. PICK reply \in Replies : Charge(reply) /\
               /\ dst' = IF reply = "refused" THEN dst
                         ELSE [dst EXCEPT ![cur] = AfterStart(@)]
               /\ IF reply = "ok"
                    THEN /\ report' = [report EXCEPT
                               !.started = @ \cup {cur},
                               !.sourceStopped = IF didStop THEN @ \cup {cur} ELSE @]
                         /\ pc' = "next"
                         /\ cur' = NoHash
                         /\ didStop' = FALSE
                         /\ UNCHANGED <<candidates, todo, previous>>
                    ELSE FailCurrent
    BY <1>10 DEF StartDest
  <2>2. faults' \in 0..MaxFaults
    BY <2>1, ChargeType
  <2>3. cur # NoHash /\ cur \in Hashes
    BY <1>10 DEF StartDest, TypeOK
  <2>4. dst' \in [Hashes -> Torrent]
    <3>1. AfterStart(dst[cur]) \in Torrent
      BY <2>3, AfterStartType DEF TypeOK
    <3> QED
      BY <2>1, <2>3, <3>1 DEF TypeOK
  <2>5. CASE reply = "ok"
    <3>1. report' \in Report
      <4>1. report.started \cup {cur} \in SUBSET Hashes
            /\ report.sourceStopped \cup {cur} \in SUBSET Hashes
            /\ report.sourceStopped \in SUBSET Hashes
        BY <2>3 DEF TypeOK, Report
      <4>2. PICK S \in SUBSET Hashes :
              report' = [report EXCEPT !.started = report.started \cup {cur},
                                       !.sourceStopped = S]
        BY <2>1, <2>5, <4>1
      <4> QED
        BY <4>1, <4>2 DEF TypeOK, Report
    <3> QED
      BY <1>10, <2>1, <2>2, <2>4, <2>5, <3>1 DEF StartDest, TypeOK, PCs, snapshot
  <2>6. CASE reply # "ok"
    BY <1>10, <2>1, <2>2, <2>3, <2>4, <2>6, FailCurrentType DEF StartDest, TypeOK
  <2> QED
    BY <2>5, <2>6
<1>11. CASE Finish
  <2>1. limit' \in Nat /\ faults' \in 0..MaxFaults
    BY <1>11, ChargeType DEF Finish, TypeOK
  <2>2. report' \in Report /\ expected' \subseteq Hashes
    BY <1>11 DEF Finish, TypeOK, Report, Ends
  <2> QED
    BY <1>11, <2>1, <2>2, ForgetType DEF Finish, TypeOK
<1>12. CASE Kill
  <2>1. faults' \in 0..MaxFaults
    BY <1>12, ChargeType DEF Kill
  <2>2. report' \in Report /\ expected' \subseteq Hashes
    BY <1>12 DEF Kill, TypeOK, Report, Ends
  <2> QED
    BY <1>12, <2>1, <2>2, ForgetType DEF Kill, TypeOK, clients
<1>13. ASSUME NEW h \in Hashes,
              \/ SourceStopLands(h) \/ SourceSettles(h) \/ UserStopsSource(h)
              \/ UserStartsSource(h) \/ DestSettles(h) \/ DestLosesFiles(h)
       PROVE  TypeOK'
  <2>1. UNCHANGED process
    BY <1>13 DEF SourceStopLands, SourceSettles, UserStopsSource, UserStartsSource,
                 DestSettles, DestLosesFiles
  <2>2. src' \in [Hashes -> State]
    BY <1>13 DEF TypeOK, SourceStopLands, SourceSettles, UserStopsSource,
                 UserStartsSource, DestSettles, DestLosesFiles,
                 State, ListedStates, StoppedStates, SeedingStates
  <2>3. stopping' \in [Hashes -> BOOLEAN]
    BY <1>13 DEF TypeOK, SourceStopLands, SourceSettles, UserStopsSource,
                 UserStartsSource, DestSettles, DestLosesFiles
  <2>4. dst' \in [Hashes -> Torrent]
    <3>1. CASE DestSettles(h)
      <4>1. ASSUME NEW complete \in BOOLEAN
            PROVE  AfterStop([dst[h] EXCEPT !.complete = complete]) \in Torrent
        <5>1. [dst[h] EXCEPT !.complete = complete] \in Torrent
          BY DEF TypeOK, Torrent
        <5> QED
          BY <5>1, AfterStopType
      <4>2. [state |-> "stalledUP", complete |-> TRUE] \in Torrent
        BY DEF Torrent, State, ListedStates, SeedingStates
      <4>3. PICK t \in Torrent : dst' = [dst EXCEPT ![h] = t]
        BY <3>1, <4>1, <4>2 DEF DestSettles
      <4> QED
        BY <4>3 DEF TypeOK
    <3>2. CASE DestLosesFiles(h)
      <4>1. [state |-> "missingFiles", complete |-> FALSE] \in Torrent
        BY DEF Torrent, State, ListedStates, OtherStates, BrokenStates
      <4> QED
        BY <3>2, <4>1 DEF DestLosesFiles, TypeOK
    <3> QED
      BY <1>13, <3>1, <3>2 DEF TypeOK, SourceStopLands, SourceSettles,
                               UserStopsSource, UserStartsSource
  <2>5. limit' \in Nat
    BY <1>13 DEF TypeOK, SourceStopLands, SourceSettles, UserStopsSource,
                 UserStartsSource, DestSettles, DestLosesFiles
  <2> QED
    BY <2>1, <2>2, <2>3, <2>4, <2>5 DEF TypeOK, process, snapshot, work
<1>14. CASE UNCHANGED vars
  BY <1>14 DEF TypeOK, vars, clients, snapshot, work
<1> QED
  BY <1>1, <1>2, <1>3, <1>4, <1>5, <1>6, <1>7, <1>8, <1>9, <1>10, <1>11, <1>12,
     <1>13, <1>14
  DEF Next, Step, Environment

(* Every variable of a handoff stays in its type, and the loop works on the   *)
(* torrents that the command read from staging, each once.                    *)
THEOREM TypeCorrect == Spec => []TypeOK
  BY InitType, StepType, PTL DEF Spec

------------------------------------------------------------------------------
(* The inductive invariant behind NoDualSeed.  Two facts tie the state of the *)
(* process to the present state of the source: a source that the listing      *)
(* showed stopped or absent is silent now, and so is the source of the        *)
(* candidate the process is about to start.  Silence is stable, so both       *)
(* survive whatever the clients do between the calls.                         *)
LoopPCs == {"readLimit", "setLimit", "next", "stop", "relist", "start"}

DestRunsAlone == \A h \in Hashes : Running(dst[h]) => Silent(h)
SnapshotHolds ==
  opts.source /\ pc \in {"classify"} \cup LoopPCs
    => \A h \in Hashes : seenSrc[h] \in StoppedStates \cup {Absent} => Silent(h)
WordHolds ==
  pc # "idle" /\ opts.confirm /\ ~opts.source => \A h \in expected : Silent(h)
LoopMode == pc \in LoopPCs => opts.source \/ opts.confirm
StopAccepted == pc = "relist" => stopping[cur] \/ Silent(cur)
StartSilent == pc = "start" => Silent(cur)

CustodyInv ==
  DestRunsAlone /\ SnapshotHolds /\ WordHolds /\ LoopMode /\ StopAccepted /\ StartSilent

(* Nothing the program or a client does ends the silence of a source: only    *)
(* its user does, and not during a run nor of what the destination runs.      *)
LEMMA SilenceStable ==
  ASSUME TypeOK, [Next]_vars, "startSource" \notin Interference,
         NEW h \in Hashes, Silent(h), pc # "idle" \/ Running(dst[h])
  PROVE  Silent(h)'
<1>1. CASE UNCHANGED <<src, stopping>>
  BY <1>1 DEF Silent
<1>2. CASE StopSource
  <2>1. src' = src /\ (stopping[h] => stopping'[h])
    BY <1>2 DEF StopSource, TypeOK
  <2> QED
    BY <2>1 DEF Silent
<1>3. ASSUME NEW g \in Hashes, SourceStopLands(g) PROVE Silent(h)'
  <2>1. CASE g = h
    BY <1>3, <2>1 DEF SourceStopLands, TypeOK, Silent, StoppedStates
  <2>2. CASE g # h
    BY <1>3, <2>2 DEF SourceStopLands, TypeOK, Silent
  <2> QED
    BY <2>1, <2>2
<1>4. ASSUME NEW g \in Hashes, SourceSettles(g) PROVE Silent(h)'
  <2>1. g # h
    BY <1>4 DEF SourceSettles, Silent, StoppedStates, BrokenStates, Absent,
                CheckingStates, DownloadingStates
  <2> QED
    BY <1>4, <2>1 DEF SourceSettles, TypeOK, Silent
<1>5. ASSUME NEW g \in Hashes, UserStopsSource(g) PROVE Silent(h)'
  BY <1>5 DEF UserStopsSource, TypeOK, Silent
<1>6. ASSUME NEW g \in Hashes, UserStartsSource(g) PROVE Silent(h)'
  <2>1. g # h
    BY <1>6 DEF UserStartsSource
  <2> QED
    BY <1>6, <2>1 DEF UserStartsSource, TypeOK, Silent
<1> QED
  BY <1>1, <1>2, <1>3, <1>4, <1>5, <1>6
  DEF Next, Step, Begin, ListDest, ListSource, Classify, ReadLimit, SetLimit, Take,
      RelistSource, StartDest, Finish, Kill, Environment,
      DestSettles, DestLosesFiles, clients, vars

(* A destination torrent starts to run only in the step that starts it.       *)
LEMMA DestStartsOnce ==
  ASSUME TypeOK, [Next]_vars, NEW h \in Hashes, Running(dst[h])', ~Running(dst[h])
  PROVE  StartDest /\ cur = h
<1>1. CASE StartDest
  BY <1>1 DEF StartDest, TypeOK
<1>2. ASSUME NEW g \in Hashes, DestSettles(g) PROVE FALSE
  <2>1. g = h
    BY <1>2 DEF DestSettles, TypeOK
  <2>2. IsChecking(dst[h].state) /\ ~IsDownloading(dst[h].state)
    BY <1>2, <2>1 DEF DestSettles, Running
  <2>3. PICK complete \in BOOLEAN :
          dst' = [dst EXCEPT ![h] = AfterStop([dst[h] EXCEPT !.complete = complete])]
    BY <1>2, <2>1, <2>2 DEF DestSettles
  <2> DEFINE t == [dst[h] EXCEPT !.complete = complete]
  <2>4. t \in Torrent /\ t.state = dst[h].state
    BY DEF TypeOK, Torrent
  <2>5. AfterStop(t).state \in StoppedStates
    <3>1. t.state \notin BrokenStates \cup {Absent}
      BY <2>2, <2>4 DEF IsChecking, CheckingStates, BrokenStates, Absent
    <3>2. AfterStop(t) =
            [t EXCEPT !.state = IF t.complete THEN "stoppedUP" ELSE "stoppedDL"]
      BY <3>1 DEF AfterStop
    <3> QED
      BY <2>4, <3>2 DEF Torrent, StoppedStates
  <2>6. dst'[h].state \in StoppedStates
    BY <2>3, <2>5 DEF TypeOK
  <2> QED
    BY <2>6 DEF Running, IsSeeding, IsDownloading, StoppedStates, SeedingStates,
                DownloadingStates
<1>3. ASSUME NEW g \in Hashes, DestLosesFiles(g) PROVE FALSE
  BY <1>3 DEF DestLosesFiles, TypeOK, Running, IsSeeding, IsDownloading,
              SeedingStates, DownloadingStates
<1>4. CASE UNCHANGED dst
  BY <1>4 DEF Running
<1> QED
  BY <1>1, <1>2, <1>3, <1>4
  DEF Next, Step, Begin, ListDest, ListSource, Classify, ReadLimit, SetLimit, Take,
      StopSource, RelistSource, Finish, Kill, Environment, SourceStopLands,
      SourceSettles, UserStopsSource, UserStartsSource, clients, vars

LEMMA CustodyInit == Init => CustodyInv
  BY DEF Init, CustodyInv, DestRunsAlone, SnapshotHolds, WordHolds, LoopMode,
         StopAccepted, StartSilent, LoopPCs

LEMMA DestRunsAloneStep ==
  ASSUME TypeOK, CustodyInv, [Next]_vars, "startSource" \notin Interference
  PROVE  DestRunsAlone'
<1> SUFFICES ASSUME NEW h \in Hashes, Running(dst[h])' PROVE Silent(h)'
  BY DEF DestRunsAlone
<1>1. CASE Running(dst[h])
  BY <1>1, SilenceStable DEF CustodyInv, DestRunsAlone
<1>2. CASE ~Running(dst[h])
  <2>1. StartDest /\ cur = h
    BY <1>2, DestStartsOnce
  <2>2. Silent(h) /\ pc # "idle"
    BY <2>1 DEF StartDest, CustodyInv, StartSilent
  <2> QED
    BY <2>2, SilenceStable
<1> QED
  BY <1>1, <1>2

LEMMA SnapshotStep ==
  ASSUME TypeOK, CustodyInv, [Next]_vars, "startSource" \notin Interference
  PROVE  SnapshotHolds'
<1> SUFFICES ASSUME opts'.source, pc' \in {"classify"} \cup LoopPCs,
                    NEW h \in Hashes, seenSrc'[h] \in StoppedStates \cup {Absent}
             PROVE  Silent(h)'
  BY DEF SnapshotHolds
<1>1. CASE ListSource
  <2>1. seenSrc' = src /\ UNCHANGED clients
    BY <1>1 DEF ListSource, Abort, Forget, LoopPCs
  <2>2. Silent(h) /\ pc # "idle"
    BY <1>1, <2>1 DEF ListSource, Silent
  <2> QED
    BY <2>2, SilenceStable
<1>2. CASE ~ListSource
  <2>1. opts' = opts /\ seenSrc' = seenSrc /\ pc \in {"classify"} \cup LoopPCs
    BY <1>2 DEF Next, Step, Begin, ListDest, Classify, ReadLimit, SetLimit, Take,
                StopSource, RelistSource, StartDest, FailCurrent, Finish, Kill,
                Abort, Forget, Environment, SourceStopLands, SourceSettles,
                UserStopsSource, UserStartsSource, DestSettles, DestLosesFiles,
                vars, process, snapshot, LoopPCs
  <2>2. Silent(h) /\ pc # "idle"
    BY <2>1 DEF CustodyInv, SnapshotHolds, LoopPCs
  <2> QED
    BY <2>2, SilenceStable
<1> QED
  BY <1>1, <1>2

LEMMA WordStep ==
  ASSUME TypeOK, CustodyInv, [Next]_vars, "startSource" \notin Interference
  PROVE  WordHolds'
<1> SUFFICES ASSUME pc' # "idle", opts'.confirm, ~opts'.source, NEW h \in expected'
             PROVE  Silent(h)'
  BY DEF WordHolds
<1>1. CASE Begin
  <2>1. Silent(h) /\ UNCHANGED <<src, stopping>>
    BY <1>1 DEF Begin, clients
  <2> QED
    BY <2>1 DEF Silent
<1>2. CASE ~Begin
  <2>1. opts' = opts /\ expected' = expected /\ pc # "idle"
    BY <1>2 DEF Next, Step, ListDest, ListSource, Classify, ReadLimit, SetLimit, Take,
                StopSource, RelistSource, StartDest, FailCurrent, Finish, Kill,
                Abort, Forget, Environment, SourceStopLands, SourceSettles,
                UserStopsSource, UserStartsSource, DestSettles, DestLosesFiles,
                vars, process, snapshot
  <2> QED
    BY <2>1, SilenceStable DEF CustodyInv, WordHolds, TypeOK
<1> QED
  BY <1>1, <1>2

LEMMA LoopModeStep ==
  ASSUME TypeOK, CustodyInv, [Next]_vars
  PROVE  LoopMode'
<1> SUFFICES ASSUME pc' \in LoopPCs PROVE opts'.source \/ opts'.confirm
  BY DEF LoopMode
<1>1. CASE Classify
  BY <1>1 DEF Classify, Forget, LoopPCs, WouldStart, snapshot
<1>2. CASE ~Classify
  <2>1. opts' = opts /\ pc \in LoopPCs
    BY <1>2 DEF Next, Step, Begin, ListDest, ListSource, ReadLimit, SetLimit, Take,
                StopSource, RelistSource, StartDest, FailCurrent, Finish, Kill,
                Abort, Forget, Environment, SourceStopLands, SourceSettles,
                UserStopsSource, UserStartsSource, DestSettles, DestLosesFiles,
                vars, process, snapshot, LoopPCs
  <2> QED
    BY <2>1 DEF CustodyInv, LoopMode
<1> QED
  BY <1>1, <1>2

(* The current candidate does not change while it is being handed off.        *)
LEMMA CurKept ==
  ASSUME TypeOK, [Next]_vars, pc' \in {"relist", "start"},
         ~(\E h \in Hashes : Take(h)), ~StopSource, ~RelistSource
  PROVE  pc' = pc /\ cur' = cur
  BY DEF Next, Step, Begin, ListDest, ListSource, Classify, ReadLimit, SetLimit,
         StartDest, FailCurrent, Finish, Kill, Abort, Forget, Environment,
         SourceStopLands, SourceSettles, UserStopsSource, UserStartsSource,
         DestSettles, DestLosesFiles, vars, process, work

LEMMA StopAcceptedStep ==
  ASSUME TypeOK, CustodyInv, [Next]_vars, "startSource" \notin Interference
  PROVE  StopAccepted'
<1> SUFFICES ASSUME pc' = "relist" PROVE stopping'[cur'] \/ Silent(cur)'
  BY DEF StopAccepted
<1>1. CASE StopSource
  <2>1. /\ cur' = cur /\ cur \in Hashes /\ src' = src
        /\ stopping' = [stopping EXCEPT ![cur] =
                           stopping[cur] \/ src[cur] \notin StoppedStates \cup {Absent}]
    BY <1>1 DEF StopSource, FailCurrent, TypeOK
  <2>2. CASE src[cur] \in StoppedStates \cup {Absent}
    BY <2>1, <2>2 DEF Silent
  <2>3. CASE src[cur] \notin StoppedStates \cup {Absent}
    BY <2>1, <2>3 DEF TypeOK
  <2> QED
    BY <2>2, <2>3
<1>2. CASE \/ \E h \in Hashes : Take(h)
           \/ RelistSource
  BY <1>2 DEF Take, RelistSource, FailCurrent
<1>3. CASE ~StopSource /\ ~(\E h \in Hashes : Take(h)) /\ ~RelistSource
  <2>1. pc = "relist" /\ cur' = cur /\ cur \in Hashes
    BY <1>3, CurKept DEF TypeOK
  <2>2. CASE Silent(cur)
    <3>1. Silent(cur)'
      BY <2>1, <2>2, SilenceStable
    <3> QED
      BY <2>1, <3>1 DEF Silent
  <2>3. CASE stopping[cur]
    <3>1. ASSUME NEW h \in Hashes, SourceStopLands(h) PROVE stopping'[cur'] \/ Silent(cur)'
      <4>1. CASE h = cur
        BY <2>1, <3>1, <4>1 DEF SourceStopLands, Silent, TypeOK, StoppedStates
      <4>2. CASE h # cur
        BY <2>1, <2>3, <3>1, <4>2 DEF SourceStopLands, TypeOK
      <4> QED
        BY <4>1, <4>2
    <3>2. CASE ~(\E h \in Hashes : SourceStopLands(h))
      <4>1. stopping'[cur]
        BY <1>3, <2>1, <2>3, <3>2
        DEF Next, Step, Begin, ListDest, ListSource, Classify, ReadLimit, SetLimit,
            StartDest, Finish, Kill, Environment, SourceSettles,
            UserStopsSource, UserStartsSource, DestSettles, DestLosesFiles,
            vars, clients, TypeOK
      <4> QED
        BY <2>1, <4>1
    <3> QED
      BY <3>1, <3>2
  <2> QED
    BY <2>1, <2>2, <2>3 DEF CustodyInv, StopAccepted
<1> QED
  BY <1>1, <1>2, <1>3

LEMMA StartSilentStep ==
  ASSUME TypeOK, CustodyInv, [Next]_vars, "startSource" \notin Interference
  PROVE  StartSilent'
<1> SUFFICES ASSUME pc' = "start" PROVE Silent(cur)'
  BY DEF StartSilent
<1>1. CASE RelistSource
  <2>1. /\ pc = "relist" /\ cur' = cur /\ cur \in Hashes /\ ~IsSeeding(src[cur])
        /\ UNCHANGED <<src, stopping>>
    BY <1>1 DEF RelistSource, FailCurrent, TypeOK, work, clients
  <2>2. Silent(cur)
    BY <2>1 DEF CustodyInv, StopAccepted, Silent
  <2> QED
    BY <2>1, <2>2 DEF Silent
<1>2. ASSUME NEW h \in Hashes, Take(h) PROVE Silent(cur)'
  <2>1. /\ ~NeedsStop(h) /\ cur' = h /\ h \in expected
        /\ UNCHANGED <<src, stopping>>
    BY <1>2 DEF Take, TypeOK, clients
  <2>2. Silent(h)
    <3>1. CASE opts.source
      BY <1>2, <2>1, <3>1 DEF Take, NeedsStop, CustodyInv, SnapshotHolds, LoopPCs, IsStopped
    <3>2. CASE ~opts.source
      BY <1>2, <2>1, <3>2 DEF Take, CustodyInv, LoopMode, WordHolds, LoopPCs
    <3> QED
      BY <3>1, <3>2
  <2> QED
    BY <2>1, <2>2 DEF Silent
<1>3. CASE StopSource
  BY <1>3 DEF StopSource, FailCurrent
<1>4. CASE ~StopSource /\ ~(\E h \in Hashes : Take(h)) /\ ~RelistSource
  <2>1. pc = "start" /\ cur' = cur /\ cur \in Hashes
    BY <1>4, CurKept DEF TypeOK
  <2>2. Silent(cur)
    BY <2>1 DEF CustodyInv, StartSilent
  <2> DEFINE h == cur
  <2>3. Silent(h)'
    <3> HIDE DEF h
    <3> QED
      BY <2>1, <2>2, SilenceStable DEF h
  <2> QED
    BY <2>1, <2>3 DEF Silent
<1> QED
  BY <1>1, <1>2, <1>3, <1>4

(* The source of a torrent the program is about to start on the destination   *)
(* is silent for one of three reasons, and stays so until the start.          *)
THEOREM CustodyInvariant ==
  ASSUME "startSource" \notin Interference
  PROVE  Spec => []CustodyInv
<1>1. Init => CustodyInv
  BY CustodyInit
<1>2. TypeOK /\ CustodyInv /\ [Next]_vars => CustodyInv'
  BY DestRunsAloneStep, SnapshotStep, WordStep, LoopModeStep, StopAcceptedStep,
     StartSilentStep
  DEF CustodyInv
<1> QED
  BY <1>1, <1>2, TypeCorrect, PTL DEF Spec

(* The two clients never seed the same torrent: for any number of torrents,   *)
(* failed calls, lost replies and kills.                                      *)
THEOREM HandoffNeverDualSeeds ==
  ASSUME "startSource" \notin Interference
  PROVE  Spec => []NoDualSeed
<1>1. CustodyInv => NoDualSeed
  BY DEF CustodyInv, DestRunsAlone, NoDualSeed, Running, Silent, IsSeeding,
         SeedingStates, StoppedStates, BrokenStates, Absent
<1> QED
  BY <1>1, CustodyInvariant, PTL

------------------------------------------------------------------------------
(* A step of either client or of the process concerns one torrent at most.    *)
LEMMA OneTorrentAtATime ==
  ASSUME TypeOK, [Next]_vars, ~UNCHANGED <<src, stopping, dst>>
  PROVE  \E h \in Hashes : \A g \in Hashes \ {h} :
           src'[g] = src[g] /\ stopping'[g] = stopping[g] /\ dst'[g] = dst[g]
<1>1. CASE StopSource \/ StartDest
  <2>1. cur \in Hashes
    BY <1>1 DEF StopSource, StartDest, TypeOK
  <2>2. \A g \in Hashes \ {cur} :
          src'[g] = src[g] /\ stopping'[g] = stopping[g] /\ dst'[g] = dst[g]
    BY <1>1, <2>1 DEF StopSource, StartDest, TypeOK
  <2> QED
    BY <2>1, <2>2
<1>2. ASSUME NEW h \in Hashes,
             \/ SourceStopLands(h) \/ SourceSettles(h) \/ UserStopsSource(h)
             \/ UserStartsSource(h) \/ DestSettles(h) \/ DestLosesFiles(h)
      PROVE  \A g \in Hashes \ {h} :
               src'[g] = src[g] /\ stopping'[g] = stopping[g] /\ dst'[g] = dst[g]
  BY <1>2 DEF TypeOK, SourceStopLands, SourceSettles, UserStopsSource,
              UserStartsSource, DestSettles, DestLosesFiles
<1> QED
  BY <1>1, <1>2
  DEF Next, Step, Begin, ListDest, ListSource, Classify, ReadLimit, SetLimit, Take,
      RelistSource, Finish, Kill, Environment, clients, vars

(* The duty never skips the gap.                                              *)
LEMMA HolderMoves ==
  ASSUME TypeOK, CustodyInv, [Next]_vars, "startSource" \notin Interference,
         NEW h \in Hashes, holder'[h] # holder[h]
  PROVE  \/ holder[h] = "source" /\ holder'[h] = "nobody"
         \/ holder[h] = "nobody" /\ holder'[h] = "dest"
         \/ holder[h] = "dest" /\ holder'[h] = "nobody"
         \/ holder[h] = "nobody" /\ holder'[h] = "source"
<1>1. /\ holder[h] = IF Running(dst[h]) THEN "dest"
                     ELSE IF Silent(h) THEN "nobody" ELSE "source"
      /\ holder'[h] = IF Running(dst[h])' THEN "dest"
                      ELSE IF Silent(h)' THEN "nobody" ELSE "source"
  BY DEF holder
<1>2. CASE holder[h] = "dest"
  <2>1. Silent(h) /\ Running(dst[h])
    BY <1>1, <1>2 DEF CustodyInv, DestRunsAlone
  <2>2. Silent(h)'
    BY <2>1, SilenceStable
  <2> QED
    BY <1>1, <1>2, <2>2
<1>4. CASE holder[h] = "nobody"
  BY <1>1, <1>4
<1>3. CASE holder[h] = "source"
  <2>1. ~Running(dst[h]) /\ ~Silent(h)
    BY <1>1, <1>3
  <2>2. ~(Running(dst[h])')
    <3>1. SUFFICES ASSUME Running(dst[h])' PROVE FALSE
      OBVIOUS
    <3>2. StartDest /\ cur = h
      BY <2>1, <3>1, DestStartsOnce
    <3> QED
      BY <2>1, <3>2 DEF StartDest, CustodyInv, StartSilent
  <2> QED
    BY <1>1, <1>3, <2>2
<1> QED
  BY <1>1, <1>2, <1>3, <1>4

LEMMA HolderStep ==
  ASSUME TypeOK, CustodyInv, [Next]_vars, "startSource" \notin Interference
  PROVE  [Promise!Next]_holder
<1>1. CASE UNCHANGED <<src, stopping, dst>>
  <2>1. \A h \in Hashes : (Running(dst[h])' <=> Running(dst[h])) /\ (Silent(h)' <=> Silent(h))
    BY <1>1 DEF Running, Silent
  <2> QED
    BY <2>1 DEF holder
<1>2. CASE ~UNCHANGED <<src, stopping, dst>>
  <2>1. PICK h \in Hashes : \A g \in Hashes \ {h} :
               src'[g] = src[g] /\ stopping'[g] = stopping[g] /\ dst'[g] = dst[g]
    BY <1>2, OneTorrentAtATime
  <2>2. \A g \in Hashes \ {h} : holder'[g] = holder[g]
    <3>1. \A g \in Hashes \ {h} :
            (Running(dst[g])' <=> Running(dst[g])) /\ (Silent(g)' <=> Silent(g))
      BY <2>1 DEF Running, Silent
    <3> QED
      BY <3>1 DEF holder
  <2>3. CASE holder'[h] = holder[h]
    <3>1. \A g \in Hashes : holder'[g] = holder[g]
      BY <2>2, <2>3
    <3>2. holder' = holder
      BY <3>1 DEF holder
    <3> QED
      BY <3>2
  <2>4. CASE holder'[h] # holder[h]
    <3>1. holder' = [holder EXCEPT ![h] = holder'[h]]
      BY <2>2 DEF holder
    <3>2. \/ holder[h] = "source" /\ holder'[h] = "nobody"
          \/ holder[h] = "nobody" /\ holder'[h] = "dest"
          \/ holder[h] = "dest" /\ holder'[h] = "nobody"
          \/ holder[h] = "nobody" /\ holder'[h] = "source"
      BY <2>4, HolderMoves
    <3>3. \/ Promise!Release(h) \/ Promise!TakeOver(h) \/ Promise!DropOut(h)
          \/ Promise!TakeBack(h)
      <4> HIDE DEF holder
      <4> QED
        BY <3>1, <3>2 DEF Promise!Release, Promise!TakeOver, Promise!DropOut, Promise!TakeBack
    <3> QED
      BY <3>3 DEF Promise!Next
  <2> QED
    BY <2>3, <2>4
<1> QED
  BY <1>1, <1>2

(* The detailed handoff implements the custody protocol.                      *)
THEOREM HandoffImplementsCustody ==
  ASSUME "startSource" \notin Interference
  PROVE  Spec => ImplementsCustody
<1>1. Init => Promise!Init
  BY DEF Promise!Init, Promise!Holder, holder
<1>2. TypeOK /\ CustodyInv /\ [Next]_vars => [Promise!Next]_holder
  BY HolderStep
<1> QED
  BY <1>1, <1>2, TypeCorrect, CustodyInvariant, PTL DEF Spec, ImplementsCustody, Promise!Spec
------------------------------------------------------------------------------
(* The inductive invariant behind what a run promises of the destination.     *)
(* What the first listing showed whole and stopped the destination still      *)
(* holds, or has lost; what it showed running still runs, or has lost its     *)
(* files.  Neither the program nor the client takes that back, so both        *)
(* survive until the loop gets there, and until the next run begins.          *)
Held(h) == (IsStopped(dst[h].state) /\ IsPieceComplete(dst[h])) \/ IsBroken(dst[h].state)
Handed(h) == Running(dst[h]) \/ IsBroken(dst[h].state)

ListedHolds ==
  pc \in {"listSource", "classify"}
    => \A h \in Hashes : /\ IsCandidate(h) => Held(h)
                         /\ IsSeeding(seenDst[h].state) => Handed(h)
LeftIsHeld ==
  /\ \A h \in todo : Held(h)
  /\ cur # NoHash => Held(cur) /\ cur \notin todo
DoneIsHanded ==
  pc \in LoopPCs /\ report.failed = {}
    => \A h \in expected \ (todo \cup {cur}) : Handed(h)
EndsLast == pc # "idle" => report.end = "running"
EndedIsHanded ==
  report.end = "ok" /\ IsComplete /\ ~report.dryRun /\ ~report.reportOnly
    => \A h \in expected : Handed(h)
UnderBreaker ==
  pc \in LoopPCs \ {"readLimit", "setLimit"} /\ candidates # {}
    => limit = CIRCUIT_BREAKER_BPS

HandInv ==
  ListedHolds /\ LeftIsHeld /\ DoneIsHanded /\ EndsLast /\ EndedIsHanded /\ UnderBreaker

(* All that can happen to a torrent of the destination in one step.           *)
LEMMA DestMoves ==
  ASSUME TypeOK, [Next]_vars, NEW h \in Hashes
  PROVE  \/ dst'[h] = dst[h]
         \/ StartDest /\ cur = h /\ dst'[h] = AfterStart(dst[h])
         \/ IsChecking(dst[h].state)
         \/ IsDownloading(dst[h].state) /\ IsSeeding(dst'[h].state)
         \/ IsBroken(dst'[h].state)
<1>1. CASE StartDest
  BY <1>1 DEF StartDest, TypeOK
<1>2. ASSUME NEW g \in Hashes, DestSettles(g)
      PROVE  \/ dst'[h] = dst[h]
             \/ IsChecking(dst[h].state)
             \/ IsDownloading(dst[h].state) /\ IsSeeding(dst'[h].state)
  <2>1. CASE g # h
    BY <1>2, <2>1 DEF DestSettles, TypeOK
  <2>2. CASE g = h /\ ~IsChecking(dst[h].state)
    BY <1>2, <2>2 DEF DestSettles, TypeOK, IsSeeding, SeedingStates
  <2> QED
    BY <2>1, <2>2
<1>3. ASSUME NEW g \in Hashes, DestLosesFiles(g)
      PROVE  dst'[h] = dst[h] \/ IsBroken(dst'[h].state)
  BY <1>3 DEF DestLosesFiles, TypeOK, IsBroken, BrokenStates
<1>4. CASE UNCHANGED dst
  BY <1>4
<1> QED
  BY <1>1, <1>2, <1>3, <1>4
  DEF Next, Step, Begin, ListDest, ListSource, Classify, ReadLimit, SetLimit, Take,
      StopSource, RelistSource, Finish, Kill, Environment, SourceStopLands,
      SourceSettles, UserStopsSource, UserStartsSource, clients, vars

(* Only the start itself takes from the destination what it holds stopped.    *)
LEMMA HeldStable ==
  ASSUME TypeOK, [Next]_vars, NEW h \in Hashes, Held(h), ~(StartDest /\ cur = h)
  PROVE  Held(h)'
  BY DestMoves DEF Held, IsStopped, IsBroken, IsChecking, IsDownloading, StoppedStates,
                   BrokenStates, CheckingStates, DownloadingStates, IsPieceComplete

(* What runs on the destination goes on, unless its files are lost.           *)
LEMMA HandedStable ==
  ASSUME TypeOK, [Next]_vars, NEW h \in Hashes, Handed(h)
  PROVE  Handed(h)'
<1>1. AfterStart(dst[h]) = dst[h]
  BY DEF Handed, Running, AfterStart, IsStopped, IsSeeding, IsDownloading, IsBroken,
         StoppedStates, SeedingStates, DownloadingStates, BrokenStates
<1>2. ~IsChecking(dst[h].state)
  BY DEF Handed, Running, IsChecking, IsSeeding, IsDownloading, IsBroken,
         CheckingStates, SeedingStates, DownloadingStates, BrokenStates
<1> QED
  BY <1>1, <1>2, DestMoves DEF Handed, Running

(* A start that gets through turns what was held into what is handed over.    *)
LEMMA StartHands ==
  ASSUME NEW t \in Torrent, IsStopped(t.state) \/ IsBroken(t.state)
  PROVE  IsSeeding(AfterStart(t).state) \/ IsDownloading(AfterStart(t).state)
         \/ IsBroken(AfterStart(t).state)
<1>1. CASE IsStopped(t.state)
  <2>1. AfterStart(t) =
          [t EXCEPT !.state = IF t.complete THEN "stalledUP" ELSE "stalledDL"]
    BY <1>1 DEF AfterStart
  <2> QED
    BY <2>1 DEF Torrent, IsSeeding, IsDownloading, SeedingStates, DownloadingStates
<1>2. CASE ~IsStopped(t.state)
  BY <1>2 DEF AfterStart
<1> QED
  BY <1>1, <1>2

LEMMA HandInit == Init => HandInv
  BY DEF Init, HandInv, ListedHolds, LeftIsHeld, DoneIsHanded, EndsLast, EndedIsHanded,
         UnderBreaker, LoopPCs, EmptyReport

LEMMA ListedStep ==
  ASSUME TypeOK, HandInv, [Next]_vars
  PROVE  ListedHolds'
<1> SUFFICES ASSUME pc' \in {"listSource", "classify"}, NEW h \in Hashes
             PROVE  /\ IsCandidate(h)' => Held(h)'
                    /\ IsSeeding(seenDst'[h].state) => Handed(h)'
  BY DEF ListedHolds
<1>1. CASE ListDest
  BY <1>1 DEF ListDest, Abort, Forget, clients, IsCandidate, ProvenOnDest, Held, Handed,
              Running
<1>2. CASE ~ListDest
  <2>1. pc \in {"listSource", "classify"} /\ seenDst' = seenDst /\ ~StartDest
    BY <1>2 DEF Next, Step, Begin, ListSource, Classify, ReadLimit, SetLimit, Take,
                StopSource, RelistSource, StartDest, FailCurrent, Finish, Kill, Abort,
                Forget, Environment, SourceStopLands, SourceSettles, UserStopsSource,
                UserStartsSource, DestSettles, DestLosesFiles, vars, process, snapshot
  <2>2. IsCandidate(h)' => IsCandidate(h)
    BY <2>1 DEF IsCandidate, ProvenOnDest
  <2> QED
    BY <2>1, <2>2, HeldStable, HandedStable DEF HandInv, ListedHolds
<1> QED
  BY <1>1, <1>2

LEMMA LeftStep ==
  ASSUME TypeOK, HandInv, [Next]_vars
  PROVE  LeftIsHeld'
<1>1. CASE Classify
  <2>1. todo' \subseteq {h \in expected : IsCandidate(h)} /\ UNCHANGED dst /\ cur' = NoHash
    BY <1>1 DEF Classify, Forget, Considered, clients, TypeOK
  <2>2. \A h \in todo' : Held(h)
    BY <1>1, <2>1 DEF Classify, HandInv, ListedHolds, TypeOK
  <2> QED
    BY <2>1, <2>2 DEF LeftIsHeld, Held
<1>2. ASSUME NEW h \in Hashes, Take(h) PROVE LeftIsHeld'
  BY <1>2 DEF Take, HandInv, LeftIsHeld, clients, Held
<1>3. CASE ~Classify /\ ~(\E h \in Hashes : Take(h))
  <2>1. /\ todo' \in {todo, {}}
        /\ cur' = NoHash \/ (cur' = cur /\ ~StartDest)
    BY <1>3 DEF Next, Step, Begin, ListDest, ListSource, ReadLimit, SetLimit,
                StopSource, RelistSource, StartDest, FailCurrent, Finish, Kill, Abort,
                Forget, Environment, SourceStopLands, SourceSettles, UserStopsSource,
                UserStartsSource, DestSettles, DestLosesFiles, vars, process, work, TypeOK
  <2>2. ASSUME NEW h \in todo' PROVE Held(h)'
    <3>1. h \in Hashes /\ Held(h)
      BY <2>1, <2>2 DEF HandInv, LeftIsHeld, TypeOK
    <3>2. ~(StartDest /\ cur = h)
      BY <2>1, <2>2 DEF HandInv, LeftIsHeld, StartDest, TypeOK
    <3> QED
      BY <3>1, <3>2, HeldStable
  <2>3. ASSUME cur' # NoHash PROVE Held(cur)' /\ cur' \notin todo'
    <3>1. cur' = cur /\ ~StartDest /\ cur \in Hashes /\ Held(cur) /\ cur \notin todo
      BY <2>1, <2>3 DEF HandInv, LeftIsHeld, TypeOK
    <3> DEFINE h == cur
    <3>2. Held(h)'
      <4> HIDE DEF h
      <4> QED
        BY <3>1, HeldStable DEF h
    <3> QED
      BY <2>1, <3>1, <3>2 DEF Held
  <2> QED
    BY <2>2, <2>3 DEF LeftIsHeld
<1> QED
  BY <1>1, <1>2, <1>3
LEMMA DoneStep ==
  ASSUME TypeOK, HandInv, [Next]_vars
  PROVE  DoneIsHanded'
<1> SUFFICES ASSUME pc' \in LoopPCs, report'.failed = {},
                    NEW h \in expected' \ (todo' \cup {cur'})
             PROVE  Handed(h)'
  BY DEF DoneIsHanded
<1>1. CASE Classify
  <2>1. /\ pc = "classify" /\ UNCHANGED dst /\ expected' = expected
        /\ todo' = {g \in expected : IsCandidate(g)}
        /\ report'.failed =
             expected \ ({g \in expected : IsCandidate(g)} \cup {g \in expected : IsAlready(g)})
    BY <1>1 DEF Classify, Forget, LoopPCs, Considered, EmptyReport, clients, snapshot
  <2>2. IsAlready(h) /\ h \in Hashes
    BY <2>1 DEF TypeOK
  <2> QED
    BY <2>1, <2>2 DEF IsAlready, HandInv, ListedHolds, Handed
<1>2. ASSUME NEW g \in Hashes, Take(g) PROVE Handed(h)'
  <2>1. cur = NoHash /\ h \in expected \ (todo \cup {cur}) /\ h \in Hashes
    BY <1>2 DEF Take, TypeOK, snapshot
  <2> QED
    BY <1>2, <2>1, HandedStable DEF Take, HandInv, DoneIsHanded, LoopPCs
<1>3. CASE StartDest
  <2>1. /\ cur \in Hashes /\ cur # NoHash /\ Held(cur) /\ report.failed = {}
        /\ dst' = [dst EXCEPT ![cur] = AfterStart(@)]
        /\ h \in expected \ todo /\ h \in Hashes
    <3>1. cur \in Hashes /\ cur # NoHash /\ Held(cur)
      BY <1>3 DEF StartDest, HandInv, LeftIsHeld, TypeOK
    <3>2. ~FailCurrent
      BY <3>1 DEF FailCurrent, TypeOK, Report
    <3>3. \E reply \in Replies :
             /\ reply = "ok" \/ FailCurrent
             /\ dst' = IF reply = "refused" THEN dst ELSE [dst EXCEPT ![cur] = AfterStart(@)]
      BY <1>3 DEF StartDest
    <3>4. \E T, S : report' = [report EXCEPT !.started = T, !.sourceStopped = S]
      BY <1>3, <3>2 DEF StartDest
    <3>5. report'.failed = report.failed
      BY <3>4 DEF TypeOK, Report
    <3> QED
      BY <1>3, <3>1, <3>2, <3>3, <3>5 DEF StartDest, TypeOK, snapshot
  <2>2. CASE h = cur
    <3>1. dst[cur] \in Torrent /\ (IsStopped(dst[cur].state) \/ IsBroken(dst[cur].state))
      BY <2>1 DEF TypeOK, Held
    <3>2. dst'[h] = AfterStart(dst[cur])
      BY <2>1, <2>2 DEF TypeOK
    <3> QED
      BY <3>1, <3>2, StartHands DEF Handed, Running
  <2>3. CASE h # cur
    BY <1>3, <2>1, <2>3, HandedStable DEF StartDest, HandInv, DoneIsHanded, LoopPCs
  <2> QED
    BY <2>2, <2>3
<1>4. CASE ~Classify /\ ~(\E g \in Hashes : Take(g)) /\ ~StartDest
  <2>1. /\ pc \in LoopPCs /\ report.failed = {}
        /\ h \in expected \ (todo \cup {cur}) /\ h \in Hashes
    <3>1. CASE StopSource \/ RelistSource
      BY <1>4, <3>1 DEF StopSource, RelistSource, FailCurrent, snapshot, work, LoopPCs,
                        TypeOK, Report
    <3>2. CASE ~(StopSource \/ RelistSource)
      BY <1>4, <3>2
      DEF Next, Step, Begin, ListDest, ListSource, ReadLimit, SetLimit, Finish, Kill,
          Abort, Forget, Environment, SourceStopLands, SourceSettles, UserStopsSource,
          UserStartsSource, DestSettles, DestLosesFiles, vars, process, snapshot, work,
          LoopPCs, TypeOK
    <3> QED
      BY <3>1, <3>2
  <2> QED
    BY <2>1, HandedStable DEF HandInv, DoneIsHanded
<1> QED
  BY <1>1, <1>2, <1>3, <1>4

LEMMA EndsStep ==
  ASSUME TypeOK, HandInv, [Next]_vars
  PROVE  EndsLast'
<1> SUFFICES ASSUME pc' # "idle" PROVE report'.end = "running"
  BY DEF EndsLast
<1>1. CASE Begin
  BY <1>1 DEF Begin, EmptyReport
<1>2. CASE Classify
  BY <1>2 DEF Classify, Forget, EmptyReport
<1>3. CASE ~Begin /\ ~Classify
  <2>1. pc # "idle" /\ report'.end = report.end
    BY <1>3 DEF Next, Step, ListDest, ListSource, ReadLimit, SetLimit, Take, StopSource,
                RelistSource, StartDest, FailCurrent, Finish, Kill, Abort, Forget,
                Environment, SourceStopLands, SourceSettles, UserStopsSource,
                UserStartsSource, DestSettles, DestLosesFiles, vars, process, work,
                TypeOK, Report
  <2> QED
    BY <2>1 DEF HandInv, EndsLast
<1> QED
  BY <1>1, <1>2, <1>3

LEMMA EndedStep ==
  ASSUME TypeOK, HandInv, [Next]_vars
  PROVE  EndedIsHanded'
<1> SUFFICES ASSUME report'.end = "ok", report'.failed = {}, ~report'.dryRun,
                    ~report'.reportOnly, NEW h \in expected'
             PROVE  Handed(h)'
  BY DEF EndedIsHanded, IsComplete
<1>1. CASE pc' # "idle"
  BY <1>1, EndsStep DEF EndsLast
<1>2. CASE Finish
  <2>1. h \in expected \ (todo \cup {cur}) /\ h \in Hashes /\ report.failed = {} /\ pc = "next"
    BY <1>2 DEF Finish, Forget, TypeOK, Report
  <2> QED
    BY <2>1, HandedStable DEF HandInv, DoneIsHanded, LoopPCs
<1>3. CASE Classify /\ pc' = "idle"
  <2>1. report'.dryRun = opts.dryRun /\ report'.reportOnly = ~WouldStart
    BY <1>3 DEF Classify, EmptyReport
  <2> QED
    BY <1>3, <2>1 DEF Classify
<1>4. CASE pc' = "idle" /\ ~Finish /\ ~Classify
  <2>1. report' = report /\ expected' = expected
    BY <1>4 DEF Next, Step, Begin, ListDest, ListSource, ReadLimit, SetLimit, Take,
                StopSource, RelistSource, StartDest, FailCurrent, Kill, Abort, Forget,
                Environment, SourceStopLands, SourceSettles, UserStopsSource,
                UserStartsSource, DestSettles, DestLosesFiles, vars, process, snapshot,
                TypeOK, Report, EmptyReport
  <2>2. Handed(h) /\ h \in Hashes
    BY <2>1 DEF HandInv, EndedIsHanded, IsComplete, TypeOK
  <2> QED
    BY <2>2, HandedStable
<1> QED
  BY <1>1, <1>2, <1>3, <1>4

LEMMA UnderBreakerStep ==
  ASSUME TypeOK, HandInv, [Next]_vars
  PROVE  UnderBreaker'
<1> SUFFICES ASSUME pc' \in {"next", "stop", "relist", "start"}, candidates' # {}
             PROVE  limit' = CIRCUIT_BREAKER_BPS
  BY DEF UnderBreaker, LoopPCs
<1>1. CASE SetLimit
  BY <1>1 DEF SetLimit, Abort, Forget, Replies
<1>2. CASE ~SetLimit
  <2>1. pc \in {"next", "stop", "relist", "start"} /\ candidates # {} /\ limit' = limit
    BY <1>2 DEF Next, Step, Begin, ListDest, ListSource, Classify, ReadLimit, Take,
                StopSource, RelistSource, StartDest, FailCurrent, Finish, Kill, Abort,
                Forget, Environment, SourceStopLands, SourceSettles, UserStopsSource,
                UserStartsSource, DestSettles, DestLosesFiles, vars, process, work,
                clients
  <2> QED
    BY <2>1 DEF HandInv, UnderBreaker, LoopPCs
<1> QED
  BY <1>1, <1>2

(* The bookkeeping of a handoff agrees with the destination: what is left of  *)
(* the loop still holds its bytes, what is done runs, and nothing is started  *)
(* but under the breaker.                                                     *)
THEOREM HandInvariant == Spec => []HandInv
<1>1. TypeOK /\ HandInv /\ [Next]_vars => HandInv'
  BY ListedStep, LeftStep, DoneStep, EndsStep, EndedStep, UnderBreakerStep DEF HandInv
<1> QED
  BY <1>1, HandInit, TypeCorrect, PTL DEF Spec

(* What a successful run says is so, and stays so until the next run.         *)
THEOREM HandoffCompleteMeansHanded ==
  ASSUME "startSource" \notin Interference
  PROVE  Spec => []CompleteMeansHanded
<1>1. TypeOK /\ HandInv /\ CustodyInv => CompleteMeansHanded
  BY DEF HandInv, EndedIsHanded, CustodyInv, DestRunsAlone, CompleteMeansHanded, TypeOK,
         Handed, Running, IsSeeding, IsDownloading, IsBroken, IsStopped, SeedingStates,
         DownloadingStates, BrokenStates, StoppedStates
<1> QED
  BY <1>1, HandInvariant, CustodyInvariant, TypeCorrect, PTL

(* The program stops a source only for a destination that holds the bytes.    *)
THEOREM HandoffSilencesOnlyTheProven == Spec => SilencedOnlyWhenProven
<1>1. TypeOK /\ HandInv =>
        \A h \in Hashes : pc = "stop" /\ cur = h => Held(h)
  BY DEF HandInv, LeftIsHeld, TypeOK
<1>2. TypeOK /\ HandInv /\ [Next]_vars =>
        [\A h \in Hashes :
           pc = "stop" /\ cur = h /\ stopping'[h] # stopping[h]
             => \/ IsStopped(dst[h].state) /\ IsPieceComplete(dst[h])
                \/ IsBroken(dst[h].state)]_vars
  BY <1>1 DEF Held
<1> QED
  BY <1>2, HandInvariant, TypeCorrect, PTL DEF Spec, SilencedOnlyWhenProven

(* Every start is under the breaker, whatever failed before it.               *)
THEOREM HandoffStartsThrottled == Spec => ThrottledStart
<1>1. TypeOK /\ HandInv /\ [Next]_vars =>
        [\A h \in Hashes :
           pc = "start" /\ dst'[h] # dst[h] => limit = CIRCUIT_BREAKER_BPS]_vars
  BY DEF HandInv, UnderBreaker, LoopPCs, TypeOK
<1> QED
  BY <1>1, HandInvariant, TypeCorrect, PTL DEF Spec, ThrottledStart
==============================================================================
