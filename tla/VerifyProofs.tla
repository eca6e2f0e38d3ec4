----------------------------- MODULE VerifyProofs -----------------------------
(***************************************************************************)
(* What the gate guarantees for any number of torrents in any states, any  *)
(* options, any number of failed calls and kills, and a client that may    *)
(* start what it has hashed.                                               *)
(***************************************************************************)
EXTENDS Verify, TLAPS

USE DestClientAssumption, VerifyAssumption

(* What each thing the client does leaves behind: which torrent it concerns,  *)
(* whether that runs afterwards, and whether it will start by itself.         *)
Others(h) == \A g \in Hashes \ {h} : dst'[g] = dst[g] /\ auto'[g] = auto[g]

LEMMA StoppedTorrent ==
  ASSUME NEW t \in Torrent
  PROVE  /\ AfterStop(t) \in Torrent
         /\ AfterStop(t).complete = t.complete
         /\ ~Running(AfterStop(t))
         /\ AfterStop(t).state = Absent <=> t.state = Absent
         /\ IsBroken(t.state) => AfterStop(t) = t
         /\ ~IsBroken(t.state) /\ t.state # Absent => IsStopped(AfterStop(t).state)
<1> USE DEF Torrent, State, ListedStates, StoppedStates, BrokenStates, Running, IsSeeding,
            IsDownloading, IsBroken, IsStopped, SeedingStates, DownloadingStates, Absent
<1>1. CASE t.state \in BrokenStates \cup {Absent}
  BY <1>1 DEF AfterStop
<1>2. CASE t.state \notin BrokenStates \cup {Absent}
  <2>1. AfterStop(t) =
          [t EXCEPT !.state = IF t.complete THEN "stoppedUP" ELSE "stoppedDL"]
    BY <1>2 DEF AfterStop
  <2> QED
    BY <1>2, <2>1
<1> QED
  BY <1>1, <1>2

LEMMA StartedTorrent ==
  ASSUME NEW t \in Torrent
  PROVE  /\ AfterStart(t) \in Torrent
         /\ AfterStart(t).complete = t.complete
         /\ AfterStart(t).state = Absent <=> t.state = Absent
         /\ ~IsChecking(t.state) => ~IsChecking(AfterStart(t).state)
<1> USE DEF Torrent, State, ListedStates, SeedingStates, DownloadingStates, CheckingStates,
            IsChecking, IsStopped, StoppedStates, Absent
<1>1. CASE IsStopped(t.state)
  <2>1. AfterStart(t) =
          [t EXCEPT !.state = IF t.complete THEN "stalledUP" ELSE "stalledDL"]
    BY <1>1 DEF AfterStart
  <2> QED
    BY <1>1, <2>1
<1>2. CASE ~IsStopped(t.state)
  BY <1>2 DEF AfterStart
<1> QED
  BY <1>1, <1>2

LEMMA SomeTorrents ==
  /\ AbsentTorrent \in Torrent /\ Hashing \in Torrent
  /\ [state |-> "stoppedDL", complete |-> FALSE] \in Torrent
  /\ [state |-> "stalledUP", complete |-> TRUE] \in Torrent
  /\ IsChecking(Hashing.state) /\ Hashing.state # Absent /\ ~Running(Hashing)
  BY DEF AbsentTorrent, Hashing, Torrent, State, ListedStates, StoppedStates,
         CheckingStates, SeedingStates, IsChecking, Absent, Running, IsSeeding,
         IsDownloading, DownloadingStates

(* torrents/recheck: a torrent that is listed is being hashed.                *)
LEMMA RecheckLeaves ==
  ASSUME ClientTypeOK, NEW h \in Hashes, RecheckEffect(h)
  PROVE  /\ ClientTypeOK' /\ Others(h) /\ whole' = whole
         /\ dst[h].state = Absent => dst'[h] = dst[h] /\ auto'[h] = auto[h]
         /\ dst[h].state # Absent => dst'[h] = Hashing
<1>1. CASE dst[h].state = Absent
  BY <1>1 DEF RecheckEffect, ClientTypeOK, Others
<1>2. CASE dst[h].state # Absent
  BY <1>2, SomeTorrents DEF RecheckEffect, ClientTypeOK, Others
<1> QED
  BY <1>1, <1>2

(* The hash pass ends: what was not to start by itself is stopped, and the    *)
(* torrent is complete if its files are.                                      *)
LEMMA HashLeaves ==
  ASSUME ClientTypeOK, NEW h \in Hashes, HashEnds(h)
  PROVE  /\ ClientTypeOK' /\ Others(h) /\ whole' = whole
         /\ IsChecking(dst[h].state)
         /\ dst'[h].state # Absent /\ ~IsChecking(dst'[h].state)
         /\ dst'[h].complete = (h \in whole)
         /\ ~auto'[h]
         /\ ~auto[h] => IsStopped(dst'[h].state)
         /\ h \in whole => IsStopped(dst'[h].state) \/ IsSeeding(dst'[h].state)
<1> DEFINE stopped == AfterStop([dst[h] EXCEPT !.complete = h \in whole])
<1>1. /\ [dst[h] EXCEPT !.complete = h \in whole] \in Torrent
      /\ [dst[h] EXCEPT !.complete = h \in whole].complete = (h \in whole)
      /\ [dst[h] EXCEPT !.complete = h \in whole].state = dst[h].state
  <2>1. ASSUME NEW c \in BOOLEAN
        PROVE  /\ [dst[h] EXCEPT !.complete = c] \in Torrent
               /\ [dst[h] EXCEPT !.complete = c].complete = c
               /\ [dst[h] EXCEPT !.complete = c].state = dst[h].state
    BY DEF ClientTypeOK, Torrent
  <2>2. (h \in whole) \in BOOLEAN
    OBVIOUS
  <2> QED
    BY <2>1, <2>2, Zenon
<1>2. IsChecking(dst[h].state) /\ dst[h].state # Absent /\ ~IsBroken(dst[h].state)
  BY DEF HashEnds, IsChecking, IsBroken, CheckingStates, BrokenStates, Absent
<1>3. /\ stopped \in Torrent /\ IsStopped(stopped.state) /\ stopped.state # Absent
      /\ stopped.complete = (h \in whole)
  BY <1>1, <1>2, StoppedTorrent
<1> HIDE DEF stopped
<1>4. ~IsChecking(stopped.state)
  BY <1>3 DEF IsStopped, StoppedStates, IsChecking, CheckingStates
<1>5. PICK t \in {stopped, AfterStart(stopped)} :
        dst' = [dst EXCEPT ![h] = t] /\ (~auto[h] => t = stopped)
  BY DEF HashEnds, stopped, ClientTypeOK
<1>6. t \in Torrent /\ t.state # Absent /\ ~IsChecking(t.state)
      /\ t.complete = (h \in whole)
  BY <1>3, <1>4, <1>5, StartedTorrent
<1>7. auto' = [auto EXCEPT ![h] = FALSE] /\ whole' = whole
  BY DEF HashEnds
<1>8. h \in whole => IsStopped(t.state) \/ IsSeeding(t.state)
  <2>1. CASE t = stopped
    BY <1>3, <2>1
  <2>2. CASE t = AfterStart(stopped) /\ h \in whole
    <3>1. AfterStart(stopped) = [stopped EXCEPT !.state = "stalledUP"]
      BY <1>3, <2>2 DEF AfterStart
    <3> QED
      BY <1>3, <2>2, <3>1 DEF Torrent, IsSeeding, SeedingStates
  <2> QED
    BY <1>5, <2>1, <2>2
<1> QED
  BY <1>2, <1>3, <1>5, <1>6, <1>7, <1>8 DEF ClientTypeOK, Others

(* A download ends.                                                           *)
LEMMA DownloadLeaves ==
  ASSUME ClientTypeOK, NEW h \in Hashes, Downloads(h)
  PROVE  /\ ClientTypeOK' /\ Others(h) /\ whole' = whole \cup {h}
         /\ IsDownloading(dst[h].state)
         /\ dst'[h].state = "stalledUP" /\ dst'[h].complete
         /\ auto' = auto
<1>1. ~auto[h]
  BY DEF Downloads, ClientTypeOK, IsChecking, IsDownloading, CheckingStates,
         DownloadingStates
<1> QED
  BY <1>1, SomeTorrents DEF Downloads, ClientTypeOK, Others
------------------------------------------------------------------------------
(* The inductive invariant.  What the client calls complete is whole; a client *)
(* that shows rechecks at once has none to come; what the listing showed       *)
(* neither hashing nor downloading is unchanged unless this pass has kicked    *)
(* it; what it showed complete is proven, and not even a recheck that begins   *)
(* late can undo that; and with --recheck no torrent is left stopped and       *)
(* incomplete although its files are there, but those still to be kicked.      *)
Hashed(h) == IsStopped(dst[h].state) /\ ~IsPieceComplete(dst[h]) => h \notin whole

Proven(h) ==
  /\ h \in whole
  /\ IsStopped(dst[h].state) \/ IsSeeding(dst[h].state) \/ IsChecking(dst[h].state)

CompleteIsWhole == \A h \in Hashes : dst[h].complete => h \in whole
NothingToCome == ~late => accepted = {}
SeenStays ==
  pc = "kick" /\ ~late =>
    \A h \in Hashes \ kicked :
      /\ ~IsChecking(seen[h].state) /\ ~IsDownloading(seen[h].state) => dst[h] = seen[h]
      /\ IsDownloading(seen[h].state) => Running(dst[h])
SeenProven ==
  pc = "kick" =>
    \A h \in Hashes :
      seen[h].complete /\ (IsStopped(seen[h].state) \/ IsSeeding(seen[h].state)) => Proven(h)
HashedSoFar ==
  pc # "idle" /\ (kick => pc = "kick") /\ opts.recheck /\ ~late
    => \A h \in expected \ toKick : Hashed(h)
EndsLast == pc # "idle" => report.end = "running"

VerifyInv ==
  /\ CompleteIsWhole /\ NothingToCome /\ SeenStays /\ SeenProven /\ HashedSoFar /\ EndsLast
  /\ ReadyMeansProven /\ FailsForAReason
------------------------------------------------------------------------------
(* What a step may do to the torrents: one of these to one torrent.           *)
ClientStep(h) ==
  \/ HashEnds(h) \/ Downloads(h)
  \/ RecheckEffect(h) /\ (h \in accepted \/ (pc = "kick" /\ h \in toKick))
  \/ ImportsAgain(h)

LEMMA ImportsAgainLeaves ==
  ASSUME TypeOK, NEW h \in Hashes, ImportsAgain(h)
  PROVE  ClientTypeOK' /\ Others(h) /\ whole' = whole /\ ~dst'[h].complete
<1>1. /\ Hashing \in Torrent /\ AfterStop(Hashing) \in Torrent
      /\ ~Hashing.complete /\ ~AfterStop(Hashing).complete
  BY SomeTorrents, StoppedTorrent DEF Hashing
<1>2. PICK t \in {Hashing, AfterStop(Hashing)} : dst' = [dst EXCEPT ![h] = t]
  BY DEF ImportsAgain
<1>3. auto' = [auto EXCEPT ![h] = FALSE] /\ whole' = whole
  BY DEF ImportsAgain
<1> QED
  BY <1>1, <1>2, <1>3 DEF TypeOK, ClientTypeOK, Others

LEMMA ClientStepLeaves ==
  ASSUME TypeOK, NEW h \in Hashes, ClientStep(h)
  PROVE  ClientTypeOK' /\ Others(h) /\ (\A g \in Hashes \ {h} : g \in whole' <=> g \in whole)
  BY HashLeaves, DownloadLeaves, RecheckLeaves, ImportsAgainLeaves DEF ClientStep, TypeOK

LEMMA ClientMoves ==
  ASSUME TypeOK, [Next]_vars
  PROVE  UNCHANGED client \/ \E h \in Hashes : ClientStep(h)
<1>1. ASSUME NEW h \in Hashes, Kick(h)
      PROVE  UNCHANGED client \/ ClientStep(h)
  BY <1>1 DEF Kick, ClientStep
<1>2. ASSUME NEW h \in Hashes, RecheckBegins(h) PROVE ClientStep(h)
  BY <1>2 DEF RecheckBegins, ClientStep
<1>3. ASSUME NEW h \in Hashes, ImportsAgain(h) \/ ClientHashEnds(h) \/ ClientDownloads(h)
      PROVE  ClientStep(h)
  BY <1>3 DEF ClientHashEnds, ClientDownloads, ClientStep
<1>4. CASE Begin \/ List \/ Count \/ Kill \/ UNCHANGED vars
  BY <1>4 DEF Begin, List, Count, Kill, vars, world
<1> QED
  BY <1>1, <1>2, <1>3, <1>4 DEF Next, Step, Environment

LEMMA ClientTypeStep == ASSUME TypeOK, [Next]_vars PROVE ClientTypeOK'
<1>1. CASE UNCHANGED client
  BY <1>1 DEF TypeOK, client, ClientTypeOK
<1> QED
  BY <1>1, ClientMoves, ClientStepLeaves

(* The same, seen from one torrent.                                           *)
LEMMA TorrentMoves ==
  ASSUME TypeOK, [Next]_vars, NEW h \in Hashes
  PROVE  \/ dst'[h] = dst[h] /\ auto'[h] = auto[h] /\ (h \in whole' <=> h \in whole)
         \/ ClientStep(h)
  BY ClientMoves, ClientStepLeaves DEF Others, client

LEMMA Charged ==
  ASSUME TypeOK, NEW reply, Charge(reply)
  PROVE  faults' \in 0..MaxFaults
  BY DEF TypeOK, Charge
------------------------------------------------------------------------------
LEMMA InitType == Init => TypeOK
<1> SUFFICES ASSUME Init PROVE TypeOK
  OBVIOUS
<1>1. ClientTypeOK
  <2>1. dst \in [Hashes -> Torrent] /\ auto \in [Hashes -> BOOLEAN]
    BY DestClientAssumption DEF Init
  <2> QED
    BY <2>1 DEF Init, ClientTypeOK
<1>2. seen \in [Hashes -> Torrent]
  BY SomeTorrents DEF Init, NoTorrents
<1>3. report \in Report /\ opts \in Mode
  BY DEF Init, EmptyReport, Report, NoMode, Mode
<1>4. late \in BOOLEAN
  <2>1. LateRecheck \subseteq BOOLEAN /\ late \in LateRecheck
    BY Zenon DEF Init
  <2> QED
    BY <2>1, Zenon
<1>6. kick = FALSE /\ pc = "idle" /\ faults \in 0..MaxFaults
  BY DEF Init
<1>5. accepted = {} /\ expected = {} /\ toKick = {} /\ kicked = {}
  BY DEF Init
<1> QED
  BY <1>1, <1>2, <1>3, <1>4, <1>5, <1>6 DEF TypeOK

LEMMA EndType ==
  ASSUME TypeOK, NEW result \in Report, End(result), ClientTypeOK', late' = late,
         accepted' \subseteq Hashes, faults' \in 0..MaxFaults
  PROVE  TypeOK'
<1>1. seen' \in [Hashes -> Torrent]
  BY SomeTorrents DEF End, NoTorrents
<1> QED
  BY <1>1 DEF TypeOK, End

LEMMA AbortType ==
  ASSUME TypeOK, Abort, ClientTypeOK', late' = late, accepted' \subseteq Hashes,
         faults' \in 0..MaxFaults
  PROVE  TypeOK'
<1>1. [report EXCEPT !.end = "error"] \in Report
  BY DEF TypeOK, Report
<1> QED
  BY <1>1, EndType DEF Abort

(* Count, with its classes named.                                             *)
Missing == {h \in expected : seen[h].state = Absent}
Checking == {h \in expected : CountsAsChecking(h)}
Ready == {h \in expected \ (Missing \cup Checking) : IsReady(seen[h], opts.allowSeeding)}
Failed == expected \ (Missing \cup Checking \cup Ready)
Verdict(end) ==
  [end |-> end, ready |-> Ready, missing |-> Missing, checking |-> Checking, failed |-> Failed]

LEMMA Counted ==
  ASSUME Count
  PROVE  /\ pc = "kick" /\ toKick = {} /\ UNCHANGED <<world, faults>>
         /\ \/ /\ opts.wait /\ Checking # {} /\ kick' = FALSE /\ pc' = "list"
               /\ report' = Verdict("running") /\ seen' = NoTorrents /\ kicked' = {}
               /\ UNCHANGED <<opts, expected, toKick>>
            \/ /\ ~(opts.wait /\ Checking # {})
               /\ Failed = {} /\ Missing = {} /\ Checking = {}
               /\ End(Verdict("ok"))
            \/ /\ ~(opts.wait /\ Checking # {})
               /\ ~(Failed = {} /\ Missing = {} /\ Checking = {})
               /\ End(Verdict("incomplete"))
<1> DEFINE counted == Verdict("running")
<1>1. /\ pc = "kick" /\ toKick = {} /\ UNCHANGED <<world, faults>>
      /\ IF opts.wait /\ Checking # {}
           THEN /\ kick' = KickAgain /\ pc' = "list" /\ report' = counted
                /\ seen' = NoTorrents /\ kicked' = {}
                /\ UNCHANGED <<opts, expected, toKick>>
           ELSE End([counted EXCEPT !.end = IF IsComplete(counted) THEN "ok" ELSE "incomplete"])
  BY DEF Count, Verdict, Missing, Checking, Ready, Failed
<1>2. IsComplete(counted) <=> Failed = {} /\ Missing = {} /\ Checking = {}
  BY DEF IsComplete, Verdict
<1>3. \A end : [counted EXCEPT !.end = end] = Verdict(end)
  BY DEF Verdict
<1> HIDE DEF counted
<1> QED
  BY <1>1, <1>2, <1>3 DEF KickAgain, counted

LEMMA VerdictType ==
  ASSUME TypeOK, NEW end \in {"running", "ok", "incomplete"}
  PROVE  Verdict(end) \in Report
  BY DEF TypeOK, Verdict, Report, Missing, Checking, Ready, Failed

LEMMA StepType == TypeOK /\ [Next]_vars => TypeOK'
<1> SUFFICES ASSUME TypeOK, [Next]_vars PROVE TypeOK'
  OBVIOUS
<1>0. ClientTypeOK'
  BY ClientTypeStep
<1>1. CASE Begin
  <2>1. EmptyReport("running") \in Report
    BY DEF EmptyReport, Report
  <2> QED
    BY <1>0, <1>1, <2>1 DEF Begin, TypeOK, world, Mode
<1>2. CASE List
  <2>1. faults' \in 0..MaxFaults /\ UNCHANGED <<late, accepted>>
    BY <1>2, Charged DEF List, world
  <2>2. CASE Abort
    BY <1>0, <2>1, <2>2, AbortType DEF TypeOK
  <2>3. CASE ~Abort
    <3>1. /\ pc' = "kick" /\ seen' = dst /\ kicked' = {} /\ toKick' \subseteq HashesToRecheck(dst)
          /\ UNCHANGED <<opts, kick, expected, report>>
      BY <1>2, <2>3 DEF List
    <3>2. \A h \in toKick' : h \in expected /\ IsStopped(dst[h].state)
      BY <3>1 DEF HashesToRecheck
    <3>3. dst \in [Hashes -> Torrent]
      BY DEF TypeOK, ClientTypeOK
    <3> QED
      BY <1>0, <2>1, <3>1, <3>2, <3>3 DEF TypeOK
  <2> QED
    BY <2>2, <2>3
<1>3. ASSUME NEW h \in Hashes, Kick(h) PROVE TypeOK'
  <2>1. faults' \in 0..MaxFaults /\ late' = late /\ accepted' \subseteq Hashes
    BY <1>3, Charged DEF Kick, TypeOK
  <2>2. CASE Abort
    BY <1>0, <2>1, <2>2, AbortType
  <2>3. CASE ~Abort
    <3>1. /\ pc = "kick" /\ h \in toKick /\ toKick' = toKick \ {h} /\ kicked' = kicked \cup {h}
          /\ UNCHANGED <<pc, opts, kick, expected, seen, report>>
      BY <1>3, <2>3 DEF Kick
    <3> QED
      BY <1>0, <2>1, <3>1 DEF TypeOK
  <2> QED
    BY <2>2, <2>3
<1>4. CASE Count
  <2>1. UNCHANGED <<late, accepted, faults>>
    BY <1>4, Counted DEF world
  <2>2. CASE \E end \in {"ok", "incomplete"} : End(Verdict(end))
    <3>1. faults' \in 0..MaxFaults /\ accepted' \subseteq Hashes
      BY <2>1 DEF TypeOK
    <3> QED
      BY <1>0, <2>1, <2>2, <3>1, VerdictType, EndType
  <2>3. CASE ~(\E end \in {"ok", "incomplete"} : End(Verdict(end)))
    <3>1. seen' = NoTorrents /\ report' = Verdict("running") /\ kick' = FALSE
          /\ pc' = "list" /\ kicked' = {} /\ toKick = {} /\ UNCHANGED <<opts, expected, toKick>>
      BY <1>4, <2>3, Counted
    <3>2. seen' \in [Hashes -> Torrent] /\ report' \in Report
      BY <3>1, SomeTorrents, VerdictType DEF NoTorrents
    <3> QED
      BY <1>0, <2>1, <3>1, <3>2 DEF TypeOK
  <2> QED
    BY <2>2, <2>3
<1>5. CASE Kill
  <2>1. [report EXCEPT !.end = "killed"] \in Report
    BY DEF TypeOK, Report
  <2>2. faults' \in 0..MaxFaults /\ late' = late /\ accepted' \subseteq Hashes
    BY <1>5, Charged DEF Kill, TypeOK, world
  <2> QED
    BY <1>0, <1>5, <2>1, <2>2, EndType DEF Kill
<1>6. ASSUME NEW h \in Hashes, ImportsAgain(h) PROVE TypeOK'
  <2>1. EmptyReport("none") \in Report
    BY DEF EmptyReport, Report
  <2>2. faults' \in 0..MaxFaults
    BY <1>6, Charged DEF ImportsAgain
  <2> QED
    BY <1>0, <1>6, <2>1, <2>2 DEF ImportsAgain, TypeOK, pass
<1>7. ASSUME NEW h \in Hashes, RecheckBegins(h) \/ ClientHashEnds(h) \/ ClientDownloads(h)
      PROVE  TypeOK'
  BY <1>0, <1>7 DEF RecheckBegins, ClientHashEnds, ClientDownloads, TypeOK, process, pass
<1>8. CASE UNCHANGED vars
  BY <1>0, <1>8 DEF TypeOK, vars, world, process, pass
<1> QED
  BY <1>1, <1>2, <1>3, <1>4, <1>5, <1>6, <1>7, <1>8 DEF Next, Step, Environment

(* Every variable stays in its type, and a pass kicks only what its listing   *)
(* showed stopped, and nothing twice.                                         *)
THEOREM VerifyTypes == Spec => []TypeOK
  BY InitType, StepType, PTL DEF Spec
------------------------------------------------------------------------------
LEMMA VerifyInit == Init => VerifyInv
  BY DEF Init, VerifyInv, CompleteIsWhole, NothingToCome, SeenStays, SeenProven, HashedSoFar,
         EndsLast, ReadyMeansProven, FailsForAReason, EmptyReport

LEMMA WholeStep == ASSUME TypeOK, VerifyInv, [Next]_vars PROVE CompleteIsWhole'
<1> SUFFICES ASSUME NEW h \in Hashes, dst'[h].complete PROVE h \in whole'
  BY DEF CompleteIsWhole
<1>1. dst[h].complete => h \in whole
  BY DEF VerifyInv, CompleteIsWhole
<1>2. CASE HashEnds(h) \/ Downloads(h)
  <2>1. CASE HashEnds(h)
    <3>1. dst'[h].complete = (h \in whole) /\ whole' = whole
      BY <2>1, HashLeaves DEF TypeOK
    <3> QED
      BY <3>1, Zenon
  <2>2. CASE Downloads(h)
    BY <2>2, DownloadLeaves DEF TypeOK
  <2> QED
    BY <1>2, <2>1, <2>2
<1>3. CASE RecheckEffect(h)
  BY <1>1, <1>3, RecheckLeaves DEF TypeOK, Hashing
<1>4. CASE ImportsAgain(h)
  BY <1>4, ImportsAgainLeaves
<1>5. CASE dst'[h] = dst[h] /\ (h \in whole' <=> h \in whole)
  BY <1>1, <1>5, Zenon
<1> QED
  BY <1>2, <1>3, <1>4, <1>5, TorrentMoves, Zenon DEF ClientStep

(* A client that shows rechecks at once has none to take up later.            *)
LEMMA ToComeStep == ASSUME TypeOK, VerifyInv, [Next]_vars PROVE NothingToCome'
<1> SUFFICES ASSUME ~late' PROVE accepted' = {}
  BY DEF NothingToCome
<1>1. late' = late
  BY DEF Next, Step, Environment, Begin, List, Kick, Count, Kill, ImportsAgain, RecheckBegins,
         ClientHashEnds, ClientDownloads, vars, world
<1>2. accepted = {}
  BY <1>1 DEF VerifyInv, NothingToCome
<1>3. ASSUME NEW h \in Hashes, Kick(h) PROVE accepted' = {}
  BY <1>1, <1>2, <1>3 DEF Kick
<1> QED
  BY <1>2, <1>3
  DEF Next, Step, Environment, Begin, List, Count, Kill, ImportsAgain, RecheckBegins,
      ClientHashEnds, ClientDownloads, vars, world

(* One recheck call: its effect on the client, and on the pass.               *)
KickGoesOn(h) ==
  /\ toKick' = toKick \ {h} /\ kicked' = kicked \cup {h}
  /\ UNCHANGED <<pc, opts, kick, expected, seen, report>>
  /\ RecheckEffect(h) \/ late

LEMMA Kicked ==
  ASSUME NEW h \in Hashes, Kick(h)
  PROVE  /\ pc = "kick" /\ h \in toKick /\ late' = late
         /\ UNCHANGED client \/ RecheckEffect(h)
         /\ Abort \/ KickGoesOn(h)
<1>1. PICK reply \in Replies :
        /\ CASE reply = "refused" -> UNCHANGED <<client, accepted>>
             [] OTHER ->
                  \/ RecheckEffect(h) /\ accepted' = accepted \ {h}
                  \/ /\ late /\ ~IsChecking(dst[h].state)
                     /\ accepted' = accepted \cup {h}
                     /\ UNCHANGED client
        /\ IF reply = "ok"
             THEN /\ toKick' = toKick \ {h}
                  /\ kicked' = kicked \cup {h}
                  /\ UNCHANGED <<pc, opts, kick, expected, seen, report>>
             ELSE Abort
  BY DEF Kick
<1>2. pc = "kick" /\ h \in toKick /\ late' = late
  BY DEF Kick
<1>3. CASE reply = "ok"
  BY <1>1, <1>2, <1>3 DEF KickGoesOn
<1>4. CASE reply # "ok"
  BY <1>1, <1>2, <1>4
<1> QED
  BY <1>3, <1>4

LEMMA EndsStep == ASSUME TypeOK, VerifyInv, [Next]_vars PROVE EndsLast'
<1> USE DEF EndsLast, VerifyInv
<1>1. CASE Count
  <2>1. Verdict("running").end = "running"
    BY DEF Verdict
  <2> QED
    BY <1>1, <2>1, Counted DEF End
<1>2. ASSUME NEW h \in Hashes, Kick(h) PROVE EndsLast'
  BY <1>2, Kicked DEF KickGoesOn, Abort, End
<1>3. CASE Begin \/ List \/ Kill \/ UNCHANGED vars
  BY <1>3 DEF Begin, List, Kill, Abort, End, EmptyReport, vars, process
<1>4. CASE Environment
  BY <1>4 DEF Environment, ImportsAgain, RecheckBegins, ClientHashEnds, ClientDownloads, process
<1> QED
  BY <1>1, <1>2, <1>3, <1>4 DEF Next, Step

(* A pass goes on only by a kick, and by what the client does meanwhile.      *)
KickStep ==
  \E h \in Hashes : h \in toKick /\ KickGoesOn(h) /\ (RecheckEffect(h) \/ UNCHANGED client)
Meanwhile ==
  UNCHANGED client \/ \E h \in Hashes : HashEnds(h) \/ Downloads(h) \/ RecheckBegins(h)

LEMMA PassGoesOn ==
  ASSUME TypeOK, [Next]_vars, pc' = "kick", ~List
  PROVE  /\ pc = "kick" /\ UNCHANGED <<opts, kick, expected, seen, late, report>>
         /\ KickStep \/ (Meanwhile /\ toKick' = toKick /\ kicked' = kicked)
<1> USE DEF KickStep, Meanwhile
<1>1. ~Begin /\ ~Kill
  BY DEF Begin, Kill, End
<1>2. ~Count
  BY Counted DEF End
<1>3. ASSUME NEW g \in Hashes, Kick(g)
      PROVE  /\ g \in toKick /\ KickGoesOn(g) /\ pc = "kick" /\ late' = late
             /\ RecheckEffect(g) \/ UNCHANGED client
  BY <1>3, Kicked DEF Abort, End
<1>4. CASE \E g \in Hashes : Kick(g)
  BY <1>3, <1>4 DEF KickGoesOn
<1>5. CASE Environment \/ UNCHANGED vars
  <2>1. /\ UNCHANGED <<late, process>>
        /\ (\E g \in Hashes : HashEnds(g) \/ Downloads(g) \/ RecheckBegins(g)) \/ UNCHANGED client
    BY <1>5 DEF Environment, ImportsAgain, RecheckBegins, ClientHashEnds, ClientDownloads,
       vars, world, process, pass
  <2> QED
    BY <2>1 DEF process, pass
<1> QED
  BY <1>1, <1>2, <1>4, <1>5 DEF Next, Step

LEMMA SeenStep == ASSUME TypeOK, VerifyInv, [Next]_vars PROVE SeenStays'
<1> SUFFICES ASSUME pc' = "kick", ~late', NEW h \in Hashes, h \notin kicked'
             PROVE  /\ ~IsChecking(seen'[h].state) /\ ~IsDownloading(seen'[h].state)
                         => dst'[h] = seen'[h]
                    /\ IsDownloading(seen'[h].state) => Running(dst'[h])
  BY DEF SeenStays, Running
<1>1. CASE List
  BY <1>1 DEF List, Abort, End, world, client, Running
<1>2. CASE ~List
  <2>1. pc = "kick" /\ seen' = seen /\ ~late
    BY <1>2, PassGoesOn
  <2>2. accepted = {}
    BY <2>1 DEF VerifyInv, NothingToCome
  <2>3. CASE KickStep
    <3>1. PICK g \in Hashes : KickGoesOn(g) /\ (RecheckEffect(g) \/ UNCHANGED client)
      BY <2>3 DEF KickStep
    <3>2. h # g /\ h \notin kicked
      BY <3>1 DEF KickGoesOn
    <3>3. dst'[h] = dst[h]
      BY <3>1, <3>2, RecheckLeaves DEF TypeOK, Others, client
    <3> QED
      BY <2>1, <3>2, <3>3 DEF VerifyInv, SeenStays, Running
  <2>4. CASE Meanwhile /\ kicked' = kicked
    <3>1. /\ ~IsChecking(seen[h].state) /\ ~IsDownloading(seen[h].state) => dst[h] = seen[h]
          /\ IsDownloading(seen[h].state) => Running(dst[h])
      BY <2>1, <2>4 DEF VerifyInv, SeenStays
    <3>2. CASE UNCHANGED client
      BY <2>1, <3>1, <3>2 DEF client, Running
    <3>3. ASSUME NEW g \in Hashes, HashEnds(g) \/ Downloads(g), g # h
          PROVE  dst'[h] = dst[h]
      BY <3>3, HashLeaves, DownloadLeaves DEF TypeOK, Others
    <3>4. CASE HashEnds(h)
      <4>1. IsChecking(dst[h].state) /\ ~Running(dst[h])
        BY <3>4 DEF HashEnds, IsChecking, Running, IsSeeding, IsDownloading, CheckingStates,
           SeedingStates, DownloadingStates
      <4> QED
        BY <2>1, <3>1, <4>1
    <3>5. CASE Downloads(h)
      <4>1. IsDownloading(dst[h].state) /\ Running(dst'[h])
        BY <3>5, DownloadLeaves DEF TypeOK, Running, IsSeeding, SeedingStates
      <4> QED
        BY <2>1, <3>1, <4>1
    <3>6. ~(\E g \in Hashes : RecheckBegins(g))
      BY <2>2 DEF RecheckBegins
    <3> QED
      BY <2>1, <2>4, <3>1, <3>2, <3>3, <3>4, <3>5, <3>6 DEF Running, Meanwhile
  <2> QED
    BY <1>2, <2>3, <2>4, PassGoesOn
<1> QED
  BY <1>1, <1>2

(* No step of anyone, a recheck at any time included, takes a torrent's files *)
(* away or has it download what it has.                                       *)
LEMMA ProvenStays ==
  ASSUME TypeOK, [Next]_vars, NEW h \in Hashes, Proven(h)
  PROVE  Proven(h)'
<1>1. CASE dst'[h] = dst[h] /\ (h \in whole' <=> h \in whole)
  BY <1>1 DEF Proven
<1>2. CASE HashEnds(h)
  BY <1>2, HashLeaves DEF Proven, TypeOK
<1>3. ~Downloads(h)
  BY DEF Proven, Downloads, IsStopped, IsSeeding, IsChecking, IsDownloading, StoppedStates,
     SeedingStates, CheckingStates, DownloadingStates
<1>4. CASE RecheckEffect(h)
  BY <1>4, RecheckLeaves, SomeTorrents DEF Proven, TypeOK
<1>5. CASE ImportsAgain(h)
  <2>1. whole' = whole /\ dst' \in [Hashes -> Torrent]
    BY <1>5, ImportsAgainLeaves DEF ClientTypeOK
  <2>2. dst'[h] = Hashing \/ dst'[h] = AfterStop(Hashing)
    BY <1>5 DEF ImportsAgain, TypeOK, ClientTypeOK
  <2>3. ~IsBroken(Hashing.state)
    BY DEF Hashing, IsBroken, BrokenStates
  <2> QED
    BY <2>1, <2>2, <2>3, SomeTorrents, StoppedTorrent DEF Proven
<1> QED
  BY <1>1, <1>2, <1>3, <1>4, <1>5, TorrentMoves DEF ClientStep

LEMMA SeenProvenStep == ASSUME TypeOK, VerifyInv, [Next]_vars PROVE SeenProven'
<1> SUFFICES ASSUME pc' = "kick", NEW h \in Hashes, seen'[h].complete,
                    IsStopped(seen'[h].state) \/ IsSeeding(seen'[h].state)
             PROVE  Proven(h)'
  BY DEF SeenProven, Proven
<1>1. CASE List
  <2>1. seen' = dst /\ UNCHANGED client
    BY <1>1 DEF List, Abort, End, world
  <2> QED
    BY <2>1 DEF VerifyInv, CompleteIsWhole, Proven, client
<1>2. CASE ~List
  <2>1. pc = "kick" /\ seen' = seen
    BY <1>2, PassGoesOn
  <2>2. Proven(h)
    BY <2>1 DEF VerifyInv, SeenProven
  <2> QED
    BY <2>2, ProvenStays
<1> QED
  BY <1>1, <1>2

(* A recheck that reaches the client leaves nothing stopped and unproven.     *)
LEMMA RecheckHashes ==
  ASSUME TypeOK, NEW h \in Hashes, RecheckEffect(h)
  PROVE  Hashed(h)'
<1>1. dst'[h].state = Absent \/ dst'[h] = Hashing
  BY RecheckLeaves DEF TypeOK
<1> QED
  BY <1>1 DEF Hashed, Hashing, IsStopped, StoppedStates, Absent

(* A torrent that was hashed stays so, until import takes it up again.        *)
LEMMA HashedStays ==
  ASSUME TypeOK, [Next]_vars, pc # "idle", NEW h \in Hashes, Hashed(h)
  PROVE  Hashed(h)'
<1>1. CASE dst'[h] = dst[h] /\ (h \in whole' <=> h \in whole)
  BY <1>1 DEF Hashed, IsPieceComplete
<1>2. CASE HashEnds(h)
  <2>1. dst'[h].complete = (h \in whole) /\ whole' = whole
    BY <1>2, HashLeaves DEF TypeOK
  <2> QED
    BY <2>1, Zenon DEF Hashed, IsPieceComplete
<1>3. CASE Downloads(h)
  BY <1>3, DownloadLeaves DEF TypeOK, Hashed, IsPieceComplete
<1>4. CASE RecheckEffect(h)
  BY <1>4, RecheckHashes
<1> QED
  BY <1>1, <1>2, <1>3, <1>4, TorrentMoves DEF ClientStep, ImportsAgain

LEMMA HashedStep == ASSUME TypeOK, VerifyInv, [Next]_vars PROVE HashedSoFar'
<1> SUFFICES ASSUME pc' # "idle", kick' => pc' = "kick", opts'.recheck, ~late',
                    NEW h \in expected' \ toKick'
             PROVE  Hashed(h)'
  BY DEF HashedSoFar, Hashed
<1>1. h \in Hashes
  BY StepType DEF TypeOK
<1>2. late' = late
  BY DEF Next, Step, Environment, Begin, List, Kick, Count, Kill, ImportsAgain, RecheckBegins,
         ClientHashEnds, ClientDownloads, vars, world
<1>3. ~Begin /\ ~Kill
  BY DEF Begin, Kill, End
<1>4. /\ UNCHANGED <<opts, expected>> /\ pc # "idle"
  <2>1. CASE Count
    BY <2>1, Counted DEF End
  <2>2. ASSUME NEW g \in Hashes, Kick(g) PROVE UNCHANGED <<opts, expected>> /\ pc # "idle"
    BY <2>2, Kicked DEF KickGoesOn, Abort, End
  <2>3. CASE List \/ Environment \/ UNCHANGED vars
    BY <2>3 DEF List, Abort, End, Environment, ImportsAgain, RecheckBegins, ClientHashEnds,
       ClientDownloads, vars, process, pass
  <2> QED
    BY <1>3, <2>1, <2>2, <2>3 DEF Next, Step
<1>5. SUFFICES Hashed(h) \/ Hashed(h)'
  BY <1>1, <1>4, HashedStays
<1>6. (kick => pc = "kick") => \A g \in expected \ toKick : Hashed(g)
  BY <1>2, <1>4 DEF VerifyInv, HashedSoFar
<1>7. CASE List
  <2>1. /\ pc = "list" /\ pc' = "kick" /\ kick' = kick
        /\ toKick' = IF kick THEN HashesToRecheck(dst) ELSE {}
    BY <1>4, <1>7 DEF List, Abort, End
  <2>2. CASE kick
    BY <1>4, <2>1, <2>2 DEF HashesToRecheck, Hashed
  <2>3. CASE ~kick
    BY <1>4, <1>6, <2>1, <2>3 DEF TypeOK
  <2> QED
    BY <2>2, <2>3
<1>8. CASE Count
  <2>1. pc = "kick" /\ toKick = {}
    BY <1>8, Counted
  <2> QED
    BY <1>4, <1>6, <2>1
<1>9. ASSUME NEW g \in Hashes, Kick(g) PROVE Hashed(h) \/ Hashed(h)'
  <2>1. /\ pc = "kick" /\ toKick' = toKick \ {g} /\ (RecheckEffect(g) \/ late)
    BY <1>9, Kicked DEF KickGoesOn, Abort, End
  <2>2. CASE h = g
    BY <1>1, <1>2, <2>1, <2>2, RecheckHashes
  <2>3. CASE h # g
    BY <1>4, <1>6, <2>1, <2>3
  <2> QED
    BY <2>2, <2>3
<1>10. CASE Environment \/ UNCHANGED vars
  <2>1. UNCHANGED <<pc, kick, toKick>>
    BY <1>4, <1>10 DEF Environment, ImportsAgain, RecheckBegins, ClientHashEnds,
       ClientDownloads, vars, process, pass
  <2> QED
    BY <1>4, <1>6, <2>1
<1> QED
  BY <1>3, <1>7, <1>8, <1>9, <1>10 DEF Next, Step

(* A run that ended, and that nothing has put out of date since.              *)
LEMMA VerdictKept ==
  ASSUME TypeOK, VerifyInv, [Next]_vars, ~Count, report'.end \in {"ok", "incomplete"}
  PROVE  /\ pc = "idle" /\ UNCHANGED <<report, opts, expected, late>>
         /\ Meanwhile
<1>1. ~Begin /\ ~Kill
  BY DEF Begin, Kill, End, EmptyReport, TypeOK, Report
<1>2. ~List /\ ~(\E h \in Hashes : Kick(h))
  <2>2. CASE List
    BY <2>2 DEF List, Abort, End, TypeOK, Report, VerifyInv, EndsLast
  <2>3. ASSUME NEW h \in Hashes, Kick(h) PROVE FALSE
    BY <2>3, Kicked DEF KickGoesOn, Abort, End, TypeOK, Report, VerifyInv, EndsLast
  <2> QED
    BY <2>2, <2>3
<1>3. ~(\E h \in Hashes : ImportsAgain(h))
  BY DEF ImportsAgain, EmptyReport
<1>4. /\ UNCHANGED <<report, opts, expected, late, pc>>
      /\ Meanwhile
  BY <1>1, <1>2, <1>3 DEF Meanwhile, Next, Step, Environment, RecheckBegins, ClientHashEnds,
     ClientDownloads, vars, world, process, pass
<1> QED
  BY <1>4 DEF VerifyInv, EndsLast, TypeOK

(* What is ready: with a client that shows a recheck at once it is stopped or *)
(* seeds as was allowed, and a late one may be hashing it again.              *)
ReadyNow(h) ==
  /\ IsStopped(dst[h].state) \/ (IsSeeding(dst[h].state) /\ opts.allowSeeding)
  /\ ~auto[h]
ReadyLate(h) == late /\ (IsChecking(dst[h].state) \/ IsSeeding(dst[h].state))

LEMMA ProvenIsReady ==
  ASSUME ClientTypeOK, late, NEW h \in Hashes, Proven(h)
  PROVE  h \in whole /\ (ReadyNow(h) \/ ReadyLate(h))
<1>1. IsStopped(dst[h].state) => ~IsChecking(dst[h].state)
  BY DEF IsStopped, IsChecking, StoppedStates, CheckingStates
<1> QED
  BY <1>1 DEF Proven, ReadyNow, ReadyLate, ClientTypeOK

LEMMA ReadyIsProven ==
  ASSUME VerifyInv, report.end = "ok", NEW h \in expected
  PROVE  Proven(h) /\ (ReadyNow(h) \/ ReadyLate(h))
  BY DEF VerifyInv, ReadyMeansProven, Proven, ReadyNow, ReadyLate

(* The verdict of a pass that kicked nothing it did not wait for: what was    *)
(* seen ready is ready now, and stays so.                                     *)
LEMMA ReadyStep == ASSUME TypeOK, VerifyInv, [Next]_vars PROVE ReadyMeansProven'
<1> SUFFICES ASSUME report'.end = "ok", NEW h \in expected'
             PROVE  h \in whole' /\ (ReadyNow(h)' \/ ReadyLate(h)')
  BY DEF ReadyMeansProven, ReadyNow, ReadyLate
<1>1. h \in Hashes /\ ClientTypeOK'
  BY StepType DEF TypeOK
<1>2. CASE Count
  <2>1. /\ pc = "kick" /\ UNCHANGED <<client, late, opts, expected>>
        /\ Failed = {} /\ Missing = {} /\ Checking = {}
    <3>1. Verdict("running").end # "ok" /\ Verdict("incomplete").end # "ok"
      BY DEF Verdict
    <3> QED
      BY <1>2, <3>1, Counted DEF End, world
  <2>2. h \in Ready
    BY <2>1 DEF Failed
  <2>3. /\ seen[h].complete /\ h \notin kicked
        /\ IsStopped(seen[h].state) \/ (IsSeeding(seen[h].state) /\ opts.allowSeeding)
    BY <2>1, <2>2 DEF Ready, Missing, Checking, CountsAsChecking, IsReady, IsPieceComplete
  <2>4. h \in whole /\ (ReadyNow(h) \/ ReadyLate(h))
    <3>1. CASE late
      <4>1. Proven(h)
        BY <1>1, <2>1, <2>3 DEF VerifyInv, SeenProven
      <4> QED
        BY <1>1, <3>1, <4>1, ProvenIsReady DEF TypeOK
    <3>2. CASE ~late
      <4>1. ~IsChecking(seen[h].state) /\ ~IsDownloading(seen[h].state)
        BY <2>3 DEF IsStopped, IsSeeding, IsChecking, IsDownloading, StoppedStates,
           SeedingStates, CheckingStates, DownloadingStates
      <4>2. dst[h] = seen[h]
        BY <1>1, <2>1, <2>3, <3>2, <4>1 DEF VerifyInv, SeenStays
      <4> QED
        BY <1>1, <2>3, <4>1, <4>2
        DEF VerifyInv, CompleteIsWhole, TypeOK, ClientTypeOK, ReadyNow
    <3> QED
      BY <3>1, <3>2
  <2> QED
    BY <2>1, <2>4 DEF client, ReadyNow, ReadyLate
<1>3. CASE ~Count
  <2>1. /\ UNCHANGED <<report, opts, expected, late>>
        /\ Meanwhile
    BY <1>3, VerdictKept
  <2>2. Proven(h) /\ (ReadyNow(h) \/ ReadyLate(h))
    BY <2>1, ReadyIsProven
  <2>3. CASE late
    <3>1. Proven(h)' /\ late'
      BY <1>1, <2>1, <2>2, <2>3, ProvenStays
    <3> QED
      BY <1>1, <3>1 DEF Proven, ReadyNow, ReadyLate, ClientTypeOK, IsStopped, IsChecking,
         StoppedStates, CheckingStates
  <2>4. CASE ~late
    <3>1. h \in whole /\ ReadyNow(h)
      BY <2>2, <2>4 DEF Proven, ReadyLate
    <3>2. ~(\E g \in Hashes : RecheckBegins(g))
      BY <2>4 DEF RecheckBegins, VerifyInv, NothingToCome
    <3>3. ~HashEnds(h) /\ ~Downloads(h)
      BY <3>1 DEF ReadyNow, HashEnds, Downloads, IsStopped, IsSeeding, IsChecking,
         IsDownloading, StoppedStates, SeedingStates, CheckingStates, DownloadingStates
    <3>4. dst'[h] = dst[h] /\ auto'[h] = auto[h] /\ h \in whole'
      <4>1. ASSUME NEW g \in Hashes, HashEnds(g) \/ Downloads(g), g # h
            PROVE  dst'[h] = dst[h] /\ auto'[h] = auto[h] /\ h \in whole'
        BY <1>1, <3>1, <4>1, HashLeaves, DownloadLeaves DEF TypeOK, Others
      <4>2. CASE UNCHANGED client
        BY <3>1, <4>2 DEF client
      <4> QED
        BY <2>1, <3>2, <3>3, <4>1, <4>2 DEF Meanwhile
    <3> QED
      BY <2>1, <3>1, <3>4 DEF ReadyNow
  <2> QED
    BY <2>3, <2>4
<1> QED
  BY <1>2, <1>3

Reason(h) ==
  h \notin whole \/ dst[h].state \in OtherStates \cup {Absent} \/ Running(dst[h])

(* A reason does not go away by itself: what a running torrent lacks it may   *)
(* fetch, but then it is running still.                                       *)
LEMMA ReasonStays ==
  ASSUME TypeOK, NEW h \in Hashes, Reason(h),
         UNCHANGED client \/ \E g \in Hashes : HashEnds(g) \/ Downloads(g)
  PROVE  Reason(h)'
<1>1. CASE UNCHANGED client
  BY <1>1 DEF client, Reason, Running
<1>2. ASSUME NEW g \in Hashes, HashEnds(g) PROVE Reason(h)'
  <2>1. whole' = whole
    BY <1>2, HashLeaves DEF TypeOK
  <2>2. g # h => dst'[h] = dst[h]
    BY <1>2, HashLeaves DEF TypeOK, Others
  <2>3. CASE g = h
    <3>1. h \notin whole
      BY <1>2, <2>3 DEF HashEnds, Reason, Running, IsChecking, IsSeeding, IsDownloading,
         CheckingStates, SeedingStates, DownloadingStates, OtherStates, BrokenStates, Absent
    <3> QED
      BY <2>1, <3>1 DEF Reason
  <2>4. CASE g # h
    BY <2>1, <2>2, <2>4 DEF Reason, Running
  <2> QED
    BY <2>3, <2>4
<1>3. ASSUME NEW g \in Hashes, Downloads(g) PROVE Reason(h)'
  <2>1. CASE g = h
    <3>1. Running(dst'[h])
      BY <1>3, <2>1, DownloadLeaves DEF TypeOK, Running, IsSeeding, SeedingStates
    <3> QED
      BY <3>1 DEF Reason, Running
  <2>2. CASE g # h
    <3>1. dst'[h] = dst[h] /\ (h \in whole' <=> h \in whole)
      BY <1>3, <2>2, DownloadLeaves DEF TypeOK, Others
    <3> QED
      BY <3>1 DEF Reason, Running
  <2> QED
    BY <2>1, <2>2
<1> QED
  BY <1>1, <1>2, <1>3

LEMMA ReasonStep == ASSUME TypeOK, VerifyInv, [Next]_vars PROVE FailsForAReason'
<1> SUFFICES ASSUME report'.end = "incomplete", opts'.recheck, opts'.wait, ~late'
             PROVE  \E h \in expected' : Reason(h)'
  BY DEF FailsForAReason, Reason
<1>1. CASE Count
  <2>1. /\ pc = "kick" /\ toKick = {} /\ UNCHANGED <<client, late, opts, expected>>
        /\ Checking = {} /\ (Failed # {} \/ Missing # {})
    <3>1. Verdict("running").end # "incomplete" /\ Verdict("ok").end # "incomplete"
      BY DEF Verdict
    <3>2. /\ pc = "kick" /\ toKick = {} /\ UNCHANGED <<world>>
          /\ ~(opts.wait /\ Checking # {}) /\ End(Verdict("incomplete"))
          /\ ~(Failed = {} /\ Missing = {} /\ Checking = {})
      BY <1>1, <3>1, Counted DEF End
    <3> QED
      BY <3>2 DEF End, world
  <2>2. PICK h \in expected : h \in Failed \/ h \in Missing
    BY <2>1 DEF Failed, Missing
  <2>3. h \in Hashes /\ dst[h] \in Torrent
    BY DEF TypeOK, ClientTypeOK
  <2>4. Hashed(h)
    BY <2>1 DEF VerifyInv, HashedSoFar
  <2>5. seen[h].state = Absent \/ (~IsChecking(seen[h].state) /\ h \notin kicked)
    BY <2>1 DEF Checking, CountsAsChecking
  <2>6. h \notin kicked
    BY <2>5 DEF TypeOK, IsStopped, StoppedStates, Absent
  <2>7. /\ IsDownloading(seen[h].state) => Running(dst[h])
        /\ ~IsChecking(seen[h].state) /\ ~IsDownloading(seen[h].state) => dst[h] = seen[h]
    BY <2>1, <2>3, <2>6 DEF VerifyInv, SeenStays
  <2>8. Reason(h)
    <3>1. CASE seen[h].state = Absent
      BY <2>7, <3>1 DEF Reason, IsChecking, IsDownloading, CheckingStates, DownloadingStates,
         Absent
    <3>2. CASE IsDownloading(seen[h].state)
      BY <2>7, <3>2 DEF Reason
    <3>3. CASE seen[h].state # Absent /\ ~IsDownloading(seen[h].state)
      <4>1. dst[h] = seen[h] /\ ~IsChecking(dst[h].state)
        BY <2>5, <2>7, <3>3
      <4>2. CASE IsStopped(dst[h].state)
        <5>1. h \in Failed /\ ~IsReady(dst[h], opts.allowSeeding)
          BY <2>1, <2>2, <3>3, <4>1 DEF Missing, Failed, Ready
        <5>2. ~dst[h].complete
          BY <4>2, <5>1 DEF IsReady, IsPieceComplete
        <5> QED
          BY <2>4, <4>2, <5>2 DEF Hashed, Reason, IsPieceComplete
      <4>3. CASE ~IsStopped(dst[h].state)
        BY <2>3, <4>1, <4>3 DEF Reason, Running, Torrent, State, ListedStates, IsStopped,
           IsChecking, IsSeeding, IsDownloading
      <4> QED
        BY <4>2, <4>3
    <3> QED
      BY <3>1, <3>2, <3>3
  <2>9. Reason(h)'
    BY <2>1, <2>3, <2>8, ReasonStays
  <2> QED
    BY <2>1, <2>9
<1>2. CASE ~Count
  <2>1. /\ UNCHANGED <<report, opts, expected, late>>
        /\ Meanwhile
    BY <1>2, VerdictKept
  <2>2. PICK h \in expected : Reason(h)
    BY <2>1 DEF VerifyInv, FailsForAReason, Reason
  <2>3. ~(\E g \in Hashes : RecheckBegins(g))
    BY <2>1 DEF RecheckBegins, VerifyInv, NothingToCome
  <2>4. h \in Hashes
    BY DEF TypeOK
  <2>5. Reason(h)'
    BY <2>1, <2>2, <2>3, <2>4, ReasonStays DEF Meanwhile
  <2> QED
    BY <2>1, <2>5
<1> QED
  BY <1>1, <1>2

(* In the middle of a pass the listing is out of date only in the torrents    *)
(* this pass has kicked, and a torrent with all its files that --recheck has  *)
(* hashed has not been left incomplete.                                       *)
THEOREM VerifyInvariant == Spec => []VerifyInv
<1>1. TypeOK /\ VerifyInv /\ [Next]_vars => VerifyInv'
  BY WholeStep, ToComeStep, SeenStep, SeenProvenStep, HashedStep, EndsStep, ReadyStep,
     ReasonStep
  DEF VerifyInv
<1> QED
  BY <1>1, VerifyInit, VerifyTypes, PTL DEF Spec

(* The gate: success means that every torrent has all its files, whatever was *)
(* hashed, started or cancelled between listing and verdict.  It is stopped,  *)
(* or seeds as was allowed; with a client that takes up rechecks late it may  *)
(* be hashed, and started, once more, but never downloads.                    *)
THEOREM VerifySuccessIsProof == Spec => []ReadyMeansProven
<1>1. VerifyInv => ReadyMeansProven
  BY DEF VerifyInv
<1> QED
  BY <1>1, VerifyInvariant, PTL

(* verify --recheck --wait does not fail because of what it set off itself.   *)
THEOREM VerifyFailsForAReason == Spec => []FailsForAReason
<1>1. VerifyInv => FailsForAReason
  BY DEF VerifyInv
<1> QED
  BY <1>1, VerifyInvariant, PTL
===============================================================================
