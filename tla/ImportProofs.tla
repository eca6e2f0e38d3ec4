----------------------------- MODULE ImportProofs -----------------------------
(***************************************************************************)
(* What Import guarantees for any number of torrents, any options, any     *)
(* client that may start what it has hashed and cancel what it is told to  *)
(* stop, and any number of failed calls and kills.                         *)
(***************************************************************************)
EXTENDS Import, TLAPS

USE DestClientAssumption, ImportAssumption, NoHashAssumption

(* What each thing the client does leaves behind: which torrent it concerns,  *)
(* whether that runs afterwards, and whether it will start by itself.         *)
Others(h) == \A g \in Hashes \ {h} : dst'[g] = dst[g] /\ auto'[g] = auto[g]

LEMMA StoppedTorrent ==
  ASSUME NEW t \in Torrent
  PROVE  /\ AfterStop(t) \in Torrent
         /\ AfterStop(t).complete = t.complete
         /\ ~Running(AfterStop(t))
         /\ AfterStop(t).state = Absent <=> t.state = Absent
         /\ IsBroken(t.state) => AfterStop(t) = t
         /\ ~IsBroken(t.state) /\ t.state # Absent => IsStopped(AfterStop(t).state)
<1> USE DEF Torrent, State, ListedStates, StoppedStates, BrokenStates, Running, IsSeeding,
            IsDownloading, IsBroken, IsStopped, SeedingStates, DownloadingStates, Absent
<1>1. CASE t.state \in BrokenStates \cup {Absent}
  BY <1>1 DEF AfterStop
<1>2. CASE t.state \notin BrokenStates \cup {Absent}
  <2>1. AfterStop(t) =
          [t EXCEPT !.state = IF t.complete THEN "stoppedUP" ELSE "stoppedDL"]
    BY <1>2 DEF AfterStop
  <2> QED
    BY <1>2, <2>1
<1> QED
  BY <1>1, <1>2

LEMMA StartedTorrent ==
  ASSUME NEW t \in Torrent
  PROVE  /\ AfterStart(t) \in Torrent
         /\ AfterStart(t).complete = t.complete
         /\ AfterStart(t).state = Absent <=> t.state = Absent
         /\ ~IsChecking(t.state) => ~IsChecking(AfterStart(t).state)
<1> USE DEF Torrent, State, ListedStates, SeedingStates, DownloadingStates, CheckingStates,
            IsChecking, IsStopped, StoppedStates, Absent
<1>1. CASE IsStopped(t.state)
  <2>1. AfterStart(t) =
          [t EXCEPT !.state = IF t.complete THEN "stalledUP" ELSE "stalledDL"]
    BY <1>1 DEF AfterStart
  <2> QED
    BY <1>1, <2>1
<1>2. CASE ~IsStopped(t.state)
  BY <1>2 DEF AfterStart
<1> QED
  BY <1>1, <1>2

LEMMA SomeTorrents ==
  /\ AbsentTorrent \in Torrent /\ Hashing \in Torrent
  /\ [state |-> "stoppedDL", complete |-> FALSE] \in Torrent
  /\ [state |-> "stalledUP", complete |-> TRUE] \in Torrent
  /\ IsChecking(Hashing.state) /\ Hashing.state # Absent /\ ~Running(Hashing)
  BY DEF AbsentTorrent, Hashing, Torrent, State, ListedStates, StoppedStates,
         CheckingStates, SeedingStates, IsChecking, Absent, Running, IsSeeding,
         IsDownloading, DownloadingStates

(* torrents/add: the torrent is listed then, stopped or being hashed.         *)
LEMMA AddLeaves ==
  ASSUME ClientTypeOK, NEW h \in Hashes, AddEffect(h)
  PROVE  /\ ClientTypeOK' /\ Others(h) /\ whole' = whole
         /\ dst'[h].state # Absent
         /\ dst'[h] = dst[h] \/ ~Running(dst'[h])
         /\ dst'[h] = dst[h] \/ ~dst'[h].complete
<1> DEFINE Added == [state |-> "stoppedDL", complete |-> FALSE]
<1>1. Added \in Torrent /\ ~Running(Added) /\ ~IsChecking(Added.state)
      /\ Added.state # Absent /\ ~Added.complete
  BY SomeTorrents DEF Running, IsSeeding, IsDownloading, SeedingStates,
     DownloadingStates, IsChecking, CheckingStates, Absent
<1>2. Hashing \in Torrent /\ ~Running(Hashing) /\ IsChecking(Hashing.state)
      /\ Hashing.state # Absent /\ ~Hashing.complete
  BY SomeTorrents DEF Hashing
<1>3. CASE dst[h].state # Absent
  BY <1>3 DEF AddEffect, ClientTypeOK, Others
<1>4. CASE dst[h].state = Absent
  <2>1. ~auto[h]
    BY <1>4 DEF ClientTypeOK, IsChecking, CheckingStates, Absent
  <2>2. CASE dst' = [dst EXCEPT ![h] = Added] /\ UNCHANGED auto
    BY <1>1, <1>4, <2>1, <2>2 DEF AddEffect, ClientTypeOK, Others
  <2>3. CASE /\ dst' = [dst EXCEPT ![h] = Hashing]
             /\ \E a \in AutoStart : auto' = [auto EXCEPT ![h] = a]
    <3> HIDE DEF Added
    <3> QED
      BY <1>2, <1>4, <2>3 DEF AddEffect, ClientTypeOK, Others
  <2> QED
    BY <1>4, <2>2, <2>3 DEF AddEffect
<1> QED
  BY <1>3, <1>4

(* torrents/stop: the torrent neither runs nor will start by itself.          *)
LEMMA StopLeaves ==
  ASSUME ClientTypeOK, NEW h \in Hashes, StopEffect(h)
  PROVE  /\ ClientTypeOK' /\ Others(h) /\ whole' = whole
         /\ dst'[h].state = Absent <=> dst[h].state = Absent
         /\ ~Running(dst'[h]) /\ ~auto'[h]
<1>1. dst[h] \in Torrent
  BY DEF ClientTypeOK
<1>2. PICK t \in {dst[h], AfterStop(dst[h])} :
        /\ dst' = [dst EXCEPT ![h] = t]
        /\ t = dst[h] => IsChecking(t.state) \/ t = AfterStop(dst[h])
  BY DEF StopEffect, ClientTypeOK
<1>3. t \in Torrent /\ ~Running(t) /\ (t.state = Absent <=> dst[h].state = Absent)
  BY <1>1, <1>2, StoppedTorrent
  DEF Running, IsChecking, IsSeeding, IsDownloading, CheckingStates, SeedingStates,
      DownloadingStates
<1>4. auto' = [auto EXCEPT ![h] = FALSE] /\ whole' = whole
  BY DEF StopEffect
<1> QED
  BY <1>2, <1>3, <1>4 DEF ClientTypeOK, Others

(* torrents/recheck: a torrent that is listed is being hashed.                *)
LEMMA RecheckLeaves ==
  ASSUME ClientTypeOK, NEW h \in Hashes, RecheckEffect(h)
  PROVE  /\ ClientTypeOK' /\ Others(h) /\ whole' = whole
         /\ dst[h].state = Absent => dst'[h] = dst[h] /\ auto'[h] = auto[h]
         /\ dst[h].state # Absent => dst'[h] = Hashing
<1>1. CASE dst[h].state = Absent
  BY <1>1 DEF RecheckEffect, ClientTypeOK, Others
<1>2. CASE dst[h].state # Absent
  BY <1>2, SomeTorrents DEF RecheckEffect, ClientTypeOK, Others
<1> QED
  BY <1>1, <1>2

(* The hash pass ends: what was not to start by itself is stopped, and the    *)
(* torrent is complete if its files are.                                      *)
LEMMA HashLeaves ==
  ASSUME ClientTypeOK, NEW h \in Hashes, HashEnds(h)
  PROVE  /\ ClientTypeOK' /\ Others(h) /\ whole' = whole
         /\ IsChecking(dst[h].state)
         /\ dst'[h].state # Absent /\ ~IsChecking(dst'[h].state)
         /\ dst'[h].complete = (h \in whole)
         /\ ~auto'[h]
         /\ ~auto[h] => IsStopped(dst'[h].state)
<1> DEFINE stopped == AfterStop([dst[h] EXCEPT !.complete = h \in whole])
<1>1. /\ [dst[h] EXCEPT !.complete = h \in whole] \in Torrent
      /\ [dst[h] EXCEPT !.complete = h \in whole].complete = (h \in whole)
      /\ [dst[h] EXCEPT !.complete = h \in whole].state = dst[h].state
  <2>1. ASSUME NEW c \in BOOLEAN
        PROVE  /\ [dst[h] EXCEPT !.complete = c] \in Torrent
               /\ [dst[h] EXCEPT !.complete = c].complete = c
               /\ [dst[h] EXCEPT !.complete = c].state = dst[h].state
    BY DEF ClientTypeOK, Torrent
  <2>2. (h \in whole) \in BOOLEAN
    OBVIOUS
  <2> QED
    BY <2>1, <2>2, Zenon
<1>2. IsChecking(dst[h].state) /\ dst[h].state # Absent /\ ~IsBroken(dst[h].state)
  BY DEF HashEnds, IsChecking, IsBroken, CheckingStates, BrokenStates, Absent
<1>3. /\ stopped \in Torrent /\ IsStopped(stopped.state) /\ stopped.state # Absent
      /\ stopped.complete = (h \in whole)
  BY <1>1, <1>2, StoppedTorrent
<1> HIDE DEF stopped
<1>4. ~IsChecking(stopped.state)
  BY <1>3 DEF IsStopped, StoppedStates, IsChecking, CheckingStates
<1>5. PICK t \in {stopped, AfterStart(stopped)} :
        dst' = [dst EXCEPT ![h] = t] /\ (~auto[h] => t = stopped)
  BY DEF HashEnds, stopped, ClientTypeOK
<1>6. t \in Torrent /\ t.state # Absent /\ ~IsChecking(t.state)
      /\ t.complete = (h \in whole)
  BY <1>3, <1>4, <1>5, StartedTorrent
<1>7. auto' = [auto EXCEPT ![h] = FALSE] /\ whole' = whole
  BY DEF HashEnds
<1> QED
  BY <1>2, <1>3, <1>5, <1>6, <1>7 DEF ClientTypeOK, Others

(* A download ends.                                                           *)
LEMMA DownloadLeaves ==
  ASSUME ClientTypeOK, NEW h \in Hashes, Downloads(h)
  PROVE  /\ ClientTypeOK' /\ Others(h) /\ whole' = whole \cup {h}
         /\ IsDownloading(dst[h].state)
         /\ dst'[h].state = "stalledUP" /\ dst'[h].complete
         /\ auto' = auto
<1>1. ~auto[h]
  BY DEF Downloads, ClientTypeOK, IsChecking, IsDownloading, CheckingStates,
         DownloadingStates
<1> QED
  BY <1>1, SomeTorrents DEF Downloads, ClientTypeOK, Others
------------------------------------------------------------------------------
AtItem == {"add", "stop", "recheck", "stopAgain"}
LoopPCs == {"next"} \cup AtItem

(* The inductive invariant.  A torrent listed at the beginning is still       *)
(* there; the item in hand is there once it was added, and is not counted as  *)
(* tended; with no call failed only that item can be about to start, and only *)
(* where a stop is the next call.                                             *)
ListedStays == \A h \in seenDest : dst[h].state # Absent
ItemIsThere == pc \in AtItem \ {"add"} => dst[cur].state # Absent
ItemIsOpen == cur \notin tended
EndsLast == pc # "idle" => report.end = "running"
DoneIsTended ==
  pc \in {"readLimit", "setLimit"} \cup LoopPCs /\ report.failed = {}
    => staged \ (todo \cup {cur}) \subseteq tended
UnderBreaker == pc \in LoopPCs => limit = CIRCUIT_BREAKER_BPS
OnlyItemStarts ==
  faults = 0 =>
    \A h \in Hashes : auto[h] \/ IsDownloading(dst[h].state)
      => h = cur /\ pc \in {"stop", "stopAgain"}

ImportInv ==
  /\ ListedStays /\ ItemIsThere /\ ItemIsOpen /\ TendedStayQuiet
  /\ EndsLast /\ DoneIsTended /\ CompleteMeansTended
  /\ UnderBreaker /\ OnlyItemStarts
------------------------------------------------------------------------------
(* What the four calls for the item in hand have in common: they concern that *)
(* item alone, and end in the next step or with the item recorded as failed.  *)
Elsewhere == UNCHANGED <<sourceSeeds, limit, opts, staged, seenSeeding, seenDest, todo, previous>>
Fails == FailCurrent /\ faults' = faults + 1 /\ faults' \in 0..MaxFaults
Goes(next) == GoOn(next) /\ faults' = faults
Succeeds == Succeed /\ faults' = faults

LEMMA ItemInHand ==
  ASSUME TypeOK, pc \in AtItem
  PROVE  cur \in staged /\ cur \in Hashes /\ cur # NoHash
  BY DEF TypeOK, AtItem

LEMMA Charged ==
  ASSUME TypeOK, NEW reply, Charge(reply)
  PROVE  /\ faults' \in 0..MaxFaults
         /\ reply = "ok" => faults' = faults
         /\ reply # "ok" => faults' = faults + 1
  BY DEF TypeOK, Charge

LEMMA AddCall ==
  ASSUME TypeOK, AddPaused
  PROVE  /\ pc = "add" /\ Elsewhere
         /\ Goes("stop") \/ Fails
         /\ AddEffect(cur) \/ (UNCHANGED client /\ Fails)
  BY Charged DEF AddPaused, Call, Elsewhere, Fails, Goes

LEMMA StopCall ==
  ASSUME TypeOK, Stop
  PROVE  /\ pc = "stop" /\ Elsewhere
         /\ Goes("recheck") \/ Fails
         /\ StopEffect(cur) \/ (UNCHANGED client /\ Fails)
  BY Charged DEF Stop, Call, Elsewhere, Fails, Goes

LEMMA RecheckCall ==
  ASSUME TypeOK, Recheck
  PROVE  /\ pc = "recheck" /\ Elsewhere
         /\ Goes("stopAgain") \/ Fails
         /\ RecheckEffect(cur) \/ (UNCHANGED client /\ Fails)
  BY Charged DEF Recheck, Call, Elsewhere, Fails, Goes

LEMMA StopAgainCall ==
  ASSUME TypeOK, StopAgain
  PROVE  /\ pc = "stopAgain" /\ Elsewhere
         /\ Succeeds \/ Fails
         /\ StopEffect(cur) \/ (UNCHANGED client /\ Fails)
  BY Charged DEF StopAgain, Call, Elsewhere, Fails, Succeeds

ItemCall == AddPaused \/ Stop \/ Recheck \/ StopAgain

(* The client stays well formed, and only the item in hand changes.           *)
LEMMA ItemCallEffect ==
  ASSUME TypeOK, ItemCall
  PROVE  /\ pc \in AtItem /\ Elsewhere
         /\ ClientTypeOK' /\ Others(cur)
         /\ dst[cur].state # Absent => dst'[cur].state # Absent
<1>1. pc \in AtItem /\ Elsewhere
  BY AddCall, StopCall, RecheckCall, StopAgainCall DEF ItemCall, AtItem
<1>2. cur \in Hashes /\ ClientTypeOK
  BY <1>1, ItemInHand DEF TypeOK
<1>3. \/ AddEffect(cur) \/ StopEffect(cur) \/ RecheckEffect(cur) \/ UNCHANGED client
  BY AddCall, StopCall, RecheckCall, StopAgainCall DEF ItemCall
<1>4. CASE UNCHANGED client
  BY <1>1, <1>2, <1>4 DEF client, ClientTypeOK, Others
<1> QED
  BY <1>1, <1>2, <1>3, <1>4, AddLeaves, StopLeaves, RecheckLeaves, SomeTorrents

(* Every step but those of the client and of the loop's calls leaves the      *)
(* client alone.                                                              *)
LEMMA EnvironmentEffect ==
  ASSUME TypeOK, Environment
  PROVE  /\ ClientTypeOK' /\ UNCHANGED <<sourceSeeds, limit, call, faults>>
         /\ \E h \in Hashes : Others(h) /\ (HashEnds(h) \/ Downloads(h))
  BY HashLeaves, DownloadLeaves DEF Environment, TypeOK

------------------------------------------------------------------------------
LEMMA InitType == Init => TypeOK
<1> SUFFICES ASSUME Init PROVE TypeOK
  OBVIOUS
<1>1. ClientTypeOK
  <2>1. dst \in [Hashes -> Torrent]
    <3>1. PICK S : S = {AbsentTorrent, [state |-> "stoppedDL", complete |-> FALSE],
                        [state |-> "stalledUP", complete |-> TRUE]}
      OBVIOUS
    <3>2. S \subseteq Torrent
      BY <3>1, SomeTorrents
    <3>3. dst \in [Hashes -> S]
      BY <3>1 DEF Init
    <3> QED
      BY <3>2, <3>3
  <2> QED
    BY <2>1 DEF Init, ClientTypeOK
<1>2. report \in Report /\ opts \in Mode
  BY DEF Init, EmptyReport, Report, NoMode, Mode
<1> QED
  BY <1>1, <1>2 DEF Init, TypeOK, PCs

LEMMA EndType ==
  ASSUME TypeOK, NEW result \in Report, End(result), UNCHANGED <<client, sourceSeeds>>,
         limit' \in Nat, faults' \in 0..MaxFaults
  PROVE  TypeOK'
<1>1. opts' \in Mode
  BY DEF End, NoMode, Mode
<1> QED
  BY <1>1 DEF TypeOK, End, PCs, client, ClientTypeOK

LEMMA AbortType ==
  ASSUME TypeOK, Abort, UNCHANGED <<client, sourceSeeds>>, limit' \in Nat,
         faults' \in 0..MaxFaults
  PROVE  TypeOK'
<1>1. [report EXCEPT !.end = "error"] \in Report
  BY DEF TypeOK, Report
<1> QED
  BY <1>1, EndType DEF Abort

LEMMA ItemCallType == ASSUME TypeOK, ItemCall PROVE TypeOK'
<1>1. /\ pc \in AtItem /\ Elsewhere /\ ClientTypeOK' /\ cur \in staged /\ cur \in Hashes
      /\ cur # NoHash
  BY ItemCallEffect, ItemInHand
<1>2. \/ Goes("stop") \/ Goes("recheck") \/ Goes("stopAgain") \/ Succeeds \/ Fails
  BY AddCall, StopCall, RecheckCall, StopAgainCall DEF ItemCall
<1>3. CASE Goes("stop") \/ Goes("recheck") \/ Goes("stopAgain")
  BY <1>1, <1>3 DEF Goes, GoOn, TypeOK, PCs, AtItem, Elsewhere
<1>4. CASE Succeeds
  <2>1. report' \in Report
    BY <1>1, <1>4 DEF Succeeds, Succeed, TypeOK, Report
  <2> QED
    BY <1>1, <1>4, <2>1 DEF Succeeds, Succeed, TypeOK, PCs, Elsewhere
<1>5. CASE Fails
  <2>1. report' \in Report
    BY <1>1, <1>5 DEF Fails, FailCurrent, TypeOK, Report
  <2> QED
    BY <1>1, <1>5, <2>1 DEF Fails, FailCurrent, TypeOK, PCs, Elsewhere
<1> QED
  BY <1>2, <1>3, <1>4, <1>5

LEMMA StepType == TypeOK /\ [Next]_vars => TypeOK'
<1> SUFFICES ASSUME TypeOK, [Next]_vars PROVE TypeOK'
  OBVIOUS
<1>1. CASE Begin
  <2>1. PICK mode \in Modes, cap \in Caps :
          /\ staged' = cap
          /\ IF ~mode.source /\ ~mode.allowUnverified
               THEN opts' = NoMode /\ report' = EmptyReport("error") /\ UNCHANGED pc
               ELSE /\ opts' = mode
                    /\ report' = EmptyReport("running")
                    /\ pc' = IF mode.source THEN "listSource" ELSE "listDest"
    BY <1>1 DEF Begin
  <2>2. report' \in Report
    <3>1. EmptyReport("error") \in Report /\ EmptyReport("running") \in Report
      BY DEF EmptyReport, Report
    <3> QED
      BY <2>1, <3>1
  <2>3. opts' \in Mode
    <3>1. NoMode \in Mode /\ mode \in Mode
      BY DEF NoMode, Mode
    <3> QED
      BY <2>1, <3>1
  <2>4. staged' \subseteq Hashes /\ pc' \in {"idle", "listSource", "listDest"}
    BY <1>1, <2>1 DEF Begin
  <2>5. cur = NoHash /\ todo = {}
    BY <1>1 DEF Begin, TypeOK
  <2> QED
    BY <1>1, <2>2, <2>3, <2>4, <2>5 DEF Begin, TypeOK, PCs, client, ClientTypeOK
<1>2. CASE ListSource
  <2>1. faults' \in 0..MaxFaults /\ UNCHANGED <<client, sourceSeeds, limit>>
    BY <1>2, Charged DEF ListSource
  <2>2. CASE Abort
    BY <2>1, <2>2, AbortType DEF TypeOK
  <2>3. CASE ~Abort
    BY <1>2, <2>1, <2>3 DEF ListSource, TypeOK, PCs, client, ClientTypeOK
  <2> QED
    BY <2>2, <2>3
<1>3. CASE ListSeeding
  <2>1. faults' \in 0..MaxFaults /\ UNCHANGED <<client, sourceSeeds, limit>>
    BY <1>3, Charged DEF ListSeeding
  <2>2. CASE Abort
    BY <2>1, <2>2, AbortType DEF TypeOK
  <2>3. CASE ~Abort
    BY <1>3, <2>1, <2>3 DEF ListSeeding, TypeOK, PCs, client, ClientTypeOK
  <2> QED
    BY <2>2, <2>3
<1>4. CASE ListDest
  <2> DEFINE present == {h \in Hashes : dst[h].state # Absent}
             dry == [EmptyReport("ok") EXCEPT !.imported = staged \ present,
                                              !.already = staged \cap present,
                                              !.dryRun = TRUE]
  <2>1. faults' \in 0..MaxFaults /\ UNCHANGED <<client, sourceSeeds, limit>>
    BY <1>4, Charged DEF ListDest
  <2>2. dry \in Report
    BY DEF EmptyReport, Report, TypeOK
  <2>3. \/ Abort
        \/ End(dry)
        \/ /\ seenDest' = present /\ todo' = staged /\ pc = "listDest" /\ pc' = "readLimit"
           /\ UNCHANGED <<opts, staged, seenSeeding, cur, previous, report, tended>>
    BY <1>4 DEF ListDest, Worklist
  <2> HIDE DEF dry
  <2>4. CASE Abort
    BY <2>1, <2>4, AbortType DEF TypeOK
  <2>5. CASE End(dry)
    BY <2>1, <2>2, <2>5, EndType DEF TypeOK
  <2>6. CASE ~Abort /\ ~End(dry)
    BY <2>1, <2>3, <2>6 DEF TypeOK, PCs, client, ClientTypeOK
  <2> QED
    BY <2>4, <2>5, <2>6
<1>5. CASE ReadLimit
  <2>1. faults' \in 0..MaxFaults /\ UNCHANGED <<client, sourceSeeds, limit>>
    BY <1>5, Charged DEF ReadLimit
  <2>2. CASE Abort
    BY <2>1, <2>2, AbortType DEF TypeOK
  <2>3. CASE ~Abort
    BY <1>5, <2>1, <2>3 DEF ReadLimit, TypeOK, PCs, client, ClientTypeOK
  <2> QED
    BY <2>2, <2>3
<1>6. CASE SetLimit
  <2>1. faults' \in 0..MaxFaults /\ UNCHANGED <<client, sourceSeeds>> /\ limit' \in Nat
    BY <1>6, Charged DEF SetLimit, TypeOK, CIRCUIT_BREAKER_BPS
  <2>2. CASE Abort
    BY <2>1, <2>2, AbortType
  <2>3. CASE ~Abort
    BY <1>6, <2>1, <2>3 DEF SetLimit, TypeOK, PCs, client, ClientTypeOK
  <2> QED
    BY <2>2, <2>3
<1>7. ASSUME NEW h \in Hashes, Take(h) PROVE TypeOK'
  <2>1. report' \in Report
    BY <1>7 DEF Take, TypeOK, Report
  <2>2. h \in staged /\ h # NoHash /\ pc' \in {"add", "stop"}
    BY <1>7 DEF Take, TypeOK
  <2> QED
    BY <1>7, <2>1, <2>2 DEF Take, TypeOK, PCs, client, ClientTypeOK
<1>8. CASE ItemCall
  BY <1>8, ItemCallType
<1>9. CASE Finish
  <2>1. limit' \in Nat /\ faults' \in 0..MaxFaults
    BY <1>9, Charged DEF Finish, TypeOK
  <2>2. [report EXCEPT !.end = "ok"] \in Report
    BY DEF TypeOK, Report
  <2> QED
    BY <1>9, <2>1, <2>2, EndType DEF Finish
<1>10. CASE Kill
  <2>1. faults' \in 0..MaxFaults
    BY <1>10, Charged DEF Kill
  <2>2. [report EXCEPT !.end = "killed"] \in Report
    BY DEF TypeOK, Report
  <2> QED
    BY <1>10, <2>1, <2>2, EndType DEF Kill, TypeOK
<1>11. CASE Environment
  BY <1>11, EnvironmentEffect DEF TypeOK, call
<1>12. CASE UNCHANGED vars
  BY <1>12 DEF TypeOK, vars, client, call, ClientTypeOK
<1> QED
  BY <1>1, <1>2, <1>3, <1>4, <1>5, <1>6, <1>7, <1>8, <1>9, <1>10, <1>11, <1>12
  DEF Next, Step, ItemCall

(* Every variable of an import stays in its type, and its loop works on what  *)
(* was staged.                                                                *)
THEOREM ImportTypes == Spec => []TypeOK
  BY InitType, StepType, PTL DEF Spec

------------------------------------------------------------------------------
(* The steps that concern no torrent of the client's.                         *)
Aside ==
  \/ Begin \/ ListSource \/ ListSeeding \/ ListDest \/ ReadLimit \/ SetLimit
  \/ (\E h \in Hashes : Take(h)) \/ Finish \/ Kill \/ UNCHANGED vars

LEMMA Steps ==
  ASSUME [Next]_vars
  PROVE  Aside \/ ItemCall \/ Environment
  BY DEF Next, Step, Aside, ItemCall

LEMMA AsideLeaves ==
  ASSUME TypeOK, Aside
  PROVE  UNCHANGED client /\ faults' \in Nat /\ (faults' = 0 => faults = 0)
<1>1. UNCHANGED client
  BY DEF Aside, Begin, ListSource, ListSeeding, ListDest, ReadLimit, SetLimit, Take,
         Finish, Kill, vars
<1>2. faults' = faults \/ \E reply : Charge(reply)
  BY DEF Aside, Begin, ListSource, ListSeeding, ListDest, ReadLimit, SetLimit, Take,
         Finish, Kill, vars
<1>3. faults' = faults \/ faults' = faults + 1
  BY <1>2 DEF Charge
<1> QED
  BY <1>1, <1>3 DEF TypeOK

(* A torrent once listed stays listed.                                        *)
LEMMA DestStays ==
  ASSUME TypeOK, [Next]_vars, NEW h \in Hashes, dst[h].state # Absent
  PROVE  dst'[h].state # Absent
<1>1. CASE Aside
  BY <1>1, AsideLeaves DEF client
<1>2. CASE ItemCall
  BY <1>2, ItemCallEffect DEF Others
<1>3. CASE Environment
  <2>1. PICK g \in Hashes : Others(g) /\ (HashEnds(g) \/ Downloads(g))
    BY <1>3, EnvironmentEffect
  <2>2. CASE g = h
    BY <2>1, <2>2, HashLeaves, DownloadLeaves DEF TypeOK, Absent
  <2>3. CASE g # h
    BY <2>1, <2>3 DEF Others
  <2> QED
    BY <2>2, <2>3
<1> QED
  BY <1>1, <1>2, <1>3, Steps

LEMMA ImportInit == Init => ImportInv
<1> SUFFICES ASSUME Init PROVE ImportInv
  OBVIOUS
<1>1. OnlyItemStarts
  <2> SUFFICES ASSUME NEW h \in Hashes PROVE ~auto[h] /\ ~IsDownloading(dst[h].state)
    BY DEF OnlyItemStarts
  <2>1. dst[h] \in {AbsentTorrent, [state |-> "stoppedDL", complete |-> FALSE],
                    [state |-> "stalledUP", complete |-> TRUE]}
    BY DEF Init
  <2>2. dst[h].state \in {Absent, "stoppedDL", "stalledUP"}
    BY <2>1 DEF AbsentTorrent
  <2> QED
    BY <2>2 DEF Init, IsDownloading, DownloadingStates, Absent
<1> QED
  BY <1>1 DEF Init, ImportInv, ListedStays, ItemIsThere, ItemIsOpen, TendedStayQuiet, EndsLast,
         DoneIsTended, CompleteMeansTended, UnderBreaker, EmptyReport, AtItem, LoopPCs

LEMMA ListedStep == ASSUME TypeOK, ImportInv, [Next]_vars PROVE ListedStays'
<1> SUFFICES ASSUME NEW h \in seenDest' PROVE dst'[h].state # Absent
  BY DEF ListedStays
<1>1. CASE h \in seenDest
  <2>1. h \in Hashes /\ dst[h].state # Absent
    BY <1>1 DEF TypeOK, ImportInv, ListedStays
  <2> QED
    BY <2>1, DestStays
<1>2. CASE h \notin seenDest
  <2>1. ListDest /\ h \in Hashes /\ dst[h].state # Absent
    BY <1>2, ItemCallEffect DEF Next, Step, ItemCall, Begin, ListSource, ListSeeding, ListDest,
       ReadLimit, SetLimit, Take, Finish, Kill, Abort, End, Environment, vars, call, Elsewhere
  <2> QED
    BY <2>1, DestStays
<1> QED
  BY <1>1, <1>2

LEMMA ItemStep == ASSUME TypeOK, ImportInv, [Next]_vars PROVE ItemIsThere' /\ ItemIsOpen'
<1>1. CASE \E h \in Hashes : Take(h)
  <2>1. PICK h \in Hashes : Take(h)
    BY <1>1
  <2>2. pc' = "stop" => dst[h].state # Absent
    BY <2>1 DEF Take, NeedsAdd, ImportInv, ListedStays
  <2> QED
    BY <2>1, <2>2 DEF Take, ItemIsThere, ItemIsOpen, AtItem, client
<1>2. CASE ItemCall
  <2>1. cur \in Hashes /\ NoHash \notin tended
    BY <1>2, ItemCallEffect, ItemInHand DEF TypeOK
  <2>2. CASE cur' = NoHash
    <3>1. pc' \notin AtItem
      BY <1>2, <2>2, ItemCallType DEF TypeOK, AtItem
    <3>2. NoHash \notin tended'
      BY <1>2, ItemCallType DEF TypeOK
    <3> QED
      BY <2>2, <3>1, <3>2 DEF ItemIsThere, ItemIsOpen
  <2>3. CASE cur' # NoHash
    <3>1. cur' = cur /\ tended' = tended
      BY <1>2, <2>3, AddCall, StopCall, RecheckCall, StopAgainCall
      DEF ItemCall, Goes, GoOn, Fails, FailCurrent, Succeeds, Succeed
    <3>2. dst'[cur].state # Absent
      <4>1. CASE AddPaused
        BY <1>2, <2>1, <2>3, <4>1, AddCall, AddLeaves DEF Fails, FailCurrent, TypeOK
      <4>2. CASE ~AddPaused
        <5>1. dst[cur].state # Absent
          BY <1>2, <4>2, StopCall, RecheckCall, StopAgainCall
          DEF ItemCall, ImportInv, ItemIsThere, AtItem
        <5> QED
          BY <1>2, <5>1, ItemCallEffect
      <4> QED
        BY <4>1, <4>2
    <3> QED
      BY <3>1, <3>2 DEF ItemIsThere, ItemIsOpen, ImportInv
  <2> QED
    BY <2>2, <2>3
<1>3. CASE ~ItemCall /\ ~(\E h \in Hashes : Take(h))
  <2>1. \/ pc' \notin AtItem /\ cur' = NoHash
        \/ pc' = pc /\ cur' = cur /\ tended' = tended
    BY <1>3 DEF Next, Step, ItemCall, Begin, ListSource, ListSeeding, ListDest, ReadLimit,
       SetLimit, Finish, Kill, Abort, End, Environment, vars, call, AtItem, TypeOK
  <2>2. CASE pc' \notin AtItem /\ cur' = NoHash
    BY <2>2, StepType DEF ItemIsThere, ItemIsOpen, TypeOK
  <2>3. CASE pc' = pc /\ cur' = cur /\ tended' = tended
    <3>1. pc \in AtItem \ {"add"} => cur \in Hashes /\ dst[cur].state # Absent
      BY ItemInHand DEF ImportInv, ItemIsThere
    <3> DEFINE h == cur
    <3>2. pc \in AtItem \ {"add"} => dst'[h].state # Absent
      <4>1. pc \in AtItem \ {"add"} => h \in Hashes /\ dst[h].state # Absent
        BY <3>1
      <4> HIDE DEF h
      <4> QED
        BY <4>1, DestStays
    <3> QED
      BY <2>3, <3>2 DEF ItemIsThere, ItemIsOpen, ImportInv
  <2> QED
    BY <2>1, <2>2, <2>3
<1> QED
  BY <1>1, <1>2, <1>3

(* What the last run to take a torrent left quiet stays quiet: the next to    *)
(* touch it is a run that takes it, and then it is no longer counted.         *)
LEMMA QuietStep == ASSUME TypeOK, ImportInv, [Next]_vars PROVE TendedStayQuiet'
<1> SUFFICES ASSUME NEW h \in tended'
             PROVE  dst'[h].state # Absent /\ ~Running(dst'[h]) /\ ~auto'[h]
  BY DEF TendedStayQuiet, Running
<1>1. h \in Hashes
  BY StepType DEF TypeOK
<1>2. h \in tended => dst[h].state # Absent /\ ~Running(dst[h]) /\ ~auto[h]
  BY DEF ImportInv, TendedStayQuiet
<1>3. CASE Aside
  <2>1. tended' \subseteq tended
    BY <1>3 DEF Aside, Begin, ListSource, ListSeeding, ListDest, ReadLimit, SetLimit, Take,
       Finish, Kill, Abort, End, vars, call
  <2> QED
    BY <1>2, <1>3, <2>1, AsideLeaves DEF client
<1>4. CASE ItemCall
  <2>1. CASE h = cur
    <3>1. StopAgain /\ Succeeds
      BY <1>4, <2>1, AddCall, StopCall, RecheckCall, StopAgainCall
      DEF ItemCall, Goes, GoOn, Fails, FailCurrent, ImportInv, ItemIsOpen
    <3>2. StopEffect(cur) /\ pc = "stopAgain"
      BY <3>1, StopAgainCall DEF Succeeds, Succeed, Fails, FailCurrent, TypeOK
    <3>3. dst[cur].state # Absent
      BY <3>2 DEF ImportInv, ItemIsThere, AtItem
    <3> QED
      BY <1>1, <2>1, <3>2, <3>3, StopLeaves DEF TypeOK
  <2>2. CASE h # cur
    <3>1. h \in tended
      BY <1>4, <2>2, AddCall, StopCall, RecheckCall, StopAgainCall
      DEF ItemCall, Goes, GoOn, Fails, FailCurrent, Succeeds, Succeed
    <3> QED
      BY <1>1, <1>2, <1>4, <2>2, <3>1, ItemCallEffect DEF Others
  <2> QED
    BY <2>1, <2>2
<1>5. CASE Environment
  <2>1. h \in tended
    BY <1>5, EnvironmentEffect DEF call
  <2>2. PICK g \in Hashes : Others(g) /\ (HashEnds(g) \/ Downloads(g))
    BY <1>5, EnvironmentEffect
  <2>3. CASE g # h
    BY <1>1, <1>2, <2>1, <2>2, <2>3 DEF Others
  <2>4. CASE g = h
    <3>1. HashEnds(h)
      BY <1>2, <2>1, <2>2, <2>4 DEF Downloads, Running
    <3> QED
      BY <1>1, <1>2, <2>1, <3>1, HashLeaves
      DEF TypeOK, Running, IsStopped, IsSeeding, IsDownloading, StoppedStates,
          SeedingStates, DownloadingStates
  <2> QED
    BY <2>3, <2>4
<1> QED
  BY <1>3, <1>4, <1>5, Steps

(* The listing ends the run, or hands the whole staging to the loop.          *)
LEMMA ListDestGoes ==
  ASSUME ListDest, pc' # "idle"
  PROVE  /\ pc = "listDest" /\ pc' = "readLimit" /\ todo' = staged
         /\ UNCHANGED <<opts, staged, seenSeeding, cur, previous, report, tended>>
<1> DEFINE present == {h \in Hashes : dst[h].state # Absent}
           dry == [EmptyReport("ok") EXCEPT !.imported = staged \ present,
                                            !.already = staged \cap present,
                                            !.dryRun = TRUE]
<1>1. \/ Abort
      \/ End(dry)
      \/ /\ todo' = staged /\ pc = "listDest" /\ pc' = "readLimit"
         /\ UNCHANGED <<opts, staged, seenSeeding, cur, previous, report, tended>>
  BY DEF ListDest, Worklist
<1> HIDE DEF dry
<1> QED
  BY <1>1 DEF Abort, End

LEMMA EndsStep == ASSUME TypeOK, ImportInv, [Next]_vars PROVE EndsLast'
<1> USE DEF EndsLast, ImportInv
<1>1. CASE ItemCall
  <2>1. report'.end = report.end
    BY <1>1, AddCall, StopCall, RecheckCall, StopAgainCall
    DEF ItemCall, Goes, GoOn, Fails, FailCurrent, Succeeds, Succeed, TypeOK, Report
  <2> QED
    BY <1>1, <2>1, ItemCallEffect DEF AtItem
<1>2. CASE \E h \in Hashes : Take(h)
  BY <1>2 DEF Take, TypeOK, Report
<1>3. CASE Aside /\ ~(\E h \in Hashes : Take(h))
  <2>1. CASE pc' = "idle"
    BY <2>1
  <2>2. CASE pc' # "idle" /\ Begin
    <3>1. report' = EmptyReport("running")
      BY <2>2 DEF Begin, TypeOK
    <3> QED
      BY <3>1 DEF EmptyReport
  <2>3. CASE pc' # "idle" /\ ~Begin
    <3>1. report' = report /\ pc # "idle"
      BY <1>3, <2>3, ListDestGoes DEF Aside, ListSource, ListSeeding, ReadLimit, SetLimit,
         Finish, Kill, Abort, End, vars, call
    <3> QED
      BY <3>1
  <2> QED
    BY <2>1, <2>2, <2>3
<1>4. CASE Environment
  BY <1>4, EnvironmentEffect DEF call
<1> QED
  BY <1>1, <1>2, <1>3, <1>4, Steps

(* An item the loop has gone through is tended, or the run has a failure.     *)
LEMMA DoneStep == ASSUME TypeOK, ImportInv, [Next]_vars PROVE DoneIsTended'
<1> SUFFICES ASSUME pc' \in {"readLimit", "setLimit"} \cup LoopPCs, report'.failed = {},
                    NEW h \in staged' \ (todo' \cup {cur'})
             PROVE  h \in tended'
  BY DEF DoneIsTended
<1>1. CASE ItemCall
  <2>1. cur \in Hashes /\ pc \in LoopPCs /\ Elsewhere
    BY <1>1, ItemCallEffect, ItemInHand DEF LoopPCs
  <2>2. ~Fails
    BY <2>1 DEF Fails, FailCurrent, TypeOK, Report
  <2>3. report'.failed = report.failed
    BY <1>1, <2>2, AddCall, StopCall, RecheckCall, StopAgainCall
    DEF ItemCall, Goes, GoOn, Succeeds, Succeed, TypeOK, Report
  <2>4. staged \ (todo \cup {cur}) \subseteq tended
    BY <2>1, <2>3 DEF ImportInv, DoneIsTended
  <2> QED
    BY <1>1, <2>1, <2>2, <2>4, AddCall, StopCall, RecheckCall, StopAgainCall
    DEF ItemCall, Goes, GoOn, Succeeds, Succeed, Elsewhere
<1>2. CASE \E g \in Hashes : Take(g)
  <2>1. PICK g \in Hashes : Take(g)
    BY <1>2
  <2>2. report'.failed = report.failed /\ cur = NoHash /\ pc \in LoopPCs
    BY <2>1 DEF Take, TypeOK, Report, LoopPCs
  <2>3. staged \ (todo \cup {NoHash}) \subseteq tended
    BY <2>2 DEF ImportInv, DoneIsTended
  <2> QED
    BY <2>1, <2>3 DEF Take, TypeOK
<1>3. CASE Aside /\ ~(\E g \in Hashes : Take(g))
  <2>1. CASE ListDest
    BY <2>1, ListDestGoes DEF LoopPCs, AtItem
  <2>2. CASE ~ListDest
    <3>1. /\ UNCHANGED <<staged, todo, cur, report, tended>>
          /\ pc \in {"readLimit", "setLimit"} \cup LoopPCs
      BY <1>3, <2>2 DEF Aside, Begin, ListSource, ListSeeding, ReadLimit, SetLimit,
         Finish, Kill, Abort, End, vars, call, LoopPCs, AtItem
    <3> QED
      BY <3>1 DEF ImportInv, DoneIsTended
  <2> QED
    BY <2>1, <2>2
<1>4. CASE Environment
  BY <1>4, EnvironmentEffect DEF call, ImportInv, DoneIsTended
<1> QED
  BY <1>1, <1>2, <1>3, <1>4, Steps

LEMMA CompleteStep == ASSUME TypeOK, ImportInv, [Next]_vars PROVE CompleteMeansTended'
<1> SUFFICES ASSUME report'.end = "ok", ~report'.dryRun, report'.failed = {}
             PROVE  staged' \subseteq tended'
  BY DEF CompleteMeansTended, IsComplete
<1>1. CASE Finish
  <2>1. /\ report'.failed = report.failed /\ UNCHANGED <<staged, tended>>
        /\ todo = {} /\ cur = NoHash /\ pc \in LoopPCs
    BY <1>1 DEF Finish, End, TypeOK, Report, LoopPCs
  <2>2. staged \ {NoHash} \subseteq tended
    BY <2>1 DEF ImportInv, DoneIsTended
  <2> QED
    BY <2>1, <2>2 DEF TypeOK
<1>2. CASE UNCHANGED <<report, staged, tended>>
  BY <1>2 DEF ImportInv, CompleteMeansTended, IsComplete
<1>3. CASE ItemCall
  <2>1. report'.end = report.end /\ pc # "idle"
    BY <1>3, AddCall, StopCall, RecheckCall, StopAgainCall
    DEF ItemCall, Goes, GoOn, Fails, FailCurrent, Succeeds, Succeed, TypeOK, Report
  <2> QED
    BY <2>1 DEF ImportInv, EndsLast
<1>4. CASE \E h \in Hashes : Take(h)
  BY <1>4 DEF Take, TypeOK, Report, ImportInv, EndsLast
<1>5. CASE Begin
  <2>1. report'.end \in {"error", "running"}
    BY <1>5 DEF Begin, EmptyReport
  <2> QED
    BY <2>1
<1>6. CASE ListDest
  <2>1. \/ report'.end = "error" \/ report'.dryRun
        \/ UNCHANGED <<report, staged, tended>>
    BY <1>6 DEF ListDest, Abort, End, EmptyReport, TypeOK, Report
  <2> QED
    BY <1>2, <2>1
<1>7. CASE ListSource \/ ListSeeding \/ ReadLimit \/ SetLimit \/ Kill
  <2>1. \/ report'.end \in {"error", "killed"}
        \/ UNCHANGED <<report, staged, tended>>
    BY <1>7 DEF ListSource, ListSeeding, ReadLimit, SetLimit, Kill, Abort, End, TypeOK, Report
  <2> QED
    BY <1>2, <2>1
<1>8. CASE Environment \/ UNCHANGED vars
  BY <1>2, <1>8, EnvironmentEffect DEF vars, call
<1> QED
  BY <1>1, <1>3, <1>4, <1>5, <1>6, <1>7, <1>8, Steps DEF Aside

LEMMA BreakerStep == ASSUME TypeOK, ImportInv, [Next]_vars PROVE UnderBreaker'
<1> USE DEF UnderBreaker, ImportInv, LoopPCs
<1>1. CASE ItemCall
  BY <1>1, ItemCallEffect DEF Elsewhere
<1>2. CASE Aside
  BY <1>2 DEF Aside, Begin, ListSource, ListSeeding, ListDest, ReadLimit, SetLimit, Take,
     Finish, Kill, Abort, End, vars, call, AtItem
<1>3. CASE Environment
  BY <1>3, EnvironmentEffect DEF call
<1> QED
  BY <1>1, <1>2, <1>3, Steps

(* With no call failed, every start the client has in mind is met by the stop *)
(* that follows the call which made it possible.                              *)
LEMMA StartsStep == ASSUME TypeOK, ImportInv, [Next]_vars PROVE OnlyItemStarts'
<1> SUFFICES ASSUME faults' = 0, NEW h \in Hashes, auto'[h] \/ IsDownloading(dst'[h].state)
             PROVE  h = cur' /\ pc' \in {"stop", "stopAgain"}
  BY DEF OnlyItemStarts
<1>1. faults = 0
  <2>1. CASE Aside
    BY <2>1, AsideLeaves
  <2>2. CASE ItemCall
    BY <2>2, AddCall, StopCall, RecheckCall, StopAgainCall
    DEF ItemCall, Goes, Fails, Succeeds, TypeOK
  <2>3. CASE Environment
    BY <2>3, EnvironmentEffect
  <2> QED
    BY <2>1, <2>2, <2>3, Steps
<1>2. auto[h] \/ IsDownloading(dst[h].state) => h = cur /\ pc \in {"stop", "stopAgain"}
  BY <1>1 DEF ImportInv, OnlyItemStarts
<1>3. CASE Aside
  <2>1. h = cur /\ pc \in {"stop", "stopAgain"}
    BY <1>2, <1>3, AsideLeaves DEF client
  <2>2. ~Kill
    BY <1>1 DEF Kill, Charge
  <2> QED
    BY <1>3, <2>1, <2>2 DEF Aside, Begin, ListSource, ListSeeding, ListDest, ReadLimit,
       SetLimit, Take, Finish, vars, call
<1>4. CASE ItemCall
  <2>1. ~Fails
    BY <1>1 DEF Fails
  <2>2. cur \in Hashes
    BY <1>4, ItemCallEffect, ItemInHand
  <2>3. h = cur
    BY <1>2, <1>4, ItemCallEffect DEF Others
  <2>4. CASE Stop \/ StopAgain
    <3>1. StopEffect(cur)
      BY <2>1, <2>4, StopCall, StopAgainCall
    <3> QED
      BY <2>2, <2>3, <3>1, StopLeaves DEF TypeOK, Running
  <2>5. CASE AddPaused \/ Recheck
    <3>1. Goes("stop") \/ Goes("stopAgain")
      BY <2>1, <2>5, AddCall, RecheckCall
    <3> QED
      BY <2>3, <3>1 DEF Goes, GoOn
  <2> QED
    BY <1>4, <2>4, <2>5 DEF ItemCall
<1>5. CASE Environment
  <2>1. UNCHANGED <<cur, pc>>
    BY <1>5, EnvironmentEffect DEF call
  <2>2. PICK g \in Hashes : Others(g) /\ (HashEnds(g) \/ Downloads(g))
    BY <1>5, EnvironmentEffect
  <2>3. CASE g # h
    BY <1>2, <2>1, <2>2, <2>3 DEF Others
  <2>4. CASE g = h /\ HashEnds(h)
    <3>1. auto[h]
      BY <2>4, HashLeaves DEF TypeOK, IsStopped, IsDownloading, StoppedStates, DownloadingStates
    <3> QED
      BY <1>2, <2>1, <3>1
  <2>5. CASE g = h /\ Downloads(h)
    BY <1>2, <2>1, <2>5 DEF Downloads
  <2> QED
    BY <2>2, <2>3, <2>4, <2>5
<1> QED
  BY <1>3, <1>4, <1>5, Steps

(* At every step of the loop the torrents dealt with are quiet or recorded as *)
(* failed, the one in hand is the only one that may start, and the breaker is *)
(* set.                                                                       *)
THEOREM ImportInvariant == Spec => []ImportInv
<1>1. TypeOK /\ ImportInv /\ [Next]_vars => ImportInv'
  BY ListedStep, ItemStep, QuietStep, EndsStep, DoneStep, CompleteStep, BreakerStep, StartsStep
  DEF ImportInv
<1> QED
  BY <1>1, ImportInit, ImportTypes, PTL DEF Spec

(* A torrent import reported without a failure is listed, does not run and    *)
(* will not start when its hash ends: whatever the client may start by itself *)
(* or cancel, and however many calls failed or runs were killed since.        *)
THEOREM ImportLeavesThemQuiet == Spec => []TendedStayQuiet
<1>1. ImportInv => TendedStayQuiet
  BY DEF ImportInv
<1> QED
  BY <1>1, ImportInvariant, PTL

(* A report without a failure accounts for every item that was staged.        *)
THEOREM ImportCompleteMeansTended == Spec => []CompleteMeansTended
<1>1. ImportInv => CompleteMeansTended
  BY DEF ImportInv
<1> QED
  BY <1>1, ImportInvariant, PTL

(* With no call failed, nothing downloads on the destination but under the    *)
(* breaker, and so nothing does after the run.                                *)
THEOREM ImportDownloadsAreThrottled == Spec => []DownloadsAreThrottled
<1>1. ImportInv => DownloadsAreThrottled
  BY DEF ImportInv, OnlyItemStarts, UnderBreaker, DownloadsAreThrottled, LoopPCs, AtItem
<1> QED
  BY <1>1, ImportInvariant, PTL
===============================================================================
