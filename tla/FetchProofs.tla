----------------------------- MODULE FetchProofs -----------------------------
(***************************************************************************)
(* What a fetch counts and what has arrived of it, for any staging, save   *)
(* root, client and cap, and any number of downloads, losses and failing   *)
(* copies.                                                                 *)
(***************************************************************************)
EXTENDS Fetch, FiniteSetTheorems, TLAPS

USE FetchAssumption

(* The inductive invariant.  The torrents still to be reached are distinct    *)
(* and none of those counted; the files in hand are some of the first one's,  *)
(* all of those below the save root if the client listed it as complete; and  *)
(* what was complete when it was listed or copied stays so at the client.     *)
Outcome == {"fetched", "skipped", "failed"}
Result == {"none", "running", "error", "complete", "incomplete", "killed"}
Report ==
  [end : Result, taken : SUBSET Hashes, fetched : SUBSET Hashes, skipped : SUBSET Hashes,
   failed : SUBSET Hashes]

Distinct(s) == \A i, j \in 1..Len(s) : i # j => s[i] # s[j]
Domains == DOMAIN remote = Hashes /\ DOMAIN local = Hashes
Queue == todo \in Seq(Hashes) /\ Distinct(todo) /\ report \in Report
CountedOnce ==
  pc # "idle" =>
    /\ ToSet(todo) \cap (report.fetched \cup report.skipped \cup report.failed) = {}
    /\ report.fetched \cap report.skipped = {}
    /\ report.fetched \cap report.failed = {}
    /\ report.skipped \cap report.failed = {}
InHand ==
  pc = "copy" =>
    /\ todo # <<>>
    /\ files \subseteq FilesOf(Head(todo))
    /\ listed[Head(todo)] = "complete" => files = Relatives(Head(todo), FilesOf(Head(todo)))
LocalBehind ==
  \A h \in Hashes : \A i \in FilesOf(h) : local[h][i] = "all" => remote[h].has[i] = "all"
ListedHolds ==
  \A h \in Hashes : listed[h] = "complete" =>
    \A i \in FilesOf(h) : remote[h].wanted[i] => remote[h].has[i] = "all"

Tally ==
  pc # "idle" =>
    /\ report.taken = ToSet(todo) \cup report.fetched \cup report.skipped \cup report.failed
    /\ Cardinality(report.taken) = Len(todo) + Cardinality(report.fetched)
                                     + Cardinality(report.skipped) + Cardinality(report.failed)
Held ==
  /\ \A h \in Hashes :
       /\ remote[h] \in Torrent(h)
       /\ local[h] \in [FilesOf(h) -> Progress]
       /\ \A i \in FilesOf(h) : <<h, i>> \in lost => remote[h].has[i] = "all"
  /\ listed \in [Hashes -> {"absent", "partial", "complete"}]
Control ==
  /\ pc \in {"idle", "select", "copy"}
  /\ opts \in [partial : {"skip", "complete-files", "all"}, dry_run : BOOLEAN]
  /\ pc = "copy" <=> files # {}
  /\ faults \in 0..MaxFaults

Books == Queue /\ CountedOnce /\ Tally
World == Domains /\ Held /\ LocalBehind /\ ListedHolds
FetchInv == Control /\ Books /\ InHand /\ World /\ FetchedIsWhole
------------------------------------------------------------------------------
(* Sequences of distinct torrents.                                            *)

LEMMA TailDistinct ==
  ASSUME NEW t \in Seq(Hashes), Distinct(t), t # <<>>
  PROVE  /\ Head(t) \in Hashes /\ Tail(t) \in Seq(Hashes) /\ Distinct(Tail(t))
         /\ Len(t) \in Nat /\ Len(Tail(t)) = Len(t) - 1
         /\ ToSet(t) = {Head(t)} \cup ToSet(Tail(t))
         /\ Head(t) \notin ToSet(Tail(t))
<1>1. Len(t) \in Nat /\ Len(t) > 0 /\ DOMAIN t = 1..Len(t)
  OBVIOUS
<1>2. /\ Tail(t) \in Seq(Hashes) /\ Len(Tail(t)) = Len(t) - 1 /\ Head(t) = t[1]
      /\ DOMAIN Tail(t) = 1..Len(t) - 1
      /\ \A i \in 1..Len(t) - 1 : Tail(t)[i] = t[i + 1] /\ i + 1 \in 2..Len(t)
  BY <1>1
<1>3. Head(t) \in Hashes
  BY <1>1, <1>2
<1>4. Distinct(Tail(t))
  BY <1>1, <1>2 DEF Distinct
<1>5. ToSet(Tail(t)) = {t[i] : i \in 2..Len(t)}
  <2>1. ASSUME NEW i \in 2..Len(t) PROVE t[i] \in ToSet(Tail(t))
    <3>1. i - 1 \in 1..Len(t) - 1 /\ (i - 1) + 1 = i
      BY <1>1
    <3>2. Tail(t)[i - 1] = t[i]
      BY <1>2, <3>1
    <3> QED
      BY <1>2, <3>1, <3>2 DEF ToSet
  <2>2. ASSUME NEW i \in 1..Len(t) - 1 PROVE \E j \in 2..Len(t) : Tail(t)[i] = t[j]
    BY <1>2
  <2>3. ToSet(Tail(t)) = {Tail(t)[i] : i \in 1..Len(t) - 1}
    BY <1>2 DEF ToSet
  <2>4. ASSUME NEW h PROVE h \in ToSet(Tail(t)) <=> h \in {t[i] : i \in 2..Len(t)}
    BY <2>1, <2>2, <2>3
  <2> QED
    BY <2>4
<1>6. ToSet(t) = {t[1]} \cup {t[i] : i \in 2..Len(t)}
  <2>1. 1..Len(t) = {1} \cup 2..Len(t)
    BY <1>1
  <2> QED
    BY <1>1, <2>1 DEF ToSet
<1>7. Head(t) \notin ToSet(Tail(t))
  <2>1. \A i \in 2..Len(t) : i \in 1..Len(t) /\ 1 \in 1..Len(t) /\ i # 1
    BY <1>1
  <2> QED
    BY <1>2, <1>5, <2>1 DEF Distinct
<1> QED
  BY <1>1, <1>2, <1>3, <1>4, <1>5, <1>6, <1>7

LEMMA DistinctCount ==
  ASSUME NEW t \in Seq(Hashes), Distinct(t)
  PROVE  ToSet(t) \subseteq Hashes /\ Cardinality(ToSet(t)) = Len(t)
<1>1. Len(t) \in Nat /\ DOMAIN t = 1..Len(t)
  OBVIOUS
<1>2. t \in [1..Len(t) -> ToSet(t)] /\ \A h \in ToSet(t) : \E i \in 1..Len(t) : t[i] = h
  BY <1>1 DEF ToSet
<1>3. t \in Bijection(1..Len(t), ToSet(t))
  BY <1>2 DEF Distinct, Bijection, Injection, Surjection, IsInjective
<1>4. ExistsBijection(1..Len(t), ToSet(t))
  BY <1>3 DEF ExistsBijection
<1> QED
  BY <1>1, <1>4, FS_CountingElements DEF ToSet

(* A cap keeps the beginning of a listing.                                    *)
LEMMA TruncateDistinct ==
  ASSUME NEW t \in Seq(Hashes), Distinct(t), NEW cap \in TorrentCaps
  PROVE  Truncate(t, cap) \in Seq(Hashes) /\ Distinct(Truncate(t, cap))
<1> DEFINE S == cap \cup {Len(t)}
           n == Min(S)
<1>1. Len(t) \in Nat /\ S \subseteq Nat
  OBVIOUS
<1>2. \E x \in S : \A y \in S : x <= y
  <2>1. CASE cap = {}
    BY <1>1, <2>1
  <2>2. ASSUME NEW c \in cap PROVE \E x \in S : \A y \in S : x <= y
    <3>1. S = {c, Len(t)} /\ c \in Nat
      BY <2>2
    <3> QED
      BY <1>1, <3>1
  <2> QED
    BY <2>1, <2>2
<1>3. n \in S /\ \A y \in S : n <= y
  BY <1>2 DEF Min
<1> HIDE DEF n
<1>4. n \in 0..Len(t)
  <2>1. n \in Nat /\ n <= Len(t)
    BY <1>1, <1>3
  <2> QED
    BY <1>1, <2>1
<1>5. /\ SubSeq(t, 1, n) \in Seq(Hashes) /\ Len(SubSeq(t, 1, n)) = n
      /\ \A i \in 1..n : SubSeq(t, 1, n)[i] = t[i] /\ i \in 1..Len(t)
  BY <1>1, <1>4
<1>6. Distinct(SubSeq(t, 1, n))
  BY <1>5 DEF Distinct
<1> QED
  BY <1>5, <1>6 DEF Truncate, n

LEMMA StagingDistinct ==
  ASSUME NEW t \in ReadStaging
  PROVE  t \in Seq(Hashes) /\ Distinct(t)
<1> DEFINE S == {h \in Hashes : Items[h].readable}
<1>1. IsFiniteSet(S)
  BY FS_Subset
<1>2. Cardinality(S) \in Nat
  BY <1>1, FS_CardinalityType
<1>3. t \in [1..Cardinality(S) -> S] /\ \A i, j \in 1..Cardinality(S) : i # j => t[i] # t[j]
  BY DEF ReadStaging, SetToSeqs
<1> HIDE DEF S
<1>4. t \in Seq(S) /\ Len(t) = Cardinality(S)
  BY <1>2, <1>3
<1>5. S \subseteq Hashes
  BY DEF S
<1> QED
  BY <1>3, <1>4, <1>5 DEF Distinct
------------------------------------------------------------------------------
(* What each kind of step leaves of the invariant.                            *)

LEMMA TypesOfInv == FetchInv => TypeOK
  BY DEF FetchInv, TypeOK, Control, Books, Tally, World, Held

LEMMA InitInv == Init => FetchInv
<1> SUFFICES ASSUME Init PROVE FetchInv
  OBVIOUS
<1>1. /\ DOMAIN remote = Hashes /\ \A h \in Hashes : remote[h] \in Torrent(h)
      /\ lost = {} /\ local = [h \in Hashes |-> [i \in FilesOf(h) |-> "none"]]
      /\ pc = "idle" /\ opts = [partial |-> "skip", dry_run |-> TRUE]
      /\ listed = [h \in Hashes |-> "absent"] /\ todo = <<>> /\ files = {}
      /\ report = Idle("none") /\ faults = 0
  BY DEF Init
<1>2. Control
  BY <1>1 DEF Control
<1>3. Books
  <2>1. <<>> \in Seq(Hashes) /\ Distinct(<<>>)
    BY DEF Distinct
  <2>2. Idle("none") \in Report
    BY DEF Report, Result, Idle
  <2> QED
    BY <1>1, <2>1, <2>2 DEF Books, Queue, CountedOnce, Tally
<1>4. World
  BY <1>1 DEF World, Domains, Held, LocalBehind, ListedHolds, Progress
<1>5. InHand /\ FetchedIsWhole
  BY <1>1 DEF InHand, FetchedIsWhole, Idle
<1> QED
  BY <1>2, <1>3, <1>4, <1>5 DEF FetchInv

LEMMA SameWorld ==
  ASSUME World, UNCHANGED <<remote, lost, local, listed>>
  PROVE  World'
  BY DEF World, Domains, Held, LocalBehind, ListedHolds

LEMMA Charged == ASSUME Control, Fault PROVE faults' \in 0..MaxFaults
  BY DEF Control, Fault

(* What is here stays here, and nothing new is claimed.                       *)
LEMMA FetchedStays ==
  ASSUME FetchedIsWhole, Books, report'.fetched \subseteq report.fetched,
         opts' = opts, listed' = listed,
         \A h \in Hashes : \A i \in FilesOf(h) :
           /\ remote'[h].wanted[i] => remote[h].wanted[i]
           /\ local[h][i] = "all" => local'[h][i] = "all"
  PROVE  FetchedIsWhole'
<1>1. report.fetched \subseteq Hashes
  BY DEF Books, Queue, Report
<1>2. ASSUME NEW h \in report'.fetched, listed'[h] = "complete", ~opts'.dry_run,
             Relatives(h, FilesOf(h)) = FilesOf(h)
      PROVE  IsHere(h)'
  <2>1. h \in report.fetched /\ h \in Hashes
    BY <1>1
  <2>2. IsHere(h)
    BY <1>2, <2>1 DEF FetchedIsWhole
  <2>3. ASSUME NEW i \in FilesOf(h), remote'[h].wanted[i] PROVE local'[h][i] = "all"
    <3>1. remote[h].wanted[i]
      BY <2>1, <2>3
    <3>2. local[h][i] = "all"
      BY <2>2, <3>1 DEF IsHere, Wanted
    <3> QED
      BY <2>1, <3>2
  <2> QED
    BY <2>3 DEF IsHere, Wanted
<1> QED
  BY <1>2 DEF FetchedIsWhole

Counts(outcome, h) == report' = [report EXCEPT ![outcome] = @ \cup {h}]

LEMMA CountRecord ==
  ASSUME Books, NEW h \in Hashes, NEW outcome \in Outcome, Counts(outcome, h)
  PROVE  /\ report' \in Report /\ report'.taken = report.taken
         /\ report'.fetched =
              IF outcome = "fetched" THEN report.fetched \cup {h} ELSE report.fetched
         /\ report'.skipped =
              IF outcome = "skipped" THEN report.skipped \cup {h} ELSE report.skipped
         /\ report'.failed = IF outcome = "failed" THEN report.failed \cup {h} ELSE report.failed
<1>1. report \in Report
  BY DEF Books, Queue
<1>2. CASE outcome = "fetched"
  BY <1>1, <1>2 DEF Report, Counts
<1>3. CASE outcome = "skipped"
  BY <1>1, <1>3 DEF Report, Counts
<1>4. CASE outcome = "failed"
  BY <1>1, <1>4 DEF Report, Counts
<1> QED
  BY <1>2, <1>3, <1>4 DEF Outcome

(* A torrent counted is taken from the queue and added to one of the three.   *)
LEMMA CountBooks ==
  ASSUME Books, pc # "idle", todo # <<>>, NEW outcome \in Outcome, Count(outcome)
  PROVE  Books' /\ InHand' /\ pc' = "select" /\ files' = {}
<1> DEFINE h == Head(todo)
<1>1. todo \in Seq(Hashes) /\ Distinct(todo) /\ report \in Report
  BY DEF Books, Queue
<1>2. /\ h \in Hashes /\ Tail(todo) \in Seq(Hashes) /\ Distinct(Tail(todo))
      /\ Len(todo) \in Nat /\ Len(Tail(todo)) = Len(todo) - 1
      /\ ToSet(todo) = {h} \cup ToSet(Tail(todo)) /\ h \notin ToSet(Tail(todo))
  BY <1>1, TailDistinct
<1>3. /\ todo' = Tail(todo) /\ pc' = "select" /\ files' = {}
      /\ Counts(outcome, h)
  BY DEF Count, Counts
<1> HIDE DEF h
<1>4. /\ report' \in Report /\ report'.taken = report.taken
      /\ report'.fetched = IF outcome = "fetched" THEN report.fetched \cup {h} ELSE report.fetched
      /\ report'.skipped = IF outcome = "skipped" THEN report.skipped \cup {h} ELSE report.skipped
      /\ report'.failed = IF outcome = "failed" THEN report.failed \cup {h} ELSE report.failed
  BY <1>2, <1>3, CountRecord
<1>5. h \notin report.fetched /\ h \notin report.skipped /\ h \notin report.failed
  BY <1>2 DEF Books, CountedOnce
<1>6. Queue'
  BY <1>2, <1>3, <1>4 DEF Queue, Distinct
<1>7. CountedOnce'
  BY <1>2, <1>3, <1>4, <1>5 DEF Books, CountedOnce, Outcome
<1>8. \A S \in {report.fetched, report.skipped, report.failed} :
        IsFiniteSet(S) /\ Cardinality(S) \in Nat /\ Cardinality(S \cup {h}) = Cardinality(S) + 1
  <2>1. \A S \in SUBSET Hashes : IsFiniteSet(S) /\ Cardinality(S) \in Nat
    BY FS_Subset, FS_CardinalityType
  <2>2. \A S \in {report.fetched, report.skipped, report.failed} : S \in SUBSET Hashes /\ h \notin S
    BY <1>1, <1>5 DEF Report
  <2> QED
    BY <2>1, <2>2, FS_AddElement
<1>9. Tally'
  <2>1. report'.taken = ToSet(todo') \cup report'.fetched \cup report'.skipped \cup report'.failed
    BY <1>2, <1>3, <1>4 DEF Books, Tally, Outcome
  <2>2. Cardinality(report'.taken) = Len(todo') + Cardinality(report'.fetched)
                                      + Cardinality(report'.skipped) + Cardinality(report'.failed)
    <3>1. Cardinality(report.taken) = Len(todo) + Cardinality(report.fetched)
                                        + Cardinality(report.skipped) + Cardinality(report.failed)
      BY DEF Books, Tally
    <3>2. /\ Cardinality(report.fetched) \in Nat /\ Cardinality(report.skipped) \in Nat
          /\ Cardinality(report.failed) \in Nat
      BY <1>8
    <3>3. CASE outcome = "fetched"
      <4>1. /\ Cardinality(report'.fetched) = Cardinality(report.fetched) + 1
            /\ report'.skipped = report.skipped /\ report'.failed = report.failed
        BY <1>4, <1>8, <3>3
      <4> QED
        BY <1>2, <1>3, <1>4, <3>1, <3>2, <4>1
    <3>4. CASE outcome = "skipped"
      <4>1. /\ Cardinality(report'.skipped) = Cardinality(report.skipped) + 1
            /\ report'.fetched = report.fetched /\ report'.failed = report.failed
        BY <1>4, <1>8, <3>4
      <4> QED
        BY <1>2, <1>3, <1>4, <3>1, <3>2, <4>1
    <3>5. CASE outcome = "failed"
      <4>1. /\ Cardinality(report'.failed) = Cardinality(report.failed) + 1
            /\ report'.fetched = report.fetched /\ report'.skipped = report.skipped
        BY <1>4, <1>8, <3>5
      <4> QED
        BY <1>2, <1>3, <1>4, <3>1, <3>2, <4>1
    <3> QED
      BY <3>3, <3>4, <3>5 DEF Outcome
  <2> QED
    BY <2>1, <2>2 DEF Tally
<1> QED
  BY <1>3, <1>6, <1>7, <1>9 DEF Books, InHand

LEMMA CountInv ==
  ASSUME FetchInv, pc # "idle", todo # <<>>, NEW outcome \in Outcome, Count(outcome),
         World', FetchedIsWhole', opts' = opts, faults' \in 0..MaxFaults
  PROVE  FetchInv'
<1>1. Books' /\ InHand' /\ pc' = "select" /\ files' = {}
  BY CountBooks DEF FetchInv
<1>2. Control'
  BY <1>1 DEF FetchInv, Control
<1> QED
  BY <1>1, <1>2 DEF FetchInv

(* A torrent counted without anything copied.                                 *)
LEMMA PassInv ==
  ASSUME FetchInv, pc # "idle", todo # <<>>, NEW outcome \in Outcome, Count(outcome),
         outcome # "fetched" \/ opts.dry_run,
         UNCHANGED <<remote, lost, local, opts, listed>>, faults' \in 0..MaxFaults
  PROVE  FetchInv'
<1>1. World'
  BY SameWorld DEF FetchInv
<1>2. Head(todo) \in Hashes
  BY TailDistinct DEF FetchInv, Books, Queue
<1>3. FetchedIsWhole'
  <2>1. CASE opts.dry_run
    BY <2>1 DEF FetchedIsWhole
  <2>2. CASE outcome # "fetched"
    <3>1. Counts(outcome, Head(todo))
      BY DEF Count, Counts
    <3>2. report'.fetched = report.fetched
      BY <1>2, <2>2, <3>1, CountRecord DEF FetchInv
    <3> QED
      BY <3>2, FetchedStays DEF FetchInv
  <2> QED
    BY <2>1, <2>2
<1> QED
  BY <1>1, <1>3, CountInv

LEMMA BeginInv ==
  ASSUME FetchInv, NEW partial \in Partials, NEW dry_run \in BOOLEAN, NEW cap \in TorrentCaps,
         Begin(partial, dry_run, cap)
  PROVE  FetchInv'
<1>1. PICK order \in ReadStaging : todo' = Truncate(order, cap)
  BY DEF Begin
<1>2. todo' \in Seq(Hashes) /\ Distinct(todo')
  BY <1>1, StagingDistinct, TruncateDistinct
<1>3. /\ pc = "idle" /\ pc' = "select" /\ opts' = [partial |-> partial, dry_run |-> dry_run]
      /\ listed' = List /\ UNCHANGED <<remote, lost, local, files, faults>>
      /\ report' = [end |-> "running", taken |-> ToSet(todo'), fetched |-> {}, skipped |-> {},
                    failed |-> {}]
  BY DEF Begin, Idle
<1>4. ToSet(todo') \subseteq Hashes /\ Cardinality(ToSet(todo')) = Len(todo') /\ Len(todo') \in Nat
  BY <1>2, DistinctCount
<1>5. Control'
  BY <1>3 DEF FetchInv, Control
<1>6. Books'
  <2>1. report' \in Report
    BY <1>3, <1>4 DEF Report, Result
  <2>2. Queue' /\ CountedOnce'
    BY <1>2, <1>3, <2>1 DEF Queue, Distinct, CountedOnce
  <2>3. Tally'
    BY <1>3, <1>4, FS_EmptySet DEF Tally
  <2> QED
    BY <2>2, <2>3 DEF Books
<1>7. World'
  <2>1. ASSUME NEW h \in Hashes, listed'[h] = "complete", NEW i \in FilesOf(h), remote[h].wanted[i]
        PROVE  remote[h].has[i] = "all"
    <3>1. IsPieceComplete(remote[h])
      BY <1>3, <2>1 DEF List
    <3>2. i \in DOMAIN remote[h].has
      BY DEF FetchInv, World, Held, Torrent
    <3> QED
      BY <2>1, <3>1, <3>2 DEF IsPieceComplete
  <2>2. ListedHolds'
    BY <1>3, <2>1 DEF ListedHolds
  <2>3. listed' \in [Hashes -> {"absent", "partial", "complete"}]
    BY <1>3 DEF List
  <2> QED
    BY <1>3, <2>2, <2>3 DEF FetchInv, World, Domains, Held, LocalBehind
<1>8. InHand' /\ FetchedIsWhole'
  BY <1>3 DEF InHand, FetchedIsWhole
<1> QED
  BY <1>5, <1>6, <1>7, <1>8 DEF FetchInv

LEMMA BeginFailsInv == ASSUME FetchInv, BeginFails PROVE FetchInv'
<1>1. /\ pc = "idle" /\ report' = Idle("error")
      /\ UNCHANGED <<remote, lost, local, pc, opts, listed, todo, files>>
  BY DEF BeginFails
<1>2. faults' \in 0..MaxFaults
  BY Charged DEF BeginFails, FetchInv
<1>3. Control'
  BY <1>1, <1>2 DEF FetchInv, Control
<1>4. Idle("error") \in Report
  BY DEF Report, Result, Idle
<1>5. Books'
  BY <1>1, <1>4 DEF FetchInv, Books, Queue, CountedOnce, Tally, Distinct
<1>6. World'
  BY <1>1, SameWorld DEF FetchInv
<1>7. InHand' /\ FetchedIsWhole'
  BY <1>1 DEF InHand, FetchedIsWhole, Idle
<1> QED
  BY <1>3, <1>5, <1>6, <1>7 DEF FetchInv

LEMMA SelectInv == ASSUME FetchInv, Select PROVE FetchInv'
<1> DEFINE h == Head(todo)
<1>1. pc = "select" /\ todo # <<>> /\ UNCHANGED <<remote, lost, local, opts, listed>>
  BY DEF Select
<1>2. h \in Hashes
  BY <1>1, TailDistinct DEF FetchInv, Books, Queue
<1>3. \/ (Missing(h) \/ Skip(h) \/ Choose(h)) /\ UNCHANGED faults
      \/ AskFails(h)
  BY DEF Select
<1>4. faults \in 0..MaxFaults
  BY DEF FetchInv, Control
<1>5. CASE Missing(h) /\ UNCHANGED faults
  BY <1>1, <1>4, <1>5, PassInv DEF Missing, Outcome
<1>6. CASE Skip(h) /\ UNCHANGED faults
  BY <1>1, <1>4, <1>6, PassInv DEF Skip, Outcome
<1>7. CASE AskFails(h)
  <2>1. Count("failed") /\ faults' \in 0..MaxFaults
    BY <1>4, <1>7, Charged DEF AskFails, FetchInv
  <2> QED
    BY <1>1, <2>1, PassInv DEF Outcome
<1>8. CASE Choose(h) /\ UNCHANGED faults
  <2> DEFINE wanted ==
        IF AsksForFiles(h) THEN {i \in FilesOf(h) : FileComplete(h, i)} ELSE FilesOf(h)
             chosen == Relatives(h, wanted)
  <2>1. \/ Count("failed")
        \/ Count("fetched") /\ opts.dry_run
        \/ chosen # {} /\ files' = chosen /\ pc' = "copy" /\ UNCHANGED <<todo, report>>
    BY <1>8 DEF Choose
  <2>2. CASE Count("failed")
    BY <1>1, <1>4, <1>8, <2>2, PassInv DEF Outcome
  <2>3. CASE Count("fetched") /\ opts.dry_run
    BY <1>1, <1>4, <1>8, <2>3, PassInv DEF Outcome
  <2>4. CASE chosen # {} /\ files' = chosen /\ pc' = "copy" /\ UNCHANGED <<todo, report>>
    <3>1. Control'
      BY <1>1, <1>8, <2>4 DEF FetchInv, Control
    <3>2. Books'
      BY <1>1, <2>4 DEF FetchInv, Books, Queue, CountedOnce, Tally, Distinct
    <3>3. chosen \subseteq FilesOf(h)
      BY DEF Relatives
    <3>4. listed[h] = "complete" => chosen = Relatives(h, FilesOf(h))
      BY DEF AsksForFiles
    <3>5. InHand'
      <4> HIDE DEF chosen
      <4> QED
        BY <1>1, <2>4, <3>3, <3>4 DEF InHand
    <3>6. World'
      BY <1>1, SameWorld DEF FetchInv
    <3>7. FetchedIsWhole'
      BY <1>1, <2>4, FetchedStays DEF FetchInv
    <3> QED
      BY <3>1, <3>2, <3>5, <3>6, <3>7 DEF FetchInv
  <2> QED
    BY <2>1, <2>2, <2>3, <2>4
<1> QED
  BY <1>3, <1>5, <1>6, <1>7, <1>8

Lands(h, sent, cut) ==
  local' = [local EXCEPT ![h] = [i \in FilesOf(h) |->
              IF i \in cut THEN "part" ELSE IF i \in sent THEN OnDisk(h, i) ELSE @[i]]]

(* A copy brings what the client has, or cuts short what was not whole here.  *)
LEMMA LandWorld ==
  ASSUME World, NEW h \in Hashes, NEW sent, NEW cut,
         \A i \in sent : OnDisk(h, i) # "none",
         \A i \in cut : local[h][i] # "all",
         Lands(h, sent, cut), UNCHANGED <<remote, lost, listed>>
  PROVE  /\ World'
         /\ \A g \in Hashes : \A i \in FilesOf(g) : local[g][i] = "all" => local'[g][i] = "all"
         /\ \A i \in FilesOf(h) : i \in sent /\ i \notin cut => local'[h][i] = remote[h].has[i]
<1>1. \A i \in FilesOf(h) : /\ remote[h].has[i] \in Progress
                            /\ i \in sent => OnDisk(h, i) = remote[h].has[i]
  BY DEF World, Held, OnDisk, Torrent
<1>2. DOMAIN local = Hashes /\ DOMAIN remote = Hashes
  BY DEF World, Domains
<1>3. /\ DOMAIN local' = Hashes
      /\ local'[h] = [i \in FilesOf(h) |->
            IF i \in cut THEN "part" ELSE IF i \in sent THEN OnDisk(h, i) ELSE local[h][i]]
      /\ \A g \in Hashes \ {h} : local'[g] = local[g]
  BY <1>2 DEF Lands
<1>4. \A i \in FilesOf(h) : local'[h][i] = IF i \in cut THEN "part"
                                       ELSE IF i \in sent THEN remote[h].has[i] ELSE local[h][i]
  BY <1>1, <1>3
<1>5. local'[h] \in [FilesOf(h) -> Progress]
  BY <1>1, <1>3 DEF World, Held, Progress
<1>6. \A g \in Hashes : local'[g] \in [FilesOf(g) -> Progress]
  BY <1>3, <1>5 DEF World, Held
<1>7. ASSUME NEW g \in Hashes, NEW i \in FilesOf(g)
      PROVE  /\ local'[g][i] = "all" => remote[g].has[i] = "all"
             /\ local[g][i] = "all" => local'[g][i] = "all"
  <2>1. local[g][i] = "all" => remote[g].has[i] = "all"
    BY DEF World, LocalBehind
  <2>2. CASE g = h
    BY <1>4, <2>1, <2>2
  <2>3. CASE g # h
    BY <1>3, <2>1, <2>3
  <2> QED
    BY <2>2, <2>3
<1>8. World'
  BY <1>2, <1>3, <1>6, <1>7 DEF World, Domains, Held, LocalBehind, ListedHolds
<1> QED
  BY <1>4, <1>7, <1>8

CopyOf(h) ==
  LET there == {i \in files : OnDisk(h, i) # "none"}
      news == {i \in there : local[h][i] # "all"}
  IN \/ Lands(h, there, {}) /\ CopyEnds(there) /\ UNCHANGED faults
     \/ /\ Fault
        /\ Count("failed")
        /\ \E sent \in SUBSET news : 
             \E cut \in {c \in SUBSET sent : Cardinality(c) <= 1} : Lands(h, sent, cut)

LEMMA CopyInv == ASSUME FetchInv, Copy PROVE FetchInv'
<1>1. pc = "copy" /\ UNCHANGED <<remote, lost, opts, listed>>
  BY DEF Copy
<1>2. todo # <<>> /\ Head(todo) \in Hashes
  BY <1>1, TailDistinct DEF FetchInv, InHand, Books, Queue
<1>3. PICK h \in Hashes : h = Head(todo)
  BY <1>2
<1> DEFINE there == {i \in files : OnDisk(h, i) # "none"}
           news == {i \in there : local[h][i] # "all"}
<1>4. /\ files \subseteq FilesOf(h)
      /\ listed[h] = "complete" => files = Relatives(h, FilesOf(h))
      /\ faults \in 0..MaxFaults
  BY <1>1, <1>3 DEF FetchInv, InHand, Control
<1>5. \/ Lands(h, there, {}) /\ CopyEnds(there) /\ UNCHANGED faults
      \/ /\ Fault
         /\ Count("failed")
         /\ \E sent \in SUBSET news : 
              \E cut \in {c \in SUBSET sent : Cardinality(c) <= 1} : Lands(h, sent, cut)
  <2>1. CopyOf(Head(todo))
    BY DEF Copy, CopyOf, Lands
  <2>2. CopyOf(h)
    BY <1>3, <2>1
  <2> QED
    BY <2>2 DEF CopyOf
<1>6. CASE Lands(h, there, {}) /\ CopyEnds(there) /\ UNCHANGED faults
  <2>1. /\ World'
        /\ \A g \in Hashes : \A i \in FilesOf(g) : local[g][i] = "all" => local'[g][i] = "all"
        /\ \A i \in FilesOf(h) : i \in there => local'[h][i] = remote[h].has[i]
    BY <1>1, <1>3, <1>6, LandWorld DEF FetchInv
  <2>2. CASE there # files
    <3>1. Count("failed")
      BY <1>6, <2>2 DEF CopyEnds
    <3>2. Counts("failed", h)
      BY <1>3, <3>1 DEF Count, Counts
    <3>3. report'.fetched = report.fetched
      BY <1>3, <3>2, CountRecord DEF Outcome, FetchInv
    <3>4. FetchedIsWhole'
      BY <1>1, <2>1, <3>3, FetchedStays DEF FetchInv
    <3> QED
      BY <1>1, <1>2, <1>4, <1>6, <2>1, <3>1, <3>4, CountInv DEF Outcome
  <2>3. CASE there = files
    <3>1. Count("fetched")
      BY <1>6, <2>3 DEF CopyEnds
    <3>2. Counts("fetched", h)
      BY <1>3, <3>1 DEF Count, Counts
    <3>3. report'.fetched = report.fetched \cup {h}
      BY <1>3, <3>2, CountRecord DEF Outcome, FetchInv
    <3>4. ASSUME listed[h] = "complete", Relatives(h, FilesOf(h)) = FilesOf(h)
          PROVE  IsHere(h)'
      <4>1. there = FilesOf(h)
        BY <1>4, <2>3, <3>4
      <4>2. ASSUME NEW i \in FilesOf(h), remote[h].wanted[i] PROVE local'[h][i] = "all"
        <5>1. remote[h].has[i] = "all"
          BY <1>3, <3>4, <4>2 DEF FetchInv, World, ListedHolds
        <5> QED
          BY <2>1, <4>1, <5>1
      <4> QED
        BY <1>1, <4>2 DEF IsHere, Wanted
    <3>5. ASSUME NEW g \in report.fetched, listed[g] = "complete", ~opts.dry_run,
                 Relatives(g, FilesOf(g)) = FilesOf(g)
          PROVE  IsHere(g)'
      <4>1. g \in Hashes
        BY DEF FetchInv, Books, Queue, Report
      <4>2. IsHere(g)
        BY <3>5 DEF FetchInv, FetchedIsWhole
      <4> QED
        BY <1>1, <2>1, <4>1, <4>2 DEF IsHere, Wanted
    <3>6. FetchedIsWhole'
      BY <1>1, <3>3, <3>4, <3>5 DEF FetchedIsWhole
    <3> QED
      BY <1>1, <1>2, <1>4, <1>6, <2>1, <3>1, <3>6, CountInv DEF Outcome
  <2> QED
    BY <2>2, <2>3
<1>7. CASE /\ Fault
           /\ Count("failed")
           /\ \E sent \in SUBSET news : 
                \E cut \in {c \in SUBSET sent : Cardinality(c) <= 1} : Lands(h, sent, cut)
  <2>1. PICK sent \in SUBSET news : \E cut \in SUBSET sent : Lands(h, sent, cut)
    BY <1>7
  <2>0. PICK cut \in SUBSET sent : Lands(h, sent, cut)
    BY <2>1
  <2>2. /\ World'
        /\ \A g \in Hashes : \A i \in FilesOf(g) : local[g][i] = "all" => local'[g][i] = "all"
    BY <1>1, <1>3, <2>0, LandWorld DEF FetchInv
  <2>3. Counts("failed", h)
    BY <1>3, <1>7 DEF Count, Counts
  <2>4. report'.fetched = report.fetched
    BY <1>3, <2>3, CountRecord DEF Outcome, FetchInv
  <2>5. FetchedIsWhole'
    BY <1>1, <2>2, <2>4, FetchedStays DEF FetchInv
  <2>6. faults' \in 0..MaxFaults
    BY <1>7, Charged DEF FetchInv
  <2> QED
    BY <1>1, <1>2, <1>7, <2>2, <2>5, <2>6, CountInv DEF Outcome
<1> QED
  BY <1>5, <1>6, <1>7

(* The run is over, one way or the other.                                     *)
LEMMA OverInv ==
  ASSUME FetchInv, pc' = "idle", files' = {}, todo' = <<>>, NEW end \in Result,
         report' = [report EXCEPT !.end = end],
         UNCHANGED <<remote, lost, local, opts, listed>>, faults' \in 0..MaxFaults
  PROVE  FetchInv'
<1>1. report' \in Report /\ report'.fetched = report.fetched
  BY DEF FetchInv, Books, Queue, Report
<1>2. <<>> \in Seq(Hashes) /\ Distinct(<<>>)
  BY DEF Distinct
<1>3. Books'
  BY <1>1, <1>2 DEF Books, Queue, CountedOnce, Tally
<1>4. Control'
  BY DEF FetchInv, Control
<1>5. World'
  BY SameWorld DEF FetchInv
<1>6. FetchedIsWhole'
  BY <1>1, FetchedStays DEF FetchInv
<1>7. InHand'
  BY DEF InHand
<1> QED
  BY <1>3, <1>4, <1>5, <1>6, <1>7 DEF FetchInv

LEMMA EndInv == ASSUME FetchInv, End PROVE FetchInv'
<1>1. files = {} /\ faults \in 0..MaxFaults
  BY DEF End, FetchInv, Control
<1> DEFINE end == IF report.failed = {} THEN "complete" ELSE "incomplete"
<1>2. end \in Result
  BY DEF Result
<1>3. report' = [report EXCEPT !.end = end]
  BY DEF End
<1> HIDE DEF end
<1> QED
  BY <1>1, <1>2, <1>3, OverInv DEF End

LEMMA KillInv == ASSUME FetchInv, Kill PROVE FetchInv'
<1>1. faults' \in 0..MaxFaults
  BY Charged DEF Kill, FetchInv
<1>2. "killed" \in Result
  BY DEF Result
<1> QED
  BY <1>1, <1>2, OverInv DEF Kill
------------------------------------------------------------------------------
(* The remote meanwhile.                                                      *)

LEMMA MeanwhileInv ==
  ASSUME FetchInv, World', faults' \in 0..MaxFaults,
         \A h \in Hashes : \A i \in FilesOf(h) : remote'[h].wanted[i] => remote[h].wanted[i],
         UNCHANGED <<local, pc, command, todo, files>>
  PROVE  FetchInv'
<1>1. UNCHANGED <<opts, listed, report>>
  BY DEF command
<1>2. Control' /\ Books' /\ InHand'
  BY <1>1 DEF FetchInv, Control, Books, Queue, CountedOnce, Tally, Distinct, InHand
<1>3. FetchedIsWhole'
  BY <1>1, FetchedStays DEF FetchInv
<1> QED
  BY <1>2, <1>3 DEF FetchInv

LEMMA DownloadInv ==
  ASSUME FetchInv, NEW h \in Hashes, NEW i \in FilesOf(h), Download(h, i)
  PROVE  FetchInv'
<1>1. /\ remote[h].has[i] # "all"
      /\ UNCHANGED <<lost, local, pc, command, todo, files, faults>>
  BY DEF Download
<1>2. DOMAIN remote = Hashes /\ remote[h] \in Torrent(h)
  BY DEF FetchInv, World, Domains, Held
<1> DEFINE next == IF remote[h].has[i] = "none" THEN "part" ELSE "all"
<1>3. remote' = [remote EXCEPT ![h].has[i] = next]
  BY DEF Download
<1>4. next \in Progress
  BY DEF Progress
<1> HIDE DEF next
<1>5. /\ DOMAIN remote' = Hashes /\ remote'[h] \in Torrent(h)
      /\ remote'[h].wanted = remote[h].wanted
      /\ \A j \in FilesOf(h) : j # i => remote'[h].has[j] = remote[h].has[j]
      /\ \A g \in Hashes \ {h} : remote'[g] = remote[g]
  BY <1>2, <1>3, <1>4 DEF Torrent
<1>6. World'
  <2>1. ASSUME NEW g \in Hashes, NEW j \in FilesOf(g)
        PROVE  /\ remote[g].has[j] = "all" => remote'[g].has[j] = "all"
               /\ remote'[g].wanted[j] => remote[g].wanted[j]
    BY <1>1, <1>5
  <2>2. \A g \in Hashes : remote'[g] \in Torrent(g)
    BY <1>5 DEF FetchInv, World, Held
  <2>3. listed' = listed
    BY <1>1 DEF command
  <2>4. Held'
    BY <1>1, <2>1, <2>2, <2>3 DEF FetchInv, World, Held
  <2>5. LocalBehind' /\ ListedHolds'
    BY <1>1, <2>1, <2>3 DEF FetchInv, World, LocalBehind, ListedHolds
  <2> QED
    BY <1>1, <1>5, <2>4, <2>5 DEF FetchInv, World, Domains
<1>7. \A g \in Hashes : \A j \in FilesOf(g) : remote'[g].wanted[j] => remote[g].wanted[j]
  BY <1>5
<1>8. faults' \in 0..MaxFaults
  BY <1>1 DEF FetchInv, Control
<1> QED
  BY <1>1, <1>6, <1>7, <1>8, MeanwhileInv

LEMMA RemovesInv ==
  ASSUME FetchInv, NEW h \in Hashes, Removes(h)
  PROVE  FetchInv'
<1>1. Fault /\ UNCHANGED <<lost, local, pc, command, todo, files>>
  BY DEF Removes
<1>2. DOMAIN remote = Hashes /\ remote[h] \in Torrent(h)
  BY DEF FetchInv, World, Domains, Held
<1>3. /\ DOMAIN remote' = Hashes /\ remote'[h] \in Torrent(h)
      /\ remote'[h].wanted = remote[h].wanted /\ remote'[h].has = remote[h].has
      /\ \A g \in Hashes \ {h} : remote'[g] = remote[g]
  BY <1>2 DEF Removes, Torrent
<1>4. \A g \in Hashes : /\ remote'[g] \in Torrent(g)
                       /\ remote'[g].wanted = remote[g].wanted /\ remote'[g].has = remote[g].has
  BY <1>3 DEF FetchInv, World, Held
<1>5. listed' = listed
  BY <1>1 DEF command
<1>6. World'
  <2>1. Held'
    BY <1>1, <1>4, <1>5 DEF FetchInv, World, Held
  <2>2. LocalBehind' /\ ListedHolds'
    BY <1>1, <1>4, <1>5 DEF FetchInv, World, LocalBehind, ListedHolds
  <2> QED
    BY <1>1, <1>3, <2>1, <2>2 DEF FetchInv, World, Domains
<1>7. faults' \in 0..MaxFaults
  BY <1>1, Charged DEF FetchInv
<1> QED
  BY <1>1, <1>4, <1>6, <1>7, MeanwhileInv

LEMMA LoseInv ==
  ASSUME FetchInv, NEW h \in Hashes, NEW i \in FilesOf(h), Lose(h, i)
  PROVE  FetchInv'
<1>1. /\ Fault /\ UNCHANGED <<remote, local, pc, command, todo, files>>
      /\ OnDisk(h, i) = "all" /\ lost' = lost \cup {<<h, i>>}
  BY DEF Lose
<1>2. remote[h].has[i] = "all"
  BY <1>1 DEF OnDisk
<1>3. listed' = listed
  BY <1>1 DEF command
<1>4. ASSUME NEW g \in Hashes, NEW j \in FilesOf(g), <<g, j>> \in lost'
      PROVE  remote[g].has[j] = "all"
  BY <1>1, <1>2, <1>4 DEF FetchInv, World, Held
<1>5. World'
  BY <1>1, <1>3, <1>4 DEF FetchInv, World, Domains, Held, LocalBehind, ListedHolds
<1>6. faults' \in 0..MaxFaults
  BY <1>1, Charged DEF FetchInv
<1> QED
  BY <1>1, <1>5, <1>6, MeanwhileInv

LEMMA StepInv == FetchInv /\ [Next]_vars => FetchInv'
<1> SUFFICES ASSUME FetchInv, [Next]_vars PROVE FetchInv'
  OBVIOUS
<1>1. ASSUME NEW partial \in Partials, NEW dry_run \in BOOLEAN, NEW cap \in TorrentCaps,
             Begin(partial, dry_run, cap)
      PROVE  FetchInv'
  BY <1>1, BeginInv
<1>2. CASE BeginFails
  BY <1>2, BeginFailsInv
<1>3. CASE Step
  BY <1>3, SelectInv, CopyInv, EndInv DEF Step
<1>4. CASE Kill
  BY <1>4, KillInv
<1>5. CASE RemoteStep
  BY <1>5, RemovesInv, DownloadInv, LoseInv DEF RemoteStep
<1>6. CASE UNCHANGED vars
  <2>1. World'
    BY <1>6, SameWorld DEF vars, command, FetchInv
  <2>2. faults' \in 0..MaxFaults
    BY <1>6 DEF vars, FetchInv, Control
  <2> QED
    BY <1>6, <2>1, <2>2, MeanwhileInv DEF vars
<1> QED
  BY <1>1, <1>2, <1>3, <1>4, <1>5, <1>6 DEF Next

(* The counts, the queue, the files in hand and what is here agree with what  *)
(* the client listed when the run began, though its torrents have moved on.   *)
THEOREM FetchInvariant == Spec => []FetchInv
<1>1. Init => FetchInv
  BY InitInv
<1>2. FetchInv /\ [Next]_vars => FetchInv'
  BY StepInv
<1> QED
  BY <1>1, <1>2, PTL DEF Spec

(* Types, and the count of a run (fetch::run, Report): each torrent it took   *)
(* is in one of the three lists or still in the queue, and in one only.       *)
THEOREM FetchTypes == Spec => []TypeOK
<1>1. FetchInv => TypeOK
  BY TypesOfInv
<1> QED
  BY <1>1, FetchInvariant, PTL

(* What is counted as fetched is here: the client was asked when the run      *)
(* began and its rsync ran much later, beside downloads, removals and losses. *)
THEOREM FetchCountsOnlyWhatIsHere == Spec => []FetchedIsWhole
<1>1. FetchInv => FetchedIsWhole
  BY DEF FetchInv
<1> QED
  BY <1>1, FetchInvariant, PTL
==============================================================================
