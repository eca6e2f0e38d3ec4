----------------------------- MODULE MigrateProofs -----------------------------
(***************************************************************************)
(* A migration, for every library, cap, listing order, client and number   *)
(* of faults: a run that had verify in it begins to start torrents only    *)
(* when all those it was asked about are whole, its two loops lose nothing *)
(* they were given, and one that ends complete leaves nothing behind.      *)
(* The last part joins this to what PayloadProofs says of rewrite and      *)
(* transfer: the destination has what it seeds where its client looks.     *)
(***************************************************************************)
EXTENDS Migrate, PayloadProofs

USE MigrateAssumption, PayloadAssumption

(* Neither a hash that ends nor a user who rechecks touches such a torrent.   *)
IsHandable(h) == IsPieceComplete(dst[h]) /\ (IsStopped(dst[h].state) \/ IsSeeding(dst[h].state))

(* GateHolds says nothing of the time between verify and handoff, in which     *)
(* the user edits the library and hashes end; nor does it say that the         *)
(* listing verify counted is the one handoff reads.  What keeps it so is that  *)
(* nothing writes staging or changes a size while a run is there.              *)
LibraryTyped == library \in [Hashes -> Entry]
DstTyped == dst \in [Hashes -> Torrent]
HadVerify == opts.from # "handoff"
ReadyBeforeHandoff == step = "handoff" /\ HadVerify => \A h \in ExpectedHashes : IsReady(h)
HandableDuring ==
  /\ step = "handing" => expected \subseteq Hashes
  /\ step = "handing" /\ HadVerify => \A h \in expected : IsHandable(h)
GateInv == LibraryTyped /\ DstTyped /\ ReadyBeforeHandoff /\ HandableDuring

(* The states a torrent is handed over in are none of those in which the       *)
(* client works on its own.                                                    *)
LEMMA HandableIsQuiet ==
  ASSUME NEW s, IsStopped(s) \/ IsSeeding(s)
  PROVE  ~IsChecking(s)
  BY DEF IsStopped, IsSeeding, IsChecking, StoppedStates, SeedingStates, CheckingStates

LEMMA StopTyped == ASSUME NEW t \in Torrent PROVE AfterStop(t) \in Torrent
  BY DEF AfterStop, Torrent, State, ListedStates, StoppedStates

LEMMA StartTyped == ASSUME NEW t \in Torrent PROVE AfterStart(t) \in Torrent
  BY DEF AfterStart, Torrent, State, ListedStates, SeedingStates, DownloadingStates

LEMMA StartKeepsHandable ==
  ASSUME NEW t \in Torrent, IsPieceComplete(t), IsStopped(t.state) \/ IsSeeding(t.state)
  PROVE  LET u == AfterStart(t)
         IN IsPieceComplete(u) /\ (IsStopped(u.state) \/ IsSeeding(u.state))
  BY DEF AfterStart, Torrent, IsPieceComplete, IsStopped, IsSeeding, StoppedStates, SeedingStates

LEMMA UnprovenTyped == Unproven \in Torrent /\ Hashing \in Torrent /\ AbsentTorrent \in Torrent
  BY DEF Unproven, Hashing, AbsentTorrent, Torrent, State, ListedStates, StoppedStates,
         CheckingStates, Absent

LEMMA ExpectedAreHashes == ExpectedHashes \subseteq Hashes
  BY DEF ExpectedHashes, Smallest

(* Verify and handoff read the same hashes as long as staging, the order, the *)
(* cap and the sizes are the same.                                            *)
LEMMA SameExpected ==
  ASSUME UNCHANGED <<staging, order, opts>>, \A h \in Hashes : library'[h].bytes = library[h].bytes
  PROVE  ExpectedHashes' = ExpectedHashes
<1> DEFINE staged == {h \in Hashes : staging[h].torrent = "good"}
           Position(h) == CHOOSE i \in DOMAIN order : order[i] = h
           Before(h) == {g \in staged : \/ library[g].bytes < library[h].bytes
                                        \/ library[g].bytes = library[h].bytes /\ Position(g) < Position(h)}
           BeforeNext(h) == {g \in staged : \/ library'[g].bytes < library'[h].bytes
                                            \/ library'[g].bytes = library'[h].bytes /\ Position(g) < Position(h)}
<1>1. ExpectedHashes = {h \in staged : \A n \in opts.limit : Cardinality(Before(h)) < n}
  BY DEF ExpectedHashes, Smallest
<1>2. ExpectedHashes' = {h \in staged : \A n \in opts.limit : Cardinality(BeforeNext(h)) < n}
  BY DEF ExpectedHashes, Smallest
<1>3. ASSUME NEW h \in staged PROVE BeforeNext(h) = Before(h)
  BY <1>3
<1> HIDE DEF Before, BeforeNext
<1> QED
  BY <1>1, <1>2, <1>3

LEMMA GateInit == MigrateInit => GateInv
  BY UnprovenTyped
  DEF MigrateInit, Init, GateInv, LibraryTyped, DstTyped, ReadyBeforeHandoff, HandableDuring

(* A step that begins or ends a run, or works outside the handoff. *)
LEMMA ElsewhereKeepsGate ==
  ASSUME GateInv, LibraryTyped', DstTyped', step' \notin {"handoff", "handing"}
  PROVE  GateInv'
  BY DEF GateInv, ReadyBeforeHandoff, HandableDuring

(* A step of Payload, other than an edit, leaves the library alone. *)
LEMMA PayloadKeepsLibrary ==
  ASSUME RewriteRuns \/ TransferRuns
  PROVE  UNCHANGED <<library, dst>> /\ step' \notin {"handoff", "handing"}
<1>1. CASE RewriteRuns
  BY <1>1 DEF RewriteRuns, BeginFails, BeginRewrite, WriteOne, EndRewrite, Error, Over, clients
<1>2. CASE TransferRuns
  BY <1>2
  DEF TransferRuns, BeginFails, BeginTransfer, Collect, Copy, EndTransfer, Error, Halt, Over,
      GoOn, clients
<1> QED
  BY <1>1, <1>2

(* An edit changes neither sizes nor anything but the library. *)
LEMMA EditKeepsSizes ==
  ASSUME LibraryTyped, Edit
  PROVE  LibraryTyped' /\ \A h \in Hashes : library'[h].bytes = library[h].bytes
<1>1. PICK h \in Hashes :
        \/ \E pair \in EditedPairs :
             library' = [library EXCEPT ![h] = [@ EXCEPT !.torrent = pair[1], !.resume = pair[2]]]
        \/ \E f \in Files : library' = [library EXCEPT ![h].disk = [@ EXCEPT ![f] = "absent"]]
  BY DEF Edit
<1>2. library[h] \in Entry
  BY DEF LibraryTyped
<1>3. ASSUME NEW pair \in EditedPairs,
             library' = [library EXCEPT ![h] = [@ EXCEPT !.torrent = pair[1], !.resume = pair[2]]]
      PROVE  LibraryTyped' /\ \A g \in Hashes : library'[g].bytes = library[g].bytes
  BY <1>2, <1>3, PayloadAssumption DEF LibraryTyped, Entry
<1>4. ASSUME NEW f \in Files, library' = [library EXCEPT ![h].disk = [@ EXCEPT ![f] = "absent"]]
      PROVE  LibraryTyped' /\ \A g \in Hashes : library'[g].bytes = library[g].bytes
  <2>1. [library[h].disk EXCEPT ![f] = "absent"] \in [Files -> Observed]
    BY <1>2 DEF Entry, Observed
  <2> QED
    BY <1>2, <1>4, <2>1 DEF LibraryTyped, Entry
<1> QED
  BY <1>1, <1>3, <1>4

(* What a torrent is on the destination after any of these steps. *)
LEMMA DstStaysTyped ==
  ASSUME DstTyped, NEW h \in Hashes, NEW t \in Torrent,
         dst' = [dst EXCEPT ![h] = t] \/ UNCHANGED dst
  PROVE  DstTyped'
  BY DEF DstTyped

LEMMA ImportKeepsGate ==
  ASSUME GateInv, NEW h \in Hashes, ImportOne(h)
  PROVE  GateInv'
<1>1. dst[h] \in Torrent /\ AfterStop(dst[h]) \in Torrent
  BY StopTyped DEF GateInv, DstTyped
<1>2. \/ UNCHANGED dst
      \/ \E t \in {Unproven, Hashing, AfterStop(dst[h])} : dst' = [dst EXCEPT ![h] = t]
  BY DEF ImportOne
<1>3. DstTyped'
  BY <1>1, <1>2, UnprovenTyped, DstStaysTyped DEF GateInv
<1>4. step' = "importing" /\ LibraryTyped'
  BY DEF ImportOne, payload, GateInv, LibraryTyped
<1> QED
  BY <1>3, <1>4, ElsewhereKeepsGate

LEMMA VerifyOpensGate ==
  ASSUME GateInv, VerifyRuns
  PROVE  GateInv'
<1>1. /\ UNCHANGED <<library, staging, dst>>
      /\ step' = "none" \/ UNCHANGED <<order, opts>>
  BY DEF VerifyRuns, AfterVerify, GoOn, Halt, Over, vars, clients
<1>2. LibraryTyped' /\ DstTyped'
  BY DEF VerifyRuns, vars, clients, GateInv, LibraryTyped, DstTyped
<1>3. CASE step' = "handoff"
  <2>1. UNCHANGED <<library, staging, dst, order, opts>>
    BY <1>1, <1>3
  <2>2. ExpectedHashes' = ExpectedHashes
    BY <2>1, SameExpected
  <2>3. \A h \in ExpectedHashes : IsReady(h)
    BY <1>3 DEF VerifyRuns, AfterVerify, Halt, Over
  <2> QED
    BY <1>2, <1>3, <2>1, <2>2, <2>3 DEF GateInv, ReadyBeforeHandoff, HandableDuring, IsReady
<1>4. step' \in {"handoff", "none"}
  BY DEF VerifyRuns, AfterVerify, GoOn, Halt, Over
<1> QED
  BY <1>2, <1>3, <1>4, ElsewhereKeepsGate

LEMMA HandoffEntersByGate ==
  ASSUME GateInv, BeginHandoff
  PROVE  GateInv'
<1>1. LibraryTyped' /\ DstTyped'
  BY DEF BeginHandoff, vars, clients, GateInv, LibraryTyped, DstTyped
<1>2. \/ step' = "none"
      \/ step' = "handing" /\ expected' = ExpectedHashes /\ UNCHANGED <<opts, dst>>
  BY DEF BeginHandoff, AfterHandoff, Halt, Over, clients
<1>3. step = "handoff"
  BY DEF BeginHandoff
<1>4. CASE step' = "handing"
  BY <1>1, <1>2, <1>3, <1>4, ExpectedAreHashes
  DEF GateInv, ReadyBeforeHandoff, HandableDuring, HadVerify, IsReady, IsHandable
<1> QED
  BY <1>1, <1>2, <1>4, ElsewhereKeepsGate

LEMMA HandingKeepsGate ==
  ASSUME GateInv, NEW h \in Hashes, HandOne(h)
  PROVE  GateInv'
<1>1. dst[h] \in Torrent /\ AfterStart(dst[h]) \in Torrent
  BY StartTyped DEF GateInv, DstTyped
<1>2. dst' = [dst EXCEPT ![h] = AfterStart(dst[h])] \/ UNCHANGED dst
  BY DEF HandOne
<1>3. LibraryTyped' /\ DstTyped'
  BY <1>1, <1>2, DstStaysTyped DEF HandOne, payload, GateInv, LibraryTyped
<1>4. step = "handing" /\ UNCHANGED <<step, opts, expected>>
  BY DEF HandOne
<1>5. ASSUME HadVerify, NEW g \in expected
      PROVE  IsHandable(g)'
  <2>1. g \in Hashes /\ IsHandable(g) /\ dst[g] \in Torrent
    BY <1>4, <1>5 DEF GateInv, HandableDuring, DstTyped
  <2>2. dst'[g] = dst[g] \/ dst'[g] = AfterStart(dst[g])
    BY <1>2, <2>1 DEF GateInv, DstTyped
  <2> QED
    BY <2>1, <2>2, StartKeepsHandable DEF IsHandable
<1> QED
  BY <1>3, <1>4, <1>5 DEF GateInv, ReadyBeforeHandoff, HandableDuring, HadVerify

LEMMA HashingKeepsGate ==
  ASSUME GateInv, NEW h \in Hashes, HashEnds(h)
  PROVE  GateInv'
<1> DEFINE proven == Holds(h, savedAt[h], Files)
           t == AfterStop([dst[h] EXCEPT !.complete = proven])
<1>1. dst[h] \in Torrent /\ proven \in BOOLEAN
  BY DEF GateInv, DstTyped, Holds
<1>2. t \in Torrent
  <2>1. [dst[h] EXCEPT !.complete = proven] \in Torrent
    BY <1>1 DEF Torrent
  <2> QED
    BY <2>1, StopTyped
<1>3. dst' = [dst EXCEPT ![h] = t] /\ UNCHANGED <<library, staging, step, opts, order, expected>>
  BY DEF HashEnds, vars, migration
<1>4. LibraryTyped' /\ DstTyped'
  BY <1>2, <1>3, DstStaysTyped DEF GateInv, LibraryTyped
<1>5. ExpectedHashes' = ExpectedHashes
  BY <1>3, SameExpected
<1>6. \A g \in Hashes : g # h => dst'[g] = dst[g]
  BY <1>3 DEF GateInv, DstTyped
<1>7. ~IsStopped(dst[h].state) /\ ~IsSeeding(dst[h].state)
  BY HandableIsQuiet DEF HashEnds
<1> QED
  BY <1>3, <1>4, <1>5, <1>6, <1>7, ExpectedAreHashes
  DEF GateInv, ReadyBeforeHandoff, HandableDuring, HadVerify, IsReady, IsHandable

LEMMA EditKeepsGate ==
  ASSUME GateInv, UserEdits
  PROVE  GateInv'
<1>1. LibraryTyped' /\ \A h \in Hashes : library'[h].bytes = library[h].bytes
  BY EditKeepsSizes DEF UserEdits, GateInv
<1>2. UNCHANGED <<staging, dst, step, opts, order, expected>>
  BY DEF UserEdits, Edit, clients, migration
<1>3. ExpectedHashes' = ExpectedHashes
  BY <1>1, <1>2, SameExpected
<1> QED
  BY <1>1, <1>2, <1>3
  DEF GateInv, DstTyped, ReadyBeforeHandoff, HandableDuring, HadVerify, IsReady, IsHandable

(* Every other step begins or ends a run, or is taken before verify is over. *)
LEMMA OtherStepsKeepGate ==
  ASSUME GateInv,
         \/ \E o \in Migrations : Migrate(o) /\ o.from # "handoff"
         \/ StepFails \/ RewriteRuns \/ TransferRuns \/ BeginImport \/ EndImport \/ EndWithout
         \/ EndHandoff \/ KillMigrate
  PROVE  GateInv'
<1>1. ASSUME NEW o \in Migrations, Migrate(o), o.from # "handoff"
      PROVE  UNCHANGED <<library, dst>> /\ step' \notin {"handoff", "handing"}
  <2>1. o.from \in Steps
    BY DEF Option
  <2> QED
    BY <1>1, <2>1 DEF Migrate, Steps, vars, clients
<1>2. UNCHANGED <<library, dst>> /\ step' \notin {"handoff", "handing"}
  <2>1. ASSUME StepFails \/ BeginImport \/ EndImport
        PROVE  UNCHANGED <<library, dst>> /\ step' \notin {"handoff", "handing"}
    BY <2>1 DEF StepFails, BeginImport, EndImport, Error, Halt, Over, GoOn, vars, payload, clients
  <2>2. ASSUME EndWithout \/ EndHandoff
        PROVE  UNCHANGED <<library, dst>> /\ step' \notin {"handoff", "handing"}
    BY <2>2 DEF EndWithout, EndHandoff, AfterHandoff, Halt, Over, vars, clients
  <2>3. ASSUME KillMigrate
        PROVE  UNCHANGED <<library, dst>> /\ step' \notin {"handoff", "handing"}
    BY <2>3 DEF KillMigrate, Kill, Over, payload, clients
  <2> QED
    BY <1>1, <2>1, <2>2, <2>3, PayloadKeepsLibrary
<1>3. LibraryTyped' /\ DstTyped'
  BY <1>2 DEF GateInv, LibraryTyped, DstTyped
<1> QED
  BY <1>2, <1>3, ElsewhereKeepsGate

(* A run that begins with handoff has not had verify in it. *)
LEMMA HandoffAloneKeepsGate ==
  ASSUME GateInv, NEW o \in Migrations, Migrate(o), o.from = "handoff"
  PROVE  GateInv'
  BY DEF Migrate, vars, clients, GateInv, LibraryTyped, DstTyped, ReadyBeforeHandoff,
         HandableDuring, HadVerify

LEMMA RecheckKeepsGate ==
  ASSUME GateInv, NEW h \in Hashes, UserRechecks(h)
  PROVE  GateInv'
<1>1. dst' = [dst EXCEPT ![h] = Hashing] /\ step' = "none" /\ UNCHANGED library
  BY DEF UserRechecks, vars, migration
<1>2. LibraryTyped' /\ DstTyped'
  BY <1>1, UnprovenTyped, DstStaysTyped DEF GateInv, LibraryTyped
<1> QED
  BY <1>1, <1>2, ElsewhereKeepsGate

LEMMA GateStep == GateInv /\ [MigrateNext]_migrateVars => GateInv'
<1> SUFFICES ASSUME GateInv, [MigrateNext]_migrateVars PROVE GateInv'
  OBVIOUS
<1>1. CASE \E o \in Migrations : Migrate(o)
  BY <1>1, HandoffAloneKeepsGate, OtherStepsKeepGate
<1>2. CASE MigrateStep
  BY <1>2, ImportKeepsGate, HandingKeepsGate, VerifyOpensGate, HandoffEntersByGate,
     OtherStepsKeepGate DEF MigrateStep
<1>3. CASE KillMigrate
  BY <1>3, OtherStepsKeepGate
<1>4. CASE \E h \in Hashes : HashEnds(h) \/ UserRechecks(h)
  BY <1>4, HashingKeepsGate, RecheckKeepsGate
<1>5. CASE UserEdits
  BY <1>5, EditKeepsGate
<1>6. CASE UNCHANGED migrateVars
  <2>1. UNCHANGED <<library, staging, dst, step, opts, order, expected>>
    BY <1>6 DEF migrateVars, vars, clients, migration
  <2>2. ExpectedHashes' = ExpectedHashes
    BY <2>1, SameExpected
  <2> QED
    BY <2>1, <2>2 DEF GateInv, LibraryTyped, DstTyped, ReadyBeforeHandoff, HandableDuring,
                      HadVerify, IsReady, IsHandable
<1> QED
  BY <1>1, <1>2, <1>3, <1>4, <1>5, <1>6 DEF MigrateNext

(* A handoff that follows verify in the same migration starts torrents only    *)
(* if every one it was asked about is whole (crates/migrate, run, between      *)
(* verify and handoff): neither hashes that end, nor edits of the library,     *)
(* nor a listing in another order come in between.                             *)
THEOREM MigrateGate == MigrateSpec => []GateHolds
<1>1. GateInv => GateHolds
  BY DEF GateInv, HandableDuring, HadVerify, IsHandable, GateHolds
<1> QED
  BY <1>1, GateInit, GateStep, PTL DEF MigrateSpec
------------------------------------------------------------------------------
(* The loops of a migration, and what it has done when it is complete.  Beside *)
(* what the run checks: a run that is still going has not ended, one that has  *)
(* not come to its handoff has started nothing, and whatever the handoff is    *)
(* through with and did not fail is seeded here and silent there.              *)
Where ==
  /\ step \in Steps \cup {"none", "importing", "handing"}
  /\ pc = "idle" \/ step \in {"rewrite", "transfer"}
  /\ announced \subseteq Hashes
RunKept ==
  /\ DOMAIN run = {"end", "stoppedAt", "started", "unwritten"}
  /\ run.end = "complete" => step = "none"
  /\ run.started \subseteq expected
  /\ run.started # {} => step \in {"handing", "none"}
Importing ==
  step = "importing" => items \cap failed = {} /\ items \cup failed \subseteq Paired
SeedingHere == {h \in expected : IsSeeding(dst[h].state)}
Handing ==
  step = "handing" =>
    /\ expected \subseteq Hashes
    /\ expected = items \cup failed \cup run.started \cup SeedingHere
    /\ \A h \in items : IsReady(h)
    /\ \A h \in expected \ (items \cup failed) :
         IsSeeding(dst[h].state) /\ (opts.source => h \notin announced)
    /\ opts.limit = {} => Paired \subseteq expected
LoopInv == DstTyped /\ Where /\ RunKept /\ Importing /\ Handing /\ CompleteMeansHandedOver

LEMMA LoopInit == MigrateInit => LoopInv
<1> SUFFICES ASSUME MigrateInit PROVE LoopInv
  OBVIOUS
<1>1. DstTyped
  BY UnprovenTyped DEF MigrateInit, DstTyped
<1>2. Where
  BY DEF MigrateInit, Init, Where
<1>3. run = [end |-> "none", stoppedAt |-> "", started |-> {}, unwritten |-> {}]
  BY DEF MigrateInit, NewRun
<1>4. RunKept
  BY <1>3 DEF RunKept
<1> QED
  BY <1>1, <1>2, <1>3, <1>4
  DEF MigrateInit, LoopInv, Importing, Handing, CompleteMeansHandedOver, HandedAll

(* A step outside the two loops that completes nothing.                        *)
LEMMA OutsideKeepsLoops ==
  ASSUME DstTyped', Where', RunKept', step' \notin {"importing", "handing"},
         run'.end # "complete" \/ ~opts'.handoff \/ ~opts'.source \/ opts'.dry
  PROVE  LoopInv'
  BY DEF LoopInv, Importing, Handing, CompleteMeansHandedOver, HandedAll

(* What GoOn, Over and a step of Payload do to the report.                     *)
RunGoesTo(end) ==
  /\ DOMAIN run' = {"end", "stoppedAt", "started", "unwritten"}
  /\ run'.end = end /\ run'.started = run.started

LEMMA ReportFacts ==
  ASSUME RunKept
  PROVE  /\ \A at, next : GoOn(at, next) =>
              RunGoesTo(run.end) /\ step' = next /\ UNCHANGED <<opts, order, loop>>
         /\ \A at : Halt(at) => RunGoesTo("halted") /\ step' = "none" /\ UNCHANGED opts
         /\ Error => RunGoesTo("error") /\ step' = "none" /\ UNCHANGED opts
<1>1. ASSUME NEW at PROVE LET r == [run EXCEPT !.stoppedAt = at]
                          IN /\ DOMAIN r = DOMAIN run /\ r.end = run.end /\ r.started = run.started
  BY DEF RunKept
<1>2. ASSUME NEW at, NEW end
      PROVE  LET r == [run EXCEPT !.end = end, !.stoppedAt = at]
             IN DOMAIN r = DOMAIN run /\ r.end = end /\ r.started = run.started
  BY DEF RunKept
<1>3. ASSUME NEW end
      PROVE  LET r == [run EXCEPT !.end = end]
             IN DOMAIN r = DOMAIN run /\ r.end = end /\ r.started = run.started
  BY DEF RunKept
<1>4. ASSUME NEW at, NEW next, GoOn(at, next)
      PROVE  RunGoesTo(run.end) /\ step' = next /\ UNCHANGED <<opts, order, loop>>
  BY <1>1, <1>4 DEF GoOn, RunGoesTo, RunKept
<1>5. ASSUME NEW at, Halt(at) PROVE RunGoesTo("halted") /\ step' = "none" /\ UNCHANGED opts
  BY <1>2, <1>5 DEF Halt, Over, RunGoesTo, RunKept
<1>6. ASSUME Error PROVE RunGoesTo("error") /\ step' = "none" /\ UNCHANGED opts
  BY <1>3, <1>6 DEF Error, Over, RunGoesTo, RunKept
<1> QED
  BY <1>4, <1>5, <1>6

(* A run that goes on, halts or fails before or after its handoff.             *)
LEMMA RunOnKeepsLoops ==
  ASSUME LoopInv, DstTyped', step # "none", NEW end, end # "complete", RunGoesTo(end),
         step' \in Steps \cup {"none"}, pc' = "idle" \/ step' \in {"rewrite", "transfer"},
         announced' = announced,
         step # "handing" \/ (step' = "none" /\ expected' = expected)
  PROVE  LoopInv'
<1>1. run.started # {} => step = "handing"
  BY DEF LoopInv, RunKept
<1>2. Where'
  BY DEF LoopInv, Where
<1>3. RunKept'
  BY <1>1 DEF LoopInv, RunKept, RunGoesTo
<1>4. step' \notin {"importing", "handing"} /\ run'.end # "complete"
  BY DEF Steps, RunGoesTo
<1> QED
  BY <1>2, <1>3, <1>4, OutsideKeepsLoops

LEMMA MigrateKeepsLoops ==
  ASSUME LoopInv, DstTyped', NEW o \in Migrations, Migrate(o)
  PROVE  LoopInv'
<1>1. o.from \in Steps
  BY DEF Option
<1>2. /\ step = "none" /\ step' = o.from /\ UNCHANGED <<vars, clients, expected>>
      /\ run' = [end |-> "running", stoppedAt |-> "", started |-> {}, unwritten |-> {}]
  BY DEF Migrate, NewRun
<1>3. pc' = "idle" /\ announced' = announced
  BY <1>2 DEF vars, clients, LoopInv, Where
<1>4. Where'
  BY <1>1, <1>2, <1>3 DEF LoopInv, Where
<1>5. RunKept'
  BY <1>2 DEF RunKept
<1>6. step' \notin {"importing", "handing"} /\ run'.end # "complete"
  BY <1>1, <1>2 DEF Steps
<1> QED
  BY <1>4, <1>5, <1>6, OutsideKeepsLoops

LEMMA PayloadKeepsLoops ==
  ASSUME LoopInv, DstTyped', RewriteRuns \/ TransferRuns \/ StepFails
  PROVE  LoopInv'
<1> DEFINE Fine(end) ==
             /\ end # "complete" /\ RunGoesTo(end) /\ announced' = announced
             /\ step' \in Steps \cup {"none"}
             /\ pc' = "idle" \/ step' \in {"rewrite", "transfer"}
<1>1. step \in {"rewrite", "transfer", "import", "verify", "handoff"}
  BY DEF RewriteRuns, TransferRuns, StepFails
<1>2. RunKept /\ run.end # "complete" /\ (step \notin {"rewrite", "transfer"} => pc = "idle")
  BY <1>1 DEF LoopInv, RunKept, Where
<1>3. announced' = announced
  BY DEF RewriteRuns, TransferRuns, StepFails, clients
<1>4. ASSUME UNCHANGED run PROVE RunGoesTo(run.end)
  BY <1>2, <1>4 DEF RunGoesTo, RunKept
<1>5. CASE StepFails
  <2>1. Error /\ pc' = pc /\ pc = "idle"
    BY <1>2, <1>5 DEF StepFails, payload
  <2>2. Fine("error")
    BY <1>2, <1>3, <2>1, ReportFacts
  <2> QED
    BY <1>1, <2>2, RunOnKeepsLoops
<1>6. CASE RewriteRuns
  <2>1. CASE BeginFails("rewrite") /\ Error
    <3>1. pc' = "idle"
      BY <2>1 DEF BeginFails
    <3>2. Fine("error")
      BY <1>2, <1>3, <2>1, <3>1, ReportFacts
    <3> QED
      BY <1>1, <3>2, RunOnKeepsLoops
  <2>2. CASE step' = step /\ UNCHANGED run
    <3>1. Fine(run.end)
      BY <1>2, <1>3, <1>4, <1>6, <2>2 DEF RewriteRuns, Steps
    <3> QED
      BY <1>1, <3>1, RunOnKeepsLoops
  <2>3. CASE /\ EndRewrite /\ step' = "transfer"
             /\ run' = [run EXCEPT !.stoppedAt = "rewrite", !.unwritten = report.failed]
    <3>1. RunGoesTo(run.end)
      BY <1>2, <2>3 DEF RunGoesTo, RunKept
    <3>2. Fine(run.end)
      BY <1>2, <1>3, <2>3, <3>1 DEF Steps
    <3> QED
      BY <1>1, <3>2, RunOnKeepsLoops
  <2> QED
    BY <1>6, <2>1, <2>2, <2>3 DEF RewriteRuns
<1>7. CASE TransferRuns
  <2>1. CASE BeginFails("transfer") /\ Error
    <3>1. pc' = "idle"
      BY <2>1 DEF BeginFails
    <3>2. Fine("error")
      BY <1>2, <1>3, <2>1, <3>1, ReportFacts
    <3> QED
      BY <1>1, <3>2, RunOnKeepsLoops
  <2>2. CASE step' = step /\ UNCHANGED run
    <3>1. Fine(run.end)
      BY <1>2, <1>3, <1>4, <1>7, <2>2 DEF TransferRuns, Steps
    <3> QED
      BY <1>1, <3>1, RunOnKeepsLoops
  <2>3. CASE pc' = "idle" /\ (GoOn("transfer", "import") \/ Halt("transfer"))
    <3>1. Fine(run.end) \/ Fine("halted")
      BY <1>2, <1>3, <2>3, ReportFacts DEF Steps
    <3> QED
      BY <1>1, <3>1, RunOnKeepsLoops
  <2>4. ASSUME NEW budget \in Budgets, BeginTransfer(budget, {}, opts.limit, TRUE)
        PROVE  pc' = "idle"
    BY <2>4 DEF BeginTransfer
  <2>5. EndTransfer => pc' = "idle"
    BY DEF EndTransfer, End
  <2> QED
    BY <1>7, <2>1, <2>2, <2>3, <2>4, <2>5 DEF TransferRuns
<1> QED
  BY <1>5, <1>6, <1>7

(* Import takes pairs only, each once. *)
LEMMA BeginImportKeepsLoops ==
  ASSUME LoopInv, DstTyped', BeginImport
  PROVE  LoopInv'
<1>1. /\ step = "import" /\ UNCHANGED <<vars, clients, expected>>
      /\ Error \/ GoOn("import", "verify")
           \/ /\ step' = "importing" /\ items' = StagedItems /\ failed' = {}
              /\ UNCHANGED <<opts, order, run>>
  BY DEF BeginImport
<1>2. pc' = "idle" /\ announced' = announced /\ staging' = staging
  BY <1>1 DEF LoopInv, Where, vars, clients
<1>3. RunKept /\ run.end # "complete"
  BY <1>1 DEF LoopInv, RunKept
<1>4. CASE Error \/ GoOn("import", "verify")
  <2>1. step' \in Steps \cup {"none"} /\ (RunGoesTo("error") \/ RunGoesTo(run.end))
    BY <1>3, <1>4, ReportFacts DEF Steps
  <2> QED
    BY <1>1, <1>2, <1>3, <2>1, RunOnKeepsLoops
<1>5. CASE /\ step' = "importing" /\ items' = StagedItems /\ failed' = {}
           /\ UNCHANGED <<opts, order, run>>
  <2>1. Where'
    BY <1>2, <1>5 DEF LoopInv, Where
  <2>2. RunKept'
    BY <1>1, <1>5 DEF LoopInv, RunKept
  <2>3. items' \subseteq Paired'
    BY <1>2, <1>5 DEF StagedItems, Smallest, Paired
  <2> QED
    BY <1>3, <1>5, <2>1, <2>2, <2>3
    DEF LoopInv, Importing, Handing, CompleteMeansHandedOver, HandedAll
<1> QED
  BY <1>1, <1>4, <1>5

LEMMA ImportOneKeepsLoops ==
  ASSUME LoopInv, DstTyped', NEW h \in Hashes, ImportOne(h)
  PROVE  LoopInv'
<1>1. /\ step = "importing" /\ h \in items /\ items' = items \ {h}
      /\ failed' = failed \/ failed' = failed \cup {h}
      /\ UNCHANGED <<payload, announced, step, opts, expected, run>>
  BY DEF ImportOne
<1>2. UNCHANGED <<pc, staging>>
  BY <1>1 DEF payload
<1>3. Paired' = Paired
  BY <1>2 DEF Paired
<1>4. Where' /\ RunKept'
  BY <1>1, <1>2 DEF LoopInv, Where, RunKept
<1>5. Importing'
  BY <1>1, <1>3 DEF LoopInv, Importing
<1>6. run.end # "complete"
  BY <1>1 DEF LoopInv, RunKept
<1> QED
  BY <1>1, <1>4, <1>5, <1>6 DEF LoopInv, Handing, CompleteMeansHandedOver, HandedAll

(* The loop of import is over, verify has listed, a handoff was not asked for. *)
LEMMA EndsKeepLoops ==
  ASSUME LoopInv, DstTyped', EndImport \/ VerifyRuns
  PROVE  LoopInv'
<1>1. /\ step \in {"importing", "verify"} /\ UNCHANGED <<vars, clients>>
      /\ \/ GoOn("import", "verify") \/ Halt("import")
         \/ GoOn("verify", "handoff") \/ Halt("verify")
  BY DEF EndImport, VerifyRuns, AfterVerify
<1>2. pc' = "idle" /\ announced' = announced
  BY <1>1 DEF LoopInv, Where, vars, clients
<1>3. RunKept /\ run.end # "complete"
  BY <1>1 DEF LoopInv, RunKept
<1>4. step' \in Steps \cup {"none"} /\ (RunGoesTo("halted") \/ RunGoesTo(run.end))
  BY <1>1, <1>3, ReportFacts DEF Steps
<1> QED
  BY <1>1, <1>2, <1>3, <1>4, RunOnKeepsLoops

(* What Over and the end of a handoff do to the report.                        *)
LEMMA OverFacts ==
  ASSUME RunKept
  PROVE  /\ Over([run EXCEPT !.end = "complete"]) =>
              RunGoesTo("complete") /\ step' = "none" /\ UNCHANGED opts
         /\ Over([run EXCEPT !.end = "killed"]) =>
              RunGoesTo("killed") /\ step' = "none" /\ UNCHANGED opts
         /\ \A failures : AfterHandoff(failures) =>
              /\ step' = "none" /\ UNCHANGED opts
              /\ RunGoesTo("halted") \/ (failures = {} /\ RunGoesTo("complete"))
<1>1. ASSUME NEW end
      PROVE  LET r == [run EXCEPT !.end = end]
             IN DOMAIN r = DOMAIN run /\ r.end = end /\ r.started = run.started
  BY DEF RunKept
<1>2. ASSUME NEW end, Over([run EXCEPT !.end = end])
      PROVE  RunGoesTo(end) /\ step' = "none" /\ UNCHANGED opts
  BY <1>1, <1>2 DEF Over, RunGoesTo, RunKept
<1>3. LET r == [run EXCEPT !.end = "complete", !.stoppedAt = "handoff"]
      IN DOMAIN r = DOMAIN run /\ r.end = "complete" /\ r.started = run.started
  BY DEF RunKept
<1>4. ASSUME NEW failures, AfterHandoff(failures)
      PROVE  /\ step' = "none" /\ UNCHANGED opts
             /\ RunGoesTo("halted") \/ (failures = {} /\ RunGoesTo("complete"))
  <2>1. CASE failures = {}
    BY <1>3, <1>4, <2>1 DEF AfterHandoff, Over, RunGoesTo, RunKept
  <2>2. CASE failures # {}
    BY <1>4, <2>2, ReportFacts DEF AfterHandoff
  <2> QED
    BY <2>1, <2>2
<1> QED
  BY <1>2, <1>4

LEMMA EndWithoutKeepsLoops ==
  ASSUME LoopInv, DstTyped', EndWithout
  PROVE  LoopInv'
<1>1. /\ step = "handoff" /\ ~opts.handoff /\ UNCHANGED <<vars, clients, expected>>
      /\ RunGoesTo("complete") /\ step' = "none" /\ UNCHANGED opts
  BY OverFacts DEF EndWithout, LoopInv
<1>2. pc' = "idle" /\ announced' = announced
  BY <1>1 DEF LoopInv, Where, vars, clients
<1>3. Where' /\ RunKept'
  BY <1>1, <1>2 DEF LoopInv, Where, RunKept, RunGoesTo
<1> QED
  BY <1>1, <1>3, OutsideKeepsLoops

(* What the handoff has no start to give is seeding already, and the source is *)
(* silent about it, or it has failed.                                          *)
LEMMA BeginHandoffKeepsLoops ==
  ASSUME LoopInv, DstTyped', BeginHandoff
  PROVE  LoopInv'
<1> DEFINE wouldStart == opts.source \/ opts.confirm
           ready == {h \in ExpectedHashes : IsReady(h)}
           already == {h \in ExpectedHashes : /\ IsPieceComplete(dst[h]) /\ IsSeeding(dst[h].state)
                                              /\ wouldStart
                                              /\ opts.source => h \notin announced}
           failures == ExpectedHashes \ (ready \cup already)
<1>1. /\ step = "handoff" /\ UNCHANGED <<vars, clients>>
      /\ \/ (opts.dry \/ ~opts.source) /\ AfterHandoff(failures) /\ UNCHANGED expected
         \/ /\ step' = "handing" /\ expected' = ExpectedHashes
            /\ items' = ready /\ failed' = failures /\ UNCHANGED <<opts, run>>
  BY DEF BeginHandoff
<1>2. UNCHANGED <<pc, staging, dst, announced>> /\ pc = "idle"
  BY <1>1 DEF LoopInv, Where, vars, clients
<1>3. RunKept /\ run.end # "complete" /\ run.started = {}
  BY <1>1 DEF LoopInv, RunKept
<1>4. CASE (opts.dry \/ ~opts.source) /\ AfterHandoff(failures) /\ UNCHANGED expected
  <2>1. /\ step' = "none" /\ UNCHANGED opts
        /\ RunGoesTo("halted") \/ RunGoesTo("complete")
    BY <1>3, <1>4, OverFacts
  <2>2. Where' /\ RunKept'
    BY <1>2, <1>3, <2>1 DEF LoopInv, Where, RunKept, RunGoesTo
  <2> QED
    BY <1>4, <2>1, <2>2, OutsideKeepsLoops
<1>5. CASE /\ step' = "handing" /\ expected' = ExpectedHashes
           /\ items' = ready /\ failed' = failures /\ UNCHANGED <<opts, run>>
  <2>1. Where'
    BY <1>2, <1>5 DEF LoopInv, Where
  <2>2. RunKept'
    BY <1>3, <1>5 DEF RunKept
  <2>3. SeedingHere' = {h \in ExpectedHashes : IsSeeding(dst[h].state)}
    BY <1>2, <1>5 DEF SeedingHere
  <2>4. expected' = items' \cup failed' \cup run'.started \cup SeedingHere'
    BY <1>3, <1>5, <2>3
  <2>5. \A h \in items' : IsReady(h)'
    BY <1>2, <1>5 DEF IsReady
  <2>6. ASSUME NEW h \in expected' \ (items' \cup failed')
        PROVE  IsSeeding(dst'[h].state) /\ (opts'.source => h \notin announced')
    BY <1>2, <1>5, <2>6
  <2>7. opts.limit = {} => Paired' \subseteq ExpectedHashes
    BY <1>2 DEF ExpectedHashes, Smallest, Paired
  <2>8. Handing'
    BY <1>5, <2>4, <2>5, <2>6, <2>7, ExpectedAreHashes DEF Handing
  <2> QED
    BY <1>3, <1>5, <2>1, <2>2, <2>8 DEF LoopInv, Importing, CompleteMeansHandedOver, HandedAll
<1> QED
  BY <1>1, <1>4, <1>5

(* A ready torrent that is started seeds. *)
LEMMA ReadySeeds ==
  ASSUME NEW t \in Torrent, IsPieceComplete(t), IsStopped(t.state)
  PROVE  IsSeeding(AfterStart(t).state)
  BY DEF Torrent, AfterStart, IsPieceComplete, IsStopped, IsSeeding, SeedingStates

LEMMA HandOneKeepsLoops ==
  ASSUME LoopInv, DstTyped', NEW h \in Hashes, HandOne(h)
  PROVE  LoopInv'
<1> DEFINE Started == /\ dst' = [dst EXCEPT ![h] = AfterStart(dst[h])]
                      /\ announced' \subseteq announced
                      /\ opts.source => h \notin announced'
<1>1. /\ step = "handing" /\ h \in items /\ items' = items \ {h}
      /\ UNCHANGED <<payload, step, opts, expected>>
      /\ \/ Started /\ run' = [run EXCEPT !.started = @ \cup {h}] /\ UNCHANGED failed
         \/ /\ failed' = failed \cup {h} /\ UNCHANGED run
            /\ Started \/ (announced' \subseteq announced /\ UNCHANGED dst)
  BY DEF HandOne
<1>2. UNCHANGED <<pc, staging>> /\ Paired' = Paired
  BY <1>1 DEF payload, Paired
<1>3. /\ RunKept /\ run.end # "complete"
      /\ expected \subseteq Hashes /\ h \in expected /\ IsReady(h)
      /\ expected = items \cup failed \cup run.started \cup SeedingHere
  BY <1>1 DEF LoopInv, RunKept, Handing
<1>4. /\ DOMAIN run' = DOMAIN run /\ run'.end = run.end
      /\ \/ run'.started = run.started
         \/ run'.started = run.started \cup {h} /\ Started /\ failed' = failed
  BY <1>1, <1>3 DEF RunKept
<1>5. Where' /\ RunKept'
  <2>1. announced' \subseteq announced
    BY <1>1
  <2>2. Where'
    BY <1>1, <1>2, <2>1 DEF LoopInv, Where
  <2>3. RunKept'
    BY <1>1, <1>3, <1>4 DEF LoopInv, RunKept
  <2> QED
    BY <2>2, <2>3
<1>6. DstTyped /\ dst[h] \in Torrent
  BY DEF LoopInv, DstTyped
<1>7. ASSUME NEW g \in Hashes, g # h PROVE dst'[g] = dst[g]
  BY <1>1, <1>6, <1>7 DEF DstTyped
<1>8. ASSUME Started PROVE IsSeeding(dst'[h].state)
  <2>1. dst'[h] = AfterStart(dst[h])
    BY <1>6, <1>8 DEF DstTyped
  <2> QED
    BY <1>3, <1>6, <2>1, ReadySeeds DEF IsReady
<1>9. SeedingHere \subseteq SeedingHere' \cup {h}
  BY <1>1, <1>3, <1>7 DEF SeedingHere
<1>10. h \notin items' /\ (h \notin failed' => Started)
  BY <1>1
<1>11. ASSUME NEW g \in expected
       PROVE  g \in items' \cup failed' \cup run'.started \cup SeedingHere'
  BY <1>1, <1>3, <1>4, <1>8, <1>9, <1>10, <1>11 DEF SeedingHere
<1>12. items' \cup failed' \cup run'.started \cup SeedingHere' \subseteq expected
  BY <1>1, <1>3, <1>4 DEF SeedingHere
<1>13. ASSUME NEW g \in items' PROVE IsReady(g)'
  BY <1>1, <1>3, <1>7, <1>13 DEF LoopInv, Handing, IsReady
<1>14. ASSUME NEW g \in expected \ (items' \cup failed')
       PROVE  IsSeeding(dst'[g].state) /\ (opts.source => g \notin announced')
  <2>1. CASE g = h
    BY <1>8, <1>10, <1>14, <2>1
  <2>2. CASE g # h
    <3>1. g \in expected \ (items \cup failed) /\ dst'[g] = dst[g] /\ announced' \subseteq announced
      BY <1>1, <1>3, <1>7, <1>14, <2>2
    <3> QED
      BY <1>1, <3>1 DEF LoopInv, Handing
  <2> QED
    BY <2>1, <2>2
<1>15. opts.limit = {} => Paired' \subseteq expected
  BY <1>1, <1>2 DEF LoopInv, Handing
<1>16. Handing'
  <2>1. expected' = expected /\ opts' = opts
    BY <1>1
  <2>2. expected' = items' \cup failed' \cup run'.started \cup SeedingHere'
    BY <1>11, <1>12, <2>1
  <2> QED
    BY <1>3, <1>13, <1>14, <1>15, <2>1, <2>2 DEF Handing
<1>17. run'.end # "complete"
  BY <1>3, <1>4
<1> QED
  BY <1>1, <1>5, <1>16, <1>17 DEF LoopInv, Importing, CompleteMeansHandedOver, HandedAll

(* A handoff that ends with nothing failed has seen to all that is staged. *)
LEMMA EndHandoffKeepsLoops ==
  ASSUME LoopInv, DstTyped', EndHandoff
  PROVE  LoopInv'
<1>1. /\ step = "handing" /\ items = {} /\ UNCHANGED <<vars, clients, expected>>
      /\ step' = "none" /\ UNCHANGED opts
      /\ RunGoesTo("halted") \/ (failed = {} /\ RunGoesTo("complete"))
  BY OverFacts DEF EndHandoff, LoopInv
<1>2. UNCHANGED <<pc, staging, dst, announced>> /\ pc = "idle"
  BY <1>1 DEF LoopInv, Where, vars, clients
<1>3. Where' /\ RunKept'
  BY <1>1, <1>2 DEF LoopInv, Where, RunKept, RunGoesTo
<1>4. CompleteMeansHandedOver'
  <2>1. CASE run'.end = "complete"
    <3>1. failed = {} /\ Paired' = Paired
      BY <1>1, <1>2, <2>1 DEF RunGoesTo, Paired
    <3>2. \A h \in expected : IsSeeding(dst[h].state) /\ (opts.source => h \notin announced)
      BY <1>1, <3>1 DEF LoopInv, Handing
    <3>3. opts.limit = {} => Paired \subseteq expected
      BY <1>1 DEF LoopInv, Handing
    <3> QED
      BY <1>1, <1>2, <3>1, <3>2, <3>3 DEF CompleteMeansHandedOver, HandedAll
  <2> QED
    BY <2>1 DEF CompleteMeansHandedOver, HandedAll
<1> QED
  BY <1>1, <1>3, <1>4 DEF LoopInv, Importing, Handing

LEMMA KillKeepsLoops ==
  ASSUME LoopInv, DstTyped', KillMigrate
  PROVE  LoopInv'
<1>1. /\ step # "none" /\ RunGoesTo("killed") /\ step' = "none"
      /\ UNCHANGED <<clients, expected>>
  BY OverFacts DEF KillMigrate, LoopInv
<1>2. pc' = "idle"
  BY DEF KillMigrate, Kill, End, payload
<1> QED
  BY <1>1, <1>2, RunOnKeepsLoops DEF clients

(* What the client does by itself and the user between two runs: a torrent it *)
(* happens to was neither ready nor seeding, and does not seed after it.      *)
LEMMA QuietlyKeepsLoops ==
  ASSUME LoopInv, DstTyped', UNCHANGED <<pc, staging, announced, migration>>,
         \A g \in Hashes : \/ dst'[g] = dst[g]
                          \/ /\ ~IsReady(g) /\ ~IsSeeding(dst[g].state)
                             /\ ~IsSeeding(dst'[g].state)
  PROVE  LoopInv'
<1>1. UNCHANGED <<step, opts, expected, items, failed, run>> /\ Paired' = Paired
  BY DEF migration, loop, Paired
<1>2. Where' /\ RunKept' /\ Importing'
  BY <1>1 DEF LoopInv, Where, RunKept, Importing
<1>3. \A g \in Hashes : IsSeeding(dst'[g].state) <=> IsSeeding(dst[g].state)
  OBVIOUS
<1>4. \A g \in Hashes : IsReady(g) => IsReady(g)'
  BY DEF IsReady
<1>5. Handing'
  <2>1. CASE step = "handing"
    <3>1. expected \subseteq Hashes /\ items \subseteq Hashes
      BY <2>1 DEF LoopInv, Handing
    <3>2. SeedingHere' = SeedingHere
      BY <1>1, <1>3, <3>1 DEF SeedingHere
    <3> QED
      BY <1>1, <1>3, <1>4, <2>1, <3>1, <3>2 DEF LoopInv, Handing
  <2> QED
    BY <1>1, <2>1 DEF Handing
<1>6. CompleteMeansHandedOver'
  <2>1. Paired \subseteq Hashes
    BY DEF Paired
  <2> QED
    BY <1>1, <1>3, <2>1 DEF LoopInv, CompleteMeansHandedOver, HandedAll
<1> QED
  BY <1>2, <1>5, <1>6 DEF LoopInv

LEMMA HashedDoesNotSeed ==
  ASSUME NEW t \in Torrent, NEW proven, IsChecking(t.state)
  PROVE  ~IsSeeding(AfterStop([t EXCEPT !.complete = proven]).state)
  BY DEF Torrent, AfterStop, IsChecking, IsSeeding, CheckingStates, SeedingStates, BrokenStates,
         Absent

LEMMA OutsidersKeepLoops ==
  ASSUME LoopInv, DstTyped',
         UserEdits \/ UNCHANGED migrateVars \/ \E h \in Hashes : HashEnds(h) \/ UserRechecks(h)
  PROVE  LoopInv'
<1>1. UNCHANGED <<pc, staging, announced, migration>>
  BY DEF UserEdits, Edit, HashEnds, UserRechecks, migrateVars, vars, clients
<1>2. CASE UserEdits \/ UNCHANGED migrateVars
  <2>1. dst' = dst
    BY <1>2 DEF UserEdits, migrateVars, clients
  <2> QED
    BY <1>1, <2>1, QuietlyKeepsLoops
<1>3. ASSUME NEW h \in Hashes, HashEnds(h)
      PROVE  \A g \in Hashes : \/ dst'[g] = dst[g]
                              \/ /\ ~IsReady(g) /\ ~IsSeeding(dst[g].state)
                                 /\ ~IsSeeding(dst'[g].state)
  <2>1. DstTyped /\ dst[h] \in Torrent
    BY DEF LoopInv, DstTyped
  <2>2. IsChecking(dst[h].state) /\ \A g \in Hashes : g # h => dst'[g] = dst[g]
    BY <1>3, <2>1 DEF HashEnds, DstTyped
  <2>3. dst'[h] = AfterStop([dst[h] EXCEPT !.complete = Holds(h, savedAt[h], Files)])
    BY <1>3, <2>1 DEF HashEnds, DstTyped
  <2>4. ~IsSeeding(dst'[h].state)
    BY <2>1, <2>2, <2>3, HashedDoesNotSeed
  <2>5. ~IsReady(h) /\ ~IsSeeding(dst[h].state)
    BY <2>2, HandableIsQuiet DEF IsReady
  <2> QED
    BY <2>2, <2>4, <2>5
<1>4. ASSUME NEW h \in Hashes, UserRechecks(h)
      PROVE  \A g \in Hashes : \/ dst'[g] = dst[g]
                              \/ /\ ~IsReady(g) /\ ~IsSeeding(dst[g].state)
                                 /\ ~IsSeeding(dst'[g].state)
  <2>1. ~IsReady(h) /\ ~IsSeeding(dst[h].state)
    BY <1>4 DEF UserRechecks, IsReady, IsStopped, IsSeeding, StoppedStates, SeedingStates
  <2>2. dst' = [dst EXCEPT ![h] = Hashing] /\ dst \in [Hashes -> Torrent]
    BY <1>4 DEF UserRechecks, LoopInv, DstTyped
  <2>3. ~IsSeeding(Hashing.state)
    BY DEF Hashing, IsSeeding, SeedingStates
  <2> QED
    BY <2>1, <2>2, <2>3
<1> QED
  BY <1>1, <1>2, <1>3, <1>4, QuietlyKeepsLoops

LEMMA LoopStep ==
  ASSUME GateInv, LoopInv, [MigrateNext]_migrateVars
  PROVE  LoopInv'
<1>1. DstTyped'
  BY GateStep DEF GateInv
<1>2. CASE MigrateStep
  BY <1>1, <1>2, PayloadKeepsLoops, BeginImportKeepsLoops, ImportOneKeepsLoops, EndsKeepLoops,
     EndWithoutKeepsLoops, BeginHandoffKeepsLoops, HandOneKeepsLoops, EndHandoffKeepsLoops
  DEF MigrateStep
<1> QED
  BY <1>1, <1>2, MigrateKeepsLoops, KillKeepsLoops, OutsidersKeepLoops DEF MigrateNext

(* What both halves of the argument say of every migration: the hashes, edits  *)
(* and calls in between keep the gate, and the two loops lose nothing.         *)
THEOREM MigrateInvariant == MigrateSpec => [](GateInv /\ LoopInv)
<1>1. MigrateInit => GateInv /\ LoopInv
  BY GateInit, LoopInit
<1>2. (GateInv /\ LoopInv) /\ [MigrateNext]_migrateVars => (GateInv /\ LoopInv)'
  BY GateStep, LoopStep
<1> QED
  BY <1>1, <1>2, PTL DEF MigrateSpec

(* Nothing import or handoff was given is lost or seen to twice               *)
(* (crates/import and crates/handoff, run, as crates/migrate calls them).     *)
THEOREM MigrateTypes == MigrateSpec => []MigrateTypeOK
<1>1. LoopInv => MigrateTypeOK
  BY DEF LoopInv, DstTyped, Where, RunKept, Importing, Handing, SeedingHere, MigrateTypeOK
<1> QED
  BY <1>1, MigrateInvariant, PTL

(* A migration without a cap that has gone from its beginning to a handoff    *)
(* and calls itself complete leaves nothing staged behind (crates/migrate,    *)
(* run): the destination seeds every staged pair, and the source announces    *)
(* none of them, from then until the next command.                            *)
THEOREM MigrateHandsOver == MigrateSpec => []CompleteMeansHandedOver
<1>1. LoopInv => CompleteMeansHandedOver
  BY DEF LoopInv
<1> QED
  BY <1>1, MigrateInvariant, PTL

------------------------------------------------------------------------------
(* Save paths: what holds as long as a run may still be repeated.              *)

(* What a migration says of its destination.  While import works, the torrents *)
(* it found there are still there.                                             *)
CapGiven == step # "none" => opts.limit \in TorrentCaps
PresentListed ==
  /\ present \subseteq Hashes
  /\ step = "importing" => \A h \in present : dst[h].state # Absent

(* The client saves a torrent where the one set of rules has it, which is what *)
(* staging says as long as the library is not edited.                          *)
SavedByRules ==
  /\ DOMAIN savedAt = Hashes
  /\ edits = 0 =>
       \A h \in Hashes : dst[h].state # Absent => savedAt[h] = Apply(Rules, library[h].path)

(* What the client calls complete has been whole at its place, and still is    *)
(* unless another torrent has landed there.  A file that has landed whole is   *)
(* not copied again in another condition, since an edit can only remove it.    *)
WholeSeeds == \A h \in Hashes : IsSeeding(dst[h].state) => dst[h].complete
Spoilt(h) == \E g \in Hashes \ {h} : <<Place(h, savedAt[h]), g>> \in occupied
CompleteHeld ==
  \A h \in Hashes :
    dst[h].complete =>
      /\ <<Place(h, savedAt[h]), h>> \in occupied
      /\ Holds(h, savedAt[h], Files) \/ Spoilt(h)
LandedOccupies == \A l \in landed : <<l.at, l.from>> \in occupied
WholeStay == \A l \in landed : l.whole => library[l.from].disk[l.file] \in {"whole", "absent"}
OccupiedByRules ==
  edits = 0 => \A o \in occupied : Moves(o[2]) /\ o[1] = Spot(o[2])

SavedInv ==
  /\ CapGiven /\ PresentListed /\ SavedByRules
  /\ WholeSeeds /\ CompleteHeld /\ LandedOccupies /\ WholeStay /\ OccupiedByRules
MigrationInv == CommandInv /\ Unedited /\ SavedInv

------------------------------------------------------------------------------
(* The commands inside a migration keep their invariant.                       *)

(* Every step of a migration is one of its two commands, or the failure of    *)
(* something else.                                                            *)
LEMMA MigrateTakesSteps ==
  ASSUME CapGiven, [MigrateNext]_migrateVars
  PROVE  [Next]_vars \/ (UNCHANGED payload /\ Fault)
<1>1. CASE UNCHANGED vars
  BY <1>1
<1>2. CASE StepFails \/ \E h \in Hashes : ImportOne(h) \/ HandOne(h)
  BY <1>2 DEF StepFails, ImportOne, HandOne, payload, vars
<1>3. CASE KillMigrate
  BY <1>3 DEF KillMigrate, Next
<1>4. CASE RewriteRuns
  BY <1>4 DEF RewriteRuns, Next, Begin, RewriteStep
<1>5. CASE TransferRuns
  <2>1. {} \in ByteCaps /\ opts.limit \in TorrentCaps
    BY <1>5 DEF CapGiven, TransferRuns
  <2>2. \/ BeginFails("transfer")
        \/ \E budget \in Budgets, dry \in BOOLEAN : BeginTransfer(budget, {}, opts.limit, dry)
        \/ TransferStep
    BY <1>5 DEF TransferRuns, TransferStep
  <2> QED
    BY <2>1, <2>2 DEF Next, Begin
<1>6. CASE UserEdits
  BY <1>6 DEF UserEdits, Next
<1>7. CASE \/ \E o \in Migrations : Migrate(o)
           \/ BeginImport \/ EndImport \/ VerifyRuns \/ EndWithout \/ BeginHandoff \/ EndHandoff
           \/ \E h \in Hashes : HashEnds(h) \/ UserRechecks(h)
           \/ UNCHANGED migrateVars
  BY <1>7 DEF Migrate, BeginImport, EndImport, VerifyRuns, EndWithout, BeginHandoff, EndHandoff,
              HashEnds, UserRechecks, migrateVars
<1> QED
  BY <1>2, <1>3, <1>4, <1>5, <1>6, <1>7 DEF MigrateNext, MigrateStep

LEMMA FailureKeepsCommands ==
  ASSUME CommandInv, Unedited, UNCHANGED payload, Fault
  PROVE  CommandInv' /\ Unedited'
<1>1. UNCHANGED <<library, staging, landed, pc, manifest, plan, todo, groups, report, edits>>
  BY DEF payload, command
<1>2. Typed'
  <2>1. faults' \in Nat /\ edits' <= faults' /\ faults' <= MaxFaults
    BY <1>1, FaultTyped DEF CommandInv, Typed
  <2> QED
    BY <1>1, <2>1 DEF CommandInv, Typed
<1>3. PlanMade' /\ Worked'
  BY <1>1 DEF CommandInv, PlanMade, Worked, Reached
<1>4. Unedited'
  BY <1>1, SameRules, KeepsStaged, KeepsLanded, KeepsGrouped, KeepsDone DEF Unedited
<1> QED
  BY <1>2, <1>3, <1>4 DEF CommandInv

LEMMA CommandsInMigration ==
  ASSUME DistinctPlaces, CommandInv, Unedited, CapGiven, [MigrateNext]_migrateVars
  PROVE  CommandInv' /\ Unedited'
BY MigrateTakesSteps, FailureKeepsCommands, CommandStep, UneditedStep

(* The cap of a run. *)
LEMMA CapInit == MigrateInit => CapGiven
BY DEF MigrateInit, CapGiven

(* It does not change during a run.                                            *)
LEMMA CapStep ==
  ASSUME CapGiven, [MigrateNext]_migrateVars
  PROVE  CapGiven'
<1>1. CASE \E o \in Migrations : Migrate(o)
  BY <1>1 DEF Migrate, CapGiven
<1>2. CASE ~\E o \in Migrations : Migrate(o)
  <2>1. opts' = opts
    BY <1>2
    DEF MigrateNext, MigrateStep, StepFails, RewriteRuns, TransferRuns, BeginImport, EndImport,
        VerifyRuns, EndWithout, BeginHandoff, EndHandoff, ImportOne, HandOne, KillMigrate,
        HashEnds, UserRechecks, UserEdits, AfterVerify, AfterHandoff, GoOn, Error, Halt, Over,
        migrateVars, migration
  <2>2. step' # "none" => step # "none"
    BY <1>2
    DEF MigrateNext, MigrateStep, StepFails, RewriteRuns, TransferRuns, BeginImport, EndImport,
        VerifyRuns, EndWithout, BeginHandoff, EndHandoff, ImportOne, HandOne, KillMigrate,
        HashEnds, UserRechecks, UserEdits, migrateVars, migration
  <2> QED
    BY <2>1, <2>2 DEF CapGiven
<1> QED
  BY <1>1, <1>2

------------------------------------------------------------------------------
(* What becomes of a torrent on the destination.                               *)

(* Stopping a torrent says nothing about its pieces and leaves no seeder.      *)
LEMMA StopKeeps ==
  ASSUME NEW t \in Torrent
  PROVE  /\ AfterStop(t).complete = t.complete
         /\ AfterStop(t).state = Absent <=> t.state = Absent
         /\ ~IsSeeding(AfterStop(t).state)
<1> USE DEF Torrent, State, ListedStates, StoppedStates, BrokenStates, SeedingStates, IsSeeding,
            Absent
<1>1. CASE t.state \in BrokenStates \cup {Absent}
  BY <1>1 DEF AfterStop
<1>2. CASE t.state \notin BrokenStates \cup {Absent}
  <2>1. AfterStop(t) = [t EXCEPT !.state = IF t.complete THEN "stoppedUP" ELSE "stoppedDL"]
    BY <1>2 DEF AfterStop
  <2> QED
    BY <1>2, <2>1
<1> QED
  BY <1>1, <1>2

(* Nor does starting it.                                                       *)
LEMMA StartKeeps ==
  ASSUME NEW t \in Torrent, IsStopped(t.state)
  PROVE  AfterStart(t).complete = t.complete /\ AfterStart(t).state # Absent
BY DEF AfterStart, Torrent, IsStopped, Absent

(* A torrent import adds or rechecks is listed, and not complete.              *)
LEMMA UnprovenKinds ==
  ASSUME NEW t \in {Unproven, Hashing}
  PROVE  t \in Torrent /\ ~t.complete /\ t.state # Absent /\ ~IsSeeding(t.state)
<1>1. t.state \in {"stoppedDL", "checkingDL"} /\ t.complete = FALSE
  BY DEF Unproven, Hashing
<1> QED
  BY <1>1, UnprovenTyped DEF Absent, IsSeeding, SeedingStates

(* A torrent in one of these states is listed.                                 *)
LEMMA ListedKinds ==
  ASSUME NEW s, IsStopped(s) \/ IsChecking(s)
  PROVE  s # Absent
BY DEF IsStopped, IsChecking, StoppedStates, CheckingStates, Absent

(* What happens to a torrent on the destination: it keeps its save path, and   *)
(* is complete if it was or if its files are all there; or it is added anew,   *)
(* where staging says.                                                         *)
Kept(h, t) ==
  /\ savedAt' = savedAt
  /\ t.state # Absent /\ dst[h].state # Absent
  /\ t.complete => dst[h].complete \/ Holds(h, savedAt[h], Files)
Anew(h, t) ==
  /\ savedAt' = [savedAt EXCEPT ![h] = staging[h].path]
  /\ t.state # Absent /\ ~t.complete
  /\ h \in Paired
Touched(h, t) ==
  /\ UNCHANGED <<library, staging, landed, edits, occupied>>
  /\ dst' = [dst EXCEPT ![h] = t]
  /\ IsSeeding(t.state) => t.complete
  /\ Kept(h, t) \/ Anew(h, t)

(* Import stops a torrent it found, rechecks one, or adds it from staging.     *)
LEMMA ImportTouches ==
  ASSUME DstTyped, LoopInv, PresentListed, NEW h \in Hashes, ImportOne(h)
  PROVE  UNCHANGED <<dst, savedAt>> \/ \E t \in Torrent : Touched(h, t)
<1>1. h \in Paired /\ dst[h] \in Torrent /\ (h \in present => dst[h].state # Absent)
  BY DEF ImportOne, LoopInv, Importing, PresentListed, DstTyped
<1>2. UNCHANGED <<library, staging, landed, edits, occupied>>
  BY DEF ImportOne, payload
<1>3. ASSUME NEW t \in {Unproven, Hashing}, dst' = [dst EXCEPT ![h] = t],
             savedAt' = IF h \in present THEN savedAt ELSE [savedAt EXCEPT ![h] = staging[h].path]
      PROVE  t \in Torrent /\ Touched(h, t)
  <2>1. t \in Torrent /\ ~t.complete /\ t.state # Absent /\ ~IsSeeding(t.state)
    BY UnprovenKinds
  <2> QED
    BY <1>1, <1>2, <1>3, <2>1 DEF Touched, Kept, Anew
<1>4. ASSUME h \in present, dst' = [dst EXCEPT ![h] = AfterStop(dst[h])], savedAt' = savedAt
      PROVE  AfterStop(dst[h]) \in Torrent /\ Touched(h, AfterStop(dst[h]))
  <2>1. AfterStop(dst[h]) \in Torrent
    BY <1>1, StopTyped
  <2>2. /\ AfterStop(dst[h]).complete = dst[h].complete
        /\ AfterStop(dst[h]).state # Absent /\ ~IsSeeding(AfterStop(dst[h]).state)
    BY <1>1, <1>4, StopKeeps
  <2> QED
    BY <1>1, <1>2, <1>4, <2>1, <2>2 DEF Touched, Kept
<1>5. \/ UNCHANGED <<dst, savedAt>>
      \/ \E t \in {Unproven, Hashing} :
           /\ dst' = [dst EXCEPT ![h] = t]
           /\ savedAt' = IF h \in present THEN savedAt ELSE [savedAt EXCEPT ![h] = staging[h].path]
      \/ h \in present /\ dst' = [dst EXCEPT ![h] = AfterStop(dst[h])] /\ savedAt' = savedAt
  BY DEF ImportOne
<1> QED
  BY <1>3, <1>4, <1>5

(* Handoff starts a torrent that is complete.                                  *)
LEMMA HandTouches ==
  ASSUME DstTyped, LoopInv, WholeSeeds, NEW h \in Hashes, HandOne(h)
  PROVE  UNCHANGED <<dst, savedAt>> \/ \E t \in Torrent : Touched(h, t)
<1>1. IsReady(h) /\ dst[h] \in Torrent
  BY DEF HandOne, LoopInv, Handing, DstTyped
<1>2. UNCHANGED <<library, staging, landed, edits, occupied, savedAt>>
  BY DEF HandOne, payload
<1>3. dst' = [dst EXCEPT ![h] = AfterStart(dst[h])] \/ UNCHANGED dst
  BY DEF HandOne
<1>4. PICK t : t = AfterStart(dst[h])
  OBVIOUS
<1>5. t \in Torrent /\ t.complete = dst[h].complete /\ t.state # Absent
  BY <1>1, <1>4, StartTyped, StartKeeps DEF IsReady
<1>6. dst[h].complete /\ dst[h].state # Absent
  BY <1>1, ListedKinds DEF IsReady, IsPieceComplete
<1> QED
  BY <1>2, <1>3, <1>4, <1>5, <1>6 DEF Touched, Kept

(* A hash that ends says what is there; a user who rechecks says nothing yet.  *)
LEMMA OutsidersTouch ==
  ASSUME DstTyped, NEW h \in Hashes, HashEnds(h) \/ UserRechecks(h)
  PROVE  \E t \in Torrent : Touched(h, t)
<1>1. UNCHANGED <<library, staging, landed, edits, occupied, savedAt>>
  BY DEF HashEnds, UserRechecks, vars
<1>2. dst[h] \in Torrent /\ dst[h].state # Absent
  BY ListedKinds DEF HashEnds, UserRechecks, DstTyped
<1>3. CASE UserRechecks(h)
  <2>1. /\ Hashing \in Torrent /\ ~Hashing.complete
        /\ Hashing.state # Absent /\ ~IsSeeding(Hashing.state)
    BY UnprovenKinds
  <2>2. dst' = [dst EXCEPT ![h] = Hashing]
    BY <1>3 DEF UserRechecks
  <2> QED
    BY <1>1, <1>2, <2>1, <2>2 DEF Touched, Kept
<1>4. CASE HashEnds(h)
  <2>1. PICK proven \in BOOLEAN : proven = Holds(h, savedAt[h], Files)
    BY DEF Holds
  <2>2. PICK u : u = [dst[h] EXCEPT !.complete = proven]
    OBVIOUS
  <2>3. u \in Torrent /\ u.complete = proven /\ u.state = dst[h].state
    BY <1>2, <2>2 DEF Torrent
  <2>4. PICK t : t = AfterStop(u)
    OBVIOUS
  <2>5. t \in Torrent /\ t.complete = proven /\ t.state # Absent /\ ~IsSeeding(t.state)
    BY <1>2, <2>3, <2>4, StopTyped, StopKeeps
  <2>6. dst' = [dst EXCEPT ![h] = t]
    BY <1>4, <2>1, <2>2, <2>4 DEF HashEnds
  <2>7. t.complete => Holds(h, savedAt[h], Files)
    BY <2>1, <2>5, Zenon
  <2> QED
    BY <1>1, <1>2, <2>5, <2>6, <2>7 DEF Touched, Kept
<1> QED
  BY <1>3, <1>4

(* No other step touches the destination.                                      *)
LEMMA StepTouches ==
  ASSUME DstTyped, LoopInv, PresentListed, WholeSeeds, [MigrateNext]_migrateVars
  PROVE  UNCHANGED <<dst, savedAt>> \/ \E h \in Hashes : \E t \in Torrent : Touched(h, t)
<1>1. CASE \E h \in Hashes : ImportOne(h) \/ HandOne(h) \/ HashEnds(h) \/ UserRechecks(h)
  BY <1>1, ImportTouches, HandTouches, OutsidersTouch
<1>2. CASE ~\E h \in Hashes : ImportOne(h) \/ HandOne(h) \/ HashEnds(h) \/ UserRechecks(h)
  BY <1>2
  DEF MigrateNext, MigrateStep, Migrate, StepFails, RewriteRuns, TransferRuns, BeginImport,
      EndImport, VerifyRuns, EndWithout, BeginHandoff, EndHandoff, KillMigrate, UserEdits,
      migrateVars, clients
<1> QED
  BY <1>1, <1>2

(* What import found is there. *)
LEMMA PresentStep ==
  ASSUME DstTyped, LoopInv, PresentListed, WholeSeeds, [MigrateNext]_migrateVars
  PROVE  PresentListed'
<1>1. \/ present' = present /\ (step' = "importing" => step = "importing")
      \/ present' = {}
      \/ present' = {h \in Hashes : dst[h].state # Absent} /\ dst' = dst
  <2>1. CASE BeginImport
    BY <2>1 DEF BeginImport, Error, Over, GoOn, loop, clients
  <2>2. CASE ~BeginImport
    BY <2>2
    DEF MigrateNext, MigrateStep, Migrate, StepFails, RewriteRuns, TransferRuns, EndImport,
        VerifyRuns, EndWithout, BeginHandoff, EndHandoff, ImportOne, HandOne, KillMigrate,
        HashEnds, UserRechecks, UserEdits, AfterVerify, AfterHandoff, GoOn, Error, Halt, Over,
        migrateVars, migration, loop, Option, Steps
  <2> QED
    BY <2>1, <2>2
<1>2. present' \subseteq Hashes
  BY <1>1 DEF PresentListed
<1>3. ASSUME present' = present, step' = "importing", NEW g \in present
      PROVE  dst'[g].state # Absent
  <2>1. g \in Hashes /\ dst[g].state # Absent
    BY <1>1, <1>3 DEF PresentListed
  <2>2. CASE UNCHANGED dst
    BY <2>1, <2>2
  <2>3. ASSUME NEW h \in Hashes, NEW t \in Torrent, Touched(h, t)
        PROVE  dst'[g].state # Absent
    BY <2>1, <2>3 DEF Touched, Kept, Anew, DstTyped
  <2> QED
    BY <2>2, <2>3, StepTouches
<1> QED
  BY <1>1, <1>2, <1>3 DEF PresentListed

------------------------------------------------------------------------------
(* Save paths, and what a copy sends.                                          *)

(* As long as there are no edits the library is the same. *)
LEMMA NoEdits ==
  ASSUME CommandInv, [MigrateNext]_migrateVars, edits' = 0
  PROVE  edits = 0 /\ library' = library
<1>1. edits \in Nat
  BY DEF CommandInv, Typed
<1>2. CASE UserEdits
  <2>1. edits' = edits + 1
    BY <1>2 DEF UserEdits, Edit
  <2> QED
    BY <1>1, <2>1
<1>3. CASE ~UserEdits
  BY <1>3
  DEF MigrateNext, MigrateStep, Migrate, StepFails, RewriteRuns, TransferRuns, BeginImport,
      EndImport, VerifyRuns, EndWithout, BeginHandoff, EndHandoff, ImportOne, HandOne, KillMigrate,
      Kill, HashEnds, UserRechecks, BeginFails, BeginRewrite, BeginTransfer, WriteOne, EndRewrite,
      Collect, Copy, EndTransfer, payload, migrateVars, vars
<1> QED
  BY <1>2, <1>3

(* Only an import moves a save path, to where staging says.                    *)
LEMMA SavedStep ==
  ASSUME CommandInv, Unedited, DstTyped, LoopInv, PresentListed, WholeSeeds, SavedByRules,
         [MigrateNext]_migrateVars
  PROVE  SavedByRules'
<1>1. CASE UNCHANGED <<dst, savedAt>>
  BY <1>1, NoEdits, SameRules DEF SavedByRules
<1>2. ASSUME NEW h \in Hashes, NEW t \in Torrent, Touched(h, t)
      PROVE  SavedByRules'
  <2>1. dst' = [dst EXCEPT ![h] = t] /\ library' = library /\ Rules' = Rules
    BY <1>2, SameRules DEF Touched
  <2>2. /\ DOMAIN savedAt' = Hashes
        /\ \A g \in Hashes \ {h} : savedAt'[g] = savedAt[g] /\ dst'[g] = dst[g]
    BY <1>2, <2>1 DEF Touched, Kept, Anew, SavedByRules, DstTyped
  <2>3. ASSUME edits' = 0
        PROVE  savedAt'[h] = Apply(Rules, library[h].path)
    <3>1. edits = 0
      BY <1>2, <2>3 DEF Touched
    <3>2. CASE Kept(h, t)
      BY <3>1, <3>2 DEF Kept, SavedByRules
    <3>3. CASE Anew(h, t)
      <4>1. savedAt'[h] = staging[h].path /\ staging[h].resume = "good"
        BY <3>3 DEF Anew, SavedByRules, Paired
      <4> QED
        BY <3>1, <4>1 DEF Unedited, StagedByRules
    <3> QED
      BY <1>2, <3>2, <3>3 DEF Touched
  <2>4. ASSUME edits' = 0 PROVE edits = 0
    BY <1>2, <2>4 DEF Touched
  <2> QED
    BY <2>1, <2>2, <2>3, <2>4 DEF SavedByRules
<1> QED
  BY <1>1, <1>2, StepTouches

(* No torrent starts to seed unless it is complete.                            *)
LEMMA SeedsStep ==
  ASSUME DstTyped, LoopInv, PresentListed, WholeSeeds, [MigrateNext]_migrateVars
  PROVE  WholeSeeds'
<1>1. CASE UNCHANGED dst
  BY <1>1 DEF WholeSeeds
<1>2. ASSUME NEW h \in Hashes, NEW t \in Torrent, Touched(h, t)
      PROVE  WholeSeeds'
  BY <1>2 DEF Touched, DstTyped, WholeSeeds
<1> QED
  BY <1>1, <1>2, StepTouches

(* What a copy sends is as it is on the source, or was not there yet.          *)
Sends(S, group) ==
  \A m \in S : \E x \in There(group) : \E c \in BOOLEAN :
    m = Sent(x, c) /\ (c => Sent(x, FALSE) \notin landed)

(* All it sends are such files.                                                *)
LEMMA CopySends ==
  ASSUME Copy, NEW group, group = Head(groups)
  PROVE  \E S : Land(S) /\ Sends(S, group)
<1>1. CASE Land({Sent(x, FALSE) : x \in There(group)})
  <2>1. PICK S : S = {Sent(x, FALSE) : x \in There(group)}
    OBVIOUS
  <2>2. Land(S)
    BY <1>1, <2>1
  <2>3. ASSUME NEW m \in S
        PROVE  \E x \in There(group) : \E c \in BOOLEAN :
                 m = Sent(x, c) /\ (c => Sent(x, FALSE) \notin landed)
    <3>1. PICK x \in There(group) : m = Sent(x, FALSE)
      BY <2>1
    <3>2. FALSE \in BOOLEAN
      OBVIOUS
    <3> QED
      BY <3>1, <3>2
  <2>4. Sends(S, group)
    BY <2>3 DEF Sends
  <2> QED
    BY <2>2, <2>4
<1>2. CASE \E sent \in SUBSET News(group) : \E cut \in SUBSET sent : Copied(sent, cut)
  <2>1. PICK sent \in SUBSET News(group) : \E cut \in SUBSET sent : Copied(sent, cut)
    BY <1>2
  <2>2. PICK cut \in SUBSET sent : Copied(sent, cut)
    BY <2>1
  <2>3. PICK S : S = {Sent(x, x \in cut) : x \in sent}
    OBVIOUS
  <2>4. Land(S)
    BY <2>2, <2>3 DEF Copied
  <2>5. ASSUME NEW m \in S
        PROVE  \E x \in There(group) : \E c \in BOOLEAN :
                 m = Sent(x, c) /\ (c => Sent(x, FALSE) \notin landed)
    <3>1. PICK x \in sent : m = Sent(x, x \in cut)
      BY <2>3
    <3>2. x \in There(group) /\ Sent(x, FALSE) \notin landed
      BY DEF News
    <3>3. (x \in cut) \in BOOLEAN
      OBVIOUS
    <3> QED
      BY <3>1, <3>2, <3>3, Zenon
  <2>6. Sends(S, group)
    BY <2>5 DEF Sends
  <2> QED
    BY <2>4, <2>6
<1>3. \/ Land({Sent(x, FALSE) : x \in There(group)})
      \/ \E sent \in SUBSET News(group) : \E cut \in SUBSET sent : Copied(sent, cut)
  BY CopyFacts
<1> QED
  BY <1>1, <1>2, <1>3

(* A copy adds files in the condition they are in, and takes away a whole one  *)
(* only where another torrent has a file in its place.                         *)
LEMMA CopyAdds ==
  ASSUME CommandInv, WholeStay, Copy
  PROVE  /\ \A l \in landed' : l.whole => library[l.from].disk[l.file] \in {"whole", "absent"}
         /\ \A l \in landed :
              \/ ~l.whole \/ l \in landed'
              \/ \E m \in landed' : m.at = l.at /\ m.from \in Hashes \ {l.from}
<1>1. PICK group : group = Head(groups)
  OBVIOUS
<1>2. group \in Group
  BY <1>1, CopyFacts, GroupsTail DEF CommandInv, Worked
<1>3. PICK S : Land(S) /\ Sends(S, group)
  BY <1>1, CopySends
<1>4. /\ S \subseteq landed' /\ landed' \subseteq landed \cup S
      /\ \A l \in landed : l \in landed' \/ \E m \in S : l.at = m.at /\ l.file = m.file
  BY <1>3, LandKeeps
<1>5. ASSUME NEW x \in There(group)
      PROVE  x \in File /\ library[x.from].disk[x.file] \in {"whole", "short"}
  BY <1>2 DEF There, Group
<1>6. ASSUME NEW l \in landed', l.whole
      PROVE  library[l.from].disk[l.file] \in {"whole", "absent"}
  <2>1. CASE l \in landed
    BY <1>6, <2>1 DEF WholeStay
  <2>2. CASE l \in S
    <3>1. PICK x \in There(group) : \E c \in BOOLEAN : l = Sent(x, c)
      BY <1>3, <2>2 DEF Sends
    <3>2. PICK c \in BOOLEAN : l = Sent(x, c)
      BY <3>1
    <3> QED
      BY <1>5, <1>6, <3>2, SentTyped
  <2> QED
    BY <1>4, <2>1, <2>2
<1>7. ASSUME NEW l \in landed, l.whole, l \notin landed'
      PROVE  \E m \in landed' : m.at = l.at /\ m.from \in Hashes \ {l.from}
  <2>1. PICK m \in S : l.at = m.at /\ l.file = m.file
    BY <1>4, <1>7
  <2>2. PICK x \in There(group) : \E c \in BOOLEAN :
          m = Sent(x, c) /\ (c => Sent(x, FALSE) \notin landed)
    BY <1>3 DEF Sends
  <2>3. PICK c \in BOOLEAN : m = Sent(x, c) /\ (c => Sent(x, FALSE) \notin landed)
    BY <2>2
  <2>4. x \in File /\ m.at = x.at /\ m.file = x.file /\ m.from = x.from
    BY <1>5, <2>3, SentTyped
  <2>5. m \in landed' /\ m.from \in Hashes
    BY <1>4, <2>4 DEF File
  <2>6. ASSUME x.from = l.from PROVE FALSE
    <3>1. l \in Landing
      BY DEF CommandInv, Typed, Landing
    <3>2. library[l.from].disk[l.file] = "whole"
      <4>1. library[l.from].disk[l.file] \in {"whole", "short"}
        BY <1>5, <2>1, <2>4, <2>6
      <4>2. library[l.from].disk[l.file] \in {"whole", "absent"}
        BY <1>7 DEF WholeStay
      <4> QED
        BY <4>1, <4>2
    <3>3. Sent(x, FALSE) = l
      BY <1>7, <2>1, <2>4, <2>6, <3>1, <3>2, SentAgain
    <3>4. ~c
      BY <2>3, <3>3
    <3>5. m = l
      BY <2>3, <3>3, <3>4
    <3> QED
      BY <1>7, <2>5, <3>5
  <2> QED
    BY <2>1, <2>4, <2>5, <2>6
<1> QED
  BY <1>6, <1>7

------------------------------------------------------------------------------
(* What landed, and what is held.                                              *)

(* Who lies where.                                                             *)
Places(L) == {<<l.at, l.from>> : l \in L}

(* Only a copy lands files, and what has been occupied is not forgotten.       *)
LEMMA LandingSteps ==
  ASSUME [MigrateNext]_migrateVars
  PROVE  \/ UNCHANGED <<landed, occupied>>
         \/ /\ UNCHANGED <<library, dst, savedAt, edits>>
            /\ occupied' = occupied \cup Places(landed')
            /\ Copy \/ UNCHANGED landed
<1>1. CASE TransferRuns
  <2>1. occupied' = occupied \cup Places(landed') /\ UNCHANGED <<dst, savedAt>>
    BY <1>1 DEF TransferRuns, Places, clients
  <2>2. UNCHANGED <<library, edits>> /\ (Copy \/ UNCHANGED landed)
    BY <1>1 DEF TransferRuns, BeginFails, BeginTransfer, Collect, Copy, EndTransfer
  <2> QED
    BY <2>1, <2>2
<1>2. CASE ~TransferRuns
  <2>1. occupied' = occupied
    BY <1>2
    DEF MigrateNext, MigrateStep, Migrate, StepFails, RewriteRuns, BeginImport,
        EndImport, VerifyRuns, EndWithout, BeginHandoff, EndHandoff, ImportOne, HandOne,
        KillMigrate, HashEnds, UserRechecks, UserEdits, migration, migrateVars
  <2>2. landed' = landed
    BY <1>2
    DEF MigrateNext, MigrateStep, Migrate, StepFails, RewriteRuns, BeginImport,
        EndImport, VerifyRuns, EndWithout, BeginHandoff, EndHandoff, ImportOne, HandOne,
        KillMigrate, Kill, HashEnds, UserRechecks, UserEdits, Edit, BeginFails, BeginRewrite,
        WriteOne, EndRewrite, payload, vars, migrateVars
  <2> QED
    BY <2>1, <2>2
<1> QED
  BY <1>1, <1>2

(* Of what a torrent is on the source only files of it go.                     *)
LEMMA LibraryStays ==
  ASSUME library \in [Hashes -> Entry], [MigrateNext]_migrateVars, NEW h \in Hashes
  PROVE  /\ library'[h].name = library[h].name
         /\ \A f \in Files : library'[h].disk[f] \in {library[h].disk[f], "absent"}
<1>1. library[h] \in Entry /\ library[h].disk \in [Files -> Observed]
  BY DEF Entry
<1>2. CASE UserEdits
  <2>1. PICK g \in Hashes :
          \/ \E pair \in EditedPairs :
               library' = [library EXCEPT ![g] = [@ EXCEPT !.torrent = pair[1], !.resume = pair[2]]]
          \/ \E f \in Files : library' = [library EXCEPT ![g].disk = [@ EXCEPT ![f] = "absent"]]
    BY <1>2 DEF UserEdits, Edit
  <2>2. ASSUME NEW pair \in EditedPairs,
               library' = [library EXCEPT ![g] = [@ EXCEPT !.torrent = pair[1], !.resume = pair[2]]]
        PROVE  library'[h].name = library[h].name /\ library'[h].disk = library[h].disk
    BY <1>1, <2>2 DEF Entry
  <2>3. ASSUME NEW f \in Files,
               library' = [library EXCEPT ![g].disk = [@ EXCEPT ![f] = "absent"]]
        PROVE  /\ library'[h].name = library[h].name
               /\ \A e \in Files : library'[h].disk[e] \in {library[h].disk[e], "absent"}
    BY <1>1, <2>3 DEF Entry
  <2> QED
    BY <2>1, <2>2, <2>3
<1>3. CASE ~UserEdits
  <2>1. library' = library
    BY <1>3
    DEF MigrateNext, MigrateStep, Migrate, StepFails, RewriteRuns, TransferRuns, BeginImport,
        EndImport, VerifyRuns, EndWithout, BeginHandoff, EndHandoff, ImportOne, HandOne,
        KillMigrate, Kill, HashEnds, UserRechecks, BeginFails, BeginRewrite, BeginTransfer,
        WriteOne, EndRewrite, Collect, Copy, EndTransfer, payload, migrateVars, vars
  <2> QED
    BY <2>1
<1> QED
  BY <1>2, <1>3

(* A file that is whole on the destination is whole, or gone, on the source.   *)
LEMMA WholeStep ==
  ASSUME CommandInv, WholeStay, [MigrateNext]_migrateVars
  PROVE  WholeStay'
<1>1. library \in [Hashes -> Entry] /\ \A l \in landed : l.from \in Hashes /\ l.file \in Files
  BY DEF CommandInv, Typed
<1>2. CASE UNCHANGED landed
  <2> SUFFICES ASSUME NEW l \in landed, l.whole
               PROVE  library'[l.from].disk[l.file] \in {"whole", "absent"}
    BY <1>2 DEF WholeStay
  <2>1. library[l.from].disk[l.file] \in {"whole", "absent"}
    BY DEF WholeStay
  <2>2. library'[l.from].disk[l.file] \in {library[l.from].disk[l.file], "absent"}
    BY <1>1, LibraryStays
  <2> QED
    BY <2>1, <2>2
<1>3. CASE Copy /\ UNCHANGED library
  BY <1>3, CopyAdds DEF WholeStay
<1> QED
  BY <1>2, <1>3, LandingSteps

(* Whatever is landed occupies its place.                                      *)
LEMMA LandedStep ==
  ASSUME LandedOccupies, [MigrateNext]_migrateVars
  PROVE  LandedOccupies'
BY LandingSteps DEF LandedOccupies, Places

(* Without edits, places are occupied as the rules say.                        *)
LEMMA OccupiedStep ==
  ASSUME CommandInv, Unedited', OccupiedByRules, [MigrateNext]_migrateVars
  PROVE  OccupiedByRules'
<1> SUFFICES ASSUME edits' = 0, NEW o \in occupied'
             PROVE  Moves(o[2])' /\ o[1] = Spot(o[2])'
  BY DEF OccupiedByRules
<1>1. edits = 0 /\ library' = library
  BY NoEdits
<1>2. CASE o \in occupied
  BY <1>1, <1>2, SameRules DEF OccupiedByRules
<1>3. CASE o \in Places(landed')
  <2>1. PICK l \in landed' : o = <<l.at, l.from>>
    BY <1>3 DEF Places
  <2>2. Moves(l.from)' /\ l.at = Spot(l.from)'
    BY DEF Unedited, LandedByRules
  <2>3. o[1] = l.at /\ o[2] = l.from
    BY <2>1
  <2> QED
    BY <2>2, <2>3
<1> QED
  BY <1>2, <1>3, LandingSteps

(* What the client calls complete after a step was there before it.            *)
LEMMA CompleteBefore ==
  ASSUME DstTyped, LoopInv, PresentListed, SavedByRules, WholeSeeds, CompleteHeld,
         LandedOccupies, [MigrateNext]_migrateVars, NEW h \in Hashes, dst'[h].complete
  PROVE  /\ savedAt'[h] = savedAt[h]
         /\ <<Place(h, savedAt[h]), h>> \in occupied
         /\ Holds(h, savedAt[h], Files) \/ Spoilt(h)
<1>1. savedAt'[h] = savedAt[h] /\ (dst[h].complete \/ Holds(h, savedAt[h], Files))
  <2>1. CASE UNCHANGED <<dst, savedAt>>
    BY <2>1
  <2>2. ASSUME NEW g \in Hashes, NEW t \in Torrent, Touched(g, t)
        PROVE  savedAt'[h] = savedAt[h] /\ (dst[h].complete \/ Holds(h, savedAt[h], Files))
    <3>1. dst' = [dst EXCEPT ![g] = t]
      BY <2>2 DEF Touched
    <3>2. CASE g = h
      <4>1. dst'[h] = t
        BY <3>1, <3>2 DEF DstTyped
      <4>2. Kept(h, t)
        BY <2>2, <3>2, <4>1 DEF Touched, Anew
      <4> QED
        BY <4>1, <4>2 DEF Kept
    <3>3. CASE g # h
      <4>1. dst'[h] = dst[h] /\ savedAt'[h] = savedAt[h]
        BY <2>2, <3>1, <3>3 DEF Touched, Kept, Anew, DstTyped, SavedByRules
      <4> QED
        BY <4>1
    <3> QED
      BY <3>2, <3>3
  <2> QED
    BY <2>1, <2>2, StepTouches
<1>2. ASSUME Holds(h, savedAt[h], Files)
      PROVE  <<Place(h, savedAt[h]), h>> \in occupied
  <2>1. PICK f \in Files : TRUE
    OBVIOUS
  <2>2. PICK l : l = [at |-> Place(h, savedAt[h]), file |-> f, from |-> h, whole |-> TRUE]
    OBVIOUS
  <2>3. l \in landed
    BY <1>2, <2>2 DEF Holds
  <2>4. l.at = Place(h, savedAt[h]) /\ l.from = h
    BY <2>2
  <2> QED
    BY <2>3, <2>4 DEF LandedOccupies
<1> QED
  BY <1>1, <1>2 DEF CompleteHeld

(* A copy leaves a torrent whole or puts another one in its place.             *)
LEMMA HeldOrSpoilt ==
  ASSUME CommandInv, WholeStay, [MigrateNext]_migrateVars, NEW h \in Hashes, NEW path, NEW place,
         place = Place(h, path), Holds(h, path, Files)
  PROVE  \/ \A f \in Files : [at |-> place, file |-> f, from |-> h, whole |-> TRUE] \in landed'
         \/ \E g \in Hashes \ {h} : <<place, g>> \in occupied'
<1> SUFFICES ASSUME NEW f \in Files,
                    [at |-> place, file |-> f, from |-> h, whole |-> TRUE] \notin landed'
             PROVE  \E g \in Hashes \ {h} : <<place, g>> \in occupied'
  OBVIOUS
<1>1. PICK l : l = [at |-> place, file |-> f, from |-> h, whole |-> TRUE]
  OBVIOUS
<1>2. l \in landed /\ l \notin landed' /\ l.whole /\ l.at = place /\ l.from = h
  BY <1>1 DEF Holds
<1>3. Copy /\ occupied' = occupied \cup Places(landed')
  BY <1>2, LandingSteps
<1>4. PICK m \in landed' : m.at = l.at /\ m.from \in Hashes \ {l.from}
  BY <1>2, <1>3, CopyAdds
<1>5. <<m.at, m.from>> \in occupied'
  BY <1>3 DEF Places
<1> QED
  BY <1>2, <1>4, <1>5

(* What the client calls complete stays where it is, or is spoilt by another.  *)
LEMMA HeldStep ==
  ASSUME CommandInv, DstTyped, LoopInv, PresentListed, SavedByRules, WholeSeeds, CompleteHeld,
         LandedOccupies, WholeStay, [MigrateNext]_migrateVars
  PROVE  CompleteHeld'
<1> SUFFICES ASSUME NEW h \in Hashes, dst'[h].complete
             PROVE  /\ <<Place(h, savedAt[h])', h>> \in occupied'
                    /\ Holds(h, savedAt[h], Files)' \/ Spoilt(h)'
  BY DEF CompleteHeld
<1>1. /\ savedAt'[h] = savedAt[h]
      /\ <<Place(h, savedAt[h]), h>> \in occupied
      /\ Holds(h, savedAt[h], Files) \/ Spoilt(h)
  BY CompleteBefore
<1>2. library'[h].name = library[h].name
  BY LibraryStays DEF CommandInv, Typed
<1>3. Place(h, savedAt[h])' = Place(h, savedAt[h])
  BY <1>1, <1>2 DEF Place
<1>4. occupied \subseteq occupied'
  BY LandingSteps
<1>5. CASE Spoilt(h)
  BY <1>1, <1>3, <1>4, <1>5 DEF Spoilt
<1>6. CASE Holds(h, savedAt[h], Files)
  <2>1. PICK place : place = Place(h, savedAt[h])
    OBVIOUS
  <2>2. \/ \A f \in Files : [at |-> place, file |-> f, from |-> h, whole |-> TRUE] \in landed'
        \/ \E g \in Hashes \ {h} : <<place, g>> \in occupied'
    BY <1>6, <2>1, HeldOrSpoilt
  <2>3. Holds(h, savedAt[h], Files)' \/ Spoilt(h)'
    BY <1>3, <2>1, <2>2 DEF Holds, Spoilt
  <2> QED
    BY <1>1, <1>3, <1>4, <2>3
<1> QED
  BY <1>1, <1>5, <1>6

------------------------------------------------------------------------------
(* What the client seeds it has where it looks.                                *)

(* All this holds at first, and every step keeps it.                           *)
LEMMA SavedInit == MigrateInit => MigrationInv
<1> SUFFICES ASSUME MigrateInit PROVE MigrationInv
  OBVIOUS
<1>1. Init /\ CapGiven
  BY CapInit DEF MigrateInit
<1>2. \A h \in Hashes : dst[h].state = Absent /\ ~dst[h].complete /\ ~IsSeeding(dst[h].state)
  <2>1. AbsentTorrent.state = Absent /\ AbsentTorrent.complete = FALSE /\ ~IsSeeding(Absent)
    BY DEF AbsentTorrent, Absent, IsSeeding, SeedingStates
  <2> QED
    BY <2>1 DEF MigrateInit
<1>3. /\ present = {} /\ occupied = {} /\ landed = {} /\ step = "none"
      /\ DOMAIN savedAt = Hashes
  BY <1>1 DEF MigrateInit, Init
<1>4. PresentListed /\ SavedByRules
  BY <1>2, <1>3 DEF PresentListed, SavedByRules
<1>5. WholeSeeds /\ CompleteHeld
  BY <1>2 DEF WholeSeeds, CompleteHeld
<1>6. LandedOccupies /\ WholeStay /\ OccupiedByRules
  BY <1>3 DEF LandedOccupies, WholeStay, OccupiedByRules
<1> QED
  BY <1>1, <1>4, <1>5, <1>6, CommandInit, UneditedInit DEF SavedInv, MigrationInv

LEMMA MigrationStep ==
  ASSUME DistinctPlaces, GateInv, LoopInv, MigrationInv, [MigrateNext]_migrateVars
  PROVE  MigrationInv'
<1>1. DstTyped
  BY DEF GateInv
<1>2. CommandInv' /\ Unedited' /\ CapGiven'
  BY CommandsInMigration, CapStep DEF MigrationInv, SavedInv
<1>3. PresentListed' /\ SavedByRules' /\ WholeSeeds'
  BY <1>1, PresentStep, SavedStep, SeedsStep DEF MigrationInv, SavedInv
<1>4. CompleteHeld'
  BY <1>1, HeldStep DEF MigrationInv, SavedInv
<1>5. LandedOccupies' /\ WholeStay' /\ OccupiedByRules'
  BY <1>2, LandedStep, WholeStep, OccupiedStep DEF MigrationInv, SavedInv
<1> QED
  BY <1>2, <1>3, <1>4, <1>5 DEF MigrationInv, SavedInv

(* Two torrents have one place only if the rules converge.                     *)
LEMMA SpoiltConverges ==
  ASSUME DistinctPlaces, MigrationInv, edits = 0, NEW h \in Hashes, dst[h].complete, Spoilt(h)
  PROVE  Converging(Rules) # {}
<1> SUFFICES ASSUME Converging(Rules) = {} PROVE FALSE
  OBVIOUS
<1>1. PICK g \in Hashes \ {h} : <<Place(h, savedAt[h]), g>> \in occupied
  BY DEF Spoilt
<1>2. <<Place(h, savedAt[h]), h>> \in occupied
  BY DEF MigrationInv, SavedInv, CompleteHeld
<1>3. OccupiedByRules
  BY DEF MigrationInv, SavedInv
<1>4. Moves(g) /\ Place(h, savedAt[h]) = Spot(g)
  BY <1>1, <1>3 DEF OccupiedByRules
<1>5. Moves(h) /\ Place(h, savedAt[h]) = Spot(h)
  BY <1>2, <1>3 DEF OccupiedByRules
<1>6. library \in [Hashes -> Entry] /\ library \in Libraries
  BY DEF MigrationInv, CommandInv, Typed, Unedited
<1>7. g = h
  BY <1>4, <1>5, <1>6, SpotsApart
<1> QED
  BY <1>1, <1>7

(* What it says of the seeders.                                                *)
LEMMA SeedersHold ==
  ASSUME DistinctPlaces, MigrationInv
  PROVE  SeedersHoldTheirBytes
<1> SUFFICES ASSUME NEW h \in Hashes, IsSeeding(dst[h].state), ~Holds(h, savedAt[h], Files)
             PROVE  Spoilt(h) /\ (edits = 0 => Converging(Rules) # {})
  BY DEF SeedersHoldTheirBytes, Spoilt
<1>1. dst[h].complete
  BY DEF MigrationInv, SavedInv, WholeSeeds
<1>2. Spoilt(h)
  BY <1>1 DEF MigrationInv, SavedInv, CompleteHeld
<1> QED
  BY <1>1, <1>2, SpoiltConverges

(* What it says of a migration that is complete.                               *)
LEMMA SavedIsStaged ==
  ASSUME LoopInv, MigrationInv
  PROVE  SavedAsStaged
<1> SUFFICES ASSUME HandedAll, edits = 0, NEW h \in Paired
             PROVE  savedAt[h] = staging[h].path
  BY DEF SavedAsStaged
<1>1. h \in Hashes /\ IsSeeding(dst[h].state) /\ staging[h].resume = "good"
  BY DEF LoopInv, CompleteMeansHandedOver, Paired
<1>2. dst[h].state # Absent
  BY <1>1 DEF IsSeeding, SeedingStates, Absent
<1>3. savedAt[h] = Apply(Rules, library[h].path)
  BY <1>1, <1>2 DEF MigrationInv, SavedInv, SavedByRules
<1>4. staging[h].path = Apply(Rules, library[h].path)
  BY <1>1 DEF MigrationInv, Unedited, StagedByRules
<1> QED
  BY <1>3, <1>4

(* The save paths import has given the client (import::run, and what the       *)
(* client's hashing, handoff and later transfers make of them): what the       *)
(* destination seeds lies whole where its client looks, unless another torrent *)
(* has landed in that directory, without edits only where a plan converges;    *)
(* and after a complete migration that is where staging says.                  *)
THEOREM MigrateSaves == ASSUME DistinctPlaces PROVE MigrateSpec => []SavedWhereItLies
<1> DEFINE Inv == GateInv /\ LoopInv /\ MigrationInv
<1>1. MigrateInit => Inv
  BY GateInit, LoopInit, SavedInit
<1>2. Inv /\ [MigrateNext]_migrateVars => Inv'
  BY GateStep, LoopStep, MigrationStep
<1>3. Inv => SavedWhereItLies
  BY SeedersHold, SavedIsStaged DEF SavedWhereItLies
<1> QED
  BY <1>1, <1>2, <1>3, PTL DEF MigrateSpec
==============================================================================
