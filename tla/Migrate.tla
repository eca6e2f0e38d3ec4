-------------------------------- MODULE Migrate --------------------------------
(***************************************************************************)
(* tsync migrate (crates/migrate): rewrite, transfer, import, verify and,  *)
(* if asked, handoff, one after the other, from a step of the user's       *)
(* choice, until one of them is incomplete.  Rewrite and transfer are the  *)
(* actions of Payload; the other three are taken torrent by torrent and    *)
(* not call by call, which is what Import, Verify and Handoff are for.     *)
(* What ties the steps together is modelled: staging as each of them reads *)
(* it, the bytes that have landed, and the destination client.             *)
(***************************************************************************)
EXTENDS Payload, QbtStates

CONSTANTS
  Migrations,       \* the option records the command is invoked with
  Orders,           \* orders in which read_dir may list staging
  StopCancelsHash   \* may a stop end a hash under way, with nothing proven?

Steps == {"rewrite", "transfer", "import", "verify", "handoff"}
Option ==
  [from : Steps, limit : SUBSET Nat, dry : BOOLEAN, handoff : BOOLEAN, source : BOOLEAN,
   confirm : BOOLEAN, allowUnverified : BOOLEAN]

ASSUME MigrateAssumption ==
  /\ \A o \in Migrations : o \in Option /\ o.limit \in TorrentCaps
  /\ {} \in ByteCaps
  /\ \A order \in Orders : order \in [1..Cardinality(Hashes) -> Hashes] /\ IsInjective(order)
  /\ StopCancelsHash \in (SUBSET BOOLEAN) \ {{}}

VARIABLES
  dst,        \* destination client: its torrents
  savedAt,    \* destination client: their save paths
  announced,  \* source client: the torrents it seeds
  step,       \* where the running migrate is
  opts,       \* its options; of the last one once it has ended
  order,      \* how the directory listings of this run are ordered
  expected,   \* expected_hashes of verify or handoff
  present,    \* import: dest_hashes
  items,      \* import and handoff: torrents the loop has not reached
  failed,     \* import and handoff: torrents that failed
  run,        \* Report, and what rewrite could not write
  occupied    \* history: <<directory, torrent>> of every file that has landed

payload == <<library, staging, landed, pc, command, edits>>
clients == <<dst, savedAt, announced>>
loop == <<present, items, failed>>
migration == <<step, opts, order, expected, loop, run>>
migrateVars == <<vars, clients, migration, occupied>>

NewRun == [end |-> "running", stoppedAt |-> "", started |-> {}, unwritten |-> {}]
NoOption ==
  [from |-> "rewrite", limit |-> {}, dry |-> FALSE, handoff |-> FALSE, source |-> FALSE,
   confirm |-> FALSE, allowUnverified |-> FALSE]

MigrateInit ==
  /\ Init
  /\ dst = [h \in Hashes |-> AbsentTorrent]
  /\ savedAt = [h \in Hashes |-> <<>>]
  /\ announced = {h \in Hashes : library[h].torrent = "good"}
  /\ step = "none"
  /\ opts = NoOption
  /\ order = CHOOSE listing \in Orders : TRUE
  /\ expected = {}
  /\ present = {}
  /\ items = {}
  /\ failed = {}
  /\ run = [NewRun EXCEPT !.end = "none"]
  /\ occupied = {}

------------------------------------------------------------------------------
(* The order of a listing matters only to a cap. *)
Migrate(o) ==
  /\ step = "none"
  /\ step' = o.from
  /\ opts' = o
  /\ order' \in IF o.limit = {} THEN {order} ELSE Orders
  /\ run' = NewRun
  /\ UNCHANGED <<vars, clients, expected, loop, occupied>>

GoOn(at, next) ==
  step' = next /\ run' = [run EXCEPT !.stoppedAt = at] /\ UNCHANGED <<opts, order, loop>>

(* The run is over, and what a step held in memory is gone. *)
Over(result) ==
  /\ step' = "none"
  /\ run' = result
  /\ present' = {}
  /\ items' = {}
  /\ failed' = {}
  /\ UNCHANGED <<opts, order>>
Error == Over([run EXCEPT !.end = "error"])
Halt(at) == Over([run EXCEPT !.end = "halted", !.stoppedAt = at])

(* An error of a step that has not begun with a torrent yet. *)
StepFails ==
  /\ step \in {"import", "verify", "handoff"}
  /\ Fault
  /\ Error
  /\ UNCHANGED <<payload, clients, expected, occupied>>

(* rewrite::run: migrate does not look at what it reports.                     *)
RewriteRuns ==
  /\ step = "rewrite"
  /\ \/ /\ BeginFails("rewrite")
        /\ Error
     \/ /\ \/ (\E budget \in Budgets : BeginRewrite(budget))
           \/ WriteOne
        /\ UNCHANGED <<step, opts, order, loop, run>>
     \/ /\ EndRewrite
        /\ step' = "transfer"
        /\ run' = [run EXCEPT !.stoppedAt = "rewrite", !.unwritten = report.failed]
        /\ UNCHANGED <<opts, order, loop>>
  /\ UNCHANGED <<clients, expected, occupied>>

(* transfer::run, dry or not. *)
TransferRuns ==
  /\ step = "transfer"
  /\ \/ /\ BeginFails("transfer")
        /\ Error
     \/ /\ \/ \E budget \in Budgets : BeginTransfer(budget, {}, opts.limit, FALSE)
           \/ Collect
           \/ Copy
        /\ ~opts.dry
        /\ UNCHANGED <<step, opts, order, loop, run>>
     \/ /\ \E budget \in Budgets : BeginTransfer(budget, {}, opts.limit, TRUE)
        /\ opts.dry
        /\ GoOn("transfer", "import")
     \/ /\ EndTransfer
        /\ IF IsComplete(report) THEN GoOn("transfer", "import") ELSE Halt("transfer")
  /\ occupied' = occupied \cup {<<l.at, l.from>> : l \in landed'}
  /\ UNCHANGED <<clients, expected>>

------------------------------------------------------------------------------
(* take_smallest of import and of verify: a stable sort by size of a listing.  *)
Smallest(hashes, listing, limit) ==
  LET Position(h) == CHOOSE i \in DOMAIN listing : listing[i] = h
      Precedes(g, h) == \/ library[g].bytes < library[h].bytes
                        \/ library[g].bytes = library[h].bytes /\ Position(g) < Position(h)
  IN {h \in hashes : \A n \in limit : Cardinality({g \in hashes : Precedes(g, h)}) < n}

(* read_staging: pairs whose two files can be read, in the order of hashes.    *)
Paired == {h \in Hashes : staging[h].torrent = "good" /\ staging[h].resume = "good"}
\* Mutant of StagedItems: half a pair is taken for an item.
StagedItemsHalf ==
  Smallest({h \in Hashes : staging[h].torrent = "good"}, SetToSortSeq(Hashes, <), opts.limit)
StagedItems == Smallest(Paired, SetToSortSeq(Hashes, <), opts.limit)

(* expected_hashes: a .torrent is enough, and the order is the directory's.    *)
ExpectedHashes == Smallest({h \in Hashes : staging[h].torrent = "good"}, order, opts.limit)

(* import::run up to its loop. *)
BeginImport ==
  /\ step = "import"
  /\ LET dual == {h \in StagedItems : h \in announced /\ IsSeeding(dst[h].state)}
         IsRefused == IF opts.source THEN dual # {} ELSE ~opts.allowUnverified
     IN IF IsRefused THEN Error
        ELSE IF opts.dry
          THEN GoOn("import", "verify")
          ELSE /\ step' = "importing"
               /\ items' = StagedItems
               /\ present' = {h \in Hashes : dst[h].state # Absent}
               /\ failed' = {}
               /\ UNCHANGED <<opts, order, run>>
  /\ UNCHANGED <<vars, clients, expected, occupied>>

Unproven == [state |-> "stoppedDL", complete |-> FALSE]
Hashing == [state |-> "checkingDL", complete |-> FALSE]

(* Add, stop, recheck, stop.  A torrent that is there already keeps its save   *)
(* path.  A call that fails leaves the torrent anywhere on the way.            *)
ImportOne(h) ==
  /\ step = "importing"
  /\ h \in items
  /\ items' = items \ {h}
  /\ LET Added(torrent) ==
           /\ dst' = [dst EXCEPT ![h] = torrent]
           /\ savedAt' = IF h \in present THEN savedAt
                                          ELSE [savedAt EXCEPT ![h] = staging[h].path]
     IN \/ /\ \E cancels \in StopCancelsHash : Added(IF cancels THEN Unproven ELSE Hashing)
           /\ UNCHANGED <<failed, faults>>
        \/ /\ Fault
           /\ failed' = failed \cup {h}
           /\ \/ UNCHANGED <<dst, savedAt>>
              \/ \E torrent \in {Unproven, Hashing} : Added(torrent)
              \/ Added(AfterStop(dst[h])) /\ h \in present
  /\ UNCHANGED <<payload, announced, step, opts, order, expected, present, run, occupied>>

EndImport ==
  /\ step = "importing"
  /\ items = {}
  /\ IF failed = {} THEN GoOn("import", "verify") ELSE Halt("import")
  /\ UNCHANGED <<vars, clients, expected, occupied>>

------------------------------------------------------------------------------
IsReady(h) == IsPieceComplete(dst[h]) /\ IsStopped(dst[h].state)

\* Mutant of AfterVerify: only what is still being hashed halts.
AfterVerifyHashed(hashes) ==
  IF \A h \in hashes : ~IsChecking(dst[h].state) THEN GoOn("verify", "handoff") ELSE Halt("verify")
AfterVerify(hashes) ==
  IF \A h \in hashes : IsReady(h) THEN GoOn("verify", "handoff") ELSE Halt("verify")
(* verify::run, without --recheck and without waiting: one listing. *)
VerifyRuns ==
  /\ step = "verify"
  /\ expected' = ExpectedHashes
  /\ AfterVerify(expected')
  /\ UNCHANGED <<vars, clients, occupied>>

(* --handoff was not given. *)
EndWithout ==
  /\ step = "handoff"
  /\ ~opts.handoff
  /\ Over([run EXCEPT !.end = "complete"])
  /\ UNCHANGED <<vars, clients, expected, occupied>>

\* Mutant of AfterHandoff: what failed is not looked at.
AfterHandoffAlways(failures) ==
  Over([run EXCEPT !.end = "complete", !.stoppedAt = "handoff"])
AfterHandoff(failures) ==
  IF failures = {} THEN Over([run EXCEPT !.end = "complete", !.stoppedAt = "handoff"])
                   ELSE Halt("handoff")

(* handoff::run up to its loop: a dry run and a mere report end there.         *)
BeginHandoff ==
  /\ step = "handoff"
  /\ opts.handoff
  /\ LET WouldStart == opts.source \/ opts.confirm
         hashes == ExpectedHashes
         ready == {h \in hashes : IsReady(h)}
         already == {h \in hashes : /\ IsPieceComplete(dst[h]) /\ IsSeeding(dst[h].state)
                                    /\ WouldStart
                                    /\ opts.source => h \notin announced}
         failures == hashes \ (ready \cup already)
     IN IF opts.dry \/ ~WouldStart
          THEN AfterHandoff(failures) /\ UNCHANGED expected
          ELSE /\ step' = "handing"
               /\ expected' = hashes
               /\ items' = ready
               /\ failed' = failures
               /\ UNCHANGED <<opts, order, present, run>>
  /\ UNCHANGED <<vars, clients, occupied>>

(* handoff_one: the source is stopped, then the destination started.  What     *)
(* fails may have had its effect.                                              *)
HandOne(h) ==
  /\ step = "handing"
  /\ h \in items
  /\ items' = items \ {h}
  /\ LET silenced == IF opts.source THEN announced \ {h} ELSE announced
         Started == announced' = silenced /\ dst' = [dst EXCEPT ![h] = AfterStart(@)]
     IN \/ /\ Started
           /\ run' = [run EXCEPT !.started = @ \cup {h}]
           /\ UNCHANGED <<failed, faults>>
        \/ /\ Fault
           /\ failed' = failed \cup {h}
           /\ Started \/ (announced' \in {announced, silenced} /\ UNCHANGED dst)
           /\ UNCHANGED run
  /\ UNCHANGED <<payload, savedAt, step, opts, order, expected, present, occupied>>

EndHandoff ==
  /\ step = "handing"
  /\ items = {}
  /\ AfterHandoff(failed)
  /\ UNCHANGED <<vars, clients, expected, occupied>>

------------------------------------------------------------------------------
KillMigrate ==
  /\ step # "none"
  /\ Over([run EXCEPT !.end = "killed"])
  /\ IF pc = "idle" THEN Fault /\ UNCHANGED payload ELSE Kill
  /\ UNCHANGED <<clients, expected, occupied>>

(* A hash ends: it proves the torrent if every file of it, wanted on the       *)
(* source or not, is whole where the client looks for it.                      *)
HashEnds(h) ==
  /\ IsChecking(dst[h].state)
  /\ dst' = [dst EXCEPT ![h] = AfterStop([@ EXCEPT !.complete = Holds(h, savedAt[h], Files)])]
  /\ UNCHANGED <<vars, savedAt, announced, migration, occupied>>

(* verify --recheck, between two migrations. *)
UserRechecks(h) ==
  /\ step = "none"
  /\ IsStopped(dst[h].state) /\ ~IsPieceComplete(dst[h])
  /\ dst' = [dst EXCEPT ![h] = Hashing]
  /\ UNCHANGED <<vars, savedAt, announced, migration, occupied>>

UserEdits == Edit /\ UNCHANGED <<clients, migration, occupied>>

MigrateStep ==
  \/ StepFails \/ RewriteRuns \/ TransferRuns
  \/ BeginImport \/ EndImport \/ VerifyRuns \/ EndWithout \/ BeginHandoff \/ EndHandoff
  \/ \E h \in Hashes : ImportOne(h) \/ HandOne(h)

MigrateNext ==
  \/ \E o \in Migrations : Migrate(o)
  \/ MigrateStep
  \/ KillMigrate
  \/ \E h \in Hashes : HashEnds(h) \/ UserRechecks(h)
  \/ UserEdits

MigrateSpec == MigrateInit /\ [][MigrateNext]_migrateVars

------------------------------------------------------------------------------
(* Types, and that the loops work on what they were given. *)
MigrateTypeOK ==
  /\ dst \in [Hashes -> Torrent]
  /\ announced \subseteq Hashes
  /\ step \in Steps \cup {"none", "importing", "handing"}
  /\ pc = "idle" \/ step \in {"rewrite", "transfer"}
  /\ step = "importing" => items \cap failed = {} /\ items \cup failed \subseteq Paired
  /\ step = "handing" =>
       /\ expected = items \cup failed \cup run.started
                       \cup {h \in expected : IsSeeding(dst[h].state)}
       /\ \A h \in items : IsReady(h)
  /\ run.started \subseteq expected

(* "migrate --handoff when verify is not all ready: stops at verify, dest is   *)
(* not started": while a run that had verify in it starts torrents, every one  *)
(* it was asked about is whole, not only those it is about to start.           *)
GateHolds ==
  step = "handing" /\ opts.from # "handoff" => \A h \in expected : IsPieceComplete(dst[h])

HandedAll ==
  /\ run.end = "complete" /\ opts.handoff /\ opts.source /\ ~opts.dry
  /\ opts.from \in {"rewrite", "transfer", "import"} /\ opts.limit = {}

(* A migration from the beginning to a handoff that ends without a halt has    *)
(* handed over all that is staged: the destination seeds it and the source is  *)
(* silent.                                                                     *)
CompleteMeansHandedOver ==
  HandedAll => \A h \in Paired : IsSeeding(dst[h].state) /\ h \notin announced

(* What the destination seeds it has, whole and at the place its client looks: *)
(* through edits of the library that move the root, later transfers, kills and *)
(* stale hashes.  Only another torrent whose files landed in that very         *)
(* directory can have spoilt it, and without edits only if a plan of the       *)
(* library has two roots for one destination.                                  *)
SeedersHoldTheirBytes ==
  \A h \in Hashes :
    IsSeeding(dst[h].state) =>
      \/ Holds(h, savedAt[h], Files)
      \/ /\ \E g \in Hashes \ {h} : <<Place(h, savedAt[h]), g>> \in occupied
         /\ edits = 0 => Converging(Rules) # {}

(* After such a migration, and unless the library was edited, the client has   *)
(* each torrent where staging says.                                            *)
SavedAsStaged == HandedAll /\ edits = 0 => \A h \in Paired : savedAt[h] = staging[h].path

(* The client's save paths are true: both of the above.                        *)
SavedWhereItLies == SeedersHoldTheirBytes /\ SavedAsStaged

(* "Per-torrent failures halt later steps and are reported as Report::halted"  *)
(* (crates/migrate, run)                                                       *)
FailuresHalt == run.end = "complete" => run.unwritten = {}
==============================================================================
