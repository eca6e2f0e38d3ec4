# tsync in TLA+

tsync moves a qBittorrent library to another machine in seven commands. Their
order, and what each does when a call fails half way, decide whether a torrent
is ever announced by both machines, by none, or downloaded again. These
modules model the commands, the sessions through which they reach the two
clients, the clients as the code expects them to behave, and their users; TLC
checks small instances and TLAPS proves the main results for all of them.

## The system

Paths are below `src/crates`.

| Part | State it keeps | Operations | What makes it correct |
|---|---|---|---|
| `qbt` | a session: cookie and endpoint names, fixed at login; the torrents and the limit live in the client | login, list, add_paused, stop, start, recheck, download_limit, set_download_limit, files | the state classes are disjoint; success means it was carried out, as asked; an error may hide a call that was |
| `rewrite` | the staging directory | audit, plan, write one `.torrent`/`.fastresume` pair per torrent | the originals stay untouched; a pair is whole or absent |
| `plan`, `core::pathmap` | none | derive rules, exclude, pack, take_smallest | every eligible torrent in exactly one batch; a path is mapped by whole components |
| `transfer` | files on the destination | audit and plan again, one rsync per rule | the bytes land where the staged save path says |
| `import` | none beyond the call sequence; limit guard | list, add paused, stop, recheck, stop | the torrent does not run, whenever its hash ends |
| `verify` | the set it kicked; the `--wait` loop | list, recheck, classify, repeat | success means whole and stopped; the loop ends |
| `handoff` | two listings, the candidates, limit guard | classify, stop source, list, start destination | one torrent is never seeded twice, and a gap can always be closed |
| `migrate` | the step it has reached | rewrite, transfer, import, verify, handoff | a later step only after a complete earlier one |
| `fetch` | files on this machine | select files, copy | only complete files, unless asked for all |
| `audit`, `core` (bencode, metainfo, resume) | none | scan, classify; decode, encode | decode then encode gives the same bytes |
| `cli` | the command that runs, its logins | check arguments, find `BT_backup`, log in, run, exit | a session ends with its command; nothing is called before the checks |
| `doctor` | none | three checks of the machine, each with a fix | what passes is what the other commands look for; the fix helps |
| `fixtures` | none | test data | |

The commands share no memory. They interact through the staging directory,
through the two clients, and through the destination's global download limit,
one cell that import and handoff both write. Each command is a sequence of
blocking calls. Between any two of them the clients hash, the source carries
out a stop it has accepted, the user clicks, files vanish, another terminal
runs another command, or the process dies. What it listed at the beginning
grows stale while it works. That is what the models are about; the complete
list of hazards, each at its line and with the properties that cover it or the
reason why none does, is in `PROJECT.json`.

## Modules

| Module | What it is |
|---|---|
| `QbtStates` | the client's state strings in the four classes of `qbt`, and what a stop and a start do to a torrent |
| `Custody` | the abstract promise of a handoff: each torrent's duty to announce lies with the source, with nobody, or with the destination, and never moves straight across |
| `Handoff` | `tsync handoff`, run again and again with any options, with both clients, their users and the file system |
| `HandoffProofs` | type correctness, no dual seeding, the refinement of `Custody`, what a complete run means, whom it silences, and the breaker over its starts |
| `Breaker` | read, set, guard and restore of the download limit by any number of runs, at the same time or not, and the user's own changes of it |
| `BreakerProofs` | what is left of the limit, and when a run is throttled |
| `DestClient` | the destination while torrents are added and hashed (external) |
| `Import` | `tsync import` over `DestClient` |
| `ImportProofs` | what import leaves behind, what a complete one means, and what may download |
| `Verify` | `tsync verify` with `--recheck` and `--wait` over `DestClient`, with imports repeated between its runs |
| `VerifyProofs` | what success and failure of verify mean |
| `PathMap` | `core::pathmap`: components, degenerate prefixes, rules, the longest match |
| `Plan` | `audit`'s verdict on a torrent and `plan`: eligibility, rules, batches, caps |
| `Payload` | `tsync rewrite` and `tsync transfer`, in any order and number, with the library, staging and the files on the destination |
| `PayloadProofs` | what the operators of `PathMap` and `Plan` compute; what every plan is; where the bytes of an unedited library land |
| `Migrate` | `tsync migrate` over `Payload`, with the readers of staging and the destination client |
| `MigrateProofs` | the gate before the handoff, the two loops, what a complete migration means, and that the destination has what it seeds |
| `Bencode` | the strict decoder and the encoder; the files, pieces, save path, priorities and bitfield read with them; and `rewrite_save_path`, on a file that is rewritten and damaged |
| `Fetch` | `tsync fetch` beside a remote client that downloads, forgets torrents and loses files |
| `FetchProofs` | what fetch counts, and what is here of it |
| `ClientCalls` | the abstract promise of one client behind the `Client` trait, which the other modules take for granted |
| `Session` | `qbt::Session` over HTTP: login, version, endpoint names, requests and replies, with servers of several versions that restart and upgrade |
| `CommandLine` | the subcommands over `Session`: their checks, logins and calls |
| `CommandLineProofs` | what a session knows, the refinement of `ClientCalls`, and what a clean `doctor` is worth to the other commands |
| `Doctor` | `tsync doctor` beside what `transfer`, `audit` and `cli` look for on the same machine |
| `MC...` | the instances for TLC |

`Payload` extends `Plan`, which extends `PathMap`; `Migrate` extends `Payload`
and adds the clients. `Import` and `Verify` share `DestClient`; `Handoff` and
`Migrate` share `QbtStates`; `Handoff` is checked against `Custody`.
`CommandLine` extends `Session`, which is checked against `ClientCalls`, once
for each server. `MCInputs` puts `Bencode` and `Doctor` side by side.

**Correspondence.** One action is one client call: `pc` names the call the
process makes next, and the action holds everything the code does up to the
following call. A mutating call has three outcomes: answered; refused, with
nothing changed; or applied with its reply lost. A read is answered or fails.
`Charge` counts what goes wrong, up to `MaxFaults`. `Kill` may replace any
step; it forgets what the process held, runs no destructor, and leaves both
clients as they are. `?` in the code is `Abort`; an error inside the
per-torrent loop is `FailCurrent`, and the loop goes on. The counters of a
`Report` are kept as the sets of hashes that were counted, which lets a
property relate the report to the clients. Snapshots (`seenDst`, `seenSrc`,
`seenDest`, `seen`) are variables of their own.

**Handoff.** `ListDest`, `ListSource` and `Classify` are the part before the
loop. `IsCandidate`, `IsAlready` and what is left over are the three answers
of `classify`. `Take`, `StopSource`, `RelistSource` and `StartDest` are one
turn of the loop. `SourceStopLands` takes effect any time after the stop was
accepted; the code comment "5.x can still report stalledUP for a beat" is
the reason for the relisting. A torrent is *silent* if its source is stopped,
broken or absent, or has accepted a stop and does not report a seeding state.

**Import.** `AddPaused`, `Stop`, `Recheck`, `StopAgain` are the four calls for
one torrent. `DestClient` leaves open whether a stop cancels a hash under way
and whether a torrent starts when its hash ends; the comments of the code say
that versions differ. Both are sets of answers, so that one run covers every
client. `tended` is a history variable: what the last run to take a torrent
up reported without a failure.

**Verify.** One pass is `List`, one `Kick` per hash, `Count`; `--wait` goes
back to `List`, with `kick` reset. `LateRecheck` is a client that answers a
recheck before a listing shows it; a recheck of one run can then begin after
the success of a later one. `ReadyMeansProven` does not excuse it: the torrent
may be hashed, and started, once more, but still has all its files. `ImportsAgain` is the three calls of
`finish_import` between two runs of verify; what verify said last is out of
date then, and is forgotten.

**Breaker.** `limit` is the one cell on the server, `wanted` what its user
last wished. The histories `overlapped` and `meddled` run from one idle moment
at which the user sets the limit to the next; the properties name them, so
that nothing is excluded from the model.

**Paths and plans.** A path is the sequence of the segments between its
separators, empty ones and the leading one included, so that `Components`,
the only place where the code looks inside a path, has something to drop.
What may be a segment is the constant `Segments`. `Components`, `Bytes` and
`Pack` are recursive functions of a position, like the loops they stand for;
`Put` is one turn of the loop of `pack`. What an audit lists is a set, since
its order is that of the hashes, and the stable sort by size is the order by
size and hash (`IsBefore`). An
optional number (`--max-bytes`, `--max-torrents`) is a set of at most one
number. What `stat` says of a file is one of `whole`, `short` (any wrong
length), `absent`, `denied`.

**Rewrite and transfer.** `BeginRewrite` and `BeginTransfer` are everything up
to the first loop: the audit, the plan, the caps. `WriteOne`, `Collect` and
`Copy` are one turn of a loop. A failed write leaves any of the states that
`fs::copy` and `fs::write` can leave; a failed rsync leaves any part of the
files it was to copy, the last one cut short. `landed` is the content of the
destination by the path below `--to`, and remembers from which torrent each
file came. `done` and `failed` are the counters of the two reports as sets.

`torrent` and `resume` of a library say whether the two files of `BT_backup`
are good, cannot be read or parsed, or are not there. `Inspect` is what the
audit knows then; `WriteOne` and `Collect` read the files again, and find what
an `Edit` left.

**Migrate.** `RewriteRuns` and `TransferRuns` embed the actions of `Payload`
unchanged. Import and handoff are taken a torrent at a time (`ImportOne`,
`HandOne`) and verify as one listing; what happens between their calls is the
subject of `Import`, `Handoff` and `Verify`. `StagedItems` and
`ExpectedHashes` are the two readers of staging: import wants both files of a
pair and breaks ties by hash, verify and handoff want the `.torrent` and break
ties by the order of the directory. `HashEnds` is the only way by which a
torrent becomes complete, and does so only if every file has landed below the
save path the client was given. `occupied` is a history: every directory in which files have ever
landed, with the torrent they are of. `run.started` holds what was really started;
a dry run's report counts what it would start.

**Bencode.** Bytes are numbers and a parser returns the set of its results, so
that a refusal is the empty set. `file` is what is on the disk, `meant` what
was to be read from it; `RewritePaths` applies the code to the one and the
intention to the other, and `Damage` changes the first alone. Strictness is
what the properties are about: one spelling per value, which is why an
infohash can be computed from an encoded value, and no accepted file that is
the beginning of another. A bitfield is written by `Bitfield`, as libtorrent lays
it out, and read by `BitIsSet` and `ClaimsComplete`.

**Session and command line.** A `call` is a request with its reply; the server
handles it in `Serve`, and `Deliver` or `Lose` ends it. `known` says whether
the server knows the program's cookie: a restart forgets it. The guess of the
endpoint names is a step of its own after the login, since the server may be
replaced between the two requests and since its failure is swallowed.
`CommandLine` gives every subcommand its stages and the kinds of calls its
body makes; a body is any run of such calls, because their order is the
subject of the modules named after the commands. The process ends with
`Finish`, `Exit` or `Kill`, and its sessions with it. What a server does is
external; where versions differ (replies, fields, names), the model has the
differences that comments and tests of the code record.

**Doctor.** A machine is what a check can see: an rsync at each of five
places, `ssh`, the two directories, `HOME`. A check returns its status and
its fix; `FollowAdvice` does what a fix says.

**Fetch.** `Begin` reads staging and lists the remote; `Select` is
`select_files` for one torrent, with its call of `files`; `Copy` one rsync.
`listed` is the remote as it was at the beginning, `remote` what its client
has now, `lost` what its disk lacks. Names are sequences of letters, because
the code compares their ends.

## Runs

| Run | Question | Result |
|---|---|---|
| `handoff_safety` | every option record, every non-empty cap, two faults, lost files, a user who starts the source again between runs | `NoDualSeed`, `CompleteMeansHanded`, `SilencedOnlyWhenProven`, `ThrottledStart`, and `Custody` is implemented |
| `handoff_live` | three faults, the user runs it again and again | `EventuallyHanded` |
| `breaker_shared` | two runs and a user who write the limit whenever they like, four faults, three limits | `HeldMeansThrottled` unless another run or the user came between; `RestoredAfterwards`: the user's last limit, or the breaker for a named reason |
| `import_safety` | two torrents, every kind of client, faults | `TendedStayQuiet`, `CompleteMeansTended`, `DownloadsAreThrottled` |
| `verify_gate` | every destination, four option records, one fault or repeated import, clients that recheck at once or late | `ReadyMeansProven`, `FailsForAReason`, `WaitEnds`, `EventuallyProven` |
| `payload_safety` | 29 pairs of prefixes, 7 triples of sizes around budget and cap, every content of a torrent of two files, every state of the two files in `BT_backup`; rewrite and transfer repeated, capped, dry; one fault, kill or edit | `PlanIsSound` (every torrent accounted for, batches keep to the budget), `CapTakesTheSmallest`, `NoSilentCollision`, `LandsWhereStaged`, `RerunIsSafe` |
| `migrate_safety` | eight option records, two libraries, listings in either order, clients that do or do not cancel a hash; one fault, kill or edit | `GateHolds`, `CompleteMeansHandedOver`, `SavedWhereItLies` |
| `migrate_rewrite` | do failures of rewrite halt the migration? | no: its report is not looked at |
| `inputs` | files (integers at the ends of their range, strings that look like other values, nested and empty values, some of the path keys, torrents of one file and of several, downloads of 1, 7, 8 and 9 pieces), rewritten any number of times, with any one byte changed, lost or added; and every machine, with the advice of doctor followed | `AcceptedIsCanonical`, `ReadsAsMeant`, `TornIsRefused`; `PreflightSuffices`, `AdviceWorks` |
| `fetch_safety` | every `--partial`, dry or not, with and without a cap; one failing call, kill, removal or loss; a remote that downloads meanwhile | `FetchedIsWhole`, `EventuallyFetched` |
| `fetch_suffix` | does `--partial complete-files` copy complete files only? | no: `x/a` passes for complete if `x/x/a` is |
| `command_line` | seven subcommands one after the other, two servers of three versions, two lost messages, restarts, upgrades or kills | `LiveSessionSpeaks`, `ClientCalls` is implemented for each server (`ImplementsClient`), `StopsInTheEnd` |

The two runs that find a violation each check one sentence of the
repository against the code; `PROJECT.json` quotes it. `fetch_suffix` needs
nothing but a torrent with such names, `migrate_rewrite` one failing write.
More sentences of the repository are not true of the models, though no run is
spent on them:

* "Destination layout follows the rewritten save paths."
  (`crates/transfer/src/lib.rs:3-4`): transfer derives rules of its own from a
  second audit. If the user adds a torrent after rewrite that shortens the
  common prefix, the transfer is complete and the bytes are not below the
  staged path (`LayoutFollowsStaging`, without the `edits = 0` of
  `LandsWhereStaged`).
* "only after the source is silent for that infohash"
  (`crates/handoff/src/lib.rs:3-5`): a source that was listed as stopped is
  not looked at again, and may have been started by its user since
  (`Interference` with `"startSource"`; then `NoDualSeed` is violated).
* "applied for the duration of the run and restored afterwards"
  (`crates/import/src/lib.rs:4-5`): with two runs at a time the second takes
  the first one's breaker for the user's limit and restores that, without any
  fault. `RestoredAfterwards` lists the three ways in which the breaker stays
  behind, and says that nothing else does.
* "Blocks the operations that depend on this check." and "The concrete action
  that resolves the finding." (`crates/doctor/src/outcome.rs`): no operation
  asks doctor, and transfer may find another rsync than the one that failed;
  on macOS without any rsync on `PATH`, `brew install rsync` resolves nothing
  if brew's directory is not on it either (`Advisable`).
* "halted before a later step; dest was not started"
  (`crates/migrate/src/lib.rs:132`): a handoff that fails with its second
  torrent has started the first.
* `Report::failed` of handoff says that its torrents were not started
  (`crates/handoff/src/lib.rs:72`), which a start with a lost reply
  contradicts.
* The head of `crates/import/src/lib.rs` says that a run is refused if the
  source seeds what it adds, while the code, the test and the repository's
  README refuse it only if both seed it.
* "Torrents whose wanted files were copied" (`crates/fetch/src/lib.rs:90`):
  fetch asks rsync for the files nobody wants, too, and counts the torrent as
  failed if they are not there, though the others have been copied.

**Bounds.** Torrents meet only in the shared limit, in the report and in the
order of the loop, so two of them show every interaction: one that fails
while the other goes on, one in hand while the other changes. One of each
class of states is enough, since the code looks at nothing else; the
exceptions (`missingFiles`, `error`) are there by themselves. `MaxFaults` is
two for the handoff, which allows a fault, a second run, and a fault in that
one; the commands may be run any number of times. Caps leave a torrent out, or
none. The limit takes the value zero (unlimited), which is what the breaker
must not be.

`payload_safety` bounds the library by shape, not by number: two torrents are
enough for a prefix to be shared, degenerate, nested or split, three for an
order of sizes with a cap in the middle. Pairs of files in `BT_backup` vary in
libraries of their own, which have a torrent beside them that is in order.
Two torrents with one save path and one name are left out: they are one
directory already on the source (`DistinctPlaces`). The sums of the sizes lie
on both sides of the budget and the cap, 3, and on it. `migrate_safety` has
two torrents, so that one can fail, be capped away or halt the other; in one
of its two libraries their roots converge. Both have `MaxFaults` = 1, shared by failing
calls, kills and edits, while commands and migrations repeat without bound; so
every run is followed by others without a fault.

In `inputs` an `i64` ends at 12 and a file nests five levels, so that
both ends and one beyond are one damaged byte away from what is written;
`MaxDamage` is one byte, which is enough for every rule of the decoder to be
the only one that is broken. Keys have one letter, in the order of the real
ones. Pieces number one, and one less, as many and one more than a byte holds.
`command_line` has one torrent on two servers, the names of three versions on
either side of both changes, and two faults: one to spoil a login or a call,
one in the attempt after it. `transfer` and `rewrite` check and call what
`plan` does and are left to it. `fetch_safety` has a torrent of two files (one's name is the end of the
other's, or one is not wanted), a torrent of the same size, one outside the
save root and one whose pair cannot be read; `MaxFaults` is one.

**Fairness.** `handoff_live` assumes that a process that was begun goes on
(it is sequential and its calls return), that the user runs it again, and
that a client gets round to a stop it accepted and to the end of a recheck.
Faults are bounded, so from some point on nothing fails; nobody undoes the
work. `WaitEnds` assumes that the process goes on and that every hash pass
ends. `EventuallyFetched` assumes that the process goes on, that the remote
downloads, and that a user who runs fetch again and again with various options
does so infinitely often with the default ones; this is the only strong
fairness, as other runs come between. `EventuallyProven`
assumes a user who starts `verify --recheck` again and again for the torrent
(a premise of the property, not a fairness), that the process goes on, and
that rechecks begin and end. In `command_line` a process goes on and a server
that is up answers; a body comes to an end (strong fairness of `Finish`, since
it can go on with a call instead), which the code justifies by having no loop
but that of `verify --wait`. `StopsInTheEnd` has the repeated stop as its
premise. `AdviceWorks` assumes a user who follows the advice. None for faults
or users' other doings.

## Proofs

Every theorem holds for every value of the constants that the assumptions of
the modules allow. These type the constants and say no more than the program
does of its inputs; a few go further. `CommandLine` has the two servers the
program has. A version has at least two numbers, the ones the program looks
at (`SessionAssumption`). An optional number is a set of at most one
(`FetchAssumption`). Each component has its type theorem, which the others
use, and an inductive invariant, which TLC checked on the component's run
before it was proved. What the invariants have in common: a property speaks
of the end of a command and of the client, while what makes it true is in
what the command listed and remembers half way.

| Theorem | Property | What else it needs |
|---|---|---|
| `TypeCorrect`, `ImportTypes`, `VerifyTypes`, `CommandLineTypes`, `FetchTypes`, `PayloadTypes`, `MigrateTypes` | `TypeOK` of each (`MigrateTypeOK`) | |
| `HandoffNeverDualSeeds`, `HandoffImplementsCustody`, `HandoffCompleteMeansHanded` | `NoDualSeed`, `ImplementsCustody`, `CompleteMeansHanded` | `"startSource" \notin Interference` |
| `HandoffSilencesOnlyTheProven`, `HandoffStartsThrottled` | `SilencedOnlyWhenProven`, `ThrottledStart` | |
| `BreakerHolds`, `BreakerRestores` | `HeldMeansThrottled`, `RestoredAfterwards` | no user wants one byte per second |
| `ImportLeavesThemQuiet`, `ImportCompleteMeansTended`, `ImportDownloadsAreThrottled` | `TendedStayQuiet`, `CompleteMeansTended`, `DownloadsAreThrottled` | |
| `VerifySuccessIsProof`, `VerifyFailsForAReason` | `ReadyMeansProven`, `FailsForAReason` | |
| `SessionNamesFit`, `CallsKeepTheirPromise` | `LiveSessionSpeaks`, `ImplementsClient` | |
| `FetchCountsOnlyWhatIsHere` | `FetchedIsWhole` | |
| `PayloadPlans` | (every plan is one that `build` and a cap make of what was listed) | |
| `PayloadSound`, `PayloadCap`, `PayloadCollides` | `PlanIsSound`, `CapTakesTheSmallest`, `NoSilentCollision` | |
| `PayloadLayout`, `PayloadRerun` | `LandsWhereStaged`, `RerunIsSafe` | `DistinctPlaces` |
| `MigrateGate`, `MigrateHandsOver` | `GateHolds`, `CompleteMeansHandedOver` | |
| `MigrateSaves` | `SavedWhereItLies` | `DistinctPlaces` |
| `DoctorLooksAhead` | `PreflightSuffices` | |

`DistinctPlaces` says of the libraries the commands may begin with that no two
of their torrents lie in one directory under one name. Nothing in the code
keeps a user from having two such torrents, and nothing in it can tell their
files apart: on the source already the one overwrites the other's. The modules
for TLC state it as an assumption (`LibrariesAreDistinct`), so that the runs
and the theorems are about the same libraries.

**Handoff.** `TypeOK` is inductive as it stands. `NoDualSeed` is not: nothing
in it says why the source of the torrent about to be started is silent. Three
parts of `CustodyInv` say so, one for each way to get there: what the listing
showed stopped or absent is silent (`SnapshotHolds`), the user's word is true
(`WordHolds`), and a stop was accepted before the listing that no longer shows
it seeding (`StopAccepted`). All rest on `SilenceStable`: no step ends the
silence of a source while a run is under way. `DestStartsOnce` is the other
half: a destination torrent begins to run only in `StartDest`. For the
refinement, a step concerns one torrent at most and moves its duty as
`Custody` allows.

The assumption that nobody starts a torrent on the source during a run is
needed: without it TLC finds both clients seeding.

`HandInv` is about the destination and needs no such assumption. What the
first listing showed whole and stopped still is, or has lost its files; what
it showed seeding still runs, or has lost its files (`ListedHolds`). So the
torrents that the loop has left hold their bytes (`LeftIsHeld`), which is why
a source is silenced only for one that does, and those it is done with run
(`DoneIsHanded`), until the run is over (`EndedIsHanded`). That no client and
no call takes this back is one case analysis, `DestMoves`. `UnderBreaker`
keeps the limit at the breaker from `setLimit` to the end of the loop.
`CompleteMeansHanded` is `EndedIsHanded` for the destination and `CustodyInv`
for the source: what runs there is silent here.

**Breaker.** Neither property is inductive: both are about `limit`, while the
values come from what each run remembers. `TurnsInv` says of runs that have
not overlapped that there is one at a time and that what it read is the user's
limit, or the breaker after a fault; `NoThirdValue`, of runs that have, that
every value which is there or will be put back is the user's (his last, if he
kept out) or the breaker.

**Import.** `TendedStayQuiet` must hold while other torrents are added and
hashed and in every later run, whose calls may fail half way. `ImportInv` adds
what the loop relies on: what was listed is there (`ListedStays`), the torrent
in hand is there once it was added and does not count as tended
(`ItemIsThere`, `ItemIsOpen`), everything dealt with is tended unless some
call failed (`DoneIsTended`), and, with no call failed, nothing but the
torrent in hand can be about to start, and only where the next call is a stop
(`OnlyItemStarts`). Together with the breaker (`UnderBreaker`) the last one is
the throttling of downloads. The four calls are one lemma each about one
torrent of the client.

**Verify.** Success is decided on a listing that is old by the time the
rechecks are through. `VerifyInv` says what is left of it: a torrent that the
listing showed neither hashing nor downloading is as it was, unless this pass
has kicked it, and one that downloads still runs (`SeenStays`); and where a
recheck is shown at once none is outstanding (`NothingToCome`). Where rechecks
may be taken up late, one of an earlier run can begin in a torrent that was
just listed as complete; then `SeenProven` holds on to what no step of anyone
undoes: it has its files and is stopped, hashed or seeding (`ProvenStays`).
With `CompleteIsWhole` (a complete torrent has its files) that is
`ReadyMeansProven`. For `FailsForAReason`, `HashedSoFar` says that
`--recheck` leaves no torrent stopped and incomplete that has its files, but
those still to be kicked. The property lets a verify fail over a torrent the
client calls `moving` or `unknown`, too, which is what `classify` does.

**Sessions and command line.** `SessionInv` ties a call to its session: a
reply that will be taken for success belongs to a request that was carried out
(`SuccessIsDone`), and no call has a result before its end (`AskedAfresh`).
Each step of `CommandLine` is then a step of `ClientCalls` on one server and
a stutter on the other. `LiveSessionSpeaks` is inductive with the types,
because an upgrade forgets the cookie with which the names go.

**Fetch.** `FetchInv` has the books (`Queue`, `CountedOnce`, `Tally`: every
torrent taken is in one list or still to come) and the world: what is here is
complete at the client (`LocalBehind`), a torrent that was listed as complete
has every wanted file there (`ListedHolds`), and the files in hand of such a
torrent are all of those that lie below the save root (`InHand`). An rsync
that succeeds has copied them, and no later copy, loss or download takes that
back.

**Plans.** A plan is made by splitting, sorting, folding and flattening, that
is, by recursive functions, and the theorems of induction take an operator,
which the provers cannot instantiate. `PayloadProofs` goes another way. A set
of numbers with a member has a least one (`LeastNumber`): otherwise no number
would be in it, which the sizes of the intervals `0..n` show by the pigeonhole
principle, from the library's facts about finite sets. So a set that has 0 and
with each number the next one is the whole interval (`UpTo`). From this follow
that a recursive definition over an interval has a function that satisfies it
(`Recursion`), and, each by the set of the positions up to which it holds,
what `Components` returns, that `Bytes` adds up, that `FlattenSeq` concatenates
and that `Pack` closes a batch only when it has to (`Fills`).

With these, `MadeOf` says what a plan is without saying how it is made: its
batches, one after the other, are the beginning of the planned torrents in the
order of their sizes; they fill the budget; the excluded are the others; and
if anything was put off, one torrent more would have exceeded a cap.
`PlanIsSound`, `CapTakesTheSmallest` and `NoSilentCollision` are consequences
of it. For the last one it is needed that the longest matching rule is unique
and a prefix of the path: two paths that differ and come out the same went
through two rules with one destination.

**Rewrite and transfer.** `CommandInv` is `MadeOf` of the plan at hand, the
types, and the account: what the loop has not reached, what is grouped and what
is done or failed are disjoint and, together, the torrents of the plan
(`Worked`). It is inductive, and is all that the theorems without a hypothesis
need.

`LandsWhereStaged` relates two commands with a plan each, of which the first
may have been capped, killed or repeated with another budget. What they have
in common are the rules: they depend on the library alone (`Rules`), not on
budget, cap or faults. So as long as there are no edits (`Unedited`) every
staged path, every landed file and every file in a group is where these rules
put its torrent (`StagedByRules`, `LandedByRules`, `GroupedByRules`), and a
torrent that transfer reports as done has arrived there unless rules converge
(`DoneArrived`). What could take a file away is another torrent's copy to the
same directory. Without converging rules the directory and the name lead back
to the path on the source, and by `DistinctPlaces` to one torrent
(`SpotsApart`). This is `RerunIsSafe`, too.

**Migrate.** `GateHolds` speaks of the handoff alone, while what makes it
true happens before. `GateInv` adds `ReadyBeforeHandoff`: from the moment
verify has let a run pass, every torrent that handoff will expect is ready.
That rests on the two commands reading the same hashes (`SameExpected`):
between them nothing writes staging, and neither the order of the directory,
nor the cap, nor a size changes, whatever the user edits (`EditKeepsSizes`).
Hashes end only in torrents that are being checked, which none of these is
(`HashingKeepsGate`), and a start leaves the others as they are
(`HandingKeepsGate`).

`LoopInv` follows import and handoff through their loops: an item is still to
come, failed, started, or was seeding before (`Handing`); what the handoff is
through with and did not fail seeds here and is silent there; and without a
cap the pairs that import took are among those that handoff expects. A run
has not ended before it is over, and has started nothing before its handoff
(`RunKept`). With the last item gone and none failed, that is
`CompleteMeansHandedOver`; `QuietlyKeepsLoops` shows that hashes, edits and
rechecks leave it so until the next command.

`MigrationInv` follows the save paths. It has `CommandInv` and `Unedited` of
the two commands inside the migration, which a migration keeps because each of
its steps is one of theirs, a fault of something else, or none
(`MigrateTakesSteps`). What the client has of a torrent changes in few ways
(`Touched`): it keeps its save path and becomes complete only if its files are
all there, or it is added, where staging says. So a complete torrent was whole
at its place when its hash ended. `CompleteHeld` says it still is or another
torrent has been there since, which `occupied` remembers (`Spoilt`): a copy
replaces a whole file of the same torrent by the same file, because a file on
the source only ever disappears (`WholeStay`). Without edits two torrents
occupy one place only if the rules converge (`OccupiedByRules`,
`SpotsApart`). `SavedByRules` is the other half: the client looks where the
rules of the library say, and so does staging.

**Doctor.** The rsync that doctor probes is the last of the five that transfer
tries, so one of them is found; and the two functions that know where
`BT_backup` is agree on every platform.

**Only model-checked.**

* Liveness, which the prover cannot do under fairness: `EventuallyHanded`,
  `WaitEnds`, `EventuallyProven`, `EventuallyFetched`, `StopsInTheEnd`,
  `AdviceWorks`.
* `AcceptedIsCanonical`, `ReadsAsMeant` and `TornIsRefused` of `Bencode`. Values
  nest, so its parser and its encoder are recursive in the value and in the
  place at once. The prover refuses such operators, and the argument would be
  by induction over a value, not over a number.
* `FailuresHalt` and `CopiesOnlyComplete`, which are not true.

## Plan

Done, in this order: `Handoff` with `Custody` and its proofs; `Breaker`;
`DestClient`, `Import`, `Verify`; `PathMap`, `Plan`, `Payload`; `Migrate` and
the proof of its gate; `Bencode`; `Fetch`; `ClientCalls`, `Session`,
`CommandLine`; `Doctor`; `Breaker` for runs that overlap, with its proofs; the
broken and unpaired files of `Payload`; the proofs of `Handoff` about its
destination, of `Import`, `Verify`, `CommandLine`, `Fetch` and of the loops of
`Migrate`; the operators of `PathMap` and `Plan`, the proofs of `Payload`, of
the save paths of `Migrate` and of `Doctor`. What is left:

1. `Bencode` with a value as a flat sequence of tokens, so that parsing is a
   function of a position and strictness can be proved as the packing of a
   plan was.
2. An edit between rewrite and transfer: how far the layout follows staging
   when the edit leaves the common prefix as it is.

## Not modelled

`fixtures`, a generator of test data. Of `audit`, `--data-root` and the
entries that listing a directory passes over; of `transfer`, remote targets,
which only change the command line of rsync, and `ssh mkdir`. In
`CommandLine`, the grammar of the arguments and what a command does between
two calls; an exit code is the end of the report in the module of the command.
Requests have no timeout in the code, so a server that never answers blocks a
command for ever: the models let every request end. A request that a server
carries out after the program was killed is in none of the models: `Kill` ends
it, carried out or not. A client that starts a torrent by itself after
verify's own recheck is one (`auto`) that import has not stopped; import's
second stop is what the code relies on. Saturating sums of sizes: 64 bits hold
any library. Of `qbt`, the encoding of requests and the fields of a listing.
Progress ticks, rendering, rates and bars. Names and sizes of torrents appear
only as what the properties tell apart. A user who starts a torrent in the
destination's WebUI is left out of the handoff and the import: the
repository's README says that tsync cannot prevent it.
