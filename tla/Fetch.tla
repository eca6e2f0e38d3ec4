--------------------------------- MODULE Fetch ---------------------------------
(***************************************************************************)
(* tsync fetch (crates/fetch): copies the files of staged torrents from    *)
(* the machine of a client that goes on downloading and seeding them, and  *)
(* asks that client which of them are complete.                            *)
(***************************************************************************)
EXTENDS Integers, Sequences, FiniteSets, SequencesExt

CONSTANTS
  Hashes,       \* torrents in the staging directory
  Items,        \* per torrent, what its pair says
  SaveRoot,     \* --save-root, to which --from corresponds
  Partials,     \* --partial
  TorrentCaps,  \* --max-torrents: sets of at most one number
  Remotes,      \* what the remote may have at the beginning
  MaxFaults     \* bound: failing calls and copies, kills, removals and losses

(* A name is a sequence of letters, a path a sequence of names. *)
Names == Seq(STRING)
Item == [readable : BOOLEAN, save_path : Seq(Names), name : Names, multi_file : BOOLEAN,
         files : Seq([path : Seq(Names), length : Nat])]

FilesOf(h) == DOMAIN Items[h].files

Progress == {"none", "part", "all"}
Torrent(h) ==
  [held : BOOLEAN, wanted : [FilesOf(h) -> BOOLEAN], has : [FilesOf(h) -> Progress]]

ASSUME FetchAssumption ==
  /\ IsFiniteSet(Hashes)
  /\ Items \in [Hashes -> Item]
  /\ SaveRoot \in Seq(Names)
  /\ Partials \subseteq {"skip", "complete-files", "all"}
  /\ \A cap \in TorrentCaps : cap \subseteq Nat /\ \A m, n \in cap : m = n
  /\ \A r \in Remotes : DOMAIN r = Hashes /\ \A h \in Hashes : r[h] \in Torrent(h)
  /\ MaxFaults \in Nat

VARIABLES
  remote,  \* per torrent, whether the client holds it, wants and has each file
  lost,    \* files gone from the remote's disk; its client does not know
  local,   \* what has arrived of each file
  pc,      \* the next step of the running command
  opts,
  listed,  \* what the client listed when the command began
  todo,    \* torrents it has not reached
  files,   \* files of the first of them that it is about to copy
  report,
  faults

command == <<opts, listed, report>>
vars == <<remote, lost, local, pc, command, todo, files, faults>>

TotalLength(h) == FoldLeft(LAMBDA sum, file : sum + file.length, 0, Items[h].files)

\* Mutant of IsPieceComplete: files nobody wants are waited for.
IsPieceCompleteAll(t) == \A i \in DOMAIN t.has : t.has[i] = "all"
IsPieceComplete(t) == \A i \in DOMAIN t.has : t.wanted[i] => t.has[i] = "all"

(* content_path *)
ContentPath(h, i) ==
  Append(Items[h].save_path, Items[h].name)
    \o (IF Items[h].multi_file THEN Items[h].files[i].path ELSE <<>>)

(* relative_posix, which is also how the client names the file. *)
RelativePosix(h, i) ==
  LET Below(path) == FlattenSeq([k \in DOMAIN path |-> <<"/">> \o path[k]])
  IN Items[h].name \o (IF Items[h].multi_file THEN Below(Items[h].files[i].path) ELSE <<>>)

(* file_complete compares the ends of names. *)
FileComplete(h, i) ==
  \E j \in FilesOf(h) : remote[h].has[j] = "all" /\ IsSuffix(RelativePosix(h, i), RelativePosix(h, j))

(* relatives: a file outside the save root is left out. *)
Relatives(h, wanted) == {i \in wanted : IsPrefix(SaveRoot, ContentPath(h, i))}

------------------------------------------------------------------------------
Idle(end) ==
  [end |-> end, taken |-> {}, fetched |-> {}, skipped |-> {}, failed |-> {}]

Init ==
  /\ remote \in Remotes
  /\ lost = {}
  /\ local = [h \in Hashes |-> [i \in FilesOf(h) |-> "none"]]
  /\ pc = "idle"
  /\ opts = [partial |-> "skip", dry_run |-> TRUE]
  /\ listed = [h \in Hashes |-> "absent"]
  /\ todo = <<>>
  /\ files = {}
  /\ report = Idle("none")
  /\ faults = 0

Fault == faults < MaxFaults /\ faults' = faults + 1

(* Pairs by size, those of one size in the order of the directory. *)
ReadStaging ==
  {order \in SetToSeqs({h \in Hashes : Items[h].readable}) :
     \A i, j \in DOMAIN order : i < j => TotalLength(order[i]) <= TotalLength(order[j])}

Truncate(order, cap) == SubSeq(order, 1, Min(cap \cup {Len(order)}))

List == [h \in Hashes |-> IF ~remote[h].held THEN "absent"
                          ELSE IF IsPieceComplete(remote[h]) THEN "complete" ELSE "partial"]

Begin(partial, dry_run, cap) ==
  /\ pc = "idle"
  /\ \E order \in ReadStaging : todo' = Truncate(order, cap)
  /\ opts' = [partial |-> partial, dry_run |-> dry_run]
  /\ listed' = List
  /\ report' = [Idle("running") EXCEPT !.taken = ToSet(todo')]
  /\ pc' = "select"
  /\ UNCHANGED <<remote, lost, local, files, faults>>

(* Staging that cannot be listed, or a client that does not answer. *)
BeginFails ==
  /\ pc = "idle"
  /\ Fault
  /\ report' = Idle("error")
  /\ UNCHANGED <<remote, lost, local, pc, opts, listed, todo, files>>

(* The loop goes on with the next torrent. *)
Count(outcome) ==
  /\ report' = [report EXCEPT ![outcome] = @ \cup {Head(todo)}]
  /\ todo' = Tail(todo)
  /\ pc' = "select"
  /\ files' = {}

Missing(h) == listed[h] = "absent" /\ Count("failed")

Skip(h) == listed[h] = "partial" /\ opts.partial = "skip" /\ Count("skipped")

(* Whether the client is asked for the files once more. *)
AsksForFiles(h) == listed[h] = "partial" /\ opts.partial = "complete-files"

\* Mutant of AskFails: the failure is noted, and everything copied.
AskFailsOn(h) ==
  /\ AsksForFiles(h)
  /\ report' = [report EXCEPT !.failed = @ \cup {h}]
  /\ files' = Relatives(h, FilesOf(h))
  /\ pc' = "copy"
  /\ UNCHANGED todo
  /\ IF remote[h].held THEN Fault ELSE UNCHANGED faults
AskFails(h) ==
  /\ AsksForFiles(h)
  /\ Count("failed")
  /\ IF remote[h].held THEN Fault ELSE UNCHANGED faults

Choose(h) ==
  /\ listed[h] # "absent"
  /\ listed[h] = "partial" => opts.partial # "skip"
  /\ AsksForFiles(h) => remote[h].held
  /\ LET wanted == IF AsksForFiles(h) THEN {i \in FilesOf(h) : FileComplete(h, i)} ELSE FilesOf(h)
         chosen == Relatives(h, wanted)
     IN CASE chosen = {} -> Count("failed")
          [] chosen # {} /\ opts.dry_run -> Count("fetched")
          [] OTHER -> files' = chosen /\ pc' = "copy" /\ UNCHANGED <<todo, report>>

(* select_files *)
Select ==
  /\ pc = "select"
  /\ todo # <<>>
  /\ LET h == Head(todo)
     IN \/ (Missing(h) \/ Skip(h) \/ Choose(h)) /\ UNCHANGED faults
        \/ AskFails(h)
  /\ UNCHANGED <<remote, lost, local, opts, listed>>

OnDisk(h, i) == IF <<h, i>> \in lost THEN "none" ELSE remote[h].has[i]

\* Mutant of CopyEnds: what has vanished is not missed.
CopyEndsAnyway(there) == Count("fetched")
(* rsync fails if a file it was told of is not there. *)
CopyEnds(there) == Count(IF there = files THEN "fetched" ELSE "failed")

(* copy_relatives: one rsync for one torrent.  It goes on without a file that *)
(* is not there; interrupted, it has sent any part, the last file cut short.  *)
Copy ==
  /\ pc = "copy"
  /\ LET h == Head(todo)
         there == {i \in files : OnDisk(h, i) # "none"}
         news == {i \in there : local[h][i] # "all"}
         Land(sent, cut) ==
           local' = [local EXCEPT ![h] = [i \in FilesOf(h) |->
                       IF i \in cut THEN "part" ELSE IF i \in sent THEN OnDisk(h, i) ELSE @[i]]]
     IN \/ Land(there, {}) /\ CopyEnds(there) /\ UNCHANGED faults
        \/ /\ Fault
           /\ Count("failed")
           /\ \E sent \in SUBSET news : \E cut \in {c \in SUBSET sent : Cardinality(c) <= 1} : Land(sent, cut)
  /\ UNCHANGED <<remote, lost, opts, listed>>

End ==
  /\ pc = "select"
  /\ todo = <<>>
  /\ pc' = "idle"
  /\ report' = [report EXCEPT !.end = IF report.failed = {} THEN "complete" ELSE "incomplete"]
  /\ UNCHANGED <<remote, lost, local, opts, listed, todo, files, faults>>

Kill ==
  /\ pc # "idle"
  /\ Fault
  /\ pc' = "idle"
  /\ todo' = <<>>
  /\ files' = {}
  /\ report' = [report EXCEPT !.end = "killed"]
  /\ UNCHANGED <<remote, lost, local, opts, listed>>

------------------------------------------------------------------------------
(* The remote meanwhile *)
Download(h, i) ==
  /\ remote[h].held /\ remote[h].wanted[i] /\ remote[h].has[i] # "all"
  /\ remote' = [remote EXCEPT ![h].has[i] = IF @ = "none" THEN "part" ELSE "all"]
  /\ UNCHANGED <<lost, local, pc, command, todo, files, faults>>

(* The user removes a torrent from the client and keeps its files. *)
Removes(h) ==
  /\ Fault
  /\ remote[h].held
  /\ remote' = [remote EXCEPT ![h].held = FALSE]
  /\ UNCHANGED <<lost, local, pc, command, todo, files>>

Lose(h, i) ==
  /\ Fault
  /\ OnDisk(h, i) = "all"
  /\ lost' = lost \cup {<<h, i>>}
  /\ UNCHANGED <<remote, local, pc, command, todo, files>>

RemoteStep ==
  \E h \in Hashes : Removes(h) \/ \E i \in FilesOf(h) : Download(h, i) \/ Lose(h, i)

Step == Select \/ Copy \/ End

Next ==
  \/ \E partial \in Partials, dry_run \in BOOLEAN, cap \in TorrentCaps : Begin(partial, dry_run, cap)
  \/ BeginFails \/ Step \/ Kill \/ RemoteStep

(* The process goes on, the client downloads, and a user who runs fetch over  *)
(* and over does so with the default options again and again.                 *)
Fairness ==
  /\ WF_vars(Step)
  /\ SF_vars(Begin("skip", FALSE, {}))
  /\ WF_vars(\E h \in Hashes : \E i \in FilesOf(h) : Download(h, i))

Spec == Init /\ [][Next]_vars /\ Fairness

------------------------------------------------------------------------------
(* Types, and the bookkeeping of a run: the torrents it took are those it has *)
(* counted once, in one of three ways, and those it has yet to reach.         *)
TypeOK ==
  /\ \A h \in Hashes :
       /\ remote[h] \in Torrent(h)
       /\ local[h] \in [FilesOf(h) -> Progress]
       /\ \A i \in FilesOf(h) : <<h, i>> \in lost => remote[h].has[i] = "all"
  /\ pc \in {"idle", "select", "copy"}
  /\ opts \in [partial : {"skip", "complete-files", "all"}, dry_run : BOOLEAN]
  /\ listed \in [Hashes -> {"absent", "partial", "complete"}]
  /\ pc = "copy" <=> files # {}
  /\ pc # "idle" =>
       /\ report.taken = ToSet(todo) \cup report.fetched \cup report.skipped \cup report.failed
       /\ Cardinality(report.taken) = Len(todo) + Cardinality(report.fetched)
                                        + Cardinality(report.skipped) + Cardinality(report.failed)
  /\ faults \in 0..MaxFaults

Wanted(h) == {i \in FilesOf(h) : remote[h].wanted[i]}
IsHere(h) == \A i \in Wanted(h) : local[h][i] = "all"

(* "Torrents whose wanted files were copied": of a torrent that is counted as *)
(* fetched and that the client listed as complete, every wanted file is here  *)
(* and whole, though the client was asked long before and files may be lost.  *)
FetchedIsWhole ==
  \A h \in report.fetched :
    listed[h] = "complete" /\ ~opts.dry_run /\ Relatives(h, FilesOf(h)) = FilesOf(h) => IsHere(h)

(* "Copy only files the remote reports as complete" *)
CopiesOnlyComplete ==
  pc = "copy" /\ AsksForFiles(Head(todo)) =>
    \A i \in files : remote[Head(todo)].has[i] = "all"

(* However often runs fail or are killed half way: the wanted files of every  *)
(* staged torrent below the save root are here in the end, unless the client  *)
(* was relieved of it or of its bytes.                                        *)
EventuallyFetched ==
  \A h \in Hashes :
    Items[h].readable /\ Relatives(h, FilesOf(h)) = FilesOf(h) =>
      <>(IsHere(h) \/ ~remote[h].held \/ \E i \in FilesOf(h) : <<h, i>> \in lost)
==============================================================================
