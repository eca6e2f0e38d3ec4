------------------------------- MODULE Payload -------------------------------
(***************************************************************************)
(* tsync rewrite and tsync transfer (crates/rewrite, crates/transfer): the *)
(* one writes the staging directory, the other copies the content, and     *)
(* each audits the library and derives its plan for itself.  Between and   *)
(* during them the user adds and removes torrents and files vanish.        *)
(***************************************************************************)
EXTENDS Plan

CONSTANTS
  Hashes,       \* infohashes, ordered as the directory listing orders them
  Files,        \* the files of a torrent
  Libraries,    \* what the source may hold at the beginning
  EditedPairs,  \* what may become of a .torrent and its .fastresume later
  Dest,         \* --to, as a path
  Budgets,      \* batch budgets
  ByteCaps,     \* --max-bytes: sets of at most one number
  TorrentCaps,  \* --max-torrents: likewise
  MaxFaults     \* bound: failing reads, writes and copies, kills, and edits

(* A .torrent or .fastresume in BT_backup: "broken" cannot be read or parsed. *)
FileState == {"good", "broken", "none"}

Entry == [torrent : FileState, resume : FileState, path : Seq(Segments), name : Segments,
          bytes : Nat, disk : [Files -> Observed], wanted : [Files -> BOOLEAN]]

ASSUME PayloadAssumption ==
  /\ Hashes \subseteq Nat /\ IsFiniteSet(Hashes)
  /\ IsFiniteSet(Files) /\ Files # {}
  /\ EditedPairs \subseteq FileState \X FileState
  /\ Dest \in Seq(Segments)
  /\ \A lib \in Libraries : lib \in [Hashes -> Entry]
  /\ Budgets \subseteq Nat
  /\ \A caps \in ByteCaps \cup TorrentCaps : caps \subseteq Nat /\ Cardinality(caps) <= 1
  /\ MaxFaults \in Nat

VARIABLES
  library,   \* the source: BT_backup and the files it speaks of
  staging,   \* per hash, the two files of its pair
  landed,    \* files below the destination: where, and whose bytes
  pc,        \* the next step of the running command
  manifest,  \* what its audit saw; of the last command once it has ended
  plan,      \* what it made of that
  todo,      \* planned torrents it has not reached
  groups,    \* transfer: what it will copy, one rsync each
  report,
  edits,     \* changes of the library
  faults     \* those, and whatever failed

command == <<manifest, plan, todo, groups, report>>
vars == <<library, staging, landed, pc, command, edits, faults>>

NoPair == [torrent |-> "none", resume |-> "none", path |-> <<>>]
NoPlan == [mapping |-> {}, batches |-> <<>>, excluded |-> {}, budget |-> 0]
NewReport(name) ==
  [of |-> name, end |-> "running", done |-> {}, failed |-> {}, deferred |-> 0, dry |-> FALSE]

Init ==
  /\ library \in Libraries
  /\ staging = [h \in Hashes |-> NoPair]
  /\ landed = {}
  /\ pc = "idle"
  /\ manifest = {}
  /\ plan = NoPlan
  /\ todo = <<>>
  /\ groups = <<>>
  /\ report = [NewReport("nothing") EXCEPT !.end = "none"]
  /\ edits = 0
  /\ faults = 0

------------------------------------------------------------------------------
Fault == faults < MaxFaults /\ faults' = faults + 1

(* inspect_pair: of a broken file nothing is known, not even the save path.   *)
Inspect(h) ==
  LET entry == library[h]
  IN IF entry.torrent = "good" /\ entry.resume = "good"
       THEN [id |-> h, path |-> entry.path, bytes |-> entry.bytes,
             class |-> Classify(entry.disk, entry.wanted)]
       ELSE [id |-> h, path |-> <<Empty>>, class |-> "unverifiable",
             bytes |-> IF entry.torrent = "good" THEN entry.bytes ELSE 0]

(* audit::run: a file without its other half is not listed. *)
Audit ==
  {Inspect(h) : h \in {h \in Hashes : library[h].torrent # "none" /\ library[h].resume # "none"}}

Ids(items) == {item.id : item \in ToSet(items)}

IsComplete(r) == r.dry \/ (r.failed = {} /\ r.done = Ids(Items(plan)))

End(result) == pc' = "idle" /\ report' = [report EXCEPT !.end = result]
Ended == IF IsComplete(report) THEN "complete" ELSE "incomplete"

(* The rules of a plan that is made now. *)
Rules == Derive(PathsForMap(Audit), Dest)

(* An audit that fails, or a plan that cannot be derived. *)
BeginFails(name) ==
  /\ pc = "idle"
  /\ \/ ~CanBuild(Audit, Dest) /\ UNCHANGED faults
     \/ Fault
  /\ report' = [NewReport(name) EXCEPT !.end = "error"]
  /\ manifest' = {}
  /\ plan' = NoPlan
  /\ UNCHANGED <<library, staging, landed, pc, todo, groups, edits>>

------------------------------------------------------------------------------
(* rewrite::run up to its loop *)
BeginRewrite(budget) ==
  /\ pc = "idle"
  /\ CanBuild(Audit, Dest)
  /\ manifest' = Audit
  /\ plan' = Build(Audit, Dest, budget)
  /\ todo' = Items(plan')
  /\ report' = NewReport("rewrite")
  /\ pc' = "write"
  /\ UNCHANGED <<library, staging, landed, groups, edits, faults>>

(* rewrite_save_path: of the resume only the path keys change. *)
Rewritten(item) ==
  [torrent |-> IF library[item.id].torrent = "good" THEN "good" ELSE "torn",
   resume |-> "good", path |-> Apply(plan.mapping, item.path)]

(* write_one: the resume is read and parsed, the torrent copied as it is, the *)
(* resume written.  A write that fails can leave a torn file, and the resume  *)
(* of an earlier rewrite stays beside the new torrent.                        *)
WriteOne ==
  /\ pc = "write"
  /\ todo # <<>>
  /\ todo' = Tail(todo)
  /\ LET h == Head(todo).id
         fail == report' = [report EXCEPT !.failed = @ \cup {h}]
         IsThere == library[h].resume = "good" /\ library[h].torrent # "none"
     IN \/ /\ IsThere
           /\ staging' = [staging EXCEPT ![h] = Rewritten(Head(todo))]
           /\ report' = [report EXCEPT !.done = @ \cup {h}]
           /\ UNCHANGED faults
        \/ /\ ~IsThere
           /\ fail
           /\ UNCHANGED <<staging, faults>>
        \/ /\ Fault
           /\ fail
           /\ staging' \in {staging,
                            [staging EXCEPT ![h].torrent = "torn"],
                            [staging EXCEPT ![h].torrent = "good"],
                            [staging EXCEPT ![h].torrent = "good", ![h].resume = "torn"]}
  /\ UNCHANGED <<library, landed, pc, manifest, plan, groups, edits>>

EndRewrite ==
  /\ pc = "write"
  /\ todo = <<>>
  /\ End(Ended)
  /\ UNCHANGED <<library, staging, landed, manifest, plan, todo, groups, edits, faults>>

------------------------------------------------------------------------------
(* transfer::run up to copy_plan *)
BeginTransfer(budget, maxBytes, maxTorrents, dry) ==
  /\ pc = "idle"
  /\ CanBuild(Audit, Dest)
  /\ manifest' = Audit
  /\ LET full == Build(Audit, Dest, budget)
     IN /\ plan' = TakeSmallest(full, maxBytes, maxTorrents)
        /\ report' = [NewReport("transfer") EXCEPT
                        !.deferred = Len(Items(full)) - Len(Items(plan')),
                        !.dry = dry,
                        !.end = IF dry THEN "complete" ELSE "running"]
        /\ pc' = IF dry THEN "idle" ELSE "collect"
        /\ todo' = IF dry THEN <<>> ELSE Items(plan')
  /\ UNCHANGED <<library, staging, landed, groups, edits, faults>>

(* content_path, as far as the file is still there. *)
Exists(h, path, f) == library[h].path = path /\ library[h].disk[f] \in {"whole", "short"}

\* Mutant of Relatives: the torrent's own directory is left out.
RelativesFlat(item, rule) ==
  {[at |-> Below(rule, item.path), file |-> f, from |-> item.id] :
      f \in {f \in Files : Exists(item.id, item.path, f)}}
(* collect_relatives: the files that exist, by their path below the rule. *)
Relatives(item, rule) ==
  {[at |-> Below(rule, item.path) \o <<library[item.id].name>>, file |-> f, from |-> item.id] :
      f \in {f \in Files : Exists(item.id, item.path, f)}}

\* Mutant of AddToGroup: the torrents that are in the group are forgotten.
AddToGroupAnew(root, h, files) ==
  Append(SelectSeq(groups, LAMBDA group : group.root # root),
         [root |-> root, files |-> files, torrents |-> {h}])
(* Torrents below the same root share one rsync. *)
AddToGroup(root, h, files) ==
  IF \E i \in DOMAIN groups : groups[i].root = root
    THEN [i \in DOMAIN groups |->
            IF groups[i].root = root
              THEN [groups[i] EXCEPT !.files = @ \cup files, !.torrents = @ \cup {h}]
              ELSE groups[i]]
    ELSE Append(groups, [root |-> root, files |-> files, torrents |-> {h}])

(* One torrent of copy_plan's first loop.  A relative save path is not below  *)
(* any root, which is an absolute path.                                       *)
Collect ==
  /\ pc = "collect"
  /\ todo # <<>>
  /\ todo' = Tail(todo)
  /\ LET item == Head(todo)
         rule == RuleFor(plan.mapping, item.path)
         files == Relatives(item, rule)
         IsUsable == library[item.id].torrent = "good" /\ files # {} /\ IsAbsolute(item.path)
     IN \/ /\ IsUsable
           /\ groups' = AddToGroup(rule.from, item.id, files)
           /\ UNCHANGED <<report, faults>>
        \/ /\ IF IsUsable THEN Fault ELSE UNCHANGED faults
           /\ report' = [report EXCEPT !.failed = @ \cup {item.id}]
           /\ UNCHANGED groups
  /\ UNCHANGED <<library, staging, landed, pc, manifest, plan, edits>>

\* Mutant of Land: rsync deletes what it was not told of.
LandAlone(files) == landed' = files
(* rsync writes over what is there, unless it is the same file already. *)
Land(files) ==
  landed' = {l \in landed : \A new \in files : <<l.at, l.file>> # <<new.at, new.file>>} \cup files

(* One rsync of its second loop.  It fails if a file it was told of has gone, *)
(* and goes on with the others; interrupted, it leaves any part of the files, *)
(* the last one cut short.                                                    *)
Copy ==
  /\ pc = "collect"
  /\ todo = <<>>
  /\ groups # <<>>
  /\ groups' = Tail(groups)
  /\ LET group == Head(groups)
         there == {file \in group.files : library[file.from].disk[file.file] \in {"whole", "short"}}
         Landing(file, cut) ==
           [at |-> file.at, file |-> file.file, from |-> file.from,
            whole |-> ~cut /\ library[file.from].disk[file.file] = "whole"]
         news == {file \in there : Landing(file, FALSE) \notin landed}
         fail == report' = [report EXCEPT !.failed = @ \cup group.torrents]
     IN \/ /\ Land({Landing(file, FALSE) : file \in there})
           /\ IF there = group.files
                THEN report' = [report EXCEPT !.done = @ \cup group.torrents]
                ELSE fail
           /\ UNCHANGED faults
        \/ /\ Fault
           /\ fail
           /\ \E sent \in SUBSET news : \E cut \in {c \in SUBSET sent : Cardinality(c) <= 1} :
                Land({Landing(file, file \in cut) : file \in sent})
  /\ UNCHANGED <<library, staging, pc, manifest, plan, todo, edits>>

EndTransfer ==
  /\ pc = "collect"
  /\ todo = <<>>
  /\ groups = <<>>
  /\ End(Ended)
  /\ UNCHANGED <<library, staging, landed, manifest, plan, todo, groups, edits, faults>>

Kill ==
  /\ pc # "idle"
  /\ Fault
  /\ End("killed")
  /\ todo' = <<>>
  /\ groups' = <<>>
  /\ UNCHANGED <<library, staging, landed, manifest, plan, edits>>

------------------------------------------------------------------------------
(* The client's files of a torrent are removed, added or damaged, together or *)
(* one alone; or a file of the content goes.                                  *)
Edit ==
  /\ Fault
  /\ edits' = edits + 1
  /\ \E h \in Hashes :
       \/ \E pair \in EditedPairs :
            library' = [library EXCEPT ![h] = [@ EXCEPT !.torrent = pair[1], !.resume = pair[2]]]
       \/ \E f \in Files : /\ library[h].disk[f] = "whole"
                           /\ library' = [library EXCEPT ![h].disk = [@ EXCEPT ![f] = "absent"]]
  /\ UNCHANGED <<staging, landed, pc, command>>

RewriteStep == WriteOne \/ EndRewrite
TransferStep == Collect \/ Copy \/ EndTransfer

Begin ==
  \/ \E name \in {"rewrite", "transfer"} : BeginFails(name)
  \/ \E budget \in Budgets : BeginRewrite(budget)
  \/ \E budget \in Budgets, maxBytes \in ByteCaps, maxTorrents \in TorrentCaps, dry \in BOOLEAN :
       BeginTransfer(budget, maxBytes, maxTorrents, dry)

Next == Begin \/ RewriteStep \/ TransferStep \/ Kill \/ Edit

Spec == Init /\ [][Next]_vars

------------------------------------------------------------------------------
Pair == [torrent : {"none", "torn", "good"}, resume : {"none", "torn", "good"}, path : Seq(Segments)]

(* Types, and the bookkeeping of a command: what it has dealt with, what it   *)
(* has grouped and what it has yet to reach are parts of its plan.            *)
TypeOK ==
  /\ library \in [Hashes -> Entry]
  /\ staging \in [Hashes -> Pair]
  /\ \A l \in landed : l.from \in Hashes /\ l.file \in Files /\ l.whole \in BOOLEAN
  /\ pc \in {"idle", "write", "collect"}
  /\ report.done \cap report.failed = {}
  /\ LET grouped == UNION {group.torrents : group \in ToSet(groups)}
     IN /\ grouped \cap (report.done \cup report.failed) = {}
        /\ pc # "idle" =>
             Ids(Items(plan)) = Ids(todo) \cup grouped \cup report.done \cup report.failed
  /\ edits \in 0..faults
  /\ faults \in 0..MaxFaults

(* Every torrent the audit listed is planned in one place of one batch, or    *)
(* excluded, or counted as deferred by a cap; none twice and none forgotten.  *)
EveryTorrentAccounted ==
  LET items == Items(plan)
  IN /\ Cardinality(Ids(items)) = Len(items)
     /\ Ids(items) \cap plan.excluded = {}
     /\ Len(items) + Cardinality(plan.excluded) + report.deferred = Cardinality(manifest)

(* Batches keep to the budget unless one torrent alone exceeds it, and no     *)
(* batch is closed before it has to be.                                       *)
BatchesFillTheBudget ==
  \A i \in DOMAIN plan.batches :
    /\ plan.batches[i] # <<>>
    /\ Len(plan.batches[i]) > 1 => Bytes(plan.batches[i]) <= plan.budget
    /\ i > 1 => Bytes(plan.batches[i - 1]) + Head(plan.batches[i]).bytes > plan.budget

(* A plan is a packing of what was listed: both of the above. *)
PlanIsSound == EveryTorrentAccounted /\ BatchesFillTheBudget

(* "Keep the smallest torrents until a byte or count cap is reached": nothing *)
(* that was put off is smaller than something taken, and some cap is reached: *)
(* the torrents taken are within both, and one more would be over one.        *)
CapTakesTheSmallest ==
  LET taken == Items(plan)
      left == {entry \in manifest : entry.id \notin Ids(taken) \cup plan.excluded}
  IN /\ \A item \in ToSet(taken), entry \in left : item.bytes <= entry.bytes
     /\ left # {} =>
          \E maxBytes \in ByteCaps, maxTorrents \in TorrentCaps :
            /\ \A cap \in maxBytes : Bytes(taken) <= cap
            /\ \A limit \in maxTorrents : Len(taken) <= limit
            /\ \/ \E limit \in maxTorrents : Len(taken) = limit
               \/ \E cap \in maxBytes, entry \in left :
                    /\ \A other \in left : entry.bytes <= other.bytes
                    /\ Bytes(taken) + entry.bytes > cap

(* "Two sources mapping onto one destination can land two different Album/    *)
(* directories on each other.  Plan reports this before transfer": torrents   *)
(* kept apart on the source meet on the destination only if it was reported.  *)
NoSilentCollision ==
  \A a, b \in ToSet(Items(plan)) :
    /\ Apply(plan.mapping, a.path) = Apply(plan.mapping, b.path)
    /\ Components(a.path) # Components(b.path)
    => Converging(plan.mapping) # {}

(* The directory of a torrent with a save path of the destination, and whether *)
(* files of it have arrived there.                                             *)
Place(h, path) ==
  LET parts == Components(path)
  IN SubSeq(parts, Len(Components(Dest)) + 1, Len(parts)) \o <<library[h].name>>
Holds(h, path, files) ==
  \A f \in files : [at |-> Place(h, path), file |-> f, from |-> h, whole |-> TRUE] \in landed

(* "Destination layout follows the rewritten save paths": after a complete    *)
(* transfer every torrent that it copied, and that rewrite has staged, has    *)
(* its wanted files below its staged path.                                    *)
LayoutFollowsStaging ==
  report.of = "transfer" /\ report.end = "complete" =>
    \A h \in report.done :
      staging[h].torrent = "good" /\ staging[h].resume = "good" =>
        \/ Holds(h, staging[h].path, {f \in Files : library[h].wanted[f]})
        \/ Converging(plan.mapping) # {}

(* No two torrents of a library lie in one directory under one name. *)
DistinctPlaces ==
  \A lib \in Libraries :
    \A g, h \in {x \in Hashes : lib[x].torrent = "good" /\ lib[x].resume = "good"} :
      /\ Components(lib[g].path) = Components(lib[h].path)
      /\ lib[g].name = lib[h].name
      => g = h

(* The same as long as the library is not edited: through faults, kills, caps *)
(* and repetitions of both commands in any order.                             *)
LandsWhereStaged == edits = 0 => LayoutFollowsStaging

(* "Re-running is safe": a file that has arrived whole stays so, whatever     *)
(* command fails or is interrupted later, unless its directory is one of two  *)
(* that converge.                                                             *)
RerunIsSafe ==
  [][edits' = 0 =>
       \A l \in landed : l.whole => l \in landed' \/ Converging(plan.mapping) # {}]_vars
==============================================================================
