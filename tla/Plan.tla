--------------------------------- MODULE Plan ---------------------------------
(***************************************************************************)
(* What an audit says of a torrent (crates/audit) and the plan built from  *)
(* an audit (crates/plan): rules, batches, exclusions, and the smallest    *)
(* part of it that a cap lets through.  An optional number is a set of at  *)
(* most one number.  An entry is [id, path, bytes, class]; what an audit *)
(* lists is a set, for its order is that of the ids.                       *)
(***************************************************************************)
EXTENDS PathMap

Observed == {"whole", "short", "absent", "denied"}

\* Mutant of Classify: a file that is there counts, whatever its length.
ClassifyByPresence(disk, wanted) ==
  IF \E f \in DOMAIN disk : disk[f] = "denied" THEN "unverifiable"
  ELSE IF \E f \in DOMAIN disk : wanted[f] /\ disk[f] = "absent" THEN "partial"
  ELSE IF \E f \in DOMAIN disk : disk[f] = "absent" THEN "skipped" ELSE "intact"
(* classify: of each file what stat said and whether the user wants it. *)
Classify(disk, wanted) ==
  IF \E f \in DOMAIN disk : disk[f] = "denied" THEN "unverifiable"
  ELSE IF \E f \in DOMAIN disk : wanted[f] /\ disk[f] \in {"absent", "short"} THEN "partial"
  ELSE IF \E f \in DOMAIN disk : disk[f] = "absent" THEN "skipped" ELSE "intact"

IsEligible(entry) == entry.class \in {"intact", "skipped"}

Bytes(items) ==
  LET sum[n \in 0..Len(items)] == IF n = 0 THEN 0 ELSE sum[n - 1] + items[n].bytes
  IN sum[Len(items)]

IsBefore(a, b) == a.bytes < b.bytes \/ (a.bytes = b.bytes /\ a.id < b.id)

(* A stable sort by size of what an audit lists in the order of the hashes:   *)
(* at place n is the one that n - 1 others come before.                       *)
SmallestFirst(entries) ==
  [n \in 1..Cardinality(entries) |->
     CHOOSE e \in entries : Cardinality({d \in entries : IsBefore(d, e)}) = n - 1]

\* Mutant of Put: a batch is closed only after the torrent that overflows it.
PutLate(acc, item, budget) ==
  IF acc.used > budget
    THEN [batches |-> Append(acc.batches, acc.current), current |-> <<item>>, used |-> item.bytes]
    ELSE [acc EXCEPT !.current = Append(@, item), !.used = @ + item.bytes]
(* A batch is closed when the next torrent would overflow the budget, and     *)
(* never empty.  (Sums of sizes stay far below 2^64.)                         *)
Put(acc, item, budget) ==
  IF acc.current # <<>> /\ acc.used + item.bytes > budget
    THEN [batches |-> Append(acc.batches, acc.current), current |-> <<item>>, used |-> item.bytes]
    ELSE [acc EXCEPT !.current = Append(@, item), !.used = @ + item.bytes]

(* pack *)
Unpacked == [batches |-> <<>>, current |-> <<>>, used |-> 0]
Pack(items, budget) ==
  LET packed[n \in 0..Len(items)] ==
        IF n = 0 THEN Unpacked ELSE Put(packed[n - 1], items[n], budget)
      end == packed[Len(items)]
  IN IF end.current = <<>> THEN end.batches ELSE Append(end.batches, end.current)

(* The eligible torrents' paths; if there are none, the rules are derived     *)
(* from the excluded ones.                                                    *)
PathsForMap(manifest) ==
  LET eligible == {entry \in manifest : IsEligible(entry)}
  IN {entry.path : entry \in IF eligible = {} THEN manifest ELSE eligible}

CanBuild(manifest, dest) == CanDerive(PathsForMap(manifest), dest)

IsPlanned(entry, mapping) == IsEligible(entry) /\ Matching(mapping, entry.path) # {}

\* Mutant of Build: a torrent without a rule is neither planned nor excluded.
BuildForgetting(manifest, dest, budget) ==
  LET mapping == Derive(PathsForMap(manifest), dest)
  IN [mapping |-> mapping,
      batches |-> Pack(SmallestFirst({e \in manifest : IsPlanned(e, mapping)}), budget),
      excluded |-> {entry.id : entry \in {e \in manifest : ~IsEligible(e)}},
      budget |-> budget]
(* build *)
Build(manifest, dest, budget) ==
  LET mapping == Derive(PathsForMap(manifest), dest)
  IN [mapping |-> mapping,
      batches |-> Pack(SmallestFirst({e \in manifest : IsPlanned(e, mapping)}), budget),
      excluded |-> {entry.id : entry \in {e \in manifest : ~IsPlanned(e, mapping)}},
      budget |-> budget]

Items(plan) == FlattenSeq(plan.batches)

\* Mutant of TakeSmallest: the torrent that reaches the cap is taken as well.
TakeSmallestOver(plan, maxBytes, maxTorrents) ==
  LET items == Items(plan)
      IsWithin(n) == /\ \A limit \in maxTorrents : n <= limit
                     /\ \A cap \in maxBytes : n > 0 => Bytes(SubSeq(items, 1, n - 1)) < cap
      kept == Max({n \in 0..Len(items) : IsWithin(n)} \cup {0})
  IN [plan EXCEPT !.batches = Pack(SubSeq(items, 1, kept), plan.budget)]
(* take_smallest: the walk over the sizes stops at the first torrent that     *)
(* would exceed a cap.                                                        *)
TakeSmallest(plan, maxBytes, maxTorrents) ==
  LET items == Items(plan)
      IsWithin(n) == /\ \A limit \in maxTorrents : n <= limit
                     /\ \A cap \in maxBytes : Bytes(SubSeq(items, 1, n)) <= cap
      kept == Max({n \in 0..Len(items) : IsWithin(n)})
  IN IF maxBytes \cup maxTorrents = {} THEN plan
     ELSE [plan EXCEPT !.batches = Pack(SubSeq(items, 1, kept), plan.budget)]
==============================================================================
