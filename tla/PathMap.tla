------------------------------- MODULE PathMap -------------------------------
(***************************************************************************)
(* Prefix rules that rewrite save paths (crates/core/src/pathmap.rs).  A   *)
(* path is the sequence of the segments between its separators, the empty  *)
(* ones included: "/srv//a/" is <<"", "srv", "", "a", "">>.                *)
(***************************************************************************)
EXTENDS Integers, Sequences, FiniteSets, SequencesExt

CONSTANT Segments  \* what can stand between two separators

Empty == ""

ASSUME SegmentsAssumption == Empty \in Segments

Unnamed == {Empty, "."}

(* What is left of a path without its empty segments and its dots. *)
Components(path) ==
  LET kept[n \in 0..Len(path)] ==
        IF n = 0 THEN <<>>
        ELSE IF path[n] \in Unnamed THEN kept[n - 1] ELSE Append(kept[n - 1], path[n])
  IN kept[Len(path)]

Display(parts) == IF parts = <<>> THEN <<Empty, Empty>> ELSE <<Empty>> \o parts

IsAbsolute(path) == Len(path) > 1 /\ path[1] = Empty

(* Directories that hold mounts and homes; two drive letters stand for all.  *)
MountRoots == {"Users", "home", "mnt", "media", "Volumes", "C:", "D:"}

IsDegenerate(parts) == parts = <<>> \/ \E root \in MountRoots : parts = <<root>>

(* The shortest beginning of a path that may become a rule. *)
TopLevelRoot(parts) ==
  LET usable == {n \in 1..Len(parts) : ~IsDegenerate(SubSeq(parts, 1, n))}
  IN IF usable = {} THEN parts ELSE SubSeq(parts, 1, Min(usable))

(* Mapping::derive fails without a destination or without any path. *)
CanDerive(paths, dest) ==
  /\ Components(dest) # <<>>
  /\ \E path \in paths : Components(path) # <<>>

(* The rules: one for the shared prefix, or one per root if that is too       *)
(* short to tell a machine's mounts from its data.                            *)
Derive(paths, dest) ==
  LET parts == {Components(path) : path \in paths} \ {<<>>}
      shared == LongestCommonPrefix(parts)
      froms == IF IsDegenerate(shared) THEN {TopLevelRoot(p) : p \in parts} ELSE {shared}
  IN {[from |-> from, to |-> Components(dest)] : from \in froms}

Matching(mapping, path) == {rule \in mapping : IsPrefix(rule.from, Components(path))}

(* The rules are sorted by falling length and the first that matches wins.    *)
RuleFor(mapping, path) ==
  CHOOSE rule \in Matching(mapping, path) :
    \A other \in Matching(mapping, path) : Len(other.from) <= Len(rule.from)

\* Mutant of Below: one segment too few is kept.
BelowShort(rule, path) == SubSeq(Components(path), Len(rule.from) + 2, Len(Components(path)))
(* What is left of a path below a rule. *)
Below(rule, path) == SubSeq(Components(path), Len(rule.from) + 1, Len(Components(path)))

(* For a path that some rule matches. *)
Apply(mapping, path) ==
  LET rule == RuleFor(mapping, path) IN Display(rule.to \o Below(rule, path))

Converging(mapping) ==
  {pair \in mapping \X mapping : pair[1].to = pair[2].to /\ pair[1].from # pair[2].from}
==============================================================================
