-------------------------------- MODULE MCFetch --------------------------------
(* Instances of Fetch for TLC. *)
EXTENDS Fetch

Music == <<"m">>
Data == <<"d">>
Album == <<"x">>
Track == <<"a">>
MCRoot == <<Data>>
MCCaps == {{}, {2}}

File(path) == [path |-> path, length |-> 1]
(* A directory in a directory, so that the name of one file ends with that of *)
(* the other; a single file of the same size; one outside the save root; and   *)
(* a pair that cannot be read.                                                *)
MCItems ==
  <<[readable |-> TRUE, save_path |-> <<Data, Music>>, name |-> Album, multi_file |-> TRUE,
     files |-> <<File(<<Track>>), File(<<Album, Track>>)>>],
    [readable |-> TRUE, save_path |-> <<Data>>, name |-> Track, multi_file |-> FALSE,
     files |-> <<[path |-> <<>>, length |-> 2]>>],
    [readable |-> TRUE, save_path |-> <<Music>>, name |-> Track, multi_file |-> FALSE,
     files |-> <<[path |-> <<>>, length |-> 3]>>],
    [readable |-> FALSE, save_path |-> <<Music>>, name |-> Track, multi_file |-> FALSE,
     files |-> <<>>]>>

Holding(has) ==
  [held |-> TRUE, wanted |-> [i \in DOMAIN has |-> TRUE], has |-> has]
FirstOnly(t) == [t EXCEPT !.wanted[2] = FALSE]

(* Halfway, and wanted in part. *)
Albums ==
  {Holding(<<"part", "all">>), FirstOnly(Holding(<<"part", "none">>))}
MCRemotes == {<<album, Holding(<<"all">>), Holding(<<"all">>), Holding(<<>>)>> : album \in Albums}
==============================================================================
