-------------------------------- MODULE MCInputs --------------------------------
(* An instance for TLC of what the program meets before it has changed        *)
(* anything: the files it reads (Bencode) and the machine it runs on (Doctor). *)
(* They have nothing to do with each other; a behaviour is of one or the other.*)
EXTENDS Bencode, Doctor

(* Integers at the ends of their range, strings that look like other things.  *)
Leaves ==
  {Integer(0), Integer(-1), Integer(12), Integer(-13)}
   \cup {Bytes(b) : b \in {<<>>, <<EndMark>>, <<48, Colon>>, <<IntegerMark, 49, EndMark>>}}
Nested == {List(<<>>), List(<<Integer(1), Bytes(<<ListMark>>)>>), List(<<Dict(<<>>)>>),
           Dict([key \in {<<>>, <<97>>, <<97, 97>>} |-> Integer(Len(key))])}

Other == <<114>>
Few == {Integer(-1), Bytes(<<EndMark>>), List(<<Dict(<<>>)>>)}
(* A top-level dictionary as of a .fastresume: some of the paths, and a field *)
(* between their keys that is none of the program's business.                 *)
Resumes ==
  {Dict(map) : map \in [{Other} -> Leaves \cup Nested]}
   \cup {Dict((SavePath :> path) @@ (Other :> other)) : path \in Few, other \in Leaves \cup Nested}
   \cup {Dict(map) : map \in [{QbtSavePath, Other} -> Few]}
   \cup {Dict(map) : map \in [{DownloadPath, QbtSavePath, SavePath} -> {Bytes(<<97>>), Integer(0)}]}

(* A single file, a directory of one file, of two, and of none. *)
Content(path) == [path |-> path, length |-> Len(path)]
Creations ==
  [name : {<<97>>}, piece_length : {1}, files : {<<Content(<<>>)>>}, multi_file : {FALSE}]
   \cup [name : {<<>>, <<EndMark>>}, piece_length : {12}, multi_file : {TRUE},
         files : {<<>>, <<Content(<<<<97>>>>)>>, <<Content(<<<<97>>, <<98>>>>), Content(<<<<98>>>>)>>}]

(* Around the boundary of a byte: nothing, all but one piece, everything; the  *)
(* bytes behind the length of a bitfield are its data.                         *)
Fetched ==
  UNION {[count : {n}, have : {{}, 0..n - 1, 0..n - 2, 1..n - 1}, priority : {<<>>, <<0, 7>>}] :
           n \in {1, 7, 8, 9}}

Bytes11 == [i \in 1..11 |-> 97]
Paths == {<<>>, <<Colon, EndMark>>, Bytes11}
Damaging == {Minus, Zero, 49, 50, Colon, EndMark, IntegerMark, ListMark, DictMark, 97, 115}

(* Any platform, ssh and BT_backup, and an rsync anywhere. *)
AnyMachine ==
  {m \in [platform : Platform, home : BOOLEAN, ssh : {"absent", "odd", "openssh"},
           brewFirst : BOOLEAN, rsync : [Place -> Rsync],
           listing : [BackupDir -> {"absent", "denied", "torrents"}]
                       \cup {[d \in BackupDir |-> l] : l \in {"broken", "noTorrents"}}] :
     /\ m.brewFirst =>
          /\ m.platform = "MacOs"
          /\ m.rsync["brew"] \in {"absent", m.rsync["PATH"]}
     /\ m.rsync["TSYNC_RSYNC"] # "limited"
     /\ m.rsync["brew"] = m.rsync["/opt/homebrew/bin"]
     /\ m.rsync["/usr/local/bin"] # "limited"}

allVars == <<vars, machine>>
OneFile == Dict(SavePath :> Bytes(<<>>))
OneMachine ==
  [platform |-> "Linux", home |-> TRUE, ssh |-> "openssh", brewFirst |-> FALSE,
   rsync |-> [place \in Place |-> "gnu"], listing |-> [d \in BackupDir |-> "torrents"]]

MCInit ==
  \/ Init /\ machine = OneMachine
  \/ /\ meant = OneFile
     /\ file = Encode(OneFile)
     /\ damage = 0
     /\ DoctorInit
Advice == DoctorNext /\ UNCHANGED vars
MCNext ==
  \/ machine = OneMachine /\ Next /\ UNCHANGED machine
  \/ Advice
MCSpec == MCInit /\ [][MCNext]_allVars /\ WF_allVars(Advice)
==============================================================================
