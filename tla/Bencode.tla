-------------------------------- MODULE Bencode --------------------------------
(***************************************************************************)
(* The strict bencode of crates/core, what the program reads with it (of a *)
(* .torrent its files and pieces; of a .fastresume the save path, the      *)
(* priorities and which pieces are there), and the one use it makes of     *)
(* writing it: rewrite_save_path, which replaces the paths of a            *)
(* .fastresume.  A byte is its number.  A parser returns the set of what   *)
(* it reads: empty if it refuses, one result otherwise.  The names of the  *)
(* keys are one letter long, in the order of the real ones.                *)
(***************************************************************************)
EXTENDS Integers, Sequences, FiniteSets, SequencesExt

CONSTANTS
  MaxInteger,  \* i64::MAX
  MAX_DEPTH,   \* lists and dictionaries in one another
  Values,      \* resume data the client may have written
  Torrents,    \* torrents, as their creators meant them
  Downloads,   \* how far the client has come with a torrent
  NewPaths,    \* save paths of the destination
  Alphabet,    \* bytes a damaged file may contain
  MaxDamage    \* bound: bytes changed, lost or added

ASSUME BencodeAssumption ==
  /\ MaxInteger \in Nat \ {0}
  /\ MAX_DEPTH \in Nat
  /\ NewPaths \subseteq Seq(0..255)
  /\ Alphabet \subseteq 0..255
  /\ MaxDamage \in Nat

Digits == 48..57
Zero == 48
Minus == 45
Colon == 58
DictMark == 100
EndMark == 101
IntegerMark == 105
ListMark == 108

Integer(n) == [integer |-> n]
Bytes(b) == [bytes |-> b]
List(items) == [list |-> items]
Dict(map) == [dict |-> map]
IsOf(kind, value) == kind \in DOMAIN value

(* The order of the keys is that of their bytes, as of a BTreeMap of Vec<u8>. *)
IsLess(a, b) ==
  \E n \in 0..Len(a) :
    /\ n < Len(b)
    /\ SubSeq(a, 1, n) = SubSeq(b, 1, n)
    /\ n = Len(a) \/ a[n + 1] < b[n + 1]

------------------------------------------------------------------------------
RECURSIVE Decimal(_)
Decimal(n) == IF n < 10 THEN <<Zero + n>> ELSE Append(Decimal(n \div 10), Zero + (n % 10))

EncodeBytes(b) == Decimal(Len(b)) \o <<Colon>> \o b

RECURSIVE Encode(_)
Encode(value) ==
  CASE IsOf("integer", value) ->
         <<IntegerMark>> \o (IF value.integer < 0 THEN <<Minus>> \o Decimal(-value.integer)
                                                  ELSE Decimal(value.integer)) \o <<EndMark>>
    [] IsOf("bytes", value) -> EncodeBytes(value.bytes)
    [] IsOf("list", value) ->
         <<ListMark>> \o FlattenSeq([i \in DOMAIN value.list |-> Encode(value.list[i])]) \o <<EndMark>>
    [] IsOf("dict", value) ->
         LET keys == SetToSortSeq(DOMAIN value.dict, IsLess)
             Entry(key) == EncodeBytes(key) \o Encode(value.dict[key])
         IN <<DictMark>> \o FlattenSeq([i \in DOMAIN keys |-> Entry(keys[i])]) \o <<EndMark>>

------------------------------------------------------------------------------
\* Mutant of IsNumeral: zeros in front are accepted.
IsNumeralPadded(digits) == digits # <<>> /\ ToSet(digits) \subseteq Digits
(* The one spelling of a number without a sign. *)
IsNumeral(digits) ==
  /\ digits # <<>>
  /\ ToSet(digits) \subseteq Digits
  /\ Len(digits) > 1 => digits[1] # Zero

Number(digits) == FoldLeft(LAMBDA sum, digit : 10 * sum + digit - Zero, 0, digits)

Find(input, needle, at) == {i \in at..Len(input) : input[i] = needle}

(* integer: a minus before a numeral other than 0, in the range of an i64. *)
ReadInteger(input, at) ==
  LET ends == Find(input, EndMark, at)
      body == SubSeq(input, at + 1, Min(ends) - 1)
      IsNegative == body # <<>> /\ body[1] = Minus
      digits == IF IsNegative THEN Tail(body) ELSE body
      n == IF IsNegative THEN -Number(digits) ELSE Number(digits)
      IsValid == /\ IsNumeral(digits)
                 /\ IsNegative => digits # <<Zero>>
                 /\ n \in -(MaxInteger + 1)..MaxInteger
  IN IF ends # {} /\ IsValid THEN {[value |-> Integer(n), next |-> Min(ends) + 1]} ELSE {}

(* byte_string: as many bytes as it says, all of which must be there. *)
ReadBytes(input, at) ==
  LET colons == Find(input, Colon, at)
      digits == SubSeq(input, at, Min(colons) - 1)
      end == Min(colons) + Number(digits)
  IN IF colons # {} /\ IsNumeral(digits) /\ end <= Len(input)
       THEN {[value |-> SubSeq(input, Min(colons) + 1, end), next |-> end + 1]}
       ELSE {}

RECURSIVE ReadValue(_, _, _), ReadItems(_, _, _, _), ReadPairs(_, _, _, _)

(* The items of a list from here on, after those already read. *)
ReadItems(input, at, depth, items) ==
  IF at > Len(input) THEN {}
  ELSE IF input[at] = EndMark THEN {[value |-> List(items), next |-> at + 1]}
  ELSE UNION {ReadItems(input, item.next, depth, Append(items, item.value)) :
                item \in ReadValue(input, at, depth + 1)}

\* Mutant of ReadPairs: a dictionary ends with its input.
ReadPairsTorn(input, at, depth, map) ==
  IF at > Len(input) \/ input[at] = EndMark
    THEN {[value |-> Dict(map), next |-> Min({at, Len(input)}) + 1]}
  ELSE LET keys == IF input[at] \in Digits THEN ReadBytes(input, at) ELSE {}
           later == {key \in keys : \A earlier \in DOMAIN map : IsLess(earlier, key.value)}
       IN UNION {UNION {ReadPairs(input, item.next, depth, (key.value :> item.value) @@ map) :
                          item \in ReadValue(input, key.next, depth + 1)} : key \in later}
(* The pairs of a dictionary: a key is behind all those before it. *)
ReadPairs(input, at, depth, map) ==
  IF at > Len(input) THEN {}
  ELSE IF input[at] = EndMark THEN {[value |-> Dict(map), next |-> at + 1]}
  ELSE LET keys == IF input[at] \in Digits THEN ReadBytes(input, at) ELSE {}
           later == {key \in keys : \A earlier \in DOMAIN map : IsLess(earlier, key.value)}
       IN UNION {UNION {ReadPairs(input, item.next, depth, (key.value :> item.value) @@ map) :
                          item \in ReadValue(input, key.next, depth + 1)} : key \in later}

ReadValue(input, at, depth) ==
  IF depth > MAX_DEPTH \/ at > Len(input) THEN {}
  ELSE CASE input[at] = IntegerMark -> ReadInteger(input, at)
         [] input[at] = ListMark -> ReadItems(input, at + 1, depth, <<>>)
         [] input[at] = DictMark -> ReadPairs(input, at + 1, depth, <<>>)
         [] input[at] \in Digits ->
              {[value |-> Bytes(b.value), next |-> b.next] : b \in ReadBytes(input, at)}
         [] OTHER -> {}

(* decode: one value and nothing behind it. *)
Decode(input) == {r.value : r \in {r \in ReadValue(input, 1, 0) : r.next = Len(input) + 1}}

------------------------------------------------------------------------------
(* Value::get and as_integer, as_bytes, as_list: nothing of another kind. *)
Field(value, key, kind) ==
  IF IsOf("dict", value) /\ key \in DOMAIN value.dict /\ IsOf(kind, value.dict[key])
    THEN {value.dict[key][kind]}
    ELSE {}

InfoKey == <<105>>
FilesKey == <<102>>
LengthKey == <<108>>
NameKey == <<110>>
PathKey == <<112>>
PieceLengthKey == <<113>>

(* An entry of info.files: a length and a path of at least one component. *)
ContentFile(entry) ==
  {[path |-> [i \in DOMAIN path |-> path[i].bytes], length |-> length] :
     length \in {n \in Field(entry, LengthKey, "integer") : n >= 0},
     path \in {p \in Field(entry, PathKey, "list") :
                 p # <<>> /\ \A i \in DOMAIN p : IsOf("bytes", p[i])}}

\* Mutant of FilesFromInfo: a torrent of one file is taken for a single file.
FilesFromInfoByNumber(info) ==
  {[files |-> [i \in DOMAIN list |-> CHOOSE file \in ContentFile(list[i]) : TRUE],
    multi_file |-> Len(list) # 1] :
     list \in {l \in Field(info, FilesKey, "list") : \A i \in DOMAIN l : ContentFile(l[i]) # {}}}
   \cup {[files |-> <<[path |-> <<>>, length |-> n]>>, multi_file |-> FALSE] :
            n \in {n \in Field(info, LengthKey, "integer") : n >= 0}}
(* files_from_info: a length makes a single file, whatever else is there. *)
FilesFromInfo(info) ==
  LET lengths == Field(info, LengthKey, "integer")
      lists == {l \in Field(info, FilesKey, "list") : \A i \in DOMAIN l : ContentFile(l[i]) # {}}
  IN IF lengths # {}
       THEN {[files |-> <<[path |-> <<>>, length |-> n]>>, multi_file |-> FALSE] :
               n \in {n \in lengths : n >= 0}}
       ELSE {[files |-> [i \in DOMAIN list |-> CHOOSE file \in ContentFile(list[i]) : TRUE],
              multi_file |-> TRUE] : list \in lists}

(* metainfo::parse: hashed is the argument of the SHA-1 that is the infohash. *)
Metainfo(input) ==
  UNION {UNION {
    {[hashed |-> Encode([dict |-> info]), name |-> name, piece_length |-> piece,
      files |-> content.files, multi_file |-> content.multi_file] :
        name \in Field([dict |-> info], NameKey, "bytes"),
        piece \in {n \in Field([dict |-> info], PieceLengthKey, "integer") : n > 0},
        content \in FilesFromInfo([dict |-> info])} :
          info \in Field(top, InfoKey, "dict")} : top \in Decode(input)}

(* total_length, a u64, and piece_count: the last piece may be a short one.   *)
TotalLength(meta) ==
  FoldLeft(LAMBDA sum, f : sum + f.length, 0, meta.files) % (2 * (MaxInteger + 1))
\* Mutant of PieceCount: the last piece counts only if it is full.
PieceCountFull(meta) == TotalLength(meta) \div meta.piece_length
PieceCount(meta) ==
  LET total == TotalLength(meta)
  IN IF total = 0 THEN 1 ELSE (total + meta.piece_length - 1) \div meta.piece_length

------------------------------------------------------------------------------
PriorityKey == <<102>>   \* file_priority
PiecesKey == <<111>>     \* pieces
DownloadPath == <<112>>  \* qBt-downloadPath
QbtSavePath == <<113>>   \* qBt-savePath
SavePath == <<115>>      \* save_path
PATH_KEYS == {DownloadPath, QbtSavePath, SavePath}

(* resume::parse: the second key of the save path stands in only if the first  *)
(* is not there at all; a priority that is no number is passed over, so that    *)
(* those behind it are taken for other files'.                                  *)
Resume(input) ==
  LET tops == {top \in Decode(input) : IsOf("dict", top)}
      SavePaths(top) == IF SavePath \in DOMAIN top.dict THEN Field(top, SavePath, "bytes")
                                                       ELSE Field(top, QbtSavePath, "bytes")
      Numbers(list) == SelectSeq(list, LAMBDA item : IsOf("integer", item))
      Priorities(list) == [i \in DOMAIN Numbers(list) |-> Numbers(list)[i].integer]
  IN UNION {{[save_path |-> path, pieces |-> Field(top, PiecesKey, "bytes"),
              file_priority |-> {Priorities(l) : l \in Field(top, PriorityKey, "list")}] :
                path \in SavePaths(top)} : top \in tops}

(* Resume::priority: 1 where the list says nothing.  Files count from 0. *)
Priority(resume, index) ==
  LET said == {list[index + 1] : list \in {l \in resume.file_priority : index < Len(l)}}
  IN IF said = {} THEN 1 ELSE CHOOSE n \in said : TRUE

\* Mutant of BitIsSet: piece 0 is the low bit.
BitIsSetLow(field, index) ==
  LET byte == index \div 8
  IN byte < Len(field) /\ (field[byte + 1] \div 2^(index % 8)) % 2 = 1
(* Piece 0 is the high bit of byte 0. *)
BitIsSet(field, index) ==
  LET byte == index \div 8
      shift == 7 - (index % 8)
  IN byte < Len(field) /\ (field[byte + 1] \div 2^shift) % 2 = 1

(* claims_complete: no claim without a bitfield. *)
ClaimsComplete(resume, count) ==
  {\A index \in 0..count - 1 : BitIsSet(field, index) : field \in resume.pieces}

\* Mutant of Replaced: the paths are written whether they were there or not.
ReplacedAll(map, path) == [key \in PATH_KEYS |-> Bytes(path)] @@ map
Replaced(map, path) == [key \in PATH_KEYS \cap DOMAIN map |-> Bytes(path)] @@ map

(* rewrite_save_path: only what would come back byte for byte is rewritten. *)
Rewrite(input, path) ==
  {Encode(Dict(Replaced(top.dict, path))) :
     top \in {top \in Decode(input) : /\ Encode(top) = input
                                      /\ IsOf("dict", top)
                                      /\ PATH_KEYS \cap DOMAIN top.dict # {}}}

------------------------------------------------------------------------------
VARIABLES
  file,    \* the bytes of a .fastresume or a .torrent
  meant,   \* what was written and the program was asked to change
  damage   \* bytes damaged since

vars == <<file, meant, damage>>

(* What the creator of a torrent writes. *)
Written(torrent) ==
  LET Path(item) == List([i \in DOMAIN item.path |-> Bytes(item.path[i])])
      File(item) == Dict((LengthKey :> Integer(item.length)) @@ (PathKey :> Path(item)))
      content == IF torrent.multi_file
                   THEN FilesKey :> List([i \in DOMAIN torrent.files |-> File(torrent.files[i])])
                   ELSE LengthKey :> Integer(torrent.files[1].length)
  IN Dict(InfoKey :> Dict(content @@ (NameKey :> Bytes(torrent.name))
                                  @@ (PieceLengthKey :> Integer(torrent.piece_length))))

(* What a client writes of a download: libtorrent's bitfield, its spare bits   *)
(* 0, and a priority per file.                                                 *)
Bitfield(download) ==
  LET Bit(i) == IF i \in download.have THEN 2^(7 - (i % 8)) ELSE 0
  IN [byte \in 1..((download.count + 7) \div 8) |->
        FoldSet(LAMBDA i, sum : sum + Bit(i), 0, 8 * (byte - 1)..8 * byte - 1)]
Progress(download) ==
  Dict((PiecesKey :> Bytes(Bitfield(download))) @@ (SavePath :> Bytes(<<>>))
       @@ (PriorityKey :> List([i \in DOMAIN download.priority |->
                                  Integer(download.priority[i])])))

Init == /\ meant \in Values \cup {Written(torrent) : torrent \in Torrents}
                          \cup {Progress(download) : download \in Downloads}
        /\ file = Encode(meant)
        /\ damage = 0

(* The file is one that audit could read; what is written takes its place.    *)
RewritePaths(path) ==
  /\ Resume(file) # {}
  /\ file' \in Rewrite(file, path)
  /\ meant' = [meant EXCEPT !.dict = [key \in DOMAIN @ |->
                 IF key \in PATH_KEYS THEN Bytes(path) ELSE @[key]]]
  /\ UNCHANGED damage

Damage ==
  /\ damage < MaxDamage
  /\ damage' = damage + 1
  /\ \E i \in 1..Len(file) + 1 :
       LET before == SubSeq(file, 1, i - 1)
       IN \/ \E b \in Alphabet : \/ file' = before \o <<b>> \o SubSeq(file, i, Len(file))
                                 \/ file' = before \o <<b>> \o SubSeq(file, i + 1, Len(file))
          \/ file' = before \o SubSeq(file, i + 1, Len(file))
  /\ UNCHANGED meant

Next == (\E path \in NewPaths : RewritePaths(path)) \/ Damage

Spec == Init /\ [][Next]_vars

------------------------------------------------------------------------------
(* "encode(decode(bytes)) == bytes hold for every accepted input"             *)
(* (crates/core, decode): of a value there is one spelling, and every other   *)
(* is refused, so that an infohash is that of the bytes the client hashed.    *)
AcceptedIsCanonical == \A value \in Decode(file) : Encode(value) = file

(* What was written, and what the program made of it any number of times,     *)
(* reads as what was meant.  "Computing the infohash here -- SHA-1 of the      *)
(* *encoded* info dict": a torrent has the name, files and layout its creator  *)
(* gave it, is known by the very bytes that he hashed, and has just the pieces *)
(* that hold its files.  A download is claimed to be complete if and only if   *)
(* every piece is there, and each file has the priority it was given.          *)
ReadsAsMeant ==
  damage = 0 =>
    /\ Decode(file) = {meant}
    /\ \A torrent \in Torrents :
         meant = Written(torrent) =>
           \E meta \in Metainfo(file) :
             /\ Metainfo(file) = {torrent @@ [hashed |-> Encode(meant.dict[InfoKey])]}
             /\ PieceCount(meta) * meta.piece_length >= TotalLength(meta)
             /\ (PieceCount(meta) - 1) * meta.piece_length < Max({TotalLength(meta), 1})
    /\ \A download \in Downloads :
         meant = Progress(download) =>
           \E resume \in Resume(file) :
             /\ ClaimsComplete(resume, download.count)
                  = {download.have = 0..download.count - 1}
             /\ \A i \in DOMAIN download.priority :
                  Priority(resume, i - 1) = download.priority[i]

(* A file that was cut short is never taken for a whole one, damaged or not:  *)
(* what rewrite leaves half written, import and verify do not read.           *)
TornIsRefused ==
  Decode(file) # {} => \A n \in 0..Len(file) - 1 : Decode(SubSeq(file, 1, n)) = {}
==============================================================================
