---------------------------- MODULE MCCommandLine ----------------------------
(* Instances of CommandLine for TLC. *)
EXTENDS CommandLine

CONSTANT h1

TwoServers == {"dest", "source"}
OneHash == {h1}

(* qBittorrent 4.x, 5.0 and 5.2. *)
SomeVersions == <<<<2, 9>>, <<2, 11>>, <<2, 12>>>>

(* The source has its torrent, at a limit nobody sets. *)
MCInit == Init /\ torrents["source"][h1] # "absent" /\ limit["source"] = 0
MCSpec == MCInit /\ [][Next]_vars /\ Fairness
==============================================================================
