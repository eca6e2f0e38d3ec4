-------------------------------- MODULE Doctor --------------------------------
(***************************************************************************)
(* tsync doctor (crates/doctor): three checks of the machine tsync runs    *)
(* on, each with the fix it names, beside what the other commands will     *)
(* look for on the same machine: the rsync that crates/transfer resolves   *)
(* and the BT_backup that the command line and crates/audit open.          *)
(***************************************************************************)
EXTENDS Naturals, SequencesExt

CONSTANT Machines   \* the machines the command may first be run on

VARIABLE machine

Platform == {"MacOs", "Linux", "Other"}

(* Where an rsync may be: the file TSYNC_RSYNC names, below brew --prefix,  *)
(* at the two paths Homebrew uses, and what PATH finds.                     *)
Candidates == <<"TSYNC_RSYNC", "brew", "/opt/homebrew/bin", "/usr/local/bin", "PATH">>
Place == Range(Candidates)

(* "limited" is any rsync that refuses --info=help: openrsync whatever its  *)
(* banner claims, or a GNU rsync before 3.1.0.                              *)
Rsync == {"absent", "limited", "gnu"}

BackupDir == {"Library/Application Support/qBittorrent/BT_backup",
              ".local/share/qBittorrent/BT_backup"}
Listing == {"absent", "denied", "broken", "noTorrents", "torrents"}

(* brewFirst: does PATH have Homebrew's directory before the others? *)
Machine == [platform : Platform, home : BOOLEAN, ssh : {"absent", "odd", "openssh"},
            brewFirst : BOOLEAN, rsync : [Place -> Rsync], listing : [BackupDir -> Listing]]

ASSUME DoctorAssumption == Machines \subseteq Machine

------------------------------------------------------------------------------
(* The checks. *)

Outcome(status, fix) == [status |-> status, fix |-> fix]

SshCheck(m) ==
  CASE m.ssh = "absent" -> Outcome("FAIL", "installSsh")
    [] m.ssh = "odd" -> Outcome("WARN", "none")
    [] OTHER -> Outcome("PASS", "none")

(* The exit status of rsync --info=help decides, never the version.  The    *)
(* other places are tried only for the wording of the fix.                  *)
InfoHelpWorks(m, place) == m.rsync[place] = "gnu"
GnuRsyncElsewhere(m) ==
  \E place \in {"/opt/homebrew/bin", "/usr/local/bin"} : InfoHelpWorks(m, place)

\* Mutant of RsyncCheck: any rsync will do.
RsyncCheckByBanner(m) ==
  IF m.rsync["PATH"] = "absent" THEN Outcome("FAIL", "installRsync") ELSE Outcome("PASS", "none")
\* Mutant of RsyncCheck: nobody looks whether one is installed elsewhere.
RsyncCheckOnPath(m) ==
  IF InfoHelpWorks(m, "PATH") THEN Outcome("PASS", "none") ELSE Outcome("FAIL", "installRsync")
RsyncCheck(m) ==
  CASE m.rsync["PATH"] = "absent" -> Outcome("FAIL", "installRsync")
    [] InfoHelpWorks(m, "PATH") -> Outcome("PASS", "none")
    [] OTHER -> Outcome("FAIL", IF GnuRsyncElsewhere(m) THEN "putFirst" ELSE "installRsync")

DefaultPath(platform) ==
  IF platform = "MacOs" THEN "Library/Application Support/qBittorrent/BT_backup"
                        ELSE ".local/share/qBittorrent/BT_backup"

BackupCheck(m) ==
  LET listing == m.listing[DefaultPath(m.platform)]
  IN CASE ~m.home \/ listing \in {"absent", "noTorrents"} -> Outcome("WARN", "none")
       [] listing = "denied" -> Outcome("FAIL", "grantAccess")
       [] listing = "broken" -> Outcome("FAIL", "none")
       [] OTHER -> Outcome("PASS", "none")

LOCAL_CHECKS(m) == {SshCheck(m), RsyncCheck(m), BackupCheck(m)}

(* Report::is_blocking: a warning does not block. *)
IsBlocking(m) == \E o \in LOCAL_CHECKS(m) : o.status = "FAIL"
IsClean(m) == \A o \in LOCAL_CHECKS(m) : o.status = "PASS"

------------------------------------------------------------------------------
(* What the commands will look for. *)

(* resolve_binary: the first candidate that can do --info=help, 0 for none. *)
ResolveBinary(m) == SelectInSeq(Candidates, LAMBDA place : InfoHelpWorks(m, place))

DefaultBtBackup(m) ==
  IF m.platform = "MacOs" THEN "Library/Application Support/qBittorrent/BT_backup"
                          ELSE ".local/share/qBittorrent/BT_backup"

(* audit::run lists the directory; an entry that cannot be read is skipped. *)
AuditLists(m) ==
  m.home /\ m.listing[DefaultBtBackup(m)] \in {"noTorrents", "torrents", "broken"}

------------------------------------------------------------------------------
(* The user does what a failing check says.  brew puts its rsync below its  *)
(* prefix, where PATH finds it only if it looks there first.                *)

FollowAdvice(fix) ==
  /\ \E o \in LOCAL_CHECKS(machine) : o.status = "FAIL" /\ o.fix = fix
  /\ \/ /\ fix = "installSsh"
        /\ machine' = [machine EXCEPT !.ssh = "openssh"]
     \/ /\ fix = "installRsync"
        /\ machine.platform = "MacOs"
        /\ machine' = [machine EXCEPT !.rsync["brew"] = "gnu",
                         !.rsync["/opt/homebrew/bin"] = "gnu",
                         !.rsync["PATH"] = IF machine.brewFirst THEN "gnu" ELSE @]
     \/ /\ \/ fix = "installRsync" /\ machine.platform # "MacOs"
           \/ fix = "putFirst"
        /\ machine' = [machine EXCEPT !.rsync["PATH"] = "gnu"]
     \/ /\ fix = "grantAccess"
        /\ \E seen \in {"noTorrents", "torrents"} :
             machine' = [machine EXCEPT !.listing[DefaultPath(machine.platform)] = seen]

Fixes == {"installSsh", "installRsync", "putFirst", "grantAccess"}

DoctorInit == machine \in Machines
DoctorNext == \E fix \in Fixes : FollowAdvice(fix)
DoctorSpec == DoctorInit /\ [][DoctorNext]_machine

------------------------------------------------------------------------------
(* A doctor that passes everything has looked where the commands look:      *)
(* rsync is resolved and BT_backup can be listed, by code of other crates   *)
(* with other search orders.                                                *)
PreflightSuffices ==
  IsClean(machine) => ResolveBinary(machine) # 0 /\ AuditLists(machine)

(* A user who does what the failing checks say ends with nothing blocking,  *)
(* however many rounds it takes, on a machine whose BT_backup fails for no  *)
(* other reason than permissions, and on macOS with some rsync on PATH or   *)
(* Homebrew first on it.  (Otherwise the advice is to install it again and  *)
(* again.)                                                                  *)
Advisable(m) ==
  /\ m.platform = "MacOs" => m.rsync["PATH"] # "absent" \/ m.brewFirst
  /\ m.listing[DefaultPath(m.platform)] # "broken"
AdviceWorks == Advisable(machine) ~> ~IsBlocking(machine)
==============================================================================
