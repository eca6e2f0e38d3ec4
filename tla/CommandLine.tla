----------------------------- MODULE CommandLine -----------------------------
(***************************************************************************)
(* The tsync command (crates/cli/src/main.rs): what each subcommand checks *)
(* before it starts, in which order, where it logs in, and which calls its *)
(* crate makes on the sessions.  The crates' own control is in the modules *)
(* named after them; here a body is any run of the calls it can make.      *)
(***************************************************************************)
EXTENDS Session

CONSTANT Commands   \* the subcommands the user types

AllCommands ==
  {"audit", "plan", "rewrite", "transfer", "fetch", "migrate", "import", "verify", "handoff"}
ASSUME CommandAssumption == Commands \subseteq AllCommands /\ Servers = {"dest", "source"}

VARIABLES
  cmd,    \* the subcommand that runs
  todo    \* its stages still to come, the present one first

vars == <<sessionVars, cmd, todo>>

(* What each subcommand goes through, in the order of its function. *)
AuditStages == <<"backup", "body">>
PlanStages == <<"to", "backup", "body">>
FetchStages == <<"to", "word", "dest", "dest version", "body">>
MigrateStages == <<"to", "word", "backup", "dest", "dest version", "source", "source version", "body">>
ImportStages == <<"dest", "dest version", "source", "source version", "body">>
VerifyStages == <<"dest", "dest version", "body">>

VersionStage(s) == IF s = "dest" THEN "dest version" ELSE "source version"

Stages(c) ==
  CASE c = "audit" -> AuditStages
    [] c \in {"plan", "rewrite", "transfer"} -> PlanStages
    [] c = "fetch" -> FetchStages
    [] c = "migrate" -> MigrateStages
    [] c \in {"import", "handoff"} -> ImportStages
    [] c = "verify" -> VerifyStages

(* The calls that tsync_import, tsync_verify, tsync_handoff and tsync_fetch *)
(* make; migrate runs the first three.                                      *)
Kinds(c, s) ==
  CASE c = "import" -> IF s = "dest" THEN {"read", "limit", "add", "stop", "recheck"}
                                     ELSE {"read"}
    [] c = "verify" -> {"read", "recheck"}
    [] c = "handoff" -> IF s = "dest" THEN {"read", "limit", "start"} ELSE {"read", "stop"}
    [] c = "migrate" -> IF s = "dest"
                          THEN {"read", "limit", "add", "stop", "recheck", "start"}
                          ELSE {"read", "stop"}
    [] c = "fetch" -> {"read"}
    [] OTHER -> {}

Init ==
  /\ SessionInit
  /\ cmd = "none"
  /\ todo = <<>>

At(stage) == cmd # "none" /\ todo[1] = stage
Advance == todo' = Tail(todo) /\ UNCHANGED <<cmd, sessionVars>>

(* The process ends and its sessions with it, whatever the exit code.       *)
\* Mutant of End: the session outlives its command.
EndLoggedIn == cmd' = "none" /\ todo' = <<>> /\ UNCHANGED <<servers, session>>
End ==
  /\ cmd' = "none"
  /\ todo' = <<>>
  /\ session' = [s \in Servers |-> NoSession]
  /\ known' = [s \in Servers |-> FALSE]
  /\ UNCHANGED <<torrents, limit, version>>
Exit == End /\ UNCHANGED <<call, result, faults>>

Type(c) ==
  /\ cmd = "none"
  /\ cmd' = c
  /\ todo' = Stages(c)
  /\ result' = NoResult
  /\ UNCHANGED <<servers, session, call, faults>>

(* --to; the word of --from-step or --partial, which parses or does not;    *)
(* --bt-backup or else default_bt_backup.                                   *)
CheckTo ==
  /\ At("to")
  /\ \E to \in {"", "/", "/data"} : IF to \in {"", "/"} THEN Exit ELSE Advance
ParseWord ==
  /\ At("word")
  /\ Advance \/ Exit
LocateBackup ==
  /\ At("backup")
  /\ \E given, home \in BOOLEAN : IF given \/ home THEN Advance ELSE Exit

(* The password comes from the environment, then Session::login sends its    *)
(* two requests, the first of which may fail like any other.                *)
Login(s) ==
  /\ At(s)
  /\ \E password \in {"unset", "wrong", "right"} :
       \/ /\ password # "unset"
          /\ LoginAccepted(LoginReply(Running(s), password = "right"))
          /\ Authenticate(s)
          /\ todo' = Tail(todo)
          /\ UNCHANGED cmd
       \/ Exit
LoginVersion(s) ==
  /\ At(VersionStage(s))
  /\ AskVersion(s)
  /\ todo' = Tail(todo)
  /\ UNCHANGED cmd

(* No --source-url. *)
NoSource ==
  /\ At("source")
  /\ todo' = Tail(Tail(todo))
  /\ UNCHANGED <<cmd, sessionVars>>

Call ==
  /\ At("body")
  /\ \E s \in Servers, op \in Op : op.kind \in Kinds(cmd, s) /\ Ask(s, op)
  /\ UNCHANGED <<cmd, todo>>

Finish ==
  /\ At("body")
  /\ call = NoCall
  /\ Exit

Kill ==
  /\ cmd # "none"
  /\ faults < MaxFaults
  /\ faults' = faults + 1
  /\ End
  /\ call' = NoCall
  /\ result' = IF call = NoCall THEN result ELSE [server |-> call.server, ok |-> FALSE]

Startup ==
  \/ CheckTo \/ ParseWord \/ LocateBackup \/ NoSource
  \/ \E s \in Servers : Login(s) \/ LoginVersion(s)
Program == Startup \/ Call \/ Finish

Next ==
  \/ Program \/ Kill
  \/ \E c \in Commands : Type(c)
  \/ SessionStep /\ UNCHANGED <<cmd, todo>>

(* The command goes on, its body comes to an end, and a server that is up    *)
(* answers.                                                                 *)
Fairness ==
  /\ WF_vars(Startup)
  /\ SF_vars(Finish)
  /\ WF_vars((Serve \/ Deliver) /\ UNCHANGED <<cmd, todo>>)

Spec == Init /\ [][Next]_vars /\ Fairness

------------------------------------------------------------------------------
TypeOK ==
  /\ SessionTypeOK
  /\ cmd \in Commands \cup {"none"}
  /\ cmd = "none" <=> todo = <<>>
  /\ call # NoCall => At("body") /\ call.op.kind \in Kinds(cmd, call.server)
  /\ \A s \in Servers : session[s] # NoSession => cmd # "none"
==============================================================================
