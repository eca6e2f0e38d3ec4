------------------------------- MODULE Session -------------------------------
(***************************************************************************)
(* tsync_qbt::Session (crates/qbt): logging in to a qBittorrent server,    *)
(* guessing from its WebAPI version whether it speaks stop/start or        *)
(* pause/resume, and every later call as one request with the cookie and   *)
(* the paths of that moment.  The server may be restarted or upgraded at   *)
(* any time and then knows the cookie no more; requests and replies are    *)
(* lost.  Nothing retries and nothing times out.                           *)
(***************************************************************************)
EXTENDS Naturals, Sequences

CONSTANTS
  Servers,    \* the clients, by the address they are reached at
  Hashes,
  Limits,     \* global download limits
  Versions,   \* WebAPI versions, two parts or more each, oldest first
  MaxFaults   \* bound: lost messages, restarts, kills and the user's own starts

ASSUME SessionAssumption ==
  /\ Versions \in Seq(Seq(Nat))
  /\ \A v \in DOMAIN Versions : Len(Versions[v]) >= 2
  /\ MaxFaults \in Nat

VARIABLES
  torrents,   \* per server: "absent", "stopped" or "running"
  limit,      \* per server: its global download limit
  version,    \* per server: index into Versions of what it runs
  known,      \* per server: does it know the cookie the program holds?
  session,    \* per server: the program's Session
  call,       \* the request under way
  result,     \* how the last call of this command was answered, and by whom
  faults

servers == <<torrents, limit, version, known>>
sessionVars == <<servers, session, call, result, faults>>

(* "read" stands for list, files and download_limit; a recheck too leaves    *)
(* alone what is told apart here.                                           *)
Op == [kind : {"read", "recheck"}] \cup [kind : {"add", "stop", "start"}, hash : Hashes]
        \cup [kind : {"limit"}, value : Limits]

NoCall == [op |-> "none"]
NoReply == [status |-> 0]
NoSession == [told |-> FALSE]
NoResult == [server |-> "none"]

(* uses_stop_endpoint: a part that is missing counts as 0. *)
Part(v, i) == IF i \in DOMAIN v THEN v[i] ELSE 0
\* Mutant of UsesStopEndpoint: the next release is taken for the first.
UsesStopEndpointLate(v) == Part(v, 1) > 2 \/ (Part(v, 1) = 2 /\ Part(v, 2) >= 12)
UsesStopEndpoint(v) == Part(v, 1) > 2 \/ (Part(v, 1) = 2 /\ Part(v, 2) >= 11)

StopNames == [stop |-> "stop", start |-> "start"]
PauseNames == [stop |-> "pause", start |-> "resume"]

------------------------------------------------------------------------------
(* The server's side: not this repository's code. *)

Running(s) == Versions[version[s]]
Renamed(v) == v[1] > 2 \/ (v[1] = 2 /\ v[2] >= 11)   \* "WebAPI 2.11 renamed"
AnswersJson(v) == v[1] > 2 \/ (v[1] = 2 /\ v[2] >= 12)

(* Older: 200 "Ok." or "Fails."; 5.2: 204 or 401. *)
LoginReply(v, good) ==
  CASE good /\ AnswersJson(v) -> [status |-> 204, body |-> "", cookie |-> "QBT_SID_8080"]
    [] good /\ ~AnswersJson(v) -> [status |-> 200, body |-> "Ok.", cookie |-> "SID"]
    [] ~good /\ AnswersJson(v) -> [status |-> 401, body |-> "", cookie |-> "none"]
    [] OTHER -> [status |-> 200, body |-> "Fails.", cookie |-> "none"]

Json(successes, failures, ids) ==
  [success_count |-> successes, failure_count |-> failures, added_torrent_ids |-> ids]

AddReplies(v, h, added) ==
  CASE added /\ AnswersJson(v) -> {[status |-> 200, json |-> Json(1, 0, {h})]}
    [] ~added /\ AnswersJson(v) -> {[status |-> 200, json |-> Json(0, 1, {})]}
    [] added /\ ~AnswersJson(v) -> {[status |-> 200, body |-> "Ok."], [status |-> 204]}
    [] OTHER -> {[status |-> 200, body |-> "Fails."]}

(* "4.x reads paused. 5.x renamed it to stopped and ignores paused." *)
StartsPaused(v, fields) == (IF Renamed(v) THEN "stopped" ELSE "paused") \in fields
Endpoints(v) == IF Renamed(v) THEN {"stop", "start"} ELSE {"pause", "resume"}

------------------------------------------------------------------------------
(* The program's side. *)

(* cookie_sid *)
CookieSid(cookie) == cookie \in {"SID", "QBT_SID_8080"}

(* Session::login, after a reply: ureq makes an error of a status from 400. *)
LoginAccepted(reply) ==
  /\ reply.status < 400
  /\ CookieSid(reply.cookie)
  /\ reply.status = 204 \/ reply.body = "Ok."

\* Mutant of AddFields: as before the renaming.
AddFieldsOld == {"paused"}
AddFields == {"paused", "stopped"}

\* Mutant of AddAccepted: a status of 200 is success.
AddAcceptedByStatus(reply) == reply.status < 400
AddAccepted(reply) ==
  \/ reply.status = 204
  \/ "body" \in DOMAIN reply /\ reply.body = "Ok."
  \/ /\ "json" \in DOMAIN reply
     /\ reply.json.failure_count = 0
     /\ reply.json.success_count > 0 \/ reply.json.added_torrent_ids # {}

Accepted(op, reply) ==
  /\ reply.status < 400
  /\ op.kind = "add" => AddAccepted(reply)

(* The path a call is posted to, where the name depends on the session. *)
PathOf(s, op) ==
  CASE op.kind = "stop" -> session[s].names.stop
    [] op.kind = "start" -> session[s].names.start
    [] OTHER -> "common"

SessionInit ==
  /\ torrents \in [Servers -> [Hashes -> {"absent", "stopped", "running"}]]
  /\ limit \in [Servers -> Limits]
  /\ version \in [Servers -> 1..Len(Versions)]
  /\ known = [s \in Servers |-> FALSE]
  /\ session = [s \in Servers |-> NoSession]
  /\ call = NoCall
  /\ result = NoResult
  /\ faults = 0

(* POST auth/login, accepted.  The session starts out with the newer names.  *)
Authenticate(s) ==
  /\ known' = [known EXCEPT ![s] = TRUE]
  /\ session' = [session EXCEPT ![s] = [names |-> StopNames, told |-> FALSE]]
  /\ UNCHANGED <<torrents, limit, version, call, result, faults>>

(* GET app/webapiVersion, a request of its own: an error is no reason to     *)
(* give up the login, the newer names are kept.                             *)
\* Mutant of AskVersion: the answer is not used.
AskVersionInVain(s) == UNCHANGED sessionVars
AskVersion(s) ==
  /\ \/ /\ known[s]
        /\ session' = [session EXCEPT ![s] =
                         [names |-> IF UsesStopEndpoint(Running(s))
                                      THEN StopNames ELSE PauseNames,
                          told |-> TRUE]]
        /\ UNCHANGED faults
     \/ /\ ~known[s]
        /\ UNCHANGED <<session, faults>>
     \/ /\ faults < MaxFaults
        /\ faults' = faults + 1
        /\ UNCHANGED session
  /\ UNCHANGED <<servers, call, result>>

Ask(s, op) ==
  /\ call = NoCall
  /\ session[s] # NoSession
  /\ call' = [server |-> s, op |-> op, done |-> FALSE, reply |-> NoReply]
  /\ result' = NoResult
  /\ UNCHANGED <<servers, session, faults>>

(* What carrying out an operation does to the torrents and the limit. *)
After(op, world) ==
  CASE op.kind = "add" -> [world EXCEPT !.torrents[op.hash] = "stopped"]
    [] op.kind = "stop" /\ world.torrents[op.hash] = "running" ->
         [world EXCEPT !.torrents[op.hash] = "stopped"]
    [] op.kind = "start" /\ world.torrents[op.hash] = "stopped" ->
         [world EXCEPT !.torrents[op.hash] = "running"]
    [] op.kind = "limit" -> [world EXCEPT !.limit = op.value]
    [] OTHER -> world
World(s) == [torrents |-> torrents[s], limit |-> limit[s]]

(* The server handles the request: not before it has read the cookie and     *)
(* found the path.                                                          *)
Serve ==
  /\ call # NoCall
  /\ call.reply = NoReply
  /\ LET s == call.server
         op == call.op
         new == op.kind = "add" /\ torrents[s][op.hash] = "absent"
         Reply(reply, done) == call' = [call EXCEPT !.reply = reply, !.done = done]
     IN \/ /\ ~known[s]
           /\ Reply([status |-> 403], FALSE)
           /\ UNCHANGED <<torrents, limit>>
        \/ /\ known[s]
           /\ PathOf(s, op) \notin Endpoints(Running(s)) \cup {"common"}
           /\ Reply([status |-> 404], FALSE)
           /\ UNCHANGED <<torrents, limit>>
        \/ /\ known[s]
           /\ op.kind = "add"
           /\ \E reply \in AddReplies(Running(s), op.hash, new) : Reply(reply, new)
           /\ torrents' = [torrents EXCEPT ![s][op.hash] =
                IF ~new THEN @
                ELSE IF StartsPaused(Running(s), AddFields) THEN "stopped" ELSE "running"]
           /\ UNCHANGED limit
        \/ /\ known[s]
           /\ op.kind # "add"
           /\ PathOf(s, op) \in Endpoints(Running(s)) \cup {"common"}
           /\ Reply([status |-> 200], TRUE)
           /\ torrents' = [torrents EXCEPT ![s] = After(op, World(s)).torrents]
           /\ limit' = [limit EXCEPT ![s] = After(op, World(s)).limit]
  /\ UNCHANGED <<version, known, session, result, faults>>

(* The reply arrives, or the connection breaks with the request handled or  *)
(* not: the caller cannot tell which.                                       *)
Answer(ok) ==
  /\ call' = NoCall
  /\ result' = [server |-> call.server, ok |-> ok]
  /\ UNCHANGED <<servers, session>>
Deliver ==
  /\ call # NoCall
  /\ call.reply # NoReply
  /\ Answer(Accepted(call.op, call.reply))
  /\ UNCHANGED faults
Lose ==
  /\ call # NoCall
  /\ faults < MaxFaults
  /\ faults' = faults + 1
  /\ Answer(FALSE)

(* The client is restarted, perhaps as a newer one. *)
Restart(s) ==
  /\ faults < MaxFaults
  /\ faults' = faults + 1
  /\ known' = [known EXCEPT ![s] = FALSE]
  /\ \E v \in version[s]..Len(Versions) : version' = [version EXCEPT ![s] = v]
  /\ UNCHANGED <<torrents, limit, session, call, result>>

(* Its user starts a torrent by hand. *)
UserStarts(s, h) ==
  /\ faults < MaxFaults
  /\ faults' = faults + 1
  /\ torrents[s][h] = "stopped"
  /\ torrents' = [torrents EXCEPT ![s][h] = "running"]
  /\ UNCHANGED <<limit, version, known, session, call, result>>

SessionStep ==
  \/ Serve \/ Deliver \/ Lose
  \/ \E s \in Servers : Restart(s)
  \/ \E s \in Servers, h \in Hashes : UserStarts(s, h)

------------------------------------------------------------------------------
SessionTypeOK ==
  /\ torrents \in [Servers -> [Hashes -> {"absent", "stopped", "running"}]]
  /\ limit \in [Servers -> Limits]
  /\ version \in [Servers -> 1..Len(Versions)]
  /\ known \in [Servers -> BOOLEAN]
  /\ session \in [Servers -> {NoSession}
                    \cup [names : {StopNames, PauseNames}, told : BOOLEAN]]
  /\ call = NoCall \/ /\ call.server \in Servers
                      /\ call.op \in Op
                      /\ call.done => call.reply # NoReply
  /\ result \in {NoResult} \cup [server : Servers, ok : BOOLEAN]
  /\ faults \in 0..MaxFaults

(* The endpoints a session settled on at login are right for as long as the *)
(* server takes its cookie: an upgrade, which may rename them, forgets the  *)
(* cookie too, also when it falls between the two requests of a login.      *)
LiveSessionSpeaks ==
  \A s \in Servers :
    known[s] /\ session[s].told
      => {session[s].names.stop, session[s].names.start} = Endpoints(Running(s))

(* Each server keeps the promise of ClientCalls to the program, through      *)
(* wrong guesses, lost messages, restarts and upgrades.                     *)
Promise(s) == INSTANCE ClientCalls WITH
  Ops <- Op, After <- After, NoCall <- NoCall, world <- World(s),
  call <- IF call # NoCall /\ call.server = s
            THEN [op |-> call.op, done |-> call.done] ELSE NoCall,
  result <- IF result = [server |-> s, ok |-> TRUE] THEN "ok"
            ELSE IF result = [server |-> s, ok |-> FALSE] THEN "err" ELSE "none"
ImplementsClient ==
  /\ \A s \in Servers : Promise(s)!Init
  /\ [][\A s \in Servers : [Promise(s)!Next]_(Promise(s)!seen)]_sessionVars

(* A stop that is asked for again and again gets through in the end: a       *)
(* wrong guess or a forgotten cookie lasts no longer than one command.      *)
StopsInTheEnd ==
  \A s \in Servers, h \in Hashes :
    []<>(call # NoCall /\ call.server = s /\ call.op = [kind |-> "stop", hash |-> h])
      => []<>(torrents[s][h] # "running")
==============================================================================
