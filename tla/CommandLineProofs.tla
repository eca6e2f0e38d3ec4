-------------------------- MODULE CommandLineProofs --------------------------
(***************************************************************************)
(* What a session keeps and what a call through it may be taken for, for   *)
(* any command line, any number of hashes and limits, any list of server   *)
(* versions, and any number of lost messages, restarts, upgrades and       *)
(* kills; and that doctor looks for what the other commands will, on any   *)
(* machine.                                                                *)
(***************************************************************************)
EXTENDS CommandLine, Doctor, TLAPS

USE SessionAssumption, CommandAssumption, DoctorAssumption

(* The inductive invariant, beside the types: what is left of a command is the *)
(* end of its stages; a call under way has not been answered before; a reply   *)
(* that the program will take for success belongs to what was carried out; and *)
(* a live session knows the names of its server.                               *)
Stage ==
  {"to", "word", "backup", "dest", "dest version", "source", "source version", "body"}
EndOfStages(t) ==
  /\ t \in Seq(Stage)
  /\ Len(t) > 0
  /\ \A i \in 1..Len(t) : i = Len(t) => t[i] = "body"
  /\ \A i \in 1..Len(t) : t[i] = "source" => i < Len(t) - 1

Replies ==
  {NoReply, [status |-> 403], [status |-> 404], [status |-> 200], [status |-> 204],
   [status |-> 200, body |-> "Ok."], [status |-> 200, body |-> "Fails."],
   [status |-> 200, json |-> Json(0, 1, {})]}
  \cup {[status |-> 200, json |-> Json(1, 0, {h})] : h \in Hashes}
Request == [server : Servers, op : Op, done : BOOLEAN, reply : Replies]

CommandEnds == cmd # "none" => EndOfStages(todo)
CallShape == call \in {NoCall} \cup Request
SuccessIsDone == call # NoCall /\ Accepted(call.op, call.reply) /\ call.reply # NoReply => call.done
AskedAfresh == call # NoCall => result = NoResult

SessionInv == CommandEnds /\ CallShape /\ SuccessIsDone /\ AskedAfresh /\ LiveSessionSpeaks
------------------------------------------------------------------------------
LEMMA TailOfStages ==
  ASSUME NEW t, EndOfStages(t), Len(t) # 1
  PROVE  EndOfStages(Tail(t)) /\ Len(Tail(t)) = Len(t) - 1
<1>1. t \in Seq(Stage)
  BY DEF EndOfStages
<1>2. Len(t) \in Nat /\ Len(t) > 1
  <2>1. Len(t) \in Nat
    BY <1>1
  <2>2. Len(t) > 0
    BY DEF EndOfStages
  <2>3. \A n \in Nat : n > 0 /\ n # 1 => n > 1
    OBVIOUS
  <2> QED
    BY <2>1, <2>2, <2>3, Zenon
<1>3. /\ Tail(t) \in Seq(Stage) /\ Len(Tail(t)) = Len(t) - 1
      /\ \A i \in 1..Len(t) - 1 : Tail(t)[i] = t[i + 1]
  BY <1>1, <1>2
<1>4. ASSUME NEW i \in 1..Len(t) - 1
      PROVE  /\ i = Len(t) - 1 => Tail(t)[i] = "body"
             /\ Tail(t)[i] = "source" => i < Len(t) - 1 - 1
  <2>1. i + 1 \in 1..Len(t) /\ Tail(t)[i] = t[i + 1]
    BY <1>2, <1>3
  <2>2. i + 1 = Len(t) => t[i + 1] = "body"
    BY <2>1 DEF EndOfStages
  <2>3. t[i + 1] = "source" => i + 1 < Len(t) - 1
    BY <2>1 DEF EndOfStages
  <2> QED
    BY <1>2, <2>1, <2>2, <2>3
<1>5. Len(Tail(t)) > 0
  <2>1. \A n \in Nat : n > 1 => n - 1 > 0
    OBVIOUS
  <2> QED
    BY <1>2, <1>3, <2>1, Zenon
<1> QED
  BY <1>3, <1>4, <1>5 DEF EndOfStages

LEMMA StagesEnd ==
  ASSUME NEW t, EndOfStages(t)
  PROVE  /\ t # <<>>
         /\ t[1] # "body" => EndOfStages(Tail(t))
         /\ t[1] = "source" => EndOfStages(Tail(Tail(t)))
<1>1. t # <<>>
  BY DEF EndOfStages
<1>2. Len(t) \in Nat
  BY DEF EndOfStages
<1>3. 1 \in 1..Len(t)
  BY <1>2 DEF EndOfStages
<1>4. t[1] # "body" => Len(t) # 1
  BY <1>3 DEF EndOfStages
<1>5. t[1] = "source" => 1 < Len(t) - 1
  BY <1>3 DEF EndOfStages
<1>7. \A n \in Nat : 1 < n - 1 => n # 1 /\ n - 1 # 1
  OBVIOUS
<1>6. ASSUME t[1] = "source" PROVE EndOfStages(Tail(Tail(t)))
  <2>1. Len(t) # 1
    BY <1>2, <1>5, <1>6, <1>7, Zenon
  <2>2. EndOfStages(Tail(t)) /\ Len(Tail(t)) # 1
    <3>1. Len(Tail(t)) = Len(t) - 1
      BY <2>1, TailOfStages
    <3>2. Len(t) - 1 # 1
      BY <1>2, <1>5, <1>6, <1>7, Zenon
    <3> QED
      BY <2>1, <3>1, <3>2, TailOfStages
  <2> QED
    BY <2>2, TailOfStages
<1> QED
  BY <1>1, <1>4, <1>6, TailOfStages

LEMMA StagesOf ==
  ASSUME NEW c \in Commands
  PROVE  EndOfStages(Stages(c)) /\ c # "none"
<1>1. EndOfStages(AuditStages)
  <2>1. AuditStages \in Seq(Stage)
    BY DEF AuditStages, Stage
  <2>2. Len(AuditStages) = 2
    BY DEF AuditStages
  <2>3. \A i \in 1..2 : i = 2 => AuditStages[i] = "body"
    BY DEF AuditStages
  <2>4. \A i \in 1..2 : AuditStages[i] = "source" => i < 1
    BY DEF AuditStages
  <2> QED
    BY <2>1, <2>2, <2>3, <2>4 DEF EndOfStages
<1>2. EndOfStages(PlanStages)
  <2>1. PlanStages \in Seq(Stage)
    BY DEF PlanStages, Stage
  <2>2. Len(PlanStages) = 3
    BY DEF PlanStages
  <2>3. \A i \in 1..3 : i = 3 => PlanStages[i] = "body"
    BY DEF PlanStages
  <2>4. \A i \in 1..3 : PlanStages[i] = "source" => i < 2
    BY DEF PlanStages
  <2> QED
    BY <2>1, <2>2, <2>3, <2>4 DEF EndOfStages
<1>3. EndOfStages(FetchStages)
  <2>1. FetchStages \in Seq(Stage)
    BY DEF FetchStages, Stage
  <2>2. Len(FetchStages) = 5
    BY DEF FetchStages
  <2>3. \A i \in 1..5 : i = 5 => FetchStages[i] = "body"
    BY DEF FetchStages
  <2>4. ASSUME NEW i \in 1..5, FetchStages[i] = "source" PROVE i < 4
    <3>1. CASE i = 4
      BY <2>4, <3>1 DEF FetchStages
    <3>2. CASE i = 5
      BY <2>4, <3>2 DEF FetchStages
    <3> QED
      BY <3>1, <3>2
  <2> QED
    BY <2>1, <2>2, <2>3, <2>4 DEF EndOfStages
<1>4. EndOfStages(MigrateStages)
  <2>1. MigrateStages \in Seq(Stage)
    BY DEF MigrateStages, Stage
  <2>2. Len(MigrateStages) = 8
    BY DEF MigrateStages
  <2>3. \A i \in 1..8 : i = 8 => MigrateStages[i] = "body"
    BY DEF MigrateStages
  <2>4. ASSUME NEW i \in 1..8, MigrateStages[i] = "source" PROVE i < 7
    <3>1. CASE i = 7
      BY <2>4, <3>1 DEF MigrateStages
    <3>2. CASE i = 8
      BY <2>4, <3>2 DEF MigrateStages
    <3> QED
      BY <3>1, <3>2
  <2> QED
    BY <2>1, <2>2, <2>3, <2>4 DEF EndOfStages
<1>5. EndOfStages(ImportStages)
  <2>1. ImportStages \in Seq(Stage)
    BY DEF ImportStages, Stage
  <2>2. Len(ImportStages) = 5
    BY DEF ImportStages
  <2>3. \A i \in 1..5 : i = 5 => ImportStages[i] = "body"
    BY DEF ImportStages
  <2>4. ASSUME NEW i \in 1..5, ImportStages[i] = "source" PROVE i < 4
    <3>1. CASE i = 4
      BY <2>4, <3>1 DEF ImportStages
    <3>2. CASE i = 5
      BY <2>4, <3>2 DEF ImportStages
    <3> QED
      BY <3>1, <3>2
  <2> QED
    BY <2>1, <2>2, <2>3, <2>4 DEF EndOfStages
<1>6. EndOfStages(VerifyStages)
  <2>1. VerifyStages \in Seq(Stage)
    BY DEF VerifyStages, Stage
  <2>2. Len(VerifyStages) = 3
    BY DEF VerifyStages
  <2>3. \A i \in 1..3 : i = 3 => VerifyStages[i] = "body"
    BY DEF VerifyStages
  <2>4. ASSUME NEW i \in 1..3, VerifyStages[i] = "source" PROVE i < 2
    <3>1. CASE i = 2
      BY <2>4, <3>1 DEF VerifyStages
    <3>2. CASE i = 3
      BY <2>4, <3>2 DEF VerifyStages
    <3> QED
      BY <3>1, <3>2
  <2> QED
    BY <2>1, <2>2, <2>3, <2>4 DEF EndOfStages
<1>7. c \in AllCommands
  OBVIOUS
<1> QED
  BY <1>1, <1>2, <1>3, <1>4, <1>5, <1>6, <1>7 DEF Stages, AllCommands

LEMMA RequestFacts ==
  ASSUME NEW r \in Request
  PROVE  r # NoCall /\ r.server \in Servers /\ r.op \in Op /\ r.done \in BOOLEAN
         /\ r.reply \in Replies
<1>1. "server" \in DOMAIN r /\ "server" \notin DOMAIN NoCall
  BY DEF Request, NoCall
<1> QED
  BY <1>1 DEF Request

LEMMA NewRequest ==
  ASSUME NEW s \in Servers, NEW op \in Op
  PROVE  [server |-> s, op |-> op, done |-> FALSE, reply |-> NoReply] \in Request
  BY DEF Request, Replies

(* Success is only what the server says it has done.                          *)
LEMMA Refusals ==
  /\ \A op : ~Accepted(op, [status |-> 403]) /\ ~Accepted(op, [status |-> 404])
  /\ [status |-> 403] \in Replies /\ [status |-> 404] \in Replies /\ [status |-> 200] \in Replies
  /\ [status |-> 403] # NoReply /\ [status |-> 404] # NoReply /\ [status |-> 200] # NoReply
  BY DEF Accepted, Replies, NoReply

LEMMA AddAnswers ==
  ASSUME NEW v, NEW h \in Hashes, NEW added \in BOOLEAN, NEW reply \in AddReplies(v, h, added)
  PROVE  reply \in Replies /\ (AddAccepted(reply) => added) /\ reply # NoReply
<1>1. CASE added
  <2>1. reply \in {[status |-> 200, json |-> Json(1, 0, {h})], [status |-> 200, body |-> "Ok."],
                   [status |-> 204]}
    BY <1>1 DEF AddReplies
  <2>2. reply \in Replies
    <3>1. CASE reply = [status |-> 200, json |-> Json(1, 0, {h})]
      <4>1. reply \in {[status |-> 200, json |-> Json(1, 0, {g})] : g \in Hashes}
        BY <3>1, Zenon
      <4> QED
        BY <4>1, Zenon DEF Replies
    <3>2. CASE reply = [status |-> 200, body |-> "Ok."]
      BY <3>2 DEF Replies
    <3>3. CASE reply = [status |-> 204]
      BY <3>3 DEF Replies
    <3> QED
      BY <2>1, <3>1, <3>2, <3>3
  <2>3. reply.status # 0
    BY <2>1
  <2> QED
    BY <1>1, <2>2, <2>3 DEF NoReply
<1>2. CASE ~added
  <2>1. reply \in {[status |-> 200, json |-> Json(0, 1, {})], [status |-> 200, body |-> "Fails."]}
    BY <1>2 DEF AddReplies
  <2>2. reply \in Replies /\ reply.status = 200
    BY <2>1 DEF Replies
  <2>3. ~AddAccepted(reply)
    <3>1. CASE reply = [status |-> 200, json |-> Json(0, 1, {})]
      <4>1. reply.json.failure_count = 1 /\ "body" \notin DOMAIN reply
        BY <3>1 DEF Json
      <4> QED
        BY <2>2, <4>1 DEF AddAccepted
    <3>2. CASE reply = [status |-> 200, body |-> "Fails."]
      <4>1. reply.body = "Fails." /\ "json" \notin DOMAIN reply
        BY <3>2
      <4> QED
        BY <2>2, <4>1 DEF AddAccepted
    <3> QED
      BY <2>1, <3>1, <3>2
  <2> QED
    BY <2>2, <2>3 DEF NoReply
<1> QED
  BY <1>1, <1>2
------------------------------------------------------------------------------
(* A request handled: what it may leave behind.                               *)
Answered(reply, done) == call' = [call EXCEPT !.reply = reply, !.done = done]

LEMMA AnsweredCall ==
  ASSUME call \in Request, NEW reply \in Replies, NEW done \in BOOLEAN, Answered(reply, done)
  PROVE  /\ call' \in Request /\ call' # NoCall
         /\ call'.server = call.server /\ call'.op = call.op
         /\ call'.reply = reply /\ call'.done = done
<1>1. /\ call' \in Request
      /\ call'.server = call.server /\ call'.op = call.op
      /\ call'.reply = reply /\ call'.done = done
  BY DEF Request, Answered
<1> QED
  BY <1>1, RequestFacts

LEMMA ServeLeaves ==
  ASSUME TypeOK, CallShape, Serve
  PROVE  LET s == call.server
             op == call.op
         IN /\ call \in Request /\ ~call.done
            /\ UNCHANGED <<version, known, session, result, faults>>
            /\ \E reply \in Replies :
                 /\ reply # NoReply
                 /\ \/ /\ Answered(reply, FALSE) /\ ~Accepted(op, reply)
                       /\ UNCHANGED <<torrents, limit>>
                    \/ /\ Answered(reply, TRUE)
                       /\ torrents' = [torrents EXCEPT ![s] = After(op, World(s)).torrents]
                       /\ limit' = [limit EXCEPT ![s] = After(op, World(s)).limit]
<1> DEFINE s == call.server
           op == call.op
<1>1. call \in Request /\ s \in Servers /\ op \in Op /\ ~call.done
  BY RequestFacts DEF CallShape, Serve, TypeOK, SessionTypeOK
<1>2. UNCHANGED <<version, known, session, result, faults>>
  BY DEF Serve
<1> DEFINE new == op.kind = "add" /\ torrents[s][op.hash] = "absent"
<1>3. \/ Answered([status |-> 403], FALSE) /\ UNCHANGED <<torrents, limit>>
      \/ Answered([status |-> 404], FALSE) /\ UNCHANGED <<torrents, limit>>
      \/ /\ op.kind = "add"
         /\ \E reply \in AddReplies(Running(s), op.hash, new) : Answered(reply, new)
         /\ torrents' = [torrents EXCEPT ![s][op.hash] =
              IF ~new THEN @
              ELSE IF StartsPaused(Running(s), AddFields) THEN "stopped" ELSE "running"]
         /\ limit' = limit
      \/ /\ Answered([status |-> 200], TRUE)
         /\ torrents' = [torrents EXCEPT ![s] = After(op, World(s)).torrents]
         /\ limit' = [limit EXCEPT ![s] = After(op, World(s)).limit]
  BY DEF Serve, Answered
<1> DEFINE Refused(reply) == /\ Answered(reply, FALSE) /\ ~Accepted(op, reply)
                             /\ UNCHANGED <<torrents, limit>>
           Done(reply) ==
             /\ Answered(reply, TRUE)
             /\ torrents' = [torrents EXCEPT ![s] = After(op, World(s)).torrents]
             /\ limit' = [limit EXCEPT ![s] = After(op, World(s)).limit]
<1>8. SUFFICES \E reply \in Replies : reply # NoReply /\ (Refused(reply) \/ Done(reply))
  BY <1>1, <1>2
<1>4. CASE Answered([status |-> 403], FALSE) /\ UNCHANGED <<torrents, limit>>
  <2>2. ~Accepted(op, [status |-> 403])
    BY Refusals
  <2>1. Refused([status |-> 403])
    BY <1>4, <2>2
  <2> HIDE DEF Refused
  <2> QED
    BY <2>1, Refusals
<1>5. CASE Answered([status |-> 404], FALSE) /\ UNCHANGED <<torrents, limit>>
  <2>2. ~Accepted(op, [status |-> 404])
    BY Refusals
  <2>1. Refused([status |-> 404])
    BY <1>5, <2>2
  <2> HIDE DEF Refused
  <2> QED
    BY <2>1, Refusals
<1>6. CASE /\ Answered([status |-> 200], TRUE)
           /\ torrents' = [torrents EXCEPT ![s] = After(op, World(s)).torrents]
           /\ limit' = [limit EXCEPT ![s] = After(op, World(s)).limit]
  <2>1. Done([status |-> 200])
    BY <1>6
  <2> HIDE DEF Done
  <2> QED
    BY <2>1, Refusals
<1>7. CASE /\ op.kind = "add"
           /\ \E reply \in AddReplies(Running(s), op.hash, new) : Answered(reply, new)
           /\ torrents' = [torrents EXCEPT ![s][op.hash] =
                IF ~new THEN @
                ELSE IF StartsPaused(Running(s), AddFields) THEN "stopped" ELSE "running"]
           /\ limit' = limit
  <2>1. PICK reply \in AddReplies(Running(s), op.hash, new) : Answered(reply, new)
    BY <1>7
  <2>2. op.hash \in Hashes
    BY <1>1, <1>7 DEF Op
  <2>3. new \in BOOLEAN
    OBVIOUS
  <2>4. reply \in Replies /\ (AddAccepted(reply) => new) /\ reply # NoReply
    <3> HIDE DEF new
    <3> QED
      BY <2>1, <2>2, <2>3, AddAnswers
  <2>5. CASE ~new
    <3>1. ~Accepted(op, reply) /\ Answered(reply, FALSE)
      BY <1>7, <2>1, <2>4, <2>5 DEF Accepted, Answered
    <3>2. torrents' = torrents
      BY <1>1, <1>7, <2>2, <2>5 DEF TypeOK, SessionTypeOK
    <3> QED
      BY <1>7, <2>4, <3>1, <3>2
  <2>6. CASE new
    <3>1. Answered(reply, TRUE)
      BY <2>1, <2>6 DEF Answered
    <3>2. StartsPaused(Running(s), AddFields)
      BY DEF StartsPaused, AddFields
    <3>3. torrents' = [torrents EXCEPT ![s][op.hash] = "stopped"]
      BY <1>7, <2>6, <3>2
    <3>4. After(op, World(s)) = [World(s) EXCEPT !.torrents[op.hash] = "stopped"]
      BY <1>7 DEF After
    <3>5. /\ After(op, World(s)).torrents = [torrents[s] EXCEPT ![op.hash] = "stopped"]
          /\ After(op, World(s)).limit = limit[s]
      BY <3>4 DEF World
    <3>6. torrents' = [torrents EXCEPT ![s] = After(op, World(s)).torrents]
      BY <1>1, <2>2, <3>3, <3>5 DEF TypeOK, SessionTypeOK
    <3>7. limit' = [limit EXCEPT ![s] = After(op, World(s)).limit]
      BY <1>1, <1>7, <3>5 DEF TypeOK, SessionTypeOK
    <3> QED
      BY <2>4, <3>1, <3>6, <3>7
  <2> QED
    BY <2>5, <2>6
<1> QED
  BY <1>3, <1>4, <1>5, <1>6, <1>7

(* An operation carried out leaves a world of the same kind.                  *)
LEMMA AfterType ==
  ASSUME SessionTypeOK, NEW s \in Servers, NEW op \in Op
  PROVE  LET w == After(op, World(s))
         IN /\ w.torrents \in [Hashes -> {"absent", "stopped", "running"}]
            /\ w.limit \in Limits
            /\ w = [torrents |-> w.torrents, limit |-> w.limit]
<1>1. torrents[s] \in [Hashes -> {"absent", "stopped", "running"}] /\ limit[s] \in Limits
  BY DEF SessionTypeOK
<1>2. \/ After(op, World(s)) = World(s)
      \/ /\ op.hash \in Hashes
         /\ \E state \in {"stopped", "running"} :
              After(op, World(s)) = [World(s) EXCEPT !.torrents[op.hash] = state]
      \/ op.value \in Limits /\ After(op, World(s)) = [World(s) EXCEPT !.limit = op.value]
  BY DEF After, Op
<1> DEFINE w == After(op, World(s))
           Good(x) == /\ x.torrents \in [Hashes -> {"absent", "stopped", "running"}]
                      /\ x.limit \in Limits
                      /\ x = [torrents |-> x.torrents, limit |-> x.limit]
<1> SUFFICES Good(w)
  OBVIOUS
<1>3. ASSUME w = World(s) PROVE Good(w)
  BY <1>1, <1>3 DEF World
<1>4. ASSUME op.hash \in Hashes, NEW state \in {"stopped", "running"},
             w = [World(s) EXCEPT !.torrents[op.hash] = state]
      PROVE  Good(w)
  <2> HIDE DEF w
  <2>1. w = [torrents |-> [torrents[s] EXCEPT ![op.hash] = state], limit |-> limit[s]]
    BY <1>1, <1>4 DEF World
  <2>2. [torrents[s] EXCEPT ![op.hash] = state] \in [Hashes -> {"absent", "stopped", "running"}]
    BY <1>1, <1>4
  <2> QED
    BY <1>1, <2>1, <2>2
<1>5. ASSUME op.value \in Limits, w = [World(s) EXCEPT !.limit = op.value]
      PROVE  Good(w)
  <2> HIDE DEF w
  <2>1. w = [torrents |-> torrents[s], limit |-> op.value]
    BY <1>5 DEF World
  <2>2. op.value \in Limits
    BY <1>5
  <2> QED
    BY <1>1, <2>1, <2>2
<1> HIDE DEF w, Good
<1> QED
  BY <1>2, <1>3, <1>4, <1>5 DEF w

LEMMA InitType == Init => TypeOK /\ SessionInv
<1> SUFFICES ASSUME Init PROVE TypeOK /\ SessionInv
  OBVIOUS
<1>1. SessionTypeOK
  <2>1. session \in [Servers -> {NoSession} \cup [names : {StopNames, PauseNames}, told : BOOLEAN]]
    BY DEF Init, SessionInit
  <2> QED
    BY <2>1 DEF Init, SessionInit, SessionTypeOK
<1>2. LiveSessionSpeaks
  BY DEF Init, SessionInit, LiveSessionSpeaks
<1>3. TypeOK
  BY <1>1 DEF Init, SessionInit, TypeOK
<1> QED
  BY <1>2, <1>3 DEF Init, SessionInit, SessionInv, CommandEnds, CallShape, SuccessIsDone,
     AskedAfresh

(* The command's own steps, by what they do to the session.                   *)
LoggedOut ==
  /\ session' = [s \in Servers |-> NoSession] /\ known' = [s \in Servers |-> FALSE]
  /\ UNCHANGED <<torrents, limit, version>>

LEMMA CommandSteps ==
  ASSUME TypeOK, CommandEnds, Startup
  PROVE  /\ call = NoCall
         /\ \/ Exit
            \/ /\ cmd' = cmd /\ cmd # "none" /\ EndOfStages(todo')
               /\ \/ UNCHANGED sessionVars
                  \/ \E s \in Servers : Authenticate(s) \/ AskVersion(s)
<1> DEFINE GoesOn == cmd' = cmd /\ cmd # "none" /\ EndOfStages(todo')
<1>1. cmd # "none" => EndOfStages(todo)
  BY DEF CommandEnds
<1>2. CASE CheckTo
  BY <1>1, <1>2, StagesEnd DEF CheckTo, At, Advance, TypeOK
<1>3. CASE ParseWord
  BY <1>1, <1>3, StagesEnd DEF ParseWord, At, Advance, TypeOK
<1>4. CASE LocateBackup
  BY <1>1, <1>4, StagesEnd DEF LocateBackup, At, Advance, TypeOK
<1>5. CASE NoSource
  BY <1>1, <1>5, StagesEnd DEF NoSource, At, TypeOK
<1>6. ASSUME NEW s \in Servers, Login(s)
      PROVE  call = NoCall /\ (Exit \/ (GoesOn /\ Authenticate(s)))
  <2>1. s # "body"
    BY CommandAssumption
  <2>2. /\ cmd # "none" /\ todo[1] = s
        /\ Exit \/ (Authenticate(s) /\ todo' = Tail(todo) /\ cmd' = cmd)
    BY <1>6 DEF Login, At
  <2> QED
    BY <1>1, <2>1, <2>2, StagesEnd DEF TypeOK, At
<1>7. ASSUME NEW s \in Servers, LoginVersion(s)
      PROVE  call = NoCall /\ GoesOn /\ AskVersion(s)
  BY <1>1, <1>7, StagesEnd DEF LoginVersion, VersionStage, At, TypeOK
<1> QED
  BY <1>2, <1>3, <1>4, <1>5, <1>6, <1>7 DEF Startup

LEMMA EndType ==
  ASSUME TypeOK, SessionInv, End, faults' \in 0..MaxFaults,
         call' = NoCall, result' \in {NoResult} \cup [server : Servers, ok : BOOLEAN]
  PROVE  TypeOK' /\ SessionInv'
<1>1. \A s \in Servers : session'[s] = NoSession /\ ~known'[s]
  BY DEF End
<1>2. session' \in [Servers -> {NoSession} \cup [names : {StopNames, PauseNames}, told : BOOLEAN]]
      /\ known' \in [Servers -> BOOLEAN]
  BY DEF End
<1>3. SessionTypeOK'
  BY <1>2 DEF End, TypeOK, SessionTypeOK
<1>4. TypeOK'
  BY <1>1, <1>3 DEF End, TypeOK
<1>5. LiveSessionSpeaks'
  BY <1>1 DEF LiveSessionSpeaks
<1> QED
  BY <1>4, <1>5 DEF End, SessionInv, CommandEnds, CallShape, SuccessIsDone, AskedAfresh

(* A step that leaves a command under way and no call open.                   *)
LEMMA GoesOnType ==
  ASSUME SessionTypeOK', cmd' \in Commands, cmd' # "none", EndOfStages(todo'), call' = NoCall,
         LiveSessionSpeaks'
  PROVE  TypeOK' /\ SessionInv'
<1>1. todo' # <<>>
  BY StagesEnd
<1> QED
  BY <1>1 DEF TypeOK, SessionInv, CommandEnds, CallShape, SuccessIsDone, AskedAfresh

LEMMA AuthenticateType ==
  ASSUME SessionTypeOK, LiveSessionSpeaks, NEW s \in Servers, Authenticate(s)
  PROVE  SessionTypeOK' /\ LiveSessionSpeaks'
<1>1. [names |-> StopNames, told |-> FALSE] \in [names : {StopNames, PauseNames}, told : BOOLEAN]
  OBVIOUS
<1>2. SessionTypeOK'
  BY <1>1 DEF SessionTypeOK, Authenticate
<1>3. ASSUME NEW q \in Servers, known'[q], session'[q].told
      PROVE  {session'[q].names.stop, session'[q].names.start} = Endpoints(Running(q)')
  <2>1. q # s
    BY <1>3 DEF SessionTypeOK, Authenticate
  <2>2. known'[q] = known[q] /\ session'[q] = session[q] /\ version' = version
    BY <2>1 DEF SessionTypeOK, Authenticate
  <2> QED
    BY <1>3, <2>2 DEF LiveSessionSpeaks, Running
<1> QED
  BY <1>2, <1>3 DEF LiveSessionSpeaks

(* The names chosen from the version are the names the server answers to.     *)
LEMMA NamesFit ==
  ASSUME SessionTypeOK, NEW s \in Servers
  PROVE  LET names == IF UsesStopEndpoint(Running(s)) THEN StopNames ELSE PauseNames
         IN {names.stop, names.start} = Endpoints(Running(s))
<1>1. version[s] \in DOMAIN Versions
  BY DEF SessionTypeOK
<1>2. Running(s) \in Seq(Nat) /\ Len(Running(s)) >= 2
  BY <1>1 DEF Running
<1>3. 1 \in DOMAIN Running(s) /\ 2 \in DOMAIN Running(s)
  BY <1>2
<1>4. UsesStopEndpoint(Running(s)) <=> Renamed(Running(s))
  BY <1>3 DEF UsesStopEndpoint, Renamed, Part
<1> QED
  BY <1>4 DEF Endpoints, StopNames, PauseNames

LEMMA AskVersionType ==
  ASSUME SessionTypeOK, LiveSessionSpeaks, NEW s \in Servers, AskVersion(s)
  PROVE  SessionTypeOK' /\ LiveSessionSpeaks'
<1> DEFINE names == IF UsesStopEndpoint(Running(s)) THEN StopNames ELSE PauseNames
<1>1. CASE session' = [session EXCEPT ![s] = [names |-> names, told |-> TRUE]] /\ faults' = faults
  <2>1. names \in {StopNames, PauseNames}
    OBVIOUS
  <2>2. {names.stop, names.start} = Endpoints(Running(s))
    BY NamesFit
  <2>3. UNCHANGED <<servers, call, result>>
    BY DEF AskVersion
  <2> HIDE DEF names
  <2>4. SessionTypeOK'
    BY <1>1, <2>1, <2>3 DEF SessionTypeOK, servers
  <2>5. ASSUME NEW q \in Servers, known'[q], session'[q].told
        PROVE  {session'[q].names.stop, session'[q].names.start} = Endpoints(Running(q)')
    <3>1. Running(q)' = Running(q) /\ known'[q] = known[q]
      BY <2>3 DEF Running, servers
    <3>2. CASE q = s
      <4>1. session'[q].names = names
        BY <1>1, <3>2 DEF SessionTypeOK
      <4> QED
        BY <2>2, <3>1, <3>2, <4>1
    <3>3. CASE q # s
      <4>1. session'[q] = session[q]
        BY <1>1, <3>3 DEF SessionTypeOK
      <4> QED
        BY <2>5, <3>1, <4>1 DEF LiveSessionSpeaks
    <3> QED
      BY <3>2, <3>3
  <2> QED
    BY <2>4, <2>5 DEF LiveSessionSpeaks
<1>2. CASE session' = session /\ faults' \in 0..MaxFaults
  <2>1. UNCHANGED <<servers, call, result>>
    BY DEF AskVersion
  <2>2. SessionTypeOK'
    BY <1>2, <2>1 DEF SessionTypeOK, servers
  <2>3. \A q \in Servers : Running(q)' = Running(q) /\ known'[q] = known[q]
                          /\ session'[q] = session[q]
    BY <1>2, <2>1 DEF Running, servers
  <2> QED
    BY <2>2, <2>3 DEF LiveSessionSpeaks
<1>3. faults < MaxFaults => faults + 1 \in 0..MaxFaults
  BY DEF SessionTypeOK
<1> QED
  BY <1>1, <1>2, <1>3 DEF AskVersion, SessionTypeOK

LEMMA StartupType ==
  ASSUME TypeOK, SessionInv, Startup
  PROVE  TypeOK' /\ SessionInv'
<1>1. /\ call = NoCall
      /\ \/ Exit
         \/ /\ cmd' = cmd /\ cmd # "none" /\ EndOfStages(todo')
            /\ \/ UNCHANGED sessionVars
               \/ \E s \in Servers : Authenticate(s) \/ AskVersion(s)
  BY CommandSteps DEF SessionInv
<1>2. CASE Exit
  <2>1. /\ End /\ faults' \in 0..MaxFaults /\ call' = NoCall
        /\ result' \in {NoResult} \cup [server : Servers, ok : BOOLEAN]
    BY <1>1, <1>2 DEF Exit, TypeOK, SessionTypeOK
  <2> QED
    BY <2>1, EndType
<1>3. ASSUME cmd' = cmd, cmd # "none", EndOfStages(todo'), SessionTypeOK', LiveSessionSpeaks',
             call' = call
      PROVE  TypeOK' /\ SessionInv'
  BY <1>1, <1>3, GoesOnType DEF TypeOK
<1>4. ASSUME UNCHANGED sessionVars
      PROVE  SessionTypeOK' /\ LiveSessionSpeaks' /\ call' = call
  <2>1. UNCHANGED <<torrents, limit, version, known, session, call, result, faults>>
    BY <1>4 DEF sessionVars, servers
  <2>2. SessionTypeOK'
    BY <2>1 DEF TypeOK, SessionTypeOK
  <2>3. \A q \in Servers : Running(q)' = Running(q)
    BY <2>1 DEF Running
  <2> QED
    BY <2>1, <2>2, <2>3 DEF LiveSessionSpeaks, SessionInv
<1>5. ASSUME NEW s \in Servers, Authenticate(s)
      PROVE  SessionTypeOK' /\ LiveSessionSpeaks' /\ call' = call
  <2>1. call' = call
    BY <1>5 DEF Authenticate
  <2> QED
    BY <1>5, <2>1, AuthenticateType DEF TypeOK, SessionInv
<1>6. ASSUME NEW s \in Servers, AskVersion(s)
      PROVE  SessionTypeOK' /\ LiveSessionSpeaks' /\ call' = call
  <2>1. call' = call
    BY <1>6 DEF AskVersion
  <2> QED
    BY <1>6, <2>1, AskVersionType DEF TypeOK, SessionInv
<1> QED
  BY <1>1, <1>2, <1>3, <1>4, <1>5, <1>6

LEMMA TypeType ==
  ASSUME TypeOK, SessionInv, NEW c \in Commands, Type(c)
  PROVE  TypeOK' /\ SessionInv'
<1>1. EndOfStages(todo') /\ cmd' \in Commands /\ cmd' # "none"
  BY StagesOf DEF Type
<1>2. call = NoCall
  BY DEF Type, TypeOK, At
<1>3. /\ UNCHANGED <<torrents, limit, version, known, session, faults>>
      /\ call' = NoCall /\ result' = NoResult
  BY <1>2 DEF Type, servers
<1>4. SessionTypeOK'
  BY <1>3 DEF TypeOK, SessionTypeOK
<1>5. \A q \in Servers : Running(q)' = Running(q)
  BY <1>3 DEF Running
<1>6. LiveSessionSpeaks'
  BY <1>3, <1>5 DEF LiveSessionSpeaks, SessionInv
<1> QED
  BY <1>1, <1>3, <1>4, <1>6, GoesOnType

LEMMA CallType ==
  ASSUME TypeOK, SessionInv, Call
  PROVE  TypeOK' /\ SessionInv'
<1>1. PICK s \in Servers, op \in Op : op.kind \in Kinds(cmd, s) /\ Ask(s, op)
  BY DEF Call
<1>2. /\ At("body") /\ cmd' = cmd /\ todo' = todo
      /\ UNCHANGED <<torrents, limit, version, known, session, faults>>
      /\ call' = [server |-> s, op |-> op, done |-> FALSE, reply |-> NoReply]
      /\ result' = NoResult
  BY <1>1 DEF Call, Ask, servers
<1>3. /\ call' \in Request /\ call' # NoCall
      /\ call'.server = s /\ call'.op = op /\ ~call'.done /\ call'.reply = NoReply
  BY <1>2, NewRequest, RequestFacts
<1>4. SessionTypeOK'
  BY <1>2, <1>3 DEF TypeOK, SessionTypeOK
<1>5. TypeOK'
  BY <1>1, <1>2, <1>3, <1>4 DEF TypeOK, At
<1>6. \A q \in Servers : Running(q)' = Running(q)
  BY <1>2 DEF Running
<1>7. LiveSessionSpeaks'
  BY <1>2, <1>6 DEF LiveSessionSpeaks, SessionInv
<1> QED
  BY <1>2, <1>3, <1>5, <1>7 DEF SessionInv, CommandEnds, CallShape, SuccessIsDone, AskedAfresh

LEMMA KillType ==
  ASSUME TypeOK, SessionInv, Kill
  PROVE  TypeOK' /\ SessionInv'
<1>1. End /\ faults' \in 0..MaxFaults /\ call' = NoCall
  BY DEF Kill, TypeOK, SessionTypeOK
<1>2. result' \in {NoResult} \cup [server : Servers, ok : BOOLEAN]
  BY DEF Kill, TypeOK, SessionTypeOK
<1> QED
  BY <1>1, <1>2, EndType

LEMMA ServeType ==
  ASSUME TypeOK, SessionInv, Serve, cmd' = cmd, todo' = todo
  PROVE  TypeOK' /\ SessionInv'
<1> DEFINE s == call.server
           op == call.op
<1>1. call \in Request /\ ~call.done /\ UNCHANGED <<version, known, session, result, faults>>
  BY ServeLeaves DEF SessionInv
<1>2. s \in Servers /\ op \in Op /\ call # NoCall
  BY <1>1, RequestFacts
<1>3. PICK reply \in Replies :
        /\ reply # NoReply
        /\ \/ /\ Answered(reply, FALSE) /\ ~Accepted(op, reply)
              /\ UNCHANGED <<torrents, limit>>
           \/ /\ Answered(reply, TRUE)
              /\ torrents' = [torrents EXCEPT ![s] = After(op, World(s)).torrents]
              /\ limit' = [limit EXCEPT ![s] = After(op, World(s)).limit]
  BY ServeLeaves DEF SessionInv
<1>4. PICK done \in BOOLEAN : Answered(reply, done) /\ (Accepted(op, reply) => done)
  BY <1>3
<1>5. /\ call' \in Request /\ call' # NoCall
      /\ call'.server = s /\ call'.op = op /\ call'.reply = reply /\ call'.done = done
  BY <1>1, <1>4, AnsweredCall
<1>6. /\ torrents' \in [Servers -> [Hashes -> {"absent", "stopped", "running"}]]
      /\ limit' \in [Servers -> Limits]
  <2>1. /\ After(op, World(s)).torrents \in [Hashes -> {"absent", "stopped", "running"}]
        /\ After(op, World(s)).limit \in Limits
    BY <1>2, AfterType DEF TypeOK
  <2> QED
    BY <1>3, <2>1 DEF TypeOK, SessionTypeOK
<1>7. SessionTypeOK'
  BY <1>1, <1>2, <1>3, <1>5, <1>6 DEF TypeOK, SessionTypeOK
<1>8. TypeOK'
  BY <1>1, <1>2, <1>5, <1>7 DEF TypeOK, At
<1>9. \A q \in Servers : Running(q)' = Running(q)
  BY <1>1 DEF Running
<1>10. LiveSessionSpeaks'
  BY <1>1, <1>9 DEF LiveSessionSpeaks, SessionInv
<1>11. SuccessIsDone'
  BY <1>4, <1>5 DEF SuccessIsDone
<1>12. AskedAfresh' /\ CommandEnds' /\ CallShape'
  BY <1>1, <1>2, <1>5 DEF SessionInv, AskedAfresh, CommandEnds, CallShape
<1> QED
  BY <1>8, <1>10, <1>11, <1>12 DEF SessionInv

LEMMA AnswerType ==
  ASSUME TypeOK, SessionInv, Deliver \/ Lose, cmd' = cmd, todo' = todo
  PROVE  TypeOK' /\ SessionInv'
<1>1. /\ call # NoCall /\ call' = NoCall
      /\ UNCHANGED <<torrents, limit, version, known, session>>
      /\ faults' \in 0..MaxFaults
  BY DEF Deliver, Lose, Answer, servers, TypeOK, SessionTypeOK
<1>2. Accepted(call.op, call.reply) \in BOOLEAN
  BY DEF Accepted
<1>3. \E ok \in BOOLEAN : result' = [server |-> call.server, ok |-> ok]
  BY <1>2 DEF Deliver, Lose, Answer
<1>4. result' \in [server : Servers, ok : BOOLEAN]
  BY <1>1, <1>3 DEF TypeOK, SessionTypeOK
<1>5. SessionTypeOK'
  BY <1>1, <1>4 DEF TypeOK, SessionTypeOK
<1>6. TypeOK'
  BY <1>1, <1>5 DEF TypeOK
<1>7. \A q \in Servers : Running(q)' = Running(q)
  BY <1>1 DEF Running
<1>8. LiveSessionSpeaks'
  BY <1>1, <1>7 DEF LiveSessionSpeaks, SessionInv
<1> QED
  BY <1>1, <1>6, <1>8 DEF SessionInv, AskedAfresh, CommandEnds, CallShape, SuccessIsDone

LEMMA ElsewhereType ==
  ASSUME TypeOK, SessionInv, cmd' = cmd, todo' = todo,
         \/ \E s \in Servers : Restart(s)
         \/ \E s \in Servers, h \in Hashes : UserStarts(s, h)
  PROVE  TypeOK' /\ SessionInv'
<1>1. UNCHANGED <<limit, session, call, result>> /\ faults' \in 0..MaxFaults
  BY DEF Restart, UserStarts, TypeOK, SessionTypeOK
<1>2. ASSUME NEW s \in Servers, Restart(s)
      PROVE  SessionTypeOK' /\ LiveSessionSpeaks'
  <2>1. PICK v \in version[s]..Len(Versions) : version' = [version EXCEPT ![s] = v]
    BY <1>2 DEF Restart
  <2>2. version[s] \in 1..Len(Versions) /\ Len(Versions) \in Nat
    BY DEF TypeOK, SessionTypeOK
  <2>3. v \in 1..Len(Versions)
    BY <2>2
  <2>4. known' = [known EXCEPT ![s] = FALSE] /\ torrents' = torrents
    BY <1>2 DEF Restart
  <2>5. SessionTypeOK'
    BY <1>1, <2>1, <2>3, <2>4 DEF TypeOK, SessionTypeOK
  <2>6. ASSUME NEW q \in Servers, known'[q], session'[q].told
        PROVE  {session'[q].names.stop, session'[q].names.start} = Endpoints(Running(q)')
    <3>1. q # s
      BY <2>4, <2>6 DEF TypeOK, SessionTypeOK
    <3>2. known[q] /\ Running(q)' = Running(q)
      BY <2>1, <2>4, <2>6, <3>1 DEF TypeOK, SessionTypeOK, Running
    <3> QED
      BY <1>1, <2>6, <3>2 DEF SessionInv, LiveSessionSpeaks
  <2> QED
    BY <2>5, <2>6 DEF LiveSessionSpeaks
<1>3. ASSUME NEW s \in Servers, NEW h \in Hashes, UserStarts(s, h)
      PROVE  SessionTypeOK' /\ LiveSessionSpeaks'
  <2>1. torrents' = [torrents EXCEPT ![s][h] = "running"] /\ UNCHANGED <<version, known>>
    BY <1>3 DEF UserStarts
  <2>2. SessionTypeOK'
    BY <1>1, <2>1 DEF TypeOK, SessionTypeOK
  <2>3. \A q \in Servers : Running(q)' = Running(q)
    BY <2>1 DEF Running
  <2> QED
    BY <1>1, <2>1, <2>2, <2>3 DEF SessionInv, LiveSessionSpeaks
<1>4. SessionTypeOK' /\ LiveSessionSpeaks'
  BY <1>2, <1>3
<1>5. TypeOK'
  BY <1>1, <1>4 DEF TypeOK, At
<1> QED
  BY <1>1, <1>4, <1>5 DEF SessionInv, AskedAfresh, CommandEnds, CallShape, SuccessIsDone

LEMMA StutterType ==
  ASSUME TypeOK, SessionInv, UNCHANGED vars
  PROVE  TypeOK' /\ SessionInv'
<1>1. UNCHANGED <<torrents, limit, version, known, session, call, result, faults, cmd, todo>>
  BY DEF vars, sessionVars, servers
<1>2. TypeOK'
  BY <1>1 DEF TypeOK, SessionTypeOK, At
<1>3. \A q \in Servers : Running(q)' = Running(q)
  BY <1>1 DEF Running
<1> QED
  BY <1>1, <1>2, <1>3 DEF SessionInv, AskedAfresh, CommandEnds, CallShape, SuccessIsDone,
     LiveSessionSpeaks

LEMMA StepType ==
  TypeOK /\ SessionInv /\ [Next]_vars => TypeOK' /\ SessionInv'
<1> SUFFICES ASSUME TypeOK, SessionInv, [Next]_vars PROVE TypeOK' /\ SessionInv'
  OBVIOUS
<1>1. CASE Startup
  BY <1>1, StartupType
<1>2. CASE Call
  BY <1>2, CallType
<1>3. CASE Finish
  <2>1. /\ End /\ faults' \in 0..MaxFaults /\ call' = NoCall
        /\ result' \in {NoResult} \cup [server : Servers, ok : BOOLEAN]
    BY <1>3 DEF Finish, Exit, TypeOK, SessionTypeOK
  <2> QED
    BY <2>1, EndType
<1>4. CASE Kill
  BY <1>4, KillType
<1>5. ASSUME NEW c \in Commands, Type(c) PROVE TypeOK' /\ SessionInv'
  BY <1>5, TypeType
<1>6. CASE SessionStep /\ UNCHANGED <<cmd, todo>>
  BY <1>6, ServeType, AnswerType, ElsewhereType DEF SessionStep
<1>7. CASE UNCHANGED vars
  BY <1>7, StutterType
<1> QED
  BY <1>1, <1>2, <1>3, <1>4, <1>5, <1>6, <1>7 DEF Next, Program

(* What is left of a command, what is under way of a call, and what the live  *)
(* sessions know agree with one another, whatever the servers do meanwhile.   *)
THEOREM SessionInvariant == Spec => [](TypeOK /\ SessionInv)
<1>1. Init => TypeOK /\ SessionInv
  BY InitType
<1>2. TypeOK /\ SessionInv /\ [Next]_vars => (TypeOK /\ SessionInv)'
  BY StepType
<1> QED
  BY <1>1, <1>2, PTL DEF Spec

(* A command that runs stands at one of its stages, calls are made in its     *)
(* body only and only of the kinds its crate makes, and no session outlives   *)
(* its command.                                                               *)
THEOREM CommandLineTypes == Spec => []TypeOK
  BY SessionInvariant, PTL

(* The endpoints settled on at login fit for as long as the server takes the  *)
(* cookie (Session::login and every call after it), upgrades notwithstanding. *)
THEOREM SessionNamesFit == Spec => []LiveSessionSpeaks
<1>1. SessionInv => LiveSessionSpeaks
  BY DEF SessionInv
<1> QED
  BY <1>1, SessionInvariant, PTL
------------------------------------------------------------------------------
(* The promise of ClientCalls, kept by each server step by step.              *)
CallSeen(s) == IF call # NoCall /\ call.server = s
                 THEN [op |-> call.op, done |-> call.done] ELSE NoCall
ResultSeen(s) == IF result = [server |-> s, ok |-> TRUE] THEN "ok"
                 ELSE IF result = [server |-> s, ok |-> FALSE] THEN "err" ELSE "none"
Promised(s) == [Promise(s)!Next]_(Promise(s)!seen)

LEMMA NoCallOp ==
  ASSUME NEW op, NEW done
  PROVE  [op |-> op, done |-> done] # NoCall
<1>1. "done" \in DOMAIN [op |-> op, done |-> done] /\ "done" \notin DOMAIN NoCall
  BY DEF NoCall
<1> QED
  BY <1>1

LEMMA CarriedOut ==
  ASSUME NEW op, NEW done, NEW r, r = [op |-> op, done |-> done], NEW new
  PROVE  [r EXCEPT !.done = new] = [op |-> op, done |-> new]
  OBVIOUS

LEMMA PromiseMeanwhile ==
  ASSUME NEW s \in Servers, CallSeen(s)' = CallSeen(s), ResultSeen(s)' = ResultSeen(s)
  PROVE  Promised(s)
<1>1. Promise(s)!Meanwhile
  BY DEF Promise!Meanwhile, CallSeen, ResultSeen
<1> QED
  BY <1>1 DEF Promised, Promise!Next

LEMMA PromiseForget ==
  ASSUME NEW s \in Servers, CallSeen(s) = NoCall, CallSeen(s)' = NoCall, World(s)' = World(s),
         ResultSeen(s)' = "none"
  PROVE  Promised(s)
<1>1. Promise(s)!Forget
  BY DEF Promise!Forget, CallSeen, ResultSeen
<1> QED
  BY <1>1 DEF Promised, Promise!Next

LEMMA PromiseAnswer ==
  ASSUME TypeOK, SessionInv, NEW s \in Servers, call # NoCall, call.server = s, call' = NoCall,
         World(s)' = World(s), NEW ok \in BOOLEAN, ok => call.done,
         result' = [server |-> s, ok |-> ok]
  PROVE  Promised(s)
<1>1. CASE ok
  <2>1. Promise(s)!Succeed
    BY <1>1, NoCallOp DEF Promise!Succeed
  <2> QED
    BY <2>1 DEF Promised, Promise!Next
<1>2. CASE ~ok
  <2>1. [server |-> s, ok |-> ok] # [server |-> s, ok |-> TRUE]
    BY <1>2
  <2>2. Promise(s)!Fail
    BY <1>2, <2>1, NoCallOp DEF Promise!Fail
  <2> QED
    BY <2>2 DEF Promised, Promise!Next
<1> QED
  BY <1>1, <1>2

LEMMA ServePromised ==
  ASSUME TypeOK, SessionInv, Serve, NEW q \in Servers
  PROVE  Promised(q)
<1> DEFINE s == call.server
           op == call.op
<1>1. call \in Request /\ ~call.done /\ UNCHANGED <<version, known, session, result, faults>>
  BY ServeLeaves DEF SessionInv
<1>2. s \in Servers /\ op \in Op /\ call # NoCall
  BY <1>1, RequestFacts
<1>3. PICK reply \in Replies :
        /\ reply # NoReply
        /\ \/ /\ Answered(reply, FALSE) /\ ~Accepted(op, reply)
              /\ UNCHANGED <<torrents, limit>>
           \/ /\ Answered(reply, TRUE)
              /\ torrents' = [torrents EXCEPT ![s] = After(op, World(s)).torrents]
              /\ limit' = [limit EXCEPT ![s] = After(op, World(s)).limit]
  BY ServeLeaves DEF SessionInv
<1>4. ASSUME NEW done \in BOOLEAN, Answered(reply, done)
      PROVE  call' # NoCall /\ call'.server = s /\ call'.op = op /\ call'.done = done
  BY <1>1, <1>4, AnsweredCall
<1>5. ResultSeen(q)' = ResultSeen(q)
  BY <1>1 DEF ResultSeen
<1>6. CASE q # s \/ Answered(reply, FALSE)
  <2>1. CallSeen(q)' = CallSeen(q)
    <3>1. CASE q # s
      BY <1>2, <1>3, <1>4, <3>1 DEF CallSeen
    <3>2. CASE Answered(reply, FALSE)
      <4>1. call' # NoCall /\ call'.server = s /\ call'.op = op /\ call'.done = FALSE
        BY <1>4, <3>2
      <4>2. call.done = FALSE
        BY <1>1, RequestFacts
      <4> QED
        BY <1>2, <4>1, <4>2 DEF CallSeen
    <3> QED
      BY <1>6, <3>1, <3>2
  <2> QED
    BY <1>5, <2>1, PromiseMeanwhile
<1>7. CASE /\ q = s /\ Answered(reply, TRUE)
           /\ torrents' = [torrents EXCEPT ![s] = After(op, World(s)).torrents]
           /\ limit' = [limit EXCEPT ![s] = After(op, World(s)).limit]
  <2>1. call' # NoCall /\ call'.server = q /\ call'.op = op /\ call'.done = TRUE
    BY <1>4, <1>7
  <2>2. CallSeen(q) = [op |-> op, done |-> call.done] /\ CallSeen(q)' = [op |-> op, done |-> TRUE]
    BY <1>2, <1>7, <2>1 DEF CallSeen
  <2>3. World(q)' = After(op, World(q))
    <3>1. /\ torrents'[q] = After(op, World(q)).torrents
          /\ limit'[q] = After(op, World(q)).limit
      BY <1>2, <1>7 DEF TypeOK, SessionTypeOK
    <3>2. After(op, World(q)) = [torrents |-> After(op, World(q)).torrents,
                                 limit |-> After(op, World(q)).limit]
      BY <1>2, <1>7, AfterType DEF TypeOK
    <3> QED
      BY <3>1, <3>2 DEF World
  <2>4. CallSeen(q) # NoCall /\ ~CallSeen(q).done /\ CallSeen(q).op = op
        /\ CallSeen(q)' = [CallSeen(q) EXCEPT !.done = TRUE]
    <3>1. CallSeen(q) # NoCall
      BY <2>2, NoCallOp
    <3>2. ~CallSeen(q).done /\ CallSeen(q).op = op
      BY <1>1, <2>2
    <3>3. CallSeen(q)' = [CallSeen(q) EXCEPT !.done = TRUE]
      <4>1. ASSUME NEW new
            PROVE  [CallSeen(q) EXCEPT !.done = new] = [op |-> op, done |-> new]
        <5>1. CallSeen(q) = [op |-> op, done |-> call.done]
          BY <2>2
        <5> QED
          BY <5>1, CarriedOut
      <4> QED
        BY <2>2, <4>1, Zenon
    <3> QED
      BY <3>1, <3>2, <3>3
  <2>5. Promise(q)!CarryOut
    BY <1>5, <2>3, <2>4 DEF Promise!CarryOut, CallSeen, ResultSeen
  <2> QED
    BY <2>5 DEF Promised, Promise!Next
<1> QED
  BY <1>3, <1>6, <1>7

LEMMA AnswerPromised ==
  ASSUME TypeOK, SessionInv, Deliver \/ Lose, NEW q \in Servers
  PROVE  Promised(q)
<1>1. call # NoCall /\ call' = NoCall /\ UNCHANGED <<torrents, limit>>
  BY DEF Deliver, Lose, Answer, servers
<1>2. Accepted(call.op, call.reply) \in BOOLEAN
  BY DEF Accepted
<1>3. PICK ok \in BOOLEAN : result' = [server |-> call.server, ok |-> ok] /\ (ok => call.done)
  BY <1>2 DEF Deliver, Lose, Answer, SessionInv, SuccessIsDone
<1>4. World(q)' = World(q)
  BY <1>1 DEF World
<1>5. CASE call.server = q
  BY <1>1, <1>3, <1>4, <1>5, PromiseAnswer
<1>6. CASE call.server # q
  <2>1. CallSeen(q) = NoCall /\ CallSeen(q)' = NoCall
    BY <1>1, <1>6 DEF CallSeen
  <2>2. result'.server # q
    BY <1>3, <1>6
  <2>3. ResultSeen(q)' = "none"
    BY <2>2 DEF ResultSeen
  <2> QED
    BY <1>4, <2>1, <2>3, PromiseForget
<1> QED
  BY <1>5, <1>6

LEMMA AskPromised ==
  ASSUME TypeOK, SessionInv, Call, NEW q \in Servers
  PROVE  Promised(q)
<1>1. PICK s \in Servers, op \in Op : Ask(s, op)
  BY DEF Call
<1>2. /\ call = NoCall /\ UNCHANGED <<torrents, limit>>
      /\ call' = [server |-> s, op |-> op, done |-> FALSE, reply |-> NoReply]
      /\ result' = NoResult
  BY <1>1 DEF Ask, servers
<1>3. call' # NoCall /\ call'.server = s /\ call'.op = op /\ call'.done = FALSE
  BY <1>2, NewRequest, RequestFacts
<1>4. World(q)' = World(q) /\ CallSeen(q) = NoCall
  BY <1>2 DEF World, CallSeen
<1>5. ResultSeen(q)' = "none"
  BY <1>2 DEF ResultSeen, NoResult
<1>6. CASE s = q
  <2>1. CallSeen(q)' = [op |-> op, done |-> FALSE]
    BY <1>3, <1>6 DEF CallSeen
  <2>2. Promise(q)!Ask(op)
    BY <1>4, <1>5, <2>1 DEF Promise!Ask, CallSeen, ResultSeen
  <2> QED
    BY <2>2 DEF Promised, Promise!Next
<1>7. CASE s # q
  <2>1. CallSeen(q)' = NoCall
    BY <1>3, <1>7 DEF CallSeen
  <2> QED
    BY <1>4, <1>5, <2>1, PromiseForget
<1> QED
  BY <1>6, <1>7

LEMMA KillPromised ==
  ASSUME TypeOK, SessionInv, Kill, NEW q \in Servers
  PROVE  Promised(q)
<1>1. call' = NoCall /\ UNCHANGED <<torrents, limit>>
  BY DEF Kill, End
<1>2. World(q)' = World(q)
  BY <1>1 DEF World
<1>3. CASE call = NoCall
  <2>1. result' = result
    BY <1>3 DEF Kill
  <2>2. CallSeen(q)' = CallSeen(q) /\ ResultSeen(q)' = ResultSeen(q)
    BY <1>1, <1>3, <2>1 DEF CallSeen, ResultSeen
  <2> QED
    BY <2>2, PromiseMeanwhile
<1>4. CASE call # NoCall
  <2>1. result' = [server |-> call.server, ok |-> FALSE]
    BY <1>4 DEF Kill
  <2>2. CASE call.server = q
    BY <1>1, <1>2, <1>4, <2>1, <2>2, PromiseAnswer
  <2>3. CASE call.server # q
    <3>1. CallSeen(q) = NoCall /\ CallSeen(q)' = NoCall
      BY <1>1, <2>3 DEF CallSeen
    <3>2. result'.server # q
      BY <2>1, <2>3
    <3>3. ResultSeen(q)' = "none"
      BY <3>2 DEF ResultSeen
    <3> QED
      BY <1>2, <3>1, <3>3, PromiseForget
  <2> QED
    BY <2>2, <2>3
<1> QED
  BY <1>3, <1>4

LEMMA OtherStepsPromised ==
  ASSUME TypeOK, SessionInv, NEW q \in Servers,
         \/ Startup \/ Finish \/ UNCHANGED vars
         \/ \E c \in Commands : Type(c)
         \/ \E s \in Servers : Restart(s)
         \/ \E s \in Servers, h \in Hashes : UserStarts(s, h)
  PROVE  Promised(q)
<1>1. CASE call' = call /\ result' = result
  <2>1. CallSeen(q)' = CallSeen(q) /\ ResultSeen(q)' = ResultSeen(q)
    BY <1>1 DEF CallSeen, ResultSeen
  <2> QED
    BY <2>1, PromiseMeanwhile
<1>2. ASSUME NEW c \in Commands, Type(c) PROVE Promised(q)
  <2>1. call = NoCall /\ call' = NoCall
    BY <1>2 DEF Type, TypeOK, At
  <2>2. World(q)' = World(q) /\ CallSeen(q) = NoCall /\ CallSeen(q)' = NoCall
    BY <1>2, <2>1 DEF Type, servers, World, CallSeen
  <2>3. ResultSeen(q)' = "none"
    BY <1>2 DEF Type, ResultSeen, NoResult
  <2> QED
    BY <2>2, <2>3, PromiseForget
<1>3. Startup => call' = call /\ result' = result
  <2>1. ASSUME Startup
        PROVE  Exit \/ UNCHANGED sessionVars \/ \E s \in Servers : Authenticate(s) \/ AskVersion(s)
    BY <2>1, CommandSteps DEF SessionInv
  <2> QED
    BY <2>1 DEF Exit, sessionVars, Authenticate, AskVersion
<1>4. Finish \/ UNCHANGED vars => call' = call /\ result' = result
  BY DEF Finish, Exit, vars, sessionVars
<1>5. (\E s \in Servers : Restart(s)) \/ (\E s \in Servers, h \in Hashes : UserStarts(s, h))
        => call' = call /\ result' = result
  BY DEF Restart, UserStarts
<1> QED
  BY <1>1, <1>2, <1>3, <1>4, <1>5

(* The program's calls as it sees them obey ClientCalls on each server: what  *)
(* is answered with success was carried out once and as it was asked for, and *)
(* what is answered with an error was carried out once or not at all.         *)
THEOREM CallsKeepTheirPromise == Spec => ImplementsClient
<1>1. Init => \A s \in Servers : Promise(s)!Init
  BY DEF Init, SessionInit, Promise!Init, NoResult
<1>2. TypeOK /\ SessionInv /\ [Next]_vars
        => [\A s \in Servers : [Promise(s)!Next]_(Promise(s)!seen)]_sessionVars
  <2> SUFFICES ASSUME TypeOK, SessionInv, [Next]_vars, NEW q \in Servers PROVE Promised(q)
    BY DEF Promised
  <2> QED
    BY ServePromised, AnswerPromised, AskPromised, KillPromised, OtherStepsPromised
       DEF Next, Program, SessionStep
<1> QED
  BY <1>1, <1>2, SessionInvariant, PTL DEF Spec, ImplementsClient

------------------------------------------------------------------------------
(* The command that looks ahead for the others (Doctor).                       *)

(* resolve_binary finds an rsync if one of its candidates will do.             *)
LEMMA Resolves ==
  ASSUME NEW m \in Machine, NEW i \in 1..Len(Candidates), InfoHelpWorks(m, Candidates[i])
  PROVE  ResolveBinary(m) # 0
<1> DEFINE I == {j \in 1..Len(Candidates) : InfoHelpWorks(m, Candidates[j])}
<1>1. Len(Candidates) = 5
  BY DEF Candidates
<1>2. i \in I /\ I \subseteq 1..5
  BY <1>1
<1>3. \E j \in I : \A k \in I : j <= k
  <2>1. CASE 1 \in I
    BY <1>2, <2>1
  <2>2. CASE 1 \notin I /\ 2 \in I
    BY <1>2, <2>2
  <2>3. CASE 1 \notin I /\ 2 \notin I /\ 3 \in I
    BY <1>2, <2>3
  <2>4. CASE 1 \notin I /\ 2 \notin I /\ 3 \notin I /\ 4 \in I
    BY <1>2, <2>4
  <2> HIDE DEF I
  <2> QED
    BY <1>2, <2>1, <2>2, <2>3, <2>4
<1>4. Min(I) \in I
  BY <1>3 DEF Min
<1> QED
  BY <1>2, <1>4 DEF ResolveBinary, SelectInSeq

LEMMA PathIsACandidate == 5 \in 1..Len(Candidates) /\ Candidates[5] = "PATH"
BY DEF Candidates

(* What passes the checks is what the other commands look for.                 *)
LEMMA CleanSuffices ==
  ASSUME machine \in Machine
  PROVE  PreflightSuffices
<1> SUFFICES ASSUME IsClean(machine)
             PROVE  ResolveBinary(machine) # 0 /\ AuditLists(machine)
  BY DEF PreflightSuffices
<1>1. RsyncCheck(machine).status = "PASS" /\ BackupCheck(machine).status = "PASS"
  BY DEF IsClean, LOCAL_CHECKS
<1>2. InfoHelpWorks(machine, "PATH")
  BY <1>1 DEF RsyncCheck, Outcome
<1>3. ResolveBinary(machine) # 0
  BY <1>2, Resolves, PathIsACandidate
<1>4. AuditLists(machine)
  <2>1. /\ machine.home
        /\ machine.listing[DefaultPath(machine.platform)] \notin
             {"absent", "denied", "broken", "noTorrents"}
    BY <1>1 DEF BackupCheck, Outcome
  <2>2. DefaultPath(machine.platform) = DefaultBtBackup(machine)
    BY DEF DefaultPath, DefaultBtBackup
  <2>3. DefaultPath(machine.platform) \in BackupDir
    BY DEF DefaultPath, BackupDir
  <2> QED
    BY <2>1, <2>2, <2>3 DEF AuditLists, Machine, Listing
<1> QED
  BY <1>3, <1>4

(* Following its advice leaves a machine.                                      *)
IsMachine == machine \in Machine

LEMMA AdviceTyped ==
  ASSUME IsMachine, NEW fix, FollowAdvice(fix)
  PROVE  IsMachine'
<1> USE DEF IsMachine
<1>1. CASE machine' = [machine EXCEPT !.ssh = "openssh"]
  BY <1>1 DEF Machine
<1>2. ASSUME NEW found \in Rsync,
             machine' = [machine EXCEPT !.rsync["brew"] = "gnu",
                           !.rsync["/opt/homebrew/bin"] = "gnu", !.rsync["PATH"] = found]
      PROVE  IsMachine'
  <2>1. PICK rsync : rsync = [machine.rsync EXCEPT !["brew"] = "gnu",
                                !["/opt/homebrew/bin"] = "gnu", !["PATH"] = found]
    OBVIOUS
  <2>2. rsync \in [Place -> Rsync]
    BY <1>2, <2>1 DEF Machine, Rsync
  <2>3. machine' = [machine EXCEPT !.rsync = rsync]
    BY <1>2, <2>1 DEF Machine
  <2> QED
    BY <2>2, <2>3 DEF Machine
<1>3. CASE machine' = [machine EXCEPT !.rsync["PATH"] = "gnu"]
  BY <1>3 DEF Machine, Rsync
<1>4. ASSUME NEW seen \in {"noTorrents", "torrents"},
             machine' = [machine EXCEPT !.listing[DefaultPath(machine.platform)] = seen]
      PROVE  IsMachine'
  BY <1>4 DEF Machine, Listing
<1>5. Place = {"TSYNC_RSYNC", "brew", "/opt/homebrew/bin", "/usr/local/bin", "PATH"}
  BY DEF Place, Range, Candidates
<1>6. machine.rsync["PATH"] \in Rsync /\ "gnu" \in Rsync
  BY <1>5 DEF Machine, Rsync
<1> QED
  BY <1>1, <1>2, <1>3, <1>4, <1>6 DEF FollowAdvice

(* tsync doctor (check::rsync, check::bt_backup against transfer::resolve_binary *)
(* and audit::run): on any machine, and however often its advice was followed, *)
(* what passes every check has an rsync that transfer resolves and a BT_backup *)
(* that audit can list.                                                        *)
THEOREM DoctorLooksAhead == DoctorSpec => []PreflightSuffices
<1>1. DoctorInit => IsMachine
  BY DEF DoctorInit, IsMachine
<1>2. IsMachine /\ [DoctorNext]_machine => IsMachine'
  BY AdviceTyped DEF DoctorNext, IsMachine
<1>3. IsMachine => PreflightSuffices
  BY CleanSuffices DEF IsMachine
<1> QED
  BY <1>1, <1>2, <1>3, PTL DEF DoctorSpec
=============================================================================
