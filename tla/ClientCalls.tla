----------------------------- MODULE ClientCalls -----------------------------
(***************************************************************************)
(* What the rest of the program may take for granted of one qBittorrent    *)
(* client behind the Client trait of crates/qbt: a call that is answered   *)
(* with success was carried out once, exactly as it was asked for; a call  *)
(* that is answered with an error was carried out once or not at all.  In  *)
(* between the client and its user change what they like.  The modules of  *)
(* the runs below assume this of every call they make.                     *)
(***************************************************************************)
CONSTANTS
  Ops,             \* what can be asked of a client
  After(_, _),     \* the world an operation leaves behind
  NoCall
VARIABLES
  world,           \* the client's torrents and its download limit
  call,            \* the operation asked for and whether it was carried out
  result           \* how the last call was answered

seen == <<world, call, result>>

Init ==
  /\ call = NoCall
  /\ result = "none"

Ask(op) ==
  /\ call = NoCall
  /\ call' = [op |-> op, done |-> FALSE]
  /\ result' = "none"
  /\ UNCHANGED world

CarryOut ==
  /\ call # NoCall
  /\ ~call.done
  /\ call' = [call EXCEPT !.done = TRUE]
  /\ world' = After(call.op, world)
  /\ UNCHANGED result

Succeed ==
  /\ call # NoCall
  /\ call.done
  /\ call' = NoCall
  /\ result' = "ok"
  /\ UNCHANGED world

Fail ==
  /\ call # NoCall
  /\ call' = NoCall
  /\ result' = "err"
  /\ UNCHANGED world

Forget ==
  /\ call = NoCall
  /\ result' = "none"
  /\ UNCHANGED <<world, call>>

(* The user, the swarm or the client itself. *)
Meanwhile == UNCHANGED <<call, result>>

Next ==
  \/ \E op \in Ops : Ask(op)
  \/ CarryOut \/ Succeed \/ Fail \/ Forget \/ Meanwhile

Spec == Init /\ [][Next]_seen
==============================================================================
