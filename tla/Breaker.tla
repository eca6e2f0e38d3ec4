------------------------------- MODULE Breaker -------------------------------
(***************************************************************************)
(* The download-rate circuit breaker.  tsync import and tsync handoff read *)
(* the destination's global download limit, set it to one byte per second, *)
(* and have a LimitGuard put the old value back when they end.  The limit  *)
(* is one cell on the server that runs on several terminals, and the user  *)
(* in the WebUI, write without knowing of each other.  What the code can   *)
(* promise depends on whether they did so at a time; overlapped and        *)
(* meddled remember that, from one idle moment at which the user has the   *)
(* limit as he wants it to the next.                                       *)
(***************************************************************************)
EXTENDS Naturals

CONSTANTS
  Runs,        \* runs of import and handoff against one destination
  UserLimits,  \* limits the user chooses
  MaxFaults    \* bound: failed calls and kills

\* Mutant of CIRCUIT_BREAKER_BPS: the value that means no limit.
NO_LIMIT == 0
(* 0 means unlimited in qBittorrent, so the breaker must never be zero. *)
CIRCUIT_BREAKER_BPS == 1

ASSUME BreakerAssumption ==
  /\ UserLimits \subseteq Nat \ {1}   \* one byte per second is nobody's wish
  /\ MaxFaults \in Nat

VARIABLES
  limit,       \* the destination's global download limit, 0 for unlimited
  wanted,      \* what the user set last
  pc,          \* of each run: idle, about to set the breaker, or under the guard
  previous,    \* of each run: the limit its LimitGuard will restore
  overlapped,  \* history: a run has begun while another was under way
  meddled,     \* history: the user has changed the limit during a run
  faults
history == <<overlapped, meddled>>
vars == <<limit, wanted, pc, previous, history, faults>>

AllIdle == \A r \in Runs : pc[r] = "idle"

Init ==
  /\ wanted \in UserLimits
  /\ limit = wanted
  /\ pc = [r \in Runs |-> "idle"]
  /\ previous = [r \in Runs |-> 0]
  /\ overlapped = FALSE
  /\ meddled = FALSE
  /\ faults = 0

Replies == {"ok", "refused", "lost"}
Charge(reply) ==
  IF reply = "ok" THEN UNCHANGED faults
                  ELSE faults < MaxFaults /\ faults' = faults + 1

ReadLimit(r) ==
  /\ pc[r] = "idle"
  /\ overlapped' = IF AllIdle THEN overlapped ELSE TRUE
  /\ previous' = [previous EXCEPT ![r] = limit]
  /\ pc' = [pc EXCEPT ![r] = "set"]
  /\ UNCHANGED <<limit, wanted, meddled, faults>>

\* Mutant of SetBreaker: the reply is not looked at.
SetBreakerUnchecked(r) ==
  /\ pc[r] = "set"
  /\ \E reply \in Replies :
       /\ Charge(reply)
       /\ limit' = IF reply = "refused" THEN limit ELSE CIRCUIT_BREAKER_BPS
  /\ pc' = [pc EXCEPT ![r] = "held"]
  /\ UNCHANGED <<wanted, previous, history>>

(* `?` returns from the run before LimitGuard exists. *)
SetBreaker(r) ==
  /\ pc[r] = "set"
  /\ \E reply \in Replies :
       /\ Charge(reply)
       /\ limit' = IF reply = "refused" THEN limit ELSE CIRCUIT_BREAKER_BPS
       /\ pc' = [pc EXCEPT ![r] = IF reply = "ok" THEN "held" ELSE "idle"]
  /\ UNCHANGED <<wanted, previous, history>>

\* Mutant of Release: the guard restores what it finds when it is dropped.
ReleaseLate(r) ==
  /\ pc[r] = "held"
  /\ pc' = [pc EXCEPT ![r] = "idle"]
  /\ UNCHANGED <<limit, wanted, previous, history, faults>>

\* Mutant of Release: the guard lifts the limit, whatever it was.
ReleaseUnlimited(r) ==
  /\ pc[r] = "held"
  /\ limit' = 0
  /\ pc' = [pc EXCEPT ![r] = "idle"]
  /\ UNCHANGED <<wanted, previous, history, faults>>

(* The guard is dropped at the end of the run; its error is ignored. *)
Release(r) ==
  /\ pc[r] = "held"
  /\ \E reply \in {"ok", "refused"} :
       /\ Charge(reply)
       /\ limit' = IF reply = "ok" THEN previous[r] ELSE limit
  /\ pc' = [pc EXCEPT ![r] = "idle"]
  /\ UNCHANGED <<wanted, previous, history>>

(* A killed process drops nothing. *)
Kill(r) ==
  /\ pc[r] # "idle"
  /\ Charge("lost")
  /\ pc' = [pc EXCEPT ![r] = "idle"]
  /\ UNCHANGED <<limit, wanted, previous, history>>

(* At an idle moment this ends whatever was wrong with the limit. *)
UserSetsLimit ==
  /\ \E v \in UserLimits :
       /\ v # limit
       /\ limit' = v
       /\ wanted' = v
  /\ meddled' = IF AllIdle THEN FALSE ELSE TRUE
  /\ overlapped' = IF AllIdle THEN FALSE ELSE overlapped
  /\ UNCHANGED <<pc, previous, faults>>

Next ==
  \/ \E r \in Runs : ReadLimit(r) \/ SetBreaker(r) \/ Release(r) \/ Kill(r)
  \/ UserSetsLimit

Spec == Init /\ [][Next]_vars

------------------------------------------------------------------------------
TypeOK ==
  /\ limit \in Nat
  /\ wanted \in UserLimits
  /\ pc \in [Runs -> {"idle", "set", "held"}]
  /\ previous \in [Runs -> Nat]
  /\ overlapped \in BOOLEAN
  /\ meddled \in BOOLEAN
  /\ faults \in 0..MaxFaults

(* "0 means unlimited": below every limit a user sets, and not none at all. *)
IsThrottled == limit > 0 /\ \A v \in UserLimits : v = 0 \/ limit < v

(* The breaker "is applied for the duration of the run": whatever calls fail, *)
(* the destination is throttled as long as a run works under its guard, if no *)
(* other run has come between and the user has not lifted it himself.         *)
HeldMeansThrottled ==
  ~overlapped /\ ~meddled => \A r \in Runs : pc[r] = "held" => IsThrottled

(* "... and restored afterwards": with no run under way the limit is what the *)
(* user set last.  If it is not, it is the breaker, and a call failed, a run  *)
(* was killed or two of them overlapped; only a user who changed the limit    *)
(* during a run may find an older value of his own.                           *)
RestoredAfterwards ==
  AllIdle /\ limit # wanted =>
    \/ limit = CIRCUIT_BREAKER_BPS /\ (faults > 0 \/ overlapped \/ meddled)
    \/ limit \in UserLimits /\ meddled
==============================================================================
