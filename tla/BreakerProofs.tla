---------------------------- MODULE BreakerProofs ----------------------------
(***************************************************************************)
(* What the breaker can promise to any number of runs that know nothing of *)
(* each other, and to a user who changes the limit whenever he likes.      *)
(***************************************************************************)
EXTENDS Breaker, TLAPS

USE BreakerAssumption

Undisturbed == ~overlapped /\ ~meddled

(* While runs take turns and the user keeps out: there is one run at a time,  *)
(* and what it read is what will be there after it.                           *)
OneRun == \A r, s \in Runs : pc[r] # "idle" /\ pc[s] # "idle" => r = s
Sound(v) == v \in {wanted, CIRCUIT_BREAKER_BPS} /\ (faults = 0 => v = wanted)
IdleSound == AllIdle => Sound(limit)
RunSound(r) ==
  /\ pc[r] = "set" => Sound(limit)
  /\ pc[r] = "held" => limit = CIRCUIT_BREAKER_BPS
  /\ pc[r] # "idle" => Sound(previous[r])
TurnsInv == Undisturbed => OneRun /\ IdleSound /\ \A r \in Runs : RunSound(r)

(* However runs overlap: every value that is there, or that some run will put *)
(* back, is the user's or the breaker; the user's last, if he kept out.       *)
Chosen(v) ==
  /\ v \in UserLimits \cup {CIRCUIT_BREAKER_BPS}
  /\ ~meddled => v \in {wanted, CIRCUIT_BREAKER_BPS}
NoThirdValue ==
  /\ Chosen(limit)
  /\ \A r \in Runs : pc[r] # "idle" => Chosen(previous[r])

BreakerInv == TypeOK /\ TurnsInv /\ NoThirdValue

LEMMA BreakerInit == Init => BreakerInv
<1> SUFFICES ASSUME Init PROVE BreakerInv
  OBVIOUS
<1>1. TypeOK
  <2>1. limit \in Nat /\ faults \in 0..MaxFaults /\ previous \in [Runs -> Nat]
    BY DEF Init
  <2>2. overlapped \in BOOLEAN /\ meddled \in BOOLEAN
    BY Zenon DEF Init
  <2> QED
    BY <2>1, <2>2 DEF Init, TypeOK
<1>2. TurnsInv
  BY DEF Init, TurnsInv, OneRun, IdleSound, Sound, RunSound
<1>3. NoThirdValue
  BY DEF Init, NoThirdValue, Chosen
<1> QED
  BY <1>1, <1>2, <1>3 DEF BreakerInv

(* What an action of a run may change keeps its type; the histories are apart, *)
(* because the provers handle them as Booleans only on their own.              *)
Types ==
  /\ limit \in Nat
  /\ wanted \in UserLimits
  /\ pc \in [Runs -> {"idle", "set", "held"}]
  /\ previous \in [Runs -> Nat]
  /\ faults \in 0..MaxFaults
HistoryTypes == overlapped \in BOOLEAN /\ meddled \in BOOLEAN

LEMMA TypesSplit == TypeOK <=> Types /\ HistoryTypes
  BY Zenon DEF TypeOK, Types, HistoryTypes

LEMMA BreakerType == TypeOK /\ [Next]_vars => TypeOK'
<1> SUFFICES ASSUME Types, HistoryTypes, [Next]_vars PROVE Types' /\ HistoryTypes'
  BY TypesSplit, PTL
<1>1. ASSUME NEW r \in Runs, ReadLimit(r) PROVE Types' /\ HistoryTypes'
  <2>1. Types'
    BY <1>1 DEF Types, ReadLimit
  <2>2. HistoryTypes'
    BY <1>1, Zenon DEF HistoryTypes, ReadLimit
  <2> QED
    BY <2>1, <2>2
<1>2. ASSUME NEW r \in Runs, SetBreaker(r) PROVE Types' /\ HistoryTypes'
  <2>1. Types'
    BY <1>2 DEF Types, SetBreaker, Charge, CIRCUIT_BREAKER_BPS
  <2>2. HistoryTypes'
    BY <1>2, Zenon DEF HistoryTypes, SetBreaker, history
  <2> QED
    BY <2>1, <2>2
<1>3. ASSUME NEW r \in Runs, Release(r) PROVE Types' /\ HistoryTypes'
  <2>1. Types'
    BY <1>3 DEF Types, Release, Charge
  <2>2. HistoryTypes'
    BY <1>3, Zenon DEF HistoryTypes, Release, history
  <2> QED
    BY <2>1, <2>2
<1>4. ASSUME NEW r \in Runs, Kill(r) PROVE Types' /\ HistoryTypes'
  <2>1. Types'
    BY <1>4 DEF Types, Kill, Charge
  <2>2. HistoryTypes'
    BY <1>4, Zenon DEF HistoryTypes, Kill, history
  <2> QED
    BY <2>1, <2>2
<1>5. CASE UserSetsLimit
  <2>1. Types'
    BY <1>5 DEF Types, UserSetsLimit
  <2>2. HistoryTypes'
    BY <1>5, Zenon DEF HistoryTypes, UserSetsLimit
  <2> QED
    BY <2>1, <2>2
<1>6. CASE UNCHANGED vars
  BY <1>6 DEF Types, HistoryTypes, vars, history
<1> QED
  BY <1>1, <1>2, <1>3, <1>4, <1>5, <1>6 DEF Next

LEMMA ThirdValueStep == TypeOK /\ NoThirdValue /\ [Next]_vars => NoThirdValue'
<1> SUFFICES ASSUME TypeOK, NoThirdValue, [Next]_vars PROVE NoThirdValue'
  OBVIOUS
<1>1. ASSUME NEW r \in Runs, ReadLimit(r) PROVE NoThirdValue'
  BY <1>1 DEF TypeOK, ReadLimit, NoThirdValue, Chosen
<1>2. ASSUME NEW r \in Runs, SetBreaker(r) PROVE NoThirdValue'
  BY <1>2 DEF TypeOK, SetBreaker, NoThirdValue, Chosen, history
<1>3. ASSUME NEW r \in Runs, Release(r) PROVE NoThirdValue'
  BY <1>3 DEF TypeOK, Release, NoThirdValue, Chosen, history
<1>4. ASSUME NEW r \in Runs, Kill(r) PROVE NoThirdValue'
  BY <1>4 DEF TypeOK, Kill, NoThirdValue, Chosen, history
<1>5. CASE UserSetsLimit
  <2>1. Chosen(limit)'
    BY <1>5 DEF UserSetsLimit, Chosen
  <2>2. ASSUME NEW r \in Runs, pc'[r] # "idle" PROVE Chosen(previous[r])'
    BY <1>5, <2>2 DEF UserSetsLimit, NoThirdValue, Chosen, AllIdle
  <2> QED
    BY <2>1, <2>2 DEF NoThirdValue
<1>6. CASE UNCHANGED vars
  BY <1>6 DEF NoThirdValue, Chosen, vars, history
<1> QED
  BY <1>1, <1>2, <1>3, <1>4, <1>5, <1>6 DEF Next

LEMMA TurnsStep == TypeOK /\ TurnsInv /\ [Next]_vars => TurnsInv'
<1> SUFFICES ASSUME TypeOK, TurnsInv, [Next]_vars, Undisturbed'
             PROVE  (OneRun /\ IdleSound /\ \A r \in Runs : RunSound(r))'
  BY DEF TurnsInv
<1>0. TypeOK'
  BY BreakerType
<1>1. ASSUME NEW r \in Runs, ReadLimit(r)
      PROVE  (OneRun /\ IdleSound /\ \A s \in Runs : RunSound(s))'
  <2>1. Undisturbed /\ AllIdle
    BY <1>1 DEF ReadLimit, Undisturbed, TypeOK
  <2> QED
    BY <1>0, <1>1, <2>1 DEF TurnsInv, TypeOK, ReadLimit, OneRun, IdleSound, Sound, RunSound, AllIdle
<1>2. ASSUME NEW r \in Runs, SetBreaker(r)
      PROVE  (OneRun /\ IdleSound /\ \A s \in Runs : RunSound(s))'
  <2>0. Undisturbed
    BY <1>2 DEF SetBreaker, Undisturbed, history
  <2>1. OneRun'
    BY <1>0, <1>2, <2>0 DEF TurnsInv, TypeOK, SetBreaker, OneRun
  <2>2. \A s \in Runs : s # r => pc[s] = "idle" /\ pc'[s] = "idle"
    BY <1>0, <1>2, <2>0 DEF TurnsInv, TypeOK, SetBreaker, OneRun
  <2>3. (faults' = 0 => faults = 0) /\ (pc'[r] = "idle" => faults' # 0)
    BY <1>0, <1>2 DEF SetBreaker, Charge, TypeOK
  <2>4. IdleSound'
    BY <1>0, <1>2, <2>0, <2>2, <2>3 DEF TurnsInv, TypeOK, SetBreaker, IdleSound, Sound,
                                        RunSound, AllIdle
  <2>5. \A s \in Runs : RunSound(s)'
    BY <1>0, <1>2, <2>0, <2>2, <2>3 DEF TurnsInv, TypeOK, SetBreaker, Sound, RunSound
  <2> QED
    BY <2>1, <2>4, <2>5
<1>3. ASSUME NEW r \in Runs, Release(r)
      PROVE  (OneRun /\ IdleSound /\ \A s \in Runs : RunSound(s))'
  <2>0. Undisturbed
    BY <1>3 DEF Release, Undisturbed, history
  <2>1. \A s \in Runs : pc'[s] = "idle"
    BY <1>0, <1>3, <2>0 DEF TurnsInv, TypeOK, Release, OneRun
  <2>2. Sound(limit)'
    BY <1>0, <1>3, <2>0 DEF TurnsInv, TypeOK, Release, RunSound, Sound, Charge
  <2> QED
    BY <2>1, <2>2 DEF OneRun, IdleSound, RunSound
<1>4. ASSUME NEW r \in Runs, Kill(r)
      PROVE  (OneRun /\ IdleSound /\ \A s \in Runs : RunSound(s))'
  <2>0. Undisturbed
    BY <1>4 DEF Kill, Undisturbed, history
  <2>1. \A s \in Runs : pc'[s] = "idle"
    BY <1>0, <1>4, <2>0 DEF TurnsInv, TypeOK, Kill, OneRun
  <2>2. limit \in {wanted, CIRCUIT_BREAKER_BPS} /\ faults' # 0
    BY <1>0, <1>4, <2>0 DEF TurnsInv, TypeOK, Kill, RunSound, Sound, Charge
  <2>3. Sound(limit)'
    BY <1>4, <2>2 DEF Kill, Sound
  <2> QED
    BY <2>1, <2>3 DEF OneRun, IdleSound, RunSound
<1>5. CASE UserSetsLimit
  <2>1. AllIdle /\ UNCHANGED pc /\ limit' = wanted'
    BY <1>5 DEF UserSetsLimit, Undisturbed
  <2> QED
    BY <2>1 DEF OneRun, IdleSound, Sound, RunSound, AllIdle
<1>6. CASE UNCHANGED vars
  BY <1>6 DEF TurnsInv, Undisturbed, OneRun, IdleSound, Sound, RunSound, AllIdle, vars, history
<1> QED
  BY <1>1, <1>2, <1>3, <1>4, <1>5, <1>6 DEF Next

LEMMA BreakerStep == BreakerInv /\ [Next]_vars => BreakerInv'
  BY BreakerType, TurnsStep, ThirdValueStep DEF BreakerInv

(* Types hold whatever the runs and the user do. *)
THEOREM BreakerTypes == Spec => []TypeOK
<1>1. BreakerInv => TypeOK
  BY DEF BreakerInv
<1> QED
  BY <1>1, BreakerInit, BreakerStep, PTL DEF Spec

(* A run under its guard is throttled whatever calls fail, unless another run *)
(* or the user comes between.                                                 *)
THEOREM BreakerHolds == Spec => []HeldMeansThrottled
<1>1. BreakerInv => HeldMeansThrottled
  BY DEF BreakerInv, TurnsInv, Undisturbed, RunSound, HeldMeansThrottled, IsThrottled,
         CIRCUIT_BREAKER_BPS
<1> QED
  BY <1>1, BreakerInit, BreakerStep, PTL DEF Spec

(* The limit that is left behind is the user's last; or the breaker, for a    *)
(* reason; or, if he changed it during a run, another of his own.             *)
THEOREM BreakerRestores == Spec => []RestoredAfterwards
<1>1. BreakerInv => RestoredAfterwards
  <2> SUFFICES ASSUME BreakerInv, AllIdle, limit # wanted
               PROVE  \/ limit = CIRCUIT_BREAKER_BPS /\ (faults > 0 \/ overlapped \/ meddled)
                      \/ limit \in UserLimits /\ meddled
    BY DEF RestoredAfterwards
  <2>1. CASE meddled
    BY <2>1 DEF BreakerInv, NoThirdValue, Chosen
  <2>2. CASE ~meddled /\ overlapped
    BY <2>2 DEF BreakerInv, NoThirdValue, Chosen
  <2>3. CASE ~meddled /\ ~overlapped
    BY <2>3 DEF BreakerInv, TypeOK, TurnsInv, Undisturbed, IdleSound, Sound
  <2> QED
    BY <2>1, <2>2, <2>3 DEF BreakerInv, TypeOK
<1> QED
  BY <1>1, BreakerInit, BreakerStep, PTL DEF Spec
==============================================================================
