------------------------ MODULE MetricsFreshnessProofs ------------------------
(* When the settings do what they are for, for any day, TTL, stale limit   *)
(* and duration of the run.                                                *)
EXTENDS MetricsFreshness, TLAPS

\* The condition on the settings that RenewedInTime needs.
SettingsFit == StaleAfter + Day + Duration <= TTL

\* The age a covered value can have: not older than the stale limit when the
\* last daily run looked at it, and since then only the clock has added to it.
AgeBounded ==
    /\ run["daily"] # "idle" => phase <= Duration
    /\ covered =>
          IF run["daily"] = "idle"
            THEN age <= StaleAfter + phase
            ELSE age <= StaleAfter + Day + phase

IInv == TypeOK /\ AgeBounded

LEMMA NextPhaseIs ==
    ASSUME phase \in 0 .. Day - 1
    PROVE  NextPhase = IF phase = Day - 1 THEN 0 ELSE phase + 1
  BY SettingsAssumption, SMT DEF NextPhase

LEMMA InitIInv == Init => IInv
<1> SUFFICES ASSUME Init
             PROVE  IInv
  OBVIOUS
<1>1. covered \in BOOLEAN /\ ~covered
  BY DEF Init
<1>2. /\ run \in [Runs -> {"idle", "begun", "listed"}]
      /\ run["daily"] = "idle"
  BY SMT DEF Init, Runs
<1>3. phase \in 0 .. Day - 1 /\ age \in 0 .. TTL + 1
  BY SettingsAssumption, SMT DEF Init
<1> QED
  BY <1>1, <1>2, <1>3 DEF IInv, TypeOK, AgeBounded

LEMMA NextIInv == IInv /\ [Next]_vars => IInv'
<1> SUFFICES ASSUME IInv, [Next]_vars
             PROVE  IInv'
  OBVIOUS
<1> USE SettingsAssumption
<1> USE DEF IInv
<1>1. CASE Tick
  <2>1. phase' = IF phase = Day - 1 THEN 0 ELSE phase + 1
    BY <1>1, NextPhaseIs DEF Tick, TypeOK
  <2>2. age \in 0 .. TTL + 1 /\ age' \in 0 .. TTL + 1 /\ age' <= age + 1
    BY <1>1, SMT DEF Tick, TypeOK, Later
  <2>3. TypeOK'
    BY <1>1, <2>1, <2>2, SMT DEF Tick, TypeOK, Runs
  <2>4. AgeBounded'
    BY <1>1, <2>1, <2>2, SMT DEF Tick, TypeOK, AgeBounded, Runs
  <2> QED
    BY <2>3, <2>4
<1>2. ASSUME NEW k \in Runs, List(k)
      PROVE  IInv'
  BY <1>2, SMT DEF List, Stale, TypeOK, AgeBounded, Runs
<1>3. ASSUME NEW k \in Runs, Warm(k)
      PROVE  IInv'
  BY <1>3, SMT DEF Warm, TypeOK, AgeBounded, Runs
<1>4. ASSUME NEW k \in Runs, Fail(k)
      PROVE  IInv'
  <2>1. covered' \in BOOLEAN /\ (covered' => covered /\ k # "daily")
    BY <1>4 DEF Fail
  <2>2. /\ run' \in [Runs -> {"idle", "begun", "listed"}]
        /\ k # "daily" => run'["daily"] = run["daily"]
        /\ k = "daily" => run'["daily"] = "idle"
    BY <1>4, SMT DEF Fail, TypeOK, Runs
  <2>3. phase' = phase /\ age' = age
    BY <1>4 DEF Fail
  <2> QED
    BY <2>1, <2>2, <2>3 DEF TypeOK, AgeBounded
<1>5. CASE Restart
  <2>1. covered' \in BOOLEAN /\ (covered' => covered /\ run["daily"] = "idle")
    BY <1>5 DEF Restart
  <2>2. /\ run' \in [Runs -> {"idle", "begun", "listed"}]
        /\ run'["daily"] = "idle"
    BY <1>5, SMT DEF Restart, Runs
  <2>3. phase' = phase /\ age' = age
    BY <1>5 DEF Restart
  <2> QED
    BY <2>1, <2>2, <2>3 DEF TypeOK, AgeBounded
<1>6. CASE Refresh
  BY <1>6, SMT DEF Refresh, TypeOK, AgeBounded, Runs
<1>7. CASE UNCHANGED vars
  BY <1>7 DEF vars, TypeOK, AgeBounded
<1> QED
  BY <1>1, <1>2, <1>3, <1>4, <1>5, <1>6, <1>7 DEF Next

LEMMA InvariantIInv == Spec => []IInv
  BY InitIInv, NextIInv, PTL DEF Spec

(***************************************************************************)
(* Ages and phases stay in their ranges, and a daily run is over before    *)
(* the next begins.                                                        *)
(***************************************************************************)
THEOREM TypeCorrect == Spec => []TypeOK
<1>1. IInv => TypeOK
  BY DEF IInv
<1> QED
  BY <1>1, InvariantIInv, PTL

(***************************************************************************)
(* With a TTL of at least the stale limit, a day and the duration of the   *)
(* run together, list_stale_market_metric_codes takes every value on       *)
(* before _fresh_cached_metrics would turn it down.                        *)
(***************************************************************************)
THEOREM SettingsThatFitSuffice ==
    ASSUME SettingsFit
    PROVE  Spec => []RenewedInTime
<1>1. IInv => RenewedInTime
  BY SettingsFit, SettingsAssumption, SMT
     DEF IInv, TypeOK, AgeBounded, RenewedInTime, Expired, SettingsFit
<1> QED
  BY <1>1, InvariantIInv, PTL
=============================================================================
