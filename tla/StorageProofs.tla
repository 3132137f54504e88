---------------------------- MODULE StorageProofs ----------------------------
(***************************************************************************)
(* What the monitors and the copies of StorageModules keep, for any        *)
(* addresses, limits, thresholds, windows, sizes and clocks: the limiters  *)
(* of resource_management.rs, the counters of security_monitoring.rs, the  *)
(* logs of security_analytics.rs, the caches of memory_optimization.rs and *)
(* network_optimization.rs and the packed books of state_compression.rs.   *)
(***************************************************************************)
EXTENDS StorageModules, RecordProofs

-----------------------------------------------------------------------------
(* Budgets and rate limits.                                                *)

\* The calls let through since the window's start, and in as long before it.
Current == {t \in Nat : t >= limiter.start}
Before  == {t \in Nat : limiter.start - WindowLen <= t /\ t < limiter.start}

\* Nothing let through is from the future or past the window's end; what was
\* let through since its start is what it counted.  The calls as long before
\* it are within the limit too, whence twice the limit in any window.
WindowExact ==
  /\ \A i \in DOMAIN admitted : admitted[i] <= now
  /\ WindowLen > 0 =>
       /\ \A i \in DOMAIN admitted : admitted[i] < limiter.start + WindowLen
       /\ Cardinality(Hits(admitted, Current)) = limiter.count
       /\ Cardinality(Hits(admitted, Before)) <= RateLimit
       /\ \A from \in 0..MaxTime : AdmittedIn(from) <= 2 * RateLimit

LimitersInv ==
  /\ LedgerTypeOK /\ LimitersTypeOK
  /\ admitted \in Seq(Nat)
  /\ WindowExact
  /\ busted \in BOOLEAN /\ (busted <=> ~WithinBudget(budget))

LEMMA LimitersStart == LedgerInit /\ LimitersInit => LimitersInv
<1> SUFFICES ASSUME LedgerInit, LimitersInit PROVE LimitersInv
  OBVIOUS
<1>1. /\ now = 0 /\ admitted = <<>> /\ limiter = [start |-> now, count |-> 0]
      /\ busted = FALSE /\ budget = [cpu |-> 0, memory |-> 0]
      /\ quotaUsed = 0 /\ rateConfig = None
  BY DEF LedgerInit, LimitersInit
<1>2. admitted \in Seq(Nat) /\ DOMAIN admitted = {}
  BY <1>1
<1>3. \A P : Cardinality(Hits(admitted, P)) = 0
  BY <1>2, HitsNone
<1>4. \A from \in 0..MaxTime : AdmittedIn(from) = 0
  BY <1>3 DEF AdmittedIn
<1>5. WindowExact
  BY <1>1, <1>2, <1>3, <1>4, LimitersAssumption DEF WindowExact
<1>6. LedgerTypeOK /\ LimitersTypeOK
  <2>1. /\ MaxTime \in Nat /\ MaxWork \in Nat /\ RateLimit \in Nat /\ Quota \in Nat
        /\ signer = None
    BY LedgerAssumption, LimitersAssumption DEF LedgerInit
  <2>2. LimitersTypeOK
    BY <1>1, <2>1 DEF LimitersTypeOK
  <2> QED  BY <1>1, <2>1, <2>2 DEF LedgerTypeOK
<1>7. WithinBudget(budget)
  BY <1>1, LimitersAssumption DEF WithinBudget
<1> QED  BY <1>1, <1>2, <1>5, <1>6, <1>7 DEF LimitersInv

\* What was used never shrinks, so a budget exceeded stays exceeded.
LEMMA ConsumeKeeps ==
  ASSUME LimitersInv, NEW cpu \in Works, NEW memory \in Works, Consume(cpu, memory)
  PROVE  LimitersInv'
<1> DEFINE c == Saturated(budget.cpu + cpu, MaxWork)
           m == Saturated(budget.memory + memory, MaxWork)
<1>1. /\ budget' = [cpu |-> c, memory |-> m]
      /\ busted' = (busted \/ ~WithinBudget(budget'))
      /\ UNCHANGED <<now, limiter, quotaUsed, rateConfig, admitted>>
      /\ signer' = None
  BY DEF Consume, Unsigned
<1>2. /\ budget.cpu \in 0..MaxWork /\ budget.memory \in 0..MaxWork
      /\ cpu \in Nat /\ memory \in Nat /\ MaxWork \in Nat
      /\ CpuCap \in Nat /\ MemoryCap \in Nat
  BY LimitersAssumption DEF LimitersInv, LimitersTypeOK
<1>3. c \in 0..MaxWork /\ c >= budget.cpu /\ m \in 0..MaxWork /\ m >= budget.memory
  BY <1>2 DEF Saturated
<1> HIDE DEF c, m
<1>4. LimitersTypeOK'
  BY <1>1, <1>3 DEF LimitersInv, LimitersTypeOK
<1>5. ~WithinBudget(budget) => ~WithinBudget(budget')
  BY <1>1, <1>2, <1>3 DEF WithinBudget
<1>6. WindowExact'
  BY <1>1 DEF LimitersInv, WindowExact, AdmittedIn, Current, Before
<1>7. LedgerTypeOK'
  BY <1>1 DEF LimitersInv, LedgerTypeOK
<1>8. busted' \in BOOLEAN /\ (busted' <=> ~WithinBudget(budget'))
  BY <1>1, <1>5 DEF LimitersInv
<1>9. WithinBudget(budget)' = WithinBudget(budget')
  BY DEF WithinBudget
<1> QED  BY <1>1, <1>4, <1>6, <1>7, <1>8, <1>9 DEF LimitersInv

\* Where record puts the window, and what it has counted there.
Over == now >= limiter.start + WindowLen
Opened == IF Over THEN now ELSE limiter.start
Counted == IF Over THEN 0 ELSE limiter.count

\* The window that record finds or opens: it holds what it counts, and as long
\* before it no more than the limit was let through.
LEMMA WindowOpened ==
  ASSUME LimitersInv, WindowLen > 0
  PROVE  /\ Opened \in 0..now /\ Counted \in 0..RateLimit
         /\ now < Opened + WindowLen
         /\ Cardinality(Hits(admitted, {t \in Nat : t >= Opened})) = Counted
         /\ Cardinality(Hits(admitted,
              {t \in Nat : Opened - WindowLen <= t /\ t < Opened})) <= RateLimit
<1>1. /\ now \in Nat /\ limiter.start \in 0..now /\ limiter.count \in 0..RateLimit
      /\ WindowLen \in Nat /\ RateLimit \in Nat
  BY LedgerAssumption, LimitersAssumption
     DEF LimitersInv, LedgerTypeOK, LimitersTypeOK
<1>2. /\ admitted \in Seq(Nat)
      /\ \A i \in DOMAIN admitted : admitted[i] \in Nat
      /\ \A i \in DOMAIN admitted : admitted[i] < limiter.start + WindowLen
      /\ Cardinality(Hits(admitted, Current)) = limiter.count
      /\ Cardinality(Hits(admitted, Before)) <= RateLimit
  BY DEF LimitersInv, WindowExact
<1>3. CASE ~Over
  <2>1. Opened = limiter.start /\ Counted = limiter.count
    BY <1>3 DEF Opened, Counted
  <2>2. /\ Current = {t \in Nat : t >= Opened}
        /\ Before = {t \in Nat : Opened - WindowLen <= t /\ t < Opened}
    BY <2>1 DEF Current, Before
  <2>3. now < limiter.start + WindowLen
    BY <1>1, <1>3 DEF Over
  <2> QED  BY <1>1, <1>2, <2>1, <2>2, <2>3
<1>4. CASE Over
  <2> DEFINE P == {t \in Nat : t >= now}
             Q == {t \in Nat : now - WindowLen <= t /\ t < now}
  <2>1. Opened = now /\ Counted = 0 /\ now >= limiter.start + WindowLen
    BY <1>4 DEF Over, Opened, Counted
  <2>2. \A i \in DOMAIN admitted : admitted[i] \notin P
    BY <1>1, <1>2, <2>1
  <2>3. Cardinality(Hits(admitted, P)) = 0
    <3> HIDE DEF P
    <3> QED  BY <2>2, HitsNone
  <2>4. \A i \in DOMAIN admitted : admitted[i] \in Q => admitted[i] \in Current
    BY <1>1, <2>1 DEF Current
  <2>5. Cardinality(Hits(admitted, Q)) <= Cardinality(Hits(admitted, Current))
    <3> HIDE DEF Q
    <3> QED  BY <1>2, <2>4, HitsMonotone
  <2>6. Cardinality(Hits(admitted, Q)) \in Nat
    <3> HIDE DEF Q
    <3> QED  BY <1>2, HitsType
  <2>7. Cardinality(Hits(admitted, Q)) <= RateLimit
    BY <1>1, <1>2, <2>5, <2>6
  <2>8. /\ Cardinality(Hits(admitted, {t \in Nat : t >= Opened})) = Counted
        /\ Cardinality(Hits(admitted,
             {t \in Nat : Opened - WindowLen <= t /\ t < Opened})) <= RateLimit
    BY <2>1, <2>3, <2>7
  <2> QED  BY <1>1, <2>1, <2>8
<1> QED  BY <1>3, <1>4

\* What a call let through adds to the counts, and to any window it falls in.
LEMMA AdmitKeeps ==
  ASSUME LimitersInv, WindowLen > 0, Counted < RateLimit,
         limiter' = [start |-> Opened, count |-> Counted + 1],
         admitted' = Append(admitted, now), now' = now
  PROVE  WindowExact'
<1>1. /\ now \in Nat /\ WindowLen \in Nat /\ RateLimit \in Nat /\ admitted \in Seq(Nat)
      /\ \A i \in DOMAIN admitted : admitted[i] \in Nat /\ admitted[i] <= now
      /\ \A from \in 0..MaxTime : AdmittedIn(from) <= 2 * RateLimit
  BY LedgerAssumption, LimitersAssumption, SMTT(30)
     DEF LimitersInv, LedgerTypeOK, WindowExact
<1> DEFINE P == {t \in Nat : t >= Opened}
           Q == {t \in Nat : Opened - WindowLen <= t /\ t < Opened}
<1>2. /\ Opened \in 0..now /\ Counted \in 0..RateLimit /\ now < Opened + WindowLen
      /\ Cardinality(Hits(admitted, P)) = Counted
      /\ Cardinality(Hits(admitted, Q)) <= RateLimit
  BY WindowOpened
<1>3. limiter'.start = Opened /\ limiter'.count = Counted + 1
  OBVIOUS
<1>4. Current' = P /\ Before' = Q
  BY <1>3 DEF Current, Before
<1>5. now \in P /\ now \notin Q
  BY <1>1, <1>2
<1> DEFINE more == Append(admitted, now)
<1>6. \A i \in DOMAIN more : more[i] \in Nat /\ more[i] <= now
  BY <1>1
<1>7. more \in Seq(Nat)
  BY <1>1
<1> HIDE DEF P, Q, more
<1>8. /\ Cardinality(Hits(more, P)) = Counted + 1
      /\ Cardinality(Hits(more, Q)) = Cardinality(Hits(admitted, Q))
  <2>1. /\ Cardinality(Hits(more, P)) = Cardinality(Hits(admitted, P)) + 1
        /\ Cardinality(Hits(more, Q)) = Cardinality(Hits(admitted, Q)) + 0
    <3>1. Cardinality(Hits(more, P)) =
            Cardinality(Hits(admitted, P)) + (IF now \in P THEN 1 ELSE 0)
      BY <1>1, HitsAppend, ZenonT(30) DEF more
    <3>2. Cardinality(Hits(more, Q)) =
            Cardinality(Hits(admitted, Q)) + (IF now \in Q THEN 1 ELSE 0)
      BY <1>1, HitsAppend, ZenonT(30) DEF more
    <3> QED  BY <1>5, <3>1, <3>2
  <2>2. Cardinality(Hits(admitted, Q)) \in Nat
    BY <1>1, HitsType
  <2> QED  BY <1>2, <2>1, <2>2
<1>9. ASSUME NEW from \in 0..MaxTime PROVE AdmittedIn(from)' <= 2 * RateLimit
  <2> DEFINE W == from..from + WindowLen - 1
  <2>1. AdmittedIn(from)' = Cardinality(Hits(more, W))
    BY DEF AdmittedIn, more
  <2>2. AdmittedIn(from) = Cardinality(Hits(admitted, W))
    BY DEF AdmittedIn
  <2>3. from \in Nat
    BY LedgerAssumption
  <2>4. CASE now \in W
    <3>1. ASSUME NEW i \in DOMAIN more, more[i] \in W PROVE more[i] \in P \/ more[i] \in Q
      BY <1>1, <1>2, <1>6, <2>3, <2>4, <3>1 DEF P, Q
    <3> HIDE DEF W
    <3>2. Cardinality(Hits(more, W)) <= Cardinality(Hits(more, P)) + Cardinality(Hits(more, Q))
      BY <1>7, <3>1, HitsCover
    <3>3. /\ Cardinality(Hits(more, W)) \in Nat /\ Cardinality(Hits(more, Q)) \in Nat
      BY <1>7, HitsType
    <3> QED  BY <1>1, <1>2, <1>8, <2>1, <3>2, <3>3
  <2>5. CASE now \notin W
    <3> HIDE DEF W
    <3>1. Cardinality(Hits(more, W)) = Cardinality(Hits(admitted, W)) + 0
      BY <1>1, <2>5, HitsAppend DEF more
    <3>2. Cardinality(Hits(admitted, W)) \in Nat
      BY <1>1, HitsType
    <3> QED  BY <1>1, <2>1, <2>2, <3>1, <3>2
  <2> QED  BY <2>4, <2>5
<1>10. \A i \in DOMAIN more : more[i] < Opened + WindowLen
  BY <1>1, <1>2, <1>6
<1>11. admitted' = more
  BY DEF more
<1> QED
  BY <1>2, <1>3, <1>4, <1>6, <1>8, <1>9, <1>10, <1>11 DEF WindowExact

LEMMA RecordCallKeeps ==
  ASSUME LimitersInv, RecordCall
  PROVE  LimitersInv'
<1>1. /\ now' = now /\ signer' = None
      /\ UNCHANGED <<budget, quotaUsed, rateConfig, busted>>
      /\ \/ /\ Counted < RateLimit
            /\ limiter' = [start |-> Opened, count |-> Counted + 1]
            /\ admitted' = Append(admitted, now)
         \/ /\ ~(Counted < RateLimit)
            /\ limiter' = [start |-> Opened, count |-> Counted]
            /\ admitted' = admitted
  BY DEF RecordCall, Unsigned, Counted, Opened, Over
<1>2. /\ now \in Nat /\ limiter.start \in 0..now /\ limiter.count \in 0..RateLimit
      /\ WindowLen \in Nat /\ RateLimit \in Nat /\ admitted \in Seq(Nat)
      /\ \A i \in DOMAIN admitted : admitted[i] <= now
  BY LedgerAssumption, LimitersAssumption
     DEF LimitersInv, LedgerTypeOK, LimitersTypeOK, WindowExact
<1>3. Opened \in 0..now /\ Counted \in 0..RateLimit
  BY <1>2 DEF Opened, Counted
<1>4. LimitersTypeOK' /\ admitted' \in Seq(Nat)
  <2>1. limiter' \in [start : 0..now, count : 0..RateLimit]
    BY <1>1, <1>2, <1>3
  <2>2. LimitersTypeOK'
    BY <1>1, <2>1 DEF LimitersInv, LimitersTypeOK
  <2>3. Append(admitted, now) \in Seq(Nat)
    BY <1>2
  <2> QED  BY <1>1, <1>2, <2>2, <2>3
<1>5. WindowExact'
  <2>1. CASE WindowLen > 0 /\ Counted < RateLimit
    BY <1>1, <2>1, AdmitKeeps
  <2>2. CASE WindowLen > 0 /\ ~(Counted < RateLimit)
    <3>1. admitted' = admitted /\ limiter'.start = Opened /\ limiter'.count = Counted
      BY <1>1, <2>2
    <3>2. /\ now < Opened + WindowLen
          /\ Cardinality(Hits(admitted, {t \in Nat : t >= Opened})) = Counted
          /\ Cardinality(Hits(admitted,
               {t \in Nat : Opened - WindowLen <= t /\ t < Opened})) <= RateLimit
      BY <2>2, WindowOpened
    <3>3. /\ Current' = {t \in Nat : t >= Opened}
          /\ Before' = {t \in Nat : Opened - WindowLen <= t /\ t < Opened}
      BY <3>1 DEF Current, Before
    <3>4. \A from \in 0..MaxTime : AdmittedIn(from)' <= 2 * RateLimit
      BY <2>2, <3>1 DEF AdmittedIn, LimitersInv, WindowExact
    <3>5. \A i \in DOMAIN admitted : admitted[i] < Opened + WindowLen
      <4>1. \A i \in DOMAIN admitted : admitted[i] \in Nat
        BY <1>2
      <4> QED  BY <1>2, <1>3, <3>2, <4>1
    <3> QED  BY <1>1, <1>2, <3>1, <3>2, <3>3, <3>4, <3>5 DEF WindowExact
  <2>3. CASE ~(WindowLen > 0)
    <3>1. CASE admitted' = admitted
      BY <1>1, <1>2, <2>3, <3>1 DEF WindowExact
    <3>2. CASE admitted' = Append(admitted, now)
      <4>1. \A i \in DOMAIN admitted' : admitted'[i] <= now
        BY <1>2, <3>2
      <4> QED  BY <1>1, <2>3, <4>1 DEF WindowExact
    <3> QED  BY <1>1, <3>1, <3>2
  <2> QED  BY <2>1, <2>2, <2>3
<1>6. LedgerTypeOK' /\ WithinBudget(budget)' = WithinBudget(budget)
  BY <1>1 DEF LimitersInv, LedgerTypeOK, WithinBudget
<1> QED  BY <1>1, <1>4, <1>5, <1>6 DEF LimitersInv

LEMMA LimitersStep ==
  LimitersInv /\ [LimitersNext]_<<ledgerVars, limiterVars>> => LimitersInv'
<1> SUFFICES ASSUME LimitersInv, [LimitersNext]_<<ledgerVars, limiterVars>>
             PROVE  LimitersInv'
  OBVIOUS
<1>1. ASSUME /\ UNCHANGED <<budget, limiter, admitted, busted>>
             /\ LedgerTypeOK' /\ now' >= now
             /\ quotaUsed' \in 0..Quota
             /\ rateConfig' = None
                  \/ {rateConfig'.requests, rateConfig'.window} \subseteq 1..MaxSetting
      PROVE  LimitersInv'
  <2>1. now \in Nat /\ now' \in Nat
    BY <1>1, LedgerAssumption DEF LimitersInv, LedgerTypeOK
  <2>2. LimitersTypeOK'
    BY <1>1, <2>1 DEF LimitersInv, LimitersTypeOK
  <2>3. WindowExact'
    <3>1. \A i \in DOMAIN admitted : admitted[i] \in Nat /\ admitted[i] <= now
      BY DEF LimitersInv, WindowExact
    <3>2. \A i \in DOMAIN admitted : admitted[i] <= now'
      BY <1>1, <2>1, <3>1
    <3>3. Current' = Current /\ Before' = Before
      BY <1>1 DEF Current, Before
    <3>4. \A from \in 0..MaxTime : AdmittedIn(from)' = AdmittedIn(from)
      BY <1>1 DEF AdmittedIn
    <3> QED  BY <1>1, <3>2, <3>3, <3>4 DEF LimitersInv, WindowExact
  <2>4. WithinBudget(budget)' = WithinBudget(budget)
    BY <1>1 DEF WithinBudget
  <2> QED  BY <1>1, <2>2, <2>3, <2>4 DEF LimitersInv
<1>2. CASE UNCHANGED <<ledgerVars, limiterVars>>
  <2>1. /\ LedgerTypeOK' /\ now' >= now
    BY <1>2, LedgerAssumption DEF LimitersInv, LedgerTypeOK, ledgerVars
  <2> QED  BY <1>1, <1>2, <2>1 DEF LimitersInv, LimitersTypeOK, limiterVars
<1>3. ASSUME NEW cpu \in Works, NEW memory \in Works, Consume(cpu, memory)
      PROVE  LimitersInv'
  BY <1>3, ConsumeKeeps
<1>4. CASE RecordCall
  BY <1>4, RecordCallKeeps
<1>5. ASSUME Unsigned PROVE LedgerTypeOK' /\ now' >= now
  BY <1>5, LedgerAssumption DEF Unsigned, LimitersInv, LedgerTypeOK
<1>6. CASE RecordWrite
  <2>1. quotaUsed' \in 0..Quota
    BY <1>6, LimitersAssumption
       DEF RecordWrite, QuotaExhausted, LimitersInv, LimitersTypeOK
  <2> QED
    BY <1>1, <1>5, <1>6, <2>1 DEF RecordWrite, LimitersInv, LimitersTypeOK
<1>7. ASSUME NEW r \in RateSettings, NEW w \in RateSettings, SetRateLimit(r, w)
      PROVE  LimitersInv'
  <2>1. {rateConfig'.requests, rateConfig'.window} \subseteq 1..MaxSetting
    BY <1>7 DEF SetRateLimit
  <2> QED
    BY <1>1, <1>5, <1>7, <2>1 DEF SetRateLimit, LimitersInv, LimitersTypeOK
<1>8. CASE Tick /\ UNCHANGED limiterVars
  <2>1. LedgerTypeOK' /\ now' >= now
    BY <1>8, LedgerAssumption DEF Tick, LimitersInv, LedgerTypeOK
  <2> QED
    BY <1>1, <1>8, <2>1 DEF limiterVars, LimitersInv, LimitersTypeOK
<1> QED  BY <1>2, <1>3, <1>4, <1>6, <1>7, <1>8 DEF LimitersNext

\* All of something is reported only of a cap that is used up.
LEMMA FullUse ==
  ASSUME NEW used \in Nat, NEW cap \in Nat, used <= cap,
         UtilizationPct(used, cap) = 100
  PROVE  used = cap
<1>1. CASE cap = 0
  BY <1>1
<1>2. CASE cap > 0
  <2> DEFINE x == Saturated(used * 100, MaxWork)
  <2>1. x \in Nat /\ x <= used * 100
    BY LimitersAssumption DEF Saturated
  <2> HIDE DEF x
  <2>2. x \div cap \in Nat /\ x >= (x \div cap) * cap
    BY <1>2, <2>1
  <2>3. UtilizationPct(used, cap) = Saturated(x \div cap, 100)
    BY <1>2 DEF UtilizationPct, x
  <2>4. x \div cap >= 100
    BY <2>2, <2>3 DEF Saturated
  <2>5. (x \div cap) * cap >= 100 * cap
    BY <1>2, <2>2, <2>4
  <2> QED  BY <2>1, <2>2, <2>5
<1> QED  BY <1>1, <1>2

LEMMA LimitersMeaning == LimitersInv => LimitersBound
<1> SUFFICES ASSUME LimitersInv PROVE LimitersBound
  OBVIOUS
<1>1. /\ now \in Nat /\ limiter.start \in 0..now /\ limiter.count \in 0..RateLimit
      /\ WindowLen \in Nat /\ RateLimit \in Nat /\ admitted \in Seq(Nat)
      /\ CpuCap \in Nat /\ MemoryCap \in Nat
      /\ budget.cpu \in Nat /\ budget.memory \in Nat
  BY LedgerAssumption, LimitersAssumption
     DEF LimitersInv, LedgerTypeOK, LimitersTypeOK, WindowExact
<1>2. ASSUME WindowLen > 0 PROVE AdmittedIn(limiter.start) = limiter.count
  <2>1. /\ \A i \in DOMAIN admitted :
             admitted[i] \in Nat /\ admitted[i] < limiter.start + WindowLen
        /\ Cardinality(Hits(admitted, Current)) = limiter.count
    BY <1>2 DEF LimitersInv, WindowExact
  <2>2. Hits(admitted, Current) =
          Hits(admitted, limiter.start..limiter.start + WindowLen - 1)
    BY <1>1, <2>1 DEF Hits, Current
  <2> QED  BY <2>1, <2>2 DEF AdmittedIn
<1>3. ASSUME NEW from \in 0..MaxTime PROVE AdmittedIn(from) <= 2 * RateLimit
  <2>1. CASE WindowLen > 0
    BY <2>1 DEF LimitersInv, WindowExact
  <2>2. CASE WindowLen = 0
    <3>1. from \in Nat /\ \A i \in DOMAIN admitted : admitted[i] \in Nat
      BY <1>1, LedgerAssumption
    <3>2. \A i \in DOMAIN admitted : admitted[i] \notin from..from + WindowLen - 1
      BY <2>2, <3>1
    <3>3. AdmittedIn(from) = 0
      BY <3>2, HitsNone DEF AdmittedIn
    <3> QED  BY <1>1, <3>3
  <2> QED  BY <1>1, <2>1, <2>2
<1>4. LimiterExhausted => limiter.count = RateLimit
  BY <1>1 DEF LimiterExhausted
<1>5. ASSUME WithinBudget(budget)
      PROVE  /\ Remaining(budget.cpu, CpuCap) + budget.cpu = CpuCap
             /\ UtilizationPct(budget.memory, MemoryCap) = 100 => budget.memory = MemoryCap
  BY <1>1, <1>5, FullUse DEF WithinBudget, Remaining
<1> QED  BY <1>2, <1>3, <1>4, <1>5 DEF LimitersBound, LimitersInv

-----------------------------------------------------------------------------
(* Alarms and incidents.                                                   *)

Threats == [who : Addresses, kind : {"burst", "failure", "unauthorized", "whale"}]

Capped(n) == IF n > CountMax THEN CountMax ELSE n

\* What an address's counters show beyond their thresholds was reported.
NotSilenced(a) ==
  /\ Reported(a, "burst") >= Excess(burst[a], BurstThreshold)
  /\ Reported(a, "failure") + Reported(a, "unauthorized")
       >= Excess(failures[a], FailureThreshold - 1)

AlarmsInv ==
  /\ AlarmsTypeOK
  /\ reported \in Seq(Threats) /\ since \in Nat
  /\ alertCount = Capped(Len(reported)) /\ incidents = Capped(since)
  /\ \A a \in Addresses : NotSilenced(a)

LEMMA AlarmsStart == AlarmsInit => AlarmsInv
<1> SUFFICES ASSUME AlarmsInit PROVE AlarmsInv
  OBVIOUS
<1>1. /\ burst = [a \in Addresses |-> 0] /\ failures = [a \in Addresses |-> 0]
      /\ alertCount = 0 /\ incidents = 0 /\ since = 0
      /\ alerts = <<>> /\ reported = <<>>
      /\ CountMax \in Nat /\ BurstThreshold \in Nat /\ FailureThreshold \in Nat \ {0}
  BY AlarmsAssumption DEF AlarmsInit
<1>2. reported \in Seq(Threats) /\ Len(reported) = 0 /\ DOMAIN reported = {}
  BY <1>1
<1>3. \A P : Cardinality(Hits(reported, P)) = 0
  BY <1>2, HitsNone
<1>4. ASSUME NEW a \in Addresses PROVE NotSilenced(a)
  <2>1. /\ Reported(a, "burst") = 0 /\ Reported(a, "failure") = 0
        /\ Reported(a, "unauthorized") = 0
    BY <1>3 DEF Reported
  <2>2. Excess(0, BurstThreshold) = 0 /\ Excess(0, FailureThreshold - 1) = 0
    BY <1>1 DEF Excess
  <2> QED  BY <1>1, <2>1, <2>2 DEF NotSilenced
<1>5. AlarmsTypeOK
  BY <1>1 DEF AlarmsTypeOK
<1>6. Capped(0) = 0
  BY <1>1 DEF Capped
<1> QED  BY <1>1, <1>2, <1>4, <1>5, <1>6 DEF AlarmsInv

\* Counting one more in a counter that stays at its maximum.
LEMMA BumpCounts ==
  ASSUME NEW n \in Nat
  PROVE  /\ Bump(Capped(n)) = Capped(n + 1)
         /\ Bump(Capped(n)) \in 0..CountMax /\ Capped(n) \in 0..CountMax
         /\ n <= CountMax => Bump(n) \in 0..CountMax /\ Bump(n) \in {n, n + 1}
BY AlarmsAssumption DEF Bump, Capped

\* A threat that is raised is counted and reported once; no other is.
LEMMA RaiseCounts ==
  ASSUME AlarmsInv, NEW detected \in BOOLEAN, NEW threat \in Threats,
         Raise(detected, threat)
  PROVE  /\ reported' \in Seq(Threats)
         /\ alertCount' = Capped(Len(reported')) /\ alertCount' \in 0..CountMax
         /\ \A a \in Addresses, kind \in {"burst", "failure", "unauthorized"} :
              /\ Reported(a, kind) \in Nat
              /\ Reported(a, kind)' =
                   Reported(a, kind)
                     + (IF detected /\ threat.who = a /\ threat.kind = kind THEN 1 ELSE 0)
<1>1. /\ reported \in Seq(Threats) /\ Len(reported) \in Nat
      /\ alertCount = Capped(Len(reported)) /\ alertCount \in 0..CountMax
  BY DEF AlarmsInv, AlarmsTypeOK
<1>2. \A a, kind : Reported(a, kind) \in Nat
  BY <1>1, HitsType DEF Reported
<1>3. CASE detected
  <2>1. reported' = Append(reported, threat) /\ alertCount' = Bump(alertCount)
    BY <1>3 DEF Raise
  <2>2. reported' \in Seq(Threats) /\ Len(reported') = Len(reported) + 1
    BY <1>1, <2>1
  <2>3. ASSUME NEW a, NEW kind
        PROVE  Reported(a, kind)' =
                 Reported(a, kind) + (IF threat.who = a /\ threat.kind = kind THEN 1 ELSE 0)
    <3> DEFINE P == {[who |-> a, kind |-> kind]}
    <3>1. Reported(a, kind) = Cardinality(Hits(reported, P))
      BY DEF Reported
    <3>2. Reported(a, kind)' = Cardinality(Hits(Append(reported, threat), P))
      BY <2>1 DEF Reported
    <3>3. threat \in P <=> threat.who = a /\ threat.kind = kind
      BY DEF Threats
    <3> HIDE DEF P
    <3>4. Cardinality(Hits(Append(reported, threat), P)) =
            Cardinality(Hits(reported, P)) + (IF threat \in P THEN 1 ELSE 0)
      BY <1>1, HitsAppend
    <3> QED  BY <3>1, <3>2, <3>3, <3>4
  <2>4. alertCount' = Capped(Len(reported')) /\ alertCount' \in 0..CountMax
    BY <1>1, <2>1, <2>2, BumpCounts
  <2> QED  BY <1>2, <1>3, <2>2, <2>3, <2>4
<1>4. CASE ~detected
  <2>1. reported' = reported /\ alertCount' = alertCount
    BY <1>4 DEF Raise
  <2>2. \A a, kind : Reported(a, kind)' = Reported(a, kind)
    BY <2>1 DEF Reported
  <2> QED  BY <1>1, <1>2, <1>4, <2>1, <2>2
<1> QED  BY <1>3, <1>4

\* One more in a counter, beyond its threshold, is at most one more excess.
LEMMA ExcessCounts ==
  ASSUME NEW n \in Nat, NEW m \in {n, n + 1}, NEW limit \in Nat
  PROVE  /\ Excess(n, limit) \in Nat /\ Excess(m, limit) \in Nat
         /\ Excess(m, limit) <= Excess(n, limit) + (IF m > limit THEN 1 ELSE 0)
BY DEF Excess

\* What every call of AlarmsInv's modules has to leave alone or account for.
LEMMA AlarmsFrame ==
  ASSUME AlarmsInv, AlarmsTypeOK', UNCHANGED <<incidents, since>>,
         reported' \in Seq(Threats), alertCount' = Capped(Len(reported')),
         \A a \in Addresses : NotSilenced(a)'
  PROVE  AlarmsInv'
BY DEF AlarmsInv, Capped

LEMMA AttemptKeeps ==
  ASSUME AlarmsInv, NEW c \in Addresses, RecordAttempt(c)
  PROVE  AlarmsInv'
<1> DEFINE threat == [who |-> c, kind |-> "burst"]
           n == Bump(burst[c])
           over == n > BurstThreshold
<1>1. /\ burst' = [burst EXCEPT ![c] = n]
      /\ Raise(burst'[c] > BurstThreshold, threat)
      /\ UNCHANGED <<failures, incidents, alerts, since>>
  BY DEF RecordAttempt
<1>2. /\ burst \in [Addresses -> 0..CountMax] /\ failures \in [Addresses -> 0..CountMax]
      /\ CountMax \in Nat /\ BurstThreshold \in Nat /\ FailureThreshold \in Nat
  BY AlarmsAssumption DEF AlarmsInv, AlarmsTypeOK
<1>3. burst[c] \in Nat /\ n \in 0..CountMax /\ n \in {burst[c], burst[c] + 1}
  BY <1>2, BumpCounts
<1> HIDE DEF n
<1>4. burst'[c] = n /\ Raise(over, threat) /\ over \in BOOLEAN /\ threat \in Threats
  BY <1>1, <1>2 DEF Threats
<1>5. /\ reported' \in Seq(Threats)
      /\ alertCount' = Capped(Len(reported')) /\ alertCount' \in 0..CountMax
      /\ \A a \in Addresses, kind \in {"burst", "failure", "unauthorized"} :
           /\ Reported(a, kind) \in Nat
           /\ Reported(a, kind)' =
                Reported(a, kind)
                  + (IF over /\ threat.who = a /\ threat.kind = kind THEN 1 ELSE 0)
  <2> HIDE DEF over, threat
  <2> QED  BY <1>4, RaiseCounts
<1>6. AlarmsTypeOK'
  BY <1>1, <1>2, <1>3, <1>5 DEF AlarmsInv, AlarmsTypeOK
<1>7. ASSUME NEW a \in Addresses PROVE NotSilenced(a)'
  <2>1. /\ Reported(a, "failure")' = Reported(a, "failure")
        /\ Reported(a, "unauthorized")' = Reported(a, "unauthorized")
        /\ Reported(a, "burst")' =
             Reported(a, "burst") + (IF over /\ a = c THEN 1 ELSE 0)
        /\ Reported(a, "burst") \in Nat
    BY <1>5
  <2>2. /\ Reported(a, "burst") >= Excess(burst[a], BurstThreshold)
        /\ Reported(a, "failure") + Reported(a, "unauthorized")
             >= Excess(failures[a], FailureThreshold - 1)
    BY DEF AlarmsInv, NotSilenced
  <2>3. Reported(a, "burst")' >= Excess(burst'[a], BurstThreshold)
    <3>1. CASE a = c
      <4>1. /\ Excess(burst[c], BurstThreshold) \in Nat
            /\ Excess(n, BurstThreshold) <=
                 Excess(burst[c], BurstThreshold) + (IF n > BurstThreshold THEN 1 ELSE 0)
            /\ Excess(n, BurstThreshold) \in Nat
        BY <1>2, <1>3, ExcessCounts
      <4> QED  BY <1>4, <2>1, <2>2, <3>1, <4>1
    <3>2. CASE a # c
      BY <1>1, <1>2, <2>1, <2>2, <3>2
    <3> QED  BY <3>1, <3>2
  <2> QED  BY <1>1, <2>1, <2>2, <2>3 DEF NotSilenced
<1> QED  BY <1>1, <1>5, <1>6, <1>7, AlarmsFrame

\* Failures and unauthorised attempts, which share a counter.
LEMMA FailureKeeps ==
  ASSUME AlarmsInv, NEW c \in Addresses, NEW kind \in {"failure", "unauthorized"},
         failures' = [failures EXCEPT ![c] = Bump(@)],
         Raise(failures'[c] >= FailureThreshold, [who |-> c, kind |-> kind]),
         UNCHANGED <<burst, incidents, alerts, since>>
  PROVE  AlarmsInv'
<1> DEFINE threat == [who |-> c, kind |-> kind]
           n == Bump(failures[c])
           over == n > FailureThreshold - 1
<1>2. /\ burst \in [Addresses -> 0..CountMax] /\ failures \in [Addresses -> 0..CountMax]
      /\ CountMax \in Nat /\ BurstThreshold \in Nat
      /\ FailureThreshold \in Nat /\ FailureThreshold - 1 \in Nat
  <2>1. AlarmsTypeOK /\ reported \in Seq(Threats)
    BY DEF AlarmsInv
  <2>2. /\ CountMax \in Nat /\ BurstThreshold \in Nat
        /\ FailureThreshold \in Nat /\ FailureThreshold > 0
    BY AlarmsAssumption
  <2>3. FailureThreshold - 1 \in Nat
    BY <2>2
  <2> QED  BY <2>1, <2>2, <2>3 DEF AlarmsTypeOK
<1>3. failures[c] \in Nat /\ n \in 0..CountMax /\ n \in {failures[c], failures[c] + 1}
  BY <1>2, BumpCounts
<1>1. failures' = [failures EXCEPT ![c] = n]
  OBVIOUS
<1> HIDE DEF n
<1>4. failures'[c] = n /\ Raise(over, threat) /\ over \in BOOLEAN /\ threat \in Threats
  <2>1. failures'[c] = n /\ threat \in Threats
    BY <1>1, <1>2 DEF Threats
  <2>2. (failures'[c] >= FailureThreshold) = over
    BY <1>2, <1>3, <2>1
  <2> HIDE DEF threat, over
  <2>3. Raise(over, threat)
    BY <2>2 DEF threat
  <2> QED  BY <2>1, <2>3 DEF over
<1>5. /\ reported' \in Seq(Threats)
      /\ alertCount' = Capped(Len(reported')) /\ alertCount' \in 0..CountMax
      /\ \A a \in Addresses, k \in {"burst", "failure", "unauthorized"} :
           /\ Reported(a, k) \in Nat
           /\ Reported(a, k)' =
                Reported(a, k)
                  + (IF over /\ threat.who = a /\ threat.kind = k THEN 1 ELSE 0)
  <2> HIDE DEF over, threat
  <2> QED  BY <1>4, RaiseCounts
<1>6. AlarmsTypeOK'
  BY <1>1, <1>2, <1>3, <1>5 DEF AlarmsInv, AlarmsTypeOK
<1>7. ASSUME NEW a \in Addresses PROVE NotSilenced(a)'
  <2>1. /\ Reported(a, "burst")' = Reported(a, "burst")
        /\ Reported(a, "failure")' + Reported(a, "unauthorized")' =
             Reported(a, "failure") + Reported(a, "unauthorized")
               + (IF over /\ a = c THEN 1 ELSE 0)
        /\ Reported(a, "failure") \in Nat /\ Reported(a, "unauthorized") \in Nat
    BY <1>5
  <2>2. /\ Reported(a, "burst") >= Excess(burst[a], BurstThreshold)
        /\ Reported(a, "failure") + Reported(a, "unauthorized")
             >= Excess(failures[a], FailureThreshold - 1)
    BY DEF AlarmsInv, NotSilenced
  <2>3. Reported(a, "failure")' + Reported(a, "unauthorized")'
          >= Excess(failures'[a], FailureThreshold - 1)
    <3>1. CASE a = c
      <4> DEFINE limit == FailureThreshold - 1
      <4>0. limit \in Nat  BY <1>2
      <4> HIDE DEF limit
      <4>1. /\ Excess(failures[c], limit) \in Nat /\ Excess(n, limit) \in Nat
            /\ Excess(n, limit) <=
                 Excess(failures[c], limit) + (IF n > limit THEN 1 ELSE 0)
        BY <1>2, <1>3, <4>0, ExcessCounts
      <4> QED  BY <1>4, <2>1, <2>2, <3>1, <4>1 DEF limit
    <3>2. CASE a # c
      BY <1>1, <1>2, <2>1, <2>2, <3>2
    <3> QED  BY <3>1, <3>2
  <2> QED  BY <2>1, <2>2, <2>3 DEF NotSilenced
<1> QED  BY <1>5, <1>6, <1>7, AlarmsFrame

LEMMA WhaleKeeps ==
  ASSUME AlarmsInv, NEW c \in Addresses, NEW amount \in WhaleAmounts,
         NEW goal \in WhaleAmounts, CheckWhale(c, amount, goal)
  PROVE  AlarmsInv'
<1> DEFINE threat == [who |-> c, kind |-> "whale"]
           over == IsWhale(amount, goal)
<1>1. /\ Raise(over, threat) /\ over \in BOOLEAN /\ threat \in Threats
      /\ UNCHANGED <<burst, failures, incidents, alerts, since>>
  BY DEF CheckWhale, IsWhale, Threats
<1>2. /\ reported' \in Seq(Threats)
      /\ alertCount' = Capped(Len(reported')) /\ alertCount' \in 0..CountMax
      /\ \A a \in Addresses, kind \in {"burst", "failure", "unauthorized"} :
           /\ Reported(a, kind) \in Nat
           /\ Reported(a, kind)' =
                Reported(a, kind)
                  + (IF over /\ threat.who = a /\ threat.kind = kind THEN 1 ELSE 0)
  <2> HIDE DEF over, threat
  <2> QED  BY <1>1, RaiseCounts
<1>3. \A a \in Addresses, kind \in {"burst", "failure", "unauthorized"} :
        Reported(a, kind)' = Reported(a, kind)
  BY <1>2
<1>4. AlarmsTypeOK'
  BY <1>1, <1>2 DEF AlarmsInv, AlarmsTypeOK
<1>5. \A a \in Addresses : NotSilenced(a)'
  BY <1>1, <1>3 DEF AlarmsInv, NotSilenced
<1> QED  BY <1>1, <1>2, <1>4, <1>5, AlarmsFrame

\* Resets take the count of an address back, and nothing that was reported.
LEMMA ResetKeeps ==
  ASSUME AlarmsInv, NEW c \in Addresses, ResetBurst(c) \/ ResetFailure(c)
  PROVE  AlarmsInv'
<1>1. /\ burst \in [Addresses -> 0..CountMax] /\ failures \in [Addresses -> 0..CountMax]
      /\ CountMax \in Nat /\ BurstThreshold \in Nat
      /\ FailureThreshold \in Nat /\ FailureThreshold - 1 \in Nat
      /\ reported \in Seq(Threats)
  <2>1. AlarmsTypeOK /\ reported \in Seq(Threats)
    BY DEF AlarmsInv
  <2>2. /\ CountMax \in Nat /\ BurstThreshold \in Nat
        /\ FailureThreshold \in Nat /\ FailureThreshold > 0
    BY AlarmsAssumption
  <2>3. FailureThreshold - 1 \in Nat
    BY <2>2
  <2> QED  BY <2>1, <2>2, <2>3 DEF AlarmsTypeOK
<1>2. UNCHANGED <<alertCount, incidents, alerts, reported, since>>
  BY DEF ResetBurst, ResetFailure
<1>3. AlarmsTypeOK'
  <2>1. 0 \in 0..CountMax
    BY <1>1
  <2>2. /\ burst' \in [Addresses -> 0..CountMax]
        /\ failures' \in [Addresses -> 0..CountMax]
    BY <1>1, <2>1 DEF ResetBurst, ResetFailure
  <2> QED  BY <1>2, <2>2 DEF AlarmsInv, AlarmsTypeOK
<1>4. ASSUME NEW a \in Addresses PROVE NotSilenced(a)'
  <2>1. \A kind : Reported(a, kind)' = Reported(a, kind) /\ Reported(a, kind) \in Nat
    BY <1>1, <1>2, HitsType DEF Reported
  <2>2. /\ burst'[a] \in {0, burst[a]} /\ failures'[a] \in {0, failures[a]}
    BY <1>1 DEF ResetBurst, ResetFailure
  <2>3. Excess(0, BurstThreshold) = 0 /\ Excess(0, FailureThreshold - 1) = 0
    BY <1>1 DEF Excess
  <2> QED  BY <2>1, <2>2, <2>3 DEF AlarmsInv, NotSilenced
<1> QED  BY <1>2, <1>3, <1>4, AlarmsFrame DEF AlarmsInv

LEMMA AlarmsStep == AlarmsInv /\ [AlarmsNext]_<<ledgerVars, alarmVars>> => AlarmsInv'
<1> SUFFICES ASSUME AlarmsInv, [AlarmsNext]_<<ledgerVars, alarmVars>>
             PROVE  AlarmsInv'
  OBVIOUS
<1>1. ASSUME UNCHANGED <<burst, failures, alertCount, reported>>,
             incidents' = Capped(since'), incidents' \in 0..CountMax, since' \in Nat,
             alerts' \in Seq([severity : Severities, resolved : BOOLEAN])
      PROVE  AlarmsInv'
  <2>1. AlarmsTypeOK'
    BY <1>1 DEF AlarmsInv, AlarmsTypeOK
  <2>2. \A a \in Addresses : NotSilenced(a)'
    BY <1>1 DEF AlarmsInv, NotSilenced, Reported
  <2> QED  BY <1>1, <2>1, <2>2 DEF AlarmsInv, Capped
<1>2. CASE UNCHANGED <<ledgerVars, alarmVars>>
  <2>1. incidents' = Capped(since')
    BY <1>2 DEF alarmVars, AlarmsInv, Capped
  <2> QED  BY <1>1, <1>2, <2>1 DEF alarmVars, AlarmsInv, AlarmsTypeOK
<1>3. ASSUME NEW c \in Addresses, RecordFailure(c) \/ CheckUnauthorized(c)
      PROVE  AlarmsInv'
  BY <1>3, FailureKeeps DEF RecordFailure, CheckUnauthorized
<1>4. CASE RecordIncident
  <2>1. since \in Nat /\ incidents = Capped(since)
    BY DEF AlarmsInv
  <2>2. since' = since + 1 /\ incidents' = Bump(incidents)
    BY <1>4 DEF RecordIncident
  <2>3. incidents' = Capped(since + 1) /\ incidents' \in 0..CountMax
    BY <2>1, <2>2, BumpCounts
  <2>4. incidents' = Capped(since')
    BY <2>2, <2>3 DEF Capped
  <2> QED
    BY <1>1, <1>4, <2>1, <2>2, <2>3, <2>4 DEF RecordIncident, AlarmsInv, AlarmsTypeOK
<1>5. CASE ResetIncidents
  <2>1. Capped(0) = 0 /\ 0 \in 0..CountMax
    BY AlarmsAssumption DEF Capped
  <2>2. incidents' = Capped(since') /\ since' = 0
    BY <1>5, <2>1 DEF ResetIncidents, Capped
  <2> QED  BY <1>1, <1>5, <2>1, <2>2 DEF ResetIncidents, AlarmsInv, AlarmsTypeOK
<1>6. ASSUME NEW severity, CreateAlert(severity) PROVE AlarmsInv'
  <2>1. alerts' \in Seq([severity : Severities, resolved : BOOLEAN])
    BY <1>6 DEF CreateAlert, AlarmsInv, AlarmsTypeOK
  <2>2. incidents' = Capped(since')
    BY <1>6 DEF CreateAlert, AlarmsInv, Capped
  <2> QED  BY <1>1, <1>6, <2>1, <2>2 DEF CreateAlert, AlarmsInv, AlarmsTypeOK
<1>7. ASSUME NEW id, ResolveAlert(id) PROVE AlarmsInv'
  <2> DEFINE Alert == [severity : Severities, resolved : BOOLEAN]
             x == [alerts[id] EXCEPT !.resolved = TRUE]
  <2>1. id \in DOMAIN alerts /\ alerts \in Seq(Alert)
    BY <1>7 DEF ResolveAlert, AlarmsInv, AlarmsTypeOK
  <2>2. x \in Alert
    <3>1. alerts[id] \in Alert
      <4> HIDE DEF Alert
      <4> QED  BY <2>1
    <3> QED  BY <3>1
  <2>3. alerts' = [alerts EXCEPT ![id] = x]
    BY <1>7 DEF ResolveAlert
  <2> HIDE DEF x, Alert
  <2>4. alerts' \in Seq(Alert)
    BY <2>1, <2>2, <2>3
  <2>5. incidents' = Capped(since')
    BY <1>7 DEF ResolveAlert, AlarmsInv, Capped
  <2> QED
    BY <1>1, <1>7, <2>4, <2>5 DEF Alert, ResolveAlert, AlarmsInv, AlarmsTypeOK
<1>8. CASE AlarmsNext
  BY <1>3, <1>4, <1>5, <1>6, <1>7, <1>8, AttemptKeeps, WhaleKeeps, ResetKeeps
     DEF AlarmsNext
<1> QED  BY <1>2, <1>8

LEMMA AlarmsMeaning == AlarmsInv => AlarmsAgree
<1> SUFFICES ASSUME AlarmsInv PROVE AlarmsAgree
  OBVIOUS
<1>1. AutoPause <=> since >= AutoPauseThreshold
  BY AlarmsAssumption DEF AutoPause, AlarmsInv, Capped
<1>2. ASSUME HasCritical PROVE \E i \in DOMAIN alerts : ~alerts[i].resolved
  <2> DEFINE I == {i \in DOMAIN alerts : alerts[i].severity = 4 /\ ~alerts[i].resolved}
  <2>1. Cardinality(I) > 0
    BY <1>2 DEF HasCritical, CriticalAlerts
  <2>2. I # {}
    <3> HIDE DEF I
    <3> QED  BY <2>1, FS_EmptySet
  <2> QED  BY <2>2
<1> QED  BY <1>1, <1>2 DEF AlarmsAgree, AlarmsInv, NotSilenced, Capped

-----------------------------------------------------------------------------
(* The packed copy of a campaign's books.                                  *)

\* The packed total is what was applied, from nothing on; a state that was
\* never stored has no goal and no deadline.
ShadowInv ==
  /\ now \in 0..MaxTime /\ ShadowTypeOK
  /\ booked \in Int /\ unopened \in BOOLEAN
  /\ booked = LoadOrInit.total_raised
  /\ unopened => LoadOrInit.goal = 0 /\ LoadOrInit.deadline = 0

LEMMA CompressedIsThere ==
  /\ None \notin CompressedState
  /\ \A s \in CompressedState :
       s.goal \in 0..ShadowMax /\ s.deadline \in 0..MaxTime /\ s.total_raised \in Int
<1>1. /\ ShadowGoals \cup {0} \subseteq 0..ShadowMax /\ ShadowMax \in Nat
      /\ 0..MaxTime \subseteq Nat /\ ShadowRange \subseteq Int
  BY ShadowAssumption, LedgerAssumption DEF ShadowRange
<1>2. CompressedState \subseteq [goal : Nat, deadline : Nat, total_raised : Int]
  <2>1. ShadowGoals \cup {0} \subseteq Nat
    BY <1>1
  <2> QED  BY <1>1, <2>1, Zenon DEF CompressedState
<1>3. \A s \in CompressedState :
        s.goal \in 0..ShadowMax /\ s.deadline \in 0..MaxTime /\ s.total_raised \in Int
  BY <1>1 DEF CompressedState
<1> QED  BY <1>2, <1>3, ShadowAssumption

LEMMA LoadType ==
  ASSUME ShadowInv
  PROVE  /\ LoadOrInit \in CompressedState
         /\ compressed # None => LoadOrInit = compressed
         /\ compressed = None => LoadOrInit = Uninitialised
<1>1. 0 \in 0..MaxTime /\ 0 \in ShadowRange
  BY ShadowAssumption, LedgerAssumption DEF ShadowRange
<1>2. Uninitialised \in CompressedState
  BY <1>1 DEF Uninitialised, CompressedState
<1> QED  BY <1>2 DEF LoadOrInit, ShadowInv, ShadowTypeOK

LEMMA ShadowStart == LedgerInit /\ ShadowInit => ShadowInv
<1> SUFFICES ASSUME LedgerInit, ShadowInit PROVE ShadowInv
  OBVIOUS
<1>1. LoadOrInit = Uninitialised
  BY DEF ShadowInit, LoadOrInit
<1>2. now = 0 /\ 0 \in 0..MaxTime
  BY LedgerAssumption DEF LedgerInit
<1> QED
  BY <1>1, <1>2 DEF ShadowInv, ShadowInit, ShadowTypeOK, Uninitialised

\* A packed state stored anew, or with another total.
LEMMA PackedKeeps ==
  ASSUME ShadowInv, NEW s \in CompressedState, compressed' = s,
         UNCHANGED <<now, packedMeta, entry>>,
         booked' = s.total_raised, unopened' \in BOOLEAN,
         unopened' => s.goal = 0 /\ s.deadline = 0
  PROVE  ShadowInv'
<1>1. s # None
  BY CompressedIsThere
<1>2. LoadOrInit' = s
  BY <1>1 DEF LoadOrInit
<1>3. booked' \in Int
  BY CompressedIsThere
<1> QED  BY <1>2, <1>3 DEF ShadowInv, ShadowTypeOK

LEMMA AppliedKeeps ==
  ASSUME ShadowInv, NEW amount \in ShadowAmounts,
         ApplyContribution(amount) \/ ApplyRefund(amount), now' = now
  PROVE  ShadowInv'
<1> DEFINE s == LoadOrInit
<1>1. s \in CompressedState /\ s.total_raised \in Int /\ amount \in Int
      /\ booked = s.total_raised
  BY LoadType, CompressedIsThere, ShadowAssumption DEF ShadowInv
<1> DEFINE With(n) == [s EXCEPT !.total_raised = n]
<1>2. \A n \in ShadowRange :
        /\ With(n) \in CompressedState /\ With(n).total_raised = n
        /\ With(n).goal = s.goal /\ With(n).deadline = s.deadline
  BY <1>1 DEF CompressedState
<1>3. UNCHANGED <<now, packedMeta, entry, unopened>>
  BY DEF ApplyContribution, ApplyRefund
<1>4. \E n \in ShadowRange : compressed' = With(n) /\ booked' = n
  <2>1. CASE ApplyContribution(amount)
    BY <1>1, <2>1 DEF ApplyContribution
  <2>2. CASE ApplyRefund(amount)
    BY <1>1, <2>2 DEF ApplyRefund
  <2> QED  BY <2>1, <2>2
<1>5. /\ unopened \in BOOLEAN
      /\ unopened => s.goal = 0 /\ s.deadline = 0
  BY DEF ShadowInv
<1> HIDE DEF s, With
<1>6. PICK n \in ShadowRange : compressed' = With(n) /\ booked' = n
  BY <1>4
<1> QED  BY <1>2, <1>3, <1>5, <1>6, PackedKeeps

LEMMA ShadowStep ==
  ShadowInv /\ [ShadowNext]_<<ledgerVars, shadowVars>> => ShadowInv'
<1> SUFFICES ASSUME ShadowInv, [ShadowNext]_<<ledgerVars, shadowVars>>
             PROVE  ShadowInv'
  OBVIOUS
<1>1. ASSUME UNCHANGED <<compressed, booked, unopened>>, now' \in 0..MaxTime,
             packedMeta' \in CompressedState \cup {None},
             entry' \in (ShadowAmounts \cap 1..ShadowMax) \cup {None}
      PROVE  ShadowInv'
  <2>1. LoadOrInit' = LoadOrInit
    BY <1>1 DEF LoadOrInit
  <2> QED  BY <1>1, <2>1 DEF ShadowInv, ShadowTypeOK
<1>2. CASE UNCHANGED <<ledgerVars, shadowVars>>
  BY <1>1, <1>2 DEF ledgerVars, shadowVars, ShadowInv, ShadowTypeOK
<1>3. CASE Tick /\ UNCHANGED shadowVars
  <2>1. now' \in 0..MaxTime
    BY <1>3, LedgerAssumption DEF Tick, ShadowInv
  <2> QED  BY <1>1, <1>3, <2>1 DEF shadowVars, ShadowInv, ShadowTypeOK
<1>4. ASSUME NEW goal \in ShadowGoals, NEW deadline \in 0..MaxTime, now' = now,
             StoreCompressed([goal |-> goal, deadline |-> deadline, total_raised |-> 0])
      PROVE  ShadowInv'
  <2> DEFINE s == [goal |-> goal, deadline |-> deadline, total_raised |-> 0]
  <2>1. 0 \in ShadowRange
    BY ShadowAssumption DEF ShadowRange
  <2>2. s \in CompressedState /\ s.total_raised = 0
    BY <2>1 DEF CompressedState
  <2> HIDE DEF s
  <2>3. /\ compressed' = s /\ booked' = s.total_raised /\ unopened' = FALSE
        /\ UNCHANGED <<packedMeta, entry>>
    BY <1>4 DEF StoreCompressed, s
  <2> QED  BY <1>4, <2>2, <2>3, PackedKeeps
<1>5. ASSUME NEW amount \in ShadowAmounts, now' = now, StoreContribution(amount)
      PROVE  ShadowInv'
  <2>1. entry' \in (ShadowAmounts \cap 1..ShadowMax) \cup {None}
    BY <1>5, ShadowAssumption DEF StoreContribution
  <2> QED  BY <1>1, <1>5, <2>1 DEF StoreContribution, ShadowInv, ShadowTypeOK
<1>6. ASSUME StorePackedMeta, now' = now PROVE ShadowInv'
  <2>1. packedMeta' \in CompressedState \cup {None}
    BY <1>6, LoadType DEF StorePackedMeta
  <2> QED  BY <1>1, <1>6, <2>1 DEF StorePackedMeta, ShadowInv, ShadowTypeOK
<1>7. CASE ShadowNext
  BY <1>3, <1>4, <1>5, <1>6, <1>7, AppliedKeeps DEF ShadowNext, Unsigned
<1> QED  BY <1>2, <1>7

\* Full progress is the goal and the goal full progress, unless it overflows.
LEMMA ProgressMeaning ==
  ASSUME ShadowInv, compressed # None, compressed.goal > 0
  PROVE  LET total == compressed.total_raised
             goal == compressed.goal
         IN /\ ShadowProgress = ShadowScale => total >= goal
            /\ total >= goal /\ ShadowProgress # ShadowScale =>
                 ShadowProgress = 0 /\ total * ShadowScale > ShadowMax
            /\ ShadowProgress < 0 => total < 0
<1> DEFINE total == compressed.total_raised
           goal == compressed.goal
           product == total * ShadowScale
           q == product \div goal
<1>1. /\ total \in Int /\ goal \in Nat /\ goal > 0
      /\ ShadowScale \in Nat /\ ShadowScale > 0 /\ ShadowMax \in Nat
  BY CompressedIsThere, ShadowAssumption DEF ShadowInv, ShadowTypeOK
<1>2. ShadowProgress = IF product \notin ShadowRange THEN 0
                       ELSE IF product <= -goal THEN -1
                       ELSE IF product < 0 THEN 0
                       ELSE IF q > ShadowScale THEN ShadowScale ELSE q
  <2>1. ~(compressed = None \/ compressed.goal <= 0)
    BY <1>1
  <2> QED  BY <2>1 DEF ShadowProgress
<1> HIDE DEF total, goal
<1>3. product \in Int
  BY <1>1
<1>4. total >= goal => product >= ShadowScale * goal /\ product >= 0
  <2> SUFFICES ASSUME total >= goal PROVE product >= ShadowScale * goal /\ product >= 0
    OBVIOUS
  <2>1. (total - goal) * ShadowScale >= 0
    BY <1>1
  <2>2. (total - goal) * ShadowScale = product - ShadowScale * goal
    BY <1>1
  <2>3. ShadowScale * goal >= 0 /\ ShadowScale * goal \in Int
    BY <1>1
  <2> QED  BY <1>3, <2>1, <2>2, <2>3
<1>5. total < goal => product < ShadowScale * goal
  <2> SUFFICES ASSUME total < goal PROVE product < ShadowScale * goal
    OBVIOUS
  <2>1. (goal - total) * ShadowScale > 0
    BY <1>1
  <2>2. (goal - total) * ShadowScale = ShadowScale * goal - product
    BY <1>1
  <2>3. ShadowScale * goal \in Int
    BY <1>1
  <2> QED  BY <1>3, <2>1, <2>2, <2>3
<1>6. product < 0 => total < 0
  BY <1>1
<1> HIDE DEF product
<1>7. /\ q \in Int
      /\ product >= ShadowScale * goal <=> q >= ShadowScale
      /\ product >= 0 => q >= 0
  BY <1>1, <1>3
<1>8. product \in ShadowRange <=> -(ShadowMax + 1) <= product /\ product <= ShadowMax
  BY <1>1, <1>3 DEF ShadowRange
<1> HIDE DEF q
<1>9. ShadowProgress = ShadowScale => total >= goal
  BY <1>1, <1>2, <1>3, <1>5, <1>7
<1>10. total >= goal /\ ShadowProgress # ShadowScale =>
         ShadowProgress = 0 /\ product > ShadowMax
  BY <1>1, <1>2, <1>3, <1>4, <1>7, <1>8
<1>11. ShadowProgress < 0 => total < 0
  BY <1>1, <1>2, <1>3, <1>6, <1>7
<1> QED  BY <1>9, <1>10, <1>11 DEF product, total, goal

LEMMA ShadowMeaning == ShadowInv => ShadowSound
<1> SUFFICES ASSUME ShadowInv PROVE ShadowSound
  OBVIOUS
<1>1. ShadowScale \in Nat /\ ShadowScale > 0 /\ now \in Nat
  BY ShadowAssumption, LedgerAssumption DEF ShadowInv
<1>2. CASE compressed = None
  <2>1. ShadowProgress = 0 /\ ~ShadowGoalReached
    BY <1>2 DEF ShadowProgress, ShadowGoalReached
  <2> QED
    BY <1>1, <1>2, <2>1, ShadowAssumption, LedgerAssumption
       DEF ShadowSound, ContributorExists, LoadContribution, ShadowInv, ShadowTypeOK
<1>3. CASE compressed # None
  <2>1. /\ LoadOrInit = compressed /\ compressed.goal \in Nat
        /\ compressed.total_raised = booked /\ booked \in Int
        /\ unopened => compressed.goal = 0 /\ compressed.deadline = 0
    BY <1>3, LoadType, CompressedIsThere DEF ShadowInv
  <2>2. compressed.goal = 0 => ShadowProgress = 0
    BY <2>1 DEF ShadowProgress
  <2>3. unopened => /\ ShadowProgress = 0 /\ ShadowExpired = (now > 0)
                    /\ ShadowGoalReached <=> booked >= 0
    BY <1>3, <2>1, <2>2 DEF ShadowExpired, ShadowGoalReached
  <2>4. /\ ShadowProgress = ShadowScale => ShadowGoalReached
        /\ ShadowGoalReached /\ compressed.goal > 0 /\ ShadowProgress # ShadowScale =>
             ShadowProgress = 0 /\ compressed.total_raised * ShadowScale > ShadowMax
        /\ ShadowProgress < 0 => booked < 0
    <3>1. CASE compressed.goal = 0
      BY <1>1, <2>1, <2>2, <3>1
    <3>2. CASE compressed.goal > 0
      BY <1>3, <2>1, <3>2, ProgressMeaning DEF ShadowGoalReached
    <3> QED  BY <2>1, <3>1, <3>2
  <2>5. ContributorExists <=> LoadContribution > 0
    BY ShadowAssumption, LedgerAssumption
       DEF ContributorExists, LoadContribution, ShadowInv, ShadowTypeOK
  <2> QED  BY <2>1, <2>3, <2>4, <2>5 DEF ShadowSound
<1> QED  BY <1>2, <1>3

-----------------------------------------------------------------------------
(* The memory cache and the lazy values.                                   *)

LiveEntry == {e \in CacheEntry : e.size > 0}

MemoryCache ==
  [entries : Seq(LiveEntry), total : Nat, hits : Nat, misses : Nat, evictions : Nat]

Sizes(list) == [i \in 1..Len(list) |-> list[i].size]
TotalSize(list) == PrefixSums(Sizes(list), Len(list))[Len(list)]
KeysOnce(list) == \A i, j \in 1..Len(list) : list[i].key = list[j].key => i = j

\* A cache in which no key was put twice tracks no more than it holds, and
\* exactly that as long as it evicted nothing.
Tracked(c) ==
  /\ KeysOnce(c.entries)
  /\ c.total <= TotalSize(c.entries)
  /\ c.evictions = 0 => c.total = TotalSize(c.entries)

CachesInv ==
  /\ cache \in MemoryCache /\ puts \in Nat /\ doubled \in BOOLEAN
  /\ ~doubled => Tracked(cache)
  /\ batch \in [loaded : Nat, pending : Nat, items : Nat]
  /\ batch.loaded + batch.pending = LazyItems /\ batch.items = batch.loaded
  /\ stored \in CachedValues /\ stored \in seen
  /\ lazy = <<>> \/ \E v \in seen : lazy = <<v>>

LEMMA SizesType ==
  ASSUME NEW list \in Seq(LiveEntry)
  PROVE  /\ Len(list) \in Nat /\ Sizes(list) \in [1..Len(list) -> Nat]
         /\ Sizes(list) \in [1..Len(list) -> Int]
         /\ \A i \in 1..Len(list) :
              /\ list[i] \in LiveEntry /\ list[i].size \in Nat /\ list[i].size > 0
              /\ Sizes(list)[i] = list[i].size
<1>1. Len(list) \in Nat /\ \A i \in 1..Len(list) : list[i] \in LiveEntry
  OBVIOUS
<1>2. \A e \in LiveEntry : e.size \in Nat /\ e.size > 0
  BY CachesAssumption DEF LiveEntry, CacheEntry
<1> QED  BY <1>1, <1>2 DEF Sizes

\* The size of a list, one entry at a time.
LEMMA SizeSteps ==
  ASSUME NEW list \in Seq(LiveEntry)
  PROVE  LET q == PrefixSums(Sizes(list), Len(list)) IN
         /\ q[0] = 0 /\ \A i \in 0..Len(list) : q[i] \in Nat
         /\ \A i \in 1..Len(list) : q[i] = q[i-1] + list[i].size
         /\ TotalSize(list) = q[Len(list)] /\ TotalSize(list) \in Nat
<1> DEFINE n == Len(list)
           q == PrefixSums(Sizes(list), n)
           T == {k \in Nat : k <= n => q[k] \in Nat}
<1>1. /\ n \in Nat /\ q \in [0..n -> Int] /\ q[0] = 0
      /\ \A i \in 1..n : list[i].size \in Nat /\ q[i] = q[i-1] + list[i].size
  BY SizesType, PrefixSumsStep
<1>2. TotalSize(list) = q[n]
  BY DEF TotalSize
<1> HIDE DEF n, q
<1>3. 0 \in T
  BY <1>1
<1>4. ASSUME NEW k \in T PROVE k + 1 \in T
  <2> SUFFICES ASSUME k + 1 <= n PROVE q[k + 1] \in Nat
    OBVIOUS
  <2>1. k + 1 \in 1..n /\ (k + 1) - 1 = k /\ q[k] \in Nat
    BY <1>1
  <2>2. q[k + 1] = q[(k + 1) - 1] + list[k + 1].size /\ list[k + 1].size \in Nat
    BY <1>1, <2>1
  <2> QED  BY <2>1, <2>2
<1>5. T = Nat
  <2>1. T \subseteq Nat  OBVIOUS
  <2> HIDE DEF T
  <2> QED  BY <1>3, <1>4, <2>1, SetInduction
<1>6. \A i \in 0..n : q[i] \in Nat
  BY <1>5
<1>7. n \in 0..n
  BY <1>1
<1> QED  BY <1>1, <1>2, <1>6, <1>7 DEF q, n

LEMMA SizeOfNothing == TotalSize(<<>>) = 0
<1>1. <<>> \in Seq(LiveEntry) /\ Len(<<>>) = 0
  OBVIOUS
<1> QED  BY <1>1, SizeSteps

LEMMA SizeOfMore ==
  ASSUME NEW list \in Seq(LiveEntry), NEW e \in LiveEntry
  PROVE  TotalSize(Append(list, e)) = TotalSize(list) + e.size
<1> DEFINE more == Append(list, e)
           n == Len(list)
           a == Sizes(more)
           b == Sizes(list)
<1>1. /\ more \in Seq(LiveEntry) /\ Len(more) = n + 1 /\ n \in Nat
      /\ \A i \in 1..n : more[i] = list[i]
      /\ more[n + 1] = e
  BY AppendProperties
<1>2. /\ a \in [1..n + 1 -> Int] /\ b \in [1..n -> Int]
      /\ \A i \in 1..n : b[i] = a[i]
  <2>1. a \in [1..Len(more) -> Int] /\ b \in [1..n -> Int]
    BY <1>1, SizesType
  <2>2. \A i \in 1..n : a[i] = more[i].size /\ b[i] = list[i].size
    BY <1>1 DEF Sizes
  <2> QED  BY <1>1, <2>1, <2>2
<1>3. PrefixSums(b, n)[n] = PrefixSums(a, n + 1)[n]
  <2> HIDE DEF a, b, n
  <2>1. n \in 0..n + 1 /\ n + 1 \in Nat
    BY <1>1
  <2> QED  BY <1>2, <2>1, PrefixSumsExtend
<1>4. /\ TotalSize(more) = PrefixSums(a, n + 1)[n + 1]
      /\ PrefixSums(a, n + 1)[n + 1] = PrefixSums(a, n + 1)[(n + 1) - 1] + e.size
  <2>1. LET q == PrefixSums(a, Len(more)) IN
          /\ \A i \in 1..Len(more) : q[i] = q[i-1] + more[i].size
          /\ TotalSize(more) = q[Len(more)]
    BY <1>1, SizeSteps
  <2>2. n + 1 \in 1..Len(more)
    BY <1>1
  <2> QED  BY <1>1, <2>1, <2>2
<1>5. (n + 1) - 1 = n /\ TotalSize(list) = PrefixSums(b, n)[n]
  BY <1>1 DEF TotalSize
<1> QED  BY <1>3, <1>4, <1>5

\* What leaves a list at one position at most takes its size with it.
LEMMA SizeOfLess ==
  ASSUME NEW list \in Seq(LiveEntry), NEW gone, NEW m \in 1..Len(list) + 1,
         \A i \in 1..Len(list) : list[i] \in gone <=> i = m
  PROVE  /\ WithoutAll(list, gone) \in Seq(LiveEntry)
         /\ TotalSize(WithoutAll(list, gone)) =
              TotalSize(list) - (IF m <= Len(list) THEN list[m].size ELSE 0)
<1> DEFINE n == Len(list)
           p == Kept(list, gone)
           q == PrefixSums(Sizes(list), n)
           off(k) == IF m <= k THEN list[m].size ELSE 0
           T == {k \in Nat : k <= n =>
                   p[k] \in Seq(LiveEntry) /\ TotalSize(p[k]) = q[k] - off(k)}
<1>1. /\ n \in Nat /\ m \in Nat \ {0}
      /\ \A i \in 1..n : list[i] \in LiveEntry /\ list[i].size \in Nat
  BY SizesType
<1>2. p[0] = <<>> /\ \A i \in 1..n : p[i] = Turn(list, gone, p[i-1], i)
  BY KeptTurns DEF Turns
<1>3. /\ q[0] = 0 /\ \A i \in 0..n : q[i] \in Nat
      /\ \A i \in 1..n : q[i] = q[i-1] + list[i].size
      /\ TotalSize(list) = q[n]
  BY SizeSteps
<1>4. WithoutAll(list, gone) = p[n]
  BY DEF WithoutAll
<1>5. \A i \in 1..n : list[i] \in gone <=> i = m
  OBVIOUS
<1> HIDE DEF n, p, q
<1>6. 0 \in T
  <2>1. p[0] \in Seq(LiveEntry) /\ TotalSize(p[0]) = 0
    BY <1>2, SizeOfNothing
  <2>2. off(0) = 0
    BY <1>1
  <2> HIDE DEF off
  <2> QED  BY <1>3, <2>1, <2>2
<1>7. ASSUME NEW k \in T PROVE k + 1 \in T
  <2> SUFFICES ASSUME k + 1 <= n
               PROVE  /\ p[k + 1] \in Seq(LiveEntry)
                      /\ TotalSize(p[k + 1]) = q[k + 1] - off(k + 1)
    OBVIOUS
  <2>1. /\ k \in Nat /\ k + 1 \in 1..n /\ (k + 1) - 1 = k /\ k \in 0..n
        /\ p[k] \in Seq(LiveEntry) /\ TotalSize(p[k]) = q[k] - off(k)
    BY <1>1
  <2>2. /\ p[k + 1] = Turn(list, gone, p[k], k + 1)
        /\ q[k + 1] = q[k] + list[k + 1].size
        /\ q[k] \in Nat /\ list[k + 1].size \in Nat /\ list[k + 1] \in LiveEntry
    BY <1>1, <1>2, <1>3, <2>1
  <2>3. CASE list[k + 1] \in gone
    <3>1. m = k + 1 /\ p[k + 1] = p[k]
      BY <1>5, <2>1, <2>2, <2>3 DEF Turn
    <3>2. off(k) = 0 /\ off(k + 1) = list[k + 1].size
      BY <2>1, <3>1
    <3> QED  BY <2>1, <2>2, <3>1, <3>2
  <2>4. CASE list[k + 1] \notin gone
    <3>1. m # k + 1 /\ p[k + 1] = Append(p[k], list[k + 1])
      BY <1>5, <2>1, <2>2, <2>4 DEF Turn
    <3>2. off(k + 1) = off(k) /\ off(k) \in Int
      <4>1. m <= k + 1 <=> m <= k
        BY <1>1, <2>1, <3>1
      <4>2. m <= k => list[m].size \in Nat
        BY <1>1, <2>1
      <4> QED  BY <4>1, <4>2
    <3>3. /\ p[k + 1] \in Seq(LiveEntry)
          /\ TotalSize(p[k + 1]) = TotalSize(p[k]) + list[k + 1].size
      <4>1. Append(p[k], list[k + 1]) \in Seq(LiveEntry)
        BY <2>1, <2>2
      <4> QED  BY <2>1, <2>2, <3>1, <4>1, SizeOfMore, Zenon
    <3> HIDE DEF off
    <3> QED  BY <2>1, <2>2, <3>2, <3>3
  <2> QED  BY <2>3, <2>4
<1>8. T = Nat
  <2>1. T \subseteq Nat  OBVIOUS
  <2> HIDE DEF T
  <2> QED  BY <1>6, <1>7, <2>1, SetInduction
<1>9. p[n] \in Seq(LiveEntry) /\ TotalSize(p[n]) = q[n] - off(n)
  <2>1. n \in T /\ n <= n
    BY <1>1, <1>8
  <2> QED  BY <2>1
<1> QED  BY <1>3, <1>4, <1>9 DEF n

\* Removing a key leaves a cache that tracks what it holds, as it was.
LEMMA RemovedType ==
  ASSUME NEW c \in MemoryCache, NEW k
  PROVE  Removed(c, k) \in MemoryCache /\ Removed(c, k).evictions = c.evictions
<1> DEFINE gone == {e \in CacheEntry : e.key = k}
           s == c.entries[First(Copies(c, k))].size
<1>1. WithoutAll(c.entries, gone) \in Seq(LiveEntry)
  BY WithoutAllProperties DEF MemoryCache
<1>2. InCache(c, k) => Less(c.total, s) \in Nat
  <2> SUFFICES ASSUME InCache(c, k) PROVE Less(c.total, s) \in Nat
    OBVIOUS
  <2>1. Copies(c, k) \in SUBSET Nat /\ Copies(c, k) # {}
    BY DEF InCache, Copies, MemoryCache
  <2>2. First(Copies(c, k)) \in Copies(c, k)
    BY <2>1, FirstExists
  <2>3. s \in Nat
    BY <2>2, SizesType DEF Copies, MemoryCache
  <2> HIDE DEF s
  <2> QED  BY <2>3 DEF Less, MemoryCache
<1> QED  BY <1>1, <1>2 DEF Removed, MemoryCache

LEMMA RemovedKeeps ==
  ASSUME NEW c \in MemoryCache, NEW k, Tracked(c)
  PROVE  Tracked(Removed(c, k))
<1> DEFINE gone == {e \in CacheEntry : e.key = k}
           list == c.entries
           w == WithoutAll(list, gone)
           r == Removed(c, k)
<1>1. /\ list \in Seq(LiveEntry) /\ Len(list) \in Nat /\ DOMAIN list = 1..Len(list)
      /\ c.total \in Nat
      /\ \A i \in 1..Len(list) : list[i] \in CacheEntry /\ list[i].size \in Nat
  BY SizesType DEF MemoryCache, LiveEntry
<1>2. r.entries = w /\ r.evictions = c.evictions
  BY DEF Removed, MemoryCache
<1>3. r.total = IF InCache(c, k) THEN Less(c.total, list[First(Copies(c, k))].size)
                ELSE c.total
  BY DEF Removed, MemoryCache
<1>4. KeysOnce(list) /\ c.total <= TotalSize(list)
      /\ (c.evictions = 0 => c.total = TotalSize(list))
  BY DEF Tracked
<1>5. TotalSize(list) \in Nat
  BY <1>1, SizeSteps
<1>6. KeysOnce(w)
  <2>1. \A i, j \in 1..Len(list) : list[i] = list[j] => i = j
    BY <1>4 DEF KeysOnce
  <2>2. /\ {w[i] : i \in 1..Len(w)} = {list[i] : i \in 1..Len(list)} \ gone
        /\ \A i, j \in 1..Len(w) : w[i] = w[j] => i = j
    <3> HIDE DEF gone, list
    <3> QED  BY <1>1, <2>1, WithoutAllExact
  <2> HIDE DEF w, list, gone
  <2> SUFFICES ASSUME NEW i \in 1..Len(w), NEW j \in 1..Len(w), w[i].key = w[j].key
               PROVE  i = j
    BY DEF KeysOnce
  <2>3. w[i] \in {list[x] : x \in 1..Len(list)} /\ w[j] \in {list[x] : x \in 1..Len(list)}
    BY <2>2
  <2>4. PICK x \in 1..Len(list) : w[i] = list[x]
    BY <2>3
  <2>5. PICK y \in 1..Len(list) : w[j] = list[y]
    BY <2>3
  <2>6. x = y
    BY <1>4, <2>4, <2>5 DEF KeysOnce
  <2> QED  BY <2>2, <2>4, <2>5, <2>6
<1>7. \A i \in 1..Len(list) : list[i] \in gone <=> i \in Copies(c, k)
  BY <1>1 DEF Copies
<1>8. CASE InCache(c, k)
  <2> DEFINE m == First(Copies(c, k))
  <2>1. m \in 1..Len(list) /\ m \in Copies(c, k)
    <3>1. Copies(c, k) \in SUBSET Nat /\ Copies(c, k) # {}
      BY <1>1, <1>8 DEF InCache, Copies
    <3>2. m \in Copies(c, k)
      BY <3>1, FirstExists
    <3> QED  BY <1>1, <3>2 DEF Copies
  <2>2. \A i \in 1..Len(list) : i \in Copies(c, k) <=> i = m
    BY <1>1, <1>4, <2>1 DEF Copies, KeysOnce
  <2> HIDE DEF gone, list, m
  <2>3. m \in 1..Len(list) + 1 /\ m <= Len(list)
    BY <1>1, <2>1
  <2>4. \A i \in 1..Len(list) : list[i] \in gone <=> i = m
    BY <1>7, <2>2
  <2>5. TotalSize(w) = TotalSize(list) - list[m].size
    BY <1>1, <2>3, <2>4, SizeOfLess
  <2>6. TotalSize(w) \in Nat
    BY <1>1, <2>3, <2>4, SizeOfLess, SizeSteps
  <2>7. r.total = Less(c.total, list[m].size) /\ list[m].size \in Nat
    BY <1>1, <1>3, <1>8, <2>1 DEF m
  <2> HIDE DEF w, r
  <2>8. /\ r.total <= TotalSize(w)
        /\ c.evictions = 0 => r.total = TotalSize(w)
    BY <1>1, <1>4, <1>5, <2>5, <2>6, <2>7 DEF Less
  <2> QED  BY <1>2, <1>6, <2>8 DEF Tracked, r
<1>9. CASE ~InCache(c, k)
  <2>1. \A i \in 1..Len(list) : i \notin Copies(c, k)
    BY <1>9 DEF InCache
  <2> HIDE DEF gone, list
  <2>2. /\ Len(list) + 1 \in 1..Len(list) + 1
        /\ \A i \in 1..Len(list) : list[i] \in gone <=> i = Len(list) + 1
        /\ ~(Len(list) + 1 <= Len(list))
    BY <1>1, <1>7, <2>1
  <2>3. TotalSize(w) = TotalSize(list) - 0
    BY <1>1, <2>2, SizeOfLess
  <2>4. TotalSize(w) = TotalSize(list)
    BY <1>5, <2>3
  <2>5. r.total = c.total
    BY <1>3, <1>9
  <2> HIDE DEF w, r
  <2> QED  BY <1>2, <1>4, <1>6, <2>4, <2>5 DEF Tracked, r
<1> QED  BY <1>8, <1>9

\* An eviction takes the size off twice, so that less is tracked than held.
LEMMA EvictedKeeps ==
  ASSUME NEW c \in MemoryCache
  PROVE  /\ Evicted(c) \in MemoryCache
         /\ Tracked(c) => Tracked(Evicted(c))
<1>1. CASE c.entries = <<>>
  BY <1>1 DEF Evicted
<1>2. CASE c.entries # <<>>
  <2> DEFINE k == c.entries[1].key
             r == Removed(c, k)
             s == c.entries[1].size
             x == Evicted(c)
  <2>1. x = [r EXCEPT !.evictions = @ + 1, !.total = Less(@, s)]
    BY <1>2 DEF Evicted
  <2>2. r \in MemoryCache
    BY RemovedType
  <2>3. s \in Nat
    BY <1>2, SizesType DEF MemoryCache
  <2> HIDE DEF r, s, x, k
  <2>4. Less(r.total, s) \in Nat /\ Less(r.total, s) <= r.total
    BY <2>2, <2>3 DEF Less, MemoryCache
  <2>5. x \in MemoryCache /\ x.entries = r.entries /\ x.evictions = r.evictions + 1
        /\ x.total = Less(r.total, s) /\ r.evictions \in Nat
    <3> DEFINE less == Less(r.total, s)
    <3>1. x = [r EXCEPT !.evictions = @ + 1, !.total = less]
      BY <2>1, <2>2 DEF MemoryCache
    <3>2. less \in Nat
      BY <2>4
    <3> HIDE DEF less
    <3>3. r.evictions \in Nat /\ r.evictions + 1 \in Nat
      BY <2>2 DEF MemoryCache
    <3> DEFINE more == r.evictions + 1
    <3>4. x = [r EXCEPT !.evictions = more, !.total = less] /\ more \in Nat
      BY <3>1, <3>3
    <3> HIDE DEF more
    <3>5. x \in MemoryCache /\ x.entries = r.entries /\ x.evictions = more
          /\ x.total = less
      BY <2>2, <3>2, <3>4 DEF MemoryCache
    <3> QED  BY <3>3, <3>5 DEF less, more
  <2>6. ASSUME Tracked(c) PROVE Tracked(x)
    <3>1. Tracked(r)
      BY <2>6, RemovedKeeps DEF r
    <3>2. TotalSize(r.entries) \in Nat /\ r.total \in Nat
      BY <2>2, SizeSteps DEF MemoryCache
    <3> QED  BY <2>4, <2>5, <3>1, <3>2 DEF Tracked
  <2> QED  BY <2>5, <2>6 DEF x
<1> QED  BY <1>1, <1>2

\* An entry under a new key is held and tracked.
LEMMA PutKeeps ==
  ASSUME NEW c \in MemoryCache, NEW e \in LiveEntry
  PROVE  LET d == [c EXCEPT !.entries = Append(@, e), !.total = @ + e.size] IN
         /\ d \in MemoryCache
         /\ Tracked(c) /\ ~InCache(c, e.key) => Tracked(d)
<1> DEFINE d == [c EXCEPT !.entries = Append(@, e), !.total = @ + e.size]
           list == c.entries
           more == Append(list, e)
<1>1. /\ list \in Seq(LiveEntry) /\ c.total \in Nat /\ Len(list) \in Nat
      /\ DOMAIN list = 1..Len(list)
  BY DEF MemoryCache
<1>2. e.size \in Nat
  BY CachesAssumption DEF LiveEntry, CacheEntry
<1>3. more \in Seq(LiveEntry) /\ c.total + e.size \in Nat
  <2>1. more \in Seq(LiveEntry)
    BY <1>1
  <2> QED  BY <1>1, <1>2, <2>1
<1>4. /\ d \in MemoryCache /\ d.entries = more /\ d.total = c.total + e.size
      /\ d.evictions = c.evictions
  <2> HIDE DEF more
  <2> QED  BY <1>3 DEF MemoryCache, more
<1>5. TotalSize(more) = TotalSize(list) + e.size /\ TotalSize(list) \in Nat
  BY <1>1, SizeOfMore, SizeSteps
<1>6. ASSUME Tracked(c), ~InCache(c, e.key) PROVE Tracked(d)
  <2>1. \A i \in 1..Len(list) : list[i].key # e.key
    BY <1>1, <1>6 DEF InCache, Copies
  <2>2. /\ Len(more) = Len(list) + 1 /\ more[Len(list) + 1] = e
        /\ \A i \in 1..Len(list) : more[i] = list[i]
    BY <1>1, AppendProperties
  <2>3. KeysOnce(list)
    BY <1>6 DEF Tracked
  <2>4. \A i \in 1..Len(more) : i \in 1..Len(list) \/ i = Len(list) + 1
    BY <1>1, <2>2
  <2> HIDE DEF list, more, d
  <2>5. KeysOnce(more)
    BY <2>1, <2>2, <2>3, <2>4 DEF KeysOnce
  <2> QED  BY <1>1, <1>2, <1>4, <1>5, <1>6, <2>5 DEF Tracked, list
<1> QED  BY <1>4, <1>6

LEMMA CachesStart == CachesInit => CachesInv
<1> SUFFICES ASSUME CachesInit PROVE CachesInv
  OBVIOUS
<1>1. EmptyCache \in MemoryCache
  BY DEF EmptyCache, MemoryCache
<1>2. Tracked(EmptyCache)
  BY SizeOfNothing DEF Tracked, EmptyCache, KeysOnce
<1>3. cache = EmptyCache /\ puts = 0 /\ doubled = FALSE
  BY DEF CachesInit
<1>4. /\ batch \in [loaded : Nat, pending : Nat, items : Nat]
      /\ batch.loaded + batch.pending = LazyItems /\ batch.items = batch.loaded
  BY CachesAssumption DEF CachesInit, NewLazyBatch
<1>5. Tracked(cache)
  BY <1>2, <1>3
<1>6. stored \in CachedValues /\ stored \in seen /\ lazy = <<>>
  BY CachesAssumption DEF CachesInit
<1> QED  BY <1>1, <1>3, <1>4, <1>5, <1>6 DEF CachesInv

LEMMA CachePutKeeps ==
  ASSUME CachesInv, NEW e \in CacheEntry, CachePut(e)
  PROVE  CachesInv'
<1> DEFINE room == IF cache.total >= MaxCacheSize THEN Evicted(cache) ELSE cache
           d == [room EXCEPT !.entries = Append(@, e), !.total = @ + e.size]
<1>1. /\ cache' = d /\ doubled' = (doubled \/ InCache(room, e.key))
      /\ puts' = puts + 1
      /\ UNCHANGED <<batch, stored, lazy, seen>>
      /\ e \in LiveEntry
  BY DEF CachePut, LiveEntry
<1>2. cache \in MemoryCache /\ puts \in Nat /\ doubled \in BOOLEAN
      /\ (~doubled => Tracked(cache))
  BY DEF CachesInv
<1>3. room \in MemoryCache /\ (~doubled => Tracked(room))
  BY <1>2, EvictedKeeps
<1> HIDE DEF room
<1>4. d \in MemoryCache /\ (Tracked(room) /\ ~InCache(room, e.key) => Tracked(d))
  BY <1>1, <1>3, PutKeeps, Zenon
<1> HIDE DEF d
<1>5. InCache(room, e.key) \in BOOLEAN
  BY DEF InCache
<1>6. Tracked(cache)' = Tracked(d)
  BY <1>1 DEF Tracked
<1>7. /\ cache' \in MemoryCache /\ puts' \in Nat /\ doubled' \in BOOLEAN
      /\ ~doubled' => Tracked(cache)'
  BY <1>1, <1>2, <1>3, <1>4, <1>5, <1>6
<1> QED  BY <1>1, <1>7 DEF CachesInv

LEMMA CachesStep == CachesInv /\ [CachesNext]_cachesVars => CachesInv'
<1> SUFFICES ASSUME CachesInv, [CachesNext]_cachesVars PROVE CachesInv'
  OBVIOUS
<1>1. /\ cache \in MemoryCache /\ puts \in Nat /\ doubled \in BOOLEAN
      /\ ~doubled => Tracked(cache)
  BY DEF CachesInv
<1>2. ASSUME NEW c \in MemoryCache, cache' = c, Tracked(cache) => Tracked(c),
             puts' \in Nat, UNCHANGED <<doubled, batch, stored, lazy, seen>>
      PROVE  CachesInv'
  <2>1. Tracked(cache)' = Tracked(c)
    BY <1>2 DEF Tracked
  <2> QED  BY <1>1, <1>2, <2>1 DEF CachesInv
<1>3. CASE UNCHANGED cachesVars
  <2>1. cache' = cache /\ UNCHANGED <<puts, doubled, batch, stored, lazy, seen>>
    BY <1>3 DEF cachesVars
  <2> QED  BY <1>1, <1>2, <2>1
<1>4. ASSUME NEW k \in CacheKeys, CacheGet(k) PROVE CachesInv'
  <2>1. PICK c \in MemoryCache :
          /\ cache' = c /\ c.entries = cache.entries /\ c.total = cache.total
          /\ c.evictions = cache.evictions
    BY <1>1, <1>4 DEF CacheGet, MemoryCache
  <2>2. Tracked(cache) => Tracked(c)
    BY <2>1 DEF Tracked
  <2> QED  BY <1>1, <1>2, <1>4, <2>1, <2>2 DEF CacheGet
<1>5. ASSUME NEW k \in CacheKeys, CacheRemove(k) PROVE CachesInv'
  <2>1. Removed(cache, k) \in MemoryCache
        /\ (Tracked(cache) => Tracked(Removed(cache, k)))
    BY <1>1, RemovedType, RemovedKeeps
  <2> QED  BY <1>1, <1>2, <1>5, <2>1 DEF CacheRemove
<1>6. CASE CacheClear
  <2>1. EmptyCache \in MemoryCache /\ Tracked(EmptyCache)
    <3>1. EmptyCache \in MemoryCache
      BY DEF EmptyCache, MemoryCache
    <3> QED  BY <3>1, SizeOfNothing DEF Tracked, EmptyCache, KeysOnce
  <2>2. cache' = EmptyCache /\ doubled' = FALSE
    BY <1>6 DEF CacheClear
  <2>3. Tracked(cache)'
    BY <2>1, <2>2 DEF Tracked
  <2> QED  BY <1>6, <2>1, <2>2, <2>3 DEF CacheClear, CachesInv
<1>7. ASSUME UNCHANGED <<cache, puts, doubled>> PROVE (~doubled => Tracked(cache))'
  BY <1>1, <1>7 DEF Tracked
<1>8. ASSUME NEW n \in 1..LazyItems, LoadBatchItems(n) PROVE CachesInv'
  <2> DEFINE b == [loaded |-> batch.loaded + n, pending |-> batch.pending - n,
                   items |-> batch.items + n]
  <2>1. n <= batch.pending /\ batch' = b
        /\ UNCHANGED <<cache, puts, doubled, stored, lazy, seen>>
    BY <1>8 DEF LoadBatchItems
  <2>2. /\ batch.loaded \in Nat /\ batch.pending \in Nat /\ batch.items \in Nat
        /\ batch.loaded + batch.pending = LazyItems /\ batch.items = batch.loaded
        /\ n \in Nat
    BY DEF CachesInv
  <2>3. /\ b \in [loaded : Nat, pending : Nat, items : Nat]
        /\ b.loaded + b.pending = LazyItems /\ b.items = b.loaded
    BY <2>1, <2>2
  <2> HIDE DEF b
  <2> QED  BY <1>7, <2>1, <2>3 DEF CachesInv
<1>9. CASE LazyGet
  BY <1>7, <1>9 DEF LazyGet, CachesInv
<1>10. CASE LazyNew
  BY <1>7, <1>10 DEF LazyNew, CachesInv
<1>11. ASSUME NEW v \in CachedValues, StoreBehind(v) PROVE CachesInv'
  BY <1>7, <1>11 DEF StoreBehind, CachesInv
<1> QED
  BY <1>3, <1>4, <1>5, <1>6, <1>8, <1>9, <1>10, <1>11, CachePutKeeps DEF CachesNext

LEMMA CachesMeaning == CachesInv => CachesSound
<1> SUFFICES ASSUME CachesInv PROVE CachesSound
  OBVIOUS
<1>1. RealSize(cache) = TotalSize(cache.entries)
  BY DEF RealSize, TotalSize, Sizes
<1>2. lazy # <<>> => lazy[1] \in seen
  BY DEF CachesInv
<1> QED  BY <1>1, <1>2 DEF CachesSound, CachesInv, Tracked

-----------------------------------------------------------------------------
(* Writes that wait and events that repeat.                                *)

At(list, k) == {i \in DOMAIN list : list[i].key = k}

\* What was queued last for a key waits once or, with none waiting, is stored.
NothingLost(list, there, want) ==
  \A k \in NetworkKeys :
    /\ \A i, j \in At(list, k) : i = j
    /\ At(list, k) = {} => there[k] = want[k]
    /\ \A i \in At(list, k) : list[i].value = want[k]

NetworkInv ==
  /\ NetworkTypeOK
  /\ gas \in [reads : Nat, writes : Nat, emitted : Nat, suppressed : Nat, coalesced : Nat]
  /\ wanted \in [NetworkKeys -> WriteValues \cup {None}]
  /\ sent \in [Events -> Nat]
  /\ NothingLost(pending, entries, wanted)
  /\ \A k \in NetworkKeys : entries[k] # None \/ cached[k] # None => wanted[k] # None
  /\ \A f \in fingerprints : LetThrough[f] = 1
  /\ \A e \in Events : sent[e] > 0 /\ Fingerprint(e) \notin fingerprints =>
       Cardinality(fingerprints) = MaxDedupEntries
  /\ Sum(LetThrough, Fingerprints) = gas.emitted

LEMMA EventsFinite ==
  /\ IsFiniteSet(Fingerprints) /\ IsFiniteSet(Events)
  /\ \A e \in Events : Fingerprint(e) \in Fingerprints
  /\ \A f : IsFiniteSet({e \in Events : Fingerprint(e) = f})
<1>1. /\ IsFiniteSet(TopicHeads) /\ IsFiniteSet(TopicTails) /\ IsFiniteSet(WriteValues)
  BY NetworkAssumption
<1>2. IsFiniteSet(Fingerprints)
  BY <1>1, FS_Product DEF Fingerprints
<1> DEFINE P == (TopicHeads \X TopicTails) \X WriteValues
           g == [p \in P |-> <<p[1][1], p[1][2], p[2]>>]
<1>3. IsFiniteSet(P)
  BY <1>1, FS_Product
<1>4. g \in Surjection(P, Events)
  <2>1. \A e \in Events : <<<<e[1], e[2]>>, e[3]>> \in P /\ g[<<<<e[1], e[2]>>, e[3]>>] = e
    BY DEF Events
  <2>2. g \in [P -> Events]
    BY DEF Events
  <2> HIDE DEF P, g
  <2> QED  BY <2>1, <2>2 DEF Surjection
<1>5. IsFiniteSet(Events)
  <2> HIDE DEF P, g
  <2> QED  BY <1>3, <1>4, FS_Surjection
<1>6. \A e \in Events : Fingerprint(e) \in Fingerprints
  BY DEF Events, Fingerprint, Fingerprints
<1>7. \A f : IsFiniteSet({e \in Events : Fingerprint(e) = f})
  <2> SUFFICES ASSUME NEW f PROVE IsFiniteSet({e \in Events : Fingerprint(e) = f})
    OBVIOUS
  <2>1. {e \in Events : Fingerprint(e) = f} \subseteq Events
    OBVIOUS
  <2> QED  BY <1>5, <2>1, FS_Subset
<1> QED  BY <1>2, <1>5, <1>6, <1>7

LEMMA LetThroughType ==
  ASSUME sent \in [Events -> Nat], NEW f \in Fingerprints
  PROVE  /\ LetThrough[f] = Sum(sent, {e \in Events : Fingerprint(e) = f})
         /\ LetThrough[f] \in Nat
         /\ (\A e \in Events : Fingerprint(e) = f => sent[e] = 0) => LetThrough[f] = 0
<1> DEFINE S == {e \in Events : Fingerprint(e) = f}
<1>1. LetThrough[f] = Sum(sent, S)
  BY DEF LetThrough
<1>2. /\ IsFiniteSet(S) /\ \A e \in S : sent[e] \in Int /\ sent[e] >= 0
      /\ (\A e \in Events : Fingerprint(e) = f => sent[e] = 0) => \A e \in S : sent[e] = 0
  <2>1. IsFiniteSet(S)
    BY EventsFinite
  <2> QED  BY <2>1
<1> HIDE DEF S
<1>3. Sum(sent, S) \in Int /\ Sum(sent, S) >= 0
  BY <1>2, SumType
<1>4. (\A e \in S : sent[e] = 0) => Sum(sent, S) = 0
  BY <1>2, SumZero
<1> QED  BY <1>1, <1>2, <1>3, <1>4 DEF S

\* An event let through counts once, for its fingerprint and for no other.
LEMMA EmitCounts ==
  ASSUME sent \in [Events -> Nat], NEW c \in Events,
         sent' = [sent EXCEPT ![c] = @ + 1]
  PROVE  /\ sent' \in [Events -> Nat]
         /\ \A f \in Fingerprints :
              LetThrough'[f] = LetThrough[f] + (IF Fingerprint(c) = f THEN 1 ELSE 0)
         /\ Sum(LetThrough', Fingerprints) = Sum(LetThrough, Fingerprints) + 1
<1>1. /\ sent' \in [Events -> Nat] /\ sent'[c] = sent[c] + 1
      /\ \A e \in Events : e # c => sent'[e] = sent[e]
  OBVIOUS
<1>2. ASSUME NEW f \in Fingerprints
      PROVE  /\ LetThrough'[f] = LetThrough[f] + (IF Fingerprint(c) = f THEN 1 ELSE 0)
             /\ LetThrough[f] \in Nat
  <2> DEFINE S == {e \in Events : Fingerprint(e) = f}
  <2>1. LetThrough[f] = Sum(sent, S) /\ LetThrough'[f] = Sum(sent', S)
    BY DEF LetThrough
  <2>2. LetThrough[f] \in Nat
    BY LetThroughType
  <2>3. /\ IsFiniteSet(S) /\ (c \in S <=> Fingerprint(c) = f)
        /\ \A e \in S : sent[e] \in Nat
        /\ \A e \in S \ {c} : sent'[e] = sent[e]
    <3>1. IsFiniteSet(S)
      BY EventsFinite
    <3> QED  BY <1>1, <3>1
  <2> HIDE DEF S
  <2>4. CASE c \in S
    <3>1. Sum(sent', S) = Sum(sent, S) + 1
      BY <1>1, <2>3, <2>4, SumBump
    <3> QED  BY <2>1, <2>2, <2>3, <2>4, <3>1
  <2>5. CASE c \notin S
    <3>1. \A e \in S : sent'[e] = sent[e]
      BY <2>3, <2>5
    <3>2. Sum(sent', S) = Sum(sent, S)
      BY <2>3, <3>1, SumEqual
    <3> QED  BY <2>1, <2>2, <2>3, <2>5, <3>2
  <2> QED  BY <2>4, <2>5
<1> DEFINE f == LetThrough
           g == LetThrough'
           d == Fingerprint(c)
<1>3. IsFiniteSet(Fingerprints) /\ d \in Fingerprints
  BY EventsFinite
<1>4. /\ \A x \in Fingerprints : f[x] \in Nat
      /\ \A x \in Fingerprints \ {d} : g[x] = f[x]
      /\ g[d] = f[d] + 1
  BY <1>2, <1>3
<1>5. Sum(g, Fingerprints) = Sum(f, Fingerprints) + 1
  <2> HIDE DEF f, g, d
  <2> QED  BY <1>3, <1>4, SumBump
<1> QED  BY <1>1, <1>2, <1>5

\* Flushing what waits stores what was wanted.
LEMMA FlushedIsWanted ==
  ASSUME NetworkInv
  PROVE  Written(pending) = wanted
<1> SUFFICES ASSUME NEW k \in NetworkKeys PROVE Written(pending)[k] = wanted[k]
  BY DEF Written, NetworkInv
<1> DEFINE at == At(pending, k)
<1>1. /\ \A i, j \in at : i = j
      /\ at = {} => entries[k] = wanted[k]
      /\ \A i \in at : pending[i].value = wanted[k]
      /\ at \subseteq Nat
  BY DEF NetworkInv, NothingLost, At, NetworkTypeOK
<1>2. Written(pending)[k] =
        IF at = {} THEN entries[k]
        ELSE pending[CHOOSE i \in at : \A j \in at : j <= i].value
  BY DEF Written, At
<1> HIDE DEF at
<1>3. CASE at # {}
  <2>1. PICK i \in at : TRUE
    BY <1>3
  <2>2. \A j \in at : j <= i
    BY <1>1
  <2>3. (CHOOSE m \in at : \A j \in at : j <= m) \in at
    BY <2>1, <2>2
  <2> QED  BY <1>1, <1>2, <1>3, <2>3
<1> QED  BY <1>1, <1>2, <1>3

\* A write of a key that does not wait is queued behind the others.
LEMMA QueuedLast ==
  ASSUME NEW list \in Seq(PendingWrite), NEW there, NEW want \in [NetworkKeys -> WriteValues \cup {None}],
         NEW k \in NetworkKeys, NEW v \in WriteValues,
         NothingLost(list, there, want), At(list, k) = {}
  PROVE  NothingLost(Append(list, [key |-> k, value |-> v]), there, [want EXCEPT ![k] = v])
<1> DEFINE w == [key |-> k, value |-> v]
           more == Append(list, w)
           next == [want EXCEPT ![k] = v]
<1>1. /\ Len(list) \in Nat /\ DOMAIN list = 1..Len(list)
      /\ DOMAIN more = 1..Len(list) + 1
      /\ more[Len(list) + 1] = w
      /\ \A i \in 1..Len(list) : more[i] = list[i]
  <2>1. w \in PendingWrite
    BY DEF PendingWrite
  <2> HIDE DEF w
  <2> QED  BY <2>1, AppendProperties
<1>2. \A i : i \in 1..Len(list) + 1 <=> i \in 1..Len(list) \/ i = Len(list) + 1
  BY <1>1
<1>3. Len(list) + 1 \notin 1..Len(list)
  BY <1>1
<1>4. w.key = k /\ w.value = v /\ next[k] = v
      /\ \A x \in NetworkKeys : x # k => next[x] = want[x]
  OBVIOUS
<1> HIDE DEF w, more, next
<1>5. At(more, k) = {Len(list) + 1}
  BY <1>1, <1>2, <1>3, <1>4 DEF At
<1>6. ASSUME NEW x \in NetworkKeys, x # k PROVE At(more, x) = At(list, x)
  BY <1>1, <1>2, <1>3, <1>4, <1>6 DEF At
<1> SUFFICES ASSUME NEW x \in NetworkKeys
             PROVE  /\ \A i, j \in At(more, x) : i = j
                    /\ At(more, x) = {} => there[x] = next[x]
                    /\ \A i \in At(more, x) : more[i].value = next[x]
  BY DEF NothingLost, w, more, next
<1>7. CASE x = k
  BY <1>1, <1>4, <1>5, <1>7
<1>8. CASE x # k
  <2>1. /\ \A i, j \in At(list, x) : i = j
        /\ At(list, x) = {} => there[x] = want[x]
        /\ \A i \in At(list, x) : list[i].value = want[x]
    BY DEF NothingLost
  <2>2. At(list, x) \subseteq 1..Len(list)
    BY <1>1 DEF At
  <2> QED  BY <1>1, <1>4, <1>6, <1>8, <2>1, <2>2
<1> QED  BY <1>7, <1>8

LEMMA NetworkStart == NetworkInit => NetworkInv
<1> SUFFICES ASSUME NetworkInit PROVE NetworkInv
  OBVIOUS
<1>1. sent \in [Events -> Nat] /\ \A e \in Events : sent[e] = 0
  BY DEF NetworkInit
<1>2. \A f \in Fingerprints : LetThrough[f] = 0
  BY <1>1, LetThroughType
<1>3. Sum(LetThrough, Fingerprints) = 0
  <2> DEFINE g == LetThrough
  <2>1. \A f \in Fingerprints : g[f] = 0
    BY <1>2
  <2>2. IsFiniteSet(Fingerprints)
    BY EventsFinite
  <2> HIDE DEF g
  <2>3. Sum(g, Fingerprints) = 0
    BY <2>1, <2>2, SumZero
  <2> QED  BY <2>3 DEF g
<1>4. NetworkTypeOK
  <2>1. Cardinality({}) = 0
    BY FS_EmptySet
  <2>2. <<>> \in Seq(PendingWrite) /\ Len(<<>>) = 0
    OBVIOUS
  <2>3. fingerprints \subseteq Fingerprints /\ Cardinality(fingerprints) <= MaxDedupEntries
    BY <2>1, NetworkAssumption DEF NetworkInit
  <2>4. pending \in Seq(PendingWrite) /\ Len(pending) <= MaxBatchSize
    BY <2>2, NetworkAssumption DEF NetworkInit
  <2>5. entries \in [NetworkKeys -> WriteValues \cup {None}]
    BY DEF NetworkInit, NothingStored
  <2>6. DOMAIN gas = DOMAIN NoGas /\ \A f \in DOMAIN gas : gas[f] \in Nat
    BY DEF NetworkInit, NoGas
  <2> QED  BY <2>3, <2>4, <2>5, <2>6 DEF NetworkTypeOK
<1>5. NothingLost(pending, entries, wanted)
  BY DEF NetworkInit, NothingLost, At, NothingStored
<1>6. /\ gas \in [reads : Nat, writes : Nat, emitted : Nat, suppressed : Nat, coalesced : Nat]
      /\ gas.emitted = 0
  BY DEF NetworkInit, NoGas
<1>7. \A k \in NetworkKeys : entries[k] = None /\ cached[k] = None
  BY DEF NetworkInit, NothingStored
<1>8. fingerprints = {} /\ wanted \in [NetworkKeys -> WriteValues \cup {None}]
  BY DEF NetworkInit, NothingStored
<1> QED  BY <1>1, <1>3, <1>4, <1>5, <1>6, <1>7, <1>8 DEF NetworkInv

\* Where the writer's own state is sound and the filter's untouched.
LEMMA WriterKeeps ==
  ASSUME NetworkInv,
         UNCHANGED <<fingerprints, sent>>, gas'.emitted = gas.emitted,
         gas' \in [reads : Nat, writes : Nat, emitted : Nat, suppressed : Nat, coalesced : Nat],
         pending' \in Seq(PendingWrite), Len(pending') <= MaxBatchSize,
         entries' \in [NetworkKeys -> WriteValues \cup {None}],
         wanted' \in [NetworkKeys -> WriteValues \cup {None}],
         NothingLost(pending', entries', wanted'),
         \A k \in NetworkKeys : entries'[k] # None \/ cached'[k] # None => wanted'[k] # None
  PROVE  NetworkInv'
<1>1. LetThrough' = LetThrough
  BY DEF LetThrough
<1>2. DOMAIN gas' = DOMAIN NoGas /\ \A f \in DOMAIN gas' : gas'[f] \in Nat
  BY DEF NoGas
<1>3. NetworkTypeOK'
  BY <1>2 DEF NetworkInv, NetworkTypeOK
<1> QED  BY <1>1, <1>3 DEF NetworkInv

LEMMA QueueKeeps ==
  ASSUME NetworkInv, NEW k \in NetworkKeys, NEW v \in WriteValues, Queue(k, v)
  PROVE  NetworkInv'
<1> DEFINE at == Waiting(k)
           full == Len(pending) >= MaxBatchSize
           w == [key |-> k, value |-> v]
<1>1. /\ pending \in Seq(PendingWrite) /\ Len(pending) \in Nat /\ Len(pending) <= MaxBatchSize
      /\ DOMAIN pending = 1..Len(pending)
      /\ entries \in [NetworkKeys -> WriteValues \cup {None}]
      /\ wanted \in [NetworkKeys -> WriteValues \cup {None}]
      /\ gas \in [reads : Nat, writes : Nat, emitted : Nat, suppressed : Nat, coalesced : Nat]
      /\ NothingLost(pending, entries, wanted)
      /\ \A x \in NetworkKeys : entries[x] # None \/ cached[x] # None => wanted[x] # None
      /\ MaxBatchSize \in Nat \ {0}
  BY NetworkAssumption DEF NetworkInv, NetworkTypeOK
<1>2. /\ UNCHANGED <<fingerprints, sent, cached>>
      /\ wanted' = [wanted EXCEPT ![k] = v]
  BY DEF Queue
<1>3. wanted' \in [NetworkKeys -> WriteValues \cup {None}] /\ v # None
  BY <1>1, <1>2, NetworkAssumption, LedgerAssumption
<1>4. w \in PendingWrite
  BY DEF PendingWrite
<1>5. at = At(pending, k)
  BY DEF At, Waiting
<1>6. CASE at # {}
  <2> DEFINE i == First(at)
  <2>1. /\ pending' = [pending EXCEPT ![i] = w]
        /\ gas' = [gas EXCEPT !.coalesced = @ + 1] /\ entries' = entries
    BY <1>6 DEF Queue
  <2>2. i \in at /\ i \in 1..Len(pending)
    <3>1. at \in SUBSET Nat /\ at \subseteq 1..Len(pending)
      BY <1>1 DEF Waiting
    <3> HIDE DEF at
    <3> QED  BY <1>6, <3>1, FirstExists
  <2> HIDE DEF i
  <2>3. /\ pending' \in Seq(PendingWrite) /\ Len(pending') = Len(pending)
        /\ DOMAIN pending' = DOMAIN pending
        /\ pending'[i] = w /\ \A j \in DOMAIN pending : j # i => pending'[j] = pending[j]
    <3> HIDE DEF w, at
    <3> QED  BY <1>1, <1>4, <2>1, <2>2
  <2>4. \A x \in NetworkKeys : At(pending', x) = At(pending, x)
    <3>1. pending[i].key = k /\ w.key = k
      BY <2>2 DEF Waiting
    <3> HIDE DEF w
    <3> QED  BY <2>2, <2>3, <3>1 DEF At
  <2>5. NothingLost(pending', entries', wanted')
    <3> SUFFICES ASSUME NEW x \in NetworkKeys
                 PROVE  /\ \A m, n \in At(pending', x) : m = n
                        /\ At(pending', x) = {} => entries'[x] = wanted'[x]
                        /\ \A m \in At(pending', x) : pending'[m].value = wanted'[x]
      BY DEF NothingLost
    <3>1. /\ \A m, n \in At(pending, x) : m = n
          /\ At(pending, x) = {} => entries[x] = wanted[x]
          /\ \A m \in At(pending, x) : pending[m].value = wanted[x]
      BY <1>1 DEF NothingLost
    <3>2. CASE x = k
      <4>1. \A m \in At(pending, x) : m = i
        BY <1>5, <2>2, <3>1, <3>2
      <4>2. w.value = v /\ wanted'[x] = v
        BY <1>1, <1>2, <3>2
      <4> HIDE DEF w
      <4> QED  BY <1>5, <1>6, <2>3, <2>4, <3>1, <3>2, <4>1, <4>2
    <3>3. CASE x # k
      <4>1. wanted'[x] = wanted[x]
        BY <1>1, <1>2, <3>3
      <4>2. \A m \in At(pending, x) : m # i /\ m \in DOMAIN pending
        BY <2>2, <3>3 DEF At, Waiting
      <4> QED  BY <2>1, <2>3, <2>4, <3>1, <4>1, <4>2
    <3> QED  BY <3>2, <3>3
  <2>6. /\ gas'.emitted = gas.emitted
        /\ gas' \in [reads : Nat, writes : Nat, emitted : Nat, suppressed : Nat, coalesced : Nat]
    <3>1. /\ gas' = [gas EXCEPT !.coalesced = gas.coalesced + 1]
          /\ gas \in [reads : Nat, writes : Nat, emitted : Nat, suppressed : Nat, coalesced : Nat]
      BY <1>1, <2>1
    <3>2. gas.coalesced + 1 \in Nat
      BY <3>1
    <3> QED  BY ONLY <3>1, <3>2
  <2>7. \A x \in NetworkKeys : entries'[x] # None \/ cached'[x] # None => wanted'[x] # None
    BY <1>1, <1>2, <1>3, <2>1
  <2> HIDE DEF at, w
  <2> QED  BY <1>1, <1>2, <1>3, <2>1, <2>3, <2>5, <2>6, <2>7, WriterKeeps
<1>7. CASE at = {}
  <2> DEFINE list == IF full THEN <<>> ELSE pending
             there == IF full THEN wanted ELSE entries
  <2>1. /\ pending' = Append(list, w) /\ entries' = there
        /\ gas' = [gas EXCEPT !.writes = @ + (IF full THEN Len(pending) ELSE 0)]
    BY <1>7, FlushedIsWanted DEF Queue
  <2>2. /\ list \in Seq(PendingWrite) /\ Len(list) < MaxBatchSize /\ Len(list) \in Nat
        /\ At(list, k) = {} /\ NothingLost(list, there, wanted)
    <3>1. CASE full
      BY <1>1, <3>1 DEF At, NothingLost
    <3>2. CASE ~full
      <4>1. list = pending /\ there = entries /\ Len(pending) < MaxBatchSize
        BY <1>1, <3>2
      <4>2. At(pending, k) = {}
        BY <1>5, <1>7
      <4> HIDE DEF list, there
      <4> QED  BY <1>1, <4>1, <4>2
    <3> QED  BY <3>1, <3>2
  <2>3. there \in [NetworkKeys -> WriteValues \cup {None}]
        /\ \A x \in NetworkKeys : there[x] # None => wanted[x] # None
    BY <1>1
  <2> HIDE DEF list, there
  <2>4. NothingLost(pending', entries', wanted')
    BY <1>1, <1>2, <2>1, <2>2, QueuedLast
  <2>5. pending' \in Seq(PendingWrite) /\ Len(pending') <= MaxBatchSize
    <3> HIDE DEF w
    <3>1. pending' \in Seq(PendingWrite) /\ Len(pending') = Len(list) + 1
      BY <1>4, <2>1, <2>2, AppendProperties
    <3> QED  BY <1>1, <2>2, <3>1
  <2>6. /\ gas'.emitted = gas.emitted
        /\ gas' \in [reads : Nat, writes : Nat, emitted : Nat, suppressed : Nat, coalesced : Nat]
    <3> DEFINE n == IF full THEN Len(pending) ELSE 0
    <3>1. n \in Nat /\ gas' = [gas EXCEPT !.writes = @ + n]
      BY <1>1, <2>1
    <3> HIDE DEF n
    <3> QED  BY <1>1, <3>1, SMTT(30)
  <2>7. \A x \in NetworkKeys : entries'[x] # None \/ cached'[x] # None => wanted'[x] # None
    <3>1. \A x \in NetworkKeys : wanted[x] # None => wanted'[x] # None
      BY <1>1, <1>2, <1>3
    <3> QED  BY <1>1, <1>2, <2>1, <2>3, <3>1
  <2> HIDE DEF at, w, full
  <2> QED  BY <1>2, <1>3, <2>1, <2>3, <2>4, <2>5, <2>6, <2>7, WriterKeeps
<1> QED  BY <1>6, <1>7

LEMMA FlushKeeps == NetworkInv /\ Flush => NetworkInv'
<1> SUFFICES ASSUME NetworkInv, Flush PROVE NetworkInv'
  OBVIOUS
<1>1. /\ entries' = wanted /\ pending' = <<>> /\ UNCHANGED <<fingerprints, cached, wanted, sent>>
      /\ gas' = [gas EXCEPT !.writes = @ + Len(pending)]
  BY FlushedIsWanted DEF Flush
<1>2. /\ Len(pending) \in Nat
      /\ wanted \in [NetworkKeys -> WriteValues \cup {None}]
      /\ gas \in [reads : Nat, writes : Nat, emitted : Nat, suppressed : Nat, coalesced : Nat]
      /\ \A x \in NetworkKeys : entries[x] # None \/ cached[x] # None => wanted[x] # None
  BY DEF NetworkInv, NetworkTypeOK
<1>3. /\ gas'.emitted = gas.emitted
      /\ gas' \in [reads : Nat, writes : Nat, emitted : Nat, suppressed : Nat, coalesced : Nat]
  BY <1>1, <1>2
<1>4. pending' \in Seq(PendingWrite) /\ Len(pending') <= MaxBatchSize
  BY <1>1, NetworkAssumption
<1>5. NothingLost(pending', entries', wanted')
  BY <1>1 DEF NothingLost, At
<1> QED  BY <1>1, <1>2, <1>3, <1>4, <1>5, WriterKeeps

LEMMA PreloadKeeps == NetworkInv /\ Preload => NetworkInv'
<1> SUFFICES ASSUME NetworkInv, Preload PROVE NetworkInv'
  OBVIOUS
<1>1. /\ cached' = entries /\ UNCHANGED <<entries, pending, fingerprints, wanted, sent>>
      /\ gas' = [gas EXCEPT !.reads = @ + 4]
  BY DEF Preload
<1>2. /\ gas'.emitted = gas.emitted
      /\ gas' \in [reads : Nat, writes : Nat, emitted : Nat, suppressed : Nat, coalesced : Nat]
  BY <1>1 DEF NetworkInv
<1>3. /\ entries' \in [NetworkKeys -> WriteValues \cup {None}]
      /\ wanted' \in [NetworkKeys -> WriteValues \cup {None}]
      /\ pending' \in Seq(PendingWrite) /\ Len(pending') <= MaxBatchSize
      /\ NothingLost(pending', entries', wanted')
      /\ \A x \in NetworkKeys : entries'[x] # None \/ cached'[x] # None => wanted'[x] # None
  BY <1>1 DEF NetworkInv, NetworkTypeOK
<1> QED  BY <1>1, <1>2, <1>3, WriterKeeps

\* A table that is not full yet has let through nothing it does not hold.
LEMMA ShouldEmitKeeps ==
  ASSUME NetworkInv, NEW e \in Events, ShouldEmit(e)
  PROVE  NetworkInv'
<1> DEFINE d == Fingerprint(e)
<1>1. /\ UNCHANGED <<entries, pending, cached, wanted>>
      /\ d \in Fingerprints /\ IsFiniteSet(Fingerprints)
      /\ sent \in [Events -> Nat] /\ fingerprints \subseteq Fingerprints
      /\ IsFiniteSet(fingerprints) /\ Cardinality(fingerprints) \in Nat
      /\ Cardinality(fingerprints) <= MaxDedupEntries /\ MaxDedupEntries \in Nat
      /\ gas \in [reads : Nat, writes : Nat, emitted : Nat, suppressed : Nat, coalesced : Nat]
      /\ Sum(LetThrough, Fingerprints) = gas.emitted
      /\ \A f \in fingerprints : LetThrough[f] = 1
      /\ \A x \in Events : sent[x] > 0 /\ Fingerprint(x) \notin fingerprints =>
           Cardinality(fingerprints) = MaxDedupEntries
  <2>1. fingerprints \subseteq Fingerprints /\ IsFiniteSet(Fingerprints)
    BY EventsFinite DEF NetworkInv, NetworkTypeOK
  <2>2. IsFiniteSet(fingerprints)
    BY <2>1, FS_Subset
  <2>3. Cardinality(fingerprints) \in Nat
    BY <2>2, FS_CardinalityType
  <2> QED  BY <2>1, <2>2, <2>3, EventsFinite, NetworkAssumption
             DEF NetworkInv, NetworkTypeOK, ShouldEmit
<1>2. ASSUME gas' \in [reads : Nat, writes : Nat, emitted : Nat, suppressed : Nat, coalesced : Nat],
             sent' \in [Events -> Nat], fingerprints' \subseteq Fingerprints,
             Cardinality(fingerprints') <= MaxDedupEntries,
             \A f \in fingerprints' : LetThrough'[f] = 1,
             \A x \in Events : sent'[x] > 0 /\ Fingerprint(x) \notin fingerprints' =>
               Cardinality(fingerprints') = MaxDedupEntries,
             Sum(LetThrough', Fingerprints) = gas'.emitted
      PROVE  NetworkInv'
  <2>1. DOMAIN gas' = DOMAIN NoGas /\ \A f \in DOMAIN gas' : gas'[f] \in Nat
    BY <1>2 DEF NoGas
  <2>2. NetworkTypeOK'
    BY <1>1, <1>2, <2>1 DEF NetworkInv, NetworkTypeOK
  <2>3. \A x \in Events : Fingerprint(x)' = Fingerprint(x)
    BY DEF Fingerprint
  <2> QED  BY <1>1, <1>2, <2>2, <2>3 DEF NetworkInv
<1>3. CASE d \in fingerprints
  <2>1. /\ gas' = [gas EXCEPT !.suppressed = @ + 1] /\ UNCHANGED <<fingerprints, sent>>
    BY <1>3 DEF ShouldEmit
  <2>2. LetThrough' = LetThrough
    BY <2>1 DEF LetThrough
  <2>3. /\ gas' \in [reads : Nat, writes : Nat, emitted : Nat, suppressed : Nat, coalesced : Nat]
        /\ gas'.emitted = gas.emitted
    BY <1>1, <2>1
  <2> QED  BY <1>1, <1>2, <2>1, <2>2, <2>3
<1>4. CASE d \notin fingerprints
  <2>1. /\ fingerprints' = IF Cardinality(fingerprints) < MaxDedupEntries
                           THEN fingerprints \cup {d} ELSE fingerprints
        /\ gas' = [gas EXCEPT !.emitted = @ + 1] /\ sent' = [sent EXCEPT ![e] = @ + 1]
    BY <1>4 DEF ShouldEmit
  <2>2. /\ gas' \in [reads : Nat, writes : Nat, emitted : Nat, suppressed : Nat, coalesced : Nat]
        /\ gas'.emitted = gas.emitted + 1
    BY <1>1, <2>1
  <2>3. /\ sent' \in [Events -> Nat]
        /\ \A f \in Fingerprints :
             LetThrough'[f] = LetThrough[f] + (IF d = f THEN 1 ELSE 0)
        /\ Sum(LetThrough', Fingerprints) = Sum(LetThrough, Fingerprints) + 1
    BY <1>1, <2>1, EmitCounts
  <2>4. /\ \A f \in fingerprints : LetThrough'[f] = 1
        /\ Sum(LetThrough', Fingerprints) = gas'.emitted
    <3>1. \A f \in fingerprints : d # f /\ f \in Fingerprints
      BY <1>1, <1>4
    <3> HIDE DEF d
    <3> QED  BY <1>1, <2>2, <2>3, <3>1
  <2>5. CASE Cardinality(fingerprints) < MaxDedupEntries
    <3>1. fingerprints' = fingerprints \cup {d}
      BY <2>1, <2>5
    <3>2. Cardinality(fingerprints') = Cardinality(fingerprints) + 1
      BY <1>1, <1>4, <3>1, FS_AddElement
    <3>3. \A x \in Events : Fingerprint(x) \notin fingerprints => sent[x] = 0
      <4>1. \A x \in Events : sent[x] \in Nat
        BY <1>1
      <4> QED  BY <1>1, <2>5, <4>1
    <3>4. LetThrough[d] = 0
      <4>1. \A x \in Events : Fingerprint(x) = d => sent[x] = 0
        BY <1>4, <3>3
      <4> QED  BY <1>1, <4>1, LetThroughType
    <3>5. LetThrough'[d] = 1
      BY <1>1, <2>3, <3>4
    <3>6. \A x \in Events : sent'[x] > 0 => Fingerprint(x) \in fingerprints'
      <4> SUFFICES ASSUME NEW x \in Events, Fingerprint(x) \notin fingerprints'
                   PROVE  ~(sent'[x] > 0)
        OBVIOUS
      <4>1. x # e /\ sent[x] = 0
        BY <3>1, <3>3
      <4> QED  BY <1>1, <2>1, <4>1
    <3> HIDE DEF d
    <3> QED  BY <1>1, <1>2, <2>2, <2>3, <2>4, <2>5, <3>1, <3>2, <3>5, <3>6
  <2>6. CASE ~(Cardinality(fingerprints) < MaxDedupEntries)
    <3>1. fingerprints' = fingerprints /\ Cardinality(fingerprints) = MaxDedupEntries
      BY <1>1, <2>1, <2>6
    <3> HIDE DEF d
    <3> QED  BY <1>1, <1>2, <2>2, <2>3, <2>4, <3>1
  <2> QED  BY <2>5, <2>6
<1> QED  BY <1>3, <1>4

LEMMA NetworkStep ==
  NetworkInv /\ [NetworkNext]_<<ledgerVars, networkVars>> => NetworkInv'
<1> SUFFICES ASSUME NetworkInv, [NetworkNext]_<<ledgerVars, networkVars>>
             PROVE  NetworkInv'
  OBVIOUS
<1>1. CASE UNCHANGED networkVars
  <2>1. LetThrough' = LetThrough
    BY <1>1 DEF LetThrough, networkVars
  <2>2. NetworkTypeOK'
    BY <1>1 DEF NetworkInv, NetworkTypeOK, networkVars
  <2> QED  BY <1>1, <2>1, <2>2 DEF NetworkInv, networkVars
<1>2. CASE NetworkNext
  BY <1>2, QueueKeeps, FlushKeeps, ShouldEmitKeeps, PreloadKeeps DEF NetworkNext
<1> QED  BY <1>1, <1>2

LEMMA NetworkMeaning == NetworkInv => NetworkExact
<1> SUFFICES ASSUME NetworkInv PROVE NetworkExact
  OBVIOUS
<1>1. ASSUME NEW k \in NetworkKeys
      PROVE  /\ Cardinality(Waiting(k)) <= 1
             /\ Waiting(k) = {} => entries[k] = wanted[k]
             /\ \A i \in Waiting(k) : pending[i].value = wanted[k]
  <2> DEFINE at == Waiting(k)
  <2>1. /\ \A i, j \in at : i = j
        /\ at = {} => entries[k] = wanted[k]
        /\ \A i \in at : pending[i].value = wanted[k]
    BY DEF Waiting, At, NetworkInv, NothingLost
  <2> HIDE DEF at
  <2>2. Cardinality(at) <= 1
    <3>1. CASE at = {}
      BY <3>1, FS_EmptySet
    <3>2. CASE at # {}
      <4>1. PICK i \in at : TRUE
        BY <3>2
      <4>2. at = {i}
        BY <2>1, <4>1
      <4>3. Cardinality({i}) = 1
        BY FS_Singleton
      <4> QED  BY <4>2, <4>3
    <3> QED  BY <3>1, <3>2
  <2> QED  BY <2>1, <2>2 DEF at
<1>2. EventEfficiency \in 0..100 /\ (EventEfficiency = 100 <=> gas.suppressed = 0)
  <2> DEFINE m == gas.emitted  n == gas.suppressed
  <2>1. m \in Nat /\ n \in Nat
    BY DEF NetworkInv
  <2>2. EventEfficiency = IF m + n = 0 THEN 100 ELSE (m * 100) \div (m + n)
    BY DEF EventEfficiency, Offered
  <2> HIDE DEF m, n
  <2>3. CASE m + n = 0
    BY <2>1, <2>2, <2>3 DEF n
  <2>4. CASE m + n # 0
    <3> DEFINE q == (m * 100) \div (m + n)
    <3>1. /\ q \in Int /\ q * (m + n) <= m * 100 /\ m * 100 < (q + 1) * (m + n)
          /\ m + n \in Nat /\ m + n > 0
      <4>1. \A x \in Nat, y \in Nat \ {0} :
              x \div y \in Int /\ (x \div y) * y <= x /\ x < ((x \div y) + 1) * y
        BY Z3
      <4>2. m * 100 \in Nat /\ m + n \in Nat \ {0}
        BY <2>1, <2>4
      <4> QED  BY <4>1, <4>2
    <3> HIDE DEF q
    <3>2. q >= 0
      BY <2>1, <3>1
    <3>3. q <= 100
      BY <2>1, <3>1
    <3>4. n = 0 => q = 100
      BY <2>1, <3>1
    <3>5. q = 100 => n = 0
      BY <2>1, <3>1
    <3>6. EventEfficiency = q
      BY <2>2, <2>4 DEF q
    <3> QED  BY <3>1, <3>2, <3>3, <3>4, <3>5, <3>6 DEF n
  <2> QED  BY <2>3, <2>4
<1>3. IsFullyLoaded => \A k \in NetworkKeys : CachedOr(k, None) # None /\ wanted[k] # None
  BY DEF IsFullyLoaded, CachedOr, NetworkInv
<1> QED  BY <1>1, <1>2, <1>3 DEF NetworkExact, NetworkInv

-----------------------------------------------------------------------------
(* The logs and patterns that drop their oldest entries.                   *)

LEMMA LatestShifts ==
  ASSUME NEW S, NEW s \in Seq(S), NEW n \in Nat
  PROVE  /\ Latest(s, n) \in Seq(S)
         /\ Len(Latest(s, n)) = IF Len(s) > n THEN n ELSE Len(s)
         /\ \A i \in 1..Len(Latest(s, n)) :
              Latest(s, n)[i] = s[Len(s) - Len(Latest(s, n)) + i]
<1>1. Len(s) \in Nat /\ s \in [1..Len(s) -> S]
  BY LenProperties
<1>2. CASE Len(s) > n
  <2> DEFINE m == Len(s) - n + 1
  <2>1. m \in 1..Len(s) + 1 /\ m \in Int /\ Latest(s, n) = SubSeq(s, m, Len(s))
    BY <1>1, <1>2 DEF Latest
  <2>2. \A i \in m..Len(s) : s[i] \in S
    BY <1>1, <2>1
  <2>3. /\ SubSeq(s, m, Len(s)) \in Seq(S)
        /\ Len(SubSeq(s, m, Len(s))) = IF m <= Len(s) THEN Len(s) - m + 1 ELSE 0
        /\ \A i \in 1..Len(s) - m + 1 : SubSeq(s, m, Len(s))[i] = s[m + i - 1]
    <3> HIDE DEF m
    <3> QED  BY <1>1, <2>1, <2>2, SubSeqProperties
  <2>4. Len(Latest(s, n)) = n
    BY <1>1, <1>2, <2>1, <2>3
  <2>5. \A i \in 1..n : m + i - 1 = Len(s) - n + i /\ i \in 1..Len(s) - m + 1
    BY <1>1
  <2> HIDE DEF m
  <2> QED  BY <1>2, <2>1, <2>3, <2>4, <2>5
<1>3. CASE ~(Len(s) > n)
  <2>1. Latest(s, n) = s
    BY <1>3 DEF Latest
  <2>2. \A i \in 1..Len(s) : Len(s) - Len(s) + i = i
    BY <1>1
  <2> QED  BY <1>3, <2>1, <2>2
<1> QED  BY <1>2, <1>3

\* What was dropped before is dropped again.
LEMMA LatestAppends ==
  ASSUME NEW S, NEW s \in Seq(S), NEW n \in Nat, NEW x \in S
  PROVE  Latest(Append(Latest(s, n), x), n) = Latest(Append(s, x), n)
<1> DEFINE t == Latest(s, n)
           u == Append(t, x)
           v == Append(s, x)
           p == Latest(u, n)
           q == Latest(v, n)
<1>1. Len(s) \in Nat
  BY LenProperties
<1>2. /\ t \in Seq(S) /\ Len(t) = IF Len(s) > n THEN n ELSE Len(s)
      /\ \A i \in 1..Len(t) : t[i] = s[Len(s) - Len(t) + i]
  BY LatestShifts
<1> HIDE DEF t
<1>3. /\ u \in Seq(S) /\ Len(u) = Len(t) + 1
      /\ \A i \in 1..Len(t) : u[i] = t[i]
      /\ u[Len(t) + 1] = x
  BY <1>2, AppendProperties
<1>4. /\ v \in Seq(S) /\ Len(v) = Len(s) + 1
      /\ \A i \in 1..Len(s) : v[i] = s[i]
      /\ v[Len(s) + 1] = x
  BY AppendProperties
<1> HIDE DEF u, v
<1>5. /\ p \in Seq(S) /\ Len(p) = IF Len(u) > n THEN n ELSE Len(u)
      /\ \A i \in 1..Len(p) : p[i] = u[Len(u) - Len(p) + i]
  BY <1>3, LatestShifts
<1>6. /\ q \in Seq(S) /\ Len(q) = IF Len(v) > n THEN n ELSE Len(v)
      /\ \A i \in 1..Len(q) : q[i] = v[Len(v) - Len(q) + i]
  BY <1>4, LatestShifts
<1> HIDE DEF p, q
<1>7. Len(p) = Len(q) /\ Len(p) \in Nat
  BY <1>1, <1>2, <1>3, <1>4, <1>5, <1>6
<1>8. ASSUME NEW i \in 1..Len(p) PROVE p[i] = q[i]
  <2> DEFINE j == Len(u) - Len(p) + i
             k == Len(v) - Len(q) + i
  <2>1. p[i] = u[j] /\ q[i] = v[k]
    BY <1>5, <1>6, <1>7
  <2>2. /\ j \in 1..Len(t) + 1 /\ k \in 1..Len(s) + 1
        /\ j = Len(t) + 1 <=> k = Len(s) + 1
        /\ k = Len(s) - Len(t) + j
    <3>1. /\ Len(t) \in Nat /\ Len(t) = IF Len(s) > n THEN n ELSE Len(s)
          /\ Len(u) = Len(t) + 1 /\ Len(v) = Len(s) + 1
          /\ Len(q) = Len(p) /\ Len(p) = IF Len(t) + 1 > n THEN n ELSE Len(t) + 1
      BY <1>1, <1>2, <1>3, <1>4, <1>5, <1>7
    <3> DEFINE lu == Len(u)  lv == Len(v)  lp == Len(p)  lq == Len(q)
               ls == Len(s)  lt == Len(t)
    <3>2. /\ ls \in Nat /\ lt \in Nat /\ lp \in Nat /\ i \in Nat /\ lq = lp /\ 1 <= i /\ i <= lp
          /\ lu = lt + 1 /\ lv = ls + 1 /\ lp <= lt + 1 /\ lt <= ls
      BY <1>1, <1>7, <3>1
    <3>3. j = lu - lp + i /\ k = lv - lq + i
      OBVIOUS
    <3> HIDE DEF lu, lv, lp, lq, ls, lt, j, k
    <3>4. j \in 1..lt + 1 /\ k = ls - lt + j /\ j \in Int
      <4>1. j = lt + 1 - lp + i /\ k = ls + 1 - lp + i
        BY ONLY <3>2, <3>3
      <4> QED  BY ONLY <3>2, <4>1
    <3>5. k \in 1..ls + 1 /\ (j = lt + 1 <=> k = ls + 1)
      BY ONLY <3>2, <3>4
    <3> QED  BY <3>4, <3>5 DEF ls, lt
  <2> HIDE DEF j, k
  <2>3. CASE j = Len(t) + 1
    BY <1>3, <1>4, <2>1, <2>2, <2>3
  <2>4. CASE j # Len(t) + 1
    <3>1. j \in 1..Len(t) /\ k \in 1..Len(s)
      BY <1>1, <1>2, <2>2, <2>4
    <3> QED  BY <1>2, <1>3, <1>4, <2>1, <2>2, <3>1
  <2> QED  BY <2>3, <2>4
<1>9. p = q
  BY <1>5, <1>6, <1>7, <1>8, SeqEqual
<1> QED  BY <1>9 DEF p, q, u, v, t

\* Counting what is left of a log: no more than before, and as much where what
\* is counted came last and is no longer than what is kept.
LEMMA LatestCounts ==
  ASSUME NEW S, NEW s \in Seq(S), NEW n \in Nat, NEW P
  PROVE  /\ Cardinality(Hits(Latest(s, n), P)) <= Cardinality(Hits(s, P))
         /\ (\A i \in Hits(s, P) : i > Len(s) - n) =>
              Cardinality(Hits(Latest(s, n), P)) = Cardinality(Hits(s, P))
<1> DEFINE t == Latest(s, n)
           A == {i \in DOMAIN t : t[i] \in P}
           B == {i \in DOMAIN s : s[i] \in P}
           k == Len(s) - Len(t)
           shift == [i \in A |-> k + i]
<1>1. /\ Len(s) \in Nat /\ DOMAIN s = 1..Len(s)
      /\ t \in Seq(S) /\ DOMAIN t = 1..Len(t) /\ Len(t) \in Nat
      /\ Len(t) = IF Len(s) > n THEN n ELSE Len(s)
      /\ \A i \in 1..Len(t) : t[i] = s[k + i]
  BY LatestShifts, LenProperties
<1> HIDE DEF t
<1>2. IsFiniteSet(A) /\ IsFiniteSet(B)
  <2>1. A \in SUBSET (1..Len(t)) /\ B \in SUBSET (1..Len(s))
    BY <1>1
  <2>2. IsFiniteSet(1..Len(t)) /\ IsFiniteSet(1..Len(s))
    BY <1>1, FS_Interval
  <2> HIDE DEF A, B
  <2> QED  BY <2>1, <2>2, FS_Subset
<1>3. k \in Int /\ \A i \in A : i \in Int /\ k + i \in B
  <2>1. k \in Nat
    BY <1>1
  <2>2. ASSUME NEW i \in A PROVE i \in Int /\ k + i \in B
    <3>1. i \in 1..Len(t) /\ t[i] \in P
      BY <1>1
    <3>2. k + i \in 1..Len(s)
      BY <1>1, <3>1
    <3>3. s[k + i] \in P
      BY <1>1, <3>1
    <3> HIDE DEF k
    <3> QED  BY <1>1, <3>1, <3>2, <3>3
  <2> QED  BY <2>1, <2>2
<1>4. (\A i \in B : i > Len(s) - n) => \A j \in B : j - k \in A /\ k + (j - k) = j
  <2> SUFFICES ASSUME \A i \in B : i > Len(s) - n, NEW j \in B
               PROVE  j - k \in A /\ k + (j - k) = j
    OBVIOUS
  <2>1. j \in 1..Len(s) /\ s[j] \in P /\ j > Len(s) - n
    BY <1>1
  <2>2. j - k \in 1..Len(t) /\ k + (j - k) = j
    BY <1>1, <2>1
  <2> QED  BY <1>1, <2>1, <2>2
<1> HIDE DEF A, B, k
<1>5. /\ shift \in [A -> B] /\ \A i \in A : shift[i] = k + i
  BY <1>3
<1>6. shift \in Injection(A, B)
  <2>1. \A i, j \in A : shift[i] = shift[j] => i = j
    BY <1>3, <1>5
  <2> HIDE DEF shift
  <2> QED  BY <1>5, <2>1 DEF Injection, IsInjective
<1>7. (\A i \in B : i > Len(s) - n) => shift \in Surjection(A, B)
  <2> SUFFICES ASSUME \A i \in B : i > Len(s) - n PROVE shift \in Surjection(A, B)
    OBVIOUS
  <2>1. \A j \in B : \E i \in A : shift[i] = j
    BY <1>4, <1>5
  <2> HIDE DEF shift
  <2> QED  BY <1>5, <2>1 DEF Surjection
<1>8. /\ Cardinality(A) <= Cardinality(B)
      /\ Cardinality(A) = Cardinality(B) <=> shift \in Surjection(A, B)
  <2> HIDE DEF shift
  <2> QED  BY <1>2, <1>6, FS_Injection
<1>9. A = Hits(Latest(s, n), P) /\ B = Hits(s, P)
  BY DEF Hits, A, B, t
<1> QED  BY <1>7, <1>8, <1>9

\* Times that were appended as the clock stood, t being the time now.
InOrder(s, t) ==
  \A i \in DOMAIN s : /\ s[i].at <= t
                      /\ \A j \in DOMAIN s : i <= j => s[i].at <= s[j].at

\* The index log_threat returned for the last of n records.
IndexOf(n) == IF n - 1 > MaxThreatLog THEN MaxThreatLog ELSE n - 1

AnalyticsInv ==
  /\ LedgerTypeOK
  /\ accesses \in [Addresses -> Seq(AccessPatternEntry)]
  /\ pattern \in [Addresses -> Seq(AccessPatternEntry)]
  /\ \A a \in Addresses : pattern[a] = Latest(accesses[a], MaxPattern) /\ InOrder(accesses[a], now)
  /\ logged \in Seq(ThreatRecord) /\ threats = Latest(logged, MaxThreatLog)
  /\ metrics \in [Addresses \cup {None} -> [MetricType -> 0..MetricMax]]
  /\ lastIndex # None => Len(logged) > 0 /\ lastIndex = IndexOf(Len(logged))

LEMMA AnalyticsStart == LedgerInit /\ AnalyticsInit => AnalyticsInv
<1> SUFFICES ASSUME LedgerInit, AnalyticsInit PROVE AnalyticsInv
  OBVIOUS
<1>1. LedgerTypeOK /\ now \in Nat
  BY LedgerAssumption DEF LedgerInit, LedgerTypeOK
<1>2. MaxPattern \in Nat /\ MaxThreatLog \in Nat /\ MetricMax \in Nat
  BY AnalyticsAssumption
<1>3. \A n \in Nat : Latest(<<>>, n) = <<>>
  BY DEF Latest
<1>4. \A a \in Addresses : accesses[a] = <<>> /\ pattern[a] = <<>>
  BY DEF AnalyticsInit
<1>5. InOrder(<<>>, now)
  BY DEF InOrder
<1>6. \A a \in Addresses : pattern[a] = Latest(accesses[a], MaxPattern) /\ InOrder(accesses[a], now)
  BY <1>2, <1>3, <1>4, <1>5
<1>7. /\ accesses \in [Addresses -> Seq(AccessPatternEntry)]
      /\ pattern \in [Addresses -> Seq(AccessPatternEntry)]
      /\ logged \in Seq(ThreatRecord) /\ threats = Latest(logged, MaxThreatLog)
      /\ lastIndex = None
  BY <1>2, <1>3 DEF AnalyticsInit
<1>8. metrics \in [Addresses \cup {None} -> [MetricType -> 0..MetricMax]]
  BY <1>2 DEF AnalyticsInit
<1> QED  BY <1>1, <1>6, <1>7, <1>8 DEF AnalyticsInv

LEMMA OrderAppends ==
  ASSUME NEW S, NEW s \in Seq(S), NEW e \in S, \A x \in S : x.at \in Nat,
         NEW time \in Nat, e.at = time, InOrder(s, time)
  PROVE  InOrder(Append(s, e), time)
<1> DEFINE t == Append(s, e)
<1>1. /\ Len(s) \in Nat /\ DOMAIN s = 1..Len(s) /\ \A i \in 1..Len(s) : s[i] \in S
      /\ t \in Seq(S) /\ DOMAIN t = 1..Len(s) + 1
      /\ t[Len(s) + 1] = e /\ \A i \in 1..Len(s) : t[i] = s[i]
  BY AppendProperties, LenProperties
<1>2. \A i \in 1..Len(s) + 1 : i \in 1..Len(s) \/ i = Len(s) + 1
  BY <1>1
<1> HIDE DEF t
<1>3. \A i \in 1..Len(s) + 1 : t[i].at <= time /\ t[i].at \in Nat
  BY <1>1, <1>2, SMTT(30) DEF InOrder
<1>4. ASSUME NEW i \in 1..Len(s) + 1, NEW j \in 1..Len(s) + 1, i <= j
      PROVE  t[i].at <= t[j].at
  <2>1. CASE j = Len(s) + 1
    BY <1>1, <1>3, <2>1
  <2>2. CASE j # Len(s) + 1
    <3>1. i \in 1..Len(s) /\ j \in 1..Len(s)
      BY <1>1, <1>4, <2>2
    <3> QED  BY <1>1, <1>4, <3>1 DEF InOrder
  <2> QED  BY <2>1, <2>2
<1>5. InOrder(t, time)
  BY <1>1, <1>3, <1>4 DEF InOrder
<1> QED  BY <1>5 DEF t

\* As the clock only goes on, what was in order stays so.
LEMMA OrderStays ==
  ASSUME NEW s \in Seq(AccessPatternEntry), NEW t \in Nat, NEW u \in Nat, t <= u, InOrder(s, t)
  PROVE  InOrder(s, u)
<1>1. DOMAIN s = 1..Len(s) /\ \A i \in 1..Len(s) : s[i] \in AccessPatternEntry
  BY LenProperties
<1>2. \A x \in AccessPatternEntry : x.at \in Nat
  BY LedgerAssumption DEF AccessPatternEntry
<1>3. \A i \in 1..Len(s) : s[i].at \in Nat
  BY <1>1, <1>2
<1> QED  BY <1>1, <1>3 DEF InOrder

LEMMA RecordAccessKeeps ==
  ASSUME AnalyticsInv, NEW a \in Addresses, NEW action \in AccessActions,
         NEW ok \in BOOLEAN, RecordAccess(a, action, ok), Unsigned
  PROVE  AnalyticsInv'
<1> DEFINE e == [at |-> now, action |-> action, success |-> ok]
<1>1. /\ LedgerTypeOK /\ LedgerTypeOK' /\ now \in Nat /\ now' = now /\ now \in 0..MaxTime
      /\ MaxPattern \in Nat
  BY LedgerAssumption, AnalyticsAssumption DEF AnalyticsInv, LedgerTypeOK, Unsigned
<1>2. e \in AccessPatternEntry /\ e.at = now /\ \A x \in AccessPatternEntry : x.at \in Nat
  BY <1>1, LedgerAssumption DEF AccessPatternEntry
<1>3. /\ pattern' = [pattern EXCEPT ![a] = Latest(Append(@, e), MaxPattern)]
      /\ accesses' = [accesses EXCEPT ![a] = Append(@, e)]
      /\ UNCHANGED <<threats, metrics, logged, lastIndex>>
  BY DEF RecordAccess
<1>4. /\ accesses[a] \in Seq(AccessPatternEntry) /\ pattern[a] = Latest(accesses[a], MaxPattern)
      /\ InOrder(accesses[a], now)
  BY DEF AnalyticsInv
<1> HIDE DEF e
<1>5. Append(accesses[a], e) \in Seq(AccessPatternEntry)
  BY <1>2, <1>4
<1>6. /\ accesses'[a] = Append(accesses[a], e)
      /\ \A b \in Addresses : b # a => accesses'[b] = accesses[b] /\ pattern'[b] = pattern[b]
      /\ pattern'[a] = Latest(Append(pattern[a], e), MaxPattern)
  BY <1>3 DEF AnalyticsInv
<1>7. /\ pattern'[a] = Latest(accesses'[a], MaxPattern)
      /\ pattern'[a] \in Seq(AccessPatternEntry)
  <2>1. pattern'[a] = Latest(accesses'[a], MaxPattern)
    BY <1>1, <1>2, <1>4, <1>6, LatestAppends
  <2>2. Latest(accesses'[a], MaxPattern) \in Seq(AccessPatternEntry)
    BY <1>1, <1>5, <1>6, LatestShifts
  <2> QED  BY <2>1, <2>2
<1>8. InOrder(accesses'[a], now)
  BY <1>1, <1>2, <1>4, <1>6, OrderAppends
<1>9. /\ accesses' \in [Addresses -> Seq(AccessPatternEntry)]
      /\ pattern' \in [Addresses -> Seq(AccessPatternEntry)]
  BY <1>3, <1>5, <1>6, <1>7 DEF AnalyticsInv
<1>10. ASSUME NEW b \in Addresses
       PROVE  /\ pattern'[b] = Latest(accesses'[b], MaxPattern)
              /\ InOrder(accesses'[b], now')
  BY <1>1, <1>6, <1>7, <1>8 DEF AnalyticsInv
<1> QED  BY <1>1, <1>3, <1>9, <1>10 DEF AnalyticsInv

\* The log, the history and the index move together.
LEMMA LogThreatKeeps ==
  ASSUME AnalyticsInv, NEW level \in 1..4, NEW who \in Addresses \cup {None},
         LogThreat(level, who)
  PROVE  /\ logged' \in Seq(ThreatRecord) /\ threats' = Latest(logged', MaxThreatLog)
         /\ Len(logged') > 0 /\ lastIndex' = IndexOf(Len(logged'))
<1> DEFINE r == [at |-> now, level |-> level, who |-> who, acknowledged |-> FALSE]
<1>1. r \in ThreatRecord
  BY DEF ThreatRecord, AnalyticsInv, LedgerTypeOK
<1>2. /\ threats' = Latest(Append(threats, r), MaxThreatLog)
      /\ logged' = Append(logged, r) /\ lastIndex' = Len(threats)
  BY DEF LogThreat
<1> HIDE DEF r
<1>3. /\ logged \in Seq(ThreatRecord) /\ threats = Latest(logged, MaxThreatLog)
      /\ MaxThreatLog \in Nat /\ Len(logged) \in Nat
  BY AnalyticsAssumption DEF AnalyticsInv
<1>4. logged' \in Seq(ThreatRecord) /\ Len(logged') = Len(logged) + 1
  BY <1>1, <1>2, <1>3, AppendProperties
<1>5. threats' = Latest(logged', MaxThreatLog)
  BY <1>1, <1>2, <1>3, LatestAppends
<1>6. Len(threats) = IF Len(logged) > MaxThreatLog THEN MaxThreatLog ELSE Len(logged)
  BY <1>3, LatestShifts
<1>7. Len(logged') - 1 = Len(logged)
  BY <1>3, <1>4
<1> QED  BY <1>2, <1>3, <1>4, <1>5, <1>6, <1>7 DEF IndexOf

LEMMA IncrementedKeeps ==
  ASSUME metrics \in [Addresses \cup {None} -> [MetricType -> 0..MetricMax]],
         NEW who \in Addresses \cup {None}, NEW kind \in MetricType, Incremented(who, kind, 1)
  PROVE  metrics' \in [Addresses \cup {None} -> [MetricType -> 0..MetricMax]]
<1> DEFINE v == IF metrics[who][kind] + 1 > MetricMax THEN MetricMax ELSE metrics[who][kind] + 1
<1>1. metrics' = [metrics EXCEPT ![who][kind] = v]
  BY DEF Incremented
<1>2. v \in 0..MetricMax
  BY AnalyticsAssumption
<1> HIDE DEF v
<1> QED  BY <1>1, <1>2

LEMMA AnalyticsStep ==
  AnalyticsInv /\ [AnalyticsNext]_<<ledgerVars, analyticsVars>> => AnalyticsInv'
<1> SUFFICES ASSUME AnalyticsInv, [AnalyticsNext]_<<ledgerVars, analyticsVars>>
             PROVE  AnalyticsInv'
  OBVIOUS
<1>1. LedgerTypeOK' /\ now \in Nat /\ now' \in Nat /\ now <= now'
  BY LedgerAssumption
     DEF AnalyticsInv, LedgerTypeOK, AnalyticsNext, Unsigned, Tick, ledgerVars
<1>2. ASSUME UNCHANGED <<pattern, accesses>>,
             metrics' \in [Addresses \cup {None} -> [MetricType -> 0..MetricMax]],
             logged' \in Seq(ThreatRecord) /\ threats' = Latest(logged', MaxThreatLog),
             lastIndex' # None => Len(logged') > 0 /\ lastIndex' = IndexOf(Len(logged'))
      PROVE  AnalyticsInv'
  <2>1. \A a \in Addresses : InOrder(accesses'[a], now')
    <3> SUFFICES ASSUME NEW a \in Addresses PROVE InOrder(accesses'[a], now')
      OBVIOUS
    <3>1. accesses[a] \in Seq(AccessPatternEntry) /\ InOrder(accesses[a], now)
      BY DEF AnalyticsInv
    <3>2. InOrder(accesses[a], now')
      BY <1>1, <3>1, OrderStays
    <3> QED  BY <1>2, <3>2
  <2> QED  BY <1>1, <1>2, <2>1 DEF AnalyticsInv
<1>3. CASE UNCHANGED analyticsVars
  BY <1>2, <1>3 DEF AnalyticsInv, analyticsVars
<1>4. ASSUME NEW a \in Addresses, RecordViolation(a) PROVE AnalyticsInv'
  <2>1. /\ LogThreat(2, a) /\ Incremented(a, "RateLimitTriggers", 1)
        /\ UNCHANGED <<pattern, accesses>>
    BY <1>4 DEF RecordViolation, Severity
  <2>2. 2 \in 1..4 /\ "RateLimitTriggers" \in MetricType
    BY DEF MetricType
  <2>3. metrics' \in [Addresses \cup {None} -> [MetricType -> 0..MetricMax]]
    BY <2>1, <2>2, IncrementedKeeps DEF AnalyticsInv
  <2>4. /\ logged' \in Seq(ThreatRecord) /\ threats' = Latest(logged', MaxThreatLog)
        /\ Len(logged') > 0 /\ lastIndex' = IndexOf(Len(logged'))
    BY <2>1, <2>2, LogThreatKeeps
  <2> QED  BY <1>2, <2>1, <2>3, <2>4
<1>5. ASSUME NEW level \in ThreatLevels, NEW who \in Addresses \cup {None}, LogOnly(level, who)
      PROVE  AnalyticsInv'
  <2>1. level \in 1..4
    BY AnalyticsAssumption
  <2>2. LogThreat(level, who) /\ UNCHANGED <<pattern, metrics, accesses>>
    BY <1>5 DEF LogOnly
  <2>3. /\ logged' \in Seq(ThreatRecord) /\ threats' = Latest(logged', MaxThreatLog)
        /\ Len(logged') > 0 /\ lastIndex' = IndexOf(Len(logged'))
    BY <2>1, <2>2, LogThreatKeeps
  <2> QED  BY <1>2, <2>2, <2>3 DEF AnalyticsInv
<1>6. ASSUME NEW kind \in {"Contributions", "Failed"}, IncrementMetric(kind, 1)
      PROVE  AnalyticsInv'
  <2>1. kind \in MetricType /\ None \in Addresses \cup {None}
    BY DEF MetricType
  <2>2. /\ Incremented(None, kind, 1)
        /\ UNCHANGED <<pattern, threats, accesses, logged, lastIndex>>
    BY <1>6 DEF IncrementMetric
  <2>3. metrics' \in [Addresses \cup {None} -> [MetricType -> 0..MetricMax]]
    BY <2>1, <2>2, IncrementedKeeps DEF AnalyticsInv
  <2> QED  BY <1>2, <2>2, <2>3 DEF AnalyticsInv
<1> QED
  BY <1>3, <1>4, <1>5, <1>6, RecordAccessKeeps DEF AnalyticsNext

\* What the rate limit sees of the accesses that were made.
LEMMA LimitSees ==
  ASSUME AnalyticsInv, NEW a \in Addresses, NEW window \in 0..MaxTime,
         NEW action \in AccessActions
  PROVE  LET found == RecentAccesses(a, action, window)
             made == TrueAccesses(a, {action}, window)
         IN  /\ found <= made
             /\ TrueAccesses(a, AccessActions, window) <= MaxPattern => found = made
<1> DEFINE t == Sooner(now, window)
           s == accesses[a]
           P == {e \in AccessPatternEntry : e.action = action /\ e.at >= t}
           Q == {e \in AccessPatternEntry : e.at >= t}
           kept == Latest(s, MaxPattern)
           A == Hits(kept, P)
           B == Hits(s, P)
           T == Hits(s, Q)
<1>1. /\ s \in Seq(AccessPatternEntry) /\ pattern[a] = kept /\ InOrder(s, now)
      /\ MaxPattern \in Nat /\ t \in Nat
  BY LedgerAssumption, AnalyticsAssumption DEF AnalyticsInv, LedgerTypeOK, Sooner
<1>2. /\ Len(s) \in Nat /\ DOMAIN s = 1..Len(s)
      /\ \A i \in DOMAIN s : s[i] \in AccessPatternEntry
      /\ \A i \in DOMAIN kept : kept[i] \in AccessPatternEntry
  <2>1. kept \in Seq(AccessPatternEntry)
    BY <1>1, LatestShifts
  <2> HIDE DEF kept, s
  <2> QED  BY <1>1, <2>1, LenProperties
<1>3. \A e \in AccessPatternEntry : e.action \in AccessActions /\ e.at \in Nat
  BY LedgerAssumption DEF AccessPatternEntry
<1>4. RecentAccesses(a, action, window) = Cardinality(A)
  <2>1. A = {i \in DOMAIN pattern[a] : /\ pattern[a][i].action = action
                                       /\ pattern[a][i].at >= t}
    BY <1>1, <1>2 DEF Hits
  <2> QED  BY <2>1 DEF RecentAccesses
<1>5. TrueAccesses(a, {action}, window) = Cardinality(B)
  <2>1. B = {i \in DOMAIN s : s[i].action \in {action} /\ s[i].at >= t}
    BY <1>2 DEF Hits
  <2> QED  BY <2>1 DEF TrueAccesses
<1>6. TrueAccesses(a, AccessActions, window) = Cardinality(T)
  <2>1. T = {i \in DOMAIN s : s[i].action \in AccessActions /\ s[i].at >= t}
    BY <1>2, <1>3 DEF Hits
  <2> QED  BY <2>1 DEF TrueAccesses
<1>7. /\ Cardinality(A) <= Cardinality(B)
      /\ (\A i \in B : i > Len(s) - MaxPattern) => Cardinality(A) = Cardinality(B)
  <2> HIDE DEF s, P
  <2> QED  BY <1>1, LatestCounts
<1>8. IsFiniteSet(T) /\ Cardinality(T) \in Nat
  <2>1. T \in SUBSET (1..Len(s)) /\ IsFiniteSet(1..Len(s))
    BY <1>2, FS_Interval DEF Hits
  <2> HIDE DEF T, s
  <2> QED  BY <2>1, FS_Subset, FS_CardinalityType
<1>9. ASSUME Cardinality(T) <= MaxPattern, NEW i \in B PROVE i > Len(s) - MaxPattern
  <2>1. i \in 1..Len(s) /\ s[i].at >= t
    BY <1>2 DEF Hits
  <2>2. i..Len(s) \subseteq T
    <3> SUFFICES ASSUME NEW j \in i..Len(s) PROVE j \in T
      OBVIOUS
    <3>1. j \in 1..Len(s) /\ i <= j
      BY <1>2, <2>1
    <3>2. s[i].at <= s[j].at /\ s[i].at \in Nat /\ s[j].at \in Nat
      BY <1>1, <1>2, <1>3, <2>1, <3>1 DEF InOrder
    <3> QED  BY <1>1, <1>2, <2>1, <3>1, <3>2 DEF Hits
  <2> HIDE DEF T, s, t, B
  <2>3. Cardinality(i..Len(s)) = Len(s) - i + 1
    BY <1>2, <2>1, FS_Interval
  <2>4. Cardinality(i..Len(s)) <= Cardinality(T)
    BY <1>8, <2>2, FS_Subset
  <2> QED  BY <1>1, <1>2, <1>8, <1>9, <2>1, <2>3, <2>4
<1> HIDE DEF A, B, T, s, t
<1> QED  BY <1>4, <1>5, <1>6, <1>7, <1>9

LEMMA AnalyticsMeaning == AnalyticsInv => AnalyticsExact /\ AnalyticsTypeOK
<1> SUFFICES ASSUME AnalyticsInv PROVE AnalyticsExact /\ AnalyticsTypeOK
  OBVIOUS
<1>1. /\ logged \in Seq(ThreatRecord) /\ threats = Latest(logged, MaxThreatLog)
      /\ MaxThreatLog \in Nat /\ MaxPattern \in Nat /\ Len(logged) \in Nat
      /\ now \in 0..MaxTime /\ MaxTime \in Nat
  BY LedgerAssumption, AnalyticsAssumption DEF AnalyticsInv, LedgerTypeOK
<1>2. /\ threats \in Seq(ThreatRecord)
      /\ Len(threats) = IF Len(logged) > MaxThreatLog THEN MaxThreatLog ELSE Len(logged)
  BY <1>1, LatestShifts
<1>3. AnalyticsTypeOK
  BY <1>2 DEF AnalyticsTypeOK, AnalyticsInv
<1>4. /\ DOMAIN threats = 1..Len(threats) /\ Len(threats) \in Nat
      /\ \A i \in DOMAIN threats : threats[i].at \in Nat /\ threats[i].level \in 1..4
  <2>1. \A r \in ThreatRecord : r.at \in Nat /\ r.level \in 1..4
    BY <1>1 DEF ThreatRecord
  <2> QED  BY <1>2, <2>1, LenProperties
<1>5. ASSUME lastIndex # None
      PROVE  /\ AcknowledgeThreat(lastIndex) <=> Len(logged) <= MaxThreatLog
             /\ AcknowledgeThreat(lastIndex) => threats[lastIndex + 1] = logged[Len(logged)]
  <2>1. Len(logged) > 0 /\ lastIndex = IndexOf(Len(logged))
    BY <1>5 DEF AnalyticsInv
  <2>2. CASE Len(logged) <= MaxThreatLog
    <3>1. lastIndex = Len(logged) - 1 /\ Len(threats) = Len(logged) /\ threats = logged
      BY <1>1, <1>2, <2>1, <2>2 DEF IndexOf, Latest
    <3> QED  BY <1>1, <2>1, <2>2, <3>1 DEF AcknowledgeThreat
  <2>3. CASE ~(Len(logged) <= MaxThreatLog)
    <3>1. lastIndex = MaxThreatLog /\ Len(threats) = MaxThreatLog
      BY <1>1, <1>2, <2>1, <2>3 DEF IndexOf
    <3> QED  BY <1>1, <2>3, <3>1 DEF AcknowledgeThreat
  <2> QED  BY <2>2, <2>3
<1>6. BlockedAddresses(4) \subseteq BlockedAddresses(2)
  BY <1>4 DEF BlockedAddresses
<1> DEFINE recent == {i \in DOMAIN threats : threats[i].at >= Sooner(now, MaxTime)}
           levels == {1} \cup {threats[i].level : i \in recent}
<1>7. recent = 1..Len(threats)
  <2>1. Sooner(now, MaxTime) = 0
    BY <1>1 DEF Sooner
  <2> QED  BY <1>4, <2>1
<1>8. ThreatTrends(MaxTime).count = SecuritySummary.threatCount
  <2>1. ThreatTrends(MaxTime).count = Cardinality(recent)
    BY DEF ThreatTrends
  <2>2. Cardinality(1..Len(threats)) = Len(threats)
    <3> DEFINE n == Len(threats)
    <3>1. n \in Nat
      BY <1>4
    <3> HIDE DEF n
    <3>2. Cardinality(1..n) = n
      BY <3>1, FS_Interval
    <3> QED  BY <3>2 DEF n
  <2>3. SecuritySummary.threatCount = Len(threats)
    BY DEF SecuritySummary
  <2> QED  BY <1>7, <2>1, <2>2, <2>3, ZenonT(30)
<1>9. ASSUME RiskLevel(SecuritySummary.score, SecuritySummary.criticals) = "LOW"
      PROVE  ThreatTrends(MaxTime).highest < Severity.High
  <2> DEFINE C == {i \in DOMAIN threats : IsCritical(threats[i].level)}
  <2>1. SecuritySummary.criticals = Cardinality(C)
    BY DEF SecuritySummary
  <2>2. SecuritySummary.criticals = 0
    BY <1>9 DEF RiskLevel
  <2>3. IsFiniteSet(C)
    <3>1. C \in SUBSET (1..Len(threats)) /\ IsFiniteSet(1..Len(threats))
      BY <1>4, FS_Interval
    <3> HIDE DEF C
    <3> QED  BY <3>1, FS_Subset
  <2>4. C = {}
    <3> HIDE DEF C
    <3> QED  BY <2>1, <2>2, <2>3, FS_EmptySet
  <2>5. \A i \in DOMAIN threats : threats[i].level \in {1, 2}
    <3>1. \A i \in DOMAIN threats : ~(threats[i].level >= 3)
      BY <2>4 DEF IsCritical, Severity
    <3> QED  BY <1>4, <3>1
  <2>6. levels \subseteq {1, 2} /\ 1 \in levels
    BY <1>4, <1>7, <2>5
  <2>7. ThreatTrends(MaxTime).highest = CHOOSE n \in levels : \A m \in levels : m <= n
    BY DEF ThreatTrends
  <2> HIDE DEF levels
  <2>8. \E n \in levels : \A m \in levels : m <= n
    <3>1. CASE 2 \in levels
      BY <2>6, <3>1
    <3>2. CASE 2 \notin levels
      BY <2>6, <3>2
    <3> QED  BY <3>1, <3>2
  <2>9. ThreatTrends(MaxTime).highest \in levels
    BY <2>7, <2>8
  <2> DEFINE h == ThreatTrends(MaxTime).highest
  <2>10. h \in {1, 2} /\ Severity.High = 3
    BY <2>6, <2>9 DEF Severity
  <2> HIDE DEF h
  <2>11. h < Severity.High
    BY <2>10
  <2> QED  BY <2>11 DEF h
<1>10. ASSUME NEW a \in Addresses
       PROVE  AnalyzeAccess(a).total <= MaxPattern /\ AnalyzeAccess(a).successBps <= 10000
  <2> DEFINE s == pattern[a]
             G == {i \in DOMAIN s : s[i].success}
             q == (10000 * Cardinality(G)) \div Len(s)
  <2>1. /\ s \in Seq(AccessPatternEntry) /\ Len(s) \in Nat /\ Len(s) <= MaxPattern
        /\ DOMAIN s = 1..Len(s)
    <3>1. accesses[a] \in Seq(AccessPatternEntry) /\ s = Latest(accesses[a], MaxPattern)
      BY DEF AnalyticsInv
    <3>2. Len(s) = IF Len(accesses[a]) > MaxPattern THEN MaxPattern ELSE Len(accesses[a])
      BY <1>1, <3>1, LatestShifts
    <3>3. s \in Seq(AccessPatternEntry)
      BY DEF AnalyticsInv
    <3> HIDE DEF s
    <3> QED  BY <1>1, <3>1, <3>2, <3>3, LenProperties
  <2>2. CASE s = <<>>
    BY <1>1, <2>2 DEF AnalyzeAccess
  <2>3. CASE s # <<>>
    <3>1. AnalyzeAccess(a).total = Len(s) /\ AnalyzeAccess(a).successBps = q
      BY <2>3 DEF AnalyzeAccess
    <3>2. IsFiniteSet(G) /\ Cardinality(G) \in Nat /\ Cardinality(G) <= Len(s)
      <4>1. G \in SUBSET (1..Len(s)) /\ IsFiniteSet(1..Len(s)) /\ Cardinality(1..Len(s)) = Len(s)
        BY <2>1, FS_Interval, SMTT(30)
      <4> HIDE DEF G, s
      <4>2. IsFiniteSet(G) /\ Cardinality(G) <= Cardinality(1..Len(s))
        BY <4>1, FS_Subset
      <4> QED  BY <4>1, <4>2, FS_CardinalityType
    <3>3. Len(s) \in Nat \ {0}
      BY <2>1, <2>3
    <3> DEFINE g == Cardinality(G)  n == Len(s)
    <3>4. g \in Nat /\ n \in Nat \ {0} /\ g <= n /\ q = (10000 * g) \div n
      BY <3>2, <3>3
    <3> HIDE DEF g, n, q, G, s
    <3>5. q \in Int /\ q * n <= 10000 * g
      <4>1. \A x \in Nat, y \in Nat \ {0} : x \div y \in Int /\ (x \div y) * y <= x
        BY Z3
      <4>2. 10000 * g \in Nat
        BY <3>4
      <4> QED  BY <3>4, <4>1, <4>2
    <3>6. q <= 10000
      BY <3>4, <3>5
    <3> QED  BY <2>1, <3>1, <3>6
  <2> QED  BY <2>2, <2>3
<1>11. ASSUME NEW a \in Addresses, NEW b \in BOOLEAN
       PROVE  /\ ~Returns(DetectContribution(a, b)) /\ ~Returns(DetectWithdrawal(a, b))
              /\ ~Returns(DetectAuth(a, b))
  BY DEF Returns, DetectContribution, DetectWithdrawal, DetectAuth, NoAnomaly
<1>12. AnalyticsExact
  <2> HIDE DEF recent, levels
  <2> QED  BY <1>1, <1>5, <1>6, <1>8, <1>9, <1>10, <1>11, LimitSees DEF AnalyticsExact
<1> QED  BY <1>3, <1>12

-----------------------------------------------------------------------------
(* All of them in one storage.                                             *)

\* What a step is for the module a behaviour exercises.
LEMMA SubjectSteps ==
  ASSUME [Next]_vars
  PROVE  /\ subject' = subject
         /\ subject = "shards"    => [ShardsNext]_shardsVars
         /\ subject = "plasma"    => [PlasmaNext]_<<ledgerVars, plasmaVars>>
         /\ subject = "minter"    => [MinterNext]_<<ledgerVars, minterVars>>
         /\ subject = "batch"     => [BatchNext]_<<ledgerVars, batchVars>>
         /\ subject = "content"   => [ContentNext]_<<ledgerVars, contentVars>>
         /\ subject = "fanout"    => [FanOutNext]_<<ledgerVars, fanOutVars>>
         /\ subject = "caches"    => [CachesNext]_cachesVars
         /\ subject = "chunks"    => [ChunksNext]_chunksVars
         /\ subject = "limits"    => [LimitersNext]_<<ledgerVars, limiterVars>>
         /\ subject = "alarms"    => [AlarmsNext]_<<ledgerVars, alarmVars>>
         /\ subject = "analytics" => [AnalyticsNext]_<<ledgerVars, analyticsVars>>
         /\ subject = "network"   => [NetworkNext]_<<ledgerVars, networkVars>>
         /\ subject = "shadow"    => [ShadowNext]_<<ledgerVars, shadowVars>>
<1>1. CASE UNCHANGED vars
  <2>1. /\ UNCHANGED <<ledgerVars, shardsVars, plasmaVars, minterVars, batchVars, contentVars>>
        /\ UNCHANGED <<fanOutVars, cachesVars, chunksVars, limiterVars, alarmVars>>
        /\ UNCHANGED <<analyticsVars, networkVars, shadowVars, subject>>
    BY <1>1, Zenon DEF vars
  <2> QED  BY <2>1
<1>2. CASE Next
  BY <1>2 DEF Next
<1> QED  BY <1>1, <1>2

MonitorsInv ==
  /\ subject = "limits" => LimitersInv
  /\ subject = "alarms" => AlarmsInv
  /\ subject = "analytics" => AnalyticsInv

\* Budgets and quotas of resource_management.rs are never overdrawn, nothing
\* beyond a threshold of security_monitoring.rs goes unreported, and the logs
\* of security_analytics.rs index what they hold, for any limits, thresholds
\* and sizes of the logs.
THEOREM MonitorsAlwaysExact == Spec => []MonitorsExact
<1>1. Init => MonitorsInv
  BY LimitersStart, AlarmsStart, AnalyticsStart DEF Init, MonitorsInv
<1>2. MonitorsInv /\ [Next]_vars => MonitorsInv'
  <2> SUFFICES ASSUME MonitorsInv, [Next]_vars PROVE MonitorsInv'
    OBVIOUS
  <2>1. subject = "limits" => LimitersInv'
    BY SubjectSteps, LimitersStep DEF MonitorsInv
  <2>2. subject = "alarms" => AlarmsInv'
    BY SubjectSteps, AlarmsStep DEF MonitorsInv
  <2>3. subject = "analytics" => AnalyticsInv'
    BY SubjectSteps, AnalyticsStep DEF MonitorsInv
  <2> QED  BY <2>1, <2>2, <2>3, SubjectSteps DEF MonitorsInv
<1>3. MonitorsInv => MonitorsExact
  BY LimitersMeaning, AlarmsMeaning, AnalyticsMeaning DEF MonitorsInv, MonitorsExact
<1> QED  BY <1>1, <1>2, <1>3, PTL DEF Spec

CopiesInv ==
  /\ subject = "shards" => ShardInv
  /\ subject = "minter" => MinterInv
  /\ subject = "fanout" => FanOutInv
  /\ subject = "caches" => CachesInv
  /\ subject = "network" => NetworkInv
  /\ subject = "shadow" => ShadowInv

\* The counters of the shards and of the minter, the purses behind
\* batch_contribute, the caches and write buffers and the packed books agree
\* with what they stand for, for any sizes, capacities, values and amounts.
THEOREM CopiesAlwaysExact == Spec => []CopiesExact
<1>1. Init => CopiesInv
  BY ShardsStart, MinterStart, FanOutStart, CachesStart, NetworkStart, ShadowStart
     DEF Init, CopiesInv
<1>2. CopiesInv /\ [Next]_vars => CopiesInv'
  <2> SUFFICES ASSUME CopiesInv, [Next]_vars PROVE CopiesInv'
    OBVIOUS
  <2>1. subject = "shards" => ShardInv'
    BY SubjectSteps, ShardsStep DEF CopiesInv
  <2>2. subject = "minter" => MinterInv'
    BY SubjectSteps, MinterStep DEF CopiesInv
  <2>3. subject = "fanout" => FanOutInv'
    BY SubjectSteps, FanOutStep DEF CopiesInv
  <2>4. subject = "caches" => CachesInv'
    BY SubjectSteps, CachesStep DEF CopiesInv
  <2>5. subject = "network" => NetworkInv'
    BY SubjectSteps, NetworkStep DEF CopiesInv
  <2>6. subject = "shadow" => ShadowInv'
    BY SubjectSteps, ShadowStep DEF CopiesInv
  <2> QED  BY <2>1, <2>2, <2>3, <2>4, <2>5, <2>6, SubjectSteps DEF CopiesInv
<1>3. CopiesInv => CopiesExact
  <2>1. MinterInv => TotalExact
    BY DEF MinterInv
  <2>2. FanOutInv => FanOutBooks
    BY DEF FanOutInv
  <2> QED
    BY <2>1, <2>2, ShardsMeaning, CachesMeaning, NetworkMeaning, ShadowMeaning
       DEF CopiesInv, CopiesExact
<1> QED  BY <1>1, <1>2, <1>3, PTL DEF Spec

-----------------------------------------------------------------------------
(* The types of all of them.                                               *)

\* What a call or the clock does to the ledger.
LedgerMoves ==
  \/ UNCHANGED ledgerVars
  \/ \E c \in Addresses : SignedBy(c)
  \/ Unsigned
  \/ Tick

LEMMA LedgerKept ==
  ASSUME LedgerTypeOK, LedgerMoves
  PROVE  LedgerTypeOK' /\ now \in Nat /\ now' \in Nat /\ now <= now'
BY LedgerAssumption DEF LedgerMoves, LedgerTypeOK, ledgerVars, SignedBy, Unsigned, Tick

LEMMA MinterMoves ==
  ASSUME MinterTypeOK, [MinterNext]_<<ledgerVars, minterVars>>
  PROVE  LedgerMoves
<1>1. \A a \in Addresses, m \in Addresses : InitializeMinter(a, m) => LedgerMoves
  BY DEF InitializeMinter, LedgerMoves
<1>2. \A a \in Addresses, m \in Addresses : SetMinter(a, m) => LedgerMoves
  BY DEF SetMinter, LedgerMoves
<1>3. \A a \in Addresses, id \in TokenIds : Mint(a, id) => LedgerMoves
  <2>1. minter # None => minter \in Addresses
    BY DEF MinterTypeOK
  <2> QED  BY <2>1 DEF Mint, LedgerMoves
<1>4. CASE UNCHANGED <<ledgerVars, minterVars>>
  BY <1>4 DEF LedgerMoves
<1> QED  BY <1>1, <1>2, <1>3, <1>4 DEF MinterNext

LEMMA ContentMoves ==
  ASSUME ContentTypeOK, [ContentNext]_<<ledgerVars, contentVars>>
  PROVE  LedgerMoves
<1>1. author # None => author \in Addresses
  BY DEF ContentTypeOK
<1>2. CASE UNCHANGED <<ledgerVars, contentVars>>
  BY <1>2 DEF LedgerMoves
<1>3. CASE \E a \in Addresses : ProvisionAuthor(a)
  BY <1>3 DEF ProvisionAuthor, LedgerMoves
<1>4. CASE \E c \in Addresses, texts \in [Fields -> TextLens \cup {None}] :
             UpdateMetadata(c, texts)
  BY <1>4 DEF UpdateMetadata, LedgerMoves
<1>5. CASE \E date \in 0..MaxTime + 1, len \in TextLens : AddRoadmapItem(date, len)
  BY <1>1, <1>5 DEF AddRoadmapItem, LedgerMoves
<1>6. CASE \E m \in Milestones : AddStretchGoal(m)
  BY <1>1, <1>6 DEF AddStretchGoal, LedgerMoves
<1>7. CASE CampaignMoves \/ Tick
  BY <1>7 DEF CampaignMoves, LedgerMoves
<1> QED  BY <1>2, <1>3, <1>4, <1>5, <1>6, <1>7 DEF ContentNext

\* The other modules name nobody but their callers.
LEMMA CallersMove ==
  /\ [PlasmaNext]_<<ledgerVars, plasmaVars>> => LedgerMoves
  /\ [BatchNext]_<<ledgerVars, batchVars>> => LedgerMoves
  /\ [FanOutNext]_<<ledgerVars, fanOutVars>> => LedgerMoves
  /\ [LimitersNext]_<<ledgerVars, limiterVars>> => LedgerMoves
  /\ [AlarmsNext]_<<ledgerVars, alarmVars>> => LedgerMoves
  /\ [AnalyticsNext]_<<ledgerVars, analyticsVars>> => LedgerMoves
  /\ [NetworkNext]_<<ledgerVars, networkVars>> => LedgerMoves
  /\ [ShadowNext]_<<ledgerVars, shadowVars>> => LedgerMoves
<1>1. [PlasmaNext]_<<ledgerVars, plasmaVars>> => LedgerMoves
  BY DEF PlasmaNext, FinalizeExit, ChallengeExit, SubmitCheckpoint, RequestExit, LedgerMoves
<1>2. [BatchNext]_<<ledgerVars, batchVars>> => LedgerMoves
  BY DEF BatchNext, ExecuteBatch, ContributeDirectly, LedgerMoves
<1>3. [FanOutNext]_<<ledgerVars, fanOutVars>> => LedgerMoves
  BY DEF FanOutNext, BatchContribute, CampaignEnds, LedgerMoves
<1>4. [LimitersNext]_<<ledgerVars, limiterVars>> => LedgerMoves
  BY DEF LimitersNext, Consume, RecordCall, RecordWrite, SetRateLimit, LedgerMoves
<1>5. [AlarmsNext]_<<ledgerVars, alarmVars>> => LedgerMoves
  BY DEF AlarmsNext, LedgerMoves
<1>6. [AnalyticsNext]_<<ledgerVars, analyticsVars>> => LedgerMoves
  BY DEF AnalyticsNext, LedgerMoves
<1>7. [NetworkNext]_<<ledgerVars, networkVars>> => LedgerMoves
  BY DEF NetworkNext, LedgerMoves
<1>8. [ShadowNext]_<<ledgerVars, shadowVars>> => LedgerMoves
  BY DEF ShadowNext, LedgerMoves
<1> QED  BY <1>1, <1>2, <1>3, <1>4, <1>5, <1>6, <1>7, <1>8

\* Whatever the behaviour exercises, the ledger moves as a call moves it.
LEMMA StorageMoves ==
  ASSUME MinterTypeOK, ContentTypeOK, [Next]_vars
  PROVE  LedgerMoves
<1>1. CASE UNCHANGED vars
  <2>1. UNCHANGED ledgerVars
    BY <1>1, Zenon DEF vars
  <2> QED  BY <2>1 DEF LedgerMoves
<1>2. CASE Next
  BY <1>2, MinterMoves, ContentMoves, CallersMove DEF Next, LedgerMoves
<1> QED  BY <1>1, <1>2

\* A module that is not exercised keeps its types, while the clock goes on.
LEMMA TypesRest ==
  /\ PlasmaTypeOK /\ UNCHANGED plasmaVars => PlasmaTypeOK'
  /\ MinterTypeOK /\ UNCHANGED minterVars => MinterTypeOK'
  /\ BatchTypeOK /\ UNCHANGED batchVars => BatchTypeOK'
  /\ ContentTypeOK /\ UNCHANGED contentVars => ContentTypeOK'
  /\ FanOutTypeOK /\ UNCHANGED fanOutVars => FanOutTypeOK'
  /\ CachesTypeOK /\ UNCHANGED cachesVars => CachesTypeOK'
  /\ ChunksTypeOK /\ UNCHANGED chunksVars => ChunksTypeOK'
  /\ AlarmsTypeOK /\ UNCHANGED alarmVars => AlarmsTypeOK'
  /\ AnalyticsTypeOK /\ UNCHANGED analyticsVars => AnalyticsTypeOK'
  /\ NetworkTypeOK /\ UNCHANGED networkVars => NetworkTypeOK'
  /\ ShadowTypeOK /\ UNCHANGED shadowVars => ShadowTypeOK'
<1>1. PlasmaTypeOK /\ UNCHANGED plasmaVars => PlasmaTypeOK'
  BY DEF PlasmaTypeOK, plasmaVars
<1>2. MinterTypeOK /\ UNCHANGED minterVars => MinterTypeOK'
  BY DEF MinterTypeOK, minterVars, Minted
<1>3. BatchTypeOK /\ UNCHANGED batchVars => BatchTypeOK'
  BY DEF BatchTypeOK, batchVars
<1>4. ContentTypeOK /\ UNCHANGED contentVars => ContentTypeOK'
  BY DEF ContentTypeOK, contentVars
<1>5. FanOutTypeOK /\ UNCHANGED fanOutVars => FanOutTypeOK'
  BY DEF FanOutTypeOK, fanOutVars
<1>6. CachesTypeOK /\ UNCHANGED cachesVars => CachesTypeOK'
  BY DEF CachesTypeOK, cachesVars
<1>7. ChunksTypeOK /\ UNCHANGED chunksVars => ChunksTypeOK'
  BY DEF ChunksTypeOK, chunksVars, ChunkCount, HasChunk
<1>8. AlarmsTypeOK /\ UNCHANGED alarmVars => AlarmsTypeOK'
  BY DEF AlarmsTypeOK, alarmVars
<1>9. AnalyticsTypeOK /\ UNCHANGED analyticsVars => AnalyticsTypeOK'
  BY DEF AnalyticsTypeOK, analyticsVars
<1>10. NetworkTypeOK /\ UNCHANGED networkVars => NetworkTypeOK'
  BY DEF NetworkTypeOK, networkVars
<1>11. ShadowTypeOK /\ UNCHANGED shadowVars => ShadowTypeOK'
  BY DEF ShadowTypeOK, shadowVars
<1> QED
  BY <1>1, <1>2, <1>3, <1>4, <1>5, <1>6, <1>7, <1>8, <1>9, <1>10, <1>11

LEMMA LimitersRest ==
  ASSUME LimitersTypeOK, UNCHANGED limiterVars, now \in Nat, now' \in Nat, now <= now'
  PROVE  LimitersTypeOK'
<1>1. limiter.start \in 0..now' /\ limiter.count \in 0..RateLimit
  BY DEF LimitersTypeOK
<1>2. limiter \in [start : 0..now', count : 0..RateLimit]
  BY <1>1 DEF LimitersTypeOK
<1> QED  BY <1>2 DEF LimitersTypeOK, limiterVars

LEMMA CachesTyped == CachesInv => CachesTypeOK
<1> SUFFICES ASSUME CachesInv PROVE CachesTypeOK
  OBVIOUS
<1>1. cache.entries \in Seq(LiveEntry) /\ cache.total \in Nat
  BY DEF CachesInv, MemoryCache
<1>2. \A i \in DOMAIN cache.entries : cache.entries[i] \in LiveEntry
  BY <1>1
<1>3. cache.entries \in Seq(CacheEntry)
  <2>1. \A i \in 1..Len(cache.entries) : cache.entries[i] \in CacheEntry
    BY <1>1, <1>2 DEF LiveEntry
  <2> QED  BY <1>1, <2>1, SeqDef
<1>4. Len(lazy) <= 1
  <2>1. CASE lazy = <<>>
    BY <2>1
  <2>2. CASE lazy # <<>>
    <3>1. PICK v \in seen : lazy = <<v>>
      BY <2>2 DEF CachesInv
    <3> QED  BY <3>1
  <2> QED  BY <2>1, <2>2
<1> QED  BY <1>1, <1>2, <1>3, <1>4 DEF CachesTypeOK, CachesInv, LiveEntry

\* The types of every module, and the invariant of the one that moves.
RecordsInv ==
  /\ LedgerTypeOK
  /\ IF subject = "plasma" THEN PlasmaInv ELSE PlasmaTypeOK
  /\ IF subject = "minter" THEN MinterInv ELSE MinterTypeOK
  /\ BatchTypeOK /\ (subject = "batch" => BatchInv)
  /\ IF subject = "content" THEN ContentInv ELSE ContentTypeOK
  /\ FanOutTypeOK /\ (subject = "fanout" => FanOutInv)
  /\ IF subject = "caches" THEN CachesInv ELSE CachesTypeOK
  /\ IF subject = "chunks" THEN ChunksInv ELSE ChunksTypeOK
  /\ IF subject = "limits" THEN LimitersInv ELSE LimitersTypeOK
  /\ IF subject = "alarms" THEN AlarmsInv ELSE AlarmsTypeOK
  /\ IF subject = "analytics" THEN AnalyticsInv ELSE AnalyticsTypeOK
  /\ IF subject = "network" THEN NetworkInv ELSE NetworkTypeOK
  /\ IF subject = "shadow" THEN ShadowInv ELSE ShadowTypeOK

LEMMA RecordsMeaning == RecordsInv => RecordsTypeOK
<1>1. /\ PlasmaInv => PlasmaTypeOK
      /\ MinterInv => MinterTypeOK
      /\ ContentInv => ContentTypeOK
      /\ LimitersInv => LimitersTypeOK
      /\ AlarmsInv => AlarmsTypeOK
      /\ NetworkInv => NetworkTypeOK
      /\ ShadowInv => ShadowTypeOK
  BY DEF PlasmaInv, MinterInv, ContentInv, LimitersInv, AlarmsInv, NetworkInv, ShadowInv
<1> QED
  BY <1>1, CachesTyped, ChunksMeaning, AnalyticsMeaning, Zenon DEF RecordsInv, RecordsTypeOK

LEMMA RecordsStart == Init => RecordsInv
<1> SUFFICES ASSUME Init PROVE RecordsInv
  OBVIOUS
<1>1. /\ LedgerInit /\ PlasmaInit /\ MinterInit /\ BatchInit /\ ContentInit /\ FanOutInit
      /\ CachesInit /\ ChunksInit /\ LimitersInit /\ AlarmsInit /\ AnalyticsInit
      /\ NetworkInit /\ ShadowInit
  BY DEF Init
<1>2. /\ PlasmaInv /\ MinterInv /\ ContentInv /\ CachesInv /\ ChunksInv /\ LimitersInv
      /\ AlarmsInv /\ AnalyticsInv /\ NetworkInv /\ ShadowInv
  BY <1>1, PlasmaStart, MinterStart, ContentStart, CachesStart, ChunksStart, LimitersStart,
     AlarmsStart, AnalyticsStart, NetworkStart, ShadowStart
<1>3. /\ PlasmaTypeOK /\ MinterTypeOK /\ ContentTypeOK /\ CachesTypeOK /\ ChunksTypeOK
      /\ LimitersTypeOK /\ AlarmsTypeOK /\ AnalyticsTypeOK /\ NetworkTypeOK /\ ShadowTypeOK
      /\ LedgerTypeOK
  BY <1>2, CachesTyped, ChunksMeaning, AnalyticsMeaning
     DEF PlasmaInv, MinterInv, ContentInv, LimitersInv, AlarmsInv, NetworkInv, ShadowInv
<1>4. BatchTypeOK /\ BatchInv /\ FanOutTypeOK /\ FanOutInv
  BY <1>1, BatchTypeStart, BatchStart, FanOutTypeStart, FanOutStart
<1> QED  BY <1>2, <1>3, <1>4, Zenon DEF RecordsInv

\* What is left alone in a step.
LEMMA OthersRest ==
  ASSUME [Next]_vars
  PROVE  /\ subject # "plasma"    => UNCHANGED plasmaVars
         /\ subject # "minter"    => UNCHANGED minterVars
         /\ subject # "batch"     => UNCHANGED batchVars
         /\ subject # "content"   => UNCHANGED contentVars
         /\ subject # "fanout"    => UNCHANGED fanOutVars
         /\ subject # "caches"    => UNCHANGED cachesVars
         /\ subject # "chunks"    => UNCHANGED chunksVars
         /\ subject # "limits"    => UNCHANGED limiterVars
         /\ subject # "alarms"    => UNCHANGED alarmVars
         /\ subject # "analytics" => UNCHANGED analyticsVars
         /\ subject # "network"   => UNCHANGED networkVars
         /\ subject # "shadow"    => UNCHANGED shadowVars
<1>1. CASE UNCHANGED vars
  <2>1. /\ UNCHANGED <<plasmaVars, minterVars, batchVars, contentVars, fanOutVars>>
        /\ UNCHANGED <<cachesVars, chunksVars, limiterVars, alarmVars>>
        /\ UNCHANGED <<analyticsVars, networkVars, shadowVars>>
    BY <1>1, Zenon DEF vars
  <2> QED  BY <2>1
<1>2. CASE Next
  <2>1. Others
    BY <1>2 DEF Next
  <2> QED  BY <2>1, Zenon DEF Others
<1> QED  BY <1>1, <1>2

LEMMA RecordsStep == RecordsInv /\ [Next]_vars => RecordsInv'
<1> SUFFICES ASSUME RecordsInv, [Next]_vars PROVE RecordsInv'
  OBVIOUS
<1>1. RecordsTypeOK
  BY RecordsMeaning
<1>2. LedgerTypeOK' /\ now \in Nat /\ now' \in Nat /\ now <= now'
  BY <1>1, StorageMoves, LedgerKept DEF RecordsTypeOK
<1>3. IF subject = "plasma" THEN PlasmaInv' ELSE PlasmaTypeOK'
  BY <1>1, SubjectSteps, OthersRest, PlasmaStep, TypesRest DEF RecordsInv, RecordsTypeOK
<1>4. IF subject = "minter" THEN MinterInv' ELSE MinterTypeOK'
  BY <1>1, SubjectSteps, OthersRest, MinterStep, TypesRest DEF RecordsInv, RecordsTypeOK
<1>5. BatchTypeOK' /\ (subject = "batch" => BatchInv')
  BY <1>1, SubjectSteps, OthersRest, BatchStep, BatchTypeKept, TypesRest
     DEF RecordsInv, RecordsTypeOK
<1>6. IF subject = "content" THEN ContentInv' ELSE ContentTypeOK'
  BY <1>1, SubjectSteps, OthersRest, ContentStep, TypesRest DEF RecordsInv, RecordsTypeOK
<1>7. FanOutTypeOK' /\ (subject = "fanout" => FanOutInv')
  BY <1>1, SubjectSteps, OthersRest, FanOutStep, FanOutTypeKept, TypesRest
     DEF RecordsInv, RecordsTypeOK
<1>8. IF subject = "caches" THEN CachesInv' ELSE CachesTypeOK'
  BY <1>1, SubjectSteps, OthersRest, CachesStep, TypesRest DEF RecordsInv, RecordsTypeOK
<1>9. IF subject = "chunks" THEN ChunksInv' ELSE ChunksTypeOK'
  BY <1>1, SubjectSteps, OthersRest, ChunksStep, TypesRest DEF RecordsInv, RecordsTypeOK
<1>10. IF subject = "limits" THEN LimitersInv' ELSE LimitersTypeOK'
  BY <1>1, <1>2, SubjectSteps, OthersRest, LimitersStep, LimitersRest
     DEF RecordsInv, RecordsTypeOK
<1>11. IF subject = "alarms" THEN AlarmsInv' ELSE AlarmsTypeOK'
  BY <1>1, SubjectSteps, OthersRest, AlarmsStep, TypesRest DEF RecordsInv, RecordsTypeOK
<1>12. IF subject = "analytics" THEN AnalyticsInv' ELSE AnalyticsTypeOK'
  BY <1>1, SubjectSteps, OthersRest, AnalyticsStep, TypesRest DEF RecordsInv, RecordsTypeOK
<1>13. IF subject = "network" THEN NetworkInv' ELSE NetworkTypeOK'
  BY <1>1, SubjectSteps, OthersRest, NetworkStep, TypesRest DEF RecordsInv, RecordsTypeOK
<1>14. IF subject = "shadow" THEN ShadowInv' ELSE ShadowTypeOK'
  BY <1>1, SubjectSteps, OthersRest, ShadowStep, TypesRest DEF RecordsInv, RecordsTypeOK
<1>15. subject' = subject
  BY SubjectSteps
<1> QED
  BY <1>2, <1>3, <1>4, <1>5, <1>6, <1>7, <1>8, <1>9, <1>10, <1>11, <1>12, <1>13, <1>14,
     <1>15, Zenon DEF RecordsInv

\* Every module of the records and the monitors stays within its types, its
\* limits and its own counts, whatever it is asked to do: the purses, the
\* cache's sizes, the chunks' checksums, the roadmap's dates, for any constants.
THEOREM RecordsAlwaysTyped == Spec => []RecordsTypeOK
BY RecordsStart, RecordsStep, RecordsMeaning, PTL DEF Spec
=============================================================================
