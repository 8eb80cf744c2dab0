-------------------------- MODULE UploadLimitProofs -------------------------
(***************************************************************************)
(* The settings and the token bucket, for every set of texts, uploads,     *)
(* buffer sizes and every resolution of the clock.                         *)
(***************************************************************************)
EXTENDS UploadLimit, TLAPS

-----------------------------------------------------------------------------
(* Arithmetic.                                                             *)

\* A product of naturals is one.
LEMMA ProductNat == \A a, b \in Nat : a * b \in Nat
OBVIOUS

\* A product grows with its first factor.
LEMMA ProductMono ==
    ASSUME NEW a \in Nat, NEW b \in Nat, NEW c \in Nat, a <= b
    PROVE  a * c <= b * c
<1>1. (b - a) * c \in Nat
  BY ProductNat
<1>2. (b - a) * c = b * c - a * c
  OBVIOUS
<1> QED BY <1>1, <1>2

\* Whole bytes never cost more tokens than there are.
LEMMA DivMul ==
    ASSUME NEW a \in Nat, NEW b \in Nat \ {0}
    PROVE  (a \div b) \in Nat /\ (a \div b) * b <= a
OBVIOUS

\* AtMost is the smaller of two numbers.
LEMMA AtMostFacts ==
    ASSUME NEW a \in Int, NEW b \in Int
    PROVE  /\ AtMost(a, b) \in Int
           /\ AtMost(a, b) <= a /\ AtMost(a, b) <= b
           /\ a \in Nat /\ b \in Nat => AtMost(a, b) \in Nat
BY DEF AtMost

\* newRateLimitedReader's burst is positive, and larger for a larger rate.
LEMMA BurstFacts ==
    /\ \A a \in Int : Burst(a) \in Nat
    /\ \A a, b \in Int : a <= b => Burst(a) <= Burst(b)
<1>1. \A a \in Int : Burst(a) \in Nat
  BY DEF Burst, AtMost, MinBurst, MaxBurst
<1>2. ASSUME NEW a \in Int, NEW b \in Int, a <= b PROVE Burst(a) <= Burst(b)
  <2>1. a \div 4 <= b \div 4
    BY <1>2
  <2> QED BY <2>1 DEF Burst, AtMost, MinBurst, MaxBurst
<1> QED BY <1>1, <1>2

\* Under a server limit the effective rate is positive and not above it,
\* whatever the client asked for.
LEMMA EffectiveFacts ==
    ASSUME NEW c \in Int, NEW r \in Int \cup {NoText}
    PROVE  /\ EffectiveUploadRate(c, r) \in Int
           /\ c > 0 => EffectiveUploadRate(c, r) > 0 /\ EffectiveUploadRate(c, r) <= c
BY TextsAssumption DEF EffectiveUploadRate

-----------------------------------------------------------------------------
(* The settings.                                                           *)

SettingsInv == CacheIsStored

LEMMA ParseType == \A k \in Keys, t \in Int : Parse(k, t) \in Int
BY DEF Parse, ParseThroughputLimitMbps, ParseMaxIncrementalChainDepth

LEMMA DefaultLoads == \A k \in Keys : DefaultValue(k) \in Int /\ Valid(k, DefaultValue(k))
BY DEF Keys, DefaultValue, Valid, ValidRate, ValidDepth

LEMMA ChosenType ==
    ASSUME NEW e \in [Keys -> Optional], NEW rows \in [Keys -> Optional], NEW k \in Keys
    PROVE  Chosen(k, e, rows) \in Int
BY TextsAssumption, DefaultLoads DEF Chosen, Optional

\* Every step of the settings keeps their types and the cache right.
LEMMA SettingsStepKeeps ==
    ASSUME SettingsTypeOK, SettingsInv, SettingsNext
    PROVE  SettingsTypeOK' /\ SettingsInv'
<1> USE DEF SettingsTypeOK, SettingsInv, CacheIsStored
<1>1. ASSUME NEW e \in [Keys -> Optional], Start(e) PROVE SettingsTypeOK' /\ SettingsInv'
  BY <1>1, ParseType, ChosenType DEF Start
<1>2. ASSUME NEW k \in Keys, NEW t \in Texts, Set(k, t) PROVE SettingsTypeOK' /\ SettingsInv'
  <2>1. t \in Int /\ t # NoText /\ t \in Optional /\ Parse(k, t) \in Int
    BY TextsAssumption, ParseType DEF Optional
  <2> QED BY <1>2, <2>1 DEF Set, SetAllowed, Chosen
<1>3. ASSUME NEW k \in Keys, NEW t \in Texts, SetUnconfirmed(k, t)
      PROVE  SettingsTypeOK' /\ SettingsInv'
  <2>1. t \in Int /\ t # NoText /\ t \in Optional
    BY TextsAssumption DEF Optional
  <2> QED BY <1>3, <2>1 DEF SetUnconfirmed, SetAllowed, Chosen
<1>4. ASSUME NEW k \in Keys, Reset(k) PROVE SettingsTypeOK' /\ SettingsInv'
  <2>1. NoText \in Optional /\ Parse(k, DefaultValue(k)) \in Int /\ Valid(k, DefaultValue(k))
    BY DefaultLoads, ParseType DEF Optional
  <2> QED BY <1>4, <2>1 DEF Reset, Chosen
<1>5. ASSUME NEW k \in Keys, ResetUnconfirmed(k) PROVE SettingsTypeOK' /\ SettingsInv'
  <2>1. NoText \in Optional /\ Valid(k, DefaultValue(k))
    BY DefaultLoads DEF Optional
  <2> QED BY <1>5, <2>1 DEF ResetUnconfirmed, Chosen
<1>6. ASSUME Stop PROVE SettingsTypeOK' /\ SettingsInv'
  <2>1. up' = FALSE /\ stored' = stored /\ unconfirmed' = {}
        /\ env' = [k \in Keys |-> NoText] /\ current' = [k \in Keys |-> 0]
    BY <1>6 DEF Stop
  <2>2. SettingsTypeOK'
    <3>1. current' \in [Keys -> Int]
      BY <2>1
    <3>2. env' \in [Keys -> Optional]
      BY <2>1 DEF Optional
    <3> QED BY <2>1, <3>1, <3>2
  <2>3. CacheIsStored'
    BY <2>1
  <2> QED BY <2>2, <2>3
<1> QED BY <1>1, <1>2, <1>3, <1>4, <1>5, <1>6 DEF SettingsNext, Administer

-----------------------------------------------------------------------------
(* The token bucket.                                                       *)

Begun(u) == began[u] <= lastRefill[u] /\ lastRefill[u] <= now

RateKnown(u) ==
    /\ pc[u] \in {"limited", "reading"} => rate[u] > 0
    /\ configured[u] > 0 => rate[u] > 0 /\ rate[u] <= configured[u]

NothingYet(u) ==
    /\ pc[u] = "open" => received[u] = 0 /\ want[u] = 0
    /\ pc[u] = "limited" => want[u] = 0

\* What is in the bucket or promised to a read fits the burst.
BucketHolds(u) ==
    configured[u] > 0 =>
        tokens[u] + TicksPerSecond * want[u] <= TicksPerSecond * Burst(rate[u])

\* Bytes read, promised and in the bucket were all there at the beginning or
\* have been refilled since.
Accounted(u) ==
    configured[u] > 0 =>
        TicksPerSecond * received[u] + TicksPerSecond * want[u] + tokens[u]
            <= TicksPerSecond * Burst(rate[u]) + rate[u] * (lastRefill[u] - began[u])

LimitInv(u) == Begun(u) /\ RateKnown(u) /\ NothingYet(u) /\ BucketHolds(u) /\ Accounted(u)

IndInv == TypeOK /\ SettingsInv /\ \A u \in Uploads : LimitInv(u)

SameUpload(v) ==
    /\ now' = now /\ pc'[v] = pc[v] /\ configured'[v] = configured[v] /\ rate'[v] = rate[v]
    /\ tokens'[v] = tokens[v] /\ want'[v] = want[v] /\ lastRefill'[v] = lastRefill[v]
    /\ began'[v] = began[v] /\ received'[v] = received[v]

\* An upload of which nothing changes keeps its invariant.
LEMMA OthersKeep ==
    ASSUME NEW v \in Uploads, LimitInv(v), SameUpload(v)
    PROVE  LimitInv(v)'
BY DEF LimitInv, Begun, RateKnown, NothingYet, BucketHolds, Accounted, SameUpload

\* refill: a natural number of tokens, within the burst, and no more than the
\* time since the last one brings.
LEMMA RefilledFacts ==
    ASSUME TypeOK, NEW u \in Uploads, LimitInv(u), rate[u] > 0
    PROVE  /\ Refilled(u) \in Nat
           /\ Refilled(u) <= TicksPerSecond * Burst(rate[u])
           /\ Refilled(u) <= tokens[u] + rate[u] * (now - lastRefill[u])
<1> DEFINE full == Burst(rate[u]) * TicksPerSecond
           gain == (now - lastRefill[u]) * rate[u]
<1>1. now - lastRefill[u] \in Nat /\ rate[u] \in Nat /\ Burst(rate[u]) \in Nat
      /\ TicksPerSecond \in Nat /\ tokens[u] \in Nat
  BY BurstFacts, LimitAssumption DEF TypeOK, LimitInv, Begun
<1>2. full \in Nat /\ gain \in Nat /\ tokens[u] + gain \in Nat
  BY <1>1, ProductNat
<1>3. full = TicksPerSecond * Burst(rate[u]) /\ gain = rate[u] * (now - lastRefill[u])
  BY <1>1
<1>4. Refilled(u) = AtMost(full, tokens[u] + gain)
  BY DEF Refilled
<1> HIDE DEF full, gain
<1> QED BY <1>2, <1>3, <1>4, AtMostFacts

\* The initial state: no upload has begun.
LEMMA InitEstablishes == Init => IndInv
<1> SUFFICES ASSUME Init PROVE IndInv
  OBVIOUS
<1>1. SettingsTypeOK /\ SettingsInv
  <2>1. up = FALSE /\ unconfirmed = {} /\ env = [k \in Keys |-> NoText]
        /\ stored = [k \in Keys |-> NoText] /\ current = [k \in Keys |-> 0]
    BY DEF Init, SettingsInit
  <2>2. SettingsTypeOK
    <3>1. current \in [Keys -> Int]
      BY <2>1
    <3>2. env \in [Keys -> Optional] /\ stored \in [Keys -> Optional]
      BY <2>1 DEF Optional
    <3> QED BY <2>1, <3>1, <3>2 DEF SettingsTypeOK
  <2>3. CacheIsStored
    BY <2>1 DEF CacheIsStored
  <2> QED BY <2>2, <2>3 DEF SettingsInv
<1>2. TypeOK
  BY <1>1, LimitAssumption DEF Init, TypeOK
<1>3. \A u \in Uploads : LimitInv(u)
  BY DEF Init, LimitInv, Begun, RateKnown, NothingYet, BucketHolds, Accounted
<1> QED BY <1>1, <1>2, <1>3 DEF IndInv

\* The requests of a session before its upload begins, and its end.
LEMMA RequestsKeep ==
    ASSUME IndInv, NEW u \in Uploads,
           (\E t \in Texts : RequestRate(u, t)) \/ Exec(u) \/ ShellRefused(u) \/ Close(u)
    PROVE  IndInv'
<1> USE DEF IndInv, TypeOK
<1>1. UNCHANGED settings /\ now' = now /\ UNCHANGED <<configured, rate, bucket, began, received>>
  BY DEF RequestRate, Exec, ShellRefused, Close
<1>2. SettingsTypeOK' /\ SettingsInv'
  BY <1>1 DEF settings, SettingsTypeOK, SettingsInv, CacheIsStored, Chosen
<1>3. TypeOK'
  <2>1. ASSUME NEW t \in Texts, RequestRate(u, t) PROVE TypeOK'
    <3>1. t \in Int /\ ParseThroughputLimitMbps(t) \in Int /\ ValidRate(t) \in BOOLEAN
      BY TextsAssumption DEF ParseThroughputLimitMbps, ValidRate
    <3>2. bad' \in [Uploads -> BOOLEAN]
      BY <2>1, <3>1 DEF RequestRate
    <3>3. asked' \in [Uploads -> Int \cup {NoText}]
      BY <2>1, <3>1 DEF RequestRate
    <3>4. pc' = pc
      BY <2>1 DEF RequestRate
    <3> QED BY <1>1, <1>2, <3>2, <3>3, <3>4 DEF bucket
  <2>2. ASSUME Exec(u) \/ ShellRefused(u) \/ Close(u) PROVE TypeOK'
    BY <1>1, <1>2, <2>2 DEF Exec, ShellRefused, Close, bucket, options
  <2> QED BY <2>1, <2>2
<1>4. ASSUME NEW v \in Uploads PROVE LimitInv(v)'
  <2>1. pc'[v] = pc[v] \/ pc'[v] \in {"refused", "command", "closed"}
    BY DEF RequestRate, Exec, ShellRefused, Close
  <2> QED BY <1>1, <2>1 DEF bucket, LimitInv, Begun, RateKnown, NothingYet, BucketHolds, Accounted
<1> QED BY <1>2, <1>3, <1>4

\* The shell request fills the bucket of the upload's own rate.
LEMMA ShellKeeps ==
    ASSUME IndInv, NEW u \in Uploads, Shell(u)
    PROVE  IndInv'
<1> USE DEF IndInv, TypeOK
<1> DEFINE r == EffectiveUploadRate(current["rate"], asked[u])
<1>1. UNCHANGED settings /\ now' = now /\ UNCHANGED <<options, want, received>>
  BY DEF Shell
<1>2. SettingsTypeOK' /\ SettingsInv'
  BY <1>1 DEF settings, SettingsTypeOK, SettingsInv, CacheIsStored, Chosen
<1>3. /\ current["rate"] \in Int /\ r \in Int
      /\ current["rate"] > 0 => r > 0 /\ r <= current["rate"]
  BY EffectiveFacts DEF SettingsTypeOK, Keys
<1>4. /\ pc' = [pc EXCEPT ![u] = IF r > 0 THEN "limited" ELSE "free"]
      /\ configured' = [configured EXCEPT ![u] = current["rate"]]
      /\ rate' = [rate EXCEPT ![u] = r]
      /\ tokens' = [tokens EXCEPT ![u] = IF r > 0 THEN Burst(r) * TicksPerSecond ELSE 0]
      /\ lastRefill' = [lastRefill EXCEPT ![u] = now]
      /\ began' = [began EXCEPT ![u] = now]
      /\ pc[u] = "open"
  BY DEF Shell
<1> HIDE DEF r
<1>5. /\ Burst(r) \in Nat /\ TicksPerSecond \in Nat
      /\ Burst(r) * TicksPerSecond \in Nat
      /\ Burst(r) * TicksPerSecond = TicksPerSecond * Burst(r)
  BY <1>3, BurstFacts, LimitAssumption, ProductNat
<1>6. TypeOK'
  BY <1>1, <1>2, <1>3, <1>4, <1>5 DEF options
<1>7. ASSUME NEW v \in Uploads PROVE LimitInv(v)'
  <2>1. CASE v # u
    BY <1>1, <1>4, <2>1, OthersKeep DEF SameUpload
  <2>2. CASE v = u
    <3>1. want[u] = 0 /\ received[u] = 0
      BY <1>4 DEF LimitInv, NothingYet
    <3>2. /\ configured'[u] = current["rate"] /\ rate'[u] = r /\ want'[u] = 0 /\ received'[u] = 0
          /\ lastRefill'[u] = now /\ began'[u] = now
          /\ pc'[u] = IF r > 0 THEN "limited" ELSE "free"
          /\ r > 0 => tokens'[u] = TicksPerSecond * Burst(r)
      BY <1>1, <1>4, <1>5, <3>1
    <3>3. Begun(u)' /\ RateKnown(u)' /\ NothingYet(u)'
      BY <1>1, <1>3, <3>2 DEF Begun, RateKnown, NothingYet
    <3>4. BucketHolds(u)' /\ Accounted(u)'
      <4>1. r * (now - now) = 0 /\ TicksPerSecond * 0 = 0
        BY <1>3, <1>5
      <4>2. r * (lastRefill'[u] - began'[u]) = 0
        BY <3>2, <4>1
      <4> QED BY <1>3, <1>5, <3>2, <4>1, <4>2 DEF BucketHolds, Accounted
    <3> QED BY <2>2, <3>3, <3>4 DEF LimitInv
  <2> QED BY <2>1, <2>2
<1> QED BY <1>2, <1>6, <1>7

\* A read takes the tokens of the bytes it may return before it reads.
LEMMA TakeKeeps ==
    ASSUME IndInv, NEW u \in Uploads, NEW size \in BufferSizes, TakeTokens(u, size)
    PROVE  IndInv'
<1> USE DEF IndInv, TypeOK
<1> DEFINE full == Refilled(u)
           allowed == AtMost(size, full \div TicksPerSecond)
<1>1. UNCHANGED settings /\ now' = now /\ UNCHANGED <<options, configured, rate, began, received>>
  BY DEF TakeTokens
<1>2. SettingsTypeOK' /\ SettingsInv'
  BY <1>1 DEF settings, SettingsTypeOK, SettingsInv, CacheIsStored, Chosen
<1>3. /\ pc[u] = "limited" /\ pc' = [pc EXCEPT ![u] = "reading"]
      /\ tokens' = [tokens EXCEPT ![u] = full - allowed * TicksPerSecond]
      /\ lastRefill' = [lastRefill EXCEPT ![u] = now]
      /\ want' = [want EXCEPT ![u] = allowed]
  BY DEF TakeTokens
<1>4. LimitInv(u) /\ rate[u] > 0
  BY <1>3 DEF LimitInv, RateKnown
<1>5. /\ full \in Nat /\ full <= TicksPerSecond * Burst(rate[u])
      /\ full <= tokens[u] + rate[u] * (now - lastRefill[u])
  BY <1>4, RefilledFacts
<1>6. allowed \in Nat /\ allowed * TicksPerSecond <= full
      /\ allowed * TicksPerSecond \in Nat /\ allowed * TicksPerSecond = TicksPerSecond * allowed
  <2> HIDE DEF full
  <2> DEFINE whole == full \div TicksPerSecond
  <2>1. whole \in Nat /\ whole * TicksPerSecond <= full /\ TicksPerSecond \in Nat
    BY <1>5, DivMul, LimitAssumption
  <2>2. size \in Nat
    BY LimitAssumption
  <2> HIDE DEF whole
  <2>3. allowed = AtMost(size, whole)
    BY DEF whole
  <2> HIDE DEF allowed
  <2>4. allowed \in Nat /\ allowed <= whole
    BY <2>1, <2>2, <2>3, AtMostFacts
  <2>5. allowed * TicksPerSecond <= whole * TicksPerSecond
    BY <2>1, <2>4, ProductMono
  <2>6. allowed * TicksPerSecond \in Nat /\ whole * TicksPerSecond \in Nat
        /\ allowed * TicksPerSecond = TicksPerSecond * allowed
    BY <2>1, <2>4, ProductNat
  <2> QED BY <1>5, <2>1, <2>4, <2>5, <2>6
<1> HIDE DEF full, allowed
<1>7. TypeOK'
  BY <1>1, <1>2, <1>3, <1>5, <1>6 DEF options
<1>8. ASSUME NEW v \in Uploads PROVE LimitInv(v)'
  <2>1. CASE v # u
    BY <1>1, <1>3, <2>1, OthersKeep DEF SameUpload
  <2>2. CASE v = u
    <3>1. /\ want'[u] = allowed /\ tokens'[u] = full - TicksPerSecond * allowed
          /\ lastRefill'[u] = now /\ pc'[u] = "reading"
      BY <1>3, <1>6
    <3>2. Begun(u)' /\ RateKnown(u)' /\ NothingYet(u)'
      BY <1>1, <1>4, <3>1 DEF LimitInv, Begun, RateKnown, NothingYet
    <3>3. BucketHolds(u)'
      <4>1. TicksPerSecond * allowed \in Nat
        BY <1>6
      <4>2. tokens'[u] + TicksPerSecond * want'[u] = full
        BY <1>5, <3>1, <4>1
      <4> QED BY <1>1, <1>5, <4>2 DEF BucketHolds
    <3>4. Accounted(u)'
      <4> DEFINE got == TicksPerSecond * received[u]
                 cap == TicksPerSecond * Burst(rate[u])
                 was == rate[u] * (lastRefill[u] - began[u])
                 new == rate[u] * (now - lastRefill[u])
      <4>1. /\ got \in Nat /\ cap \in Nat /\ TicksPerSecond * allowed \in Nat
            /\ TicksPerSecond * want[u] \in Nat
        BY <1>6, BurstFacts, LimitAssumption, ProductNat
      <4>2. was \in Int /\ new \in Int /\ rate[u] * (now - began[u]) = was + new
        OBVIOUS
      <4>3. configured[u] > 0 => got + TicksPerSecond * want[u] + tokens[u] <= cap + was
        BY <1>4 DEF LimitInv, Accounted
      <4>4. full <= tokens[u] + new
        BY <1>5
      <4> HIDE DEF got, cap, was, new
      <4>5. configured[u] > 0 => got + full <= cap + (was + new)
        BY <1>5, <4>1, <4>2, <4>3, <4>4
      <4>6. configured[u] > 0 =>
              got + TicksPerSecond * allowed + (full - TicksPerSecond * allowed)
                <= cap + rate[u] * (now - began[u])
        BY <1>5, <4>1, <4>2, <4>5
      <4> QED BY <1>1, <3>1, <4>6 DEF Accounted, got, cap
    <3> QED BY <2>2, <3>2, <3>3, <3>4 DEF LimitInv
  <2> QED BY <2>1, <2>2
<1> QED BY <1>2, <1>7, <1>8

\* A read that has to wait keeps the refill.
LEMMA WaitKeeps ==
    ASSUME IndInv, NEW u \in Uploads, WaitForTokens(u)
    PROVE  IndInv'
<1> USE DEF IndInv, TypeOK
<1> DEFINE full == Refilled(u)
<1>1. UNCHANGED settings /\ now' = now
      /\ UNCHANGED <<pc, options, configured, rate, want, began, received>>
  BY DEF WaitForTokens
<1>2. SettingsTypeOK' /\ SettingsInv'
  BY <1>1 DEF settings, SettingsTypeOK, SettingsInv, CacheIsStored, Chosen
<1>3. /\ pc[u] = "limited" /\ Refilled(u) < TicksPerSecond
      /\ tokens' = [tokens EXCEPT ![u] = full]
      /\ lastRefill' = [lastRefill EXCEPT ![u] = now]
  BY DEF WaitForTokens
<1>4. LimitInv(u) /\ rate[u] > 0
  BY <1>3 DEF LimitInv, RateKnown
<1>5. /\ full \in Nat /\ full <= TicksPerSecond * Burst(rate[u])
      /\ full <= tokens[u] + rate[u] * (now - lastRefill[u])
  BY <1>4, RefilledFacts
<1> HIDE DEF full
<1>7. TypeOK'
  BY <1>1, <1>2, <1>3, <1>5 DEF options
<1>8. ASSUME NEW v \in Uploads PROVE LimitInv(v)'
  <2>1. CASE v # u
    BY <1>1, <1>3, <2>1, OthersKeep DEF SameUpload
  <2>2. CASE v = u
    <3>1. tokens'[u] = full /\ lastRefill'[u] = now
      BY <1>3
    <3>2. Begun(u)' /\ RateKnown(u)' /\ NothingYet(u)'
      BY <1>1, <1>4, <3>1 DEF LimitInv, Begun, RateKnown, NothingYet
    <3> DEFINE got == TicksPerSecond * received[u]
               owed == TicksPerSecond * want[u]
               cap == TicksPerSecond * Burst(rate[u])
               was == rate[u] * (lastRefill[u] - began[u])
               new == rate[u] * (now - lastRefill[u])
    <3>3. got \in Nat /\ owed \in Nat /\ cap \in Nat
      BY BurstFacts, LimitAssumption, ProductNat
    <3>4. was \in Int /\ new \in Int /\ rate[u] * (now - began[u]) = was + new
      OBVIOUS
    <3>5. configured[u] > 0 => got + owed + tokens[u] <= cap + was
      BY <1>4 DEF LimitInv, Accounted
    <3>6. full <= tokens[u] + new
      BY <1>5
    <3>7. want[u] = 0
      BY <1>3, <1>4 DEF LimitInv, NothingYet
    <3>8. owed = 0
      BY <3>7, LimitAssumption
    <3>9. BucketHolds(u)'
      BY <1>1, <1>5, <3>1, <3>8 DEF BucketHolds
    <3> HIDE DEF got, owed, cap, was, new
    <3>10. configured[u] > 0 => got + owed + full <= cap + rate[u] * (now - began[u])
      BY <1>5, <3>3, <3>4, <3>5, <3>6
    <3>11. Accounted(u)'
      BY <1>1, <3>1, <3>10 DEF Accounted, got, owed, cap
    <3> QED BY <2>2, <3>2, <3>9, <3>11 DEF LimitInv
  <2> QED BY <2>1, <2>2
<1> QED BY <1>2, <1>7, <1>8

\* A read returns and gives back what it did not use.
LEMMA ReadReturnsKeeps ==
    ASSUME IndInv, NEW u \in Uploads, NEW ready \in Arrivals, ReadReturns(u, ready)
    PROVE  IndInv'
<1> USE DEF IndInv, TypeOK
<1> DEFINE n == AtMost(ready, want[u])
           back == AtMost(Burst(rate[u]) * TicksPerSecond,
                          tokens[u] + (want[u] - n) * TicksPerSecond)
<1>1. UNCHANGED settings /\ now' = now
      /\ UNCHANGED <<options, configured, rate, lastRefill, began>>
  BY DEF ReadReturns
<1>2. SettingsTypeOK' /\ SettingsInv'
  BY <1>1 DEF settings, SettingsTypeOK, SettingsInv, CacheIsStored, Chosen
<1>3. /\ pc[u] = "reading" /\ pc' = [pc EXCEPT ![u] = "limited"]
      /\ received' = [received EXCEPT ![u] = received[u] + n]
      /\ want' = [want EXCEPT ![u] = 0]
      /\ tokens' = [tokens EXCEPT ![u] = IF n < want[u] THEN back ELSE tokens[u]]
  BY DEF ReadReturns
<1>4. LimitInv(u) /\ rate[u] > 0
  BY <1>3 DEF LimitInv, RateKnown
<1>5. n \in Nat /\ n <= want[u] /\ want[u] \in Nat /\ want[u] - n \in Nat
  <2>1. ready \in Nat /\ want[u] \in Nat
    BY LimitAssumption
  <2> QED BY <2>1 DEF AtMost
<1> HIDE DEF n
<1>6. /\ back \in Nat
      /\ back <= TicksPerSecond * Burst(rate[u])
      /\ back <= tokens[u] + (TicksPerSecond * want[u] - TicksPerSecond * n)
  <2> DEFINE cap == Burst(rate[u]) * TicksPerSecond
             rest == (want[u] - n) * TicksPerSecond
  <2>1. Burst(rate[u]) \in Nat /\ TicksPerSecond \in Nat
    BY BurstFacts, LimitAssumption
  <2>2. cap \in Nat /\ rest \in Nat /\ tokens[u] + rest \in Nat
    BY <1>5, <2>1, ProductNat
  <2>3. cap = TicksPerSecond * Burst(rate[u])
        /\ rest = TicksPerSecond * want[u] - TicksPerSecond * n
    BY <1>5, <2>1
  <2>4. back = AtMost(cap, tokens[u] + rest)
    OBVIOUS
  <2> HIDE DEF cap, rest, back
  <2> QED BY <2>2, <2>3, <2>4, AtMostFacts
<1> HIDE DEF back
<1>7. TypeOK'
  BY <1>1, <1>2, <1>3, <1>5, <1>6 DEF options
<1>8. ASSUME NEW v \in Uploads PROVE LimitInv(v)'
  <2>1. CASE v # u
    BY <1>1, <1>3, <2>1, OthersKeep DEF SameUpload
  <2>2. CASE v = u
    <3> DEFINE got == TicksPerSecond * received[u]
               add == TicksPerSecond * n
               owed == TicksPerSecond * want[u]
               cap == TicksPerSecond * Burst(rate[u])
               was == rate[u] * (lastRefill[u] - began[u])
               t == IF n < want[u] THEN back ELSE tokens[u]
    <3>1. tokens'[u] = t /\ want'[u] = 0 /\ received'[u] = received[u] + n /\ pc'[u] = "limited"
      BY <1>3
    <3>2. Begun(u)' /\ RateKnown(u)' /\ NothingYet(u)'
      BY <1>1, <1>4, <3>1 DEF LimitInv, Begun, RateKnown, NothingYet
    <3>3. got \in Nat /\ add \in Nat /\ owed \in Nat /\ cap \in Nat /\ was \in Int
          /\ TicksPerSecond * (received[u] + n) = got + add /\ TicksPerSecond * 0 = 0
      BY <1>5, BurstFacts, LimitAssumption, ProductNat
    <3>4. add <= owed /\ (n >= want[u] => add = owed)
      <4>1. n * TicksPerSecond <= want[u] * TicksPerSecond
        BY <1>5, LimitAssumption, ProductMono
      <4>2. n * TicksPerSecond = add /\ want[u] * TicksPerSecond = owed
        BY <1>5, LimitAssumption
      <4>3. n >= want[u] => n = want[u]
        BY <1>5
      <4> QED BY <4>1, <4>2, <4>3
    <3>5. /\ configured[u] > 0 => got + owed + tokens[u] <= cap + was
          /\ configured[u] > 0 => tokens[u] + owed <= cap
      BY <1>4 DEF LimitInv, Accounted, BucketHolds
    <3>6. back \in Nat /\ back <= cap /\ back <= tokens[u] + (owed - add)
      BY <1>6
    <3> HIDE DEF got, add, owed, cap, was
    <3>7. /\ t \in Nat
          /\ configured[u] > 0 => t <= cap
          /\ configured[u] > 0 => (got + add) + t <= cap + was
      <4>1. CASE n < want[u]
        BY <3>3, <3>5, <3>6, <4>1
      <4>2. CASE n >= want[u]
        BY <1>5, <3>3, <3>4, <3>5, <4>2
      <4> QED BY <1>5, <4>1, <4>2
    <3> HIDE DEF t
    <3>8. BucketHolds(u)'
      BY <1>1, <3>1, <3>3, <3>7 DEF BucketHolds, cap
    <3>9. Accounted(u)'
      BY <1>1, <3>1, <3>3, <3>7 DEF Accounted, cap, was
    <3> QED BY <2>2, <3>2, <3>8, <3>9 DEF LimitInv
  <2> QED BY <2>1, <2>2
<1> QED BY <1>2, <1>7, <1>8

\* Time passes: nothing is owed to the clock.
LEMMA TickKeeps == ASSUME IndInv, Tick PROVE IndInv'
<1> USE DEF IndInv, TypeOK
<1>1. UNCHANGED settings /\ UNCHANGED upload /\ now' = now + 1 /\ now < MaxTime
  BY DEF Tick
<1>2. SettingsTypeOK' /\ SettingsInv'
  BY <1>1 DEF settings, SettingsTypeOK, SettingsInv, CacheIsStored, Chosen
<1>3. TypeOK'
  BY <1>1, <1>2, LimitAssumption DEF upload, options, bucket
<1>4. \A v \in Uploads : LimitInv(v)'
  BY <1>1 DEF upload, bucket, LimitInv, Begun, RateKnown, NothingYet, BucketHolds, Accounted
<1> QED BY <1>2, <1>3, <1>4

\* The settings change, or the process ends.
LEMMA SettingsStepKeepsAll == ASSUME IndInv, SettingsStep PROVE IndInv'
<1> USE DEF IndInv, TypeOK
<1>1. now' = now /\ UNCHANGED <<options, configured, rate, bucket, began, received>>
  BY DEF SettingsStep
<1>2. SettingsTypeOK' /\ SettingsInv'
  BY SettingsStepKeeps DEF SettingsStep
<1>3. pc' \in [Uploads -> {"open", "refused", "command", "free", "limited", "reading", "closed"}]
  BY DEF SettingsStep
<1>4. TypeOK'
  BY <1>1, <1>2, <1>3 DEF options, bucket
<1>5. ASSUME NEW v \in Uploads PROVE LimitInv(v)'
  <2>1. pc'[v] = pc[v] \/ pc'[v] = "closed"
    BY DEF SettingsStep
  <2> QED BY <1>1, <2>1 DEF bucket, LimitInv, Begun, RateKnown, NothingYet, BucketHolds, Accounted
<1> QED BY <1>2, <1>4, <1>5

-----------------------------------------------------------------------------

\* IndInv is inductive.
LEMMA Inductive == IndInv /\ [Next]_vars => IndInv'
<1> SUFFICES ASSUME IndInv, [Next]_vars PROVE IndInv'
  OBVIOUS
<1>1. CASE UNCHANGED vars
  BY <1>1 DEF vars, settings, upload, options, bucket, IndInv, TypeOK, SettingsTypeOK, SettingsInv,
              CacheIsStored, Chosen, LimitInv, Begun, RateKnown, NothingYet,
              BucketHolds, Accounted
<1>2. ASSUME NEW u \in Uploads, Session(u) PROVE IndInv'
  BY <1>2, RequestsKeep, ShellKeeps, TakeKeeps, WaitKeeps, ReadReturnsKeeps DEF Session
<1> QED BY <1>1, <1>2, TickKeeps, SettingsStepKeepsAll DEF Next

\* The accounting gives the limit of the server: a smaller rate has a smaller
\* burst and refills less.
LEMMA AccountingLimits == IndInv => ServerLimitHolds
<1> SUFFICES ASSUME IndInv, NEW u \in Uploads, configured[u] > 0
             PROVE  TicksPerSecond * received[u]
                      <= TicksPerSecond * Burst(configured[u]) + configured[u] * (now - began[u])
  BY DEF ServerLimitHolds
<1> USE DEF IndInv, TypeOK
<1>1. /\ rate[u] \in Nat /\ configured[u] \in Nat /\ rate[u] <= configured[u]
      /\ lastRefill[u] - began[u] \in Nat /\ now - began[u] \in Nat
      /\ lastRefill[u] - began[u] <= now - began[u]
  BY DEF LimitInv, RateKnown, Begun
<1>2. Burst(rate[u]) \in Nat /\ Burst(configured[u]) \in Nat /\ TicksPerSecond \in Nat
      /\ Burst(rate[u]) <= Burst(configured[u])
  BY <1>1, BurstFacts, LimitAssumption
<1> DEFINE small == TicksPerSecond * Burst(rate[u])
           large == TicksPerSecond * Burst(configured[u])
           was == rate[u] * (lastRefill[u] - began[u])
           may == configured[u] * (now - began[u])
<1>3. small \in Nat /\ large \in Nat /\ small <= large
  <2>1. Burst(rate[u]) * TicksPerSecond <= Burst(configured[u]) * TicksPerSecond
    BY <1>2, ProductMono
  <2> QED BY <1>2, <2>1, ProductNat
<1>4. was \in Nat /\ may \in Nat /\ was <= may
  <2> DEFINE short == lastRefill[u] - began[u]
             long == now - began[u]
  <2>1. short \in Nat /\ long \in Nat /\ short <= long
    BY <1>1
  <2>2. was = rate[u] * short /\ may = configured[u] * long
    OBVIOUS
  <2> HIDE DEF short, long
  <2>3. rate[u] * short <= configured[u] * short
    BY <1>1, <2>1, ProductMono
  <2>4. short * configured[u] <= long * configured[u]
    BY <1>1, <2>1, ProductMono
  <2>5. /\ rate[u] * short \in Nat /\ configured[u] * short \in Nat /\ configured[u] * long \in Nat
        /\ short * configured[u] = configured[u] * short
        /\ long * configured[u] = configured[u] * long
    BY <1>1, <2>1, ProductNat
  <2> QED BY <2>2, <2>3, <2>4, <2>5
<1>5. TicksPerSecond * received[u] + TicksPerSecond * want[u] + tokens[u] <= small + was
  BY DEF LimitInv, Accounted
<1>6. TicksPerSecond * received[u] \in Nat /\ TicksPerSecond * want[u] \in Nat /\ tokens[u] \in Nat
  BY <1>2, ProductNat
<1> HIDE DEF small, was
<1> QED BY <1>3, <1>4, <1>5, <1>6

-----------------------------------------------------------------------------
(* The limit over an interval.                                             *)

\* The credit is a number and at most two bursts.
LEMMA CreditBound ==
    ASSUME IndInv, NEW u \in Uploads, configured[u] > 0
    PROVE  /\ Credit(u) \in Nat
           /\ Credit(u) <= 2 * TicksPerSecond * Burst(configured[u])
<1> USE DEF IndInv, TypeOK
<1> DEFINE full == TicksPerSecond * Burst(rate[u])
           large == TicksPerSecond * Burst(configured[u])
           owed == TicksPerSecond * want[u]
<1>1. rate[u] > 0 /\ rate[u] <= configured[u] /\ tokens[u] + owed <= full /\ tokens[u] \in Nat
  BY DEF LimitInv, RateKnown, BucketHolds
<1>2. Refilled(u) \in Nat /\ Refilled(u) <= full
  BY <1>1, RefilledFacts
<1>3. /\ Burst(rate[u]) \in Nat /\ Burst(configured[u]) \in Nat /\ TicksPerSecond \in Nat
      /\ Burst(rate[u]) <= Burst(configured[u])
  BY <1>1, BurstFacts, LimitAssumption
<1>4. full \in Nat /\ large \in Nat /\ full <= large /\ owed \in Nat
  <2>1. Burst(rate[u]) * TicksPerSecond <= Burst(configured[u]) * TicksPerSecond
    BY <1>3, ProductMono
  <2> QED BY <1>3, <2>1, ProductNat
<1>5. 2 * TicksPerSecond * Burst(configured[u]) = 2 * large
  BY <1>3
<1> HIDE DEF full, large
<1> QED BY <1>1, <1>2, <1>4, <1>5 DEF Credit

\* Bytes are paid for, and only the clock adds to the credit.
Pays(u) ==
    TicksPerSecond * (received'[u] - received[u]) + (Credit(u)' - Credit(u))
        <= configured[u] * (now' - now)

\* A step that leaves bucket, bytes and clock alone pays.
LEMMA NothingToPay ==
    ASSUME IndInv, NEW v \in Uploads, configured[v] > 0, now' = now, received'[v] = received[v],
           Credit(v)' = Credit(v)
    PROVE  Pays(v)
<1>1. Credit(v) \in Nat
  BY CreditBound
<1>2. received[v] \in Nat /\ configured[v] \in Int /\ now \in Int /\ TicksPerSecond \in Nat
  BY LimitAssumption DEF IndInv, TypeOK
<1> QED BY <1>1, <1>2 DEF Pays

LEMMA SameCredit ==
    ASSUME NEW v \in Uploads, now' = now, rate'[v] = rate[v], tokens'[v] = tokens[v],
           want'[v] = want[v], lastRefill'[v] = lastRefill[v]
    PROVE  Credit(v)' = Credit(v)
BY DEF Credit, Refilled

\* A refill at this instant changes nothing, and taking tokens moves them to the
\* read.
LEMMA TakePays ==
    ASSUME IndInv, NEW u \in Uploads, configured[u] > 0,
           WaitForTokens(u) \/ \E size \in BufferSizes : TakeTokens(u, size)
    PROVE  Pays(u)
<1> USE DEF IndInv, TypeOK
<1>1. now' = now /\ received' = received /\ rate' = rate
  BY DEF WaitForTokens, TakeTokens
<1>2. LimitInv(u) /\ rate[u] > 0 /\ want[u] = 0
  BY DEF LimitInv, RateKnown, NothingYet, WaitForTokens, TakeTokens
<1>3. IndInv'
  BY TakeKeeps, WaitKeeps
<1>4. /\ tokens'[u] + TicksPerSecond * want'[u] = Refilled(u)
      /\ lastRefill'[u] = now
  <2>1. CASE WaitForTokens(u)
    <3>1. tokens'[u] = Refilled(u) /\ want'[u] = 0 /\ lastRefill'[u] = now
      BY <1>2, <2>1 DEF WaitForTokens
    <3>2. Refilled(u) \in Nat
      BY <1>2, RefilledFacts
    <3> QED BY <3>1, <3>2, LimitAssumption
  <2>2. ASSUME NEW size \in BufferSizes, TakeTokens(u, size)
        PROVE  tokens'[u] + TicksPerSecond * want'[u] = Refilled(u) /\ lastRefill'[u] = now
    <3>1. Refilled(u) \in Nat
      BY <1>2, RefilledFacts
    <3> DEFINE full == Refilled(u)
               allowed == AtMost(size, full \div TicksPerSecond)
    <3>2. want'[u] = allowed /\ tokens'[u] = full - allowed * TicksPerSecond /\ lastRefill'[u] = now
      BY <2>2 DEF TakeTokens
    <3>3. want'[u] \in Nat
      BY <1>3
    <3> HIDE DEF full, allowed
    <3>4. allowed * TicksPerSecond = TicksPerSecond * allowed /\ allowed * TicksPerSecond \in Nat
      BY <3>2, <3>3, LimitAssumption, ProductNat
    <3>5. full \in Nat
      BY <3>1 DEF full
    <3> QED BY <3>2, <3>4, <3>5 DEF full
  <2> QED BY <2>1, <2>2
<1>5. Refilled(u)' <= tokens'[u] /\ Refilled(u)' \in Nat /\ tokens'[u] \in Nat
  <2>1. tokens'[u] \in Nat /\ rate[u] \in Int /\ now \in Int
    BY <1>3
  <2>2. (now' - lastRefill'[u]) * rate'[u] = 0
    BY <1>1, <1>4, <2>1
  <2>3. Refilled(u)' = AtMost(Burst(rate[u]) * TicksPerSecond, tokens'[u] + 0)
    BY <1>1, <2>2 DEF Refilled
  <2>4. Burst(rate[u]) * TicksPerSecond \in Nat
    BY <2>1, BurstFacts, LimitAssumption, ProductNat
  <2> DEFINE cap == Burst(rate[u]) * TicksPerSecond
  <2>5. Refilled(u)' = AtMost(cap, tokens'[u])
    BY <2>1, <2>3
  <2>6. cap \in Nat
    BY <2>4
  <2> HIDE DEF cap
  <2> QED BY <2>1, <2>5, <2>6 DEF AtMost
<1>6. Credit(u) = Refilled(u) /\ Refilled(u) \in Nat
  <2>1. Refilled(u) \in Nat
    BY <1>2, RefilledFacts
  <2> QED BY <1>2, <2>1, LimitAssumption DEF Credit
<1>7. Credit(u)' = TicksPerSecond * want'[u] + Refilled(u)' /\ TicksPerSecond * want'[u] \in Nat
  <2>1. want'[u] \in Nat
    BY <1>3
  <2> QED BY <2>1, LimitAssumption, ProductNat DEF Credit
<1>8. TicksPerSecond * (received'[u] - received[u]) = 0 /\ configured[u] * (now' - now) = 0
  BY <1>1, LimitAssumption
<1> QED BY <1>4, <1>5, <1>6, <1>7, <1>8 DEF Pays

\* What a read returns it has taken, and what it gives back was its own.
LEMMA ReadPays ==
    ASSUME IndInv, NEW u \in Uploads, configured[u] > 0, NEW ready \in Arrivals, ReadReturns(u, ready)
    PROVE  Pays(u)
<1> USE DEF IndInv, TypeOK
<1> DEFINE n == AtMost(ready, want[u])
           cap == Burst(rate[u]) * TicksPerSecond
           rest == (want[u] - n) * TicksPerSecond
           gain == (now - lastRefill[u]) * rate[u]
           add == TicksPerSecond * n
           owed == TicksPerSecond * want[u]
<1>1. /\ now' = now /\ rate' = rate /\ lastRefill' = lastRefill /\ pc[u] = "reading"
      /\ received'[u] = received[u] + n /\ want'[u] = 0
      /\ tokens'[u] = (IF n < want[u] THEN AtMost(cap, tokens[u] + rest) ELSE tokens[u])
  BY DEF ReadReturns
<1>2. LimitInv(u) /\ rate[u] > 0 /\ rate[u] \in Int
  BY <1>1 DEF LimitInv, RateKnown
<1>3. n \in Nat /\ n <= want[u] /\ want[u] \in Nat /\ want[u] - n \in Nat
  <2>1. ready \in Nat /\ want[u] \in Nat
    BY LimitAssumption
  <2> QED BY <2>1 DEF AtMost
<1> HIDE DEF n
<1>4. /\ cap \in Nat /\ rest \in Nat /\ gain \in Int /\ add \in Nat /\ owed \in Nat /\ tokens[u] \in Nat
      /\ rest = owed - add /\ received[u] \in Nat
      /\ TicksPerSecond * (received'[u] - received[u]) = add
      /\ configured[u] * (now' - now) = 0
  <2>1. Burst(rate[u]) \in Nat /\ TicksPerSecond \in Nat
    BY <1>2, BurstFacts, LimitAssumption
  <2>2. cap \in Nat /\ rest \in Nat /\ add \in Nat /\ owed \in Nat
    BY <1>3, <2>1, ProductNat
  <2>3. rest = owed - add
    BY <1>3, <2>1
  <2>4. received'[u] - received[u] = n
    BY <1>1, <1>3
  <2> QED BY <1>1, <1>2, <2>1, <2>2, <2>3, <2>4
<1>5. /\ Credit(u) = owed + AtMost(cap, tokens[u] + gain)
      /\ Credit(u)' = TicksPerSecond * 0 + AtMost(cap, tokens'[u] + gain)
  BY <1>1 DEF Credit, Refilled
<1>6. TicksPerSecond * 0 = 0
  BY LimitAssumption
<1> HIDE DEF cap, rest, gain, add, owed
<1>7. tokens'[u] \in Nat /\ tokens'[u] <= tokens[u] + rest
  <2>1. tokens[u] + rest \in Nat
    BY <1>4
  <2>2. AtMost(cap, tokens[u] + rest) \in Nat /\ AtMost(cap, tokens[u] + rest) <= tokens[u] + rest
    BY <1>4, <2>1 DEF AtMost
  <2> QED BY <1>1, <1>4, <2>2
<1>8. AtMost(cap, tokens'[u] + gain) <= AtMost(cap, tokens[u] + gain) + rest
  BY <1>4, <1>7 DEF AtMost
<1>9. AtMost(cap, tokens'[u] + gain) \in Int /\ AtMost(cap, tokens[u] + gain) \in Int
  BY <1>4, <1>7 DEF AtMost
<1> QED BY <1>4, <1>5, <1>6, <1>8, <1>9 DEF Pays

\* A tick adds at most the rate.
LEMMA TickPays ==
    ASSUME IndInv, NEW u \in Uploads, configured[u] > 0, Tick
    PROVE  Pays(u)
<1> USE DEF IndInv, TypeOK
<1> DEFINE cap == Burst(rate[u]) * TicksPerSecond
           gain == (now - lastRefill[u]) * rate[u]
           owed == TicksPerSecond * want[u]
<1>1. /\ now' = now + 1 /\ rate' = rate /\ lastRefill' = lastRefill /\ want' = want
      /\ tokens' = tokens /\ received' = received
  BY DEF Tick, upload, bucket
<1>2. rate[u] > 0 /\ rate[u] <= configured[u] /\ rate[u] \in Nat /\ configured[u] \in Int
  BY DEF LimitInv, RateKnown
<1>3. cap \in Int /\ gain \in Int /\ owed \in Int /\ tokens[u] \in Nat
  BY <1>2, BurstFacts, LimitAssumption
<1>4. (now' - lastRefill[u]) * rate[u] = gain + rate[u]
  BY <1>1, <1>2
<1>5. /\ Credit(u) = owed + AtMost(cap, tokens[u] + gain)
      /\ Credit(u)' = owed + AtMost(cap, tokens[u] + (gain + rate[u]))
  BY <1>1, <1>4 DEF Credit, Refilled
<1>6. TicksPerSecond * (received'[u] - received[u]) = 0 /\ configured[u] * (now' - now) = configured[u]
  BY <1>1, <1>2, LimitAssumption
<1> HIDE DEF cap, gain, owed
<1>7. AtMost(cap, tokens[u] + (gain + rate[u])) <= AtMost(cap, tokens[u] + gain) + rate[u]
  BY <1>2, <1>3 DEF AtMost
<1>8. AtMost(cap, tokens[u] + (gain + rate[u])) \in Int /\ AtMost(cap, tokens[u] + gain) \in Int
  BY <1>2, <1>3 DEF AtMost
<1> QED BY <1>2, <1>3, <1>5, <1>6, <1>7, <1>8 DEF Pays

\* Every step of an upload that is under way pays, and so do those of the others
\* and of the settings.
LEMMA EveryStepPays ==
    ASSUME IndInv, [Next]_vars, NEW v \in Uploads, configured[v] > 0, pc[v] \in {"limited", "reading"}
    PROVE  Pays(v)
<1>1. CASE UNCHANGED vars
  BY <1>1, NothingToPay, SameCredit DEF vars, upload, bucket
<1>2. CASE SettingsStep
  BY <1>2, NothingToPay, SameCredit DEF SettingsStep, bucket
<1>3. ASSUME NEW u \in Uploads, Session(u) PROVE Pays(v)
  <2>1. CASE u # v
    <3>1. /\ now' = now /\ rate'[v] = rate[v] /\ tokens'[v] = tokens[v] /\ want'[v] = want[v]
          /\ lastRefill'[v] = lastRefill[v] /\ received'[v] = received[v]
      BY <1>3, <2>1 DEF Session, RequestRate, Exec, Shell, ShellRefused, TakeTokens, WaitForTokens,
         ReadReturns, Close, bucket, IndInv, TypeOK
    <3> QED BY <3>1, NothingToPay, SameCredit
  <2>2. CASE u = v
    <3>1. CASE Close(v)
      BY <3>1, NothingToPay, SameCredit DEF Close, bucket
    <3>2. \/ Close(v) \/ WaitForTokens(v) \/ (\E size \in BufferSizes : TakeTokens(v, size))
          \/ \E ready \in Arrivals : ReadReturns(v, ready)
      BY <1>3, <2>2 DEF Session, RequestRate, Exec, Shell, ShellRefused
    <3> QED BY <3>1, <3>2, TakePays, ReadPays
  <2> QED BY <2>1, <2>2
<1> QED BY <1>1, <1>2, <1>3, TickPays DEF Next

-----------------------------------------------------------------------------

\* Every variable of the settings and of the bucket keeps its type; tokens and
\* promised bytes never become negative.
THEOREM LimitTypeCorrect == Spec => []TypeOK
<1>1. IndInv => TypeOK
  BY DEF IndInv
<1> QED BY InitEstablishes, Inductive, <1>1, PTL DEF Spec

\* A restart in the same environment succeeds and loads the cached settings, but
\* for a key whose last write was reported as failed.
THEOREM CacheFollowsStored == Spec => []CacheIsStored
<1>1. IndInv => CacheIsStored
  BY DEF IndInv, SettingsInv
<1> QED BY InitEstablishes, Inductive, <1>1, PTL DEF Spec

\* rateLimitedReader keeps every upload within the burst and the rate of the
\* server, whatever the client asks for and however its reads block.
THEOREM UploadsKeepTheLimit == Spec => []ServerLimitHolds
BY InitEstablishes, Inductive, AccountingLimits, PTL DEF Spec

\* Over any interval the reader hands an upload at most two bursts and the
\* server's rate times the length of the interval, also when a read blocks while
\* the bucket fills.
THEOREM UploadsKeepTheRate == Spec => IntervalLimitHolds
<1>1. IndInv /\ [Next]_vars
        => [\A u \in Uploads : configured[u] > 0 /\ pc[u] \in {"limited", "reading"} =>
              /\ Credit(u) <= 2 * TicksPerSecond * Burst(configured[u])
              /\ TicksPerSecond * (received'[u] - received[u]) + (Credit(u)' - Credit(u))
                   <= configured[u] * (now' - now)]_vars
  BY CreditBound, EveryStepPays DEF Pays
<1> QED BY <1>1, InitEstablishes, Inductive, PTL DEF Spec, IntervalLimitHolds
=============================================================================
