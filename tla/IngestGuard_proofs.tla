------------------------- MODULE IngestGuard_proofs -------------------------
(***************************************************************************)
(* For any number of requests or workers, any lifetimes and any clock: how *)
(* stale an answer may be, and that an opening of the breaker raises one   *)
(* alarm.  No bound of the model is used.                                  *)
(***************************************************************************)
EXTENDS IngestGuard, FiniteSetTheorems, TLAPS

\* A row that is in its table has been seen there just now; one that is not
\* was seen some time ago.
RowSeen ==
    /\ row => lastSeen = minute
    /\ lastSeen <= minute
    /\ lastSeen >= -Bound

\* What a client read was true when it read it, and it is not late yet; and
\* an entry of the cache outlives the row by its bound at most.
AnswersKnown ==
    /\ \A c \in Client : stage[c] = "fill" => since[c] <= minute /\ minute <= since[c] + Delay
    /\ \A c \in Client : stage[c] = "fill" /\ read[c] => since[c] <= lastSeen
    /\ cache.there => cache.until <= lastSeen + Bound

FreshInv == GuardTypeOK /\ RowSeen /\ AnswersKnown

LEMMA BoundPositive == GuardTypeOK => TTL \in Nat \ {0} /\ Bound \in Nat /\ TTL + Delay = Bound
  BY GuardAssumption DEF GuardTypeOK, Bound, TTL

LEMMA InitFresh == GuardInit => FreshInv
<1> SUFFICES ASSUME GuardInit PROVE FreshInv
  OBVIOUS
<1>1. Bound \in Nat
  BY GuardAssumption DEF GuardInit, Bound, TTL
<1>2. GuardTypeOK
  <2>1. lastSeen \in Int /\ cache \in [until: Nat, there: BOOLEAN]
    BY <1>1 DEF GuardInit, Absent
  <2> QED
    BY <2>1 DEF GuardInit, GuardTypeOK, Step
<1>3. RowSeen /\ AnswersKnown
  BY <1>1 DEF GuardInit, RowSeen, AnswersKnown, Absent
<1> QED
  BY <1>2, <1>3 DEF FreshInv

LEMMA StepTyped == GuardTypeOK /\ [GuardNext]_guardVars => GuardTypeOK'
<1> SUFFICES ASSUME GuardTypeOK, [GuardNext]_guardVars PROVE GuardTypeOK'
  OBVIOUS
<1>0. TTL \in Nat /\ Bound \in Nat
  BY BoundPositive
<1> USE GuardAssumption, <1>0
        DEF GuardTypeOK, Step, Absent, Goto, Verdict, cacheVars, breakerVars, limitVars
<1>1. CASE MinutePasses
  BY <1>1 DEF MinutePasses
<1>2. CASE HandleCreateAPIKey \/ HandleRevokeAPIKey \/ KeyExpires
  <2>1. row' \in BOOLEAN /\ purging' \in BOOLEAN
    BY <1>2, Zenon DEF HandleCreateAPIKey, HandleRevokeAPIKey, KeyExpires
  <2> QED
    BY <2>1, <1>2 DEF HandleCreateAPIKey, HandleRevokeAPIKey, KeyExpires
<1>3. CASE HandleMutateSuppressionRules
  <2>1. row' \in BOOLEAN
    BY <1>3, Zenon DEF HandleMutateSuppressionRules
  <2> QED
    BY <2>1, <1>3 DEF HandleMutateSuppressionRules
<1>12. CASE InvalidateCache
  <2>1. Absent \in [until: Nat, there: BOOLEAN] /\ cache \in [until: Nat, there: BOOLEAN]
    OBVIOUS
  <2>2. cache' \in {Absent, cache}
    BY <1>12 DEF InvalidateCache
  <2>3. cache' \in [until: Nat, there: BOOLEAN]
    BY <2>1, <2>2, Zenon
  <2> QED
    BY <2>3, <1>12 DEF InvalidateCache
<1>4. ASSUME NEW c \in Client, Arrive(c) PROVE GuardTypeOK'
  BY <1>4 DEF Arrive
<1>5. ASSUME NEW c \in Client, LookUpKey(c) \/ LoadSuppressionRules(c) PROVE GuardTypeOK'
  <2>1. read' \in [Client -> BOOLEAN]
    BY <1>5 DEF LookUpKey, LoadSuppressionRules
  <2> QED
    BY <2>1, <1>5 DEF LookUpKey, LoadSuppressionRules
<1>6. ASSUME NEW c \in Client, Fill(c) PROVE GuardTypeOK'
  BY <1>6 DEF Fill
<1>7. ASSUME NEW c \in Client, Suppress(c) \/ CheckOpen(c) PROVE GuardTypeOK'
  BY <1>7 DEF Suppress, CheckOpen
<1>11. ASSUME NEW c \in Client, Crash(c) PROVE GuardTypeOK'
  <2>1. read' \in [Client -> BOOLEAN]
    BY <1>11 DEF Crash
  <2> QED
    BY <2>1, <1>11 DEF Crash
<1>8. ASSUME NEW c \in Client, Count(c) \/ Trip(c) PROVE GuardTypeOK'
  BY <1>8 DEF Count, Trip
<1>9. ASSUME NEW c \in Client, RaiseIngestBreakerAlarm(c) \/ RateLimiter(c) PROVE GuardTypeOK'
  BY <1>9 DEF RaiseIngestBreakerAlarm, RateLimiter
<1>10. CASE UNCHANGED guardVars
  BY <1>10 DEF guardVars
<1> QED
  BY <1>1, <1>2, <1>3, <1>4, <1>5, <1>6, <1>7, <1>8, <1>9, <1>10, <1>11, <1>12
  DEF GuardNext

\* Every variable keeps its type.
THEOREM GuardTyping == GuardSpec => []GuardTypeOK
<1>1. GuardInit => GuardTypeOK
  BY InitFresh DEF FreshInv
<1> QED
  BY <1>1, StepTyped, PTL DEF GuardSpec

\* Clients that only move on, among steps other than the fill of a cache,
\* disturb nothing.
LEMMA OthersMove ==
    ASSUME FreshInv, UNCHANGED <<minute, cacheVars, since, read>>,
           \A c \in Client : stage'[c] = "fill" => stage[c] = "fill"
    PROVE  RowSeen' /\ AnswersKnown'
  BY DEF FreshInv, RowSeen, AnswersKnown, cacheVars, Bound, TTL

LEMMA StepFresh == FreshInv /\ [GuardNext]_guardVars => FreshInv'
<1> SUFFICES ASSUME FreshInv, [GuardNext]_guardVars PROVE FreshInv'
  OBVIOUS
<1>0. GuardTypeOK /\ GuardTypeOK'
  BY StepTyped DEF FreshInv
<1> SUFFICES RowSeen' /\ AnswersKnown'
  BY <1>0 DEF FreshInv
<1>a. TTL \in Nat \ {0} /\ Bound \in Nat /\ TTL + Delay = Bound /\ Delay \in Nat
  BY <1>0, BoundPositive, GuardAssumption
<1>b. TTL' = TTL /\ Bound' = Bound
  BY DEF GuardNext, MinutePasses, HandleCreateAPIKey, HandleRevokeAPIKey, KeyExpires,
         HandleMutateSuppressionRules, InvalidateCache, Arrive, LookUpKey, LoadSuppressionRules,
         Fill, Suppress, CheckOpen, Count, Trip, RaiseIngestBreakerAlarm, RateLimiter, Crash,
         guardVars, cacheVars, TTL, Bound
<1> HIDE DEF TTL, Bound
<1>1. CASE MinutePasses
  BY <1>0, <1>1, <1>a, <1>b DEF MinutePasses, FreshInv, RowSeen, AnswersKnown, GuardTypeOK
<1>2. CASE HandleCreateAPIKey \/ HandleRevokeAPIKey \/ KeyExpires
  BY <1>0, <1>2, <1>a, <1>b
     DEF HandleCreateAPIKey, HandleRevokeAPIKey, KeyExpires, FreshInv, RowSeen, AnswersKnown,
         GuardTypeOK
<1>3. CASE HandleMutateSuppressionRules
  BY <1>0, <1>3, <1>a, <1>b
     DEF HandleMutateSuppressionRules, FreshInv, RowSeen, AnswersKnown, GuardTypeOK
<1>4. CASE InvalidateCache
  BY <1>0, <1>4, <1>a, <1>b DEF InvalidateCache, Absent, FreshInv, RowSeen, AnswersKnown,
                                GuardTypeOK
<1>5. ASSUME NEW c \in Client, LookUpKey(c) \/ LoadSuppressionRules(c)
      PROVE  RowSeen' /\ AnswersKnown'
  BY <1>0, <1>5, <1>a, <1>b
     DEF LookUpKey, LoadSuppressionRules, Goto, FreshInv, RowSeen, AnswersKnown, GuardTypeOK,
         cacheVars
<1>6. ASSUME NEW c \in Client, Fill(c) PROVE RowSeen' /\ AnswersKnown'
  <2>1. RowSeen'
    BY <1>6, <1>b DEF Fill, FreshInv, RowSeen
  <2>2. \A d \in Client : stage'[d] = "fill" => d # c /\ UNCHANGED <<since[d], read[d], stage[d]>>
    BY <1>0, <1>6 DEF Fill, Goto, Verdict, GuardTypeOK
  <2>3. cache'.there => cache'.until <= lastSeen' + Bound
    <3>1. CASE cache' = cache
      BY <1>6, <3>1 DEF Fill, FreshInv, AnswersKnown
    <3>2. CASE cache' = [until |-> minute + TTL, there |-> read[c]]
      <4>1. read[c] => minute <= lastSeen + Delay
        BY <1>0, <1>6, <1>a DEF Fill, FreshInv, AnswersKnown, GuardTypeOK
      <4> QED
        BY <4>1, <3>2, <1>0, <1>6, <1>a DEF Fill, GuardTypeOK
    <3> QED
      BY <3>1, <3>2, <1>6 DEF Fill
  <2> QED
    BY <2>1, <2>2, <2>3, <1>6, <1>b DEF Fill, FreshInv, AnswersKnown
<1>7. ASSUME NEW c \in Client, Crash(c) PROVE RowSeen' /\ AnswersKnown'
  BY <1>0, <1>7, <1>a, <1>b DEF Crash, Goto, FreshInv, RowSeen, AnswersKnown, GuardTypeOK,
                                cacheVars
<1>8. ASSUME NEW c \in Client,
             Arrive(c) \/ Suppress(c) \/ CheckOpen(c) \/ Count(c) \/ Trip(c)
               \/ RaiseIngestBreakerAlarm(c) \/ RateLimiter(c)
      PROVE  RowSeen' /\ AnswersKnown'
  <2>1. UNCHANGED <<minute, cacheVars, since, read>>
    BY <1>8 DEF Arrive, Suppress, CheckOpen, Count, Trip, RaiseIngestBreakerAlarm, RateLimiter
  <2>2. \A d \in Client : stage'[d] = "fill" => stage[d] = "fill"
    BY <1>0, <1>8 DEF Arrive, Suppress, CheckOpen, Count, Trip, RaiseIngestBreakerAlarm,
                      RateLimiter, Goto, Verdict, GuardTypeOK
  <2> QED
    BY <2>1, <2>2, OthersMove
<1>9. CASE UNCHANGED guardVars
  BY <1>9, OthersMove DEF guardVars
<1> QED
  BY <1>1, <1>2, <1>3, <1>4, <1>5, <1>6, <1>7, <1>8, <1>9 DEF GuardNext

-----------------------------------------------------------------------------
(* How stale an answer may be.                                             *)

LEMMA InitMaps == GuardInit => Fresh!Init
<1> SUFFICES ASSUME GuardInit PROVE Fresh!Init
  OBVIOUS
<1>1. Bound \in Nat
  BY GuardAssumption DEF GuardInit, Bound, TTL
<1> QED
  BY <1>1 DEF GuardInit, Fresh!Init, Served

\* A client that is served stays served, leaves, or was told just now.
LEMMA ServedMoves ==
    ASSUME NEW c \in Client, NEW s \in Step, GuardTypeOK, stage' = [stage EXCEPT ![c] = s]
    PROVE  Served' = IF s \in {"idle", "lookup", "fill"} THEN Served \ {c} ELSE Served \cup {c}
  BY DEF Served, GuardTypeOK

LEMMA StepMaps == FreshInv /\ [GuardNext]_guardVars => [Fresh!Next]_(Fresh!vars)
<1> SUFFICES ASSUME FreshInv, [GuardNext]_guardVars PROVE [Fresh!Next]_(Fresh!vars)
  OBVIOUS
<1>0. GuardTypeOK
  BY DEF FreshInv
<1>a. TTL \in Nat \ {0} /\ Bound \in Nat /\ TTL + Delay = Bound /\ Delay \in Nat
  BY <1>0, BoundPositive, GuardAssumption
<1>b. Bound' = Bound
  BY DEF GuardNext, MinutePasses, HandleCreateAPIKey, HandleRevokeAPIKey, KeyExpires,
         HandleMutateSuppressionRules, InvalidateCache, Arrive, LookUpKey, LoadSuppressionRules,
         Fill, Suppress, CheckOpen, Count, Trip, RaiseIngestBreakerAlarm, RateLimiter, Crash,
         guardVars, cacheVars, TTL, Bound
<1> DEFINE Same == UNCHANGED <<minute, row, lastSeen>>
<1>c. ASSUME NEW c \in Client, Same, Served' = Served \/ Served' = Served \ {c}
      PROVE  [Fresh!Next]_(Fresh!vars)
  BY <1>b, <1>c DEF Fresh!Next, Fresh!Leave, Fresh!vars
<1>d. ASSUME NEW c \in Client, Same, Served' = Served \cup {c},
             c \in Served \/ minute - lastSeen < Bound
      PROVE  [Fresh!Next]_(Fresh!vars)
  <2>1. CASE c \in Served
    BY <2>1, <1>c, <1>d
  <2>2. CASE minute - lastSeen < Bound
    BY <2>2, <1>b, <1>d DEF Fresh!Next, Fresh!Serve
  <2> QED
    BY <2>1, <2>2, <1>d
<1>1. CASE MinutePasses
  BY <1>1, <1>b DEF MinutePasses, Served, Fresh!Next, Fresh!Tick
<1>2. CASE HandleCreateAPIKey
  BY <1>2, <1>b DEF HandleCreateAPIKey, Served, Fresh!Next, Fresh!Insert
<1>3. CASE HandleRevokeAPIKey
  BY <1>3, <1>b DEF HandleRevokeAPIKey, Served, Fresh!Next, Fresh!Remove
<1>4. CASE KeyExpires
  BY <1>4, <1>b DEF KeyExpires, Served, Fresh!Next, Fresh!Remove
<1>5. CASE HandleMutateSuppressionRules
  <2>1. row => lastSeen = minute
    BY DEF FreshInv, RowSeen
  <2>2. Served' = Served
    BY <1>5 DEF HandleMutateSuppressionRules, Served
  <2> QED
    BY <2>1, <2>2, <1>5, <1>b
       DEF HandleMutateSuppressionRules, Fresh!Next, Fresh!Remove, Fresh!Insert
<1>6. CASE InvalidateCache
  BY <1>6, <1>b DEF InvalidateCache, Served, Fresh!vars
<1>7. ASSUME NEW c \in Client, Arrive(c) PROVE [Fresh!Next]_(Fresh!vars)
  <2>1. CASE Goto(c, "lookup")
    BY <2>1, <1>0, <1>7, <1>c, ServedMoves DEF Arrive, Goto, Step, cacheVars
  <2>2. CASE minute < cache.until /\ Goto(c, Verdict(cache.there))
    <3>1. CASE ~cache.there
      BY <3>1, <2>2, <1>0, <1>7, <1>c, ServedMoves DEF Arrive, Goto, Verdict, Step, cacheVars
    <3>2. CASE cache.there
      <4>1. minute - lastSeen < Bound
        BY <3>2, <2>2, <1>0, <1>a DEF FreshInv, AnswersKnown, GuardTypeOK
      <4>2. Verdict(cache.there) \in {"breaker", "drop"}
        BY <3>2, <1>0 DEF Verdict, GuardTypeOK
      <4>3. Served' = Served \cup {c}
        BY <4>2, <2>2, <1>0, ServedMoves DEF Goto, Step
      <4> QED
        BY <4>1, <4>3, <1>7, <1>d DEF Arrive, cacheVars
    <3> QED
      BY <3>1, <3>2
  <2> QED
    BY <2>1, <2>2, <1>7 DEF Arrive
<1>8. ASSUME NEW c \in Client, LookUpKey(c) \/ LoadSuppressionRules(c)
      PROVE  [Fresh!Next]_(Fresh!vars)
  BY <1>0, <1>8, <1>c, ServedMoves DEF LookUpKey, LoadSuppressionRules, Goto, Step, cacheVars
<1>9. ASSUME NEW c \in Client, Fill(c) PROVE [Fresh!Next]_(Fresh!vars)
  <2>1. CASE ~read[c]
    BY <2>1, <1>0, <1>9, <1>c, ServedMoves DEF Fill, Goto, Verdict, Step
  <2>2. CASE read[c]
    <3>1. minute - lastSeen < Bound
      BY <2>2, <1>0, <1>9, <1>a DEF Fill, FreshInv, RowSeen, AnswersKnown, GuardTypeOK
    <3>2. Verdict(read[c]) \in {"breaker", "drop"}
      BY <2>2, <1>0 DEF Verdict, GuardTypeOK
    <3>3. Served' = Served \cup {c}
      BY <3>2, <1>0, <1>9, ServedMoves DEF Fill, Goto, Step
    <3> QED
      BY <3>1, <3>3, <1>9, <1>d DEF Fill
  <2> QED
    BY <2>1, <2>2
<1>10. ASSUME NEW c \in Client,
              Suppress(c) \/ RaiseIngestBreakerAlarm(c) \/ RateLimiter(c) \/ Crash(c)
       PROVE  [Fresh!Next]_(Fresh!vars)
  BY <1>0, <1>10, <1>c, ServedMoves
     DEF Suppress, RaiseIngestBreakerAlarm, RateLimiter, Crash, Goto, Step, cacheVars
<1>11. ASSUME NEW c \in Client, CheckOpen(c) \/ Count(c) \/ Trip(c)
       PROVE  [Fresh!Next]_(Fresh!vars)
  <2>1. c \in Served
    BY <1>11 DEF CheckOpen, Count, Trip, Served
  <2>2. PICK s \in Step : stage' = [stage EXCEPT ![c] = s]
    BY <1>11 DEF CheckOpen, Count, Trip, Goto, Step
  <2>3. Served \cup {c} = Served
    BY <2>1
  <2>4. Served' = Served \/ Served' = Served \ {c}
    BY <2>2, <2>3, <1>0, ServedMoves
  <2> QED
    BY <2>4, <1>11, <1>c DEF CheckOpen, Count, Trip, cacheVars
<1>12. CASE UNCHANGED guardVars
  BY <1>12, <1>b DEF guardVars, cacheVars, Served, Fresh!vars
<1> QED
  BY <1>1, <1>2, <1>3, <1>4, <1>5, <1>6, <1>7, <1>8, <1>9, <1>10, <1>11, <1>12 DEF GuardNext

\* An answer given from a cache, of API keys or of suppression rules, was true
\* of the table less than the lifetime of an entry and the delay of a lookup
\* ago: whatever races with a revocation, and whether or not the DEL arrives.
THEOREM Staleness == GuardSpec => ImplementsFreshness
<1>1. GuardSpec => []FreshInv
  BY InitFresh, StepFresh, PTL DEF GuardSpec
<1> QED
  BY <1>1, InitMaps, StepMaps, PTL DEF GuardSpec, ImplementsFreshness, Fresh!Spec

-----------------------------------------------------------------------------
(* One alarm per opening.                                                  *)

\* The requests that are to raise the alarm.
Alarming == {c \in Client : stage[c] = "alarm"}

LEMMA AlarmingFinite == IsFiniteSet(Alarming) /\ Cardinality(Alarming) \in Nat
  BY GuardAssumption, FS_Subset, FS_CardinalityType DEF Alarming

\* One more is to raise it.
LEMMA AlarmingJoins ==
    ASSUME NEW c \in Client, GuardTypeOK, stage[c] # "alarm",
           stage' = [stage EXCEPT ![c] = "alarm"]
    PROVE  Cardinality(Alarming') = Cardinality(Alarming) + 1
<1>1. Alarming' = Alarming \cup {c} /\ c \notin Alarming
  BY DEF Alarming, GuardTypeOK
<1> QED
  BY <1>1, AlarmingFinite, FS_AddElement

\* One of them goes on, or somebody else.
LEMMA AlarmingLeaves ==
    ASSUME NEW c \in Client, NEW s \in Step \ {"alarm"}, GuardTypeOK,
           stage' = [stage EXCEPT ![c] = s]
    PROVE  /\ stage[c] = "alarm" => Cardinality(Alarming') = Cardinality(Alarming) - 1
           /\ stage[c] # "alarm" => Cardinality(Alarming') = Cardinality(Alarming)
<1>1. Alarming' = Alarming \ {c} /\ (c \in Alarming <=> stage[c] = "alarm")
  BY DEF Alarming, GuardTypeOK
<1> QED
  BY <1>1, AlarmingFinite, FS_RemoveElement

AlarmInv == GuardTypeOK /\ OneAlarmPerOpening

LEMMA InitAlarm == GuardInit => AlarmInv
<1> SUFFICES ASSUME GuardInit PROVE AlarmInv
  OBVIOUS
<1>1. GuardTypeOK
  BY InitFresh DEF FreshInv
<1>2. {c \in Client : stage[c] = "alarm"} = {}
  BY DEF GuardInit
<1> QED
  BY <1>1, <1>2, FS_EmptySet DEF AlarmInv, OneAlarmPerOpening, GuardInit

LEMMA StepAlarm == AlarmInv /\ [GuardNext]_guardVars => AlarmInv'
<1> SUFFICES ASSUME AlarmInv, [GuardNext]_guardVars PROVE AlarmInv'
  OBVIOUS
<1>0. /\ GuardTypeOK /\ GuardTypeOK' /\ Cardinality(Alarming) \in Nat
      /\ alarms + Cardinality(Alarming) <= trips
  BY StepTyped, AlarmingFinite DEF AlarmInv, OneAlarmPerOpening, Alarming
<1> SUFFICES alarms' + Cardinality(Alarming') <= trips'
  BY <1>0 DEF AlarmInv, OneAlarmPerOpening, Alarming
<1>1. CASE UNCHANGED <<stage, alarms, trips>>
  BY <1>0, <1>1 DEF Alarming
<1>2. ASSUME NEW c \in Client, NEW s \in Step \ {"alarm"}, stage' = [stage EXCEPT ![c] = s],
             UNCHANGED <<alarms, trips>>
      PROVE  alarms' + Cardinality(Alarming') <= trips'
  <2>1. Cardinality(Alarming') \in {Cardinality(Alarming), Cardinality(Alarming) - 1}
    BY <1>0, <1>2, AlarmingLeaves
  <2> QED
    BY <2>1, <1>0, <1>2 DEF GuardTypeOK
<1>3. ASSUME NEW c \in Client, Trip(c) PROVE alarms' + Cardinality(Alarming') <= trips'
  <2>1. CASE Goto(c, "alarm") /\ trips' = trips + 1
    <3>1. Cardinality(Alarming') = Cardinality(Alarming) + 1
      BY <2>1, <1>0, <1>3, AlarmingJoins DEF Trip, Goto
    <3> QED
      BY <3>1, <2>1, <1>0, <1>3 DEF Trip, GuardTypeOK
  <2>2. CASE Goto(c, "idle") /\ trips' = trips
    BY <2>2, <1>2, <1>3 DEF Trip, Goto, Step
  <2> QED
    BY <2>1, <2>2, <1>3 DEF Trip
<1>4. ASSUME NEW c \in Client, RaiseIngestBreakerAlarm(c)
      PROVE  alarms' + Cardinality(Alarming') <= trips'
  <2>1. Cardinality(Alarming') = Cardinality(Alarming) - 1
    BY <1>0, <1>4, AlarmingLeaves DEF RaiseIngestBreakerAlarm, Goto, Step
  <2>2. alarms' \in {alarms, alarms + 1} /\ trips' = trips
    BY <1>4 DEF RaiseIngestBreakerAlarm
  <2> QED
    BY <2>1, <2>2, <1>0 DEF GuardTypeOK
<1>5. CASE MinutePasses \/ HandleCreateAPIKey \/ HandleRevokeAPIKey \/ KeyExpires
             \/ HandleMutateSuppressionRules \/ InvalidateCache \/ UNCHANGED guardVars
  BY <1>1, <1>5
     DEF MinutePasses, HandleCreateAPIKey, HandleRevokeAPIKey, KeyExpires,
         HandleMutateSuppressionRules,
         InvalidateCache, guardVars, breakerVars
<1>6. ASSUME NEW c \in Client,
             Arrive(c) \/ LookUpKey(c) \/ LoadSuppressionRules(c) \/ Fill(c) \/ Suppress(c)
               \/ CheckOpen(c) \/ Count(c) \/ RateLimiter(c) \/ Crash(c)
      PROVE  alarms' + Cardinality(Alarming') <= trips'
  <2>1. UNCHANGED <<alarms, trips>>
    BY <1>6 DEF Arrive, LookUpKey, LoadSuppressionRules, Fill, Suppress, CheckOpen, Count,
                RateLimiter, Crash, breakerVars
  <2>2. \E s \in Step \ {"alarm"} : stage' = [stage EXCEPT ![c] = s]
    BY <1>0, <1>6 DEF Arrive, LookUpKey, LoadSuppressionRules, Fill, Suppress, CheckOpen, Count,
                      RateLimiter, Crash, Goto, Verdict, Step, GuardTypeOK
  <2> QED
    BY <2>1, <2>2, <1>2
<1> QED
  BY <1>3, <1>4, <1>5, <1>6 DEF GuardNext

\* However many requests pass the threshold together, through any number of
\* openings, each opening of the breaker raises one alarm at most.
THEOREM OneAlarm == GuardSpec => []OneAlarmPerOpening
  BY InitAlarm, StepAlarm, PTL DEF GuardSpec, AlarmInv
=============================================================================
