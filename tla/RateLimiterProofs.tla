------------------------- MODULE RateLimiterProofs -------------------------
(***************************************************************************)
(* Proofs about RateLimiter for any limit, window and delay.                *)
(***************************************************************************)
EXTENDS RateLimiter, FiniteSetTheorems, TLAPS

\* What is counted was sent, and nothing was sent in the future.
SentInv ==
    \A c \in Clients :
        /\ limitKey[c].members \subseteq sent[c]
        /\ admitted[c] \subseteq sent[c]
        /\ \A t \in sent[c] : t <= now

\* Every request admitted within the last WindowMs is still in the sorted set,
\* whatever pipelines and TTLs have removed.
KeptInv ==
    \A c \in Clients : \A t \in admitted[c] :
        /\ t + WindowMs <= limitKey[c].expiresAt
        /\ now < t + WindowMs => t \in limitKey[c].members

LimiterInv == TypeOK /\ SentInv /\ KeptInv /\ WindowBound /\ AbuseEventsAreTrue

\* Sets of timestamps are finite, and no larger than a set that contains them.
LEMMA TimesCardinality ==
    ASSUME NEW S \in SUBSET Times, NEW T, T \subseteq S
    PROVE  /\ IsFiniteSet(T)
           /\ Cardinality(T) \in Nat
           /\ Cardinality(T) <= Cardinality(S)
<1>1. IsFiniteSet(Times)
  BY FS_Interval, RateLimiterAssumption DEF Times
<1>2. IsFiniteSet(S)
  BY <1>1, FS_Subset
<1> QED BY <1>2, FS_Subset, FS_CardinalityType

\* The counted set: well typed, sent by the client, and within the window that
\* ends at nowMs or after it by no more than the delay.
LEMMA Counted ==
    ASSUME LimiterInv, NEW c \in Clients, NEW nowMs \in Readings
    PROVE  /\ WithEntry(c, nowMs) \in SUBSET Times
           /\ Count(c, nowMs) \in Nat
           /\ WithEntry(c, nowMs) \subseteq {t \in sent[c] \cup {nowMs} :
                    nowMs < t + WindowMs /\ t <= nowMs + MaxDelay}
<1> USE RateLimiterAssumption
<1>1. Members(c) \subseteq Times /\ Members(c) \subseteq sent[c]
  BY DEF LimiterInv, TypeOK, SentInv, Members
<1>2. nowMs \in Times /\ nowMs <= now /\ now <= nowMs + MaxDelay
  BY DEF Readings
<1>3. WithEntry(c, nowMs) \in SUBSET Times
  BY <1>1, <1>2 DEF WithEntry, Pruned
<1>4. Count(c, nowMs) \in Nat
  BY <1>3, TimesCardinality DEF Count
<1>5. ASSUME NEW t \in WithEntry(c, nowMs)
      PROVE  t \in sent[c] \cup {nowMs} /\ nowMs < t + WindowMs /\ t <= nowMs + MaxDelay
  <2>1. CASE t = nowMs
    BY <2>1, <1>2 DEF Times
  <2>2. CASE t \in Pruned(c, nowMs)
    BY <2>2, <1>1, <1>2 DEF Pruned, LimiterInv, TypeOK, SentInv, Times
  <2> QED BY <1>5, <2>1, <2>2 DEF WithEntry
<1> QED BY <1>3, <1>4, <1>5

\* Counting a request keeps the types, and what was admitted within WindowMs.
LEMMA EntryAdded ==
    ASSUME LimiterInv, NEW c \in Clients, NEW nowMs \in Readings,
           AddRateLimitEntry(c, nowMs), now' = now,
           admitted' \in [Clients -> SUBSET Times],
           \A d \in Clients : admitted'[d] \subseteq admitted[d] \cup
                                (IF d = c THEN {nowMs} ELSE {})
    PROVE  /\ limitKey' \in [Clients -> [members : SUBSET Times, expiresAt : Nat]]
           /\ sent' \in [Clients -> SUBSET Times]
           /\ \A d \in Clients : sent[d] \subseteq sent'[d]
           /\ SentInv'
           /\ KeptInv'
<1> USE RateLimiterAssumption
<1>1. nowMs \in Times /\ nowMs \in Nat /\ nowMs <= now /\ now \in Nat
  BY DEF Readings, Times, LimiterInv, TypeOK
<1>2. /\ limitKey' = [limitKey EXCEPT ![c] =
            [members |-> WithEntry(c, nowMs), expiresAt |-> now + WindowMs]]
      /\ sent' = [sent EXCEPT ![c] = @ \cup {nowMs}]
  BY DEF AddRateLimitEntry
<1>3. /\ limitKey \in [Clients -> [members : SUBSET Times, expiresAt : Nat]]
      /\ sent \in [Clients -> SUBSET Times]
      /\ admitted \in [Clients -> SUBSET Times]
  BY DEF LimiterInv, TypeOK
<1>4. /\ limitKey' \in [Clients -> [members : SUBSET Times, expiresAt : Nat]]
      /\ sent' \in [Clients -> SUBSET Times]
      /\ \A d \in Clients : sent[d] \subseteq sent'[d]
  BY <1>1, <1>2, <1>3, Counted
<1>5. SentInv'
  <2> SUFFICES ASSUME NEW d \in Clients
               PROVE  /\ limitKey'[d].members \subseteq sent'[d]
                      /\ admitted'[d] \subseteq sent'[d]
                      /\ \A t \in sent'[d] : t <= now'
    BY DEF SentInv
  <2>1. CASE d = c
    BY <2>1, <1>1, <1>2, <1>3, Counted DEF LimiterInv, SentInv
  <2>2. CASE d # c
    BY <2>2, <1>2, <1>3 DEF LimiterInv, SentInv
  <2> QED BY <2>1, <2>2
<1>6. KeptInv'
  <2> SUFFICES ASSUME NEW d \in Clients, NEW t \in admitted'[d]
               PROVE  /\ t + WindowMs <= limitKey'[d].expiresAt
                      /\ now < t + WindowMs => t \in limitKey'[d].members
    BY DEF KeptInv
  <2>1. CASE d # c
    BY <2>1, <1>2, <1>3 DEF LimiterInv, KeptInv
  <2>2. CASE d = c /\ t = nowMs
    BY <2>2, <1>1, <1>2, <1>3 DEF WithEntry
  <2>3. CASE d = c /\ t \in admitted[c]
    <3>1. t \in Nat /\ t <= now
      BY <2>3, <1>3 DEF LimiterInv, SentInv, Times
    <3>2. t + WindowMs <= limitKey'[d].expiresAt
      BY <3>1, <2>3, <1>1, <1>2, <1>3
    <3>3. ASSUME now < t + WindowMs PROVE t \in WithEntry(c, nowMs)
      <4>1. /\ limitKey[c].expiresAt \in Nat
            /\ t + WindowMs <= limitKey[c].expiresAt
            /\ t \in limitKey[c].members
        BY <3>3, <2>3, <1>3 DEF LimiterInv, KeptInv
      <4>2. t \in Members(c)
        BY <4>1, <3>1, <3>3, <1>1 DEF Members
      <4> QED BY <4>2, <3>1, <3>3, <1>1 DEF WithEntry, Pruned
    <3> QED BY <3>2, <3>3, <2>3, <1>2, <1>3
  <2> QED BY <2>1, <2>2, <2>3, <1>3
<1> QED BY <1>4, <1>5, <1>6

\* A request let through by its count: whatever window it falls into, the others
\* admitted to that window were in the set that was counted.
LEMMA AdmissionIsBounded ==
    ASSUME LimiterInv, NEW c \in Clients, NEW nowMs \in Readings, AdmitRequest(c, nowMs)
    PROVE  WindowBound'
<1> USE RateLimiterAssumption
<1> DEFINE InWindow(S, start) == {t \in S : start <= t /\ t + MaxDelay < start + WindowMs}
<1>1. /\ admitted' = [admitted EXCEPT ![c] = @ \cup {nowMs}]
      /\ Count(c, nowMs) < MaxRequests
  BY DEF AdmitRequest
<1>2. admitted \in [Clients -> SUBSET Times]
  BY DEF LimiterInv, TypeOK
<1>3. SUFFICES ASSUME NEW d \in Clients, NEW start \in Times
               PROVE  Cardinality(InWindow(admitted'[d], start)) < MaxRequests
  BY DEF WindowBound
<1>4. Cardinality(InWindow(admitted[d], start)) < MaxRequests
  BY DEF LimiterInv, WindowBound
<1>5. CASE d # c
  BY <1>5, <1>4, <1>1, <1>2
<1>6. CASE d = c /\ nowMs \notin InWindow({nowMs}, start)
  <2>1. InWindow(admitted'[d], start) = InWindow(admitted[d], start)
    BY <1>6, <1>1, <1>2
  <2> QED BY <2>1, <1>4
<1>7. CASE d = c /\ nowMs \in InWindow({nowMs}, start)
  <2>1. nowMs \in Nat /\ nowMs <= now /\ now <= nowMs + MaxDelay /\ now \in Nat
    BY DEF Readings, Times, LimiterInv, TypeOK
  <2>2. start \in Nat /\ start <= nowMs
    BY <1>7 DEF Times
  <2>3. ASSUME NEW t \in InWindow(admitted'[d], start) PROVE t \in WithEntry(c, nowMs)
    <3>1. t \in Nat /\ start <= t /\ t \in admitted[c] \cup {nowMs}
      BY <2>3, <1>1, <1>2, <1>7, <2>1 DEF Times
    <3>2. now < t + WindowMs
      BY <3>1, <2>1, <2>2, <1>7
    <3>3. CASE t \in admitted[c]
      <4>1. /\ t \in limitKey[c].members
            /\ limitKey[c].expiresAt \in Nat
            /\ t + WindowMs <= limitKey[c].expiresAt
        BY <3>2, <3>3 DEF LimiterInv, KeptInv, TypeOK
      <4> QED BY <4>1, <3>1, <3>2, <2>1 DEF WithEntry, Pruned, Members
    <3> QED BY <3>1, <3>3 DEF WithEntry
  <2>4. InWindow(admitted'[d], start) \subseteq WithEntry(c, nowMs)
    BY <2>3
  <2>5. /\ Cardinality(InWindow(admitted'[d], start)) \in Nat
        /\ Cardinality(InWindow(admitted'[d], start)) <= Count(c, nowMs)
    <3> HIDE DEF InWindow
    <3> QED BY <2>4, Counted, TimesCardinality DEF Count
  <2> HIDE DEF InWindow
  <2> QED BY <2>5, <1>1, Counted
<1> QED BY <1>5, <1>6, <1>7

\* More requests sent leave what the abuse events say of the earlier ones true.
LEMMA EventsStayTrue ==
    ASSUME LimiterInv, sent' \in [Clients -> SUBSET Times],
           \A d \in Clients : sent[d] \subseteq sent'[d],
           abuseEvents' \subseteq abuseEvents
    PROVE  AbuseEventsAreTrue'
<1> SUFFICES ASSUME NEW e \in abuseEvents
             PROVE  /\ MaxRequests <= e.requestCount
                    /\ e.requestCount <= Cardinality({t \in sent'[e.sourceIp] :
                        e.windowEnd < t + WindowMs /\ t <= e.windowEnd + MaxDelay})
  BY DEF AbuseEventsAreTrue
<1> DEFINE Before == {t \in sent[e.sourceIp] :
                        e.windowEnd < t + WindowMs /\ t <= e.windowEnd + MaxDelay}
           After == {t \in sent'[e.sourceIp] :
                        e.windowEnd < t + WindowMs /\ t <= e.windowEnd + MaxDelay}
<1>1. e.sourceIp \in Clients /\ e.requestCount \in Nat
  BY DEF LimiterInv, TypeOK, AbuseEvent
<1>2. MaxRequests <= e.requestCount /\ e.requestCount <= Cardinality(Before)
  BY DEF LimiterInv, AbuseEventsAreTrue
<1>3. Before \subseteq After /\ After \in SUBSET Times
  BY <1>1
<1> HIDE DEF Before, After
<1>4. /\ Cardinality(Before) <= Cardinality(After)
      /\ Cardinality(Before) \in Nat /\ Cardinality(After) \in Nat
  BY <1>3, TimesCardinality
<1> QED BY <1>1, <1>2, <1>4 DEF After

\* A rejected request leaves a true abuse event.
LEMMA RejectionsAreTrue ==
    ASSUME LimiterInv, NEW c \in Clients, NEW nowMs \in Readings, RejectRequest(c, nowMs),
           sent' \in [Clients -> SUBSET Times]
    PROVE  AbuseEventsAreTrue' /\ abuseEvents' \subseteq AbuseEvent
<1> USE RateLimiterAssumption
<1> DEFINE new == [sourceIp |-> c, requestCount |-> Count(c, nowMs),
                   windowEnd |-> nowMs, createdAt |-> now]
           Said == {t \in sent'[c] : nowMs < t + WindowMs /\ t <= nowMs + MaxDelay}
<1>1. /\ sent' = [sent EXCEPT ![c] = @ \cup {nowMs}]
      /\ MaxRequests <= Count(c, nowMs)
      /\ abuseEvents' \subseteq abuseEvents \cup {new}
  <2>1. Count(c, nowMs) \in Nat
    BY Counted
  <2> QED BY <2>1 DEF RejectRequest, RecordAbuseEvent, AddRateLimitEntry
<1>2. sent \in [Clients -> SUBSET Times] /\ abuseEvents \subseteq AbuseEvent
  BY DEF LimiterInv, TypeOK
<1>3. new \in AbuseEvent
  BY Counted DEF AbuseEvent, LimiterInv, TypeOK, Readings
<1>4. Count(c, nowMs) <= Cardinality(Said)
  <2>1. WithEntry(c, nowMs) \subseteq Said /\ Said \in SUBSET Times
    BY <1>1, <1>2, Counted
  <2> HIDE DEF Said
  <2> QED BY <2>1, TimesCardinality DEF Count
<1>5. ASSUME NEW e \in abuseEvents
      PROVE  /\ MaxRequests <= e.requestCount
             /\ e.requestCount <= Cardinality({t \in sent'[e.sourceIp] :
                    e.windowEnd < t + WindowMs /\ t <= e.windowEnd + MaxDelay})
  <2> DEFINE Before == {t \in sent[e.sourceIp] :
                        e.windowEnd < t + WindowMs /\ t <= e.windowEnd + MaxDelay}
             After == {t \in sent'[e.sourceIp] :
                        e.windowEnd < t + WindowMs /\ t <= e.windowEnd + MaxDelay}
  <2>1. e.sourceIp \in Clients /\ e.requestCount \in Nat
    BY <1>2 DEF AbuseEvent
  <2>2. MaxRequests <= e.requestCount /\ e.requestCount <= Cardinality(Before)
    BY DEF LimiterInv, AbuseEventsAreTrue
  <2>3. Before \subseteq After /\ After \in SUBSET Times
    BY <2>1, <1>1, <1>2
  <2> HIDE DEF Before, After
  <2>4. /\ Cardinality(Before) <= Cardinality(After)
        /\ Cardinality(Before) \in Nat /\ Cardinality(After) \in Nat
    BY <2>3, TimesCardinality
  <2> QED BY <2>1, <2>2, <2>4 DEF After
<1>6. /\ MaxRequests <= new.requestCount
      /\ new.requestCount <= Cardinality({t \in sent'[new.sourceIp] :
            new.windowEnd < t + WindowMs /\ t <= new.windowEnd + MaxDelay})
  BY <1>1, <1>4
<1> HIDE DEF new, Said
<1>7. AbuseEventsAreTrue'
  BY <1>1, <1>5, <1>6 DEF AbuseEventsAreTrue
<1> QED BY <1>1, <1>2, <1>3, <1>7

\* Every reachable state satisfies LimiterInv.
THEOREM LimiterInvariant == Spec => []LimiterInv
<1> USE RateLimiterAssumption
<1>1. Init => LimiterInv
  <2> SUFFICES ASSUME Init PROVE LimiterInv
    OBVIOUS
  <2>1. TypeOK
    BY DEF Init, TypeOK, Times
  <2>2. SentInv /\ KeptInv
    BY DEF Init, SentInv, KeptInv
  <2>3. WindowBound
    <3> SUFFICES ASSUME NEW c \in Clients, NEW start \in Times
                 PROVE  Cardinality({t \in admitted[c] :
                    start <= t /\ t + MaxDelay < start + WindowMs}) < MaxRequests
      BY DEF WindowBound
    <3>1. {t \in admitted[c] : start <= t /\ t + MaxDelay < start + WindowMs} = {}
      BY DEF Init
    <3> QED BY <3>1, FS_EmptySet
  <2>4. AbuseEventsAreTrue
    BY DEF Init, AbuseEventsAreTrue
  <2> QED BY <2>1, <2>2, <2>3, <2>4 DEF LimiterInv
<1>2. LimiterInv /\ [Next]_limiterVars => LimiterInv'
  <2> SUFFICES ASSUME LimiterInv, [Next]_limiterVars PROVE LimiterInv'
    OBVIOUS
  <2>1. ASSUME NEW c \in Clients, NEW nowMs \in Readings, AdmitRequest(c, nowMs)
        PROVE  LimiterInv'
    <3>1. /\ AddRateLimitEntry(c, nowMs) /\ now' = now /\ abuseEvents' = abuseEvents
          /\ admitted' = [admitted EXCEPT ![c] = @ \cup {nowMs}]
      BY <2>1 DEF AdmitRequest
    <3>2. /\ admitted' \in [Clients -> SUBSET Times]
          /\ \A d \in Clients : admitted'[d] \subseteq admitted[d] \cup
                                (IF d = c THEN {nowMs} ELSE {})
      BY <3>1 DEF LimiterInv, TypeOK, Readings
    <3>3. /\ limitKey' \in [Clients -> [members : SUBSET Times, expiresAt : Nat]]
          /\ sent' \in [Clients -> SUBSET Times]
          /\ \A d \in Clients : sent[d] \subseteq sent'[d]
          /\ SentInv' /\ KeptInv'
      BY <3>1, <3>2, EntryAdded
    <3>4. TypeOK'
      BY <3>1, <3>2, <3>3 DEF LimiterInv, TypeOK
    <3> QED BY <2>1, <3>1, <3>3, <3>4, AdmissionIsBounded, EventsStayTrue DEF LimiterInv
  <2>2. ASSUME NEW c \in Clients, NEW nowMs \in Readings, RejectRequest(c, nowMs)
        PROVE  LimiterInv'
    <3>1. AddRateLimitEntry(c, nowMs) /\ now' = now /\ admitted' = admitted
      BY <2>2 DEF RejectRequest
    <3>2. /\ admitted' \in [Clients -> SUBSET Times]
          /\ \A d \in Clients : admitted'[d] \subseteq admitted[d] \cup
                                (IF d = c THEN {nowMs} ELSE {})
      BY <3>1 DEF LimiterInv, TypeOK
    <3>3. /\ limitKey' \in [Clients -> [members : SUBSET Times, expiresAt : Nat]]
          /\ sent' \in [Clients -> SUBSET Times]
          /\ SentInv' /\ KeptInv'
      BY <3>1, <3>2, EntryAdded
    <3>4. AbuseEventsAreTrue' /\ abuseEvents' \subseteq AbuseEvent
      BY <2>2, <3>3, RejectionsAreTrue
    <3>5. TypeOK'
      BY <3>1, <3>3, <3>4 DEF LimiterInv, TypeOK
    <3>6. WindowBound'
      BY <3>1 DEF LimiterInv, WindowBound
    <3> QED BY <3>3, <3>4, <3>5, <3>6 DEF LimiterInv
  <2>3. ASSUME NEW c \in Clients, NEW nowMs \in Readings, AdmitUncounted(c, nowMs)
        PROVE  LimiterInv'
    <3>1. /\ now' = now /\ admitted' = admitted /\ abuseEvents' = abuseEvents
          /\ AddRateLimitEntry(c, nowMs) \/ UNCHANGED <<limitKey, sent>>
      BY <2>3 DEF AdmitUncounted
    <3>2. /\ admitted' \in [Clients -> SUBSET Times]
          /\ \A d \in Clients : admitted'[d] \subseteq admitted[d] \cup
                                (IF d = c THEN {nowMs} ELSE {})
      BY <3>1 DEF LimiterInv, TypeOK
    <3>3. /\ limitKey' \in [Clients -> [members : SUBSET Times, expiresAt : Nat]]
          /\ sent' \in [Clients -> SUBSET Times]
          /\ \A d \in Clients : sent[d] \subseteq sent'[d]
          /\ SentInv' /\ KeptInv'
      <4>1. CASE AddRateLimitEntry(c, nowMs)
        BY <4>1, <3>1, <3>2, EntryAdded
      <4>2. CASE UNCHANGED <<limitKey, sent>>
        BY <4>2, <3>1 DEF LimiterInv, TypeOK, SentInv, KeptInv
      <4> QED BY <4>1, <4>2, <3>1
    <3>4. TypeOK'
      BY <3>1, <3>2, <3>3 DEF LimiterInv, TypeOK
    <3>5. WindowBound'
      BY <3>1 DEF LimiterInv, WindowBound
    <3> QED BY <3>1, <3>3, <3>4, <3>5, EventsStayTrue DEF LimiterInv
  <2>4. CASE CleanupOldAbuseEvents
    <3>1. /\ UNCHANGED <<now, limitKey, sent, admitted>>
          /\ abuseEvents' \subseteq abuseEvents
      BY <2>4 DEF CleanupOldAbuseEvents
    <3>2. TypeOK' /\ SentInv' /\ KeptInv' /\ WindowBound'
      BY <3>1 DEF LimiterInv, TypeOK, SentInv, KeptInv, WindowBound
    <3>3. sent' \in [Clients -> SUBSET Times] /\ \A d \in Clients : sent[d] \subseteq sent'[d]
      BY <3>1 DEF LimiterInv, TypeOK
    <3> QED BY <3>1, <3>2, <3>3, EventsStayTrue DEF LimiterInv
  <2>5. CASE Tick
    <3>1. /\ UNCHANGED <<limitKey, sent, admitted, abuseEvents>>
          /\ now' \in Times /\ now' = now + 1 /\ now \in Nat
      BY <2>5 DEF Tick, LimiterInv, TypeOK, Times
    <3>2. TypeOK' /\ WindowBound' /\ AbuseEventsAreTrue'
      BY <3>1 DEF LimiterInv, TypeOK, WindowBound, AbuseEventsAreTrue
    <3>3. SentInv'
      BY <3>1 DEF LimiterInv, TypeOK, SentInv, Times
    <3>4. KeptInv'
      BY <3>1 DEF LimiterInv, TypeOK, KeptInv, Times
    <3> QED BY <3>2, <3>3, <3>4 DEF LimiterInv
  <2>6. CASE UNCHANGED limiterVars
    BY <2>6 DEF limiterVars, LimiterInv, TypeOK, SentInv, KeptInv, WindowBound,
                AbuseEventsAreTrue
  <2> QED BY <2>1, <2>2, <2>3, <2>4, <2>5, <2>6 DEF Next, Use
<1> QED BY <1>1, <1>2, PTL DEF Spec

\* No window of a client, shortened by the delay, gets more than the limit,
\* for any limit, window and delay.
THEOREM WindowsAreBounded == Spec => []WindowBound
BY LimiterInvariant, PTL DEF LimiterInv

\* Abuse events accuse the client that sent the requests.
THEOREM AbuseEventsTrue == Spec => []AbuseEventsAreTrue
BY LimiterInvariant, PTL DEF LimiterInv
=============================================================================
