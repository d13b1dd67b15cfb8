--------------------------- MODULE SeatMapProofs ---------------------------
(***************************************************************************)
(* Proofs about SeatMap for any TTL, any fill time and any requests.        *)
(***************************************************************************)
EXTENDS SeatMap, TLAPS

\* A map read from the table was current when it was read, and if it no longer
\* is, an invalidation is on its way, was lost or has come already.
IsTrue(map) ==
    /\ map.version <= version
    /\ map.readAt <= now
    /\ map.version < version =>
        /\ map.readAt <= replacedAt[map.version]
        /\ invalidating > 0 \/ missed \/ map.overtaken

SeatMapInv ==
    /\ TypeOK
    /\ invalidating <= version
    /\ \A v \in Visits : At(v, "store") =>
        IsTrue(visit[v].map) /\ now <= visit[v].map.readAt + MaxFill
    /\ IsCached =>
        IsTrue(cache.map) /\ cache.expiresAt <= cache.map.readAt + MaxFill + CacheTtl
    /\ answer.version <= version /\ answer.at <= now
    /\ AnswersAreRecent

\* An answer from a true map that is not too old.
LEMMA Answers ==
    ASSUME SeatMapInv, NEW v \in Visits, NEW map \in Map, IsTrue(map),
           now <= map.readAt + MaxFill + CacheTtl, Respond(v, map),
           UNCHANGED <<now, tableVars, writerVars>>,
           \/ UNCHANGED cache
           \/ cache' = [map |-> map, expiresAt |-> now + CacheTtl]
              /\ now <= map.readAt + MaxFill
    PROVE  SeatMapInv'
<1> USE SeatMapAssumption DEF tableVars, writerVars
<1>1. map.version \in Versions /\ map.readAt \in Nat /\ map.overtaken \in BOOLEAN
  BY DEF Map, Times
<1>2. /\ now \in Times /\ now \in Nat /\ version \in Nat /\ cache \in [map : Map, expiresAt : Nat]
      /\ visit \in [Visits -> [pc : {"idle", "getCache", "query", "store"}, map : Map]]
      /\ replacedAt \in [Versions -> Times]
  BY DEF SeatMapInv, TypeOK, Times, Versions
<1>3. NoMap \in Map
  BY DEF NoMap, Map, Versions, Times
<1>4. /\ visit' = [visit EXCEPT ![v] = [pc |-> "idle", map |-> NoMap]]
      /\ answer' = [version |-> map.version, at |-> now]
      /\ now' = now /\ version' = version /\ replacedAt' = replacedAt
      /\ invalidating' = invalidating /\ missed' = missed
  BY DEF Respond
<1>5. \A m : IsTrue(m)' <=> IsTrue(m)
  BY <1>4 DEF IsTrue
<1>6. cache' \in [map : Map, expiresAt : Nat]
  BY <1>2
<1>7. TypeOK'
  BY <1>1, <1>2, <1>3, <1>4, <1>6 DEF SeatMapInv, TypeOK
<1>8. \A w \in Visits : At(w, "store")' =>
        At(w, "store") /\ visit'[w].map = visit[w].map
  BY <1>2, <1>4 DEF At
<1>9. \A w \in Visits : At(w, "store")' =>
        IsTrue(visit[w].map)' /\ now' <= visit'[w].map.readAt + MaxFill
  BY <1>4, <1>5, <1>8 DEF SeatMapInv, IsTrue
<1>10. IsCached' =>
        IsTrue(cache.map)' /\ cache'.expiresAt <= cache'.map.readAt + MaxFill + CacheTtl
  <2>1. CASE UNCHANGED cache
    BY <2>1, <1>4 DEF SeatMapInv, IsCached, IsTrue
  <2>2. CASE /\ cache' = [map |-> map, expiresAt |-> now + CacheTtl]
             /\ now <= map.readAt + MaxFill
    BY <2>2, <1>1, <1>2, <1>4 DEF IsTrue
  <2> QED BY <2>1, <2>2
<1>11. AnswersAreRecent' /\ answer'.version <= version' /\ answer'.at <= now'
  <2>1. answer'.version = map.version /\ answer'.at = now
    BY <1>4
  <2>2. map.version < version => replacedAt[map.version] \in Nat
    BY <1>1, <1>2 DEF Times
  <2> QED BY <2>1, <2>2, <1>1, <1>2, <1>4 DEF AnswersAreRecent, IsTrue
<1> QED BY <1>4, <1>7, <1>9, <1>10, <1>11 DEF SeatMapInv

\* The steps of one request.
LEMMA VisitSteps ==
    ASSUME SeatMapInv, NEW v \in Visits, RequestSeatMap(v) \/ VisitProceeds(v)
    PROVE  SeatMapInv'
<1> USE SeatMapAssumption
<1> USE DEF tableVars, writerVars
<1>1. /\ now \in Times /\ now \in Nat /\ version \in Versions /\ cache \in [map : Map, expiresAt : Nat]
      /\ visit \in [Visits -> [pc : {"idle", "getCache", "query", "store"}, map : Map]]
      /\ replacedAt \in [Versions -> Times]
      /\ version \in Nat
  BY DEF SeatMapInv, TypeOK, Times, Versions
<1>2. NoMap \in Map
  BY DEF NoMap, Map, Versions, Times
<1>3. CASE CacheHit(v)
  <2>1. /\ cache.map \in Map /\ cache.map.readAt \in Nat /\ cache.expiresAt \in Nat
        /\ IsTrue(cache.map) /\ now < cache.expiresAt
        /\ cache.expiresAt <= cache.map.readAt + MaxFill + CacheTtl
    BY <1>1, <1>3 DEF SeatMapInv, IsCached, CacheHit, Map, Times
  <2>2. now <= cache.map.readAt + MaxFill + CacheTtl
    BY <2>1, <1>1
  <2> QED BY <2>1, <2>2, <1>3, Answers DEF CacheHit
<1>4. CASE StoreSeatMap(v)
  <2>1. /\ visit[v].map \in Map /\ visit[v].map.readAt \in Nat /\ IsTrue(visit[v].map)
        /\ now <= visit[v].map.readAt + MaxFill
    BY <1>1, <1>4 DEF SeatMapInv, StoreSeatMap, Map, Times
  <2>2. now <= visit[v].map.readAt + MaxFill + CacheTtl
    BY <2>1, <1>1
  <2> QED BY <2>1, <2>2, <1>4, Answers DEF StoreSeatMap
<1>5. CASE QuerySeats(v)
  <2> DEFINE read == [version |-> version, readAt |-> now, overtaken |-> FALSE]
  <2>1. /\ visit' = [visit EXCEPT ![v] = [pc |-> "store", map |-> read]]
        /\ UNCHANGED <<now, cache, version, replacedAt, invalidating, missed, answer>>
    BY <1>5 DEF QuerySeats
  <2>2. read \in Map /\ IsTrue(read) /\ now <= read.readAt + MaxFill
    BY <1>1 DEF Map, IsTrue
  <2>3. TypeOK'
    BY <2>1, <2>2, <1>1 DEF SeatMapInv, TypeOK
  <2>4. \A w \in Visits : At(w, "store")' =>
            \/ w = v /\ visit'[w].map = read
            \/ At(w, "store") /\ visit'[w].map = visit[w].map
    BY <2>1, <1>1 DEF At
  <2> HIDE DEF read
  <2>5. \A w \in Visits : At(w, "store")' =>
            IsTrue(visit[w].map)' /\ now' <= visit'[w].map.readAt + MaxFill
    BY <2>1, <2>2, <2>4 DEF SeatMapInv, IsTrue
  <2> QED BY <2>1, <2>3, <2>5 DEF SeatMapInv, IsTrue, IsCached, AnswersAreRecent
<1>6. CASE RequestSeatMap(v) \/ CacheMiss(v) \/ VisitFails(v)
  <2>1. UNCHANGED <<now, cache, version, replacedAt, invalidating, missed, answer>>
    BY <1>6 DEF RequestSeatMap, CacheMiss, VisitFails
  <2>2. TypeOK'
    BY <2>1, <1>1, <1>2, <1>6
      DEF SeatMapInv, TypeOK, RequestSeatMap, CacheMiss, VisitFails, Goto
  <2>3. \A w \in Visits : At(w, "store")' =>
            At(w, "store") /\ visit'[w].map = visit[w].map
    BY <1>1, <1>6 DEF RequestSeatMap, CacheMiss, VisitFails, Goto, At
  <2> QED BY <2>1, <2>2, <2>3 DEF SeatMapInv, IsTrue, IsCached, AnswersAreRecent
<1> QED BY <1>3, <1>4, <1>5, <1>6 DEF VisitProceeds

\* A commit replaces the version every map was read at until now.
LEMMA CommitSteps ==
    ASSUME SeatMapInv, CommitSeatChange
    PROVE  SeatMapInv'
<1> USE SeatMapAssumption
<1>1. /\ now \in Times /\ now \in Nat /\ version \in Versions /\ cache \in [map : Map, expiresAt : Nat]
      /\ visit \in [Visits -> [pc : {"idle", "getCache", "query", "store"}, map : Map]]
      /\ replacedAt \in [Versions -> Times] /\ invalidating \in Nat
      /\ answer \in [version : Versions, at : Times]
  BY DEF SeatMapInv, TypeOK, Times, Versions
<1>2. /\ version < MaxVersion /\ version' = version + 1
      /\ replacedAt' = [replacedAt EXCEPT ![version] = now]
      /\ invalidating' = invalidating + 1
      /\ UNCHANGED <<now, visit, cache, missed, answer>>
  BY DEF CommitSeatChange
<1>3. version' \in Versions /\ invalidating' \in Versions /\ invalidating' <= version'
  BY <1>1, <1>2 DEF SeatMapInv, Versions
<1>4. TypeOK'
  BY <1>1, <1>2, <1>3 DEF SeatMapInv, TypeOK
<1>5. ASSUME NEW m \in Map, IsTrue(m) PROVE IsTrue(m)'
  <2>1. m.version \in Versions /\ m.version \in Nat /\ m.readAt \in Nat
    BY DEF Map, Versions, Times
  <2>2. m.readAt <= replacedAt'[m.version]
    BY <2>1, <1>1, <1>2, <1>5 DEF IsTrue, Versions
  <2> QED BY <2>1, <2>2, <1>1, <1>2, <1>5 DEF IsTrue, Versions
<1>6. \A w \in Visits : At(w, "store")' =>
        IsTrue(visit[w].map)' /\ now' <= visit'[w].map.readAt + MaxFill
  <2> SUFFICES ASSUME NEW w \in Visits, At(w, "store")
               PROVE  IsTrue(visit[w].map)' /\ now <= visit[w].map.readAt + MaxFill
    BY <1>2 DEF At
  <2>1. IsTrue(visit[w].map) /\ visit[w].map \in Map
    BY <1>1 DEF SeatMapInv
  <2>2. now <= visit[w].map.readAt + MaxFill
    BY DEF SeatMapInv
  <2> QED BY <2>1, <2>2, <1>2, <1>5 DEF IsTrue
<1>7. IsCached' =>
        IsTrue(cache.map)' /\ cache'.expiresAt <= cache'.map.readAt + MaxFill + CacheTtl
  <2> SUFFICES ASSUME IsCached
               PROVE  /\ IsTrue(cache.map)'
                      /\ cache.expiresAt <= cache.map.readAt + MaxFill + CacheTtl
    BY <1>2 DEF IsCached
  <2>1. IsTrue(cache.map) /\ cache.map \in Map
    BY <1>1 DEF SeatMapInv
  <2> QED BY <2>1, <1>2, <1>5 DEF SeatMapInv, IsTrue
<1>8. AnswersAreRecent' /\ answer'.version <= version' /\ answer'.at <= now'
  <2>1. answer.version \in Versions /\ answer.version \in Nat /\ answer.at \in Nat
    BY <1>1 DEF Versions, Times
  <2>2. answer.at <= replacedAt'[answer.version] + MaxFill + CacheTtl
    BY <2>1, <1>1, <1>2 DEF SeatMapInv, AnswersAreRecent, Versions
  <2> QED BY <2>1, <2>2, <1>1, <1>2 DEF SeatMapInv, AnswersAreRecent, Versions
<1> QED BY <1>3, <1>4, <1>6, <1>7, <1>8 DEF SeatMapInv

\* An invalidation, done or lost.
LEMMA InvalidationSteps ==
    ASSUME SeatMapInv, InvalidateCache \/ LoseInvalidation
    PROVE  SeatMapInv'
<1> USE SeatMapAssumption
<1>1. /\ now \in Times /\ now \in Nat /\ version \in Versions /\ cache \in [map : Map, expiresAt : Nat]
      /\ visit \in [Visits -> [pc : {"idle", "getCache", "query", "store"}, map : Map]]
      /\ invalidating \in Versions
  BY DEF SeatMapInv, TypeOK, Times, Versions
<1>2. /\ invalidating > 0 /\ invalidating' = invalidating - 1
      /\ UNCHANGED <<now, version, replacedAt, answer>>
  BY DEF InvalidateCache, LoseInvalidation, tableVars
<1>3. invalidating' \in Versions /\ invalidating' <= version'
  BY <1>1, <1>2 DEF SeatMapInv, Versions
<1>4. AnswersAreRecent' /\ answer'.version <= version' /\ answer'.at <= now'
  BY <1>2 DEF SeatMapInv, AnswersAreRecent
<1>5. CASE InvalidateCache
  <2>1. /\ cache' = [map |-> NoMap, expiresAt |-> 0] /\ missed' = missed
        /\ visit' = [v \in Visits |->
                        [visit[v] EXCEPT !.map.overtaken = At(v, "store")]]
    BY <1>5 DEF InvalidateCache
  <2>2. ~IsCached'
    BY <2>1, <1>1, <1>2 DEF IsCached
  <2>3. ASSUME NEW w \in Visits
        PROVE  /\ visit'[w] \in [pc : {"idle", "getCache", "query", "store"}, map : Map]
               /\ visit'[w].pc = visit[w].pc
               /\ visit'[w].map.version = visit[w].map.version
               /\ visit'[w].map.readAt = visit[w].map.readAt
               /\ At(w, "store") => visit'[w].map.overtaken = TRUE
    <3>1. /\ visit[w].map \in Map
          /\ visit'[w] = [visit[w] EXCEPT !.map = [@ EXCEPT !.overtaken = At(w, "store")]]
      BY <2>1, <1>1
    <3>2. [visit[w].map EXCEPT !.overtaken = At(w, "store")] \in Map
      BY <3>1 DEF Map, At
    <3> QED BY <3>1, <3>2, <1>1 DEF Map
  <2>4. visit' \in [Visits -> [pc : {"idle", "getCache", "query", "store"}, map : Map]]
    <3>1. visit' = [w \in Visits |-> visit'[w]]
      BY <2>1
    <3> QED BY <3>1, <2>3
  <2>5. TypeOK'
    <3>1. cache' \in [map : Map, expiresAt : Nat]
      BY <2>1 DEF NoMap, Map, Versions, Times
    <3> QED BY <3>1, <2>1, <2>4, <1>2, <1>3 DEF SeatMapInv, TypeOK
  <2>6. \A w \in Visits : At(w, "store")' =>
            IsTrue(visit[w].map)' /\ now' <= visit'[w].map.readAt + MaxFill
    <3> SUFFICES ASSUME NEW w \in Visits, At(w, "store")'
                 PROVE  IsTrue(visit[w].map)' /\ now' <= visit'[w].map.readAt + MaxFill
      OBVIOUS
    <3>1. At(w, "store")
      BY <2>3 DEF At
    <3>2. IsTrue(visit[w].map) /\ now <= visit[w].map.readAt + MaxFill
      BY <3>1 DEF SeatMapInv
    <3>3. visit'[w].map.overtaken
      BY <2>3, <3>1
    <3>4. IsTrue(visit[w].map)'
      BY <3>2, <3>3, <2>3, <1>2 DEF IsTrue
    <3> QED BY <3>2, <3>4, <2>3, <1>2
  <2> QED BY <2>2, <2>5, <2>6, <1>3, <1>4 DEF SeatMapInv
<1>6. CASE LoseInvalidation
  <2>1. missed' = TRUE /\ UNCHANGED <<visit, cache>>
    BY <1>6 DEF LoseInvalidation
  <2>2. TypeOK'
    BY <2>1, <1>2, <1>3 DEF SeatMapInv, TypeOK
  <2> QED BY <2>1, <2>2, <1>2, <1>3, <1>4 DEF SeatMapInv, IsTrue, IsCached, At
<1> QED BY <1>5, <1>6

\* Every reachable state satisfies SeatMapInv.
THEOREM SeatMapInvariant == Spec => []SeatMapInv
<1> USE SeatMapAssumption
<1>1. Init => SeatMapInv
  <2> SUFFICES ASSUME Init PROVE SeatMapInv
    OBVIOUS
  <2>1. NoMap \in Map /\ 0 \in Times /\ 0 \in Versions
    BY DEF NoMap, Map, Versions, Times
  <2>2. TypeOK
    BY <2>1 DEF Init, TypeOK
  <2>3. ~IsCached /\ \A v \in Visits : ~At(v, "store")
    BY DEF Init, IsCached, At
  <2> QED BY <2>2, <2>3 DEF Init, SeatMapInv, AnswersAreRecent
<1>2. SeatMapInv /\ [Next]_seatMapVars => SeatMapInv'
  <2> SUFFICES ASSUME SeatMapInv, [Next]_seatMapVars PROVE SeatMapInv'
    OBVIOUS
  <2>1. CASE Tick
    <3>1. /\ now < MaxTime /\ now' = now + 1
          /\ \A v \in Visits : At(v, "store") => now < visit[v].map.readAt + MaxFill
          /\ UNCHANGED <<visit, cache, version, replacedAt, invalidating, missed, answer>>
      BY <2>1 DEF Tick, tableVars, writerVars
    <3>2. /\ now \in Nat /\ answer.at \in Nat /\ cache \in [map : Map, expiresAt : Nat]
          /\ visit \in [Visits -> [pc : {"idle", "getCache", "query", "store"}, map : Map]]
      BY DEF SeatMapInv, TypeOK, Times
    <3>3. TypeOK'
      BY <3>1, <3>2 DEF SeatMapInv, TypeOK, Times
    <3>4. \A m \in Map : IsTrue(m) => IsTrue(m)'
      BY <3>1, <3>2 DEF IsTrue, Map, Times
    <3>5. \A w \in Visits : At(w, "store")' =>
            IsTrue(visit[w].map)' /\ now' <= visit'[w].map.readAt + MaxFill
      <4> SUFFICES ASSUME NEW w \in Visits, At(w, "store")
                   PROVE  IsTrue(visit[w].map)' /\ now' <= visit[w].map.readAt + MaxFill
        BY <3>1 DEF At
      <4>1. visit[w].map \in Map /\ visit[w].map.readAt \in Nat
        BY <3>2 DEF Map, Times
      <4>2. IsTrue(visit[w].map)
        BY DEF SeatMapInv
      <4> QED BY <4>1, <4>2, <3>1, <3>2, <3>4 DEF IsTrue
    <3>6. IsCached' => IsTrue(cache.map)' /\
            cache'.expiresAt <= cache'.map.readAt + MaxFill + CacheTtl
      <4>1. IsCached' => IsCached
        BY <3>1, <3>2 DEF IsCached
      <4>2. cache.map \in Map
        BY <3>2
      <4> QED BY <4>1, <4>2, <3>1, <3>4 DEF SeatMapInv, IsTrue
    <3> QED BY <3>1, <3>2, <3>3, <3>5, <3>6 DEF SeatMapInv, AnswersAreRecent
  <2>2. CASE UNCHANGED seatMapVars
    BY <2>2 DEF seatMapVars, tableVars, writerVars, SeatMapInv, TypeOK, IsTrue,
                IsCached, At, AnswersAreRecent
  <2> QED BY <2>1, <2>2, VisitSteps, CommitSteps, InvalidationSteps DEF Next
<1> QED BY <1>1, <1>2, PTL DEF Spec

\* Answers lag behind the table by a fill and a TTL at most, for any TTL.
THEOREM StalenessIsBounded == Spec => []AnswersAreRecent
BY SeatMapInvariant, PTL DEF SeatMapInv

\* The cache is stale only with an invalidation outstanding, lost or overtaken.
THEOREM StaleMapsHaveCause == Spec => []StaleMapHasCause
<1>1. SeatMapInv => StaleMapHasCause
  BY DEF SeatMapInv, IsTrue, StaleMapHasCause
<1> QED BY <1>1, SeatMapInvariant, PTL
=============================================================================
