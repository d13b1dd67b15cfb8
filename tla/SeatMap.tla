------------------------------ MODULE SeatMap ------------------------------
(***************************************************************************)
(* seat.service.ts for one flight: the requests for its seat map that the   *)
(* rate limiter has let through, the cache seatmap:{flightId}, and the      *)
(* invalidations by the services that change seats (CheckInSystem).         *)
(*                                                                          *)
(* The content of a map is the version of the flight's seats it was read    *)
(* at: version v + 1 replaced v at time replacedAt[v].                      *)
(***************************************************************************)
EXTENDS Naturals

CONSTANTS
    Visits,     \* slots for concurrent requests
    CacheTtl,   \* REDIS_TTL.SEAT_MAP_CACHE
    MaxFill,    \* longest time from the seats query to the SET of its result
    MaxVersion, \* bound: changes of the flight's seats
    MaxTime     \* bound: the clock stops here

ASSUME SeatMapAssumption ==
    /\ CacheTtl \in Nat
    /\ MaxFill \in Nat
    /\ MaxVersion \in Nat
    /\ MaxTime \in Nat

VARIABLES
    now,
    visit,        \* the state of each request
    cache,        \* seatmap:{flightId}; absent once its TTL has ended
    version,      \* of the rows in table seat
    replacedAt,   \* history: when each version but the last was replaced
    invalidating, \* commits whose cache invalidation is still to come
    missed,       \* history: an invalidation was lost
    answer        \* history: the last map a request was answered with

tableVars == <<version, replacedAt>>
writerVars == <<invalidating, missed>>
seatMapVars == <<now, visit, cache, tableVars, writerVars, answer>>

Times == 0..MaxTime
Versions == 0..MaxVersion

\* A map as read from the table; overtaken (history) if the cache was
\* invalidated after the query.
Map == [version : Versions, readAt : Times, overtaken : BOOLEAN]
NoMap == [version |-> 0, readAt |-> 0, overtaken |-> FALSE]

TypeOK ==
    /\ now \in Times
    /\ visit \in [Visits -> [pc : {"idle", "getCache", "query", "store"}, map : Map]]
    /\ cache \in [map : Map, expiresAt : Nat]
    /\ version \in Versions
    /\ replacedAt \in [Versions -> Times]
    /\ invalidating \in Versions
    /\ missed \in BOOLEAN
    /\ answer \in [version : Versions, at : Times]

Init ==
    /\ now = 0
    /\ visit = [v \in Visits |-> [pc |-> "idle", map |-> NoMap]]
    /\ cache = [map |-> NoMap, expiresAt |-> 0]
    /\ version = 0
    /\ replacedAt = [v \in Versions |-> 0]
    /\ invalidating = 0
    /\ missed = FALSE
    /\ answer = [version |-> 0, at |-> 0]

At(v, pc) == visit[v].pc = pc
Goto(v, pc) == visit' = [visit EXCEPT ![v].pc = pc]
Respond(v, map) ==
    /\ visit' = [visit EXCEPT ![v] = [pc |-> "idle", map |-> NoMap]]
    /\ answer' = [version |-> map.version, at |-> now]

----------------------------------------------------------------------------
(* A request                                                                *)

RequestSeatMap(v) ==
    /\ At(v, "idle")
    /\ Goto(v, "getCache")
    /\ UNCHANGED <<now, cache, tableVars, writerVars, answer>>

IsCached == now < cache.expiresAt

\* Faulty variant: a hit renews the TTL.
CacheHitRenews(v) ==
    /\ At(v, "getCache") /\ IsCached
    /\ Respond(v, cache.map)
    /\ cache' = [cache EXCEPT !.expiresAt = now + CacheTtl]
    /\ UNCHANGED <<now, tableVars, writerVars>>

CacheHit(v) ==
    /\ At(v, "getCache") /\ IsCached
    /\ Respond(v, cache.map)
    /\ UNCHANGED <<now, cache, tableVars, writerVars>>

CacheMiss(v) ==
    /\ At(v, "getCache") /\ ~IsCached
    /\ Goto(v, "query")
    /\ UNCHANGED <<now, cache, tableVars, writerVars, answer>>

\* The seats, in one query, after the flight.
QuerySeats(v) ==
    /\ At(v, "query")
    /\ visit' = [visit EXCEPT ![v] = [pc |-> "store",
            map |-> [version |-> version, readAt |-> now, overtaken |-> FALSE]]]
    /\ UNCHANGED <<now, cache, tableVars, writerVars, answer>>

\* SET with EX 2, whatever has happened to the seats and the cache since.
StoreSeatMap(v) ==
    /\ At(v, "store")
    /\ cache' = [map |-> visit[v].map, expiresAt |-> now + CacheTtl]
    /\ Respond(v, visit[v].map)
    /\ UNCHANGED <<now, tableVars, writerVars>>

\* The flight does not exist, or PostgreSQL or Redis fails.
VisitFails(v) ==
    /\ ~At(v, "idle")
    /\ visit' = [visit EXCEPT ![v] = [pc |-> "idle", map |-> NoMap]]
    /\ UNCHANGED <<now, cache, tableVars, writerVars, answer>>

----------------------------------------------------------------------------
(* The services that change seats                                           *)

\* Faulty variant: the cache is invalidated before the transaction commits.
CommitAfterInvalidating ==
    /\ version < MaxVersion
    /\ version' = version + 1
    /\ replacedAt' = [replacedAt EXCEPT ![version] = now]
    /\ UNCHANGED <<now, visit, cache, writerVars, answer>>

\* A hold, confirmation, cancellation, release or assignment commits.
CommitSeatChange ==
    /\ version < MaxVersion
    /\ version' = version + 1
    /\ replacedAt' = [replacedAt EXCEPT ![version] = now]
    /\ invalidating' = invalidating + 1
    /\ UNCHANGED <<now, visit, cache, missed, answer>>

\* DEL seatmap:{flightId}
InvalidateCache ==
    /\ invalidating > 0
    /\ invalidating' = invalidating - 1
    /\ cache' = [map |-> NoMap, expiresAt |-> 0]
    /\ visit' = [v \in Visits |-> [visit[v] EXCEPT !.map.overtaken = At(v, "store")]]
    /\ UNCHANGED <<now, tableVars, missed, answer>>

\* The handler is lost between its commit and the invalidation: it crashes, or
\* Redis fails it at the hold key's command or at this one.
LoseInvalidation ==
    /\ invalidating > 0
    /\ invalidating' = invalidating - 1
    /\ missed' = TRUE
    /\ UNCHANGED <<now, visit, cache, tableVars, answer>>

----------------------------------------------------------------------------

\* Nobody takes longer than MaxFill from the query to the SET.
Tick ==
    /\ now < MaxTime
    /\ \A v \in Visits : At(v, "store") => now < visit[v].map.readAt + MaxFill
    /\ now' = now + 1
    /\ UNCHANGED <<visit, cache, tableVars, writerVars, answer>>

VisitProceeds(v) ==
    \/ CacheHit(v) \/ CacheMiss(v)
    \/ QuerySeats(v)
    \/ StoreSeatMap(v)
    \/ VisitFails(v)

Next ==
    \/ \E v \in Visits : RequestSeatMap(v) \/ VisitProceeds(v)
    \/ CommitSeatChange
    \/ InvalidateCache \/ LoseInvalidation
    \/ Tick

Spec == Init /\ [][Next]_seatMapVars

----------------------------------------------------------------------------
(* Properties                                                               *)

\* Staleness is bounded: whatever invalidations are lost or overtaken, an answer
\* shows seats that were current no longer ago than a fill and a TTL take.
AnswersAreRecent ==
    answer.version < version =>
        answer.at <= replacedAt[answer.version] + MaxFill + CacheTtl

\* The cache shows replaced seats only while an invalidation is on its way, was
\* lost, or came between the query and the SET of the request that filled it.
StaleMapHasCause ==
    IsCached /\ cache.map.version < version =>
        invalidating > 0 \/ missed \/ cache.map.overtaken
=============================================================================
