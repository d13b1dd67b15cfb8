---------------------------- MODULE RateLimiter ----------------------------
(***************************************************************************)
(* rate-limiter.middleware.ts over the sorted set ratelimit:{ip} of         *)
(* redis.service.ts, and abuse-event.service.ts.                            *)
(*                                                                          *)
(* now is the most advanced of the instances' clocks. A request reads its   *)
(* own clock (nowMs) at most MaxDelay before Redis executes its pipeline,   *)
(* so pipelines may run in another order than their timestamps. Redis runs  *)
(* the commands of one pipeline, sent in one write, back to back.           *)
(***************************************************************************)
EXTENDS Naturals, FiniteSets

CONSTANTS
    Clients,     \* source addresses
    MaxRequests, \* RATE_LIMIT_MAX_REQUESTS
    WindowMs,    \* RATE_LIMIT_WINDOW_MS
    MaxDelay,    \* from Date.now() to the pipeline, clock skew included
    Retention,   \* ABUSE_RETENTION_DAYS
    MaxEvents,   \* bound: rows in table abuse_event
    MaxTime      \* bound: the clock stops here

ASSUME RateLimiterAssumption ==
    /\ MaxRequests \in Nat \ {0}
    /\ WindowMs \in Nat \ {0}
    /\ MaxDelay \in Nat
    /\ Retention \in Nat
    /\ MaxEvents \in Nat
    /\ MaxTime \in Nat

VARIABLES
    now,
    limitKey,    \* ratelimit:{ip}: its members and when its TTL ends
    sent,        \* history: the timestamps of each client's requests
    admitted,    \* history: those of the requests its count has let through
    abuseEvents  \* table abuse_event

limiterVars == <<now, limitKey, sent, admitted, abuseEvents>>

Times == 0..MaxTime

\* The request details are left out; identical rows coincide.
AbuseEvent == [sourceIp : Clients, requestCount : Nat, windowEnd : Times,
               createdAt : Times]

TypeOK ==
    /\ now \in Times
    /\ limitKey \in [Clients -> [members : SUBSET Times, expiresAt : Nat]]
    /\ sent \in [Clients -> SUBSET Times]
    /\ admitted \in [Clients -> SUBSET Times]
    /\ abuseEvents \subseteq AbuseEvent

Init ==
    /\ now = 0
    /\ limitKey = [c \in Clients |-> [members |-> {}, expiresAt |-> 0]]
    /\ sent = [c \in Clients |-> {}]
    /\ admitted = [c \in Clients |-> {}]
    /\ abuseEvents = {}

----------------------------------------------------------------------------
(* RedisService.addRateLimitEntry                                           *)

\* A key whose TTL has ended is no longer there.
Members(c) == IF now < limitKey[c].expiresAt THEN limitKey[c].members ELSE {}

\* ZREMRANGEBYSCORE key 0 nowMs-windowMs
Pruned(c, nowMs) == {t \in Members(c) : t + WindowMs > nowMs}

\* Faulty variant: one key for all clients.
WithEntrySharedKey(c, nowMs) == UNION {Pruned(d, nowMs) : d \in Clients} \cup {nowMs}

\* ZADD: the member is the timestamp itself, so requests of one client in the
\* same millisecond are one member.
WithEntry(c, nowMs) == Pruned(c, nowMs) \cup {nowMs}

\* ZCARD
Count(c, nowMs) == Cardinality(WithEntry(c, nowMs))

\* ... and PEXPIRE key windowMs.
AddRateLimitEntry(c, nowMs) ==
    /\ limitKey' = [limitKey EXCEPT ![c] =
            [members |-> WithEntry(c, nowMs), expiresAt |-> now + WindowMs]]
    /\ sent' = [sent EXCEPT ![c] = @ \cup {nowMs}]

----------------------------------------------------------------------------
(* RateLimiterMiddleware.use                                                *)

\* The clock readings of requests whose pipeline may run now.
Readings == {t \in Times : t <= now /\ now <= t + MaxDelay}

\* Faulty variant: one more request than the limit allows.
AdmitRequestAtLimit(c, nowMs) ==
    /\ Count(c, nowMs) <= MaxRequests
    /\ AddRateLimitEntry(c, nowMs)
    /\ admitted' = [admitted EXCEPT ![c] = @ \cup {nowMs}]
    /\ UNCHANGED <<now, abuseEvents>>

\* next() after a count below the limit.
AdmitRequest(c, nowMs) ==
    /\ Count(c, nowMs) < MaxRequests
    /\ AddRateLimitEntry(c, nowMs)
    /\ admitted' = [admitted EXCEPT ![c] = @ \cup {nowMs}]
    /\ UNCHANGED <<now, abuseEvents>>

\* Any error of the pipeline counts as 0 requests, whether or not its commands
\* were executed: the limiter fails open.
AdmitUncounted(c, nowMs) ==
    /\ AddRateLimitEntry(c, nowMs) \/ UNCHANGED <<limitKey, sent>>
    /\ UNCHANGED <<now, admitted, abuseEvents>>

\* AbuseEventService.record: saved in the background, or not at all.
RecordAbuseEvent(c, nowMs) ==
    \/ /\ Cardinality(abuseEvents) < MaxEvents
       /\ abuseEvents' = abuseEvents \cup
            {[sourceIp |-> c, requestCount |-> Count(c, nowMs),
              windowEnd |-> nowMs, createdAt |-> now]}
    \/ UNCHANGED abuseEvents

\* 429 after a count at the limit or above.
RejectRequest(c, nowMs) ==
    /\ Count(c, nowMs) >= MaxRequests
    /\ AddRateLimitEntry(c, nowMs)
    /\ RecordAbuseEvent(c, nowMs)
    /\ UNCHANGED <<now, admitted>>

\* cleanupOldAbuseEvents, run daily by every instance.
CleanupOldAbuseEvents ==
    /\ abuseEvents' = {e \in abuseEvents : e.createdAt + Retention >= now}
    /\ UNCHANGED <<now, limitKey, sent, admitted>>

----------------------------------------------------------------------------

Tick ==
    /\ now < MaxTime
    /\ now' = now + 1
    /\ UNCHANGED <<limitKey, sent, admitted, abuseEvents>>

Use(c, nowMs) ==
    AdmitRequest(c, nowMs) \/ AdmitUncounted(c, nowMs) \/ RejectRequest(c, nowMs)

Next ==
    \/ \E c \in Clients, nowMs \in Readings : Use(c, nowMs)
    \/ CleanupOldAbuseEvents
    \/ Tick

Spec == Init /\ [][Next]_limiterVars

----------------------------------------------------------------------------
(* Properties                                                               *)

\* The count admits fewer than MaxRequests timestamps of one client to any
\* window, although pipelines overtake each other: the window that is kept is
\* shorter than WindowMs by the delay of a request.
WindowBound ==
    \A c \in Clients, start \in Times :
        Cardinality({t \in admitted[c] :
            start <= t /\ t + MaxDelay < start + WindowMs}) < MaxRequests

\* An abuse event accuses the client that sent the requests: as many of its own
\* as it says lie in the window or, overtaken by no more than the delay, after it.
AbuseEventsAreTrue ==
    \A e \in abuseEvents :
        /\ MaxRequests <= e.requestCount
        /\ e.requestCount <= Cardinality({t \in sent[e.sourceIp] :
                e.windowEnd < t + WindowMs /\ t <= e.windowEnd + MaxDelay})
=============================================================================
