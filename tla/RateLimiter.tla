----------------------------- MODULE RateLimiter -----------------------------
(***************************************************************************)
(* RateLimiterService (app/users/rate-limiter.service.ts): a sliding       *)
(* window kept in one Redis sorted set per identifier.                     *)
(*                                                                         *)
(* A check reads the clock and sends ZREMRANGEBYSCORE, ZCARD, ZADD and     *)
(* EXPIRE in one pipeline.  The pipeline is executed in one piece, but not *)
(* at the instant it was stamped: the process has a single FIFO connection *)
(* to Redis, so stamps reach Redis in order and at most Lag ticks old.     *)
(* A refused request then takes two more round trips (ZREM, ZRANGE), with  *)
(* other checks of the same identifier in between.                         *)
(*                                                                         *)
(* Time is counted in ticks, TicksPerSecond of them to a second.  A member *)
(* `${now}-${Math.random()}` of the sorted set is the record of its score  *)
(* and of n, the number of the attempt, which stands for the random part.  *)
(***************************************************************************)
EXTENDS Integers, FiniteSets

CONSTANTS
    Identifiers,       \* user ids
    MaxRequests,       \* config.maxRequests
    WindowSeconds,     \* config.windowSeconds
    TicksPerSecond,    \* resolution of the clock
    Lag,               \* how old a stamp may be when Redis runs its pipeline
    MaxTime,           \* bound: the clock stops here
    MaxAttempts,       \* bound: number of checks
    MaxFaults          \* bound: number of failures of Redis

Window == WindowSeconds * TicksPerSecond

ASSUME LimiterAssumption ==
    /\ MaxRequests \in Nat \ {0}
    /\ WindowSeconds \in Nat \ {0}
    /\ TicksPerSecond \in Nat \ {0}
    /\ Lag \in 0..Window
    /\ MaxTime \in Nat
    /\ MaxAttempts \in Nat
    /\ MaxFaults \in Nat

VARIABLES
    now,          \* the clock (Date.now() and the clock of Redis)
    last,         \* stamp of the last command sent: the connection is FIFO
    zset,         \* id -> members of its sorted set; {} is an absent key
    expireAt,     \* id -> when its key expires, 0 when it has no TTL
    pending,      \* refused checks whose ZRANGE has not been answered
    retryAfter,   \* id -> the last retryAfter answered, 0 before the first
    attempts,     \* number of checks so far
    faults,       \* number of failures of Redis so far
    log           \* history: every check with its verdict, since the last reset

vars == <<now, last, zset, expireAt, pending, retryAfter, attempts, faults, log>>

\* Mutant: the process reads a clock ahead of the one Redis keeps.
StampsAhead == {s \in last..(now + 1) : now - s <= Lag}

\* Stamps a command that reaches Redis now may carry.
Stamps == {s \in last..now : now - s <= Lag}

Member(s, n) == [score |-> s, n |-> n]

\* Mutant: the bound is exclusive.
PrunedKeepsBoundary(id, s) == {e \in zset[id] : e.score >= s - Window}

\* ZREMRANGEBYSCORE key 0 windowStart: the bound is inclusive.
Pruned(id, s) == {e \in zset[id] : e.score > s - Window}

\* A key whose last member is removed is deleted, and its TTL with it.
TtlAfterPrune(id, s) == IF Pruned(id, s) = {} THEN 0 ELSE expireAt[id]

\* Mutant: seconds taken for the unit of the clock.
ExpiryInSeconds == now + WindowSeconds

\* EXPIRE key windowSeconds, counted by Redis from when it runs.
Expiry == now + Window

\* Mutant: off by one.
AllowedUpTo(id, s) == Cardinality(Pruned(id, s)) <= MaxRequests

\* results[1][1] < config.maxRequests: the count excludes this request.
Allowed(id, s) == Cardinality(Pruned(id, s)) < MaxRequests

Init ==
    /\ now = 0
    /\ last = 0
    /\ zset = [id \in Identifiers |-> {}]
    /\ expireAt = [id \in Identifiers |-> 0]
    /\ pending = {}
    /\ retryAfter = [id \in Identifiers |-> 0]
    /\ attempts = 0
    /\ faults = 0
    /\ log = {}

Record(id, s, verdict) ==
    /\ attempts < MaxAttempts
    /\ attempts' = attempts + 1
    /\ last' = s
    /\ log' = log \cup
         {[id |-> id, stamp |-> s, n |-> attempts + 1, verdict |-> verdict]}
    /\ UNCHANGED now

\* The pipeline, which records the request before its verdict is known.
Pipeline(id, s) ==
    /\ zset' = [zset EXCEPT ![id] = Pruned(id, s) \cup {Member(s, attempts + 1)}]
    /\ expireAt' = [expireAt EXCEPT ![id] = Expiry]

Admit(id, s) ==
    /\ Allowed(id, s)
    /\ Record(id, s, "admit")
    /\ Pipeline(id, s)
    /\ UNCHANGED <<pending, retryAfter, faults>>

\* The count that ZCARD answered refuses the request.
Refuse(id, s) ==
    /\ ~Allowed(id, s)
    /\ Record(id, s, "deny")
    /\ pending' = pending \cup {[id |-> id, stamp |-> s, n |-> attempts + 1]}
    /\ UNCHANGED retryAfter

Deny(id, s) ==
    /\ Refuse(id, s)
    /\ Pipeline(id, s)
    /\ UNCHANGED faults

Fault ==
    /\ faults < MaxFaults
    /\ faults' = faults + 1

\* The pipeline ran up to ZADD or EXPIRE, or Redis refused to write and still
\* ran EXPIRE, which gives no TTL to a key that is gone.
PartOfPipeline(id, s) ==
    \/ /\ zset' = [zset EXCEPT ![id] = Pruned(id, s)]
       /\ \/ expireAt' = [expireAt EXCEPT ![id] = TtlAfterPrune(id, s)]
          \/ /\ Pruned(id, s) # {}
             /\ expireAt' = [expireAt EXCEPT ![id] = Expiry]
    \/ /\ zset' = [zset EXCEPT ![id] = Pruned(id, s) \cup {Member(s, attempts + 1)}]
       /\ expireAt' = [expireAt EXCEPT ![id] = TtlAfterPrune(id, s)]

\* Redis fails somewhere in the pipeline: the request is allowed, since a count
\* that is missing is taken as 0 and the catch block allows whatever throws.
FailOpen(id, s) ==
    /\ Fault
    /\ Record(id, s, "open")
    /\ UNCHANGED <<zset, expireAt>> \/ PartOfPipeline(id, s) \/ Pipeline(id, s)
    /\ UNCHANGED <<pending, retryAfter>>

\* ZCARD has answered and a later command fails, whose result nobody reads:
\* the request is refused by the count.
FailDeny(id, s) ==
    /\ Fault
    /\ Refuse(id, s)
    /\ PartOfPipeline(id, s) \/ Pipeline(id, s)

\* The rest of a refusal.  ZREM is given a member with a new random part
\* (number 0, which no request has); then ZRANGE 0 0 finds the oldest member.
Unwanted(d) == Member(d.stamp, 0)

Oldest(z) == CHOOSE t \in {e.score : e \in z} : \A e \in z : t <= e.score

\* Mutant: rounded down.
FloorSeconds(t) == t \div TicksPerSecond

CeilSeconds(t) == (t + TicksPerSecond - 1) \div TicksPerSecond

AnswerDenied(d) ==
    LET z == zset[d.id] \ {Unwanted(d)}
    IN  /\ d \in pending
        /\ pending' = pending \ {d}
        /\ zset' = [zset EXCEPT ![d.id] = z]
        /\ retryAfter' = [retryAfter EXCEPT ![d.id] =
               IF z = {} THEN WindowSeconds
               ELSE CeilSeconds(Oldest(z) + Window - d.stamp)]
        /\ UNCHANGED <<now, last, expireAt, attempts, faults, log>>

Checked(d, verdict) ==
    [id |-> d.id, stamp |-> d.stamp, n |-> d.n, verdict |-> verdict]

\* ZREM or ZRANGE fails: the catch block allows the request that was refused.
AnswerFails(d) ==
    /\ Fault
    /\ pending' = pending \ {d}
    /\ \E gone \in {{}, {Unwanted(d)}} :
          zset' = [zset EXCEPT ![d.id] = @ \ gone]
    /\ log' = {IF a = Checked(d, "deny") THEN Checked(d, "open") ELSE a : a \in log}
    /\ UNCHANGED <<now, last, expireAt, retryAfter, attempts>>

\* getRateLimitStatus prunes too; its answer changes nothing.
GetRateLimitStatus(id, s) ==
    /\ Pruned(id, s) # zset[id]
    /\ zset' = [zset EXCEPT ![id] = Pruned(id, s)]
    /\ expireAt' = [expireAt EXCEPT ![id] = TtlAfterPrune(id, s)]
    /\ last' = s
    /\ UNCHANGED <<now, pending, retryAfter, attempts, faults, log>>

ResetRateLimit(id) ==
    /\ zset' = [zset EXCEPT ![id] = {}]
    /\ expireAt' = [expireAt EXCEPT ![id] = 0]
    /\ log' = {a \in log : a.id # id}
    /\ UNCHANGED <<now, last, pending, retryAfter, attempts, faults>>

\* Time passes; Redis drops the keys whose TTL is over.
Expired(id) == expireAt[id] # 0 /\ now + 1 > expireAt[id]

Tick ==
    /\ now < MaxTime
    /\ now' = now + 1
    /\ zset' = [id \in Identifiers |-> IF Expired(id) THEN {} ELSE zset[id]]
    /\ expireAt' = [id \in Identifiers |-> IF Expired(id) THEN 0 ELSE expireAt[id]]
    /\ UNCHANGED <<last, pending, retryAfter, attempts, faults, log>>

Next ==
    \/ \E id \in Identifiers, s \in Stamps : Admit(id, s)
    \/ \E id \in Identifiers, s \in Stamps : Deny(id, s)
    \/ \E id \in Identifiers, s \in Stamps : FailOpen(id, s)
    \/ \E id \in Identifiers, s \in Stamps : FailDeny(id, s)
    \/ \E d \in pending : AnswerDenied(d)
    \/ \E d \in pending : AnswerFails(d)
    \/ \E id \in Identifiers, s \in Stamps : GetRateLimitStatus(id, s)
    \/ \E id \in Identifiers : ResetRateLimit(id)
    \/ Tick

Spec == Init /\ [][Next]_vars

------------------------------------------------------------------------------
Entry == [score : Nat, n : Nat]
Check == [id : Identifiers, stamp : Nat, n : Nat,
          verdict : {"admit", "deny", "open"}]
Refusal == [id : Identifiers, stamp : Nat, n : Nat]

\* Types: the clock never falls behind the stamps, sorted sets and the log
\* hold records of checks.
TypeOK ==
    /\ now \in Nat
    /\ last \in 0..now
    /\ zset \in [Identifiers -> SUBSET Entry]
    /\ expireAt \in [Identifiers -> Nat]
    /\ pending \subseteq Refusal
    /\ retryAfter \in [Identifiers -> Int]
    /\ attempts \in Nat
    /\ faults \in Nat
    /\ log \subseteq Check

\* What was granted within the limit, as the abstract limiter keeps it.
Granted == {[id |-> a.id, stamp |-> a.stamp, n |-> a.n] :
                a \in {c \in log : c.verdict = "admit"}}

\* The window inside which the limit holds: a stale stamp costs Lag of it,
\* because Redis expires keys by its own clock.
Span == Window - Lag

InWindow(id, t) == {a \in Granted : a.id = id /\ t - Span < a.stamp /\ a.stamp <= t}

\* In no window of length Span does checkRateLimit admit more than
\* config.maxRequests requests of an identifier, whatever the interleaving of
\* checks, prunes and key expiry (the requests Redis failed are admitted by the
\* catch block and not counted).
WindowLimit ==
    \A id \in Identifiers : \A t \in 0..now :
        Cardinality(InWindow(id, t)) <= MaxRequests

\* A request is refused only if its identifier made at least maxRequests
\* attempts in the window before it: no entry outlives the window, through
\* pruning at the boundary, expiry of the key or a reset.
DeniedOnlyWhenBusy ==
    \A d \in log : d.verdict = "deny" =>
        Cardinality({n \in 1..(d.n - 1) :
                        \E a \in log : /\ a.n = n
                                       /\ a.id = d.id
                                       /\ a.stamp > d.stamp - Window}) >= MaxRequests

\* retryAfter is never zero or negative, even when other checks prune the set,
\* or the key expires, between the refusal and the ZRANGE that looks for the
\* oldest request.
RetryAfterPositive ==
    \A id \in Identifiers :
        (\E a \in log : a.id = id /\ a.verdict = "deny"
                        /\ \A d \in pending : d.id # id)
            => retryAfter[id] >= 1

\* The comment in checkRateLimit: a refused request is removed from the window
\* ("Remove the request we just added since it's not allowed").
RefusedRequestsRemoved ==
    \A id \in Identifiers : \A e \in zset[id] : \A a \in log :
        (a.id = id /\ a.n = e.n /\ a.verdict = "deny")
            => \E d \in pending : d.n = a.n

\* The limiter implements the sliding window its doc comment announces.
Limit == INSTANCE SlidingWindow WITH grants <- Granted

ImplementsSlidingWindow == Limit!Spec
==============================================================================
