----------------------------- MODULE RateLimits -----------------------------
(***************************************************************************)
(* server/rate-limit.ts: the two fixed-window limiters, and the buckets    *)
(* the services count a call in.  A limiter is a function from what it     *)
(* holds and a call to an answer and what it holds then; the PostgreSQL    *)
(* one does this in one statement.  The ASSUMEs run both over every        *)
(* schedule of a few calls.                                                *)
(*                                                                         *)
(* Time is in ticks, Second of them to a second, so that an instant may    *)
(* fall between two seconds.  A call is a key, a policy (limit, window in  *)
(* seconds, bucket) and the clock's reading.  An answer is whether the     *)
(* call may go on, how many more may, and, if it may not, after how many   *)
(* seconds to retry (0 for none).                                          *)
(***************************************************************************)
EXTENDS Integers, Sequences, FiniteSets

Second == 2

Least(a, b) == IF a < b THEN a ELSE b
Greatest(a, b) == IF a < b THEN b ELSE a

Width(policy) == policy.window * Second
WindowEnd(call) == ((call.now \div Width(call.policy)) + 1) * Width(call.policy)

\* boundedRetryAfter, and the LEAST(GREATEST(CEIL)) of the statement.
RetryAfter(end, call) ==
    Greatest(1, Least(call.policy.window, (Greatest(0, end - call.now) + Second - 1) \div Second))

Decision(allowed, remaining, retry) == [allowed |-> allowed, remaining |-> remaining, retry |-> retry]
Refused(seconds) == Decision(FALSE, 0, seconds)
Counted(call, count) == Decision(TRUE, call.policy.limit - count, 0)

Entry(call, end, count) == [key |-> call.key, bucket |-> call.policy.bucket, end |-> end, count |-> count]
Mine(entries, call) == {e \in entries : e.key = call.key /\ e.bucket = call.policy.bucket}

(* InMemoryRateLimiter.consume: one entry a key and bucket.  Only a call   *)
(* that opens a window drops what has expired, and it is refused when the  *)
(* map is full without that.                                               *)
MemoryConsume(entries, call, maxEntries) ==
    LET live == {e \in Mine(entries, call) : e.end > call.now}
        kept == {e \in entries : e.end > call.now} IN
    IF live # {}
    THEN LET e == CHOOSE e \in live : TRUE IN
         IF e.count >= call.policy.limit
         THEN [holds |-> entries, says |-> Refused(RetryAfter(e.end, call))]
         ELSE [holds |-> (entries \ {e}) \union {Entry(call, e.end, e.count + 1)},
               says |-> Counted(call, e.count + 1)]
    ELSE IF Cardinality(kept) >= maxEntries
    THEN [holds |-> kept, says |-> Refused(call.policy.window)]
    ELSE [holds |-> (kept \ Mine(kept, call)) \union {Entry(call, WindowEnd(call), 1)},
          says |-> Counted(call, 1)]

(* PostgresRateLimiter.consume: one row a key, bucket and window.  The     *)
(* statement also deletes expired rows, though not more than a batch of    *)
(* them: `cleans` says whether it got to any.                              *)
PostgresConsume(rows, call, cleans) ==
    LET end == WindowEnd(call)
        row == {r \in Mine(rows, call) : r.end = end}
        kept == IF cleans THEN {r \in rows : r.end > call.now} ELSE rows IN
    IF row = {} THEN [holds |-> kept \union {Entry(call, end, 1)}, says |-> Counted(call, 1)]
    ELSE LET r == CHOOSE r \in row : TRUE IN
         IF r.count < call.policy.limit
         THEN [holds |-> (kept \ {r}) \union {Entry(call, end, r.count + 1)},
               says |-> Counted(call, r.count + 1)]
         ELSE [holds |-> kept, says |-> Refused(RetryAfter(end, call))]

(* checkRateLimits: a call of the user service is counted by the caller's  *)
(* address and by the account's, in one bucket named for the operation,    *)
(* and goes on if neither count refuses it; both are taken either way.     *)
UserPolicy(operation) ==
    [limit |-> IF operation = "sign_in" THEN 10 ELSE 5,
     window |-> IF operation = "sign_in" THEN 900 ELSE 3600, bucket |-> operation]

CountedCalls(operation, address, identifier, now) ==
    << [key |-> <<"ip", address>>, policy |-> UserPolicy(operation), now |-> now],
       [key |-> <<"identifier", identifier>>, policy |-> UserPolicy(operation), now |-> now] >>

\* serviceContext of the HTTP routes: a request identifier and no address.
AddressOfRoute == "unknown"

-----------------------------------------------------------------------------
\* What a limiter answers to each call of a schedule; step is one of the two above.
Memory(maxEntries) == [kind |-> "memory", maxEntries |-> maxEntries]
Postgres(cleans) == [kind |-> "postgres", cleans |-> cleans]
Consume(limiter, entries, call) ==
    IF limiter.kind = "memory" THEN MemoryConsume(entries, call, limiter.maxEntries)
    ELSE PostgresConsume(entries, call, limiter.cleans)

Says(limiter, calls) ==
    LET after[i \in 0..Len(calls)] ==
            IF i = 0 THEN [holds |-> {}, says |-> << >>]
            ELSE LET before == after[i - 1]
                     done == Consume(limiter, before.holds, calls[i]) IN
                 [holds |-> done.holds, says |-> Append(before.says, done.says)] IN
    after[Len(calls)].says

\* Schedules of n calls of one policy, in the order of the clock.
Policy == [limit |-> 2, window |-> 2, bucket |-> "op"]
Instants == 0 .. 2 * Width(Policy)
Schedules(n, keys) ==
    LET times == {t \in [1..n -> Instants] : \A i \in 1..(n - 1) : t[i] <= t[i + 1]} IN
    {[i \in 1..n |-> [key |-> k[i], policy |-> Policy, now |-> t[i]]] : t \in times, k \in [1..n -> keys]}

\* The calls of a schedule that are allowed in the window and for the key of its i-th.
AllowedWith(calls, says, i) ==
    {j \in DOMAIN calls : /\ says[j].allowed /\ calls[j].key = calls[i].key
                          /\ WindowEnd(calls[j]) = WindowEnd(calls[i])}

(* The two limiters answer alike, whatever the cleaning leaves behind, as  *)
(* long as there is room in memory; a full map only refuses more.          *)
ASSUME LimitersAssumption ==
    \A calls \in Schedules(4, {"a", "b"}) :
        LET says == Says(Postgres(TRUE), calls) IN
        /\ Says(Postgres(FALSE), calls) = says
        /\ Says(Memory(2), calls) = says
        /\ \A i \in DOMAIN calls : Cardinality(AllowedWith(calls, says, i)) <= Policy.limit
        /\ LET full == Says(Memory(1), calls) IN
           \A i \in DOMAIN calls : Cardinality(AllowedWith(calls, full, i)) <= Policy.limit

(* A refusal names a wait after which the caller is let through, if no one *)
(* else calls, and a second less than which is too little; and as many     *)
(* calls as the limit may come at the end of a window and as many again at *)
(* the start of the next.                                                  *)
ASSUME RetryAssumption ==
    LET again(calls, seconds) ==
            Append(calls, [calls[Len(calls)] EXCEPT !.now = @ + seconds * Second])
        last(says) == says[Len(says)] IN
    /\ \A limiter \in {Postgres(TRUE), Memory(1)}, calls \in Schedules(3, {"a"}) :
           LET refusal == last(Says(limiter, calls)) IN
           ~refusal.allowed =>
               /\ last(Says(limiter, again(calls, refusal.retry))).allowed
               /\ refusal.retry > 1 => ~last(Says(limiter, again(calls, refusal.retry - 1))).allowed
    /\ \E calls \in Schedules(4, {"a"}) :
           /\ \A i \in 1..4 : Says(Postgres(TRUE), calls)[i].allowed
           /\ calls[4].now - calls[1].now < Width(Policy)

(* A statement that read the clock before the end of its window and comes  *)
(* after another has deleted that window's row starts it anew.             *)
ASSUME LateStatementAssumption ==
    LET at(now) == [key |-> "a", policy |-> Policy, now |-> now]
        late == <<at(3), at(3), at(4), at(3)>> IN
    /\ Says(Postgres(TRUE), late)[4].allowed
    /\ ~Says(Postgres(FALSE), late)[4].allowed

(* A caller who gives the service his address is not held up by callers    *)
(* from other addresses with other accounts, but through the HTTP routes   *)
(* all callers share one: ten sign-ins of whoever are all there may be in  *)
(* a quarter of an hour.                                                   *)
ASSUME SharedBucketAssumption ==
    LET limit == UserPolicy("sign_in").limit
        calls(address(_)) ==
            [i \in 1 .. 2 * limit + 2 |-> CountedCalls("sign_in", address((i + 1) \div 2), (i + 1) \div 2, 0)
                                              [IF i % 2 = 1 THEN 1 ELSE 2]]
        own(i) == i
        routed(i) == AddressOfRoute
        last == 2 * limit + 1 IN
    /\ Says(Postgres(TRUE), calls(own))[last].allowed
    /\ ~Says(Postgres(TRUE), calls(routed))[last].allowed

=============================================================================
