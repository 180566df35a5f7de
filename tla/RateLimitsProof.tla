---------------------------- MODULE RateLimitsProof ----------------------------
(***************************************************************************)
(* The limiters of RateLimits, one call at a time, for any policies, keys, *)
(* clocks and number of entries.  What TLC evaluates over schedules of a   *)
(* few calls of one policy follows for every schedule whose clock does not *)
(* go back: WellKept and the equality of what is live hold of two empty    *)
(* limiters, and each call preserves them.                                 *)
(***************************************************************************)
EXTENDS RateLimits, FiniteSetTheorems, TLAPS

PolicyOK(policy) == policy.limit \in Nat \ {0} /\ policy.window \in Nat \ {0}

\* The end of the window of a policy in which an instant falls.
EndAt(policy, now) == ((now \div Width(policy)) + 1) * Width(policy)

\* Every bucket has one policy, as the constants of rate-limit.ts have.
CallOK(call, policies, now) ==
    /\ call.policy = policies[call.policy.bucket] /\ PolicyOK(call.policy)
    /\ call.now \in Nat /\ now <= call.now

Live(entries, now) == {e \in entries : e.end > now}
Alike(d, e) == d.key = e.key /\ d.bucket = e.bucket /\ d.end = e.end

\* What is live is of the window under way, is counted within the limit, and is there once.
WellKept(entries, policies, now) ==
    /\ \A e \in entries : e.end \in Nat
    /\ \A e \in Live(entries, now) :
           /\ PolicyOK(policies[e.bucket]) /\ e.end = EndAt(policies[e.bucket], now)
           /\ e.count \in 1..policies[e.bucket].limit
    /\ \A d, e \in Live(entries, now) : Alike(d, e) => d = e

--------------------------------------------------------------------------------
(* Windows.                                                                *)

LEMMA Times ==
  ASSUME NEW a \in Nat, NEW b \in Nat, NEW w \in Nat, a <= b
  PROVE  a * w <= b * w
OBVIOUS

LEMMA Quotient ==
  ASSUME NEW w \in Nat \ {0}, NEW n \in Nat
  PROVE  n \div w \in Nat /\ (n \div w) * w <= n /\ n < ((n \div w) + 1) * w
OBVIOUS

LEMMA QuotientUnique ==
  ASSUME NEW w \in Nat \ {0}, NEW p \in Nat, NEW q \in Nat, NEW n \in Nat,
         p * w <= n, n < (p + 1) * w, q * w <= n, n < (q + 1) * w
  PROVE  p = q
<1>1. ASSUME p + 1 <= q PROVE FALSE
  <2>1. (p + 1) * w <= q * w
    BY <1>1, Times
  <2> QED BY <2>1
<1>2. ASSUME q + 1 <= p PROVE FALSE
  <2>1. (q + 1) * w <= p * w
    BY <1>2, Times
  <2> QED BY <2>1
<1> QED BY <1>1, <1>2

\* A window lasts to its end.
LEMMA SameWindow ==
  ASSUME NEW policy, PolicyOK(policy), NEW n \in Nat, NEW m \in Nat, n <= m
  PROVE  /\ EndAt(policy, n) \in Nat /\ n < EndAt(policy, n)
         /\ EndAt(policy, n) - n <= Width(policy)
         /\ m < EndAt(policy, n) => EndAt(policy, m) = EndAt(policy, n)
<1> DEFINE w == Width(policy)
           p == n \div w
           q == m \div w
<1>1. w \in Nat \ {0}
  BY DEF Width, Second, PolicyOK
<1>2. /\ p \in Nat /\ p * w <= n /\ n < (p + 1) * w
      /\ q \in Nat /\ q * w <= m /\ m < (q + 1) * w
  BY <1>1, Quotient
<1>3. EndAt(policy, n) = (p + 1) * w /\ EndAt(policy, m) = (q + 1) * w
  BY DEF EndAt
<1> HIDE DEF p, q, w
<1>4. (p + 1) * w = p * w + w /\ p * w \in Nat
  BY <1>1, <1>2
<1>5. ASSUME m < (p + 1) * w PROVE p = q
  <2>1. p * w <= m
    BY <1>1, <1>2, <1>4
  <2> QED BY <1>1, <1>2, <1>5, <2>1, QuotientUnique
<1> QED BY <1>1, <1>2, <1>3, <1>4, <1>5 DEF w

\* A refusal says how long to wait, to the second: after that the window is over, and a
\* second less would be too little (boundedRetryAfter, and the LEAST, GREATEST and CEIL of
\* the statement).
THEOREM WaitIsExact ==
  ASSUME NEW call, PolicyOK(call.policy), call.now \in Nat
  PROVE  LET end == WindowEnd(call)
             retry == RetryAfter(end, call) IN
         /\ retry \in 1..call.policy.window
         /\ call.now + retry * Second >= end
         /\ retry > 1 => call.now + (retry - 1) * Second < end
<1> DEFINE end == WindowEnd(call)
<1>1. end \in Nat /\ call.now < end /\ end - call.now <= call.policy.window * 2
  <2>1. end = EndAt(call.policy, call.now)
    BY DEF WindowEnd, EndAt
  <2> QED BY <2>1, SameWindow DEF Width, Second
<1>2. call.policy.window \in Nat \ {0}
  BY DEF PolicyOK
<1> HIDE DEF end
<1>3. PICK wait \in Nat, window \in Nat \ {0}, now \in Nat :
        /\ wait = end - call.now /\ window = call.policy.window /\ now = call.now
        /\ wait > 0 /\ wait <= window * 2
  BY <1>1, <1>2
<1>4. RetryAfter(end, call) = (wait + 1) \div 2
  BY <1>3 DEF RetryAfter, Greatest, Least, Second
<1> QED BY <1>1, <1>3, <1>4 DEF end, Second

--------------------------------------------------------------------------------
(* What a limiter keeps of a window.                                       *)

\* The entry that counts the calls like this one in its window, if there is one.
Counter(entries, call) == {e \in Mine(entries, call) : e.end = WindowEnd(call)}
Taken(entries, call) ==
    IF Counter(entries, call) = {} THEN 0
    ELSE (CHOOSE e \in Counter(entries, call) : TRUE).count
OtherCounters(entries, call) == Live(entries, call.now) \ Counter(entries, call)

LEMMA Later ==
  ASSUME NEW entries, NEW policies, NEW before \in Nat, NEW now \in Nat, before <= now,
         WellKept(entries, policies, before)
  PROVE  /\ WellKept(entries, policies, now)
         /\ Live(entries, now) = Live(Live(entries, before), now)
<1>1. ASSUME NEW e \in Live(entries, now) PROVE e \in Live(entries, before)
  BY <1>1 DEF Live, WellKept
<1>2. ASSUME NEW e \in Live(entries, now)
      PROVE  e.end = EndAt(policies[e.bucket], now)
  <2>1. e \in Live(entries, before) /\ e.end > now
    BY <1>1 DEF Live
  <2>2. PolicyOK(policies[e.bucket]) /\ e.end = EndAt(policies[e.bucket], before)
    BY <2>1 DEF WellKept
  <2> QED BY <2>1, <2>2, SameWindow
<1> QED BY <1>1, <1>2 DEF WellKept, Live

\* What of a call's key and bucket is live is the counter of its window.
LEMMA CounterLive ==
  ASSUME NEW entries, NEW policies, NEW call, CallOK(call, policies, call.now),
         WellKept(entries, policies, call.now)
  PROVE  /\ WindowEnd(call) \in Nat /\ WindowEnd(call) > call.now
         /\ {e \in Mine(entries, call) : e.end > call.now} = Counter(entries, call)
         /\ \A d, e \in Counter(entries, call) : d = e
         /\ \A e \in Counter(entries, call) : e.count \in 1..call.policy.limit
<1>1. WindowEnd(call) = EndAt(call.policy, call.now)
  BY DEF WindowEnd, EndAt
<1>2. EndAt(call.policy, call.now) \in Nat /\ EndAt(call.policy, call.now) > call.now
  BY SameWindow DEF CallOK
<1>3. ASSUME NEW e \in Mine(entries, call)
      PROVE  e.end > call.now <=> e.end = WindowEnd(call)
  <2>1. e \in entries /\ e.bucket = call.policy.bucket
    BY DEF Mine
  <2>2. CASE e.end > call.now
    BY <1>1, <2>1, <2>2 DEF WellKept, Live, CallOK
  <2>3. CASE ~ (e.end > call.now)
    BY <1>1, <1>2, <2>3
  <2> QED BY <2>2, <2>3
<1>4. \A e \in Counter(entries, call) : /\ e \in Live(entries, call.now) /\ e.key = call.key
                                       /\ e.bucket = call.policy.bucket /\ e.end = WindowEnd(call)
  BY <1>1, <1>2 DEF Counter, Mine, Live
<1>5. {e \in Mine(entries, call) : e.end > call.now} = Counter(entries, call)
  BY <1>3 DEF Counter
<1>6. \A d, e \in Counter(entries, call) : d = e
  BY <1>4 DEF WellKept, Alike
<1>7. \A e \in Counter(entries, call) : e.count \in 1..call.policy.limit
  BY <1>4 DEF WellKept, CallOK
<1> QED BY <1>1, <1>2, <1>5, <1>6, <1>7

\* A limiter counts a call: of what it held it keeps what is live but the call's counter,
\* and adds the counter anew.
Counts(entries, call, kept, count, after) ==
    /\ count \in 1..call.policy.limit
    /\ kept \subseteq entries
    /\ Live(kept, call.now) = OtherCounters(entries, call)
    /\ after = kept \union {Entry(call, WindowEnd(call), count)}

\* What is live is then what it was, and the counter.
Recounted(entries, policies, call, count, after) ==
    /\ WellKept(after, policies, call.now)
    /\ Taken(after, call) = count
    /\ OtherCounters(after, call) = OtherCounters(entries, call)
    /\ Live(after, call.now)
         = OtherCounters(entries, call) \union {Entry(call, WindowEnd(call), count)}

\* Counting a call: its counter is replaced, and nothing else that is live.
LEMMA Recorded ==
  ASSUME NEW entries, NEW policies, NEW call, CallOK(call, policies, call.now),
         WellKept(entries, policies, call.now),
         NEW kept, NEW count, NEW after, Counts(entries, call, kept, count, after)
  PROVE  Recounted(entries, policies, call, count, after)
<1> USE DEF Counts
<1> DEFINE new == Entry(call, WindowEnd(call), count)
<1>1. /\ new.key = call.key /\ new.bucket = call.policy.bucket /\ new.end = WindowEnd(call)
      /\ new.count = count
  BY DEF Entry
<1>2. /\ WindowEnd(call) = EndAt(call.policy, call.now)
      /\ WindowEnd(call) \in Nat /\ WindowEnd(call) > call.now
  BY CounterLive DEF WindowEnd, EndAt
<1>3. new \notin OtherCounters(entries, call) /\ after = kept \union {new}
  BY <1>1 DEF OtherCounters, Counter, Live, Mine
<1> HIDE DEF new
<1>4. Live(after, call.now) = Live(kept, call.now) \union {new}
  BY <1>1, <1>2, <1>3 DEF Live
<1>5. \A e \in Live(kept, call.now) :
        ~ (e.key = call.key /\ e.bucket = call.policy.bucket /\ e.end = WindowEnd(call))
  BY DEF OtherCounters, Counter, Mine, Live
<1>6. Counter(after, call) = {new}
  <2>1. \A e \in kept : e.end = WindowEnd(call) => e \in Live(kept, call.now)
    BY <1>2 DEF Live
  <2> QED BY <1>1, <1>3, <1>5, <2>1 DEF Counter, Mine
<1>7. Taken(after, call) = count
  BY <1>1, <1>6 DEF Taken
<1>8. OtherCounters(after, call) = OtherCounters(entries, call)
  BY <1>3, <1>4, <1>6 DEF OtherCounters
<1>9. WellKept(after, policies, call.now)
  <2>1. \A e \in after : e.end \in Nat
    BY <1>1, <1>2, <1>3 DEF WellKept
  <2>2. ASSUME NEW e \in Live(after, call.now)
        PROVE  /\ PolicyOK(policies[e.bucket]) /\ e.end = EndAt(policies[e.bucket], call.now)
               /\ e.count \in 1..policies[e.bucket].limit
    <3>1. CASE e = new
      BY <1>1, <1>2, <3>1 DEF CallOK
    <3>2. CASE e # new
      BY <1>4, <3>2 DEF WellKept, OtherCounters
    <3> QED BY <3>1, <3>2
  <2>3. ASSUME NEW d \in Live(after, call.now), NEW e \in Live(after, call.now), Alike(d, e)
        PROVE  d = e
    <3>1. CASE d # new /\ e # new
      BY <1>4, <2>3, <3>1 DEF WellKept, OtherCounters
    <3>2. CASE d = new \/ e = new
      BY <1>1, <1>4, <1>5, <2>3, <3>2 DEF Alike
    <3> QED BY <3>1, <3>2
  <2> QED BY <2>1, <2>2, <2>3 DEF WellKept
<1> QED BY <1>4, <1>7, <1>8, <1>9 DEF new, Recounted

LEMMA TakenLive ==
  ASSUME NEW entries, NEW rows, NEW policies, NEW call, CallOK(call, policies, call.now),
         WellKept(entries, policies, call.now), WellKept(rows, policies, call.now),
         Live(entries, call.now) = Live(rows, call.now)
  PROVE  /\ Counter(entries, call) = Counter(rows, call)
         /\ Taken(entries, call) = Taken(rows, call)
         /\ OtherCounters(entries, call) = OtherCounters(rows, call)
<1>1. /\ {e \in Mine(entries, call) : e.end > call.now} = Counter(entries, call)
      /\ {e \in Mine(rows, call) : e.end > call.now} = Counter(rows, call)
  BY CounterLive
<1>2. Counter(entries, call) = Counter(rows, call)
  BY <1>1 DEF Live, Mine
<1> QED BY <1>2 DEF Taken, OtherCounters

LEMMA TakenCount ==
  ASSUME NEW entries, NEW policies, NEW call, CallOK(call, policies, call.now),
         WellKept(entries, policies, call.now)
  PROVE  /\ Taken(entries, call) \in 0..call.policy.limit
         /\ Taken(entries, call) = 0 <=> Counter(entries, call) = {}
         /\ Counter(entries, call) # {} =>
              LET e == CHOOSE e \in Counter(entries, call) : TRUE IN
              /\ Counter(entries, call) = {e} /\ e.count = Taken(entries, call)
              /\ e.end = WindowEnd(call) /\ e \in entries
<1>1. call.policy.limit \in Nat \ {0}
  BY DEF CallOK, PolicyOK
<1>2. CASE Counter(entries, call) = {}
  BY <1>1, <1>2 DEF Taken
<1>3. CASE Counter(entries, call) # {}
  <2> DEFINE e == CHOOSE e \in Counter(entries, call) : TRUE
  <2>1. e \in Counter(entries, call)
    BY <1>3
  <2>2. Taken(entries, call) = e.count
    BY <1>3 DEF Taken
  <2> HIDE DEF e
  <2>3. /\ \A x \in Counter(entries, call) : x = e
        /\ e.count \in 1..call.policy.limit
    BY ONLY <2>1, CounterLive, CallOK(call, policies, call.now),
            WellKept(entries, policies, call.now)
  <2>4. e.end = WindowEnd(call) /\ e \in entries
    BY <2>1 DEF Counter, Mine
  <2>5. Counter(entries, call) = {e}
    BY <2>1, <2>3
  <2> QED BY <1>1, <1>3, <2>2, <2>3, <2>4, <2>5 DEF e
<1> QED BY <1>2, <1>3

\* How a call is served by a limiter that has room for another entry or not: done is the
\* answer and what it holds then.
Serves(entries, policies, call, room, done) ==
    LET n == Taken(entries, call) IN
    /\ WellKept(done.holds, policies, call.now)
    /\ IF n < call.policy.limit /\ (n > 0 \/ room)
       THEN /\ done.says = Counted(call, n + 1)
            /\ Taken(done.holds, call) = n + 1
            /\ Live(done.holds, call.now) = OtherCounters(entries, call)
                                              \union {Entry(call, WindowEnd(call), n + 1)}
            /\ OtherCounters(done.holds, call) = OtherCounters(entries, call)
       ELSE /\ done.says = Refused(IF n = call.policy.limit
                                   THEN RetryAfter(WindowEnd(call), call)
                                   ELSE call.policy.window)
            /\ Live(done.holds, call.now) = Live(entries, call.now)

LEMMA ServesCounted ==
  ASSUME NEW entries, NEW policies, NEW call, NEW room \in BOOLEAN, NEW n, NEW kept, NEW done,
         CallOK(call, policies, call.now), WellKept(entries, policies, call.now),
         n = Taken(entries, call), n # call.policy.limit, n # 0 \/ room,
         kept \subseteq entries, Live(kept, call.now) = OtherCounters(entries, call),
         done.holds = kept \union {Entry(call, WindowEnd(call), n + 1)},
         done.says = Counted(call, n + 1)
  PROVE  Serves(entries, policies, call, room, done)
<1>1. n \in Nat /\ call.policy.limit \in Nat /\ n < call.policy.limit
  <2>1. Taken(entries, call) \in 0..call.policy.limit
    BY TakenCount
  <2>2. call.policy.limit \in Nat
    BY DEF CallOK, PolicyOK
  <2> QED BY <2>1, <2>2
<1>2. n + 1 \in 1..call.policy.limit /\ (n > 0 \/ room)
  BY <1>1
<1>3. /\ WellKept(done.holds, policies, call.now)
      /\ Taken(done.holds, call) = n + 1
      /\ OtherCounters(done.holds, call) = OtherCounters(entries, call)
      /\ Live(done.holds, call.now)
           = OtherCounters(entries, call) \union {Entry(call, WindowEnd(call), n + 1)}
  <2>1. Counts(entries, call, kept, n + 1, done.holds)
    BY <1>2 DEF Counts
  <2>2. Recounted(entries, policies, call, n + 1, done.holds)
    BY <2>1, Recorded
  <2> QED BY <2>2 DEF Recounted
<1> QED BY <1>1, <1>2, <1>3 DEF Serves

LEMMA ServesRefused ==
  ASSUME NEW entries, NEW policies, NEW call, NEW room \in BOOLEAN, NEW n, NEW done,
         CallOK(call, policies, call.now), WellKept(done.holds, policies, call.now),
         n = Taken(entries, call), Live(done.holds, call.now) = Live(entries, call.now),
         \/ /\ n = call.policy.limit
            /\ done.says = Refused(RetryAfter(WindowEnd(call), call))
         \/ n = 0 /\ ~ room /\ done.says = Refused(call.policy.window)
  PROVE  Serves(entries, policies, call, room, done)
<1>1. call.policy.limit \in Nat \ {0}
  BY DEF CallOK, PolicyOK
<1>2. CASE n = call.policy.limit
  <2>1. ~ (n < call.policy.limit) /\ n # 0
    BY <1>1, <1>2
  <2> QED BY <1>2, <2>1 DEF Serves
<1>3. CASE n # call.policy.limit
  <2>1. ~ (n > 0) /\ ~ room /\ done.says = Refused(call.policy.window)
    BY <1>3
  <2> QED BY <1>3, <2>1 DEF Serves
<1> QED BY <1>2, <1>3

LEMMA MemoryServes ==
  ASSUME NEW entries, NEW policies, NEW call, NEW maxEntries, NEW room \in BOOLEAN,
         room <=> ~ (Cardinality(Live(entries, call.now)) >= maxEntries),
         CallOK(call, policies, call.now), WellKept(entries, policies, call.now)
  PROVE  Serves(entries, policies, call, room, MemoryConsume(entries, call, maxEntries))
<1> DEFINE n == Taken(entries, call)
           live == {e \in Mine(entries, call) : e.end > call.now}
           kept == Live(entries, call.now)
           done == MemoryConsume(entries, call, maxEntries)
<1>1. live = Counter(entries, call) /\ call.policy.limit \in Nat \ {0}
      /\ n \in 0..call.policy.limit
  BY CounterLive, TakenCount DEF CallOK, PolicyOK
<1>2. CASE Counter(entries, call) # {}
  <2> DEFINE e == CHOOSE e \in live : TRUE
  <2>1. /\ Counter(entries, call) = {e} /\ e.count = n /\ e.end = WindowEnd(call)
        /\ e \in entries /\ n # 0
    BY <1>1, <1>2, TakenCount
  <2>2. done = IF e.count >= call.policy.limit
               THEN [holds |-> entries, says |-> Refused(RetryAfter(e.end, call))]
               ELSE [holds |-> (entries \ {e}) \union {Entry(call, e.end, e.count + 1)},
                     says |-> Counted(call, e.count + 1)]
    BY <1>1, <1>2 DEF MemoryConsume
  <2> HIDE DEF done, e, live, n
  <2>3. CASE n = call.policy.limit
    <3>1. done.holds = entries /\ done.says = Refused(RetryAfter(WindowEnd(call), call))
      BY <1>1, <2>1, <2>2, <2>3
    <3> QED BY <2>3, <3>1, ServesRefused DEF done, n
  <2>4. CASE n # call.policy.limit
    <3>1. ~ (n >= call.policy.limit)
      BY <1>1, <2>4
    <3>2. /\ done.holds = (entries \ {e}) \union {Entry(call, WindowEnd(call), n + 1)}
          /\ done.says = Counted(call, n + 1)
      BY <2>1, <2>2, <3>1
    <3>3. Live(entries \ {e}, call.now) = OtherCounters(entries, call)
      BY <2>1 DEF Live, OtherCounters
    <3>4. entries \ {e} \subseteq entries
      OBVIOUS
    <3>5. n = Taken(entries, call)
      BY DEF n
    <3>6. Serves(entries, policies, call, room, done)
      BY <2>1, <2>4, <3>2, <3>3, <3>4, <3>5, ServesCounted
    <3> QED BY <3>6 DEF done
  <2> QED BY <2>3, <2>4
<1>3. CASE Counter(entries, call) = {}
  <2>1. n = 0 /\ Mine(kept, call) = {} /\ OtherCounters(entries, call) = kept
    BY <1>1, <1>3, TakenCount DEF Mine, Live, OtherCounters
  <2>2. Live(kept, call.now) = kept /\ kept \subseteq entries
    BY DEF Live
  <2>3. done = IF ~ room THEN [holds |-> kept, says |-> Refused(call.policy.window)]
               ELSE [holds |-> kept \union {Entry(call, WindowEnd(call), 1)},
                     says |-> Counted(call, 1)]
    <3>1. kept \ Mine(kept, call) = kept /\ {e \in entries : e.end > call.now} = kept
      BY <2>1 DEF Live
    <3> HIDE DEF kept
    <3>2. ~ room <=> Cardinality(kept) >= maxEntries
      BY DEF kept
    <3> QED BY <1>1, <1>3, <3>1, <3>2 DEF MemoryConsume
  <2>4. WellKept(kept, policies, call.now)
    BY <2>2 DEF WellKept, Live
  <2> HIDE DEF done, kept, n
  <2>5. CASE ~ room
    <3>1. done.says = Refused(call.policy.window) /\ done.holds = kept
      BY <2>3, <2>5
    <3>2. Live(done.holds, call.now) = Live(entries, call.now) /\ n = Taken(entries, call)
      BY <2>2, <3>1 DEF kept, n
    <3>3. Serves(entries, policies, call, room, done)
      BY <2>1, <2>4, <2>5, <3>1, <3>2, ServesRefused
    <3> QED BY <3>3 DEF done
  <2>6. CASE room
    <3>1. done.says = Counted(call, n + 1)
          /\ done.holds = kept \union {Entry(call, WindowEnd(call), n + 1)}
      BY <2>1, <2>3, <2>6
    <3>2. n # call.policy.limit /\ n = Taken(entries, call)
      BY <1>1, <2>1 DEF n
    <3>3. Serves(entries, policies, call, room, done)
      BY <2>1, <2>2, <2>6, <3>1, <3>2, ServesCounted
    <3> QED BY <3>3 DEF done
  <2> QED BY <2>5, <2>6
<1> QED BY <1>2, <1>3

LEMMA PostgresServes ==
  ASSUME NEW rows, NEW policies, NEW call, NEW cleans \in BOOLEAN,
         CallOK(call, policies, call.now), WellKept(rows, policies, call.now)
  PROVE  Serves(rows, policies, call, TRUE, PostgresConsume(rows, call, cleans))
<1> DEFINE n == Taken(rows, call)
           kept == IF cleans THEN Live(rows, call.now) ELSE rows
           done == PostgresConsume(rows, call, cleans)
<1>1. call.policy.limit \in Nat \ {0} /\ n \in 0..call.policy.limit
  BY TakenCount DEF CallOK, PolicyOK
<1>2. kept \subseteq rows /\ Live(kept, call.now) = Live(rows, call.now)
      /\ WellKept(kept, policies, call.now)
  BY DEF Live, WellKept
<1>3. kept = IF cleans THEN {x \in rows : x.end > call.now} ELSE rows
  BY DEF Live
<1>4. {x \in Mine(rows, call) : x.end = WindowEnd(call)} = Counter(rows, call)
  BY DEF Counter
<1>5. CASE Counter(rows, call) # {}
  <2> DEFINE r == CHOOSE r \in Counter(rows, call) : TRUE
  <2>1. /\ Counter(rows, call) = {r} /\ r.count = n /\ r.end = WindowEnd(call)
        /\ r \in rows /\ n # 0
    BY <1>5, TakenCount
  <2> HIDE DEF kept, n
  <2>2. done = IF r.count < call.policy.limit
               THEN [holds |-> (kept \ {r}) \union {Entry(call, WindowEnd(call), r.count + 1)},
                     says |-> Counted(call, r.count + 1)]
               ELSE [holds |-> kept, says |-> Refused(RetryAfter(WindowEnd(call), call))]
    BY <1>3, <1>4, <1>5 DEF PostgresConsume
  <2> HIDE DEF done, r
  <2>3. CASE n = call.policy.limit
    <3>1. done.holds = kept /\ done.says = Refused(RetryAfter(WindowEnd(call), call))
      BY <1>1, <2>1, <2>2, <2>3
    <3>2. n = Taken(rows, call)
      BY DEF n
    <3>3. Serves(rows, policies, call, TRUE, done)
      BY <1>2, <2>3, <3>1, <3>2, ServesRefused
    <3> QED BY <3>3 DEF done
  <2>4. CASE n # call.policy.limit
    <3>1. n < call.policy.limit
      BY <1>1, <2>4
    <3>2. /\ done.holds = (kept \ {r}) \union {Entry(call, WindowEnd(call), n + 1)}
          /\ done.says = Counted(call, n + 1)
      BY <2>1, <2>2, <3>1
    <3>3. Live(kept \ {r}, call.now) = OtherCounters(rows, call)
      BY <1>2, <2>1 DEF Live, OtherCounters
    <3>4. kept \ {r} \subseteq rows /\ n = Taken(rows, call)
      BY <1>2 DEF n
    <3>5. Serves(rows, policies, call, TRUE, done)
      BY <2>4, <3>2, <3>3, <3>4, ServesCounted
    <3> QED BY <3>5 DEF done
  <2> QED BY <2>3, <2>4
<1>6. CASE Counter(rows, call) = {}
  <2>1. n = 0 /\ n # call.policy.limit
    BY <1>1, <1>6, TakenCount
  <2> HIDE DEF kept, n
  <2>2. done.holds = kept \union {Entry(call, WindowEnd(call), n + 1)}
        /\ done.says = Counted(call, n + 1)
    <3>1. done = [holds |-> kept \union {Entry(call, WindowEnd(call), 1)},
                  says |-> Counted(call, 1)]
      BY <1>3, <1>4, <1>6 DEF PostgresConsume
    <3> QED BY <2>1, <3>1
  <2>3. Live(kept, call.now) = OtherCounters(rows, call) /\ n = Taken(rows, call)
    BY <1>2, <1>6 DEF OtherCounters, n
  <2> HIDE DEF done
  <2>4. Serves(rows, policies, call, TRUE, done)
    BY <1>2, <2>1, <2>2, <2>3, ServesCounted
  <2> QED BY <2>4 DEF done
<1> QED BY <1>5, <1>6

--------------------------------------------------------------------------------
(* The theorems.                                                           *)

\* A call takes one of what its window still has to give, or is refused and takes nothing;
\* what other callers have taken is untouched.  So no window gives more than its limit, in
\* either limiter, whatever the statement cleans and however full the map is.
THEOREM LimitHolds ==
  ASSUME NEW entries, NEW policies, NEW call, NEW now \in Nat, CallOK(call, policies, now),
         WellKept(entries, policies, now), NEW maxEntries, NEW cleans \in BOOLEAN,
         NEW done \in {MemoryConsume(entries, call, maxEntries),
                       PostgresConsume(entries, call, cleans)}
  PROVE  /\ WellKept(done.holds, policies, call.now)
         /\ Taken(done.holds, call) \in 0..call.policy.limit
         /\ IF done.says.allowed
            THEN /\ Taken(done.holds, call) = Taken(entries, call) + 1
                 /\ done.says.remaining = call.policy.limit - Taken(done.holds, call)
            ELSE Taken(done.holds, call) = Taken(entries, call)
         /\ OtherCounters(done.holds, call) = OtherCounters(entries, call)
<1>1. WellKept(entries, policies, call.now) /\ CallOK(call, policies, call.now)
  BY Later DEF CallOK
<1>2. PICK room \in BOOLEAN : Serves(entries, policies, call, room, done)
  <2>1. PICK room \in BOOLEAN : room <=> ~ (Cardinality(Live(entries, call.now)) >= maxEntries)
    OBVIOUS
  <2>2. Serves(entries, policies, call, room, MemoryConsume(entries, call, maxEntries))
    BY <1>1, <2>1, MemoryServes
  <2>3. Serves(entries, policies, call, TRUE, PostgresConsume(entries, call, cleans))
    BY <1>1, PostgresServes
  <2> QED BY <2>2, <2>3
<1>3. WellKept(done.holds, policies, call.now)
  BY <1>2 DEF Serves
<1>4. Taken(done.holds, call) \in 0..call.policy.limit
  BY <1>1, <1>3, TakenCount
<1> DEFINE n == Taken(entries, call)
<1>5. CASE n < call.policy.limit /\ (n > 0 \/ room)
  <2>1. /\ done.says = Counted(call, n + 1) /\ Taken(done.holds, call) = n + 1
        /\ OtherCounters(done.holds, call) = OtherCounters(entries, call)
    BY <1>2, <1>5 DEF Serves
  <2> HIDE DEF n
  <2>2. done.says.allowed /\ done.says.remaining = call.policy.limit - (n + 1)
    BY <2>1 DEF Counted, Decision
  <2> QED BY <1>3, <1>4, <2>1, <2>2 DEF n
<1>6. CASE ~ (n < call.policy.limit /\ (n > 0 \/ room))
  <2>1. PICK seconds : done.says = Refused(seconds)
    BY <1>2, <1>6 DEF Serves
  <2>2. Live(done.holds, call.now) = Live(entries, call.now)
    BY <1>2, <1>6 DEF Serves
  <2>3. /\ Taken(done.holds, call) = Taken(entries, call)
        /\ OtherCounters(done.holds, call) = OtherCounters(entries, call)
    BY <1>1, <1>3, <2>2, TakenLive
  <2>4. ~ done.says.allowed
    BY <2>1 DEF Refused, Decision
  <2> QED BY <1>3, <1>4, <2>3, <2>4
<1> QED BY <1>5, <1>6

\* The two limiters give the same answer to a call and stay alike, whatever the statement
\* cleans, as long as the map has room: an application may exchange one for the other.
THEOREM LimitersAgree ==
  ASSUME NEW entries, NEW rows, NEW policies, NEW call, NEW now \in Nat,
         CallOK(call, policies, now), WellKept(entries, policies, now),
         WellKept(rows, policies, now), Live(entries, now) = Live(rows, now),
         NEW maxEntries, ~ (Cardinality(Live(entries, call.now)) >= maxEntries),
         NEW cleans \in BOOLEAN
  PROVE  LET memory == MemoryConsume(entries, call, maxEntries)
             postgres == PostgresConsume(rows, call, cleans) IN
         /\ memory.says = postgres.says
         /\ Live(memory.holds, call.now) = Live(postgres.holds, call.now)
<1> DEFINE memory == MemoryConsume(entries, call, maxEntries)
           postgres == PostgresConsume(rows, call, cleans)
<1>1. /\ WellKept(entries, policies, call.now) /\ WellKept(rows, policies, call.now)
      /\ CallOK(call, policies, call.now)
  BY Later DEF CallOK
<1>2. Live(entries, call.now) = Live(rows, call.now)
  BY Later DEF CallOK
<1>3. /\ Taken(entries, call) = Taken(rows, call)
      /\ OtherCounters(entries, call) = OtherCounters(rows, call)
  BY <1>1, <1>2, TakenLive
<1>4. Serves(entries, policies, call, TRUE, memory)
  BY <1>1, MemoryServes
<1>5. Serves(rows, policies, call, TRUE, postgres)
  BY <1>1, PostgresServes
<1> HIDE DEF memory, postgres
<1>6. memory.says = postgres.says /\ Live(memory.holds, call.now) = Live(postgres.holds, call.now)
  BY <1>2, <1>3, <1>4, <1>5 DEF Serves
<1> QED BY <1>6 DEF memory, postgres
================================================================================
