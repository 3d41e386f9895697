---------------------------- MODULE RateLimits ----------------------------
(***************************************************************************)
(* The limits on requests (src/src/infrastructure/security/rate_limit.py). *)
(* Every process answers with its own sliding windows or, when it started  *)
(* with Redis at hand, with fixed windows that all share; each call that   *)
(* Redis does not answer falls to a counter of the process.                *)
(*                                                                         *)
(* A request is charged to its address, and one that transcribes a voice   *)
(* to its user and its company as well.  The rest of the policies differ   *)
(* in their names, limits and windows, and the lives of the processes and  *)
(* of Redis are left out: who restarts forgets.                            *)
(***************************************************************************)
EXTENDS Integers, Sequences, FiniteSets, FiniteSetsExt, Functions

CONSTANTS Hosts,         \* processes of the API
          Slots,         \* requests each moment
          Users, CompanyOf,  \* the company of each user; all share one address
          Limit,         \* of each policy
          Span,          \* ventana_s of them all
          MaxKeys,       \* max_keys of a RateLimiter
          MaxTime,       \* bound of the clock
          MaxFailures,   \* bound of the calls Redis does not answer
          NoRequest

VARIABLES now,
          mode,        \* "memory" or "redis", of each process
          buckets,     \* of each process: the times admitted, by key
          shared,      \* the counters in Redis
          fallback,    \* the counters of each process, for when Redis fails
          failures,    \* how many calls Redis has not answered
          checking,     \* what each slot is being checked for
          log          \* ghost: who was let through in the window, by process and key

rateVars == <<now, mode, buckets, shared, fallback, failures, checking, log>>

Policies == {"api_ip", "voice_user", "voice_tenant"}

RatesAssumption ==
    /\ IsFiniteSet(Hosts) /\ MaxKeys \in Nat /\ Span \in Nat \ {0}
    /\ Limit \in [Policies -> Nat]

Keys == ({"api_ip"} \X {"office"}) \union ({"voice_user"} \X Users)
        \union ({"voice_tenant"} \X {CompanyOf[u] : u \in Users})

LimitOf(k) == Limit[k[1]]

ByAddress == <<"api_ip", "office">>

\* The policies of a transcription, after the one of the address.
Voice(u) == <<<<"voice_user", u>>, <<"voice_tenant", CompanyOf[u]>>>>

-----------------------------------------------------------------------------
\* Mutant: a bucket is dropped when its first entry is old.
StaleByFirst(q) == q = <<>> \/ q[1] <= now - Span

Stale(q) == q = <<>> \/ q[Len(q)] <= now - Span

\* The sweep, once the table is full or every so many calls.
Swept(b, sweep) ==
    LET live == IF sweep \/ Cardinality(DOMAIN b) >= MaxKeys
                THEN {k \in DOMAIN b : ~Stale(b[k])} ELSE DOMAIN b
    IN  [k \in live |-> b[k]]

\* What is left of a bucket once the first of it are dropped up to a moment.
After(q, cut) ==
    SubSeq(q, Min({i \in 1 .. Len(q) + 1 : i <= Len(q) => q[i] > cut}), Len(q))

Window(q) == After(q, now - Span)

Put(b, k, q) == [x \in DOMAIN b \union {k} |-> IF x = k THEN q ELSE b[x]]

\* Whoever is let through for a key, told apart from those before.
Entry(h, k, at, who) == [at |-> at, who |-> who, nth |-> Cardinality(log[h][k]) + 1]

\* RateLimiter.permitir of the entry e, over what the process keeps.
Permitir(s, k, e, sweep) ==
    LET b == Swept(s.buckets, sweep)
        q == IF k \in DOMAIN b THEN Window(b[k]) ELSE <<>>
    IN  IF k \notin DOMAIN b /\ Cardinality(DOMAIN b) >= MaxKeys
        THEN [s EXCEPT !.ok = FALSE, !.buckets = b]
        ELSE IF Len(q) >= LimitOf(k)
        THEN [s EXCEPT !.ok = FALSE, !.buckets = Put(b, k, q)]
        ELSE [s EXCEPT !.buckets = Put(b, k, Append(q, now)),
                       !.log[k] = @ \union {e}]

Of(h) == [ok |-> TRUE, buckets |-> buckets[h], log |-> log[h]]

\* The checks of a transcription in a process of its own: the company after the
\* user, and nothing comes in between.
Charged(h, u, sweep) ==
    LET e == Entry(h, Voice(u)[1], now, u)
        s == Permitir(Of(h), Voice(u)[1], e, sweep)
    IN  IF s.ok THEN Permitir(s, Voice(u)[2], e, sweep) ELSE s

\* RateLimitMiddleware: the address first, and then the body is awaited.
Arrive(r, h, u, sweep) ==
    /\ checking[r] = NoRequest /\ mode[h] = "memory"
    /\ LET s == Permitir(Of(h), ByAddress, Entry(h, ByAddress, now, u), sweep)
       IN  /\ buckets' = [buckets EXCEPT ![h] = s.buckets]
           /\ log' = [log EXCEPT ![h] = s.log]
           /\ checking' = IF s.ok THEN [checking EXCEPT ![r] =
                              [host |-> h, user |-> u, left |-> Voice(u)]] ELSE checking
    /\ UNCHANGED <<now, mode, shared, fallback, failures>>

Check(r, sweep) ==
    /\ checking[r] # NoRequest /\ mode[checking[r].host] = "memory"
    /\ LET h == checking[r].host
           s == Charged(h, checking[r].user, sweep)
       IN  /\ buckets' = [buckets EXCEPT ![h] = s.buckets]
           /\ log' = [log EXCEPT ![h] = s.log]
    /\ checking' = [checking EXCEPT ![r] = NoRequest]
    /\ UNCHANGED <<now, mode, shared, fallback, failures>>

-----------------------------------------------------------------------------
Fixed(t) == t \div Span

\* INCR of a key that names its window; past the limit the count says no more.
Incremented(count, k) == IF count > LimitOf(k) THEN count ELSE count + 1

\* The count that answers, of Redis or of the process, is within the limit.
Passed(h, k, answer) ==
    Incremented(IF answer = "counted" THEN shared[k] ELSE fallback[h][k], k) <= LimitOf(k)

\* RedisRateLimiter.permitir: Redis counts and answers, counts and its answer
\* is lost, or is down; then the process counts.
Count(h, k, answer) ==
    /\ answer # "counted" => failures < MaxFailures
    /\ failures' = IF answer = "counted" THEN failures ELSE failures + 1
    /\ shared' = IF answer = "down" THEN shared
                 ELSE [shared EXCEPT ![k] = Incremented(@, k)]
    /\ fallback' = IF answer = "counted" THEN fallback
                   ELSE [fallback EXCEPT ![h][k] = Incremented(@, k)]
    /\ log' = IF Passed(h, k, answer)
              THEN [log EXCEPT ![h][k] = @ \union {Entry(h, k, Fixed(now), "anyone")}]
              ELSE log
    /\ UNCHANGED <<now, mode, buckets>>

Answers == {"counted", "lost", "down"}

ArriveShared(r, h, u, answer) ==
    /\ checking[r] = NoRequest /\ mode[h] = "redis"
    /\ Count(h, ByAddress, answer)
    /\ checking' = IF Passed(h, ByAddress, answer)
                   THEN [checking EXCEPT ![r] = [host |-> h, user |-> u, left |-> Voice(u)]]
                   ELSE checking

CheckShared(r, answer) ==
    /\ checking[r] # NoRequest /\ mode[checking[r].host] = "redis"
    /\ LET h == checking[r].host
           k == Head(checking[r].left)
       IN  /\ Count(h, k, answer)
           /\ checking' = IF Passed(h, k, answer) /\ Len(checking[r].left) > 1
                          THEN [checking EXCEPT ![r].left = Tail(@)]
                          ELSE [checking EXCEPT ![r] = NoRequest]

\* Time passes; the log keeps the window that counts, and the counters whose
\* key names a window gone are never read again.
Kept(h, e) == IF mode[h] = "memory" THEN e.at > now + 1 - Span
              ELSE e.at = Fixed(now + 1)

Tick ==
    /\ now < MaxTime
    /\ now' = now + 1
    /\ log' = [h \in Hosts |-> [k \in Keys |-> {e \in log[h][k] : Kept(h, e)}]]
    /\ shared' = [k \in Keys |-> IF Fixed(now') = Fixed(now) THEN shared[k] ELSE 0]
    /\ fallback' = [h \in Hosts |-> [k \in Keys |->
                      IF Fixed(now') = Fixed(now) THEN fallback[h][k] ELSE 0]]
    /\ UNCHANGED <<mode, buckets, failures, checking>>

-----------------------------------------------------------------------------
\* crear_limitador: whoever does not reach Redis at the start never looks again.
RateInit ==
    /\ now \in 0 .. Span - 1
    /\ mode \in [Hosts -> {"memory", "redis"}]
    /\ buckets = [h \in Hosts |-> <<>>]
    /\ shared = [k \in Keys |-> 0]
    /\ fallback = [h \in Hosts |-> [k \in Keys |-> 0]]
    /\ failures = 0
    /\ checking = [r \in Slots |-> NoRequest]
    /\ log = [h \in Hosts |-> [k \in Keys |-> {}]]

RateNext ==
    \/ Tick
    \/ \E r \in Slots :
        \/ \E h \in Hosts, u \in Users :
            \/ \E sweep \in BOOLEAN : Arrive(r, h, u, sweep)
            \/ \E answer \in Answers : ArriveShared(r, h, u, answer)
        \/ \E sweep \in BOOLEAN : Check(r, sweep)
        \/ \E answer \in Answers : CheckShared(r, answer)

RateSpec == RateInit /\ [][RateNext]_rateVars

-----------------------------------------------------------------------------
Through(hosts, k) == SumFunctionOnSet([h \in hosts |-> Cardinality(log[h][k])], hosts)

FellBack(k) == {h \in Hosts : fallback[h][k] > 0}

\* In any stretch of Span a process of its own lets through no more than the
\* limit of a key, swept or not; the ones that share Redis no more than that
\* between them in its window, and as many again for each that fell back.
LimitsKept ==
    \A k \in Keys :
        /\ \A h \in Hosts : mode[h] = "memory" => Cardinality(log[h][k]) <= LimitOf(k)
        /\ Through({h \in Hosts : mode[h] = "redis"}, k)
               <= LimitOf(k) * (1 + Cardinality(FellBack(k)))

\* Nobody takes the whole voice quota of the company: what one user draws from
\* it stays within the user's own, however many requests are refused.
SharedSpared ==
    \A h \in Hosts, u \in Users : mode[h] = "memory" =>
        Cardinality({e \in log[h][<<"voice_tenant", CompanyOf[u]>>] : e.who = u})
            <= Limit["voice_user"]

\* A process keeps no more keys than it was given room for.
TableBounded == \A h \in Hosts : Cardinality(DOMAIN buckets[h]) <= MaxKeys

=============================================================================
