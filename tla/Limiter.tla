------------------------------ MODULE Limiter -------------------------------
(***************************************************************************)
(* The rate limiters of cache/limiter: the token bucket of rate_limiter.go *)
(* (NewLimiter: one Limiter that callers share), LocalRateLimiter, which   *)
(* keeps one Limiter per resource in a local cache from where it expires,  *)
(* and RedisRateLimiter, whose bucket is a hash in Redis.                  *)
(*                                                                         *)
(* Time is counted in ticks and tokens in parts: TokenParts of them are a  *)
(* token and every tick brings one, so that the float64 arithmetic of the  *)
(* code is exact here.  Every caller reads the clock before it takes the   *)
(* mutex of the Limiter (or Redis takes its script), so a call may come    *)
(* with a time earlier than that of the call before it.                    *)
(***************************************************************************)
EXTENDS Integers, Sequences

CONSTANTS
  Callers,
  Burst,       \* Option.Bucket, the burst of a Limiter, in tokens
  TokenParts,  \* 1 / Option.Limit, in ticks
  Expire,      \* Option.Expire, in ticks
  WaitLimits,  \* how long the context of a Wait leaves it to wait
  MaxNow,      \* bound on the clock
  MaxAsks      \* bound on the calls

ASSUME LimiterAssumption ==
  /\ Burst \in Nat \ {0} /\ TokenParts \in Nat \ {0} /\ Expire \in Nat
  /\ WaitLimits \subseteq Nat /\ MaxNow \in Nat /\ MaxAsks \in Nat

VARIABLES
  option,   \* which limiter: "limiter", "infinite" (limit Inf), "local" or "redis"
  now,      \* the clock
  lims,     \* the Limiters made, the later ones by LocalRateLimiter
  cached,   \* LocalRateLimiter's cache entry: a Limiter and when it expires
  redis,    \* the hash: last_request_time and surplus_token
  caller,   \* the callers
  granted,  \* the events permitted: by which Limiter, at what time, how many parts
  asks      \* the calls made

limiterVars == <<option, now, lims, cached, redis, caller, granted, asks>>

Full == Burst * TokenParts
Least(a, b) == IF a < b THEN a ELSE b
Later(a, b) == IF a > b THEN a ELSE b

-----------------------------------------------------------------------------
(* rate_limiter.go.  back, excess and cancels only count: the time that    *)
(* last has been set back by, the time by which lastEvent was not the      *)
(* latest event when a wait was cancelled, and the waits cancelled.        *)

\* Faulty: the bucket fills from the moment it is made.
NewLimiterEmpty(made) == [tokens |-> 0, last |-> made, lastEvent |-> made,
                          made |-> made, back |-> 0, excess |-> 0, cancels |-> 0]
\* tokens is 0 and last the zero time: so long ago that the bucket is full.
NewLimiter(made) == [tokens |-> 0, last |-> -Full, lastEvent |-> -Full,
                     made |-> made, back |-> 0, excess |-> 0, cancels |-> 0]

advance(lim, t) ==
  LET last == Least(lim.last, t)
      elapsed == Least(t - last, Full - lim.tokens)
  IN  [last |-> last, tokens |-> Least(lim.tokens + elapsed, Full)]

SetBack(lim, t) == lim.back + Later(lim.last - t, 0)

reserveN(lim, t, n, maxFutureReserve) ==
  LET adv == advance(lim, t)
      tokens == adv.tokens - n * TokenParts
      wait == Later(-tokens, 0)
      ok == n <= Burst /\ wait <= maxFutureReserve
  IN  IF option = "infinite"
      THEN [ok |-> TRUE, act |-> t, n |-> n, lim |-> lim]
      ELSE [ok |-> ok, act |-> t + wait, n |-> n,
            lim |-> IF ok THEN [lim EXCEPT !.tokens = tokens, !.last = t, !.lastEvent = t + wait,
                                           !.back = SetBack(lim, t)]
                    ELSE [lim EXCEPT !.last = adv.last, !.back = SetBack(lim, t)]]

\* What was reserved after r is not restored with it: CancelAt counts it by the
\* time from r to lastEvent.  latest is the time of the latest event granted.
CancelAt(lim, r, t, latest) ==
  LET restore == r.n * TokenParts - (lim.lastEvent - r.act)
      adv == advance(lim, t)
      prevEvent == r.act - r.n * TokenParts
  IN  IF r.act < t \/ restore <= 0 THEN lim
      ELSE [lim EXCEPT !.tokens = Least(adv.tokens + restore, Full), !.last = t,
                       !.lastEvent = IF r.act = @ /\ prevEvent >= t THEN prevEvent ELSE @,
                       !.back = SetBack(lim, t), !.excess = @ + Later(latest - lim.lastEvent, 0)]

-----------------------------------------------------------------------------
(* The callers. *)

NoReservation == [act |-> 0, n |-> 0, event |-> 0]
Idle == [pc |-> "idle", op |-> "", lim |-> 0, n |-> 0, max |-> 0, t |-> 0,
         r |-> NoReservation, answer |-> ""]

InitLimiter ==
  /\ option \in {"limiter", "infinite", "local", "redis"}
  /\ now = 0
  /\ lims = IF option \in {"limiter", "infinite"} THEN <<NewLimiter(0)>> ELSE <<>>
  /\ cached = [lim |-> 0, until |-> 0]
  /\ redis = <<>>
  /\ caller = [c \in Callers |-> Idle]
  /\ granted = <<>>
  /\ asks = 0
IdleLimiter ==
  /\ option = "idle" /\ now = 0 /\ lims = <<>> /\ cached = [lim |-> 0, until |-> 0] /\ redis = <<>>
  /\ caller = [c \in Callers |-> Idle] /\ granted = <<>> /\ asks = 0

\* The entry is there until the clock is past its time.
Cached == IF cached.lim # 0 /\ now <= cached.until THEN cached.lim ELSE 0

Called(c, call) ==
  /\ caller[c].pc = "idle" /\ asks < MaxAsks
  /\ caller' = [caller EXCEPT ![c] = call]
  /\ asks' = asks + 1
  /\ UNCHANGED <<option, now, lims, cached, redis, granted>>

\* AllowN reads the clock before it takes the mutex.
AllowN(c) == \E n \in 1..Burst + 1 :
  /\ option \in {"limiter", "infinite"}
  /\ Called(c, [Idle EXCEPT !.pc = "reserve", !.op = "Allow", !.lim = 1, !.n = n, !.t = now])
\* WaitN too; its context may be over, and n be more than the burst.
WaitN(c) == \E n \in 1..Burst + 1, max \in WaitLimits :
  /\ option \in {"limiter", "infinite"}
  /\ Called(c, IF n > Burst /\ option # "infinite" THEN [Idle EXCEPT !.answer = "refused", !.n = n]
               ELSE [Idle EXCEPT !.pc = "reserve", !.op = "Wait", !.lim = 1, !.n = n,
                                 !.max = max, !.t = now])
WaitNContextOver(c) ==
  /\ option \in {"limiter", "infinite"}
  /\ Called(c, [Idle EXCEPT !.answer = "cancelled"])
\* LocalRateLimiter.Allow: the first look in the cache is without the mutex.
\* An empty resource is refused.
LocalAllow(c) ==
  /\ option = "local"
  /\ \/ Called(c, [Idle EXCEPT !.pc = IF Cached = 0 THEN "miss" ELSE "found", !.lim = Cached, !.n = 1])
     \/ Called(c, [Idle EXCEPT !.answer = "unnamed"])
RedisAllow(c) ==
  /\ option = "redis"
  /\ Called(c, [Idle EXCEPT !.pc = "script", !.n = 1, !.t = now])

\* Faulty: no second look under the mutex.
getLimiterUnchecked(c) ==
  /\ lims' = Append(lims, NewLimiter(now))
  /\ cached' = [lim |-> Len(lims) + 1, until |-> now + Expire]
  /\ caller' = [caller EXCEPT ![c].pc = "found", ![c].lim = Len(lims) + 1]
\* Under the mutex: the second look, and the new Limiter that is Put.
getLimiter(c) ==
  IF Cached # 0
  THEN /\ caller' = [caller EXCEPT ![c].pc = "found", ![c].lim = Cached]
       /\ UNCHANGED <<lims, cached>>
  ELSE /\ lims' = Append(lims, NewLimiter(now))
       /\ cached' = [lim |-> Len(lims) + 1, until |-> now + Expire]
       /\ caller' = [caller EXCEPT ![c].pc = "found", ![c].lim = Len(lims) + 1]
GetLimiter(c) ==
  /\ caller[c].pc = "miss"
  /\ getLimiter(c)
  /\ UNCHANGED <<option, now, redis, granted, asks>>
LimiterAllow(c) ==
  /\ caller[c].pc = "found"
  /\ caller' = [caller EXCEPT ![c].pc = "reserve", ![c].op = "Allow", ![c].t = now]
  /\ UNCHANGED <<option, now, lims, cached, redis, granted, asks>>

\* An event whose wait is cancelled has no parts any more.
Event(lim, at, n) == [lim |-> lim, at |-> at, parts |-> n * TokenParts]
GrantTimes(l) == {granted[i].at : i \in {j \in DOMAIN granted : granted[j].lim = l /\ granted[j].parts > 0}}

Reserve(c) ==
  LET me == caller[c]
      r == reserveN(lims[me.lim], me.t, me.n, me.max)
  IN  /\ me.pc = "reserve"
      /\ lims' = [lims EXCEPT ![me.lim] = r.lim]
      /\ granted' = IF r.ok /\ option # "infinite" THEN Append(granted, Event(me.lim, r.act, me.n))
                    ELSE granted
      /\ caller' = [caller EXCEPT ![c] =
           IF r.ok /\ r.act > me.t
           THEN [me EXCEPT !.pc = "wait", !.r = [act |-> r.act, n |-> r.n, event |-> Len(granted')]]
           ELSE IF r.ok THEN [Idle EXCEPT !.answer = "granted"]
           ELSE [me EXCEPT !.pc = "idle", !.answer = "refused"]]
      /\ UNCHANGED <<option, now, cached, redis, asks>>

TimerFires(c) ==
  /\ caller[c].pc = "wait" /\ now >= caller[c].r.act
  /\ caller' = [caller EXCEPT ![c] = [Idle EXCEPT !.answer = "granted"]]
  /\ UNCHANGED <<option, now, lims, cached, redis, granted, asks>>
\* The context is over first: Cancel reads the clock, then takes the mutex.
ContextDone(c) ==
  /\ caller[c].pc = "wait"
  /\ caller' = [caller EXCEPT ![c].pc = "cancel", ![c].t = now]
  /\ UNCHANGED <<option, now, lims, cached, redis, granted, asks>>
Cancel(c) ==
  LET me == caller[c]
      times == GrantTimes(me.lim)
      latest == CHOOSE a \in times : \A b \in times : b <= a
      restored == CancelAt(lims[me.lim], me.r, me.t, latest)
  IN  /\ me.pc = "cancel"
      /\ lims' = [lims EXCEPT ![me.lim] = [restored EXCEPT !.cancels = @ + 1]]
      /\ granted' = [granted EXCEPT ![me.r.event].parts = 0]
      /\ caller' = [caller EXCEPT ![c] = [Idle EXCEPT !.answer = "cancelled"]]
      /\ UNCHANGED <<option, now, cached, redis, asks>>

-----------------------------------------------------------------------------
(* rate_limiter_redis.go. *)

\* limiterScript: only a request that passes is written.
limiterScript(hash, t) ==
  LET past == IF hash = <<>> THEN 0 ELSE Later(t - hash.last, 0)
      last == IF hash = <<>> THEN t ELSE hash.last
      surplus == IF hash = <<>> THEN Burst
                 ELSE Least(hash.surplus + past \div TokenParts, Burst)
  IN  IF surplus > 0
      THEN [status |-> 1, hash |-> [last |-> last + past, surplus |-> surplus - 1]]
      ELSE [status |-> 0, hash |-> hash]

\* The script runs, and its answer may be lost: Allow then says no.
RunScript(c) == \E lost \in BOOLEAN :
  LET res == limiterScript(redis, caller[c].t)
  IN  /\ caller[c].pc = "script"
      /\ redis' = res.hash
      /\ granted' = IF res.status = 1 THEN Append(granted, Event(0, res.hash.last, 1)) ELSE granted
      /\ caller' = [caller EXCEPT ![c].pc = "idle",
                      ![c].answer = IF lost THEN "failed"
                                    ELSE IF res.status = 1 THEN "granted" ELSE "refused"]
      /\ UNCHANGED <<option, now, lims, cached, asks>>
\* No client, no connection, or a script that fails.
RedisFails(c) ==
  /\ caller[c].pc = "script"
  /\ caller' = [caller EXCEPT ![c] = [Idle EXCEPT !.answer = "failed"]]
  /\ UNCHANGED <<option, now, lims, cached, redis, granted, asks>>

TimePasses ==
  /\ option # "idle" /\ now < MaxNow
  /\ now' = now + 1
  /\ UNCHANGED <<option, lims, cached, redis, caller, granted, asks>>

NextLimiter ==
  \/ \E c \in Callers :
       \/ AllowN(c) \/ WaitN(c) \/ WaitNContextOver(c) \/ LocalAllow(c) \/ RedisAllow(c)
       \/ GetLimiter(c) \/ LimiterAllow(c) \/ Reserve(c)
       \/ TimerFires(c) \/ ContextDone(c) \/ Cancel(c)
       \/ RunScript(c) \/ RedisFails(c)
  \/ TimePasses

LimiterSpec == InitLimiter /\ [][NextLimiter]_limiterVars

-----------------------------------------------------------------------------
(* What a limiter promises. *)

SumOf(w) ==
  LET sum[i \in 0..Len(w)] == IF i = 0 THEN 0 ELSE sum[i - 1] + w[i]
  IN  sum[Len(w)]

\* The parts that limiter l granted from time s to time t.
Parts(l, s, t) ==
  [i \in 1..Len(granted) |-> IF granted[i].lim = l /\ s <= granted[i].at /\ granted[i].at <= t
                             THEN granted[i].parts ELSE 0]
Granted(l, s, t) == SumOf(Parts(l, s, t))
\* What its events from time s on cost; Redis takes up to two tokens, less a part, for one.
Costs(l, s) ==
  [i \in 1..Len(granted) |-> IF granted[i].lim # l \/ granted[i].at < s THEN 0
                             ELSE IF l = 0 THEN 2 * TokenParts - 1 ELSE granted[i].parts]
CostSince(l, s) == SumOf(Costs(l, s))
Late(l) == IF l = 0 THEN 0 ELSE lims[l].back + lims[l].excess

(***************************************************************************)
(* RateRespected: in any stretch of time a bucket grants no more than its  *)
(* burst and what the rate brings in that stretch, whatever the order in   *)
(* which concurrent callers, who read the clock before the lock, get to    *)
(* it, and however many waits are cancelled; a Limiter is off by no more   *)
(* than the time by which such callers set it back and the time by which   *)
(* lastEvent, set back by them too, was not the latest event when a wait   *)
(* was cancelled; the Redis script is not off at all.                      *)
(* And LocalRateLimiter hands out a fresh, full bucket only when the one   *)
(* before it has expired, also when several callers miss it together.      *)
(***************************************************************************)
RateRespected ==
  /\ \A l \in 0..Len(lims) : \A s, t \in GrantTimes(l) :
       s <= t => Granted(l, s, t) <= Full + (t - s) + Late(l)
  /\ \A i, j \in DOMAIN lims : i < j => lims[j].made > lims[i].made + Expire

(***************************************************************************)
(* NoNeedlessRefusal: a bucket refuses a call only if with it some stretch *)
(* up to the time of the call would hold more than the burst and the rate  *)
(* allow (no wait being cancelled, which restores less than it took); the  *)
(* Redis script, which rounds down what time brings and forgets the rest,  *)
(* counts less than two tokens for one; a limit of Inf refuses nothing.    *)
(***************************************************************************)
Justified(me) ==
  /\ option # "infinite"
  /\ \/ me.n > Burst
     \/ \E s \in GrantTimes(me.lim) :
          CostSince(me.lim, s) + me.n * TokenParts > Full + me.max + (me.t - s)
     \/ me.lim # 0 /\ lims[me.lim].cancels > 0
NoNeedlessRefusal ==
  \A c \in Callers : caller[c].answer = "refused" => Justified(caller[c])

-----------------------------------------------------------------------------
(* What the promises rest on: an inductive invariant of LimiterSpec. *)

Options == {"limiter", "infinite", "local", "redis"}
Bucket == [tokens : Int, last : Int, lastEvent : Int, made : Nat,
           back : Nat, excess : Nat, cancels : Nat]
Events == [lim : Nat, at : Int, parts : Nat]
Hash == [last : Nat, surplus : Nat]
Steps == {"idle", "miss", "found", "reserve", "wait", "cancel", "script"}
Ops == {"", "Allow", "Wait"}
Answers == {"", "refused", "cancelled", "unnamed", "granted", "failed"}
Reservation == [act : Int, n : Nat, event : Nat]
Call == [pc : Steps, op : Ops, lim : Nat, n : Nat, max : Nat, t : Nat,
         r : Reservation, answer : Answers]

LimiterTypeOK ==
  /\ option \in Options /\ now \in Nat /\ asks \in Nat
  /\ lims \in Seq(Bucket) /\ cached \in [lim : Nat, until : Nat]
  /\ redis = <<>> \/ redis \in Hash
  /\ caller \in [Callers -> Call]
  /\ granted \in Seq(Events)

\* Which limiters there are: NewLimiter's one, or those LocalRateLimiter made,
\* of which the last is cached; each made after the one before it expired.
LimitersMade ==
  /\ option \in {"limiter", "infinite"} => Len(lims) = 1
  /\ option = "redis" => Len(lims) = 0
  /\ cached.lim = IF option = "local" THEN Len(lims) ELSE 0
  /\ option = "local" /\ Len(lims) > 0 => cached.until = lims[Len(lims)].made + Expire
  /\ \A i \in DOMAIN lims : lims[i].tokens <= Full
  /\ \A i, j \in DOMAIN lims : i < j => lims[j].made > lims[i].made + Expire

\* A call is for a limiter there is; a wait holds an event of its own.
InOrder(me) ==
  /\ me.pc \in {"miss", "found"} => option = "local" /\ me.n = 1 /\ me.max = 0
  /\ me.pc \in {"found", "reserve"} => me.lim \in DOMAIN lims /\ me.n > 0
  /\ me.pc = "reserve" => option \in {"limiter", "infinite"} \/ (option = "local" /\ me.max = 0)
  /\ me.pc = "script" => option = "redis" /\ me.lim = 0 /\ me.n = 1 /\ me.max = 0
  /\ me.pc # "idle" => me.answer = ""
  /\ me.answer = "refused" /\ me.lim = 0 => me.n > Burst \/ option = "redis"
  /\ me.lim \in 0..Len(lims)
Waiting(me) == me.pc \in {"wait", "cancel"}
HoldsEvent(me) ==
  /\ option = "limiter" /\ me.lim = 1 /\ me.r.n \in 1..Burst
  /\ me.r.event \in DOMAIN granted
  /\ granted[me.r.event] = Event(1, me.r.act, me.r.n)
CallsInOrder ==
  /\ \A c \in Callers : InOrder(caller[c]) /\ (Waiting(caller[c]) => HoldsEvent(caller[c]))
  /\ \A c, d \in Callers : c # d /\ Waiting(caller[c]) /\ Waiting(caller[d])
                            => caller[c].r.event # caller[d].r.event

\* Of a limiter there is; the times of Redis do not run back.
EventsInOrder ==
  \A i \in DOMAIN granted :
    /\ granted[i].lim \in 0..Len(lims)
    /\ granted[i].lim = 0 => redis # <<>> /\ granted[i].at <= redis.last

\* When the bucket is empty, given what it is late by.
Emptied(lim) == lim.last - lim.tokens
EmptiedHash(hash) == hash.last - hash.surplus * TokenParts
Level(l) == IF l = 0 THEN EmptiedHash(redis) ELSE Emptied(lims[l]) + Late(l)

\* What was granted from any time on is paid for by the burst and by the time
\* until the bucket is empty; and so is what any stretch holds.
LevelPays ==
  \A l \in 0..Len(lims) : \A s, t \in Int :
    (\E a \in GrantTimes(l) : s <= a) => Granted(l, s, t) <= Full + Level(l) - s
StretchPays ==
  \A l \in 0..Len(lims) : \A s, t \in Int :
    s <= t => Granted(l, s, t) <= Full + (t - s) + Late(l)

\* A bucket that is not full has granted, from some event on, what it lacks.
LacksGranted ==
  /\ \A l \in DOMAIN lims :
       lims[l].cancels > 0 \/ Emptied(lims[l]) <= -Full
       \/ \E s \in GrantTimes(l) :
            /\ Emptied(lims[l]) <= s - Full + CostSince(l, s)
            /\ CostSince(l, s) >= Full \/ Emptied(lims[l]) <= lims[l].last - Full + CostSince(l, s)
  /\ redis # <<>> =>
       /\ redis.surplus < Burst
       /\ \E s \in GrantTimes(0) : Level(0) + TokenParts - 1 <= s - Full + CostSince(0, s)

LimiterInv ==
  /\ LimiterTypeOK /\ LimitersMade /\ CallsInOrder /\ EventsInOrder
  /\ LevelPays /\ StretchPays /\ LacksGranted /\ NoNeedlessRefusal
=============================================================================
