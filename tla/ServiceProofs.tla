--------------------------- MODULE ServiceProofs ----------------------------
(***************************************************************************)
(* Theorems about the parts that surround the bot's handlers, each by      *)
(* itself and for every value of its constants: the limiter in front of    *)
(* the URLs (RateLimiter), the client of the LLM behind them (GroqClient), *)
(* and the processes that run them (Lifecycle).                            *)
(***************************************************************************)
EXTENDS RateLimiter, GroqClient, Lifecycle, FiniteSetTheorems, SequenceTheorems, TLAPS

-----------------------------------------------------------------------------
(* The limiter.  First its arithmetic.                                     *)

\* One more token in a count of tokens is one more Refill.
LEMMA OneMore ==
  ASSUME NEW n \in Int, NEW r \in Int
  PROVE  (n + 1) * r = n * r + r
OBVIOUS

\* Rounding up to a multiple of s loses nothing.
LEMMA RoundedUp ==
  ASSUME NEW x \in Nat, NEW s \in Nat \ {0}
  PROVE  /\ ((x + s - 1) \div s) * s \in Nat
         /\ ((x + s - 1) \div s) * s >= x
<1> DEFINE a == x + s - 1
           q == a \div s
<1>1. a \in Nat /\ q \in Int
  OBVIOUS
<1>2. a = s * q + (a % s) /\ a % s \in 0 .. s - 1
  BY <1>1, SMTT(30)
<1>3. q * s >= x
  BY <1>1, <1>2
<1> QED BY <1>1, <1>3

\* A bucket holds at least one token, and a token is worth something.
LEMMA RefillInFull == /\ Refill \in Nat \ {0}
                      /\ Full \in Nat /\ Full >= Refill
<1>1. Refill \in Nat \ {0}
  <2>1. Window = Capacity * (Window \div Capacity) + (Window % Capacity)
        /\ Window % Capacity \in 0 .. Capacity - 1 /\ Window \div Capacity \in Int
    BY RatesAssumption, SMTT(30)
  <2>2. Window \div Capacity > 0
    BY <2>1, RatesAssumption, SMTT(30)
  <2> QED BY <2>1, <2>2 DEF Refill
<1>2. Capacity = (Capacity - 1) + 1
  BY RatesAssumption
<1>3. Full = (Capacity - 1) * Refill + Refill
  BY <1>1, <1>2, RatesAssumption, OneMore DEF Full
<1>4. (Capacity - 1) * Refill \in Nat
  BY <1>1, RatesAssumption
<1> QED BY <1>1, <1>3, <1>4

-----------------------------------------------------------------------------
(* Types.                                                                  *)

LEMMA LevelTyped ==
  ASSUME LimiterTypeOK, NEW u \in Users, last[u] <= now
  PROVE  Level(u) \in 0 .. Full
<1>1. tokens[u] \in 0 .. Full /\ last[u] \in Nat /\ now \in Nat
  BY RatesAssumption DEF LimiterTypeOK
<1> QED BY <1>1, RefillInFull DEF Level, Least

LEMMA WaitTyped ==
  ASSUME NEW level \in 0 .. Full, level < Refill
  PROVE  Wait(level) \in Nat /\ Wait(level) >= Refill - level
<1>1. Refill - level \in Nat
  BY RefillInFull
<1> QED BY <1>1, RoundedUp, RatesAssumption DEF Wait

\* No bucket was brought up to date after now.
PastOnly == \A u \in Users : last[u] <= now

TypedPast == LimiterTypeOK /\ PastOnly

\* What TypedPast says of one user.
LEMMA OfOneUser ==
  ASSUME TypedPast, NEW u \in Users
  PROVE  /\ granted[u] \in Seq(0 .. MaxTime)
         /\ now \in Int /\ now <= MaxTime
         /\ Level(u) \in 0 .. Full /\ Level(u) \in Int
         /\ tokens[u] \in Int /\ last[u] \in Int /\ last[u] <= now
<1>1. last[u] <= now /\ Level(u) \in 0 .. Full
  BY LevelTyped DEF TypedPast, PastOnly
<1>2. tokens[u] \in 0 .. Full /\ last[u] \in 0 .. MaxTime /\ now \in 0 .. MaxTime
      /\ granted[u] \in Seq(0 .. MaxTime)
  BY DEF TypedPast, LimiterTypeOK
<1> QED BY <1>1, <1>2, RatesAssumption, RefillInFull

\* A submission appended to those granted.
LEMMA OneMoreGranted ==
  ASSUME NEW g \in Seq(0 .. MaxTime), NEW t \in Int
  PROVE  /\ Len(g) \in Nat /\ DOMAIN g = 1 .. Len(g)
         /\ \A i \in 1 .. Len(g) : g[i] \in Int
         /\ DOMAIN Append(g, t) = 1 .. Len(g) + 1
         /\ Len(Append(g, t)) = Len(g) + 1
         /\ Append(g, t)[Len(g) + 1] = t
         /\ \A i \in 1 .. Len(g) : Append(g, t)[i] = g[i]
<1>1. Len(g) \in Nat /\ DOMAIN g = 1 .. Len(g)
  OBVIOUS
<1>2. \A i \in 1 .. Len(g) : g[i] \in 0 .. MaxTime
  BY ElementOfSeq
<1>3. \A i \in 1 .. Len(g) : g[i] \in Int
  BY <1>2, RatesAssumption
<1>4. Len(Append(g, t)) = Len(g) + 1 /\ DOMAIN Append(g, t) = 1 .. Len(g) + 1
  BY RatesAssumption
<1>5. Append(g, t)[Len(g) + 1] = t /\ \A i \in 1 .. Len(g) : Append(g, t)[i] = g[i]
  BY RatesAssumption
<1> QED BY <1>1, <1>3, <1>4, <1>5

LEMMA TypedPastInit == LimiterInit => TypedPast
<1> SUFFICES ASSUME LimiterInit PROVE TypedPast
  OBVIOUS
<1>1. << >> \in Seq(0 .. MaxTime)
  OBVIOUS
<1>2. granted \in [Users -> Seq(0 .. MaxTime)]
  BY <1>1 DEF LimiterInit
<1> QED BY <1>2, RatesAssumption, RefillInFull DEF LimiterInit, TypedPast, LimiterTypeOK, PastOnly

LEMMA TypedPastNext == TypedPast /\ [LimiterNext]_limiterVars => TypedPast'
<1> SUFFICES ASSUME TypedPast, [LimiterNext]_limiterVars PROVE TypedPast'
  OBVIOUS
<1> USE DEF TypedPast
<1>1. ASSUME NEW u \in Users, Allow(u) PROVE TypedPast'
  <2>1. Level(u) \in 0 .. Full /\ Level(u) - Refill \in 0 .. Full
    BY <1>1, LevelTyped, RefillInFull DEF Allow, PastOnly
  <2>2. tokens' \in [Users -> 0 .. Full] /\ last' \in [Users -> 0 .. MaxTime]
        /\ buckets' \subseteq Users
    BY <1>1, <2>1 DEF Allow, Touch, LimiterTypeOK
  <2>3. calls' \in [Users -> 0 .. MaxCalls]
    BY <1>1, RatesAssumption DEF Allow, Submit, LimiterTypeOK
  <2>4. Append(granted[u], now) \in Seq(0 .. MaxTime)
    BY DEF LimiterTypeOK
  <2>5. granted' \in [Users -> Seq(0 .. MaxTime)] /\ promised' \in [Users -> Nat \cup {Never}]
    BY <1>1, <2>4 DEF Allow, LimiterTypeOK
  <2>6. PastOnly'
    BY <1>1 DEF Allow, Touch, PastOnly, LimiterTypeOK
  <2> QED BY <1>1, <2>2, <2>3, <2>5, <2>6 DEF Allow, LimiterTypeOK
<1>2. ASSUME NEW u \in Users, Refuse(u) PROVE TypedPast'
  <2>1. Level(u) \in 0 .. Full
    BY LevelTyped DEF PastOnly
  <2>2. tokens' \in [Users -> 0 .. Full] /\ last' \in [Users -> 0 .. MaxTime]
        /\ buckets' \subseteq Users
    BY <1>2, <2>1 DEF Refuse, Touch, LimiterTypeOK
  <2>3. calls' \in [Users -> 0 .. MaxCalls]
    BY <1>2, RatesAssumption DEF Refuse, Submit, LimiterTypeOK
  <2>4. now + Wait(Level(u)) \in Nat
    BY <1>2, <2>1, WaitTyped, RatesAssumption DEF Refuse, LimiterTypeOK
  <2>5. promised' \in [Users -> Nat \cup {Never}]
    BY <1>2, <2>4 DEF Refuse, LimiterTypeOK
  <2>6. PastOnly'
    BY <1>2 DEF Refuse, Touch, PastOnly, LimiterTypeOK
  <2> QED BY <1>2, <2>2, <2>3, <2>5, <2>6 DEF Refuse, LimiterTypeOK
<1>3. CASE Tick
  BY <1>3, RatesAssumption DEF Tick, LimiterTypeOK, PastOnly
<1>4. CASE Restart
  <2>1. << >> \in Seq(0 .. MaxTime)
    OBVIOUS
  <2>2. granted' \in [Users -> Seq(0 .. MaxTime)]
    BY <1>4, <2>1 DEF Restart
  <2> QED BY <1>4, <2>2, RefillInFull, RatesAssumption DEF Restart, LimiterTypeOK, PastOnly
<1>5. CASE UNCHANGED limiterVars
  BY <1>5 DEF limiterVars, LimiterTypeOK, PastOnly
<1> QED BY <1>1, <1>2, <1>3, <1>4, <1>5 DEF LimiterNext

\* Every reachable state is well typed, for every capacity and window.
THEOREM LimiterTypeCorrect == LimiterSpec => []LimiterTypeOK
<1>1. TypedPast => LimiterTypeOK
  BY DEF TypedPast
<1> QED BY <1>1, TypedPastInit, TypedPastNext, PTL DEF LimiterSpec

-----------------------------------------------------------------------------
(* The rate.                                                               *)

\* Paid(u): since any submission, what was granted and what is left in the
\* bucket is no more than the bucket held and the time brought.
Paid(u) ==
  /\ u \notin buckets => granted[u] = << >>
  /\ \A i \in DOMAIN granted[u] :
       /\ granted[u][i] <= last[u]
       /\ (Len(granted[u]) - i + 1) * Refill + tokens[u]
            <= Full + (last[u] - granted[u][i])

\* BurstThenRate of one user.
Spread(u) ==
  \A i, j \in DOMAIN granted[u] :
    i <= j => (j - i + 1) * Refill <= Full + (granted[u][j] - granted[u][i])

RateInv == TypedPast /\ \A u \in Users : Paid(u) /\ Spread(u)

LEMMA RateInit == LimiterInit => RateInv
BY TypedPastInit DEF LimiterInit, RateInv, Paid, Spread

\* What granting one more costs, counted from an earlier submission.
LEMMA PaidOneMore ==
  ASSUME NEW i \in Int, NEW n \in Int, NEW t \in Int, NEW at \in Int,
         NEW tok \in Int, NEW old \in Int, NEW level \in Int,
         (n - i + 1) * Refill + tok <= Full + (old - at),
         level <= tok + (t - old)
  PROVE  (n + 1 - i + 1) * Refill + (level - Refill) <= Full + (t - at)
<1> DEFINE k == (n - i + 1) * Refill
<1>1. Refill \in Int /\ Full \in Int
  BY RefillInFull
<1>2. n + 1 - i + 1 = (n - i + 1) + 1
  OBVIOUS
<1>3. (n + 1 - i + 1) * Refill = k + Refill
  BY <1>1, <1>2, OneMore
<1>4. k \in Int
  BY <1>1
<1> HIDE DEF k
<1> QED BY <1>1, <1>3, <1>4 DEF k

LEMMA RateNext == RateInv /\ [LimiterNext]_limiterVars => RateInv'
<1> SUFFICES ASSUME RateInv, [LimiterNext]_limiterVars PROVE RateInv'
  OBVIOUS
<1>0. TypedPast /\ TypedPast'
  BY TypedPastNext DEF RateInv
<1> USE DEF TypedPast
<1>1. ASSUME NEW u \in Users, Allow(u), NEW v \in Users PROVE (Paid(v) /\ Spread(v))'
  <2>1. CASE v # u
    <3>1. /\ granted'[v] = granted[v] /\ tokens'[v] = tokens[v] /\ last'[v] = last[v]
          /\ v \in buckets' <=> v \in buckets
      BY <1>0, <1>1, <2>1 DEF Allow, Touch, LimiterTypeOK
    <3> QED BY <3>1 DEF RateInv, Paid, Spread
  <2>2. CASE v = u
    <3> DEFINE g == granted[u]
               n == Len(g)
               lv == Level(u)
    <3>1. /\ granted'[u] = Append(g, now) /\ tokens'[u] = lv - Refill
          /\ last'[u] = now /\ u \in buckets'
      BY <1>0, <1>1 DEF Allow, Touch, LimiterTypeOK
    <3>2. /\ g \in Seq(0 .. MaxTime) /\ n \in Nat /\ now \in Int /\ now <= MaxTime
          /\ lv \in 0 .. Full
          /\ tokens[u] \in Int /\ last[u] \in Int /\ last[u] <= now
      BY <1>0, OfOneUser, OneMoreGranted
    <3>3. /\ DOMAIN granted'[u] = 1 .. n + 1 /\ DOMAIN g = 1 .. n
          /\ Len(granted'[u]) = n + 1
          /\ granted'[u][n + 1] = now
          /\ \A i \in 1 .. n : granted'[u][i] = g[i] /\ g[i] \in Int
      <4> HIDE DEF g
      <4> QED BY <3>1, <3>2, OneMoreGranted
    <3>4. ASSUME NEW i \in 1 .. n
          PROVE  /\ g[i] <= now
                 /\ (n + 1 - i + 1) * Refill + (lv - Refill) <= Full + (now - g[i])
      <4>1. u \in buckets
        BY <3>2, <3>3, <3>4 DEF RateInv, Paid
      <4>2. lv <= tokens[u] + (now - last[u])
        BY <4>1, <3>2, RefillInFull DEF Level, Least
      <4>3. g[i] <= last[u] /\ (n - i + 1) * Refill + tokens[u] <= Full + (last[u] - g[i])
        BY <3>3 DEF RateInv, Paid
      <4>4. g[i] <= now
        BY <4>3, <3>2, <3>3
      <4>5. (n + 1 - i + 1) * Refill + (lv - Refill) <= Full + (now - g[i])
        <5> HIDE DEF n, lv, g
        <5>1. g[i] \in Int /\ lv \in Int /\ i \in Int /\ n \in Int
              /\ tokens[u] \in Int /\ last[u] \in Int /\ now \in Int
          BY <3>2, <3>3, RefillInFull
        <5> QED BY <4>2, <4>3, <5>1, PaidOneMore
      <4> QED BY <4>4, <4>5
    <3>5. ((n + 1) - (n + 1) + 1) * Refill + (lv - Refill) <= Full + (now - now)
      BY <3>2, RefillInFull
    <3>6. Paid(u)'
      <4>1. u \in buckets'
        BY <3>1
      <4>2. ASSUME NEW i \in 1 .. n + 1
            PROVE  /\ granted'[u][i] <= last'[u]
                   /\ (Len(granted'[u]) - i + 1) * Refill + tokens'[u]
                        <= Full + (last'[u] - granted'[u][i])
        <5>1. CASE i \in 1 .. n
          BY <5>1, <3>1, <3>3, <3>4
        <5>2. CASE i = n + 1
          BY <5>2, <3>1, <3>2, <3>3, <3>5
        <5> QED BY <5>1, <5>2, <3>2
      <4> QED BY <4>1, <4>2, <3>3 DEF Paid
    <3>7. Spread(u)'
      <4>1. ASSUME NEW i \in 1 .. n + 1, NEW j \in 1 .. n + 1, i <= j
            PROVE  (j - i + 1) * Refill <= Full + (granted'[u][j] - granted'[u][i])
        <5>1. CASE j \in 1 .. n
          <6>1. i \in 1 .. n
            BY <4>1, <5>1, <3>2
          <6>2. (j - i + 1) * Refill <= Full + (g[j] - g[i])
            BY <4>1, <5>1, <6>1, <3>3 DEF RateInv, Spread
          <6> QED BY <5>1, <6>1, <6>2, <3>3
        <5>2. CASE j = n + 1 /\ i = n + 1
          <6> DEFINE gap == granted'[u][j] - granted'[u][i]
                     many == j - i + 1
          <6>1. many = 1 /\ gap = 0
            BY <5>2, <3>3, <3>2
          <6> HIDE DEF gap, many
          <6>2. many * Refill = Refill
            BY <6>1, RefillInFull
          <6>3. many * Refill <= Full + gap
            BY <6>1, <6>2, RefillInFull
          <6> QED BY <6>3 DEF gap, many
        <5>3. CASE j = n + 1 /\ i \in 1 .. n
          <6> DEFINE k == (n + 1 - i + 1) * Refill
          <6>1. k + (lv - Refill) <= Full + (now - g[i])
            BY <5>3, <3>4
          <6>2. lv >= Refill
            BY <1>1 DEF Allow
          <6>3. k \in Int /\ Refill \in Int /\ Full \in Int /\ g[i] \in Int
            BY <5>3, <3>2, <3>3, RefillInFull
          <6>4. k <= Full + (now - g[i])
            <7> HIDE DEF k, lv, g
            <7> QED BY <6>1, <6>2, <6>3, <3>2
          <6>5. granted'[u][j] = now /\ granted'[u][i] = g[i]
            BY <5>3, <3>3
          <6>6. (j - i + 1) * Refill = k
            BY <5>3
          <6> QED BY <6>4, <6>5, <6>6
        <5> QED BY <5>1, <5>2, <5>3, <3>2
      <4> QED BY <4>1, <3>3 DEF Spread
    <3> QED BY <3>6, <3>7, <2>2
  <2> QED BY <2>1, <2>2
<1>2. ASSUME NEW u \in Users, Refuse(u), NEW v \in Users PROVE (Paid(v) /\ Spread(v))'
  <2>1. granted' = granted /\ DOMAIN granted[v] = 1 .. Len(granted[v])
        /\ Len(granted[v]) \in Nat
    BY <1>0, <1>2 DEF Refuse, LimiterTypeOK
  <2>2. Spread(v)'
    BY <2>1 DEF RateInv, Spread
  <2>3. CASE v # u
    <3>1. /\ tokens'[v] = tokens[v] /\ last'[v] = last[v]
          /\ v \in buckets' <=> v \in buckets
      BY <1>0, <1>2, <2>3 DEF Refuse, Touch, LimiterTypeOK
    <3> QED BY <2>1, <2>2, <3>1 DEF RateInv, Paid
  <2>4. CASE v = u
    <3>1. tokens'[u] = Level(u) /\ last'[u] = now /\ u \in buckets'
      BY <1>0, <1>2 DEF Refuse, Touch, LimiterTypeOK
    <3>2. /\ Level(u) \in Int /\ now \in Int /\ tokens[u] \in Int
          /\ last[u] \in Int /\ last[u] <= now
      BY <1>0, OfOneUser
    <3>3. ASSUME NEW i \in DOMAIN granted[u]
          PROVE  /\ granted[u][i] <= now
                 /\ (Len(granted[u]) - i + 1) * Refill + Level(u)
                      <= Full + (now - granted[u][i])
      <4> DEFINE k == (Len(granted[u]) - i + 1) * Refill
                 at == granted[u][i]
                 lv == Level(u)
      <4>1. u \in buckets
        <5>1. CASE u \notin buckets
          <6>1. granted[u] = << >>
            BY <5>1 DEF RateInv, Paid
          <6> QED BY <6>1, <3>3
        <5> QED BY <5>1
      <4>2. lv <= tokens[u] + (now - last[u])
        BY <4>1, <3>2, RefillInFull DEF Level, Least
      <4>3. at <= last[u] /\ k + tokens[u] <= Full + (last[u] - at)
        BY DEF RateInv, Paid
      <4>4. at \in Int /\ k \in Int /\ Full \in Int /\ lv \in Int
        <5>1. granted[u] \in Seq(0 .. MaxTime)
          BY <1>0, OfOneUser
        <5>2. i \in 1 .. Len(granted[u]) /\ Len(granted[u]) \in Nat /\ at \in Int
          BY <5>1, <3>2, <3>3, OneMoreGranted
        <5>3. k \in Int
          BY <5>2, RefillInFull
        <5> QED BY <5>2, <5>3, <3>2, RefillInFull
      <4>5. at <= now /\ k + lv <= Full + (now - at)
        <5> HIDE DEF k, at, lv
        <5> QED BY <4>2, <4>3, <4>4, <3>2
      <4> QED BY <4>5
    <3>4. Paid(u)'
      BY <2>1, <3>1, <3>3 DEF Paid
    <3> QED BY <2>2, <2>4, <3>4
  <2> QED BY <2>3, <2>4
<1>3. ASSUME Tick \/ UNCHANGED limiterVars, NEW v \in Users PROVE (Paid(v) /\ Spread(v))'
  <2>1. UNCHANGED <<buckets, tokens, last, granted>>
    BY <1>3 DEF Tick, limiterVars
  <2> QED BY <2>1 DEF RateInv, Paid, Spread
<1>4. ASSUME Restart, NEW v \in Users PROVE (Paid(v) /\ Spread(v))'
  BY <1>4 DEF Restart, Paid, Spread
<1> QED BY <1>0, <1>1, <1>2, <1>3, <1>4 DEF LimiterNext, RateInv

\* However a user spreads its submissions, those allowed between any two of
\* them are at most the capacity and one for every Refill that passed.
THEOREM RateBounded == LimiterSpec => []BurstThenRate
<1>1. RateInv => BurstThenRate
  BY DEF RateInv, Spread, BurstThenRate
<1> QED BY <1>1, RateInit, RateNext, PTL DEF LimiterSpec

-----------------------------------------------------------------------------
(* The wait.                                                               *)

\* By the promised time the bucket holds a token.
Kept(u) ==
  promised[u] # Never =>
    /\ u \in buckets
    /\ tokens[u] + (promised[u] - last[u]) >= Refill

WaitInv == TypedPast /\ \A u \in Users : Kept(u)

LEMMA WaitInit == LimiterInit => WaitInv
BY TypedPastInit DEF LimiterInit, WaitInv, Kept

LEMMA WaitNext == WaitInv /\ [LimiterNext]_limiterVars => WaitInv'
<1> SUFFICES ASSUME WaitInv, [LimiterNext]_limiterVars PROVE WaitInv'
  OBVIOUS
<1>0. TypedPast /\ TypedPast'
  BY TypedPastNext DEF WaitInv
<1> USE DEF TypedPast
<1>1. ASSUME NEW u \in Users, Allow(u), NEW v \in Users PROVE Kept(v)'
  <2>1. CASE v # u
    BY <1>0, <1>1, <2>1 DEF Allow, Touch, LimiterTypeOK, WaitInv, Kept
  <2>2. CASE v = u
    BY <1>0, <1>1, <2>2 DEF Allow, LimiterTypeOK, Kept
  <2> QED BY <2>1, <2>2
<1>2. ASSUME NEW u \in Users, Refuse(u), NEW v \in Users PROVE Kept(v)'
  <2>1. CASE v # u
    BY <1>0, <1>2, <2>1 DEF Refuse, Touch, LimiterTypeOK, WaitInv, Kept
  <2>2. CASE v = u
    <3>1. /\ tokens'[u] = Level(u) /\ last'[u] = now /\ u \in buckets'
          /\ promised'[u] = now + Wait(Level(u))
      BY <1>0, <1>2 DEF Refuse, Touch, LimiterTypeOK
    <3>2. Level(u) \in 0 .. Full /\ Level(u) < Refill /\ now \in Int
      BY <1>0, <1>2, OfOneUser DEF Refuse
    <3>3. Wait(Level(u)) \in Nat /\ Wait(Level(u)) >= Refill - Level(u)
      BY <3>2, WaitTyped
    <3> DEFINE lv == Level(u)
               w  == Wait(lv)
    <3>4. /\ tokens'[u] = lv /\ last'[u] = now /\ promised'[u] = now + w
          /\ lv \in Int /\ w \in Int /\ now \in Int /\ w >= Refill - lv
      BY <3>1, <3>2, <3>3, RefillInFull
    <3>5. tokens'[u] + (promised'[u] - last'[u]) >= Refill
      <4> HIDE DEF lv, w
      <4> QED BY <3>4, RefillInFull
    <3> QED BY <2>2, <3>1, <3>5 DEF Kept
  <2> QED BY <2>1, <2>2
<1>3. ASSUME Tick \/ UNCHANGED limiterVars, NEW v \in Users PROVE Kept(v)'
  BY <1>3 DEF Tick, limiterVars, WaitInv, Kept
<1>4. ASSUME Restart, NEW v \in Users PROVE Kept(v)'
  BY <1>4 DEF Restart, Kept
<1> QED BY <1>0, <1>1, <1>2, <1>3, <1>4 DEF LimiterNext, WaitInv

LEMMA RefusedEarly ==
  ASSUME WaitInv, NEW u \in Users, Refuse(u)
  PROVE  promised[u] = Never \/ now < promised[u]
<1> SUFFICES ASSUME promised[u] # Never PROVE now < promised[u]
  OBVIOUS
<1>1. u \in buckets /\ tokens[u] + (promised[u] - last[u]) >= Refill
  BY DEF WaitInv, Kept
<1>2. /\ tokens[u] \in Int /\ last[u] \in Int /\ now \in Int /\ promised[u] \in Int
  BY DEF WaitInv, TypedPast, LimiterTypeOK, Never
<1>3. tokens[u] + (now - last[u]) < Refill
  BY <1>1, <1>2, RefillInFull DEF Refuse, Level, Least
<1> QED BY <1>1, <1>2, <1>3, RefillInFull

\* A user that was refused and comes back when it was told to is served.
THEOREM WaitsSuffice == LimiterSpec => WaitIsEnough
<1>1. WaitInv /\ [LimiterNext]_limiterVars =>
        [\A u \in Users : Refuse(u) => promised[u] = Never \/ now < promised[u]]_limiterVars
  BY RefusedEarly
<1> QED BY <1>1, WaitInit, WaitNext, PTL DEF LimiterSpec, WaitIsEnough

-----------------------------------------------------------------------------
(* The client.                                                             *)

\* What a place of the loops says of the reply that led there.
ReplyFits ==
    /\ pc = "backoff" => reply.kind \in Retryable /\ try <= Len(Backoff) /\ op # "key"
    /\ pc = "limited" => /\ reply.kind = "limited" /\ reply.hint > 0
                         /\ attempt < MaxRateLimitAttempts /\ op # "key"
    /\ pc = "idle" => result = "none" /\ round = 1
    /\ pc = "done" => result # "none"

\* Nothing was sent late but what is being given up.
LateGivenUp ==
    \/ late = 0
    \/ /\ late = 1 /\ callCtx = "cancelled"
       /\ \/ pc \in {"await", "done"}
          \/ pc = "judge" /\ reply.kind = "transport"

\* A misfit is what the second round is asked for, and only JSON has one.
MisfitPerRound ==
    /\ round = 1 => misfits = 0
    /\ round = 2 => op = "json"
    /\ round = 2 /\ pc # "done" => misfits = 1

CallInv == ChatTypeOK /\ ReplyFits /\ LateGivenUp /\ MisfitPerRound /\ ResultIsLast

-----------------------------------------------------------------------------
LEMMA ConstantsAre ==
    /\ Len(Backoff) \in Nat
           /\ MaxRateLimitAttempts \in Nat /\ MaxRateLimitAttempts >= 1
           /\ MaxRetryAfter \in Nat /\ RetryAfterBuffer \in Nat
           /\ 1 \in 1 .. MaxRateLimitAttempts /\ 1 \in 1 .. Len(Backoff) + 1
           /\ \A d \in Nat : Clamp(d) \in 0 .. MaxRetryAfter
           /\ \A h, b \in Hints : ParseRetryAfter(h, b) \in 0 .. MaxRetryAfter
<1>1. Len(Backoff) \in Nat
    BY ClientAssumption
<1>2. \A d \in Nat : Clamp(d) \in 0 .. MaxRetryAfter
    BY ClientAssumption DEF Clamp
<1>3. \A h, b \in Hints : ParseRetryAfter(h, b) \in 0 .. MaxRetryAfter
    BY <1>2, ClientAssumption DEF ParseRetryAfter
<1> QED BY <1>1, <1>2, <1>3, ClientAssumption

LEMMA CallInit ==
    ChatInit => CallInv
<1> SUFFICES ASSUME ChatInit PROVE CallInv
    OBVIOUS
<1>1. ChatTypeOK
    <2>1. reply \in [kind : Kinds \cup {"none"}, hint : 0 .. MaxRetryAfter]
        BY ConstantsAre DEF ChatInit, NoReply
    <2>2. <<sends, late, waited, misfits>> \in Nat \X Nat \X Nat \X Nat
        BY DEF ChatInit
    <2> QED BY <2>1, <2>2, ConstantsAre DEF ChatInit, ChatTypeOK, Ops
<1>2. ReplyFits /\ LateGivenUp /\ MisfitPerRound /\ ResultIsLast
    BY DEF ChatInit, ReplyFits, LateGivenUp, MisfitPerRound, ResultIsLast
<1> QED BY <1>1, <1>2 DEF CallInv

LEMMA CallTypeNext ==
    ChatTypeOK /\ ReplyFits /\ [ChatNext]_chatVars => ChatTypeOK'
<1> SUFFICES ASSUME ChatTypeOK, ReplyFits, [ChatNext]_chatVars PROVE ChatTypeOK'
    OBVIOUS
<1> USE DEF ChatTypeOK, counters, history
<1>1. ASSUME NEW o \in Ops, Call(o) PROVE ChatTypeOK'
    BY <1>1 DEF Call
<1>2. CASE Return
    <2>1. reply' \in [kind : Kinds \cup {"none"}, hint : 0 .. MaxRetryAfter]
        BY <1>2, ConstantsAre DEF Return, NoReply
    <2>2. <<sends, late, waited, misfits>>' \in Nat \X Nat \X Nat \X Nat
        BY <1>2 DEF Return
    <2> QED BY <1>2, <2>1, <2>2, ConstantsAre DEF Return
<1>3. CASE Cancel
    BY <1>3 DEF Cancel
<1>4. ASSUME NEW k \in Kinds, NEW header \in Hints, NEW body \in Hints, Respond(k, header, body)
      PROVE  ChatTypeOK'
    <2>1. ParseRetryAfter(header, body) \in 0 .. MaxRetryAfter
        BY ConstantsAre
    <2>2. reply' \in [kind : Kinds \cup {"none"}, hint : 0 .. MaxRetryAfter]
        BY <1>4, <2>1, ConstantsAre DEF Respond
    <2> QED BY <1>4, <2>2 DEF Respond
<1>5. CASE Send
    BY <1>5 DEF Send
<1>6. CASE BackOff
    BY <1>6 DEF BackOff, Sleep, Finish
<1>7. CASE Resend
    BY <1>7, ConstantsAre DEF Resend, ReplyFits
<1>8. CASE Exhausted
    BY <1>8 DEF Exhausted, Finish
<1>9. CASE WaitForWindow
    BY <1>9 DEF WaitForWindow, Sleep, Finish
<1>10. CASE NextAttempt
    <2>1. RateLimitWait(reply.hint) \in Nat
        <3>1. reply.hint \in Nat /\ RetryAfterBuffer \in Nat
            BY ConstantsAre
        <3>2. reply.hint + RetryAfterBuffer \in Nat
            BY <3>1
        <3>3. Clamp(reply.hint + RetryAfterBuffer) \in 0 .. MaxRetryAfter
            BY <3>2, ConstantsAre
        <3> QED BY <3>3, ConstantsAre DEF RateLimitWait
    <2>2. waited' \in Nat
        BY <1>10, <2>1 DEF NextAttempt
    <2> QED BY <1>10, <2>2, ConstantsAre DEF NextAttempt, ReplyFits
<1>11. CASE CtxDone
    BY <1>11 DEF CtxDone, Finish
<1>12. CASE GiveUp
    BY <1>12 DEF GiveUp, Finish
<1>13. CASE Fail
    BY <1>13 DEF Fail, Finish
<1>14. CASE Accept
    BY <1>14 DEF Accept, Finish
<1>15. CASE AskAgain
    <2>1. <<sends, late, waited, misfits>>' \in Nat \X Nat \X Nat \X Nat
        BY <1>15 DEF AskAgain
    <2> QED BY <1>15, <2>1, ConstantsAre DEF AskAgain
<1>16. CASE Reject
    BY <1>16 DEF Reject, Finish
<1>17. CASE UNCHANGED chatVars
    BY <1>17 DEF chatVars
<1> QED
    BY <1>1, <1>2, <1>3, <1>4, <1>5, <1>6, <1>7, <1>8, <1>9, <1>10, <1>11, <1>12, <1>13,
       <1>14, <1>15, <1>16, <1>17 DEF ChatNext, Service, Client

LEMMA CallNext ==
    CallInv /\ [ChatNext]_chatVars => CallInv'
<1> SUFFICES ASSUME CallInv, [ChatNext]_chatVars PROVE CallInv'
    OBVIOUS
<1>0. ChatTypeOK'
    BY CallTypeNext DEF CallInv
<1> DEFINE Rest == (ReplyFits /\ LateGivenUp /\ MisfitPerRound /\ ResultIsLast)'
<1> SUFFICES Rest
    BY <1>0 DEF CallInv
<1> USE DEF CallInv, ChatTypeOK, ReplyFits, LateGivenUp, MisfitPerRound, ResultIsLast, counters,
            history, Finish
<1>1. ASSUME NEW o \in Ops, Call(o) PROVE Rest
    BY <1>1 DEF Call
<1>2. CASE Return
    BY <1>2 DEF Return
<1>3. CASE Cancel
    <2>1. /\ UNCHANGED <<op, pc, round, attempt, try, reply, result, sends, late, waited, misfits>>
          /\ callCtx = "live" /\ callCtx' = "cancelled"
        BY <1>3 DEF Cancel
    <2>2. ResultIsLast'
        <3>1. CASE result = "cancelled"
            <4>1. pc # "done" \/ result' = "cancelled"
                BY <2>1, <3>1
            <4> QED BY <2>1, <4>1
        <3>2. CASE result \in {"answer", "schema", "invalid_key"}
            BY <2>1, <3>2
        <3>3. CASE result \in {"rate_limited", "unavailable"}
            BY <2>1, <3>3
        <3>4. CASE result = "none"
            <4>1. pc # "done"
                BY <3>4
            <4> QED BY <2>1, <4>1
        <3> QED BY <3>1, <3>2, <3>3, <3>4
    <2> QED BY <2>1, <2>2
<1>4. ASSUME NEW k \in Kinds, NEW header \in Hints, NEW body \in Hints, Respond(k, header, body)
      PROVE  Rest
    BY <1>4 DEF Respond
<1>5. CASE Send
    BY <1>5 DEF Send
<1>6. CASE BackOff
    BY <1>6, ConstantsAre DEF BackOff, Sleep
<1>7. CASE Resend
    BY <1>7 DEF Resend
<1>8. CASE Exhausted
    BY <1>8 DEF Exhausted
<1>9. CASE WaitForWindow
    BY <1>9 DEF WaitForWindow, Sleep, MayWait
<1>10. CASE NextAttempt
    BY <1>10 DEF NextAttempt
<1>11. CASE CtxDone
    BY <1>11 DEF CtxDone
<1>12. CASE GiveUp
    BY <1>12, ConstantsAre DEF GiveUp, MayWait
<1>13. CASE Fail
    BY <1>13 DEF Fail
<1>14. CASE Accept
    BY <1>14 DEF Accept
<1>15. CASE AskAgain
    BY <1>15 DEF AskAgain
<1>16. CASE Reject
    BY <1>16 DEF Reject
<1>17. CASE UNCHANGED chatVars
    BY <1>17 DEF chatVars
<1> QED
    BY <1>1, <1>2, <1>3, <1>4, <1>5, <1>6, <1>7, <1>8, <1>9, <1>10, <1>11, <1>12, <1>13,
       <1>14, <1>15, <1>16, <1>17 DEF ChatNext, Service, Client

-----------------------------------------------------------------------------
(* The theorems.                                                           *)

\* Every reachable state of a call is well typed.
THEOREM CallTypeCorrect ==
    ChatSpec => []ChatTypeOK
<1> QED BY CallInit, CallNext, PTL DEF ChatSpec, CallInv

\* A call answers with what happened last, for every number of attempts,
\* waits and hints: never with a stale error, an unchecked answer, or a
\* cancellation that was none.
THEOREM AnswersLast ==
    ChatSpec => []ResultIsLast
<1> QED BY CallInit, CallNext, PTL DEF ChatSpec, CallInv

\* A cancelled call makes at most one more request, however many attempts,
\* resends and rounds it had left.
THEOREM QuietOnceCancelled ==
    ChatSpec => []QuietAfterCancel
<1>1. CallInv => QuietAfterCancel
    BY DEF CallInv, LateGivenUp, QuietAfterCancel
<1> QED BY <1>1, CallInit, CallNext, PTL DEF ChatSpec

\* The action of NoResend.
SendsAnew ==
    (pc' = "send" /\ pc \notin {"idle", "send"}) =>
         /\ reply.kind \notin Final
         /\ reply.kind = "limited" => reply.hint > 0
         /\ reply.kind = "invalid" => misfits = 0

\* No loop sends again what was answered, refused, or limited without a
\* time, whichever loop it is and however they nest.
THEOREM NothingResent ==
    ChatSpec => NoResend
<1>1. CallInv /\ [ChatNext]_chatVars => [SendsAnew]_chatVars
    <2> SUFFICES ASSUME CallInv, ChatNext, pc' = "send", pc \notin {"idle", "send"}
                 PROVE  SendsAnew
        BY DEF SendsAnew
    <2>1. Resend \/ NextAttempt \/ AskAgain
        BY DEF ChatNext, Service, Client, Call, Return, Cancel, Respond, Send, BackOff, Exhausted,
               WaitForWindow, CtxDone, GiveUp, Fail, Accept, Reject, Finish, Sleep
    <2>2. CASE Resend
        BY <2>2 DEF Resend, CallInv, ReplyFits, SendsAnew, Retryable, Final
    <2>3. CASE NextAttempt
        BY <2>3 DEF NextAttempt, CallInv, ReplyFits, SendsAnew, Final
    <2>4. CASE AskAgain
        BY <2>4 DEF AskAgain, CallInv, MisfitPerRound, SendsAnew, Final
    <2> QED BY <2>1, <2>2, <2>3, <2>4
<1>2. ChatSpec => [][SendsAnew]_chatVars
    BY <1>1, CallInit, CallNext, PTL DEF ChatSpec
<1> QED BY <1>2 DEF NoResend, SendsAnew

-----------------------------------------------------------------------------
(* How often and how long.                                                 *)

LEMMA Distributed ==
    ASSUME NEW a \in Int, NEW b \in Int
    PROVE  (a + 1) * b = a * b + b
OBVIOUS

LEMMA Monotone ==
    ASSUME NEW a \in Int, NEW c \in Int, a <= c, NEW b \in Nat
    PROVE  a * b \in Int /\ c * b \in Int /\ a * b <= c * b
<1>1. (c - a) * b >= 0
    OBVIOUS
<1> QED BY <1>1

LEMMA Below ==
    ASSUME NEW a \in Int, NEW b \in Int, a <= b - 1
    PROVE  a <= b
OBVIOUS

MaxTries == Len(Backoff) + 1

\* The attempts made before this one, and the waits before it.
Attempts == (round - 1) * MaxRateLimitAttempts + attempt - 1
Pauses == (round - 1) * (MaxRateLimitAttempts - 1) + attempt - 1

\* The requests the attempts and tries so far allow.
Allowed == Attempts * MaxTries + try

\* Each of those attempts has had at most all its tries.
Counted ==
    /\ sends <= Allowed
    /\ pc \in {"idle", "send"} => sends <= Allowed - 1
    /\ op = "key" => round = 1 /\ sends <= 1 /\ (pc \in {"idle", "send"} => sends = 0)
    /\ waited <= Pauses * MaxRetryAfter
    /\ pc = "idle" => sends = 0 /\ waited = 0 /\ attempt = 1 /\ try = 1

CountedInv == CallInv /\ Counted

LEMMA Sizes ==
    MaxRateLimitAttempts \in Nat /\ MaxRateLimitAttempts >= 1 /\ MaxRetryAfter \in Nat
BY ClientAssumption

LEMMA Counters ==
    ASSUME ChatTypeOK
    PROVE  /\ round \in {1, 2} /\ attempt \in Nat /\ attempt >= 1 /\ attempt <= MaxRateLimitAttempts
           /\ try \in Nat /\ try >= 1 /\ try <= MaxTries /\ MaxTries \in Nat
           /\ sends \in Nat /\ waited \in Nat
           /\ Attempts \in Int /\ Attempts * MaxTries \in Int
           /\ Pauses \in Int /\ Pauses * MaxRetryAfter \in Int
<1>1. MaxTries \in Nat /\ MaxRateLimitAttempts \in Nat /\ MaxRetryAfter \in Nat
    BY ConstantsAre DEF MaxTries
<1>2. round \in {1, 2} /\ attempt \in Nat /\ attempt >= 1 /\ attempt <= MaxRateLimitAttempts
      /\ try \in Nat /\ try >= 1 /\ try <= MaxTries /\ sends \in Nat /\ waited \in Nat
    BY ConstantsAre DEF ChatTypeOK, MaxTries
<1>3. Attempts \in Int /\ Pauses \in Int
    BY <1>1, <1>2 DEF Attempts, Pauses
<1>4. Attempts * MaxTries \in Int /\ Pauses * MaxRetryAfter \in Int
    BY <1>1, <1>3
<1> QED BY <1>1, <1>2, <1>3, <1>4

LEMMA OneMoreAttempt ==
    ASSUME ChatTypeOK, round' = round, attempt' = attempt + 1
    PROVE  Attempts' = Attempts + 1 /\ Pauses' = Pauses + 1
<1>1. attempt \in Nat /\ round \in Int /\ MaxRateLimitAttempts \in Nat
    <2>1. attempt \in Nat /\ round \in {1, 2}
        BY Counters
    <2> QED BY <2>1, ClientAssumption
<1> DEFINE m == (round - 1) * MaxRateLimitAttempts
           n == (round - 1) * (MaxRateLimitAttempts - 1)
<1>2. m \in Int /\ n \in Int
    BY <1>1
<1>3. Attempts = m + attempt - 1 /\ Pauses = n + attempt - 1
      /\ Attempts' = m + attempt' - 1 /\ Pauses' = n + attempt' - 1
    BY DEF Attempts, Pauses
<1> HIDE DEF m, n
<1> QED BY <1>1, <1>2, <1>3

\* What a step that moves the counters allows.
LEMMA NowAllowed ==
    ASSUME NEW a, NEW k, Attempts' = a, try' = k
    PROVE  Allowed' = a * MaxTries + k
<1>1. MaxTries' = MaxTries
    BY DEF MaxTries
<1>2. Attempts' * MaxTries' = a * MaxTries
    BY <1>1
<1> QED BY <1>2 DEF Allowed

LEMMA CountedInit ==
    ChatInit => Counted
<1> SUFFICES ASSUME ChatInit PROVE Counted
    OBVIOUS
<1>1. Attempts = 0 /\ Pauses = 0
    BY ConstantsAre DEF ChatInit, Attempts, Pauses
<1>2. MaxTries \in Nat /\ MaxRetryAfter \in Nat
    BY ConstantsAre DEF MaxTries
<1>3. Attempts * MaxTries = 0 /\ Pauses * MaxRetryAfter = 0
    BY <1>1, <1>2
<1> QED BY <1>3 DEF ChatInit, Counted, Allowed

LEMMA CountedNext ==
    CountedInv /\ [ChatNext]_chatVars => Counted'
<1> SUFFICES ASSUME CountedInv, [ChatNext]_chatVars PROVE Counted'
    OBVIOUS
<1>0. ChatTypeOK /\ Counted /\ ReplyFits /\ MisfitPerRound /\ CallInv
    BY DEF CountedInv, CallInv
<1>1. ASSUME UNCHANGED <<op, counters, sends, waited>>, pc' \notin {"idle", "send"} \/ pc' = pc
      PROVE  Counted'
    <2>1. Attempts' = Attempts /\ Pauses' = Pauses
        BY <1>1 DEF Attempts, Pauses, counters
    <2>2. Allowed' = Allowed
        BY <1>1, <2>1, NowAllowed DEF Allowed, counters
    <2> QED BY <1>0, <1>1, <2>1, <2>2 DEF Counted, counters
<1>2. ASSUME NEW o \in Ops, Call(o) PROVE Counted'
    <2>1. pc = "idle" /\ pc' = "send" /\ UNCHANGED <<round, attempt, try, sends, waited>>
        BY <1>2 DEF Call, counters, history
    <2>2. Attempts' = Attempts /\ Pauses' = Pauses /\ Allowed' = Allowed
        BY <2>1, NowAllowed DEF Attempts, Pauses, Allowed
    <2>3. round = 1
        BY <1>0, <2>1 DEF ReplyFits
    <2> QED BY <1>0, <2>1, <2>2, <2>3 DEF Counted
<1>3. CASE Return
    <2>1. round' = 1 /\ attempt' = 1 /\ try' = 1 /\ sends' = 0 /\ waited' = 0 /\ pc' = "idle"
        BY <1>3 DEF Return
    <2>2. Attempts' = 0 /\ Pauses' = 0
        BY <2>1, ConstantsAre DEF Attempts, Pauses
    <2>3. MaxTries \in Nat /\ MaxRetryAfter \in Nat
        BY ConstantsAre DEF MaxTries
    <2>4. Allowed' = 0 * MaxTries + 1 /\ 0 * MaxTries = 0 /\ Pauses' * MaxRetryAfter = 0
        BY <2>1, <2>2, <2>3, NowAllowed
    <2> QED BY <2>1, <2>4 DEF Counted
<1>4. CASE Send
    <2>1. /\ pc = "send" /\ pc' = "await" /\ sends' = sends + 1
          /\ UNCHANGED <<op, round, attempt, try, waited>>
        BY <1>4 DEF Send, counters
    <2>2. Attempts' = Attempts /\ Pauses' = Pauses /\ Allowed' = Allowed
        BY <2>1, NowAllowed DEF Attempts, Pauses, Allowed
    <2>3. Allowed \in Int /\ sends \in Nat
        BY <1>0, Counters DEF Allowed
    <2>4. sends + 1 <= Allowed
        BY <1>0, <2>1, <2>3 DEF Counted
    <2>5. (op = "key" => round = 1 /\ sends <= 1 /\ (pc \in {"idle", "send"} => sends = 0))'
        BY <1>0, <2>1, <2>3 DEF Counted
    <2>6. waited' <= Pauses' * MaxRetryAfter
        BY <1>0, <2>1, <2>2 DEF Counted
    <2> QED BY <2>1, <2>2, <2>4, <2>5, <2>6 DEF Counted
<1>5. CASE Resend
    <2>1. /\ pc = "backoff" /\ pc' = "send" /\ try' = try + 1
          /\ UNCHANGED <<op, round, attempt, sends, waited>>
        BY <1>5 DEF Resend, history
    <2>2. Attempts' = Attempts /\ Pauses' = Pauses
        BY <2>1 DEF Attempts, Pauses
    <2>3. op # "key"
        BY <1>0, <2>1 DEF ReplyFits
    <2>4. Allowed' = Attempts * MaxTries + (try + 1)
        BY <2>1, <2>2, NowAllowed
    <2>5. sends' <= Allowed' - 1
        <3>1. sends <= Attempts * MaxTries + try
            BY <1>0, <2>1 DEF Counted, Allowed
        <3>2. Attempts * MaxTries \in Int /\ try \in Nat /\ sends \in Nat
            BY <1>0, Counters
        <3> QED BY <2>1, <2>4, <3>1, <3>2
    <2>6. Allowed' \in Int
        BY <1>0, <2>4, Counters
    <2> QED BY <1>0, <2>1, <2>2, <2>3, <2>5, <2>6, Counters DEF Counted
<1>6. CASE NextAttempt
    <2>1. /\ pc = "limited" /\ pc' = "send" /\ attempt' = attempt + 1 /\ try' = 1
          /\ waited' = waited + RateLimitWait(reply.hint) /\ UNCHANGED <<op, round, sends>>
        BY <1>6 DEF NextAttempt
    <2>2. Attempts' = Attempts + 1 /\ Pauses' = Pauses + 1
        BY <1>0, <2>1, OneMoreAttempt
    <2>3. /\ Attempts' * MaxTries = Attempts * MaxTries + MaxTries
          /\ Pauses' * MaxRetryAfter = Pauses * MaxRetryAfter + MaxRetryAfter
        <3>1. (Attempts + 1) * MaxTries = Attempts * MaxTries + MaxTries
            BY <1>0, Counters, Distributed
        <3>2. (Pauses + 1) * MaxRetryAfter = Pauses * MaxRetryAfter + MaxRetryAfter
            BY <1>0, Counters, Sizes, Distributed
        <3> QED BY <2>2, <3>1, <3>2
    <2>4. RateLimitWait(reply.hint) \in 0 .. MaxRetryAfter
        <3>1. reply.hint \in Nat
            BY <1>0, ConstantsAre DEF ChatTypeOK
        <3>2. reply.hint + RetryAfterBuffer \in Nat
            BY <3>1, ClientAssumption
        <3> QED BY <3>2, ConstantsAre DEF RateLimitWait
    <2>5. op # "key"
        BY <1>0, <2>1 DEF ReplyFits
    <2>6. sends <= Attempts * MaxTries + try /\ waited <= Pauses * MaxRetryAfter
        BY <1>0 DEF Counted, Allowed
    <2>7. sends' <= Allowed' - 1 /\ Allowed' \in Int /\ waited' <= Pauses' * MaxRetryAfter
        <3>1. Attempts * MaxTries \in Int /\ Pauses * MaxRetryAfter \in Int /\ MaxRetryAfter \in Nat
              /\ try \in Nat /\ try <= MaxTries /\ MaxTries \in Nat /\ sends \in Nat /\ waited \in Nat
            BY <1>0, Counters, ClientAssumption
        <3>2. Allowed' = Attempts * MaxTries + MaxTries + 1
            BY <2>1, <2>3, NowAllowed
        <3>3. sends' <= Allowed' - 1 /\ Allowed' \in Int
            BY <2>1, <2>6, <3>1, <3>2
        <3>4. waited' <= Pauses' * MaxRetryAfter
            BY <2>1, <2>3, <2>4, <2>6, <3>1
        <3> QED BY <3>3, <3>4
    <2>8. sends' <= Allowed'
        <3>1. sends' \in Int
            BY <1>0, <2>1, Counters
        <3> QED BY <2>7, <3>1, Below
    <2> QED BY <1>0, <2>1, <2>5, <2>7, <2>8 DEF Counted
<1>7. CASE AskAgain
    <2>1. /\ round = 1 /\ round' = 2 /\ attempt' = 1 /\ try' = 1 /\ pc' = "send" /\ op = "json"
          /\ UNCHANGED <<op, sends, waited>>
        BY <1>7 DEF AskAgain
    <2>2. /\ Attempts = attempt - 1 /\ Attempts' = MaxRateLimitAttempts
          /\ Pauses = attempt - 1 /\ Pauses' = MaxRateLimitAttempts - 1
        <3>1. attempt \in Nat /\ MaxRateLimitAttempts \in Nat
            BY <1>0, Counters, Sizes
        <3> QED BY <2>1, <3>1 DEF Attempts, Pauses
    <2>3. (Attempts + 1) * MaxTries = Attempts * MaxTries + MaxTries
        BY <1>0, Counters, Distributed
    <2>4. /\ (Attempts + 1) * MaxTries <= Attempts' * MaxTries
          /\ Attempts' * MaxTries \in Int
        <3>1. Attempts + 1 \in Int /\ Attempts' \in Int /\ Attempts + 1 <= Attempts' /\ MaxTries \in Nat
            <4>1. attempt \in Nat /\ attempt <= MaxRateLimitAttempts /\ MaxTries \in Nat
                BY <1>0, Counters
            <4> QED BY <2>2, <4>1, ClientAssumption
        <3> QED BY <3>1, Monotone
    <2>5. Pauses * MaxRetryAfter <= Pauses' * MaxRetryAfter /\ Pauses' * MaxRetryAfter \in Int
        <3>1. Pauses \in Int /\ Pauses' \in Int /\ Pauses <= Pauses' /\ MaxRetryAfter \in Nat
            <4>1. attempt \in Nat /\ attempt <= MaxRateLimitAttempts
                BY <1>0, Counters
            <4> QED BY <2>2, <4>1, Sizes
        <3> QED BY <3>1, Monotone
    <2>6. sends <= Attempts * MaxTries + try /\ waited <= Pauses * MaxRetryAfter
        BY <1>0 DEF Counted, Allowed
    <2>7. sends' <= Allowed' - 1 /\ Allowed' \in Int /\ waited' <= Pauses' * MaxRetryAfter
        <3>1. Attempts * MaxTries \in Int /\ Pauses * MaxRetryAfter \in Int
              /\ try \in Nat /\ try <= MaxTries /\ MaxTries \in Nat /\ sends \in Nat /\ waited \in Nat
            BY <1>0, Counters
        <3>2. Allowed' = Attempts' * MaxTries + 1
            BY <2>1, NowAllowed
        <3>3. sends <= (Attempts + 1) * MaxTries
            BY <2>3, <2>6, <3>1
        <3>4. (Attempts + 1) * MaxTries \in Int
            BY <2>3, <3>1
        <3>5. sends' <= Allowed' - 1 /\ Allowed' \in Int
            BY <2>1, <2>4, <3>1, <3>2, <3>3, <3>4
        <3>6. waited' <= Pauses' * MaxRetryAfter
            BY <2>1, <2>5, <2>6, <3>1
        <3> QED BY <3>5, <3>6
    <2> QED BY <1>0, <2>1, <2>7, Counters DEF Counted
<1>8. CASE Cancel \/ UNCHANGED chatVars
    BY <1>1, <1>8 DEF Cancel, chatVars, counters, history
<1>9. CASE Service
    BY <1>1, <1>9 DEF Service, Respond, counters, history
<1>10. CASE BackOff \/ Exhausted \/ WaitForWindow \/ CtxDone \/ GiveUp \/ Fail \/ Accept
    BY <1>1, <1>10 DEF BackOff, Exhausted, WaitForWindow, CtxDone, GiveUp, Fail, Accept,
                       Sleep, Finish, counters, history
<1>11. CASE Reject
    BY <1>1, <1>11 DEF Reject, Finish, counters
<1> QED
    BY <1>2, <1>3, <1>4, <1>5, <1>6, <1>7, <1>8, <1>9, <1>10, <1>11 DEF ChatNext, Client

\* However the loops nest, a call sends at most one request per try of every
\* attempt of every round, and sleeps on rate limits no longer than the
\* attempts allow.
THEOREM CallsBounded ==
    ChatSpec => []CallBounded
<1>1. CountedInv => CallBounded
    <2> SUFFICES ASSUME CountedInv PROVE CallBounded
        OBVIOUS
    <2>0. ChatTypeOK /\ Counted /\ MisfitPerRound
        BY DEF CountedInv, CallInv
    <2>1. Pauses <= round * (MaxRateLimitAttempts - 1) /\ round * (MaxRateLimitAttempts - 1) \in Int
        <3>1. /\ MaxRateLimitAttempts \in Nat /\ attempt \in Nat /\ attempt <= MaxRateLimitAttempts
              /\ round \in {1, 2}
            BY <2>0, Counters, ConstantsAre
        <3>2. CASE round = 1
            BY <3>1, <3>2 DEF Pauses
        <3>3. CASE round = 2
            BY <3>1, <3>3 DEF Pauses
        <3> QED BY <3>1, <3>2, <3>3
    <2>2. Pauses * MaxRetryAfter <= round * (MaxRateLimitAttempts - 1) * MaxRetryAfter
          /\ round * (MaxRateLimitAttempts - 1) * MaxRetryAfter \in Int
        BY <2>0, <2>1, Counters, Monotone, ConstantsAre
    <2>3. waited <= round * (MaxRateLimitAttempts - 1) * MaxRetryAfter
        <3>1. waited <= Pauses * MaxRetryAfter
            BY <2>0 DEF Counted
        <3>2. waited \in Nat /\ Pauses * MaxRetryAfter \in Int
            BY <2>0, Counters
        <3> QED BY <2>2, <3>1, <3>2
    <2>4. op = "plain" => round = 1
        BY <2>0, Counters DEF MisfitPerRound
    <2> QED BY <2>0, <2>3, <2>4 DEF Counted, CallBounded, Allowed, Attempts, MaxTries, Tries
<1>2. ChatInit => CountedInv
    BY CallInit, CountedInit DEF CountedInv
<1>3. CountedInv /\ [ChatNext]_chatVars => CountedInv'
    BY CallNext, CountedNext DEF CountedInv
<1> QED BY <1>1, <1>2, <1>3, PTL DEF ChatSpec

-----------------------------------------------------------------------------
(* How long a call can go on: the safety half of CallReturns.              *)

\* A request is sent, answered and judged, and then waited after.
Stage == [send |-> 3, await |-> 2, judge |-> 1, backoff |-> 0, limited |-> 0,
          idle |-> 0, done |-> 0]

\* The tries the loops may still make, with what is left of this one.
WorkLeft == 4 * (2 * MaxRateLimitAttempts * MaxTries - Allowed) + Stage[pc]

\* A step either ends the call or uses up some of what is left to do; the
\* cancellation alone leaves the call as it is.
UsesUp ==
    pc \notin {"idle", "done"} =>
        IF callCtx' = callCtx THEN pc' = "done" \/ WorkLeft' < WorkLeft
                              ELSE pc' = pc /\ WorkLeft' = WorkLeft

LEMMA LeftIs ==
    ASSUME ChatTypeOK
    PROVE  /\ WorkLeft \in Nat /\ Stage[pc] \in 0 .. 3 /\ Allowed \in Int
           /\ 2 * MaxRateLimitAttempts * MaxTries \in Int
           /\ Allowed <= 2 * MaxRateLimitAttempts * MaxTries
<1> DEFINE A == MaxRateLimitAttempts
           all == 2 * A * MaxTries
<1>1. /\ round \in {1, 2} /\ attempt \in Nat /\ attempt <= A /\ A \in Nat
      /\ try \in Nat /\ try <= MaxTries /\ MaxTries \in Nat
      /\ Attempts \in Int /\ Attempts * MaxTries \in Int
    BY Counters, Sizes
<1>2. Attempts <= 2 * A - 1
    BY <1>1 DEF Attempts
<1>3. Attempts + 1 \in Int /\ 2 * A \in Int /\ Attempts + 1 <= 2 * A
    BY <1>1, <1>2
<1> HIDE DEF A
<1>4. (Attempts + 1) * MaxTries <= (2 * A) * MaxTries /\ (2 * A) * MaxTries \in Int
    BY <1>1, <1>3, Monotone
<1>5. (Attempts + 1) * MaxTries = Attempts * MaxTries + MaxTries
    BY <1>1, Distributed
<1>6. all \in Int /\ Allowed \in Int /\ Allowed <= all
    <2>1. all = (2 * A) * MaxTries
        OBVIOUS
    <2> HIDE DEF all
    <2> QED BY <1>1, <1>4, <1>5, <2>1 DEF Allowed
<1>7. Stage[pc] \in 0 .. 3
    <2>1. pc \in {"idle", "send", "await", "judge", "backoff", "limited", "done"}
        BY DEF ChatTypeOK
    <2> QED BY <2>1 DEF Stage
<1> HIDE DEF all
<1>8. WorkLeft = 4 * (all - Allowed) + Stage[pc]
    BY DEF WorkLeft, all, A
<1>9. WorkLeft \in Nat
    BY <1>6, <1>7, <1>8
<1> QED BY <1>6, <1>7, <1>9 DEF all, A

\* A step that allows one more try pays for what that try does.
LEMMA TryPaysFor ==
    ASSUME ChatTypeOK, ChatTypeOK', Allowed' >= Allowed + 1
    PROVE  WorkLeft' < WorkLeft
<1> DEFINE all == 2 * MaxRateLimitAttempts * MaxTries
<1>1. Stage[pc] \in 0 .. 3 /\ Allowed \in Int /\ all \in Int
    BY LeftIs
<1>2. Stage'[pc'] \in 0 .. 3 /\ Allowed' \in Int
    <2>1. pc' \in {"idle", "send", "await", "judge", "backoff", "limited", "done"}
        BY DEF ChatTypeOK
    <2>2. Stage'[pc'] \in 0 .. 3
        BY <2>1 DEF Stage
    <2>3. Attempts' \in Int /\ MaxTries \in Nat /\ try' \in Int
        <3>1. MaxTries \in Nat /\ MaxRateLimitAttempts \in Nat
            BY ConstantsAre DEF MaxTries
        <3>2. round' \in {1, 2} /\ attempt' \in Nat /\ try' \in Int
            BY ConstantsAre DEF ChatTypeOK
        <3> QED BY <3>1, <3>2 DEF Attempts
    <2>4. Allowed' = Attempts' * MaxTries + try'
        BY DEF Allowed, MaxTries
    <2> QED BY <2>2, <2>3, <2>4
<1>3. WorkLeft = 4 * (all - Allowed) + Stage[pc]
    BY DEF WorkLeft
<1>4. WorkLeft' = 4 * (all - Allowed') + Stage'[pc']
    BY DEF WorkLeft, MaxTries
<1> HIDE DEF all
<1> QED BY <1>1, <1>2, <1>3, <1>4

LEMMA StepUsesUp ==
    CallInv /\ CallInv' /\ ChatNext => UsesUp
<1> SUFFICES ASSUME CallInv, CallInv', ChatNext, pc \notin {"idle", "done"}
             PROVE  IF callCtx' = callCtx THEN pc' = "done" \/ WorkLeft' < WorkLeft
                                          ELSE pc' = pc /\ WorkLeft' = WorkLeft
    BY DEF UsesUp
<1>0. ChatTypeOK /\ ChatTypeOK' /\ pc \in {"send", "await", "judge", "backoff", "limited"}
    BY DEF CallInv, ChatTypeOK
<1>1. ASSUME UNCHANGED counters PROVE Allowed' = Allowed
    BY <1>1 DEF counters, Allowed, Attempts, MaxTries
<1>2. CASE Cancel
    <2>1. Allowed' = Allowed /\ pc' = pc /\ callCtx' # callCtx
        BY <1>1, <1>2 DEF Cancel
    <2>2. WorkLeft' = WorkLeft
        BY <2>1 DEF WorkLeft, Stage, MaxTries
    <2> QED BY <2>1, <2>2
\* Within a try.
<1>3. CASE /\ UNCHANGED <<counters, callCtx>>
           /\ \/ pc = "send" /\ pc' = "await"
              \/ pc = "await" /\ pc' = "judge"
              \/ pc = "judge" /\ pc' \in {"backoff", "limited", "done"}
              \/ pc \in {"backoff", "limited"} /\ pc' = "done"
    <2> DEFINE all == 2 * MaxRateLimitAttempts * MaxTries
    <2>1. Allowed' = Allowed /\ Allowed \in Int /\ all \in Int
        BY <1>0, <1>1, <1>3, LeftIs
    <2>2. WorkLeft = 4 * (all - Allowed) + Stage[pc]
          /\ WorkLeft' = 4 * (all - Allowed') + Stage[pc']
        BY DEF WorkLeft, MaxTries, Stage
    <2>3. Stage[pc] \in Nat /\ Stage[pc'] \in Nat /\ (pc' = "done" \/ Stage[pc'] < Stage[pc])
        BY <1>3 DEF Stage
    <2> HIDE DEF all
    <2>4. pc' = "done" \/ WorkLeft' < WorkLeft
        BY <2>1, <2>2, <2>3
    <2> QED BY <1>3, <2>4
\* To another try.
<1>4. CASE Resend
    <2>1. Attempts' = Attempts /\ try' = try + 1 /\ callCtx' = callCtx
        BY <1>4 DEF Resend, Attempts
    <2>2. Allowed' = Attempts * MaxTries + (try + 1)
        BY <2>1, NowAllowed
    <2>3. Allowed' >= Allowed + 1
        BY <1>0, <2>2, Counters DEF Allowed
    <2> QED BY <1>0, <2>1, <2>3, TryPaysFor
<1>5. CASE NextAttempt
    <2>1. Attempts' = Attempts + 1 /\ try' = 1 /\ callCtx' = callCtx
        BY <1>0, <1>5, OneMoreAttempt DEF NextAttempt
    <2>2. Allowed' = (Attempts + 1) * MaxTries + 1
        BY <2>1, NowAllowed
    <2>3. (Attempts + 1) * MaxTries = Attempts * MaxTries + MaxTries
        BY <1>0, Counters, Distributed
    <2>4. Allowed' >= Allowed + 1
        BY <1>0, <2>2, <2>3, Counters DEF Allowed
    <2> QED BY <1>0, <2>1, <2>4, TryPaysFor
<1>6. CASE AskAgain
    <2> DEFINE A == MaxRateLimitAttempts
    <2>1. round = 1 /\ round' = 2 /\ attempt' = 1 /\ try' = 1 /\ callCtx' = callCtx
        BY <1>6 DEF AskAgain
    <2>2. A \in Nat /\ attempt \in Nat /\ attempt <= A
        BY <1>0, Counters, Sizes
    <2>3. Attempts' = A /\ Attempts = attempt - 1
        BY <2>1, <2>2 DEF Attempts
    <2>4. Allowed' = A * MaxTries + 1
        BY <2>1, <2>3, NowAllowed
    <2>5. Attempts + 1 \in Int /\ A \in Int /\ Attempts + 1 <= A /\ MaxTries \in Nat
        BY <1>0, <2>2, <2>3, Counters
    <2> HIDE DEF A
    <2>6. (Attempts + 1) * MaxTries <= A * MaxTries /\ A * MaxTries \in Int
        BY <2>5, Monotone
    <2>7. (Attempts + 1) * MaxTries = Attempts * MaxTries + MaxTries
        BY <1>0, Counters, Distributed
    <2>8. Allowed' >= Allowed + 1
        BY <1>0, <2>4, <2>6, <2>7, Counters DEF Allowed
    <2> QED BY <1>0, <2>1, <2>8, TryPaysFor
<1>7. CASE Service \/ Send \/ BackOff \/ Exhausted \/ WaitForWindow \/ CtxDone \/ GiveUp \/ Fail
           \/ Accept \/ Reject
    BY <1>3, <1>7 DEF Service, Respond, Send, BackOff, Exhausted, WaitForWindow, CtxDone, GiveUp,
                      Fail, Accept, Reject, Finish, Sleep, counters
<1>8. ~ Return /\ ~ \E o \in Ops : Call(o)
    BY DEF Return, Call
<1> QED BY <1>2, <1>4, <1>5, <1>6, <1>7, <1>8 DEF ChatNext, Client

\* No call goes on for ever: whatever the service answers, every step of a
\* call ends it or lowers a number that is never negative, so the three
\* loops together run out, for every number of attempts, resends and hints.
\* (That a call also takes its steps is CallReturns.)
THEOREM CallsRunDown ==
    ChatSpec => [](WorkLeft \in Nat) /\ [][UsesUp]_chatVars
<1>1. CallInv => WorkLeft \in Nat
    BY LeftIs DEF CallInv
<1>2. CallInv /\ CallInv' /\ [ChatNext]_chatVars => [UsesUp]_chatVars
    BY StepUsesUp
<1> QED BY <1>1, <1>2, CallInit, CallNext, PTL DEF ChatSpec

-----------------------------------------------------------------------------
(* The processes.                                                          *)

\* What holds of each process on its own.
Sane(p) ==
    /\ phase[p] # "down" =>
         /\ inflight[p] = Cardinality(Running(p))
         /\ \A k \in Slots : handler[p][k] # "cut"
    /\ phase[p] = "drained" => Running(p) \subseteq latecomers[p]
    /\ phase[p] = "down" => \A k \in Slots : handler[p][k] \notin {"launched", "running"}
    /\ exit[p] = "drained" => \A k \in Slots : handler[p][k] = "cut" => k \in latecomers[p]

ProcInv == LifeTypeOK /\ \A p \in Procs : Sane(p)

-----------------------------------------------------------------------------
LEMMA SlotsAre ==
    IsFiniteSet(Slots) /\ IsFiniteSet(Procs)
BY LifecycleAssumption

LEMMA NoWorkIs ==
    NoWork \in [Slots -> 0 .. Steps]
BY LifecycleAssumption DEF NoWork

LEMMA RunningIs ==
    ASSUME NEW p \in Procs
    PROVE  IsFiniteSet(Running(p)) /\ Cardinality(Running(p)) \in Nat
<1>1. Running(p) \subseteq Slots
    BY DEF Running
<1>2. IsFiniteSet(Running(p))
    BY <1>1, SlotsAre, FS_Subset
<1> QED BY <1>2, FS_CardinalityType

\* A process none of whose own variables change stays sane.
LEMMA OtherProcess ==
    ASSUME NEW p \in Procs, Sane(p),
           phase'[p] = phase[p], handler'[p] = handler[p], inflight'[p] = inflight[p],
           exit'[p] = exit[p], latecomers'[p] = latecomers[p]
    PROVE  Sane(p)'
<1>1. Running(p)' = Running(p)
    BY DEF Running
<1> QED BY <1>1 DEF Sane

LEMMA AtExitIs ==
    ASSUME NEW s \in HandlerStates
    PROVE  /\ AtExit(s) \in HandlerStates \ {"launched", "running"}
           /\ s \notin {"launched", "running"} => AtExit(s) = s
           /\ s # "running" /\ s # "cut" => AtExit(s) # "cut"
<1>1. CASE s = "running"
    BY <1>1 DEF AtExit, HandlerStates, Ended
<1>2. CASE s = "launched"
    BY <1>2 DEF AtExit, HandlerStates, Ended
<1>3. CASE s \notin {"launched", "running"}
    <2>1. AtExit(s) = s
        BY <1>3 DEF AtExit
    <2> QED BY <1>3, <2>1
<1> QED BY <1>1, <1>2, <1>3

LEMMA CutAllIs ==
    ASSUME LifeTypeOK, NEW p \in Procs
    PROVE  /\ CutAll(p) \in [Slots -> HandlerStates]
           /\ \A k \in Slots : CutAll(p)[k] = AtExit(handler[p][k])
                               /\ handler[p][k] \in HandlerStates
<1>1. \A k \in Slots : handler[p][k] \in HandlerStates
    BY DEF LifeTypeOK
<1>2. \A k \in Slots : AtExit(handler[p][k]) \in HandlerStates
    BY <1>1, AtExitIs
<1> QED BY <1>1, <1>2 DEF CutAll

LEMMA ProcInit ==
    LifeInit => ProcInv
<1> SUFFICES ASSUME LifeInit PROVE ProcInv
    OBVIOUS
<1>1. PICK first \in Procs :
          phase = [p \in Procs |-> IF p = first THEN "polling" ELSE "down"]
    BY DEF LifeInit
<1>2. /\ handler = [p \in Procs |-> NoHandlers]
      /\ inflight = [p \in Procs |-> 0] /\ exit = [p \in Procs |-> "none"]
      /\ latecomers = [p \in Procs |-> {}]
    BY DEF LifeInit
<1>3. NoHandlers \in [Slots -> HandlerStates]
    BY DEF NoHandlers, HandlerStates
<1>4. LifeTypeOK
    <2>1. handler \in [Procs -> [Slots -> HandlerStates]]
        BY <1>2, <1>3
    <2>2. work \in [Procs -> [Slots -> 0 .. Steps]]
        BY LifecycleAssumption DEF LifeInit, NoWork
    <2>3. phase \in [Procs -> Phases]
        BY <1>1 DEF Phases
    <2> QED BY <1>2, <2>1, <2>2, <2>3, LifecycleAssumption DEF LifeInit, LifeTypeOK
<1>5. ASSUME NEW p \in Procs PROVE Sane(p)
    <2>1. \A k \in Slots : handler[p][k] = "none"
        BY <1>2 DEF NoHandlers
    <2>2. Running(p) = {}
        BY <2>1 DEF Running
    <2>3. Cardinality(Running(p)) = 0
        BY <2>2, FS_EmptySet
    <2> QED BY <1>2, <2>1, <2>2, <2>3 DEF Sane
<1> QED BY <1>4, <1>5 DEF ProcInv

-----------------------------------------------------------------------------
(* Handlers.                                                               *)

LEMMA LaunchKeeps ==
    ASSUME ProcInv, NEW p \in Procs, NEW k \in Slots, Launch(p, k)
    PROVE  ProcInv'
<1>1. LifeTypeOK /\ \A q \in Procs : Sane(q)
    BY DEF ProcInv
<1>2. LifeTypeOK'
    BY <1>1, LifecycleAssumption DEF Launch, LifeTypeOK, HandlerStates, watchdog
<1>3. /\ phase[p] = "polling" /\ handler[p][k] \notin {"launched", "running"}
      /\ handler' = [handler EXCEPT ![p][k] = "launched"]
      /\ UNCHANGED <<phase, inflight, exit, latecomers>>
    BY DEF Launch
<1>4. /\ \A q \in Procs : q # p => handler'[q] = handler[q]
      /\ handler'[p] = [handler[p] EXCEPT ![k] = "launched"]
      /\ handler[p] \in [Slots -> HandlerStates]
    BY <1>1, <1>3 DEF LifeTypeOK
<1>5. Sane(p)'
    <2>1. Running(p)' = Running(p)
        BY <1>3, <1>4 DEF Running
    <2>2. \A j \in Slots : handler'[p][j] = "cut" => handler[p][j] = "cut"
        BY <1>4
    <2> QED BY <1>1, <1>3, <2>1, <2>2 DEF Sane
<1>6. \A q \in Procs : Sane(q)'
    BY <1>1, <1>3, <1>4, <1>5, OtherProcess
<1> QED BY <1>2, <1>6 DEF ProcInv

LEMMA TrackKeeps ==
    ASSUME ProcInv, NEW p \in Procs, NEW k \in Slots, Track(p, k)
    PROVE  ProcInv'
<1>1. LifeTypeOK /\ \A q \in Procs : Sane(q)
    BY DEF ProcInv
<1>2. LifeTypeOK'
    BY <1>1 DEF Track, LifeTypeOK, HandlerStates, watchdog
<1>3. /\ phase[p] # "down" /\ handler[p][k] = "launched"
      /\ handler' = [handler EXCEPT ![p][k] = "running"]
      /\ inflight' = [inflight EXCEPT ![p] = @ + 1]
      /\ latecomers' = [latecomers EXCEPT ![p] = IF phase[p] = "drained" THEN @ \cup {k} ELSE @]
      /\ UNCHANGED <<phase, exit>>
    BY DEF Track
<1>4. /\ \A q \in Procs : q # p => /\ handler'[q] = handler[q] /\ inflight'[q] = inflight[q]
                                   /\ latecomers'[q] = latecomers[q]
      /\ latecomers'[p] = IF phase[p] = "drained" THEN latecomers[p] \cup {k} ELSE latecomers[p]
      /\ handler'[p] = [handler[p] EXCEPT ![k] = "running"]
      /\ handler[p] \in [Slots -> HandlerStates]
      /\ inflight'[p] = inflight[p] + 1
    BY <1>1, <1>3 DEF LifeTypeOK
<1>5. Sane(p)'
    <2>1. Running(p)' = Running(p) \cup {k} /\ k \notin Running(p)
        BY <1>3, <1>4 DEF Running
    <2>2. Cardinality(Running(p)') = Cardinality(Running(p)) + 1
        BY <2>1, RunningIs, FS_AddElement
    <2>3. \A j \in Slots : handler'[p][j] = "cut" => handler[p][j] = "cut"
        BY <1>4
    <2>4. phase'[p] = "drained" => Running(p)' \subseteq latecomers'[p]
        BY <1>1, <1>3, <1>4, <2>1 DEF Sane
    <2>5. latecomers[p] \subseteq latecomers'[p]
        BY <1>4
    <2> QED BY <1>1, <1>3, <1>4, <2>2, <2>3, <2>4, <2>5 DEF Sane
<1>6. \A q \in Procs : Sane(q)'
    BY <1>1, <1>3, <1>4, <1>5, OtherProcess
<1> QED BY <1>2, <1>6 DEF ProcInv

LEMMA DoneKeeps ==
    ASSUME ProcInv, NEW p \in Procs, NEW k \in Slots, NEW how \in {"completed", "aborted", "panicked"},
           phase[p] # "down", handler[p][k] = "running", Done(p, k, how)
    PROVE  ProcInv'
<1>1. LifeTypeOK /\ \A q \in Procs : Sane(q)
    BY DEF ProcInv
<1>2. /\ handler' = [handler EXCEPT ![p][k] = how]
      /\ work' = [work EXCEPT ![p][k] = 0]
      /\ inflight' = [inflight EXCEPT ![p] = @ - 1]
      /\ UNCHANGED <<phase, ctx, exit, latecomers, watchdog, trouble>>
    BY DEF Done
<1>3. /\ \A q \in Procs : q # p => handler'[q] = handler[q] /\ inflight'[q] = inflight[q]
      /\ handler'[p] = [handler[p] EXCEPT ![k] = how]
      /\ handler[p] \in [Slots -> HandlerStates]
      /\ inflight'[p] = inflight[p] - 1
    BY <1>1, <1>2 DEF LifeTypeOK
<1>4. Running(p)' = Running(p) \ {k} /\ k \in Running(p)
    BY <1>3 DEF Running
<1>5. Cardinality(Running(p)') = Cardinality(Running(p)) - 1
    BY <1>4, RunningIs, FS_RemoveElement
<1>6. IsFiniteSet(Running(p)') /\ Cardinality(Running(p)') \in Nat
    <2>1. IsFiniteSet(Running(p)')
        BY <1>4, RunningIs, FS_Subset
    <2> QED BY <2>1, FS_CardinalityType
<1>7. inflight'[p] = Cardinality(Running(p)')
    BY <1>1, <1>3, <1>5 DEF Sane
<1>8. LifeTypeOK'
    <2>1. inflight' \in [Procs -> Nat]
        BY <1>1, <1>2, <1>3, <1>6, <1>7 DEF LifeTypeOK
    <2>2. handler' \in [Procs -> [Slots -> HandlerStates]]
        BY <1>1, <1>2 DEF LifeTypeOK, HandlerStates, Ended
    <2>3. work' \in [Procs -> [Slots -> 0 .. Steps]]
        BY <1>1, <1>2, LifecycleAssumption DEF LifeTypeOK
    <2> QED BY <1>1, <1>2, <2>1, <2>2, <2>3 DEF LifeTypeOK, watchdog
<1>9. Sane(p)'
    <2>1. \A j \in Slots : handler'[p][j] = "cut" => handler[p][j] = "cut"
        BY <1>3
    <2> QED BY <1>1, <1>2, <1>4, <1>7, <2>1 DEF Sane
<1>10. \A q \in Procs : Sane(q)'
    BY <1>1, <1>2, <1>3, <1>9, OtherProcess
<1> QED BY <1>8, <1>10 DEF ProcInv

LEMMA HandleKeeps ==
    ASSUME ProcInv, NEW p \in Procs, NEW k \in Slots, Handle(p, k)
    PROVE  ProcInv'
<1>1. CASE Work(p, k)
    <2>1. LifeTypeOK /\ \A q \in Procs : Sane(q)
        BY DEF ProcInv
    <2>2. LifeTypeOK'
        BY <1>1, <2>1, LifecycleAssumption DEF Work, LifeTypeOK, watchdog
    <2>3. UNCHANGED <<phase, handler, inflight, exit, latecomers>>
        BY <1>1 DEF Work
    <2>4. \A q \in Procs : Sane(q)'
        BY <2>1, <2>3, OtherProcess
    <2> QED BY <2>2, <2>4 DEF ProcInv
<1>2. CASE Complete(p, k) \/ Abort(p, k) \/ Panic(p, k)
    BY <1>2, DoneKeeps DEF Complete, Abort, Panic
<1> QED BY <1>1, <1>2, LaunchKeeps, TrackKeeps DEF Handle

-----------------------------------------------------------------------------
(* Processes.                                                              *)

\* The end of a process, with what the action leaves alone.
LEMMA ExitKeeps ==
    ASSUME ProcInv, NEW p \in Procs, NEW how \in {"drained", "timeout", "admin", "killed"},
           phase[p] # "down", how = "drained" => phase[p] = "drained",
           Exit(p, how), UNCHANGED <<ctx, inflight, latecomers, watchdog>>, trouble' \in 0 .. MaxTrouble
    PROVE  ProcInv'
<1>1. LifeTypeOK /\ \A q \in Procs : Sane(q)
    BY DEF ProcInv
<1>2. /\ phase' = [phase EXCEPT ![p] = "down"]
      /\ exit' = [exit EXCEPT ![p] = how]
      /\ handler' = [handler EXCEPT ![p] = CutAll(p)]
      /\ work' = [work EXCEPT ![p] = NoWork]
    BY DEF Exit
<1>3. CutAll(p) \in [Slots -> HandlerStates]
    BY <1>1, CutAllIs
<1>4. LifeTypeOK'
    <2>1. handler' \in [Procs -> [Slots -> HandlerStates]]
        BY <1>1, <1>2, <1>3 DEF LifeTypeOK
    <2>2. work' \in [Procs -> [Slots -> 0 .. Steps]]
        BY <1>1, <1>2, NoWorkIs DEF LifeTypeOK
    <2> QED BY <1>1, <1>2, <2>1, <2>2 DEF LifeTypeOK, Phases, watchdog
<1>5. /\ phase'[p] = "down" /\ exit'[p] = how /\ handler'[p] = CutAll(p)
      /\ \A q \in Procs : q # p => /\ phase'[q] = phase[q] /\ exit'[q] = exit[q]
                                   /\ handler'[q] = handler[q]
    BY <1>1, <1>2 DEF LifeTypeOK
<1>6. \A k \in Slots : handler'[p][k] \notin {"launched", "running"}
    BY <1>1, <1>5, CutAllIs, AtExitIs
<1>7. ASSUME how = "drained", NEW k \in Slots, handler'[p][k] = "cut" PROVE k \in latecomers'[p]
    <2>1. handler[p][k] # "cut"
        BY <1>1 DEF Sane
    <2>2. handler[p][k] = "running"
        BY <1>1, <1>5, <1>7, <2>1, CutAllIs, AtExitIs
    <2> QED BY <1>1, <1>7, <2>2 DEF Running, Sane
<1>8. Sane(p)'
    BY <1>5, <1>6, <1>7 DEF Sane
<1>9. \A q \in Procs : Sane(q)'
    BY <1>1, <1>5, <1>8, OtherProcess
<1> QED BY <1>4, <1>9 DEF ProcInv

LEMMA StartUpKeeps ==
    ASSUME ProcInv, NEW p \in Procs, StartUp(p),
           guard' \in {"asleep", "counted", "killed"}, seen' \in Nat, trouble' \in 0 .. MaxTrouble
    PROVE  ProcInv'
<1>1. LifeTypeOK /\ \A q \in Procs : Sane(q)
    BY DEF ProcInv
<1>2. LifeTypeOK'
    <2>1. NoHandlers \in [Slots -> HandlerStates]
        BY DEF NoHandlers, HandlerStates
    <2>2. handler' \in [Procs -> [Slots -> HandlerStates]]
        BY <1>1, <2>1 DEF StartUp, LifeTypeOK
    <2>3. work' \in [Procs -> [Slots -> 0 .. Steps]]
        BY <1>1, NoWorkIs DEF StartUp, LifeTypeOK
    <2> QED BY <1>1, <2>2, <2>3 DEF StartUp, LifeTypeOK, Phases
<1>3. /\ phase'[p] = "polling" /\ handler'[p] = NoHandlers /\ inflight'[p] = 0 /\ exit'[p] = "none"
      /\ \A q \in Procs : q # p => /\ phase'[q] = phase[q] /\ exit'[q] = exit[q]
                                   /\ latecomers'[q] = latecomers[q]
                                   /\ handler'[q] = handler[q] /\ inflight'[q] = inflight[q]
    BY <1>1 DEF StartUp, LifeTypeOK
<1>4. Sane(p)'
    <2>1. \A k \in Slots : handler'[p][k] = "none"
        BY <1>3 DEF NoHandlers
    <2>2. Running(p)' = {}
        BY <2>1 DEF Running
    <2>3. Cardinality(Running(p)') = 0
        BY <2>2, FS_EmptySet
    <2> QED BY <1>3, <2>1, <2>3 DEF Sane
<1>5. \A q \in Procs : Sane(q)'
    BY <1>1, <1>3, <1>4, OtherProcess
<1> QED BY <1>2, <1>5 DEF ProcInv

LEMMA KillAllKeeps ==
    ASSUME ProcInv, KillAll
    PROVE  ProcInv'
<1>1. LifeTypeOK /\ \A q \in Procs : Sane(q)
    BY DEF ProcInv
<1>2. /\ phase' = [p \in Procs |-> "down"]
      /\ exit' = [p \in Procs |-> IF p \in Alive THEN "killed" ELSE exit[p]]
      /\ handler' = [p \in Procs |-> CutAll(p)]
      /\ work' = [p \in Procs |-> NoWork]
      /\ guard' = "killed" /\ UNCHANGED <<ctx, inflight, latecomers, seen, trouble>>
    BY DEF KillAll
<1>3. LifeTypeOK'
    <2>1. handler' \in [Procs -> [Slots -> HandlerStates]]
        BY <1>1, <1>2, CutAllIs
    <2>2. work' \in [Procs -> [Slots -> 0 .. Steps]]
        BY <1>2, NoWorkIs
    <2> QED BY <1>1, <1>2, <2>1, <2>2 DEF LifeTypeOK, Phases
<1>4. ASSUME NEW p \in Procs PROVE Sane(p)'
    <2>1. phase'[p] = "down" /\ handler'[p] = CutAll(p)
        BY <1>2
    <2>2. \A k \in Slots : handler'[p][k] \notin {"launched", "running"}
        BY <1>1, <2>1, CutAllIs, AtExitIs
    <2>3. ASSUME exit'[p] = "drained", NEW k \in Slots, handler'[p][k] = "cut"
          PROVE  k \in latecomers'[p]
        <3>1. p \notin Alive /\ exit[p] = "drained"
            BY <1>2, <2>3
        <3>2. phase[p] = "down"
            BY <3>1 DEF Alive
        <3>3. handler[p][k] \notin {"launched", "running"}
            BY <1>1, <3>2 DEF Sane
        <3>4. handler[p][k] = "cut"
            BY <1>1, <2>1, <2>3, <3>3, CutAllIs, AtExitIs
        <3> QED BY <1>1, <1>2, <3>1, <3>4 DEF Sane
    <2> QED BY <2>1, <2>2, <2>3 DEF Sane
<1> QED BY <1>3, <1>4 DEF ProcInv

\* Steps that touch no handler.
LEMMA PlainKeeps ==
    ASSUME ProcInv, LifeTypeOK', UNCHANGED <<handler, inflight, exit, latecomers>>,
           \A p \in Procs : /\ phase'[p] = "down" <=> phase[p] = "down"
                            /\ phase'[p] = "drained" => phase[p] = "drained" \/ inflight[p] = 0
    PROVE  ProcInv'
<1>1. \A p \in Procs : Running(p)' = Running(p)
    BY DEF Running
<1>2. \A p \in Procs : phase[p] # "down" /\ inflight[p] = 0 => Running(p) = {}
    BY RunningIs, FS_EmptySet DEF ProcInv, Sane
<1> QED BY <1>1, <1>2 DEF ProcInv, Sane

LEMMA ProcNext ==
    ProcInv /\ [LifeNext]_lifeVars => ProcInv'
<1> SUFFICES ASSUME ProcInv, [LifeNext]_lifeVars PROVE ProcInv'
    OBVIOUS
<1>0. LifeTypeOK
    BY DEF ProcInv
<1>1. ASSUME NEW p \in Procs, NEW k \in Slots, AdminShutdown(p, k) PROVE ProcInv'
    <2>1. trouble' \in 0 .. MaxTrouble
        BY <1>0, <1>1, LifecycleAssumption DEF AdminShutdown, Disturb, LifeTypeOK
    <2> QED BY <1>1, <2>1, ExitKeeps DEF AdminShutdown
<1>2. ASSUME NEW p \in Procs, StartReturns(p) PROVE ProcInv'
    <2>1. LifeTypeOK'
        BY <1>0, <1>2 DEF StartReturns, LifeTypeOK, Phases, watchdog
    <2>2. /\ UNCHANGED <<handler, inflight, exit, latecomers>>
          /\ \A q \in Procs : phase'[q] = phase[q] \/ (phase[q] = "polling" /\ phase'[q] = "draining")
        BY <1>0, <1>2 DEF StartReturns, LifeTypeOK
    <2> QED BY <2>1, <2>2, PlainKeeps
<1>3. ASSUME NEW p \in Procs, NEW after \in {"drained", "overdue"},
             ShutdownReturns(p, after), after = "drained" => inflight[p] = 0
      PROVE  ProcInv'
    <2>1. LifeTypeOK'
        BY <1>0, <1>3 DEF ShutdownReturns, LifeTypeOK, Phases, watchdog
    <2>2. /\ UNCHANGED <<handler, inflight, exit, latecomers>>
          /\ phase[p] = "draining" /\ phase'[p] = after
          /\ \A q \in Procs : q # p => phase'[q] = phase[q]
        BY <1>0, <1>3 DEF ShutdownReturns, LifeTypeOK
    <2> QED BY <1>3, <2>1, <2>2, PlainKeeps
<1>10. ASSUME NEW p \in Procs, MainReturns(p) PROVE ProcInv'
    <2>1. trouble' \in 0 .. MaxTrouble
        BY <1>0, <1>10 DEF MainReturns, LifeTypeOK
    <2> QED BY <1>10, <2>1, ExitKeeps DEF MainReturns
<1>4. ASSUME NEW p \in Procs, Sigterm(p) PROVE ProcInv'
    <2>1. LifeTypeOK'
        BY <1>0, <1>4, LifecycleAssumption DEF Sigterm, Disturb, LifeTypeOK, watchdog
    <2> QED BY <1>4, <2>1, PlainKeeps DEF Sigterm
<1>5. ASSUME NEW p \in Procs, Crash(p) PROVE ProcInv'
    <2>1. trouble' \in 0 .. MaxTrouble
        BY <1>0, <1>5, LifecycleAssumption DEF Crash, Disturb, LifeTypeOK
    <2> QED BY <1>5, <2>1, ExitKeeps DEF Crash
<1>6. ASSUME NEW p \in Procs, StartByHand(p) PROVE ProcInv'
    <2>1. trouble' \in 0 .. MaxTrouble
        BY <1>0, <1>6, LifecycleAssumption DEF StartByHand, Disturb, LifeTypeOK
    <2>2. guard' \in {"asleep", "counted", "killed"} /\ seen' \in Nat
        BY <1>0, <1>6 DEF StartByHand, LifeTypeOK, watchdog
    <2> QED BY <1>6, <2>1, <2>2, StartUpKeeps DEF StartByHand
<1>7. CASE Count \/ AllIsWell
    <2>1. seen' \in Nat
        <3>1. CASE AllIsWell
            BY <3>1 DEF AllIsWell
        <3>2. CASE Count
            <4>1. Alive \in SUBSET Procs
                BY DEF Alive
            <4>2. Cardinality(Alive) \in Nat
                BY <4>1, SlotsAre, FS_Subset, FS_CardinalityType
            <4> QED BY <3>2, <4>2 DEF Count
        <3> QED BY <1>7, <3>1, <3>2
    <2>2. LifeTypeOK'
        BY <1>0, <1>7, <2>1 DEF Count, AllIsWell, LifeTypeOK
    <2> QED BY <1>7, <2>2, PlainKeeps DEF Count, AllIsWell
<1>8. ASSUME NEW p \in Procs, StartOne(p) PROVE ProcInv'
    <2>1. guard' \in {"asleep", "counted", "killed"} /\ seen' \in Nat /\ trouble' \in 0 .. MaxTrouble
        BY <1>0, <1>8 DEF StartOne, LifeTypeOK
    <2> QED BY <1>8, <2>1, StartUpKeeps DEF StartOne
<1>9. CASE UNCHANGED lifeVars
    <2>1. LifeTypeOK'
        BY <1>0, <1>9 DEF lifeVars, LifeTypeOK, watchdog
    <2> QED BY <1>9, <2>1, PlainKeeps DEF lifeVars
<1> QED
    BY <1>1, <1>2, <1>3, <1>10, <1>4, <1>5, <1>6, <1>7, <1>8, <1>9, HandleKeeps, KillAllKeeps
    DEF LifeNext, Main, Drained, DrainTimeout, Watchdog

-----------------------------------------------------------------------------
(* The theorems.                                                           *)

\* Every reachable state is well typed: the WaitGroup never goes below zero,
\* which would panic.
THEOREM ProcTypeCorrect ==
    LifeSpec => []LifeTypeOK
<1> QED BY ProcInit, ProcNext, PTL DEF LifeSpec, ProcInv

\* The WaitGroup counts exactly the handlers that run, for any number of
\* them, however they end.
THEOREM InflightCounts ==
    LifeSpec => []InflightExact
<1>1. ProcInv => InflightExact
    BY DEF ProcInv, Sane, InflightExact, Alive
<1> QED BY <1>1, ProcInit, ProcNext, PTL DEF LifeSpec

\* The drain's count is exact, and when it reports success the end of the
\* process cuts only handlers that were first counted after Wait had returned,
\* for any number of processes, handlers and disturbances.
THEOREM DrainWaits ==
    LifeSpec => []CleanDrainCutsNone
<1>1. ProcInv => InflightExact
    BY DEF ProcInv, Sane, InflightExact, Alive
<1>2. ProcInv => CleanDrainCutsNone
    BY <1>1 DEF ProcInv, Sane, CleanDrainCutsNone
<1> QED BY <1>2, ProcInit, ProcNext, PTL DEF LifeSpec

-----------------------------------------------------------------------------
(* One instance: the safety half of OneInstanceInTheEnd.                   *)

\* Nobody disturbs them any more, one instance is up, it was not told to
\* stop, and the watchdog has seen no other number.
Settled ==
    /\ trouble = MaxTrouble
    /\ Cardinality(Alive) = 1
    /\ \A p \in Alive : phase[p] = "polling" /\ ctx[p] = "live"
    /\ guard = "asleep" \/ (guard = "counted" /\ seen = 1)

StaysSettled == Settled => Settled' /\ phase' = phase

LEMMA SettledStays ==
    [LifeNext]_lifeVars => StaysSettled
<1> SUFFICES ASSUME [LifeNext]_lifeVars, Settled PROVE Settled' /\ phase' = phase
    BY DEF StaysSettled
<1>1. /\ trouble = MaxTrouble /\ Cardinality(Alive) = 1
      /\ \A p \in Alive : phase[p] = "polling" /\ ctx[p] = "live"
      /\ guard = "asleep" \/ (guard = "counted" /\ seen = 1)
    BY DEF Settled
<1>2. ~ Disturb
    BY <1>1, LifecycleAssumption DEF Disturb
\* What leaves the processes and the watchdog's view alone.
<1>3. ASSUME UNCHANGED <<phase, ctx, trouble>>,
             UNCHANGED watchdog \/ guard' = "asleep" \/ (guard' = "counted" /\ seen' = 1)
      PROVE  Settled' /\ phase' = phase
    <2>1. Alive' = Alive
        BY <1>3 DEF Alive
    <2> HIDE DEF Alive
    <2>2. Cardinality(Alive') = 1 /\ trouble' = MaxTrouble
        BY <1>1, <1>3, <2>1
    <2>3. \A p \in Alive' : phase'[p] = "polling" /\ ctx'[p] = "live"
        BY <1>1, <1>3, <2>1
    <2>4. guard' = "asleep" \/ (guard' = "counted" /\ seen' = 1)
        BY <1>1, <1>3 DEF watchdog
    <2> QED BY <1>3, <2>2, <2>3, <2>4 DEF Settled
<1>4. ASSUME NEW p \in Procs, NEW k \in Slots, Handle(p, k) PROVE Settled' /\ phase' = phase
    <2>1. UNCHANGED <<phase, ctx, trouble>> /\ UNCHANGED watchdog
        BY <1>4 DEF Handle, Launch, Track, Work, Complete, Abort, Panic, Done
    <2> QED BY <1>3, <2>1
<1>5. ASSUME NEW p \in Procs PROVE ~ Main(p)
    <2>1. phase[p] # "down" => p \in Alive
        BY DEF Alive
    <2> QED BY <1>1, <2>1
            DEF Main, StartReturns, Drained, DrainTimeout, ShutdownReturns, MainReturns
<1>6. CASE Watchdog
    <2>1. ~ KillAll /\ ~ \E p \in Procs : StartOne(p)
        BY <1>1 DEF KillAll, TooMany, StartOne
    <2>2. UNCHANGED <<phase, ctx, trouble>>
          /\ (guard' = "asleep" \/ (guard' = "counted" /\ seen' = 1))
        BY <1>1, <1>6, <2>1 DEF Watchdog, Count, AllIsWell
    <2> QED BY <1>3, <2>2
<1>7. ASSUME NEW p \in Procs, NEW k \in Slots
      PROVE  ~ AdminShutdown(p, k) /\ ~ Sigterm(p) /\ ~ Crash(p) /\ ~ StartByHand(p)
    BY <1>2 DEF AdminShutdown, Sigterm, Crash, StartByHand
<1>8. ASSUME NEW p \in Procs PROVE ~ Sigterm(p) /\ ~ Crash(p) /\ ~ StartByHand(p)
    BY <1>2 DEF Sigterm, Crash, StartByHand
<1>9. CASE UNCHANGED lifeVars
    BY <1>3, <1>9 DEF lifeVars, watchdog
<1> QED BY <1>4, <1>5, <1>6, <1>7, <1>8, <1>9 DEF LifeNext

\* One instance that is left alone stays up, and no step of the watchdog's
\* own touches it or adds a second: what the watchdog restores it does not
\* undo, for every number of processes and handlers.  (That it comes to
\* this is OneInstanceInTheEnd.)  scripts/linguine-watchdog.sh.
THEOREM OneInstanceStays ==
    LifeSpec => [][StaysSettled]_lifeVars
<1> QED BY SettledStays, PTL DEF LifeSpec
=============================================================================
