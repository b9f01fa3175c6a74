---------------------------- MODULE FrontendProofs ----------------------------
(***************************************************************************)
(* The bound of the rate limiter for every rate, burst and number of       *)
(* connections, alone and in the front end, and TypeOK of Frontend with the*)
(* ownership of the mutex between the monitor of the socket and the        *)
(* shutdown.                                                               *)
(*                                                                         *)
(* The invariant of the limiter counts tokens and requests together: what a*)
(* connection was let through since its i-th request, and what its bucket  *)
(* still holds, is what a full bucket and the refills since then amount to.*)
(* Every step of the front end is a step of the limiter or leaves it alone,*)
(* so that the invariant carries over.                                     *)
(***************************************************************************)
EXTENDS Frontend, TLAPS

Tokens == [tokens : 0 .. Burst, last : Nat]

LimiterType ==
    /\ now \in Nat
    /\ bucket \in [Conns -> Tokens \cup {NoBucket}]
    /\ times \in [Conns -> Seq(Nat)]

\* Nothing is later than the clock.
Past(c) ==
    /\ \A i \in DOMAIN times[c] : times[c][i] <= now
    /\ bucket[c] # NoBucket =>
         /\ bucket[c].last <= now
         /\ \A i \in DOMAIN times[c] : times[c][i] <= bucket[c].last

\* Requests since the i-th one, inclusive.
Since(c, i) == (Len(times[c]) - i) + 1

Credit(c) ==
    \A i \in DOMAIN times[c] :
       IF bucket[c] = NoBucket
         THEN Since(c, i) <= Rate * (now - times[c][i])
         ELSE Since(c, i) + bucket[c].tokens
                <= Burst + Rate * (bucket[c].last - times[c][i])

BoundOf(c) ==
    \A i, j \in DOMAIN times[c] : i <= j =>
       (j - i) + 1 <= Burst + Rate * (times[c][j] - times[c][i])

LimiterInv == LimiterType /\ \A c \in Conns : Past(c) /\ Credit(c) /\ BoundOf(c)

-----------------------------------------------------------------------------
(* Arithmetic. *)

\* Refills of two stretches of time add up.
LEMMA RefillAdds ==
    ASSUME NEW r \in Nat, NEW a \in Nat, NEW b \in Nat, NEW d \in Nat
    PROVE  r * (d - a) = r * (d - b) + r * (b - a)
PROOF BY SMT

\* A longer time refills more.
LEMMA RefillGrows ==
    ASSUME NEW r \in Nat, NEW a \in Nat, NEW b \in Nat, a <= b
    PROVE  r * (b - a) \in Nat
PROOF
  <1>1. b - a \in Nat BY SMT
  <1>2. QED BY <1>1, SMT

\* And at least as much as the shorter one.
LEMMA RefillMonotone ==
    ASSUME NEW r \in Nat, NEW a \in Nat, NEW b \in Nat, NEW d \in Nat,
           a <= b, b <= d
    PROVE  r * (b - a) <= r * (d - a)
PROOF
  <1>1. r * (d - a) = r * (d - b) + r * (b - a) BY RefillAdds
  <1>2. r * (d - b) \in Nat BY RefillGrows
  <1>3. r * (b - a) \in Nat BY RefillGrows
  <1>4. QED BY <1>1, <1>2, <1>3, SMT

-----------------------------------------------------------------------------
(* The invariant. *)

LEMMA InitInv ==
    ASSUME LimiterInit PROVE LimiterInv
PROOF
  <1>1. LimiterType BY DEF LimiterInit, LimiterType
  <1>2. ASSUME NEW c \in Conns
        PROVE  Past(c) /\ Credit(c) /\ BoundOf(c)
    <2>1. times[c] = <<>> /\ bucket[c] = NoBucket BY <1>2 DEF LimiterInit
    <2>2. DOMAIN times[c] = {} BY <2>1
    <2>3. QED BY <2>1, <2>2 DEF Past, Credit, BoundOf
  <1>3. QED BY <1>1, <1>2 DEF LimiterInv

\* What is known of a connection in a state of the invariant.
LEMMA Facts ==
    ASSUME LimiterInv, NEW c \in Conns
    PROVE  /\ now \in Nat
           /\ Rate \in Nat /\ Burst \in Nat /\ Burst >= 1 /\ Idle \in Nat
           /\ times[c] \in Seq(Nat)
           /\ bucket[c] # NoBucket =>
                /\ bucket[c] \in Tokens
                /\ bucket[c].tokens \in Nat /\ bucket[c].tokens <= Burst
                /\ bucket[c].last \in Nat /\ bucket[c].last <= now
           /\ \A i \in DOMAIN times[c] :
                /\ i \in Nat /\ times[c][i] \in Nat /\ times[c][i] <= now
                /\ Since(c, i) \in Nat /\ Since(c, i) >= 1
PROOF
  <1>1. now \in Nat /\ times[c] \in Seq(Nat)
    BY DEF LimiterInv, LimiterType
  <1>2. Rate \in Nat /\ Burst \in Nat /\ Burst >= 1 /\ Idle \in Nat
    BY LimiterAssumption
  <1>3. bucket[c] # NoBucket => bucket[c] \in Tokens
    BY DEF LimiterInv, LimiterType
  <1>4. Past(c) BY DEF LimiterInv
  <1>5. bucket[c] # NoBucket =>
                /\ bucket[c].tokens \in Nat /\ bucket[c].tokens <= Burst
                /\ bucket[c].last \in Nat /\ bucket[c].last <= now
    BY <1>2, <1>3, <1>4 DEF Tokens, Past
  <1>6. ASSUME NEW i \in DOMAIN times[c]
        PROVE  /\ i \in Nat /\ times[c][i] \in Nat /\ times[c][i] <= now
               /\ Since(c, i) \in Nat /\ Since(c, i) >= 1
    <2>1. i \in 1 .. Len(times[c]) /\ Len(times[c]) \in Nat BY <1>1, <1>6
    <2>2. times[c][i] \in Nat BY <1>1, <2>1
    <2>3. QED BY <1>4, <1>6, <2>1, <2>2 DEF Since, Past
  <1>7. QED BY <1>1, <1>2, <1>3, <1>5, <1>6

\* The refill keeps to the capacity.
LEMMA RefilledType ==
    ASSUME LimiterInv, NEW c \in Conns
    PROVE  Refilled(c) \in Nat /\ Refilled(c) <= Burst
PROOF
  <1>1. CASE bucket[c] = NoBucket BY <1>1, Facts DEF Refilled
  <1>2. CASE bucket[c] # NoBucket
    <2> DEFINE k == bucket[c].tokens
               g == (now - bucket[c].last) * Rate
    <2>1. k \in Nat /\ Burst \in Nat BY <1>2, Facts
    <2>2. Rate * (now - bucket[c].last) \in Nat BY <1>2, Facts, RefillGrows
    <2>3. g = Rate * (now - bucket[c].last) BY <1>2, Facts, SMT
    <2>4. g \in Nat BY <2>2, <2>3
    <2>5. Refilled(c) = IF k + g > Burst THEN Burst ELSE k + g
      BY <1>2 DEF Refilled
    <2> HIDE DEF k, g
    <2>6. QED BY <2>1, <2>4, <2>5
  <1>3. QED BY <1>1, <1>2

\* After the refill a bucket holds no more than what its connection has left.
LEMMA RefilledCredit ==
    ASSUME LimiterInv, NEW c \in Conns, NEW i \in DOMAIN times[c]
    PROVE  Since(c, i) + Refilled(c) <= Burst + Rate * (now - times[c][i])
PROOF
  <1> DEFINE t == times[c][i]
             s == Since(c, i)
  <1>0. Credit(c) BY DEF LimiterInv
  <1>1. t \in Nat /\ s \in Nat /\ t <= now BY Facts
  <1>2. now \in Nat /\ Rate \in Nat /\ Burst \in Nat BY Facts
  <1>3. Rate * (now - t) \in Nat BY <1>1, <1>2, RefillGrows
  <1>4. CASE bucket[c] = NoBucket
    <2>1. s <= Rate * (now - t) BY <1>0, <1>4 DEF Credit
    <2>2. Refilled(c) = Burst BY <1>4 DEF Refilled
    <2> HIDE DEF t, s
    <2>3. s + Refilled(c) <= Burst + Rate * (now - t)
      BY <2>1, <2>2, <1>1, <1>2, <1>3
    <2>4. QED BY <2>3 DEF t, s
  <1>5. CASE bucket[c] # NoBucket
    <2> DEFINE k == bucket[c].tokens
               l == bucket[c].last
    <2>1. k \in Nat /\ l \in Nat /\ l <= now BY <1>5, Facts
    <2>2. s + k <= Burst + Rate * (l - t) BY <1>0, <1>5 DEF Credit
    <2>3. Past(c) BY DEF LimiterInv
    <2>4. t <= l BY <1>5, <2>3 DEF Past
    <2>5. Rate * (now - t) = Rate * (now - l) + Rate * (l - t)
      BY <1>1, <1>2, <2>1, RefillAdds
    <2>6. Rate * (now - l) \in Nat /\ Rate * (l - t) \in Nat
      BY <1>1, <1>2, <2>1, <2>4, RefillGrows
    <2>7. (now - l) * Rate = Rate * (now - l) BY <1>2, <2>1, SMT
    <2>8. Refilled(c) = IF k + (now - l) * Rate > Burst
                          THEN Burst ELSE k + (now - l) * Rate
      BY <1>5 DEF Refilled
    <2> DEFINE g == Rate * (now - l)
               h == Rate * (l - t)
               e == Rate * (now - t)
    <2> HIDE DEF t, s, k, l, g, h, e
    <2>9. Refilled(c) = IF k + g > Burst THEN Burst ELSE k + g
      BY <2>7, <2>8 DEF g
    <2>10. s + k <= Burst + h /\ e = g + h BY <2>2, <2>5 DEF g, h, e
    <2>11. g \in Nat /\ h \in Nat BY <2>6 DEF g, h
    <2>12. s + Refilled(c) <= Burst + e
      BY <2>9, <2>10, <2>11, <2>1, <1>1, <1>2
    <2>13. QED BY <2>12 DEF s, t, e
  <1>6. QED BY <1>4, <1>5

-----------------------------------------------------------------------------
(* One lemma for each step. *)

LEMMA TickInv ==
    ASSUME LimiterInv, Tick PROVE LimiterInv'
PROOF
  <1>0. now' = now + 1 /\ bucket' = bucket /\ times' = times BY DEF Tick
  <1>1. LimiterType' BY <1>0 DEF LimiterInv, LimiterType
  <1>2. ASSUME NEW c \in Conns
        PROVE  Past(c)' /\ Credit(c)' /\ BoundOf(c)'
    <2>0. Past(c) /\ Credit(c) /\ BoundOf(c) BY <1>2 DEF LimiterInv
    <2>1. now \in Nat /\ Rate \in Nat BY Facts
    <2>2. Past(c)'
      <3>1. \A i \in DOMAIN times[c] : times[c][i] <= now + 1
        BY <2>1, Facts
      <3>2. bucket[c] # NoBucket => bucket[c].last <= now + 1
        BY <2>1, Facts
      <3>3. QED BY <3>1, <3>2, <2>0, <1>0 DEF Past
    <2>3. ASSUME NEW i \in DOMAIN times[c], bucket[c] = NoBucket
          PROVE  Since(c, i) <= Rate * (now' - times[c][i])
      <3>1. Since(c, i) <= Rate * (now - times[c][i])
        BY <2>0, <2>3 DEF Credit
      <3>2. times[c][i] \in Nat /\ times[c][i] <= now /\ Since(c, i) \in Nat
        BY Facts
      <3>3. now' \in Nat /\ now <= now' BY <1>0, <2>1
      <3>4. Rate * (now - times[c][i]) <= Rate * (now' - times[c][i])
        BY <3>2, <3>3, <2>1, RefillMonotone
      <3>5. /\ Rate * (now - times[c][i]) \in Nat
            /\ Rate * (now' - times[c][i]) \in Nat
        <4>1. times[c][i] <= now' BY <3>2, <3>3, <2>1
        <4>2. QED BY <3>2, <3>3, <2>1, <4>1, RefillGrows
      <3>6. QED BY <3>1, <3>2, <3>4, <3>5
    <2>4. Credit(c)' BY <1>0, <2>0, <2>3 DEF Credit, Since
    <2>5. BoundOf(c)' BY <1>0, <2>0 DEF BoundOf
    <2>6. QED BY <2>2, <2>4, <2>5
  <1>3. QED BY <1>1, <1>2 DEF LimiterInv

LEMMA CleanupInv ==
    ASSUME LimiterInv, Cleanup PROVE LimiterInv'
PROOF
  <1>0. /\ bucket' = [c \in Conns |-> IF Stale(c) THEN NoBucket
                                                  ELSE bucket[c]]
        /\ now' = now /\ times' = times
    BY DEF Cleanup
  <1>1. LimiterType' BY <1>0 DEF LimiterInv, LimiterType
  <1>2. ASSUME NEW c \in Conns
        PROVE  Past(c)' /\ Credit(c)' /\ BoundOf(c)'
    <2>0. Past(c) /\ Credit(c) /\ BoundOf(c) BY <1>2 DEF LimiterInv
    <2>1. bucket'[c] = IF Stale(c) THEN NoBucket ELSE bucket[c]
      BY <1>0, <1>2
    <2>2. Past(c)' BY <1>0, <2>0, <2>1 DEF Past
    <2>3. BoundOf(c)' BY <1>0, <2>0 DEF BoundOf
    <2>4. ASSUME NEW i \in DOMAIN times[c], Stale(c)
          PROVE  Since(c, i) <= Rate * (now - times[c][i])
      <3> DEFINE t == times[c][i]
                 s == Since(c, i)
                 k == bucket[c].tokens
                 l == bucket[c].last
      <3>1. bucket[c] # NoBucket /\ now - l > Idle BY <2>4 DEF Stale
      <3>2. t \in Nat /\ s \in Nat /\ t <= now BY Facts
      <3>3. /\ now \in Nat /\ Rate \in Nat /\ Burst \in Nat /\ Idle \in Nat
            /\ k \in Nat /\ l \in Nat /\ l <= now
        BY <3>1, Facts
      <3>4. s + k <= Burst + Rate * (l - t) BY <2>0, <3>1 DEF Credit
      <3>5. t <= l BY <2>0, <3>1 DEF Past
      <3>6. Rate * (now - t) = Rate * (now - l) + Rate * (l - t)
        BY <3>2, <3>3, RefillAdds
      <3>7. Rate * (now - l) \in Nat /\ Rate * (l - t) \in Nat
        BY <3>2, <3>3, <3>5, RefillGrows
      <3>8. Rate * Idle <= Rate * (now - l)
        <4> HIDE DEF l
        <4>1. 0 \in Nat /\ 0 <= Idle /\ Idle <= now - l /\ now - l \in Nat
          BY <3>1, <3>3
        <4>2. Rate * (Idle - 0) <= Rate * ((now - l) - 0)
          BY <4>1, <3>3, RefillMonotone
        <4>3. Idle - 0 = Idle /\ (now - l) - 0 = now - l BY <4>1, <3>3
        <4>4. QED BY <4>2, <4>3
      <3>9. Burst <= Rate * Idle BY LimiterAssumption
      <3>10. Rate * Idle \in Nat BY <3>3
      <3> DEFINE g == Rate * (now - l)
                 h == Rate * (l - t)
                 e == Rate * (now - t)
                 d == Rate * Idle
      <3> HIDE DEF t, s, k, l, g, h, e, d
      <3>11. s + k <= Burst + h /\ e = g + h /\ d <= g /\ Burst <= d
        BY <3>4, <3>6, <3>8, <3>9 DEF g, h, e, d
      <3>12. g \in Nat /\ h \in Nat /\ d \in Nat BY <3>7, <3>10 DEF g, h, d
      <3>13. s <= e BY <3>11, <3>12, <3>2, <3>3
      <3>14. QED BY <3>13 DEF s, e, t
    <2>5. Credit(c)'
      BY <1>0, <2>0, <2>1, <2>4 DEF Credit, Since
    <2>6. QED BY <2>2, <2>3, <2>5
  <1>3. QED BY <1>1, <1>2 DEF LimiterInv

\* A request that is let through.
LEMMA AdmittedInv ==
    ASSUME LimiterInv, NEW c \in Conns, Allow(c), Admits(c)
    PROVE  Past(c)' /\ Credit(c)' /\ BoundOf(c)'
PROOF
  <1> DEFINE n == Len(times[c])
             r == Refilled(c)
  <1>1. now \in Nat /\ Rate \in Nat /\ Burst \in Nat /\ Burst >= 1
    BY Facts
  <1>2. times[c] \in Seq(Nat) /\ n \in Nat BY Facts
  <1>3. times'[c] = Append(times[c], now) /\ now' = now
    BY DEF Allow, LimiterInv, LimiterType
  <1>4. bucket'[c] = [tokens |-> r - 1, last |-> now]
    BY DEF Allow, LimiterInv, LimiterType
  <1>5. r \in Nat /\ r <= Burst /\ r >= 1 BY RefilledType DEF Admits
  <1>6. bucket'[c] \in Tokens BY <1>1, <1>4, <1>5 DEF Tokens
  <1>7. bucket'[c] # NoBucket BY <1>6, LimiterAssumption DEF Tokens
  <1>8. /\ DOMAIN times'[c] = 1 .. (n + 1) /\ DOMAIN times[c] = 1 .. n
        /\ Len(times'[c]) = n + 1
        /\ times'[c][n + 1] = now
        /\ \A i \in 1 .. n : times'[c][i] = times[c][i]
    BY <1>1, <1>2, <1>3
  <1>9. \A i \in 1 .. n : times[c][i] \in Nat /\ times[c][i] <= now
    BY <1>8, Facts
  <1>10. \A i \in 1 .. n :
           ((n - i) + 1) + r <= Burst + Rate * (now - times[c][i])
    BY <1>8, RefilledCredit DEF Since
  <1>11. \A i \in 1 .. n : Rate * (now - times[c][i]) \in Nat
    BY <1>1, <1>9, RefillGrows
  <1>12. now - now = 0 /\ Rate * (now - now) = 0 BY <1>1, SMT
  <1>13. bucket'[c].tokens = r - 1 /\ bucket'[c].last = now BY <1>4
  <1> HIDE DEF n, r
  <1>14. \A i \in 1 .. (n + 1) : i \in 1 .. n \/ i = n + 1 BY <1>2
  <1>15. Past(c)'
    <2>1. \A i \in 1 .. (n + 1) : times'[c][i] <= now
      BY <1>1, <1>8, <1>9, <1>14
    <2>2. QED BY <2>1, <1>1, <1>3, <1>8, <1>13 DEF Past
  <1>16. Credit(c)'
    <2>1. ASSUME NEW i \in 1 .. (n + 1)
          PROVE  (((n + 1) - i) + 1) + (r - 1)
                   <= Burst + Rate * (now - times'[c][i])
      <3>1. CASE i \in 1 .. n
        <4> DEFINE e == Rate * (now - times[c][i])
        <4>1. ((n - i) + 1) + r <= Burst + e /\ e \in Nat
          BY <3>1, <1>10, <1>11
        <4>2. times'[c][i] = times[c][i] BY <3>1, <1>8
        <4> HIDE DEF e
        <4>3. (((n + 1) - i) + 1) + (r - 1) <= Burst + e
          BY <4>1, <3>1, <1>1, <1>2, <1>5
        <4>4. QED BY <4>2, <4>3 DEF e
      <3>2. CASE i = n + 1
        <4>1. Rate * (now - times'[c][i]) = 0 BY <3>2, <1>8, <1>12
        <4>2. QED BY <4>1, <3>2, <1>1, <1>2, <1>5
      <3>3. QED BY <3>1, <3>2, <1>14
    <2>2. QED BY <2>1, <1>3, <1>7, <1>8, <1>13 DEF Credit, Since
  <1>17. BoundOf(c)'
    <2>1. BoundOf(c) BY DEF LimiterInv
    <2>2. ASSUME NEW i \in 1 .. (n + 1), NEW j \in 1 .. (n + 1), i <= j
          PROVE  (j - i) + 1
                   <= Burst + Rate * (times'[c][j] - times'[c][i])
      <3>1. CASE j \in 1 .. n
        <4>1. i \in 1 .. n BY <2>2, <3>1, <1>2
        <4>2. QED BY <2>1, <2>2, <3>1, <4>1, <1>8 DEF BoundOf
      <3>2. CASE j = n + 1 /\ i \in 1 .. n
        <4> DEFINE e == Rate * (now - times[c][i])
        <4>1. ((n - i) + 1) + r <= Burst + e /\ e \in Nat
          BY <3>2, <1>10, <1>11
        <4>2. times'[c][i] = times[c][i] /\ times'[c][j] = now
          BY <3>2, <1>8
        <4> HIDE DEF e
        <4>3. (j - i) + 1 <= Burst + e BY <4>1, <3>2, <1>1, <1>2, <1>5
        <4>4. QED BY <4>2, <4>3 DEF e
      <3>3. CASE j = n + 1 /\ i = n + 1
        <4>1. Rate * (times'[c][j] - times'[c][i]) = 0
          BY <3>3, <1>8, <1>12
        <4>2. (j - i) + 1 = 1 BY <3>3, <1>2
        <4>3. QED BY <4>1, <4>2, <1>1
      <3>4. QED BY <3>1, <3>2, <3>3, <1>14
    <2>3. QED BY <2>2, <1>8 DEF BoundOf
  <1>18. QED BY <1>15, <1>16, <1>17

\* A request that is refused.
LEMMA RefusedInv ==
    ASSUME LimiterInv, NEW c \in Conns, Allow(c), ~Admits(c)
    PROVE  Past(c)' /\ Credit(c)' /\ BoundOf(c)'
PROOF
  <1> DEFINE r == Refilled(c)
  <1>1. times' = times /\ now' = now BY DEF Allow
  <1>2. bucket'[c] = [tokens |-> r, last |-> now]
    BY DEF Allow, LimiterInv, LimiterType
  <1>3. r \in Nat /\ r <= Burst /\ now \in Nat /\ Burst \in Nat
    BY RefilledType, Facts
  <1>4. bucket'[c] \in Tokens BY <1>2, <1>3 DEF Tokens
  <1>5. bucket'[c] # NoBucket BY <1>4, LimiterAssumption DEF Tokens
  <1>6. bucket'[c].tokens = r /\ bucket'[c].last = now BY <1>2
  <1>7. \A i \in DOMAIN times[c] :
          /\ times[c][i] <= now
          /\ Since(c, i) + r <= Burst + Rate * (now - times[c][i])
    BY RefilledCredit, Facts
  <1> HIDE DEF r
  <1>8. Past(c)' BY <1>1, <1>3, <1>6, <1>7 DEF Past
  <1>9. Credit(c)' BY <1>1, <1>5, <1>6, <1>7 DEF Credit, Since
  <1>10. BoundOf(c)' BY <1>1 DEF BoundOf, LimiterInv
  <1>11. QED BY <1>8, <1>9, <1>10

LEMMA AllowInv ==
    ASSUME LimiterInv, NEW c \in Conns, Allow(c) PROVE LimiterInv'
PROOF
  <1>1. Past(c)' /\ Credit(c)' /\ BoundOf(c)' BY AdmittedInv, RefusedInv
  <1>2. now' = now /\ now \in Nat BY Facts DEF Allow
  <1>3. LimiterType'
    <2> DEFINE b == [tokens |-> IF Admits(c) THEN Refilled(c) - 1
                                             ELSE Refilled(c),
                     last   |-> now]
    <2>1. Refilled(c) \in Nat /\ Refilled(c) <= Burst /\ Burst \in Nat
      BY RefilledType, Facts
    <2>2. (IF Admits(c) THEN Refilled(c) - 1 ELSE Refilled(c)) \in 0 .. Burst
      BY <2>1 DEF Admits
    <2>3. b \in Tokens BY <2>2, <1>2 DEF Tokens
    <2>4. bucket' = [bucket EXCEPT ![c] = b] BY DEF Allow
    <2> HIDE DEF b
    <2>5. bucket' \in [Conns -> Tokens \cup {NoBucket}]
      BY <2>3, <2>4 DEF LimiterInv, LimiterType
    <2>6. times' \in [Conns -> Seq(Nat)]
      <3>1. times[c] \in Seq(Nat) /\ Append(times[c], now) \in Seq(Nat)
        BY <1>2, Facts
      <3>2. QED BY <3>1 DEF Allow, LimiterInv, LimiterType
    <2>7. QED BY <2>5, <2>6, <1>2 DEF LimiterType
  <1>4. ASSUME NEW d \in Conns, d # c
        PROVE  Past(d)' /\ Credit(d)' /\ BoundOf(d)'
    <2>1. times'[d] = times[d] /\ bucket'[d] = bucket[d]
      BY <1>4 DEF Allow, LimiterInv, LimiterType
    <2>2. Past(d) /\ Credit(d) /\ BoundOf(d) BY DEF LimiterInv
    <2>3. QED BY <1>2, <2>1, <2>2 DEF Past, Credit, BoundOf, Since
  <1>5. QED BY <1>1, <1>3, <1>4 DEF LimiterInv

LEMMA LimiterNextInv ==
    LimiterInv /\ [LimiterNext]_limiter => LimiterInv'
PROOF
  <1> SUFFICES ASSUME LimiterInv, [LimiterNext]_limiter PROVE LimiterInv'
    OBVIOUS
  <1>1. CASE Tick BY <1>1, TickInv
  <1>2. CASE Cleanup BY <1>2, CleanupInv
  <1>3. ASSUME NEW c \in Conns, Allow(c) PROVE LimiterInv'
    BY <1>3, AllowInv
  <1>4. CASE UNCHANGED limiter
    BY <1>4 DEF limiter, LimiterInv, LimiterType, Past, Credit, BoundOf, Since
  <1>5. QED BY <1>1, <1>2, <1>3, <1>4 DEF LimiterNext

\* In no window of time does a connection get more than a full bucket and the
\* refills of the window through the limiter, whatever the rate and the burst,
\* and whenever the cleanup deletes idle buckets (allow and cleanup of
\* ratelimit.go).
THEOREM LimiterBounds == LimiterSpec => []RateBound
PROOF
  <1>1. LimiterInit => LimiterInv BY InitInv
  <1>2. LimiterInv => RateBound BY DEF LimiterInv, RateBound, BoundOf
  <1>3. QED BY <1>1, <1>2, LimiterNextInv, PTL DEF LimiterSpec
-----------------------------------------------------------------------------

SocketType ==
    /\ made \in Nat \ {0}
    /\ path \in (1 .. made) \cup {Missing, File, Other}
    /\ server \in 0 .. made
    /\ mon \in {"wait", "recreate", "listen", "gone"}
    /\ mu \in {"free", "monitor", "shutdown"}
    /\ stop \in {"no", "signal", "drain", "closed", "exit"}
    /\ conn \in [Clients -> (0 .. made) \cup {Closed}]
    /\ running \subseteq Clients

\* The mutex is held by who is inside: never by both.
Owner == /\ (mu = "monitor") <=> (mon = "listen")
         /\ (mu = "shutdown") <=> (stop = "drain")

DiskType == full \in BOOLEAN /\ readOnly \in BOOLEAN

FrontInv == LimiterInv /\ SocketType /\ Owner /\ DiskType

-----------------------------------------------------------------------------
(* The rate limiter. *)

\* A step of the front end is one of the rate limiter, or none.
LEMMA LimiterStep ==
    ASSUME [Next]_vars PROVE [LimiterNext]_limiter
PROOF
  <1>1. ASSUME NEW c \in Clients, NEW w \in BOOLEAN, Serve(c, w)
        PROVE  LimiterNext
    BY <1>1, FrontendAssumption DEF Serve, LimiterNext
  <1>2. ASSUME NEW c \in Clients,
               Socket(Connect(c)) \/ Socket(Finish(c)) \/ Health(c)
        PROVE  UNCHANGED limiter
    BY <1>2 DEF Socket, Health
  <1>3. CASE \/ Socket(Check) \/ Socket(MonitorEnds) \/ Socket(RecreateBegin)
             \/ Socket(Listen) \/ NoSocket \/ Socket(Signal)
             \/ Socket(ShutdownBegin) \/ Socket(ShutdownEnd) \/ Socket(Exit)
    BY <1>3 DEF Socket, NoSocket
  <1>4. CASE Limiter(Tick) \/ Limiter(Cleanup)
    BY <1>4 DEF Limiter, LimiterNext
  <1>5. CASE CheckDisk \/ Tamper \/ Disk
    BY <1>5 DEF CheckDisk, Tamper, Disk
  <1>6. CASE UNCHANGED vars BY <1>6 DEF vars
  <1>7. QED BY <1>1, <1>2, <1>3, <1>4, <1>5, <1>6 DEF Next

-----------------------------------------------------------------------------
(* The socket. *)

SocketInv == SocketType /\ Owner

LEMMA ClosedConns ==
    ASSUME SocketType, NEW cs
    PROVE  CloseConns(cs) \in [Clients -> (0 .. made) \cup {Closed}]
PROOF BY DEF CloseConns, SocketType

LEMMA ConnectInv ==
    ASSUME SocketInv, NEW c \in Clients, Connect(c) PROVE SocketInv'
PROOF BY DEF SocketInv, SocketType, Owner, Connect

LEMMA FinishInv ==
    ASSUME SocketInv, NEW c \in Clients, Finish(c) PROVE SocketInv'
PROOF BY DEF SocketInv, SocketType, Owner, Finish

LEMMA CheckInv ==
    ASSUME SocketInv, Check PROVE SocketInv'
PROOF BY DEF SocketInv, SocketType, Owner, Check

LEMMA MonitorEndsInv ==
    ASSUME SocketInv, MonitorEnds PROVE SocketInv'
PROOF BY DEF SocketInv, SocketType, Owner, MonitorEnds

\* The monitor takes the mutex only when the shutdown has not got it.
LEMMA RecreateBeginInv ==
    ASSUME SocketInv, RecreateBegin PROVE SocketInv'
PROOF
  <1>1. /\ mon = "recreate" /\ mu = "free" /\ mu' = "monitor"
        /\ mon' = "listen" /\ server' = 0 /\ path' = Missing
        /\ made' = made /\ stop' = stop /\ running' = running
        /\ conn' = CloseConns(Of(server))
    BY DEF RecreateBegin
  <1>2. conn' \in [Clients -> (0 .. made) \cup {Closed}]
    BY <1>1, ClosedConns DEF SocketInv
  <1>3. SocketType' BY <1>1, <1>2 DEF SocketInv, SocketType
  <1>4. Owner' BY <1>1 DEF SocketInv, Owner
  <1>5. QED BY <1>3, <1>4 DEF SocketInv

LEMMA ListenInv ==
    ASSUME SocketInv, Listen PROVE SocketInv'
PROOF
  <1>1. /\ mon = "listen" /\ made' = made + 1 /\ path' = made'
        /\ server' = made' /\ mon' = "wait" /\ mu' = "free"
        /\ stop' = stop /\ conn' = conn /\ running' = running
    BY DEF Listen
  <1>2. made \in Nat /\ 0 .. made \subseteq 0 .. made' /\ made' \in Nat \ {0}
    BY <1>1 DEF SocketInv, SocketType
  <1>3. conn' \in [Clients -> (0 .. made') \cup {Closed}]
    BY <1>1, <1>2 DEF SocketInv, SocketType
  <1>4. path' \in 1 .. made' /\ server' \in 0 .. made' BY <1>1, <1>2
  <1>5. SocketType' BY <1>1, <1>2, <1>3, <1>4 DEF SocketInv, SocketType
  <1>6. Owner' BY <1>1 DEF SocketInv, Owner
  <1>7. QED BY <1>5, <1>6 DEF SocketInv

\* createSocket fails, and the mutex is free all the same.
LEMMA ListenFailsInv ==
    ASSUME SocketInv, ListenFails PROVE SocketInv'
PROOF BY DEF SocketInv, SocketType, Owner, ListenFails

LEMMA SignalInv ==
    ASSUME SocketInv, Signal PROVE SocketInv'
PROOF BY DEF SocketInv, SocketType, Owner, Signal

LEMMA ShutdownBeginInv ==
    ASSUME SocketInv, ShutdownBegin PROVE SocketInv'
PROOF
  <1>1. /\ stop = "signal" /\ mu = "free" /\ mu' = "shutdown"
        /\ stop' = "drain" /\ path' = path /\ server' = server
        /\ made' = made /\ mon' = mon /\ running' = running
        /\ conn' = CloseConns(Of(server) \ running)
    BY DEF ShutdownBegin
  <1>2. conn' \in [Clients -> (0 .. made) \cup {Closed}]
    BY <1>1, ClosedConns DEF SocketInv
  <1>3. SocketType' BY <1>1, <1>2 DEF SocketInv, SocketType
  <1>4. Owner' BY <1>1 DEF SocketInv, Owner
  <1>5. QED BY <1>3, <1>4 DEF SocketInv

LEMMA ShutdownEndInv ==
    ASSUME SocketInv, ShutdownEnd PROVE SocketInv'
PROOF
  <1>1. /\ stop = "drain" /\ mu' = "free" /\ stop' = "closed"
        /\ server' = 0 /\ path' = path /\ made' = made /\ mon' = mon
        /\ running' = running
        /\ conn' = CloseConns(Of(server) \ running)
    BY DEF ShutdownEnd
  <1>2. conn' \in [Clients -> (0 .. made) \cup {Closed}]
    BY <1>1, ClosedConns DEF SocketInv
  <1>3. SocketType' BY <1>1, <1>2 DEF SocketInv, SocketType
  <1>4. Owner' BY <1>1 DEF SocketInv, Owner
  <1>5. QED BY <1>3, <1>4 DEF SocketInv

LEMMA ExitInv ==
    ASSUME SocketInv, Exit PROVE SocketInv'
PROOF
  <1>1. /\ stop = "closed" /\ stop' = "exit" /\ running' = {}
        /\ path' = path /\ server' = server /\ made' = made /\ mon' = mon
        /\ mu' = mu /\ conn' = CloseConns(Clients)
    BY DEF Exit
  <1>2. conn' \in [Clients -> (0 .. made) \cup {Closed}]
    BY <1>1, ClosedConns DEF SocketInv
  <1>3. SocketType' BY <1>1, <1>2 DEF SocketInv, SocketType
  <1>4. Owner' BY <1>1 DEF SocketInv, Owner
  <1>5. QED BY <1>3, <1>4 DEF SocketInv

\* A request changes of the socket only which handlers run.
LEMMA RunningInv ==
    ASSUME SocketInv, running' \subseteq Clients,
           UNCHANGED <<path, server, made, mon, mu, stop, conn>>
    PROVE  SocketInv'
PROOF BY DEF SocketInv, SocketType, Owner

LEMMA SocketStep ==
    ASSUME SocketInv, [Next]_vars PROVE SocketInv'
PROOF
  <1>1. ASSUME NEW c \in Clients, Socket(Connect(c)) \/ Socket(Finish(c))
        PROVE  SocketInv'
    BY <1>1, ConnectInv, FinishInv DEF Socket
  <1>2. ASSUME NEW c \in Clients, NEW w \in BOOLEAN, Health(c) \/ Serve(c, w)
        PROVE  SocketInv'
    <2>1. running' \subseteq Clients
      BY <1>2 DEF Health, Serve, SocketInv, SocketType
    <2>2. UNCHANGED <<path, server, made, mon, mu, stop, conn>>
      BY <1>2 DEF Health, Serve
    <2>3. QED BY <2>1, <2>2, RunningInv
  <1>3. CASE \/ Socket(Check) \/ Socket(MonitorEnds) \/ Socket(RecreateBegin)
             \/ Socket(Listen) \/ NoSocket
    BY <1>3, CheckInv, MonitorEndsInv, RecreateBeginInv, ListenInv,
       ListenFailsInv DEF Socket, NoSocket
  <1>4. CASE \/ Socket(Signal) \/ Socket(ShutdownBegin)
             \/ Socket(ShutdownEnd) \/ Socket(Exit)
    BY <1>4, SignalInv, ShutdownBeginInv, ShutdownEndInv, ExitInv DEF Socket
  <1>5. CASE Tamper BY <1>5 DEF Tamper, SocketInv, SocketType, Owner
  <1>6. CASE UNCHANGED socket
    BY <1>6 DEF socket, SocketInv, SocketType, Owner
  <1>7. CASE Limiter(Tick) \/ Limiter(Cleanup) \/ CheckDisk \/ Disk
    BY <1>6, <1>7 DEF Limiter, CheckDisk, Disk
  <1>8. CASE UNCHANGED vars BY <1>6, <1>8 DEF vars
  <1>9. QED
    BY <1>1, <1>2, <1>3, <1>4, <1>5, <1>7, <1>8 DEF Next

-----------------------------------------------------------------------------
(* Together. *)

LEMMA DiskStep ==
    ASSUME DiskType, [Next]_vars PROVE DiskType'
PROOF
  <1>1. CASE UNCHANGED disk BY <1>1 DEF disk, DiskType
  <1>2. CASE CheckDisk BY <1>2 DEF CheckDisk, DiskType
  <1>3. CASE Disk BY <1>3 DEF Disk, DiskType
  <1>4. QED
    BY <1>1, <1>2, <1>3
       DEF Next, Socket, Limiter, Health, Serve, Tamper, NoSocket, vars

LEMMA FrontInit ==
    ASSUME Init PROVE FrontInv
PROOF
  <1>1. LimiterInv BY InitInv DEF Init
  <1>2. SocketType BY DEF Init, SocketInit, SocketType
  <1>3. Owner BY DEF Init, SocketInit, Owner
  <1>4. DiskType BY DEF Init, DiskType
  <1>5. QED BY <1>1, <1>2, <1>3, <1>4 DEF FrontInv

LEMMA FrontNext ==
    ASSUME FrontInv, [Next]_vars PROVE FrontInv'
PROOF
  <1>1. LimiterInv' BY LimiterStep, LimiterNextInv DEF FrontInv
  <1>2. SocketInv' BY SocketStep DEF FrontInv, SocketInv
  <1>3. DiskType' BY DiskStep DEF FrontInv
  <1>4. QED BY <1>1, <1>2, <1>3 DEF FrontInv, SocketInv

LEMMA FrontTypes ==
    ASSUME FrontInv PROVE TypeOK
PROOF
  <1>1. Bucket = Tokens BY DEF Bucket, Tokens
  <1>2. now \in Nat /\ bucket \in [Conns -> Bucket \cup {NoBucket}]
    BY <1>1 DEF FrontInv, LimiterInv, LimiterType
  <1>3. QED BY <1>2 DEF FrontInv, SocketType, Owner, DiskType, TypeOK

\* The mutex of sockmon: the monitor holds it exactly while it re-creates the
\* socket and Shutdown exactly while it drains, so never both, on every path
\* through failed listening, tampering with the socket and the signal; and
\* every variable of the front end has its type.
THEOREM MutexOwned == Spec => []TypeOK
PROOF
  <1>1. Init => FrontInv BY FrontInit
  <1>2. FrontInv /\ [Next]_vars => FrontInv' BY FrontNext
  <1>3. FrontInv => TypeOK BY FrontTypes
  <1>4. QED BY <1>1, <1>2, <1>3, PTL DEF Spec

\* The bound of the rate limiter holds in the composed front end: neither the
\* socket being re-created nor the shutdown gives a connection more requests.
THEOREM FrontendBounds == Spec => []RateBound
PROOF
  <1>1. Init => FrontInv BY FrontInit
  <1>2. FrontInv /\ [Next]_vars => FrontInv' BY FrontNext
  <1>3. FrontInv => RateBound BY DEF FrontInv, LimiterInv, RateBound, BoundOf
  <1>4. QED BY <1>1, <1>2, <1>3, PTL DEF Spec
=============================================================================
