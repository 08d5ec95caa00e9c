-------------------------- MODULE Features_proofs --------------------------
(***************************************************************************)
(* The two limiters, which implement the abstract one, and the theorems of *)
(* all the features side by side.                                          *)
(***************************************************************************)
EXTENDS FeatureMessages_proofs, FeatureFiles_proofs

(* The limiter of the error forwarder.                                     *)

\* Window, limit and deadline are positive, bounds are numbers.
LEMMA ErrorForwarderNumbers ==
  /\ ErrorWindow \in Nat \ {0} /\ MaxPerWindow \in Nat \ {0} /\ Deadline \in Nat \ {0}
  /\ LastTime["errorForwarder"] \in Nat /\ MaxErrors \in Nat /\ MaxStarts["errorForwarder"] \in Nat
<1>1. ErrorForwarder!ErrorForwarderAssumption
  BY FeaturesAssumption
<1> QED
  BY <1>1 DEF ErrorForwarder!ErrorForwarderAssumption

-----------------------------------------------------------------------------
(* What the filter of Fresh computes.                                      *)

\* f is what the filter has kept of hits up to each place.
IsKept(f, hits, window, t) ==
  f = [i \in 0 .. Len(hits) |-> IF i = 0 THEN <<>>
                                ELSE IF hits[i] + window > t THEN Append(f[i - 1], hits[i])
                                ELSE f[i - 1]]

Filter(hits, window, t) == (CHOOSE f : IsKept(f, hits, window, t))[Len(hits)]

\* The hits that have left the window are dropped by the filter reasoned about above.
LEMMA FreshFilters == \A k : ErrorForwarder!Fresh(k) = Filter(buckets[k], ErrorWindow, now)
BY DEF ErrorForwarder!Fresh, Filter, IsKept

\* Two ways to keep are one.
LEMMA KeptOnce ==
  ASSUME NEW hits \in Seq(Nat), NEW window, NEW t, NEW f, NEW g,
         IsKept(f, hits, window, t), IsKept(g, hits, window, t)
  PROVE  f[Len(hits)] = g[Len(hits)]
<1> DEFINE odd == {i \in 0 .. Len(hits) : f[i] # g[i]}
<1>1. SUFFICES ASSUME odd # {} PROVE FALSE
  OBVIOUS
<1>2. odd \subseteq Nat
  OBVIOUS
<1>3. PICK i \in odd : \A j \in odd : i <= j
  BY <1>1, <1>2, Least
<1>4. i \in 0 .. Len(hits) /\ f[i] # g[i]
  OBVIOUS
<1>5. i = 0 => f[i] = <<>> /\ g[i] = <<>>
  BY <1>4 DEF IsKept
<1>6. i # 0 => f[i - 1] = g[i - 1]
  <2> SUFFICES ASSUME i # 0 PROVE f[i - 1] = g[i - 1]
    OBVIOUS
  <2>1. i - 1 \in 0 .. Len(hits) /\ ~(i <= i - 1)
    BY <1>4
  <2>2. i - 1 \notin odd
    BY <1>3, <2>1
  <2> QED
    BY <2>1, <2>2
<1>7. i # 0 => /\ f[i] = IF hits[i] + window > t THEN Append(f[i - 1], hits[i]) ELSE f[i - 1]
               /\ g[i] = IF hits[i] + window > t THEN Append(g[i - 1], hits[i]) ELSE g[i - 1]
  BY <1>4 DEF IsKept
<1> QED
  BY <1>4, <1>5, <1>6, <1>7

\* Of hits in the order of their times, the last ones are kept.
LEMMA LastAreKept ==
  ASSUME NEW hits \in Seq(Nat), NEW window \in Nat, NEW t \in Nat, NEW m \in 0 .. Len(hits),
         \A i \in 1 .. m : hits[i] + window <= t,
         \A i \in m + 1 .. Len(hits) : hits[i] + window > t
  PROVE  /\ Filter(hits, window, t) \in Seq(Nat)
         /\ Len(Filter(hits, window, t)) = Len(hits) - m
         /\ \A i \in 1 .. Len(hits) - m : Filter(hits, window, t)[i] = hits[m + i]
<1> DEFINE kept(i) == IF i <= m THEN <<>> ELSE [j \in 1 .. i - m |-> hits[m + j]]
           g == [i \in 0 .. Len(hits) |-> kept(i)]
<1>1. ASSUME NEW i \in 0 .. Len(hits), i > m
      PROVE  kept(i) \in Seq(Nat) /\ Len(kept(i)) = i - m /\ \A j \in 1 .. i - m : kept(i)[j] = hits[m + j]
  <2>1. kept(i) = [j \in 1 .. i - m |-> hits[m + j]] /\ i - m \in Nat
    BY <1>1
  <2>2. \A j \in 1 .. i - m : hits[m + j] \in Nat
    <3> SUFFICES ASSUME NEW j \in 1 .. i - m PROVE hits[m + j] \in Nat
      OBVIOUS
    <3>1. m + j \in 1 .. Len(hits)
      OBVIOUS
    <3> QED
      BY <3>1
  <2> QED
    BY <2>1, <2>2
<1>2. ASSUME NEW i \in 0 .. Len(hits)
      PROVE  kept(i) = IF i = 0 THEN <<>>
                       ELSE IF hits[i] + window > t THEN Append(kept(i - 1), hits[i])
                       ELSE kept(i - 1)
  <2>1. CASE i = 0
    BY <2>1
  <2>2. CASE i # 0 /\ i <= m
    <3>1. ~(hits[i] + window > t)
      <4>1. i \in 1 .. m /\ i \in 1 .. Len(hits)
        BY <2>2
      <4>2. hits[i] \in Nat /\ hits[i] + window <= t
        BY <4>1
      <4> QED
        BY <4>2
    <3>2. kept(i) = <<>> /\ kept(i - 1) = <<>>
      BY <2>2
    <3> HIDE DEF kept
    <3> QED
      BY <2>2, <3>1, <3>2
  <2>3. CASE i > m
    <3>1. hits[i] + window > t /\ i \in 1 .. Len(hits) /\ hits[i] \in Nat
      BY <2>3
    <3>2. kept(i) = Append(kept(i - 1), hits[i])
      <4>1. kept(i) \in Seq(Nat) /\ Len(kept(i)) = i - m /\ \A j \in 1 .. i - m : kept(i)[j] = hits[m + j]
        BY <1>1, <2>3
      <4>2. /\ kept(i - 1) \in Seq(Nat) /\ Len(kept(i - 1)) = i - 1 - m
            /\ \A j \in 1 .. i - 1 - m : kept(i - 1)[j] = hits[m + j]
        <5>1. CASE i - 1 = m
          <6>1. kept(i - 1) = <<>>
            BY <5>1
          <6> HIDE DEF kept
          <6>2. i - 1 - m = 0
            BY <5>1
          <6> QED
            BY <6>1, <6>2
        <5>2. CASE i - 1 > m
          <6>1. i - 1 \in 0 .. Len(hits)
            BY <3>1
          <6> HIDE DEF kept
          <6> QED
            BY <1>1, <5>2, <6>1
        <5>3. i - 1 = m \/ i - 1 > m
          BY <2>3
        <5> HIDE DEF kept
        <5> QED
          BY <5>1, <5>2, <5>3
      <4> HIDE DEF kept
      <4> DEFINE more == Append(kept(i - 1), hits[i])
      <4>3. more \in Seq(Nat) /\ Len(more) = i - m
        BY <3>1, <4>2, <2>3
      <4>4. \A j \in 1 .. i - m : more[j] = hits[m + j]
        <5> SUFFICES ASSUME NEW j \in 1 .. i - m PROVE more[j] = hits[m + j]
          OBVIOUS
        <5>1. CASE j = i - m
          BY <5>1, <4>2, <3>1, <2>3
        <5>2. CASE j # i - m
          <6>1. j \in 1 .. i - 1 - m
            BY <5>2
          <6>2. more[j] = kept(i - 1)[j]
            BY <6>1, <4>2, <3>1
          <6> QED
            BY <6>1, <6>2, <4>2
        <5> QED
          BY <5>1, <5>2
      <4> HIDE DEF more
      <4>5. \A j \in 1 .. Len(more) : more[j] = kept(i)[j]
        BY <4>1, <4>3, <4>4
      <4>6. more = kept(i)
        BY <4>1, <4>3, <4>5, SeqEqual
      <4> QED
        BY <4>6 DEF more
    <3> HIDE DEF kept
    <3> QED
      BY <2>3, <3>1, <3>2
  <2> QED
    BY <2>1, <2>2, <2>3
<1>3. IsKept(g, hits, window, t)
  <2> HIDE DEF kept
  <2>1. \A i \in 0 .. Len(hits) : g[i] = kept(i) /\ (i # 0 => g[i - 1] = kept(i - 1))
    OBVIOUS
  <2>2. \A i \in 0 .. Len(hits) : g[i] = IF i = 0 THEN <<>>
                       ELSE IF hits[i] + window > t THEN Append(g[i - 1], hits[i])
                       ELSE g[i - 1]
    BY <1>2, <2>1
  <2>3. g = [i \in 0 .. Len(hits) |-> g[i]]
    OBVIOUS
  <2> HIDE DEF g
  <2> QED
    BY <2>2, <2>3 DEF IsKept
<1> HIDE DEF g
<1> DEFINE f == CHOOSE h : IsKept(h, hits, window, t)
<1>4. IsKept(f, hits, window, t)
  BY <1>3
<1>5. Filter(hits, window, t) = g[Len(hits)]
  <2> HIDE DEF f
  <2>1. f[Len(hits)] = g[Len(hits)]
    BY <1>3, <1>4, KeptOnce
  <2> QED
    BY <2>1 DEF Filter, f
<1>6. Filter(hits, window, t) = kept(Len(hits))
  BY <1>5 DEF g
<1>7. kept(Len(hits)) \in Seq(Nat) /\ Len(kept(Len(hits))) = Len(hits) - m
      /\ \A i \in 1 .. Len(hits) - m : kept(Len(hits))[i] = hits[m + i]
  <2>1. CASE Len(hits) > m
    <3>1. Len(hits) \in 0 .. Len(hits)
      OBVIOUS
    <3> HIDE DEF kept
    <3> QED
      BY <1>1, <2>1, <3>1
  <2>2. CASE Len(hits) = m
    <3>1. kept(Len(hits)) = <<>>
      BY <2>2
    <3>2. Len(hits) - m = 0
      BY <2>2
    <3> HIDE DEF kept
    <3> QED
      BY <3>1, <3>2
  <2> QED
    BY <2>1, <2>2
<1> HIDE DEF kept
<1> QED
  BY <1>6, <1>7

-----------------------------------------------------------------------------
(* What the limiter keeps of a stack are the last of the hits that passed; *)
(* those before them have left the window.                                 *)

InOrder(hits, t) ==
  \A i \in 1 .. Len(hits) : hits[i] <= t /\ \A j \in 1 .. i : hits[j] <= hits[i]

Remembers(bucket, hits, t) ==
  /\ Len(bucket) <= Len(hits)
  /\ \A i \in 1 .. Len(bucket) : bucket[i] = hits[Len(hits) - Len(bucket) + i]
  /\ \A i \in 1 .. Len(hits) - Len(bucket) : hits[i] + ErrorWindow <= t

BucketsRemember == \A k \in Stacks : InOrder(passed[k], now) /\ Remembers(buckets[k], passed[k], now)

ErrorForwarderInv == ErrorForwarder!TypeOK /\ BucketsRemember

\* From some place on, hits in the order of their times are in the window.
LEMMA WindowIsASuffix ==
  ASSUME NEW hits \in Seq(Nat), NEW t \in Nat,
         \A i \in 1 .. Len(hits) : \A j \in 1 .. i : hits[j] <= hits[i]
  PROVE  \E m \in 0 .. Len(hits) :
           /\ \A i \in 1 .. m : hits[i] + ErrorWindow <= t
           /\ \A i \in m + 1 .. Len(hits) : hits[i] + ErrorWindow > t
<1> USE ErrorForwarderNumbers
<1> DEFINE recent == {i \in 1 .. Len(hits) : hits[i] + ErrorWindow > t}
<1>1. \A i \in 1 .. Len(hits) : hits[i] \in Nat
  OBVIOUS
<1>2. CASE recent = {}
  <2>1. \A i \in 1 .. Len(hits) : ~(hits[i] + ErrorWindow > t)
    BY <1>2
  <2>2. \A i \in 1 .. Len(hits) : hits[i] + ErrorWindow <= t
    BY <1>1, <2>1
  <2>3. Len(hits) \in 0 .. Len(hits) /\ Len(hits) + 1 .. Len(hits) = {}
    OBVIOUS
  <2> QED
    BY <2>2, <2>3
<1>3. CASE recent # {}
  <2>1. recent \subseteq Nat
    OBVIOUS
  <2>2. PICK n \in recent : \A i \in recent : n <= i
    BY <1>3, <2>1, Least
  <2>3. n \in 1 .. Len(hits) /\ hits[n] + ErrorWindow > t
    OBVIOUS
  <2>4. ASSUME NEW i \in 1 .. n - 1 PROVE hits[i] + ErrorWindow <= t
    <3>1. i \in 1 .. Len(hits) /\ ~(n <= i)
      BY <2>3
    <3>2. i \notin recent
      BY <2>2, <3>1
    <3>3. ~(hits[i] + ErrorWindow > t)
      BY <3>1, <3>2
    <3> QED
      BY <1>1, <3>1, <3>3
  <2>5. ASSUME NEW i \in n .. Len(hits) PROVE hits[i] + ErrorWindow > t
    <3>1. i \in 1 .. Len(hits) /\ n \in 1 .. i
      BY <2>3
    <3>2. hits[n] <= hits[i]
      BY <3>1
    <3>3. hits[n] \in Nat /\ hits[i] \in Nat
      BY <1>1, <2>3, <3>1
    <3> QED
      BY <2>3, <3>2, <3>3
  <2>6. n - 1 \in 0 .. Len(hits) /\ (n - 1) + 1 = n
    BY <2>3
  <2> QED
    BY <2>4, <2>5, <2>6
<1> QED
  BY <1>2, <1>3

\* A filtered bucket still remembers every hit of the window.
LEMMA FreshRemembers ==
  ASSUME ErrorForwarderInv, NEW k \in Stacks
  PROVE  /\ ErrorForwarder!Fresh(k) \in Seq(Nat) /\ Remembers(ErrorForwarder!Fresh(k), passed[k], now)
         /\ \A i \in 1 .. Len(ErrorForwarder!Fresh(k)) : ErrorForwarder!Fresh(k)[i] + ErrorWindow > now
<1> USE ErrorForwarderNumbers
<1> DEFINE b == buckets[k]
           p == passed[k]
           f == ErrorForwarder!Fresh(k)
<1>1. b \in Seq(Nat) /\ p \in Seq(Nat) /\ now \in Nat
  BY DEF ErrorForwarderInv, ErrorForwarder!TypeOK
<1>2. InOrder(p, now) /\ Remembers(b, p, now)
  BY DEF ErrorForwarderInv, BucketsRemember
<1>3. f = Filter(b, ErrorWindow, now)
  BY FreshFilters
<1> HIDE DEF b, p, f
<1> DEFINE gone == Len(p) - Len(b)
<1>4. gone \in Nat /\ \A i \in 1 .. Len(b) : b[i] = p[gone + i]
  BY <1>1, <1>2 DEF Remembers
<1>5. \A i \in 1 .. gone : p[i] + ErrorWindow <= now
  BY <1>2 DEF Remembers
<1>14. gone + Len(b) = Len(p)
  BY <1>1
<1> HIDE DEF gone
<1>6. ASSUME NEW i \in 1 .. Len(b), NEW j \in 1 .. i PROVE b[j] <= b[i]
  <2>1. gone + i \in 1 .. Len(p) /\ gone + j \in 1 .. gone + i /\ j \in 1 .. Len(b)
    <3>1. Len(b) \in Nat /\ Len(p) \in Nat /\ gone \in Nat
      BY <1>1, <1>4
    <3> QED
      BY <1>14, <3>1, SMTT(30)
  <2>2. p[gone + j] <= p[gone + i]
    BY <1>2, <2>1 DEF InOrder
  <2> QED
    BY <1>4, <2>1, <2>2
<1>7. PICK m \in 0 .. Len(b) :
        /\ \A i \in 1 .. m : b[i] + ErrorWindow <= now
        /\ \A i \in m + 1 .. Len(b) : b[i] + ErrorWindow > now
  BY <1>1, <1>6, WindowIsASuffix
<1>8. f \in Seq(Nat) /\ Len(f) = Len(b) - m /\ \A i \in 1 .. Len(b) - m : f[i] = b[m + i]
  <2>1. ErrorWindow \in Nat
    OBVIOUS
  <2> DEFINE r == Filter(b, ErrorWindow, now)
  <2>2. r \in Seq(Nat) /\ Len(r) = Len(b) - m /\ \A i \in 1 .. Len(b) - m : r[i] = b[m + i]
    BY ONLY <1>1, <1>7, <2>1, LastAreKept
  <2> QED
    BY <1>3, <2>2
<1>15. Len(b) \in Nat /\ Len(p) \in Nat /\ Len(f) \in Nat /\ Len(f) = Len(b) - m /\ m \in 0 .. Len(b)
  BY <1>1, <1>8
<1>9. Len(f) <= Len(p) /\ Len(p) - Len(f) = gone + m
  BY ONLY <1>4, <1>14, <1>15
<1>10. ASSUME NEW i \in 1 .. Len(f)
       PROVE  f[i] = p[Len(p) - Len(f) + i] /\ f[i] + ErrorWindow > now
  <2>1. m + i \in m + 1 .. Len(b) /\ m + i \in 1 .. Len(b) /\ i \in 1 .. Len(b) - m
    BY <1>1, <1>8
  <2>2. f[i] = b[m + i] /\ b[m + i] + ErrorWindow > now
    BY <1>7, <1>8, <2>1
  <2>3. b[m + i] = p[gone + (m + i)]
    BY <1>4, <2>1
  <2>4. gone + (m + i) = Len(p) - Len(f) + i
    <3> DEFINE x == Len(p) - Len(f)
    <3>1. x = gone + m /\ gone \in Nat /\ m \in Nat /\ i \in Nat
      BY <1>4, <1>9, <1>15
    <3> HIDE DEF x
    <3>2. gone + (m + i) = x + i
      BY ONLY <3>1
    <3> QED
      BY <3>2 DEF x
  <2> QED
    BY <2>2, <2>3, <2>4
<1>11. ASSUME NEW i \in 1 .. Len(p) - Len(f) PROVE p[i] + ErrorWindow <= now
  <2>1. CASE i \in 1 .. gone
    BY <1>5, <2>1
  <2>2. CASE i \notin 1 .. gone
    <3>1. i - gone \in 1 .. m /\ i - gone \in 1 .. Len(b) /\ gone + (i - gone) = i
      BY <1>4, <1>9, <2>2
    <3>2. b[i - gone] = p[i]
      BY <1>4, <3>1
    <3> QED
      BY <1>7, <3>1, <3>2
  <2> QED
    BY <2>1, <2>2
<1>12. Remembers(f, p, now)
  BY <1>9, <1>10, <1>11 DEF Remembers
<1> QED
  BY <1>8, <1>10, <1>12 DEF f, p

\* As many hits are kept as are in the window.
LEMMA FreshAreTheRecent ==
  ASSUME ErrorForwarderInv, NEW k \in Stacks
  PROVE  ErrorForwarder!Permitted(k) = ErrorForwarder!Limit!Allowed(k)
<1> USE ErrorForwarderNumbers
<1> DEFINE p == passed[k]
           f == ErrorForwarder!Fresh(k)
           gone == Len(p) - Len(f)
<1>1. p \in Seq(Nat) /\ now \in Nat
  BY DEF ErrorForwarderInv, ErrorForwarder!TypeOK
<1>2. f \in Seq(Nat) /\ Remembers(f, p, now) /\ \A i \in 1 .. Len(f) : f[i] + ErrorWindow > now
  BY FreshRemembers
<1> HIDE DEF f
<1>3. ErrorForwarder!Limit!Recent(k) = {i \in DOMAIN p : now < p[i] + ErrorWindow}
  BY DEF ErrorForwarder!Limit!Recent
<1>13. DOMAIN p = 1 .. Len(p)
  BY <1>1
<1> HIDE DEF p
<1>4. gone \in Nat /\ gone + Len(f) = Len(p) /\ Len(f) \in Nat
  BY <1>1, <1>2 DEF Remembers
<1>5. /\ \A i \in 1 .. Len(f) : f[i] = p[gone + i]
      /\ \A i \in 1 .. gone : p[i] + ErrorWindow <= now
  BY <1>2 DEF Remembers
<1> HIDE DEF gone
<1>6. ASSUME NEW i \in 1 .. Len(p)
      PROVE  now < p[i] + ErrorWindow <=> i \in gone + 1 .. gone + Len(f)
  <2>1. p[i] \in Nat
    BY <1>1
  <2>2. CASE i \in 1 .. gone
    <3>1. p[i] + ErrorWindow <= now
      BY <1>5, <2>2
    <3> QED
      BY <1>1, <1>4, <2>1, <2>2, <3>1
  <2>3. CASE i \notin 1 .. gone
    <3>1. i - gone \in 1 .. Len(f) /\ gone + (i - gone) = i
      BY <1>4, <2>3
    <3>2. p[i] + ErrorWindow > now
      BY <1>2, <1>5, <3>1
    <3> QED
      BY <1>1, <1>4, <2>1, <3>1, <3>2
  <2> QED
    BY <2>2, <2>3
<1>7. ErrorForwarder!Limit!Recent(k) = gone + 1 .. gone + Len(f)
  <2>1. gone + 1 .. gone + Len(f) \subseteq 1 .. Len(p)
    BY <1>4
  <2> QED
    BY <1>3, <1>13, <1>6, <2>1
<1>8. Cardinality(gone + 1 .. gone + Len(f)) = Len(f)
  <2> DEFINE n == Len(f)
             first == gone + 1
             last == gone + n
  <2>1. first \in Int /\ last \in Int /\ n \in Nat
    BY <1>4
  <2>2. first = gone + 1 /\ last = gone + n /\ gone \in Nat
    BY <1>4
  <2> HIDE DEF n, first, last
  <2>3. Cardinality(first .. last) = IF first > last THEN 0 ELSE last - first + 1
    BY <2>1, FS_Interval
  <2>4. Cardinality(first .. last) = n
    BY ONLY <2>1, <2>2, <2>3
  <2> QED
    BY <2>4 DEF n, first, last
<1>9. ErrorForwarder!Limit!Cardinality(ErrorForwarder!Limit!Recent(k)) = Len(f)
  <2>1. ErrorForwarder!Limit!Cardinality(ErrorForwarder!Limit!Recent(k)) = Cardinality(ErrorForwarder!Limit!Recent(k))
    BY DEF ErrorForwarder!Limit!Cardinality, Cardinality
  <2> QED
    BY <1>7, <1>8, <2>1
<1> QED
  BY <1>9 DEF ErrorForwarder!Permitted, ErrorForwarder!Limit!Allowed, f

\* A hit that passes is remembered.
LEMMA OneMoreRemembered ==
  ASSUME NEW hits \in Seq(Nat), NEW bucket \in Seq(Nat), NEW t \in Nat,
         InOrder(hits, t), Remembers(bucket, hits, t)
  PROVE  InOrder(Append(hits, t), t) /\ Remembers(Append(bucket, t), Append(hits, t), t)
<1> DEFINE more == Append(hits, t)
           b == Append(bucket, t)
<1>1. more \in Seq(Nat) /\ Len(more) = Len(hits) + 1 /\ more[Len(hits) + 1] = t
  OBVIOUS
<1>2. \A i \in 1 .. Len(hits) : more[i] = hits[i]
  OBVIOUS
<1>3. b \in Seq(Nat) /\ Len(b) = Len(bucket) + 1 /\ b[Len(bucket) + 1] = t
  OBVIOUS
<1>4. \A i \in 1 .. Len(bucket) : b[i] = bucket[i]
  OBVIOUS
<1> HIDE DEF more, b
<1>5. Len(bucket) \in Nat /\ Len(hits) \in Nat /\ Len(bucket) <= Len(hits)
  BY DEF Remembers
<1>6. InOrder(more, t)
  <2> SUFFICES ASSUME NEW i \in 1 .. Len(more)
               PROVE  more[i] <= t /\ \A j \in 1 .. i : more[j] <= more[i]
    BY DEF InOrder
  <2>1. \A j \in 1 .. Len(hits) : hits[j] <= t
    BY DEF InOrder
  <2>2. CASE i = Len(hits) + 1
    <3>1. more[i] = t /\ t <= t
      BY <1>1, <2>2
    <3>2. ASSUME NEW j \in 1 .. i PROVE more[j] <= t
      <4>1. CASE j = Len(hits) + 1
        BY <1>1, <4>1
      <4>2. CASE j # Len(hits) + 1
        <5>1. j \in 1 .. Len(hits)
          BY <1>5, <2>2, <4>2
        <5> QED
          BY <1>2, <2>1, <5>1
      <4> QED
        BY <4>1, <4>2
    <3> QED
      BY <3>1, <3>2
  <2>3. CASE i # Len(hits) + 1
    <3>1. i \in 1 .. Len(hits)
      BY <1>1, <1>5, <2>3
    <3>2. hits[i] <= t /\ \A j \in 1 .. i : hits[j] <= hits[i]
      BY <3>1 DEF InOrder
    <3>3. \A j \in 1 .. i : j \in 1 .. Len(hits)
      BY <3>1
    <3> QED
      BY <1>2, <3>1, <3>2, <3>3
  <2> QED
    BY <2>2, <2>3
<1>7. Remembers(b, more, t)
  <2>1. Len(b) <= Len(more) /\ Len(more) - Len(b) = Len(hits) - Len(bucket)
    BY <1>1, <1>3, <1>5
  <2> DEFINE gone == Len(hits) - Len(bucket)
  <2>2. gone \in Nat /\ gone + Len(bucket) = Len(hits)
    BY <1>5
  <2>3. \A i \in 1 .. Len(bucket) : bucket[i] = hits[gone + i]
    BY DEF Remembers
  <2>4. \A i \in 1 .. gone : hits[i] + ErrorWindow <= t
    BY DEF Remembers
  <2>5. Len(more) - Len(b) = gone
    BY <2>1
  <2> HIDE DEF gone
  <2>6. ASSUME NEW i \in 1 .. Len(b) PROVE b[i] = more[gone + i]
    <3>1. CASE i = Len(bucket) + 1
      <4>1. gone + i = Len(hits) + 1
        BY <2>2, <3>1, <1>5
      <4> QED
        BY <1>1, <1>3, <3>1, <4>1
    <3>2. CASE i # Len(bucket) + 1
      <4>1. i \in 1 .. Len(bucket)
        BY <1>3, <1>5, <3>2
      <4>2. gone + i \in 1 .. Len(hits)
        BY <2>2, <4>1, <1>5
      <4> QED
        BY <1>2, <1>4, <2>3, <4>1, <4>2
    <3> QED
      BY <3>1, <3>2
  <2>7. ASSUME NEW i \in 1 .. gone PROVE more[i] + ErrorWindow <= t
    <3>1. i \in 1 .. Len(hits)
      BY <1>5, <2>2
    <3> QED
      BY <1>2, <2>4, <3>1
  <2> QED
    BY <2>1, <2>5, <2>6, <2>7 DEF Remembers
<1> QED
  BY <1>6, <1>7 DEF more, b

\* And so does one that the hit has been added to.
LEMMA HitRemembers ==
  ASSUME ErrorForwarderInv, NEW k \in Stacks, ErrorForwarder!Hit(k), UNCHANGED now
  PROVE  /\ buckets' \in [Stacks -> Seq(Nat)] /\ passed' \in [Stacks -> Seq(Nat)]
         /\ answer' \in Stacks \X BOOLEAN \X Nat /\ BucketsRemember'
<1>1. /\ buckets \in [Stacks -> Seq(Nat)] /\ passed \in [Stacks -> Seq(Nat)]
      /\ now \in Nat /\ BucketsRemember
  BY DEF ErrorForwarderInv, ErrorForwarder!TypeOK
<1>2. ErrorForwarder!Fresh(k) \in Seq(Nat) /\ Remembers(ErrorForwarder!Fresh(k), passed[k], now)
  BY FreshRemembers
<1> DEFINE f == ErrorForwarder!Fresh(k)
           ok == ErrorForwarder!Permitted(k)
<1>3. /\ buckets' = [buckets EXCEPT ![k] = IF ok THEN Append(f, now) ELSE f]
      /\ passed' = IF ok THEN [passed EXCEPT ![k] = Append(passed[k], now)] ELSE passed
  BY DEF ErrorForwarder!Hit
<1>4. answer' = <<k, ok, now>> /\ ok \in BOOLEAN
  BY DEF ErrorForwarder!Hit, ErrorForwarder!Permitted
<1> HIDE DEF f, ok
<1>5. f \in Seq(Nat) /\ Remembers(f, passed[k], now) /\ passed[k] \in Seq(Nat) /\ InOrder(passed[k], now)
  BY <1>1, <1>2 DEF f, BucketsRemember
<1>6. Append(f, now) \in Seq(Nat) /\ Append(passed[k], now) \in Seq(Nat)
  BY <1>1, <1>5
<1>7. \A s \in Stacks : s # k => buckets'[s] = buckets[s] /\ passed'[s] = passed[s]
  BY <1>1, <1>3
<1>8. answer' \in Stacks \X BOOLEAN \X Nat
  BY <1>1, <1>4
<1>9. CASE ok
  <2>1. buckets'[k] = Append(f, now) /\ passed'[k] = Append(passed[k], now)
    BY <1>1, <1>3, <1>9
  <2>2. InOrder(passed'[k], now) /\ Remembers(buckets'[k], passed'[k], now)
    BY <1>1, <1>5, <2>1, OneMoreRemembered
  <2>3. BucketsRemember'
    BY <1>1, <1>7, <2>2 DEF BucketsRemember
  <2>4. buckets' \in [Stacks -> Seq(Nat)] /\ passed' \in [Stacks -> Seq(Nat)]
    BY <1>1, <1>3, <1>6, <1>9
  <2> QED
    BY <1>8, <2>3, <2>4
<1>10. CASE ~ok
  <2>1. buckets'[k] = f /\ passed'[k] = passed[k]
    BY <1>1, <1>3, <1>10
  <2>3. BucketsRemember'
    BY <1>1, <1>5, <1>7, <2>1 DEF BucketsRemember
  <2>4. buckets' \in [Stacks -> Seq(Nat)] /\ passed' \in [Stacks -> Seq(Nat)]
    BY <1>1, <1>3, <1>5, <1>10
  <2> QED
    BY <1>8, <2>3, <2>4
<1> QED
  BY <1>9, <1>10

-----------------------------------------------------------------------------
(* The invariant.                                                          *)

ReportsTyped == \A r \in reports : r.stack \in Stacks /\ r.number \in Nat /\ r.fatal \in BOOLEAN

\* A report keeps the type of the reports.
LEMMA ReportTyped ==
  ASSUME ErrorForwarderInv, NEW k \in Stacks, NEW fatal \in BOOLEAN,
         ErrorForwarder!Report(k, fatal)
  PROVE  ReportsTyped'
<1> DEFINE r == [stack |-> k, number |-> Len(passed[k]) + 1, fatal |-> fatal]
<1>1. reports' \subseteq reports \cup {r}
  BY DEF ErrorForwarder!Report
<1>2. r.stack = k /\ r.number = Len(passed[k]) + 1 /\ r.fatal = fatal
  OBVIOUS
<1> HIDE DEF r
<1>3. Len(passed[k]) + 1 \in Nat
  <2>1. passed[k] \in Seq(Nat)
    BY DEF ErrorForwarderInv, ErrorForwarder!TypeOK
  <2> QED
    BY <2>1
<1>4. ReportsTyped
  BY DEF ErrorForwarderInv, ErrorForwarder!TypeOK, ReportsTyped
<1> QED
  BY <1>1, <1>2, <1>3, <1>4 DEF ReportsTyped

\* Empty buckets remember a history without hits.
LEMMA NothingPassed ==
  ASSUME buckets = ErrorForwarder!NoHits, passed = ErrorForwarder!NoHits
  PROVE  BucketsRemember /\ buckets \in [Stacks -> Seq(Nat)] /\ passed \in [Stacks -> Seq(Nat)]
<1>1. \A k \in Stacks : buckets[k] = <<>> /\ passed[k] = <<>>
  BY DEF ErrorForwarder!NoHits
<1>2. \A t : InOrder(<<>>, t) /\ Remembers(<<>>, <<>>, t)
  BY DEF InOrder, Remembers
<1> QED
  BY <1>1, <1>2 DEF BucketsRemember, ErrorForwarder!NoHits

\* The invariant holds at the start, which is a start of the abstract limiter.
LEMMA ErrorForwarderStarts == ErrorForwarder!Init => ErrorForwarderInv /\ ErrorForwarder!Limit!Init
<1> SUFFICES ASSUME ErrorForwarder!Init PROVE ErrorForwarderInv /\ ErrorForwarder!Limit!Init
  OBVIOUS
<1>1. buckets = ErrorForwarder!NoHits /\ passed = ErrorForwarder!NoHits /\ reports = {} /\ answer = ErrorForwarder!NoAnswer
  BY DEF ErrorForwarder!Init
<1>2. now = 0 /\ exitAt = 0 /\ errors = 0 /\ starts = 0
  BY DEF ErrorForwarder!Init
<1>3. up = FALSE /\ settings = [configured |-> FALSE, fatal |-> FALSE]
  BY DEF ErrorForwarder!Init
<1>4. settings \in [configured : BOOLEAN, fatal : BOOLEAN]
  BY <1>3
<1>5. {now, exitAt, errors, starts} \subseteq Nat
  BY <1>2
<1>6. ErrorForwarder!TypeOK
  BY <1>1, <1>3, <1>4, <1>5, NothingPassed DEF ErrorForwarder!TypeOK
<1>7. ErrorForwarder!Limit!Init
  BY <1>1, <1>2 DEF ErrorForwarder!Limit!Init, ErrorForwarder!Limit!Nothing,
     ErrorForwarder!Limit!NoAnswer, ErrorForwarder!NoHits, ErrorForwarder!NoAnswer
<1> QED
  BY <1>1, <1>6, <1>7, NothingPassed DEF ErrorForwarderInv

\* What the forwarder answers is what the abstract limiter would.
LEMMA HitIsAllowed ==
  ASSUME ErrorForwarderInv, NEW k \in Stacks, ErrorForwarder!Hit(k), UNCHANGED now
  PROVE  ErrorForwarder!Limit!Next
<1>1. ErrorForwarder!Permitted(k) = ErrorForwarder!Limit!Allowed(k)
  BY FreshAreTheRecent
<1>2. ErrorForwarder!Limit!Event(k)
  BY <1>1 DEF ErrorForwarder!Limit!Event, ErrorForwarder!Hit
<1> QED
  BY <1>2 DEF ErrorForwarder!Limit!Next

\* An error that is reported or dropped is a step of the abstract limiter.
LEMMA ErrorStep ==
  ASSUME ErrorForwarderInv, NEW k \in Stacks, NEW fatal \in BOOLEAN, ErrorForwarder!Error,
         ErrorForwarder!Hit(k), ErrorForwarder!Report(k, fatal),
         exitAt' \in Nat, UNCHANGED <<now, up, settings, starts>>
  PROVE  ErrorForwarderInv' /\ ErrorForwarder!Limit!Next
<1>1. ErrorForwarder!TypeOK /\ errors' \in Nat
  BY DEF ErrorForwarderInv, ErrorForwarder!TypeOK, ErrorForwarder!Error
<1>2. /\ buckets' \in [Stacks -> Seq(Nat)] /\ passed' \in [Stacks -> Seq(Nat)]
      /\ answer' \in Stacks \X BOOLEAN \X Nat /\ BucketsRemember'
  BY HitRemembers
<1>3. ReportsTyped'
  BY ReportTyped
<1>4. now' \in Nat /\ starts' \in Nat
  BY <1>1 DEF ErrorForwarder!TypeOK
<1>5. up' \in BOOLEAN /\ settings' \in [configured : BOOLEAN, fatal : BOOLEAN]
  BY <1>1, Zenon DEF ErrorForwarder!TypeOK
<1>6. {now, exitAt, errors, starts}' \subseteq Nat
  BY <1>1, <1>4
<1>7. ErrorForwarder!TypeOK'
  BY <1>2, <1>3, <1>5, <1>6, Zenon DEF ErrorForwarder!TypeOK, ReportsTyped
<1> QED
  BY <1>2, <1>7, HitIsAllowed DEF ErrorForwarderInv

\* The end of the process is the abstract limiter's forgetting.
LEMMA ExitStep ==
  ASSUME ErrorForwarderInv, ErrorForwarder!Exit
  PROVE  ErrorForwarderInv' /\ ErrorForwarder!Limit!Next
<1>1. ErrorForwarder!TypeOK
  BY DEF ErrorForwarderInv
<1>2. /\ buckets' = ErrorForwarder!NoHits /\ passed' = ErrorForwarder!NoHits /\ reports' = {} /\ answer' = ErrorForwarder!NoAnswer
      /\ exitAt' = 0 /\ now' = now /\ errors' = errors /\ starts' = starts
  BY DEF ErrorForwarder!Exit
<1>3. up' \in BOOLEAN /\ settings' \in [configured : BOOLEAN, fatal : BOOLEAN]
  BY <1>1 DEF ErrorForwarder!Exit, ErrorForwarder!TypeOK
<1>4. BucketsRemember' /\ buckets' \in [Stacks -> Seq(Nat)] /\ passed' \in [Stacks -> Seq(Nat)]
  <2>1. \A k \in Stacks : buckets'[k] = <<>> /\ passed'[k] = <<>>
    BY <1>2 DEF ErrorForwarder!NoHits
  <2>2. \A t : InOrder(<<>>, t) /\ Remembers(<<>>, <<>>, t)
    BY DEF InOrder, Remembers
  <2> QED
    BY <1>2, <2>1, <2>2 DEF BucketsRemember, ErrorForwarder!NoHits
<1>5. {now, exitAt, errors, starts}' \subseteq Nat
  BY <1>1, <1>2 DEF ErrorForwarder!TypeOK
<1>6. ErrorForwarder!TypeOK'
  BY <1>2, <1>3, <1>4, <1>5 DEF ErrorForwarder!TypeOK, ErrorForwarder!NoAnswer
<1>7. ErrorForwarder!Limit!Next
  BY <1>2 DEF ErrorForwarder!Limit!Next, ErrorForwarder!Limit!Forget,
     ErrorForwarder!Limit!Nothing, ErrorForwarder!Limit!NoAnswer, ErrorForwarder!NoHits,
     ErrorForwarder!NoAnswer
<1> QED
  BY <1>4, <1>6, <1>7 DEF ErrorForwarderInv

\* Time that passes makes a bucket forget nothing it needs.
LEMMA RememberedLater ==
  ASSUME ErrorForwarderInv, now' \in Nat, now <= now', UNCHANGED <<buckets, passed>>
  PROVE  BucketsRemember'
<1> SUFFICES ASSUME NEW k \in Stacks
             PROVE  InOrder(passed[k], now') /\ Remembers(buckets[k], passed[k], now')
  BY DEF BucketsRemember
<1> DEFINE p == passed[k]
           b == buckets[k]
<1>1. p \in Seq(Nat) /\ b \in Seq(Nat) /\ now \in Nat
  BY DEF ErrorForwarderInv, ErrorForwarder!TypeOK
<1>2. InOrder(p, now) /\ Remembers(b, p, now)
  BY DEF ErrorForwarderInv, BucketsRemember
<1> HIDE DEF p, b
<1>3. \A i \in 1 .. Len(p) : p[i] \in Nat
  BY <1>1
<1>4. InOrder(p, now')
  BY <1>1, <1>2, <1>3 DEF InOrder
<1>5. Remembers(b, p, now')
  <2>1. ASSUME NEW i \in 1 .. Len(p) - Len(b) PROVE p[i] + ErrorWindow <= now'
    <3>1. p[i] + ErrorWindow <= now
      BY <1>2 DEF Remembers
    <3>2. i \in 1 .. Len(p)
      BY <1>1
    <3>3. p[i] \in Nat /\ ErrorWindow \in Nat
      BY <1>3, <3>2, ErrorForwarderNumbers
    <3> QED
      BY <1>1, <3>1, <3>3
  <2> QED
    BY <1>2, <2>1 DEF Remembers
<1> QED
  BY <1>4, <1>5 DEF p, b

\* Each step keeps the invariant and is one of the abstract limiter, or
\* leaves it alone.
LEMMA ErrorForwarderStep ==
  ASSUME ErrorForwarderInv, ErrorForwarder!Next \/ UNCHANGED ErrorForwarder!vars
  PROVE  ErrorForwarderInv' /\ [ErrorForwarder!Limit!Next]_(ErrorForwarder!Limit!vars)
<1> USE ErrorForwarderNumbers
<1>1. ASSUME NEW k \in Stacks, ErrorForwarder!UnhandledRejection(k)
      PROVE  ErrorForwarderInv' /\ ErrorForwarder!Limit!Next
  <2>1. exitAt' \in Nat
    BY <1>1 DEF ErrorForwarder!UnhandledRejection, ErrorForwarderInv, ErrorForwarder!TypeOK
  <2>2. ErrorForwarder!Error /\ ErrorForwarder!Hit(k) /\ ErrorForwarder!Report(k, FALSE) /\ UNCHANGED <<now, up, settings, starts>> /\ FALSE \in BOOLEAN
    BY <1>1, Zenon DEF ErrorForwarder!UnhandledRejection
  <2> QED
    BY <2>1, <2>2, ErrorStep
<1>2. ASSUME NEW k \in Stacks, ErrorForwarder!UncaughtException(k)
      PROVE  ErrorForwarderInv' /\ ErrorForwarder!Limit!Next
  <2>1. exitAt' \in Nat
    <3>1. {now, exitAt} \subseteq Nat /\ now + Deadline \in Nat
      BY DEF ErrorForwarderInv, ErrorForwarder!TypeOK
    <3>2. exitAt' \in {exitAt, ErrorForwarder!Earlier(exitAt, now), ErrorForwarder!Earlier(exitAt, now + Deadline)}
      BY <1>2 DEF ErrorForwarder!UncaughtException
    <3> QED
      BY <3>1, <3>2 DEF ErrorForwarder!Earlier
  <2>2. settings.fatal \in BOOLEAN
    BY DEF ErrorForwarderInv, ErrorForwarder!TypeOK
  <2>3. ErrorForwarder!Error /\ ErrorForwarder!Hit(k) /\ ErrorForwarder!Report(k, settings.fatal) /\ UNCHANGED <<now, up, settings, starts>>
    BY <1>2, Zenon DEF ErrorForwarder!UncaughtException
  <2> QED
    BY <2>1, <2>2, <2>3, ErrorStep
<1>3. ASSUME NEW r \in reports, ErrorForwarder!Reported(r)
      PROVE  ErrorForwarderInv' /\ (ErrorForwarder!Limit!Next \/ UNCHANGED <<now, passed, answer>>)
  <2>1. CASE ErrorForwarder!Exit
    BY <2>1, ExitStep
  <2>2. CASE reports' = reports \ {r} /\ UNCHANGED <<now, up, settings, buckets, exitAt, passed, answer, errors, starts>>
    <3>1. ErrorForwarder!TypeOK /\ BucketsRemember
      BY DEF ErrorForwarderInv
    <3>2. BucketsRemember'
      BY <2>2, <3>1 DEF BucketsRemember
    <3>3. ErrorForwarder!TypeOK'
      BY <2>2, <3>1 DEF ErrorForwarder!TypeOK
    <3> QED
      BY <2>2, <3>2, <3>3 DEF ErrorForwarderInv
  <2> QED
    BY <1>3, <2>1, <2>2, Zenon DEF ErrorForwarder!Reported
<1>4. ASSUME ErrorForwarder!DeadlinePasses PROVE ErrorForwarderInv' /\ ErrorForwarder!Limit!Next
  BY <1>4, ExitStep DEF ErrorForwarder!DeadlinePasses
<1>5. ASSUME UNCHANGED <<buckets, passed, answer, reports>>,
             up' \in BOOLEAN, settings' \in [configured : BOOLEAN, fatal : BOOLEAN],
             {now, exitAt, errors, starts}' \subseteq Nat, now <= now'
      PROVE  ErrorForwarderInv' /\ (ErrorForwarder!Limit!Next \/ UNCHANGED <<now, passed, answer>>)
  <2>1. ErrorForwarder!TypeOK
    BY DEF ErrorForwarderInv
  <2>2. BucketsRemember'
    <3>1. now' \in Nat
      BY <1>5
    <3> QED
      BY <1>5, <3>1, RememberedLater
  <2>3. ErrorForwarder!TypeOK'
    BY <1>5, <2>1, Zenon DEF ErrorForwarder!TypeOK
  <2>4. ErrorForwarder!Limit!Next \/ UNCHANGED <<now, passed, answer>>
    <3>1. CASE now' = now
      BY <1>5, <3>1
    <3>2. CASE now' > now
      BY <1>5, <3>2 DEF ErrorForwarder!Limit!Next, ErrorForwarder!Limit!Advance
    <3>3. now \in Nat /\ now' \in Nat
      BY <1>5, <2>1 DEF ErrorForwarder!TypeOK
    <3> QED
      BY <1>5, <3>1, <3>2, <3>3
  <2> QED
    BY <2>2, <2>3, <2>4 DEF ErrorForwarderInv
<1>6. {now, exitAt, errors, starts} \subseteq Nat /\ now <= now /\ starts + 1 \in Nat /\ now + 1 \in Nat /\ now <= now + 1
  BY DEF ErrorForwarderInv, ErrorForwarder!TypeOK
<1>7. up \in BOOLEAN /\ settings \in [configured : BOOLEAN, fatal : BOOLEAN]
  BY DEF ErrorForwarderInv, ErrorForwarder!TypeOK
<1>8. ASSUME ErrorForwarder!Start
      PROVE  ErrorForwarderInv' /\ (ErrorForwarder!Limit!Next \/ UNCHANGED <<now, passed, answer>>)
  <2>1. up' \in BOOLEAN /\ settings' \in [configured : BOOLEAN, fatal : BOOLEAN]
    BY <1>8 DEF ErrorForwarder!Start
  <2>2. UNCHANGED <<now, exitAt, errors>> /\ starts' = starts + 1
    BY <1>8 DEF ErrorForwarder!Start
  <2>3. {now, exitAt, errors, starts}' \subseteq Nat /\ now <= now'
    BY <1>6, <2>2
  <2>4. UNCHANGED <<buckets, passed, answer, reports>>
    BY <1>8 DEF ErrorForwarder!Start
  <2> QED
    BY <1>5, <2>1, <2>3, <2>4
<1>9. ASSUME ErrorForwarder!Tick
      PROVE  ErrorForwarderInv' /\ (ErrorForwarder!Limit!Next \/ UNCHANGED <<now, passed, answer>>)
  <2>1. up' \in BOOLEAN /\ settings' \in [configured : BOOLEAN, fatal : BOOLEAN]
    BY <1>7, <1>9 DEF ErrorForwarder!Tick
  <2>2. UNCHANGED <<exitAt, errors, starts>> /\ now' = now + 1
    BY <1>9 DEF ErrorForwarder!Tick
  <2>3. {now, exitAt, errors, starts}' \subseteq Nat /\ now <= now'
    BY <1>6, <2>2
  <2>4. UNCHANGED <<buckets, passed, answer, reports>>
    BY <1>9 DEF ErrorForwarder!Tick
  <2> QED
    BY <1>5, <2>1, <2>3, <2>4
<1>10. ASSUME UNCHANGED ErrorForwarder!vars
       PROVE  ErrorForwarderInv' /\ (ErrorForwarder!Limit!Next \/ UNCHANGED <<now, passed, answer>>)
  <2>1. up' \in BOOLEAN /\ settings' \in [configured : BOOLEAN, fatal : BOOLEAN]
    BY <1>7, <1>10 DEF ErrorForwarder!vars
  <2>3. {now, exitAt, errors, starts}' \subseteq Nat /\ now <= now'
    BY <1>6, <1>10 DEF ErrorForwarder!vars
  <2>4. UNCHANGED <<buckets, passed, answer, reports>>
    BY <1>10 DEF ErrorForwarder!vars
  <2> QED
    BY <1>5, <2>1, <2>3, <2>4
<1>11. ErrorForwarderInv' /\ (ErrorForwarder!Limit!Next \/ UNCHANGED <<now, passed, answer>>)
  <2>1. CASE \E k \in Stacks : ErrorForwarder!UnhandledRejection(k) \/ ErrorForwarder!UncaughtException(k)
    <3>1. PICK k \in Stacks : ErrorForwarder!UnhandledRejection(k) \/ ErrorForwarder!UncaughtException(k)
      BY <2>1
    <3> QED
      BY <1>1, <1>2, <3>1
  <2>2. CASE \E r \in reports : ErrorForwarder!Reported(r)
    BY <1>3, <2>2
  <2>3. CASE ErrorForwarder!DeadlinePasses
    BY <1>4, <2>3
  <2>4. CASE ErrorForwarder!Start
    BY <1>8, <2>4
  <2>5. CASE ErrorForwarder!Tick
    BY <1>9, <2>5
  <2>6. CASE UNCHANGED ErrorForwarder!vars
    BY <1>10, <2>6
  <2> QED
    BY <2>1, <2>2, <2>3, <2>4, <2>5, <2>6, Zenon DEF ErrorForwarder!Next
<1> QED
  BY <1>11 DEF ErrorForwarder!Limit!vars

-----------------------------------------------------------------------------
(* The limiter of the webhook.                                             *)

\* A refusal is an answer.
LEMMA Refusals == \A r \in Repos, t \in Nat : <<r, FALSE, t>> \in Repos \X BOOLEAN \X Nat
OBVIOUS

\* The types hold at the start.
LEMMA WebhookStartsTyped == Webhook!Init => Webhook!TypeOK
<1> SUFFICES ASSUME Webhook!Init PROVE Webhook!TypeOK
  OBVIOUS
<1>1. accepted \in [Repos -> Seq(Nat)]
  BY DEF Webhook!Init, Webhook!NoneAccepted
<1>2. DOMAIN lastSeenAt = {}
  BY DEF Webhook!Init, Webhook!NoneSeen
<1>3. {now, requests, starts} \subseteq Nat
  BY DEF Webhook!Init
<1>4. deliveries = {} /\ responses = {} /\ decision = Webhook!NoDecision /\ up = FALSE /\ channel = FALSE
  BY DEF Webhook!Init
<1> QED
  BY <1>1, <1>2, <1>3, <1>4 DEF Webhook!TypeOK

\* Every step keeps the types.
LEMMA WebhookKeepsTypes == Webhook!TypeOK /\ [Webhook!Next]_(Webhook!vars) => Webhook!TypeOK'
<1> SUFFICES ASSUME Webhook!TypeOK, [Webhook!Next]_(Webhook!vars) PROVE Webhook!TypeOK'
  OBVIOUS
<1> USE DEF Webhook!TypeOK, Webhook!NoDecision
<1>1. ASSUME NEW kind \in Webhook!Kinds, Webhook!Reject(kind) PROVE Webhook!TypeOK'
  BY <1>1 DEF Webhook!Reject, Webhook!Request, Webhook!Respond
<1>2. CASE Webhook!Anonymous
  BY <1>2 DEF Webhook!Anonymous, Webhook!Request, Webhook!Respond
<1>3. ASSUME NEW r \in Repos, Webhook!Refuse(r) PROVE Webhook!TypeOK'
  <2>4. decision' = <<r, FALSE, now>> /\ FALSE \in BOOLEAN
    BY <1>3 DEF Webhook!Refuse
  <2>1. decision' \in Repos \X BOOLEAN \X Nat
    BY <2>4, Refusals
  <2>2. requests' \in Nat
    BY <1>3 DEF Webhook!Refuse, Webhook!Request
  <2>3. responses' \subseteq {200, 202, 400, 401, 429, 502, 503}
    BY <1>3 DEF Webhook!Refuse, Webhook!Respond
  <2> QED
    BY <1>3, <2>1, <2>2, <2>3 DEF Webhook!Refuse
<1>4. ASSUME NEW r \in Repos, NEW kind \in {"malformed", "ignored", "wanted"},
             Webhook!Accept(r, kind)
      PROVE  Webhook!TypeOK'
  <2>1. DOMAIN lastSeenAt' \subseteq Repos /\ \A s \in DOMAIN lastSeenAt' : lastSeenAt'[s] \in 0 .. now'
    BY <1>4 DEF Webhook!Accept, Webhook!Stamp
  <2>2. accepted' \in [Repos -> Seq(Nat)] /\ now' \in Nat
    BY <1>4 DEF Webhook!Accept
  <2>3. deliveries' \subseteq Repos \X Nat
    BY <1>4 DEF Webhook!Accept
  <2>4. responses' \subseteq {200, 202, 400, 401, 429, 502, 503}
    <3>1. responses' = responses \/ responses' = responses \cup {202} \/ responses' = responses \cup {503}
      BY <1>4 DEF Webhook!Accept, Webhook!Respond
    <3>2. responses \cup {202} \subseteq {200, 202, 400, 401, 429, 502, 503}
      OBVIOUS
    <3>3. responses \cup {503} \subseteq {200, 202, 400, 401, 429, 502, 503}
      OBVIOUS
    <3>4. CASE responses' = responses
      BY <3>4
    <3>5. CASE responses' = responses \cup {202}
      BY <3>2, <3>5
    <3>6. CASE responses' = responses \cup {503}
      BY <3>3, <3>6
    <3> QED
      BY <3>1, <3>4, <3>5, <3>6
  <2>5. decision' \in Repos \X BOOLEAN \X Nat /\ up' \in BOOLEAN /\ channel' \in BOOLEAN
    BY <1>4 DEF Webhook!Accept
  <2>6. requests' \in Nat /\ starts' \in Nat
    BY <1>4 DEF Webhook!Accept, Webhook!Request
  <2> QED
    BY <2>1, <2>2, <2>3, <2>4, <2>5, <2>6
<1>5. ASSUME NEW d \in deliveries, Webhook!Delivered(d) PROVE Webhook!TypeOK'
  BY <1>5 DEF Webhook!Delivered, Webhook!Respond
<1>6. CASE Webhook!Start
  BY <1>6 DEF Webhook!Start
<1>7. CASE Webhook!Stop
  <2>1. DOMAIN lastSeenAt' = {} /\ accepted' \in [Repos -> Seq(Nat)]
    BY <1>7 DEF Webhook!Stop, Webhook!NoneSeen, Webhook!NoneAccepted
  <2> QED
    BY <1>7, <2>1 DEF Webhook!Stop
<1>8. CASE Webhook!Tick
  <2>1. now' \in Nat /\ \A r \in DOMAIN lastSeenAt : lastSeenAt[r] \in 0 .. now'
    BY <1>8 DEF Webhook!Tick
  <2> QED
    BY <1>8, <2>1 DEF Webhook!Tick
<1>9. CASE UNCHANGED Webhook!vars
  BY <1>9 DEF Webhook!vars
<1> QED
  BY <1>1, <1>2, <1>3, <1>4, <1>5, <1>6, <1>7, <1>8, <1>9 DEF Webhook!Next

-----------------------------------------------------------------------------
(* What the limiter keeps of a repository is the last of its events.       *)
SeenIsLast ==
  \A r \in Repos :
    /\ accepted[r] = <<>> => r \notin DOMAIN lastSeenAt
    /\ accepted[r] # <<>> =>
         /\ r \in DOMAIN lastSeenAt
         /\ lastSeenAt[r] = accepted[r][Len(accepted[r])]
         /\ \A i \in DOMAIN accepted[r] : accepted[r][i] <= lastSeenAt[r]

WebhookInv == Webhook!TypeOK /\ SeenIsLast

\* The one time kept for a repository is the last that passed.
LEMMA SeenIsLastInductive ==
  Webhook!TypeOK /\ SeenIsLast /\ [Webhook!Next]_(Webhook!vars) => SeenIsLast'
<1> SUFFICES ASSUME Webhook!TypeOK, SeenIsLast, [Webhook!Next]_(Webhook!vars) PROVE SeenIsLast'
  OBVIOUS
<1>1. ASSUME UNCHANGED <<accepted, lastSeenAt>> PROVE SeenIsLast'
  BY <1>1 DEF SeenIsLast
<1>2. ASSUME NEW r \in Repos, NEW kind \in {"malformed", "ignored", "wanted"},
             Webhook!Accept(r, kind)
      PROVE  SeenIsLast'
  <2>1. /\ accepted' = [accepted EXCEPT ![r] = Append(@, now)]
        /\ lastSeenAt' = [s \in DOMAIN lastSeenAt \cup {r} |-> IF s = r THEN now ELSE lastSeenAt[s]]
    BY <1>2 DEF Webhook!Accept, Webhook!Stamp
  <2> SUFFICES ASSUME NEW s \in Repos
               PROVE  /\ accepted'[s] = <<>> => s \notin DOMAIN lastSeenAt'
                      /\ accepted'[s] # <<>> =>
                           /\ s \in DOMAIN lastSeenAt'
                           /\ lastSeenAt'[s] = accepted'[s][Len(accepted'[s])]
                           /\ \A i \in DOMAIN accepted'[s] : accepted'[s][i] <= lastSeenAt'[s]
    BY DEF SeenIsLast
  <2>2. CASE s # r
    <3>1. accepted'[s] = accepted[s] /\ (s \in DOMAIN lastSeenAt' <=> s \in DOMAIN lastSeenAt)
      BY <2>1, <2>2 DEF Webhook!TypeOK
    <3>2. s \in DOMAIN lastSeenAt => lastSeenAt'[s] = lastSeenAt[s]
      BY <2>1, <2>2
    <3> QED
      BY <3>1, <3>2 DEF SeenIsLast
  <2>3. CASE s = r
    <3> DEFINE old == accepted[r]
    <3>1. old \in Seq(Nat) /\ now \in Nat /\ accepted'[r] = Append(old, now)
      BY <2>1 DEF Webhook!TypeOK
    <3>2. r \in DOMAIN lastSeenAt' /\ lastSeenAt'[r] = now
      BY <2>1
    <3>3. \A i \in DOMAIN old : old[i] <= now
      <4>1. old # <<>> => \A i \in DOMAIN old : old[i] <= lastSeenAt[r] /\ lastSeenAt[r] <= now
        BY DEF SeenIsLast, Webhook!TypeOK
      <4>2. old # <<>> => lastSeenAt[r] \in Nat
        BY <3>1 DEF SeenIsLast
      <4>3. \A i \in DOMAIN old : old[i] \in Nat
        BY <3>1
      <4>4. old = <<>> => DOMAIN old = {}
        OBVIOUS
      <4> HIDE DEF old
      <4> QED
        BY <4>1, <4>2, <4>3, <4>4, <3>1
    <3> HIDE DEF old
    <3>4. Append(old, now) # <<>> /\ Append(old, now)[Len(Append(old, now))] = now
      BY <3>1
    <3>5. \A i \in DOMAIN Append(old, now) : Append(old, now)[i] <= now
      BY <3>1, <3>3
    <3> QED
      BY <2>3, <3>1, <3>2, <3>4, <3>5
  <2> QED
    BY <2>2, <2>3
<1>3. CASE Webhook!Stop
  BY <1>3 DEF Webhook!Stop, SeenIsLast, Webhook!NoneSeen, Webhook!NoneAccepted
<1> QED
  BY <1>1, <1>2, <1>3
  DEF Webhook!Next, Webhook!Reject, Webhook!Anonymous, Webhook!Refuse, Webhook!Delivered, Webhook!Start, Webhook!Tick, Webhook!vars

\* The instance has its own copy of the operators of FiniteSets.
LEMMA SameInWebhook == ASSUME NEW S PROVE Webhook!Limit!Cardinality(S) = Cardinality(S)
BY DEF Webhook!Limit!Cardinality, Cardinality

\* The one time is enough: it tells whether any event is in the window.
LEMMA OneTimeIsEnough ==
  ASSUME Webhook!TypeOK, SeenIsLast, NEW r \in Repos
  PROVE  Webhook!Throttled(r) <=> ~Webhook!Limit!Allowed(r)
<1> DEFINE times == accepted[r]
           recent == {i \in DOMAIN times : now < times[i] + RequestWindow}
<1>1. Webhook!Limit!Recent(r) = recent
  BY DEF Webhook!Limit!Recent
<1>2. times \in Seq(Nat) /\ now \in Nat /\ RequestWindow \in Nat
  BY FeaturesAssumption DEF Webhook!TypeOK, Webhook!WebhookAssumption
<1>3. IsFiniteSet(recent) /\ Cardinality(recent) \in Nat
  <2>1. IsFiniteSet(1 .. Len(times))
    BY <1>2, FS_Interval
  <2>2. recent \subseteq 1 .. Len(times)
    BY <1>2
  <2> QED
    BY <2>1, <2>2, FS_Subset, FS_CardinalityType
<1>4. CASE Webhook!Throttled(r)
  <2>1. times # <<>> /\ now < times[Len(times)] + RequestWindow
    BY <1>4 DEF Webhook!Throttled, SeenIsLast
  <2>2. Len(times) \in recent
    BY <2>1, <1>2
  <2>3. Cardinality(recent) # 0
    BY <2>2, <1>3, FS_EmptySet
  <2> QED
    BY <1>1, <1>3, <1>4, <2>3, SameInWebhook DEF Webhook!Limit!Allowed
<1>5. CASE ~Webhook!Throttled(r)
  <2>1. \A i \in DOMAIN times : ~(now < times[i] + RequestWindow)
    <3>1. CASE times = <<>>
      BY <3>1
    <3>2. CASE times # <<>>
      <4>1. lastSeenAt[r] = times[Len(times)] /\ r \in DOMAIN lastSeenAt
        BY <3>2 DEF SeenIsLast
      <4>2. lastSeenAt[r] \in Nat
        BY <4>1, <1>2, <3>2
      <4>3. ~(now < lastSeenAt[r] + RequestWindow)
        BY <1>5, <4>1 DEF Webhook!Throttled
      <4>4. \A i \in DOMAIN times : times[i] <= lastSeenAt[r] /\ times[i] \in Nat
        BY <3>2, <1>2 DEF SeenIsLast
      <4> QED
        BY <4>2, <4>3, <4>4, <1>2
    <3> QED
      BY <3>1, <3>2
  <2>2. recent = {}
    BY <2>1
  <2>3. Cardinality(recent) = 0
    BY <2>2, FS_EmptySet
  <2> QED
    BY <1>1, <1>5, <2>3, SameInWebhook DEF Webhook!Limit!Allowed
<1> QED
  BY <1>4, <1>5

-----------------------------------------------------------------------------
(* Every step of the program is a step of the promise or leaves it alone.  *)
LEMMA StepsAreAllowed ==
  ASSUME Webhook!TypeOK, SeenIsLast, [Webhook!Next]_(Webhook!vars)
  PROVE  [Webhook!Limit!Next]_(Webhook!Limit!vars)
<1>1. ASSUME UNCHANGED <<now, accepted, decision>>
      PROVE  [Webhook!Limit!Next]_(Webhook!Limit!vars)
  BY <1>1 DEF Webhook!Limit!vars
<1>2. ASSUME NEW r \in Repos, Webhook!Refuse(r) PROVE Webhook!Limit!Next
  <2>1. Webhook!Limit!Allowed(r) = FALSE
    <3>1. ~Webhook!Limit!Allowed(r)
      BY <1>2, OneTimeIsEnough DEF Webhook!Refuse
    <3>2. Webhook!Limit!Allowed(r) \in BOOLEAN
      BY DEF Webhook!Limit!Allowed
    <3> QED
      BY <3>1, <3>2
  <2>2. decision' = <<r, FALSE, now>> /\ UNCHANGED <<now, accepted>>
    BY <1>2 DEF Webhook!Refuse
  <2>3. Webhook!Limit!Event(r)
    BY <2>1, <2>2 DEF Webhook!Limit!Event
  <2> QED
    BY <2>3 DEF Webhook!Limit!Next
<1>3. ASSUME NEW r \in Repos, NEW kind \in {"malformed", "ignored", "wanted"},
             Webhook!Accept(r, kind)
      PROVE  Webhook!Limit!Next
  <2>1. Webhook!Limit!Allowed(r) = TRUE
    <3>1. Webhook!Limit!Allowed(r)
      BY <1>3, OneTimeIsEnough DEF Webhook!Accept
    <3>2. Webhook!Limit!Allowed(r) \in BOOLEAN
      BY DEF Webhook!Limit!Allowed
    <3> QED
      BY <3>1, <3>2
  <2>2. decision' = <<r, TRUE, now>> /\ UNCHANGED now /\ accepted' = [accepted EXCEPT ![r] = Append(@, now)]
    BY <1>3 DEF Webhook!Accept
  <2>3. Webhook!Limit!Event(r)
    BY <2>1, <2>2 DEF Webhook!Limit!Event
  <2> QED
    BY <2>3 DEF Webhook!Limit!Next
<1>4. CASE Webhook!Stop
  BY <1>4 DEF Webhook!Stop, Webhook!Limit!Next, Webhook!Limit!Forget, Webhook!Limit!Nothing,
     Webhook!Limit!NoAnswer, Webhook!NoneAccepted, Webhook!NoDecision
<1>5. CASE Webhook!Tick
  BY <1>5 DEF Webhook!Tick, Webhook!TypeOK, Webhook!Limit!Next, Webhook!Limit!Advance
<1> QED
  BY <1>1, <1>2, <1>3, <1>4, <1>5
  DEF Webhook!Next, Webhook!Reject, Webhook!Anonymous, Webhook!Delivered, Webhook!Start, Webhook!vars

\* The invariant holds at the start, which is a start of the abstract limiter.
LEMMA WebhookStarts == Webhook!Init => WebhookInv /\ Webhook!Limit!Init
BY WebhookStartsTyped
   DEF Webhook!Init, WebhookInv, SeenIsLast, Webhook!NoneSeen, Webhook!NoneAccepted, Webhook!NoDecision, Webhook!Limit!Init, Webhook!Limit!Nothing, Webhook!Limit!NoAnswer

\* Each step keeps the invariant and is one of the abstract limiter, or
\* leaves it alone.
LEMMA WebhookStep ==
  ASSUME WebhookInv, Webhook!Next \/ UNCHANGED Webhook!vars
  PROVE  WebhookInv' /\ [Webhook!Limit!Next]_(Webhook!Limit!vars)
BY WebhookKeepsTypes, SeenIsLastInductive, StepsAreAllowed DEF WebhookInv

-----------------------------------------------------------------------------
(* All features side by side.                                              *)

\* The invariant of the feature that is exercised; of the others, what
\* their action properties ask of them.
FeaturesInv ==
  /\ feature \in Features /\ now \in Nat
  /\ feature = "birthday" => BirthdayInv
  /\ feature = "announcements" => AnnouncementsInv
  /\ feature = "errorForwarder" => ErrorForwarderInv
  /\ feature = "webhook" => WebhookInv
  /\ feature = "starboard" => StarboardInv
  /\ feature = "gameActivity" => GameActivityInv
  /\ feature = "nowPlaying" => NowPlayingInv
  /\ feature = "calendar" => CalendarInv
  /\ feature = "hotReload" => HotReloadInv
  /\ feature = "archive" => ArchiveInv
  /\ feature # "calendar" => cache \in Calendar!Caches /\ cacheFile = cache

\* A step is one of the feature that is exercised.
LEMMA OneIsExercised ==
  ASSUME [Next]_vars
  PROVE  /\ feature' = feature
         /\ feature = "birthday" => Birthday!Next \/ UNCHANGED Birthday!vars
         /\ feature = "announcements" => Announcements!Next \/ UNCHANGED Announcements!vars
         /\ feature = "errorForwarder" => ErrorForwarder!Next \/ UNCHANGED ErrorForwarder!vars
         /\ feature = "webhook" => Webhook!Next \/ UNCHANGED Webhook!vars
         /\ feature = "starboard" => Starboard!Next \/ UNCHANGED Starboard!vars
         /\ feature = "gameActivity" => GameActivity!Next \/ UNCHANGED GameActivity!vars
         /\ feature = "nowPlaying" => NowPlaying!Next \/ UNCHANGED NowPlaying!vars
         /\ feature = "calendar" => Calendar!Next \/ UNCHANGED Calendar!vars
         /\ feature = "hotReload" => HotReload!Next \/ UNCHANGED HotReload!vars
         /\ feature = "archive" => Archive!Next \/ UNCHANGED Archive!vars
         /\ feature # "errorForwarder" => UNCHANGED <<passed, answer>>
         /\ feature # "webhook" => UNCHANGED <<accepted, decision>>
         /\ feature # "calendar" => UNCHANGED <<cache, cacheFile, unsaved>>
<1>1. CASE Next
  BY <1>1, Zenon DEF Next, Exercises, errorForwarderVars, webhookVars, calendarVars
<1>2. CASE UNCHANGED vars
  <2>1. UNCHANGED Birthday!vars
    BY <1>2 DEF vars, Birthday!vars, birthdayVars
  <2>2. UNCHANGED Announcements!vars
    BY <1>2 DEF vars, Announcements!vars, announcementsVars
  <2>3. UNCHANGED ErrorForwarder!vars
    BY <1>2 DEF vars, ErrorForwarder!vars, errorForwarderVars
  <2>4. UNCHANGED Webhook!vars
    BY <1>2 DEF vars, Webhook!vars, webhookVars
  <2>5. UNCHANGED Starboard!vars
    BY <1>2 DEF vars, Starboard!vars, starboardVars
  <2>6. UNCHANGED GameActivity!vars
    BY <1>2 DEF vars, GameActivity!vars, gameActivityVars
  <2>7. UNCHANGED NowPlaying!vars
    BY <1>2 DEF vars, NowPlaying!vars, nowPlayingVars
  <2>8. UNCHANGED Calendar!vars
    BY <1>2 DEF vars, Calendar!vars, calendarVars
  <2>9. UNCHANGED HotReload!vars
    BY <1>2 DEF vars, HotReload!vars, hotReloadVars
  <2>10. UNCHANGED Archive!vars
    BY <1>2 DEF vars, Archive!vars, archiveVars
  <2> QED
    BY <1>2, <2>1, <2>2, <2>3, <2>4, <2>5, <2>6, <2>7, <2>8, <2>9, <2>10, Zenon
    DEF vars, errorForwarderVars, webhookVars, calendarVars
<1> QED
  BY <1>1, <1>2

\* The clock goes forward, by one.
LEMMA ClockGoesForward ==
  ASSUME [Next]_vars
  PROVE  now' \in {now, now + 1}
<1>1. ASSUME Announcements!Next PROVE now' = now \/ now' = now + 1
  BY <1>1, Zenon DEF Announcements!Next, Announcements!Rearm, Announcements!Fire, Announcements!Sent, Announcements!SendFails, Announcements!Finish, Announcements!Start, Announcements!Stop, Announcements!CrashInWrite, Announcements!Ended, Announcements!Tick
<1>2. ASSUME ErrorForwarder!Next PROVE now' = now \/ now' = now + 1
  BY <1>2, Zenon DEF ErrorForwarder!Next, ErrorForwarder!UnhandledRejection, ErrorForwarder!UncaughtException, ErrorForwarder!Reported, ErrorForwarder!DeadlinePasses, ErrorForwarder!Exit, ErrorForwarder!Start, ErrorForwarder!Tick
<1>3. ASSUME Webhook!Next PROVE now' = now \/ now' = now + 1
  BY <1>3, Zenon DEF Webhook!Next, Webhook!Reject, Webhook!Anonymous, Webhook!Refuse, Webhook!Accept, Webhook!Delivered, Webhook!Start, Webhook!Stop, Webhook!Tick
<1>4. ASSUME GameActivity!Next PROVE now' = now \/ now' = now + 1
  BY <1>4, Zenon DEF GameActivity!Next, GameActivity!Presence, GameActivity!Refresh, GameActivity!Step, GameActivity!ChannelResolved, GameActivity!ChannelUnresolved, GameActivity!Fetched, GameActivity!NotFetched, GameActivity!Edited, GameActivity!EditFails, GameActivity!Deleted, GameActivity!DeleteFails, GameActivity!Sent, GameActivity!SendFails, GameActivity!Tick, GameActivity!Rest
<1>5. ASSUME NowPlaying!Next PROVE now' = now \/ now' = now + 1
  BY <1>5, Zenon DEF NowPlaying!Next, NowPlaying!PlaysOn, NowPlaying!Plays, NowPlaying!Stops, NowPlaying!Prune, NowPlaying!Edited, NowPlaying!EditFails, NowPlaying!Sent, NowPlaying!NotSent, NowPlaying!Deleted, NowPlaying!Tick, NowPlaying!Rest
<1>6. CASE Next
  BY <1>1, <1>2, <1>3, <1>4, <1>5, <1>6, Zenon DEF Next
<1>7. CASE UNCHANGED vars
  BY <1>7 DEF vars
<1> QED
  BY <1>6, <1>7

\* Every feature starts in its invariant.
LEMMA FeaturesStart == Init => FeaturesInv
<1> SUFFICES ASSUME Init PROVE FeaturesInv
  OBVIOUS
<1>1. feature \in Features /\ now \in Nat
  BY DEF Init, Webhook!Init
<1>2. /\ BirthdayInv
      /\ AnnouncementsInv
      /\ ErrorForwarderInv
      /\ WebhookInv
      /\ StarboardInv
      /\ GameActivityInv
      /\ NowPlayingInv
      /\ CalendarInv
      /\ HotReloadInv
      /\ ArchiveInv
  BY BirthdayStarts, AnnouncementsStarts, ErrorForwarderStarts, WebhookStarts, StarboardStarts, GameActivityStarts, NowPlayingStarts, CalendarStarts, HotReloadStarts, ArchiveStarts,
     Zenon DEF Init
<1>3. cache \in Calendar!Caches /\ cacheFile = cache
  BY CalendarEmpty DEF Init, Calendar!Init
<1> QED
  BY <1>1, <1>2, <1>3, Zenon DEF FeaturesInv

\* Who is not exercised keeps what is asked of it.
LEMMA FeaturesStep == FeaturesInv /\ [Next]_vars => FeaturesInv'
<1> SUFFICES ASSUME FeaturesInv, [Next]_vars PROVE FeaturesInv'
  OBVIOUS
<1>1. feature' = feature /\ feature' \in Features
  BY OneIsExercised DEF FeaturesInv
<1>2. now' \in Nat
  <2>1. now \in Nat
    BY DEF FeaturesInv
  <2> QED
    BY <2>1, ClockGoesForward
<1>3. feature = "birthday" => BirthdayInv'
  BY OneIsExercised, BirthdayStep, Zenon DEF FeaturesInv
<1>4. feature = "announcements" => AnnouncementsInv'
  BY OneIsExercised, AnnouncementsStep, Zenon DEF FeaturesInv
<1>5. feature = "errorForwarder" => ErrorForwarderInv'
  BY OneIsExercised, ErrorForwarderStep, Zenon DEF FeaturesInv
<1>6. feature = "webhook" => WebhookInv'
  BY OneIsExercised, WebhookStep, Zenon DEF FeaturesInv
<1>7. feature = "starboard" => StarboardInv'
  BY OneIsExercised, StarboardStep, Zenon DEF FeaturesInv
<1>8. feature = "gameActivity" => GameActivityInv'
  BY OneIsExercised, GameActivityStep, Zenon DEF FeaturesInv
<1>9. feature = "nowPlaying" => NowPlayingInv'
  BY OneIsExercised, NowPlayingStep, Zenon DEF FeaturesInv
<1>10. feature = "calendar" => CalendarInv'
  BY OneIsExercised, CalendarStep, Zenon DEF FeaturesInv
<1>11. feature = "hotReload" => HotReloadInv'
  BY OneIsExercised, HotReloadStep, Zenon DEF FeaturesInv
<1>12. feature = "archive" => ArchiveInv'
  BY OneIsExercised, ArchiveStep, Zenon DEF FeaturesInv
<1>13. feature # "calendar" => cache' \in Calendar!Caches /\ cacheFile' = cache'
  <2> SUFFICES ASSUME feature # "calendar"
               PROVE  cache' \in Calendar!Caches /\ cacheFile' = cache'
    OBVIOUS
  <2>1. cache' = cache /\ cacheFile' = cacheFile
    BY OneIsExercised
  <2>2. cache \in Calendar!Caches /\ cacheFile = cache
    BY DEF FeaturesInv
  <2> QED
    BY <2>1, <2>2
<1> QED
  BY <1>1, <1>2, <1>3, <1>4, <1>5, <1>6, <1>7, <1>8, <1>9, <1>10, <1>11, <1>12, <1>13, Zenon
  DEF FeaturesInv

\* Every behaviour keeps the invariant.
LEMMA FeaturesInvHolds == Spec => []FeaturesInv
<1> QED
  BY FeaturesStart, FeaturesStep, PTL DEF Spec

(* The variables of the feature that is exercised have their types.        *)
THEOREM FeaturesTyped == Spec => []TypesOK
<1>1. FeaturesInv => TypesOK
  <2> SUFFICES ASSUME FeaturesInv PROVE TypesOK
    OBVIOUS
  <2>1. feature = "birthday" => Birthday!TypeOK
    BY Zenon DEF FeaturesInv, BirthdayInv
  <2>2. feature = "announcements" => Announcements!TypeOK
    BY Zenon DEF FeaturesInv, AnnouncementsInv
  <2>3. feature = "errorForwarder" => ErrorForwarder!TypeOK
    BY Zenon DEF FeaturesInv, ErrorForwarderInv
  <2>4. feature = "webhook" => Webhook!TypeOK
    BY Zenon DEF FeaturesInv, WebhookInv
  <2>5. feature = "starboard" => Starboard!TypeOK
    BY Zenon DEF FeaturesInv, StarboardInv
  <2>6. feature = "gameActivity" => GameActivity!TypeOK
    BY Zenon DEF FeaturesInv, GameActivityInv, GameTypes
  <2>7. feature = "nowPlaying" => NowPlaying!TypeOK
    BY Zenon DEF FeaturesInv, NowPlayingInv, TrackTypes
  <2>8. feature = "calendar" => Calendar!TypeOK
    BY Zenon DEF FeaturesInv, CalendarInv, CalendarTypes
  <2>9. feature = "hotReload" => HotReload!TypeOK
    BY Zenon DEF FeaturesInv, HotReloadInv, ReloadTypes
  <2>10. feature = "archive" => Archive!TypeOK
    BY Zenon DEF FeaturesInv, ArchiveInv
  <2>11. feature \in Features
    BY DEF FeaturesInv
  <2> QED
    BY <2>1, <2>2, <2>3, <2>4, <2>5, <2>6, <2>7, <2>8, <2>9, <2>10, <2>11, Zenon DEF TypesOK
<1> QED
  BY <1>1, FeaturesInvHolds, PTL

(* Whatever the midnight tick, the commands and the deletions of users do  *)
(* between each other's saves, what /birthday answered is in the registry. *)
THEOREM RegistrationsAreSaved == Spec => []RegisteredIsSaved
<1>1. FeaturesInv => RegisteredIsSaved
  BY Zenon DEF FeaturesInv, BirthdayInv, RegisteredIsSaved
<1> QED
  BY <1>1, FeaturesInvHolds, PTL

(* The midnight tick takes the role from everybody it can still tell.      *)
THEOREM RolesEnd == Spec => []RoleEndsWithTheDay
<1>1. FeaturesInv => RoleEndsWithTheDay
  BY BirthdayShows, Zenon DEF FeaturesInv, RoleEndsWithTheDay
<1> QED
  BY <1>1, FeaturesInvHolds, PTL

(* Announcements are attempted at their times, once, and none is passed    *)
(* over but for another one.                                               *)
THEOREM AnnouncedInTurn == Spec => []EachInTurn
<1>1. FeaturesInv => EachInTurn
  BY AnnouncementsShows, Zenon DEF FeaturesInv, EachInTurn
<1> QED
  BY <1>1, FeaturesInvHolds, PTL

(* A message for which a run was started, and which has had enough stars   *)
(* ever since as far as the process knows, is reposted, and only once.     *)
THEOREM RepostsOnce == Spec => []RepostedOnce
<1>1. FeaturesInv => RepostedOnce
  BY StarboardShows, Zenon DEF FeaturesInv, RepostedOnce
<1> QED
  BY <1>1, FeaturesInvHolds, PTL

(* The summary of games lists everybody who plays and nobody else.         *)
THEOREM SummaryListsPlayers == Spec => []NoGhosts
<1>1. FeaturesInv => NoGhosts
  BY GameActivityShows, Zenon DEF FeaturesInv, NoGhosts
<1> QED
  BY <1>1, FeaturesInvHolds, PTL

(* The embed of a member shows the track that is being played.             *)
THEOREM EmbedShowsTrack == Spec => []EmbedIsCurrent
<1>1. FeaturesInv => EmbedIsCurrent
  BY NowPlayingShows, Zenon DEF FeaturesInv, EmbedIsCurrent
<1> QED
  BY <1>1, FeaturesInvHolds, PTL

(* When the last change of config.json has settled, it is in use.          *)
THEOREM ReloadSettles == Spec => []SettlesOnFile
<1>1. FeaturesInv => SettlesOnFile
  BY HotReloadShows, Zenon DEF FeaturesInv, SettlesOnFile
<1> QED
  BY <1>1, FeaturesInvHolds, PTL

(* The plans of the snapshot timer, day after day, keep the newest days    *)
(* and weeks.                                                              *)
THEOREM ArchiveKeepsRecent == Spec => []RecentKept
<1>1. FeaturesInv => RecentKept
  BY Zenon DEF FeaturesInv, ArchiveInv, RecentKept
<1> QED
  BY <1>1, FeaturesInvHolds, PTL

(* A pass over the calendars never takes one of them back.                 *)
THEOREM CalendarsNeverOlder == Spec => NeverOlder
<1> DEFINE Ahead ==
      up /\ up' /\ ~crossed' =>
        /\ DOMAIN cache \subseteq DOMAIN cache' /\ \A s \in DOMAIN cache : cache[s] <= cache'[s]
        /\ unsaved' \/ cacheFile' = cache'
<1>1. ASSUME FeaturesInv, [Next]_vars PROVE Ahead
  <2>1. CASE feature = "calendar"
    <3>1. CalendarInv /\ (Calendar!Next \/ UNCHANGED Calendar!vars)
      BY <1>1, <2>1, OneIsExercised DEF FeaturesInv
    <3> QED
      BY <3>1, CalendarNeverBack
  <2>2. CASE feature # "calendar"
    <3>1. cache' = cache /\ cacheFile' = cache /\ cache \in Calendar!Caches
      BY <1>1, <2>2, OneIsExercised DEF FeaturesInv
    <3>2. \A s \in DOMAIN cache : cache[s] \in Nat
      BY <3>1, CalendarVersions
    <3> QED
      BY <3>1, <3>2
  <2> QED
    BY <2>1, <2>2
<1>2. FeaturesInv /\ [Next]_vars => [Ahead]_(Calendar!vars)
  BY <1>1
<1> QED
  BY <1>2, FeaturesInvHolds, PTL DEF Spec, NeverOlder, Calendar!NeverOlder

\* A step of another feature is for a limiter time that passes, or nothing.
LEMMA LimitersRest ==
  ASSUME now \in Nat, now' \in {now, now + 1}
  PROVE  /\ UNCHANGED <<passed, answer>> =>
              [ErrorForwarder!Limit!Next]_(ErrorForwarder!Limit!vars)
         /\ UNCHANGED <<accepted, decision>> => [Webhook!Limit!Next]_(Webhook!Limit!vars)
<1>1. now' = now \/ now' > now
  OBVIOUS
<1>2. UNCHANGED <<passed, answer>> => [ErrorForwarder!Limit!Next]_(ErrorForwarder!Limit!vars)
  BY <1>1 DEF ErrorForwarder!Limit!Next, ErrorForwarder!Limit!Advance, ErrorForwarder!Limit!vars
<1>3. UNCHANGED <<accepted, decision>> => [Webhook!Limit!Next]_(Webhook!Limit!vars)
  BY <1>1 DEF Webhook!Limit!Next, Webhook!Limit!Advance, Webhook!Limit!vars
<1> QED
  BY <1>2, <1>3

(* Both limiters implement the abstract one: they let a report, and a      *)
(* delivery, pass if and only if fewer than allowed passed in the window,  *)
(* though neither remembers all that passed.                               *)
THEOREM LimitersImplementLimit == Spec => LimitsHold
<1>1. Init => ErrorForwarder!Limit!Init /\ Webhook!Limit!Init
  BY ErrorForwarderStarts, WebhookStarts, Zenon DEF Init
<1>2. FeaturesInv /\ [Next]_vars => [ErrorForwarder!Limit!Next]_(ErrorForwarder!Limit!vars)
  <2> SUFFICES ASSUME FeaturesInv, [Next]_vars
               PROVE  [ErrorForwarder!Limit!Next]_(ErrorForwarder!Limit!vars)
    OBVIOUS
  <2>1. CASE feature = "errorForwarder"
    BY <2>1, OneIsExercised, ErrorForwarderStep, Zenon DEF FeaturesInv
  <2>2. CASE feature # "errorForwarder"
    <3>1. now \in Nat
      BY DEF FeaturesInv
    <3> QED
      BY <2>2, <3>1, OneIsExercised, ClockGoesForward, LimitersRest, Zenon
  <2> QED
    BY <2>1, <2>2
<1>3. FeaturesInv /\ [Next]_vars => [Webhook!Limit!Next]_(Webhook!Limit!vars)
  <2> SUFFICES ASSUME FeaturesInv, [Next]_vars
               PROVE  [Webhook!Limit!Next]_(Webhook!Limit!vars)
    OBVIOUS
  <2>1. CASE feature = "webhook"
    BY <2>1, OneIsExercised, WebhookStep, Zenon DEF FeaturesInv
  <2>2. CASE feature # "webhook"
    <3>1. now \in Nat
      BY DEF FeaturesInv
    <3> QED
      BY <2>2, <3>1, OneIsExercised, ClockGoesForward, LimitersRest, Zenon
  <2> QED
    BY <2>1, <2>2
<1> QED
  BY <1>1, <1>2, <1>3, FeaturesInvHolds, PTL
  DEF Spec, LimitsHold, ErrorForwarder!Limited, Webhook!Limited, ErrorForwarder!Limit!Spec,
      Webhook!Limit!Spec
=============================================================================
