----------------------- MODULE FeatureMessages_proofs -----------------------
(***************************************************************************)
(* The features whose only state is what they sent to Discord: the starboard, *)
(* the summary of games and the embed of the track.  For each, an invariant *)
(* that its steps keep and that implies what it promises.                  *)
(***************************************************************************)
EXTENDS Features, FiniteSetTheorems, WellFoundedInduction, SequenceTheorems, TLAPS

(* The starboard.                                                          *)

\* The threshold and the bounds are numbers.
LEMMA StarboardNumbers == Threshold \in Nat /\ MaxStars \in Nat /\ MaxStarts["starboard"] \in Nat /\ MaxFaults["starboard"] \in Nat
BY FeaturesAssumption DEF Starboard!StarboardAssumption

\* Counters at zero and chains at rest have their types.
LEMMA NoStarsYet == Starboard!Zero \in [Messages -> Nat] /\ Starboard!NoRun \in [Messages -> Starboard!Stages]
BY DEF Starboard!Zero, Starboard!NoRun, Starboard!Stages

\* Messages that are kept, with numbers of stars.
IsCache(c) == DOMAIN c \subseteq Messages /\ \A m \in DOMAIN c : c[m] \in Nat

\* What an event or a fetch does to a cache leaves a cache.
LEMMA CachesGo ==
  ASSUME NEW c, IsCache(c), NEW m \in Messages
  PROVE  /\ \A n \in Nat : IsCache(Starboard!Put(c, m, n))
         /\ IsCache(Starboard!Without(c, m))
         /\ IsCache([c EXCEPT ![m] = @ + 1])
         /\ IsCache([c EXCEPT ![m] = IF @ > 0 THEN @ - 1 ELSE 0])
         /\ IsCache(Starboard!NoMessage)
BY DEF IsCache, Starboard!Put, Starboard!Without, Starboard!NoMessage

\* What is due was so before, or has just started a run, and has enough stars.
LEMMA CountsKeep ==
  ASSUME NEW c, IsCache(c), NEW started \in SUBSET Messages, due \subseteq Messages,
         Starboard!Counts(c, started)
  PROVE  /\ IsCache(cached') /\ due' \subseteq Messages /\ due' \subseteq due \cup started
         /\ \A m \in DOMAIN cached' : m \in due' => cached'[m] >= Threshold
BY DEF Starboard!Counts, Starboard!EnoughIn

\* Only a person's star, or the fetch that it waited for, makes a message due.
LEMMA EventsCount ==
  ASSUME IsCache(cached), due \subseteq Messages, NEW m \in Messages, stars[m] \in Nat
  PROVE  /\ Starboard!React(m) \/ Starboard!ReactionFetched(m) =>
              IsCache(cached') /\ due' \subseteq Messages /\ due' \subseteq due \cup {m}
         /\ Starboard!Unreact(m) \/ Starboard!BotReacts(m) \/ Starboard!Appears(m) \/ Starboard!Evicted(m) =>
              IsCache(cached') /\ due' \subseteq Messages /\ due' \subseteq due
<1> DEFINE Kept(s) == IsCache(cached') /\ due' \subseteq Messages /\ due' \subseteq due \cup s
<1>1. ASSUME NEW c, IsCache(c), NEW s, s \subseteq Messages, Starboard!Counts(c, s) PROVE Kept(s)
  BY <1>1, CountsKeep
<1>2. {m} \subseteq Messages /\ {} \subseteq Messages
  OBVIOUS
<1> HIDE DEF Kept
<1>3. ASSUME Starboard!React(m) PROVE Kept({m})
  <2>1. CASE m \in DOMAIN cached
    <3>1. Starboard!Counts([cached EXCEPT ![m] = @ + 1], {m})
      BY <1>3, <2>1 DEF Starboard!React
    <3>2. IsCache([cached EXCEPT ![m] = @ + 1])
      BY CachesGo
    <3> QED
      BY <1>1, <1>2, <3>1, <3>2
  <2>2. CASE m \notin DOMAIN cached
    BY <1>3, <2>2 DEF Starboard!React, Starboard!counts, Kept
  <2> QED
    BY <2>1, <2>2
<1>4. ASSUME Starboard!ReactionFetched(m) PROVE Kept({m})
  <2>1. Starboard!Counts(Starboard!Put(cached, m, stars[m]), {m})
    BY <1>4 DEF Starboard!ReactionFetched
  <2>2. IsCache(Starboard!Put(cached, m, stars[m]))
    BY CachesGo
  <2> QED
    BY <1>1, <1>2, <2>1, <2>2
<1>5. ASSUME Starboard!Unreact(m) PROVE Kept({})
  <2>1. Starboard!Counts([cached EXCEPT ![m] = IF @ > 0 THEN @ - 1 ELSE 0], {})
    BY <1>5 DEF Starboard!Unreact
  <2>2. IsCache([cached EXCEPT ![m] = IF @ > 0 THEN @ - 1 ELSE 0])
    BY CachesGo
  <2> QED
    BY <1>1, <1>2, <2>1, <2>2
<1>6. ASSUME Starboard!BotReacts(m) PROVE Kept({})
  <2>1. Starboard!Counts([cached EXCEPT ![m] = @ + 1], {})
    BY <1>6 DEF Starboard!BotReacts
  <2>2. IsCache([cached EXCEPT ![m] = @ + 1])
    BY CachesGo
  <2> QED
    BY <1>1, <1>2, <2>1, <2>2
<1>7. ASSUME Starboard!Appears(m) PROVE Kept({})
  <2>1. Starboard!Counts(Starboard!Put(cached, m, stars[m]), {})
    BY <1>7 DEF Starboard!Appears
  <2>2. IsCache(Starboard!Put(cached, m, stars[m]))
    BY CachesGo
  <2> QED
    BY <1>1, <1>2, <2>1, <2>2
<1>8. ASSUME Starboard!Evicted(m) PROVE Kept({})
  <2>1. Starboard!Counts(Starboard!Without(cached, m), {})
    BY <1>8 DEF Starboard!Evicted
  <2>2. IsCache(Starboard!Without(cached, m))
    BY CachesGo
  <2> QED
    BY <1>1, <1>2, <2>1, <2>2
<1>9. due \cup {} = due
  OBVIOUS
<1> QED
  BY <1>3, <1>4, <1>5, <1>6, <1>7, <1>8, <1>9 DEF Kept

\* A message that was fetched is kept.
LEMMA FetchKeeps ==
  ASSUME Starboard!TypeOK, NEW m \in Messages, Starboard!Fetch(m)
  PROVE  /\ IsCache(cached') /\ due' \subseteq Messages /\ due' \subseteq due
         /\ cached'[m] < Threshold => m \notin due'
<1> DEFINE c == IF m \in DOMAIN cached THEN cached ELSE Starboard!Put(cached, m, stars[m])
<1>1. IsCache(cached) /\ stars[m] \in Nat /\ due \subseteq Messages
  BY DEF Starboard!TypeOK, IsCache
<1>2. IsCache(c)
  BY <1>1, CachesGo
<1>3. Starboard!Counts(c, {})
  BY DEF Starboard!Fetch
<1>4. m \in DOMAIN c /\ cached' = c
  BY <1>3 DEF Starboard!Counts, Starboard!Put
<1> HIDE DEF c
<1>5. /\ IsCache(cached') /\ due' \subseteq Messages /\ due' \subseteq due \cup {}
      /\ m \in due' => cached'[m] >= Threshold
  BY <1>1, <1>2, <1>3, <1>4, CountsKeep
<1>6. cached'[m] \in Nat
  BY <1>4, <1>5 DEF IsCache
<1> QED
  BY <1>5, <1>6, StarboardNumbers

\* The types hold at the start.
LEMMA StarboardStartsTyped == Starboard!Init => Starboard!TypeOK
<1> SUFFICES ASSUME Starboard!Init PROVE Starboard!TypeOK
  OBVIOUS
<1>1. {reactions, starts, faults} \subseteq Nat
  BY DEF Starboard!Init
<1>2. /\ up \in BOOLEAN /\ boardChannel \in BOOLEAN
      /\ stars = Starboard!Zero /\ fetching = Starboard!Zero /\ waiting = Starboard!Zero
      /\ posts = Starboard!Zero /\ awaiting = Starboard!NoRun /\ cached = Starboard!NoMessage
      /\ refused = {} /\ reposted = {} /\ unsure = {} /\ due = {} /\ failed = {}
  BY DEF Starboard!Init
<1>3. DOMAIN cached = {}
  BY <1>2 DEF Starboard!NoMessage
<1> QED
  BY <1>1, <1>2, <1>3, NoStarsYet DEF Starboard!TypeOK

\* Every step keeps the types.
LEMMA StarboardKeepsTypes == Starboard!TypeOK /\ [Starboard!Next]_(Starboard!vars) => Starboard!TypeOK'
<1> SUFFICES ASSUME Starboard!TypeOK, [Starboard!Next]_(Starboard!vars) PROVE Starboard!TypeOK'
  OBVIOUS
<1>0. IsCache(cached) /\ due \subseteq Messages
  BY DEF Starboard!TypeOK, IsCache
<1>a. ASSUME NEW m \in Messages PROVE stars[m] \in Nat
  BY DEF Starboard!TypeOK
\* The cache apart, the types are those of each variable that the step changes.
<1>b. ASSUME IsCache(cached'), due' \subseteq Messages,
             up' \in BOOLEAN, boardChannel' \in BOOLEAN,
             stars' \in [Messages -> Nat], fetching' \in [Messages -> Nat],
             waiting' \in [Messages -> Nat], posts' \in [Messages -> Nat],
             awaiting' \in [Messages -> Starboard!Stages],
             refused' \subseteq Messages, reposted' \subseteq Messages, unsure' \subseteq Messages,
             failed' \subseteq Messages, reactions' \in Nat, starts' \in Nat, faults' \in Nat
      PROVE  Starboard!TypeOK'
  BY <1>b DEF Starboard!TypeOK, IsCache
<1> USE <1>0 DEF Starboard!TypeOK, Starboard!Stages, Starboard!discord, Starboard!counts, Starboard!ghosts
<1>1. ASSUME NEW m \in Messages, Starboard!React(m) PROVE Starboard!TypeOK'
  <2>1. IsCache(cached') /\ due' \subseteq Messages
    BY <1>0, <1>a, <1>1, EventsCount
  <2> QED
    BY <1>1, <2>1, <1>b DEF Starboard!React
<1>2. ASSUME NEW m \in Messages, Starboard!Unreact(m) PROVE Starboard!TypeOK'
  <2>1. IsCache(cached') /\ due' \subseteq Messages
    BY <1>0, <1>a, <1>2, EventsCount
  <2> QED
    BY <1>2, <2>1, <1>b DEF Starboard!Unreact
<1>3. ASSUME NEW m \in Messages, Starboard!BotReacts(m) PROVE Starboard!TypeOK'
  <2>1. IsCache(cached') /\ due' \subseteq Messages
    BY <1>0, <1>a, <1>3, EventsCount
  <2> QED
    BY <1>3, <2>1, <1>b DEF Starboard!BotReacts
<1>4. ASSUME NEW m \in Messages, Starboard!Appears(m) PROVE Starboard!TypeOK'
  <2>1. IsCache(cached') /\ due' \subseteq Messages
    BY <1>0, <1>a, <1>4, EventsCount
  <2> QED
    BY <1>4, <2>1, <1>b DEF Starboard!Appears
<1>5. ASSUME NEW m \in Messages, Starboard!Evicted(m) PROVE Starboard!TypeOK'
  <2>1. IsCache(cached') /\ due' \subseteq Messages
    BY <1>0, <1>a, <1>5, EventsCount
  <2> QED
    BY <1>5, <2>1, <1>b DEF Starboard!Evicted, Starboard!Fault
<1>6. ASSUME NEW m \in Messages, NEW n \in Nat, Starboard!Untold(m, n) PROVE Starboard!TypeOK'
  BY <1>6, <1>b DEF Starboard!Untold
<1>7. ASSUME NEW m \in Messages, Starboard!ReactionFetched(m) PROVE Starboard!TypeOK'
  <2>1. IsCache(cached') /\ due' \subseteq Messages
    BY <1>0, <1>a, <1>7, EventsCount
  <2>2. fetching' \in [Messages -> Nat]
    BY <1>7 DEF Starboard!ReactionFetched
  <2> QED
    BY <1>7, <2>1, <2>2, <1>b DEF Starboard!ReactionFetched
<1>8. ASSUME NEW m \in Messages, Starboard!ReactionFetchFails(m) PROVE Starboard!TypeOK'
  BY <1>8, <1>b DEF Starboard!ReactionFetchFails, Starboard!Fault
<1>9. ASSUME NEW m \in Messages, Starboard!Begin(m) PROVE Starboard!TypeOK'
  BY <1>9, <1>b DEF Starboard!Begin
<1>10. ASSUME NEW m \in Messages, Starboard!InfoFetched(m) PROVE Starboard!TypeOK'
  BY <1>10, <1>b, FetchKeeps DEF Starboard!InfoFetched, Starboard!At, Starboard!Go
<1>11. ASSUME NEW m \in Messages, Starboard!Counted(m) PROVE Starboard!TypeOK'
  BY <1>11, <1>b, FetchKeeps DEF Starboard!Counted, Starboard!At, Starboard!Go
<1>12. ASSUME NEW m \in Messages, Starboard!Sent(m) PROVE Starboard!TypeOK'
  BY <1>12, <1>b DEF Starboard!Sent, Starboard!At, Starboard!Go
<1>13. ASSUME NEW m \in Messages, Starboard!RunFails(m) PROVE Starboard!TypeOK'
  BY <1>13, <1>b DEF Starboard!RunFails, Starboard!Go, Starboard!Fault
<1>14. ASSUME NEW m \in Messages, Starboard!SendFails(m) PROVE Starboard!TypeOK'
  BY <1>14, <1>b DEF Starboard!SendFails, Starboard!At, Starboard!Go, Starboard!Fault
<1>15. CASE Starboard!Start
  BY <1>15, <1>b, NoStarsYet DEF Starboard!Start
<1>16. CASE Starboard!Stop
  <2>1. IsCache(Starboard!NoMessage)
    BY DEF IsCache, Starboard!NoMessage
  <2>2. waiting' \in [Messages -> Nat] /\ fetching' \in [Messages -> Nat] /\ awaiting' \in [Messages -> Starboard!Stages]
    BY <1>16, NoStarsYet DEF Starboard!Stop
  <2>3. faults \in Nat /\ faults' = faults + 1
    BY <1>16 DEF Starboard!Stop, Starboard!Fault
  <2>4. faults' \in Nat
    BY <2>3
  <2>5. IsCache(cached') /\ due' \subseteq Messages
    BY <1>16, <2>1 DEF Starboard!Stop
  <2>6. /\ up' = FALSE /\ reposted' = {}
        /\ UNCHANGED <<boardChannel, refused, stars, posts, unsure, failed, reactions, starts>>
    BY <1>16 DEF Starboard!Stop
  <2> HIDE DEF Starboard!Stages
  <2> QED
    BY <1>b, <2>2, <2>4, <2>5, <2>6
<1>17. CASE UNCHANGED Starboard!vars
  BY <1>17, <1>b DEF Starboard!vars
<1>18. ASSUME NEW m \in Messages PROVE stars[m] + 1 \in Nat /\ (stars[m] > 0 => stars[m] - 1 \in Nat)
  BY <1>a
<1> QED
  BY <1>1, <1>2, <1>3, <1>4, <1>5, <1>6, <1>7, <1>8, <1>9, <1>10, <1>11, <1>12, <1>13, <1>14, <1>15,
     <1>16, <1>17, <1>18 DEF Starboard!Next, Starboard!Run


-----------------------------------------------------------------------------
(* A claim stands for a repost that was made, is on its way or has failed; *)
(* and only a claimed message is sent.                                     *)
Claims ==
  \A m \in Messages :
    /\ m \in reposted => up /\ (posts[m] >= 1 \/ awaiting[m] = "sending" \/ m \in failed)
    /\ awaiting[m] = "sending" => m \in reposted
    /\ awaiting[m] \in {"info", "count"} => m \notin reposted
    /\ waiting[m] > 0 \/ awaiting[m] # "none" \/ fetching[m] > 0 => up

\* Until a process has reposted a message, it has posted it no time.
NeverTwice ==
  \A m \in Messages :
    m \notin unsure =>
      /\ posts[m] <= 1
      /\ up /\ (m \notin reposted \/ awaiting[m] = "sending") => posts[m] = 0

\* What is owed has been reposted or has a run that will count it.
Attended ==
  \A m \in Messages :
    Starboard!Owed(m) => posts[m] >= 1 \/ waiting[m] > 0 \/ awaiting[m] # "none"

StarboardInv == Starboard!TypeOK /\ Claims /\ NeverTwice /\ Attended

\* The invariant holds at the start.
LEMMA StarboardStarts == Starboard!Init => StarboardInv
<1> SUFFICES ASSUME Starboard!Init PROVE Claims /\ NeverTwice /\ Attended
  BY StarboardStartsTyped DEF StarboardInv
<1> QED
  BY DEF Starboard!Init, Claims, NeverTwice, Attended, Starboard!Owed, Starboard!Zero,
     Starboard!NoRun

\* What only counts anew, or makes less due, keeps the invariant.
LEMMA CountingKeepsClaims ==
  ASSUME StarboardInv, due' \subseteq due, \A m \in Messages : fetching'[m] > 0 => up,
         UNCHANGED <<up, refused, waiting, awaiting, reposted, posts, unsure, failed>>
  PROVE  Claims' /\ NeverTwice' /\ Attended'
BY DEF StarboardInv, Claims, NeverTwice, Attended, Starboard!Owed

\* A message is claimed while it is sent and ever after, and a star has a run to come.
LEMMA StarboardKeepsClaims == StarboardInv /\ Starboard!TypeOK' /\ [Starboard!Next]_(Starboard!vars) => StarboardInv'
<1> SUFFICES ASSUME StarboardInv, Starboard!TypeOK', [Starboard!Next]_(Starboard!vars)
             PROVE  Claims' /\ NeverTwice' /\ Attended'
  BY DEF StarboardInv
<1>0. IsCache(cached) /\ due \subseteq Messages /\ Starboard!TypeOK /\ StarboardInv
  BY DEF StarboardInv, Starboard!TypeOK, IsCache
<1>a. ASSUME NEW m \in Messages PROVE stars[m] \in Nat
  BY DEF StarboardInv, Starboard!TypeOK
<1>b. \A m \in Messages : fetching[m] > 0 => up
  BY DEF StarboardInv, Claims
<1> USE StarboardNumbers DEF StarboardInv, Starboard!TypeOK, Claims, NeverTwice, Attended,
        Starboard!Owed, Starboard!discord, Starboard!counts, Starboard!ghosts
<1>1. ASSUME NEW m \in Messages, Starboard!React(m) PROVE Claims' /\ NeverTwice' /\ Attended'
  <2>1. CASE m \in DOMAIN cached
    <3>1. due' \subseteq due \cup {m}
      BY <1>0, <1>a, <1>1, EventsCount
    <3>2. /\ up /\ waiting' = [waiting EXCEPT ![m] = @ + 1]
          /\ UNCHANGED <<up, refused, fetching, awaiting, reposted, posts, unsure, failed>>
      BY <1>1, <2>1 DEF Starboard!React
    <3>3. waiting'[m] > 0 /\ \A n \in Messages : waiting[n] > 0 => waiting'[n] > 0
      BY <3>2
    <3> QED
      BY <3>1, <3>2, <3>3
  <2>2. CASE m \notin DOMAIN cached
    <3>1. due' \subseteq due /\ up /\ UNCHANGED <<up, refused, waiting, awaiting, reposted, posts, unsure, failed>>
      BY <1>1, <2>2 DEF Starboard!React
    <3> QED
      BY <3>1, <1>0, CountingKeepsClaims
  <2> QED
    BY <2>1, <2>2
<1>2. ASSUME NEW m \in Messages, Starboard!Unreact(m) PROVE Claims' /\ NeverTwice' /\ Attended'
  <2>1. due' \subseteq due
    BY <1>0, <1>a, <1>2, EventsCount
  <2> QED
    BY <1>2, <1>0, <1>b, <2>1, CountingKeepsClaims DEF Starboard!Unreact
<1>3. ASSUME NEW m \in Messages, Starboard!BotReacts(m) PROVE Claims' /\ NeverTwice' /\ Attended'
  <2>1. due' \subseteq due
    BY <1>0, <1>a, <1>3, EventsCount
  <2> QED
    BY <1>3, <1>0, <1>b, <2>1, CountingKeepsClaims DEF Starboard!BotReacts
<1>4. ASSUME NEW m \in Messages, Starboard!Appears(m) PROVE Claims' /\ NeverTwice' /\ Attended'
  <2>1. due' \subseteq due
    BY <1>0, <1>a, <1>4, EventsCount
  <2> QED
    BY <1>4, <1>0, <1>b, <2>1, CountingKeepsClaims DEF Starboard!Appears
<1>5. ASSUME NEW m \in Messages, Starboard!Evicted(m) PROVE Claims' /\ NeverTwice' /\ Attended'
  <2>1. due' \subseteq due
    BY <1>0, <1>a, <1>5, EventsCount
  <2> QED
    BY <1>5, <1>0, <1>b, <2>1, CountingKeepsClaims DEF Starboard!Evicted
<1>6. ASSUME NEW m \in Messages, NEW n, Starboard!Untold(m, n) PROVE Claims' /\ NeverTwice' /\ Attended'
  BY <1>6, <1>0, <1>b, CountingKeepsClaims DEF Starboard!Untold
<1>7. ASSUME NEW m \in Messages, Starboard!ReactionFetched(m) PROVE Claims' /\ NeverTwice' /\ Attended'
  <2>1. due' \subseteq due \cup {m}
    BY <1>0, <1>a, <1>7, EventsCount
  <2>2. /\ up /\ waiting' = [waiting EXCEPT ![m] = @ + 1]
        /\ UNCHANGED <<up, refused, awaiting, reposted, posts, unsure, failed>>
    BY <1>7 DEF Starboard!ReactionFetched
  <2>3. waiting'[m] > 0 /\ \A n \in Messages : waiting[n] > 0 => waiting'[n] > 0
    BY <2>2
  <2> QED
    BY <2>1, <2>2, <2>3
<1>8. ASSUME NEW m \in Messages, Starboard!ReactionFetchFails(m) PROVE Claims' /\ NeverTwice' /\ Attended'
  BY <1>8, <1>0, CountingKeepsClaims DEF Starboard!ReactionFetchFails
<1>9. ASSUME NEW m \in Messages, Starboard!Begin(m) PROVE Claims' /\ NeverTwice' /\ Attended'
  BY <1>9 DEF Starboard!Begin
<1>10. ASSUME NEW m \in Messages, Starboard!InfoFetched(m)
       PROVE  Claims' /\ NeverTwice' /\ Attended'
  <2>1. due' \subseteq due
    BY <1>10, <1>0, FetchKeeps DEF Starboard!InfoFetched
  <2> QED
    BY <1>10, <2>1 DEF Starboard!InfoFetched, Starboard!At, Starboard!Go
<1>11. ASSUME NEW m \in Messages, Starboard!Counted(m) PROVE Claims' /\ NeverTwice' /\ Attended'
  <2>0. due' \subseteq due /\ (cached'[m] < Threshold => m \notin due')
    BY <1>11, <1>0, FetchKeeps DEF Starboard!Counted
  <2>a. up /\ awaiting[m] = "count" /\ UNCHANGED <<up, refused, fetching, waiting, posts, unsure, failed>>
    BY <1>11 DEF Starboard!Counted, Starboard!At
  <2>1. CASE cached'[m] < Threshold
    BY <1>11, <2>0, <2>a, <2>1 DEF Starboard!Counted, Starboard!Go
  <2>2. CASE ~(cached'[m] < Threshold)
    <3>1. reposted' = reposted \cup {m} /\ awaiting' = [awaiting EXCEPT ![m] = "sending"]
      BY <1>11, <2>2 DEF Starboard!Counted, Starboard!Go
    <3>3. awaiting'[m] = "sending" /\ \A n \in Messages \ {m} : awaiting'[n] = awaiting[n] /\ (n \in reposted' <=> n \in reposted)
      BY <3>1
    <3>4. m \notin unsure => posts[m] = 0
      BY <2>a
    <3> QED
      BY <2>0, <2>a, <3>1, <3>3, <3>4
  <2> QED
    BY <2>1, <2>2
<1>12. ASSUME NEW m \in Messages, Starboard!Sent(m) PROVE Claims' /\ NeverTwice' /\ Attended'
  BY <1>12 DEF Starboard!Sent, Starboard!At, Starboard!Go
<1>13. ASSUME NEW m \in Messages, Starboard!RunFails(m) PROVE Claims' /\ NeverTwice' /\ Attended'
  BY <1>13 DEF Starboard!RunFails, Starboard!Go, Starboard!Fault
<1>14. ASSUME NEW m \in Messages, Starboard!SendFails(m)
       PROVE  Claims' /\ NeverTwice' /\ Attended'
  BY <1>14 DEF Starboard!SendFails, Starboard!At, Starboard!Go, Starboard!Fault
<1>15. CASE Starboard!Start
  BY <1>15 DEF Starboard!Start, Starboard!Zero
<1>16. CASE Starboard!Stop
  BY <1>16 DEF Starboard!Stop, Starboard!Fault, Starboard!Zero, Starboard!NoRun
<1>17. CASE UNCHANGED Starboard!vars
  BY <1>17 DEF Starboard!vars
<1> QED
  BY <1>1, <1>2, <1>3, <1>4, <1>5, <1>6, <1>7, <1>8, <1>9, <1>10, <1>11, <1>12, <1>13, <1>14, <1>15,
     <1>16, <1>17 DEF Starboard!Next, Starboard!Run

\* The invariant of the starboard is kept.
LEMMA StarboardStep ==
  ASSUME StarboardInv, Starboard!Next \/ UNCHANGED Starboard!vars
  PROVE  StarboardInv'
BY StarboardKeepsTypes, StarboardKeepsClaims DEF StarboardInv

\* It implies that a message is reposted once.
LEMMA StarboardShows == StarboardInv => Starboard!RepostedOnce
BY DEF StarboardInv, Starboard!TypeOK, NeverTwice, Attended, Starboard!RepostedOnce

-----------------------------------------------------------------------------
(* The summary of games.                                                   *)

\* Intervals are positive, bounds are numbers.
LEMMA GameConstants ==
  {GameStaleAfter, GameInterval} \subseteq Nat \ {0} /\ {LastTime["gameActivity"], MaxPresences["gameActivity"], MaxUpdates["gameActivity"], MaxFaults["gameActivity"]} \subseteq Nat
BY FeaturesAssumption DEF GameActivity!GameActivityAssumption

GamePosts == [shows : SUBSET Members, awaits : {"channel", "fetch", "edit", "delete", "send"},
              message : Nat, target : Nat, since : Nat]

GameTypes ==
  /\ GameActivity!TypeOK
  /\ {now, sent, begun} \subseteq Nat
  /\ updates \in [DOMAIN updates -> GamePosts]

\* The interval fires on time; a refresh that is under way is over before the next one.
GameClock ==
  /\ now <= nextRefresh /\ nextRefresh <= now + GameInterval
  /\ refreshing # 0 => /\ refreshing \in DOMAIN updates
                       /\ updates[refreshing].since + GameInterval = nextRefresh /\ now < nextRefresh

\* These players are all who play, and none of them will be a ghost before the next refresh.
GameCurrent(players) ==
  /\ GameActivity!Snapshot(tracker) \subseteq players /\ players \subseteq DOMAIN tracker
  /\ \A u \in players : nextRefresh <= tracker[u] + GameStaleAfter + GameInterval

\* Without overlap and failure the summary is the message of the id, and what
\* it shows, or is about to show, is current.
GameCalm ==
  ~crossed /\ faults = 0 =>
    /\ DOMAIN messages = {activeMessageId} \ {0}
    /\ \A p \in DOMAIN updates :
         /\ DOMAIN updates = {p} /\ GameCurrent(updates[p].shows)
         /\ updates[p].awaits \in {"fetch", "edit", "delete"} =>
              updates[p].message = activeMessageId /\ activeMessageId # 0
         /\ updates[p].awaits = "send" => activeMessageId = 0
         /\ updates[p].awaits = "delete" => updates[p].shows = {} /\ updates[p].target = activeMessageId
    /\ DOMAIN updates = {} => GameCurrent(GameActivity!Listed)

GameActivityInv == GameTypes /\ GameClock /\ GameCalm

\* The invariant holds at the start.
LEMMA GameActivityStarts == GameActivity!Init => GameActivityInv
<1> SUFFICES ASSUME GameActivity!Init PROVE GameActivityInv
  OBVIOUS
<1>1. DOMAIN GameActivity!Empty = {} /\ tracker = GameActivity!Empty /\ messages = GameActivity!Empty /\ updates = GameActivity!Empty
  BY DEF GameActivity!Init, GameActivity!Empty
<1>2. {now, sent, begun, activeMessageId, refreshing, nextRefresh, presences, faults} \subseteq Nat
  BY GameConstants DEF GameActivity!Init
<1>3. GameTypes
  <2>1. updates \in [DOMAIN updates -> GamePosts]
    BY <1>1 DEF GameActivity!Empty
  <2>2. DOMAIN tracker = {} /\ DOMAIN messages = {} /\ DOMAIN updates = {} /\ crossed \in BOOLEAN
    BY <1>1 DEF GameActivity!Init
  <2>3. activeMessageId \in 0 .. sent /\ refreshing \in 0 .. begun
    BY DEF GameActivity!Init
  <2> HIDE DEF GameActivity!Empty
  <2>4. GameActivity!TypeOK
    BY <1>2, <2>2, <2>3 DEF GameActivity!TypeOK
  <2> QED
    BY <1>2, <2>1, <2>4 DEF GameTypes
<1>4. GameClock
  BY GameConstants DEF GameActivity!Init, GameClock
<1>5. GameCalm
  BY <1>1 DEF GameActivity!Init, GameCalm, GameCurrent, GameActivity!Snapshot,
     GameActivity!Listed
<1> QED
  BY <1>3, <1>4, <1>5 DEF GameActivityInv

\* What a presence event and a refresh begin.
LEMMA GamePostBegins ==
  ASSUME GameTypes, NEW t, DOMAIN t \subseteq Members, GameActivity!Post(t)
  PROVE  /\ begun' = begun + 1 /\ begun + 1 \notin DOMAIN updates
         /\ DOMAIN updates' = DOMAIN updates \cup {begun + 1}
         /\ \A p \in DOMAIN updates : updates'[p] = updates[p]
         /\ updates'[begun + 1] = [shows |-> GameActivity!Snapshot(t), awaits |-> "channel", message |-> 0, target |-> 0, since |-> now]
         /\ updates'[begun + 1] \in GamePosts
         /\ updates' \in [DOMAIN updates' -> GamePosts]
         /\ crossed' \in BOOLEAN /\ (~crossed' => ~crossed /\ DOMAIN updates = {})
<1> DEFINE new == [shows |-> GameActivity!Snapshot(t), awaits |-> "channel", message |-> 0, target |-> 0, since |-> now]
<1>1. begun \in Nat /\ now \in Nat /\ begun' = begun + 1 /\ updates' = GameActivity!Put(updates, begun + 1, new)
  BY DEF GameActivity!Post, GameTypes
<1>2. GameActivity!Snapshot(t) \subseteq Members
  BY DEF GameActivity!Snapshot
<1>3. new \in GamePosts
  BY <1>1, <1>2 DEF GamePosts
<1>4. begun + 1 \notin DOMAIN updates
  BY <1>1 DEF GameTypes, GameActivity!TypeOK
<1> HIDE DEF new
<1>5. updates' \in [DOMAIN updates \cup {begun + 1} -> GamePosts]
  BY <1>1, <1>3 DEF GameActivity!Put, GameTypes
<1>6. updates'[begun + 1] = new /\ \A p \in DOMAIN updates : updates'[p] = updates[p]
  BY <1>1, <1>4 DEF GameActivity!Put
<1>7. crossed' \in BOOLEAN /\ (~crossed' => ~crossed /\ updates = GameActivity!Empty)
  BY DEF GameActivity!Post, GameTypes, GameActivity!TypeOK
<1>8. DOMAIN GameActivity!Empty = {}
  BY DEF GameActivity!Empty
<1> QED
  BY <1>1, <1>3, <1>4, <1>5, <1>6, <1>7, <1>8 DEF new

\* A post begins with what the tracker shows, or there is nothing to post.
LEMMA GamePostTypes ==
  ASSUME GameTypes, NEW t, DOMAIN t \subseteq Members, GameActivity!Post(t)
  PROVE  /\ \A p \in DOMAIN updates' :
              /\ p \in 1 .. begun' /\ updates'[p].shows \subseteq Members
              /\ updates'[p].message \in 0 .. sent /\ updates'[p].target \in 0 .. sent /\ updates'[p].since \in 0 .. now
              /\ updates'[p].awaits \in {"channel", "fetch", "edit", "delete", "send"}
         /\ begun' \in Nat /\ begun \in Nat
<1>1. begun \in Nat /\ now \in Nat /\ sent \in Nat
  BY DEF GameTypes
<1>0. /\ begun' = begun + 1 /\ DOMAIN updates' = DOMAIN updates \cup {begun + 1}
      /\ \A p \in DOMAIN updates : updates'[p] = updates[p]
      /\ updates'[begun + 1] = [shows |-> GameActivity!Snapshot(t), awaits |-> "channel", message |-> 0, target |-> 0, since |-> now]
  BY GamePostBegins
<1>2. begun' = begun + 1 /\ begun' \in Nat
  BY <1>0, <1>1
<1>3. ASSUME NEW p \in DOMAIN updates
      PROVE  p \in 1 .. begun' /\ updates'[p] = updates[p]
  BY <1>0, <1>1, <1>2 DEF GameTypes, GameActivity!TypeOK
<1>4. /\ updates'[begun + 1].shows = GameActivity!Snapshot(t) /\ updates'[begun + 1].message = 0
      /\ updates'[begun + 1].target = 0
      /\ updates'[begun + 1].since = now /\ updates'[begun + 1].awaits = "channel"
  BY <1>0
<1>5. GameActivity!Snapshot(t) \subseteq Members
  BY DEF GameActivity!Snapshot
<1> QED
  BY <1>0, <1>1, <1>2, <1>3, <1>4, <1>5 DEF GameTypes, GameActivity!TypeOK

\* What the rest of an update may change.
GameUpdatesType ==
  \A p \in DOMAIN updates :
    /\ p \in 1 .. begun /\ updates[p].shows \subseteq Members
    /\ updates[p].message \in 0 .. sent /\ updates[p].target \in 0 .. sent /\ updates[p].since \in 0 .. now
    /\ updates[p].awaits \in {"channel", "fetch", "edit", "delete", "send"}

\* A post that ends leaves the others as they were.
LEMMA GameEndsTypes ==
  ASSUME GameTypes, NEW p \in DOMAIN updates, GameActivity!Ends(p), UNCHANGED <<now, begun>>,
         sent' \in Nat, sent <= sent'
  PROVE  /\ updates' \in [DOMAIN updates' -> GamePosts] /\ GameUpdatesType' /\ refreshing' \in 0 .. begun
         /\ DOMAIN updates' = DOMAIN updates \ {p} /\ \A q \in DOMAIN updates' : updates'[q] = updates[q]
<1>1. /\ DOMAIN updates' = DOMAIN updates \ {p}
      /\ updates' \in [DOMAIN updates' -> GamePosts]
      /\ \A q \in DOMAIN updates' : updates'[q] = updates[q]
  BY DEF GameActivity!Ends, GameActivity!Without, GameTypes
<1>2. sent \in Nat /\ now \in Nat /\ begun \in Nat
  BY DEF GameTypes
<1>3. GameUpdatesType
  BY DEF GameTypes, GameActivity!TypeOK, GameUpdatesType
<1>4. GameUpdatesType'
  BY <1>1, <1>2, <1>3 DEF GameUpdatesType
<1>5. refreshing' \in 0 .. begun
  BY <1>2 DEF GameActivity!Ends, GameTypes, GameActivity!TypeOK
<1> QED
  BY <1>1, <1>4, <1>5

\* A post that goes on to its next request leaves the others as they were.
LEMMA GameGoesTypes ==
  ASSUME GameTypes, NEW p \in DOMAIN updates,
         NEW step \in {"channel", "fetch", "edit", "delete", "send"},
         NEW m \in 0 .. sent, GameActivity!Goes(p, step, m), UNCHANGED <<now, begun, sent>>
  PROVE  /\ updates' \in [DOMAIN updates' -> GamePosts] /\ GameUpdatesType' /\ refreshing' \in 0 .. begun
         /\ DOMAIN updates' = DOMAIN updates
         /\ \A q \in DOMAIN updates : q # p => updates'[q] = updates[q]
         /\ updates'[p].awaits = step /\ updates'[p].message = m
         /\ updates'[p].target = IF step = "delete" THEN activeMessageId ELSE 0
         /\ updates'[p].shows = updates[p].shows /\ updates'[p].since = updates[p].since
<1> DEFINE target == IF step = "delete" THEN activeMessageId ELSE 0
<1>1. updates' = [updates EXCEPT ![p] = [@ EXCEPT !.awaits = step, !.message = m, !.target = target]]
  BY DEF GameActivity!Goes
<1>2. updates[p] \in GamePosts /\ sent \in Nat /\ target \in 0 .. sent
  BY DEF GameTypes, GameActivity!TypeOK
<1> HIDE DEF target
<1> DEFINE new == [updates[p] EXCEPT !.awaits = step, !.message = m, !.target = target]
<1>3. /\ new \in GamePosts /\ new.awaits = step /\ new.message = m /\ new.target = target
      /\ new.shows = updates[p].shows /\ new.since = updates[p].since
  <2>1. m \in Nat /\ target \in Nat
    BY <1>2
  <2>2. updates[p] \in [shows : SUBSET Members, awaits : {"channel", "fetch", "edit", "delete", "send"},
                        message : Nat, target : Nat, since : Nat]
    BY <1>2 DEF GamePosts
  <2>3. new \in [shows : SUBSET Members, awaits : {"channel", "fetch", "edit", "delete", "send"},
                message : Nat, target : Nat, since : Nat]
    BY <2>1, <2>2
  <2> QED
    BY <2>2, <2>3 DEF GamePosts
<1>4. updates' = [updates EXCEPT ![p] = new]
  BY <1>1
<1> HIDE DEF new
<1>5. /\ DOMAIN updates' = DOMAIN updates /\ updates' \in [DOMAIN updates -> GamePosts] /\ updates'[p] = new
      /\ \A q \in DOMAIN updates : q # p => updates'[q] = updates[q]
  BY <1>3, <1>4 DEF GameTypes
<1>6. GameUpdatesType'
  BY <1>2, <1>3, <1>5 DEF GameTypes, GameActivity!TypeOK, GameUpdatesType
<1> QED
  BY <1>3, <1>5, <1>6 DEF GameActivity!Goes, GameTypes, GameActivity!TypeOK, target

\* The fault counter stays a number, and at zero nothing has failed.
LEMMA GameFault ==
  ASSUME GameTypes, GameActivity!Fault \/ UNCHANGED faults
  PROVE  faults' \in Nat /\ (faults' = 0 => faults = 0 /\ UNCHANGED faults)
<1>1. faults \in Nat
  BY DEF GameTypes, GameActivity!TypeOK
<1>2. CASE UNCHANGED faults
  BY <1>1, <1>2
<1>3. CASE GameActivity!Fault
  BY <1>1, <1>3 DEF GameActivity!Fault
<1> QED
  BY <1>2, <1>3

\* The steps of one update, by what they do to it.
LEMMA GameUpdateEnds ==
  ASSUME GameTypes, NEW p \in DOMAIN updates, GameActivity!Ends(p), UNCHANGED GameActivity!Rest,
         GameActivity!Fault \/ UNCHANGED faults,
         sent' \in Nat, sent <= sent', activeMessageId' \in 0 .. sent',
         DOMAIN messages' \subseteq 1 .. sent', \A m \in DOMAIN messages' : messages'[m] \subseteq Members
  PROVE  GameTypes'
<1>1. UNCHANGED <<now, begun, tracker, nextRefresh, crossed, presences>>
  BY DEF GameActivity!Rest
<1>2. /\ updates' \in [DOMAIN updates' -> GamePosts] /\ GameUpdatesType' /\ refreshing' \in 0 .. begun'
  BY <1>1, GameEndsTypes
<1>3. faults' \in Nat
  BY GameFault
<1> QED
  BY <1>1, <1>2, <1>3 DEF GameTypes, GameActivity!TypeOK, GameUpdatesType

\* A step of a post that changes no message keeps the types.
LEMMA GameUpdateGoes ==
  ASSUME GameTypes, NEW p \in DOMAIN updates,
         NEW step \in {"channel", "fetch", "edit", "delete", "send"},
         NEW m \in 0 .. sent, GameActivity!Goes(p, step, m), UNCHANGED GameActivity!Rest, UNCHANGED <<messages, sent>>,
         GameActivity!Fault \/ UNCHANGED faults, activeMessageId' \in {0, activeMessageId}
  PROVE  GameTypes'
<1>1. UNCHANGED <<now, begun, tracker, nextRefresh, crossed, presences>>
  BY DEF GameActivity!Rest
<1>2. /\ updates' \in [DOMAIN updates' -> GamePosts] /\ GameUpdatesType' /\ refreshing' \in 0 .. begun'
  BY <1>1, GameGoesTypes
<1>3. faults' \in Nat
  BY GameFault
<1> QED
  BY <1>1, <1>2, <1>3 DEF GameTypes, GameActivity!TypeOK, GameUpdatesType

\* Every step keeps the types.
LEMMA GameTypesStep ==
  ASSUME GameTypes, GameActivity!Next
  PROVE  GameTypes'
<1>1. ASSUME NEW u \in Members, NEW players \in BOOLEAN, GameActivity!Presence(u, players)
      PROVE  GameTypes'
  <2>1. DOMAIN tracker' \subseteq Members /\ \A v \in DOMAIN tracker' : tracker'[v] \in 0 .. now
    BY <1>1 DEF GameActivity!Presence, GameActivity!Put, GameActivity!Without, GameTypes,
       GameActivity!TypeOK
  <2>2. GameActivity!Post(tracker') /\ UNCHANGED <<now, activeMessageId, messages, nextRefresh, refreshing, sent, faults>>
    BY <1>1 DEF GameActivity!Presence
  <2>3. updates' \in [DOMAIN updates' -> GamePosts] /\ crossed' \in BOOLEAN /\ begun' = begun + 1
    BY <2>1, <2>2, GamePostBegins
  <2>4. GameUpdatesType' /\ begun' \in Nat /\ begun \in Nat
    BY <2>1, <2>2, GamePostTypes DEF GameUpdatesType
  <2>5. presences' \in Nat
    BY <1>1 DEF GameActivity!Presence, GameTypes, GameActivity!TypeOK
  <2> QED
    BY <2>1, <2>2, <2>3, <2>4, <2>5 DEF GameTypes, GameActivity!TypeOK, GameUpdatesType
<1>2. CASE GameActivity!Refresh
  <2>1. nextRefresh' \in Nat /\ UNCHANGED <<now, activeMessageId, messages, sent, presences, faults>>
    BY <1>2, GameConstants DEF GameActivity!Refresh, GameTypes
  <2>2. CASE refreshing # 0
    BY <1>2, <2>1, <2>2 DEF GameActivity!Refresh, GameTypes, GameActivity!TypeOK
  <2>3. CASE refreshing = 0
    <3>1. tracker' = GameActivity!Without(tracker, GameActivity!StaleIn(tracker))
      BY <1>2, <2>3 DEF GameActivity!Refresh
    <3>2. DOMAIN tracker' \subseteq Members /\ \A v \in DOMAIN tracker' : tracker'[v] \in 0 .. now
      BY <3>1 DEF GameActivity!Without, GameTypes, GameActivity!TypeOK
    <3>3. CASE GameActivity!Idle
      BY <1>2, <2>1, <2>3, <3>2, <3>3 DEF GameActivity!Refresh, GameTypes, GameActivity!TypeOK
    <3>4. CASE ~GameActivity!Idle
      <4>1. GameActivity!Post(tracker') /\ refreshing' = begun'
        BY <1>2, <2>3, <3>4 DEF GameActivity!Refresh
      <4>2. updates' \in [DOMAIN updates' -> GamePosts] /\ crossed' \in BOOLEAN /\ begun' = begun + 1
        BY <3>2, <4>1, GamePostBegins
      <4>3. GameUpdatesType' /\ begun' \in Nat /\ begun \in Nat
        BY <2>1, <3>2, <4>1, GamePostTypes DEF GameUpdatesType
      <4> QED
        BY <2>1, <3>2, <4>1, <4>2, <4>3 DEF GameTypes, GameActivity!TypeOK, GameUpdatesType
    <3> QED
      BY <3>3, <3>4
  <2> QED
    BY <2>2, <2>3
<1>3. CASE GameActivity!Tick
  <2>1. now \in Nat /\ now' = now + 1
    BY <1>3 DEF GameActivity!Tick, GameTypes
  <2> QED
    BY <1>3, <2>1 DEF GameActivity!Tick, GameTypes, GameActivity!TypeOK
<1>4. sent \in Nat /\ 0 \in 0 .. sent /\ sent <= sent
  BY DEF GameTypes
<1>5. ASSUME NEW p \in DOMAIN updates, GameActivity!ChannelResolved(p) PROVE GameTypes'
  <2>1. UNCHANGED <<activeMessageId, messages, sent, faults>> /\ UNCHANGED GameActivity!Rest
    BY <1>5 DEF GameActivity!ChannelResolved
  <2>2. CASE GameActivity!Goes(p, "fetch", activeMessageId)
    BY <2>1, <2>2, GameUpdateGoes DEF GameTypes, GameActivity!TypeOK
  <2>3. CASE GameActivity!Goes(p, "send", 0)
    BY <1>4, <2>1, <2>3, GameUpdateGoes
  <2>4. CASE GameActivity!Ends(p)
    BY <1>4, <2>1, <2>4, GameUpdateEnds DEF GameTypes, GameActivity!TypeOK
  <2> QED
    BY <1>5, <2>2, <2>3, <2>4 DEF GameActivity!ChannelResolved, GameActivity!PostFresh
<1>6. ASSUME NEW p \in DOMAIN updates, GameActivity!ChannelUnresolved(p) PROVE GameTypes'
  BY <1>4, <1>6, GameUpdateEnds DEF GameActivity!ChannelUnresolved, GameTypes,
     GameActivity!TypeOK
<1>7. ASSUME NEW p \in DOMAIN updates, GameActivity!Fetched(p) PROVE GameTypes'
  <2>1. updates[p].message \in 0 .. sent
    BY DEF GameTypes, GameActivity!TypeOK
  <2> QED
    BY <1>7, <2>1, GameUpdateGoes DEF GameActivity!Fetched
<1>8. ASSUME NEW p \in DOMAIN updates, GameActivity!NotFetched(p) PROVE GameTypes'
  <2>1. UNCHANGED <<messages, sent>> /\ UNCHANGED GameActivity!Rest /\ activeMessageId' = 0 /\ (GameActivity!Fault \/ UNCHANGED faults)
    BY <1>8 DEF GameActivity!NotFetched
  <2>2. CASE GameActivity!Goes(p, "send", 0)
    BY <1>4, <2>1, <2>2, GameUpdateGoes
  <2>3. CASE GameActivity!Ends(p)
    BY <1>4, <2>1, <2>3, GameUpdateEnds DEF GameTypes, GameActivity!TypeOK
  <2> QED
    BY <1>8, <2>2, <2>3 DEF GameActivity!NotFetched, GameActivity!PostFresh
<1>9. ASSUME NEW p \in DOMAIN updates, GameActivity!Edited(p) PROVE GameTypes'
  <2>1. DOMAIN messages' \subseteq 1 .. sent /\ \A m \in DOMAIN messages' : messages'[m] \subseteq Members
    BY <1>9 DEF GameActivity!Edited, GameTypes, GameActivity!TypeOK
  <2> QED
    BY <1>4, <1>9, <2>1, GameUpdateEnds DEF GameActivity!Edited, GameTypes, GameActivity!TypeOK
<1>10. ASSUME NEW p \in DOMAIN updates, GameActivity!EditFails(p) PROVE GameTypes'
  BY <1>4, <1>10, GameUpdateGoes DEF GameActivity!EditFails
<1>11. ASSUME NEW p \in DOMAIN updates, GameActivity!Deleted(p) PROVE GameTypes'
  <2>1. DOMAIN messages' \subseteq 1 .. sent /\ \A m \in DOMAIN messages' : messages'[m] \subseteq Members
    BY <1>11 DEF GameActivity!Deleted, GameActivity!Without, GameTypes, GameActivity!TypeOK
  <2> QED
    BY <1>4, <1>11, <2>1, GameUpdateEnds DEF GameActivity!Deleted, GameTypes,
       GameActivity!TypeOK
<1>12. ASSUME NEW p \in DOMAIN updates, GameActivity!DeleteFails(p) PROVE GameTypes'
  <2>1. DOMAIN messages' \subseteq 1 .. sent /\ \A m \in DOMAIN messages' : messages'[m] \subseteq Members
    BY <1>12 DEF GameActivity!DeleteFails, GameTypes, GameActivity!TypeOK
  <2> QED
    BY <1>4, <1>12, <2>1, GameUpdateEnds DEF GameActivity!DeleteFails, GameTypes,
       GameActivity!TypeOK
<1>13. ASSUME NEW p \in DOMAIN updates, GameActivity!Sent(p) PROVE GameTypes'
  <2>1. sent' = sent + 1 /\ sent' \in Nat
    BY <1>4, <1>13 DEF GameActivity!Sent
  <2>2. DOMAIN messages' \subseteq 1 .. sent' /\ \A m \in DOMAIN messages' : messages'[m] \subseteq Members
    BY <1>4, <1>13, <2>1 DEF GameActivity!Sent, GameActivity!Put, GameTypes, GameActivity!TypeOK
  <2> QED
    BY <1>4, <1>13, <2>1, <2>2, GameUpdateEnds DEF GameActivity!Sent
<1>14. ASSUME NEW p \in DOMAIN updates, GameActivity!SendFails(p) PROVE GameTypes'
  BY <1>4, <1>14, GameUpdateEnds DEF GameActivity!SendFails, GameTypes, GameActivity!TypeOK
<1> QED
  BY <1>1, <1>2, <1>3, <1>5, <1>6, <1>7, <1>8, <1>9, <1>10, <1>11, <1>12, <1>13, <1>14 DEF
     GameActivity!Next, GameActivity!Step

\* The interval fires on time, and a refresh is over before the next one.
LEMMA GameClockStep ==
  ASSUME GameTypes, GameClock, GameActivity!Next
  PROVE  GameClock'
<1>1. {now, nextRefresh, begun} \subseteq Nat /\ GameInterval \in Nat \ {0}
  BY GameConstants DEF GameTypes, GameActivity!TypeOK
<1>2. ASSUME NEW p \in DOMAIN updates, GameActivity!Ends(p), UNCHANGED <<now, nextRefresh,
             begun>>
      PROVE  GameClock'
  <2>1. /\ DOMAIN updates' = DOMAIN updates \ {p}
        /\ \A q \in DOMAIN updates' : updates'[q] = updates[q]
        /\ refreshing' = IF refreshing = p THEN 0 ELSE refreshing
    BY <1>2 DEF GameActivity!Ends, GameActivity!Without
  <2> QED
    BY <1>2, <2>1 DEF GameClock
<1>3. ASSUME NEW p \in DOMAIN updates,
             NEW step \in {"channel", "fetch", "edit", "delete", "send"},
             NEW m \in 0 .. sent, GameActivity!Goes(p, step, m), UNCHANGED <<now, nextRefresh, begun, sent>>
      PROVE  GameClock'
  <2>1. /\ DOMAIN updates' = DOMAIN updates
        /\ \A q \in DOMAIN updates : updates'[q].since = updates[q].since
    BY <1>3, GameGoesTypes
  <2>2. UNCHANGED refreshing
    BY <1>3 DEF GameActivity!Goes
  <2> QED
    BY <1>3, <2>1, <2>2 DEF GameClock
<1>4. ASSUME NEW p \in DOMAIN updates,
             GameActivity!Step(p) \/ GameActivity!ChannelUnresolved(p) \/ GameActivity!DeleteFails(p) \/ GameActivity!SendFails(p)
      PROVE  GameClock'
  <2>1. UNCHANGED <<now, nextRefresh, begun>>
    BY <1>4 DEF GameActivity!Step, GameActivity!ChannelResolved, GameActivity!ChannelUnresolved,
       GameActivity!Fetched, GameActivity!NotFetched, GameActivity!Edited,
       GameActivity!EditFails, GameActivity!Deleted,
                GameActivity!DeleteFails, GameActivity!Sent, GameActivity!SendFails, GameActivity!Rest
  <2>2. \/ GameActivity!Ends(p)
        \/ /\ UNCHANGED sent
           /\ \E step \in {"channel", "fetch", "edit", "delete", "send"},
                 m \in {0, activeMessageId, updates[p].message} : GameActivity!Goes(p, step, m)
    BY <1>4 DEF GameActivity!Step, GameActivity!ChannelResolved, GameActivity!ChannelUnresolved,
       GameActivity!Fetched, GameActivity!NotFetched, GameActivity!Edited,
       GameActivity!EditFails, GameActivity!Deleted,
                GameActivity!DeleteFails, GameActivity!Sent, GameActivity!SendFails, GameActivity!PostFresh
  <2>3. {0, activeMessageId, updates[p].message} \subseteq 0 .. sent
    BY DEF GameTypes, GameActivity!TypeOK
  <2> QED
    BY <1>2, <1>3, <2>1, <2>2, <2>3
<1>5. ASSUME NEW u \in Members, NEW players \in BOOLEAN, GameActivity!Presence(u, players)
      PROVE  GameClock'
  <2>1. DOMAIN tracker' \subseteq Members
    BY <1>5 DEF GameActivity!Presence, GameActivity!Put, GameActivity!Without, GameTypes,
       GameActivity!TypeOK
  <2>2. GameActivity!Post(tracker') /\ UNCHANGED <<now, nextRefresh, refreshing>>
    BY <1>5 DEF GameActivity!Presence
  <2>3. /\ DOMAIN updates' = DOMAIN updates \cup {begun + 1}
        /\ \A p \in DOMAIN updates : updates'[p] = updates[p]
    BY <2>1, <2>2, GamePostBegins
  <2> QED
    BY <2>2, <2>3 DEF GameClock
<1>6. CASE GameActivity!Refresh
  <2>1. nextRefresh' = now + GameInterval /\ now' = now /\ now >= nextRefresh
    BY <1>6 DEF GameActivity!Refresh
  <2>2. refreshing = 0
    BY <1>1, <2>1 DEF GameClock
  <2>3. CASE GameActivity!Idle
    <3>1. UNCHANGED refreshing
      BY <1>6, <2>2, <2>3 DEF GameActivity!Refresh
    <3> QED
      BY <1>1, <2>1, <2>2, <3>1 DEF GameClock
  <2>4. CASE ~GameActivity!Idle
    <3>1. GameActivity!Post(tracker') /\ refreshing' = begun' /\ tracker' = GameActivity!Without(tracker, GameActivity!StaleIn(tracker))
      BY <1>6, <2>2, <2>4 DEF GameActivity!Refresh
    <3>2. DOMAIN tracker' \subseteq Members
      BY <3>1 DEF GameActivity!Without, GameTypes, GameActivity!TypeOK
    <3>3. /\ begun' = begun + 1 /\ DOMAIN updates' = DOMAIN updates \cup {begun + 1}
          /\ updates'[begun + 1] = [shows |-> GameActivity!Snapshot(tracker'), awaits |-> "channel", message |-> 0, target |-> 0, since |-> now]
      BY <3>1, <3>2, GamePostBegins
    <3>4. refreshing' \in DOMAIN updates' /\ updates'[refreshing'].since = now
      BY <3>1, <3>3
    <3> QED
      BY <1>1, <2>1, <3>4 DEF GameClock
  <2> QED
    BY <2>3, <2>4
<1>7. CASE GameActivity!Tick
  <2>1. /\ now < nextRefresh /\ now' = now + 1 /\ UNCHANGED <<nextRefresh, updates, refreshing>>
        /\ \A p \in DOMAIN updates : now' < updates[p].since + GameInterval
    BY <1>7 DEF GameActivity!Tick
  <2>2. now' <= nextRefresh /\ nextRefresh <= now' + GameInterval
    BY <1>1, <2>1 DEF GameClock
  <2>3. refreshing # 0 => now' < nextRefresh
    BY <2>1 DEF GameClock
  <2> QED
    BY <2>1, <2>2, <2>3 DEF GameClock
<1> QED
  BY <1>4, <1>5, <1>6, <1>7 DEF GameActivity!Next

\* A post that begins alone shows what the tracker holds.
LEMMA GameCalmPosts ==
  ASSUME GameTypes, GameCalm, NEW t, DOMAIN t \subseteq Members, GameActivity!Post(t),
         t = tracker', \A u \in DOMAIN t : t[u] \in 0 .. now,
         UNCHANGED <<now, activeMessageId, messages, faults>>, nextRefresh' \in Nat, nextRefresh' <= now + GameInterval
  PROVE  GameCalm'
<1> SUFFICES ASSUME ~crossed', faults' = 0 PROVE GameCalm'
  BY DEF GameCalm
<1>1. /\ DOMAIN updates' = DOMAIN updates \cup {begun + 1}
      /\ updates'[begun + 1] = [shows |-> GameActivity!Snapshot(t), awaits |-> "channel", message |-> 0, target |-> 0, since |-> now]
      /\ ~crossed' => ~crossed /\ DOMAIN updates = {}
  BY GamePostBegins
<1>2. DOMAIN updates' = {begun + 1} /\ ~crossed /\ faults = 0
  BY <1>1
<1>3. DOMAIN messages' = {activeMessageId'} \ {0}
  BY <1>2 DEF GameCalm
<1>4. now \in Nat /\ now' = now
  BY DEF GameTypes
<1>5. GameActivity!Snapshot(tracker)' = GameActivity!Snapshot(t)
  BY <1>4 DEF GameActivity!Snapshot, GameActivity!StaleIn
<1>6. \A u \in GameActivity!Snapshot(t) : u \in DOMAIN t /\ nextRefresh' <= t[u] + GameStaleAfter + GameInterval
  <2>1. \A u \in GameActivity!Snapshot(t) : u \in DOMAIN t /\ ~(now - t[u] > GameStaleAfter)
    BY DEF GameActivity!Snapshot, GameActivity!StaleIn
  <2> SUFFICES ASSUME NEW u \in GameActivity!Snapshot(t)
               PROVE  u \in DOMAIN t /\ nextRefresh' <= t[u] + GameStaleAfter + GameInterval
    OBVIOUS
  <2>2. t[u] \in Nat /\ t[u] <= now /\ GameStaleAfter \in Nat /\ GameInterval \in Nat
    BY <1>4, <2>1, GameConstants
  <2> QED
    BY <1>4, <2>1, <2>2
<1>7. updates'[begun + 1].shows = GameActivity!Snapshot(t) /\ updates'[begun + 1].awaits = "channel"
  BY <1>1
<1>8. ASSUME NEW p \in DOMAIN updates' PROVE p = begun + 1 /\ GameCurrent(updates[p].shows)'
  <2>1. p = begun + 1 /\ updates'[p].shows = GameActivity!Snapshot(t)
    BY <1>2, <1>7
  <2> QED
    BY <1>5, <1>6, <2>1 DEF GameCurrent
<1> QED
  BY <1>2, <1>3, <1>7, <1>8 DEF GameCalm

\* One update is over, or goes on; the tracker and the clock stay.
LEMMA GameCalmEnds ==
  ASSUME GameTypes, GameCalm, NEW p \in DOMAIN updates, GameActivity!Ends(p),
         UNCHANGED GameActivity!Rest,
         ~crossed /\ faults = 0 => DOMAIN messages' = {activeMessageId'} \ {0} /\ GameActivity!Listed' = updates[p].shows,
         faults' = 0 => faults = 0
  PROVE  GameCalm'
<1>1. UNCHANGED <<now, tracker, nextRefresh, crossed>>
  BY DEF GameActivity!Rest
<1> SUFFICES ASSUME ~crossed, faults = 0 PROVE GameCalm'
  BY <1>1 DEF GameCalm
<1>2. DOMAIN updates = {p} /\ GameCurrent(updates[p].shows)
  BY DEF GameCalm
<1>3. DOMAIN updates' = {}
  BY <1>2 DEF GameActivity!Ends, GameActivity!Without
<1>4. GameCurrent(GameActivity!Listed)'
  BY <1>1, <1>2 DEF GameCurrent, GameActivity!Snapshot, GameActivity!StaleIn
<1> QED
  BY <1>3, <1>4 DEF GameCalm

\* A post that is alone goes on with the one message.
LEMMA GameCalmGoes ==
  ASSUME GameTypes, GameCalm, NEW p \in DOMAIN updates,
         NEW step \in {"channel", "fetch", "edit", "delete", "send"},
         NEW m \in 0 .. sent, GameActivity!Goes(p, step, m), UNCHANGED GameActivity!Rest, UNCHANGED <<messages, sent>>,
         ~crossed /\ faults' = 0 =>
           /\ faults = 0 /\ UNCHANGED activeMessageId
           /\ step \in {"fetch", "edit", "delete"} => m = activeMessageId /\ activeMessageId # 0
           /\ step = "send" => activeMessageId = 0
           /\ step = "delete" => updates[p].shows = {}
  PROVE  GameCalm'
<1>1. UNCHANGED <<now, begun, tracker, nextRefresh, crossed>>
  BY DEF GameActivity!Rest
<1> SUFFICES ASSUME ~crossed, faults' = 0 PROVE GameCalm'
  BY <1>1 DEF GameCalm
<1>2. DOMAIN updates = {p} /\ GameCurrent(updates[p].shows) /\ DOMAIN messages = {activeMessageId} \ {0}
  BY DEF GameCalm
<1>3. /\ DOMAIN updates' = {p} /\ updates'[p].awaits = step /\ updates'[p].message = m
      /\ updates'[p].shows = updates[p].shows
      /\ step = "delete" => updates'[p].target = activeMessageId
  BY <1>1, <1>2, GameGoesTypes
<1>4. GameCurrent(updates[p].shows)'
  BY <1>1, <1>2, <1>3 DEF GameCurrent, GameActivity!Snapshot, GameActivity!StaleIn
<1> QED
  BY <1>2, <1>3, <1>4 DEF GameCalm

\* With one message, what is listed is what it lists.
LEMMA GameListed ==
  ASSUME NEW m, DOMAIN messages \subseteq {m}
  PROVE  GameActivity!Listed = IF m \in DOMAIN messages THEN messages[m] ELSE {}
BY DEF GameActivity!Listed

\* While posts do not overlap and nothing fails, the one message follows the tracker.
LEMMA GameCalmStep ==
  ASSUME GameTypes, GameClock, GameCalm, GameActivity!Next
  PROVE  GameCalm'
<1>1. ASSUME NEW u \in Members, NEW players \in BOOLEAN, GameActivity!Presence(u, players)
      PROVE  GameCalm'
  <2>1. DOMAIN tracker' \subseteq Members /\ \A v \in DOMAIN tracker' : tracker'[v] \in 0 .. now
    BY <1>1 DEF GameActivity!Presence, GameActivity!Put, GameActivity!Without, GameTypes,
       GameActivity!TypeOK
  <2>2. GameActivity!Post(tracker') /\ UNCHANGED <<now, activeMessageId, messages, nextRefresh, faults>>
    BY <1>1 DEF GameActivity!Presence
  <2>3. nextRefresh \in Nat /\ nextRefresh <= now + GameInterval
    BY DEF GameTypes, GameActivity!TypeOK, GameClock
  <2> QED
    BY <2>1, <2>2, <2>3, GameCalmPosts
<1>2. CASE GameActivity!Refresh
  <2>1. nextRefresh' = now + GameInterval /\ now' = now /\ UNCHANGED <<activeMessageId, messages, faults>>
    BY <1>2 DEF GameActivity!Refresh
  <2>2. now \in Nat /\ GameInterval \in Nat /\ nextRefresh' \in Nat /\ nextRefresh' <= now + GameInterval
    BY <2>1, GameConstants DEF GameTypes
  <2>3. refreshing = 0
    BY <1>2, <2>2, GameConstants DEF GameActivity!Refresh, GameClock, GameTypes,
       GameActivity!TypeOK
  <2>4. tracker' = GameActivity!Without(tracker, GameActivity!StaleIn(tracker))
    BY <1>2, <2>3 DEF GameActivity!Refresh
  <2>5. DOMAIN tracker' \subseteq Members /\ \A v \in DOMAIN tracker' : tracker'[v] \in 0 .. now
    BY <2>4 DEF GameActivity!Without, GameTypes, GameActivity!TypeOK
  <2>6. CASE GameActivity!Idle
    <3>1. UNCHANGED <<updates, crossed>> /\ DOMAIN tracker = {} /\ DOMAIN tracker' = {}
      BY <1>2, <2>3, <2>4, <2>6 DEF GameActivity!Refresh, GameActivity!Idle, GameActivity!Empty,
         GameActivity!Without
    <3>2. ASSUME NEW players, GameCurrent(players) PROVE players = {}
      BY <3>1, <3>2 DEF GameCurrent
    <3>3. GameActivity!Listed' = GameActivity!Listed /\ GameActivity!Snapshot(tracker)' = {}
      BY <2>1, <3>1 DEF GameActivity!Listed, GameActivity!Snapshot
    <3>4. ASSUME NEW p \in DOMAIN updates, updates[p].shows = {}
          PROVE  GameCurrent(updates[p].shows)'
      BY <3>1, <3>3, <3>4 DEF GameCurrent
    <3>5. ASSUME GameActivity!Listed = {} PROVE GameCurrent(GameActivity!Listed)'
      BY <3>3, <3>5 DEF GameCurrent
    <3> QED
      BY <2>1, <3>1, <3>2, <3>4, <3>5 DEF GameCalm
  <2>7. CASE ~GameActivity!Idle
    <3>1. GameActivity!Post(tracker')
      BY <1>2, <2>3, <2>7 DEF GameActivity!Refresh
    <3> QED
      BY <2>1, <2>2, <2>5, <3>1, GameCalmPosts
  <2> QED
    BY <2>6, <2>7
<1>3. CASE GameActivity!Tick
  <2>1. UNCHANGED <<tracker, activeMessageId, messages, updates, nextRefresh, crossed, faults>> /\ now' = now + 1
    BY <1>3 DEF GameActivity!Tick
  <2>2. GameActivity!Snapshot(tracker)' \subseteq GameActivity!Snapshot(tracker) /\ GameActivity!Listed' = GameActivity!Listed
    <3>1. now \in Nat /\ GameStaleAfter \in Nat /\ \A u \in DOMAIN tracker : tracker[u] \in Nat
      BY GameConstants DEF GameTypes, GameActivity!TypeOK
    <3> QED
      BY <2>1, <3>1 DEF GameActivity!Snapshot, GameActivity!StaleIn, GameActivity!Listed
  <2>3. ASSUME NEW p \in DOMAIN updates, GameCurrent(updates[p].shows)
        PROVE  GameCurrent(updates[p].shows)'
    BY <2>1, <2>2, <2>3 DEF GameCurrent
  <2>4. ASSUME GameCurrent(GameActivity!Listed) PROVE GameCurrent(GameActivity!Listed)'
    BY <2>1, <2>2, <2>4 DEF GameCurrent
  <2> QED
    BY <2>1, <2>3, <2>4 DEF GameCalm
<1>4. sent \in Nat /\ 0 \in 0 .. sent /\ activeMessageId \in 0 .. sent
  BY DEF GameTypes, GameActivity!TypeOK
<1>5. ASSUME GameActivity!Fault \/ UNCHANGED faults
      PROVE  faults' = 0 => faults = 0 /\ ~GameActivity!Fault
  BY <1>5, GameFault DEF GameActivity!Fault, GameTypes, GameActivity!TypeOK
<1>6. ASSUME NEW p \in DOMAIN updates, ~crossed, faults = 0
      PROVE  /\ DOMAIN messages = {activeMessageId} \ {0} /\ DOMAIN updates = {p}
             /\ updates[p].awaits \in {"fetch", "edit", "delete"} =>
                  updates[p].message = activeMessageId /\ activeMessageId # 0
             /\ updates[p].awaits = "send" => activeMessageId = 0
             /\ updates[p].awaits = "delete" => updates[p].shows = {} /\ updates[p].target = activeMessageId
  BY <1>6 DEF GameCalm
<1>7. ASSUME NEW p \in DOMAIN updates, GameActivity!ChannelResolved(p) PROVE GameCalm'
  <2>1. UNCHANGED <<activeMessageId, messages, sent, faults>> /\ UNCHANGED GameActivity!Rest
    BY <1>7 DEF GameActivity!ChannelResolved
  <2>2. CASE activeMessageId # 0
    <3>1. GameActivity!Goes(p, "fetch", activeMessageId)
      BY <1>7, <2>2 DEF GameActivity!ChannelResolved
    <3> QED
      BY <1>4, <2>1, <2>2, <3>1, GameCalmGoes
  <2>3. CASE activeMessageId = 0 /\ updates[p].shows = {}
    <3>1. GameActivity!Ends(p)
      BY <1>7, <2>3 DEF GameActivity!ChannelResolved, GameActivity!PostFresh
    <3>2. ASSUME ~crossed, faults = 0 PROVE GameActivity!Listed' = {}
      <4>1. DOMAIN messages' = {}
        BY <1>6, <2>1, <2>3, <3>2
      <4> QED
        BY <4>1 DEF GameActivity!Listed
    <3> QED
      BY <1>6, <2>1, <2>3, <3>1, <3>2, GameCalmEnds
  <2>4. CASE activeMessageId = 0 /\ updates[p].shows # {}
    <3>1. GameActivity!Goes(p, "send", 0)
      BY <1>7, <2>4 DEF GameActivity!ChannelResolved, GameActivity!PostFresh
    <3> QED
      BY <1>4, <2>1, <2>4, <3>1, GameCalmGoes
  <2> QED
    BY <2>2, <2>3, <2>4
<1>8. ASSUME NEW p \in DOMAIN updates, GameActivity!Fetched(p) PROVE GameCalm'
  <2>1. updates[p].message \in 0 .. sent /\ updates[p].awaits = "fetch"
    BY <1>8 DEF GameActivity!Fetched, GameActivity!At, GameTypes, GameActivity!TypeOK
  <2>2. UNCHANGED <<activeMessageId, messages, sent, faults>> /\ UNCHANGED GameActivity!Rest
    BY <1>8 DEF GameActivity!Fetched
  <2>3. CASE updates[p].shows = {}
    <3>1. GameActivity!Goes(p, "delete", updates[p].message)
      BY <1>8, <2>3 DEF GameActivity!Fetched
    <3> QED
      BY <1>6, <2>1, <2>2, <2>3, <3>1, GameCalmGoes
  <2>4. CASE updates[p].shows # {}
    <3>1. GameActivity!Goes(p, "edit", updates[p].message)
      BY <1>8, <2>4 DEF GameActivity!Fetched
    <3> QED
      BY <1>6, <2>1, <2>2, <3>1, GameCalmGoes
  <2> QED
    BY <2>3, <2>4
<1>9. ASSUME NEW p \in DOMAIN updates, GameActivity!Edited(p) PROVE GameCalm'
  <2>1. /\ updates[p].awaits = "edit" /\ updates[p].message \in DOMAIN messages /\ GameActivity!Ends(p)
        /\ messages' = [messages EXCEPT ![updates[p].message] = updates[p].shows]
        /\ UNCHANGED <<activeMessageId, faults>> /\ UNCHANGED GameActivity!Rest
    BY <1>9 DEF GameActivity!Edited, GameActivity!At
  <2>2. ASSUME ~crossed, faults = 0
        PROVE  DOMAIN messages' = {activeMessageId'} \ {0} /\ GameActivity!Listed' = updates[p].shows
    <3>1. DOMAIN messages' = {updates[p].message} /\ messages'[updates[p].message] = updates[p].shows
      BY <1>6, <2>1, <2>2
    <3>2. GameActivity!Listed' = updates[p].shows
      BY <3>1 DEF GameActivity!Listed
    <3> QED
      BY <1>6, <2>1, <2>2, <3>1, <3>2
  <2> QED
    BY <2>1, <2>2, GameCalmEnds
<1>10. ASSUME NEW p \in DOMAIN updates, GameActivity!Deleted(p) PROVE GameCalm'
  <2>1. /\ updates[p].awaits = "delete" /\ GameActivity!Ends(p)
        /\ messages' = GameActivity!Without(messages, {updates[p].target}) /\ activeMessageId' = 0
        /\ UNCHANGED faults /\ UNCHANGED GameActivity!Rest
    BY <1>10 DEF GameActivity!Deleted, GameActivity!At
  <2>2. ASSUME ~crossed, faults = 0
        PROVE  DOMAIN messages' = {activeMessageId'} \ {0} /\ GameActivity!Listed' = updates[p].shows
    <3>1. DOMAIN messages' = {} /\ updates[p].shows = {}
      BY <1>6, <2>1, <2>2 DEF GameActivity!Without
    <3>2. GameActivity!Listed' = {}
      BY <3>1 DEF GameActivity!Listed
    <3> QED
      BY <2>1, <3>1, <3>2
  <2> QED
    BY <2>1, <2>2, GameCalmEnds
<1>11. ASSUME NEW p \in DOMAIN updates, GameActivity!Sent(p) PROVE GameCalm'
  <2>1. /\ updates[p].awaits = "send" /\ GameActivity!Ends(p) /\ sent' = sent + 1
        /\ messages' = GameActivity!Put(messages, sent', updates[p].shows) /\ activeMessageId' = sent'
        /\ UNCHANGED faults /\ UNCHANGED GameActivity!Rest
    BY <1>11 DEF GameActivity!Sent, GameActivity!At
  <2>2. ASSUME ~crossed, faults = 0
        PROVE  DOMAIN messages' = {activeMessageId'} \ {0} /\ GameActivity!Listed' = updates[p].shows
    <3>0. DOMAIN messages = {}
      BY <1>6, <2>1, <2>2
    <3>1. DOMAIN messages = {} /\ sent' # 0
      BY <1>4, <2>1, <3>0
    <3>2. DOMAIN messages' = {sent'} /\ messages'[sent'] = updates[p].shows
      BY <2>1, <3>1 DEF GameActivity!Put
    <3>3. GameActivity!Listed' = updates[p].shows
      BY <3>2 DEF GameActivity!Listed
    <3> QED
      BY <2>1, <3>1, <3>2, <3>3
  <2> QED
    BY <2>1, <2>2, GameCalmEnds
<1>12. ASSUME NEW p \in DOMAIN updates, GameActivity!NotFetched(p) \/ GameActivity!EditFails(p)
       PROVE  GameCalm'
  <2>1. /\ updates[p].awaits \in {"fetch", "edit"} /\ UNCHANGED GameActivity!Rest
        /\ IF updates[p].message \in DOMAIN messages THEN GameActivity!Fault ELSE UNCHANGED faults
    BY <1>12 DEF GameActivity!NotFetched, GameActivity!EditFails, GameActivity!At
  <2>2. faults' = 0 => crossed
    BY <1>5, <1>6, <2>1
  <2> QED
    BY <2>1, <2>2 DEF GameCalm, GameActivity!Rest
<1>13. ASSUME NEW p \in DOMAIN updates, GameActivity!ChannelUnresolved(p) \/ GameActivity!SendFails(p)
       PROVE  GameCalm'
  <2>1. GameActivity!Fault
    BY <1>13 DEF GameActivity!ChannelUnresolved, GameActivity!SendFails
  <2>2. faults' # 0
    BY <1>5, <2>1
  <2> QED
    BY <2>2 DEF GameCalm
<1>14. ASSUME NEW p \in DOMAIN updates, GameActivity!DeleteFails(p) PROVE GameCalm'
  <2>1. /\ updates[p].awaits = "delete" /\ UNCHANGED GameActivity!Rest
        /\ IF updates[p].target \in DOMAIN messages THEN GameActivity!Fault ELSE UNCHANGED faults
    BY <1>14 DEF GameActivity!DeleteFails, GameActivity!At
  <2>2. faults' = 0 => crossed
    BY <1>5, <1>6, <2>1
  <2> QED
    BY <2>1, <2>2 DEF GameCalm, GameActivity!Rest
<1> QED
  BY <1>1, <1>2, <1>3, <1>7, <1>8, <1>9, <1>10, <1>11, <1>12, <1>13, <1>14 DEF GameActivity!Next,
     GameActivity!Step

\* The invariant of the summary is kept.
LEMMA GameActivityStep ==
  ASSUME GameActivityInv, GameActivity!Next \/ UNCHANGED GameActivity!vars
  PROVE  GameActivityInv'
<1>1. CASE GameActivity!Next
  BY <1>1, GameTypesStep, GameClockStep, GameCalmStep DEF GameActivityInv
<1>2. CASE UNCHANGED GameActivity!vars
  <2> USE <1>2 DEF GameActivity!vars, GameActivityInv
  <2>1. GameTypes'
    BY DEF GameTypes, GameActivity!TypeOK
  <2>2. GameClock'
    BY DEF GameClock
  <2>3. GameActivity!Snapshot(tracker)' = GameActivity!Snapshot(tracker) /\ GameActivity!Listed' = GameActivity!Listed
    BY DEF GameActivity!Snapshot, GameActivity!StaleIn, GameActivity!Listed
  <2>4. ASSUME NEW p \in DOMAIN updates, GameCurrent(updates[p].shows)
        PROVE  GameCurrent(updates[p].shows)'
    BY <2>3, <2>4 DEF GameCurrent
  <2>5. GameCurrent(GameActivity!Listed) => GameCurrent(GameActivity!Listed)'
    BY <2>3 DEF GameCurrent
  <2>6. GameCalm'
    BY <2>4, <2>5 DEF GameCalm
  <2> QED
    BY <2>1, <2>2, <2>6
<1> QED
  BY <1>1, <1>2

\* It implies that the summary lists no ghosts.
LEMMA GameActivityShows == GameActivityInv => GameActivity!NoGhosts
<1> SUFFICES ASSUME GameActivityInv, ~crossed, faults = 0
             PROVE  /\ DOMAIN messages \subseteq {activeMessageId}
                    /\ updates = GameActivity!Empty =>
                         /\ GameActivity!Snapshot(tracker) \subseteq GameActivity!Listed /\ GameActivity!Listed \subseteq DOMAIN tracker
                         /\ \A u \in GameActivity!Listed : now - tracker[u] <= GameStaleAfter + GameInterval
  BY DEF GameActivity!NoGhosts
<1>1. DOMAIN messages \subseteq {activeMessageId}
  BY DEF GameActivityInv, GameCalm
<1>2. ASSUME updates = GameActivity!Empty
      PROVE  /\ GameActivity!Snapshot(tracker) \subseteq GameActivity!Listed /\ GameActivity!Listed \subseteq DOMAIN tracker
             /\ \A u \in GameActivity!Listed : now - tracker[u] <= GameStaleAfter + GameInterval
  <2>1. GameCurrent(GameActivity!Listed)
    <3>1. DOMAIN updates = {}
      BY <1>2 DEF GameActivity!Empty
    <3> QED
      BY <3>1 DEF GameActivityInv, GameCalm
  <2>2. ASSUME NEW u \in GameActivity!Listed
        PROVE  now - tracker[u] <= GameStaleAfter + GameInterval
    <3>1. tracker[u] \in Nat /\ nextRefresh <= tracker[u] + GameStaleAfter + GameInterval
      BY <2>1 DEF GameCurrent, GameActivityInv, GameTypes, GameActivity!TypeOK
    <3>2. {now, nextRefresh} \subseteq Nat /\ now <= nextRefresh
      BY DEF GameActivityInv, GameTypes, GameActivity!TypeOK, GameClock
    <3> QED
      BY <3>1, <3>2, GameConstants
  <2> QED
    BY <2>1, <2>2 DEF GameCurrent
<1> QED
  BY <1>1, <1>2

-----------------------------------------------------------------------------
(* The embed of a member.                                                  *)

\* Limit and interval are positive, bounds are numbers.
LEMMA TrackConstants ==
  {TrackStaleAfter, TrackInterval} \subseteq Nat \ {0} /\ {LastTime["nowPlaying"], MaxPresences["nowPlaying"], MaxUpdates["nowPlaying"], MaxFaults["nowPlaying"]} \subseteq Nat
BY FeaturesAssumption DEF NowPlaying!NowPlayingAssumption

TrackEntries == [track : Tracks, message : 0 .. sent, at : 0 .. now]
TrackUpdates == [awaits : {"edit", "send", "delete"}, entry : TrackEntries]

TrackTypes ==
  /\ NowPlaying!TypeOK
  /\ {now, sent, begun} \subseteq Nat
  /\ entry = {} \/ \E e \in TrackEntries : entry = {e}
  /\ updates \in [DOMAIN updates -> TrackUpdates]

\* The interval fires on time, and what an answer sets is not too old for it.
TrackClock ==
  /\ now <= nextPrune /\ nextPrune <= now + TrackInterval
  /\ \A e \in entry : nextPrune <= e.at + NowPlaying!Longest + TrackInterval
  /\ \A p \in DOMAIN updates : updates[p].awaits # "delete" => now < updates[p].entry.at + TrackInterval

\* Without overlap and failure the embed is the one of the entry, or the one
\* that the update under way edits, sends or deletes.
TrackCalm ==
  ~crossed /\ faults = 0 =>
    /\ \A p \in DOMAIN updates :
         /\ DOMAIN updates = {p}
         /\ updates[p].awaits = "send" =>
              DOMAIN embeds = {} /\ updates[p].entry.message = 0 /\ playing = {updates[p].entry.track}
         /\ updates[p].awaits = "edit" =>
              DOMAIN embeds = {updates[p].entry.message} /\ playing = {updates[p].entry.track}
         /\ updates[p].awaits = "delete" => DOMAIN embeds = {updates[p].entry.message} /\ entry = {}
    /\ DOMAIN updates = {} =>
         /\ DOMAIN embeds = {e.message : e \in entry}
         /\ \A e \in entry : playing = {e.track} /\ embeds[e.message] = e.track

NowPlayingInv == TrackTypes /\ TrackClock /\ TrackCalm

\* A set of at most one element, counted.
LEMMA TrackOne ==
  ASSUME NEW S, S = {} \/ \E e : S = {e}
  PROVE  NowPlaying!Cardinality(S) <= 1
<1>1. NowPlaying!Cardinality(S) = Cardinality(S)
  BY DEF NowPlaying!Cardinality, Cardinality
<1>2. CASE S = {}
  BY <1>1, <1>2, FS_EmptySet
<1>3. CASE \E e : S = {e}
  <2>1. PICK e : S = {e}
    BY <1>3
  <2>2. Cardinality({e}) = 1
    BY FS_Singleton
  <2> QED
    BY <1>1, <2>1, <2>2
<1> QED
  BY <1>2, <1>3

\* The invariant holds at the start.
LEMMA NowPlayingStarts == NowPlaying!Init => NowPlayingInv
<1> SUFFICES ASSUME NowPlaying!Init PROVE NowPlayingInv
  OBVIOUS
<1>1. DOMAIN NowPlaying!Empty = {} /\ embeds = NowPlaying!Empty /\ updates = NowPlaying!Empty /\ entry = {}
  BY DEF NowPlaying!Init, NowPlaying!Empty
<1>2. {now, sent, begun, nextPrune, presences, faults} \subseteq Nat
  BY TrackConstants DEF NowPlaying!Init
<1>3. updates \in [DOMAIN updates -> TrackUpdates]
  BY <1>1 DEF NowPlaying!Empty
<1>4. DOMAIN embeds = {} /\ DOMAIN updates = {} /\ crossed \in BOOLEAN /\ playing \subseteq Tracks
  BY <1>1 DEF NowPlaying!Init
<1> HIDE DEF NowPlaying!Empty
<1>5. NowPlaying!Cardinality(entry) <= 1
  BY <1>1, TrackOne
<1>6. TrackTypes
  BY <1>1, <1>2, <1>3, <1>4, <1>5 DEF TrackTypes, NowPlaying!TypeOK, NowPlaying!Cardinality
<1>7. TrackClock
  BY <1>1, <1>4, TrackConstants DEF NowPlaying!Init, TrackClock
<1>8. TrackCalm
  BY <1>1, <1>4 DEF TrackCalm
<1> QED
  BY <1>6, <1>7, <1>8 DEF NowPlayingInv

\* The types of this state, taken apart.
LEMMA TrackFacts ==
  ASSUME TrackTypes
  PROVE  /\ {now, sent, begun, nextPrune, presences, faults} \subseteq Nat
         /\ \A e \in entry : e \in TrackEntries
         /\ \A p \in DOMAIN updates : updates[p].entry \in TrackEntries /\ p \in 1 .. begun
         /\ \A e, f \in entry : e = f
BY DEF TrackTypes, NowPlaying!TypeOK, TrackEntries

\* An entry stays one when the clock and the count go on.
LEMMA TrackEntriesGrow ==
  ASSUME {now, sent, now', sent'} \subseteq Nat, now <= now', sent <= sent'
  PROVE  /\ TrackEntries \subseteq TrackEntries' /\ TrackUpdates \subseteq TrackUpdates'
<1>1. 0 .. sent \subseteq 0 .. sent' /\ 0 .. now \subseteq 0 .. now'
  OBVIOUS
<1>2. TrackEntries \subseteq TrackEntries'
  BY <1>1 DEF TrackEntries
<1> QED
  BY <1>2 DEF TrackUpdates

\* What a presence, a removal and the pruning begin.
LEMMA TrackBegins ==
  ASSUME TrackTypes, NEW awaits \in {"edit", "send", "delete"}, NEW e \in TrackEntries,
         NowPlaying!Begin(awaits, e)
  PROVE  /\ begun' = begun + 1 /\ begun' \in Nat
         /\ DOMAIN updates' = DOMAIN updates \cup {begun + 1} /\ DOMAIN updates' \subseteq 1 .. begun'
         /\ \A p \in DOMAIN updates : updates'[p] = updates[p] /\ p # begun + 1
         /\ updates'[begun + 1].awaits = awaits /\ updates'[begun + 1].entry = e
         /\ updates' \in [DOMAIN updates' -> TrackUpdates]
<1> DEFINE new == [awaits |-> awaits, entry |-> e]
<1>1. begun \in Nat /\ begun' = begun + 1 /\ updates' = NowPlaying!Put(updates, begun + 1, new)
  BY DEF NowPlaying!Begin, TrackTypes
<1>2. new \in TrackUpdates /\ new.awaits = awaits /\ new.entry = e
  BY DEF TrackUpdates
<1> HIDE DEF new
<1>3. DOMAIN updates \subseteq 1 .. begun
  BY DEF TrackTypes, NowPlaying!TypeOK
<1>4. updates' \in [DOMAIN updates \cup {begun + 1} -> TrackUpdates]
  BY <1>1, <1>2 DEF NowPlaying!Put, TrackTypes
<1>5. begun + 1 \notin DOMAIN updates /\ DOMAIN updates \cup {begun + 1} \subseteq 1 .. begun + 1
  BY <1>1, <1>3
<1>6. updates'[begun + 1] = new /\ \A p \in DOMAIN updates : updates'[p] = updates[p]
  BY <1>1, <1>5 DEF NowPlaying!Put
<1> QED
  BY <1>1, <1>2, <1>4, <1>5, <1>6

\* A presence that has been handled leaves the others as they were.
LEMMA TrackEnds ==
  ASSUME TrackTypes, NEW p \in DOMAIN updates, NowPlaying!Ends(p)
  PROVE  /\ DOMAIN updates' = DOMAIN updates \ {p} /\ \A q \in DOMAIN updates' : updates'[q] = updates[q]
         /\ updates' \in [DOMAIN updates' -> TrackUpdates]
BY DEF NowPlaying!Ends, NowPlaying!Without, TrackTypes

\* The fault counter stays a number, and at zero nothing has failed.
LEMMA TrackFault ==
  ASSUME TrackTypes, NowPlaying!Fault \/ UNCHANGED faults
  PROVE  faults' \in Nat /\ (faults' = 0 => faults = 0 /\ ~NowPlaying!Fault)
<1>1. faults \in Nat
  BY TrackFacts
<1> QED
  BY <1>1 DEF NowPlaying!Fault

\* The types, from what a step does to each variable.
LEMMA TrackTyped ==
  ASSUME TrackTypes, {now', sent', begun', nextPrune', presences', faults'} \subseteq Nat,
         now <= now', sent <= sent',
         playing' \subseteq Tracks, crossed' \in BOOLEAN,
         entry' = {} \/ \E e \in TrackEntries' : entry' = {e},
         DOMAIN embeds' \subseteq 1 .. sent', \A m \in DOMAIN embeds' : embeds'[m] \in Tracks,
         DOMAIN updates' \subseteq 1 .. begun', updates' \in [DOMAIN updates' -> TrackUpdates']
  PROVE  TrackTypes'
<1>1. NowPlaying!Cardinality(entry') <= 1
  BY TrackOne
<1>2. entry' \subseteq TrackEntries'
  OBVIOUS
<1>3. \A p \in DOMAIN updates' :
        updates'[p].entry \in TrackEntries' /\ updates'[p].awaits \in {"edit", "send", "delete"}
  BY DEF TrackUpdates
<1>4. NowPlaying!TypeOK'
  BY <1>1, <1>2, <1>3 DEF NowPlaying!TypeOK, TrackEntries, NowPlaying!Cardinality
<1> QED
  BY <1>4 DEF TrackTypes

\* Every step keeps the types.
LEMMA TrackTypesStep ==
  ASSUME TrackTypes, NowPlaying!Next
  PROVE  TrackTypes'
<1>1. {now, sent, begun, nextPrune, presences, faults} \subseteq Nat /\ DOMAIN updates \subseteq 1 .. begun
  BY TrackFacts DEF TrackTypes, NowPlaying!TypeOK
<1>2. /\ playing \subseteq Tracks /\ crossed \in BOOLEAN
      /\ DOMAIN embeds \subseteq 1 .. sent /\ \A m \in DOMAIN embeds : embeds[m] \in Tracks
      /\ entry = {} \/ \E e \in TrackEntries : entry = {e}
      /\ updates \in [DOMAIN updates -> TrackUpdates]
  BY DEF TrackTypes, NowPlaying!TypeOK
<1>3. ASSUME NEW tracks, NowPlaying!Presence(tracks)
      PROVE  crossed' \in BOOLEAN /\ presences' \in Nat /\ playing' = tracks
  BY <1>1, <1>2, <1>3 DEF NowPlaying!Presence, NowPlaying!Crosses
<1>4. ASSUME UNCHANGED <<now, sent>>
      PROVE  TrackEntries' = TrackEntries /\ TrackUpdates' = TrackUpdates /\ now <= now' /\ sent <= sent'
  BY <1>1, <1>4 DEF TrackEntries, TrackUpdates
<1>5. ASSUME NEW t \in Tracks, NowPlaying!PlaysOn(t) PROVE TrackTypes'
  <2>1. PICK e \in TrackEntries : entry = {e}
    BY <1>2, <1>5 DEF NowPlaying!PlaysOn
  <2>2. [e EXCEPT !.at = now] \in TrackEntries
    BY <1>1, <2>1 DEF TrackEntries
  <2>3. entry' = {[e EXCEPT !.at = now]}
    BY <1>5, <2>1 DEF NowPlaying!PlaysOn
  <2>4. UNCHANGED <<now, embeds, updates, nextPrune, sent, begun, faults>> /\ NowPlaying!Presence({t})
    BY <1>5 DEF NowPlaying!PlaysOn
  <2> QED
    BY <1>1, <1>2, <1>3, <1>4, <2>2, <2>3, <2>4, TrackTyped
<1>6. ASSUME NEW t \in Tracks, NowPlaying!Plays(t) PROVE TrackTypes'
  <2>1. UNCHANGED <<now, entry, embeds, nextPrune, sent, faults>> /\ NowPlaying!Presence({t})
    BY <1>6 DEF NowPlaying!Plays
  <2>2. \E m \in 0 .. sent, awaits \in {"edit", "send"} : NowPlaying!Begin(awaits, NowPlaying!Entry(t, m, now))
    BY <1>1, <1>6, TrackFacts DEF NowPlaying!Plays, TrackEntries
  <2>3. PICK m \in 0 .. sent, awaits \in {"edit", "send"} : NowPlaying!Begin(awaits, NowPlaying!Entry(t, m, now))
    BY <2>2
  <2>4. NowPlaying!Entry(t, m, now) \in TrackEntries
    BY <1>1 DEF NowPlaying!Entry, TrackEntries
  <2>5. /\ begun' \in Nat /\ DOMAIN updates' \subseteq 1 .. begun' /\ updates' \in [DOMAIN updates' -> TrackUpdates]
    BY <2>3, <2>4, TrackBegins
  <2> QED
    BY <1>1, <1>2, <1>3, <1>4, <2>1, <2>5, TrackTyped
<1>7. ASSUME NEW e \in entry, NowPlaying!Remove(e)
      PROVE  /\ entry' = {} /\ begun' \in Nat /\ DOMAIN updates' \subseteq 1 .. begun'
             /\ updates' \in [DOMAIN updates' -> TrackUpdates]
  <2>1. CASE e.message = 0
    BY <1>1, <1>2, <1>7, <2>1 DEF NowPlaying!Remove
  <2>2. CASE e.message # 0
    <3>1. NowPlaying!Begin("delete", e) /\ e \in TrackEntries
      BY <1>7, <2>2, TrackFacts DEF NowPlaying!Remove
    <3> QED
      BY <1>7, <3>1, TrackBegins DEF NowPlaying!Remove
  <2> QED
    BY <2>1, <2>2
<1>8. CASE NowPlaying!Stops
  <2>1. UNCHANGED <<now, embeds, nextPrune, sent, faults>> /\ NowPlaying!Presence({})
    BY <1>8 DEF NowPlaying!Stops
  <2>2. /\ entry' = {} /\ begun' \in Nat /\ DOMAIN updates' \subseteq 1 .. begun'
        /\ updates' \in [DOMAIN updates' -> TrackUpdates]
    BY <1>1, <1>2, <1>7, <1>8 DEF NowPlaying!Stops
  <2> QED
    BY <1>1, <1>2, <1>3, <1>4, <2>1, <2>2, TrackTyped
<1>9. CASE NowPlaying!Prune
  <2>1. UNCHANGED <<now, playing, embeds, sent, presences, faults>> /\ nextPrune' \in Nat
    BY <1>1, <1>9, TrackConstants DEF NowPlaying!Prune
  <2>2. CASE \E e \in entry : NowPlaying!IsStale(e)
    <3>1. crossed' \in BOOLEAN /\ \E e \in entry : NowPlaying!Remove(e)
      BY <1>2, <1>9, <2>2 DEF NowPlaying!Prune, NowPlaying!Crosses
    <3>2. /\ entry' = {} /\ begun' \in Nat /\ DOMAIN updates' \subseteq 1 .. begun'
          /\ updates' \in [DOMAIN updates' -> TrackUpdates]
      BY <1>7, <3>1
    <3> QED
      BY <1>1, <1>2, <1>4, <2>1, <3>1, <3>2, TrackTyped
  <2>3. CASE ~\E e \in entry : NowPlaying!IsStale(e)
    <3>1. UNCHANGED <<entry, updates, crossed, begun>>
      BY <1>9, <2>3 DEF NowPlaying!Prune
    <3> QED
      BY <1>1, <1>2, <1>4, <2>1, <3>1, TrackTyped
  <2> QED
    BY <2>2, <2>3
<1>10. CASE NowPlaying!Tick
  <2>1. now' = now + 1 /\ now' \in Nat /\ UNCHANGED <<playing, entry, embeds, updates, nextPrune, crossed, sent, begun, presences, faults>>
    BY <1>1, <1>10 DEF NowPlaying!Tick
  <2>2. TrackEntries \subseteq TrackEntries' /\ TrackUpdates \subseteq TrackUpdates'
    BY <1>1, <2>1, TrackEntriesGrow
  <2> QED
    BY <1>1, <1>2, <2>1, <2>2, TrackTyped
<1>11. ASSUME NEW p \in DOMAIN updates PROVE updates[p].entry \in TrackEntries
  BY TrackFacts
<1>12. ASSUME NEW p \in DOMAIN updates, UNCHANGED NowPlaying!Rest,
              NowPlaying!Fault \/ UNCHANGED faults
       PROVE  UNCHANGED <<now, playing, nextPrune, crossed, begun, presences>> /\ faults' \in Nat
  BY <1>12, TrackFault DEF NowPlaying!Rest
<1>13. ASSUME NEW p \in DOMAIN updates, NowPlaying!Edited(p) PROVE TrackTypes'
  <2>1. /\ updates' \in [DOMAIN updates' -> TrackUpdates] /\ DOMAIN updates' \subseteq DOMAIN updates
    BY <1>13, TrackEnds DEF NowPlaying!Edited
  <2>2. updates[p].entry.track \in Tracks
    BY <1>11 DEF TrackEntries
  <2>3. DOMAIN embeds' = DOMAIN embeds /\ \A m \in DOMAIN embeds' : embeds'[m] \in Tracks
    BY <1>2, <1>13, <2>2 DEF NowPlaying!Edited
  <2>4. UNCHANGED <<sent, faults>> /\ UNCHANGED NowPlaying!Rest /\ entry' = {updates[p].entry}
    BY <1>13 DEF NowPlaying!Edited
  <2> QED
    BY <1>1, <1>2, <1>4, <1>11, <1>12, <2>1, <2>3, <2>4, TrackTyped
<1>14. ASSUME NEW p \in DOMAIN updates, NowPlaying!EditFails(p) PROVE TrackTypes'
  <2>1. UNCHANGED <<entry, embeds, sent>> /\ UNCHANGED NowPlaying!Rest /\ (NowPlaying!Fault \/ UNCHANGED faults)
    BY <1>14 DEF NowPlaying!EditFails
  <2> DEFINE new == [updates[p] EXCEPT !.awaits = "send", !.entry.message = 0]
  <2>2. updates' = [updates EXCEPT ![p] = new]
    BY <1>14 DEF NowPlaying!EditFails
  <2>3. updates[p] \in [awaits : {"edit", "send", "delete"}, entry : TrackEntries]
    BY <1>2 DEF TrackUpdates
  <2>4. [updates[p].entry EXCEPT !.message = 0] \in TrackEntries
    BY <1>1, <1>11 DEF TrackEntries
  <2>5. new \in TrackUpdates
    BY <2>3, <2>4 DEF TrackUpdates
  <2> HIDE DEF new
  <2>6. DOMAIN updates' = DOMAIN updates /\ updates' \in [DOMAIN updates' -> TrackUpdates]
    BY <1>2, <2>2, <2>5
  <2> QED
    BY <1>1, <1>2, <1>4, <1>12, <2>1, <2>6, TrackTyped
<1>15. ASSUME NEW p \in DOMAIN updates, NowPlaying!Sent(p) PROVE TrackTypes'
  <2>1. /\ updates' \in [DOMAIN updates' -> TrackUpdates] /\ DOMAIN updates' \subseteq DOMAIN updates
    BY <1>15, TrackEnds DEF NowPlaying!Sent
  <2>2. sent' = sent + 1 /\ sent' \in Nat /\ UNCHANGED faults /\ UNCHANGED NowPlaying!Rest
    BY <1>1, <1>15 DEF NowPlaying!Sent
  <2>3. UNCHANGED <<now, playing, nextPrune, crossed, begun, presences>>
    BY <2>2, <1>12
  <2>4. TrackEntries \subseteq TrackEntries' /\ TrackUpdates \subseteq TrackUpdates'
    BY <1>1, <2>2, <2>3, TrackEntriesGrow
  <2>5. [updates[p].entry EXCEPT !.message = sent'] \in TrackEntries'
    <3>1. updates[p].entry \in TrackEntries' /\ sent' \in 0 .. sent'
      BY <1>11, <2>2, <2>4
    <3> QED
      BY <3>1 DEF TrackEntries
  <2>6. DOMAIN embeds' \subseteq 1 .. sent' /\ \A m \in DOMAIN embeds' : embeds'[m] \in Tracks
    <3>1. updates[p].entry.track \in Tracks
      BY <1>11 DEF TrackEntries
    <3>2. embeds' = NowPlaying!Put(embeds, sent', updates[p].entry.track)
      BY <1>15 DEF NowPlaying!Sent
    <3> QED
      BY <1>1, <1>2, <2>2, <3>1, <3>2 DEF NowPlaying!Put
  <2>7. entry' = {[updates[p].entry EXCEPT !.message = sent']}
    BY <1>15 DEF NowPlaying!Sent
  <2> QED
    BY <1>1, <1>2, <2>1, <2>2, <2>3, <2>4, <2>5, <2>6, <2>7, TrackTyped
<1>16. ASSUME NEW p \in DOMAIN updates, NowPlaying!NotSent(p) PROVE TrackTypes'
  <2>1. /\ updates' \in [DOMAIN updates' -> TrackUpdates] /\ DOMAIN updates' \subseteq DOMAIN updates
    BY <1>16, TrackEnds DEF NowPlaying!NotSent
  <2>2. NowPlaying!Fault /\ UNCHANGED <<embeds, sent>> /\ UNCHANGED NowPlaying!Rest /\ entry' \in {entry, {updates[p].entry}}
    BY <1>16 DEF NowPlaying!NotSent
  <2> QED
    BY <1>1, <1>2, <1>4, <1>11, <1>12, <2>1, <2>2, TrackTyped
<1>17. ASSUME NEW p \in DOMAIN updates, NowPlaying!Deleted(p) PROVE TrackTypes'
  <2>1. /\ updates' \in [DOMAIN updates' -> TrackUpdates] /\ DOMAIN updates' \subseteq DOMAIN updates
    BY <1>17, TrackEnds DEF NowPlaying!Deleted
  <2>2. (NowPlaying!Fault \/ UNCHANGED faults) /\ UNCHANGED <<entry, sent>> /\ UNCHANGED NowPlaying!Rest
    BY <1>17 DEF NowPlaying!Deleted
  <2>3. DOMAIN embeds' \subseteq DOMAIN embeds /\ \A m \in DOMAIN embeds' : embeds'[m] = embeds[m]
    BY <1>17 DEF NowPlaying!Deleted, NowPlaying!Without
  <2> QED
    BY <1>1, <1>2, <1>4, <1>12, <2>1, <2>2, <2>3, TrackTyped
<1> QED
  BY <1>5, <1>6, <1>8, <1>9, <1>10, <1>13, <1>14, <1>15, <1>16, <1>17 DEF NowPlaying!Next

\* The interval fires on time, and what an answer sets is not too old for it.
LEMMA TrackClockStep ==
  ASSUME TrackTypes, TrackClock, NowPlaying!Next
  PROVE  TrackClock'
<1>1. {now, sent, begun, nextPrune, TrackInterval, TrackStaleAfter, NowPlaying!Longest} \subseteq Nat /\ TrackInterval # 0 /\ NowPlaying!Longest >= TrackInterval
      /\ NowPlaying!Longest >= TrackStaleAfter
  BY TrackFacts, TrackConstants DEF NowPlaying!Longest
<1>2. \A e \in entry : e.at \in 0 .. now
  BY TrackFacts DEF TrackEntries
<1>3. \A p \in DOMAIN updates : updates[p].entry \in TrackEntries /\ updates[p].entry.at \in 0 .. now
  BY TrackFacts DEF TrackEntries
<1>4. ASSUME NEW p \in DOMAIN updates, updates[p].awaits # "delete"
      PROVE  nextPrune <= updates[p].entry.at + NowPlaying!Longest + TrackInterval
  <2>1. now < updates[p].entry.at + TrackInterval /\ nextPrune <= now + TrackInterval
    BY <1>4 DEF TrackClock
  <2> QED
    BY <1>1, <1>3, <2>1
<1>5. ASSUME NEW t \in Tracks, NowPlaying!PlaysOn(t) PROVE TrackClock'
  <2>1. entry' = {[e EXCEPT !.at = now] : e \in entry} /\ UNCHANGED <<now, updates, nextPrune>>
    BY <1>5 DEF NowPlaying!PlaysOn
  <2>2. \A e \in entry : [e EXCEPT !.at = now].at = now
    BY TrackFacts DEF TrackEntries
  <2>3. \A e \in entry' : e.at = now
    BY <2>1, <2>2
  <2> QED
    BY <1>1, <2>1, <2>3 DEF TrackClock
<1>6. ASSUME NEW awaits \in {"edit", "send", "delete"}, NEW e \in TrackEntries,
             NowPlaying!Begin(awaits, e),
             awaits # "delete" => e.at = now, UNCHANGED <<now, nextPrune>>, entry' \subseteq entry
      PROVE  TrackClock'
  <2>1. /\ DOMAIN updates' = DOMAIN updates \cup {begun + 1}
        /\ \A p \in DOMAIN updates : updates'[p] = updates[p]
        /\ updates'[begun + 1].awaits = awaits /\ updates'[begun + 1].entry = e
    BY <1>6, TrackBegins
  <2>2. ASSUME NEW p \in DOMAIN updates', updates'[p].awaits # "delete"
        PROVE  now' < updates'[p].entry.at + TrackInterval
    BY <1>1, <1>6, <2>1, <2>2 DEF TrackClock
  <2> QED
    BY <1>1, <1>6, <2>2 DEF TrackClock
<1>7. ASSUME NEW t \in Tracks, NowPlaying!Plays(t) PROVE TrackClock'
  <2>1. \E m \in 0 .. sent, awaits \in {"edit", "send"} : NowPlaying!Begin(awaits, NowPlaying!Entry(t, m, now))
    BY <1>1, <1>7, TrackFacts DEF NowPlaying!Plays, TrackEntries
  <2>2. PICK m \in 0 .. sent, awaits \in {"edit", "send"} : NowPlaying!Begin(awaits, NowPlaying!Entry(t, m, now))
    BY <2>1
  <2>3. NowPlaying!Entry(t, m, now) \in TrackEntries /\ NowPlaying!Entry(t, m, now).at = now
    BY <1>1 DEF NowPlaying!Entry, TrackEntries
  <2>4. UNCHANGED <<now, nextPrune, entry>>
    BY <1>7 DEF NowPlaying!Plays
  <2> QED
    BY <1>6, <2>2, <2>3, <2>4
<1>8. ASSUME NEW e \in entry, NowPlaying!Remove(e), UNCHANGED <<now, nextPrune>>
      PROVE  TrackClock'
  <2>1. CASE e.message = 0
    BY <1>8, <2>1 DEF NowPlaying!Remove, TrackClock
  <2>2. CASE e.message # 0
    BY <1>6, <1>8, <2>2, TrackFacts DEF NowPlaying!Remove
  <2> QED
    BY <2>1, <2>2
<1>9. CASE NowPlaying!Stops
  <2>1. UNCHANGED <<now, nextPrune>>
    BY <1>9 DEF NowPlaying!Stops
  <2>2. CASE entry = {}
    BY <1>9, <2>1, <2>2 DEF NowPlaying!Stops, TrackClock
  <2> QED
    BY <1>8, <1>9, <2>1, <2>2 DEF NowPlaying!Stops
<1>10. CASE NowPlaying!Prune
  <2>1. UNCHANGED now /\ nextPrune' = now + TrackInterval
    BY <1>10 DEF NowPlaying!Prune
  <2>2. CASE \E e \in entry : NowPlaying!IsStale(e)
    <3>1. PICK e \in entry : NowPlaying!Remove(e)
      BY <1>10, <2>2 DEF NowPlaying!Prune
    <3>2. entry' = {}
      BY <3>1 DEF NowPlaying!Remove
    <3>3. ASSUME NEW p \in DOMAIN updates', updates'[p].awaits # "delete"
          PROVE  now < updates'[p].entry.at + TrackInterval
      <4>1. CASE e.message = 0
        BY <3>1, <3>3, <4>1 DEF NowPlaying!Remove, TrackClock
      <4>2. CASE e.message # 0
        <5>1. NowPlaying!Begin("delete", e) /\ e \in TrackEntries
          BY <3>1, <4>2, TrackFacts DEF NowPlaying!Remove
        <5>2. /\ DOMAIN updates' = DOMAIN updates \cup {begun + 1}
              /\ \A q \in DOMAIN updates : updates'[q] = updates[q]
              /\ updates'[begun + 1].awaits = "delete"
          BY <5>1, TrackBegins
        <5> QED
          BY <3>3, <5>2 DEF TrackClock
      <4> QED
        BY <4>1, <4>2
    <3> QED
      BY <1>1, <2>1, <3>2, <3>3 DEF TrackClock
  <2>3. CASE \A e \in entry : ~NowPlaying!IsStale(e)
    <3>1. UNCHANGED <<entry, updates>>
      BY <1>10, <2>3 DEF NowPlaying!Prune
    <3>2. \A e \in entry : nextPrune' <= e.at + NowPlaying!Longest + TrackInterval
      BY <1>1, <1>2, <2>1, <2>3 DEF NowPlaying!IsStale
    <3>3. now' <= nextPrune' /\ nextPrune' <= now' + TrackInterval
      BY <1>1, <2>1
    <3> QED
      BY <2>1, <3>1, <3>2, <3>3 DEF TrackClock
  <2> QED
    BY <2>2, <2>3
<1>11. CASE NowPlaying!Tick
  <2>1. /\ now' = now + 1 /\ now < nextPrune /\ UNCHANGED <<entry, updates, nextPrune>>
        /\ \A p \in DOMAIN updates : now' < updates[p].entry.at + TrackInterval \/ updates[p].awaits = "delete"
    BY <1>11 DEF NowPlaying!Tick
  <2>2. now' <= nextPrune' /\ nextPrune' <= now' + TrackInterval
    BY <1>1, <2>1 DEF TrackClock
  <2> QED
    BY <2>1, <2>2 DEF TrackClock
<1>12. ASSUME NEW p \in DOMAIN updates, NowPlaying!Ends(p), UNCHANGED <<now, nextPrune>>,
              \A e \in entry' : e \in entry \/ (e.at = updates[p].entry.at /\ updates[p].awaits # "delete")
       PROVE  TrackClock'
  <2>1. /\ DOMAIN updates' = DOMAIN updates \ {p} /\ \A q \in DOMAIN updates' : updates'[q] = updates[q]
    BY <1>12, TrackEnds
  <2>2. \A e \in entry' : nextPrune <= e.at + NowPlaying!Longest + TrackInterval
    BY <1>4, <1>12 DEF TrackClock
  <2> QED
    BY <1>12, <2>1, <2>2 DEF TrackClock
<1>13. ASSUME NEW p \in DOMAIN updates,
              NowPlaying!Edited(p) \/ NowPlaying!NotSent(p) \/ NowPlaying!Deleted(p)
       PROVE  TrackClock'
  <2>1. UNCHANGED <<now, nextPrune>> /\ NowPlaying!Ends(p)
    BY <1>13 DEF NowPlaying!Edited, NowPlaying!NotSent, NowPlaying!Deleted, NowPlaying!Rest
  <2>2. \A e \in entry' : e \in entry \/ (e = updates[p].entry /\ updates[p].awaits # "delete")
    BY <1>13 DEF NowPlaying!Edited, NowPlaying!NotSent, NowPlaying!Deleted, NowPlaying!At
  <2> QED
    BY <1>12, <2>1, <2>2
<1>14. ASSUME NEW p \in DOMAIN updates, NowPlaying!Sent(p) PROVE TrackClock'
  <2>1. UNCHANGED <<now, nextPrune>> /\ NowPlaying!Ends(p) /\ updates[p].awaits # "delete"
    BY <1>14 DEF NowPlaying!Sent, NowPlaying!Rest, NowPlaying!At
  <2>2. entry' = {[updates[p].entry EXCEPT !.message = sent']}
    BY <1>14 DEF NowPlaying!Sent
  <2>3. [updates[p].entry EXCEPT !.message = sent'].at = updates[p].entry.at
    BY <1>3 DEF TrackEntries
  <2> QED
    BY <1>12, <2>1, <2>2, <2>3
<1>15. ASSUME NEW p \in DOMAIN updates, NowPlaying!EditFails(p) PROVE TrackClock'
  <2>1. UNCHANGED <<now, nextPrune, entry>> /\ updates[p].awaits = "edit"
    BY <1>15 DEF NowPlaying!EditFails, NowPlaying!Rest, NowPlaying!At
  <2> DEFINE new == [updates[p] EXCEPT !.awaits = "send", !.entry.message = 0]
  <2>2. updates' = [updates EXCEPT ![p] = new]
    BY <1>15 DEF NowPlaying!EditFails
  <2>3. updates[p] \in [awaits : {"edit", "send", "delete"}, entry : TrackEntries]
    BY DEF TrackTypes, TrackUpdates
  <2>4. new.entry.at = updates[p].entry.at
    BY <2>3 DEF TrackEntries
  <2> HIDE DEF new
  <2>5. DOMAIN updates' = DOMAIN updates /\ updates'[p] = new
        /\ \A q \in DOMAIN updates : q # p => updates'[q] = updates[q]
    BY <2>2 DEF TrackTypes
  <2>6. \A q \in DOMAIN updates' : updates'[q].entry.at = updates[q].entry.at
    BY <2>4, <2>5
  <2>7. \A q \in DOMAIN updates' : updates[q].awaits # "delete" \/ updates'[q].awaits = "delete"
    BY <2>1, <2>5
  <2> QED
    BY <2>1, <2>5, <2>6, <2>7 DEF TrackClock
<1> QED
  BY <1>5, <1>7, <1>9, <1>10, <1>11, <1>13, <1>14, <1>15 DEF NowPlaying!Next

\* While presences do not overlap and nothing fails, the one embed is the entry's.
LEMMA TrackCalmStep ==
  ASSUME TrackTypes, TrackCalm, NowPlaying!Next
  PROVE  TrackCalm'
<1>1. DOMAIN NowPlaying!Empty = {} /\ \A e, f \in entry : e = f
  BY TrackFacts DEF NowPlaying!Empty
<1>2. ASSUME NowPlaying!Crosses, ~crossed' PROVE ~crossed /\ DOMAIN updates = {}
  BY <1>1, <1>2 DEF NowPlaying!Crosses
<1>3. ASSUME NEW tracks, NowPlaying!Presence(tracks), ~crossed'
      PROVE  ~crossed /\ DOMAIN updates = {} /\ playing' = tracks
  BY <1>2, <1>3 DEF NowPlaying!Presence
<1>4. ASSUME ~crossed, faults = 0, DOMAIN updates = {}
      PROVE  /\ DOMAIN embeds = {e.message : e \in entry}
             /\ \A e \in entry : playing = {e.track} /\ embeds[e.message] = e.track /\ e.message # 0
  <2>1. 0 \notin DOMAIN embeds
    BY DEF TrackTypes, NowPlaying!TypeOK
  <2> QED
    BY <1>4, <2>1 DEF TrackCalm
<1>5. ASSUME NEW awaits \in {"edit", "send", "delete"}, NEW e \in TrackEntries,
             NowPlaying!Begin(awaits, e), DOMAIN updates = {}
      PROVE  DOMAIN updates' = {begun + 1} /\ updates'[begun + 1].awaits = awaits /\ updates'[begun + 1].entry = e
  BY <1>5, TrackBegins
<1>6. ASSUME NEW t \in Tracks, NowPlaying!PlaysOn(t) PROVE TrackCalm'
  <2> SUFFICES ASSUME ~crossed', faults' = 0 PROVE TrackCalm'
    BY DEF TrackCalm
  <2>1. UNCHANGED <<embeds, updates, faults>> /\ NowPlaying!Presence({t}) /\ entry' = {[e EXCEPT !.at = now] : e \in entry}
    BY <1>6 DEF NowPlaying!PlaysOn
  <2>2. PICK e \in entry : e.track = t
    BY <1>6 DEF NowPlaying!PlaysOn
  <2>3. entry = {e} /\ e \in TrackEntries
    BY <1>1, TrackFacts
  <2> DEFINE f == [e EXCEPT !.at = now]
  <2>4. f.track = e.track /\ f.message = e.message /\ entry' = {f}
    BY <2>1, <2>3 DEF TrackEntries
  <2>5. DOMAIN updates = {} /\ ~crossed /\ faults = 0 /\ playing' = {t}
    BY <1>3, <2>1
  <2>6. DOMAIN embeds = {e.message} /\ embeds[e.message] = e.track
    BY <1>4, <2>3, <2>5
  <2> HIDE DEF f
  <2>7. /\ DOMAIN embeds' = {g.message : g \in entry'}
        /\ \A g \in entry' : playing' = {g.track} /\ embeds'[g.message] = g.track
    BY <2>1, <2>2, <2>4, <2>5, <2>6
  <2> QED
    BY <2>1, <2>5, <2>7 DEF TrackCalm
<1>7. ASSUME NEW t \in Tracks, NowPlaying!Plays(t) PROVE TrackCalm'
  <2> SUFFICES ASSUME ~crossed', faults' = 0 PROVE TrackCalm'
    BY DEF TrackCalm
  <2>1. UNCHANGED <<now, entry, embeds, sent, faults>> /\ NowPlaying!Presence({t})
    BY <1>7 DEF NowPlaying!Plays
  <2>2. DOMAIN updates = {} /\ ~crossed /\ faults = 0 /\ playing' = {t}
    BY <1>3, <2>1
  <2>3. \A m \in 0 .. sent : /\ NowPlaying!Entry(t, m, now) \in TrackEntries
                             /\ NowPlaying!Entry(t, m, now).track = t /\ NowPlaying!Entry(t, m, now).message = m
    BY TrackFacts DEF NowPlaying!Entry, TrackEntries
  <2>4. CASE entry = {}
    <3>1. NowPlaying!Begin("send", NowPlaying!Entry(t, 0, now)) /\ 0 \in 0 .. sent
      BY <1>7, <2>4, TrackFacts DEF NowPlaying!Plays
    <3>2. DOMAIN embeds = {}
      BY <1>4, <2>2, <2>4
    <3>3. /\ DOMAIN updates' = {begun + 1} /\ updates'[begun + 1].awaits = "send"
          /\ updates'[begun + 1].entry.track = t /\ updates'[begun + 1].entry.message = 0
      BY <1>5, <2>2, <2>3, <3>1
    <3> QED
      BY <2>1, <2>2, <3>2, <3>3 DEF TrackCalm
  <2>5. CASE entry # {}
    <3>1. PICK e : e \in entry
      BY <2>5
    <3>2. entry = {e} /\ e.message # 0 /\ e.message \in 0 .. sent
      BY <1>1, <1>4, <2>2, <3>1, TrackFacts DEF TrackEntries
    <3>3. {f.message : f \in entry} \ {0} = {e.message}
      BY <3>2
    <3>4. NowPlaying!Begin("edit", NowPlaying!Entry(t, e.message, now))
      BY <1>7, <3>3 DEF NowPlaying!Plays
    <3>5. DOMAIN embeds = {e.message}
      BY <1>4, <2>2, <3>2
    <3>6. /\ DOMAIN updates' = {begun + 1} /\ updates'[begun + 1].awaits = "edit"
          /\ updates'[begun + 1].entry.track = t /\ updates'[begun + 1].entry.message = e.message
      BY <1>5, <2>2, <2>3, <3>2, <3>4
    <3> QED
      BY <2>1, <2>2, <3>5, <3>6 DEF TrackCalm
  <2> QED
    BY <2>4, <2>5
<1>8. ASSUME NEW e \in entry, NowPlaying!Remove(e), ~crossed, faults = 0, DOMAIN updates = {},
             UNCHANGED embeds
      PROVE  TrackCalm'
  <2>1. entry = {e} /\ e.message # 0 /\ DOMAIN embeds = {e.message} /\ e \in TrackEntries
    BY <1>1, <1>4, <1>8, TrackFacts
  <2>2. NowPlaying!Begin("delete", e) /\ entry' = {}
    BY <1>8, <2>1 DEF NowPlaying!Remove
  <2>3. /\ DOMAIN updates' = {begun + 1} /\ updates'[begun + 1].awaits = "delete"
        /\ updates'[begun + 1].entry.message = e.message
    BY <1>5, <1>8, <2>1, <2>2
  <2> QED
    BY <1>8, <2>1, <2>2, <2>3 DEF TrackCalm
<1>9. CASE NowPlaying!Stops
  <2> SUFFICES ASSUME ~crossed', faults' = 0 PROVE TrackCalm'
    BY DEF TrackCalm
  <2>1. UNCHANGED <<embeds, faults>> /\ NowPlaying!Presence({})
    BY <1>9 DEF NowPlaying!Stops
  <2>2. DOMAIN updates = {} /\ ~crossed /\ faults = 0
    BY <1>3, <2>1
  <2>3. CASE entry = {}
    <3>1. UNCHANGED <<entry, updates>>
      BY <1>9, <2>3 DEF NowPlaying!Stops
    <3> QED
      BY <1>4, <2>1, <2>2, <2>3, <3>1 DEF TrackCalm
  <2>4. CASE entry # {}
    BY <1>8, <1>9, <2>1, <2>2, <2>4 DEF NowPlaying!Stops
  <2> QED
    BY <2>3, <2>4
<1>10. CASE NowPlaying!Prune
  <2> SUFFICES ASSUME ~crossed', faults' = 0 PROVE TrackCalm'
    BY DEF TrackCalm
  <2>1. UNCHANGED <<playing, embeds, faults>>
    BY <1>10 DEF NowPlaying!Prune
  <2>2. CASE \E e \in entry : NowPlaying!IsStale(e)
    <3>1. NowPlaying!Crosses /\ \E e \in entry : NowPlaying!Remove(e)
      BY <1>10, <2>2 DEF NowPlaying!Prune
    <3> QED
      BY <1>2, <1>8, <2>1, <3>1
  <2>3. CASE ~\E e \in entry : NowPlaying!IsStale(e)
    <3>1. UNCHANGED <<entry, updates, crossed>>
      BY <1>10, <2>3 DEF NowPlaying!Prune
    <3> QED
      BY <2>1, <3>1 DEF TrackCalm
  <2> QED
    BY <2>2, <2>3
<1>11. CASE NowPlaying!Tick
  BY <1>11 DEF NowPlaying!Tick, TrackCalm
<1>12. ASSUME NEW p \in DOMAIN updates, NowPlaying!Edited(p) PROVE TrackCalm'
  <2> DEFINE e == updates[p].entry
  <2>1. /\ updates[p].awaits = "edit" /\ e.message \in DOMAIN embeds /\ NowPlaying!Ends(p) /\ entry' = {e}
        /\ embeds' = [embeds EXCEPT ![e.message] = e.track] /\ UNCHANGED <<faults, playing, crossed>>
    BY <1>12 DEF NowPlaying!Edited, NowPlaying!At, NowPlaying!Rest
  <2> SUFFICES ASSUME ~crossed, faults = 0 PROVE TrackCalm'
    BY <2>1 DEF TrackCalm
  <2>2. DOMAIN updates = {p} /\ DOMAIN embeds = {e.message} /\ playing = {e.track}
    BY <2>1 DEF TrackCalm
  <2>3. DOMAIN updates' = {}
    BY <2>1, <2>2, TrackEnds
  <2>4. DOMAIN embeds' = {e.message} /\ embeds'[e.message] = e.track
    BY <2>1, <2>2
  <2> HIDE DEF e
  <2> QED
    BY <2>1, <2>2, <2>3, <2>4 DEF TrackCalm
<1>13. ASSUME NEW p \in DOMAIN updates, NowPlaying!Sent(p) PROVE TrackCalm'
  <2> DEFINE e == updates[p].entry
             f == [e EXCEPT !.message = sent']
  <2>1. /\ updates[p].awaits = "send" /\ NowPlaying!Ends(p) /\ entry' = {f}
        /\ embeds' = NowPlaying!Put(embeds, sent', e.track) /\ UNCHANGED <<faults, playing, crossed>>
    BY <1>13 DEF NowPlaying!Sent, NowPlaying!At, NowPlaying!Rest
  <2> SUFFICES ASSUME ~crossed, faults = 0 PROVE TrackCalm'
    BY <2>1 DEF TrackCalm
  <2>2. DOMAIN updates = {p} /\ DOMAIN embeds = {} /\ playing = {e.track}
    BY <2>1 DEF TrackCalm
  <2>3. DOMAIN updates' = {}
    BY <2>1, <2>2, TrackEnds
  <2>4. f.message = sent' /\ f.track = e.track
    BY TrackFacts DEF TrackEntries
  <2> HIDE DEF e, f
  <2>5. DOMAIN embeds' = {sent'} /\ embeds'[sent'] = e.track
    BY <2>1, <2>2 DEF NowPlaying!Put
  <2> QED
    BY <2>1, <2>2, <2>3, <2>4, <2>5 DEF TrackCalm
<1>14. ASSUME NEW p \in DOMAIN updates, NowPlaying!Deleted(p) PROVE TrackCalm'
  <2>1. /\ updates[p].awaits = "delete" /\ NowPlaying!Ends(p) /\ UNCHANGED <<entry, playing, crossed>>
        /\ (NowPlaying!Fault \/ UNCHANGED faults)
        /\ NowPlaying!Fault \/ embeds' = NowPlaying!Without(embeds, updates[p].entry.message)
    BY <1>14 DEF NowPlaying!Deleted, NowPlaying!At, NowPlaying!Rest
  <2> SUFFICES ASSUME ~crossed, faults' = 0 PROVE TrackCalm'
    BY <2>1 DEF TrackCalm
  <2>2. faults = 0 /\ embeds' = NowPlaying!Without(embeds, updates[p].entry.message)
    BY <2>1, TrackFault
  <2>3. DOMAIN updates = {p} /\ DOMAIN embeds = {updates[p].entry.message} /\ entry = {}
    BY <2>1, <2>2 DEF TrackCalm
  <2>4. DOMAIN updates' = {} /\ DOMAIN embeds' = {}
    BY <2>1, <2>2, <2>3, TrackEnds DEF NowPlaying!Without
  <2> QED
    BY <2>1, <2>3, <2>4 DEF TrackCalm
<1>15. ASSUME NEW p \in DOMAIN updates, NowPlaying!EditFails(p) \/ NowPlaying!NotSent(p)
       PROVE  TrackCalm'
  <2>1. UNCHANGED crossed
    BY <1>15 DEF NowPlaying!EditFails, NowPlaying!NotSent, NowPlaying!Rest
  <2> SUFFICES ASSUME ~crossed, faults' = 0 PROVE FALSE
    BY <2>1 DEF TrackCalm
  <2>2. CASE NowPlaying!NotSent(p)
    BY <2>2, TrackFault DEF NowPlaying!NotSent
  <2>3. CASE NowPlaying!EditFails(p)
    <3>1. updates[p].awaits = "edit" /\ (NowPlaying!Fault \/ UNCHANGED faults)
      BY <2>3 DEF NowPlaying!EditFails, NowPlaying!At
    <3>2. faults = 0 /\ ~NowPlaying!Fault
      BY <3>1, TrackFault
    <3>3. updates[p].entry.message \in DOMAIN embeds
      BY <3>1, <3>2 DEF TrackCalm
    <3> QED
      BY <2>3, <3>2, <3>3 DEF NowPlaying!EditFails
  <2> QED
    BY <1>15, <2>2, <2>3
<1> QED
  BY <1>6, <1>7, <1>9, <1>10, <1>11, <1>12, <1>13, <1>14, <1>15 DEF NowPlaying!Next

\* The invariant of the embed is kept.
LEMMA NowPlayingStep ==
  ASSUME NowPlayingInv, NowPlaying!Next \/ UNCHANGED NowPlaying!vars
  PROVE  NowPlayingInv'
<1>1. CASE NowPlaying!Next
  BY <1>1, TrackTypesStep, TrackClockStep, TrackCalmStep DEF NowPlayingInv
<1>2. CASE UNCHANGED NowPlaying!vars
  <2> USE <1>2 DEF NowPlaying!vars, NowPlayingInv
  <2>1. TrackTypes'
    BY DEF TrackTypes, NowPlaying!TypeOK, TrackEntries, TrackUpdates
  <2>2. TrackClock' /\ TrackCalm'
    BY DEF TrackClock, TrackCalm
  <2> QED
    BY <2>1, <2>2
<1> QED
  BY <1>1, <1>2

\* It implies that the embed is current.
LEMMA NowPlayingShows == NowPlayingInv => NowPlaying!EmbedIsCurrent
<1> SUFFICES ASSUME NowPlayingInv PROVE NowPlaying!EmbedIsCurrent
  OBVIOUS
<1>1. ASSUME ~crossed, faults = 0, updates = NowPlaying!Empty
      PROVE  /\ DOMAIN embeds = {e.message : e \in entry}
             /\ \A e \in entry : playing = {e.track} /\ embeds[e.message] = e.track
  <2>1. DOMAIN updates = {}
    BY <1>1 DEF NowPlaying!Empty
  <2> QED
    BY <1>1, <2>1 DEF NowPlayingInv, TrackCalm
<1>2. ASSUME NEW e \in entry PROVE now - e.at <= NowPlaying!Longest + TrackInterval
  <2>1. e.at \in Nat /\ {now, nextPrune, NowPlaying!Longest, TrackInterval} \subseteq Nat
    BY TrackFacts, TrackConstants DEF NowPlayingInv, TrackEntries, NowPlaying!Longest
  <2>2. now <= nextPrune /\ nextPrune <= e.at + NowPlaying!Longest + TrackInterval
    BY DEF NowPlayingInv, TrackClock
  <2> QED
    BY <2>1, <2>2
<1> QED
  BY <1>1, <1>2 DEF NowPlaying!EmbedIsCurrent
=============================================================================
