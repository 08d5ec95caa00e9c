------------------------ MODULE FeatureFiles_proofs ------------------------
(***************************************************************************)
(* The features that keep a file: birthdays, announcements, the calendar   *)
(* cache, the configuration and the archive of snapshots.  For each, an    *)
(* invariant that its steps keep and that implies what it promises.        *)
(***************************************************************************)
EXTENDS Features, FiniteSetTheorems, WellFoundedInduction, SequenceTheorems, TLAPS

\* A set of numbers has a least one.
LEMMA Least == ASSUME NEW S, S \subseteq Nat, S # {} PROVE \E x \in S : \A y \in S : x <= y
<1> DEFINE R == OpToRel(<, Nat)
<1>1. IsWellFoundedOn(R, Nat)
  BY NatLessThanWellFounded
<1>2. \A x, y \in Nat : y < x => <<y, x>> \in R
  BY DEF OpToRel
<1> HIDE DEF R
<1>3. PICK x \in S : \A y \in S : ~ (<<y, x>> \in R)
  BY <1>1, WFMin
<1>4. ASSUME NEW y \in S PROVE x <= y
  <2>1. x \in Nat /\ y \in Nat
    OBVIOUS
  <2>2. ~ (y < x)
    BY <1>2, <1>3, <2>1
  <2> QED
    BY <2>1, <2>2
<1> QED
  BY <1>4

-----------------------------------------------------------------------------
(* Birthdays.                                                              *)

\* The year has days, and the bounds are numbers.
LEMMA BirthdayConstants ==
  /\ YearLength \in Nat \ {0} /\ {LastDay, MaxCommands, MaxStarts["birthday"], MaxFaults["birthday"]} \subseteq Nat
BY FeaturesAssumption DEF Birthday!BirthdayAssumption

\* Every day of the clock has a date of the year.
LEMMA BirthdayDates == \A d \in Nat : Birthday!DateOf(d) \in Birthday!Dates
BY BirthdayConstants DEF Birthday!DateOf, Birthday!Dates

\* A registration leaves a registry a registry.
LEMMA BirthdayPut ==
  ASSUME NEW f \in Birthday!Registries, NEW u \in Members, NEW x \in Birthday!Dates
  PROVE  Birthday!Put(f, u, x) \in Birthday!Registries
<1>1. PICK us \in SUBSET Members : f \in [us -> Birthday!Dates]
  BY DEF Birthday!Registries
<1>2. Birthday!Put(f, u, x) \in [us \cup {u} -> Birthday!Dates]
  BY <1>1 DEF Birthday!Put
<1> QED
  BY <1>2 DEF Birthday!Registries

\* So does a removal.
LEMMA BirthdayWithout ==
  ASSUME NEW f \in Birthday!Registries, NEW u \in Members
  PROVE  Birthday!Without(f, u) \in Birthday!Registries
<1>1. PICK us \in SUBSET Members : f \in [us -> Birthday!Dates]
  BY DEF Birthday!Registries
<1>2. Birthday!Without(f, u) \in [us \ {u} -> Birthday!Dates]
  BY <1>1 DEF Birthday!Without
<1> QED
  BY <1>2 DEF Birthday!Registries

\* No registration at all is a registry.
LEMMA BirthdayEmpty == Birthday!Empty \in Birthday!Registries
<1>1. Birthday!Empty \in [{} -> Birthday!Dates]
  BY DEF Birthday!Empty
<1> QED
  BY <1>1 DEF Birthday!Registries

\* A registry gives members dates.
LEMMA BirthdayDomain ==
  ASSUME NEW f \in Birthday!Registries
  PROVE  DOMAIN f \subseteq Members /\ \A u \in DOMAIN f : f[u] \in Birthday!Dates
BY DEF Birthday!Registries

\* A command saves what it loaded with its own user's date changed, or without it.
BirthdayChanges ==
  \A u \in DOMAIN commandsOpen :
    LET c == commandsOpen[u]
    IN  c.next = IF u \in DOMAIN c.next THEN Birthday!Put(c.base, u, c.next[u]) ELSE Birthday!Without(c.base, u)

\* The role of a member of whom the loop has not lost sight belongs to the
\* registration on this date; when the timer is due, to that of the day before.
BirthdayRoles ==
  LET date == Birthday!DateOf(IF phase = "asleep" /\ wakeDay = day THEN day - 1 ELSE day)
  IN  \A u \in role \ strayed :
        IF phase = "removing" THEN u \in todo ELSE u \in DOMAIN Birthday!Birthdays /\ Birthday!Birthdays[u] = date

BirthdayInv ==
  /\ Birthday!TypeOK /\ Birthday!RegisteredIsSaved
  /\ phase = "asleep" => wakeDay \in {day, day + 1} /\ wakeDay # 0
  /\ BirthdayChanges /\ BirthdayRoles

\* The invariant holds at the start.
LEMMA BirthdayStarts == Birthday!Init => BirthdayInv
<1> SUFFICES ASSUME Birthday!Init PROVE BirthdayInv
  OBVIOUS
<1>1. DOMAIN Birthday!Empty = {} /\ registry.kind = "missing" /\ registry.dates = Birthday!Empty
  BY DEF Birthday!Init, Birthday!Empty
<1>2. {commands, starts, faults} \subseteq Nat /\ day \in 0 .. LastDay /\ wakeDay \in 0 .. LastDay + 1
  BY BirthdayConstants DEF Birthday!Init
<1>3. Birthday!TypeOK
  BY <1>1, <1>2, BirthdayEmpty DEF Birthday!Init, Birthday!TypeOK
<1> QED
  BY <1>1, <1>3 DEF Birthday!Init, BirthdayInv, Birthday!RegisteredIsSaved, BirthdayChanges,
     BirthdayRoles, Birthday!Birthdays

\* Every step of the feature keeps its types.
LEMMA BirthdayTypeStep ==
  ASSUME Birthday!TypeOK, Birthday!RegisteredIsSaved,
         phase = "asleep" => wakeDay \in {day, day + 1}, Birthday!Next
  PROVE  Birthday!TypeOK'
<1> USE DEF Birthday!store, Birthday!loop, Birthday!Command, Birthday!Fault, Birthday!Forgets,
        Birthday!Save, Birthday!Running, Birthday!Birthdays
<1>1. ASSUME NEW u \in Members, Birthday!CommandSaves(u) PROVE Birthday!TypeOK'
  <2>1. /\ u \in DOMAIN commandsOpen /\ commandsOpen[u].next \in Birthday!Registries
        /\ registry' = [kind |-> "ok", dates |-> commandsOpen[u].next]
        /\ lost' = (lost \/ commandsOpen[u].base # Birthday!Birthdays)
    BY <1>1 DEF Birthday!CommandSaves, Birthday!TypeOK
  <2>2. registry'.kind = "ok" /\ registry'.dates \in Birthday!Registries
    BY <2>1
  <2>3. DOMAIN commandsOpen' = DOMAIN commandsOpen \ {u} /\ \A v \in DOMAIN commandsOpen' : commandsOpen'[v] = commandsOpen[v]
    BY <1>1 DEF Birthday!CommandSaves, Birthday!Without
  <2>4. told' \in Birthday!Registries
    <3>1. CASE lost'
      BY <1>1, <3>1, BirthdayEmpty DEF Birthday!CommandSaves
    <3>2. CASE ~lost' /\ u \in DOMAIN commandsOpen[u].next
      <4>1. commandsOpen[u].next[u] \in Birthday!Dates /\ told \in Birthday!Registries
        BY <2>1, <3>2, BirthdayDomain DEF Birthday!TypeOK
      <4>2. told' = Birthday!Put(told, u, commandsOpen[u].next[u])
        BY <1>1, <3>2 DEF Birthday!CommandSaves
      <4> QED
        BY <4>1, <4>2, BirthdayPut
    <3>3. CASE ~lost' /\ u \notin DOMAIN commandsOpen[u].next
      <4>1. told' = Birthday!Without(told, u) /\ told \in Birthday!Registries
        BY <1>1, <3>3 DEF Birthday!CommandSaves, Birthday!TypeOK
      <4> QED
        BY <4>1, BirthdayWithout
    <3> QED
      BY <3>1, <3>2, <3>3
  <2>5. lost' \in BOOLEAN
    BY <2>1 DEF Birthday!TypeOK
  <2>6. UNCHANGED <<day, consent, role, Birthday!loop, skipped, commands, starts, faults>> /\ strayed' \subseteq Members
    BY <1>1 DEF Birthday!CommandSaves, Birthday!TypeOK
  <2> QED
    BY <2>2, <2>3, <2>4, <2>5, <2>6 DEF Birthday!TypeOK
<1>2. ASSUME NEW u \in Members, NEW next \in Birthday!Registries, Birthday!Command,
             commandsOpen' = Birthday!Put(commandsOpen, u, [next |-> next, base |-> Birthday!Birthdays]),
             UNCHANGED <<day, consent, Birthday!store, role, Birthday!loop, strayed, skipped, starts, faults>>
      PROVE  Birthday!TypeOK'
  <2>1. \A v \in DOMAIN commandsOpen' :
          IF v = u THEN commandsOpen'[v] = [next |-> next, base |-> Birthday!Birthdays]
                   ELSE v \in DOMAIN commandsOpen /\ commandsOpen'[v] = commandsOpen[v]
    BY <1>2 DEF Birthday!Put
  <2>2. \A v \in DOMAIN commandsOpen' : {commandsOpen'[v].next, commandsOpen'[v].base} \subseteq Birthday!Registries
    BY <2>1 DEF Birthday!TypeOK
  <2>3. DOMAIN commandsOpen' \subseteq Members
    BY <1>2 DEF Birthday!Put, Birthday!TypeOK
  <2> QED
    BY <1>2, <2>2, <2>3 DEF Birthday!TypeOK
<1>3. ASSUME NEW u \in Members, Birthday!RemoveBegin(u) PROVE Birthday!TypeOK'
  <2>1. Birthday!Without(Birthday!Birthdays, u) \in Birthday!Registries
    BY BirthdayWithout DEF Birthday!TypeOK
  <2> QED
    BY <1>2, <1>3, <2>1 DEF Birthday!RemoveBegin
<1>4. ASSUME NEW u \in Members, NEW d \in Birthday!Dates, Birthday!SetBegin(u, d)
      PROVE  Birthday!TypeOK'
  <2>1. Birthday!Put(Birthday!Birthdays, u, d) \in Birthday!Registries
    BY BirthdayPut DEF Birthday!TypeOK
  <2> QED
    BY <1>2, <1>4, <2>1 DEF Birthday!SetBegin
<1>5. ASSUME NEW u \in Members, Birthday!ForgetUser(u) PROVE Birthday!TypeOK'
  <2>1. Birthday!Without(Birthday!Birthdays, u) \in Birthday!Registries /\ Birthday!Without(told, u) \in Birthday!Registries
    BY BirthdayWithout DEF Birthday!TypeOK
  <2>2. registry'.kind = "ok" /\ registry'.dates \in Birthday!Registries
    BY <1>5, <2>1 DEF Birthday!ForgetUser
  <2> QED
    BY <1>5, <2>1, <2>2 DEF Birthday!ForgetUser, Birthday!TypeOK
<1>6. ASSUME NEW u \in Members, Birthday!ChangeConsent(u) PROVE Birthday!TypeOK'
  BY <1>6 DEF Birthday!ChangeConsent, Birthday!TypeOK
<1>7. CASE Birthday!DamageFile
  <2>1. registry'.kind = "damaged" /\ registry'.dates \in Birthday!Registries /\ told' \in Birthday!Registries
    BY <1>7, BirthdayEmpty DEF Birthday!DamageFile
  <2> QED
    BY <1>7, <2>1 DEF Birthday!DamageFile, Birthday!TypeOK
<1>8. CASE Birthday!Start
  BY <1>8, BirthdayConstants DEF Birthday!Start, Birthday!Schedule, Birthday!TypeOK
<1>9. CASE Birthday!Stop
  BY <1>9, BirthdayConstants DEF Birthday!Stop, Birthday!TypeOK
<1>10. CASE Birthday!NextDay
  BY <1>10, BirthdayConstants DEF Birthday!NextDay, Birthday!TypeOK
<1>11. ASSUME NEW d \in Birthday!Dates PROVE Birthday!On(d) \subseteq Members
  BY BirthdayDomain DEF Birthday!On, Birthday!TypeOK
<1>12. CASE Birthday!Loop
  <2>1. CASE Birthday!BeginTick
    <3>1. Birthday!On(Birthday!DateOf(day - 1)) \subseteq Members
      BY BirthdayDomain DEF Birthday!On, Birthday!TypeOK
    <3> QED
      BY <2>1, <3>1 DEF Birthday!BeginTick, Birthday!TypeOK
  <2>2. CASE Birthday!RemovalDone
    <3>1. Birthday!On(Birthday!DateOf(day)) \subseteq Members
      BY BirthdayDomain DEF Birthday!On, Birthday!TypeOK
    <3> QED
      BY <2>2, <3>1 DEF Birthday!RemovalDone, Birthday!TypeOK
  <2>3. CASE Birthday!TickDone
    BY <2>3, BirthdayConstants DEF Birthday!TickDone, Birthday!Schedule, Birthday!TypeOK
  <2>4. ASSUME NEW u \in Members, Birthday!TakeRole(u) \/ Birthday!TakeFails(u)
        PROVE  Birthday!TypeOK'
    BY <2>4 DEF Birthday!TakeRole, Birthday!TakeFails, Birthday!TypeOK
  <2>5. ASSUME NEW u \in Members, Birthday!GiveRole(u) \/ Birthday!GiveFails(u)
        PROVE  Birthday!TypeOK'
    BY <2>5 DEF Birthday!GiveRole, Birthday!GiveFails, Birthday!TypeOK
  <2> QED
    BY <1>12, <2>1, <2>2, <2>3, <2>4, <2>5 DEF Birthday!Loop
<1> QED
  BY <1>1, <1>3, <1>4, <1>5, <1>6, <1>7, <1>8, <1>9, <1>10, <1>12 DEF Birthday!Next,
     Birthday!Together

\* What a registration and a removal leave of the one entry.
LEMMA BirthdayUpdate ==
  ASSUME NEW f, NEW u, NEW x
  PROVE  /\ u \in DOMAIN Birthday!Put(f, u, x) /\ Birthday!Put(f, u, x)[u] = x
         /\ u \notin DOMAIN Birthday!Without(f, u)
BY DEF Birthday!Put, Birthday!Without

\* What a command will save is what it loaded with its own change.
LEMMA BirthdayChangesStep ==
  ASSUME Birthday!TypeOK, BirthdayChanges, Birthday!Next
  PROVE  BirthdayChanges'
<1> USE DEF BirthdayChanges
<1>1. ASSUME NEW u \in Members, Birthday!CommandSaves(u) PROVE BirthdayChanges'
  BY <1>1 DEF Birthday!CommandSaves, Birthday!Without
<1>2. ASSUME NEW u \in Members, NEW next,
             next = IF u \in DOMAIN next THEN Birthday!Put(Birthday!Birthdays, u, next[u]) ELSE Birthday!Without(Birthday!Birthdays, u),
             commandsOpen' = Birthday!Put(commandsOpen, u, [next |-> next, base |-> Birthday!Birthdays])
      PROVE  BirthdayChanges'
  <2>1. \A v \in DOMAIN commandsOpen' :
          IF v = u THEN commandsOpen'[v] = [next |-> next, base |-> Birthday!Birthdays]
                   ELSE v \in DOMAIN commandsOpen /\ commandsOpen'[v] = commandsOpen[v]
    BY <1>2 DEF Birthday!Put
  <2> SUFFICES ASSUME NEW v \in DOMAIN commandsOpen'
               PROVE  LET c == commandsOpen'[v]
                      IN  c.next = IF v \in DOMAIN c.next THEN Birthday!Put(c.base, v, c.next[v]) ELSE Birthday!Without(c.base, v)
    OBVIOUS
  <2>2. CASE v = u
    <3>1. commandsOpen'[v].next = next /\ commandsOpen'[v].base = Birthday!Birthdays
      BY <2>1, <2>2
    <3> QED
      BY <3>1, <2>2, <1>2
  <2>3. CASE v # u
    BY <2>1, <2>3
  <2> QED
    BY <2>2, <2>3
<1>3. ASSUME NEW u \in Members, Birthday!RemoveBegin(u) PROVE BirthdayChanges'
  BY <1>3, <1>2, BirthdayUpdate DEF Birthday!RemoveBegin
<1>4. ASSUME NEW u \in Members, NEW d \in Birthday!Dates, Birthday!SetBegin(u, d)
      PROVE  BirthdayChanges'
  <2>1. /\ u \in DOMAIN Birthday!Put(Birthday!Birthdays, u, d) /\ Birthday!Put(Birthday!Birthdays, u, d)[u] = d
        /\ commandsOpen' = Birthday!Put(commandsOpen, u, [next |-> Birthday!Put(Birthday!Birthdays, u, d), base |-> Birthday!Birthdays])
    BY <1>4, BirthdayUpdate DEF Birthday!SetBegin
  <2> QED
    BY <2>1, <1>2
<1>5. ASSUME UNCHANGED commandsOpen PROVE BirthdayChanges'
  BY <1>5
<1>6. CASE Birthday!Loop
  BY <1>6, <1>5 DEF Birthday!Loop, Birthday!BeginTick, Birthday!RemovalDone, Birthday!TickDone,
     Birthday!TakeRole, Birthday!TakeFails, Birthday!GiveRole, Birthday!GiveFails
<1>7. CASE Birthday!NextDay \/ Birthday!Start \/ Birthday!Stop \/ Birthday!DamageFile
  BY <1>7, <1>5 DEF Birthday!NextDay, Birthday!Start, Birthday!Stop, Birthday!DamageFile
<1>8. ASSUME NEW u \in Members, Birthday!ForgetUser(u) \/ Birthday!ChangeConsent(u)
      PROVE  BirthdayChanges'
  BY <1>8, <1>5 DEF Birthday!ForgetUser, Birthday!ChangeConsent
<1> QED
  BY <1>1, <1>3, <1>4, <1>6, <1>7, <1>8 DEF Birthday!Next, Birthday!Together

\* No step takes what a member was told out of the registry.
LEMMA BirthdaySavedStep ==
  ASSUME Birthday!TypeOK, BirthdayChanges, Birthday!RegisteredIsSaved, Birthday!Next
  PROVE  Birthday!RegisteredIsSaved'
<1> USE DEF Birthday!RegisteredIsSaved, Birthday!Birthdays, Birthday!Save
<1>1. ASSUME NEW u \in Members, Birthday!CommandSaves(u) PROVE Birthday!RegisteredIsSaved'
  <2> DEFINE next == commandsOpen[u].next
  <2> SUFFICES ASSUME ~lost' PROVE told' = registry'.dates
    OBVIOUS
  <2>1. u \in DOMAIN commandsOpen /\ registry' = [kind |-> "ok", dates |-> next]
    BY <1>1 DEF Birthday!CommandSaves
  <2>2. ~lost /\ commandsOpen[u].base = Birthday!Birthdays
    BY <1>1 DEF Birthday!CommandSaves
  <2>3. next = IF u \in DOMAIN next THEN Birthday!Put(told, u, next[u]) ELSE Birthday!Without(told, u)
    BY <2>1, <2>2 DEF BirthdayChanges
  <2>4. told' = IF u \in DOMAIN next THEN Birthday!Put(told, u, next[u]) ELSE Birthday!Without(told, u)
    BY <1>1 DEF Birthday!CommandSaves
  <2>5. registry'.dates = next
    BY <2>1
  <2> QED
    BY <2>3, <2>4, <2>5
<1>2. ASSUME NEW u \in Members, Birthday!ForgetUser(u) PROVE Birthday!RegisteredIsSaved'
  BY <1>2 DEF Birthday!ForgetUser
<1>3. ASSUME UNCHANGED Birthday!store PROVE Birthday!RegisteredIsSaved'
  BY <1>3 DEF Birthday!store
<1>4. CASE Birthday!Loop
  BY <1>4, <1>3 DEF Birthday!Loop, Birthday!BeginTick, Birthday!RemovalDone, Birthday!TickDone,
     Birthday!TakeRole, Birthday!TakeFails, Birthday!GiveRole, Birthday!GiveFails
<1>5. CASE Birthday!NextDay \/ Birthday!Start \/ Birthday!Stop
  BY <1>5, <1>3 DEF Birthday!NextDay, Birthday!Start, Birthday!Stop
<1>6. CASE Birthday!DamageFile
  BY <1>6 DEF Birthday!DamageFile
<1>7. ASSUME NEW u \in Members,
             Birthday!ChangeConsent(u) \/ Birthday!RemoveBegin(u) \/ \E d \in Birthday!Dates : Birthday!SetBegin(u, d)
      PROVE  Birthday!RegisteredIsSaved'
  BY <1>7, <1>3 DEF Birthday!ChangeConsent, Birthday!RemoveBegin, Birthday!SetBegin
<1> QED
  BY <1>1, <1>2, <1>4, <1>5, <1>6, <1>7 DEF Birthday!Next, Birthday!Together

\* The midnight loop leaves no role it can tell is out of date.
LEMMA BirthdayRolesStep ==
  ASSUME Birthday!TypeOK, phase = "asleep" => wakeDay \in {day, day + 1}, BirthdayRoles,
         Birthday!Next
  PROVE  BirthdayRoles'
<1> USE DEF BirthdayRoles
<1>1. ASSUME NEW dates, registry'.dates = dates, Birthday!Forgets(dates), UNCHANGED <<day, role,
             Birthday!loop>>
      PROVE  BirthdayRoles'
  BY <1>1 DEF Birthday!loop, Birthday!Forgets, Birthday!Birthdays
<1>2. ASSUME NEW u \in Members, Birthday!CommandSaves(u) PROVE BirthdayRoles'
  <2>1. registry'.dates = commandsOpen[u].next
    BY <1>2 DEF Birthday!CommandSaves, Birthday!Save
  <2> QED
    BY <2>1, <1>1, <1>2 DEF Birthday!CommandSaves
<1>3. ASSUME NEW u \in Members, Birthday!ForgetUser(u) PROVE BirthdayRoles'
  <2>1. registry'.dates = Birthday!Without(Birthday!Birthdays, u)
    BY <1>3 DEF Birthday!ForgetUser, Birthday!Save
  <2> QED
    BY <2>1, <1>1, <1>3 DEF Birthday!ForgetUser
<1>4. ASSUME NEW u \in Members,
             Birthday!ChangeConsent(u) \/ Birthday!RemoveBegin(u) \/ \E d \in Birthday!Dates : Birthday!SetBegin(u, d)
      PROVE  BirthdayRoles'
  <2>1. UNCHANGED <<day, Birthday!store, role, Birthday!loop, strayed>>
    BY <1>4 DEF Birthday!ChangeConsent, Birthday!RemoveBegin, Birthday!SetBegin
  <2> QED
    BY <2>1 DEF Birthday!loop, Birthday!store, Birthday!Birthdays
<1>5. CASE Birthday!DamageFile
  <2>1. role' \ strayed' = {}
    BY <1>5 DEF Birthday!DamageFile
  <2> QED
    BY <2>1
<1>6. CASE Birthday!Start
  BY <1>6 DEF Birthday!Start, Birthday!Schedule, Birthday!store, Birthday!Birthdays,
     Birthday!TypeOK
<1>7. CASE Birthday!Stop
  <2>1. UNCHANGED <<day, registry, role>> /\ phase' = "down" /\ strayed \subseteq strayed'
    BY <1>7 DEF Birthday!Stop, Birthday!store
  <2>2. CASE phase = "removing"
    <3>1. strayed' = strayed \cup (role \cap todo)
      BY <1>7, <2>2 DEF Birthday!Stop
    <3> QED
      BY <2>1, <2>2, <3>1
  <2>3. CASE phase = "asleep" /\ wakeDay = day
    <3>1. strayed' = strayed \cup (role \cap role)
      BY <1>7, <2>3 DEF Birthday!Stop
    <3> QED
      BY <2>1, <3>1
  <2>4. CASE phase # "removing" /\ ~(phase = "asleep" /\ wakeDay = day)
    BY <2>1, <2>4 DEF Birthday!Birthdays
  <2> QED
    BY <2>2, <2>3, <2>4
<1>8. CASE Birthday!NextDay
  <2>1. UNCHANGED <<registry, role, phase, wakeDay, todo>> /\ day' = day + 1 /\ day \in Nat
    BY <1>8 DEF Birthday!NextDay, Birthday!store, Birthday!loop, Birthday!TypeOK
  <2>2. CASE phase = "down"
    BY <1>8, <2>1, <2>2 DEF Birthday!NextDay
  <2>3. CASE phase = "asleep" /\ wakeDay > day
    <3>1. wakeDay' = day' /\ day' - 1 = day /\ wakeDay # day /\ strayed' = strayed /\ phase' = "asleep"
      BY <1>8, <2>1, <2>3 DEF Birthday!NextDay
    <3> QED
      BY <2>1, <2>3, <3>1 DEF Birthday!Birthdays
  <2> QED
    BY <1>8, <2>2, <2>3 DEF Birthday!NextDay
<1>9. CASE Birthday!BeginTick
  BY <1>9 DEF Birthday!BeginTick, Birthday!store, Birthday!Birthdays, Birthday!On
<1>10. CASE Birthday!RemovalDone
  BY <1>10 DEF Birthday!RemovalDone
<1>11. CASE Birthday!TickDone
  BY <1>11 DEF Birthday!TickDone, Birthday!Schedule, Birthday!store, Birthday!Birthdays,
     Birthday!TypeOK
<1>12. ASSUME NEW u \in Members, Birthday!TakeRole(u) \/ Birthday!TakeFails(u)
       PROVE  BirthdayRoles'
  BY <1>12 DEF Birthday!TakeRole, Birthday!TakeFails
<1>13. ASSUME NEW u \in Members, Birthday!GiveRole(u) PROVE BirthdayRoles'
  <2>1. UNCHANGED <<day, registry, phase>> /\ phase = "giving"
    BY <1>13 DEF Birthday!GiveRole, Birthday!store
  <2>2. SUFFICES ASSUME NEW v \in role' \ strayed'
                 PROVE  v \in DOMAIN Birthday!Birthdays /\ Birthday!Birthdays[v] = Birthday!DateOf(day)
    BY <2>1 DEF Birthday!Birthdays
  <2>3. CASE v \in role \ strayed
    BY <2>1, <2>3
  <2>4. CASE v \notin role \ strayed
    BY <1>13, <2>2, <2>4 DEF Birthday!GiveRole, Birthday!On
  <2> QED
    BY <2>3, <2>4
<1>14. ASSUME NEW u \in Members, Birthday!GiveFails(u) PROVE BirthdayRoles'
  BY <1>14 DEF Birthday!GiveFails, Birthday!store, Birthday!Birthdays
<1> QED
  BY <1>2, <1>3, <1>4, <1>5, <1>6, <1>7, <1>8, <1>9, <1>10, <1>11, <1>12, <1>13, <1>14 DEF
     Birthday!Next, Birthday!Together, Birthday!Loop

\* The loop sleeps until this midnight or the next.
LEMMA BirthdayClockStep ==
  ASSUME Birthday!TypeOK, phase = "asleep" => wakeDay \in {day, day + 1} /\ wakeDay # 0,
         Birthday!Next
  PROVE  (phase = "asleep" => wakeDay \in {day, day + 1} /\ wakeDay # 0)'
<1>1. ASSUME UNCHANGED <<day, Birthday!loop>>
      PROVE  (phase = "asleep" => wakeDay \in {day, day + 1} /\ wakeDay # 0)'
  BY <1>1 DEF Birthday!loop
<1>2. ASSUME NEW u \in Members,
             \/ Birthday!CommandSaves(u) \/ Birthday!RemoveBegin(u) \/ Birthday!ForgetUser(u) \/ Birthday!ChangeConsent(u) \/ \E d \in Birthday!Dates : Birthday!SetBegin(u, d)
      PROVE  UNCHANGED <<day, Birthday!loop>>
  BY <1>2 DEF Birthday!CommandSaves, Birthday!RemoveBegin, Birthday!ForgetUser,
     Birthday!ChangeConsent, Birthday!SetBegin
<1>3. CASE Birthday!NextDay
  BY <1>3 DEF Birthday!NextDay, Birthday!loop, Birthday!TypeOK
<1>4. CASE Birthday!Loop
  BY <1>4 DEF Birthday!Loop, Birthday!BeginTick, Birthday!RemovalDone, Birthday!TickDone,
     Birthday!TakeRole, Birthday!TakeFails, Birthday!GiveRole, Birthday!GiveFails,
     Birthday!Schedule, Birthday!TypeOK
<1>5. CASE Birthday!Start \/ Birthday!Stop \/ Birthday!DamageFile
  BY <1>5, <1>1 DEF Birthday!Start, Birthday!Stop, Birthday!DamageFile, Birthday!Schedule,
     Birthday!TypeOK
<1> QED
  BY <1>1, <1>2, <1>3, <1>4, <1>5 DEF Birthday!Next, Birthday!Together

\* The invariant of the birthdays is kept.
LEMMA BirthdayStep ==
  ASSUME BirthdayInv, Birthday!Next \/ UNCHANGED Birthday!vars
  PROVE  BirthdayInv'
<1>1. CASE Birthday!Next
  BY <1>1, BirthdayTypeStep, BirthdayChangesStep, BirthdaySavedStep, BirthdayRolesStep,
     BirthdayClockStep DEF BirthdayInv
<1>2. CASE UNCHANGED Birthday!vars
  <2> SUFFICES Birthday!TypeOK' /\ Birthday!RegisteredIsSaved' /\ BirthdayChanges' /\ BirthdayRoles'
               /\ (phase = "asleep" => wakeDay \in {day, day + 1} /\ wakeDay # 0)'
    BY DEF BirthdayInv
  <2> USE <1>2 DEF Birthday!vars, Birthday!store, Birthday!loop, BirthdayInv
  <2>1. Birthday!TypeOK'
    BY DEF Birthday!TypeOK
  <2>2. Birthday!RegisteredIsSaved' /\ BirthdayChanges' /\ (phase = "asleep" => wakeDay \in {day, day + 1} /\ wakeDay # 0)'
    BY DEF Birthday!RegisteredIsSaved, BirthdayChanges, Birthday!Birthdays
  <2>3. BirthdayRoles'
    BY DEF BirthdayRoles, Birthday!Birthdays
  <2> QED
    BY <2>1, <2>2, <2>3
<1> QED
  BY <1>1, <1>2

\* It implies that the role ends with the day.
LEMMA BirthdayShows == BirthdayInv => Birthday!RoleEndsWithTheDay
<1> SUFFICES ASSUME BirthdayInv, phase = "asleep", wakeDay > day, NEW u \in role \ strayed
             PROVE  u \in DOMAIN Birthday!Birthdays /\ Birthday!Birthdays[u] = Birthday!DateOf(day)
  BY DEF Birthday!RoleEndsWithTheDay
<1>1. wakeDay # day
  BY DEF BirthdayInv, Birthday!TypeOK
<1> QED
  BY <1>1 DEF BirthdayInv, BirthdayRoles

-----------------------------------------------------------------------------
\* Lengths and delays are positive, bounds are numbers.
LEMMA AnnouncementsNumbers ==
  /\ DayLength \in Nat \ {0} /\ WeekDays \in Nat \ {0} /\ Recheck \in Nat \ {0}
  /\ MaxDelay \in Nat \ {0} /\ RetryDelay \in Nat \ {0}
  /\ NumEntries \in Nat /\ LastTime["announcements"] \in Nat /\ MaxStarts["announcements"] \in Nat /\ MaxFaults["announcements"] \in Nat
<1>1. Announcements!AnnouncementsAssumption
  BY FeaturesAssumption
<1> QED
  BY <1>1 DEF Announcements!AnnouncementsAssumption

-----------------------------------------------------------------------------
(* The arithmetic of days and weeks.                                       *)

\* Division with a remainder, as the provers need it.
LEMMA Divided ==
  ASSUME NEW n \in Nat, NEW length \in Nat \ {0}
  PROVE  /\ n \div length \in Nat /\ n % length \in 0 .. length - 1
         /\ n = (n \div length) * length + (n % length)
<1>1. n \div length \in Nat /\ n % length \in 0 .. length - 1
  BY SMTT(30)
<1>2. n = (n \div length) * length + (n % length)
  BY SMTT(30)
<1> QED
  BY <1>1, <1>2

\* A remainder is found again from the quotient.
LEMMA Remainder ==
  ASSUME NEW q \in Nat, NEW length \in Nat \ {0}, NEW r \in 0 .. length - 1
  PROVE  (q * length + r) % length = r
<1>1. q * length \in Nat
  OBVIOUS
<1> QED
  BY <1>1, SMTT(30)

\* Multiplication by a length keeps an order.
LEMMA MoreTimes ==
  ASSUME NEW length \in Nat \ {0}, NEW a \in Int, NEW b \in Int, a <= b
  PROVE  a * length <= b * length
BY SMTT(30)

\* Two days of the week: how many days from the one to the other.
LEMMA DaysAhead ==
  ASSUME NEW days \in Nat \ {0}, NEW u \in 0 .. days - 1, NEW a \in 0 .. days - 1
  PROVE  (a + days - u) % days = IF a >= u THEN a - u ELSE a + days - u
<1>1. CASE a >= u
  <2>1. a - u \in 0 .. days - 1 /\ a + days - u = 1 * days + (a - u)
    BY <1>1
  <2>2. (1 * days + (a - u)) % days = a - u
    BY <2>1, Remainder
  <2> QED
    BY <1>1, <2>1, <2>2
<1>2. CASE a < u
  <2>1. a + days - u \in 0 .. days - 1 /\ a + days - u = 0 * days + (a + days - u)
    BY <1>2
  <2>2. (0 * days + (a + days - u)) % days = a + days - u
    BY <2>1, Remainder
  <2> QED
    BY <1>2, <2>1, <2>2
<1> QED
  BY <1>1, <1>2

\* A week is whole days, at least one.
LEMMA WeekIs == Announcements!Week \in Nat \ {0} /\ Announcements!Week = WeekDays * DayLength /\ DayLength <= Announcements!Week
<1> USE AnnouncementsNumbers
<1>1. Announcements!Week = WeekDays * DayLength
  BY DEF Announcements!Week
<1>2. WeekDays * DayLength \in Nat
  OBVIOUS
<1>3. 1 * DayLength <= WeekDays * DayLength
  BY MoreTimes
<1>4. 1 * DayLength = DayLength
  OBVIOUS
<1> QED
  BY <1>1, <1>2, <1>3, <1>4

\* The time of a weekly entry that comes next.
LEMMA NextWeeklyIs ==
  ASSUME NEW given, given.at \in 0 .. Announcements!Week - 1, NEW t \in Nat
  PROVE  /\ Announcements!NextWeekly(given, t) \in Nat /\ Announcements!NextWeekly(given, t) > t
         /\ Announcements!NextWeekly(given, t) <= t + Announcements!Week
         /\ \E q \in Nat : Announcements!NextWeekly(given, t) = q * Announcements!Week + given.at
<1> USE AnnouncementsNumbers
<1> DEFINE D == DayLength
           K == WeekDays
           at == given.at
           today == t \div D
           a == at \div D
           r == at % D
           u == today % K
           c == today \div K
           ahead == (a + K - u) % K
           candidate == (today + ahead) * D + r
           x == Announcements!NextWeekly(given, t)
<1>1. x = IF ahead = 0 /\ candidate <= t THEN candidate + Announcements!Week ELSE candidate
  BY DEF Announcements!NextWeekly
<1>2. D \in Nat \ {0} /\ K \in Nat \ {0} /\ Announcements!Week \in Nat /\ Announcements!Week = K * D /\ D <= Announcements!Week /\ at \in Nat /\ at < Announcements!Week
  BY WeekIs
<1>3. a \in Nat /\ r \in 0 .. D - 1 /\ at = a * D + r
  BY <1>2, Divided
<1>4. today \in Nat /\ today * D <= t /\ t < today * D + D
  <2> DEFINE w == t % D
  <2>1. today \in Nat /\ w \in 0 .. D - 1 /\ t = today * D + w
    BY <1>2, Divided
  <2> HIDE DEF today, w
  <2>2. today * D \in Nat
    BY <1>2, <2>1
  <2> QED
    BY <1>2, <2>1, <2>2
<1> HIDE DEF today, a, r, x, D, K, at
<1>5. u \in 0 .. K - 1 /\ c \in Nat /\ today = c * K + u
  BY <1>2, <1>4, Divided
<1> HIDE DEF u, c
<1>6. a < K
  <2> SUFFICES ASSUME a >= K PROVE FALSE
    BY <1>2, <1>3
  <2>1. K * D <= a * D
    BY <1>2, <1>3, MoreTimes
  <2>2. a * D \in Nat
    BY <1>2, <1>3
  <2> QED
    BY <1>2, <1>3, <2>1, <2>2
<1>7. ahead = IF a >= u THEN a - u ELSE a + K - u
  BY <1>2, <1>3, <1>5, <1>6, DaysAhead
<1> HIDE DEF ahead
<1>8. ahead \in 0 .. K - 1
  BY <1>2, <1>3, <1>5, <1>6, <1>7
<1>9. PICK p \in Nat : today + ahead = p * K + a
  <2>1. CASE a >= u
    <3>1. today + ahead = c * K + a
      <4>1. c * K \in Nat
        BY <1>2, <1>5
      <4> QED
        BY <1>2, <1>3, <1>5, <1>7, <2>1, <4>1
    <3> QED
      BY <1>5, <3>1
  <2>2. CASE a < u
    <3>1. today + ahead = c * K + K + a
      <4>1. c * K \in Nat
        BY <1>2, <1>5
      <4> QED
        BY <1>2, <1>3, <1>5, <1>7, <2>2, <4>1
    <3>2. (c + 1) * K = c * K + K
      BY <1>2, <1>5
    <3>3. c + 1 \in Nat
      BY <1>5
    <3> QED
      BY <3>1, <3>2, <3>3
  <2> QED
    BY <1>3, <1>5, <2>1, <2>2
\* It is that time of some week.
<1>10. candidate = p * Announcements!Week + at
  <2>1. (today + ahead) * D = (p * K + a) * D
    BY <1>9
  <2>2. (p * K + a) * D = p * (K * D) + a * D
    BY <1>2, <1>3
  <2>3. p * (K * D) \in Nat /\ a * D \in Nat
    BY <1>2, <1>3
  <2> QED
    BY <1>2, <1>3, <2>1, <2>2, <2>3
<1>11. p * Announcements!Week \in Nat /\ (p + 1) * Announcements!Week = p * Announcements!Week + Announcements!Week
  BY <1>2
\* It is not past, and not a week ahead.
<1>12. today * D \in Nat /\ ahead * D \in Nat /\ (today + ahead) * D = today * D + ahead * D
  BY <1>2, <1>4, <1>8
<1>13. ahead = 0 => ahead * D = 0
  BY <1>2
<1>14. ahead # 0 => ahead * D >= D
  <2> SUFFICES ASSUME ahead # 0 PROVE ahead * D >= D
    OBVIOUS
  <2>1. 1 * D <= ahead * D
    BY <1>2, <1>8, MoreTimes
  <2> QED
    BY <1>2, <1>12, <2>1
<1>15. ahead * D <= Announcements!Week - D
  <2>1. ahead * D <= (K - 1) * D
    BY <1>2, <1>8, MoreTimes
  <2>2. (K - 1) * D = K * D - D
    BY <1>2
  <2>3. (K - 1) * D \in Int
    BY <1>2
  <2> QED
    BY <1>2, <1>12, <2>1, <2>2, <2>3
<1> DEFINE n == today * D
           m == ahead * D
<1>16. /\ n \in Nat /\ m \in Nat /\ candidate = n + m + r /\ n <= t /\ t < n + D
       /\ (ahead = 0 => m = 0) /\ (ahead # 0 => m >= D) /\ m <= Announcements!Week - D
  BY <1>3, <1>4, <1>12, <1>13, <1>14, <1>15
<1> HIDE DEF n, m, candidate
<1>17. CASE ahead = 0 /\ candidate <= t
  <2>1. x = candidate + Announcements!Week
    BY <1>1, <1>17
  <2>2. x = (p + 1) * Announcements!Week + at /\ p + 1 \in Nat
    BY <1>2, <1>10, <1>11, <2>1
  <2>3. candidate \in Nat /\ x > t /\ x <= t + Announcements!Week
    BY <1>2, <1>3, <1>16, <1>17, <2>1
  <2>4. x \in Nat
    BY <1>2, <2>1, <2>3
  <2> QED
    BY <2>2, <2>3, <2>4 DEF x, at
<1>18. CASE ~(ahead = 0 /\ candidate <= t)
  <2>1. x = candidate
    BY <1>1, <1>18
  <2>2. candidate \in Nat /\ candidate > t /\ candidate <= t + Announcements!Week
    BY <1>2, <1>3, <1>16, <1>18
  <2> QED
    BY <1>10, <2>1, <2>2 DEF x, at
<1> QED
  BY <1>17, <1>18

\* The next time of a weekly entry is one of its times, and none lies between.
LEMMA NextWeeklyIsNext ==
  ASSUME NEW given, given.at \in 0 .. Announcements!Week - 1, NEW t \in Nat
  PROVE  /\ Announcements!NextWeekly(given, t) % Announcements!Week = given.at
         /\ \A y \in Nat : y > t /\ y % Announcements!Week = given.at => Announcements!NextWeekly(given, t) <= y
<1> USE WeekIs
<1> DEFINE x == Announcements!NextWeekly(given, t)
           at == given.at
<1>1. x \in Nat /\ x > t /\ x <= t + Announcements!Week
  BY NextWeeklyIs
<1>2. PICK q \in Nat : x = q * Announcements!Week + at
  BY NextWeeklyIs
<1>3. at \in 0 .. Announcements!Week - 1
  OBVIOUS
<1> HIDE DEF x, at
<1>4. x % Announcements!Week = at
  BY <1>2, <1>3, Remainder
<1>5. ASSUME NEW y \in Nat, y > t, y % Announcements!Week = at PROVE x <= y
  <2> DEFINE p == y \div Announcements!Week
  <2>1. p \in Nat /\ y = p * Announcements!Week + at
    BY <1>5, Divided
  <2> HIDE DEF p
  <2> SUFFICES ASSUME y < x PROVE FALSE
    BY <1>1
  <2>2. p * Announcements!Week \in Nat /\ q * Announcements!Week \in Nat
    BY <2>1
  <2>3. p < q
    <3> SUFFICES ASSUME q <= p PROVE FALSE
      BY <2>1
    <3>1. q * Announcements!Week <= p * Announcements!Week
      BY <2>1, MoreTimes
    <3> QED
      BY <1>2, <1>3, <2>1, <2>2, <3>1
  <2>4. (p + 1) * Announcements!Week <= q * Announcements!Week
    BY <2>1, <2>3, MoreTimes
  <2>5. (p + 1) * Announcements!Week = p * Announcements!Week + Announcements!Week
    BY <2>1
  <2> QED
    BY <1>1, <1>2, <1>3, <1>5, <2>1, <2>2, <2>4, <2>5
<1> QED
  BY <1>4, <1>5 DEF x, at

-----------------------------------------------------------------------------
(* What is scheduled.                                                      *)

\* What an entry of the configuration consists of.
LEMMA ConfigurationTyped ==
  ASSUME NEW es \in Announcements!Configurations, NEW e \in Announcements!Names
  PROVE  /\ es[e] \in Announcements!EntryRecords /\ es[e].oneShot \in BOOLEAN /\ es[e].enabled \in BOOLEAN
         /\ es[e].at \in Nat /\ es[e].at <= LastTime["announcements"]
         /\ ~es[e].oneShot => es[e].at \in 0 .. Announcements!Week - 1
<1>1. es[e] \in [oneShot : BOOLEAN, at : 0 .. LastTime["announcements"], enabled : BOOLEAN]
  BY DEF Announcements!Configurations, Announcements!EntryRecords
<1>2. es[e].oneShot \/ es[e].at < Announcements!Week
  BY DEF Announcements!Configurations
<1>3. es[e].at \in 0 .. LastTime["announcements"] /\ LastTime["announcements"] \in Nat /\ Announcements!Week \in Nat
  BY <1>1, AnnouncementsNumbers, WeekIs
<1>4. ~es[e].oneShot => es[e].at \in 0 .. Announcements!Week - 1
  <2> SUFFICES ASSUME es[e].at < Announcements!Week
               PROVE  es[e].at \in 0 .. Announcements!Week - 1
    BY <1>2
  <2> QED
    BY <1>3
<1> QED
  BY <1>1, <1>3, <1>4 DEF Announcements!EntryRecords

\* The times of an entry: the next one is the first of them.
LEMMA NextFireTimeIs ==
  ASSUME NEW es \in Announcements!Configurations, NEW e \in Announcements!Names, NEW t \in Nat
  PROVE  /\ \A x \in Announcements!NextFireTime(es[e], t) : x \in Nat /\ x > t /\ Announcements!IsTime(es[e], x)
         /\ \A y \in Nat : y > t /\ es[e].enabled /\ Announcements!IsTime(es[e], y) =>
              \E x \in Announcements!NextFireTime(es[e], t) : x <= y
<1> DEFINE given == es[e]
<1>1. /\ given.oneShot \in BOOLEAN /\ given.enabled \in BOOLEAN /\ given.at \in Nat
      /\ ~given.oneShot => given.at \in 0 .. Announcements!Week - 1
  BY ConfigurationTyped
<1> HIDE DEF given
<1>2. CASE ~given.enabled
  <2>1. Announcements!NextFireTime(given, t) = {}
    BY <1>2 DEF Announcements!NextFireTime
  <2> QED
    BY <1>2, <2>1 DEF given
<1>3. CASE given.enabled /\ given.oneShot
  <2>1. Announcements!NextFireTime(given, t) = IF given.at <= t THEN {} ELSE {given.at}
    BY <1>3 DEF Announcements!NextFireTime
  <2>2. \A y : Announcements!IsTime(given, y) <=> y = given.at
    BY <1>3 DEF Announcements!IsTime
  <2>3. CASE given.at <= t
    <3>1. Announcements!NextFireTime(given, t) = {}
      BY <2>1, <2>3
    <3>2. \A y \in Nat : ~(y > t /\ Announcements!IsTime(given, y))
      BY <1>1, <2>2, <2>3
    <3> QED
      BY <3>1, <3>2 DEF given
  <2>4. CASE ~(given.at <= t)
    <3>1. Announcements!NextFireTime(given, t) = {given.at}
      BY <2>1, <2>4
    <3>2. given.at > t /\ given.at <= given.at
      BY <1>1, <2>4
    <3> QED
      BY <1>1, <2>2, <3>1, <3>2 DEF given
  <2> QED
    BY <2>3, <2>4
<1>4. CASE given.enabled /\ ~given.oneShot
  <2> DEFINE x == Announcements!NextWeekly(given, t)
  <2>1. Announcements!NextFireTime(given, t) = {x}
    BY <1>4 DEF Announcements!NextFireTime
  <2>2. given.at \in 0 .. Announcements!Week - 1
    BY <1>1, <1>4
  <2>3. x \in Nat /\ x > t
    BY <2>2, NextWeeklyIs
  <2>4. x % Announcements!Week = given.at /\ \A y \in Nat : y > t /\ y % Announcements!Week = given.at => x <= y
    BY <2>2, NextWeeklyIsNext
  <2> HIDE DEF x
  <2>5. \A y : Announcements!IsTime(given, y) <=> y % Announcements!Week = given.at
    BY <1>4 DEF Announcements!IsTime
  <2> QED
    BY <2>1, <2>3, <2>4, <2>5 DEF given
<1> QED
  BY <1>1, <1>2, <1>3, <1>4

\* The earliest of some times is one of them and no later than any.
LEMMA EarliestIs ==
  ASSUME NEW fires, fires # {}, fires \subseteq [at : Nat, entry : Announcements!Names]
  PROVE  /\ Announcements!Earliest(fires) \in fires
         /\ \A g \in fires : Announcements!Earliest(fires).at <= g.at
<1> DEFINE times == {f.at : f \in fires}
<1>1. times \subseteq Nat /\ times # {}
  OBVIOUS
<1>2. PICK x \in times : \A y \in times : x <= y
  BY <1>1, Least
<1>3. PICK f0 \in fires : x = f0.at
  OBVIOUS
<1> DEFINE first == {f.entry : f \in {g \in fires : g.at = x}}
<1>4. first \subseteq Nat /\ first # {}
  <2>1. \A f \in fires : f.entry \in Nat
    BY DEF Announcements!Names
  <2> QED
    BY <1>3, <2>1
<1>5. PICK e \in first : \A d \in first : e <= d
  BY <1>4, Least
<1>6. PICK f \in fires : f.at = x /\ f.entry = e
  OBVIOUS
<1>7. \A g \in fires : f.at < g.at \/ (f.at = g.at /\ f.entry <= g.entry)
  <2> SUFFICES ASSUME NEW g \in fires PROVE f.at < g.at \/ (f.at = g.at /\ f.entry <= g.entry)
    OBVIOUS
  <2>1. x <= g.at /\ x \in Nat /\ g.at \in Nat
    BY <1>1, <1>2
  <2>2. g.at = x => e <= g.entry
    BY <1>5
  <2> QED
    BY <1>6, <2>1, <2>2
<1> DEFINE n == Announcements!Earliest(fires)
<1>8. n \in fires /\ \A g \in fires : n.at < g.at \/ (n.at = g.at /\ n.entry <= g.entry)
  BY <1>7, Zenon DEF Announcements!Earliest
<1> HIDE DEF n
<1>9. \A g \in fires : n.at <= g.at
  <2> SUFFICES ASSUME NEW g \in fires PROVE n.at <= g.at
    OBVIOUS
  <2>1. n.at \in Nat /\ g.at \in Nat
    BY <1>8
  <2> QED
    BY <1>8, <2>1
<1> QED
  BY <1>8, <1>9 DEF n

\* Nothing is due between now and the timer, nor when the timer only waits.
NothingDue(es, t, s) ==
  \A e \in Announcements!Names, y \in Nat :
    y > t /\ (y < s.at \/ (s.entry = 0 /\ y = s.at)) /\ es[e].enabled => ~Announcements!IsTime(es[e], y)

\* The timer is set for a time of its entry, and nothing is due before.
LEMMA ScheduleNextIs ==
  ASSUME NEW es \in Announcements!Configurations, NEW t \in Nat
  PROVE  /\ Announcements!ScheduleNext(es, t) \in [at : Nat, entry : 0 .. NumEntries]
         /\ Announcements!ScheduleNext(es, t).at > t
         /\ Announcements!ScheduleNext(es, t).entry # 0 =>
              Announcements!IsTime(es[Announcements!ScheduleNext(es, t).entry], Announcements!ScheduleNext(es, t).at)
         /\ NothingDue(es, t, Announcements!ScheduleNext(es, t))
<1> USE AnnouncementsNumbers
<1> DEFINE fires == Announcements!Fires(es, t)
           next == Announcements!Earliest(fires)
           s == Announcements!ScheduleNext(es, t)
<1>1. ASSUME NEW f \in fires
      PROVE  /\ f \in [at : Nat, entry : Announcements!Names] /\ f.at > t /\ Announcements!IsTime(es[f.entry], f.at)
  <2>1. PICK e \in Announcements!Names : \E x \in Announcements!NextFireTime(es[e], t) : f = [at |-> x, entry |-> e]
    BY DEF Announcements!Fires
  <2>2. PICK x \in Announcements!NextFireTime(es[e], t) : f = [at |-> x, entry |-> e]
    BY <2>1
  <2>3. x \in Nat /\ x > t /\ Announcements!IsTime(es[e], x)
    BY NextFireTimeIs
  <2>4. f.at = x /\ f.entry = e
    BY <2>2
  <2> QED
    BY <2>2, <2>3, <2>4
<1>2. ASSUME NEW e \in Announcements!Names, NEW y \in Nat, y > t, es[e].enabled,
             Announcements!IsTime(es[e], y)
      PROVE  \E f \in fires : f.at <= y
  <2>1. PICK x \in Announcements!NextFireTime(es[e], t) : x <= y
    BY <1>2, NextFireTimeIs
  <2>2. [at |-> x, entry |-> e] \in fires
    BY DEF Announcements!Fires
  <2> QED
    BY <2>1, <2>2
<1>3. s = CASE fires = {} -> [at |-> t + Recheck, entry |-> 0]
            [] fires # {} /\ next.at - t > MaxDelay -> [at |-> t + MaxDelay, entry |-> 0]
            [] OTHER -> next
  BY DEF Announcements!ScheduleNext
<1> HIDE DEF fires, s, next
<1>4. CASE fires = {}
  <2>1. s = [at |-> t + Recheck, entry |-> 0]
    BY <1>3, <1>4
  <2>2. s \in [at : Nat, entry : 0 .. NumEntries] /\ s.at > t /\ s.entry = 0
    BY <2>1
  <2>3. NothingDue(es, t, s)
    BY <1>2, <1>4 DEF NothingDue
  <2> QED
    BY <2>2, <2>3 DEF s
<1>5. CASE fires # {}
  <2>1. fires \subseteq [at : Nat, entry : Announcements!Names]
    BY <1>1
  <2>2. next \in fires /\ \A g \in fires : next.at <= g.at
    BY <1>5, <2>1, EarliestIs DEF next
  <2>3. next \in [at : Nat, entry : Announcements!Names] /\ next.at > t /\ Announcements!IsTime(es[next.entry], next.at)
    BY <1>1, <2>2
  <2>4. ASSUME NEW e \in Announcements!Names, NEW y \in Nat, y > t, es[e].enabled,
               Announcements!IsTime(es[e], y)
        PROVE  next.at <= y
    <3>1. PICK f \in fires : f.at <= y
      BY <1>2, <2>4
    <3>2. next.at <= f.at /\ f.at \in Nat /\ next.at \in Nat
      BY <2>1, <2>2
    <3> QED
      BY <3>1, <3>2
  <2>5. CASE next.at - t > MaxDelay
    <3>1. s = [at |-> t + MaxDelay, entry |-> 0]
      BY <1>3, <1>5, <2>5
    <3>2. s \in [at : Nat, entry : 0 .. NumEntries] /\ s.at > t /\ s.entry = 0 /\ s.at = t + MaxDelay
      BY <3>1
    <3>3. next.at \in Nat /\ s.at < next.at
      BY <2>3, <2>5, <3>2
    <3>4. NothingDue(es, t, s)
      <4> SUFFICES ASSUME NEW e \in Announcements!Names, NEW y \in Nat, y > t,
                          y < s.at \/ (s.entry = 0 /\ y = s.at),
                          es[e].enabled, Announcements!IsTime(es[e], y)
                   PROVE  FALSE
        BY DEF NothingDue
      <4>1. next.at <= y
        BY <2>4
      <4> QED
        BY <3>2, <3>3, <4>1
    <3> QED
      BY <3>2, <3>4 DEF s
  <2>6. CASE ~(next.at - t > MaxDelay)
    <3>1. s = next
      BY <1>3, <1>5, <2>6
    <3>2. s \in [at : Nat, entry : 0 .. NumEntries] /\ s.entry # 0
      BY <2>3, <3>1 DEF Announcements!Names
    <3>3. NothingDue(es, t, s)
      <4> SUFFICES ASSUME NEW e \in Announcements!Names, NEW y \in Nat, y > t,
                          y < s.at \/ (s.entry = 0 /\ y = s.at),
                          es[e].enabled, Announcements!IsTime(es[e], y)
                   PROVE  FALSE
        BY DEF NothingDue
      <4>1. next.at <= y /\ y < s.at /\ s.at \in Nat
        BY <2>4, <3>2
      <4> QED
        BY <3>1, <4>1
    <3> QED
      BY <2>3, <3>1, <3>2, <3>3 DEF s
  <2> QED
    BY <2>5, <2>6
<1> QED
  BY <1>4, <1>5

-----------------------------------------------------------------------------
(* The invariant: what the timer waits for, and that all before it was     *)
(* attempted or fell into an announcement.                                 *)

TimerSet ==
  /\ timer \in [at : Nat, entry : 0 .. NumEntries]
  /\ firing \in [entry : 0 .. NumEntries, attempt : 0 .. 2, at : Nat]
  /\ now <= LastTime["announcements"] /\ since <= now
  /\ ~up => timer = Announcements!None /\ firing = Announcements!Idle
  /\ up => (timer = Announcements!None <=> firing # Announcements!Idle)
  /\ firing # Announcements!Idle => firing.entry # 0
  /\ timer # Announcements!None => now <= timer.at
  /\ \A d \in done : d[2] <= now /\ (timer.entry # 0 => d[2] < timer.at)

SameTimes == \A e \in Announcements!Names : entries[e].at = entriesFile[e].at /\ entries[e].oneShot = entriesFile[e].oneShot

AtItsTimes ==
  /\ \A d \in done : Announcements!IsTime(entries[d[1]], d[2])
  /\ timer.entry # 0 => Announcements!IsTime(entries[timer.entry], timer.at)

Covered(last) ==
  \A e \in Announcements!Names, t \in since + 1 .. LastTime["announcements"] :
    t <= last /\ entries[e].enabled /\ Announcements!IsTime(entries[e], t) => <<e, t>> \in done \/ t \in busy

CoveredSoFar ==
  up => IF timer = Announcements!None THEN Covered(now)
        ELSE IF timer.entry = 0 THEN Covered(timer.at)
        ELSE Covered(timer.at - 1)

AnnouncementsInv ==
  /\ Announcements!TypeOK /\ TimerSet /\ SameTimes /\ AtItsTimes /\ CoveredSoFar
  /\ ~twice

\* The invariant implies that announcements come in turn.
LEMMA AnnouncementsShows == AnnouncementsInv => Announcements!EachInTurn
<1> SUFFICES ASSUME AnnouncementsInv PROVE Announcements!EachInTurn
  OBVIOUS
<1>1. ~twice /\ \A d \in done : Announcements!IsTime(entries[d[1]], d[2])
  BY DEF AnnouncementsInv, AtItsTimes
<1>2. ASSUME up, NEW e \in Announcements!Names,
             NEW t \in since + 1 .. LastTime["announcements"],
             t < now, entries[e].enabled, Announcements!IsTime(entries[e], t)
      PROVE  <<e, t>> \in done \/ t \in busy
  <2>1. t \in Nat /\ now \in Nat /\ timer.at \in Nat /\ (timer # Announcements!None => now <= timer.at)
    <3>1. {now, since} \subseteq Nat /\ LastTime["announcements"] \in Nat
      BY AnnouncementsNumbers DEF AnnouncementsInv, Announcements!TypeOK
    <3>2. timer.at \in Nat /\ (timer # Announcements!None => now <= timer.at)
      BY DEF AnnouncementsInv, Announcements!TypeOK, TimerSet
    <3> QED
      BY <3>1, <3>2
  <2>2. Covered(now) \/ (timer # Announcements!None /\ (Covered(timer.at) \/ Covered(timer.at - 1)))
    BY <1>2 DEF AnnouncementsInv, CoveredSoFar
  <2>3. t <= now /\ (timer # Announcements!None => t <= timer.at /\ t <= timer.at - 1)
    BY <1>2, <2>1
  <2> QED
    BY <1>2, <2>2, <2>3 DEF Covered
<1> QED
  BY <1>1, <1>2 DEF Announcements!EachInTurn

\* It holds at the start.
LEMMA AnnouncementsStarts == Announcements!Init => AnnouncementsInv
<1> SUFFICES ASSUME Announcements!Init PROVE AnnouncementsInv
  OBVIOUS
<1> USE AnnouncementsNumbers
<1>1. /\ now = 0 /\ since = 0 /\ done = {} /\ busy = {} /\ starts = 0 /\ faults = 0
      /\ timer = Announcements!None /\ firing = Announcements!Idle /\ entriesFile \in Announcements!Configurations /\ entries = entriesFile
  BY DEF Announcements!Init
<1>2. up = FALSE /\ torn = FALSE /\ twice = FALSE
  BY DEF Announcements!Init
<1>3. timer \in [at : Nat, entry : 0 .. NumEntries] /\ timer.entry = 0 /\ timer.at = 0
  BY <1>1 DEF Announcements!None
<1>4. firing \in [entry : 0 .. NumEntries, attempt : 0 .. 2, at : Nat]
  BY <1>1 DEF Announcements!Idle
<1>5. firing.entry = 0 /\ firing.attempt = 0 /\ firing.at = 0
  BY <1>1 DEF Announcements!Idle
<1>6. {now, since, starts, faults} \subseteq Nat /\ now <= LastTime["announcements"] /\ since <= now
  BY <1>1
<1>7. Announcements!TypeOK
  <2>1. up \in BOOLEAN /\ torn \in BOOLEAN /\ twice \in BOOLEAN
    BY <1>2
  <2>2. done \subseteq Announcements!Names \X (0 .. LastTime["announcements"]) /\ busy \subseteq 0 .. LastTime["announcements"]
    BY <1>1
  <2>3. timer.at \in Nat /\ timer.entry \in 0 .. NumEntries
    BY <1>3
  <2>4. firing.entry \in 0 .. NumEntries /\ firing.attempt \in 0 .. 2 /\ firing.at \in Nat
    BY <1>5
  <2> QED
    BY <1>1, <1>6, <2>1, <2>2, <2>3, <2>4, Zenon DEF Announcements!TypeOK
<1>8. TimerSet
  BY <1>1, <1>2, <1>3, <1>4, <1>6 DEF TimerSet
<1>9. SameTimes /\ AtItsTimes /\ CoveredSoFar
  BY <1>1, <1>2, <1>3 DEF SameTimes, AtItsTimes, CoveredSoFar
<1> QED
  BY <1>2, <1>7, <1>8, <1>9 DEF AnnouncementsInv

\* The timer is set again, the entries being es.
LEMMA Rescheduled ==
  ASSUME Announcements!TypeOK, TimerSet, up', NEW es \in Announcements!Configurations,
         entries' = es,
         timer' = Announcements!ScheduleNext(es, now), firing' = Announcements!Idle,
         UNCHANGED <<now, done, busy>>, NEW from \in Nat, since' = from, from <= now,
         \A e \in Announcements!Names : es[e].at = entries[e].at /\ es[e].oneShot = entries[e].oneShot,
         \A d \in done : Announcements!IsTime(entries[d[1]], d[2]),
         \A e \in Announcements!Names, t \in from + 1 .. LastTime["announcements"] :
           t <= now /\ es[e].enabled /\ Announcements!IsTime(es[e], t) => <<e, t>> \in done \/ t \in busy
  PROVE  TimerSet' /\ AtItsTimes' /\ CoveredSoFar'
<1> USE AnnouncementsNumbers
<1>0. PICK s : s = Announcements!ScheduleNext(es, now)
  OBVIOUS
<1>1. now \in Nat /\ now <= LastTime["announcements"] /\ (\A d \in done : d[2] <= now) /\ done \subseteq Announcements!Names \X (0 .. LastTime["announcements"])
  BY DEF Announcements!TypeOK, TimerSet
<1>2. /\ s \in [at : Nat, entry : 0 .. NumEntries] /\ s.at > now
      /\ s.entry # 0 => Announcements!IsTime(es[s.entry], s.at)
      /\ NothingDue(es, now, s)
  BY <1>0, <1>1, ScheduleNextIs
<1>3. timer' = s
  BY <1>0
<1>4. s.at \in Nat /\ s # Announcements!None
  BY <1>1, <1>2 DEF Announcements!None
<1>5. TimerSet'
  <2>1. Announcements!Idle \in [entry : 0 .. NumEntries, attempt : 0 .. 2, at : Nat]
    BY DEF Announcements!Idle
  <2>2. now <= s.at /\ \A d \in done : d[2] <= now /\ d[2] < s.at
    <3>1. \A d \in done : d[2] \in Nat
      BY <1>1
    <3> QED
      BY <1>1, <1>2, <1>4, <3>1
  <2>3. timer'.entry # 0 => timer'.entry # 0
    OBVIOUS
  <2> QED
    BY <1>1, <1>2, <1>3, <1>4, <2>1, <2>2 DEF TimerSet
<1>6. AtItsTimes'
  <2>1. ASSUME NEW d \in done PROVE Announcements!IsTime(es[d[1]], d[2])
    <3>1. d[1] \in Announcements!Names /\ Announcements!IsTime(entries[d[1]], d[2])
      BY <1>1
    <3> QED
      BY <3>1 DEF Announcements!IsTime
  <2> QED
    BY <1>2, <1>3, <2>1 DEF AtItsTimes
<1>7. CoveredSoFar'
  <2>1. ASSUME NEW e \in Announcements!Names, NEW t \in from + 1 .. LastTime["announcements"],
               es[e].enabled, Announcements!IsTime(es[e], t),
               t <= s.at, t = s.at => s.entry = 0
        PROVE  <<e, t>> \in done \/ t \in busy
    <3>1. t \in Nat
      OBVIOUS
    <3>2. CASE t <= now
      BY <2>1, <3>2
    <3>3. CASE t > now
      <4>1. t < s.at \/ (s.entry = 0 /\ t = s.at)
        BY <2>1, <3>1, <1>4
      <4> QED
        BY <1>2, <2>1, <3>1, <3>3, <4>1 DEF NothingDue
    <3> QED
      BY <3>1, <3>2, <3>3, <1>1
  <2>2. CASE s.entry = 0
    <3>1. Covered(s.at)'
      BY <2>1, <2>2, <1>3 DEF Covered
    <3> QED
      BY <1>3, <1>4, <2>2, <3>1 DEF CoveredSoFar
  <2>3. CASE s.entry # 0
    <3>1. ASSUME NEW e \in Announcements!Names, NEW t \in from + 1 .. LastTime["announcements"],
                 es[e].enabled, Announcements!IsTime(es[e], t),
                 t <= s.at - 1
          PROVE  <<e, t>> \in done \/ t \in busy
      <4>1. t <= s.at /\ t # s.at
        BY <3>1, <1>4
      <4> QED
        BY <2>1, <3>1, <4>1
    <3>2. Covered(s.at - 1)'
      BY <3>1, <1>3 DEF Covered
    <3> QED
      BY <1>3, <1>4, <2>3, <3>2 DEF CoveredSoFar
  <2> QED
    BY <2>2, <2>3
<1> QED
  BY <1>5, <1>6, <1>7

\* One entry of a configuration is disabled.
Disabled(es, e) == [es EXCEPT ![e].enabled = FALSE]

\* Disabling an entry changes no time and enables none.
LEMMA DisabledConfiguration ==
  ASSUME NEW es \in Announcements!Configurations, NEW e \in Announcements!Names
  PROVE  /\ Disabled(es, e) \in Announcements!Configurations
         /\ \A d \in Announcements!Names : /\ Disabled(es, e)[d].at = es[d].at
                             /\ Disabled(es, e)[d].oneShot = es[d].oneShot
         /\ \A d \in Announcements!Names : Disabled(es, e)[d].enabled => es[d].enabled
<1> DEFINE left == Disabled(es, e)
<1>0. left = [es EXCEPT ![e].enabled = FALSE]
  BY DEF Disabled
<1> HIDE DEF left
<1>1. es \in [Announcements!Names -> [oneShot : BOOLEAN, at : 0 .. LastTime["announcements"], enabled : BOOLEAN]]
  BY DEF Announcements!Configurations, Announcements!EntryRecords
<1>2. \A d \in Announcements!Names : es[d].oneShot \/ es[d].at < Announcements!Week
  BY DEF Announcements!Configurations
<1> DEFINE r == [es[e] EXCEPT !.enabled = FALSE]
<1>3. /\ r \in [oneShot : BOOLEAN, at : 0 .. LastTime["announcements"], enabled : BOOLEAN]
      /\ r.at = es[e].at /\ r.oneShot = es[e].oneShot /\ r.enabled = FALSE
  BY <1>1
<1>4. left = [es EXCEPT ![e] = r]
  BY <1>0, <1>1
<1> HIDE DEF r
<1>5. left \in [Announcements!Names -> [oneShot : BOOLEAN, at : 0 .. LastTime["announcements"], enabled : BOOLEAN]]
  BY <1>1, <1>3, <1>4
<1>6. left[e] = r /\ \A d \in Announcements!Names : d # e => left[d] = es[d]
  BY <1>1, <1>4
<1>7. \A d \in Announcements!Names : left[d].at = es[d].at /\ left[d].oneShot = es[d].oneShot
  BY <1>3, <1>6
<1>8. \A d \in Announcements!Names : left[d].enabled => es[d].enabled
  <2> SUFFICES ASSUME NEW d \in Announcements!Names, left[d].enabled PROVE es[d].enabled
    OBVIOUS
  <2>1. CASE d = e
    BY <1>3, <1>6, <2>1
  <2>2. CASE d # e
    BY <1>6, <2>2
  <2> QED
    BY <2>1, <2>2
<1>9. \A d \in Announcements!Names : left[d].oneShot \/ left[d].at < Announcements!Week
  <2> SUFFICES ASSUME NEW d \in Announcements!Names
               PROVE  left[d].oneShot \/ left[d].at < Announcements!Week
    OBVIOUS
  <2>1. left[d].at = es[d].at /\ left[d].oneShot = es[d].oneShot
    BY <1>7
  <2> QED
    BY <1>2, <2>1
<1>10. left \in Announcements!Configurations
  BY <1>5, <1>9, Zenon DEF Announcements!Configurations, Announcements!EntryRecords
<1> QED
  BY <1>7, <1>8, <1>10, Zenon DEF left

\* The end of a post keeps the invariant, whether it was delivered or given up.
LEMMA FinishStep ==
  ASSUME AnnouncementsInv, Announcements!Sending, Announcements!Finish,
         faults' \in {faults, faults + 1}
  PROVE  AnnouncementsInv'
<1> USE AnnouncementsNumbers
<1>1. Announcements!TypeOK /\ TimerSet /\ SameTimes /\ AtItsTimes /\ CoveredSoFar /\ ~twice
  BY DEF AnnouncementsInv
<1> DEFINE e == firing.entry
<1>2. up /\ firing # Announcements!Idle /\ e \in Announcements!Names /\ timer = Announcements!None
  BY <1>1 DEF Announcements!Sending, TimerSet, Announcements!Names
<1> HIDE DEF e
<1>3. PICK left : left = IF entries[e].oneShot THEN [entries EXCEPT ![e].enabled = FALSE] ELSE entries
  OBVIOUS
<1>4. /\ entries' = left
      /\ entriesFile' = left \/ entriesFile' = entriesFile
      /\ timer' = Announcements!ScheduleNext(left, now) /\ firing' = Announcements!Idle
      /\ UNCHANGED <<now, up, torn, since, done, twice, busy, starts>>
  <2>1. entriesFile' \in IF entries[e].oneShot THEN {left, entriesFile} ELSE {entriesFile}
    BY <1>3 DEF Announcements!Finish, e
  <2> QED
    BY <1>3, <2>1 DEF Announcements!Finish, e
<1>5. /\ left \in Announcements!Configurations
      /\ \A d \in Announcements!Names : left[d].at = entries[d].at /\ left[d].oneShot = entries[d].oneShot
      /\ \A d \in Announcements!Names : left[d].enabled => entries[d].enabled
  <2>1. entries \in Announcements!Configurations
    BY <1>1 DEF Announcements!TypeOK
  <2>2. CASE entries[e].oneShot
    <3>1. PICK es : es = entries
      OBVIOUS
    <3>2. left = Disabled(es, e)
      BY <1>3, <2>2, <3>1 DEF Disabled
    <3>3. es \in Announcements!Configurations /\ e \in Announcements!Names
      BY <1>2, <2>1, <3>1
    <3>4. /\ left \in Announcements!Configurations
          /\ \A d \in Announcements!Names : left[d].at = es[d].at /\ left[d].oneShot = es[d].oneShot
          /\ \A d \in Announcements!Names : left[d].enabled => es[d].enabled
      BY <3>2, <3>3, DisabledConfiguration, Zenon
    <3> QED
      BY <3>1, <3>4
  <2>3. CASE ~entries[e].oneShot
    BY <1>3, <2>1, <2>3
  <2> QED
    BY <2>2, <2>3
<1>6. PICK from \in Nat : from = since
  BY <1>1 DEF Announcements!TypeOK
<1>7. TimerSet' /\ AtItsTimes' /\ CoveredSoFar'
  <2>1. up' /\ since' = from /\ from <= now /\ entries' = left /\ timer' = Announcements!ScheduleNext(left, now)
        /\ firing' = Announcements!Idle /\ UNCHANGED <<now, done, busy>>
    BY <1>1, <1>2, <1>4, <1>6 DEF TimerSet
  <2>2. \A d \in done : Announcements!IsTime(entries[d[1]], d[2])
    BY <1>1 DEF AtItsTimes
  <2>3. ASSUME NEW d \in Announcements!Names, NEW t \in from + 1 .. LastTime["announcements"],
               t <= now, left[d].enabled, Announcements!IsTime(left[d], t)
        PROVE  <<d, t>> \in done \/ t \in busy
    <3>1. Covered(now)
      BY <1>1, <1>2 DEF CoveredSoFar
    <3>2. entries[d].enabled /\ Announcements!IsTime(entries[d], t)
      BY <1>5, <2>3 DEF Announcements!IsTime
    <3> QED
      BY <1>6, <2>3, <3>1, <3>2 DEF Covered
  <2>4. \A d \in Announcements!Names, t \in from + 1 .. LastTime["announcements"] :
          t <= now /\ left[d].enabled /\ Announcements!IsTime(left[d], t) => <<d, t>> \in done \/ t \in busy
    BY <2>3
  <2> QED
    BY <1>1, <1>5, <2>1, <2>2, <2>4, Rescheduled
<1>8. SameTimes'
  <2>1. entriesFile' = left \/ entriesFile' = entriesFile
    BY <1>4
  <2>2. CASE entriesFile' = left
    BY <1>4, <2>2 DEF SameTimes
  <2>3. CASE entriesFile' = entriesFile
    BY <1>1, <1>4, <1>5, <2>3 DEF SameTimes
  <2> QED
    BY <2>1, <2>2, <2>3
<1>9. Announcements!TypeOK'
  <2>1. up' \in BOOLEAN /\ torn' \in BOOLEAN /\ twice' \in BOOLEAN
    BY <1>1, <1>4, Zenon DEF Announcements!TypeOK
  <2>2. entriesFile' \in Announcements!Configurations /\ entries' \in Announcements!Configurations
    BY <1>1, <1>4, <1>5 DEF Announcements!TypeOK
  <2>3. timer'.at \in Nat /\ timer'.entry \in 0 .. NumEntries
    <3>1. timer' \in [at : Nat, entry : 0 .. NumEntries]
      BY <1>7 DEF TimerSet
    <3> QED
      BY <3>1
  <2>4. firing'.entry \in 0 .. NumEntries /\ firing'.attempt \in 0 .. 2 /\ firing'.at \in Nat
    BY <1>4 DEF Announcements!Idle
  <2>5. done' \subseteq Announcements!Names \X (0 .. LastTime["announcements"]) /\ busy' \subseteq 0 .. LastTime["announcements"]
    BY <1>1, <1>4 DEF Announcements!TypeOK
  <2>6. {now, since, starts, faults}' \subseteq Nat
    BY <1>1, <1>4 DEF Announcements!TypeOK
  <2> QED
    BY <2>1, <2>2, <2>3, <2>4, <2>5, <2>6, Zenon DEF Announcements!TypeOK
<1>10. ~twice'
  BY <1>1, <1>4
<1> QED
  BY <1>7, <1>8, <1>9, <1>10, Zenon DEF AnnouncementsInv

\* A timer that was set for a check alone is set again.
LEMMA RearmStep ==
  ASSUME AnnouncementsInv, Announcements!Rearm
  PROVE  AnnouncementsInv'
<1> USE AnnouncementsNumbers
<1>1. Announcements!TypeOK /\ TimerSet /\ SameTimes /\ AtItsTimes /\ CoveredSoFar /\ ~twice
  BY DEF AnnouncementsInv
<1>2. up /\ timer # Announcements!None /\ now = timer.at /\ timer.entry = 0
  BY DEF Announcements!Rearm, Announcements!TimerFires
<1>3. /\ timer' = Announcements!ScheduleNext(entries, now)
      /\ UNCHANGED <<now, up, entriesFile, torn, entries, firing, since, done, twice, busy, starts, faults>>
  BY DEF Announcements!Rearm
<1>4. PICK es : es = entries
  OBVIOUS
<1>6. PICK from \in Nat : from = since
  BY <1>1 DEF Announcements!TypeOK
<1>7. TimerSet' /\ AtItsTimes' /\ CoveredSoFar'
  <2>1. up' /\ since' = from /\ from <= now /\ entries' = es /\ timer' = Announcements!ScheduleNext(es, now)
        /\ firing' = Announcements!Idle /\ UNCHANGED <<now, done, busy>> /\ es \in Announcements!Configurations
    BY <1>1, <1>2, <1>3, <1>4, <1>6 DEF TimerSet, Announcements!TypeOK
  <2>2. /\ \A d \in done : Announcements!IsTime(entries[d[1]], d[2])
        /\ \A d \in Announcements!Names : es[d].at = entries[d].at /\ es[d].oneShot = entries[d].oneShot
    BY <1>1, <1>4 DEF AtItsTimes
  <2>3. Covered(now)
    BY <1>1, <1>2 DEF CoveredSoFar
  <2>4. \A d \in Announcements!Names, t \in from + 1 .. LastTime["announcements"] :
          t <= now /\ es[d].enabled /\ Announcements!IsTime(es[d], t) => <<d, t>> \in done \/ t \in busy
    BY <1>4, <1>6, <2>3 DEF Covered
  <2> QED
    BY <1>1, <2>1, <2>2, <2>4, Rescheduled
<1>8. SameTimes'
  BY <1>1, <1>3 DEF SameTimes
<1>9. Announcements!TypeOK'
  <2>1. timer' \in [at : Nat, entry : 0 .. NumEntries]
    BY <1>7 DEF TimerSet
  <2>2. timer'.at \in Nat /\ timer'.entry \in 0 .. NumEntries
    BY <2>1
  <2> QED
    BY <1>1, <1>3, <2>2 DEF Announcements!TypeOK
<1>10. ~twice'
  BY <1>1, <1>3
<1> QED
  BY <1>7, <1>8, <1>9, <1>10, Zenon DEF AnnouncementsInv

\* A start reads the entries and sets the timer.
LEMMA StartStep ==
  ASSUME AnnouncementsInv, Announcements!Start
  PROVE  AnnouncementsInv'
<1> USE AnnouncementsNumbers
<1>1. Announcements!TypeOK /\ TimerSet /\ SameTimes /\ AtItsTimes /\ CoveredSoFar /\ ~twice
  BY DEF AnnouncementsInv
<1>2. up' /\ ~up /\ starts' = starts + 1 /\ since' = now /\ entries' = entriesFile
  BY Zenon DEF Announcements!Start
<1>3. /\ timer' = Announcements!ScheduleNext(entriesFile, now)
      /\ UNCHANGED <<now, entriesFile, torn, firing, done, twice, busy, faults>>
  BY DEF Announcements!Start
<1>4. PICK es : es = entriesFile
  OBVIOUS
<1>6. PICK from \in Nat : from = now
  BY <1>1 DEF Announcements!TypeOK
<1>7. TimerSet' /\ AtItsTimes' /\ CoveredSoFar'
  <2>1. up' /\ since' = from /\ from <= now /\ entries' = es /\ timer' = Announcements!ScheduleNext(es, now)
        /\ firing' = Announcements!Idle /\ UNCHANGED <<now, done, busy>> /\ es \in Announcements!Configurations
    BY <1>1, <1>2, <1>3, <1>4, <1>6 DEF TimerSet, Announcements!TypeOK
  <2>2. /\ \A d \in done : Announcements!IsTime(entries[d[1]], d[2])
        /\ \A d \in Announcements!Names : es[d].at = entries[d].at /\ es[d].oneShot = entries[d].oneShot
    BY <1>1, <1>4 DEF AtItsTimes, SameTimes
  <2>4. ASSUME NEW d \in Announcements!Names, NEW t \in from + 1 .. LastTime["announcements"],
               t <= now
        PROVE  FALSE
    BY <1>6, <2>4
  <2>5. \A d \in Announcements!Names, t \in from + 1 .. LastTime["announcements"] :
          t <= now /\ es[d].enabled /\ Announcements!IsTime(es[d], t) => <<d, t>> \in done \/ t \in busy
    BY <2>4
  <2> QED
    BY <1>1, <2>1, <2>2, <2>5, Rescheduled
<1>8. SameTimes'
  BY <1>1, <1>2, <1>3 DEF SameTimes
<1>9. Announcements!TypeOK'
  <2>1. timer' \in [at : Nat, entry : 0 .. NumEntries]
    BY <1>7 DEF TimerSet
  <2>2. timer'.at \in Nat /\ timer'.entry \in 0 .. NumEntries
    BY <2>1
  <2>3. {now, since, starts, faults}' \subseteq Nat
    BY <1>1, <1>2, <1>3 DEF Announcements!TypeOK
  <2>4. up' \in BOOLEAN /\ torn' \in BOOLEAN /\ twice' \in BOOLEAN
    BY <1>1, <1>2, <1>3, Zenon DEF Announcements!TypeOK, Announcements!Start
  <2> QED
    BY <1>1, <1>2, <1>3, <2>2, <2>3, <2>4 DEF Announcements!TypeOK
<1>10. ~twice'
  BY <1>1, <1>3
<1> QED
  BY <1>7, <1>8, <1>9, <1>10, Zenon DEF AnnouncementsInv

\* The timer of an entry fires.
LEMMA FireStep ==
  ASSUME AnnouncementsInv, Announcements!Fire
  PROVE  AnnouncementsInv'
<1> USE AnnouncementsNumbers
<1>1. Announcements!TypeOK /\ TimerSet /\ SameTimes /\ AtItsTimes /\ CoveredSoFar /\ ~twice
  BY DEF AnnouncementsInv
<1> DEFINE e == timer.entry
<1>2. up /\ timer # Announcements!None /\ now = timer.at /\ e # 0 /\ e \in Announcements!Names
  BY <1>1 DEF Announcements!Fire, Announcements!TimerFires, Announcements!TypeOK,
     Announcements!Names
<1>3. /\ firing' = [entry |-> e, attempt |-> 1, at |-> now] /\ timer' = Announcements!None
      /\ done' = done \cup {<<e, now>>} /\ busy' = busy \cup {now}
      /\ UNCHANGED <<now, up, entriesFile, torn, entries, since, starts, faults>>
  BY DEF Announcements!Fire
<1>4. twice' <=> twice \/ <<e, now>> \in done
  BY DEF Announcements!Fire
<1>5. now \in Nat /\ now <= LastTime["announcements"] /\ since \in Nat /\ since <= now
  BY <1>1 DEF Announcements!TypeOK, TimerSet
<1>6. ~twice'
  <2>1. \A d \in done : d[2] < timer.at
    BY <1>1, <1>2 DEF TimerSet
  <2>2. ~(now < now)
    BY <1>5
  <2>3. <<e, now>>[2] = now
    OBVIOUS
  <2>4. <<e, now>> \notin done
    BY <1>2, <2>1, <2>2, <2>3
  <2> QED
    BY <1>1, <1>4, <2>4
<1> HIDE DEF e
<1>7. firing' \in [entry : 0 .. NumEntries, attempt : 0 .. 2, at : Nat] /\ firing'.entry = e /\ firing' # Announcements!Idle
  BY <1>2, <1>3, <1>5 DEF Announcements!Names, Announcements!Idle
<1>8. timer' \in [at : Nat, entry : 0 .. NumEntries] /\ timer'.at = 0 /\ timer'.entry = 0
  BY <1>3 DEF Announcements!None
<1>9. Announcements!TypeOK'
  <2>1. up' \in BOOLEAN /\ torn' \in BOOLEAN /\ twice' \in BOOLEAN
    BY <1>1, <1>3, <1>6, Zenon DEF Announcements!TypeOK, Announcements!Fire
  <2>2. <<e, now>> \in Announcements!Names \X (0 .. LastTime["announcements"]) /\ now \in 0 .. LastTime["announcements"]
    BY <1>2, <1>5
  <2>3. done' \subseteq Announcements!Names \X (0 .. LastTime["announcements"]) /\ busy' \subseteq 0 .. LastTime["announcements"]
    BY <1>1, <1>3, <2>2 DEF Announcements!TypeOK
  <2>4. firing'.entry \in 0 .. NumEntries /\ firing'.attempt \in 0 .. 2 /\ firing'.at \in Nat
    BY <1>7
  <2>5. entriesFile' \in Announcements!Configurations /\ entries' \in Announcements!Configurations /\ {now, since, starts, faults}' \subseteq Nat
    BY <1>1, <1>3 DEF Announcements!TypeOK
  <2>6. timer'.at \in Nat /\ timer'.entry \in 0 .. NumEntries
    BY <1>8
  <2> QED
    BY <2>1, <2>3, <2>4, <2>5, <2>6, Zenon DEF Announcements!TypeOK
<1>10. TimerSet'
  <2>1. \A d \in done' : d[2] <= now
    <3>1. <<e, now>>[2] = now /\ now <= now
      BY <1>5
    <3> QED
      BY <1>1, <1>3, <3>1 DEF TimerSet
  <2>2. now' = now /\ since' = since /\ up'
    BY <1>2, <1>3
  <2> QED
    BY <1>2, <1>3, <1>5, <1>7, <1>8, <2>1, <2>2 DEF TimerSet
<1>11. SameTimes'
  BY <1>1, <1>3 DEF SameTimes
<1>12. AtItsTimes'
  <2>1. Announcements!IsTime(entries[e], now)
    BY <1>1, <1>2 DEF AtItsTimes, e
  <2>2. <<e, now>>[1] = e /\ <<e, now>>[2] = now
    OBVIOUS
  <2> QED
    BY <1>1, <1>3, <1>8, <2>1, <2>2 DEF AtItsTimes
<1>13. CoveredSoFar'
  <2>1. Covered(timer.at - 1)
    BY <1>1, <1>2 DEF CoveredSoFar, e
  <2>2. ASSUME NEW d \in Announcements!Names, NEW t \in since + 1 .. LastTime["announcements"],
               t <= now, entries[d].enabled, Announcements!IsTime(entries[d], t)
        PROVE  <<d, t>> \in done' \/ t \in busy'
    <3>1. CASE t = now
      BY <1>3, <3>1
    <3>2. CASE t # now
      <4>1. t <= timer.at - 1
        BY <1>2, <1>5, <2>2, <3>2
      <4> QED
        BY <1>3, <2>1, <2>2, <4>1 DEF Covered
    <3> QED
      BY <3>1, <3>2
  <2>3. Covered(now)'
    BY <1>3, <2>2 DEF Covered
  <2> QED
    BY <1>3, <2>3 DEF CoveredSoFar
<1> QED
  BY <1>6, <1>9, <1>10, <1>11, <1>12, <1>13, Zenon DEF AnnouncementsInv

\* Steps that leave what was attempted and the timer's entry alone.
LEMMA EndedStep ==
  ASSUME AnnouncementsInv, Announcements!Ended, torn' \in BOOLEAN
  PROVE  AnnouncementsInv'
<1> USE AnnouncementsNumbers
<1>1. Announcements!TypeOK /\ TimerSet /\ SameTimes /\ AtItsTimes /\ CoveredSoFar /\ ~twice
  BY DEF AnnouncementsInv
<1>2. /\ timer' = Announcements!None /\ firing' = Announcements!Idle /\ faults' = faults + 1
      /\ UNCHANGED <<now, entriesFile, entries, since, done, twice, busy, starts>>
  BY DEF Announcements!Ended, Announcements!Fault
<1>3. ~up' /\ up' \in BOOLEAN
  BY DEF Announcements!Ended
<1>4. timer' \in [at : Nat, entry : 0 .. NumEntries] /\ timer'.at = 0 /\ timer'.entry = 0
  BY <1>2 DEF Announcements!None
<1>5. firing' \in [entry : 0 .. NumEntries, attempt : 0 .. 2, at : Nat]
  BY <1>2 DEF Announcements!Idle
<1>6. Announcements!TypeOK'
  <2>1. timer'.at \in Nat /\ timer'.entry \in 0 .. NumEntries
    BY <1>4
  <2>2. firing'.entry \in 0 .. NumEntries /\ firing'.attempt \in 0 .. 2 /\ firing'.at \in Nat
    BY <1>5
  <2>3. {now, since, starts, faults}' \subseteq Nat
    BY <1>1, <1>2 DEF Announcements!TypeOK
  <2> QED
    BY <1>1, <1>2, <1>3, <2>1, <2>2, <2>3 DEF Announcements!TypeOK
<1>7. TimerSet'
  BY <1>1, <1>2, <1>3, <1>4, <1>5 DEF TimerSet
<1>8. SameTimes' /\ AtItsTimes' /\ CoveredSoFar'
  BY <1>1, <1>2, <1>3, <1>4 DEF SameTimes, AtItsTimes, CoveredSoFar
<1>9. ~twice'
  BY <1>1, <1>2
<1> QED
  BY <1>6, <1>7, <1>8, <1>9, Zenon DEF AnnouncementsInv

\* A report that is tried a second time, later.
LEMMA SecondTry ==
  ASSUME NEW f \in [entry : 0 .. NumEntries, attempt : 0 .. 2, at : Nat], NEW later \in Nat
  PROVE  /\ [f EXCEPT !.attempt = 2, !.at = later]
              \in [entry : 0 .. NumEntries, attempt : 0 .. 2, at : Nat]
         /\ [f EXCEPT !.attempt = 2, !.at = later].entry = f.entry
         /\ [f EXCEPT !.attempt = 2, !.at = later].attempt = 2
<1> DEFINE Reports == [entry : 0 .. NumEntries, attempt : 0 .. 2, at : Nat]
<1>1. PICK g : g = [f EXCEPT !.attempt = 2]
  OBVIOUS
<1>2. g \in Reports /\ g.entry = f.entry /\ g.attempt = 2
  BY <1>1
<1>3. PICK h : h = [g EXCEPT !.at = later]
  OBVIOUS
<1>4. h \in Reports /\ h.entry = f.entry /\ h.attempt = 2
  BY <1>2, <1>3
<1>5. h = [f EXCEPT !.attempt = 2, !.at = later]
  BY <1>1, <1>3, Zenon
<1> QED
  BY <1>4, <1>5, Zenon

\* A first attempt fails and the second one is put off.
LEMMA RetryStep ==
  ASSUME AnnouncementsInv, Announcements!Sending, Announcements!Fault, firing.attempt = 1,
         firing' = [firing EXCEPT !.attempt = 2, !.at = now + RetryDelay],
         UNCHANGED <<now, up, entriesFile, torn, entries, timer, since, done, twice, busy, starts>>
  PROVE  AnnouncementsInv'
<1> USE AnnouncementsNumbers
<1>1. Announcements!TypeOK /\ TimerSet /\ SameTimes /\ AtItsTimes /\ CoveredSoFar /\ ~twice
  BY DEF AnnouncementsInv
<1>2. firing \in [entry : 0 .. NumEntries, attempt : 0 .. 2, at : Nat] /\ now \in Nat
  BY <1>1 DEF TimerSet, Announcements!TypeOK
<1>3. /\ firing' \in [entry : 0 .. NumEntries, attempt : 0 .. 2, at : Nat]
      /\ firing'.entry = firing.entry /\ firing'.attempt = 2
  <2>1. now + RetryDelay \in Nat
    BY <1>2
  <2> QED
    BY <1>2, <2>1, SecondTry, Zenon
<1>4. firing' # Announcements!Idle /\ firing # Announcements!Idle
  <2>1. Announcements!Idle.attempt # 2
    BY DEF Announcements!Idle
  <2>2. firing' # Announcements!Idle
    BY <1>3, <2>1, Zenon
  <2> QED
    BY <2>2, Zenon DEF Announcements!Sending
<1>5. Announcements!TypeOK'
  <2>1. firing'.entry \in 0 .. NumEntries /\ firing'.attempt \in 0 .. 2 /\ firing'.at \in Nat
    BY <1>3
  <2>2. {now, since, starts, faults}' \subseteq Nat
    BY <1>1 DEF Announcements!TypeOK, Announcements!Fault
  <2> QED
    BY <1>1, <2>1, <2>2 DEF Announcements!TypeOK
<1>6. TimerSet'
  BY <1>1, <1>3, <1>4 DEF TimerSet
<1>7. SameTimes' /\ AtItsTimes'
  BY <1>1 DEF SameTimes, AtItsTimes
<1>8. CoveredSoFar'
  BY <1>1 DEF CoveredSoFar, Covered
<1> QED
  BY <1>1, <1>5, <1>6, <1>7, <1>8, Zenon DEF AnnouncementsInv

\* The clock does not pass a timer.
LEMMA TickStep ==
  ASSUME AnnouncementsInv, Announcements!Tick
  PROVE  AnnouncementsInv'
<1> USE AnnouncementsNumbers
<1>1. Announcements!TypeOK /\ TimerSet /\ SameTimes /\ AtItsTimes /\ CoveredSoFar /\ ~twice
  BY DEF AnnouncementsInv
<1>2. /\ now < LastTime["announcements"] /\ now' = now + 1
      /\ busy' = IF firing = Announcements!Idle THEN busy ELSE busy \cup {now'}
      /\ UNCHANGED <<up, entriesFile, torn, entries, timer, firing, since, done, twice, starts, faults>>
  BY DEF Announcements!Tick
<1>3. timer = Announcements!None \/ now < timer.at
  BY DEF Announcements!Tick
<1>4. now \in Nat /\ since \in Nat /\ since <= now /\ timer.at \in Nat
  BY <1>1 DEF Announcements!TypeOK, TimerSet
<1>5. now + 1 \in Nat /\ now + 1 <= LastTime["announcements"] /\ since <= now + 1 /\ now + 1 \in 0 .. LastTime["announcements"]
      /\ (timer # Announcements!None => now + 1 <= timer.at)
  BY <1>2, <1>3, <1>4
<1>6. Announcements!TypeOK'
  <2>1. busy' \subseteq 0 .. LastTime["announcements"]
    BY <1>1, <1>2, <1>5 DEF Announcements!TypeOK
  <2>2. {now, since, starts, faults}' \subseteq Nat
    BY <1>1, <1>2, <1>5 DEF Announcements!TypeOK
  <2> QED
    BY <1>1, <1>2, <2>1, <2>2 DEF Announcements!TypeOK
<1>7. TimerSet'
  <2>1. \A d \in done : d[2] <= now + 1 /\ (timer.entry # 0 => d[2] < timer.at)
    <3> SUFFICES ASSUME NEW d \in done
                 PROVE  d[2] <= now + 1 /\ (timer.entry # 0 => d[2] < timer.at)
      OBVIOUS
    <3>1. d[2] \in Nat /\ d[2] <= now
      BY <1>1 DEF Announcements!TypeOK, TimerSet
    <3>2. timer.entry # 0 => d[2] < timer.at
      BY <1>1 DEF TimerSet
    <3> QED
      BY <1>4, <3>1, <3>2
  <2>2. now' = now + 1 /\ since' = since
    BY <1>2
  <2>3. ~up' => timer' = Announcements!None /\ firing' = Announcements!Idle
    BY <1>1, <1>2 DEF TimerSet
  <2>4. up' => (timer' = Announcements!None <=> firing' # Announcements!Idle)
    BY <1>1, <1>2 DEF TimerSet
  <2> QED
    BY <1>1, <1>2, <1>5, <2>1, <2>2, <2>3, <2>4 DEF TimerSet
<1>8. SameTimes' /\ AtItsTimes'
  BY <1>1, <1>2 DEF SameTimes, AtItsTimes
<1>9. CoveredSoFar'
  <2> SUFFICES ASSUME up PROVE CoveredSoFar'
    BY <1>2 DEF CoveredSoFar
  <2>1. CASE timer = Announcements!None
    <3>1. firing # Announcements!Idle /\ busy' = busy \cup {now + 1} /\ Covered(now)
      BY <1>1, <1>2, <2>1 DEF TimerSet, CoveredSoFar
    <3>2. ASSUME NEW e \in Announcements!Names,
                 NEW t \in since + 1 .. LastTime["announcements"], t <= now + 1,
                 entries[e].enabled, Announcements!IsTime(entries[e], t)
          PROVE  <<e, t>> \in done \/ t \in busy'
      <4>1. CASE t = now + 1
        BY <3>1, <4>1
      <4>2. CASE t # now + 1
        <5>1. t <= now
          BY <1>4, <3>2, <4>2
        <5> QED
          BY <3>1, <3>2, <5>1 DEF Covered
      <4> QED
        BY <4>1, <4>2
    <3>3. Covered(now)'
      BY <1>2, <3>2 DEF Covered
    <3> QED
      BY <1>2, <2>1, <3>3 DEF CoveredSoFar
  <2>2. CASE timer # Announcements!None
    <3>1. firing = Announcements!Idle /\ busy' = busy
      BY <1>1, <1>2, <2>2 DEF TimerSet
    <3> QED
      BY <1>1, <1>2, <2>2, <3>1 DEF CoveredSoFar, Covered
  <2> QED
    BY <2>1, <2>2
<1>10. ~twice'
  BY <1>1, <1>2
<1> QED
  BY <1>6, <1>7, <1>8, <1>9, <1>10, Zenon DEF AnnouncementsInv

\* The invariant of the announcements is kept.
LEMMA AnnouncementsStep ==
  ASSUME AnnouncementsInv, Announcements!Next \/ UNCHANGED Announcements!vars
  PROVE  AnnouncementsInv'
<1>1. CASE Announcements!Sent
  <2>1. faults' \in {faults, faults + 1}
    BY <1>1, Zenon DEF Announcements!Sent, Announcements!Fault
  <2> QED
    BY <1>1, <2>1, FinishStep DEF Announcements!Sent
<1>2. CASE Announcements!SendFails
  <2>1. faults' \in {faults, faults + 1} /\ Announcements!Sending /\ Announcements!Fault
    BY <1>2, Zenon DEF Announcements!SendFails, Announcements!Fault
  <2>2. CASE firing.attempt = 2 /\ Announcements!Finish
    BY <2>1, <2>2, FinishStep
  <2>3. CASE ~(firing.attempt = 2 /\ Announcements!Finish)
    BY <1>2, <2>1, <2>3, RetryStep, Zenon DEF Announcements!SendFails
  <2> QED
    BY <2>2, <2>3
<1>3. CASE Announcements!Stop
  <2>1. torn' \in BOOLEAN
    BY <1>3 DEF Announcements!Stop, AnnouncementsInv, Announcements!TypeOK
  <2> QED
    BY <1>3, <2>1, EndedStep DEF Announcements!Stop
<1>4. CASE Announcements!CrashInWrite
  <2>1. torn' \in BOOLEAN
    BY <1>4 DEF Announcements!CrashInWrite
  <2> QED
    BY <1>4, <2>1, EndedStep DEF Announcements!CrashInWrite
<1>5. CASE UNCHANGED Announcements!vars
  <2>1. Announcements!TypeOK /\ TimerSet /\ SameTimes /\ AtItsTimes /\ CoveredSoFar /\ ~twice
    BY DEF AnnouncementsInv
  <2>2. Announcements!TypeOK' /\ TimerSet'
    BY <1>5, <2>1 DEF Announcements!vars, Announcements!TypeOK, TimerSet
  <2>3. SameTimes' /\ AtItsTimes' /\ CoveredSoFar' /\ ~twice'
    BY <1>5, <2>1 DEF Announcements!vars, SameTimes, AtItsTimes, CoveredSoFar, Covered
  <2> QED
    BY <2>2, <2>3, Zenon DEF AnnouncementsInv
<1> QED
  BY <1>1, <1>2, <1>3, <1>4, <1>5, RearmStep, FireStep, StartStep, TickStep DEF
     Announcements!Next

-----------------------------------------------------------------------------
(* The calendar cache.                                                     *)

\* The bounds are numbers.
LEMMA CalendarConstants ==
  {NumSources, MaxPasses, MaxStarts["calendar"], MaxFaults["calendar"]} \subseteq Nat /\ MaxVersion \in Nat \ {0}
BY FeaturesAssumption DEF Calendar!CalendarAssumption

CalendarPasses == [by : {"start", "interval"}, next : 1 .. NumSources + 1, got : Calendar!Caches]

CalendarTypes ==
  /\ Calendar!TypeOK
  /\ passes \in [DOMAIN passes -> CalendarPasses] /\ DOMAIN passes \subseteq 1 .. begun

\* The interval has one pass at most; without overlap there is no other one.
CalendarOnePass ==
  /\ ~up => DOMAIN passes = {} /\ ~inFlight /\ ~crossed
  /\ \A p \in DOMAIN passes : passes[p].by = "interval" => inFlight
  /\ \A p, q \in DOMAIN passes : ~crossed \/ passes[p].by = passes[q].by => p = q

CalendarOrder ==
  /\ \A s \in DOMAIN cache : cache[s] <= host[s]
  /\ \A s \in DOMAIN cacheFile : cacheFile[s] <= host[s]
  /\ \A p \in DOMAIN passes : \A s \in DOMAIN passes[p].got :
       passes[p].got[s] <= host[s] /\ (~crossed /\ s \in DOMAIN cache => cache[s] <= passes[p].got[s])
  /\ up => unsaved \/ cacheFile = cache

CalendarInv == CalendarTypes /\ CalendarOnePass /\ CalendarOrder

\* Two caches merged are a cache.
LEMMA CalendarMerged ==
  ASSUME NEW old \in Calendar!Caches, NEW new \in Calendar!Caches
  PROVE  Calendar!Merged(old, new) \in Calendar!Caches
<1>1. PICK S \in SUBSET Calendar!Sources : old \in [S -> Calendar!Versions]
  BY DEF Calendar!Caches
<1>2. PICK T \in SUBSET Calendar!Sources : new \in [T -> Calendar!Versions]
  BY DEF Calendar!Caches
<1>3. Calendar!Merged(old, new) \in [S \cup T -> Calendar!Versions]
  BY <1>1, <1>2 DEF Calendar!Merged
<1> QED
  BY <1>3 DEF Calendar!Caches

\* The empty cache is a cache.
LEMMA CalendarEmpty == Calendar!Empty \in Calendar!Caches /\ DOMAIN Calendar!Empty = {}
<1>1. Calendar!Empty \in [{} -> Calendar!Versions]
  BY DEF Calendar!Empty
<1> QED
  BY <1>1 DEF Calendar!Caches

\* A cache holds versions of sources.
LEMMA CalendarVersions ==
  ASSUME NEW c \in Calendar!Caches
  PROVE  DOMAIN c \subseteq Calendar!Sources /\ \A s \in DOMAIN c : c[s] \in Calendar!Versions /\ c[s] \in Nat
BY CalendarConstants DEF Calendar!Caches, Calendar!Versions

\* The invariant holds at the start.
LEMMA CalendarStarts == Calendar!Init => CalendarInv
<1> SUFFICES ASSUME Calendar!Init PROVE CalendarInv
  OBVIOUS
<1>1. cache = Calendar!Empty /\ cacheFile = Calendar!Empty /\ passes = Calendar!Empty /\ DOMAIN Calendar!Empty = {} /\ Calendar!Empty \in Calendar!Caches
  BY CalendarEmpty DEF Calendar!Init
<1>2. /\ host \in [Calendar!Sources -> Calendar!Versions] /\ {begun, starts, faults} \subseteq Nat
      /\ {up, inFlight, crossed, unsaved} \subseteq BOOLEAN /\ ~up /\ ~inFlight /\ ~crossed
  <2>1. host \in [Calendar!Sources -> Calendar!Versions] /\ {begun, starts, faults} \subseteq Nat
    BY CalendarConstants DEF Calendar!Init, Calendar!Versions
  <2>2. up = FALSE /\ inFlight = FALSE /\ crossed = FALSE /\ unsaved = FALSE
    BY DEF Calendar!Init
  <2> QED
    BY <2>1, <2>2
<1>3. passes \in [DOMAIN passes -> CalendarPasses]
  BY <1>1 DEF Calendar!Empty
<1> HIDE DEF Calendar!Empty
<1>4. CalendarTypes
  BY <1>1, <1>2, <1>3 DEF CalendarTypes, Calendar!TypeOK
<1> QED
  BY <1>1, <1>2, <1>4 DEF CalendarInv, CalendarOnePass, CalendarOrder

\* What a start and the interval begin.
LEMMA CalendarBegun ==
  ASSUME CalendarTypes, NEW by \in {"start", "interval"}, Calendar!Begun(by)
  PROVE  /\ begun' = begun + 1 /\ begun' \in Nat /\ crossed' \in BOOLEAN
         /\ DOMAIN passes' = DOMAIN passes \cup {begun + 1} /\ DOMAIN passes' \subseteq 1 .. begun'
         /\ \A p \in DOMAIN passes : passes'[p] = passes[p] /\ p # begun + 1
         /\ passes' \in [DOMAIN passes' -> CalendarPasses]
         /\ passes'[begun + 1].by = by /\ passes'[begun + 1].got = Calendar!Empty
         /\ ~crossed' => ~crossed /\ \A p \in DOMAIN passes : passes[p].by # "start"
<1> DEFINE new == [by |-> by, next |-> 1, got |-> Calendar!Empty]
<1>1. begun \in Nat /\ begun' = begun + 1 /\ passes' = Calendar!Merged(passes, [p \in {begun + 1} |-> new])
  BY DEF Calendar!Begun, CalendarTypes, Calendar!TypeOK
<1>2. new \in CalendarPasses /\ new.by = by /\ new.got = Calendar!Empty
  BY CalendarEmpty, CalendarConstants DEF CalendarPasses
<1> HIDE DEF new
<1>3. DOMAIN passes \subseteq 1 .. begun /\ passes \in [DOMAIN passes -> CalendarPasses]
  BY DEF CalendarTypes
<1>4. /\ begun + 1 \notin DOMAIN passes /\ DOMAIN passes \cup {begun + 1} \subseteq 1 .. begun + 1
  BY <1>1, <1>3
<1>5. passes' = [p \in DOMAIN passes \cup {begun + 1} |-> IF p \in {begun + 1} THEN new ELSE passes[p]]
  BY <1>1 DEF Calendar!Merged
<1>6. crossed' = (crossed \/ \E p \in DOMAIN passes : "start" \in {by, passes[p].by})
  BY DEF Calendar!Begun
<1>7. crossed' \in BOOLEAN /\ crossed \in BOOLEAN
  BY <1>6 DEF CalendarTypes, Calendar!TypeOK
<1>8. passes' \in [DOMAIN passes \cup {begun + 1} -> CalendarPasses]
  BY <1>2, <1>3, <1>5
<1>9. passes'[begun + 1] = new /\ \A p \in DOMAIN passes : passes'[p] = passes[p]
  BY <1>4, <1>5
<1>10. begun' \in Nat
  BY <1>1
<1> QED
  BY <1>1, <1>2, <1>4, <1>6, <1>7, <1>8, <1>9, <1>10

\* A pass that ends leaves the others as they were.
LEMMA CalendarWithout ==
  ASSUME CalendarTypes, NEW p, passes' = Calendar!Without(passes, p), UNCHANGED begun
  PROVE  /\ DOMAIN passes' = DOMAIN passes \ {p} /\ \A q \in DOMAIN passes' : passes'[q] = passes[q]
         /\ passes' \in [DOMAIN passes' -> CalendarPasses] /\ DOMAIN passes' \subseteq 1 .. begun'
BY DEF Calendar!Without, CalendarTypes

\* A pass goes on to the next source.
LEMMA CalendarGoesOn ==
  ASSUME CalendarTypes, NEW p \in DOMAIN passes, passes[p].next <= NumSources,
         NEW got \in Calendar!Caches,
         passes' = [passes EXCEPT ![p] = [@ EXCEPT !.next = passes[p].next + 1, !.got = got]]
  PROVE  /\ DOMAIN passes' = DOMAIN passes /\ passes' \in [DOMAIN passes' -> CalendarPasses]
         /\ passes'[p].got = got /\ \A q \in DOMAIN passes : passes'[q].by = passes[q].by
         /\ \A q \in DOMAIN passes : q # p => passes'[q] = passes[q]
<1> DEFINE new == [passes[p] EXCEPT !.next = passes[p].next + 1, !.got = got]
<1>1. passes[p] \in [by : {"start", "interval"}, next : 1 .. NumSources + 1, got : Calendar!Caches]
  BY DEF CalendarTypes, CalendarPasses
<1>2. passes[p].next + 1 \in 1 .. NumSources + 1
  BY <1>1, CalendarConstants
<1>3. new \in [by : {"start", "interval"}, next : 1 .. NumSources + 1, got : Calendar!Caches]
      /\ new.by = passes[p].by /\ new.got = got
  BY <1>1, <1>2
<1> HIDE DEF new
<1>4. passes' = [passes EXCEPT ![p] = new]
  BY DEF new
<1>5. passes \in [DOMAIN passes -> CalendarPasses] /\ new \in CalendarPasses
  BY <1>3 DEF CalendarTypes, CalendarPasses
<1> QED
  BY <1>3, <1>4, <1>5

\* The fault counter stays a number.
LEMMA CalendarFault ==
  ASSUME CalendarTypes, Calendar!Fault \/ UNCHANGED faults
  PROVE  faults' \in Nat
BY DEF Calendar!Fault, CalendarTypes, Calendar!TypeOK

\* The types of the next state, put together.
LEMMA CalendarTyped ==
  ASSUME {begun', starts', faults'} \subseteq Nat,
         {up', inFlight', crossed', unsaved'} \subseteq BOOLEAN,
         host' \in [Calendar!Sources -> Calendar!Versions], cache' \in Calendar!Caches, cacheFile' \in Calendar!Caches,
         passes' \in [DOMAIN passes' -> CalendarPasses], DOMAIN passes' \subseteq 1 .. begun'
  PROVE  CalendarTypes'
<1>1. \A p \in DOMAIN passes' :
        /\ passes'[p].by \in {"start", "interval"}
        /\ passes'[p].next \in 1 .. NumSources + 1 /\ passes'[p].got \in Calendar!Caches
  BY DEF CalendarPasses
<1> QED
  BY <1>1 DEF CalendarTypes, Calendar!TypeOK

\* The types of this state, taken apart.
LEMMA CalendarFacts ==
  ASSUME CalendarTypes
  PROVE  /\ {begun, starts, faults} \subseteq Nat /\ {up, inFlight, crossed, unsaved} \subseteq BOOLEAN
         /\ host \in [Calendar!Sources -> Calendar!Versions] /\ cache \in Calendar!Caches /\ cacheFile \in Calendar!Caches
         /\ passes \in [DOMAIN passes -> CalendarPasses] /\ DOMAIN passes \subseteq 1 .. begun
         /\ \A p \in DOMAIN passes : passes[p].got \in Calendar!Caches /\ passes[p].next \in 1 .. NumSources + 1
BY DEF CalendarTypes, Calendar!TypeOK

\* Every step keeps the types.
LEMMA CalendarTypesStep ==
  ASSUME CalendarTypes, Calendar!Next
  PROVE  CalendarTypes'
<1>1. ASSUME NEW s \in Calendar!Sources, Calendar!Publish(s) PROVE CalendarTypes'
  <2>1. host' \in [Calendar!Sources -> Calendar!Versions]
    BY <1>1, CalendarFacts, CalendarConstants DEF Calendar!Publish, Calendar!Versions
  <2> QED
    BY <1>1, <2>1, CalendarFacts, CalendarTyped DEF Calendar!Publish
<1>2. ASSUME NEW p \in DOMAIN passes, Calendar!Fetched(p) PROVE CalendarTypes'
  <2> DEFINE s == passes[p].next
             one == [x \in {s} |-> host[s]]
  <2>1. s \in Calendar!Sources /\ s <= NumSources /\ passes[p].got \in Calendar!Caches
    BY <1>2, CalendarFacts, CalendarConstants DEF Calendar!Fetched, Calendar!Awaits,
       Calendar!Sources
  <2>2. one \in Calendar!Caches
    <3>1. one \in [{s} -> Calendar!Versions]
      BY <2>1, CalendarFacts
    <3> QED
      BY <2>1, <3>1 DEF Calendar!Caches
  <2>3. Calendar!Merged(passes[p].got, one) \in Calendar!Caches
    BY <2>1, <2>2, CalendarMerged
  <2>4. passes' = [passes EXCEPT ![p] = [@ EXCEPT !.next = passes[p].next + 1, !.got = Calendar!Merged(passes[p].got, one)]]
    BY <1>2 DEF Calendar!Fetched
  <2>5. DOMAIN passes' = DOMAIN passes /\ passes' \in [DOMAIN passes' -> CalendarPasses]
    BY <2>1, <2>3, <2>4, CalendarGoesOn
  <2> QED
    BY <1>2, <2>5, CalendarFacts, CalendarTyped DEF Calendar!Fetched
<1>3. ASSUME NEW p \in DOMAIN passes, Calendar!FetchFails(p) PROVE CalendarTypes'
  <2>1. passes' = [passes EXCEPT ![p] = [@ EXCEPT !.next = passes[p].next + 1, !.got = passes[p].got]]
    <3>1. passes[p] \in [by : {"start", "interval"}, next : 1 .. NumSources + 1, got : Calendar!Caches]
      BY CalendarFacts DEF CalendarPasses
    <3>2. [passes[p] EXCEPT !.next = passes[p].next + 1, !.got = passes[p].got]
            = [passes[p] EXCEPT !.next = passes[p].next + 1]
      BY <3>1
    <3>3. passes' = [passes EXCEPT ![p] = [passes[p] EXCEPT !.next = passes[p].next + 1]]
      BY <1>3 DEF Calendar!FetchFails
    <3> QED
      BY <3>2, <3>3
  <2>2. passes[p].next <= NumSources /\ passes[p].got \in Calendar!Caches
    BY <1>3, CalendarFacts DEF Calendar!FetchFails, Calendar!Awaits
  <2>3. DOMAIN passes' = DOMAIN passes /\ passes' \in [DOMAIN passes' -> CalendarPasses]
    BY <2>1, <2>2, CalendarGoesOn
  <2> QED
    BY <1>3, <2>3, CalendarFacts, CalendarTyped, CalendarFault DEF Calendar!FetchFails
<1>4. ASSUME NEW p \in DOMAIN passes, Calendar!PassEnds(p) PROVE CalendarTypes'
  <2>1. cache' \in Calendar!Caches
    BY <1>4, CalendarFacts, CalendarMerged DEF Calendar!PassEnds
  <2>2. cacheFile' \in Calendar!Caches /\ unsaved' \in BOOLEAN /\ (Calendar!Fault \/ UNCHANGED faults)
    BY <1>4, <2>1, CalendarFacts DEF Calendar!PassEnds
  <2>3. passes' \in [DOMAIN passes' -> CalendarPasses] /\ DOMAIN passes' \subseteq 1 .. begun'
    BY <1>4, CalendarWithout DEF Calendar!PassEnds
  <2>4. inFlight' \in BOOLEAN /\ UNCHANGED <<up, host, crossed, begun, starts>>
    BY <1>4, CalendarFacts DEF Calendar!PassEnds
  <2> QED
    BY <2>1, <2>2, <2>3, <2>4, CalendarFacts, CalendarTyped, CalendarFault
<1>5. CASE Calendar!IntervalPasses
  <2>1. /\ begun' \in Nat /\ crossed' \in BOOLEAN
        /\ DOMAIN passes' \subseteq 1 .. begun' /\ passes' \in [DOMAIN passes' -> CalendarPasses]
    BY <1>5, CalendarBegun DEF Calendar!IntervalPasses
  <2> QED
    BY <1>5, <2>1, CalendarFacts, CalendarTyped DEF Calendar!IntervalPasses
<1>6. CASE Calendar!Start
  <2>1. /\ begun' \in Nat /\ crossed' \in BOOLEAN
        /\ DOMAIN passes' \subseteq 1 .. begun' /\ passes' \in [DOMAIN passes' -> CalendarPasses]
    BY <1>6, CalendarBegun DEF Calendar!Start
  <2>2. cache' \in Calendar!Caches /\ cacheFile' \in Calendar!Caches /\ (Calendar!Fault \/ UNCHANGED faults)
    BY <1>6, CalendarFacts, CalendarEmpty DEF Calendar!Start
  <2>3. starts' \in Nat /\ UNCHANGED <<host, inFlight>>
    BY <1>6, CalendarFacts DEF Calendar!Start
  <2>4. up' = TRUE /\ unsaved' = FALSE
    BY <1>6 DEF Calendar!Start
  <2> QED
    BY <2>1, <2>2, <2>3, <2>4, CalendarFacts, CalendarTyped, CalendarFault
<1>7. CASE Calendar!Stop
  <2>1. DOMAIN passes' = {} /\ passes' \in [DOMAIN passes' -> CalendarPasses]
    BY <1>7 DEF Calendar!Stop, Calendar!Empty
  <2>2. /\ Calendar!Fault /\ up' = FALSE /\ inFlight' = FALSE /\ crossed' = FALSE
        /\ UNCHANGED <<host, cache, cacheFile, unsaved, begun, starts>>
    BY <1>7 DEF Calendar!Stop
  <2> QED
    BY <2>1, <2>2, CalendarFacts, CalendarTyped, CalendarFault
<1> QED
  BY <1>1, <1>2, <1>3, <1>4, <1>5, <1>6, <1>7 DEF Calendar!Next

\* Without overlap there is one pass at a time, the one in flight.
LEMMA CalendarOnePassStep ==
  ASSUME CalendarTypes, CalendarOnePass, Calendar!Next
  PROVE  CalendarOnePass'
<1> USE DEF CalendarOnePass
<1>1. ASSUME NEW s \in Calendar!Sources, Calendar!Publish(s) PROVE CalendarOnePass'
  BY <1>1 DEF Calendar!Publish
<1>2. ASSUME NEW p \in DOMAIN passes, Calendar!Fetched(p) \/ Calendar!FetchFails(p)
      PROVE  CalendarOnePass'
  <2>1. DOMAIN passes' = DOMAIN passes /\ UNCHANGED <<up, inFlight, crossed>>
    BY <1>2, CalendarFacts DEF Calendar!Fetched, Calendar!FetchFails
  <2>2. passes[p] \in [by : {"start", "interval"}, next : 1 .. NumSources + 1, got : Calendar!Caches]
    BY CalendarFacts DEF CalendarPasses
  <2>3. /\ passes'[p].by = passes[p].by
        /\ \A q \in DOMAIN passes : q # p => passes'[q] = passes[q]
    BY <1>2, <2>2, CalendarFacts DEF Calendar!Fetched, Calendar!FetchFails
  <2>4. \A q \in DOMAIN passes : passes'[q].by = passes[q].by
    BY <2>3
  <2> QED
    BY <2>1, <2>4
<1>3. ASSUME NEW p \in DOMAIN passes, Calendar!PassEnds(p) PROVE CalendarOnePass'
  <2>1. DOMAIN passes' = DOMAIN passes \ {p} /\ \A q \in DOMAIN passes' : passes'[q] = passes[q]
    BY <1>3, CalendarWithout DEF Calendar!PassEnds
  <2>2. UNCHANGED <<up, crossed>> /\ up /\ inFlight' = IF passes[p].by = "interval" THEN FALSE ELSE inFlight
    BY <1>3 DEF Calendar!PassEnds
  <2> QED
    BY <2>1, <2>2
<1>4. CASE Calendar!IntervalPasses
  <2>1. Calendar!Begun("interval") /\ up /\ up' /\ ~inFlight /\ inFlight'
    BY <1>4 DEF Calendar!IntervalPasses
  <2>2. /\ DOMAIN passes' = DOMAIN passes \cup {begun + 1}
        /\ \A p \in DOMAIN passes : passes'[p] = passes[p] /\ p # begun + 1
        /\ passes'[begun + 1].by = "interval"
        /\ ~crossed' => ~crossed /\ \A p \in DOMAIN passes : passes[p].by # "start"
    BY <2>1, CalendarBegun
  <2>3. \A p \in DOMAIN passes : passes[p].by = "start"
    BY <2>1, CalendarFacts DEF CalendarPasses
  <2> QED
    BY <2>1, <2>2, <2>3
<1>5. CASE Calendar!Start
  <2>1. Calendar!Begun("start") /\ ~up /\ up' /\ UNCHANGED inFlight
    BY <1>5 DEF Calendar!Start
  <2>2. DOMAIN passes' = DOMAIN passes \cup {begun + 1} /\ passes'[begun + 1].by = "start"
    BY <2>1, CalendarBegun
  <2> QED
    BY <2>1, <2>2
<1>6. CASE Calendar!Stop
  <2>1. DOMAIN passes' = {} /\ ~up' /\ ~inFlight' /\ ~crossed'
    BY <1>6, CalendarEmpty DEF Calendar!Stop
  <2> QED
    BY <2>1
<1> QED
  BY <1>1, <1>2, <1>3, <1>4, <1>5, <1>6 DEF Calendar!Next

\* The end of a pass that met no other takes nothing back.
LEMMA CalendarEnds ==
  ASSUME CalendarTypes, CalendarOnePass, CalendarOrder, NEW p \in DOMAIN passes,
         Calendar!PassEnds(p)
  PROVE  /\ \A s \in DOMAIN cache' : cache'[s] <= host[s]
         /\ DOMAIN cache \subseteq DOMAIN cache'
         /\ ~crossed => \A s \in DOMAIN cache : cache[s] <= cache'[s]
         /\ unsaved' \/ cacheFile' = cache'
<1>1. cache' = [s \in DOMAIN cache \cup DOMAIN passes[p].got |->
                  IF s \in DOMAIN passes[p].got THEN passes[p].got[s] ELSE cache[s]]
  BY DEF Calendar!PassEnds, Calendar!Merged
<1>2. \A s \in DOMAIN cache' : cache'[s] <= host[s]
  BY <1>1 DEF CalendarOrder
<1>3. ASSUME ~crossed, NEW s \in DOMAIN cache PROVE cache[s] <= cache'[s]
  <2>1. cache[s] \in Nat
    BY CalendarFacts, CalendarVersions
  <2> QED
    BY <1>1, <1>3, <2>1 DEF CalendarOrder
<1>4. unsaved' \/ cacheFile' = cache'
  BY DEF Calendar!PassEnds
<1> QED
  BY <1>1, <1>2, <1>3, <1>4

\* What a pass has fetched is no newer than its host and no older than the cache.
LEMMA CalendarOrderStep ==
  ASSUME CalendarTypes, CalendarOnePass, CalendarOrder, Calendar!Next
  PROVE  CalendarOrder'
<1>1. ASSUME NEW s \in Calendar!Sources, Calendar!Publish(s) PROVE CalendarOrder'
  <2>1. /\ DOMAIN host' = DOMAIN host /\ \A r \in Calendar!Sources : host'[r] \in Nat /\ host[r] \in Nat /\ host[r] <= host'[r]
        /\ UNCHANGED <<up, cache, cacheFile, passes, crossed, unsaved>>
    BY <1>1, CalendarFacts, CalendarConstants DEF Calendar!Publish, Calendar!Versions
  <2>2. \A c \in Calendar!Caches : \A r \in DOMAIN c : c[r] <= host[r] => c[r] <= host'[r]
    <3> SUFFICES ASSUME NEW c \in Calendar!Caches, NEW r \in DOMAIN c, c[r] <= host[r]
                 PROVE  c[r] <= host'[r]
      OBVIOUS
    <3>1. r \in Calendar!Sources /\ c[r] \in Nat
      BY CalendarVersions
    <3>2. host[r] \in Nat /\ host'[r] \in Nat /\ host[r] <= host'[r]
      BY <2>1, <3>1
    <3> QED
      BY <3>1, <3>2
  <2>3. (\A r \in DOMAIN cache : cache[r] <= host'[r]) /\ (\A r \in DOMAIN cacheFile : cacheFile[r] <= host'[r])
    BY <2>2, CalendarFacts DEF CalendarOrder
  <2>4. \A p \in DOMAIN passes : \A r \in DOMAIN passes[p].got : passes[p].got[r] <= host'[r]
    BY <2>2, CalendarFacts DEF CalendarOrder
  <2> QED
    BY <2>1, <2>3, <2>4 DEF CalendarOrder
<1>2. ASSUME NEW p \in DOMAIN passes, Calendar!Fetched(p) PROVE CalendarOrder'
  <2> DEFINE s == passes[p].next
             one == [x \in {s} |-> host[s]]
  <2>1. s \in Calendar!Sources /\ s <= NumSources /\ passes[p].got \in Calendar!Caches
    BY <1>2, CalendarFacts, CalendarConstants DEF Calendar!Fetched, Calendar!Awaits,
       Calendar!Sources
  <2>2. host[s] \in Nat
    BY <2>1, CalendarFacts, CalendarConstants DEF Calendar!Versions
  <2>3. one \in Calendar!Caches
    <3>1. one \in [{s} -> Calendar!Versions]
      BY <2>1, CalendarFacts
    <3> QED
      BY <2>1, <3>1 DEF Calendar!Caches
  <2>4. Calendar!Merged(passes[p].got, one) \in Calendar!Caches
    BY <2>1, <2>3, CalendarMerged
  <2>5. passes' = [passes EXCEPT ![p] = [@ EXCEPT !.next = passes[p].next + 1, !.got = Calendar!Merged(passes[p].got, one)]]
    BY <1>2 DEF Calendar!Fetched
  <2>6. /\ DOMAIN passes' = DOMAIN passes /\ passes'[p].got = Calendar!Merged(passes[p].got, one)
        /\ \A q \in DOMAIN passes : q # p => passes'[q] = passes[q]
    BY <2>1, <2>4, <2>5, CalendarGoesOn
  <2>7. UNCHANGED <<up, host, cache, cacheFile, crossed, unsaved>>
    BY <1>2 DEF Calendar!Fetched
  <2>8. ASSUME NEW r \in DOMAIN passes'[p].got
        PROVE  /\ passes'[p].got[r] <= host[r]
               /\ ~crossed /\ r \in DOMAIN cache => cache[r] <= passes'[p].got[r]
    <3>1. CASE r = s
      <4>1. passes'[p].got[r] = host[r]
        BY <2>6, <3>1 DEF Calendar!Merged
      <4> QED
        BY <2>2, <3>1, <4>1 DEF CalendarOrder
    <3>2. CASE r # s
      <4>1. r \in DOMAIN passes[p].got /\ passes'[p].got[r] = passes[p].got[r]
        BY <2>6, <2>8, <3>2 DEF Calendar!Merged
      <4> QED
        BY <4>1 DEF CalendarOrder
    <3> QED
      BY <3>1, <3>2
  <2> HIDE DEF s, one
  <2> QED
    BY <2>6, <2>7, <2>8 DEF CalendarOrder
<1>3. ASSUME NEW p \in DOMAIN passes, Calendar!FetchFails(p) PROVE CalendarOrder'
  <2>1. UNCHANGED <<up, host, cache, cacheFile, crossed, unsaved>> /\ DOMAIN passes' = DOMAIN passes
    BY <1>3, CalendarFacts DEF Calendar!FetchFails
  <2>2. \A q \in DOMAIN passes : passes'[q].got = passes[q].got
    BY <1>3, CalendarFacts DEF Calendar!FetchFails, CalendarPasses
  <2> QED
    BY <2>1, <2>2 DEF CalendarOrder
<1>4. ASSUME NEW p \in DOMAIN passes, Calendar!PassEnds(p) PROVE CalendarOrder'
  <2>1. DOMAIN passes' = DOMAIN passes \ {p} /\ \A q \in DOMAIN passes' : passes'[q] = passes[q]
    BY <1>4, CalendarWithout DEF Calendar!PassEnds
  <2>2. UNCHANGED <<up, host, crossed>> /\ up
    BY <1>4 DEF Calendar!PassEnds
  <2>3. /\ \A s \in DOMAIN cache' : cache'[s] <= host[s]
        /\ unsaved' \/ cacheFile' = cache'
    BY <1>4, CalendarEnds
  <2>4. \A s \in DOMAIN cacheFile' : cacheFile'[s] <= host[s]
    BY <1>4, <2>3 DEF Calendar!PassEnds, CalendarOrder
  <2>5. ~crossed => DOMAIN passes' = {}
    BY <2>1 DEF CalendarOnePass
  <2> QED
    BY <2>1, <2>2, <2>3, <2>4, <2>5 DEF CalendarOrder
<1>5. CASE Calendar!IntervalPasses
  <2>1. Calendar!Begun("interval") /\ UNCHANGED <<up, host, cache, cacheFile, unsaved>>
    BY <1>5 DEF Calendar!IntervalPasses
  <2>2. /\ DOMAIN passes' = DOMAIN passes \cup {begun + 1}
        /\ \A p \in DOMAIN passes : passes'[p] = passes[p]
        /\ DOMAIN passes'[begun + 1].got = {} /\ (~crossed' => ~crossed)
    BY <2>1, CalendarBegun, CalendarEmpty
  <2> QED
    BY <2>1, <2>2 DEF CalendarOrder
<1>6. CASE Calendar!Start
  <2>1. Calendar!Begun("start") /\ ~up /\ UNCHANGED host
    BY <1>6 DEF Calendar!Start
  <2>2. DOMAIN passes' = DOMAIN passes \cup {begun + 1} /\ DOMAIN passes'[begun + 1].got = {} /\ DOMAIN passes = {}
    BY <2>1, CalendarBegun, CalendarEmpty DEF CalendarOnePass
  <2>3. cacheFile' = cache' /\ cache' \in {cacheFile, Calendar!Empty}
    BY <1>6 DEF Calendar!Start
  <2>4. \A s \in DOMAIN cache' : cache'[s] <= host[s]
    BY <2>3, CalendarEmpty DEF CalendarOrder
  <2> QED
    BY <2>1, <2>2, <2>3, <2>4 DEF CalendarOrder
<1>7. CASE Calendar!Stop
  <2>1. DOMAIN passes' = {} /\ ~up' /\ UNCHANGED <<host, cache, cacheFile>>
    BY <1>7, CalendarEmpty DEF Calendar!Stop
  <2> QED
    BY <2>1 DEF CalendarOrder
<1> QED
  BY <1>1, <1>2, <1>3, <1>4, <1>5, <1>6, <1>7 DEF Calendar!Next

\* The invariant of the calendars is kept.
LEMMA CalendarStep ==
  ASSUME CalendarInv, Calendar!Next \/ UNCHANGED Calendar!vars
  PROVE  CalendarInv'
<1>1. CASE Calendar!Next
  BY <1>1, CalendarTypesStep, CalendarOnePassStep, CalendarOrderStep DEF CalendarInv
<1>2. CASE UNCHANGED Calendar!vars
  <2> USE <1>2 DEF Calendar!vars, CalendarInv
  <2>1. CalendarTypes'
    BY DEF CalendarTypes, Calendar!TypeOK
  <2>2. CalendarOnePass' /\ CalendarOrder'
    BY DEF CalendarOnePass, CalendarOrder
  <2> QED
    BY <2>1, <2>2
<1> QED
  BY <1>1, <1>2

\* No step takes the cache back.
LEMMA CalendarNeverBack ==
  ASSUME CalendarInv, Calendar!Next \/ UNCHANGED Calendar!vars, up, up', ~crossed'
  PROVE  /\ DOMAIN cache \subseteq DOMAIN cache' /\ \A s \in DOMAIN cache : cache[s] <= cache'[s]
         /\ unsaved' \/ cacheFile' = cache'
<1>1. ASSUME UNCHANGED <<cache, cacheFile, unsaved>>
      PROVE  /\ DOMAIN cache \subseteq DOMAIN cache' /\ \A s \in DOMAIN cache : cache[s] <= cache'[s]
             /\ unsaved' \/ cacheFile' = cache'
  <2>1. \A s \in DOMAIN cache : cache[s] \in Nat
    BY CalendarFacts, CalendarVersions DEF CalendarInv
  <2>2. \A s \in DOMAIN cache : cache[s] <= cache'[s]
    BY <1>1, <2>1
  <2> QED
    BY <1>1, <2>2 DEF CalendarInv, CalendarOrder
<1>2. ASSUME NEW p \in DOMAIN passes, Calendar!PassEnds(p)
      PROVE  /\ DOMAIN cache \subseteq DOMAIN cache' /\ \A s \in DOMAIN cache : cache[s] <= cache'[s]
             /\ unsaved' \/ cacheFile' = cache'
  <2>1. ~crossed
    BY <1>2 DEF Calendar!PassEnds
  <2> QED
    BY <1>2, <2>1, CalendarEnds DEF CalendarInv
<1>3. ASSUME NEW p \in DOMAIN passes, Calendar!Fetched(p) \/ Calendar!FetchFails(p)
      PROVE  UNCHANGED <<cache, cacheFile, unsaved>>
  BY <1>3 DEF Calendar!Fetched, Calendar!FetchFails
<1>4. CASE Calendar!IntervalPasses \/ (\E s \in Calendar!Sources : Calendar!Publish(s)) \/ UNCHANGED Calendar!vars
  <2>1. UNCHANGED <<cache, cacheFile, unsaved>>
    BY <1>4 DEF Calendar!IntervalPasses, Calendar!Publish, Calendar!vars
  <2> QED
    BY <1>1, <2>1
<1>5. ~Calendar!Start /\ ~Calendar!Stop
  BY DEF Calendar!Start, Calendar!Stop
<1> QED
  BY <1>1, <1>2, <1>3, <1>4, <1>5 DEF Calendar!Next

-----------------------------------------------------------------------------
(* The configuration file.                                                 *)

\* The bounds are numbers.
LEMMA ReloadConstants == {MaxEdits, MaxReads, MaxStarts["hotReload"]} \subseteq Nat
BY FeaturesAssumption DEF HotReload!HotReloadAssumption

ReloadTypes ==
  /\ HotReload!TypeOK
  /\ reads \in [DOMAIN reads -> HotReload!Files \cup {HotReload!Unread}] /\ DOMAIN reads \subseteq 1 .. begun

\* Nobody watches before the first read is over; then it is the only one.
ReloadPhases ==
  /\ ~up => DOMAIN reads = {} /\ watched = "none" /\ ~debouncing /\ ~crossed
  /\ up /\ storePhase = "starting" => DOMAIN reads # {} /\ watched = "none" /\ ~debouncing /\ ~crossed
  /\ ~crossed => \A r, q \in DOMAIN reads : r = q

ReloadHolds == \A k \in DOMAIN configFile.holds : k \in DOMAIN current /\ current[k] = configFile.holds[k]

\* As long as every change was seen, what a read has found is what the file
\* holds, or the timer runs; and if neither the timer runs nor a read is under
\* way, the configuration in use holds what the file does.
ReloadFollows ==
  ~unseen /\ ~crossed /\ ~debouncing =>
    /\ \A r \in DOMAIN reads : reads[r] \in {HotReload!Unread, configFile}
    /\ up /\ storePhase = "watching" /\ DOMAIN reads = {} /\ configFile.kind = "good" => ReloadHolds

HotReloadInv == ReloadTypes /\ ReloadPhases /\ ReloadFollows

\* The settings and files that the definitions name are such.
LEMMA ReloadSettings ==
  /\ HotReload!Empty \in HotReload!Settings /\ DOMAIN HotReload!Empty = {} /\ {HotReload!Missing, HotReload!Bad} \subseteq HotReload!Files /\ HotReload!Unread \notin HotReload!Files
  /\ \A f \in HotReload!Files : f.holds \in HotReload!Settings
  /\ \A c \in [Keys -> Values] : HotReload!Good(c) \in HotReload!Files
<1>1. HotReload!Empty \in [{} -> Values] /\ DOMAIN HotReload!Empty = {}
  BY DEF HotReload!Empty
<1>2. HotReload!Empty \in HotReload!Settings
  BY <1>1 DEF HotReload!Settings
<1>3. \A f \in HotReload!Files : f.kind # "unread" /\ f.holds \in HotReload!Settings
  BY <1>2 DEF HotReload!Files, HotReload!Missing, HotReload!Bad, HotReload!Good
<1>4. HotReload!Unread.kind = "unread"
  BY DEF HotReload!Unread
<1>5. \A c \in [Keys -> Values] : c \in HotReload!Settings
  BY DEF HotReload!Settings
<1> QED
  BY <1>1, <1>2, <1>3, <1>4, <1>5 DEF HotReload!Files

\* Settings merged with settings are settings.
LEMMA ReloadMerged ==
  ASSUME NEW old \in HotReload!Settings, NEW new \in HotReload!Settings
  PROVE  HotReload!Merged(old, new) \in HotReload!Settings
<1>1. PICK S \in SUBSET Keys : old \in [S -> Values]
  BY DEF HotReload!Settings
<1>2. PICK T \in SUBSET Keys : new \in [T -> Values]
  BY DEF HotReload!Settings
<1>3. HotReload!Merged(old, new) \in [S \cup T -> Values]
  BY <1>1, <1>2 DEF HotReload!Merged
<1> QED
  BY <1>3 DEF HotReload!Settings

\* The invariant holds at the start.
LEMMA HotReloadStarts == HotReload!Init => HotReloadInv
<1> SUFFICES ASSUME HotReload!Init PROVE HotReloadInv
  OBVIOUS
<1>1. up = FALSE /\ debouncing = FALSE /\ unseen = FALSE /\ crossed = FALSE /\ watched = "none"
  BY DEF HotReload!Init
<1>2. current = HotReload!Empty /\ reads = HotReload!Empty /\ configFile \in HotReload!Files /\ DOMAIN HotReload!Empty = {} /\ HotReload!Empty \in HotReload!Settings
  BY ReloadSettings DEF HotReload!Init
<1>3. {edits, begun, starts} \subseteq Nat /\ storePhase = "starting"
  BY DEF HotReload!Init
<1>4. reads \in [DOMAIN reads -> HotReload!Files \cup {HotReload!Unread}]
  BY <1>2 DEF HotReload!Empty
<1> HIDE DEF HotReload!Empty
<1>5. {up, debouncing, unseen, crossed} \subseteq BOOLEAN
  BY <1>1
<1>6. ReloadTypes
  BY <1>1, <1>2, <1>3, <1>4, <1>5 DEF ReloadTypes, HotReload!TypeOK
<1> QED
  BY <1>1, <1>2, <1>3, <1>6 DEF HotReloadInv, ReloadPhases, ReloadFollows

\* The types of this state, taken apart.
LEMMA ReloadFacts ==
  ASSUME ReloadTypes
  PROVE  /\ {edits, begun, starts} \subseteq Nat /\ {up, debouncing, unseen, crossed} \subseteq BOOLEAN
         /\ configFile \in HotReload!Files /\ current \in HotReload!Settings
         /\ storePhase \in {"starting", "watching"} /\ watched \in {"none", "file", "old", "parent"}
         /\ reads \in [DOMAIN reads -> HotReload!Files \cup {HotReload!Unread}] /\ DOMAIN reads \subseteq 1 .. begun
BY DEF ReloadTypes, HotReload!TypeOK

\* The types of the next state, put together.
LEMMA ReloadTyped ==
  ASSUME {edits', begun', starts'} \subseteq Nat,
         {up', debouncing', unseen', crossed'} \subseteq BOOLEAN,
         configFile' \in HotReload!Files, current' \in HotReload!Settings,
         storePhase' \in {"starting", "watching"}, watched' \in {"none", "file", "old", "parent"},
         reads' \in [DOMAIN reads' -> HotReload!Files \cup {HotReload!Unread}], DOMAIN reads' \subseteq 1 .. begun'
  PROVE  ReloadTypes'
<1>1. \A r \in DOMAIN reads' : reads'[r] \in HotReload!Files \cup {HotReload!Unread}
  OBVIOUS
<1> QED
  BY <1>1 DEF ReloadTypes, HotReload!TypeOK

\* A read that begins has seen nothing yet; two at once have crossed.
LEMMA ReloadBegins ==
  ASSUME ReloadTypes, HotReload!BeginRead
  PROVE  /\ begun' = begun + 1 /\ begun' \in Nat
         /\ DOMAIN reads' = DOMAIN reads \cup {begun + 1} /\ DOMAIN reads' \subseteq 1 .. begun'
         /\ \A r \in DOMAIN reads : reads'[r] = reads[r]
         /\ reads'[begun + 1] = HotReload!Unread /\ reads' \in [DOMAIN reads' -> HotReload!Files \cup {HotReload!Unread}]
         /\ crossed' \in BOOLEAN /\ (~crossed' => ~crossed /\ DOMAIN reads = {})
         /\ DOMAIN reads = {} => crossed' = crossed
<1>1. begun \in Nat /\ begun' = begun + 1 /\ reads' = HotReload!Merged(reads, [r \in {begun + 1} |-> HotReload!Unread])
  BY ReloadFacts DEF HotReload!BeginRead
<1>2. DOMAIN reads \subseteq 1 .. begun /\ reads \in [DOMAIN reads -> HotReload!Files \cup {HotReload!Unread}]
  BY ReloadFacts
<1>3. begun + 1 \notin DOMAIN reads /\ DOMAIN reads \cup {begun + 1} \subseteq 1 .. begun + 1
  BY <1>1, <1>2
<1> HIDE DEF HotReload!Unread
<1>4. reads' = [r \in DOMAIN reads \cup {begun + 1} |-> IF r \in {begun + 1} THEN HotReload!Unread ELSE reads[r]]
  BY <1>1 DEF HotReload!Merged
<1>5. reads' \in [DOMAIN reads \cup {begun + 1} -> HotReload!Files \cup {HotReload!Unread}]
  BY <1>2, <1>4
<1>6. reads'[begun + 1] = HotReload!Unread /\ \A r \in DOMAIN reads : reads'[r] = reads[r]
  BY <1>3, <1>4
<1>7. crossed \in BOOLEAN /\ crossed' = (crossed \/ reads # HotReload!Empty) /\ DOMAIN HotReload!Empty = {}
  BY ReloadFacts, ReloadSettings DEF HotReload!BeginRead
<1>8. DOMAIN reads = {} => reads = HotReload!Empty
  BY <1>2 DEF HotReload!Empty
<1>9. crossed' \in BOOLEAN /\ (~crossed' => ~crossed /\ DOMAIN reads = {}) /\ (DOMAIN reads = {} => crossed' = crossed)
  BY <1>7, <1>8
<1>10. begun' \in Nat
  BY <1>1
<1> QED
  BY <1>1, <1>3, <1>5, <1>6, <1>9, <1>10

\* A read that ends leaves the others as they were.
LEMMA ReloadWithout ==
  ASSUME ReloadTypes, NEW r, reads' = HotReload!Without(reads, r), UNCHANGED begun
  PROVE  /\ DOMAIN reads' = DOMAIN reads \ {r} /\ \A q \in DOMAIN reads' : reads'[q] = reads[q]
         /\ reads' \in [DOMAIN reads' -> HotReload!Files \cup {HotReload!Unread}] /\ DOMAIN reads' \subseteq 1 .. begun'
BY DEF HotReload!Without, ReloadTypes

\* Every step keeps the types.
LEMMA ReloadTypesStep ==
  ASSUME ReloadTypes, HotReload!Next
  PROVE  ReloadTypes'
<1>1. ASSUME NEW f \in HotReload!Files, HotReload!Write(f) PROVE ReloadTypes'
  <2>1. UNCHANGED <<up, current, storePhase, reads, crossed, begun, starts>> /\ configFile' = f /\ edits' \in Nat
    BY <1>1, ReloadFacts DEF HotReload!Write
  <2>2. debouncing' \in BOOLEAN /\ unseen' \in BOOLEAN
    BY <1>1, ReloadFacts DEF HotReload!Write, HotReload!ScheduleApply
  <2>3. watched' \in {"none", "file", "old", "parent"}
    BY <1>1, ReloadFacts DEF HotReload!Write
  <2> QED
    BY <2>1, <2>2, <2>3, ReloadFacts, ReloadTyped
<1>2. ASSUME NEW f \in HotReload!Files, HotReload!Replace(f) PROVE ReloadTypes'
  <2>1. UNCHANGED <<up, current, storePhase, reads, crossed, begun, starts>> /\ configFile' = f /\ edits' \in Nat
    BY <1>2, ReloadFacts DEF HotReload!Replace
  <2>2. debouncing' \in BOOLEAN /\ unseen' \in BOOLEAN
    BY <1>2, ReloadFacts DEF HotReload!Replace, HotReload!ScheduleApply
  <2>3. watched' \in {"none", "file", "old", "parent"}
    BY <1>2, ReloadFacts DEF HotReload!Replace
  <2> QED
    BY <2>1, <2>2, <2>3, ReloadFacts, ReloadTyped
<1>3. ASSUME NEW r \in DOMAIN reads, HotReload!Read(r) PROVE ReloadTypes'
  <2>1. DOMAIN reads' = DOMAIN reads /\ reads' \in [DOMAIN reads' -> HotReload!Files \cup {HotReload!Unread}]
    BY <1>3, ReloadFacts DEF HotReload!Read
  <2> QED
    BY <1>3, <2>1, ReloadFacts, ReloadTyped DEF HotReload!Read
<1>4. ASSUME NEW r \in DOMAIN reads, HotReload!Started(r) \/ HotReload!Applied(r)
      PROVE  ReloadTypes'
  <2>1. /\ reads' \in [DOMAIN reads' -> HotReload!Files \cup {HotReload!Unread}] /\ DOMAIN reads' \subseteq 1 .. begun'
    BY <1>4, ReloadWithout DEF HotReload!Started, HotReload!Applied
  <2>2. reads[r].holds \in HotReload!Settings
    BY <1>4, ReloadFacts, ReloadSettings DEF HotReload!Started, HotReload!Applied,
       HotReload!HasRead
  <2>3. current' \in HotReload!Settings
    BY <1>4, <2>2, ReloadFacts, ReloadMerged DEF HotReload!Started, HotReload!Applied
  <2>4. UNCHANGED <<up, configFile, debouncing, unseen, crossed, edits, begun, starts>>
    BY <1>4 DEF HotReload!Started, HotReload!Applied
  <2>5. storePhase' \in {"starting", "watching"} /\ watched' \in {"none", "file", "old", "parent"}
    BY <1>4, ReloadFacts DEF HotReload!Started, HotReload!Applied
  <2> QED
    BY <2>1, <2>3, <2>4, <2>5, ReloadFacts, ReloadTyped
<1>5. CASE HotReload!Fires
  <2>1. HotReload!BeginRead /\ UNCHANGED <<up, configFile, current, storePhase, watched, unseen, edits, starts>> /\ debouncing' = FALSE
    BY <1>5 DEF HotReload!Fires
  <2>2. /\ begun' \in Nat /\ reads' \in [DOMAIN reads' -> HotReload!Files \cup {HotReload!Unread}] /\ DOMAIN reads' \subseteq 1 .. begun'
        /\ crossed' \in BOOLEAN
    BY <2>1, ReloadBegins
  <2> QED
    BY <2>1, <2>2, ReloadFacts, ReloadTyped
<1>6. CASE HotReload!Start
  <2>1. HotReload!BeginRead /\ UNCHANGED <<configFile, watched, debouncing, edits>> /\ current' = HotReload!Empty
    BY <1>6 DEF HotReload!Start
  <2>2. up' = TRUE /\ unseen' = FALSE /\ storePhase' = "starting"
    BY <1>6 DEF HotReload!Start
  <2>3. starts' \in Nat
    BY <1>6, ReloadFacts DEF HotReload!Start
  <2>4. /\ begun' \in Nat /\ reads' \in [DOMAIN reads' -> HotReload!Files \cup {HotReload!Unread}] /\ DOMAIN reads' \subseteq 1 .. begun'
        /\ crossed' \in BOOLEAN
    BY <2>1, ReloadBegins
  <2> QED
    BY <2>1, <2>2, <2>3, <2>4, ReloadFacts, ReloadSettings, ReloadTyped
<1>7. CASE HotReload!Stop
  <2>1. up' = FALSE /\ debouncing' = FALSE /\ crossed' = FALSE /\ watched' = "none" /\ reads' = HotReload!Empty
    BY <1>7 DEF HotReload!Stop
  <2>2. DOMAIN reads' = {} /\ reads' \in [DOMAIN reads' -> HotReload!Files \cup {HotReload!Unread}]
    BY <2>1 DEF HotReload!Empty
  <2>3. UNCHANGED <<configFile, current, storePhase, unseen, edits, begun, starts>>
    BY <1>7 DEF HotReload!Stop
  <2> QED
    BY <2>1, <2>2, <2>3, ReloadFacts, ReloadTyped
<1> QED
  BY <1>1, <1>2, <1>3, <1>4, <1>5, <1>6, <1>7 DEF HotReload!Next

\* A store that starts is reading and does not watch yet, and uncrossed reads are one at most.
LEMMA ReloadPhasesStep ==
  ASSUME ReloadTypes, ReloadPhases, HotReload!Next
  PROVE  ReloadPhases'
<1> USE DEF ReloadPhases
<1>1. ASSUME NEW f \in HotReload!Files, HotReload!Write(f) \/ HotReload!Replace(f)
      PROVE  ReloadPhases'
  <2>1. UNCHANGED <<up, storePhase, reads, crossed>>
    BY <1>1 DEF HotReload!Write, HotReload!Replace
  <2>2. watched = "none" => UNCHANGED <<watched, debouncing>>
    BY <1>1 DEF HotReload!Write, HotReload!Replace
  <2> QED
    BY <2>1, <2>2
<1>2. ASSUME NEW r \in DOMAIN reads, HotReload!Read(r) PROVE ReloadPhases'
  BY <1>2, ReloadFacts DEF HotReload!Read
<1>3. ASSUME NEW r \in DOMAIN reads, HotReload!Started(r) \/ HotReload!Applied(r)
      PROVE  ReloadPhases'
  <2>1. DOMAIN reads' = DOMAIN reads \ {r}
    BY <1>3, ReloadWithout DEF HotReload!Started, HotReload!Applied
  <2>2. up /\ up' /\ storePhase' = "watching" /\ UNCHANGED crossed
    BY <1>3 DEF HotReload!Started, HotReload!Applied, HotReload!HasRead
  <2> QED
    BY <2>1, <2>2
<1>4. CASE HotReload!Fires
  <2>1. HotReload!BeginRead /\ UNCHANGED <<up, storePhase, watched>> /\ up /\ debouncing
    BY <1>4 DEF HotReload!Fires
  <2>2. DOMAIN reads' = DOMAIN reads \cup {begun + 1} /\ (~crossed' => ~crossed /\ DOMAIN reads = {})
    BY <2>1, ReloadBegins
  <2> QED
    BY <2>1, <2>2, ReloadFacts
<1>5. CASE HotReload!Start
  <2>1. HotReload!BeginRead /\ ~up /\ up' /\ UNCHANGED <<watched, debouncing>>
    BY <1>5 DEF HotReload!Start
  <2>2. DOMAIN reads' = DOMAIN reads \cup {begun + 1} /\ (DOMAIN reads = {} => crossed' = crossed)
    BY <2>1, ReloadBegins
  <2> QED
    BY <2>1, <2>2
<1>6. CASE HotReload!Stop
  <2>1. DOMAIN reads' = {} /\ ~up' /\ watched' = "none" /\ ~debouncing' /\ ~crossed'
    BY <1>6, ReloadSettings DEF HotReload!Stop
  <2> QED
    BY <2>1
<1> QED
  BY <1>1, <1>2, <1>3, <1>4, <1>5, <1>6 DEF HotReload!Next

\* Once nothing is unseen or debounced, the reads and the settings follow the file.
LEMMA ReloadFollowsStep ==
  ASSUME ReloadTypes, ReloadPhases, ReloadFollows, HotReload!Next
  PROVE  ReloadFollows'
<1> USE DEF ReloadFollows
<1>1. ASSUME NEW f \in HotReload!Files, HotReload!Write(f) \/ HotReload!Replace(f)
      PROVE  ReloadFollows'
  <2>1. unseen' \/ debouncing'
    BY <1>1 DEF HotReload!Write, HotReload!Replace, HotReload!ScheduleApply
  <2> QED
    BY <2>1
<1>2. ASSUME NEW r \in DOMAIN reads, HotReload!Read(r) PROVE ReloadFollows'
  <2>1. /\ DOMAIN reads' = DOMAIN reads /\ reads'[r] = configFile
        /\ \A q \in DOMAIN reads : q # r => reads'[q] = reads[q]
        /\ UNCHANGED <<up, configFile, current, storePhase, debouncing, unseen, crossed>>
    BY <1>2, ReloadFacts DEF HotReload!Read
  <2> QED
    BY <2>1 DEF ReloadHolds
<1>3. ASSUME NEW r \in DOMAIN reads, HotReload!Started(r) \/ HotReload!Applied(r)
      PROVE  ReloadFollows'
  <2> SUFFICES ASSUME ~unseen', ~crossed', ~debouncing' PROVE ReloadFollows'
    OBVIOUS
  <2>1. UNCHANGED <<configFile, debouncing, unseen, crossed>> /\ reads[r] # HotReload!Unread
    BY <1>3 DEF HotReload!Started, HotReload!Applied, HotReload!HasRead
  <2>2. DOMAIN reads' = DOMAIN reads \ {r} /\ DOMAIN reads' = {}
    BY <1>3, <2>1, ReloadWithout DEF HotReload!Started, HotReload!Applied, ReloadPhases
  <2>3. reads[r] = configFile
    BY <2>1
  <2>4. configFile.kind = "good" => current' \in {configFile.holds, HotReload!Merged(current, configFile.holds)}
    BY <1>3, <2>3 DEF HotReload!Started, HotReload!Applied
  <2>5. configFile.kind = "good" => ReloadHolds'
    BY <2>1, <2>4 DEF ReloadHolds, HotReload!Merged
  <2> QED
    BY <2>1, <2>2, <2>5
<1>4. CASE HotReload!Fires
  <2>1. HotReload!BeginRead /\ UNCHANGED <<up, configFile, current, storePhase, unseen>>
    BY <1>4 DEF HotReload!Fires
  <2>2. /\ DOMAIN reads' = DOMAIN reads \cup {begun + 1} /\ reads'[begun + 1] = HotReload!Unread
        /\ ~crossed' => ~crossed /\ DOMAIN reads = {}
    BY <2>1, ReloadBegins
  <2> QED
    BY <2>2
<1>5. CASE HotReload!Start
  <2>1. HotReload!BeginRead /\ storePhase' = "starting"
    BY <1>5 DEF HotReload!Start
  <2>2. /\ DOMAIN reads' = DOMAIN reads \cup {begun + 1} /\ reads'[begun + 1] = HotReload!Unread
        /\ ~crossed' => ~crossed /\ DOMAIN reads = {}
    BY <2>1, ReloadBegins
  <2> QED
    BY <2>1, <2>2
<1>6. CASE HotReload!Stop
  <2>1. DOMAIN reads' = {} /\ ~up'
    BY <1>6, ReloadSettings DEF HotReload!Stop
  <2> QED
    BY <2>1
<1> QED
  BY <1>1, <1>2, <1>3, <1>4, <1>5, <1>6 DEF HotReload!Next

\* The invariant of the configuration is kept.
LEMMA HotReloadStep ==
  ASSUME HotReloadInv, HotReload!Next \/ UNCHANGED HotReload!vars
  PROVE  HotReloadInv'
<1>1. CASE HotReload!Next
  BY <1>1, ReloadTypesStep, ReloadPhasesStep, ReloadFollowsStep DEF HotReloadInv
<1>2. CASE UNCHANGED HotReload!vars
  <2> USE <1>2 DEF HotReload!vars, HotReloadInv
  <2>1. ReloadTypes'
    BY DEF ReloadTypes, HotReload!TypeOK
  <2>2. ReloadPhases' /\ ReloadFollows'
    BY DEF ReloadPhases, ReloadFollows, ReloadHolds
  <2> QED
    BY <2>1, <2>2
<1> QED
  BY <1>1, <1>2

\* It implies that the settings are those of the file when all has settled.
LEMMA HotReloadShows == HotReloadInv => HotReload!SettlesOnFile
<1> SUFFICES ASSUME HotReloadInv, HotReload!Quiet, ~unseen, ~crossed, configFile.kind = "good"
             PROVE  ReloadHolds
  BY DEF HotReload!SettlesOnFile, ReloadHolds
<1>1. DOMAIN reads = {} /\ ~debouncing /\ up /\ storePhase = "watching"
  BY ReloadSettings DEF HotReload!Quiet
<1> QED
  BY <1>1 DEF HotReloadInv, ReloadFollows

-----------------------------------------------------------------------------
\* Tiers and lengths are positive, snapshots are taken within their days.
LEMMA ArchiveNumbers ==
  /\ DayLength \in Nat \ {0} /\ WeekLength \in Nat \ {0} /\ MonthLength \in Nat \ {0}
  /\ DailyRetention \in Nat \ {0} /\ WeeklyRetention \in Nat \ {0}
  /\ Offsets \subseteq 0 .. DayLength - 1 /\ LastArchiveDay \in Nat /\ MaxMissed \in Nat
  /\ WeekLength <= MonthLength
<1>1. DayLength \in Nat \ {0}
  BY FeaturesAssumption DEF Announcements!AnnouncementsAssumption
<1>2. /\ {WeekLength, MonthLength, DailyRetention, WeeklyRetention, MonthlyRetention} \subseteq Nat \ {0}
      /\ WeekLength <= MonthLength
  BY FeaturesAssumption
<1>3. Offsets \subseteq 0 .. DayLength - 1 /\ {LastArchiveDay, MaxMissed} \subseteq Nat
  BY FeaturesAssumption DEF Archive!ArchiveAssumption
<1> QED
  BY <1>1, <1>2, <1>3

\* A second of a day belongs to that day.
LEMMA DayOf ==
  ASSUME NEW L \in Nat \ {0}, NEW d \in Nat, NEW o \in 0 .. L - 1
  PROVE  (d * L + o) \div L = d
<1>1. d * L \in Nat
  OBVIOUS
<1> QED
  BY <1>1, SMTT(30)

\* A later second is in the same group of a tier or a later one.
LEMMA GroupsAreOrdered ==
  ASSUME NEW L \in Nat \ {0}, NEW a \in Nat, NEW b \in Nat, a <= b
  PROVE  a \div L \in Nat /\ a \div L <= a /\ a \div L <= b \div L
BY SMTT(30)

\* Multiplication by a length keeps an order.
LEMMA TimesIsOrdered ==
  ASSUME NEW L \in Nat \ {0}, NEW a \in Nat, NEW b \in Nat, a <= b
  PROVE  a * L <= b * L
BY SMTT(30)

\* The seconds of the first days are bounded.
LEMMA WithinTheDays ==
  ASSUME NEW L \in Nat \ {0}, NEW d \in Nat, NEW o \in 0 .. L - 1, NEW last \in Nat,
         d + 1 <= last
  PROVE  d * L + o \in 0 .. last * L
BY TimesIsOrdered, SMTT(30)

\* Days of snapshots, in order.
LEMMA DaysInOrder ==
  ASSUME NEW L \in Nat \ {0}, NEW d \in Nat, NEW e \in Nat, NEW o \in 0 .. L - 1,
         NEW p \in 0 .. L - 1, d < e
  PROVE  d * L + o < e * L + p
<1>1. (d + 1) * L <= e * L
  BY TimesIsOrdered
<1>2. (d + 1) * L = d * L + L
  OBVIOUS
<1>3. d * L \in Nat /\ e * L \in Nat
  OBVIOUS
<1> HIDE DEF TimesIsOrdered
<1> QED
  BY <1>1, <1>2, <1>3

\* Less than n days back, not later in the day: fewer than n days between.
LEMMA FewDaysBetween ==
  ASSUME NEW L \in Nat \ {0}, NEW d \in Nat, NEW e \in Nat, NEW o \in 0 .. L - 1,
         NEW p \in 0 .. L - 1, o <= p, NEW n \in Nat, (e * L + p) - (d * L + o) < n * L
  PROVE  e < d + n
<1> SUFFICES ASSUME e >= d + n PROVE FALSE
  OBVIOUS
<1>1. (d + n) * L <= e * L
  BY TimesIsOrdered
<1>2. (d + n) * L = d * L + n * L
  OBVIOUS
<1>3. d * L \in Nat /\ e * L \in Nat /\ n * L \in Nat
  OBVIOUS
<1> QED
  BY <1>1, <1>2, <1>3

-----------------------------------------------------------------------------
\* Where fewer snapshots are eligible, one that is picked is picked still.
Groups(S, x, length) == {s \div length : s \in {r \in S : r \div length > x \div length}}

\* The groups after a snapshot are finitely many.
LEMMA GroupsFinite ==
  ASSUME NEW S, NEW N \in Nat, S \subseteq 0 .. N, NEW length \in Nat \ {0}, NEW x \in 0 .. N
  PROVE  /\ Groups(S, x, length) \subseteq (x \div length) + 1 .. N \div length
         /\ IsFiniteSet(Groups(S, x, length))
<1>1. ASSUME NEW g \in Groups(S, x, length) PROVE g \in (x \div length) + 1 .. N \div length
  <2>1. PICK r \in S : r \div length > x \div length /\ g = r \div length
    BY DEF Groups
  <2>2. r \in Nat /\ r <= N /\ x \in Nat /\ x <= N
    BY <2>1
  <2>3. r \div length \in Nat /\ r \div length <= N \div length /\ x \div length \in Nat /\ N \div length \in Nat
    BY <2>2, GroupsAreOrdered
  <2> QED
    BY <2>1, <2>3
<1>2. x \div length \in Nat /\ N \div length \in Nat
  BY GroupsAreOrdered
<1>3. IsFiniteSet((x \div length) + 1 .. N \div length)
  BY <1>2, FS_Interval
<1> QED
  BY <1>1, <1>3, FS_Subset

\* A tier keeps the newest of each of its newest groups.
LEMMA PickDefined ==
  ASSUME NEW S, NEW length, NEW limit
  PROVE  Archive!PickTierKeep(S, length, limit) =
           {t \in S : /\ \A s \in S : s \div length = t \div length => s <= t
                      /\ Archive!Cardinality(Groups(S, t, length)) < limit}
BY DEF Archive!PickTierKeep, Groups, Archive!Cardinality

\* What a tier keeps it still keeps when only older snapshots are added.
LEMMA PickFromFewer ==
  ASSUME NEW N \in Nat, NEW A, NEW B, B \subseteq 0 .. N, NEW length \in Nat \ {0},
         NEW limit \in Nat,
         NEW x \in A, x \in Archive!PickTierKeep(B, length, limit),
         \A s \in A : s > x => s \in B,
         A \subseteq 0 .. N
  PROVE  x \in Archive!PickTierKeep(A, length, limit)
<1>1. /\ x \in B
      /\ \A s \in B : s \div length = x \div length => s <= x
      /\ Archive!Cardinality(Groups(B, x, length)) < limit
  BY PickDefined
<1>2. ASSUME NEW s \in A, s \div length = x \div length PROVE s <= x
  <2>1. s \in Nat /\ x \in Nat
    OBVIOUS
  <2> QED
    BY <1>1, <1>2, <2>1
<1>3. Groups(A, x, length) \subseteq Groups(B, x, length)
  <2> SUFFICES ASSUME NEW r \in A, r \div length > x \div length PROVE r \in B
    BY DEF Groups
  <2>1. r \in Nat /\ x \in Nat
    OBVIOUS
  <2>2. r > x
    <3> SUFFICES ASSUME r <= x PROVE FALSE
      BY <2>1
    <3>1. r \div length <= x \div length /\ r \div length \in Nat /\ x \div length \in Nat
      BY <2>1, GroupsAreOrdered
    <3> QED
      BY <3>1
  <2> QED
    BY <2>2
<1>4. IsFiniteSet(Groups(B, x, length)) /\ IsFiniteSet(Groups(A, x, length))
  BY GroupsFinite, <1>1
<1>5. /\ Cardinality(Groups(A, x, length)) <= Cardinality(Groups(B, x, length))
      /\ Cardinality(Groups(A, x, length)) \in Nat /\ Cardinality(Groups(B, x, length)) \in Nat
  BY <1>3, <1>4, FS_Subset, FS_CardinalityType
<1>6. Archive!Cardinality(Groups(A, x, length)) < limit
  <2>1. /\ Archive!Cardinality(Groups(A, x, length)) = Cardinality(Groups(A, x, length))
        /\ Archive!Cardinality(Groups(B, x, length)) = Cardinality(Groups(B, x, length))
    BY DEF Archive!Cardinality, Cardinality
  <2> QED
    BY <1>1, <1>5, <2>1
<1> QED
  BY <1>2, <1>6, PickDefined

-----------------------------------------------------------------------------
\* One snapshot a day; while none came earlier in the day than the one before,
\* none came later in the day than the newest.
MadeInTheirDays ==
  /\ \A s \in made : \E d \in 0 .. day - 1, o \in 0 .. DayLength - 1 :
       s = d * DayLength + o /\ (steady => o <= offset)
  /\ \A r, s \in made : r \div DayLength = s \div DayLength => r = s
  /\ made # {} => \E d \in 0 .. day - 1 :
       d * DayLength + offset \in made /\ \A s \in made : s <= d * DayLength + offset

ArchiveInv == Archive!TypeOK /\ MadeInTheirDays /\ Archive!RecentKept

\* The newest snapshot made is the latest.
LEMMA LatestIs ==
  ASSUME NEW n \in made, \A s \in made : s <= n, made \subseteq Nat
  PROVE  Archive!Latest = n
<1>1. \E t \in made : \A s \in made : s <= t
  OBVIOUS
<1>2. Archive!Latest \in made /\ \A s \in made : s <= Archive!Latest
  BY <1>1 DEF Archive!Latest
<1>3. Archive!Latest \in Nat /\ n \in Nat /\ Archive!Latest <= n /\ n <= Archive!Latest
  BY <1>2
<1> HIDE DEF Archive!Latest
<1> QED
  BY <1>3

\* The days that are picked on the next day were picked already.
LEMMA DailyPickedBefore ==
  ASSUME NEW N \in Nat, NEW M, M \subseteq 0 .. N, NEW n \in M, NEW t \in 0 .. N, n < t,
         \A s \in M : s <= n,
         \A r, s \in M : r \div DayLength = s \div DayLength => r = s,
         NEW x \in M, x \in Archive!PickTierKeep(Archive!DailyCandidates(M \cup {t}, t), DayLength, DailyRetention)
  PROVE  x \in Archive!PickTierKeep(Archive!DailyCandidates(M, n), DayLength, DailyRetention)
<1> USE ArchiveNumbers
<1> DEFINE B == Archive!DailyCandidates(M \cup {t}, t)
           A == Archive!DailyCandidates(M, n)
<1>1. B = {s \in M \cup {t} : t - s < WeekLength} /\ A = {s \in M : n - s < WeekLength}
  BY DEF Archive!DailyCandidates, Archive!Age
<1>2. B \subseteq 0 .. N /\ A \subseteq 0 .. N
  BY <1>1
<1>3. x \in B
  BY PickDefined
<1>4. x \in Nat /\ n \in Nat /\ t \in Nat
  OBVIOUS
<1> HIDE DEF A, B
<1>5. x \in A
  <2>1. t - x < WeekLength
    BY <1>1, <1>3
  <2>2. n - x < WeekLength
    BY <1>4, <2>1
  <2> QED
    BY <1>1, <2>2
<1>6. ASSUME NEW s \in A, s > x PROVE s \in B
  <2>1. s \in M
    BY <1>1
  <2>4. s \in Nat
    BY <2>1
  <2>2. t - x < WeekLength
    BY <1>1, <1>3
  <2>3. t - s < WeekLength
    BY <2>1, <2>2, <2>4, <1>4, <1>6
  <2> QED
    BY <2>1, <2>3, <1>1
<1>7. x \in Archive!PickTierKeep(B, DayLength, DailyRetention)
  BY DEF B
<1>8. DayLength \in Nat \ {0} /\ DailyRetention \in Nat
  OBVIOUS
<1>9. x \in Archive!PickTierKeep(A, DayLength, DailyRetention)
  BY ONLY <1>2, <1>5, <1>6, <1>7, <1>8, PickFromFewer, N \in Nat
<1> QED
  BY <1>9 DEF A

\* So were the weeks, by a week or by a day.
LEMMA WeeklyPickedBefore ==
  ASSUME NEW N \in Nat, NEW M, M \subseteq 0 .. N, NEW n \in M, NEW t \in 0 .. N, n < t,
         \A s \in M : s <= n,
         NEW x \in M, n - x >= WeekLength,
         x \in Archive!PickTierKeep(Archive!WeeklyCandidates(M \cup {t}, t), WeekLength, WeeklyRetention)
  PROVE  x \in Archive!PickTierKeep(Archive!WeeklyCandidates(M, n), WeekLength, WeeklyRetention)
<1> USE ArchiveNumbers
<1> DEFINE B == Archive!WeeklyCandidates(M \cup {t}, t)
           A == Archive!WeeklyCandidates(M, n)
<1>1. /\ B = {s \in M \cup {t} : t - s >= WeekLength /\ t - s < MonthLength}
      /\ A = {s \in M : n - s >= WeekLength /\ n - s < MonthLength}
  BY DEF Archive!WeeklyCandidates, Archive!Age
<1>2. B \subseteq 0 .. N /\ A \subseteq 0 .. N
  BY <1>1
<1>3. x \in B
  BY PickDefined
<1>4. x \in Nat /\ n \in Nat /\ t \in Nat
  OBVIOUS
<1> HIDE DEF A, B
<1>5. x \in A
  <2>1. t - x < MonthLength
    BY <1>1, <1>3
  <2>2. n - x < MonthLength
    BY <1>4, <2>1
  <2> QED
    BY <1>1, <2>2
<1>6. ASSUME NEW s \in A, s > x PROVE s \in B
  <2>1. s \in M /\ n - s >= WeekLength
    BY <1>1
  <2>4. s \in Nat
    BY <2>1
  <2>2. t - x < MonthLength
    BY <1>1, <1>3
  <2>3. t - s < MonthLength /\ t - s >= WeekLength
    BY <2>1, <2>2, <2>4, <1>4, <1>6
  <2> QED
    BY <2>1, <2>3, <1>1
<1>7. x \in Archive!PickTierKeep(B, WeekLength, WeeklyRetention)
  BY DEF B
<1>8. WeekLength \in Nat \ {0} /\ WeeklyRetention \in Nat
  OBVIOUS
<1>9. x \in Archive!PickTierKeep(A, WeekLength, WeeklyRetention)
  BY ONLY <1>2, <1>5, <1>6, <1>7, <1>8, PickFromFewer, N \in Nat
<1> QED
  BY <1>9 DEF A

\* A snapshot of the last week was kept by the daily tier before, if that reaches so far.
LEMMA WeekOldWasADay ==
  ASSUME ArchiveInv, steady, WeekLength <= DailyRetention * DayLength,
         NEW n \in made, \A s \in made : s <= n, NEW e \in 0 .. day - 1, n = e * DayLength + offset,
         NEW x \in made, n - x < WeekLength
  PROVE  x \in Archive!PickTierKeep(Archive!DailyCandidates(made, n), DayLength, DailyRetention)
<1> USE ArchiveNumbers
<1> DEFINE A == Archive!DailyCandidates(made, n)
           N == LastArchiveDay * DayLength
<1>1. A = {s \in made : n - s < WeekLength}
  BY DEF Archive!DailyCandidates, Archive!Age
<1>2. x \in A
  BY <1>1
<1>3. offset \in 0 .. DayLength - 1 /\ day \in Nat /\ N \in Nat /\ made \subseteq 0 .. N
  BY DEF ArchiveInv, Archive!TypeOK
<1>4. PICK d \in 0 .. day - 1, o \in 0 .. DayLength - 1 : x = d * DayLength + o /\ o <= offset
  BY DEF ArchiveInv, MadeInTheirDays
<1>5. x \div DayLength = d /\ n \div DayLength = e
  BY <1>3, <1>4, DayOf
<1>6. e < d + DailyRetention
  <2>1. n - x < DailyRetention * DayLength
    <3>1. n \in Nat /\ x \in Nat
      BY <1>3
    <3>2. DailyRetention * DayLength \in Nat
      OBVIOUS
    <3> QED
      BY <3>1, <3>2
  <2>2. (e * DayLength + offset) - (d * DayLength + o) < DailyRetention * DayLength
    BY <2>1, <1>4
  <2>3. e \in Nat /\ d \in Nat
    BY <1>3
  <2> QED
    BY <2>2, <2>3, <1>3, <1>4, FewDaysBetween
<1>7. Groups(A, x, DayLength) \subseteq d + 1 .. e
  <2> SUFFICES ASSUME NEW r \in A, r \div DayLength > d PROVE r \div DayLength \in d + 1 .. e
    BY <1>5 DEF Groups
  <2>3. r \in made
    BY <1>1
  <2>4. r <= n
    BY <2>3
  <2>1. r \in Nat /\ n \in Nat /\ r <= n
    BY <1>3, <2>3, <2>4
  <2>2. r \div DayLength \in Nat /\ r \div DayLength <= n \div DayLength
    BY <2>1, GroupsAreOrdered
  <2> QED
    BY <2>2, <1>5, <1>3
<1>8. Cardinality(d + 1 .. e) < DailyRetention /\ IsFiniteSet(d + 1 .. e) /\ Cardinality(d + 1 .. e) \in Nat
  <2>1. d + 1 \in Int /\ e \in Int /\ d \in Nat /\ e \in Nat
    BY <1>3
  <2>2. IsFiniteSet(d + 1 .. e) /\ Cardinality(d + 1 .. e) = IF d + 1 > e THEN 0 ELSE e - (d + 1) + 1
    BY <2>1, FS_Interval
  <2> QED
    BY <2>1, <2>2, <1>6
<1>9. /\ Cardinality(Groups(A, x, DayLength)) <= Cardinality(d + 1 .. e)
      /\ Cardinality(Groups(A, x, DayLength)) \in Nat
  BY <1>7, <1>8, FS_Subset, FS_CardinalityType
<1>10. Archive!Cardinality(Groups(A, x, DayLength)) < DailyRetention
  <2>1. Archive!Cardinality(Groups(A, x, DayLength)) = Cardinality(Groups(A, x, DayLength))
    BY DEF Archive!Cardinality, Cardinality
  <2> QED
    BY <1>8, <1>9, <2>1
<1>11. \A s \in A : s \div DayLength = x \div DayLength => s <= x
  <2> SUFFICES ASSUME NEW s \in A, s \div DayLength = x \div DayLength PROVE s <= x
    OBVIOUS
  <2>1. s = x
    BY <1>1 DEF ArchiveInv, MadeInTheirDays
  <2> QED
    BY <2>1, <1>3
<1> HIDE DEF A
<1>12. x \in Archive!PickTierKeep(A, DayLength, DailyRetention)
  BY <1>2, <1>10, <1>11, PickDefined
<1> QED
  BY <1>12 DEF A

-----------------------------------------------------------------------------
(* The invariant of the archive.                                           *)

\* The invariant holds at the start.
LEMMA ArchiveStarts == Archive!Init => ArchiveInv
<1> SUFFICES ASSUME Archive!Init PROVE ArchiveInv
  OBVIOUS
<1> USE ArchiveNumbers
<1>1. day = 0 /\ offset = 0 /\ snapshots = {} /\ made = {} /\ missedDays = 0
  BY DEF Archive!Init
<1>2. steady = TRUE
  BY DEF Archive!Init
<1>3. Archive!TypeOK
  <2>1. LastArchiveDay * DayLength \in Nat
    OBVIOUS
  <2>2. steady \in BOOLEAN
    BY <1>2
  <2> QED
    BY <1>1, <2>1, <2>2 DEF Archive!TypeOK
<1>4. MadeInTheirDays /\ Archive!RecentKept
  BY <1>1 DEF MadeInTheirDays, Archive!RecentKept
<1> QED
  BY <1>3, <1>4 DEF ArchiveInv

\* A day's snapshot and plan keep the types.
LEMMA TakeKeepsTypes ==
  ASSUME ArchiveInv, NEW o \in Offsets, Archive!TakeSnapshot(o)
  PROVE  Archive!TypeOK' /\ day * DayLength + o \in 0 .. LastArchiveDay * DayLength
<1> USE ArchiveNumbers
<1> DEFINE t == day * DayLength + o
<1>1. /\ day < LastArchiveDay /\ day' = day + 1 /\ snapshots' = Archive!Keep(snapshots \cup {t}, t)
      /\ made' = made \cup {t} /\ offset' = o /\ missedDays' = missedDays
  BY DEF Archive!TakeSnapshot
<1>2. steady' \in BOOLEAN
  BY Zenon DEF Archive!TakeSnapshot
<1>3. Archive!TypeOK
  BY DEF ArchiveInv
<1>4. day \in Nat /\ o \in 0 .. DayLength - 1 /\ day + 1 <= LastArchiveDay
  BY <1>1, <1>3 DEF Archive!TypeOK
<1>5. t \in 0 .. LastArchiveDay * DayLength
  BY <1>4, WithinTheDays
<1> HIDE DEF t
<1>6. Archive!Keep(snapshots \cup {t}, t) \subseteq snapshots \cup {t}
  BY Zenon DEF Archive!Keep, Archive!PickTierKeep, Archive!DailyCandidates,
     Archive!WeeklyCandidates, Archive!MonthlyCandidates
<1>7. snapshots' \subseteq made' /\ made' \subseteq 0 .. LastArchiveDay * DayLength
  BY <1>1, <1>3, <1>5, <1>6 DEF Archive!TypeOK
<1>8. day' \in 0 .. LastArchiveDay /\ offset' \in 0 .. DayLength - 1 /\ missedDays' \in 0 .. MaxMissed
  BY <1>1, <1>3, <1>4 DEF Archive!TypeOK
<1> QED
  BY <1>2, <1>5, <1>7, <1>8 DEF Archive!TypeOK, t

\* There is one snapshot a day at most, and the new one is the newest.
LEMMA TakeKeepsDays ==
  ASSUME ArchiveInv, NEW o \in Offsets, Archive!TakeSnapshot(o)
  PROVE  /\ MadeInTheirDays'
         /\ \A s \in made : s < day * DayLength + o
<1> USE ArchiveNumbers
<1> DEFINE t == day * DayLength + o
<1>1. day' = day + 1 /\ made' = made \cup {t} /\ offset' = o
  BY DEF Archive!TakeSnapshot
<1>2. steady' <=> steady /\ o >= offset
  BY Zenon DEF Archive!TakeSnapshot
<1>3. Archive!TypeOK /\ MadeInTheirDays
  BY DEF ArchiveInv
<1>4. day \in Nat /\ o \in 0 .. DayLength - 1 /\ offset \in 0 .. DayLength - 1
  BY <1>3 DEF Archive!TypeOK
<1>5. t \div DayLength = day
  BY <1>4, DayOf
<1>6. ASSUME NEW s \in made
      PROVE  /\ s < t
             /\ s \div DayLength < day
             /\ \E d \in 0 .. day' - 1, p \in 0 .. DayLength - 1 :
                  s = d * DayLength + p /\ (steady' => p <= offset')
  <2>1. PICK d \in 0 .. day - 1, p \in 0 .. DayLength - 1 :
          s = d * DayLength + p /\ (steady => p <= offset)
    BY <1>3 DEF MadeInTheirDays
  <2>2. d \in Nat /\ d < day
    BY <1>4
  <2>3. s < t
    BY <1>4, <2>1, <2>2, DaysInOrder
  <2>4. s \div DayLength = d
    BY <2>1, <2>2, DayOf
  <2>5. steady' => p <= offset'
    <3>1. steady' => p <= offset /\ offset <= o
      BY <1>2, <2>1, <1>4
    <3>2. p \in Nat /\ offset \in Nat /\ o \in Nat
      BY <1>4
    <3>3. p <= offset /\ offset <= o => p <= o
      BY <3>2
    <3> QED
      BY <3>1, <3>3, <1>1
  <2>6. d \in 0 .. day' - 1
    BY <1>1, <1>4
  <2> QED
    BY <2>1, <2>2, <2>3, <2>4, <2>5, <2>6
<1>7. \E d \in 0 .. day' - 1, p \in 0 .. DayLength - 1 :
        t = d * DayLength + p /\ (steady' => p <= offset')
  <2>1. day \in 0 .. day' - 1
    BY <1>1, <1>4
  <2>2. o <= offset'
    BY <1>1, <1>4
  <2> QED
    BY <1>4, <2>1, <2>2
<1> HIDE DEF t
<1>8. \A s \in made' : \E d \in 0 .. day' - 1, p \in 0 .. DayLength - 1 :
        s = d * DayLength + p /\ (steady' => p <= offset')
  BY <1>1, <1>6, <1>7
<1>9. ASSUME NEW r \in made', NEW s \in made', r \div DayLength = s \div DayLength PROVE r = s
  <2>1. CASE r \in made /\ s \in made
    BY <1>3, <1>9, <2>1 DEF MadeInTheirDays
  <2>2. CASE r = t /\ s = t
    BY <2>2
  <2>3. CASE r \in made /\ s = t
    <3>1. r \div DayLength < day
      BY <1>6, <2>3
    <3> QED
      BY <1>5, <1>9, <2>3, <3>1, <1>4
  <2>4. CASE s \in made /\ r = t
    <3>1. s \div DayLength < day
      BY <1>6, <2>4
    <3> QED
      BY <1>5, <1>9, <2>4, <3>1, <1>4
  <2> QED
    BY <1>1, <2>1, <2>2, <2>3, <2>4
<1>10. day \in 0 .. day' - 1 /\ day * DayLength + offset' = t /\ t \in made' /\ \A s \in made' : s <= t
  <2>1. \A s \in made : s <= t
    <3>1. \A s \in made : s \in Nat
      BY <1>3 DEF Archive!TypeOK
    <3>2. t \in Nat
      BY <1>4 DEF t
    <3> QED
      BY <1>6, <3>1, <3>2
  <2>2. t <= t /\ day \in 0 .. day' - 1
    BY <1>1, <1>4 DEF t
  <2>3. day * DayLength + offset' = t
    BY <1>1 DEF t
  <2> QED
    BY <1>1, <2>1, <2>2, <2>3
<1>11. MadeInTheirDays'
  BY <1>8, <1>9, <1>10 DEF MadeInTheirDays
<1> QED
  BY <1>6, <1>11 DEF t

\* What the plan keeps of what was left is what it would keep of all.
LEMMA TakeKeepsRecent ==
  ASSUME ArchiveInv, NEW o \in Offsets, Archive!TakeSnapshot(o)
  PROVE  Archive!RecentKept'
<1> USE ArchiveNumbers
<1> DEFINE t == day * DayLength + o
           N == LastArchiveDay * DayLength
<1>1. snapshots' = Archive!Keep(snapshots \cup {t}, t) /\ made' = made \cup {t}
  BY DEF Archive!TakeSnapshot
<1>2. steady' => steady
  BY Zenon DEF Archive!TakeSnapshot
<1>3. Archive!TypeOK /\ MadeInTheirDays /\ Archive!RecentKept
  BY DEF ArchiveInv
<1>4. Archive!TypeOK' /\ t \in 0 .. N
  BY TakeKeepsTypes
<1>5. \A s \in made : s < t
  BY TakeKeepsDays
<1>6. N \in Nat /\ made \subseteq 0 .. N /\ snapshots \subseteq made
  <2>1. N \in Nat
    OBVIOUS
  <2> QED
    BY <1>3, <2>1 DEF Archive!TypeOK
<1> HIDE DEF t, N
<1>7. Archive!Latest' = t
  <2>1. \A s \in made : s <= t
    BY <1>4, <1>5, <1>6
  <2>2. t \in made' /\ (\A s \in made' : s <= t) /\ made' \subseteq Nat
    BY <1>1, <1>4, <1>6, <2>1
  <2>3. \E x \in made' : \A s \in made' : s <= x
    BY <2>2
  <2>4. Archive!Latest' = CHOOSE x \in made' : \A s \in made' : s <= x
    BY DEF Archive!Latest
  <2>5. Archive!Latest' \in made' /\ \A s \in made' : s <= Archive!Latest'
    BY <2>3, <2>4
  <2>6. Archive!Latest' \in Nat /\ t \in Nat /\ Archive!Latest' <= t /\ t <= Archive!Latest'
    BY <2>2, <2>5
  <2> QED
    BY <2>6
<1> SUFFICES ASSUME steady'
             PROVE  /\ Archive!PickTierKeep(Archive!DailyCandidates(made', t), DayLength, DailyRetention) \subseteq snapshots'
                    /\ WeekLength <= DailyRetention * DayLength =>
                         Archive!PickTierKeep(Archive!WeeklyCandidates(made', t), WeekLength, WeeklyRetention)
                           \subseteq snapshots'
  BY <1>7 DEF Archive!RecentKept
<1>8. steady
  BY <1>2
\* The newest before this one.
<1>9. ASSUME made # {}
      PROVE  \E n \in made : \E e \in 0 .. day - 1 :
               /\ n = e * DayLength + offset /\ \A s \in made : s <= n
               /\ Archive!PickTierKeep(Archive!DailyCandidates(made, n), DayLength, DailyRetention) \subseteq snapshots
               /\ WeekLength <= DailyRetention * DayLength =>
                    Archive!PickTierKeep(Archive!WeeklyCandidates(made, n), WeekLength, WeeklyRetention) \subseteq snapshots
  <2>1. PICK e \in 0 .. day - 1 :
          e * DayLength + offset \in made /\ \A s \in made : s <= e * DayLength + offset
    BY <1>3, <1>9 DEF MadeInTheirDays
  <2> DEFINE n == e * DayLength + offset
  <2>2. n \in made /\ \A s \in made : s <= n
    BY <2>1
  <2> HIDE DEF n
  <2>3. made \subseteq Nat
    BY <1>6
  <2>4. Archive!Latest = n
    BY <2>2, <2>3, LatestIs
  <2>5. /\ Archive!PickTierKeep(Archive!DailyCandidates(made, n), DayLength, DailyRetention) \subseteq snapshots
        /\ WeekLength <= DailyRetention * DayLength =>
             Archive!PickTierKeep(Archive!WeeklyCandidates(made, n), WeekLength, WeeklyRetention) \subseteq snapshots
    BY <1>3, <1>8, <1>9, <2>4 DEF Archive!RecentKept
  <2>6. n = e * DayLength + offset
    BY DEF n
  <2> QED
    BY <2>2, <2>5, <2>6
<1>10. ASSUME NEW x \in Archive!PickTierKeep(Archive!DailyCandidates(made', t), DayLength, DailyRetention)
       PROVE  x \in snapshots'
  <2> DEFINE B == Archive!DailyCandidates(made', t)
             A == Archive!DailyCandidates(snapshots \cup {t}, t)
  <2>1. B = {s \in made \cup {t} : t - s < WeekLength} /\ A = {s \in snapshots \cup {t} : t - s < WeekLength}
    BY <1>1 DEF Archive!DailyCandidates, Archive!Age
  <2>2. B \subseteq 0 .. N /\ A \subseteq B
    BY <2>1, <1>4, <1>6
  <2>3. x \in B
    BY PickDefined
  <2>4. x \in snapshots \cup {t}
    <3>1. CASE x = t
      BY <3>1
    <3>2. CASE x # t
      <4>1. x \in made
        BY <2>1, <2>3, <3>2
      <4>2. PICK n \in made : \E e \in 0 .. day - 1 :
               /\ n = e * DayLength + offset /\ \A s \in made : s <= n
               /\ Archive!PickTierKeep(Archive!DailyCandidates(made, n), DayLength, DailyRetention) \subseteq snapshots
        BY <1>9, <4>1
      <4>3. x \in Archive!PickTierKeep(Archive!DailyCandidates(made \cup {t}, t), DayLength, DailyRetention)
        BY <1>1
      <4>4. \A r, s \in made : r \div DayLength = s \div DayLength => r = s
        BY <1>3 DEF MadeInTheirDays
      <4>5. n < t /\ \A s \in made : s <= n
        BY <1>5, <4>2
      <4>6. x \in Archive!PickTierKeep(Archive!DailyCandidates(made, n), DayLength, DailyRetention)
        BY ONLY <1>4, <1>6, <4>1, <4>3, <4>4, <4>5, DailyPickedBefore
      <4> QED
        BY <4>2, <4>6
    <3> QED
      BY <3>1, <3>2
  <2>5. x \in A
    BY <2>1, <2>3, <2>4
  <2> HIDE DEF A, B
  <2>6. x \in Archive!PickTierKeep(B, DayLength, DailyRetention)
    BY DEF B
  <2>7. x \in Archive!PickTierKeep(A, DayLength, DailyRetention)
    <3>1. \A s \in A : s > x => s \in B
      BY <2>2
    <3>2. DayLength \in Nat \ {0} /\ DailyRetention \in Nat /\ A \subseteq 0 .. N
      BY <2>2
    <3> QED
      BY ONLY <1>6, <2>2, <2>5, <2>6, <3>1, <3>2, PickFromFewer
  <2> QED
    BY <1>1, <2>7, Zenon DEF Archive!Keep, A
<1>11. ASSUME WeekLength <= DailyRetention * DayLength,
              NEW x \in Archive!PickTierKeep(Archive!WeeklyCandidates(made', t), WeekLength, WeeklyRetention)
       PROVE  x \in snapshots'
  <2> DEFINE B == Archive!WeeklyCandidates(made', t)
             A == Archive!WeeklyCandidates(snapshots \cup {t}, t)
  <2>1. /\ B = {s \in made \cup {t} : t - s >= WeekLength /\ t - s < MonthLength}
        /\ A = {s \in snapshots \cup {t} : t - s >= WeekLength /\ t - s < MonthLength}
    BY <1>1 DEF Archive!WeeklyCandidates, Archive!Age
  <2>2. B \subseteq 0 .. N /\ A \subseteq B
    BY <2>1, <1>4, <1>6
  <2>3. x \in B
    BY PickDefined
  <2>4. x \in made
    <3>1. x # t
      <4>1. t - x >= WeekLength
        BY <2>1, <2>3
      <4>2. t \in Nat /\ WeekLength \in Nat \ {0}
        BY <1>4
      <4> QED
        BY <4>1, <4>2
    <3> QED
      BY <2>1, <2>3, <3>1
  <2>5. PICK n \in made : \E e \in 0 .. day - 1 :
           /\ n = e * DayLength + offset /\ \A s \in made : s <= n
           /\ Archive!PickTierKeep(Archive!DailyCandidates(made, n), DayLength, DailyRetention) \subseteq snapshots
           /\ WeekLength <= DailyRetention * DayLength =>
                Archive!PickTierKeep(Archive!WeeklyCandidates(made, n), WeekLength, WeeklyRetention) \subseteq snapshots
    BY <1>9, <2>4
  <2>6. x \in snapshots
    <3>1. CASE n - x >= WeekLength
      <4>1. x \in Archive!PickTierKeep(Archive!WeeklyCandidates(made \cup {t}, t), WeekLength, WeeklyRetention)
        BY <1>1
      <4>2. n < t /\ \A s \in made : s <= n
        BY <1>5, <2>5
      <4>3. x \in Archive!PickTierKeep(Archive!WeeklyCandidates(made, n), WeekLength, WeeklyRetention)
        BY ONLY <1>4, <1>6, <2>4, <3>1, <4>1, <4>2, WeeklyPickedBefore
      <4> QED
        BY <2>5, <4>3, <1>11
    <3>2. CASE n - x < WeekLength
      <4>1. PICK e \in 0 .. day - 1 : n = e * DayLength + offset
        BY <2>5
      <4>2. \A s \in made : s <= n
        BY <2>5
      <4>3. x \in Archive!PickTierKeep(Archive!DailyCandidates(made, n), DayLength, DailyRetention)
        BY <1>8, <1>11, <2>4, <3>2, <4>1, <4>2, WeekOldWasADay
      <4> QED
        BY <2>5, <4>3
    <3>3. n \in Nat /\ x \in Nat
      BY <1>6, <2>4
    <3>4. n - x >= WeekLength \/ n - x < WeekLength
      BY <3>3
    <3> QED
      BY <3>1, <3>2, <3>4
  <2>7. x \in A
    BY <2>1, <2>3, <2>6
  <2> HIDE DEF A, B
  <2>8. x \in Archive!PickTierKeep(B, WeekLength, WeeklyRetention)
    BY DEF B
  <2>9. x \in Archive!PickTierKeep(A, WeekLength, WeeklyRetention)
    <3>1. \A s \in A : s > x => s \in B
      BY <2>2
    <3>2. WeekLength \in Nat \ {0} /\ WeeklyRetention \in Nat /\ A \subseteq 0 .. N
      BY <2>2
    <3> QED
      BY ONLY <1>6, <2>2, <2>7, <2>8, <3>1, <3>2, PickFromFewer
  <2> QED
    BY <1>1, <2>9, Zenon DEF Archive!Keep, A
<1> QED
  BY <1>10, <1>11

\* The invariant of the archive is kept.
LEMMA ArchiveStep ==
  ASSUME ArchiveInv, Archive!Next \/ UNCHANGED Archive!vars
  PROVE  ArchiveInv'
<1>1. ASSUME NEW o \in Offsets, Archive!TakeSnapshot(o) PROVE ArchiveInv'
  BY <1>1, TakeKeepsTypes, TakeKeepsDays, TakeKeepsRecent DEF ArchiveInv
<1>2. ASSUME UNCHANGED <<offset, snapshots, made, steady>>,
             day' = day \/ (day' = day + 1 /\ day < LastArchiveDay),
             missedDays' \in 0 .. MaxMissed
      PROVE  ArchiveInv'
  <2> USE ArchiveNumbers
  <2>1. Archive!TypeOK /\ MadeInTheirDays /\ Archive!RecentKept
    BY DEF ArchiveInv
  <2>2. day \in 0 .. LastArchiveDay
    BY <2>1 DEF Archive!TypeOK
  <2>3. day' \in 0 .. LastArchiveDay /\ day - 1 <= day' - 1 /\ day - 1 \in Int /\ day' - 1 \in Int
    BY <1>2, <2>2
  <2>4. Archive!TypeOK'
    BY <1>2, <2>1, <2>3 DEF Archive!TypeOK
  <2>5. 0 .. day - 1 \subseteq 0 .. day' - 1
    BY <2>3
  <2>6. MadeInTheirDays'
    <3>1. /\ \A s \in made : \E d \in 0 .. day' - 1, o \in 0 .. DayLength - 1 :
               s = d * DayLength + o /\ (steady => o <= offset)
          /\ made # {} => \E d \in 0 .. day' - 1 :
               d * DayLength + offset \in made /\ \A s \in made : s <= d * DayLength + offset
      BY <2>1, <2>5 DEF MadeInTheirDays
    <3>2. \A r, s \in made : r \div DayLength = s \div DayLength => r = s
      BY <2>1 DEF MadeInTheirDays
    <3> QED
      BY <1>2, <3>1, <3>2 DEF MadeInTheirDays
  <2>7. Archive!RecentKept'
    BY <1>2, <2>1 DEF Archive!RecentKept, Archive!Latest
  <2> QED
    BY <2>4, <2>6, <2>7 DEF ArchiveInv
<1>3. CASE Archive!MissDay
  <2>1. missedDays' \in 0 .. MaxMissed
    BY <1>3, ArchiveNumbers DEF Archive!MissDay, ArchiveInv, Archive!TypeOK
  <2> QED
    BY <1>2, <1>3, <2>1 DEF Archive!MissDay
<1>4. CASE UNCHANGED Archive!vars
  <2>1. missedDays' \in 0 .. MaxMissed
    BY <1>4 DEF Archive!vars, ArchiveInv, Archive!TypeOK
  <2>2. UNCHANGED <<offset, snapshots, made, steady>>
    BY <1>4 DEF Archive!vars
  <2>3. day' = day \/ (day' = day + 1 /\ day < LastArchiveDay)
    BY <1>4 DEF Archive!vars
  <2> QED
    BY ONLY ArchiveInv, <1>2, <2>1, <2>2, <2>3
<1> QED
  BY <1>1, <1>3, <1>4 DEF Archive!Next
=============================================================================
