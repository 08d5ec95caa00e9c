------------------------------ MODULE Birthday ------------------------------
(***************************************************************************)
(* Birthdays: /birthday set and remove over data/birthdays.json, and the   *)
(* tick at midnight (JST), which takes the role from yesterday's members   *)
(* and gives it to today's.                                                *)
(*                                                                         *)
(* A command loads, and saves what it loaded with its change, a few        *)
(* microtasks later: only commands that arrive together meet in between.   *)
(* The tick awaits Discord for every member.  The file is replaced by      *)
(* rename(2), so it is never torn; an operator may damage it by hand.      *)
(***************************************************************************)
EXTENDS Naturals, FiniteSets

CONSTANTS
  Users,
  YearLength,    \* days in a year; a date is a day of the year
  LastDay,       \* bound: the clock stops there
  MaxCommands,   \* bound: commands, deletions and changes of consent
  MaxStarts,     \* bound: starts of the process
  MaxFaults      \* bound: failed requests, stops, damage to the file

BirthdayAssumption ==
  /\ IsFiniteSet(Users) /\ YearLength \in Nat \ {0, 1}
  /\ {LastDay, MaxCommands, MaxStarts, MaxFaults} \subseteq Nat

VARIABLES
  day,           \* the clock
  consent,       \* users with an active grant for profile
  registry,      \* data/birthdays.json: the date of each registered user
  commandsOpen,  \* commands between their load and their save
  role,          \* members who have the birthday role
  phase,         \* "down", "asleep" until the timer, or the tick: "removing", "giving"
  wakeDay,       \* the day the timer fires
  todo,          \* members the tick has yet to visit
  told,          \* history: the dates users were told are registered
  lost,          \* history: a command wrote back what another had changed
  strayed,       \* history: members whose role the tick does not find or could not take
  skipped,       \* history: members whom a tick failed to give the role
  commands, starts, faults   \* counters of the bounds

store == <<registry, told, lost>>
loop == <<phase, wakeDay, todo>>
vars == <<day, consent, registry, commandsOpen, role, phase, wakeDay, todo, told, lost, strayed,
          skipped, commands, starts, faults>>

Dates == 0 .. YearLength - 1
DateOf(d) == d % YearLength
Registries == UNION {[us -> Dates] : us \in SUBSET Users}
Empty == [u \in {} |-> 0]
Put(f, u, x) == [v \in DOMAIN f \cup {u} |-> IF v = u THEN x ELSE f[v]]
Without(f, u) == [v \in DOMAIN f \ {u} |-> f[v]]
Running == phase # "down"

Init ==
  /\ day = 0 /\ consent \in SUBSET Users
  /\ registry = [kind |-> "missing", dates |-> Empty]
  /\ commandsOpen = Empty /\ role = {}
  /\ phase = "down" /\ wakeDay = 0 /\ todo = {}
  /\ told = Empty /\ lost = FALSE /\ strayed = {} /\ skipped = {}
  /\ commands = 0 /\ starts = 0 /\ faults = 0

Command == commands < MaxCommands /\ commands' = commands + 1
Fault == faults < MaxFaults /\ faults' = faults + 1

-----------------------------------------------------------------------------
(* The storage and the commands.                                           *)

\* load: a missing file holds nobody, a damaged one throws.
Loadable == registry.kind # "damaged"
Birthdays == registry.dates

\* Mutant: what is in the file and not in memory stays.
SaveMerged(dates) ==
  /\ Loadable
  /\ registry' = [kind |-> "ok",
                  dates |-> [u \in DOMAIN Birthdays \cup DOMAIN dates |->
                               IF u \in DOMAIN dates THEN dates[u] ELSE Birthdays[u]]]

\* save refuses to replace a file it cannot read.
Save(dates) == Loadable /\ registry' = [kind |-> "ok", dates |-> dates]

\* From a changed registration the tick can no longer tell who has the role.
Forgets(dates) ==
  strayed' = strayed \cup {u \in role \cap DOMAIN Birthdays : u \notin DOMAIN dates \/ dates[u] # Birthdays[u]}

SetBegin(u, d) ==
  /\ Running /\ Command /\ Loadable
  /\ u \notin DOMAIN commandsOpen /\ u \in consent
  /\ commandsOpen' = Put(commandsOpen, u, [next |-> Put(Birthdays, u, d), base |-> Birthdays])
  /\ UNCHANGED <<day, consent, store, role, loop, strayed, skipped, starts, faults>>

RemoveBegin(u) ==
  /\ Running /\ Command /\ Loadable
  /\ u \in DOMAIN Birthdays \ DOMAIN commandsOpen
  /\ commandsOpen' = Put(commandsOpen, u, [next |-> Without(Birthdays, u), base |-> Birthdays])
  /\ UNCHANGED <<day, consent, store, role, loop, strayed, skipped, starts, faults>>

CommandSaves(u) ==
  LET next == commandsOpen[u].next
  IN /\ u \in DOMAIN commandsOpen
     /\ Save(next)
     /\ commandsOpen' = Without(commandsOpen, u)
     /\ lost' = (lost \/ commandsOpen[u].base # Birthdays)
     /\ told' = CASE lost' -> Empty
                  [] ~lost' /\ u \in DOMAIN next -> Put(told, u, next[u])
                  [] ~lost' /\ u \notin DOMAIN next -> Without(told, u)
     /\ Forgets(next)
     /\ UNCHANGED <<day, consent, role, loop, skipped, commands, starts, faults>>

\* The adapter of /privacy delete.
ForgetUser(u) ==
  /\ Running /\ Command
  /\ u \in DOMAIN Birthdays
  /\ Save(Without(Birthdays, u))
  /\ told' = Without(told, u)
  /\ Forgets(Without(Birthdays, u))
  /\ UNCHANGED <<day, consent, commandsOpen, role, loop, lost, skipped, starts, faults>>

ChangeConsent(u) ==
  /\ Command
  /\ consent' = IF u \in consent THEN consent \ {u} ELSE consent \cup {u}
  /\ UNCHANGED <<day, store, commandsOpen, role, loop, strayed, skipped, starts, faults>>

\* What cannot be read any more is gone for the tick as well.
DamageFile ==
  /\ registry.kind = "ok" /\ Fault
  /\ registry' = [kind |-> "damaged", dates |-> Empty]
  /\ lost' = TRUE /\ told' = Empty
  /\ strayed' = strayed \cup role
  /\ UNCHANGED <<day, consent, commandsOpen, role, loop, skipped, commands, starts>>

-----------------------------------------------------------------------------
(* The daily loop.                                                         *)

\* Mutant: the timer sleeps a day too long.
ScheduleLate == phase' = "asleep" /\ wakeDay' = day + 2

\* scheduleDailyLoop
Schedule == phase' = "asleep" /\ wakeDay' = day + 1

Start ==
  /\ phase = "down" /\ starts < MaxStarts
  /\ Schedule /\ starts' = starts + 1
  /\ UNCHANGED <<day, consent, store, commandsOpen, role, todo, strayed, skipped, commands, faults>>

Stop ==
  /\ Running /\ Fault
  /\ phase' = "down" /\ wakeDay' = 0 /\ todo' = {}
  /\ strayed' = strayed \cup (role \cap (CASE phase = "removing" -> todo
                                         [] phase = "asleep" /\ wakeDay = day -> role
                                         [] OTHER -> {}))
  /\ UNCHANGED <<day, consent, store, commandsOpen, role, skipped, commands, starts>>

\* The timer fires and the tick ends well within a day.  Without a process
\* nobody takes the roles back.
NextDay ==
  /\ day < LastDay
  /\ phase = "down" \/ (phase = "asleep" /\ wakeDay > day)
  /\ day' = day + 1
  /\ strayed' = IF phase = "down" THEN strayed \cup role ELSE strayed
  /\ UNCHANGED <<consent, store, commandsOpen, role, loop, skipped, commands, starts, faults>>

\* Mutant: of those who have a grant.
OnConsenting(date) == {u \in DOMAIN Birthdays \cap consent : Birthdays[u] = date}

\* selectBirthdaysOnDate over what the file says now.
On(date) == {u \in DOMAIN Birthdays : Birthdays[u] = date}

\* runRemoveTick(yesterday) loads; a file that does not load ends it.
BeginTick ==
  /\ phase = "asleep" /\ wakeDay = day
  /\ phase' = "removing"
  /\ todo' = On(DateOf(day - 1))
  /\ UNCHANGED <<day, consent, store, commandsOpen, role, wakeDay, strayed, skipped, commands, starts, faults>>

\* A member who does not have the role is passed over.
TakeRole(u) ==
  /\ phase = "removing" /\ u \in todo
  /\ todo' = todo \ {u} /\ role' = role \ {u} /\ strayed' = strayed \ {u}
  /\ UNCHANGED <<day, consent, store, commandsOpen, phase, wakeDay, skipped, commands, starts, faults>>

TakeFails(u) ==
  /\ phase = "removing" /\ u \in todo /\ Fault
  /\ todo' = todo \ {u} /\ strayed' = strayed \cup ({u} \cap role)
  /\ UNCHANGED <<day, consent, store, commandsOpen, role, phase, wakeDay, skipped, commands, starts>>

\* Mutant: the roles are given a day late.
RemovalDoneLate ==
  /\ phase = "removing" /\ todo = {}
  /\ phase' = "giving"
  /\ todo' = On(DateOf(day - 1)) \cap consent
  /\ UNCHANGED <<day, consent, store, commandsOpen, role, wakeDay, strayed, skipped, commands, starts, faults>>

\* runAssignTick(today) loads again and asks for every grant at once.
RemovalDone ==
  /\ phase = "removing" /\ todo = {}
  /\ phase' = "giving"
  /\ todo' = On(DateOf(day)) \cap consent
  /\ UNCHANGED <<day, consent, store, commandsOpen, role, wakeDay, strayed, skipped, commands, starts, faults>>

\* Who changed their registration meanwhile is given the role all the same.
GiveRole(u) ==
  /\ phase = "giving" /\ u \in todo
  /\ todo' = todo \ {u} /\ role' = role \cup {u}
  /\ strayed' = IF u \in On(DateOf(day)) THEN strayed \ {u} ELSE strayed \cup {u}
  /\ UNCHANGED <<day, consent, store, commandsOpen, phase, wakeDay, skipped, commands, starts, faults>>

GiveFails(u) ==
  /\ phase = "giving" /\ u \in todo /\ Fault
  /\ todo' = todo \ {u} /\ skipped' = skipped \cup {u}
  /\ UNCHANGED <<day, consent, store, commandsOpen, role, phase, wakeDay, strayed, commands, starts>>

TickDone ==
  /\ phase = "giving" /\ todo = {}
  /\ Schedule
  /\ UNCHANGED <<day, consent, store, commandsOpen, role, todo, strayed, skipped, commands, starts, faults>>

Loop ==
  \/ BeginTick \/ RemovalDone \/ TickDone
  \/ \E u \in Users : TakeRole(u) \/ TakeFails(u) \/ GiveRole(u) \/ GiveFails(u)

\* Between the load and the save of a command nothing else runs but the
\* commands that arrived with it.
Together == \E u \in Users : CommandSaves(u) \/ RemoveBegin(u) \/ ForgetUser(u) \/ \E d \in Dates : SetBegin(u, d)

Next ==
  \/ Together
  \/ commandsOpen = Empty /\ (Loop \/ NextDay \/ Start \/ Stop \/ DamageFile \/ \E u \in Users : ChangeConsent(u))

Spec == Init /\ [][Next]_vars

\* Time passes, timers fire, requests end, and microtasks run.
Fairness ==
  /\ WF_vars(commandsOpen = Empty /\ NextDay)
  /\ WF_vars(commandsOpen = Empty /\ Loop)
  /\ WF_vars(\E u \in Users : CommandSaves(u))

FairSpec == Spec /\ Fairness

-----------------------------------------------------------------------------
(* Properties.                                                             *)

(* The variables have their types.                                         *)
TypeOK ==
  /\ day \in 0 .. LastDay /\ consent \subseteq Users
  /\ registry.kind \in {"missing", "ok", "damaged"} /\ registry.dates \in Registries
  /\ DOMAIN commandsOpen \subseteq Users
  /\ \A u \in DOMAIN commandsOpen : {commandsOpen[u].next, commandsOpen[u].base} \subseteq Registries
  /\ role \subseteq Users /\ todo \subseteq Users
  /\ phase \in {"down", "asleep", "removing", "giving"} /\ wakeDay \in 0 .. LastDay + 1
  /\ told \in Registries /\ lost \in BOOLEAN
  /\ strayed \subseteq Users /\ skipped \subseteq Users
  /\ {commands, starts, faults} \subseteq Nat

(* What users were told is registered, removed or deleted is what the file *)
(* says, as long as no command wrote back a file that another had changed  *)
(* since its load and nobody damaged it.                                   *)
RegisteredIsSaved == ~lost => told = Birthdays

(* Between two ticks only those have the role whose birthday it is, except *)
(* for the members whom the loop lost sight of: the process was away at    *)
(* midnight, Discord refused, or the registration has changed since.       *)
RoleEndsWithTheDay ==
  phase = "asleep" /\ wakeDay > day =>
    \A u \in role \ strayed : u \in DOMAIN Birthdays /\ Birthdays[u] = DateOf(day)

\* It is the eve of a registered and consenting user's birthday.
Eve(u, d) ==
  /\ phase = "asleep" /\ wakeDay > day /\ day < LastDay
  /\ u \in consent \cap DOMAIN Birthdays /\ Birthdays[u] = d /\ d = DateOf(day + 1)

(* A registered user with a grant gets the role on the birthday, unless    *)
(* the process stops, the user changes their mind, or Discord refuses.     *)
Celebrated ==
  \A u \in Users, d \in Dates :
    Eve(u, d) ~> \/ u \in role \/ u \in skipped \/ u \notin consent
                 \/ phase = "down" \/ u \notin DOMAIN Birthdays \/ Birthdays[u] # d

=============================================================================
