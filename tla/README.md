# Formal models of ido-bata-server-bot

The bot is one Node process on one Discord server. It keeps its state in small JSON files under
`data/`, reacts to gateway events (reactions, commands, presences) and runs a few timers. Node runs
one macrotask at a time, so what can go wrong lies between two awaits, between the file and its copy
in memory, and between the process and its restarts. That is what the modules here describe.

## Inventory

| Component | State | Operations | What is hard |
|---|---|---|---|
| consent (`src/src/consent`) | `data/consent.json`, the repository's records, a snapshot cache, the targets of the bootstrap | bootstrap, grant and revoke by reaction, reconcile, authorize, list, clear | reactions during the fetches of reconcile, removals missed while down, damaged files, rows by position |
| reminder | `data/reminders.json`, the queue in memory, the loop and its sleep | `/remind`, dispatch, wake-up, restart | additions during a batch, the awaited gate, undeliverable messages, a second writer of the file |
| privacy | none of its own | `/privacy status`, `/privacy delete` over the adapters of each feature | partial failures, features that hold the data in memory |
| state-snapshot | archives and an index | daily snapshot, retention, purge after a clear | overlapping purges, files changing under the archive |
| timekeeper (+ commands, shutdown) | module-level session variables, `data/timekeeper-history.json`, `data/timekeeper-sessions.json` | schedule, session loop, messages, check-in, pause, resume, skip, cancel | a failed session, skips at any moment, cancel against a running loop, one file rewritten by many |
| poll | `data/polls.json`, the messages of the polls | create, vote, clear, close | a creation that awaits Discord between its load and its save, edits that come late |
| birthday-role | `data/birthdays.json`, roles on Discord | register, remove, midnight ticks | missed ticks, two commands between load and save |
| scheduled-announcements | entries, one timer | schedule, fire, retry | simultaneous entries, retries against the clock |
| config-hot-reload | configuration, watcher, debounce timer | reload, apply | renames, overlapping applies |
| github-webhook, error-forwarder | rate-limit windows | accept, drop, forward | limits at their boundary, re-entrancy |
| game-activity, spotify, starboard | message ids in memory | presence and reaction events | overlapping posts of one message |
| ical-calendar | cache and its file | refresh, answer | overlapping refreshes |
| multi-guild | guild file, mounted guilds | migration at start (the registry is not wired) | - |
| storage, runtime, logger, shutdown, http, TUI, scripts | - | - | support code |
| audits, welcome, role commands, reaction roles, slash dispatch | none | relay one event to one request | - |

The parts meet in a few places. Consent answers `authorize` for every feature that stores personal
data, and emits `grant`, `revoke` and `clear` events: state-snapshot listens to `clear`, the timekeeper to
all three. `/privacy delete` runs the consent step and then one adapter per feature; the adapters edit files
that the features also hold in memory. `index.ts` wires all of it and starts the consent bootstrap
when the gateway is ready.

## Modules

| Module | What it models |
|---|---|
| `ConsentLedger` | the rows of `consent.json` and what the service and the repository compute from them |
| `Consent` | Discord's reactions and gateway, the process, the repository, the cache, reconcile, the handler, clear |
| `Reminder` | the clock, the file, the queue, commands waiting for the gate, the loop, `/privacy delete` |
| `Timekeeper` | the clock, the schedule and the timeline, `runSession` between its awaits, the commands, check-ins and consent, the attendance file, shutdowns |
| `Poll` | `data/polls.json`, the handlers between their load and their save, the messages and their edits, the adapter of `/privacy delete` |
| `Retention` | `planRetention`: which snapshots the daily, weekly and monthly tiers keep |
| `Snapshots` (extends `Retention`) | the three jobs that take snapshots, the directory, the timer, the steps of `/privacy delete`, crashes |
| `Archive` (extends `Retention`) | the plan applied day after day to what the plans before it have left |
| `RateLimit` | the abstract limiter: it remembers every event and promises a bound per window |
| `ErrorForwarder`, `Webhook` | the two limiters of the code with what surrounds them; each implements `RateLimit` |
| `Birthday` | the registry, the commands between load and save, the midnight loop, the roles |
| `Announcements` | the entries, the one timer, the post with its retry, the entries for one date |
| `Starboard` | the chain of runs per message, the claim, the repost |
| `GameActivity`, `NowPlaying` | a message on Discord that follows presences through overlapping requests |
| `Calendar` | passes over the sources, the cache and its file |
| `HotReload` | `data/config.json`, its watcher, the debounce and the reads |
| `Features` | the ten features above side by side, of which a behaviour exercises one |
| `Consent_proofs`, `Reminder_proofs`, `Timekeeper_proofs`, `Poll_proofs`, `Snapshots_proofs` | the theorems about these modules and their proofs |
| `FeatureMessages_proofs`, `FeatureFiles_proofs` | the invariants of the features whose hard part is a message on Discord (`Starboard`, `GameActivity`, `NowPlaying`) or a file or a timer (`Birthday`, `Announcements`, `Calendar`, `HotReload`, `Archive`) |
| `Features_proofs` | the two limiters as implementations of `RateLimit`, and the theorems about `Features` |
| `PersonalData` | what is kept of users by their consent, side by side: `Consent`, `Poll`, `Timekeeper`, of which a behaviour exercises one |
| `MCConsent`, `MCPersonalData`, `MCReminder`, `MCTimekeeper`, `MCSnapshots`, `MCFeatures` | small instances for TLC |

Definitions marked as mutants are faulty variants of the definition that follows them; no module uses
them, and `PROJECT.json` says which property notices each fault.

### Consent

`disk` is the file, by kind (`missing`, `ok`, `corrupt`: not JSON, `alien`: another schema) and rows;
`repo` is the repository's closure (`records`, `lastLoadExisted`, `lastLoadRecognised`); `cache` is the
service's snapshot cache; `rec` is the state of one reconcile pass (which emoji it is at, the snapshot
it carries, the answer of the fetch it awaits). The handlers run without an await that matters: the
repository is synchronous behind its promises, so `OnAdd`, `OnRemove` and `Clear` are one step each.
What this leaves out is a few microtasks of a stale cache when two gateway frames arrive in one TCP
chunk. reconcile really waits for Discord, and a fetch has two moments: `FetchAnswered`, when Discord
takes the list, and `ReconcileEmoji`, when the process uses it. Between them anything may happen.

The array is a set of rows with a rank among the rows of the same (subject, scope), because that is
all `find`, `findIndex`, `push`, `splice` and `filter` can tell apart. `reacted`, `alive` and `queue` are
Discord's side: events of a time the process is away are lost, and a session that cannot be resumed
loses the pending ones (`LoseEvents`). `ever` and `calm` are history: the reactions ever placed, and
whether anything failed or raced since the start.

### Reminder

A command is two steps, `Command` (its checks and `add` up to the gate) and `Granted` or `Denied`. The
gate is an await of a few microtasks, and two commands that arrive together do interleave there. The
loop is `BeginTick` (inside `Start` and `Wake`), one `SendOk` or `SendFails` per reminder of the batch,
and `DispatchDone`, which removes what was delivered, persists and falls asleep. `WakeScheduler` aborts
the sleep. `CrashInWrite` is the process dying inside `writeFileSync`, which truncates first. `rushed` is history: the users who sent a command while
another one of theirs was waiting for the gate. The limit holds for all others (`LimitWhenPatient`); as the
configuration states it, for everybody (`LimitHolds`), it does not, because it is not checked again after the gate.
`ForgetUser` is the adapter of `/privacy delete`: it rewrites the file and does not know the queue.

### Timekeeper

`phase` says at which await `runSession` stands: `idle` (the timer of `scheduleNextSession`), `connecting`,
`posting` (the missed messages), `waiting` (`awaitInterruptibleDelay`), `announcing` (up to the message),
`playing`, `settling` (`Promise.allSettled`) and `closing` (the fortunes); `turn` is the head of the loop,
which runs on without an await, so that nothing else happens there (`Next`). `session`, `paused` and
`skipFlag` are the module's variables, `tasks` the progress messages still updated, each by the minute at
which it ends. `Suppressed` and `Due` are what follows the wait; a `Skip` while `waiting` includes them,
because resolving the wait runs the loop on before anything else. A check-in is one bit per user and
session: the phases a user confirms only appear in texts. A session's id, its start and its date name the
same thing and are one number.

`Attended` is the map that `persistSessionAttendance` writes: what was loaded when the session began, and
the check-ins of the users whom the consent service and `revokedUsers` let through. The consent events
reach `revokedUsers` without regard to their scope, as in the code. `acked`, `owed`, `completed`, `consented`
and `early` are history. `Tick` lets playback take no longer than `resolvePlaybackTimeouts` allows, and lets
the clock run on during every other await.

A session writes back what it loaded, so attendance that is deleted while a session runs returns with the
session's write; the promise not kept is the one that `reminder_deleted` is about.

The files are written synchronously and every await on the consent service resolves in the same turn of
the event loop, so `Close`, `Cancel`, `CheckIn` and `ForgetUser` are one step each. `CrashInWrite` is the process
dying inside `writeFileSync`; the history, unlike the other files, is then unreadable for good, and every
later session fails at its start.

### Poll

Every handler loads the file, changes the copy and saves it. A vote, a clear and a closing do so in one
turn of the event loop and are one step; what follows, the edit of the message, is an item of `edits`
that Discord takes in order (`Edited`) or refuses (`EditFails`). `handleCreate` alone awaits Discord in
between: `CreatePoll` loads, `Posted` is the message on Discord, `SaveCreated` writes back the state that was
loaded with the new poll in it. `handleClose` renders the poll before it awaits its message: `closing` holds
that picture until `CloseShown` or `CloseUnseen`. `told` is what the replies promised, `lost` records a creation that
wrote over votes it had not seen or a torn write, and `blurred` the polls whose message may differ from the file for
one of the reasons the property names. A torn file
cannot be loaded: `JSON.parse` throws, and every command and vote ends in an error until somebody repairs the file
(`Loadable`); a file of another schema, which the code does load as no polls, is not modelled.

### Snapshots, Retention and Archive

A job is a record of `jobs`: `hashing` is the await of the sources' hashes; `JobWrites` packs, encrypts,
writes and applies the retention plan, which the code does without an await; `uploading` is the await of the
uploads; `PurgeEnds` deletes what the purge had listed at its begin. A delete is two
steps, `DeleteBegin` (the consent step, whose clear event starts the first purge) and `DeleteRest` (the adapters, the last of which starts
the second). Each file of `archive` is named by its second and is `good`, `mixed` (a source changed
between its hash and its packing) or `torn`. The contents are the users of whom the sources hold something.
An edit of a source while another job hashes may come after that source's hash: `StoreData` and both steps of a delete then mark
the job's snapshot as mixed (`Blurred`), which counts with the failures.

Paths matter in the purge. `runSnapshotOnce` names the fresh snapshot by a path below the relative `data/snapshots`
(`state-snapshot/config.ts:51`). The purge of the clear event lists the same relative directory and recognises its
snapshot. The purge of the adapter lists `join(process.cwd(), "data/snapshots")` and compares strings, so that it never does:
what is left counts as a file that could not be deleted, and the delete is reported as failed whenever there was a
snapshot, unless an overlapping purge has removed the fresh one as well (`Purged`); and if its list holds the file of
the second that its own job then writes to, it deletes the fresh snapshot with the others (`Doomed`). `relisted` is history:
an adapter's purge has listed such a file. `BackupKept` excepts it, since there the last backup can go.
`NextStartAt` is `getNextSnapshotStartAt` on a clock of seconds; `once` is the option under which the code starts
no timer at all. `Archive` has one snapshot a day, a little earlier or later each time, over as many days as the
tiers reach back.

### The features that meet nobody but Discord

`RateLimit` answers from all events it ever let pass. `ErrorForwarder` keeps the hits of the window per
stack and drops older ones; `Webhook` keeps the last time per repository. An event leaves the window when it
is as old as the window is long. That is the code of both and what `resetsAt` tells, but not the comment at `StackRateLimiter`, whose
`[now - windowMs, now]` would count it for one more moment. Both refine it: `Limited` is
`RateLimit!Spec` under the mapping that the `INSTANCE` states, where the history variables `passed`, `accepted` and
the last decision with its time are what the abstract module calls so, and a process that ends is `Forget`.
In `ErrorForwarder` the first uncaught exception sets `exitAt`; the report and the deadline race (`Reported`,
`DeadlinePasses`).

`Birthday`: a command holds the registry it loaded in `commandsOpen` until it saves; only commands that arrive
together meet in those microtasks, so everything else waits for them (`Next`). The tick visits one member per
step, first to take the role, then to give it. `Announcements`: `timer` is the one timer with the entry it was
set for, `firing` the post and its attempt; `ScheduleNext` follows every post. `Starboard`: `awaiting` says which
await the run at the head of a message's chain is at; `reposted` is the set the code claims a message in
before it sends and gives back when the send fails. The count that is compared is not Discord's but that of the message
discord.js keeps (`cached`): fetched with the message, changed by the events that arrive. A star of a bot changes the count and starts
no run (`BotReacts`), one that is not heard of does neither (`Untold`), and one on a message that is not kept first
awaits a fetch that may fail (`ReactionFetched`, `ReactionFetchFails`). `due` is history: the messages for which a person's
star has started a run and whose count, as the process knows it, has been enough then and since. `GameActivity` and `NowPlaying`:
`updates` are the posts under way, each with what it saw when it began; a summary that is deleted is the one `activeMessageId`
names after the fetch's await (`target`), not the one that was fetched. `Calendar`: a pass fetches one source per step and merges into the cache of
its end. `HotReload`: `watched` says whether the watcher sits on the file, on an inode that is gone, or on the
directory; every change restarts the debounce, and reads may overlap.

## Runs

| Run | Shows |
|---|---|
| `personal_data` | of the ledger: all its safety properties over two users, two emojis with a scope each, two consent messages, three reactions added or removed, two starts, one failure and two pending events; of polls: two users and two polls, four acts of which creations, votes and closings overlap, two edits on their way, one change of consent, two starts, one failure: what was told is saved, what is shown is what is saved, nobody is named without a grant; of the timekeeper: two users, one-minute phases, two changes of consent or deletions, a shutdown at any moment: what the attendance file holds and keeps |
| `consent_ghost` | `RemovalStops` fails: `docs/privacy.md` says that removing the reaction stops collection, but a removal handled while reconcile awaits its fetch is undone by the answer |
| `consent_clear` | `ClearComplete` fails: with a tombstone in front of the active row, clear removes the tombstone and reports success |
| `reminder` | the limit for users who wait, the loop, the file and the delivery over two users, one of whom refuses messages, three commands of which two overlap, two starts and one failure, and that what is due is sent |
| `reminder_deleted` | `DeletedStaysDeleted` fails: the queue writes a deleted reminder back |
| `reminder_limit` | `LimitHolds` fails: `reminder/config.ts` calls the limit a maximum of queued reminders, but two commands that wait for the gate together both get in |
| `timekeeper` | one day's session and the start of the next, without users: a start on time, late, or too late; pauses, one skip, two starts, one failure. Commands do not leak, no session runs twice, every day's session begins |
| `timekeeper_failed` | `ActiveOnlyWhileRunning` fails: a session that throws stays the active one |
| `snapshots` | one user, a day of three seconds, two deletes with two purges each next to the daily job, one write of data, one failure: nobody is revived, the last backup goes only where a purge listed the second it writes to, the schedule goes on |
| `snapshots_leftover` | `FreshIsNoLeftover` fails: a delete that left nothing but its fresh snapshot is reported as failed, because the relative path of that snapshot is compared with an absolute one |
| `archive_months` | `MonthsKept` fails: with a snapshot a day no snapshot of an earlier month survives the weekly tier |
| `features` | ten features, one per behaviour: `RegisteredIsSaved`, `RoleEndsWithTheDay`, `Celebrated` (birthdays), `EachInTurn` (announcements), `LimitsHold` (the refinement of both limiters), `RepostedOnce`, `NoGhosts` (game activity), `EmbedIsCurrent` (Spotify), `NeverOlder` (calendars), `SettlesOnFile` (configuration), `RecentKept` (the plans of `Archive`) |

Every bound is a constant with a name. Two messages are the least with which a row of an old message
and one of the new can meet; three toggles let a user add, remove and add again around a pass; two
starts give one restart with what the first process left; two pending events give an order. For
reminders, two overlapping commands are the least that race at the gate, a third one can follow after a
delivery, and the clock needs a moment before, at and after the first reminder; its last value stands
for any later time. A timekeeper session has the twelve events of the code, its phases last a minute or two,
and the day is as short as the session and its preparation allow, so that a second session falls within
the clock; a failure more would only repeat what one can do at every await.

The three parts of `PersonalData` share no file and no variable of the process: where the polls and the timekeeper ask the
ledger or hear of its changes, their modules have those changes as actions of their own. A behaviour in which all three move
is thus an interleaving of three, and breaks a property of one only if that one's own steps do. For polls, two of a
kind are the least that can be mixed up, four acts are two creations and two acts between or after them, or one creation with
three, and the options of a poll are one or two. For attendance, skips and failures are left to the run `timekeeper`, since the session's order of
events does not depend on users; one start is enough because a file that an earlier session has left is what
the first session writes for the second, and a shutdown ends either. The theorems cover every other bound. In `snapshots` the second user would do what
the first does: the sets of users in files are only united and compared user by user, and the theorems cover more.
The initial archive is any that an earlier process may have left, so that one start is enough; a second and a
third purge start from any phase of the first. `archive_months` has the real lengths of the tiers in days. The
instances of `features` are declared in `Features` and get their values in `MCFeatures`: everything comes in twos, clocks run over two or three
windows, and one failure or restart falls anywhere. The ten share no file and no variable of the process, so a behaviour
in which all of them move is an interleaving of ten such behaviours and breaks a property of one only if that one's own steps do;
counters and clocks of the same meaning are declared once. `personal_data` declares its two users interchangeable; no property names one of them
and the run has no liveness property. The runs allow a stop: every bound is used up in the end, and the
process may stay down, so `CHECK_DEADLOCK FALSE` is set.

Fairness is assumed of clocks and loops only (`WF_vars(Tick)`, `WF_vars(Loop)`, and `WF_vars(Progress)` for the
timekeeper's messages): time passes, timers fire, playback is bounded by its timeouts, and a request to
Discord ends, because discord.js gives up on one that is not answered. Nothing is assumed of users, of Discord's willingness to deliver, or of the process staying
up: `DueIsSent` and `EachDay` let the process end instead, and `EachDay` gives up on a day
whose session is over before the voice connection stands. In `features` only `Celebrated` needs fairness, of days,
of the midnight loop and of the microtasks of a command, which the code's timers and awaits give; the property lets the process
stop, Discord refuse or the user change their mind. The other modules have no fairness.

## Theorems

Every property that a passing run checks is also proved, except the three liveness properties; those of attendance are proved of
`Timekeeper`, whose behaviours `PersonalData` includes. A theorem holds
for every value of the constants that satisfies the named assumptions: users are finitely many; the emoji order
names every emoji, as the keys of the configured mapping do; bounds are natural numbers, and intervals, windows
and limits positive; for the timekeeper, five phases of positive length and a session that is over before midnight
(`WithinTheDay`; 21:00 and 100 minutes as configured). `FeaturesAssumption` collects those of the features;
TLC evaluates each assumption on the instances of the runs.

**Consent.** The first part shows that each operation on rows keeps an array an array (finitely many rows, no two in one
place) and never makes an active row for a reaction that had none. The lemma about `Concat`, which renumbers the
back part behind the front part, carries most of the weight.

- `TypeCorrect` follows from these. `CacheIsCoherent` is not inductive as it stands: it needs that the snapshot
  cache is empty or the file's rows and that the records are the file's whenever a handler may use them,
  including while a pass is at work (`CacheInv`). `GrantsAreEarned` needs the same of what is still on its
  way: the events in the queue and the answer of a fetch name only reactions that were placed
  (`ProvenanceInv`). `UnreadableIsKept` and `GrantsAreWritten` are action properties from these.
- `OthersAreUntouched`: removing a user's rows gives the others new ranks, so that they are only the same rows
  if the ranks had no gap. `LedgerInv` says that of the file, the records, the snapshot and the cache (`Dense`), and
  where there is one message and one emoji per scope also that no key has two rows (`Plain`).
- `FileFollowsDiscord` (`InSync`) needs, of a state in which nothing failed or raced, that the last event of
  a reaction says whether it is in place, that the answer in hand is what Discord still has, and that the emojis
  the pass has written are true in the file, except where an event is pending, and in the pass's own snapshot
  (`SyncInv`, on top of `MadeInv` and `LedgerInv`). The proof uses that the order names every emoji: reconcile
  says nothing of one that it does not visit.

**Reminder.** `TypeCorrect`, `LoopNeverOversleeps`, `LimitIsKept` (of who never sent two commands at once, what is queued and what waits for
the gate do not exceed the limit together), `RegisteredAreKept` (by what the queue holds while the process is up, and by what was completed but not yet
removed), `DeliveriesHappenOnce` (a delivered reminder is out of the queue or still marked completed), and
`LoopNeverSpins`: a reminder that is overdue and cannot be delivered does not keep the loop awake, because the
wake-up is chosen among times still ahead (`WakeUpsAhead`).

**Timekeeper.** `TypeCorrect` includes that the loop only uses events of the timeline. `NobodyKeptUnasked` is strengthened by
the grants in force and the check-ins in memory (`ProvenanceInv`). `OneEventPerSkip` counts a skip in
store as one. The others speak of runs without a failure and rest on `CleanInv`: no session outside `runSession`, and
nothing commanded without one. `CheckInsAreKept` needs that what is owed is in the file and in the session's copy of
it, or checked in before the write (`KeptInv`). `NoSessionTwice` needs the clock: the message of the last phase is
awaited, so a session that ran to its end is over by the clock as well, however far it was skipped (`OnceInv`), and
what `scheduleNextSession` picks is not over (`StartIsAhead`).

**Poll.** The theorems are about `DataSpec`: a step of `PersonalData` is one of `Poll` or leaves its variables alone. `TypeCorrect` first shows that loading, voting, clearing and forgetting keep a poll a poll. `WhatIsToldIsSaved` is
inductive together with the types: a handler other than a creation writes what it has just loaded.
`NobodyNamedUnasked` is an action property from the types. `MessagesShowVotes` (`ShownOnceQuiet`) speaks of a moment without edits;
`ShownInv` says what leads there: for each poll that is not `blurred`, the last edit on its way shows what the file
holds, or there is none and the message does (`ShowsOK`), or its closing is about to show it; and nothing that is saved,
awaited or on its way concerns a poll whose creation is not over (`PlacesOK`).

**Snapshots.** `TypeCorrect` bounds what the plan keeps and where the timer stands. `NobodyRevived` needs that a purge that
may yet report that all is deleted has its user in no source and not in the snapshot it has taken itself
(`CleanPurges`). `ABackupIsKept` rests on a lemma about the plan for any retention: the newest snapshot is in
the newest group of its tier, so it is always kept; then it needs that what a purge listed is no newer than its own
snapshot (`ListedOld`), and that behind every job that has written there is a good snapshot at least as new as
its own (`NewestKept`), which no purge deletes unless it listed the second of its own snapshot. `ScheduleGoesOn` uses that the next start is in the future and
at most a day away (`NextStartIsAhead`) and that the daily job is in hand until it sets the timer (`DailyInv`).

**Features.** Each of the ten has its own inductive invariant, and `FeaturesInv` says that the one which is exercised satisfies
its own; a step of `Features` is a step of that one (`OneIsExercised`).

| Theorem of `Features_proofs` | What the property alone does not say |
|---|---|
| `FeaturesTyped` | the invariants below, each with its types |
| `RegistrationsAreSaved`, `RolesEnd` | a command saves what it loaded with its own change (`BirthdayChanges`); a role belongs to the registration on the date of the last tick, and during a tick to a member still to be visited (`BirthdayRoles`) |
| `AnnouncedInTurn` | everything before the time the timer is set for was attempted or fell into another post (`CoveredSoFar`), and the timer is set unless a post is under way (`TimerSet`) |
| `RepostsOnce` | a message that is being sent is claimed and unposted (`Claims`), a posted one stays claimed (`NeverTwice`), and one that is due has a run which still has to count (`Attended`); what discord.js keeps may grow, shrink or be lost meanwhile (`CountsKeep`, `CachesGo`) |
| `SummaryListsPlayers` | without overlap the one post under way shows all who play, and none of them grows stale before the next refresh (`GameCalm`), which is never overdue (`GameClock`) |
| `EmbedShowsTrack` | without overlap the embed on Discord is the entry's or the one the update under way handles (`TrackCalm`); an answer comes before what it sets is too old (`TrackClock`) |
| `CalendarsNeverOlder` | versions in caches, file and passes are not ahead of the host, and without overlap a pass has nothing older than the cache (`CalendarOrder`); the interval's passes never overlap each other (`CalendarOnePass`) |
| `ReloadSettles` | what a read has found is what the file holds, or the debounce runs; nobody watches before the first read is over (`ReloadFollows`, `ReloadPhases`) |
| `ArchiveKeepsRecent` | one snapshot a day, none later in the day than the newest while the times are steady (`MadeInTheirDays`) |
| `LimitersImplementLimit` | both limiters refine `RateLimit`: initial states map to initial states, every step to a step or a stutter. A bucket of the forwarder holds, in order, every hit of the window (`BucketsRemember`); the one time the webhook keeps is the last that passed, all others are older (`SeenIsLast`) |

What the proofs showed about the models:

- `EmbedIsCurrent` used to bound an entry's age by the stale limit and one interval. With an interval longer than the
  limit, a configuration that the code allows, it does not hold; the bound is now the longer of both and one interval.
- `RecentKept` promises the weekly tier its snapshots only if the daily ones reach back for a week, as configured;
  the condition is in the property.
- `OthersUntouched` is true only of ledgers without gaps, which is what the repository's array guarantees.
- The filter of the forwarder's bucket (`Fresh`) is written as a function by places and not with `SelectSeq`,
  whose library definition the provers cannot expand.

Only model-checked: the liveness properties `DueIsSent`, `EachDay` and `Celebrated`, which are out of the prover's
reach. The properties of the violation runs are false.

## Not modelled

Formatting, logging, the TUI, HTTP endpoints, role relays, slash dispatch, welcome messages and audits keep no
state whose order matters; the registry of multi-guild is not wired into the program. Of the timekeeper,
`TIMEKEEPER_RUN_ON_READY` (seconds for minutes, and no daily schedule afterwards), the fortunes, the permission
check and the texts are left out. Of the snapshots, encryption, the container format, the requests of the
uploads and the operator's restore script are left out: a snapshot is good, mixed or torn. Snapshots twelve hours apart that share an id,
because of the hour format, are not told apart from others. Of the calendars, parsing and the commands that read
the cache are left out. Durations, dates, custom ids, signatures and options are taken as parsed. Reminders are not
compared with a list of durations, and the conversions of the Japanese calendar are one cycle of days.

## Plan

Done: consent, reminders, the timekeeper, polls, their side-by-side composition, the snapshots with the steps of `/privacy delete`, and the features of
`Features`.

1. One composition of `/privacy delete` over the files of polls, birthdays, reminders and attendance, with what
   each feature holds in memory, where now each module has its own adapter as an action.
2. The restore of a snapshot over the data directory, while the program is stopped.
3. The pure algorithms, durations and Japanese calendar days, against references.
4. Theorems about what lies between these modules once they are composed: that `/privacy delete` leaves no file
   with the user except where a feature's memory writes them back.
