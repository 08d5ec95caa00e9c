------------------------------ MODULE Features ------------------------------
(***************************************************************************)
(* The features that meet nobody but Discord, side by side in one process. *)
(* They share no file and no variable of the process, so that what one     *)
(* does is independent of the others: a behaviour exercises one feature,   *)
(* the others rest.  The counters and clocks, which have the same meaning  *)
(* in several modules, are declared once.                                  *)
(***************************************************************************)
EXTENDS Naturals, FiniteSets

CONSTANTS
  Members,                                  \* of the server
  YearLength, LastDay, MaxCommands,         \* Birthday
  NumEntries, DayLength, WeekDays, Recheck, MaxDelay, RetryDelay,   \* Announcements
  Stacks, ErrorWindow, MaxPerWindow, Deadline, MaxErrors,           \* ErrorForwarder
  Repos, RequestWindow, MaxRequests,        \* Webhook
  Messages, Threshold, MaxStars,            \* Starboard
  GameStaleAfter, GameInterval,             \* GameActivity
  Tracks, TrackStaleAfter, TrackInterval,   \* NowPlaying
  NumSources, MaxVersion, MaxPasses,        \* Calendar
  Keys, Values, MaxEdits, MaxReads,         \* HotReload
  WeekLength, MonthLength, DailyRetention, WeeklyRetention, MonthlyRetention,
  Offsets, LastArchiveDay, MaxMissed,       \* Archive
  MaxStarts, MaxFaults, LastTime, MaxPresences, MaxUpdates   \* bounds, by feature

Features == {"birthday", "announcements", "errorForwarder", "webhook", "starboard",
             "gameActivity", "nowPlaying", "calendar", "hotReload", "archive"}

VARIABLES
  feature,  \* the one that this behaviour exercises
  day, starts, faults, now, up, updates, crossed, sent, begun, presences,
  consent, registry, commandsOpen, role, phase, wakeDay, todo, told, lost, strayed,
  skipped, commands,
  entriesFile, torn, entries, timer, firing, since, done, twice, busy,
  settings, buckets, reports, exitAt, passed, answer, errors,
  channel, lastSeenAt, deliveries, responses, accepted, decision, requests,
  boardChannel, refused, stars, cached, fetching, waiting, awaiting, reposted, posts,
  unsure, due, failed, reactions,
  tracker, activeMessageId, messages, nextRefresh, refreshing,
  playing, entry, embeds, nextPrune,
  host, cache, cacheFile, inFlight, passes, unsaved,
  configFile, current, storePhase, watched, debouncing, reads, unseen, edits,
  offset, snapshots, made, steady, missedDays

birthdayVars == <<consent, registry, commandsOpen, role, phase, wakeDay, todo,
                     told, lost, strayed, skipped, commands>>
announcementsVars == <<entriesFile, torn, entries, timer, firing, since, done,
                          twice, busy>>
errorForwarderVars == <<settings, buckets, reports, exitAt, passed, answer, errors>>
webhookVars == <<channel, lastSeenAt, deliveries, responses, accepted, decision,
                    requests>>
starboardVars == <<boardChannel, refused, stars, cached, fetching, waiting, awaiting,
                      reposted, posts, unsure, due, failed, reactions>>
gameActivityVars == <<tracker, activeMessageId, messages, nextRefresh, refreshing>>
nowPlayingVars == <<playing, entry, embeds, nextPrune>>
calendarVars == <<host, cache, cacheFile, inFlight, passes, unsaved>>
hotReloadVars == <<configFile, current, storePhase, watched, debouncing, reads,
                      unseen, edits>>
archiveVars == <<offset, snapshots, made, steady, missedDays>>

vars == <<feature, day, starts, faults, now, up, updates, crossed, sent, begun, presences,
          birthdayVars, announcementsVars, errorForwarderVars, webhookVars, starboardVars,
          gameActivityVars, nowPlayingVars, calendarVars, hotReloadVars, archiveVars>>

-----------------------------------------------------------------------------
(* The instances.                                                          *)

Birthday == INSTANCE Birthday WITH
  Users <- Members, MaxStarts <- MaxStarts["birthday"], MaxFaults <- MaxFaults["birthday"]

Announcements == INSTANCE Announcements WITH
  LastTime <- LastTime["announcements"], MaxStarts <- MaxStarts["announcements"],
  MaxFaults <- MaxFaults["announcements"]

ErrorForwarder == INSTANCE ErrorForwarder WITH
  WindowLength <- ErrorWindow, LastTime <- LastTime["errorForwarder"],
  MaxStarts <- MaxStarts["errorForwarder"]

Webhook == INSTANCE Webhook WITH
  WindowLength <- RequestWindow, LastTime <- LastTime["webhook"],
  MaxStarts <- MaxStarts["webhook"]

Starboard == INSTANCE Starboard WITH
  MaxStarts <- MaxStarts["starboard"], MaxFaults <- MaxFaults["starboard"]

GameActivity == INSTANCE GameActivity WITH
  Users <- Members, StaleAfter <- GameStaleAfter, Interval <- GameInterval,
  LastTime <- LastTime["gameActivity"], MaxPresences <- MaxPresences["gameActivity"],
  MaxUpdates <- MaxUpdates["gameActivity"], MaxFaults <- MaxFaults["gameActivity"]

NowPlaying == INSTANCE NowPlaying WITH
  StaleAfter <- TrackStaleAfter, Interval <- TrackInterval,
  LastTime <- LastTime["nowPlaying"], MaxPresences <- MaxPresences["nowPlaying"],
  MaxUpdates <- MaxUpdates["nowPlaying"], MaxFaults <- MaxFaults["nowPlaying"]

Calendar == INSTANCE Calendar WITH
  MaxStarts <- MaxStarts["calendar"], MaxFaults <- MaxFaults["calendar"]

HotReload == INSTANCE HotReload WITH MaxStarts <- MaxStarts["hotReload"]

Archive == INSTANCE Archive WITH LastDay <- LastArchiveDay

ASSUME FeaturesAssumption ==
  /\ {MaxStarts, MaxFaults, LastTime, MaxPresences, MaxUpdates} \subseteq [Features -> Nat]
  /\ Birthday!BirthdayAssumption
  /\ Announcements!AnnouncementsAssumption
  /\ ErrorForwarder!ErrorForwarderAssumption
  /\ Webhook!WebhookAssumption
  /\ Starboard!StarboardAssumption
  /\ GameActivity!GameActivityAssumption
  /\ NowPlaying!NowPlayingAssumption
  /\ Calendar!CalendarAssumption
  /\ HotReload!HotReloadAssumption
  /\ {WeekLength, MonthLength, DailyRetention, WeeklyRetention, MonthlyRetention}
       \subseteq Nat \ {0}
  /\ DayLength <= WeekLength /\ WeekLength <= MonthLength
  /\ Archive!ArchiveAssumption

\* Where a feature has several initial states, it has one while it rests.
Init ==
  /\ feature \in Features
  /\ Birthday!Init
  /\ Announcements!Init
  /\ ErrorForwarder!Init
  /\ Webhook!Init
  /\ Starboard!Init
  /\ GameActivity!Init
  /\ NowPlaying!Init
  /\ Calendar!Init
  /\ HotReload!Init
  /\ Archive!Init
  /\ feature # "birthday" => consent = {}
  /\ feature # "announcements" =>
       entries = [e \in Announcements!Names |->
                    [oneShot |-> TRUE, at |-> 0, enabled |-> FALSE]]
  /\ feature # "hotReload" => configFile = HotReload!Missing

Exercises(f) == feature = f /\ UNCHANGED feature

Next ==
  \/ /\ Exercises("birthday") /\ Birthday!Next
     /\ UNCHANGED <<now, up, updates, crossed, sent, begun, presences,
                    announcementsVars, errorForwarderVars, webhookVars, starboardVars,
                    gameActivityVars, nowPlayingVars, calendarVars, hotReloadVars,
                    archiveVars>>
  \/ /\ Exercises("announcements") /\ Announcements!Next
     /\ UNCHANGED <<day, updates, crossed, sent, begun, presences, birthdayVars,
                    errorForwarderVars, webhookVars, starboardVars, gameActivityVars,
                    nowPlayingVars, calendarVars, hotReloadVars, archiveVars>>
  \/ /\ Exercises("errorForwarder") /\ ErrorForwarder!Next
     /\ UNCHANGED <<day, faults, updates, crossed, sent, begun, presences,
                    birthdayVars, announcementsVars, webhookVars, starboardVars,
                    gameActivityVars, nowPlayingVars, calendarVars, hotReloadVars,
                    archiveVars>>
  \/ /\ Exercises("webhook") /\ Webhook!Next
     /\ UNCHANGED <<day, faults, updates, crossed, sent, begun, presences,
                    birthdayVars, announcementsVars, errorForwarderVars,
                    starboardVars, gameActivityVars, nowPlayingVars, calendarVars,
                    hotReloadVars, archiveVars>>
  \/ /\ Exercises("starboard") /\ Starboard!Next
     /\ UNCHANGED <<day, now, updates, crossed, sent, begun, presences, birthdayVars,
                    announcementsVars, errorForwarderVars, webhookVars,
                    gameActivityVars, nowPlayingVars, calendarVars, hotReloadVars,
                    archiveVars>>
  \/ /\ Exercises("gameActivity") /\ GameActivity!Next
     /\ UNCHANGED <<day, starts, up, birthdayVars, announcementsVars,
                    errorForwarderVars, webhookVars, starboardVars, nowPlayingVars,
                    calendarVars, hotReloadVars, archiveVars>>
  \/ /\ Exercises("nowPlaying") /\ NowPlaying!Next
     /\ UNCHANGED <<day, starts, up, birthdayVars, announcementsVars,
                    errorForwarderVars, webhookVars, starboardVars, gameActivityVars,
                    calendarVars, hotReloadVars, archiveVars>>
  \/ /\ Exercises("calendar") /\ Calendar!Next
     /\ UNCHANGED <<day, now, updates, sent, presences, birthdayVars,
                    announcementsVars, errorForwarderVars, webhookVars, starboardVars,
                    gameActivityVars, nowPlayingVars, hotReloadVars, archiveVars>>
  \/ /\ Exercises("hotReload") /\ HotReload!Next
     /\ UNCHANGED <<day, faults, now, updates, sent, presences, birthdayVars,
                    announcementsVars, errorForwarderVars, webhookVars, starboardVars,
                    gameActivityVars, nowPlayingVars, calendarVars, archiveVars>>
  \/ /\ Exercises("archive") /\ Archive!Next
     /\ UNCHANGED <<starts, faults, now, up, updates, crossed, sent, begun, presences,
                    birthdayVars, announcementsVars, errorForwarderVars, webhookVars,
                    starboardVars, gameActivityVars, nowPlayingVars, calendarVars,
                    hotReloadVars>>

Spec == Init /\ [][Next]_vars

\* The fairness of the daily loop, which counts where it is exercised; no
\* other property here needs any.
Fairness ==
  LET birthday == Birthday!vars
      Turn == feature = "birthday" /\ commandsOpen = Birthday!Empty
  IN /\ WF_birthday(Turn /\ Birthday!NextDay)
     /\ WF_birthday(Turn /\ Birthday!Loop)
     /\ WF_birthday(feature = "birthday" /\ \E u \in Members : Birthday!CommandSaves(u))

FairSpec == Spec /\ Fairness

-----------------------------------------------------------------------------
(* Properties.                                                             *)

(* The variables of the feature that is exercised have their types.        *)
TypesOK ==
  /\ feature \in Features
  /\ feature = "birthday" => Birthday!TypeOK
  /\ feature = "announcements" => Announcements!TypeOK
  /\ feature = "errorForwarder" => ErrorForwarder!TypeOK
  /\ feature = "webhook" => Webhook!TypeOK
  /\ feature = "starboard" => Starboard!TypeOK
  /\ feature = "gameActivity" => GameActivity!TypeOK
  /\ feature = "nowPlaying" => NowPlaying!TypeOK
  /\ feature = "calendar" => Calendar!TypeOK
  /\ feature = "hotReload" => HotReload!TypeOK
  /\ feature = "archive" => Archive!TypeOK

(* What /birthday answered is what data/birthdays.json says.               *)
RegisteredIsSaved == feature = "birthday" => Birthday!RegisteredIsSaved

(* The midnight tick takes the role from everybody it can still tell.      *)
RoleEndsWithTheDay == feature = "birthday" => Birthday!RoleEndsWithTheDay

(* The midnight tick gives the role to those whose birthday it is.         *)
Celebrated == Birthday!Celebrated

(* Announcements are attempted at their times, once, and none is passed    *)
(* over but for another one.                                               *)
EachInTurn == feature = "announcements" => Announcements!EachInTurn

(* Both limiters, of the error forwarder and of the webhook, implement the *)
(* abstract limiter: they decide as one that remembers every event.        *)
LimitsHold == ErrorForwarder!Limited /\ Webhook!Limited

(* A message for which a run has seen enough stars is reposted, once.      *)
RepostedOnce == feature = "starboard" => Starboard!RepostedOnce

(* The summary of games lists everybody who plays and nobody else.         *)
NoGhosts == feature = "gameActivity" => GameActivity!NoGhosts

(* The embed of a member shows the track that is being played.             *)
EmbedIsCurrent == feature = "nowPlaying" => NowPlaying!EmbedIsCurrent

(* A pass over the calendars never takes one of them back.                 *)
NeverOlder == Calendar!NeverOlder

(* The configuration in use is the one in the file.                        *)
SettlesOnFile == feature = "hotReload" => HotReload!SettlesOnFile

(* The plans of the snapshot timer, day after day, keep the newest days    *)
(* and weeks.                                                              *)
RecentKept == feature = "archive" => Archive!RecentKept

=============================================================================
