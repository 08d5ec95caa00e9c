----------------------------- MODULE Starboard -----------------------------
(***************************************************************************)
(* A message with enough stars is reposted once.  Each star of a person    *)
(* that the process is told of runs the whole check; the runs of one       *)
(* message are chained, those of different messages are not.  What was     *)
(* reposted is kept in memory.                                             *)
(*                                                                         *)
(* discord.js keeps messages with their counts of stars: a count is        *)
(* fetched with the message, and goes up and down with the events, those   *)
(* of bots as well, that arrive.  The code compares that count.            *)
(***************************************************************************)
EXTENDS Naturals, FiniteSets

CONSTANTS
  Messages,
  Threshold,
  MaxStars,    \* bound: reactions added and removed
  MaxStarts,   \* bound: starts of the process
  MaxFaults    \* bound: failures, stops, and messages that leave the cache

StarboardAssumption == {Threshold, MaxStars, MaxStarts, MaxFaults} \subseteq Nat

VARIABLES
  up,
  boardChannel,  \* the starboard's channel is in the cache
  refused,       \* messages of bots and of channels marked as not safe for work
  stars,         \* Discord: the stars of each message
  cached,        \* the messages discord.js keeps, and their stars as it knows them
  fetching,      \* reactions to other messages, whose count is being fetched
  waiting,       \* runs that wait for the one before them
  awaiting,      \* what the run at the head of each chain awaits
  reposted,      \* repostedMessageIds
  posts,         \* history: reposts of each message that this process made
  unsure,        \* history: those that Discord made and reported as failed
  due,           \* history: messages that a run was started for, with enough stars
                 \* then and ever since as far as the process knows
  failed,        \* history: messages for which a request failed
  reactions, starts, faults   \* counters of the bounds

discord == <<boardChannel, refused, stars>>
counts == <<cached, due>>
ghosts == <<posts, unsure, failed>>
vars == <<up, boardChannel, refused, stars, cached, fetching, waiting, awaiting, reposted,
          posts, unsure, due, failed, reactions, starts, faults>>

Stages == {"none", "info", "count", "sending"}
Zero == [m \in Messages |-> 0]
NoRun == [m \in Messages |-> "none"]
NoMessage == [m \in {} |-> 0]
Put(f, x, y) == [z \in DOMAIN f \cup {x} |-> IF z = x THEN y ELSE f[z]]
Without(f, x) == [z \in DOMAIN f \ {x} |-> f[z]]

Init ==
  /\ up = FALSE /\ boardChannel = TRUE /\ refused = {} /\ stars = Zero
  /\ cached = NoMessage /\ fetching = Zero /\ waiting = Zero /\ awaiting = NoRun
  /\ reposted = {} /\ posts = Zero /\ unsure = {} /\ due = {} /\ failed = {}
  /\ reactions = 0 /\ starts = 0 /\ faults = 0

Fault == faults < MaxFaults /\ faults' = faults + 1

-----------------------------------------------------------------------------
(* The cache of discord.js, and what follows from it.                      *)

EnoughIn(counted, m) == m \in DOMAIN counted => counted[m] >= Threshold

\* The cache changes, and runs have been started for the messages of started.
Counts(counted, started) ==
  /\ cached' = counted
  /\ due' = {m \in due \cup started : EnoughIn(counted, m)}

\* messages.fetch, not forced: the message that is kept, or a fresh one.
Fetch(m) ==
  Counts(IF m \in DOMAIN cached THEN cached ELSE Put(cached, m, stars[m]), {})

\* A new message, or one that something else fetches.
Appears(m) ==
  /\ up /\ m \notin DOMAIN cached /\ Counts(Put(cached, m, stars[m]), {})
  /\ UNCHANGED <<up, discord, fetching, waiting, awaiting, reposted, ghosts, reactions, starts, faults>>

\* Two hundred messages of a channel are kept.
Evicted(m) ==
  /\ m \in DOMAIN cached /\ Fault /\ Counts(Without(cached, m), {})
  /\ UNCHANGED <<up, discord, fetching, waiting, awaiting, reposted, ghosts, reactions, starts>>

-----------------------------------------------------------------------------
(* Reactions.                                                              *)

\* Nobody is told of a reaction while the process is down, or the gateway is.
Untold(m, n) ==
  /\ reactions < MaxStars /\ reactions' = reactions + 1
  /\ stars' = [stars EXCEPT ![m] = n]
  /\ UNCHANGED <<up, boardChannel, refused, counts, fetching, waiting, awaiting, reposted, ghosts,
                 starts, faults>>

\* A bot's star counts and starts nothing.
BotReacts(m) ==
  /\ up /\ reactions < MaxStars /\ reactions' = reactions + 1
  /\ stars' = [stars EXCEPT ![m] = @ + 1]
  /\ Counts([cached EXCEPT ![m] = @ + 1], {})
  /\ UNCHANGED <<up, boardChannel, refused, fetching, waiting, awaiting, reposted, ghosts, starts, faults>>

\* handleDiscordReactionEvent: enqueue at once where the message is kept,
\* after it has been fetched otherwise.
React(m) ==
  /\ up /\ reactions < MaxStars /\ reactions' = reactions + 1
  /\ stars' = [stars EXCEPT ![m] = @ + 1]
  /\ IF m \in DOMAIN cached
     THEN /\ Counts([cached EXCEPT ![m] = @ + 1], {m})
          /\ waiting' = [waiting EXCEPT ![m] = @ + 1]
          /\ UNCHANGED fetching
     ELSE fetching' = [fetching EXCEPT ![m] = @ + 1] /\ UNCHANGED <<counts, waiting>>
  /\ UNCHANGED <<up, boardChannel, refused, awaiting, reposted, ghosts, starts, faults>>

ReactionFetched(m) ==
  /\ fetching[m] > 0 /\ fetching' = [fetching EXCEPT ![m] = @ - 1]
  /\ Counts(Put(cached, m, stars[m]), {m})
  /\ waiting' = [waiting EXCEPT ![m] = @ + 1]
  /\ UNCHANGED <<up, discord, awaiting, reposted, ghosts, reactions, starts, faults>>

\* The handler throws: this star starts no run.
ReactionFetchFails(m) ==
  /\ fetching[m] > 0 /\ fetching' = [fetching EXCEPT ![m] = @ - 1] /\ Fault
  /\ UNCHANGED <<up, discord, counts, waiting, awaiting, reposted, ghosts, reactions, starts>>

\* The handler does not listen to removals; discord.js does.
Unreact(m) ==
  /\ up /\ reactions < MaxStars /\ reactions' = reactions + 1
  /\ stars[m] > 0 /\ stars' = [stars EXCEPT ![m] = @ - 1]
  /\ Counts([cached EXCEPT ![m] = IF @ > 0 THEN @ - 1 ELSE 0], {})
  /\ UNCHANGED <<up, boardChannel, refused, fetching, waiting, awaiting, reposted, ghosts, starts, faults>>

-----------------------------------------------------------------------------
(* A run: is the message claimed, what is it, how many stars, send.        *)

\* Mutant: a claimed message is checked and sent again.
BeginAnyway(m) ==
  /\ awaiting[m] = "none" /\ waiting[m] > 0
  /\ waiting' = [waiting EXCEPT ![m] = @ - 1]
  /\ awaiting' = [awaiting EXCEPT ![m] = "info"]
  /\ UNCHANGED <<up, discord, counts, fetching, reposted, ghosts, reactions, starts, faults>>

Begin(m) ==
  /\ awaiting[m] = "none" /\ waiting[m] > 0
  /\ waiting' = [waiting EXCEPT ![m] = @ - 1]
  /\ awaiting' = IF m \in reposted THEN awaiting ELSE [awaiting EXCEPT ![m] = "info"]
  /\ UNCHANGED <<up, discord, counts, fetching, reposted, ghosts, reactions, starts, faults>>

At(m, s) == awaiting[m] = s
Go(m, s) == awaiting' = [awaiting EXCEPT ![m] = s]

InfoFetched(m) ==
  /\ At(m, "info") /\ Fetch(m)
  /\ Go(m, IF m \in refused THEN "none" ELSE "count")
  /\ UNCHANGED <<up, discord, fetching, waiting, reposted, ghosts, reactions, starts, faults>>

\* The message is fetched again, counted, and claimed before it is sent.
Counted(m) ==
  /\ At(m, "count") /\ Fetch(m)
  /\ IF cached'[m] < Threshold
     THEN Go(m, "none") /\ UNCHANGED reposted
     ELSE Go(m, "sending") /\ reposted' = reposted \cup {m}
  /\ UNCHANGED <<up, discord, fetching, waiting, ghosts, reactions, starts, faults>>

\* A missing channel is no failure: the claim stays, and nothing was sent.
Sent(m) ==
  /\ At(m, "sending") /\ Go(m, "none")
  /\ posts' = IF boardChannel THEN [posts EXCEPT ![m] = @ + 1] ELSE posts
  /\ failed' = IF boardChannel THEN failed ELSE failed \cup {m}
  /\ UNCHANGED <<up, discord, counts, fetching, waiting, reposted, unsure, reactions, starts, faults>>

\* A request for a message that is not kept fails, or there is none; a
\* failed count is a count of zero.
RunFails(m) ==
  /\ awaiting[m] \in {"info", "count"} /\ m \notin DOMAIN cached /\ Fault /\ Go(m, "none")
  /\ failed' = failed \cup {m}
  /\ UNCHANGED <<up, discord, counts, fetching, waiting, reposted, posts, unsure, reactions, starts>>

\* The claim is released.  Discord may have posted the message all the same.
SendFails(m) ==
  /\ At(m, "sending") /\ boardChannel /\ Fault /\ Go(m, "none")
  /\ reposted' = reposted \ {m}
  /\ failed' = failed \cup {m}
  /\ \/ UNCHANGED <<posts, unsure>>
     \/ posts' = [posts EXCEPT ![m] = @ + 1] /\ unsure' = unsure \cup {m}
  /\ UNCHANGED <<up, discord, counts, fetching, waiting, reactions, starts>>

-----------------------------------------------------------------------------
(* The process: what was reposted before is not known to it.               *)

Start ==
  /\ ~up /\ starts < MaxStarts /\ starts' = starts + 1
  /\ up' = TRUE
  /\ boardChannel' \in BOOLEAN /\ refused' \in SUBSET Messages
  /\ due' = {} /\ posts' = Zero /\ unsure' = {} /\ failed' = {}
  /\ UNCHANGED <<stars, cached, fetching, waiting, awaiting, reposted, reactions, faults>>

Stop ==
  /\ up /\ Fault /\ up' = FALSE
  /\ cached' = NoMessage /\ fetching' = Zero
  /\ waiting' = Zero /\ awaiting' = NoRun /\ reposted' = {}
  /\ UNCHANGED <<discord, due, ghosts, reactions, starts>>

Run(m) == Begin(m) \/ InfoFetched(m) \/ Counted(m) \/ Sent(m)

Next ==
  \/ \E m \in Messages :
       \/ Appears(m) \/ Evicted(m)
       \/ BotReacts(m) \/ React(m) \/ Unreact(m)
       \/ Untold(m, stars[m] + 1) \/ (stars[m] > 0 /\ Untold(m, stars[m] - 1))
       \/ ReactionFetched(m) \/ ReactionFetchFails(m)
       \/ Run(m) \/ RunFails(m) \/ SendFails(m)
  \/ Start \/ Stop

Spec == Init /\ [][Next]_vars

-----------------------------------------------------------------------------
(* Properties.                                                             *)

(* The variables have their types.                                         *)
TypeOK ==
  /\ up \in BOOLEAN /\ boardChannel \in BOOLEAN
  /\ {stars, fetching, waiting, posts} \subseteq [Messages -> Nat] /\ awaiting \in [Messages -> Stages]
  /\ DOMAIN cached \subseteq Messages /\ \A m \in DOMAIN cached : cached[m] \in Nat
  /\ {refused, reposted, unsure, due, failed} \subseteq SUBSET Messages
  /\ {reactions, starts, faults} \subseteq Nat

Owed(m) == up /\ m \in due \ (refused \cup failed)

(* A process reposts a message at most once, however many reactions arrive *)
(* while it checks and sends, unless Discord posted what it reported as    *)
(* failed.  And a message that has had enough stars in the process's eyes  *)
(* since a person's star started a run is reposted when its runs are over: *)
(* none of the stars that found it claimed or too early was the one that   *)
(* counted.  Stars of bots, stars nobody was told of and stars whose       *)
(* message could not be fetched start no run, so that a message which has  *)
(* enough stars by one of those waits for the next person's.               *)
RepostedOnce ==
  \A m \in Messages :
    /\ m \notin unsure => posts[m] <= 1
    /\ Owed(m) /\ waiting[m] = 0 /\ awaiting[m] = "none" => posts[m] >= 1

=============================================================================
