----------------------------- MODULE NowPlaying -----------------------------
(***************************************************************************)
(* What one member listens to on Spotify: an entry in memory and its embed *)
(* on Discord.  Members do not share anything.  A presence with a track    *)
(* edits the embed or sends one and sets the entry after Discord answered; *)
(* one without a track removes both, and so does the pruning of entries    *)
(* that were not refreshed for too long.                                   *)
(***************************************************************************)
EXTENDS Naturals, FiniteSets

CONSTANTS
  Tracks,
  StaleAfter, Interval,
  LastTime,      \* bound: the clock stops there
  MaxPresences,  \* bound: presence events
  MaxUpdates,    \* bound: requests under way at one time
  MaxFaults      \* bound: failures

NowPlayingAssumption ==
  /\ {StaleAfter, Interval} \subseteq Nat \ {0}
  /\ {LastTime, MaxPresences, MaxUpdates, MaxFaults} \subseteq Nat

VARIABLES
  now,
  playing,   \* the tracks of the last presence: none or one
  entry,     \* the entry of the store: none or one
  embeds,    \* Discord: the track that each embed shows
  updates,   \* presences and removals that wait for Discord
  nextPrune,
  crossed,   \* history: a presence or a removal came while another was under way
  sent, begun, presences, faults   \* counters: ids of embeds, of updates; bounds

vars == <<now, playing, entry, embeds, updates, nextPrune, crossed, sent, begun, presences, faults>>
Rest == <<now, playing, nextPrune, crossed, begun, presences>>

Empty == [x \in {} |-> 0]
Put(f, x, y) == [z \in DOMAIN f \cup {x} |-> IF z = x THEN y ELSE f[z]]
Without(f, x) == [z \in DOMAIN f \ {x} |-> f[z]]

\* An entry without an embed has message 0.
Entry(track, message, at) == [track |-> track, message |-> message, at |-> at]

Init ==
  /\ now = 0 /\ playing = {} /\ entry = {} /\ embeds = Empty
  /\ updates = Empty /\ nextPrune = Interval /\ crossed = FALSE
  /\ sent = 0 /\ begun = 0 /\ presences = 0 /\ faults = 0

Fault == faults < MaxFaults /\ faults' = faults + 1

Begin(awaits, e) ==
  /\ Cardinality(DOMAIN updates) < MaxUpdates
  /\ begun' = begun + 1
  /\ updates' = Put(updates, begun', [awaits |-> awaits, entry |-> e])

Crosses == crossed' = (crossed \/ updates # Empty)

Presence(tracks) ==
  /\ Crosses
  /\ presences < MaxPresences /\ presences' = presences + 1
  /\ playing' = tracks

\* start: the same track again only refreshes the entry.
PlaysOn(t) ==
  /\ Presence({t}) /\ \E e \in entry : e.track = t
  /\ entry' = {[e EXCEPT !.at = now] : e \in entry}
  /\ UNCHANGED <<now, embeds, updates, nextPrune, sent, begun, faults>>

Plays(t) ==
  /\ Presence({t}) /\ \A e \in entry : e.track # t
  /\ LET shown == {e.message : e \in entry} \ {0}
     IN IF shown = {} THEN Begin("send", Entry(t, 0, now))
        ELSE \E m \in shown : Begin("edit", Entry(t, m, now))
  /\ UNCHANGED <<now, entry, embeds, nextPrune, sent, faults>>

\* Mutant: the embed stays.
RemoveForgotten(e) == entry' = {} /\ UNCHANGED <<updates, begun>>

\* remove: the entry first, then its embed.
Remove(e) ==
  /\ entry' = {}
  /\ IF e.message = 0 THEN UNCHANGED <<updates, begun>> ELSE Begin("delete", e)

Stops ==
  /\ Presence({})
  /\ IF entry = {} THEN UNCHANGED <<entry, updates, begun>> ELSE \E e \in entry : Remove(e)
  /\ UNCHANGED <<now, embeds, nextPrune, sent, faults>>

IsStale(e) == now - e.at > StaleAfter

Prune ==
  /\ now >= nextPrune /\ nextPrune' = now + Interval
  /\ IF \E e \in entry : IsStale(e) THEN Crosses /\ \E e \in entry : Remove(e)
     ELSE UNCHANGED <<entry, updates, crossed, begun>>
  /\ UNCHANGED <<now, playing, embeds, sent, presences, faults>>

-----------------------------------------------------------------------------
(* Discord answers.                                                        *)

At(p, step) == p \in DOMAIN updates /\ updates[p].awaits = step
Ends(p) == updates' = Without(updates, p)

Edited(p) ==
  LET e == updates[p].entry
  IN /\ At(p, "edit") /\ e.message \in DOMAIN embeds
     /\ embeds' = [embeds EXCEPT ![e.message] = e.track]
     /\ entry' = {e} /\ Ends(p)
     /\ UNCHANGED <<sent, faults, Rest>>

\* The embed is gone, or the request failed: a new one is sent.
EditFails(p) ==
  /\ At(p, "edit")
  /\ IF updates[p].entry.message \in DOMAIN embeds THEN Fault ELSE UNCHANGED faults
  /\ updates' = [updates EXCEPT ![p].awaits = "send", ![p].entry.message = 0]
  /\ UNCHANGED <<entry, embeds, sent, Rest>>

Sent(p) ==
  LET e == updates[p].entry
  IN /\ At(p, "send") /\ Ends(p)
     /\ sent' = sent + 1
     /\ embeds' = Put(embeds, sent', e.track)
     /\ entry' = {[e EXCEPT !.message = sent']}
     /\ UNCHANGED <<faults, Rest>>

\* There is no channel, which leaves an entry without an embed; or the request
\* fails, which leaves what there was.
NotSent(p) ==
  /\ At(p, "send") /\ Fault /\ Ends(p)
  /\ entry' \in {entry, {updates[p].entry}}
  /\ UNCHANGED <<embeds, sent, Rest>>

\* What cannot be deleted is forgotten.
Deleted(p) ==
  LET m == updates[p].entry.message
  IN /\ At(p, "delete") /\ Ends(p)
     /\ \/ embeds' = Without(embeds, m) /\ UNCHANGED faults
        \/ Fault /\ UNCHANGED embeds
     /\ UNCHANGED <<entry, sent, Rest>>

\* The interval fires on time, and Discord answers within an interval.
Tick ==
  /\ now < LastTime /\ now < nextPrune /\ now' = now + 1
  /\ \A p \in DOMAIN updates : now' < updates[p].entry.at + Interval \/ updates[p].awaits = "delete"
  /\ UNCHANGED <<playing, entry, embeds, updates, nextPrune, crossed, sent, begun, presences, faults>>

Next ==
  \/ \E t \in Tracks : PlaysOn(t) \/ Plays(t)
  \/ Stops \/ Prune \/ Tick
  \/ \E p \in DOMAIN updates : Edited(p) \/ EditFails(p) \/ Sent(p) \/ NotSent(p) \/ Deleted(p)

Spec == Init /\ [][Next]_vars

-----------------------------------------------------------------------------
(* Properties.                                                             *)

(* The variables have their types.                                         *)
TypeOK ==
  /\ playing \subseteq Tracks /\ Cardinality(entry) <= 1
  /\ entry \subseteq [track : Tracks, message : 0 .. sent, at : 0 .. now]
  /\ DOMAIN embeds \subseteq 1 .. sent /\ \A m \in DOMAIN embeds : embeds[m] \in Tracks
  /\ DOMAIN updates \subseteq 1 .. begun
  /\ \A p \in DOMAIN updates :
       /\ updates[p].entry \in [track : Tracks, message : 0 .. sent, at : 0 .. now]
       /\ updates[p].awaits \in {"edit", "send", "delete"}
  /\ crossed \in BOOLEAN /\ {nextPrune, presences, faults} \subseteq Nat

\* An entry may be set an interval after the presence it is of.
Longest == IF StaleAfter < Interval THEN Interval ELSE StaleAfter

(* As long as no presence came while another waited for Discord and no     *)
(* request failed, what is shown once an update is over is the embed of    *)
(* the entry and no other, with the track that is being played.  Whatever  *)
(* came when, no entry outlives the limit, or the time an answer may take, *)
(* and one interval: what a late answer set after the music had stopped is *)
(* pruned.                                                                 *)
EmbedIsCurrent ==
  /\ ~crossed /\ faults = 0 /\ updates = Empty =>
       /\ DOMAIN embeds = {e.message : e \in entry}
       /\ \A e \in entry : playing = {e.track} /\ embeds[e.message] = e.track
  /\ \A e \in entry : now - e.at <= Longest + Interval

=============================================================================
