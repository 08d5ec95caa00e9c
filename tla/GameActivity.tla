---------------------------- MODULE GameActivity ----------------------------
(***************************************************************************)
(* Who plays a game of the whitelist, in one summary message.  A presence  *)
(* event changes the tracker and takes a snapshot; a refresh, once per     *)
(* interval, evicts who was not heard of for too long and takes one as     *)
(* well.  Posting a snapshot resolves the channel, then edits, deletes or  *)
(* sends the message, and awaits Discord at every step.                    *)
(***************************************************************************)
EXTENDS Naturals, FiniteSets

CONSTANTS
  Users,
  StaleAfter, Interval,
  LastTime,      \* bound: the clock stops there
  MaxPresences,  \* bound: presence events
  MaxUpdates,    \* bound: updates under way at one time
  MaxFaults      \* bound: failures

GameActivityAssumption ==
  /\ IsFiniteSet(Users) /\ {StaleAfter, Interval} \subseteq Nat \ {0}
  /\ {LastTime, MaxPresences, MaxUpdates, MaxFaults} \subseteq Nat

VARIABLES
  now,
  tracker,          \* when each player was last observed
  activeMessageId,  \* the id of the summary message, or 0
  messages,         \* Discord: the players that each message lists
  updates,          \* posts under way: the snapshot, what they await, the message
                    \* they fetched and the one they delete
  nextRefresh,
  refreshing,       \* inFlightRefresh: the update the refresh waits for, or 0
  crossed,          \* history: two updates were under way at one time
  sent, begun, presences, faults   \* counters: ids of messages, of updates; bounds

vars == <<now, tracker, activeMessageId, messages, updates, nextRefresh, refreshing, crossed,
          sent, begun, presences, faults>>

Empty == [x \in {} |-> 0]
Put(f, x, y) == [z \in DOMAIN f \cup {x} |-> IF z = x THEN y ELSE f[z]]
Without(f, S) == [z \in DOMAIN f \ S |-> f[z]]

Init ==
  /\ now = 0 /\ tracker = Empty /\ activeMessageId = 0 /\ messages = Empty
  /\ updates = Empty /\ nextRefresh = Interval /\ refreshing = 0
  /\ crossed = FALSE /\ sent = 0 /\ begun = 0 /\ presences = 0 /\ faults = 0

Fault == faults < MaxFaults /\ faults' = faults + 1

-----------------------------------------------------------------------------
(* The tracker.                                                            *)

StaleIn(t) == {u \in DOMAIN t : now - t[u] > StaleAfter}
Snapshot(t) == DOMAIN t \ StaleIn(t)

\* postOrEdit begins: the channel is being resolved.
Post(t) ==
  /\ Cardinality(DOMAIN updates) < MaxUpdates
  /\ begun' = begun + 1
  /\ updates' = Put(updates, begun', [shows |-> Snapshot(t), awaits |-> "channel",
                                      message |-> 0, target |-> 0, since |-> now])
  /\ crossed' = (crossed \/ updates # Empty)

\* handlePresenceUpdate
Presence(u, playing) ==
  /\ presences < MaxPresences /\ presences' = presences + 1
  /\ tracker' = IF playing THEN Put(tracker, u, now) ELSE Without(tracker, {u})
  /\ Post(tracker')
  /\ UNCHANGED <<now, activeMessageId, messages, nextRefresh, refreshing, sent, faults>>

\* Mutant: nobody is left, so that there is nothing to show.
IdleAfterEviction == tracker' = Empty

\* Nobody was evicted and nobody plays.
Idle == tracker = Empty

\* The interval: nothing to do while a refresh is under way.
Refresh ==
  /\ now >= nextRefresh /\ nextRefresh' = now + Interval
  /\ IF refreshing # 0 THEN UNCHANGED <<tracker, updates, refreshing, crossed, begun>>
     ELSE /\ tracker' = Without(tracker, StaleIn(tracker))
          /\ IF Idle THEN UNCHANGED <<updates, refreshing, crossed, begun>>
             ELSE Post(tracker') /\ refreshing' = begun'
  /\ UNCHANGED <<now, activeMessageId, messages, sent, presences, faults>>

-----------------------------------------------------------------------------
(* Posting.                                                                *)

At(p, step) == p \in DOMAIN updates /\ updates[p].awaits = step

Ends(p) ==
  /\ updates' = Without(updates, {p})
  /\ refreshing' = IF refreshing = p THEN 0 ELSE refreshing

Goes(p, step, message) ==
  /\ updates' = [updates EXCEPT ![p].awaits = step, ![p].message = message,
                                ![p].target = IF step = "delete" THEN activeMessageId ELSE 0]
  /\ UNCHANGED refreshing

\* A fresh message, if there is anything to show.
PostFresh(p) == IF updates[p].shows = {} THEN Ends(p) ELSE Goes(p, "send", 0)

Rest == <<now, tracker, nextRefresh, crossed, begun, presences>>

ChannelResolved(p) ==
  /\ At(p, "channel")
  /\ IF activeMessageId # 0 THEN Goes(p, "fetch", activeMessageId) ELSE PostFresh(p)
  /\ UNCHANGED <<activeMessageId, messages, sent, faults, Rest>>

ChannelUnresolved(p) ==
  /\ At(p, "channel") /\ Fault /\ Ends(p)
  /\ UNCHANGED <<activeMessageId, messages, sent, Rest>>

\* What is deleted is activeMessageId as it is now, not what was fetched.
Fetched(p) ==
  /\ At(p, "fetch") /\ updates[p].message \in DOMAIN messages
  /\ Goes(p, IF updates[p].shows = {} THEN "delete" ELSE "edit", updates[p].message)
  /\ UNCHANGED <<activeMessageId, messages, sent, faults, Rest>>

\* The message is gone, or the request failed.
NotFetched(p) ==
  /\ At(p, "fetch")
  /\ IF updates[p].message \in DOMAIN messages THEN Fault ELSE UNCHANGED faults
  /\ activeMessageId' = 0
  /\ PostFresh(p)
  /\ UNCHANGED <<messages, sent, Rest>>

Edited(p) ==
  /\ At(p, "edit") /\ updates[p].message \in DOMAIN messages
  /\ messages' = [messages EXCEPT ![updates[p].message] = updates[p].shows]
  /\ Ends(p)
  /\ UNCHANGED <<activeMessageId, sent, faults, Rest>>

EditFails(p) ==
  /\ At(p, "edit")
  /\ IF updates[p].message \in DOMAIN messages THEN Fault ELSE UNCHANGED faults
  /\ activeMessageId' = 0 /\ Goes(p, "send", 0)
  /\ UNCHANGED <<messages, sent, Rest>>

Deleted(p) ==
  /\ At(p, "delete") /\ updates[p].target \in DOMAIN messages /\ Ends(p)
  /\ messages' = Without(messages, {updates[p].target})
  /\ activeMessageId' = 0
  /\ UNCHANGED <<sent, faults, Rest>>

\* The message that was fetched is edited to say that nobody plays; if that
\* fails too, it stays.
DeleteFails(p) ==
  /\ At(p, "delete") /\ Ends(p)
  /\ IF updates[p].target \in DOMAIN messages THEN Fault ELSE UNCHANGED faults
  /\ activeMessageId' = 0
  /\ LET m == updates[p].message
     IN messages' \in {messages} \cup {[messages EXCEPT ![m] = {}] : x \in {m} \cap DOMAIN messages}
  /\ UNCHANGED <<sent, Rest>>

Sent(p) ==
  /\ At(p, "send") /\ Ends(p)
  /\ sent' = sent + 1
  /\ messages' = Put(messages, sent', updates[p].shows)
  /\ activeMessageId' = sent'
  /\ UNCHANGED <<faults, Rest>>

SendFails(p) ==
  /\ At(p, "send") /\ Fault /\ Ends(p)
  /\ activeMessageId' = 0
  /\ UNCHANGED <<messages, sent, Rest>>

\* The interval fires on time, and a post takes less than an interval.
Tick ==
  /\ now < LastTime /\ now < nextRefresh /\ now' = now + 1
  /\ \A p \in DOMAIN updates : now' < updates[p].since + Interval
  /\ UNCHANGED <<tracker, activeMessageId, messages, updates, nextRefresh, refreshing, crossed,
                 sent, begun, presences, faults>>

Step(p) ==
  ChannelResolved(p) \/ Fetched(p) \/ NotFetched(p) \/ Edited(p) \/ EditFails(p) \/ Deleted(p) \/ Sent(p)

Next ==
  \/ \E u \in Users, playing \in BOOLEAN : Presence(u, playing)
  \/ \E p \in DOMAIN updates : Step(p) \/ ChannelUnresolved(p) \/ DeleteFails(p) \/ SendFails(p)
  \/ Refresh \/ Tick

Spec == Init /\ [][Next]_vars

-----------------------------------------------------------------------------
(* Properties.                                                             *)

(* The variables have their types.                                         *)
TypeOK ==
  /\ DOMAIN tracker \subseteq Users /\ \A u \in DOMAIN tracker : tracker[u] \in 0 .. now
  /\ activeMessageId \in 0 .. sent /\ DOMAIN messages \subseteq 1 .. sent
  /\ \A m \in DOMAIN messages : messages[m] \subseteq Users
  /\ \A p \in DOMAIN updates :
       /\ p \in 1 .. begun /\ updates[p].shows \subseteq Users /\ updates[p].since \in 0 .. now
       /\ {updates[p].message, updates[p].target} \subseteq 0 .. sent
       /\ updates[p].awaits \in {"channel", "fetch", "edit", "delete", "send"}
  /\ refreshing \in 0 .. begun /\ crossed \in BOOLEAN
  /\ {nextRefresh, presences, faults} \subseteq Nat

Listed == UNION {messages[m] : m \in DOMAIN messages}

(* As long as no two updates overlapped and no request failed, there is    *)
(* one summary at most.  Once an update is over it lists everybody who was *)
(* observed to play and is not stale, and nobody who stopped or was not    *)
(* heard of for longer than the limit and one interval: no ghosts stay.    *)
NoGhosts ==
  ~crossed /\ faults = 0 =>
    /\ DOMAIN messages \subseteq {activeMessageId}
    /\ updates = Empty =>
         /\ Snapshot(tracker) \subseteq Listed /\ Listed \subseteq DOMAIN tracker
         /\ \A u \in Listed : now - tracker[u] <= StaleAfter + Interval

=============================================================================
