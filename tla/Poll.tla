-------------------------------- MODULE Poll --------------------------------
(***************************************************************************)
(* /poll create and close, the vote and clear buttons, and the adapter of  *)
(* /privacy delete, all over data/polls.json.  Every handler loads the     *)
(* whole file, changes its copy and writes the whole file back.  Only      *)
(* handleCreate awaits Discord between the two; the others answer to       *)
(* Discord after the save, by editing the message of the poll.             *)
(*                                                                         *)
(* A refused command or a save that fails changes nothing and has no       *)
(* action.  The consent service answers within the same turn of the event  *)
(* loop.                                                                   *)
(***************************************************************************)
EXTENDS Naturals, Sequences, FiniteSets

CONSTANTS
  Users,
  Polls,        \* poll ids; a poll and its message come and go together
  Options,      \* option numbers; 0 stands for no vote
  MaxEdits,     \* bound: message edits on their way at once
  MaxActs,      \* bound: creations, votes, clears, closings and deletions
  MaxRevokes,   \* bound: changes of consent
  MaxStarts,    \* bound: starts of the process
  MaxFaults     \* bound: failed requests, stops and crashes in a write

PollAssumption ==
  /\ IsFiniteSet(Users) /\ IsFiniteSet(Polls)
  /\ Options \subseteq Nat \ {0}
  /\ {MaxEdits, MaxActs, MaxRevokes, MaxStarts, MaxFaults} \subseteq Nat

VARIABLES
  up,        \* the process runs
  consent,   \* users with an active grant for activity-history
  file,      \* data/polls.json
  drafts,    \* creations that await channel.send: who, and the state loaded
  closing,   \* closings that await fetchPollMessage, with the poll to show
  edits,     \* message edits on their way, in order
  posted,    \* polls whose message is on Discord
  shown,     \* what the messages show
  told,      \* history: what the users were told is saved
  lost,      \* history: a creation wrote over what it had not seen, or a write was torn
  blurred,   \* history: polls whose message missed a change
  acts, revokes, starts, faults   \* counters of the bounds

store == <<file, told, lost>>
discord == <<edits, posted, shown, blurred>>
vars == <<up, consent, file, drafts, closing, edits, posted, shown, told, lost,
          blurred, acts, revokes, starts, faults>>

NoVotes == [u \in Users |-> 0]
Ballots == [Users -> Options \cup {0}]
PollRecords == [creator : Users, closed : BOOLEAN, votes : Ballots]
NewPoll(u) == [creator |-> u, closed |-> FALSE, votes |-> NoVotes]

\* What a message shows: the votes of each option.
Tally(poll) == [o \in Options |-> Cardinality({u \in Users : poll.votes[u] = o})]
View(poll) == [closed |-> poll.closed, counts |-> Tally(poll)]
Views == [closed : BOOLEAN, counts : [Options -> Nat]]

\* What users know of a poll.
Known(poll) == [closed |-> poll.closed, votes |-> poll.votes]

\* Functions from some of the polls to values.
Some(values) == UNION {[ps -> values] : ps \in SUBSET Polls}
Nothing == [p \in {} |-> 0]
Without(f, ps) == [p \in DOMAIN f \ ps |-> f[p]]

Init ==
  /\ up = FALSE /\ consent \in SUBSET Users
  /\ file = [kind |-> "missing", polls |-> Nothing]
  /\ drafts = Nothing /\ closing = Nothing
  /\ edits = <<>> /\ posted = {} /\ shown = Nothing
  /\ told = Nothing /\ lost = FALSE /\ blurred = {}
  /\ acts = 0 /\ revokes = 0 /\ starts = 0 /\ faults = 0

Act == acts < MaxActs /\ acts' = acts + 1
Fault == faults < MaxFaults /\ faults' = faults + 1

-----------------------------------------------------------------------------
(* The store.                                                              *)

\* load: a missing or an empty file holds no polls; JSON.parse of a torn one
\* throws, and with it the handler.
Loadable == file.kind # "torn"
Loaded == IF file.kind = "ok" THEN file.polls ELSE Nothing

\* upsertPoll
Upserted(polls, p, poll) ==
  [q \in DOMAIN polls \cup {p} |-> IF q = p THEN poll ELSE polls[q]]

Save(polls) == file' = [kind |-> "ok", polls |-> polls]

\* Mutant: the first vote stays.
WithVoteFirst(poll, u, o) == [poll EXCEPT !.votes[u] = IF @ = 0 THEN o ELSE @]

\* applyVote and clearVote
WithVote(poll, u, o) == [poll EXCEPT !.votes[u] = o]

-----------------------------------------------------------------------------
(* /poll create: load, send the message, save what was loaded and the new  *)
(* poll.                                                                   *)

CreatePoll(u, p) ==
  /\ up /\ Act /\ Loadable
  /\ u \in consent
  /\ p \notin posted \cup DOMAIN drafts \cup DOMAIN Loaded
  /\ drafts' = Upserted(drafts, p, [creator |-> u, base |-> Loaded])
  /\ UNCHANGED <<up, consent, store, closing, discord, revokes, starts, faults>>

\* Mutant: the message goes out without its poll.
PostedBlank(p) ==
  /\ p \in DOMAIN drafts \ posted
  /\ posted' = posted \cup {p}
  /\ UNCHANGED <<up, consent, store, drafts, closing, edits, shown, blurred, acts, revokes, starts, faults>>

\* Discord has the message: its buttons work from now on.
Posted(p) ==
  /\ p \in DOMAIN drafts \ posted
  /\ posted' = posted \cup {p}
  /\ shown' = Upserted(shown, p, View(NewPoll(drafts[p].creator)))
  /\ UNCHANGED <<up, consent, store, drafts, closing, edits, blurred, acts, revokes, starts, faults>>

\* The polls that writing these back would take away or change.
Overwritten(polls) ==
  {p \in DOMAIN Loaded : p \notin DOMAIN polls \/ polls[p] # Loaded[p]}
    \cup (DOMAIN polls \ DOMAIN Loaded)

SaveCreated(p) ==
  LET draft == drafts[p]
      poll == NewPoll(draft.creator)
  IN /\ up /\ p \in DOMAIN drafts \cap posted
     /\ drafts' = Without(drafts, {p})
     /\ Save(Upserted(draft.base, p, poll))
     /\ lost' = (lost \/ Overwritten(draft.base) # {})
     /\ told' = IF lost' THEN Nothing ELSE Upserted(told, p, Known(poll))
     /\ blurred' = blurred \cup Overwritten(draft.base)
     /\ UNCHANGED <<up, consent, closing, edits, posted, shown, acts, revokes, starts, faults>>

\* channel.send or the save throws.
CreateFails(p) ==
  /\ up /\ p \in DOMAIN drafts /\ Fault
  /\ drafts' = Without(drafts, {p})
  /\ UNCHANGED <<up, consent, store, closing, discord, acts, revokes, starts>>

-----------------------------------------------------------------------------
(* The buttons.                                                            *)

\* Mutant: while an edit of the message is on its way there is no other.
EditFirst(p, view) ==
  /\ Len(edits) < MaxEdits
  /\ edits' = IF \E i \in DOMAIN edits : edits[i].poll = p THEN edits
              ELSE Append(edits, [poll |-> p, shows |-> view])

Edit(p, view) ==
  /\ Len(edits) < MaxEdits
  /\ edits' = Append(edits, [poll |-> p, shows |-> view])

\* Mutant: buttons do not ask for consent.
AnswerableAnyone(u, p) == up /\ p \in posted /\ Loadable /\ p \in DOMAIN Loaded

Answerable(u, p) == up /\ p \in posted /\ u \in consent /\ Loadable /\ p \in DOMAIN Loaded

\* The user is told the new state of their vote.
Tell(u, p, o) ==
  /\ told' = IF lost THEN told ELSE [told EXCEPT ![p].votes[u] = o]
  /\ UNCHANGED lost

VoteButton(u, p, o) ==
  LET next == WithVote(Loaded[p], u, o)
  IN /\ Answerable(u, p) /\ Act
     /\ ~Loaded[p].closed
     /\ Save(Upserted(Loaded, p, next))
     /\ Edit(p, View(next))
     /\ Tell(u, p, o)
     /\ UNCHANGED <<up, consent, drafts, closing, posted, shown, blurred, revokes, starts, faults>>

\* A vote can be withdrawn from a closed poll too: its buttons stay.
ClearButton(u, p) ==
  LET next == WithVote(Loaded[p], u, 0)
  IN /\ Answerable(u, p) /\ Act
     /\ Loaded[p].votes[u] # 0
     /\ Save(Upserted(Loaded, p, next))
     /\ Edit(p, View(next))
     /\ Tell(u, p, 0)
     /\ blurred' = blurred \cup ({p} \cap DOMAIN closing)
     /\ UNCHANGED <<up, consent, drafts, closing, posted, shown, revokes, starts, faults>>

-----------------------------------------------------------------------------
(* /poll close: save, look for the message, edit it.                       *)

ClosePoll(u, p) ==
  LET closed == [Loaded[p] EXCEPT !.closed = TRUE]
  IN /\ up /\ Act /\ Loadable /\ p \in DOMAIN Loaded
     /\ ~Loaded[p].closed /\ Loaded[p].creator = u
     /\ Save(Upserted(Loaded, p, closed))
     /\ closing' = Upserted(closing, p, View(closed))
     /\ told' = IF lost THEN told ELSE [told EXCEPT ![p].closed = TRUE]
     /\ UNCHANGED <<up, consent, drafts, lost, discord, revokes, starts, faults>>

CloseShown(p) ==
  /\ up /\ p \in DOMAIN closing
  /\ closing' = Without(closing, {p})
  /\ Edit(p, closing[p])
  /\ UNCHANGED <<up, consent, store, drafts, posted, shown, blurred, acts, revokes, starts, faults>>

\* fetchPollMessage resolves to null: the message stays as it is.
CloseUnseen(p) ==
  /\ up /\ p \in DOMAIN closing /\ Fault
  /\ closing' = Without(closing, {p})
  /\ blurred' = blurred \cup {p}
  /\ UNCHANGED <<up, consent, store, drafts, edits, posted, shown, acts, revokes, starts>>

\* Requests for one message go out in the order they were made.
Edited ==
  /\ edits # <<>>
  /\ shown' = [shown EXCEPT ![Head(edits).poll] = Head(edits).shows]
  /\ edits' = Tail(edits)
  /\ UNCHANGED <<up, consent, store, drafts, closing, posted, blurred, acts, revokes, starts, faults>>

EditFails ==
  /\ edits # <<>> /\ Fault
  /\ blurred' = blurred \cup {Head(edits).poll}
  /\ edits' = Tail(edits)
  /\ UNCHANGED <<up, consent, store, drafts, closing, posted, shown, acts, revokes, starts>>

-----------------------------------------------------------------------------
(* /privacy delete: the adapter edits the file and no message.  It takes a *)
(* file that does not parse for a failure.                                 *)

Anonymous(polls, u) ==
  [p \in {q \in DOMAIN polls : polls[q].creator # u} |-> WithVote(polls[p], u, 0)]

ForgetUser(u) ==
  LET left == Anonymous(Loaded, u)
  IN /\ up /\ Act /\ file.kind = "ok"
     /\ left # Loaded
     /\ Save(left)
     /\ told' = [p \in DOMAIN told \cap DOMAIN left |-> [told[p] EXCEPT !.votes[u] = 0]]
     /\ blurred' = blurred \cup {p \in DOMAIN left : left[p] # Loaded[p]}
     /\ UNCHANGED <<up, consent, drafts, closing, edits, posted, shown, lost, revokes, starts, faults>>

-----------------------------------------------------------------------------
(* Consent and the process.                                                *)

ChangeConsent(u) ==
  /\ revokes < MaxRevokes /\ revokes' = revokes + 1
  /\ consent' = IF u \in consent THEN consent \ {u} ELSE consent \cup {u}
  /\ UNCHANGED <<up, store, drafts, closing, discord, acts, starts, faults>>

Start ==
  /\ ~up /\ starts < MaxStarts
  /\ up' = TRUE /\ starts' = starts + 1
  /\ UNCHANGED <<consent, store, drafts, closing, discord, acts, revokes, faults>>

\* What was awaited is gone; edits Discord has not seen do not happen.
Ended ==
  /\ up /\ Fault
  /\ up' = FALSE
  /\ drafts' = Nothing /\ closing' = Nothing /\ edits' = <<>>
  /\ UNCHANGED <<consent, posted, shown, acts, revokes, starts>>

Stop ==
  /\ Ended
  /\ blurred' = blurred \cup DOMAIN closing \cup {edits[i].poll : i \in DOMAIN edits}
  /\ UNCHANGED store

\* The process dies in writeFileSync, which truncates first.
CrashInWrite ==
  /\ Ended
  /\ posted # {}
  /\ \E kind \in {"empty", "torn"} : file' = [kind |-> kind, polls |-> Nothing]
  /\ lost' = TRUE /\ told' = Nothing /\ blurred' = Polls

Next ==
  \/ \E u \in Users, p \in Polls : CreatePoll(u, p) \/ ClearButton(u, p) \/ ClosePoll(u, p)
  \/ \E u \in Users, p \in Polls, o \in Options : VoteButton(u, p, o)
  \/ \E p \in Polls : Posted(p) \/ SaveCreated(p) \/ CreateFails(p) \/ CloseShown(p) \/ CloseUnseen(p)
  \/ \E u \in Users : ForgetUser(u) \/ ChangeConsent(u)
  \/ Edited \/ EditFails
  \/ Start \/ Stop \/ CrashInWrite

Spec == Init /\ [][Next]_vars

-----------------------------------------------------------------------------
(* Properties.                                                             *)

(* The variables have their types.                                         *)
TypeOK ==
  /\ up \in BOOLEAN /\ consent \subseteq Users
  /\ file.kind \in {"missing", "ok", "empty", "torn"} /\ file.polls \in Some(PollRecords)
  /\ DOMAIN drafts \subseteq Polls
  /\ \A p \in DOMAIN drafts : drafts[p].creator \in Users /\ drafts[p].base \in Some(PollRecords)
  /\ DOMAIN closing \cup DOMAIN shown \subseteq Polls
  /\ \A p \in DOMAIN closing : closing[p] \in Views
  /\ \A p \in DOMAIN shown : shown[p] \in Views
  /\ told \in Some([closed : BOOLEAN, votes : Ballots])
  /\ edits \in Seq([poll : Polls, shows : Views])
  /\ posted = DOMAIN shown
  /\ lost \in BOOLEAN /\ blurred \subseteq Polls
  /\ {acts, revokes, starts, faults} \subseteq Nat

(* Every vote, withdrawal, closing and creation that a user was told of,   *)
(* and every deletion, is what the file says, as long as no creation has   *)
(* written back a file that others had changed while it awaited Discord    *)
(* and no write was cut short.                                             *)
ToldIsSaved ==
  ~lost => /\ DOMAIN told = DOMAIN Loaded
           /\ \A p \in DOMAIN told : told[p] = Known(Loaded[p])

(* Once its edits are through, the message of a poll shows the tally of    *)
(* the votes in the file, unless an edit was lost, the poll was changed    *)
(* without an edit, or a vote was withdrawn between a closing and its edit. *)
ShownOnceQuiet ==
  \A p \in DOMAIN Loaded \ (blurred \cup DOMAIN closing) :
    (\A i \in DOMAIN edits : edits[i].poll # p) => shown[p] = View(Loaded[p])

Named(polls) ==
  {polls[p].creator : p \in DOMAIN polls}
    \cup {u \in Users : \E p \in DOMAIN polls : polls[p].votes[u] # 0}

(* A user gets into the file by their own consent only: with a grant at    *)
(* that moment, or with the creation that had one when it began, or with   *)
(* the older state that such a creation writes back.                       *)
NamedByConsent ==
  [][\A u \in Named(Loaded') \ Named(Loaded) :
       \/ u \in consent
       \/ \E p \in DOMAIN drafts \ DOMAIN drafts' : u \in {drafts[p].creator} \cup Named(drafts[p].base)]_vars

=============================================================================
