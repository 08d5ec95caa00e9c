----------------------------- MODULE Poll_proofs -----------------------------
(***************************************************************************)
(* Proofs about the polls, for any users, polls, options and bounds: the   *)
(* types, that the file is what the users were told, that nobody gets into *)
(* it without consent, and that the messages show the votes.               *)
(***************************************************************************)
EXTENDS PersonalData, FiniteSetTheorems, TLAPS

-----------------------------------------------------------------------------
(* Functions from some of the polls.                                       *)

\* What it is to be a function on some of the polls.
LEMMA SomeFunctions ==
  ASSUME NEW values, NEW f
  PROVE  f \in Poll!Some(values) <=> DOMAIN f \subseteq Polls /\ f \in [DOMAIN f -> values]
<1>1. f \in Poll!Some(values) => \E ps \in SUBSET Polls : f \in [ps -> values]
  BY DEF Poll!Some
<1>2. DOMAIN f \subseteq Polls /\ f \in [DOMAIN f -> values] => f \in Poll!Some(values)
  BY DEF Poll!Some
<1> QED
  BY <1>1, <1>2

\* The function on no poll is one.
LEMMA NothingIsSome == ASSUME NEW values PROVE Poll!Nothing \in Poll!Some(values) /\ DOMAIN Poll!Nothing = {}
<1>1. DOMAIN Poll!Nothing = {} /\ Poll!Nothing \in [{} -> values]
  BY DEF Poll!Nothing
<1> QED
  BY <1>1, SomeFunctions

\* Adding or replacing one poll leaves the others.
LEMMA UpsertedIsSome ==
  ASSUME NEW values, NEW f \in Poll!Some(values), NEW p \in Polls, NEW x \in values
  PROVE  /\ Poll!Upserted(f, p, x) \in Poll!Some(values)
         /\ DOMAIN Poll!Upserted(f, p, x) = DOMAIN f \cup {p}
         /\ Poll!Upserted(f, p, x)[p] = x
         /\ \A q \in DOMAIN f \ {p} : Poll!Upserted(f, p, x)[q] = f[q]
<1>1. DOMAIN f \subseteq Polls /\ f \in [DOMAIN f -> values]
  BY SomeFunctions
<1>2. /\ DOMAIN Poll!Upserted(f, p, x) = DOMAIN f \cup {p}
      /\ Poll!Upserted(f, p, x) \in [DOMAIN f \cup {p} -> values]
  BY <1>1 DEF Poll!Upserted
<1>3. Poll!Upserted(f, p, x) \in Poll!Some(values)
  BY <1>1, <1>2, SomeFunctions
<1>4. /\ Poll!Upserted(f, p, x)[p] = x
      /\ \A q \in DOMAIN f \ {p} : Poll!Upserted(f, p, x)[q] = f[q]
  BY DEF Poll!Upserted
<1> QED
  BY <1>2, <1>3, <1>4

-----------------------------------------------------------------------------
(* Polls.                                                                  *)

\* The instance counts as everybody does.
LEMMA SameNumbers == \A S : Poll!Cardinality(S) = Cardinality(S) /\ (Poll!IsFiniteSet(S) <=> IsFiniteSet(S))
BY DEF Poll!Cardinality, Cardinality, Poll!IsFiniteSet, IsFiniteSet

\* What a message shows of a poll is a picture.
LEMMA ViewsAreViews == ASSUME Poll!PollAssumption PROVE \A poll \in Poll!PollRecords : Poll!View(poll) \in Poll!Views
<1> SUFFICES ASSUME NEW poll \in Poll!PollRecords PROVE Poll!View(poll) \in Poll!Views
  OBVIOUS
<1>1. \A o \in Options : Cardinality({u \in Users : poll.votes[u] = o}) \in Nat
  <2> TAKE o \in Options
  <2>1. IsFiniteSet({u \in Users : poll.votes[u] = o})
    BY FS_Subset, SameNumbers, {u \in Users : poll.votes[u] = o} \subseteq Users DEF Poll!PollAssumption
  <2> QED
    BY <2>1, FS_CardinalityType
<1>2. Poll!Tally(poll) \in [Options -> Nat]
  BY <1>1, SameNumbers DEF Poll!Tally
<1>3. poll.closed \in BOOLEAN
  BY DEF Poll!PollRecords
<1> QED
  BY <1>2, <1>3 DEF Poll!View, Poll!Views

\* A new poll has its creator and no votes.
LEMMA NewPolls ==
  \A u \in Users : Poll!NewPoll(u) \in Poll!PollRecords /\ Poll!NewPoll(u).creator = u /\ Poll!NewPoll(u).votes = Poll!NoVotes
BY DEF Poll!NewPoll, Poll!PollRecords, Poll!Ballots, Poll!NoVotes

\* A vote changes one user's choice and nothing else.
LEMMA Votes ==
  ASSUME NEW poll \in Poll!PollRecords, NEW u \in Users, NEW o \in Options \cup {0}
  PROVE  /\ Poll!WithVote(poll, u, o) \in Poll!PollRecords
         /\ Poll!WithVote(poll, u, o).creator = poll.creator
         /\ Poll!WithVote(poll, u, o).closed = poll.closed
         /\ Poll!WithVote(poll, u, o).votes = [poll.votes EXCEPT ![u] = o]
BY DEF Poll!WithVote, Poll!PollRecords, Poll!Ballots

\* Closing changes nothing but that the poll is closed.
LEMMA Closed ==
  ASSUME NEW poll \in Poll!PollRecords
  PROVE  LET closed == [poll EXCEPT !.closed = TRUE]
         IN /\ closed \in Poll!PollRecords
            /\ closed.creator = poll.creator /\ closed.closed = TRUE /\ closed.votes = poll.votes
BY DEF Poll!PollRecords

\* What is loaded is polls.
LEMMA LoadedPolls ==
  ASSUME Poll!TypeOK
  PROVE  /\ Poll!Loaded \in Poll!Some(Poll!PollRecords) /\ DOMAIN Poll!Loaded \subseteq Polls
         /\ \A p \in DOMAIN Poll!Loaded : Poll!Loaded[p] \in Poll!PollRecords
<1>1. Poll!Loaded \in Poll!Some(Poll!PollRecords)
  BY NothingIsSome DEF Poll!Loaded, Poll!TypeOK
<1> QED
  BY <1>1, SomeFunctions

\* Forgetting a user drops their polls and withdraws their votes.
LEMMA ForgottenPolls ==
  ASSUME NEW polls \in Poll!Some(Poll!PollRecords), NEW u \in Users
  PROVE  /\ Poll!Anonymous(polls, u) \in Poll!Some(Poll!PollRecords)
         /\ DOMAIN Poll!Anonymous(polls, u) = {q \in DOMAIN polls : polls[q].creator # u}
         /\ \A p \in DOMAIN Poll!Anonymous(polls, u) :
              Poll!Anonymous(polls, u)[p] = Poll!WithVote(polls[p], u, 0)
<1>1. DOMAIN polls \subseteq Polls /\ \A p \in DOMAIN polls : polls[p] \in Poll!PollRecords
  BY SomeFunctions
<1>2. /\ DOMAIN Poll!Anonymous(polls, u) = {q \in DOMAIN polls : polls[q].creator # u}
      /\ \A p \in DOMAIN Poll!Anonymous(polls, u) :
           Poll!Anonymous(polls, u)[p] = Poll!WithVote(polls[p], u, 0)
  BY DEF Poll!Anonymous
<1>3. \A p \in DOMAIN polls : Poll!WithVote(polls[p], u, 0) \in Poll!PollRecords
  BY <1>1, Votes
<1>4. Poll!Anonymous(polls, u) \in [DOMAIN Poll!Anonymous(polls, u) -> Poll!PollRecords]
  BY <1>3 DEF Poll!Anonymous
<1> QED
  BY <1>1, <1>2, <1>4, SomeFunctions

\* Both for the polls of a file.
LEMMA UpsertedPolls ==
  \A polls \in Poll!Some(Poll!PollRecords), p \in Polls, poll \in Poll!PollRecords :
    /\ DOMAIN Poll!Upserted(polls, p, poll) = DOMAIN polls \cup {p}
    /\ Poll!Upserted(polls, p, poll)[p] = poll
    /\ \A q \in DOMAIN polls \ {p} : Poll!Upserted(polls, p, poll)[q] = polls[q]
<1> SUFFICES ASSUME NEW polls \in Poll!Some(Poll!PollRecords), NEW p \in Polls, NEW poll \in Poll!PollRecords
             PROVE  /\ DOMAIN Poll!Upserted(polls, p, poll) = DOMAIN polls \cup {p}
                    /\ Poll!Upserted(polls, p, poll)[p] = poll
                    /\ \A q \in DOMAIN polls \ {p} : Poll!Upserted(polls, p, poll)[q] = polls[q]
  OBVIOUS
<1> QED
  BY DEF Poll!Upserted

\* What a user is told of a poll.
Knowledge == [closed : BOOLEAN, votes : Poll!Ballots]

\* What a user can be told of a poll is knowledge.
LEMMA KnownPolls ==
  \A poll \in Poll!PollRecords : Poll!Known(poll) \in Knowledge
BY DEF Poll!Known, Knowledge, Poll!PollRecords

\* Closing changes one half of it.
LEMMA ClosedKnowledge ==
  \A k \in Knowledge : /\ [k EXCEPT !.closed = TRUE] \in Knowledge
                       /\ [k EXCEPT !.closed = TRUE].closed = TRUE
                       /\ [k EXCEPT !.closed = TRUE].votes = k.votes
BY DEF Knowledge

\* What users were told is knowledge about polls.
LEMMA ToldPolls ==
  ASSUME Poll!TypeOK
  PROVE  told \in Poll!Some(Knowledge) /\ DOMAIN told \subseteq Polls /\ \A p \in DOMAIN told : told[p] \in Knowledge
<1>1. told \in Poll!Some(Knowledge)
  BY DEF Poll!TypeOK, Knowledge
<1> QED
  BY <1>1, SomeFunctions

-----------------------------------------------------------------------------
(* Type correctness, in four parts.                                        *)

PlainOK ==
  /\ up \in BOOLEAN /\ consent \subseteq Users
  /\ {acts, revokes, pollStarts, pollFaults} \subseteq Nat

StoreOK ==
  /\ file.kind \in {"missing", "ok", "empty", "torn"} /\ file.polls \in Poll!Some(Poll!PollRecords)
  /\ told \in Poll!Some(Knowledge) /\ lost \in BOOLEAN

AwaitedOK ==
  /\ DOMAIN drafts \subseteq Polls
  /\ \A p \in DOMAIN drafts : drafts[p].creator \in Users /\ drafts[p].base \in Poll!Some(Poll!PollRecords)
  /\ DOMAIN closing \subseteq Polls /\ \A p \in DOMAIN closing : closing[p] \in Poll!Views

ShownOK ==
  /\ DOMAIN shown \subseteq Polls /\ \A p \in DOMAIN shown : shown[p] \in Poll!Views
  /\ edits \in Seq([poll : Polls, shows : Poll!Views])
  /\ posted = DOMAIN shown /\ blurred \subseteq Polls

\* TypeOK in parts, each about what one group of actions changes.
LEMMA TypesInParts == Poll!TypeOK <=> PlainOK /\ StoreOK /\ AwaitedOK /\ ShownOK
BY DEF Poll!TypeOK, PlainOK, StoreOK, AwaitedOK, ShownOK, Knowledge

\* The plain variables keep their types.
LEMMA PlainStep ==
  ASSUME Poll!PollAssumption, PlainOK, [Poll!Next]_(Poll!vars) PROVE PlainOK'
<1> USE DEF PlainOK, Poll!Act, Poll!Fault, Poll!Ended, Poll!store, Poll!discord
<1>1. ASSUME NEW u \in Users, NEW p \in Polls, Poll!CreatePoll(u, p) \/ Poll!ClearButton(u, p) \/ Poll!ClosePoll(u, p)
      PROVE  PlainOK'
  BY <1>1 DEF Poll!CreatePoll, Poll!ClearButton, Poll!ClosePoll
<1>2. ASSUME NEW u \in Users, NEW p \in Polls, NEW o \in Options, Poll!VoteButton(u, p, o) PROVE PlainOK'
  BY <1>2 DEF Poll!VoteButton
<1>3. ASSUME NEW p \in Polls, Poll!Posted(p) \/ Poll!SaveCreated(p) \/ Poll!CreateFails(p) PROVE PlainOK'
  BY <1>3 DEF Poll!Posted, Poll!SaveCreated, Poll!CreateFails
<1>4. ASSUME NEW p \in Polls, Poll!CloseShown(p) \/ Poll!CloseUnseen(p) PROVE PlainOK'
  BY <1>4 DEF Poll!CloseShown, Poll!CloseUnseen
<1>5. ASSUME NEW u \in Users, Poll!ForgetUser(u) PROVE PlainOK'
  BY <1>5 DEF Poll!ForgetUser
<1>6. ASSUME NEW u \in Users, Poll!ChangeConsent(u) PROVE PlainOK'
  BY <1>6 DEF Poll!ChangeConsent
<1>7. ASSUME Poll!Edited \/ Poll!EditFails PROVE PlainOK'
  BY <1>7 DEF Poll!Edited, Poll!EditFails
<1>8. ASSUME Poll!Start PROVE PlainOK'
  BY <1>8 DEF Poll!Start
<1>9. ASSUME Poll!Stop \/ Poll!CrashInWrite PROVE PlainOK'
  <2>1. Poll!Ended
    BY <1>9 DEF Poll!Stop, Poll!CrashInWrite
  <2>2. pollFaults' = pollFaults + 1 /\ UNCHANGED <<consent, acts, revokes, pollStarts>>
    BY <2>1
  <2>3. up' \in BOOLEAN
    BY <2>1
  <2>4. {acts, revokes, pollStarts, pollFaults}' \subseteq Nat
    BY <2>2
  <2> QED
    BY <2>2, <2>3, <2>4
<1>10. CASE UNCHANGED Poll!vars
  BY <1>10 DEF Poll!vars
<1> QED
  BY <1>1, <1>2, <1>3, <1>4, <1>5, <1>6, <1>7, <1>8, <1>9, <1>10 DEF Poll!Next

\* The file keeps its type.
LEMMA StoreStep ==
  ASSUME Poll!PollAssumption, Poll!TypeOK, [Poll!Next]_(Poll!vars) PROVE StoreOK'
<1> USE DEF Poll!store
<1>0. StoreOK /\ AwaitedOK /\ PlainOK
  BY TypesInParts
<1>1. ASSUME UNCHANGED Poll!store PROVE StoreOK'
  BY <1>0, <1>1 DEF StoreOK
<1>2. ASSUME NEW p \in Polls, Poll!SaveCreated(p) PROVE StoreOK'
  <2> DEFINE poll == Poll!NewPoll(drafts[p].creator)
             polls == Poll!Upserted(drafts[p].base, p, poll)
  <2>1. poll \in Poll!PollRecords /\ drafts[p].base \in Poll!Some(Poll!PollRecords)
    BY <1>0, <1>2, NewPolls DEF AwaitedOK, Poll!SaveCreated
  <2>2. polls \in Poll!Some(Poll!PollRecords)
    BY <2>1, UpsertedIsSome
  <2>3. file' = [kind |-> "ok", polls |-> polls]
    BY <1>2 DEF Poll!SaveCreated, Poll!Save
  <2>4. Poll!Upserted(told, p, Poll!Known(poll)) \in Poll!Some(Knowledge)
    BY <2>1, ToldPolls, KnownPolls, UpsertedIsSome
  <2>5. told' \in Poll!Some(Knowledge)
    BY <1>2, <2>4, NothingIsSome DEF Poll!SaveCreated
  <2>6. lost' \in BOOLEAN
    BY <1>2 DEF Poll!SaveCreated
  <2> QED
    BY <2>2, <2>3, <2>5, <2>6 DEF StoreOK
<1>3. ASSUME NEW u \in Users, NEW p \in Polls, NEW o \in Options \cup {0}, Poll!Answerable(u, p),
             Poll!Save(Poll!Upserted(Poll!Loaded, p, Poll!WithVote(Poll!Loaded[p], u, o))), Poll!Tell(u, p, o)
      PROVE  StoreOK'
  <2>1. Poll!Upserted(Poll!Loaded, p, Poll!WithVote(Poll!Loaded[p], u, o)) \in Poll!Some(Poll!PollRecords)
    BY <1>3, LoadedPolls, Votes, UpsertedIsSome DEF Poll!Answerable
  <2>2. [told EXCEPT ![p].votes[u] = o] \in Poll!Some(Knowledge)
    <3>1. DOMAIN [told EXCEPT ![p].votes[u] = o] = DOMAIN told
      OBVIOUS
    <3>2. \A q \in DOMAIN told : [told EXCEPT ![p].votes[u] = o][q] \in Knowledge
      BY ToldPolls DEF Knowledge, Poll!Ballots
    <3> QED
      BY <3>1, <3>2, ToldPolls, SomeFunctions
  <2>3. told' \in Poll!Some(Knowledge) /\ lost' = lost
    BY <1>3, <2>2, ToldPolls DEF Poll!Tell
  <2> QED
    BY <1>0, <1>3, <2>1, <2>3 DEF StoreOK, Poll!Save
<1>4. ASSUME NEW u \in Users, NEW p \in Polls, Poll!ClosePoll(u, p) PROVE StoreOK'
  <2>1. Poll!Upserted(Poll!Loaded, p, [Poll!Loaded[p] EXCEPT !.closed = TRUE]) \in Poll!Some(Poll!PollRecords)
    BY <1>4, LoadedPolls, Closed, UpsertedIsSome DEF Poll!ClosePoll
  <2>2. [told EXCEPT ![p].closed = TRUE] \in Poll!Some(Knowledge)
    <3>1. DOMAIN [told EXCEPT ![p].closed = TRUE] = DOMAIN told
      OBVIOUS
    <3>2. \A q \in DOMAIN told : [told EXCEPT ![p].closed = TRUE][q] \in Knowledge
      BY ToldPolls DEF Knowledge
    <3> QED
      BY <3>1, <3>2, ToldPolls, SomeFunctions
  <2>3. told' \in Poll!Some(Knowledge) /\ lost' = lost
    BY <1>4, <2>2, ToldPolls DEF Poll!ClosePoll
  <2> QED
    BY <1>0, <1>4, <2>1, <2>3 DEF StoreOK, Poll!Save, Poll!ClosePoll
<1>5. ASSUME NEW u \in Users, Poll!ForgetUser(u) PROVE StoreOK'
  <2> DEFINE left == Poll!Anonymous(Poll!Loaded, u)
             left_told == [p \in DOMAIN told \cap DOMAIN left |-> [told[p] EXCEPT !.votes[u] = 0]]
  <2>1. left \in Poll!Some(Poll!PollRecords)
    BY LoadedPolls, ForgottenPolls
  <2>2. left_told \in Poll!Some(Knowledge)
    <3>1. DOMAIN left_told \subseteq Polls /\ DOMAIN left_told \subseteq DOMAIN told
      BY ToldPolls
    <3>2. \A p \in DOMAIN left_told : left_told[p] \in Knowledge
      BY ToldPolls DEF Knowledge, Poll!Ballots
    <3> QED
      BY <3>1, <3>2, SomeFunctions
  <2>3. told' = left_told /\ lost' = lost /\ file' = [kind |-> "ok", polls |-> left]
    BY <1>5 DEF Poll!ForgetUser, Poll!Save
  <2> QED
    BY <1>0, <2>1, <2>2, <2>3 DEF StoreOK
<1>6. ASSUME Poll!CrashInWrite PROVE StoreOK'
  BY <1>6, NothingIsSome DEF Poll!CrashInWrite, StoreOK
<1>7. ASSUME NEW u \in Users, NEW p \in Polls, Poll!ClearButton(u, p) PROVE StoreOK'
  BY <1>7, <1>3 DEF Poll!ClearButton
<1>8. ASSUME NEW u \in Users, NEW p \in Polls, NEW o \in Options, Poll!VoteButton(u, p, o) PROVE StoreOK'
  BY <1>8, <1>3 DEF Poll!VoteButton
<1> QED
  BY <1>1, <1>2, <1>4, <1>5, <1>6, <1>7, <1>8
  DEF Poll!Next, Poll!CreatePoll, Poll!Posted, Poll!CreateFails, Poll!CloseShown, Poll!CloseUnseen, Poll!ChangeConsent, Poll!Edited,
      Poll!EditFails, Poll!Start, Poll!Stop, Poll!vars

\* Creations and closings on their way keep their types.
LEMMA AwaitedStep ==
  ASSUME Poll!PollAssumption, Poll!TypeOK, [Poll!Next]_(Poll!vars) PROVE AwaitedOK'
<1>0. AwaitedOK
  BY TypesInParts
<1>1. ASSUME UNCHANGED <<drafts, closing>> PROVE AwaitedOK'
  BY <1>0, <1>1 DEF AwaitedOK
<1>2. ASSUME NEW u \in Users, NEW p \in Polls, Poll!CreatePoll(u, p) PROVE AwaitedOK'
  <2>1. drafts' = Poll!Upserted(drafts, p, [creator |-> u, base |-> Poll!Loaded]) /\ closing' = closing
    BY <1>2 DEF Poll!CreatePoll
  <2>2. Poll!Loaded \in Poll!Some(Poll!PollRecords)
    BY LoadedPolls
  <2> QED
    BY <1>0, <2>1, <2>2 DEF AwaitedOK, Poll!Upserted
<1>3. ASSUME NEW p \in Polls, Poll!SaveCreated(p) \/ Poll!CreateFails(p) PROVE AwaitedOK'
  <2>1. drafts' = Poll!Without(drafts, {p}) /\ closing' = closing
    BY <1>3 DEF Poll!SaveCreated, Poll!CreateFails
  <2> QED
    BY <1>0, <2>1 DEF AwaitedOK, Poll!Without
<1>4. ASSUME NEW u \in Users, NEW p \in Polls, Poll!ClosePoll(u, p) PROVE AwaitedOK'
  <2>1. [Poll!Loaded[p] EXCEPT !.closed = TRUE] \in Poll!PollRecords
    BY <1>4, LoadedPolls, Closed DEF Poll!ClosePoll
  <2>2. Poll!View([Poll!Loaded[p] EXCEPT !.closed = TRUE]) \in Poll!Views
    BY <2>1, ViewsAreViews
  <2>3. closing' = Poll!Upserted(closing, p, Poll!View([Poll!Loaded[p] EXCEPT !.closed = TRUE])) /\ drafts' = drafts
    BY <1>4 DEF Poll!ClosePoll
  <2> QED
    BY <1>0, <2>2, <2>3 DEF AwaitedOK, Poll!Upserted
<1>5. ASSUME NEW p \in Polls, Poll!CloseShown(p) \/ Poll!CloseUnseen(p) PROVE AwaitedOK'
  <2>1. closing' = Poll!Without(closing, {p}) /\ drafts' = drafts
    BY <1>5 DEF Poll!CloseShown, Poll!CloseUnseen
  <2> QED
    BY <1>0, <2>1 DEF AwaitedOK, Poll!Without
<1>6. ASSUME Poll!Stop \/ Poll!CrashInWrite PROVE AwaitedOK'
  <2>1. drafts' = Poll!Nothing /\ closing' = Poll!Nothing
    BY <1>6 DEF Poll!Stop, Poll!CrashInWrite, Poll!Ended
  <2> QED
    BY <2>1, NothingIsSome DEF AwaitedOK
<1> QED
  BY <1>1, <1>2, <1>3, <1>4, <1>5, <1>6
  DEF Poll!Next, Poll!ClearButton, Poll!VoteButton, Poll!Posted, Poll!ForgetUser, Poll!ChangeConsent, Poll!Edited, Poll!EditFails, Poll!Start,
      Poll!discord, Poll!store, Poll!vars

\* The edits in a queue, its head and its tail are edits.
LEMMA QueuedEdits ==
  ASSUME NEW s \in Seq([poll : Polls, shows : Poll!Views])
  PROVE  /\ \A i \in DOMAIN s : s[i] \in [poll : Polls, shows : Poll!Views] /\ s[i].poll \in Polls
         /\ s # <<>> => /\ Tail(s) \in Seq([poll : Polls, shows : Poll!Views])
                        /\ Head(s) \in [poll : Polls, shows : Poll!Views]
<1> DEFINE E == [poll : Polls, shows : Poll!Views]
<1>1. s \in Seq(E)
  OBVIOUS
<1>2. \A e \in E : e.poll \in Polls
  OBVIOUS
<1> HIDE DEF E
<1>3. (\A i \in DOMAIN s : s[i] \in E) /\ (s # <<>> => Tail(s) \in Seq(E) /\ Head(s) \in E)
  BY <1>1
<1> QED
  BY <1>2, <1>3 DEF E

\* The messages and their edits keep their types.
LEMMA ShownStep ==
  ASSUME Poll!PollAssumption, Poll!TypeOK, [Poll!Next]_(Poll!vars) PROVE ShownOK'
<1> USE DEF Poll!discord
<1>0. ShownOK /\ AwaitedOK
  BY TypesInParts
<1>1. ASSUME UNCHANGED Poll!discord PROVE ShownOK'
  BY <1>0, <1>1 DEF ShownOK
<1>2. ASSUME NEW p \in Polls, Poll!Posted(p) PROVE ShownOK'
  <2>1. Poll!View(Poll!NewPoll(drafts[p].creator)) \in Poll!Views
    BY <1>0, <1>2, NewPolls, ViewsAreViews DEF AwaitedOK, Poll!Posted
  <2>2. /\ shown' = Poll!Upserted(shown, p, Poll!View(Poll!NewPoll(drafts[p].creator)))
        /\ posted' = posted \cup {p} /\ UNCHANGED <<edits, blurred>>
    BY <1>2 DEF Poll!Posted
  <2> QED
    BY <1>0, <2>1, <2>2 DEF ShownOK, Poll!Upserted
<1>3. ASSUME NEW p \in Polls, NEW view \in Poll!Views, Poll!Edit(p, view), UNCHANGED <<posted, shown>>,
             blurred' \subseteq Polls
      PROVE  ShownOK'
  BY <1>0, <1>3 DEF ShownOK, Poll!Edit
<1>4. ASSUME NEW u \in Users, NEW p \in Polls, NEW o \in Options \cup {0}, Poll!Answerable(u, p)
      PROVE  Poll!View(Poll!WithVote(Poll!Loaded[p], u, o)) \in Poll!Views
  BY <1>4, LoadedPolls, Votes, ViewsAreViews DEF Poll!Answerable
<1>5. ASSUME NEW u \in Users, NEW p \in Polls, NEW o \in Options, Poll!VoteButton(u, p, o) PROVE ShownOK'
  BY <1>0, <1>3, <1>4, <1>5 DEF Poll!VoteButton, ShownOK
<1>6. ASSUME NEW u \in Users, NEW p \in Polls, Poll!ClearButton(u, p) PROVE ShownOK'
  BY <1>0, <1>3, <1>4, <1>6 DEF Poll!ClearButton, ShownOK, AwaitedOK
<1>7. ASSUME NEW p \in Polls, Poll!CloseShown(p) PROVE ShownOK'
  BY <1>0, <1>3, <1>7 DEF Poll!CloseShown, ShownOK, AwaitedOK
<1>8. ASSUME UNCHANGED <<edits, posted, shown>>, blurred' \subseteq Polls PROVE ShownOK'
  BY <1>0, <1>8 DEF ShownOK
<1>9. ASSUME NEW p \in Polls, Poll!SaveCreated(p) PROVE ShownOK'
  <2>1. Poll!Overwritten(drafts[p].base) \subseteq Polls
    BY <1>0, <1>9, LoadedPolls, SomeFunctions DEF Poll!Overwritten, AwaitedOK, Poll!SaveCreated
  <2> QED
    BY <1>0, <1>8, <1>9, <2>1 DEF Poll!SaveCreated, ShownOK
<1>10. ASSUME NEW p \in Polls, Poll!CloseUnseen(p) PROVE ShownOK'
  BY <1>0, <1>8, <1>10 DEF Poll!CloseUnseen, ShownOK
<1>11. ASSUME NEW u \in Users, Poll!ForgetUser(u) PROVE ShownOK'
  <2>1. DOMAIN Poll!Anonymous(Poll!Loaded, u) \subseteq Polls
    BY LoadedPolls, ForgottenPolls
  <2> QED
    BY <1>0, <1>8, <1>11, <2>1 DEF Poll!ForgetUser, ShownOK
<1>12. ASSUME edits # <<>>, edits' = Tail(edits) PROVE edits' \in Seq([poll : Polls, shows : Poll!Views]) /\ Head(edits) \in [poll : Polls, shows : Poll!Views]
  BY <1>0, <1>12, QueuedEdits DEF ShownOK
<1>13. CASE Poll!Edited
  BY <1>0, <1>12, <1>13 DEF Poll!Edited, ShownOK
<1>14. CASE Poll!EditFails
  BY <1>0, <1>12, <1>14 DEF Poll!EditFails, ShownOK
<1>15. ASSUME Poll!Stop \/ Poll!CrashInWrite PROVE ShownOK'
  <2>1. edits' = <<>> /\ UNCHANGED <<posted, shown>>
    BY <1>15 DEF Poll!Stop, Poll!CrashInWrite, Poll!Ended
  <2>2. blurred' \subseteq Polls
    <3>1. \A i \in DOMAIN edits : edits[i].poll \in Polls
      BY <1>0, QueuedEdits DEF ShownOK
    <3>2. CASE Poll!Stop
      BY <1>0, <3>1, <3>2 DEF Poll!Stop, ShownOK, AwaitedOK
    <3>3. CASE Poll!CrashInWrite
      BY <3>3 DEF Poll!CrashInWrite
    <3> QED
      BY <1>15, <3>2, <3>3
  <2> QED
    BY <1>0, <2>1, <2>2 DEF ShownOK
<1> QED
  BY <1>1, <1>2, <1>5, <1>6, <1>7, <1>9, <1>10, <1>11, <1>13, <1>14, <1>15
  DEF Poll!Next, Poll!CreatePoll, Poll!CreateFails, Poll!ClosePoll, Poll!ChangeConsent, Poll!Start, Poll!vars

\* The types hold in every behaviour of the polls.
LEMMA PollsTyped == ASSUME Poll!PollAssumption PROVE Poll!Spec => []Poll!TypeOK
<1>1. Poll!Init => Poll!TypeOK
  <2> SUFFICES ASSUME Poll!Init PROVE PlainOK /\ StoreOK /\ AwaitedOK /\ ShownOK
    BY TypesInParts
  <2>1. PlainOK
    <3>1. up = FALSE /\ consent \subseteq Users
      BY DEF Poll!Init
    <3>2. {acts, revokes, pollStarts, pollFaults} \subseteq Nat
      BY DEF Poll!Init
    <3>3. up \in BOOLEAN
      BY <3>1
    <3> QED
      BY <3>1, <3>2, <3>3 DEF PlainOK
  <2>2. StoreOK
    BY NothingIsSome DEF Poll!Init, StoreOK
  <2>3. AwaitedOK /\ ShownOK
    BY NothingIsSome DEF Poll!Init, AwaitedOK, ShownOK
  <2> QED
    BY <2>1, <2>2, <2>3
<1>2. Poll!TypeOK /\ [Poll!Next]_(Poll!vars) => Poll!TypeOK'
  <2> SUFFICES ASSUME Poll!TypeOK, [Poll!Next]_(Poll!vars) PROVE Poll!TypeOK'
    OBVIOUS
  <2>1. PlainOK' /\ StoreOK' /\ AwaitedOK' /\ ShownOK'
    BY PlainStep, StoreStep, AwaitedStep, ShownStep, TypesInParts
  <2> QED
    BY <2>1 DEF Poll!TypeOK, PlainOK, StoreOK, AwaitedOK, ShownOK, Knowledge
<1> QED
  BY <1>1, <1>2, PTL DEF Poll!Spec

-----------------------------------------------------------------------------
(* What users were told is what the file holds.                            *)

\* While nothing was written over, a creation writes back what is there.
LEMMA WritesBackWhatIsThere ==
  ASSUME Poll!TypeOK, NEW p \in Polls, Poll!SaveCreated(p), ~lost'
  PROVE  ~lost /\ drafts[p].base = Poll!Loaded
<1>1. ~lost /\ Poll!Overwritten(drafts[p].base) = {}
  BY DEF Poll!SaveCreated
<1>2. drafts[p].base \in Poll!Some(Poll!PollRecords) /\ Poll!Loaded \in Poll!Some(Poll!PollRecords)
  BY LoadedPolls DEF Poll!TypeOK, Poll!SaveCreated
<1>3. DOMAIN drafts[p].base = DOMAIN Poll!Loaded
  BY <1>1 DEF Poll!Overwritten
<1>4. \A q \in DOMAIN Poll!Loaded : drafts[p].base[q] = Poll!Loaded[q]
  BY <1>1 DEF Poll!Overwritten
<1>5. /\ drafts[p].base \in [DOMAIN Poll!Loaded -> Poll!PollRecords]
      /\ Poll!Loaded \in [DOMAIN Poll!Loaded -> Poll!PollRecords]
  BY <1>2, <1>3, SomeFunctions
<1> QED
  BY <1>1, <1>4, <1>5

\* A vote that is saved and answered keeps the file what was told.
LEMMA VoteIsTold ==
  ASSUME Poll!TypeOK, Poll!ToldIsSaved, NEW u \in Users, NEW p \in Polls, NEW o \in Options \cup {0},
         Poll!Answerable(u, p), Poll!Save(Poll!Upserted(Poll!Loaded, p, Poll!WithVote(Poll!Loaded[p], u, o))), Poll!Tell(u, p, o)
  PROVE  Poll!ToldIsSaved'
<1> SUFFICES ASSUME ~lost'
             PROVE  /\ DOMAIN told' = DOMAIN Poll!Loaded'
                    /\ \A q \in DOMAIN told' : told'[q] = Poll!Known(Poll!Loaded'[q])
  BY DEF Poll!ToldIsSaved, Poll!Known
<1>1. ~lost /\ told' = [told EXCEPT ![p].votes[u] = o]
  BY DEF Poll!Tell
<1>2. DOMAIN told = DOMAIN Poll!Loaded /\ \A q \in DOMAIN told : told[q] = Poll!Known(Poll!Loaded[q])
  BY <1>1 DEF Poll!ToldIsSaved
<1>3. p \in DOMAIN Poll!Loaded /\ Poll!Loaded[p] \in Poll!PollRecords
  BY LoadedPolls DEF Poll!Answerable
<1>4. Poll!Loaded' = Poll!Upserted(Poll!Loaded, p, Poll!WithVote(Poll!Loaded[p], u, o))
  BY DEF Poll!Save, Poll!Loaded
<1>5. /\ DOMAIN Poll!Loaded' = DOMAIN Poll!Loaded
      /\ Poll!Loaded'[p] = Poll!WithVote(Poll!Loaded[p], u, o)
      /\ \A q \in DOMAIN Poll!Loaded \ {p} : Poll!Loaded'[q] = Poll!Loaded[q]
  <2> DEFINE next == Poll!WithVote(Poll!Loaded[p], u, o)
  <2>1. next \in Poll!PollRecords
    BY <1>3, Votes
  <2> HIDE DEF next
  <2>2. Poll!Loaded \in Poll!Some(Poll!PollRecords)
    BY LoadedPolls
  <2>3. /\ DOMAIN Poll!Upserted(Poll!Loaded, p, next) = DOMAIN Poll!Loaded \cup {p}
        /\ Poll!Upserted(Poll!Loaded, p, next)[p] = next
        /\ \A q \in DOMAIN Poll!Loaded \ {p} : Poll!Upserted(Poll!Loaded, p, next)[q] = Poll!Loaded[q]
    BY <2>1, <2>2, UpsertedPolls
  <2>4. Poll!Loaded' = Poll!Upserted(Poll!Loaded, p, next)
    BY <1>4 DEF next
  <2>5. /\ DOMAIN Poll!Loaded' = DOMAIN Poll!Loaded \cup {p}
        /\ Poll!Loaded'[p] = next
        /\ \A q \in DOMAIN Poll!Loaded \ {p} : Poll!Loaded'[q] = Poll!Loaded[q]
    BY <2>3, <2>4
  <2>6. DOMAIN Poll!Loaded \cup {p} = DOMAIN Poll!Loaded
    BY <1>3
  <2> QED
    BY <2>5, <2>6 DEF next
<1>6. told[p] = [closed |-> Poll!Loaded[p].closed, votes |-> Poll!Loaded[p].votes]
  BY <1>2, <1>3 DEF Poll!Known
<1>7. told'[p] = [closed |-> Poll!Loaded[p].closed, votes |-> [Poll!Loaded[p].votes EXCEPT ![u] = o]]
  BY <1>1, <1>2, <1>3, <1>6
<1>8. told'[p] = Poll!Known(Poll!Loaded'[p])
  BY <1>3, <1>5, <1>7, Votes DEF Poll!Known
<1>9. DOMAIN told' = DOMAIN told /\ \A q \in DOMAIN told \ {p} : told'[q] = told[q]
  BY <1>1
<1> QED
  BY <1>2, <1>3, <1>5, <1>8, <1>9

\* The file stays what was told.
LEMMA ToldStep ==
  ASSUME Poll!PollAssumption, Poll!TypeOK, Poll!ToldIsSaved, [Poll!Next]_(Poll!vars) PROVE Poll!ToldIsSaved'
<1>1. ASSUME UNCHANGED Poll!store PROVE Poll!ToldIsSaved'
  BY <1>1 DEF Poll!ToldIsSaved, Poll!Loaded, Poll!store, Poll!Known
<1>2. ASSUME NEW p \in Polls, Poll!SaveCreated(p) PROVE Poll!ToldIsSaved'
  <2> SUFFICES ASSUME ~lost'
               PROVE  /\ DOMAIN told' = DOMAIN Poll!Loaded'
                      /\ \A q \in DOMAIN told' : told'[q] = Poll!Known(Poll!Loaded'[q])
    BY DEF Poll!ToldIsSaved, Poll!Known
  <2> DEFINE poll == Poll!NewPoll(drafts[p].creator)
  <2>1. ~lost /\ drafts[p].base = Poll!Loaded
    BY <1>2, WritesBackWhatIsThere
  <2>2. poll \in Poll!PollRecords
    BY <1>2, NewPolls DEF Poll!TypeOK, Poll!SaveCreated
  <2>3. Poll!Loaded' = Poll!Upserted(Poll!Loaded, p, poll) /\ told' = Poll!Upserted(told, p, Poll!Known(poll))
    BY <1>2, <2>1 DEF Poll!SaveCreated, Poll!Save, Poll!Loaded
  <2>4. DOMAIN told = DOMAIN Poll!Loaded /\ \A q \in DOMAIN told : told[q] = Poll!Known(Poll!Loaded[q])
    BY <2>1 DEF Poll!ToldIsSaved
  <2> HIDE DEF poll
  <2>5. /\ DOMAIN Poll!Loaded' = DOMAIN Poll!Loaded \cup {p} /\ Poll!Loaded'[p] = poll
        /\ \A q \in DOMAIN Poll!Loaded \ {p} : Poll!Loaded'[q] = Poll!Loaded[q]
    <3>1. Poll!Loaded \in Poll!Some(Poll!PollRecords)
      BY LoadedPolls
    <3>2. /\ DOMAIN Poll!Upserted(Poll!Loaded, p, poll) = DOMAIN Poll!Loaded \cup {p}
          /\ Poll!Upserted(Poll!Loaded, p, poll)[p] = poll
          /\ \A q \in DOMAIN Poll!Loaded \ {p} : Poll!Upserted(Poll!Loaded, p, poll)[q] = Poll!Loaded[q]
      BY <2>2, <3>1, UpsertedPolls
    <3>3. Poll!Loaded' = Poll!Upserted(Poll!Loaded, p, poll)
      BY <2>3
    <3> QED
      BY <3>2, <3>3
  <2>6. /\ DOMAIN told' = DOMAIN told \cup {p} /\ told'[p] = Poll!Known(poll)
        /\ \A q \in DOMAIN told \ {p} : told'[q] = told[q]
    <3>1. Poll!Known(poll) \in Knowledge /\ told \in Poll!Some(Knowledge)
      BY <2>2, ToldPolls, KnownPolls
    <3>2. /\ DOMAIN Poll!Upserted(told, p, Poll!Known(poll)) = DOMAIN told \cup {p}
          /\ Poll!Upserted(told, p, Poll!Known(poll))[p] = Poll!Known(poll)
          /\ \A q \in DOMAIN told \ {p} : Poll!Upserted(told, p, Poll!Known(poll))[q] = told[q]
      BY DEF Poll!Upserted
    <3> QED
      BY <2>3, <3>2
  <2> QED
    BY <2>4, <2>5, <2>6
<1>3. ASSUME NEW u \in Users, NEW p \in Polls, Poll!ClosePoll(u, p) PROVE Poll!ToldIsSaved'
  <2> SUFFICES ASSUME ~lost'
               PROVE  /\ DOMAIN told' = DOMAIN Poll!Loaded'
                      /\ \A q \in DOMAIN told' : told'[q] = Poll!Known(Poll!Loaded'[q])
    BY DEF Poll!ToldIsSaved, Poll!Known
  <2> DEFINE closed == [Poll!Loaded[p] EXCEPT !.closed = TRUE]
  <2>1. /\ ~lost /\ Poll!Loaded' = Poll!Upserted(Poll!Loaded, p, closed)
        /\ told' = [told EXCEPT ![p] = [@ EXCEPT !.closed = TRUE]]
    BY <1>3 DEF Poll!ClosePoll, Poll!Save, Poll!Loaded
  <2>2. DOMAIN told = DOMAIN Poll!Loaded /\ \A q \in DOMAIN told : told[q] = Poll!Known(Poll!Loaded[q])
    BY <2>1 DEF Poll!ToldIsSaved
  <2>3. p \in DOMAIN Poll!Loaded /\ Poll!Loaded[p] \in Poll!PollRecords
    BY <1>3, LoadedPolls DEF Poll!ClosePoll
  <2>4. closed \in Poll!PollRecords /\ closed.closed = TRUE /\ closed.votes = Poll!Loaded[p].votes
    BY <2>3, Closed
  <2> HIDE DEF closed
  <2>5. /\ DOMAIN Poll!Loaded' = DOMAIN Poll!Loaded /\ Poll!Loaded'[p] = closed
        /\ \A q \in DOMAIN Poll!Loaded \ {p} : Poll!Loaded'[q] = Poll!Loaded[q]
    <3>1. Poll!Loaded \in Poll!Some(Poll!PollRecords)
      BY LoadedPolls
    <3>2. /\ DOMAIN Poll!Upserted(Poll!Loaded, p, closed) = DOMAIN Poll!Loaded \cup {p}
          /\ Poll!Upserted(Poll!Loaded, p, closed)[p] = closed
          /\ \A q \in DOMAIN Poll!Loaded \ {p} : Poll!Upserted(Poll!Loaded, p, closed)[q] = Poll!Loaded[q]
      BY <2>4, <3>1, UpsertedPolls
    <3>3. Poll!Loaded' = Poll!Upserted(Poll!Loaded, p, closed)
      BY <2>1
    <3>4. DOMAIN Poll!Loaded \cup {p} = DOMAIN Poll!Loaded
      BY <2>3
    <3> QED
      BY <3>2, <3>3, <3>4
  <2>6. told[p] = Poll!Known(Poll!Loaded[p]) /\ told[p] \in Knowledge
    BY <2>2, <2>3, KnownPolls
  <2>7. /\ told'[p] \in Knowledge
        /\ told'[p].closed = TRUE /\ told'[p].votes = Poll!Loaded[p].votes
    <3>1. told'[p] = [told[p] EXCEPT !.closed = TRUE]
      BY <2>1, <2>2, <2>3
    <3>2. told[p].votes = Poll!Loaded[p].votes
      BY <2>6 DEF Poll!Known
    <3> QED
      BY <2>6, <3>1, <3>2, ClosedKnowledge
  <2>8. told'[p] = Poll!Known(Poll!Loaded'[p])
    <3>1. /\ Poll!Known(closed) \in Knowledge
          /\ Poll!Known(closed).closed = TRUE /\ Poll!Known(closed).votes = Poll!Loaded[p].votes
      BY <2>4, KnownPolls DEF Poll!Known
    <3>2. Poll!Known(closed) = told'[p]
      BY <2>7, <3>1 DEF Knowledge
    <3> QED
      BY <2>5, <3>2
  <2>9. DOMAIN told' = DOMAIN told /\ \A q \in DOMAIN told \ {p} : told'[q] = told[q]
    BY <2>1
  <2> QED
    BY <2>2, <2>3, <2>5, <2>8, <2>9
<1>4. ASSUME NEW u \in Users, Poll!ForgetUser(u) PROVE Poll!ToldIsSaved'
  <2> SUFFICES ASSUME ~lost'
               PROVE  /\ DOMAIN told' = DOMAIN Poll!Loaded'
                      /\ \A q \in DOMAIN told' : told'[q] = Poll!Known(Poll!Loaded'[q])
    BY DEF Poll!ToldIsSaved, Poll!Known
  <2> DEFINE left == Poll!Anonymous(Poll!Loaded, u)
  <2>1. /\ ~lost /\ Poll!Loaded' = left
        /\ told' = [p \in DOMAIN told \cap DOMAIN left |-> [told[p] EXCEPT !.votes[u] = 0]]
    BY <1>4 DEF Poll!ForgetUser, Poll!Save, Poll!Loaded
  <2>2. DOMAIN told = DOMAIN Poll!Loaded /\ \A q \in DOMAIN told : told[q] = Poll!Known(Poll!Loaded[q])
    BY <2>1 DEF Poll!ToldIsSaved
  <2>3. /\ DOMAIN left \subseteq DOMAIN Poll!Loaded
        /\ \A q \in DOMAIN left : left[q] = Poll!WithVote(Poll!Loaded[q], u, 0) /\ Poll!Loaded[q] \in Poll!PollRecords
    BY LoadedPolls, ForgottenPolls
  <2> HIDE DEF left
  <2>4. DOMAIN told' = DOMAIN left
    BY <2>1, <2>2, <2>3
  <2>5. ASSUME NEW q \in DOMAIN left PROVE told'[q] = Poll!Known(left[q])
    <3>1. told[q] = [closed |-> Poll!Loaded[q].closed, votes |-> Poll!Loaded[q].votes]
      BY <2>2, <2>3 DEF Poll!Known
    <3>2. told'[q] = [closed |-> Poll!Loaded[q].closed, votes |-> [Poll!Loaded[q].votes EXCEPT ![u] = 0]]
      BY <2>1, <2>2, <2>3, <3>1
    <3> QED
      BY <2>3, <3>2, Votes DEF Poll!Known
  <2> QED
    BY <2>1, <2>4, <2>5
<1>5. ASSUME Poll!CrashInWrite PROVE Poll!ToldIsSaved'
  BY <1>5 DEF Poll!CrashInWrite, Poll!ToldIsSaved
<1>6. ASSUME NEW u \in Users, NEW p \in Polls, Poll!ClearButton(u, p) PROVE Poll!ToldIsSaved'
  BY <1>6, VoteIsTold DEF Poll!ClearButton
<1>7. ASSUME NEW u \in Users, NEW p \in Polls, NEW o \in Options, Poll!VoteButton(u, p, o) PROVE Poll!ToldIsSaved'
  BY <1>7, VoteIsTold DEF Poll!VoteButton
<1> QED
  BY <1>1, <1>2, <1>3, <1>4, <1>5, <1>6, <1>7
  DEF Poll!Next, Poll!CreatePoll, Poll!Posted, Poll!CreateFails, Poll!CloseShown, Poll!CloseUnseen, Poll!ChangeConsent, Poll!Edited,
      Poll!EditFails, Poll!Start, Poll!Stop, Poll!store, Poll!vars

\* So does what the users were told.
LEMMA PollsSaved == ASSUME Poll!PollAssumption PROVE Poll!Spec => []Poll!ToldIsSaved
<1>1. Poll!Init => Poll!ToldIsSaved
  BY DEF Poll!Init, Poll!ToldIsSaved, Poll!Loaded, Poll!Nothing
<1> QED
  BY <1>1, ToldStep, PollsTyped, PTL DEF Poll!Spec

-----------------------------------------------------------------------------
(* Who is named in the file.                                               *)

\* Saving one poll names its creator and its voters, and whom the file named.
LEMMA NamedInUpserted ==
  \A polls \in Poll!Some(Poll!PollRecords), p \in Polls, poll \in Poll!PollRecords :
    Poll!Named(Poll!Upserted(polls, p, poll))
      \subseteq Poll!Named(polls) \cup {poll.creator} \cup {u \in Users : poll.votes[u] # 0}
<1> SUFFICES ASSUME NEW polls \in Poll!Some(Poll!PollRecords), NEW p \in Polls, NEW poll \in Poll!PollRecords
             PROVE  Poll!Named(Poll!Upserted(polls, p, poll))
                      \subseteq Poll!Named(polls) \cup {poll.creator} \cup {u \in Users : poll.votes[u] # 0}
  OBVIOUS
<1> DEFINE new == Poll!Upserted(polls, p, poll)
<1>1. /\ DOMAIN new = DOMAIN polls \cup {p} /\ new[p] = poll
      /\ \A q \in DOMAIN polls \ {p} : new[q] = polls[q]
  BY DEF Poll!Upserted
<1> HIDE DEF new
<1>2. \A q \in DOMAIN new : q = p \/ (q \in DOMAIN polls /\ new[q] = polls[q])
  BY <1>1
<1>3. Poll!Named(new) \subseteq Poll!Named(polls) \cup {poll.creator} \cup {u \in Users : poll.votes[u] # 0}
  BY <1>1, <1>2 DEF Poll!Named
<1> QED
  BY <1>3 DEF new

\* Saving a vote names at most the voter.
LEMMA NamedByVote ==
  ASSUME Poll!TypeOK, NEW u \in Users, NEW p \in Polls, NEW o \in Options \cup {0}, Poll!Answerable(u, p)
  PROVE  Poll!Named(Poll!Upserted(Poll!Loaded, p, Poll!WithVote(Poll!Loaded[p], u, o)))
           \subseteq Poll!Named(Poll!Loaded) \cup (IF o = 0 THEN {} ELSE {u})
<1> DEFINE next == Poll!WithVote(Poll!Loaded[p], u, o)
<1>1. p \in DOMAIN Poll!Loaded /\ Poll!Loaded[p] \in Poll!PollRecords
  BY LoadedPolls DEF Poll!Answerable
<1>2. /\ next \in Poll!PollRecords /\ next.creator = Poll!Loaded[p].creator
      /\ next.votes = [Poll!Loaded[p].votes EXCEPT ![u] = o]
  BY <1>1, Votes
<1>3. Poll!Loaded[p].votes \in [Users -> Options \cup {0}]
  BY <1>1 DEF Poll!PollRecords, Poll!Ballots
<1>4. next.creator \in Poll!Named(Poll!Loaded)
  BY <1>1, <1>2 DEF Poll!Named
<1>5. {v \in Users : next.votes[v] # 0} \subseteq Poll!Named(Poll!Loaded) \cup (IF o = 0 THEN {} ELSE {u})
  <2>1. \A v \in Users : next.votes[v] # 0 => (v = u /\ o # 0) \/ Poll!Loaded[p].votes[v] # 0
    BY <1>2, <1>3
  <2>2. \A v \in Users : Poll!Loaded[p].votes[v] # 0 => v \in Poll!Named(Poll!Loaded)
    BY <1>1 DEF Poll!Named
  <2> HIDE DEF next
  <2> QED
    BY <2>1, <2>2
<1> HIDE DEF next
<1>6. Poll!Named(Poll!Upserted(Poll!Loaded, p, next))
        \subseteq Poll!Named(Poll!Loaded) \cup {next.creator} \cup {v \in Users : next.votes[v] # 0}
  <2>1. Poll!Loaded \in Poll!Some(Poll!PollRecords)
    BY LoadedPolls
  <2>2. next \in Poll!PollRecords
    BY <1>2
  <2> QED
    BY <2>1, <2>2, NamedInUpserted
<1>7. Poll!Named(Poll!Upserted(Poll!Loaded, p, next)) \subseteq Poll!Named(Poll!Loaded) \cup (IF o = 0 THEN {} ELSE {u})
  BY <1>4, <1>5, <1>6
<1> QED
  BY <1>7 DEF next

\* Who is named by a step has a grant, or comes with a creation.
LEMMA NamedStep ==
  ASSUME Poll!TypeOK, [Poll!Next]_(Poll!vars), NEW n \in Poll!Named(Poll!Loaded') \ Poll!Named(Poll!Loaded)
  PROVE  \/ n \in consent
         \/ \E p \in DOMAIN drafts \ DOMAIN drafts' : n \in {drafts[p].creator} \cup Poll!Named(drafts[p].base)
<1>1. ASSUME UNCHANGED file PROVE FALSE
  BY <1>1 DEF Poll!Loaded, Poll!Named
<1>2. ASSUME NEW u \in Users, NEW p \in Polls, NEW o \in Options, Poll!VoteButton(u, p, o) PROVE n \in consent
  <2>1. Poll!Loaded' = Poll!Upserted(Poll!Loaded, p, Poll!WithVote(Poll!Loaded[p], u, o)) /\ u \in consent /\ Poll!Answerable(u, p)
    BY <1>2 DEF Poll!VoteButton, Poll!Save, Poll!Loaded, Poll!Answerable
  <2>2. Poll!Named(Poll!Loaded') \subseteq Poll!Named(Poll!Loaded) \cup {u}
    BY <2>1, NamedByVote
  <2> QED
    BY <2>1, <2>2
<1>3. ASSUME NEW u \in Users, NEW p \in Polls, Poll!ClearButton(u, p) PROVE FALSE
  <2>1. Poll!Loaded' = Poll!Upserted(Poll!Loaded, p, Poll!WithVote(Poll!Loaded[p], u, 0)) /\ Poll!Answerable(u, p)
    BY <1>3 DEF Poll!ClearButton, Poll!Save, Poll!Loaded
  <2>2. Poll!Named(Poll!Loaded') \subseteq Poll!Named(Poll!Loaded)
    BY <2>1, NamedByVote
  <2> QED
    BY <2>2
<1>4. ASSUME NEW u \in Users, NEW p \in Polls, Poll!ClosePoll(u, p) PROVE FALSE
  <2> DEFINE closed == [Poll!Loaded[p] EXCEPT !.closed = TRUE]
  <2>1. Poll!Loaded' = Poll!Upserted(Poll!Loaded, p, closed) /\ p \in DOMAIN Poll!Loaded
    BY <1>4 DEF Poll!ClosePoll, Poll!Save, Poll!Loaded
  <2>2. closed \in Poll!PollRecords /\ closed.creator = Poll!Loaded[p].creator /\ closed.votes = Poll!Loaded[p].votes
    BY <2>1, LoadedPolls, Closed
  <2> HIDE DEF closed
  <2>3. {closed.creator} \cup {v \in Users : closed.votes[v] # 0} \subseteq Poll!Named(Poll!Loaded)
    BY <2>1, <2>2 DEF Poll!Named
  <2>4. Poll!Named(Poll!Loaded') \subseteq Poll!Named(Poll!Loaded) \cup {closed.creator} \cup {v \in Users : closed.votes[v] # 0}
    BY <2>1, <2>2, LoadedPolls, NamedInUpserted
  <2> QED
    BY <2>3, <2>4
<1>5. ASSUME NEW u \in Users, Poll!ForgetUser(u) PROVE FALSE
  <2>1. Poll!Loaded' = Poll!Anonymous(Poll!Loaded, u)
    BY <1>5 DEF Poll!ForgetUser, Poll!Save, Poll!Loaded
  <2>2. /\ DOMAIN Poll!Loaded' \subseteq DOMAIN Poll!Loaded
        /\ \A q \in DOMAIN Poll!Loaded' : Poll!Loaded'[q] = Poll!WithVote(Poll!Loaded[q], u, 0) /\ Poll!Loaded[q] \in Poll!PollRecords
    BY <2>1, LoadedPolls, ForgottenPolls
  <2>3. \A q \in DOMAIN Poll!Loaded' :
          /\ Poll!Loaded'[q].creator = Poll!Loaded[q].creator
          /\ \A v \in Users : Poll!Loaded'[q].votes[v] # 0 => Poll!Loaded[q].votes[v] # 0
    <3> TAKE q \in DOMAIN Poll!Loaded'
    <3> DEFINE poll == Poll!Loaded[q]
    <3>1. poll \in Poll!PollRecords /\ Poll!Loaded'[q] = Poll!WithVote(poll, u, 0)
      BY <2>2
    <3>2. poll.votes \in [Users -> Options \cup {0}]
      BY <3>1 DEF Poll!PollRecords, Poll!Ballots
    <3> HIDE DEF poll
    <3>3. Poll!WithVote(poll, u, 0).creator = poll.creator /\ Poll!WithVote(poll, u, 0).votes = [poll.votes EXCEPT ![u] = 0]
      BY <3>1, Votes
    <3>4. \A v \in Users : [poll.votes EXCEPT ![u] = 0][v] # 0 => poll.votes[v] # 0
      BY <3>2
    <3>5. /\ Poll!Loaded'[q].creator = poll.creator
          /\ \A v \in Users : Poll!Loaded'[q].votes[v] # 0 => poll.votes[v] # 0
      BY <3>1, <3>3, <3>4
    <3> QED
      BY <3>5 DEF poll
  <2>4. Poll!Named(Poll!Loaded') \subseteq Poll!Named(Poll!Loaded)
    BY <2>2, <2>3 DEF Poll!Named
  <2> QED
    BY <2>4
<1>6. ASSUME NEW p \in Polls, Poll!SaveCreated(p)
      PROVE  \E q \in DOMAIN drafts \ DOMAIN drafts' : n \in {drafts[q].creator} \cup Poll!Named(drafts[q].base)
  <2> DEFINE poll == Poll!NewPoll(drafts[p].creator)
  <2>1. /\ Poll!Loaded' = Poll!Upserted(drafts[p].base, p, poll) /\ p \in DOMAIN drafts
        /\ drafts' = Poll!Without(drafts, {p})
    BY <1>6 DEF Poll!SaveCreated, Poll!Save, Poll!Loaded
  <2>2. /\ drafts[p].base \in Poll!Some(Poll!PollRecords) /\ poll \in Poll!PollRecords
        /\ poll.creator = drafts[p].creator /\ poll.votes = Poll!NoVotes
    BY <2>1, NewPolls DEF Poll!TypeOK
  <2> HIDE DEF poll
  <2>3. {v \in Users : poll.votes[v] # 0} = {}
    BY <2>2 DEF Poll!NoVotes
  <2>4. Poll!Named(Poll!Loaded') \subseteq Poll!Named(drafts[p].base) \cup {poll.creator} \cup {v \in Users : poll.votes[v] # 0}
    BY <2>1, <2>2, NamedInUpserted
  <2>5. p \in DOMAIN drafts \ DOMAIN drafts'
    BY <2>1 DEF Poll!Without
  <2> QED
    BY <2>2, <2>3, <2>4, <2>5
<1>7. ASSUME Poll!CrashInWrite PROVE FALSE
  <2>1. Poll!Loaded' = Poll!Nothing
    BY <1>7 DEF Poll!CrashInWrite, Poll!Loaded
  <2> QED
    BY <2>1 DEF Poll!Named, Poll!Nothing
<1> QED
  BY <1>1, <1>2, <1>3, <1>4, <1>5, <1>6, <1>7
  DEF Poll!Next, Poll!CreatePoll, Poll!Posted, Poll!CreateFails, Poll!CloseShown, Poll!CloseUnseen, Poll!ChangeConsent, Poll!Edited,
      Poll!EditFails, Poll!Start, Poll!Stop, Poll!store, Poll!vars

\* No step of the polls names anybody unasked.
LEMMA PollsName ==
  ASSUME Poll!PollAssumption
  PROVE  Poll!Spec => Poll!NamedByConsent
<1>1. Poll!TypeOK /\ [Poll!Next]_(Poll!vars) =>
        \A u \in Poll!Named(Poll!Loaded') \ Poll!Named(Poll!Loaded) :
          \/ u \in consent
          \/ \E p \in DOMAIN drafts \ DOMAIN drafts' : u \in {drafts[p].creator} \cup Poll!Named(drafts[p].base)
  BY NamedStep
<1> QED
  BY <1>1, PollsTyped, PTL DEF Poll!Spec, Poll!NamedByConsent

-----------------------------------------------------------------------------
(* What the messages show.                                                 *)

\* Whose message is there, and whose creation is over.
Settled == posted \ DOMAIN drafts

\* What is saved, awaited or on its way is of polls that are settled; a
\* message whose creation is not over shows the new poll.
PlacesOK ==
  /\ DOMAIN Poll!Loaded \subseteq Settled /\ DOMAIN closing \subseteq Settled
  /\ \A i \in DOMAIN edits : edits[i].poll \in Settled
  /\ \A p \in DOMAIN drafts : DOMAIN drafts[p].base \subseteq Settled
  /\ \A p \in DOMAIN drafts \cap posted : shown[p] = Poll!View(Poll!NewPoll(drafts[p].creator))
  /\ \A p \in DOMAIN closing : closing[p].closed

\* The last edit of p shows view, or no edit of p is on its way and its
\* message does.
Showing(es, sh, p, view) ==
  \/ /\ \A i \in DOMAIN es : es[i].poll # p
     /\ sh[p] = view
  \/ \E i \in DOMAIN es :
       /\ es[i].poll = p /\ es[i].shows = view
       /\ \A j \in DOMAIN es : j > i => es[j].poll # p

Shows(p) ==
  IF p \in DOMAIN closing THEN closing[p] = Poll!View(Poll!Loaded[p])
  ELSE Showing(edits, shown, p, Poll!View(Poll!Loaded[p]))

EditRecords == [poll : Polls, shows : Poll!Views]

\* The queue with one more edit, place by place.
LEMMA AppendedEdit ==
  ASSUME NEW es \in Seq(EditRecords), NEW p \in Polls, NEW view \in Poll!Views
  PROVE  LET more == Append(es, [poll |-> p, shows |-> view])
         IN /\ DOMAIN more = 1 .. Len(es) + 1 /\ DOMAIN es = 1 .. Len(es) /\ Len(es) \in Nat
            /\ more[Len(es) + 1].poll = p /\ more[Len(es) + 1].shows = view
            /\ \A i \in 1 .. Len(es) : more[i] = es[i]
<1> DEFINE last == [poll |-> p, shows |-> view]
<1>1. last \in EditRecords /\ last.poll = p /\ last.shows = view
  BY DEF EditRecords
<1> HIDE DEF last
<1>2. LET more == Append(es, last)
      IN /\ DOMAIN more = 1 .. Len(es) + 1 /\ DOMAIN es = 1 .. Len(es) /\ Len(es) \in Nat
         /\ more[Len(es) + 1] = last /\ \A i \in 1 .. Len(es) : more[i] = es[i]
  BY <1>1
<1> QED
  BY <1>1, <1>2 DEF last

\* The new edit is the last of its poll.
LEMMA EditQueued ==
  ASSUME NEW es \in Seq(EditRecords), NEW p \in Polls, NEW view \in Poll!Views,
         NEW more, more = Append(es, [poll |-> p, shows |-> view]), NEW sh
  PROVE  Showing(more, sh, p, view)
<1>1. Len(es) + 1 \in DOMAIN more /\ \A j \in DOMAIN more : ~(j > Len(es) + 1)
  BY AppendedEdit
<1>2. more[Len(es) + 1].poll = p /\ more[Len(es) + 1].shows = view
  BY AppendedEdit
<1> QED
  BY <1>1, <1>2 DEF Showing

\* Every other edit is where it was.
LEMMA EditsQueued ==
  ASSUME NEW es \in Seq(EditRecords), NEW p \in Polls, NEW view \in Poll!Views,
         NEW more, more = Append(es, [poll |-> p, shows |-> view])
  PROVE  \A i \in DOMAIN more : more[i].poll = p \/ (i \in DOMAIN es /\ more[i] = es[i])
BY AppendedEdit

\* more is es with one edit, of p, after it.
Followed(es, p, more) ==
  \E view \in Poll!Views : more = Append(es, [poll |-> p, shows |-> view])

\* An edit of one poll leaves what comes of the others.
LEMMA OthersShown ==
  ASSUME NEW es \in Seq(EditRecords), NEW p \in Polls, NEW more, Followed(es, p, more), NEW sh,
         NEW q, NEW v, q # p, Showing(es, sh, q, v)
  PROVE  Showing(more, sh, q, v)
<1>1. /\ DOMAIN more = 1 .. Len(es) + 1 /\ DOMAIN es = 1 .. Len(es) /\ Len(es) \in Nat
      /\ more[Len(es) + 1].poll = p /\ \A i \in 1 .. Len(es) : more[i] = es[i]
  BY AppendedEdit DEF Followed
<1>2. CASE (\A i \in DOMAIN es : es[i].poll # q) /\ sh[q] = v
  <2>1. \A i \in DOMAIN more : more[i].poll # q
    BY <1>1, <1>2
  <2> QED
    BY <1>2, <2>1 DEF Showing
<1>3. ASSUME NEW i \in DOMAIN es, es[i].poll = q, es[i].shows = v,
             \A j \in DOMAIN es : j > i => es[j].poll # q
      PROVE  Showing(more, sh, q, v)
  <2>1. i \in DOMAIN more /\ more[i] = es[i]
    BY <1>1, <1>3
  <2>2. \A j \in DOMAIN more : j > i => more[j].poll # q
    BY <1>1, <1>3
  <2> QED
    BY <1>3, <2>1, <2>2 DEF Showing
<1> QED
  BY <1>2, <1>3 DEF Showing

\* The first edit is through, or is lost.
LEMMA EditGone ==
  ASSUME NEW es \in Seq(EditRecords), es # <<>>, NEW sh, NEW after, NEW q, NEW v,
         Showing(es, sh, q, v),
         q # Head(es).poll => after[q] = sh[q],
         q = Head(es).poll => after[q] = Head(es).shows
  PROVE  Showing(Tail(es), after, q, v)
<1> DEFINE left == Tail(es)
           first == Head(es)
<1>1. /\ Len(es) \in Nat \ {0} /\ DOMAIN es = 1 .. Len(es) /\ first = es[1]
      /\ DOMAIN left = 1 .. Len(es) - 1 /\ \A i \in 1 .. Len(es) - 1 : left[i] = es[i + 1]
  OBVIOUS
<1>2. (q # first.poll => after[q] = sh[q]) /\ (q = first.poll => after[q] = first.shows)
  OBVIOUS
<1> HIDE DEF left, first
<1>3. \A i \in DOMAIN left : i + 1 \in DOMAIN es /\ left[i] = es[i + 1]
  BY <1>1
<1>4. CASE (\A i \in DOMAIN es : es[i].poll # q) /\ sh[q] = v
  <2>1. \A i \in DOMAIN left : left[i].poll # q
    BY <1>3, <1>4
  <2>2. q # first.poll
    BY <1>1, <1>4
  <2> QED
    BY <1>2, <1>4, <2>1, <2>2 DEF Showing, left
<1>5. ASSUME NEW i \in DOMAIN es, es[i].poll = q, es[i].shows = v,
             \A j \in DOMAIN es : j > i => es[j].poll # q
      PROVE  Showing(left, after, q, v)
  <2>1. CASE i = 1
    <3>1. \A j \in DOMAIN left : left[j].poll # q
      <4> SUFFICES ASSUME NEW j \in DOMAIN left PROVE left[j].poll # q
        OBVIOUS
      <4>1. j + 1 > i /\ j + 1 \in DOMAIN es /\ left[j] = es[j + 1]
        BY <1>1, <1>3, <2>1
      <4> QED
        BY <1>5, <4>1
    <3>2. after[q] = v
      BY <1>1, <1>2, <1>5, <2>1
    <3> QED
      BY <3>1, <3>2 DEF Showing
  <2>2. CASE i # 1
    <3>1. i - 1 \in DOMAIN left /\ left[i - 1] = es[i]
      BY <1>1, <1>5, <2>2
    <3>2. \A j \in DOMAIN left : j > i - 1 => left[j].poll # q
      <4> SUFFICES ASSUME NEW j \in DOMAIN left, j > i - 1 PROVE left[j].poll # q
        OBVIOUS
      <4>1. j + 1 > i /\ j + 1 \in DOMAIN es /\ left[j] = es[j + 1]
        BY <1>1, <1>3
      <4> QED
        BY <1>5, <4>1
    <3> QED
      BY <1>5, <3>1, <3>2 DEF Showing
  <2> QED
    BY <2>1, <2>2
<1> QED
  BY <1>4, <1>5 DEF Showing, left

\* What was saved is loaded next.
LEMMA SavedIsLoaded == \A polls : Poll!Save(polls) => Poll!Loaded' = polls
BY DEF Poll!Save, Poll!Loaded

\* What a handler saves of one poll and shows in an edit of its message.
LEMMA PollEdited ==
  ASSUME Poll!PollAssumption, Poll!TypeOK, PlacesOK, NEW p \in DOMAIN Poll!Loaded, NEW poll \in Poll!PollRecords,
         Poll!Save(Poll!Upserted(Poll!Loaded, p, poll)), Poll!Edit(p, Poll!View(poll))
  PROVE  /\ DOMAIN Poll!Loaded' = DOMAIN Poll!Loaded
         /\ \A q \in DOMAIN Poll!Loaded \ {p} : Poll!Loaded'[q] = Poll!Loaded[q]
         /\ \A i \in DOMAIN edits' : edits'[i].poll \in Settled
         /\ Showing(edits', shown, p, Poll!View(Poll!Loaded'[p]))
         /\ \A q, v : q # p /\ Showing(edits, shown, q, v) => Showing(edits', shown, q, v)
<1>1. p \in Polls /\ Poll!Loaded \in Poll!Some(Poll!PollRecords)
  BY LoadedPolls
<1>2. Poll!View(poll) \in Poll!Views
  BY ViewsAreViews
<1>3. Poll!Loaded' = Poll!Upserted(Poll!Loaded, p, poll)
  BY SavedIsLoaded
<1>4. /\ DOMAIN Poll!Loaded' = DOMAIN Poll!Loaded /\ Poll!Loaded'[p] = poll
      /\ \A q \in DOMAIN Poll!Loaded \ {p} : Poll!Loaded'[q] = Poll!Loaded[q]
  <2>1. PICK polls \in Poll!Some(Poll!PollRecords) : polls = Poll!Loaded
    BY <1>1
  <2>2. /\ DOMAIN Poll!Upserted(polls, p, poll) = DOMAIN polls \cup {p}
        /\ Poll!Upserted(polls, p, poll)[p] = poll
        /\ \A q \in DOMAIN polls \ {p} : Poll!Upserted(polls, p, poll)[q] = polls[q]
    BY <1>1, UpsertedPolls
  <2> QED
    BY <1>3, <2>1, <2>2
<1>5. edits \in Seq(EditRecords)
  BY DEF Poll!TypeOK, EditRecords
<1>6. PICK view \in Poll!Views : view = Poll!View(poll)
  BY <1>2
<1>7. PICK more : more = Append(edits, [poll |-> p, shows |-> view])
  OBVIOUS
<1>8. edits' = more
  BY <1>6, <1>7 DEF Poll!Edit
<1>9. more = Append(edits, [poll |-> p, shows |-> view])
  BY <1>7
<1>10. \A i \in DOMAIN more : more[i].poll \in Settled
  <2>1. \A i \in DOMAIN more : more[i].poll = p \/ (i \in DOMAIN edits /\ more[i] = edits[i])
    BY <1>1, <1>5, <1>9, EditsQueued
  <2>2. p \in Settled /\ \A i \in DOMAIN edits : edits[i].poll \in Settled
    BY DEF PlacesOK
  <2> QED
    BY <2>1, <2>2
<1>11. Showing(more, shown, p, view)
  BY <1>1, <1>5, <1>9, EditQueued
<1>12. \A q, v : q # p /\ Showing(edits, shown, q, v) => Showing(more, shown, q, v)
  <2> SUFFICES ASSUME NEW q, NEW v, q # p, Showing(edits, shown, q, v) PROVE Showing(more, shown, q, v)
    OBVIOUS
  <2>1. Followed(edits, p, more)
    BY <1>9 DEF Followed
  <2> QED
    BY <2>1, <1>1, <1>5, OthersShown, Zenon
<1> QED
  BY <1>4, <1>6, <1>8, <1>10, <1>11, <1>12

\* A vote or a withdrawal leaves an edit of what is saved.
LEMMA VoteEdited ==
  ASSUME Poll!PollAssumption, Poll!TypeOK, PlacesOK, NEW u \in Users, NEW p \in Polls, NEW o \in Options \cup {0},
         Poll!Answerable(u, p), Poll!Save(Poll!Upserted(Poll!Loaded, p, Poll!WithVote(Poll!Loaded[p], u, o))),
         Poll!Edit(p, Poll!View(Poll!WithVote(Poll!Loaded[p], u, o)))
  PROVE  /\ DOMAIN Poll!Loaded' = DOMAIN Poll!Loaded /\ p \in DOMAIN Poll!Loaded
         /\ \A q \in DOMAIN Poll!Loaded \ {p} : Poll!Loaded'[q] = Poll!Loaded[q]
         /\ \A i \in DOMAIN edits' : edits'[i].poll \in Settled
         /\ Showing(edits', shown, p, Poll!View(Poll!Loaded'[p]))
         /\ \A q, v : q # p /\ Showing(edits, shown, q, v) => Showing(edits', shown, q, v)
<1>1. p \in DOMAIN Poll!Loaded /\ Poll!Loaded[p] \in Poll!PollRecords
  BY LoadedPolls DEF Poll!Answerable
<1>2. Poll!WithVote(Poll!Loaded[p], u, o) \in Poll!PollRecords
  BY <1>1, Votes
<1> QED
  BY <1>1, <1>2, PollEdited

\* An edit that is through or lost.
LEMMA EditEnds ==
  ASSUME Poll!TypeOK, PlacesOK, edits # <<>>, edits' = Tail(edits)
  PROVE  /\ \A i \in DOMAIN edits' : edits'[i].poll \in Settled
         /\ Head(edits).poll \in Settled
<1>1. edits \in Seq([poll : Polls, shows : Poll!Views])
  BY DEF Poll!TypeOK
<1>2. /\ 1 \in DOMAIN edits /\ Head(edits) = edits[1]
      /\ \A i \in DOMAIN Tail(edits) : i + 1 \in DOMAIN edits /\ Tail(edits)[i] = edits[i + 1]
  <2> DEFINE E == [poll : Polls, shows : Poll!Views]
  <2>1. edits \in Seq(E)
    BY <1>1
  <2> HIDE DEF E
  <2> QED
    BY <2>1
<1> QED
  BY <1>2 DEF PlacesOK

\* Where nothing is awaited or on its way that was not before.
LEMMA PlacesKept ==
  ASSUME PlacesOK, Settled \subseteq Settled', DOMAIN Poll!Loaded' \subseteq Settled',
         DOMAIN closing' \subseteq DOMAIN closing, \A p \in DOMAIN closing' : closing'[p] = closing[p],
         \A i \in DOMAIN edits' : edits'[i].poll \in Settled',
         DOMAIN drafts' \subseteq DOMAIN drafts, \A p \in DOMAIN drafts' : drafts'[p] = drafts[p],
         \A p \in DOMAIN drafts' \cap posted' : p \in posted /\ shown'[p] = shown[p]
  PROVE  PlacesOK'
<1>1. DOMAIN closing' \subseteq Settled' /\ \A p \in DOMAIN closing' : closing'[p].closed
  BY DEF PlacesOK
<1>2. \A p \in DOMAIN drafts' : DOMAIN drafts'[p].base \subseteq Settled'
  BY DEF PlacesOK
<1>3. \A p \in DOMAIN drafts' \cap posted' : shown'[p] = Poll!View(Poll!NewPoll(drafts'[p].creator))
  BY DEF PlacesOK
<1> QED
  BY <1>1, <1>2, <1>3 DEF PlacesOK

\* Messages, edits and closings belong to polls that were posted.
LEMMA PlacesStep ==
  ASSUME Poll!PollAssumption, Poll!TypeOK, PlacesOK, [Poll!Next]_(Poll!vars) PROVE PlacesOK'
<1> USE DEF Poll!store, Poll!discord
<1>0. /\ DOMAIN Poll!Loaded \subseteq Settled /\ DOMAIN closing \subseteq Settled
      /\ \A i \in DOMAIN edits : edits[i].poll \in Settled
      /\ \A p \in DOMAIN drafts : DOMAIN drafts[p].base \subseteq Settled
      /\ \A p \in DOMAIN drafts \cap posted : shown[p] = Poll!View(Poll!NewPoll(drafts[p].creator))
      /\ \A p \in DOMAIN closing : closing[p].closed
  BY DEF PlacesOK
<1>1. ASSUME NEW u \in Users, NEW p \in Polls, Poll!CreatePoll(u, p) PROVE PlacesOK'
  <2>1. /\ drafts' = Poll!Upserted(drafts, p, [creator |-> u, base |-> Poll!Loaded])
        /\ p \notin posted /\ p \notin DOMAIN drafts
        /\ UNCHANGED <<file, closing, edits, posted, shown>>
    BY <1>1 DEF Poll!CreatePoll
  <2>2. /\ DOMAIN drafts' = DOMAIN drafts \cup {p} /\ drafts'[p].base = Poll!Loaded
        /\ \A q \in DOMAIN drafts : drafts'[q] = drafts[q]
    BY <2>1 DEF Poll!Upserted
  <2>3. Poll!Loaded' = Poll!Loaded
    BY <2>1 DEF Poll!Loaded
  <2>4. Settled' = Settled
    BY <2>1, <2>2 DEF Settled
  <2>5. \A q \in DOMAIN drafts' : DOMAIN drafts'[q].base \subseteq Settled'
    BY <1>0, <2>2, <2>4
  <2>6. \A q \in DOMAIN drafts' \cap posted' : shown'[q] = Poll!View(Poll!NewPoll(drafts'[q].creator))
    BY <1>0, <2>1, <2>2
  <2> QED
    BY <1>0, <2>1, <2>3, <2>4, <2>5, <2>6 DEF PlacesOK
<1>2. ASSUME NEW p \in Polls, Poll!Posted(p) PROVE PlacesOK'
  <2>1. /\ p \in DOMAIN drafts /\ p \notin posted /\ posted' = posted \cup {p}
        /\ shown' = Poll!Upserted(shown, p, Poll!View(Poll!NewPoll(drafts[p].creator)))
        /\ UNCHANGED <<file, drafts, closing, edits>>
    BY <1>2 DEF Poll!Posted
  <2>2. Poll!Loaded' = Poll!Loaded /\ Settled' = Settled
    BY <2>1 DEF Poll!Loaded, Settled
  <2>3. /\ shown'[p] = Poll!View(Poll!NewPoll(drafts[p].creator))
        /\ \A q \in posted : shown'[q] = shown[q]
    BY <2>1 DEF Poll!Upserted, Poll!TypeOK
  <2>4. \A q \in DOMAIN drafts' \cap posted' : shown'[q] = Poll!View(Poll!NewPoll(drafts'[q].creator))
    BY <1>0, <2>1, <2>3
  <2> QED
    BY <1>0, <2>1, <2>2, <2>4 DEF PlacesOK
<1>3. ASSUME NEW p \in Polls, Poll!SaveCreated(p) PROVE PlacesOK'
  <2>1. /\ p \in DOMAIN drafts /\ p \in posted /\ drafts' = Poll!Without(drafts, {p})
        /\ Poll!Save(Poll!Upserted(drafts[p].base, p, Poll!NewPoll(drafts[p].creator)))
        /\ UNCHANGED <<closing, edits, posted, shown>>
    BY <1>3 DEF Poll!SaveCreated
  <2>2. DOMAIN drafts' = DOMAIN drafts \ {p} /\ \A q \in DOMAIN drafts' : drafts'[q] = drafts[q]
    BY <2>1 DEF Poll!Without
  <2>3. DOMAIN Poll!Loaded' = DOMAIN drafts[p].base \cup {p}
    BY <2>1, SavedIsLoaded DEF Poll!Upserted
  <2>4. Settled' = Settled \cup {p}
    BY <2>1, <2>2 DEF Settled
  <2> QED
    BY <1>0, <2>1, <2>2, <2>3, <2>4, PlacesKept
<1>4. ASSUME NEW p \in Polls, Poll!CreateFails(p) PROVE PlacesOK'
  <2>1. drafts' = Poll!Without(drafts, {p}) /\ UNCHANGED <<file, closing, edits, posted, shown>>
    BY <1>4 DEF Poll!CreateFails
  <2>2. DOMAIN drafts' = DOMAIN drafts \ {p} /\ \A q \in DOMAIN drafts' : drafts'[q] = drafts[q]
    BY <2>1 DEF Poll!Without
  <2>3. Poll!Loaded' = Poll!Loaded /\ Settled \subseteq Settled'
    BY <2>1, <2>2 DEF Poll!Loaded, Settled
  <2> QED
    BY <1>0, <2>1, <2>2, <2>3, PlacesKept
<1>5. ASSUME NEW u \in Users, NEW p \in Polls, NEW o \in Options \cup {0},
             Poll!Answerable(u, p), Poll!Save(Poll!Upserted(Poll!Loaded, p, Poll!WithVote(Poll!Loaded[p], u, o))),
             Poll!Edit(p, Poll!View(Poll!WithVote(Poll!Loaded[p], u, o))), UNCHANGED <<drafts, closing, posted, shown>>
      PROVE  PlacesOK'
  <2>1. Settled' = Settled
    BY <1>5 DEF Settled
  <2> QED
    BY <1>0, <1>5, <2>1, VoteEdited, PlacesKept
<1>6. ASSUME NEW u \in Users, NEW p \in Polls, NEW o \in Options, Poll!VoteButton(u, p, o) PROVE PlacesOK'
  BY <1>5, <1>6 DEF Poll!VoteButton
<1>7. ASSUME NEW u \in Users, NEW p \in Polls, Poll!ClearButton(u, p) PROVE PlacesOK'
  BY <1>5, <1>7 DEF Poll!ClearButton
<1>8. ASSUME NEW u \in Users, NEW p \in Polls, Poll!ClosePoll(u, p) PROVE PlacesOK'
  <2> DEFINE closed == [Poll!Loaded[p] EXCEPT !.closed = TRUE]
  <2>1. /\ p \in DOMAIN Poll!Loaded /\ Poll!Save(Poll!Upserted(Poll!Loaded, p, closed))
        /\ closing' = Poll!Upserted(closing, p, Poll!View(closed))
        /\ UNCHANGED <<drafts, edits, posted, shown>>
    BY <1>8 DEF Poll!ClosePoll
  <2>2. Poll!Loaded[p] \in Poll!PollRecords
    BY <2>1, LoadedPolls
  <2>3. closed.closed = TRUE
    BY <2>2, Closed
  <2> HIDE DEF closed
  <2>4. Poll!View(closed).closed = TRUE
    BY <2>3 DEF Poll!View
  <2>5. DOMAIN Poll!Loaded' = DOMAIN Poll!Loaded
    BY <2>1, SavedIsLoaded DEF Poll!Upserted
  <2>6. DOMAIN closing' = DOMAIN closing \cup {p} /\ \A q \in DOMAIN closing' : closing'[q].closed
    BY <1>0, <2>1, <2>4 DEF Poll!Upserted
  <2>7. Settled' = Settled
    BY <2>1 DEF Settled
  <2> QED
    BY <1>0, <2>1, <2>5, <2>6, <2>7 DEF PlacesOK
<1>9. ASSUME NEW p \in Polls, Poll!CloseShown(p) PROVE PlacesOK'
  <2>1. /\ p \in DOMAIN closing /\ closing' = Poll!Without(closing, {p})
        /\ edits' = Append(edits, [poll |-> p, shows |-> closing[p]])
        /\ UNCHANGED <<file, drafts, posted, shown>>
    BY <1>9 DEF Poll!CloseShown, Poll!Edit
  <2>2. DOMAIN closing' \subseteq DOMAIN closing /\ \A q \in DOMAIN closing' : closing'[q] = closing[q]
    BY <2>1 DEF Poll!Without
  <2>3. edits \in Seq(EditRecords) /\ closing[p] \in Poll!Views
    BY <2>1 DEF Poll!TypeOK, EditRecords
  <2>4. \A i \in DOMAIN edits' :
          edits'[i].poll = p \/ (i \in DOMAIN edits /\ edits'[i] = edits[i])
    BY <2>1, <2>3, EditsQueued
  <2>5. Poll!Loaded' = Poll!Loaded /\ Settled' = Settled
    BY <2>1 DEF Poll!Loaded, Settled
  <2> QED
    BY <1>0, <2>1, <2>2, <2>4, <2>5, PlacesKept
<1>10. ASSUME NEW p \in Polls, Poll!CloseUnseen(p) PROVE PlacesOK'
  <2>1. closing' = Poll!Without(closing, {p}) /\ UNCHANGED <<file, drafts, edits, posted, shown>>
    BY <1>10 DEF Poll!CloseUnseen
  <2>2. DOMAIN closing' \subseteq DOMAIN closing /\ \A q \in DOMAIN closing' : closing'[q] = closing[q]
    BY <2>1 DEF Poll!Without
  <2>3. Poll!Loaded' = Poll!Loaded /\ Settled' = Settled
    BY <2>1 DEF Poll!Loaded, Settled
  <2> QED
    BY <1>0, <2>1, <2>2, <2>3, PlacesKept
<1>11. ASSUME Poll!Edited \/ Poll!EditFails PROVE PlacesOK'
  <2>1. /\ edits # <<>> /\ edits' = Tail(edits) /\ UNCHANGED <<file, drafts, closing, posted>>
        /\ \/ shown' = [shown EXCEPT ![Head(edits).poll] = Head(edits).shows]
           \/ shown' = shown
    BY <1>11 DEF Poll!Edited, Poll!EditFails
  <2>2. Poll!Loaded' = Poll!Loaded /\ Settled' = Settled
    BY <2>1 DEF Poll!Loaded, Settled
  <2>3. Head(edits).poll \in Settled /\ \A i \in DOMAIN edits' : edits'[i].poll \in Settled
    BY <2>1, EditEnds
  <2>4. \A q \in DOMAIN drafts \cap posted : shown'[q] = shown[q]
    BY <2>1, <2>3 DEF Settled, Poll!TypeOK
  <2> QED
    BY <1>0, <2>1, <2>2, <2>3, <2>4, PlacesKept
<1>12. ASSUME NEW u \in Users, Poll!ForgetUser(u) PROVE PlacesOK'
  <2>1. Poll!Save(Poll!Anonymous(Poll!Loaded, u)) /\ UNCHANGED <<drafts, closing, edits, posted, shown>>
    BY <1>12 DEF Poll!ForgetUser
  <2>2. DOMAIN Poll!Loaded' \subseteq DOMAIN Poll!Loaded
    BY <2>1, SavedIsLoaded, ForgottenPolls, LoadedPolls
  <2>3. Settled' = Settled
    BY <2>1 DEF Settled
  <2> QED
    BY <1>0, <2>1, <2>2, <2>3, PlacesKept
<1>13. ASSUME Poll!Stop \/ Poll!CrashInWrite PROVE PlacesOK'
  <2>1. /\ drafts' = Poll!Nothing /\ closing' = Poll!Nothing /\ edits' = <<>> /\ UNCHANGED <<posted, shown>>
    BY <1>13 DEF Poll!Stop, Poll!CrashInWrite, Poll!Ended
  <2>2. DOMAIN drafts' = {} /\ DOMAIN closing' = {} /\ DOMAIN edits' = {}
    BY <2>1 DEF Poll!Nothing
  <2>3. DOMAIN Poll!Loaded' \subseteq DOMAIN Poll!Loaded
    <3>1. CASE Poll!Stop
      BY <3>1 DEF Poll!Stop, Poll!Loaded
    <3>2. CASE Poll!CrashInWrite
      BY <3>2 DEF Poll!CrashInWrite, Poll!Loaded, Poll!Nothing
    <3> QED
      BY <1>13, <3>1, <3>2
  <2>4. Settled \subseteq Settled'
    BY <2>1, <2>2 DEF Settled
  <2> QED
    BY <1>0, <2>2, <2>3, <2>4, PlacesKept
<1>14. ASSUME UNCHANGED <<file, drafts, closing, edits, posted, shown>> PROVE PlacesOK'
  <2>1. Poll!Loaded' = Poll!Loaded /\ Settled' = Settled
    BY <1>14 DEF Poll!Loaded, Settled
  <2> QED
    BY <1>0, <1>14, <2>1, PlacesKept
<1>15. ASSUME NEW u \in Users, Poll!ChangeConsent(u) PROVE PlacesOK'
  BY <1>14, <1>15 DEF Poll!ChangeConsent
<1>16. CASE Poll!Start
  BY <1>14, <1>16 DEF Poll!Start
<1>17. CASE UNCHANGED Poll!vars
  BY <1>14, <1>17 DEF Poll!vars
<1> QED
  BY <1>1, <1>2, <1>3, <1>4, <1>6, <1>7, <1>8, <1>9, <1>10, <1>11, <1>12, <1>13, <1>15, <1>16, <1>17
  DEF Poll!Next

ShowsOK == \A p \in DOMAIN Poll!Loaded \ blurred : Shows(p)

\* What a message shows is a matter of that message.
LEMMA ShowingSame ==
  ASSUME NEW es, NEW sh, NEW after, NEW q, NEW v, after[q] = sh[q], Showing(es, sh, q, v)
  PROVE  Showing(es, after, q, v)
BY DEF Showing

\* A poll no step has to do with.
LEMMA ShowsKept ==
  ASSUME NEW q, Shows(q), Poll!Loaded'[q] = Poll!Loaded[q],
         q \in DOMAIN closing' <=> q \in DOMAIN closing,
         q \in DOMAIN closing => closing'[q] = closing[q],
         Showing(edits, shown, q, Poll!View(Poll!Loaded[q])) => Showing(edits', shown', q, Poll!View(Poll!Loaded[q]))
  PROVE  Shows(q)'
<1>1. CASE q \in DOMAIN closing
  BY <1>1 DEF Shows
<1>2. CASE q \notin DOMAIN closing
  BY <1>2 DEF Shows
<1> QED
  BY <1>1, <1>2

\* The last picture on its way to a message, or the message, is the poll of the file.
LEMMA ShowsStep ==
  ASSUME Poll!PollAssumption, Poll!TypeOK, PlacesOK, ShowsOK, [Poll!Next]_(Poll!vars) PROVE ShowsOK'
<1> SUFFICES ASSUME NEW q \in DOMAIN Poll!Loaded' \ blurred' PROVE Shows(q)'
  BY DEF ShowsOK
<1> USE DEF Poll!store, Poll!discord
<1>0. /\ DOMAIN Poll!Loaded \subseteq Settled /\ DOMAIN closing \subseteq Settled
      /\ \A i \in DOMAIN edits : edits[i].poll \in Settled
      /\ \A p \in DOMAIN drafts \cap posted : shown[p] = Poll!View(Poll!NewPoll(drafts[p].creator))
      /\ \A p \in DOMAIN closing : closing[p].closed
      /\ q \in DOMAIN Poll!Loaded \ blurred => Shows(q)
  BY DEF PlacesOK, ShowsOK
<1>1. ASSUME UNCHANGED <<file, closing, edits, shown, blurred>> PROVE Shows(q)'
  <2>1. Poll!Loaded' = Poll!Loaded
    BY <1>1 DEF Poll!Loaded
  <2> QED
    BY <1>0, <1>1, <2>1, ShowsKept
<1>2. ASSUME NEW u \in Users, NEW p \in Polls, Poll!CreatePoll(u, p) PROVE Shows(q)'
  BY <1>1, <1>2 DEF Poll!CreatePoll
<1>3. ASSUME NEW p \in Polls, Poll!Posted(p) PROVE Shows(q)'
  <2>1. /\ p \notin posted /\ shown' = Poll!Upserted(shown, p, Poll!View(Poll!NewPoll(drafts[p].creator)))
        /\ UNCHANGED <<file, closing, edits, blurred>>
    BY <1>3 DEF Poll!Posted
  <2>2. Poll!Loaded' = Poll!Loaded
    BY <2>1 DEF Poll!Loaded
  <2>3. q \in DOMAIN shown /\ q # p
    BY <1>0, <2>1, <2>2 DEF Settled, Poll!TypeOK
  <2>4. shown'[q] = shown[q]
    BY <2>1, <2>3 DEF Poll!Upserted
  <2>5. Showing(edits, shown, q, Poll!View(Poll!Loaded[q])) => Showing(edits', shown', q, Poll!View(Poll!Loaded[q]))
    BY <2>1, <2>4, ShowingSame
  <2> QED
    BY <1>0, <2>1, <2>2, <2>5, ShowsKept
<1>4. ASSUME NEW p \in Polls, Poll!SaveCreated(p) PROVE Shows(q)'
  <2> DEFINE poll == Poll!NewPoll(drafts[p].creator)
             base == drafts[p].base
  <2>1. /\ p \in DOMAIN drafts \cap posted /\ Poll!Save(Poll!Upserted(base, p, poll))
        /\ blurred' = blurred \cup Poll!Overwritten(base)
        /\ UNCHANGED <<closing, edits, shown>>
    BY <1>4 DEF Poll!SaveCreated
  <2>2. p \notin Settled /\ shown[p] = Poll!View(poll)
    BY <1>0, <2>1 DEF Settled
  <2> HIDE DEF poll, base
  <2>3. Poll!Loaded' = Poll!Upserted(base, p, poll)
    BY <2>1, SavedIsLoaded
  <2>4. CASE q = p
    <3>1. Poll!Loaded'[q] = poll
      BY <2>3, <2>4 DEF Poll!Upserted
    <3>2. q \notin DOMAIN closing /\ \A i \in DOMAIN edits : edits[i].poll # q
      BY <1>0, <2>2, <2>4
    <3>3. Showing(edits, shown, q, Poll!View(poll))
      BY <2>2, <2>4, <3>2 DEF Showing
    <3> QED
      BY <2>1, <3>1, <3>2, <3>3 DEF Shows
  <2>5. CASE q # p
    <3>1. q \in DOMAIN base /\ Poll!Loaded'[q] = base[q]
      BY <2>3, <2>5 DEF Poll!Upserted
    <3>2. q \notin blurred /\ q \notin Poll!Overwritten(base)
      BY <2>1
    <3>3. q \in DOMAIN Poll!Loaded /\ base[q] = Poll!Loaded[q]
      BY <3>1, <3>2 DEF Poll!Overwritten
    <3> QED
      BY <1>0, <2>1, <3>1, <3>2, <3>3, ShowsKept
  <2> QED
    BY <2>4, <2>5
<1>5. ASSUME NEW p \in Polls, Poll!CreateFails(p) PROVE Shows(q)'
  BY <1>1, <1>5 DEF Poll!CreateFails
<1>6. ASSUME NEW u \in Users, NEW p \in Polls, NEW o \in Options \cup {0},
             Poll!Answerable(u, p), Poll!Save(Poll!Upserted(Poll!Loaded, p, Poll!WithVote(Poll!Loaded[p], u, o))),
             Poll!Edit(p, Poll!View(Poll!WithVote(Poll!Loaded[p], u, o))), UNCHANGED <<closing, shown>>,
             blurred \subseteq blurred', q = p => p \notin DOMAIN closing
      PROVE  Shows(q)'
  <2>1. /\ DOMAIN Poll!Loaded' = DOMAIN Poll!Loaded
        /\ \A r \in DOMAIN Poll!Loaded \ {p} : Poll!Loaded'[r] = Poll!Loaded[r]
        /\ Showing(edits', shown, p, Poll!View(Poll!Loaded'[p]))
        /\ q # p /\ Showing(edits, shown, q, Poll!View(Poll!Loaded[q])) => Showing(edits', shown, q, Poll!View(Poll!Loaded[q]))
    BY <1>6, VoteEdited
  <2>2. CASE q = p
    BY <1>6, <2>1, <2>2 DEF Shows
  <2>3. CASE q # p
    BY <1>0, <1>6, <2>1, <2>3, ShowsKept
  <2> QED
    BY <2>2, <2>3
<1>7. ASSUME NEW u \in Users, NEW p \in Polls, NEW o \in Options, Poll!VoteButton(u, p, o) PROVE Shows(q)'
  <2>1. /\ Poll!Answerable(u, p) /\ Poll!Save(Poll!Upserted(Poll!Loaded, p, Poll!WithVote(Poll!Loaded[p], u, o)))
        /\ Poll!Edit(p, Poll!View(Poll!WithVote(Poll!Loaded[p], u, o))) /\ ~Poll!Loaded[p].closed
        /\ UNCHANGED <<closing, shown, blurred>>
    BY <1>7 DEF Poll!VoteButton
  <2>2. p \in DOMAIN Poll!Loaded /\ Poll!View(Poll!Loaded[p]).closed = Poll!Loaded[p].closed
    BY <2>1 DEF Poll!Answerable, Poll!View
  <2>3. ASSUME q = p PROVE p \notin DOMAIN closing
    <3> SUFFICES ASSUME p \in DOMAIN closing PROVE FALSE
      OBVIOUS
    <3>1. closing[p] = Poll!View(Poll!Loaded[p])
      BY <1>0, <2>1, <2>2, <2>3 DEF Shows
    <3> QED
      BY <1>0, <2>1, <2>2, <3>1
  <2> QED
    BY <1>6, <2>1, <2>3
<1>8. ASSUME NEW u \in Users, NEW p \in Polls, Poll!ClearButton(u, p) PROVE Shows(q)'
  <2>1. /\ Poll!Answerable(u, p) /\ Poll!Save(Poll!Upserted(Poll!Loaded, p, Poll!WithVote(Poll!Loaded[p], u, 0)))
        /\ Poll!Edit(p, Poll!View(Poll!WithVote(Poll!Loaded[p], u, 0)))
        /\ blurred' = blurred \cup ({p} \cap DOMAIN closing)
        /\ UNCHANGED <<closing, shown>>
    BY <1>8 DEF Poll!ClearButton
  <2>2. blurred \subseteq blurred' /\ (q = p => p \notin DOMAIN closing)
    BY <2>1
  <2> QED
    BY <1>6, <2>1, <2>2
<1>9. ASSUME NEW u \in Users, NEW p \in Polls, Poll!ClosePoll(u, p) PROVE Shows(q)'
  <2> DEFINE closed == [Poll!Loaded[p] EXCEPT !.closed = TRUE]
  <2>1. /\ p \in DOMAIN Poll!Loaded /\ Poll!Save(Poll!Upserted(Poll!Loaded, p, closed))
        /\ closing' = Poll!Upserted(closing, p, Poll!View(closed))
        /\ UNCHANGED <<edits, shown, blurred>>
    BY <1>9 DEF Poll!ClosePoll
  <2> HIDE DEF closed
  <2>2. Poll!Loaded' = Poll!Upserted(Poll!Loaded, p, closed)
    BY <2>1, SavedIsLoaded
  <2>3. CASE q = p
    <3>1. Poll!Loaded'[q] = closed /\ q \in DOMAIN closing' /\ closing'[q] = Poll!View(closed)
      BY <2>1, <2>2, <2>3 DEF Poll!Upserted
    <3> QED
      BY <3>1 DEF Shows
  <2>4. CASE q # p
    <3>1. q \in DOMAIN Poll!Loaded /\ Poll!Loaded'[q] = Poll!Loaded[q]
      BY <2>2, <2>4 DEF Poll!Upserted
    <3>2. /\ q \in DOMAIN closing' <=> q \in DOMAIN closing
          /\ q \in DOMAIN closing => closing'[q] = closing[q]
      BY <2>1, <2>4 DEF Poll!Upserted
    <3> QED
      BY <1>0, <2>1, <3>1, <3>2, ShowsKept
  <2> QED
    BY <2>3, <2>4
<1>10. ASSUME NEW p \in Polls, Poll!CloseShown(p) PROVE Shows(q)'
  <2>1. /\ p \in DOMAIN closing /\ closing' = Poll!Without(closing, {p})
        /\ edits' = Append(edits, [poll |-> p, shows |-> closing[p]])
        /\ UNCHANGED <<file, shown, blurred>>
    BY <1>10 DEF Poll!CloseShown, Poll!Edit
  <2>2. edits \in Seq(EditRecords) /\ closing[p] \in Poll!Views
    BY <2>1 DEF Poll!TypeOK, EditRecords
  <2>3. Poll!Loaded' = Poll!Loaded /\ Shows(q)
    BY <1>0, <2>1 DEF Poll!Loaded
  <2>4. CASE q = p
    <3>1. closing[p] = Poll!View(Poll!Loaded[p]) /\ p \notin DOMAIN closing'
      BY <2>1, <2>3, <2>4 DEF Shows, Poll!Without
    <3>2. Showing(edits', shown, p, closing[p])
      BY <2>1, <2>2, EditQueued
    <3> QED
      BY <2>1, <2>3, <2>4, <3>1, <3>2 DEF Shows
  <2>5. CASE q # p
    <3>1. /\ q \in DOMAIN closing' <=> q \in DOMAIN closing
          /\ q \in DOMAIN closing => closing'[q] = closing[q]
      BY <2>1, <2>5 DEF Poll!Without
    <3>2. Showing(edits, shown, q, Poll!View(Poll!Loaded[q])) => Showing(edits', shown, q, Poll!View(Poll!Loaded[q]))
      <4>1. Followed(edits, p, edits')
        BY <2>1, <2>2 DEF Followed
      <4> QED
        BY <2>2, <2>5, <4>1, OthersShown, Zenon
    <3> QED
      BY <2>1, <2>3, <3>1, <3>2, ShowsKept
  <2> QED
    BY <2>4, <2>5
<1>11. ASSUME NEW p \in Polls, Poll!CloseUnseen(p) PROVE Shows(q)'
  <2>1. /\ closing' = Poll!Without(closing, {p}) /\ blurred' = blurred \cup {p}
        /\ UNCHANGED <<file, edits, shown>>
    BY <1>11 DEF Poll!CloseUnseen
  <2>2. Poll!Loaded' = Poll!Loaded /\ Shows(q) /\ q # p
    BY <1>0, <2>1 DEF Poll!Loaded
  <2>3. /\ q \in DOMAIN closing' <=> q \in DOMAIN closing
        /\ q \in DOMAIN closing => closing'[q] = closing[q]
    BY <2>1, <2>2 DEF Poll!Without
  <2> QED
    BY <2>1, <2>2, <2>3, ShowsKept
<1>12. ASSUME Poll!Edited PROVE Shows(q)'
  <2>1. /\ edits # <<>> /\ edits' = Tail(edits)
        /\ shown' = [shown EXCEPT ![Head(edits).poll] = Head(edits).shows]
        /\ UNCHANGED <<file, closing, blurred>>
    BY <1>12 DEF Poll!Edited
  <2>2. Poll!Loaded' = Poll!Loaded /\ Shows(q)
    BY <1>0, <2>1 DEF Poll!Loaded
  <2>3. edits \in Seq(EditRecords) /\ Head(edits).poll \in DOMAIN shown
    BY <2>1, EditEnds DEF Poll!TypeOK, EditRecords, Settled
  <2>4. /\ q # Head(edits).poll => shown'[q] = shown[q]
        /\ q = Head(edits).poll => shown'[q] = Head(edits).shows
    <3>1. PICK first : first = Head(edits)
      OBVIOUS
    <3>2. shown' = [shown EXCEPT ![first.poll] = first.shows] /\ first.poll \in DOMAIN shown
      BY <2>1, <2>3, <3>1
    <3>3. q \in DOMAIN shown
      BY <1>0, <2>2 DEF Settled, Poll!TypeOK
    <3> QED
      BY <3>1, <3>2, <3>3
  <2>5. Showing(edits, shown, q, Poll!View(Poll!Loaded[q])) => Showing(edits', shown', q, Poll!View(Poll!Loaded[q]))
    BY <2>1, <2>3, <2>4, EditGone
  <2> QED
    BY <2>1, <2>2, <2>5, ShowsKept
<1>13. ASSUME Poll!EditFails PROVE Shows(q)'
  <2>1. /\ edits # <<>> /\ edits' = Tail(edits) /\ blurred' = blurred \cup {Head(edits).poll}
        /\ UNCHANGED <<file, closing, shown>>
    BY <1>13 DEF Poll!EditFails
  <2>2. Poll!Loaded' = Poll!Loaded /\ Shows(q) /\ q # Head(edits).poll
    BY <1>0, <2>1 DEF Poll!Loaded
  <2>3. edits \in Seq(EditRecords)
    BY DEF Poll!TypeOK, EditRecords
  <2>4. Showing(edits, shown, q, Poll!View(Poll!Loaded[q])) => Showing(edits', shown, q, Poll!View(Poll!Loaded[q]))
    BY <2>1, <2>2, <2>3, EditGone
  <2> QED
    BY <2>1, <2>2, <2>4, ShowsKept
<1>14. ASSUME NEW u \in Users, Poll!ForgetUser(u) PROVE Shows(q)'
  <2> DEFINE left == Poll!Anonymous(Poll!Loaded, u)
  <2>1. /\ Poll!Save(left) /\ blurred' = blurred \cup {p \in DOMAIN left : left[p] # Poll!Loaded[p]}
        /\ UNCHANGED <<closing, edits, shown>>
    BY <1>14 DEF Poll!ForgetUser
  <2>2. DOMAIN left \subseteq DOMAIN Poll!Loaded
    BY DEF Poll!Anonymous
  <2> HIDE DEF left
  <2>3. Poll!Loaded' = left
    BY <2>1, SavedIsLoaded
  <2>4. q \in DOMAIN Poll!Loaded \ blurred /\ left[q] = Poll!Loaded[q]
    BY <2>1, <2>2, <2>3
  <2> QED
    BY <1>0, <2>1, <2>3, <2>4, ShowsKept
<1>15. CASE Poll!Stop
  <2>1. /\ closing' = Poll!Nothing /\ edits' = <<>>
        /\ blurred' = blurred \cup DOMAIN closing \cup {edits[i].poll : i \in DOMAIN edits}
        /\ UNCHANGED <<file, shown>>
    BY <1>15 DEF Poll!Stop, Poll!Ended
  <2>2. /\ Poll!Loaded' = Poll!Loaded /\ Shows(q) /\ q \notin DOMAIN closing
        /\ \A i \in DOMAIN edits : edits[i].poll # q
    BY <1>0, <2>1 DEF Poll!Loaded
  <2>3. shown[q] = Poll!View(Poll!Loaded[q])
    BY <2>2 DEF Shows, Showing
  <2>4. DOMAIN edits' = {} /\ q \notin DOMAIN closing'
    BY <2>1 DEF Poll!Nothing
  <2>5. Showing(edits', shown, q, Poll!View(Poll!Loaded[q]))
    BY <2>3, <2>4 DEF Showing
  <2> QED
    BY <2>1, <2>2, <2>4, <2>5 DEF Shows
<1>16. CASE Poll!CrashInWrite
  <2>1. blurred' = Polls /\ DOMAIN Poll!Loaded' = {}
    BY <1>16 DEF Poll!CrashInWrite, Poll!Loaded, Poll!Nothing
  <2> QED
    BY <2>1
<1>17. ASSUME NEW u \in Users, Poll!ChangeConsent(u) PROVE Shows(q)'
  BY <1>1, <1>17 DEF Poll!ChangeConsent
<1>18. CASE Poll!Start
  BY <1>1, <1>18 DEF Poll!Start
<1>19. CASE UNCHANGED Poll!vars
  BY <1>1, <1>19 DEF Poll!vars
<1> QED
  BY <1>2, <1>3, <1>4, <1>5, <1>7, <1>8, <1>9, <1>10, <1>11, <1>12, <1>13, <1>14, <1>15, <1>16, <1>17,
     <1>18, <1>19 DEF Poll!Next

ShownInv == PlacesOK /\ ShowsOK

\* Both hold at the start.
LEMMA ShownStart == ASSUME Poll!Init PROVE ShownInv
<1>1. /\ DOMAIN Poll!Loaded = {} /\ DOMAIN closing = {} /\ DOMAIN drafts = {} /\ DOMAIN edits = {}
  BY DEF Poll!Init, Poll!Loaded, Poll!Nothing
<1> QED
  BY <1>1 DEF ShownInv, PlacesOK, ShowsOK

\* With no edit on its way it is the message that shows the votes.
LEMMA ShownWhenQuiet == ASSUME ShownInv PROVE Poll!ShownOnceQuiet
<1> SUFFICES ASSUME NEW p \in DOMAIN Poll!Loaded \ (blurred \cup DOMAIN closing),
                    \A i \in DOMAIN edits : edits[i].poll # p
             PROVE  shown[p] = Poll!View(Poll!Loaded[p])
  BY DEF Poll!ShownOnceQuiet
<1> QED
  BY DEF ShownInv, ShowsOK, Shows, Showing

\* The messages show the votes in every behaviour of the polls.
LEMMA PollsShown == ASSUME Poll!PollAssumption PROVE Poll!Spec => []Poll!ShownOnceQuiet
<1>1. Poll!Init => ShownInv
  BY ShownStart
<1>2. Poll!TypeOK /\ ShownInv /\ [Poll!Next]_(Poll!vars) => ShownInv'
  BY PlacesStep, ShowsStep DEF ShownInv
<1>3. Poll!Spec => []Poll!TypeOK
  BY PollsTyped
<1>4. ShownInv => Poll!ShownOnceQuiet
  BY ShownWhenQuiet
<1> QED
  BY <1>1, <1>2, <1>3, <1>4, PTL DEF Poll!Spec

-----------------------------------------------------------------------------
(* The polls beside the rest of what is kept of users.                     *)

\* Whatever component is exercised, the polls follow their specification.
LEMMA PollsFollow == DataSpec => Poll!Spec
<1>1. DataInit => Poll!Init
  BY DEF DataInit
<1>2. [DataNext]_dataVars => [Poll!Next]_(Poll!vars)
  <2>1. UNCHANGED pollVars => UNCHANGED Poll!vars
    BY DEF pollVars, Poll!vars
  <2> QED
    BY <2>1 DEF DataNext, dataVars
<1> QED
  BY <1>1, <1>2, PTL DEF DataSpec, Poll!Spec

(* The variables have their types, in every reachable state.               *)
THEOREM TypeCorrect == DataSpec => []PollTypeOK
<1>1. Poll!Spec => []Poll!TypeOK
  BY PersonalDataAssumption, PollsTyped
<1>2. Poll!TypeOK => PollTypeOK
  BY DEF PollTypeOK
<1> QED
  BY <1>1, <1>2, PollsFollow, PTL

(* While no creation writes over what it has not seen and no write is cut  *)
(* short, the file is what the users were told.                            *)
THEOREM WhatIsToldIsSaved == DataSpec => []ToldIsSaved
<1>1. Poll!Spec => []Poll!ToldIsSaved
  BY PersonalDataAssumption, PollsSaved
<1>2. Poll!ToldIsSaved => ToldIsSaved
  BY DEF ToldIsSaved
<1> QED
  BY <1>1, <1>2, PollsFollow, PTL

(* No user gets into the file but by their own consent or by an older      *)
(* state that a creation writes back.                                      *)
THEOREM NobodyNamedUnasked == DataSpec => NamedByConsent
<1>1. Poll!Spec => Poll!NamedByConsent
  BY PersonalDataAssumption, PollsName
<1> QED
  BY <1>1, PollsFollow, PTL DEF NamedByConsent

(* Once its edits are through, the message of a poll shows the tally of    *)
(* what data/polls.json says, whatever the creations, votes, closings,     *)
(* deletions and stops in between: the handlers save and queue the edit in *)
(* one turn, and Discord takes the edits in that order.                    *)
THEOREM MessagesShowVotes == DataSpec => []ShownOnceQuiet
<1>1. Poll!Spec => []Poll!ShownOnceQuiet
  BY PersonalDataAssumption, PollsShown
<1>2. Poll!ShownOnceQuiet => ShownOnceQuiet
  BY DEF ShownOnceQuiet
<1> QED
  BY <1>1, <1>2, PollsFollow, PTL

=============================================================================
