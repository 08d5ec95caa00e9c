------------------------------- MODULE Consent -------------------------------
(***************************************************************************)
(* Consent by reaction: users react on the bot's consent message, the      *)
(* gateway delivers the reactions, and ConsentService keeps one file that  *)
(* every privacy-gated feature asks through authorize.                     *)
(*                                                                         *)
(* Node runs one macrotask at a time and the repository works              *)
(* synchronously, so a handler is one step.  The only real gaps are the    *)
(* Discord requests: of the bootstrap, and of reconcile, which loads one   *)
(* snapshot and then awaits one fetch per emoji.  A fetch has two moments  *)
(* here: Discord answers, and the answer is used.                          *)
(***************************************************************************)
EXTENDS ConsentLedger, Sequences

CONSTANTS
  EmojiOrder,   \* Object.keys(config.emojiToScope)
  NoCache,      \* cache === null
  NoAnswer,     \* the fetch has not been answered yet
  MaxMessages,  \* bound: consent messages the bot ever creates
  MaxPolicy,    \* bound: values of CONSENT_POLICY_VERSION
  MaxToggles,   \* bound: reactions added or removed by users
  MaxStarts,    \* bound: starts of the process
  MaxFaults,    \* bound: failures (file system, Discord, gateway) and damage
  MaxQueue      \* bound: reaction events on their way to the process

ASSUME EmojiOrderAssumption ==
  /\ EmojiOrder \in Seq(Emojis) /\ Len(EmojiOrder) > 0
  /\ \A e \in Emojis : \E i \in 1..Len(EmojiOrder) : EmojiOrder[i] = e
ASSUME UsersAssumption == IsFiniteSet(Users)
ASSUME BoundsAssumption ==
  {MaxMessages, MaxPolicy, MaxToggles, MaxStarts, MaxFaults, MaxQueue} \subseteq Nat

VARIABLES
  reacted,   \* Discord: the reactions (user, emoji, message) in place
  made,      \* Discord: how many consent messages the bot has posted
  alive,     \* Discord: the ones nobody deleted
  queue,     \* gateway: reaction events not yet handled, in order
  disk,      \* data/consent.json: its kind and the rows it holds
  backup,    \* whether an .unrecognised-*.bak stands next to it
  phase,     \* of the process: see Phases
  target,    \* the message the bootstrap resolved; consentTargets once "up"
  repo,      \* repository: records, lastLoadExisted, lastLoadRecognised
  cache,     \* service: the snapshot cache
  rec,       \* reconcile: emoji in turn (0 when idle), snapshot, fetch answer
  policy,    \* CONSENT_POLICY_VERSION of this process
  events,    \* consent events emitted by the last step
  ever,      \* history: every reaction ever placed
  calm,      \* history: nothing failed or raced since the process started
  toggles, starts, faults   \* counters of the bounds

discord == <<reacted, made, alive, ever, toggles>>
store == <<disk, backup, repo, cache>>
boot == <<phase, target, policy, starts>>
vars == <<reacted, made, alive, queue, disk, backup, phase, target, repo, cache, rec,
          policy, events, ever, calm, toggles, starts, faults>>

Phases == {"down", "starting", "reacting", "up", "degraded"}
Running == phase # "down"

Event == [op : {"add", "remove"}, user : Users, emoji : Emojis, msg : Nat]
Missing == [kind |-> "missing", rows |-> {}]
FreshRepo == [rows |-> {}, existed |-> FALSE, recognised |-> TRUE]
Idle == [turn |-> 0, snapshot |-> {}, answer |-> NoAnswer]
Reconciling == rec.turn > 0
Emoji == EmojiOrder[rec.turn]
Reactors(e, m) == {u \in Users : <<u, e, m>> \in reacted}

Init ==
  /\ reacted = {} /\ made = 0 /\ alive = {} /\ queue = <<>>
  /\ disk = Missing /\ backup = FALSE
  /\ phase = "down" /\ target = 0
  /\ repo = FreshRepo /\ cache = NoCache /\ rec = Idle
  /\ policy = 1 /\ events = {} /\ ever = {} /\ calm = TRUE
  /\ toggles = 0 /\ starts = 0 /\ faults = 0

-----------------------------------------------------------------------------
(* The repository.                                                         *)

\* loadFromDisk: records, existed and recognised for a file of each kind.
Loaded(d) ==
  [rows       |-> IF d.kind = "ok" THEN d.rows ELSE {},
   existed    |-> d.kind # "missing",
   recognised |-> d.kind = "ok"]

\* loadAll through an empty cache.  A file that parses but fails the schema
\* ("alien") is renamed to a backup, if the rename works.
LoadFile ==
  /\ repo' = Loaded(disk)
  /\ \/ disk.kind = "alien" /\ disk' = Missing /\ backup' = TRUE
     \/ UNCHANGED <<disk, backup>>

LoadAll ==
  \/ cache = NoCache /\ LoadFile /\ cache' = Loaded(disk).rows
  \/ cache # NoCache /\ UNCHANGED store

\* Mutants of the repository: a lost invalidation, no refusal, no write.
InvalidateForgotten == UNCHANGED cache
NeverRefused(r) == FALSE

Invalidate == cache' = NoCache

Refused(r) == r.existed /\ ~r.recognised

PersistInMemory(next) ==
  /\ repo' = [rows |-> next, existed |-> TRUE, recognised |-> TRUE]
  /\ UNCHANGED <<disk, backup, faults>>

\* persist: a temporary file renamed over the old one, then the memory copy.
Persist(next) ==
  /\ ~Refused(repo)
  /\ disk' = [kind |-> "ok", rows |-> next]
  /\ repo' = [rows |-> next, existed |-> TRUE, recognised |-> TRUE]
  /\ UNCHANGED <<backup, faults>>

\* persist throws: nothing on disk or in memory changes.
PersistFails ==
  /\ \/ Refused(repo) /\ UNCHANGED faults
     \/ ~Refused(repo) /\ faults < MaxFaults /\ faults' = faults + 1
  /\ UNCHANGED store

-----------------------------------------------------------------------------
(* Discord and its users (not in src/: what the handlers rely on).         *)

Announce(op, u, e, m) ==
  IF Running
  THEN /\ Len(queue) < MaxQueue
       /\ queue' = Append(queue, [op |-> op, user |-> u, emoji |-> e, msg |-> m])
  ELSE UNCHANGED queue    \* events of a time the process is away never arrive

Toggled ==
  /\ toggles < MaxToggles /\ toggles' = toggles + 1
  /\ calm' = (calm /\ ~Reconciling)
  /\ events' = {}
  /\ UNCHANGED <<made, alive, faults, rec, store, boot>>

AddReaction(u, e, m) ==
  /\ m \in alive /\ <<u, e, m>> \notin reacted
  /\ reacted' = reacted \cup {<<u, e, m>>}
  /\ ever' = ever \cup {<<u, e, m>>}
  /\ Announce("add", u, e, m)
  /\ Toggled

RemoveReaction(u, e, m) ==
  /\ <<u, e, m>> \in reacted
  /\ reacted' = reacted \ {<<u, e, m>>}
  /\ UNCHANGED ever
  /\ Announce("remove", u, e, m)
  /\ Toggled

\* A moderator deletes a consent message, and its reactions with it.
DeleteMessage(m) ==
  /\ m \in alive
  /\ alive' = alive \ {m}
  /\ reacted' = {t \in reacted : t[3] # m}
  /\ calm' = (calm /\ ~Running) /\ events' = {}
  /\ UNCHANGED <<made, ever, toggles, queue, store, boot, rec, faults>>

\* The gateway session cannot be resumed: pending events are gone for good.
LoseEvents ==
  /\ queue # <<>> /\ faults < MaxFaults
  /\ queue' = <<>> /\ faults' = faults + 1
  /\ calm' = FALSE /\ events' = {}
  /\ UNCHANGED <<discord, store, boot, rec>>

-----------------------------------------------------------------------------
(* The process: start, bootstrap of the consent message, end.              *)

Start ==
  /\ phase = "down" /\ starts < MaxStarts /\ starts' = starts + 1
  /\ phase' = "starting" /\ calm' = TRUE
  /\ policy' \in {v \in {policy, policy + 1} : v <= MaxPolicy}
  /\ events' = {}
  /\ UNCHANGED <<discord, queue, store, target, rec, faults>>

\* Exit or crash: memory and undelivered events go, the file stays.
Stop ==
  /\ Running
  /\ phase' = "down" /\ target' = 0 /\ queue' = <<>>
  /\ repo' = FreshRepo /\ cache' = NoCache /\ rec' = Idle
  /\ events' = {}
  /\ UNCHANGED <<discord, disk, backup, policy, calm, starts, faults>>

\* While the process is away, the file is damaged or written by a version
\* with another schema.
DamageFile(kind) ==
  /\ phase = "down" /\ disk.kind = "ok" /\ faults < MaxFaults
  /\ disk' = [kind |-> kind, rows |-> {}]
  /\ faults' = faults + 1 /\ events' = {}
  /\ UNCHANGED <<discord, queue, backup, boot, repo, cache, rec, calm>>

\* ensureConsentMessage finds a message: CONSENT_MESSAGE_ID names any that
\* exists, the search returns the newest.
ResolveMessage(m) ==
  /\ phase = "starting" /\ m \in alive
  /\ phase' = "reacting" /\ target' = m /\ events' = {}
  /\ UNCHANGED <<discord, queue, store, policy, starts, rec, calm, faults>>

\* No managed message among the last 1000 of the channel: a new one is sent.
CreateMessage ==
  /\ phase = "starting" /\ made < MaxMessages
  /\ made' = made + 1 /\ alive' = alive \cup {made + 1}
  /\ phase' = "reacting" /\ target' = made + 1 /\ events' = {}
  /\ UNCHANGED <<reacted, ever, toggles, queue, store, policy, starts, rec, calm, faults>>

\* Any Discord request of the bootstrap fails, and always when the message
\* that CONSENT_MESSAGE_ID names, or the one chosen, is gone; consent stays
\* degraded, with no targets, until the next start.
BootstrapFails ==
  /\ phase \in {"starting", "reacting"}
  /\ \/ phase = "starting" /\ alive # 1..made /\ UNCHANGED faults
     \/ phase = "reacting" /\ target \notin alive /\ UNCHANGED faults
     \/ faults < MaxFaults /\ faults' = faults + 1
  /\ phase' = "degraded" /\ target' = 0 /\ events' = {}
  /\ UNCHANGED <<discord, queue, store, policy, starts, rec, calm>>

\* The bot has placed its own reactions: the targets are installed and
\* reconcile loads its snapshot in the same turn.
BootstrapDone ==
  /\ phase = "reacting" /\ target \in alive
  /\ phase' = "up" /\ LoadAll
  /\ rec' = [turn |-> 1, snapshot |-> cache', answer |-> NoAnswer]
  /\ events' = {}
  /\ UNCHANGED <<discord, queue, target, policy, starts, calm, faults>>

-----------------------------------------------------------------------------
(* reconcile.                                                              *)

\* Mutants: one emoji too many, the answer kept for the next emoji, the
\* written snapshot not carried over to it.
NextEmojiTooFar(snapshot) ==
  rec' = IF rec.turn <= Len(EmojiOrder)
         THEN [turn |-> rec.turn + 1, snapshot |-> snapshot, answer |-> NoAnswer]
         ELSE Idle

NextEmojiSameAnswer(snapshot) ==
  rec' = IF rec.turn < Len(EmojiOrder)
         THEN [turn |-> rec.turn + 1, snapshot |-> snapshot, answer |-> rec.answer]
         ELSE Idle

NextEmojiOldSnapshot(snapshot) ==
  rec' = IF rec.turn < Len(EmojiOrder)
         THEN [rec EXCEPT !.turn = @ + 1, !.answer = NoAnswer]
         ELSE Idle

\* The loop moves on to the next emoji, or ends; snapshot is kept for it.
NextEmoji(snapshot) ==
  rec' = IF rec.turn < Len(EmojiOrder)
         THEN [turn |-> rec.turn + 1, snapshot |-> snapshot, answer |-> NoAnswer]
         ELSE Idle

FetchAnswered ==
  /\ Reconciling /\ rec.answer = NoAnswer /\ target \in alive
  /\ rec' = [rec EXCEPT !.answer = Reactors(Emoji, target)]
  /\ events' = {}
  /\ UNCHANGED <<discord, queue, store, boot, calm, faults>>

FetchFails ==
  /\ Reconciling
  /\ \/ target \notin alive /\ rec.answer = NoAnswer /\ UNCHANGED faults
     \/ faults < MaxFaults /\ faults' = faults + 1
  /\ NextEmoji(rec.snapshot)
  /\ calm' = FALSE /\ events' = {}
  /\ UNCHANGED <<discord, queue, store, boot>>

\* The answer is used: the whole file is replaced by the rebuilt snapshot.
ReconcileEmoji ==
  LET next == Rebuilt(rec.snapshot, target, Emoji, rec.answer, policy)
  IN  /\ Reconciling /\ rec.answer # NoAnswer
      /\ Persist(next) /\ Invalidate
      /\ events' = {[kind |-> "grant", subjectId |-> p[1], scope |-> p[2]] :
                      p \in NewGrants(rec.snapshot, target, Emoji, rec.answer)}
              \cup {[kind |-> "revoke", subjectId |-> p[1], scope |-> p[2]] :
                      p \in NewRevokes(rec.snapshot, target, Emoji, rec.answer)}
      /\ NextEmoji(next)
      /\ UNCHANGED <<discord, queue, boot, calm>>

ReconcileSaveFails ==
  /\ Reconciling /\ rec.answer # NoAnswer
  /\ PersistFails
  /\ NextEmoji(rec.snapshot)
  /\ calm' = FALSE /\ events' = {}
  /\ UNCHANGED <<discord, queue, boot>>

-----------------------------------------------------------------------------
(* The reaction handler and the commands.                                  *)

Deliver == Running /\ queue # <<>> /\ queue' = Tail(queue)
Matches(ev) == phase = "up" /\ ev.msg = target
Heard == UNCHANGED <<discord, boot, rec>>

\* Not a reaction on the consent target, or the targets are still empty.
IgnoreReaction ==
  /\ Deliver /\ ~Matches(Head(queue)) /\ Heard
  /\ events' = {} /\ UNCHANGED <<store, calm, faults>>

OnAdd ==
  LET ev  == Head(queue)
      row == ActiveRow(ev.user, ev.emoji, ev.msg, policy)
  IN  /\ Deliver /\ Matches(ev) /\ ev.op = "add" /\ Heard
      /\ Persist(Upserted(repo.rows, row)) /\ Invalidate
      /\ events' = {[kind |-> "grant", subjectId |-> ev.user, scope |-> row.scope]}
      /\ UNCHANGED calm

OnRemove ==
  LET ev == Head(queue)
      s  == EmojiScope[ev.emoji]
  IN  /\ Deliver /\ Matches(ev) /\ ev.op = "remove" /\ Heard
      /\ HasRow(repo.rows, ev.user, s)
      /\ Persist(Removed(repo.rows, ev.user, s)) /\ Invalidate
      /\ events' = {[kind |-> "revoke", subjectId |-> ev.user, scope |-> s]}
      /\ UNCHANGED calm

\* remove() finds no row: no write, no invalidation, no event.
OnRemoveAbsent ==
  LET ev == Head(queue)
  IN  /\ Deliver /\ Matches(ev) /\ ev.op = "remove" /\ Heard
      /\ ~HasRow(repo.rows, ev.user, EmojiScope[ev.emoji])
      /\ events' = {} /\ UNCHANGED <<store, calm, faults>>

\* grant or revoke throws; the handler logs and forgets the reaction.
HandlerFails ==
  LET ev == Head(queue)
  IN  /\ Deliver /\ Matches(ev) /\ Heard
      /\ ev.op = "add" \/ HasRow(repo.rows, ev.user, EmojiScope[ev.emoji])
      /\ PersistFails
      /\ calm' = FALSE /\ events' = {}

\* A privacy-gated feature asks authorize, or /privacy status asks list: the
\* only state they change is the cache they fill.
Authorize ==
  /\ Running /\ cache = NoCache /\ LoadAll /\ events' = {}
  /\ UNCHANGED <<discord, queue, boot, rec, calm, faults>>

\* The consent step of /privacy delete, for a subject with active rows: the
\* rows are read through the cache, the removals work on the repository's
\* records.  Each removal may fail on its own; done[s] counts the ones of
\* scope s that did not.  (Without active rows clear only fills the cache.)
Clear(u) ==
  LET view == IF cache = NoCache THEN Loaded(disk) ELSE repo
      rows == IF cache = NoCache THEN view.rows ELSE cache
      due  == [s \in Scopes |-> Cardinality(ActiveOf(rows, u, s))]
  IN  /\ Running /\ \E s \in Scopes : due[s] > 0
      /\ \E done \in [Scopes -> 0..Cardinality(rows)] :
           /\ \A s \in Scopes : done[s] <= due[s]
           /\ \/ done = due /\ UNCHANGED faults
              \/ done # due /\ faults < MaxFaults /\ faults' = faults + 1
           /\ IF \E s \in Scopes : done[s] > 0
              THEN /\ repo' = [rows |-> Cleared(view.rows, u, done),
                               existed |-> TRUE, recognised |-> TRUE]
                   /\ disk' = [kind |-> "ok", rows |-> repo'.rows]
                   /\ Invalidate
                   /\ events' = {[kind |-> "clear", subjectId |-> u]}
              ELSE repo' = view /\ cache' = rows /\ events' = {} /\ UNCHANGED disk
      /\ calm' = FALSE
      /\ UNCHANGED <<discord, queue, backup, boot, rec>>

-----------------------------------------------------------------------------
UserStep == \E u \in Users, e \in Emojis, m \in 1..MaxMessages :
              AddReaction(u, e, m) \/ RemoveReaction(u, e, m)

Next ==
  \/ UserStep
  \/ \E m \in 1..MaxMessages : DeleteMessage(m) \/ ResolveMessage(m)
  \/ LoseEvents \/ Start \/ Stop
  \/ \E kind \in {"corrupt", "alien"} : DamageFile(kind)
  \/ CreateMessage \/ BootstrapFails \/ BootstrapDone
  \/ FetchAnswered \/ FetchFails \/ ReconcileEmoji \/ ReconcileSaveFails
  \/ IgnoreReaction \/ OnAdd \/ OnRemove \/ OnRemoveAbsent \/ HandlerFails
  \/ Authorize
  \/ \E u \in Users : Clear(u)

Spec == Init /\ [][Next]_vars

-----------------------------------------------------------------------------
(* Properties.                                                             *)

\* Every variable has its type, and every copy of the ledger, on disk, in
\* the repository, in the cache and in reconcile, is one an array can be:
\* rewriting files and splicing rows never puts two rows in one place.
TypeOK ==
  /\ reacted \subseteq Users \X Emojis \X Nat
  /\ ever \subseteq Users \X Emojis \X Nat
  /\ made \in Nat /\ alive \subseteq Nat
  /\ queue \in Seq(Event)
  /\ disk \in [kind : {"missing", "ok", "corrupt", "alien"}, rows : SUBSET Row]
  /\ backup \in BOOLEAN
  /\ phase \in Phases /\ target \in Nat
  /\ repo \in [rows : SUBSET Row, existed : BOOLEAN, recognised : BOOLEAN]
  /\ cache \in (SUBSET Row) \cup {NoCache}
  /\ rec \in [turn : 0..Len(EmojiOrder), snapshot : SUBSET Row,
              answer : (SUBSET Users) \cup {NoAnswer}]
  /\ policy \in Nat /\ calm \in BOOLEAN
  /\ {toggles, starts, faults} \subseteq Nat
  /\ WellFormed(disk.rows) /\ WellFormed(repo.rows) /\ WellFormed(rec.snapshot)
  /\ cache # NoCache => WellFormed(cache)

\* What authorize reads is what the file says: a snapshot in the cache never
\* outlives a write, and while reactions are handled the repository's
\* records, from which the next file is made, are the file's.
CacheCoherent ==
  /\ cache # NoCache => cache = Loaded(disk).rows
  /\ phase = "up" => repo.rows = Loaded(disk).rows

\* Nobody is ever authorized for a reaction they did not place: every active
\* row, on disk or in any copy, names a user, an emoji and a message on
\* which that user has put that emoji, whatever raced, failed or restarted.
Earned(rows) == ActiveSources(rows) \subseteq ever

GrantProvenance ==
  /\ Earned(disk.rows) /\ Earned(repo.rows) /\ Earned(rec.snapshot)
  /\ cache # NoCache => Earned(cache)

\* With a single consent message ever, one emoji per scope, no failure, no
\* /privacy delete and no reaction during the pass, reconcile and the
\* handler together keep the file equal to Discord: once no event is
\* pending, the active rows are the reactions in place, after any restart.
InSync ==
  /\ phase = "up" /\ ~Reconciling /\ queue = <<>> /\ calm
  /\ made = 1 /\ Cardinality(Scopes) = Cardinality(Emojis)
  => ActiveSources(disk.rows) = reacted

\* The bytes of a file the program could not read are never written over by
\* it: they stay in place or, for a schema mismatch, move to the backup.
UnrecognisedPreserved ==
  [][disk.kind \in {"corrupt", "alien"} =>
       \/ disk'.kind = disk.kind
       \/ disk.kind = "alien" /\ disk' = Missing /\ backup']_vars

\* A reaction, or the deletion of one subject, never changes the rows of
\* another: between starts only reconcile may do that.
RowsOf(rows, u) == {r \in rows : r.subjectId = u}

OthersUntouched ==
  [][\A u \in Users :
       (\/ queue # <<>> /\ queue' = Tail(queue) /\ Running' /\ Head(queue).user # u
        \/ \E ev \in events' : ev.kind = "clear" /\ ev.subjectId # u)
       => RowsOf(Loaded(disk)'.rows, u) = RowsOf(Loaded(disk).rows, u)]_vars

\* A grant is announced only once the file holds it: every grant event of a
\* step names an active row of the file after the step.
GrantsDurable ==
  [][\A ev \in events' :
       ev.kind = "grant" => ActiveOf(disk'.rows, ev.subjectId, ev.scope) # {}]_vars

\* Claimed at the top of clear ("Remove every grant for `subjectId`"): a
\* clear that reports no failure leaves no active row of the subject.
ClearComplete ==
  [][\A ev \in events' : (ev.kind = "clear" /\ faults' = faults)
       => \A r \in disk'.rows : r.subjectId = ev.subjectId => ~r.active]_vars

\* Claimed by docs/privacy.md ("removing the reaction stops future
\* collection"): with nothing failed since the first start, nothing pending
\* and no pass running, a user who has no reaction on the consent message
\* for a scope is not authorized for it.
RemovalStops ==
  /\ phase = "up" /\ target \in alive /\ ~Reconciling /\ queue = <<>> /\ faults = 0
  => \A u \in Users, s \in Scopes :
       (\A e \in Emojis : EmojiScope[e] = s => <<u, e, target>> \notin reacted)
       => Decision(Loaded(disk).rows, u, s, policy) # "ok"
=============================================================================
