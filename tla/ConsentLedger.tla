---------------------------- MODULE ConsentLedger ----------------------------
(***************************************************************************)
(* The rows of data/consent.json and what ConsentService and the JSON      *)
(* repository compute from them: upsert, remove, the removals of clear,    *)
(* the rebuild of one emoji by reconcile, and the authorization decision.  *)
(*                                                                         *)
(* The code keeps an array.  Two rows of different (subjectId, scope) are  *)
(* never compared by position, while find and findIndex take the first of  *)
(* the rows with one (subjectId, scope).  So the array is a set of rows    *)
(* that carry `pos', their rank among the rows of the same key: the first  *)
(* match is the row with the least pos, push gives the largest one, and    *)
(* splice closes the gap.                                                  *)
(***************************************************************************)
EXTENDS Naturals, FiniteSets

CONSTANTS
  Users,        \* Discord users; bots are dropped by the handler and the fetcher
  Emojis,       \* the keys of config.emojiToScope
  EmojiScope    \* emojiToScope: the scope each emoji grants

Scopes == {EmojiScope[e] : e \in Emojis}

(* ConsentRecord.  grantedAt and revokedAt keep only whether the row is    *)
(* active; guild and channel of the source are fixed by the configuration. *)
Row == [subjectId : Users, scope : Scopes, policyVersion : Nat,
        active : BOOLEAN, msg : Nat, emoji : Emojis, pos : Nat]

ActiveRow(u, e, m, v) ==
  [subjectId |-> u, scope |-> EmojiScope[e], policyVersion |-> v,
   active |-> TRUE, msg |-> m, emoji |-> e, pos |-> 0]

SameKey(r, q) == r.subjectId = q.subjectId /\ r.scope = q.scope

\* What is left of an array after a splice or a filter, ranked again.
Renumbered(rows) ==
  {[r EXCEPT !.pos = Cardinality({q \in rows : SameKey(q, r) /\ q.pos < r.pos})] : r \in rows}

\* [...front, ...back]
Concat(front, back) ==
  Renumbered(front) \cup
  {[r EXCEPT !.pos = @ + Cardinality({q \in front : SameKey(q, r)})] : r \in Renumbered(back)}

\* upsert: the first row of the key is overwritten, whatever its revokedAt;
\* without one the row is pushed.  Either way it is the first of its key.
Upserted(rows, row) ==
  {q \in rows : ~(SameKey(q, row) /\ q.pos = 0)} \cup {[row EXCEPT !.pos = 0]}

HasRow(rows, u, s) == \E r \in rows : r.subjectId = u /\ r.scope = s

\* Mutant: the first row of the scope, whoever it belongs to.
RemovedByScope(rows, u, s) ==
  Renumbered({r \in rows : ~(r.scope = s /\ r.pos = 0)})

\* remove: the first row of the key is spliced out, whatever its revokedAt.
Removed(rows, u, s) ==
  Renumbered({r \in rows : ~(r.subjectId = u /\ r.scope = s /\ r.pos = 0)})

ActiveOf(rows, u, s) ==
  {r \in rows : r.subjectId = u /\ r.scope = s /\ r.active}

\* clear: one remove for each active row of the subject.  k[s] counts the
\* ones that succeed for scope s; each takes the row that is first by then.
Cleared(rows, u, k) ==
  Renumbered({r \in rows : ~(r.subjectId = u /\ r.pos < k[r.scope])})

\* The body of reconcile for one (message, emoji) target, from the snapshot
\* to nextSnapshot: every row of that source is dropped, and newRecords are
\* appended: the last active row of each reactor as it was, a fresh row for
\* a reactor without one, a tombstone for each active row of a non-reactor.
Rebuilt(rows, m, e, reactors, v) ==
  LET source   == {r \in rows : r.msg = m /\ r.emoji = e}
      active   == {r \in source : r.active}
      existing == {r \in active : r.subjectId \in reactors
                     /\ \A q \in active : q.subjectId = r.subjectId => q.pos <= r.pos}
      fresh    == {ActiveRow(u, e, m, v) :
                     u \in {w \in reactors : \A r \in active : r.subjectId # w}}
      revoked  == {[r EXCEPT !.active = FALSE] : r \in {q \in active : q.subjectId \notin reactors}}
  IN  Concat(rows \ source, existing \cup fresh \cup revoked)

\* appliedGrants and appliedRevokes of that target, as (subject, scope) pairs.
NewGrants(rows, m, e, reactors) ==
  {<<u, EmojiScope[e]>> : u \in {w \in reactors :
     \A r \in rows : ~(r.msg = m /\ r.emoji = e /\ r.active /\ r.subjectId = w)}}

NewRevokes(rows, m, e, reactors) ==
  {<<r.subjectId, r.scope>> : r \in {q \in rows :
     q.msg = m /\ q.emoji = e /\ q.active /\ q.subjectId \notin reactors}}

\* authorize: the first active row of the key decides, and only that row.
Decision(rows, u, s, v) ==
  IF ActiveOf(rows, u, s) = {} THEN "no-grant"
  ELSE IF \E r \in ActiveOf(rows, u, s) :
            /\ r.policyVersion = v
            /\ \A q \in ActiveOf(rows, u, s) : r.pos <= q.pos
  THEN "ok" ELSE "wrong-policy"
-----------------------------------------------------------------------------
\* The reactions the active rows stand for.
ActiveSources(rows) == {<<r.subjectId, r.emoji, r.msg>> : r \in {q \in rows : q.active}}

\* A copy of the ledger is finitely many rows, and those of one key are
\* ranked without a tie, as an array ranks them.
WellFormed(rows) ==
  /\ IsFiniteSet(rows)
  /\ \A r, q \in rows : SameKey(r, q) /\ r.pos = q.pos => r = q
=============================================================================
