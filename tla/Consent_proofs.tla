--------------------------- MODULE Consent_proofs ---------------------------
(***************************************************************************)
(* Proofs about Consent: what is read through the cache is what the file   *)
(* says, nobody is authorized for a reaction they did not place, a file    *)
(* that could not be read is kept, a grant is written before it is         *)
(* announced, nobody's reaction changes the rows of another, and with one  *)
(* consent message the file follows Discord.                               *)
(***************************************************************************)
EXTENDS Consent, FiniteSetTheorems, TLAPS

-----------------------------------------------------------------------------
(* The ledger operators take well-formed rows to well-formed rows, and     *)
(* make no row active that was not.                                        *)

Lower(rows, r) == {q \in rows : SameKey(q, r) /\ q.pos < r.pos}
Ranked(r, rows) == [r EXCEPT !.pos = Cardinality(Lower(rows, r))]

\* A subset of well-formed rows, as a filter leaves it, is well formed.
LEMMA FilterWellFormed ==
  ASSUME NEW rows \in SUBSET Row, WellFormed(rows), NEW S \in SUBSET rows
  PROVE  S \in SUBSET Row /\ WellFormed(S)
<1>1. IsFiniteSet(S)
  BY FS_Subset DEF WellFormed
<1> QED
  BY <1>1 DEF WellFormed

\* The rank is a natural number, and every row below another ranks lower.
LEMMA LowerRank ==
  ASSUME NEW rows \in SUBSET Row, WellFormed(rows)
  PROVE  /\ \A r \in rows : Cardinality(Lower(rows, r)) \in Nat
         /\ \A r, q \in rows : SameKey(q, r) /\ q.pos < r.pos
              => Cardinality(Lower(rows, q)) < Cardinality(Lower(rows, r))
<1>1. \A r \in rows : IsFiniteSet(Lower(rows, r))
  BY FS_Subset DEF WellFormed, Lower
<1>2. \A r \in rows : Cardinality(Lower(rows, r)) \in Nat
  BY <1>1, FS_CardinalityType
<1>3. ASSUME NEW r \in rows, NEW q \in rows, SameKey(q, r), q.pos < r.pos
      PROVE  Cardinality(Lower(rows, q)) < Cardinality(Lower(rows, r))
  <2>1. q \in Lower(rows, r) /\ q \notin Lower(rows, q)
    BY <1>3 DEF Lower, Row
  <2>2. Lower(rows, q) \subseteq Lower(rows, r)
    <3> SUFFICES ASSUME NEW p \in Lower(rows, q) PROVE p \in Lower(rows, r)
      OBVIOUS
    <3>1. p \in rows /\ SameKey(p, q) /\ p.pos < q.pos
      BY DEF Lower
    <3>2. p.pos \in Nat /\ q.pos \in Nat /\ r.pos \in Nat
      BY <3>1 DEF Row
    <3> QED
      BY <1>3, <3>1, <3>2 DEF Lower, SameKey
  <2>3. Lower(rows, q) \in SUBSET Lower(rows, r) /\ Lower(rows, q) # Lower(rows, r)
    BY <2>1, <2>2
  <2>4. IsFiniteSet(Lower(rows, r))
    BY <1>1
  <2>5. Cardinality(Lower(rows, q)) <= Cardinality(Lower(rows, r))
        /\ Cardinality(Lower(rows, q)) # Cardinality(Lower(rows, r))
    BY <2>3, <2>4, FS_Subset
  <2> QED
    BY <1>2, <2>5
<1> QED
  BY <1>2, <1>3

\* Ranking rows again keeps them well formed and changes nothing but ranks.
LEMMA RenumberedWellFormed ==
  ASSUME NEW rows \in SUBSET Row, WellFormed(rows)
  PROVE  /\ Renumbered(rows) \in SUBSET Row
         /\ WellFormed(Renumbered(rows))
         /\ \A x \in Renumbered(rows) : \E r \in rows :
              x = Ranked(r, rows)
<1>1. Renumbered(rows) = {Ranked(r, rows) : r \in rows}
  BY DEF Renumbered, Ranked, Lower
<1>2. \A r \in rows : Ranked(r, rows) \in Row
  BY LowerRank DEF Ranked, Row
<1>3. IsFiniteSet(Renumbered(rows))
  <2>1. IsFiniteSet(rows)
    BY DEF WellFormed
  <2> DEFINE f == [r \in rows |-> Ranked(r, rows)]
  <2>2. f \in Surjection(rows, Renumbered(rows))
    BY <1>1 DEF Surjection
  <2> HIDE DEF f
  <2> QED
    BY <2>1, <2>2, FS_Surjection
<1>4. ASSUME NEW r \in rows, NEW q \in rows,
             SameKey(Ranked(r, rows), Ranked(q, rows)),
             Ranked(r, rows).pos = Ranked(q, rows).pos
      PROVE  r = q
  <2>1. SameKey(r, q) /\ SameKey(q, r)
    BY <1>4 DEF SameKey, Ranked, Row
  <2>2. Cardinality(Lower(rows, r)) = Cardinality(Lower(rows, q))
    BY <1>4 DEF Ranked, Row
  <2>3. r.pos \in Nat /\ q.pos \in Nat
    BY DEF Row
  <2>4. ~(r.pos < q.pos) /\ ~(q.pos < r.pos)
    BY <2>1, <2>2, LowerRank
  <2> QED
    BY <2>1, <2>3, <2>4 DEF WellFormed
<1> QED
  BY <1>1, <1>2, <1>3, <1>4 DEF WellFormed

\* A splice or a filter followed by re-ranking makes no reaction active that
\* was not active before.
LEMMA RenumberedSources ==
  ASSUME NEW rows \in SUBSET Row, WellFormed(rows)
  PROVE  ActiveSources(Renumbered(rows)) \subseteq ActiveSources(rows)
<1>1. ASSUME NEW x \in Renumbered(rows), x.active
      PROVE  <<x.subjectId, x.emoji, x.msg>> \in ActiveSources(rows)
  <2>1. PICK r \in rows : x = Ranked(r, rows)
    BY RenumberedWellFormed
  <2>2. x.subjectId = r.subjectId /\ x.emoji = r.emoji /\ x.msg = r.msg /\ x.active = r.active
    BY <2>1 DEF Ranked, Row
  <2> QED
    BY <1>1, <2>2 DEF ActiveSources
<1> QED
  BY <1>1 DEF ActiveSources

-----------------------------------------------------------------------------
(* Concatenation: the rows behind rank above those of their key in front.  *)

Same(front, r) == {q \in front : SameKey(q, r)}
Shifted(r, front) == [r EXCEPT !.pos = @ + Cardinality(Same(front, r))]

\* A row of the front part of a concatenation ranks below the number of rows
\* of its key there, so below every shifted row of that key.
LEMMA FrontRank ==
  ASSUME NEW rows \in SUBSET Row, WellFormed(rows), NEW x \in Renumbered(rows), NEW y \in Row,
         SameKey(x, y)
  PROVE  /\ Cardinality(Same(rows, y)) \in Nat
         /\ x.pos < Cardinality(Same(rows, y))
<1>1. PICK r \in rows : x = Ranked(r, rows)
  BY RenumberedWellFormed
<1>2. x.pos = Cardinality(Lower(rows, r)) /\ SameKey(r, y)
  BY <1>1 DEF Ranked, Row, SameKey
<1>3. r \in Same(rows, y) /\ r \notin Lower(rows, r)
  BY <1>2 DEF Same, Lower, Row
<1>4. Lower(rows, r) \in SUBSET Same(rows, y) /\ Lower(rows, r) # Same(rows, y)
  BY <1>2, <1>3 DEF Same, Lower, SameKey
<1>5. IsFiniteSet(Same(rows, y))
  BY FS_Subset DEF WellFormed, Same
<1>6. Cardinality(Same(rows, y)) \in Nat
  BY <1>5, FS_CardinalityType
<1>7. Cardinality(Lower(rows, r)) <= Cardinality(Same(rows, y))
      /\ Cardinality(Lower(rows, r)) # Cardinality(Same(rows, y))
  BY <1>4, <1>5, FS_Subset
<1>8. Cardinality(Lower(rows, r)) \in Nat
  BY LowerRank
<1> QED
  BY <1>2, <1>6, <1>7, <1>8

\* [...front, ...back] is well formed, and its active reactions are those of
\* the two parts.
LEMMA ConcatWellFormed ==
  ASSUME NEW front \in SUBSET Row, WellFormed(front), NEW back \in SUBSET Row, WellFormed(back)
  PROVE  /\ Concat(front, back) \in SUBSET Row
         /\ WellFormed(Concat(front, back))
         /\ ActiveSources(Concat(front, back)) \subseteq ActiveSources(front) \cup ActiveSources(back)
<1> DEFINE F == Renumbered(front)
           B == Renumbered(back)
           T == {Shifted(r, front) : r \in B}
<1>1. Concat(front, back) = F \cup T
  BY DEF Concat, Shifted, Same
<1>2. F \in SUBSET Row /\ WellFormed(F) /\ B \in SUBSET Row /\ WellFormed(B)
  BY RenumberedWellFormed
<1>3. ASSUME NEW r \in B
      PROVE  /\ Cardinality(Same(front, r)) \in Nat
             /\ Shifted(r, front) \in Row
             /\ Shifted(r, front) = [r EXCEPT !.pos = r.pos + Cardinality(Same(front, r))]
             /\ Shifted(r, front).pos = r.pos + Cardinality(Same(front, r))
             /\ SameKey(Shifted(r, front), r)
             /\ Shifted(r, front).active = r.active
             /\ Shifted(r, front).subjectId = r.subjectId
             /\ Shifted(r, front).emoji = r.emoji
             /\ Shifted(r, front).msg = r.msg
  <2>1. IsFiniteSet(Same(front, r))
    BY FS_Subset DEF WellFormed, Same
  <2>2. Cardinality(Same(front, r)) \in Nat
    BY <2>1, FS_CardinalityType
  <2>3. r \in Row
    BY <1>2
  <2> QED
    BY <2>2, <2>3 DEF Shifted, Row, SameKey
<1>4. T \in SUBSET Row
  BY <1>3
<1>5. IsFiniteSet(F \cup T)
  <2> DEFINE f == [r \in B |-> Shifted(r, front)]
  <2>1. f \in Surjection(B, T)
    BY DEF Surjection
  <2>2. IsFiniteSet(B) /\ IsFiniteSet(F)
    BY <1>2 DEF WellFormed
  <2> HIDE DEF f, T, F, B
  <2>3. IsFiniteSet(T)
    BY <2>1, <2>2, FS_Surjection
  <2> QED
    BY <2>2, <2>3, FS_Union
<1>6. ASSUME NEW x \in F, NEW y \in T PROVE ~(SameKey(x, y) /\ x.pos = y.pos)
  <2>1. PICK r \in B : y = Shifted(r, front)
    OBVIOUS
  <2>2. r \in Row /\ x \in Row
    BY <1>2
  <2>3. CASE SameKey(x, y)
    <3>1. SameKey(x, r)
      BY <1>3, <2>1, <2>3 DEF SameKey
    <3>2. x.pos < Cardinality(Same(front, r))
      BY <2>2, <3>1, FrontRank
    <3>3. y.pos = r.pos + Cardinality(Same(front, r)) /\ Cardinality(Same(front, r)) \in Nat
      BY <1>3, <2>1
    <3>4. r.pos \in Nat /\ x.pos \in Nat
      BY <2>2 DEF Row
    <3> QED
      BY <3>2, <3>3, <3>4
  <2> QED
    BY <2>3
<1>7. ASSUME NEW x \in T, NEW y \in T, SameKey(x, y), x.pos = y.pos PROVE x = y
  <2>1. PICK r \in B : x = Shifted(r, front)
    OBVIOUS
  <2>2. PICK q \in B : y = Shifted(q, front)
    OBVIOUS
  <2>3. SameKey(r, q)
    BY <1>3, <1>7, <2>1, <2>2 DEF SameKey
  <2>4. Same(front, r) = Same(front, q)
    BY <2>3 DEF Same, SameKey
  <2>5. r.pos + Cardinality(Same(front, r)) = q.pos + Cardinality(Same(front, r))
    BY <1>3, <1>7, <2>1, <2>2, <2>4
  <2>6. r.pos \in Nat /\ q.pos \in Nat /\ Cardinality(Same(front, r)) \in Nat
    BY <1>2, <1>3 DEF Row
  <2>7. r.pos = q.pos
    BY <2>5, <2>6
  <2>8. r = q
    BY <1>2, <2>3, <2>7 DEF WellFormed
  <2> QED
    BY <2>1, <2>2, <2>8
<1>8. WellFormed(F \cup T)
  <2>1. ASSUME NEW x \in F \cup T, NEW y \in F \cup T, SameKey(x, y), x.pos = y.pos PROVE x = y
    <3>1. CASE x \in F /\ y \in F
      BY <1>2, <2>1, <3>1 DEF WellFormed
    <3>2. CASE x \in F /\ y \in T
      BY <1>6, <2>1, <3>2
    <3>3. CASE x \in T /\ y \in F
      BY <1>6, <2>1, <3>3 DEF SameKey
    <3>4. CASE x \in T /\ y \in T
      BY <1>7, <2>1, <3>4
    <3> QED
      BY <3>1, <3>2, <3>3, <3>4
  <2> HIDE DEF F, T
  <2> QED
    BY <1>5, <2>1 DEF WellFormed
<1>9. ActiveSources(F \cup T) \subseteq ActiveSources(front) \cup ActiveSources(back)
  <2>1. ActiveSources(F) \subseteq ActiveSources(front) /\ ActiveSources(B) \subseteq ActiveSources(back)
    BY RenumberedSources
  <2>2. ASSUME NEW x \in T, x.active PROVE <<x.subjectId, x.emoji, x.msg>> \in ActiveSources(B)
    <3>1. PICK r \in B : x = Shifted(r, front)
      OBVIOUS
    <3> QED
      BY <1>3, <2>2, <3>1 DEF ActiveSources
  <2>3. ActiveSources(F \cup T) \subseteq ActiveSources(F) \cup ActiveSources(B)
    <3> HIDE DEF F, T, B
    <3> QED
      BY <2>2 DEF ActiveSources
  <2> QED
    BY <2>1, <2>3
<1> HIDE DEF F, T, B
<1> QED
  BY <1>1, <1>2, <1>4, <1>8, <1>9

-----------------------------------------------------------------------------
(* The operations of the repository and the service.                       *)

\* The row grant() builds is a row, of a scope the configuration knows.
LEMMA ActiveRowType ==
  ASSUME NEW u \in Users, NEW e \in Emojis, NEW m \in Nat, NEW v \in Nat
  PROVE  ActiveRow(u, e, m, v) \in Row /\ EmojiScope[e] \in Scopes
BY DEF ActiveRow, Row, Scopes

\* upsert keeps the ledger well formed and makes at most its own row active.
LEMMA UpsertedWellFormed ==
  ASSUME NEW rows \in SUBSET Row, WellFormed(rows), NEW row \in Row
  PROVE  /\ Upserted(rows, row) \in SUBSET Row
         /\ WellFormed(Upserted(rows, row))
         /\ ActiveSources(Upserted(rows, row)) \subseteq
              ActiveSources(rows) \cup {<<row.subjectId, row.emoji, row.msg>>}
<1> DEFINE kept == {q \in rows : ~(SameKey(q, row) /\ q.pos = 0)}
           first == [row EXCEPT !.pos = 0]
<1>1. Upserted(rows, row) = kept \cup {first}
  BY DEF Upserted
<1>2. kept \in SUBSET Row /\ WellFormed(kept)
  BY FilterWellFormed
<1>3. /\ first \in Row /\ first.pos = 0 /\ first.active = row.active
      /\ first.subjectId = row.subjectId /\ first.scope = row.scope
      /\ first.emoji = row.emoji /\ first.msg = row.msg
  BY DEF Row
<1>4. IsFiniteSet(kept \cup {first})
  BY <1>2, FS_AddElement DEF WellFormed
<1>5. \A q \in kept : ~(SameKey(q, first) /\ q.pos = first.pos)
  BY <1>3 DEF SameKey
<1>6. ActiveSources(kept \cup {first}) \subseteq
        ActiveSources(rows) \cup {<<row.subjectId, row.emoji, row.msg>>}
  BY <1>3 DEF ActiveSources
<1> HIDE DEF first
<1>7. WellFormed(kept \cup {first})
  BY <1>2, <1>4, <1>5 DEF WellFormed, SameKey
<1> QED
  BY <1>1, <1>2, <1>3, <1>6, <1>7

\* Fewer rows stand for no other reaction.
LEMMA FilterSources ==
  ASSUME NEW rows, NEW S \in SUBSET rows
  PROVE  ActiveSources(S) \subseteq ActiveSources(rows)
BY DEF ActiveSources

\* remove keeps the ledger well formed and makes no reaction active.
LEMMA RemovedWellFormed ==
  ASSUME NEW rows \in SUBSET Row, WellFormed(rows), NEW u, NEW s
  PROVE  /\ Removed(rows, u, s) \in SUBSET Row
         /\ WellFormed(Removed(rows, u, s))
         /\ ActiveSources(Removed(rows, u, s)) \subseteq ActiveSources(rows)
<1> DEFINE S == {r \in rows : ~(r.subjectId = u /\ r.scope = s /\ r.pos = 0)}
<1>1. S \in SUBSET Row /\ WellFormed(S) /\ S \in SUBSET rows
  BY FilterWellFormed
<1>2. Removed(rows, u, s) = Renumbered(S)
  BY DEF Removed
<1> HIDE DEF S
<1> QED
  BY <1>1, <1>2, RenumberedWellFormed, RenumberedSources, FilterSources

\* The removals of clear keep the ledger well formed and make no reaction
\* active, whichever of them fail.
LEMMA ClearedWellFormed ==
  ASSUME NEW rows \in SUBSET Row, WellFormed(rows), NEW u, NEW k
  PROVE  /\ Cleared(rows, u, k) \in SUBSET Row
         /\ WellFormed(Cleared(rows, u, k))
         /\ ActiveSources(Cleared(rows, u, k)) \subseteq ActiveSources(rows)
<1> DEFINE S == {r \in rows : ~(r.subjectId = u /\ r.pos < k[r.scope])}
<1>1. S \in SUBSET Row /\ WellFormed(S) /\ S \in SUBSET rows
  BY FilterWellFormed
<1>2. Cleared(rows, u, k) = Renumbered(S)
  BY DEF Cleared
<1> HIDE DEF S
<1> QED
  BY <1>1, <1>2, RenumberedWellFormed, RenumberedSources, FilterSources

\* What reconcile drops, and the three kinds of rows it appends.
Source(rows, m, e) == {r \in rows : r.msg = m /\ r.emoji = e}
ActiveIn(rows, m, e) == {r \in Source(rows, m, e) : r.active}
Existing(rows, m, e, reactors) ==
  {r \in ActiveIn(rows, m, e) : r.subjectId \in reactors
     /\ \A q \in ActiveIn(rows, m, e) : q.subjectId = r.subjectId => q.pos <= r.pos}
Newcomers(rows, m, e, reactors) ==
  {w \in reactors : \A r \in ActiveIn(rows, m, e) : r.subjectId # w}
Fresh(rows, m, e, reactors, v) ==
  {ActiveRow(u, e, m, v) : u \in Newcomers(rows, m, e, reactors)}
Leavers(rows, m, e, reactors) == {q \in ActiveIn(rows, m, e) : q.subjectId \notin reactors}
Revoked(rows, m, e, reactors) ==
  {[r EXCEPT !.active = FALSE] : r \in Leavers(rows, m, e, reactors)}
Appended(rows, m, e, reactors, v) ==
  Existing(rows, m, e, reactors) \cup Fresh(rows, m, e, reactors, v)
    \cup Revoked(rows, m, e, reactors)

\* The pass keeps the rows of other sources and appends those of its own.
LEMMA RebuiltIsConcat ==
  ASSUME NEW rows, NEW m, NEW e, NEW reactors, NEW v
  PROVE  Rebuilt(rows, m, e, reactors, v)
           = Concat(rows \ Source(rows, m, e), Appended(rows, m, e, reactors, v))
BY DEF Rebuilt, Appended, Existing, Fresh, Newcomers, Revoked, Leavers, ActiveIn, Source

\* The kinds differ in whom their rows are of, and in whether these are
\* active.
LEMMA ExistingRow ==
  ASSUME NEW rows, NEW m, NEW e, NEW reactors, NEW x \in Existing(rows, m, e, reactors)
  PROVE  /\ x \in rows /\ x.subjectId \in reactors /\ x.subjectId \notin Newcomers(rows, m, e, reactors)
         /\ x.emoji = e /\ x.msg = m /\ x.active
BY DEF Existing, Newcomers, ActiveIn, Source

\* A reactor without a row gets an active one, first of its key.
LEMMA FreshRow ==
  ASSUME NEW rows, NEW m \in Nat, NEW e \in Emojis, NEW reactors \in SUBSET Users, NEW v \in Nat,
         NEW x \in Fresh(rows, m, e, reactors, v)
  PROVE  /\ x \in Row /\ x.subjectId \in Newcomers(rows, m, e, reactors) /\ x.subjectId \in reactors
         /\ x = ActiveRow(x.subjectId, e, m, v)
         /\ x.emoji = e /\ x.msg = m /\ x.active /\ x.scope = EmojiScope[e] /\ x.pos = 0
<1>1. PICK u \in Newcomers(rows, m, e, reactors) : x = ActiveRow(u, e, m, v)
  BY DEF Fresh
<1>2. u \in reactors /\ u \in Users
  BY DEF Newcomers
<1>3. x \in Row
  BY <1>1, <1>2, ActiveRowType
<1> QED
  BY <1>1, <1>2, <1>3 DEF ActiveRow

\* An active row of a non-reactor stays where it was, no longer active.
LEMMA RevokedRow ==
  ASSUME NEW rows \in SUBSET Row, NEW m, NEW e, NEW reactors, NEW x \in Revoked(rows, m, e, reactors)
  PROVE  /\ x \in Row /\ x.subjectId \notin reactors /\ ~x.active /\ x.emoji = e /\ x.msg = m
         /\ \E r \in Leavers(rows, m, e, reactors) :
              /\ r \in rows /\ x = [r EXCEPT !.active = FALSE]
              /\ x.subjectId = r.subjectId /\ x.scope = r.scope /\ x.pos = r.pos
<1>1. PICK r \in Leavers(rows, m, e, reactors) : x = [r EXCEPT !.active = FALSE]
  BY DEF Revoked
<1>2. r \in rows /\ r.subjectId \notin reactors /\ r.emoji = e /\ r.msg = m
  BY DEF Leavers, ActiveIn, Source
<1>3. /\ x \in Row /\ x.subjectId = r.subjectId /\ x.scope = r.scope /\ x.pos = r.pos
      /\ x.emoji = r.emoji /\ x.msg = r.msg /\ ~x.active
  BY <1>1, <1>2 DEF Row
<1> QED
  BY <1>1, <1>2, <1>3

\* What is left, and what is appended, are well-formed rows.
LEMMA RebuiltParts ==
  ASSUME IsFiniteSet(Users),
         NEW rows \in SUBSET Row, WellFormed(rows), NEW m \in Nat, NEW e \in Emojis,
         NEW reactors \in SUBSET Users, NEW v \in Nat
  PROVE  /\ rows \ Source(rows, m, e) \in SUBSET Row /\ WellFormed(rows \ Source(rows, m, e))
         /\ Appended(rows, m, e, reactors, v) \in SUBSET Row
         /\ WellFormed(Appended(rows, m, e, reactors, v))
<1> DEFINE existing  == Existing(rows, m, e, reactors)
           newcomers == Newcomers(rows, m, e, reactors)
           fresh     == Fresh(rows, m, e, reactors, v)
           leavers   == Leavers(rows, m, e, reactors)
           revoked   == Revoked(rows, m, e, reactors)
           new       == Appended(rows, m, e, reactors, v)
<1>1. new = existing \cup fresh \cup revoked /\ new \in SUBSET Row
  <2>1. existing \in SUBSET Row
    BY ExistingRow
  <2>2. fresh \in SUBSET Row
    BY FreshRow
  <2>3. revoked \in SUBSET Row
    BY RevokedRow
  <2> QED
    BY <2>1, <2>2, <2>3 DEF Appended
<1>2. leavers \in SUBSET rows /\ existing \in SUBSET rows
  BY DEF Leavers, Existing, ActiveIn, Source
<1>3. /\ WellFormed(existing) /\ WellFormed(leavers) /\ WellFormed(rows \ Source(rows, m, e))
      /\ rows \ Source(rows, m, e) \in SUBSET Row
  BY <1>2, FilterWellFormed
<1>4. IsFiniteSet(new)
  <2>1. IsFiniteSet(fresh)
    <3>1. IsFiniteSet(newcomers)
      BY FS_Subset, newcomers \in SUBSET Users DEF Newcomers
    <3> DEFINE f == [u \in newcomers |-> ActiveRow(u, e, m, v)]
    <3>2. f \in Surjection(newcomers, fresh)
      BY DEF Surjection, Fresh
    <3> HIDE DEF f, newcomers, fresh
    <3> QED
      BY <3>1, <3>2, FS_Surjection
  <2>2. IsFiniteSet(revoked)
    <3> DEFINE g == [r \in leavers |-> [r EXCEPT !.active = FALSE]]
    <3>1. g \in Surjection(leavers, revoked)
      BY DEF Surjection, Revoked
    <3>2. IsFiniteSet(leavers)
      BY <1>3 DEF WellFormed
    <3> HIDE DEF g, leavers, revoked
    <3> QED
      BY <3>1, <3>2, FS_Surjection
  <2>3. IsFiniteSet(existing)
    BY <1>3 DEF WellFormed
  <2> HIDE DEF existing, fresh, revoked, new
  <2> QED
    BY <1>1, <2>1, <2>2, <2>3, FS_Union
<1>5. ASSUME NEW x \in new, NEW y \in new, SameKey(x, y), x.pos = y.pos
      PROVE  x = y
  <2>1. x.subjectId = y.subjectId
    BY <1>5 DEF SameKey
  <2>2. /\ \A z \in existing : z.subjectId \in reactors /\ z.subjectId \notin newcomers
        /\ \A z \in fresh : z.subjectId \in newcomers /\ z.subjectId \in reactors
        /\ \A z \in revoked : z.subjectId \notin reactors
    <3>1. \A z \in existing : z.subjectId \in reactors /\ z.subjectId \notin newcomers
      BY ExistingRow
    <3>2. \A z \in fresh : z.subjectId \in newcomers /\ z.subjectId \in reactors
      BY FreshRow
    <3>3. \A z \in revoked : z.subjectId \notin reactors
      BY RevokedRow
    <3> QED
      BY <3>1, <3>2, <3>3
  <2>3. CASE x \in existing /\ y \in existing
    BY <1>3, <1>5, <2>3 DEF WellFormed
  <2>4. CASE x \in fresh /\ y \in fresh
    BY <2>1, <2>4, FreshRow
  <2>5. CASE x \in revoked /\ y \in revoked
    <3>0. \A z \in revoked : \E r \in leavers :
            /\ z = [r EXCEPT !.active = FALSE]
            /\ z.subjectId = r.subjectId /\ z.scope = r.scope /\ z.pos = r.pos
      BY RevokedRow
    <3>1. PICK r \in leavers :
            /\ x = [r EXCEPT !.active = FALSE]
            /\ x.subjectId = r.subjectId /\ x.scope = r.scope /\ x.pos = r.pos
      BY <2>5, <3>0
    <3>2. PICK q \in leavers :
            /\ y = [q EXCEPT !.active = FALSE]
            /\ y.subjectId = q.subjectId /\ y.scope = q.scope /\ y.pos = q.pos
      BY <2>5, <3>0
    <3>3. r = q
      BY <1>3, <1>5, <3>1, <3>2 DEF WellFormed, SameKey
    <3> QED
      BY <3>1, <3>2, <3>3
  <2>6. CASE (x \in existing /\ y \in fresh) \/ (x \in fresh /\ y \in existing)
    BY <2>1, <2>2, <2>6
  <2>7. CASE (x \in existing /\ y \in revoked) \/ (x \in revoked /\ y \in existing)
    BY <2>1, <2>2, <2>7
  <2>8. CASE (x \in fresh /\ y \in revoked) \/ (x \in revoked /\ y \in fresh)
    BY <2>1, <2>2, <2>8
  <2> HIDE DEF existing, fresh, revoked, new
  <2> QED
    BY <1>1, <2>3, <2>4, <2>5, <2>6, <2>7, <2>8
<1> HIDE DEF new
<1>6. WellFormed(new)
  BY <1>4, <1>5 DEF WellFormed
<1> QED
  BY <1>1, <1>3, <1>6 DEF new

\* The snapshot reconcile writes is well formed, and every active row of it
\* was active before or stands for one of the reactors of this very target.
LEMMA RebuiltWellFormed ==
  ASSUME IsFiniteSet(Users),
         NEW rows \in SUBSET Row, WellFormed(rows), NEW m \in Nat, NEW e \in Emojis,
         NEW reactors \in SUBSET Users, NEW v \in Nat
  PROVE  /\ Rebuilt(rows, m, e, reactors, v) \in SUBSET Row
         /\ WellFormed(Rebuilt(rows, m, e, reactors, v))
         /\ ActiveSources(Rebuilt(rows, m, e, reactors, v)) \subseteq
              ActiveSources(rows) \cup {<<u, e, m>> : u \in reactors}
<1>1. PICK front \in SUBSET Row : front = rows \ Source(rows, m, e) /\ WellFormed(front)
  BY RebuiltParts
<1>2. PICK new \in SUBSET Row : new = Appended(rows, m, e, reactors, v) /\ WellFormed(new)
  BY RebuiltParts
<1>3. ActiveSources(front) \subseteq ActiveSources(rows)
  BY <1>1, FilterSources
<1>4. ActiveSources(new) \subseteq {<<u, e, m>> : u \in reactors}
  <2>1. ASSUME NEW x \in new, x.active PROVE x.subjectId \in reactors /\ x.emoji = e /\ x.msg = m
    <3>1. CASE x \in Existing(rows, m, e, reactors)
      BY <3>1, ExistingRow
    <3>2. CASE x \in Fresh(rows, m, e, reactors, v)
      BY <3>2, FreshRow
    <3>3. CASE x \in Revoked(rows, m, e, reactors)
      BY <2>1, <3>3, RevokedRow
    <3> QED
      BY <1>2, <3>1, <3>2, <3>3 DEF Appended
  <2> QED
    BY <2>1 DEF ActiveSources
<1>5. Rebuilt(rows, m, e, reactors, v) = Concat(front, new)
  BY <1>1, <1>2, RebuiltIsConcat
<1>6. /\ Concat(front, new) \in SUBSET Row /\ WellFormed(Concat(front, new))
      /\ ActiveSources(Concat(front, new)) \subseteq ActiveSources(front) \cup ActiveSources(new)
  BY <1>1, <1>2, ConcatWellFormed
<1> QED
  BY <1>3, <1>4, <1>5, <1>6

-----------------------------------------------------------------------------
(* Type correctness, part by part.                                         *)

DiscordOK ==
  /\ reacted \subseteq Users \X Emojis \X Nat
  /\ ever \subseteq Users \X Emojis \X Nat
  /\ made \in Nat /\ alive \subseteq Nat /\ toggles \in Nat

StoreOK ==
  /\ disk \in [kind : {"missing", "ok", "corrupt", "alien"}, rows : SUBSET Row]
  /\ backup \in BOOLEAN
  /\ repo \in [rows : SUBSET Row, existed : BOOLEAN, recognised : BOOLEAN]
  /\ cache \in (SUBSET Row) \cup {NoCache}
  /\ WellFormed(disk.rows) /\ WellFormed(repo.rows)
  /\ cache # NoCache => WellFormed(cache)

BootOK == phase \in Phases /\ target \in Nat /\ policy \in Nat /\ starts \in Nat

RecOK ==
  /\ rec \in [turn : 0..Len(EmojiOrder), snapshot : SUBSET Row,
              answer : (SUBSET Users) \cup {NoAnswer}]
  /\ WellFormed(rec.snapshot)

RestOK == queue \in Seq(Event) /\ calm \in BOOLEAN /\ faults \in Nat

\* TypeOK in parts, each about what one group of actions changes.
LEMMA TypeParts == TypeOK <=> DiscordOK /\ StoreOK /\ BootOK /\ RecOK /\ RestOK
BY DEF TypeOK, DiscordOK, StoreOK, BootOK, RecOK, RestOK

\* The same parts, of the next state.
LEMMA TypePartsNext == TypeOK' <=> DiscordOK' /\ StoreOK' /\ BootOK' /\ RecOK' /\ RestOK'
BY DEF TypeOK, DiscordOK, StoreOK, BootOK, RecOK, RestOK

\* The empty ledger is a well-formed set of rows.
LEMMA EmptyWellFormed == {} \in SUBSET Row /\ WellFormed({})
BY FS_EmptySet DEF WellFormed

\* What loadFromDisk returns has the repository's type.
LEMMA LoadedType ==
  ASSUME StoreOK
  PROVE  /\ Loaded(disk) \in [rows : SUBSET Row, existed : BOOLEAN, recognised : BOOLEAN]
         /\ WellFormed(Loaded(disk).rows)
BY EmptyWellFormed DEF StoreOK, Loaded

\* loadAll keeps the type of the store, and leaves rows in the cache.
LEMMA LoadAllType ==
  ASSUME StoreOK, LoadAll
  PROVE  StoreOK' /\ cache' \in SUBSET Row /\ WellFormed(cache')
<1>1. CASE cache = NoCache /\ LoadFile /\ cache' = Loaded(disk).rows
  <2>1. WellFormed(disk'.rows) /\ backup' \in BOOLEAN
        /\ disk' \in [kind : {"missing", "ok", "corrupt", "alien"}, rows : SUBSET Row]
    <3>1. CASE disk' = Missing /\ backup' = TRUE
      BY <3>1, EmptyWellFormed DEF Missing
    <3>2. CASE UNCHANGED <<disk, backup>>
      BY <3>2 DEF StoreOK
    <3> QED
      BY <1>1, <3>1, <3>2 DEF LoadFile
  <2>2. repo' = Loaded(disk)
    BY <1>1 DEF LoadFile
  <2> QED
    BY <1>1, <2>1, <2>2, LoadedType DEF StoreOK
<1>2. CASE cache # NoCache /\ UNCHANGED store
  BY <1>2 DEF StoreOK, store
<1> QED
  BY <1>1, <1>2 DEF LoadAll

\* Writing a well-formed ledger keeps the type of the store.
LEMMA PersistType ==
  ASSUME StoreOK, NEW next \in SUBSET Row, WellFormed(next), Persist(next), Invalidate
  PROVE  StoreOK'
BY DEF StoreOK, Persist, Invalidate

\* A step that leaves the store alone keeps its type.
LEMMA StoreKept == ASSUME StoreOK, UNCHANGED store PROVE StoreOK'
BY DEF StoreOK, store

\* A step that leaves Discord alone keeps its type.
LEMMA DiscordKept == ASSUME DiscordOK, UNCHANGED discord PROVE DiscordOK'
BY DEF DiscordOK, discord

\* A step that leaves the process state alone keeps its type.
LEMMA BootKept == ASSUME BootOK, UNCHANGED boot PROVE BootOK'
BY DEF BootOK, boot

\* A step that leaves the pass alone keeps its type.
LEMMA RecKept == ASSUME RecOK, UNCHANGED rec PROVE RecOK'
BY DEF RecOK

\* Moving on to the next emoji never leaves the list of emojis.
LEMMA NextEmojiType ==
  ASSUME RecOK, Reconciling, NEW snapshot \in SUBSET Row, WellFormed(snapshot), NextEmoji(snapshot)
  PROVE  RecOK'
<1>1. Len(EmojiOrder) \in Nat
  BY EmojiOrderAssumption
<1> QED
  BY <1>1, EmptyWellFormed DEF RecOK, Reconciling, NextEmoji, Idle

\* The fault counter stays a natural number.
LEMMA FaultsType == ASSUME faults \in Nat, faults' = faults \/ faults' = faults + 1 PROVE faults' \in Nat
OBVIOUS

\* The event at the head of the queue is an event, and the rest a queue.
LEMMA DeliverType ==
  ASSUME RestOK, Deliver PROVE Head(queue) \in Event /\ queue' \in Seq(Event)
BY DEF RestOK, Deliver

\* While a pass runs, its turn names a configured emoji.
LEMMA TurnEmoji ==
  ASSUME RecOK, Reconciling PROVE Emoji \in Emojis
BY EmojiOrderAssumption DEF RecOK, Reconciling, Emoji

\* Every variable keeps its type, and every copy of the ledger, on disk, in
\* the repository, in the cache and in the pass, keeps one row per place.
THEOREM TypeCorrect == Spec => []TypeOK
<1>1. Init => TypeOK
  <2> SUFFICES ASSUME Init PROVE TypeOK
    OBVIOUS
  <2>1. DiscordOK /\ BootOK /\ RestOK
    BY DEF Init, DiscordOK, BootOK, RestOK, Phases
  <2>2. StoreOK
    BY EmptyWellFormed DEF Init, StoreOK, Missing, FreshRepo
  <2>3. RecOK
    BY EmptyWellFormed, EmojiOrderAssumption DEF Init, RecOK, Idle
  <2> QED
    BY <2>1, <2>2, <2>3, TypeParts
<1>2. TypeOK /\ [Next]_vars => TypeOK'
  <2> SUFFICES ASSUME DiscordOK, StoreOK, BootOK, RecOK, RestOK, [Next]_vars
               PROVE  DiscordOK' /\ StoreOK' /\ BootOK' /\ RecOK' /\ RestOK'
    BY TypeParts, TypePartsNext
  <2> USE StoreKept, DiscordKept, BootKept, RecKept
  <2>1. CASE UNCHANGED vars
    BY <2>1 DEF vars, store, discord, boot, RestOK
  <2>2. ASSUME NEW u \in Users, NEW e \in Emojis, NEW m \in 1..MaxMessages,
               AddReaction(u, e, m) \/ RemoveReaction(u, e, m)
        PROVE  DiscordOK' /\ StoreOK' /\ BootOK' /\ RecOK' /\ RestOK'
    <3>1. m \in Nat
      BY BoundsAssumption
    <3>2. /\ UNCHANGED <<made, alive, faults, rec, store, boot>>
          /\ toggles' = toggles + 1 /\ calm' = (calm /\ ~Reconciling)
          /\ reacted' \in {reacted \cup {<<u, e, m>>}, reacted \ {<<u, e, m>>}}
          /\ ever' \in {ever, ever \cup {<<u, e, m>>}}
      BY <2>2 DEF AddReaction, RemoveReaction, Toggled
    <3>3. queue' \in Seq(Event)
      <4> DEFINE ev(op) == [op |-> op, user |-> u, emoji |-> e, msg |-> m]
      <4>1. ev("add") \in Event /\ ev("remove") \in Event
        BY <3>1 DEF Event
      <4>2. queue' \in {queue, Append(queue, ev("add")), Append(queue, ev("remove"))}
        BY <2>2 DEF AddReaction, RemoveReaction, Announce
      <4> HIDE DEF ev
      <4> QED
        BY <4>1, <4>2 DEF RestOK
    <3>4. DiscordOK'
      BY <3>1, <3>2 DEF DiscordOK
    <3> QED
      BY <3>2, <3>3, <3>4 DEF RestOK
  <2>3. ASSUME NEW m \in 1..MaxMessages, DeleteMessage(m)
        PROVE  DiscordOK' /\ StoreOK' /\ BootOK' /\ RecOK' /\ RestOK'
    BY <2>3 DEF DeleteMessage, DiscordOK, RestOK
  <2>4. ASSUME NEW m \in 1..MaxMessages, ResolveMessage(m)
        PROVE  DiscordOK' /\ StoreOK' /\ BootOK' /\ RecOK' /\ RestOK'
    BY <2>4, BoundsAssumption DEF ResolveMessage, BootOK, Phases, RestOK
  <2>5. CASE LoseEvents
    <3>1. faults' \in Nat
      BY <2>5 DEF LoseEvents, RestOK
    <3>2. queue' \in Seq(Event)
      BY <2>5 DEF LoseEvents
    <3>3. calm' \in BOOLEAN
      BY <2>5 DEF LoseEvents
    <3> QED
      BY <2>5, <3>1, <3>2, <3>3 DEF LoseEvents, RestOK
  <2>6. CASE Start
    BY <2>6 DEF Start, BootOK, Phases, RestOK
  <2>7. CASE Stop
    <3>1. Len(EmojiOrder) \in Nat
      BY EmojiOrderAssumption
    <3>2. RecOK'
      BY <2>7, <3>1, EmptyWellFormed DEF Stop, RecOK, Idle
    <3> QED
      BY <2>7, <3>2, EmptyWellFormed DEF Stop, StoreOK, FreshRepo, BootOK, Phases, RestOK
  <2>8. ASSUME NEW kind \in {"corrupt", "alien"}, DamageFile(kind)
        PROVE  DiscordOK' /\ StoreOK' /\ BootOK' /\ RecOK' /\ RestOK'
    BY <2>8, EmptyWellFormed DEF DamageFile, StoreOK, RestOK
  <2>9. CASE CreateMessage
    BY <2>9 DEF CreateMessage, DiscordOK, BootOK, Phases, RestOK
  <2>10. CASE BootstrapFails
    BY <2>10 DEF BootstrapFails, BootOK, Phases, RestOK
  <2>11. CASE BootstrapDone
    <3>1. StoreOK' /\ cache' \in SUBSET Row /\ WellFormed(cache')
      BY <2>11, LoadAllType DEF BootstrapDone
    <3>2. RecOK'
      BY <2>11, <3>1, EmojiOrderAssumption DEF BootstrapDone, RecOK
    <3> QED
      BY <2>11, <3>1, <3>2 DEF BootstrapDone, BootOK, Phases, RestOK
  <2>12. CASE FetchAnswered
    BY <2>12 DEF FetchAnswered, RecOK, RestOK, Reactors
  <2>13. CASE FetchFails
    <3>1. RecOK'
      BY <2>13, NextEmojiType DEF FetchFails, RecOK
    <3>2. faults' \in Nat
      BY <2>13 DEF FetchFails, RestOK
    <3>3. RestOK'
      BY <2>13, <3>2 DEF FetchFails, RestOK
    <3> QED
      BY <2>13, <3>1, <3>3 DEF FetchFails
  <2>14. CASE ReconcileEmoji
    <3> DEFINE next == Rebuilt(rec.snapshot, target, Emoji, rec.answer, policy)
    <3>1. rec.snapshot \in SUBSET Row /\ WellFormed(rec.snapshot) /\ rec.answer \in SUBSET Users
      BY <2>14 DEF ReconcileEmoji, RecOK
    <3>2. next \in SUBSET Row /\ WellFormed(next)
      BY <2>14, <3>1, TurnEmoji, UsersAssumption, RebuiltWellFormed DEF ReconcileEmoji, BootOK
    <3>3. Persist(next) /\ Invalidate /\ NextEmoji(next) /\ Reconciling
      BY <2>14 DEF ReconcileEmoji
    <3>4. UNCHANGED <<discord, queue, boot, calm>>
      BY <2>14 DEF ReconcileEmoji
    <3> HIDE DEF next
    <3>5. StoreOK' /\ RecOK' /\ UNCHANGED faults
      BY <3>2, <3>3, PersistType, NextEmojiType DEF Persist
    <3> QED
      BY <3>4, <3>5 DEF RestOK
  <2>15. CASE ReconcileSaveFails
    <3>1. RecOK'
      BY <2>15, NextEmojiType DEF ReconcileSaveFails, RecOK
    <3>2. faults' \in Nat
      BY <2>15 DEF ReconcileSaveFails, PersistFails, RestOK
    <3>3. RestOK'
      BY <2>15, <3>2 DEF ReconcileSaveFails, RestOK
    <3> QED
      BY <2>15, <3>1, <3>3 DEF ReconcileSaveFails, PersistFails
  <2>16. CASE IgnoreReaction
    BY <2>16, DeliverType DEF IgnoreReaction, Heard, RestOK
  <2>17. CASE OnAdd
    <3> DEFINE row == ActiveRow(Head(queue).user, Head(queue).emoji, Head(queue).msg, policy)
               next == Upserted(repo.rows, row)
    <3>1. Head(queue) \in Event /\ queue' \in Seq(Event)
      BY <2>17, DeliverType DEF OnAdd
    <3>2. row \in Row
      BY <3>1, ActiveRowType DEF Event, BootOK
    <3>3. repo.rows \in SUBSET Row /\ WellFormed(repo.rows)
      BY DEF StoreOK
    <3>4. Persist(next) /\ Invalidate
      BY <2>17 DEF OnAdd
    <3>5. UNCHANGED <<discord, boot, rec, calm>>
      BY <2>17 DEF OnAdd, Heard
    <3> HIDE DEF row
    <3>6. next \in SUBSET Row /\ WellFormed(next)
      BY <3>2, <3>3, UpsertedWellFormed
    <3> HIDE DEF next
    <3>7. StoreOK' /\ UNCHANGED faults
      BY <3>4, <3>6, PersistType DEF Persist
    <3> QED
      BY <3>1, <3>5, <3>7 DEF RestOK
  <2>18. CASE OnRemove
    <3> DEFINE next == Removed(repo.rows, Head(queue).user, EmojiScope[Head(queue).emoji])
    <3>1. queue' \in Seq(Event)
      BY <2>18, DeliverType DEF OnRemove
    <3>2. repo.rows \in SUBSET Row /\ WellFormed(repo.rows)
      BY DEF StoreOK
    <3>3. Persist(next) /\ Invalidate
      BY <2>18 DEF OnRemove
    <3>4. UNCHANGED <<discord, boot, rec, calm>>
      BY <2>18 DEF OnRemove, Heard
    <3>5. next \in SUBSET Row /\ WellFormed(next)
      BY <3>2, RemovedWellFormed
    <3> HIDE DEF next
    <3>6. StoreOK' /\ UNCHANGED faults
      BY <3>3, <3>5, PersistType DEF Persist
    <3> QED
      BY <3>1, <3>4, <3>6 DEF RestOK
  <2>19. CASE OnRemoveAbsent
    BY <2>19, DeliverType DEF OnRemoveAbsent, Heard, RestOK
  <2>20. CASE HandlerFails
    <3>1. faults' \in Nat
      BY <2>20 DEF HandlerFails, PersistFails, RestOK
    <3>2. RestOK'
      BY <2>20, <3>1, DeliverType DEF HandlerFails, RestOK
    <3> QED
      BY <2>20, <3>2 DEF HandlerFails, PersistFails, Heard
  <2>21. CASE Authorize
    BY <2>21, LoadAllType DEF Authorize, RestOK
  <2>22. ASSUME NEW u \in Users, Clear(u)
         PROVE  DiscordOK' /\ StoreOK' /\ BootOK' /\ RecOK' /\ RestOK'
    <3> DEFINE view == IF cache = NoCache THEN Loaded(disk) ELSE repo
               rows == IF cache = NoCache THEN view.rows ELSE cache
    <3>1. view \in [rows : SUBSET Row, existed : BOOLEAN, recognised : BOOLEAN]
          /\ WellFormed(view.rows) /\ rows \in SUBSET Row /\ WellFormed(rows)
      BY LoadedType DEF StoreOK
    <3>2. PICK done :
            \/ /\ repo' = [rows |-> Cleared(view.rows, u, done), existed |-> TRUE, recognised |-> TRUE]
               /\ disk' = [kind |-> "ok", rows |-> repo'.rows]
               /\ Invalidate
            \/ repo' = view /\ cache' = rows /\ UNCHANGED disk
      BY <2>22 DEF Clear
    <3>3. faults' \in Nat /\ calm' = FALSE /\ UNCHANGED <<discord, queue, backup, boot, rec>>
      BY <2>22 DEF Clear, RestOK
    <3> HIDE DEF rows
    <3>4. Cleared(view.rows, u, done) \in SUBSET Row /\ WellFormed(Cleared(view.rows, u, done))
      BY <3>1, ClearedWellFormed
    <3> HIDE DEF view
    <3>5. StoreOK'
      <4> DEFINE next == Cleared(view.rows, u, done)
      <4>1. CASE /\ repo' = [rows |-> next, existed |-> TRUE, recognised |-> TRUE]
                 /\ disk' = [kind |-> "ok", rows |-> repo'.rows]
                 /\ Invalidate
        <5>1. next \in SUBSET Row /\ WellFormed(next)
          BY <3>4
        <5> HIDE DEF next
        <5> QED
          BY <3>3, <4>1, <5>1 DEF StoreOK, Invalidate
      <4>2. CASE repo' = view /\ cache' = rows /\ UNCHANGED disk
        BY <3>1, <3>3, <4>2 DEF StoreOK
      <4> QED
        BY <3>2, <4>1, <4>2
    <3> QED
      BY <3>3, <3>5 DEF RestOK
  <2> QED
    BY <2>1, <2>2, <2>3, <2>4, <2>5, <2>6, <2>7, <2>8, <2>9, <2>10, <2>11, <2>12, <2>13, <2>14,
       <2>15, <2>16, <2>17, <2>18, <2>19, <2>20, <2>21, <2>22 DEF Next, UserStep
<1> QED
  BY <1>1, <1>2, PTL DEF Spec

-----------------------------------------------------------------------------
(* The cache.                                                              *)

\* CacheCoherent is inductive with what the steps that load rely on: a full
\* cache is the repository's records, and a process that is away has none.
CacheInv ==
  /\ CacheCoherent
  /\ cache # NoCache => repo.rows = cache
  /\ ~Running => cache = NoCache

\* After loadAll the cache, the repository and the file agree.
LEMMA LoadAllCache ==
  ASSUME CacheInv, LoadAll
  PROVE  /\ cache' # NoCache => cache' = Loaded(disk').rows
         /\ cache' # NoCache => repo'.rows = cache'
         /\ repo'.rows = Loaded(disk').rows
BY DEF CacheInv, CacheCoherent, LoadAll, LoadFile, Loaded, Missing, store

\* A write followed by invalidate leaves no snapshot to go stale.
LEMMA PersistCache ==
  ASSUME NEW next, Persist(next), Invalidate
  PROVE  repo'.rows = Loaded(disk').rows /\ cache' = NoCache
BY DEF Persist, Invalidate, Loaded

\* The inductive form of coherence: cache, repository records and file agree
\* in every reachable state.
THEOREM CacheInduction == Spec => []CacheInv
<1>1. Init => CacheInv
  BY DEF Init, CacheInv, CacheCoherent, Running
<1>2. CacheInv /\ [Next]_vars => CacheInv'
  <2> SUFFICES ASSUME CacheInv, [Next]_vars PROVE CacheInv'
    OBVIOUS
  <2> USE DEF CacheInv, CacheCoherent, Running
  <2>1. CASE UNCHANGED vars
    BY <2>1 DEF vars, Loaded
  <2>2. ASSUME UNCHANGED <<store, phase>> PROVE CacheInv'
    BY <2>2 DEF store, Loaded
  <2>3. CASE UserStep
    BY <2>2, <2>3 DEF UserStep, AddReaction, RemoveReaction, Toggled, boot
  <2>4. CASE \E m \in 1..MaxMessages : DeleteMessage(m)
    BY <2>2, <2>4 DEF DeleteMessage, boot
  <2>5. CASE \E m \in 1..MaxMessages : ResolveMessage(m)
    BY <2>5 DEF ResolveMessage, store, Loaded
  <2>6. CASE LoseEvents
    BY <2>2, <2>6 DEF LoseEvents, boot
  <2>7. CASE Start
    BY <2>7 DEF Start, store, Loaded
  <2>8. CASE Stop
    BY <2>8 DEF Stop
  <2>9. CASE \E kind \in {"corrupt", "alien"} : DamageFile(kind)
    BY <2>9 DEF DamageFile, boot
  <2>10. CASE CreateMessage
    BY <2>10 DEF CreateMessage, store, Loaded
  <2>11. CASE BootstrapFails
    BY <2>11 DEF BootstrapFails, store, Loaded
  <2>12. CASE BootstrapDone
    BY <2>12, LoadAllCache DEF BootstrapDone, store
  <2>13. CASE FetchAnswered
    BY <2>2, <2>13 DEF FetchAnswered, boot
  <2>14. CASE FetchFails
    BY <2>2, <2>14 DEF FetchFails, boot
  <2>15. CASE ReconcileEmoji
    BY <2>15, PersistCache DEF ReconcileEmoji, boot
  <2>16. CASE ReconcileSaveFails
    BY <2>2, <2>16 DEF ReconcileSaveFails, PersistFails, boot
  <2>17. CASE IgnoreReaction
    BY <2>2, <2>17 DEF IgnoreReaction, Heard, boot
  <2>18. CASE OnAdd
    BY <2>18, PersistCache DEF OnAdd, Heard, boot
  <2>19. CASE OnRemove
    BY <2>19, PersistCache DEF OnRemove, Heard, boot
  <2>20. CASE OnRemoveAbsent
    BY <2>2, <2>20 DEF OnRemoveAbsent, Heard, boot
  <2>21. CASE HandlerFails
    BY <2>2, <2>21 DEF HandlerFails, PersistFails, Heard, boot
  <2>22. CASE Authorize
    BY <2>22, LoadAllCache DEF Authorize, boot, store
  <2>23. CASE \E u \in Users : Clear(u)
    <3> PICK u \in Users : Clear(u)
      BY <2>23
    <3>1. /\ Running /\ phase' = phase
          /\ \/ /\ cache' = NoCache /\ disk' = [kind |-> "ok", rows |-> repo'.rows]
             \/ /\ disk' = disk
                /\ repo' = IF cache = NoCache THEN Loaded(disk) ELSE repo
                /\ cache' = IF cache = NoCache THEN Loaded(disk).rows ELSE cache
      BY DEF Clear, boot, Invalidate
    <3> QED
      BY <3>1 DEF Loaded
  <2> QED
    BY <2>1, <2>3, <2>4, <2>5, <2>6, <2>7, <2>8, <2>9, <2>10, <2>11, <2>12, <2>13, <2>14,
       <2>15, <2>16, <2>17, <2>18, <2>19, <2>20, <2>21, <2>22, <2>23 DEF Next
<1> QED
  BY <1>1, <1>2, PTL DEF Spec

\* What authorize reads through the cache is what the file says, and the
\* next file is made from the rows of the last one.
THEOREM CacheIsCoherent == Spec => []CacheCoherent
<1>1. CacheInv => CacheCoherent
  BY DEF CacheInv
<1> QED
  BY <1>1, CacheInduction, PTL

-----------------------------------------------------------------------------
(* Provenance.  The rows are earned because what they are made from is:    *)
(* the add events on their way, the answer of a fetch, the older rows.     *)

StoreEarned ==
  /\ Earned(disk.rows) /\ Earned(repo.rows)
  /\ cache # NoCache => Earned(cache)

Placed(ev) == ev.op = "add" => <<ev.user, ev.emoji, ev.msg>> \in ever

WorldEarned == reacted \subseteq ever /\ \A i \in 1..Len(queue) : Placed(queue[i])

\* The answer of a fetch belongs to the emoji in turn and to the target, and
\* neither changes while a pass runs.
RecEarned ==
  /\ Earned(rec.snapshot)
  /\ rec.answer # NoAnswer => \A u \in rec.answer : <<u, Emoji, target>> \in ever
  /\ Reconciling => phase = "up"
  /\ ~Reconciling => rec.answer = NoAnswer

ProvenanceInv == StoreEarned /\ WorldEarned /\ RecEarned

\* Reading the file adds no row, so what is read is earned if the file was.
LEMMA LoadAllEarned ==
  ASSUME StoreEarned, LoadAll, UNCHANGED ever
  PROVE  StoreEarned' /\ Earned(cache')
<1>1. Earned({})
  BY DEF Earned, ActiveSources
<1>2. Earned(Loaded(disk).rows)
  BY <1>1 DEF StoreEarned, Loaded
<1>3. CASE cache = NoCache /\ LoadFile /\ cache' = Loaded(disk).rows
  <2>1. repo' = Loaded(disk) /\ (disk' = Missing \/ disk' = disk)
    BY <1>3 DEF LoadFile
  <2> QED
    <3>1. repo'.rows = Loaded(disk).rows /\ cache' = Loaded(disk).rows
      BY <1>3, <2>1
    <3>2. disk'.rows = {} \/ disk'.rows = disk.rows
      BY <2>1 DEF Missing
    <3>3. Earned(disk'.rows)
      BY <1>1, <3>2 DEF StoreEarned
    <3> QED
      BY <1>2, <3>1, <3>3 DEF StoreEarned, Earned
<1>4. CASE cache # NoCache /\ UNCHANGED store
  BY <1>4 DEF StoreEarned, Earned, store
<1> QED
  BY <1>3, <1>4 DEF LoadAll

\* A write of earned rows leaves an earned store.
LEMMA PersistEarned ==
  ASSUME NEW next, Earned(next), Persist(next), Invalidate, UNCHANGED ever
  PROVE  StoreEarned'
BY DEF StoreEarned, Persist, Invalidate, Earned

\* Earned rows stay earned: the history of reactions only grows.
LEMMA StoreEarnedKept ==
  ASSUME StoreEarned, UNCHANGED store, ever \subseteq ever' PROVE StoreEarned'
BY DEF StoreEarned, Earned, store

\* A step that leaves Discord and the queue alone keeps them earned.
LEMMA WorldEarnedKept ==
  ASSUME WorldEarned, UNCHANGED <<discord, queue>> PROVE WorldEarned'
BY DEF WorldEarned, discord, Placed

\* Losing the pending events keeps the world earned.
LEMMA QueueGone ==
  ASSUME WorldEarned, UNCHANGED discord, queue' = <<>> PROVE WorldEarned'
BY DEF WorldEarned, discord, Placed

\* The add event a handler takes from the queue was placed by its user.
LEMMA DeliverEarned ==
  ASSUME WorldEarned, RestOK, Deliver, UNCHANGED discord
  PROVE  WorldEarned' /\ Placed(Head(queue))
<1>1. queue \in Seq(Event) /\ queue # <<>> /\ queue' = Tail(queue)
  BY DEF RestOK, Deliver
<1>2. \A i \in 1..Len(queue') : queue'[i] = queue[i + 1] /\ i + 1 \in 1..Len(queue)
  BY <1>1
<1>3. Head(queue) = queue[1] /\ 1 \in 1..Len(queue)
  BY <1>1
<1>4. ever' = ever /\ reacted' = reacted
  BY DEF discord
<1> QED
  BY <1>2, <1>3, <1>4 DEF WorldEarned, Placed

\* A pass that does not move keeps an earned answer and snapshot.
LEMMA RecEarnedKept ==
  ASSUME RecEarned, UNCHANGED <<rec, phase, target>>, ever \subseteq ever' PROVE RecEarned'
BY DEF RecEarned, Earned, Emoji, Reconciling

\* When no pass runs, the bootstrap may choose another target.
LEMMA RecEarnedIdle ==
  ASSUME RecEarned, UNCHANGED <<rec, ever>>, phase # "up" PROVE RecEarned'
BY DEF RecEarned, Earned, Emoji, Reconciling

\* The next emoji starts without an answer, so none is used for two emojis.
LEMMA NextEmojiEarned ==
  ASSUME RecEarned, Reconciling, UNCHANGED <<phase, ever>>,
         NEW snapshot, Earned(snapshot), NextEmoji(snapshot)
  PROVE  RecEarned'
BY DEF RecEarned, Reconciling, NextEmoji, Idle, Earned, ActiveSources

\* The inductive form of provenance: pending events, fetch answers and rows
\* all stem from reactions their users placed.
THEOREM ProvenanceInduction == Spec => []ProvenanceInv
<1>1. Init => ProvenanceInv
  BY DEF Init, ProvenanceInv, StoreEarned, WorldEarned, RecEarned, Earned, ActiveSources,
         Missing, FreshRepo, Idle, Placed, Reconciling
<1>2. ProvenanceInv /\ TypeOK /\ [Next]_vars => ProvenanceInv'
  <2> SUFFICES ASSUME StoreEarned, WorldEarned, RecEarned, TypeOK, [Next]_vars
               PROVE  StoreEarned' /\ WorldEarned' /\ RecEarned'
    BY DEF ProvenanceInv
  <2> DiscordOK /\ StoreOK /\ BootOK /\ RecOK /\ RestOK
    BY TypeParts
  <2> USE StoreEarnedKept, WorldEarnedKept, RecEarnedKept
  <2>1. CASE UNCHANGED vars
    BY <2>1 DEF vars, store, discord
  <2>2. ASSUME NEW u \in Users, NEW e \in Emojis, NEW m \in 1..MaxMessages,
               AddReaction(u, e, m) \/ RemoveReaction(u, e, m)
        PROVE  StoreEarned' /\ WorldEarned' /\ RecEarned'
    <3>1. UNCHANGED <<rec, store, boot>> /\ ever \subseteq ever'
      BY <2>2 DEF AddReaction, RemoveReaction, Toggled
    <3> DEFINE ev(op) == [op |-> op, user |-> u, emoji |-> e, msg |-> m]
    <3>2. \/ <<u, e, m>> \in ever' /\ queue' \in {queue, Append(queue, ev("add"))}
          \/ queue' \in {queue, Append(queue, ev("remove"))}
      BY <2>2 DEF AddReaction, RemoveReaction, Announce
    <3>3. reacted' \subseteq ever'
      BY <2>2 DEF AddReaction, RemoveReaction, WorldEarned
    <3>4. queue \in Seq(Event)
      BY DEF RestOK
    <3>5. ASSUME NEW i \in 1..Len(queue')
          PROVE  queue'[i].op = "add" => <<queue'[i].user, queue'[i].emoji, queue'[i].msg>> \in ever'
      <4>1. CASE i \in 1..Len(queue)
        <5>1. queue'[i] = queue[i]
          BY <3>2, <3>4, <4>1
        <5> QED
          BY <3>1, <4>1, <5>1 DEF WorldEarned, Placed
      <4>2. CASE i \notin 1..Len(queue)
        <5>1. \/ <<u, e, m>> \in ever' /\ queue' = Append(queue, ev("add"))
              \/ queue' = Append(queue, ev("remove"))
          BY <3>2, <4>2
        <5>2. i = Len(queue) + 1
          BY <3>4, <4>2, <5>1
        <5>3. \/ <<u, e, m>> \in ever' /\ queue'[i] = ev("add")
              \/ queue'[i] = ev("remove")
          BY <3>4, <5>1, <5>2
        <5> QED
          BY <5>3
      <4> QED
        BY <4>1, <4>2
    <3>7. WorldEarned'
      BY <3>3, <3>5 DEF WorldEarned, Placed
    <3> QED
      BY <3>1, <3>7 DEF boot
  <2>3. ASSUME NEW m \in 1..MaxMessages, DeleteMessage(m)
        PROVE  StoreEarned' /\ WorldEarned' /\ RecEarned'
    BY <2>3 DEF DeleteMessage, WorldEarned, Placed, boot
  <2>4. ASSUME NEW m \in 1..MaxMessages, ResolveMessage(m)
        PROVE  StoreEarned' /\ WorldEarned' /\ RecEarned'
    <3>1. UNCHANGED <<discord, queue, store, rec, ever>> /\ phase # "up"
      BY <2>4 DEF ResolveMessage, discord
    <3> QED
      BY <3>1, RecEarnedIdle
  <2>5. CASE LoseEvents
    <3>1. UNCHANGED <<discord, store, rec, phase, target, ever>> /\ queue' = <<>>
      BY <2>5 DEF LoseEvents, boot, discord
    <3> QED
      BY <3>1, QueueGone
  <2>6. CASE Start
    <3>1. UNCHANGED <<discord, queue, store, rec, ever>> /\ phase # "up"
      BY <2>6 DEF Start, discord
    <3> QED
      BY <3>1, RecEarnedIdle
  <2>7. CASE Stop
    <3>1. UNCHANGED <<discord, disk, ever>> /\ queue' = <<>> /\ repo' = FreshRepo
          /\ cache' = NoCache /\ rec' = Idle
      BY <2>7 DEF Stop, discord
    <3>2. StoreEarned' /\ RecEarned'
      BY <3>1 DEF StoreEarned, RecEarned, Earned, ActiveSources, FreshRepo, Idle, Reconciling
    <3> QED
      BY <3>1, <3>2, QueueGone
  <2>8. ASSUME NEW kind \in {"corrupt", "alien"}, DamageFile(kind)
        PROVE  StoreEarned' /\ WorldEarned' /\ RecEarned'
    <3>1. UNCHANGED <<discord, queue, repo, cache, rec, phase, target, ever>> /\ disk'.rows = {}
      BY <2>8 DEF DamageFile, boot, discord
    <3>2. StoreEarned'
      BY <3>1 DEF StoreEarned, Earned, ActiveSources
    <3> QED
      BY <3>1, <3>2
  <2>9. CASE CreateMessage
    <3>1. UNCHANGED <<reacted, ever, queue, store, rec>> /\ phase # "up"
      BY <2>9 DEF CreateMessage
    <3>2. WorldEarned'
      BY <3>1 DEF WorldEarned, Placed
    <3> QED
      BY <3>1, <3>2, RecEarnedIdle
  <2>10. CASE BootstrapFails
    <3>1. UNCHANGED <<discord, queue, store, rec, ever>> /\ phase # "up"
      BY <2>10 DEF BootstrapFails, discord
    <3> QED
      BY <3>1, RecEarnedIdle
  <2>11. CASE BootstrapDone
    <3>1. LoadAll /\ UNCHANGED <<discord, queue, ever>> /\ phase' = "up"
          /\ rec' = [turn |-> 1, snapshot |-> cache', answer |-> NoAnswer]
      BY <2>11 DEF BootstrapDone, discord
    <3>2. StoreEarned' /\ Earned(cache')
      BY <3>1, LoadAllEarned DEF Earned
    <3>3. RecEarned'
      BY <3>1, <3>2 DEF RecEarned, Earned, Reconciling
    <3> QED
      BY <3>1, <3>2, <3>3
  <2>12. CASE FetchAnswered
    <3>1. UNCHANGED <<discord, queue, store, phase, target, ever>> /\ Reconciling
          /\ rec' = [rec EXCEPT !.answer = Reactors(Emoji, target)]
      BY <2>12 DEF FetchAnswered, boot, discord
    <3>2. rec'.turn = rec.turn /\ rec'.snapshot = rec.snapshot /\ rec'.answer = Reactors(Emoji, target)
      BY <3>1 DEF RecOK
    <3>3. Emoji' = Emoji /\ Reconciling'
      BY <3>1, <3>2 DEF Emoji, Reconciling
    <3>4. \A u \in rec'.answer : <<u, Emoji, target>> \in ever
      BY <3>2 DEF WorldEarned, Reactors
    <3>5. RecEarned'
      BY <3>1, <3>2, <3>3, <3>4 DEF RecEarned, Earned
    <3> QED
      BY <3>1, <3>5
  <2>13. CASE FetchFails
    <3>1. UNCHANGED <<discord, queue, store, phase, ever>> /\ Reconciling /\ NextEmoji(rec.snapshot)
      BY <2>13 DEF FetchFails, boot, discord
    <3>2. RecEarned'
      BY <3>1, NextEmojiEarned DEF RecEarned
    <3> QED
      BY <3>1, <3>2
  <2>14. CASE ReconcileEmoji
    <3> DEFINE next == Rebuilt(rec.snapshot, target, Emoji, rec.answer, policy)
    <3>1. /\ UNCHANGED <<discord, queue, phase, ever>> /\ Reconciling
          /\ Persist(next) /\ Invalidate /\ NextEmoji(next)
      BY <2>14 DEF ReconcileEmoji, boot, discord
    <3>2. rec.snapshot \in SUBSET Row /\ WellFormed(rec.snapshot) /\ rec.answer \in SUBSET Users
          /\ rec.answer # NoAnswer
      BY <2>14 DEF ReconcileEmoji, RecOK
    <3>3. ActiveSources(next) \subseteq
            ActiveSources(rec.snapshot) \cup {<<u, Emoji, target>> : u \in rec.answer}
      BY <3>1, <3>2, TurnEmoji, UsersAssumption, RebuiltWellFormed DEF BootOK
    <3> HIDE DEF next
    <3>4. Earned(next)
      BY <3>2, <3>3 DEF RecEarned, Earned
    <3> QED
      BY <3>1, <3>4, PersistEarned, NextEmojiEarned
  <2>15. CASE ReconcileSaveFails
    <3>1. UNCHANGED <<discord, queue, store, phase, ever>> /\ Reconciling /\ NextEmoji(rec.snapshot)
      BY <2>15 DEF ReconcileSaveFails, PersistFails, boot, discord
    <3>2. RecEarned'
      BY <3>1, NextEmojiEarned DEF RecEarned
    <3> QED
      BY <3>1, <3>2
  <2>16. CASE IgnoreReaction
    <3>1. Deliver /\ UNCHANGED <<discord, store, rec, phase, target, ever>>
      BY <2>16 DEF IgnoreReaction, Heard, boot, discord
    <3> QED
      BY <3>1, DeliverEarned
  <2>17. CASE OnAdd
    <3> DEFINE ev   == Head(queue)
               row  == ActiveRow(ev.user, ev.emoji, ev.msg, policy)
               next == Upserted(repo.rows, row)
    <3>1. /\ Deliver /\ ev.op = "add" /\ Persist(next) /\ Invalidate
          /\ UNCHANGED <<discord, rec, phase, target, ever>>
      BY <2>17 DEF OnAdd, Heard, boot, discord
    <3>2. WorldEarned' /\ <<ev.user, ev.emoji, ev.msg>> \in ever
      BY <3>1, DeliverEarned DEF Placed
    <3>3. ev \in Event
      BY <3>1, DeliverType
    <3>4. row \in Row /\ row.subjectId = ev.user /\ row.emoji = ev.emoji /\ row.msg = ev.msg
      BY <3>3, ActiveRowType DEF Event, BootOK, ActiveRow
    <3> HIDE DEF row
    <3>5. ActiveSources(next) \subseteq ActiveSources(repo.rows) \cup {<<ev.user, ev.emoji, ev.msg>>}
      BY <3>4, UpsertedWellFormed DEF StoreOK
    <3> HIDE DEF next
    <3>6. Earned(next)
      BY <3>2, <3>5 DEF StoreEarned, Earned
    <3> QED
      BY <3>1, <3>2, <3>6, PersistEarned
  <2>18. CASE OnRemove
    <3> DEFINE next == Removed(repo.rows, Head(queue).user, EmojiScope[Head(queue).emoji])
    <3>1. Deliver /\ Persist(next) /\ Invalidate /\ UNCHANGED <<discord, rec, phase, target, ever>>
      BY <2>18 DEF OnRemove, Heard, boot, discord
    <3>2. ActiveSources(next) \subseteq ActiveSources(repo.rows)
      BY RemovedWellFormed DEF StoreOK
    <3> HIDE DEF next
    <3>3. Earned(next)
      BY <3>2 DEF StoreEarned, Earned
    <3> QED
      BY <3>1, <3>3, PersistEarned, DeliverEarned
  <2>19. CASE OnRemoveAbsent
    <3>1. Deliver /\ UNCHANGED <<discord, store, rec, phase, target, ever>>
      BY <2>19 DEF OnRemoveAbsent, Heard, boot, discord
    <3> QED
      BY <3>1, DeliverEarned
  <2>20. CASE HandlerFails
    <3>1. Deliver /\ UNCHANGED <<discord, store, rec, phase, target, ever>>
      BY <2>20 DEF HandlerFails, PersistFails, Heard, boot, discord
    <3> QED
      BY <3>1, DeliverEarned
  <2>21. CASE Authorize
    <3>1. LoadAll /\ UNCHANGED <<discord, queue, rec, phase, target, ever>>
      BY <2>21 DEF Authorize, boot, discord
    <3> QED
      BY <3>1, LoadAllEarned
  <2>22. ASSUME NEW u \in Users, Clear(u)
         PROVE  StoreEarned' /\ WorldEarned' /\ RecEarned'
    <3> DEFINE view == IF cache = NoCache THEN Loaded(disk) ELSE repo
               rows == IF cache = NoCache THEN view.rows ELSE cache
    <3>1. UNCHANGED <<discord, queue, rec, phase, target, ever>>
      BY <2>22 DEF Clear, boot, discord
    <3>2. PICK done :
            \/ /\ repo' = [rows |-> Cleared(view.rows, u, done), existed |-> TRUE, recognised |-> TRUE]
               /\ disk' = [kind |-> "ok", rows |-> repo'.rows]
               /\ Invalidate
            \/ repo' = view /\ cache' = rows /\ UNCHANGED disk
      BY <2>22 DEF Clear
    <3>3. Earned(view.rows) /\ Earned(rows) /\ view.rows \in SUBSET Row /\ WellFormed(view.rows)
      BY LoadedType DEF StoreEarned, StoreOK, Loaded, Earned, ActiveSources
    <3> HIDE DEF view, rows
    <3>4. Earned(Cleared(view.rows, u, done))
      BY <3>3, ClearedWellFormed DEF Earned
    <3>5. StoreEarned'
      <4>1. CASE /\ repo' = [rows |-> Cleared(view.rows, u, done), existed |-> TRUE, recognised |-> TRUE]
                 /\ disk' = [kind |-> "ok", rows |-> repo'.rows]
                 /\ Invalidate
        BY <3>1, <3>4, <4>1 DEF StoreEarned, Earned, Invalidate
      <4>2. CASE repo' = view /\ cache' = rows /\ UNCHANGED disk
        BY <3>1, <3>3, <4>2 DEF StoreEarned, Earned
      <4> QED
        BY <3>2, <4>1, <4>2
    <3> QED
      BY <3>1, <3>5
  <2> QED
    BY <2>1, <2>2, <2>3, <2>4, <2>5, <2>6, <2>7, <2>8, <2>9, <2>10, <2>11, <2>12, <2>13, <2>14,
       <2>15, <2>16, <2>17, <2>18, <2>19, <2>20, <2>21, <2>22 DEF Next, UserStep
<1> QED
  BY <1>1, <1>2, TypeCorrect, PTL DEF Spec

\* Nobody is authorized for a reaction they never placed.
THEOREM GrantsAreEarned == Spec => []GrantProvenance
<1>1. ProvenanceInv => GrantProvenance
  BY DEF ProvenanceInv, StoreEarned, RecEarned, GrantProvenance
<1> QED
  BY <1>1, ProvenanceInduction, PTL

-----------------------------------------------------------------------------
(* A file the program cannot read is never overwritten by it.              *)

Unreadable == disk.kind \in {"corrupt", "alien"}

\* Whoever may write has loaded first: the targets are installed in the turn
\* that loads, and clear reads the rows it is going to remove.
RefusalInv == Unreadable /\ (cache # NoCache \/ phase = "up") => Refused(repo)

\* Loading an unreadable file leaves it in place and the repository refusing
\* to write, unless the file moved to the backup.
LEMMA LoadAllRefuses ==
  ASSUME RefusalInv, LoadAll, Unreadable'
  PROVE  Refused(repo)' /\ disk' = disk
<1>1. CASE cache = NoCache /\ LoadFile /\ cache' = Loaded(disk).rows
  <2>1. repo' = Loaded(disk) /\ disk' = disk
    BY <1>1 DEF LoadFile, Missing, Unreadable
  <2> QED
    BY <2>1 DEF Loaded, Refused, Unreadable
<1>2. CASE cache # NoCache /\ UNCHANGED store
  BY <1>2 DEF RefusalInv, Unreadable, Refused, store
<1> QED
  BY <1>1, <1>2 DEF LoadAll

\* clear has something to remove only if the file could be read.
LEMMA ClearReadable ==
  ASSUME CacheInv, NEW u \in Users, Clear(u)
  PROVE  ~Unreadable
<1> SUFFICES ASSUME Unreadable PROVE FALSE
  OBVIOUS
<1>1. Loaded(disk).rows = {}
  BY DEF Unreadable, Loaded
<1>2. cache = NoCache \/ cache = {}
  BY <1>1 DEF CacheInv, CacheCoherent
<1>3. \A s \in Scopes : Cardinality(ActiveOf({}, u, s)) = 0
  BY FS_EmptySet DEF ActiveOf
<1> DEFINE view == IF cache = NoCache THEN Loaded(disk) ELSE repo
           rows == IF cache = NoCache THEN view.rows ELSE cache
<1>4. rows = {}
  BY <1>1, <1>2
<1>5. \E s \in Scopes : [t \in Scopes |-> Cardinality(ActiveOf(rows, u, t))][s] > 0
  BY DEF Clear
<1> HIDE DEF rows
<1>6. \E s \in Scopes : Cardinality(ActiveOf({}, u, s)) > 0
  BY <1>4, <1>5
<1> QED
  BY <1>3, <1>6

\* One step: whoever may write refuses while the file is unreadable, and its
\* bytes stay in place or in the backup.
LEMMA RefusalStep ==
  ASSUME CacheInv, ProvenanceInv, RefusalInv, [Next]_vars
  PROVE  /\ RefusalInv'
         /\ Unreadable => \/ disk'.kind = disk.kind
                          \/ disk.kind = "alien" /\ disk' = Missing /\ backup'
<1> DEFINE Kept == Unreadable => \/ disk'.kind = disk.kind
                                 \/ disk.kind = "alien" /\ disk' = Missing /\ backup'
<1>1. ASSUME UNCHANGED <<store, phase>> PROVE RefusalInv' /\ Kept
  BY <1>1 DEF store, RefusalInv, Unreadable, Refused
<1>2. ASSUME UNCHANGED store, phase' # "up" PROVE RefusalInv' /\ Kept
  BY <1>2 DEF store, RefusalInv, Unreadable, Refused
<1>3. ASSUME NEW next, Persist(next), phase = "up" PROVE RefusalInv' /\ Kept
  BY <1>3 DEF Persist, RefusalInv, Unreadable, Refused
<1>4. CASE UNCHANGED vars
  BY <1>1, <1>4 DEF vars, store
<1>5. CASE UserStep \/ (\E m \in 1..MaxMessages : DeleteMessage(m)) \/ LoseEvents
  BY <1>1, <1>5 DEF UserStep, AddReaction, RemoveReaction, Toggled, DeleteMessage, LoseEvents, boot
<1>6. CASE (\E m \in 1..MaxMessages : ResolveMessage(m)) \/ CreateMessage \/ BootstrapFails \/ Start
  BY <1>2, <1>6 DEF ResolveMessage, CreateMessage, BootstrapFails, Start
<1>7. CASE Stop
  BY <1>7 DEF Stop, RefusalInv
<1>8. CASE \E kind \in {"corrupt", "alien"} : DamageFile(kind)
  BY <1>8 DEF DamageFile, RefusalInv, Unreadable, CacheInv, Running, boot
<1>9. CASE BootstrapDone \/ Authorize
  <2>1. LoadAll
    BY <1>9 DEF BootstrapDone, Authorize
  <2>2. Kept
    BY <2>1 DEF LoadAll, LoadFile, store, Unreadable
  <2> QED
    BY <2>1, <2>2, LoadAllRefuses DEF RefusalInv, Refused
<1>10. CASE FetchAnswered \/ FetchFails \/ ReconcileSaveFails
  BY <1>1, <1>10 DEF FetchAnswered, FetchFails, ReconcileSaveFails, PersistFails, boot
<1>11. CASE IgnoreReaction \/ OnRemoveAbsent \/ HandlerFails
  BY <1>1, <1>11 DEF IgnoreReaction, OnRemoveAbsent, HandlerFails, PersistFails, Heard, boot
<1>12. CASE ReconcileEmoji
  <2>1. phase = "up"
    BY <1>12 DEF ReconcileEmoji, ProvenanceInv, RecEarned
  <2> QED
    BY <1>3, <1>12, <2>1 DEF ReconcileEmoji
<1>13. CASE OnAdd \/ OnRemove
  BY <1>3, <1>13 DEF OnAdd, OnRemove, Matches
<1>14. CASE \E u \in Users : Clear(u)
  <2>1. ~Unreadable /\ ~Unreadable'
    <3> PICK u \in Users : Clear(u)
      BY <1>14
    <3>1. ~Unreadable
      BY ClearReadable
    <3>2. disk' = disk \/ disk'.kind = "ok"
      BY DEF Clear
    <3> QED
      BY <3>1, <3>2 DEF Unreadable
  <2> QED
    BY <2>1 DEF RefusalInv
<1> QED
  BY <1>4, <1>5, <1>6, <1>7, <1>8, <1>9, <1>10, <1>11, <1>12, <1>13, <1>14 DEF Next

\* The bytes of a file the program could not read stay, in place or in the
\* backup: no interleaving of handlers, passes and restarts writes over them.
THEOREM UnreadableIsKept == Spec => UnrecognisedPreserved
<1>1. Init => RefusalInv
  BY DEF Init, RefusalInv
<1>2. CacheInv /\ ProvenanceInv /\ RefusalInv /\ [Next]_vars => RefusalInv'
  BY RefusalStep
<1>3. CacheInv /\ ProvenanceInv /\ RefusalInv /\ [Next]_vars =>
        [disk.kind \in {"corrupt", "alien"} =>
           \/ disk'.kind = disk.kind
           \/ disk.kind = "alien" /\ disk' = Missing /\ backup']_vars
  BY RefusalStep DEF Unreadable
<1> QED
  BY <1>1, <1>2, <1>3, CacheInduction, ProvenanceInduction, PTL DEF Spec, UnrecognisedPreserved

-----------------------------------------------------------------------------
(* Ranking, splicing and concatenating loses no row and makes up none.     *)

\* The same row but for its rank.
Like(x, r) ==
  /\ x.subjectId = r.subjectId /\ x.scope = r.scope /\ x.active = r.active
  /\ x.emoji = r.emoji /\ x.msg = r.msg

\* Ranking again changes a row in its rank only.
LEMMA RenumberedLike ==
  ASSUME NEW rows \in SUBSET Row, WellFormed(rows)
  PROVE  /\ \A r \in rows : \E x \in Renumbered(rows) : Like(x, r)
         /\ \A x \in Renumbered(rows) : \E r \in rows : Like(x, r)
<1>1. Renumbered(rows) = {Ranked(r, rows) : r \in rows}
  BY DEF Renumbered, Ranked, Lower
<1>2. \A r \in rows : Like(Ranked(r, rows), r)
  BY DEF Like, Ranked, Row
<1> QED
  BY <1>1, <1>2

\* The rows behind, moved up, and nothing else about them.
LEMMA ShiftedLike ==
  ASSUME NEW front, NEW r \in Row PROVE Like(Shifted(r, front), r)
BY DEF Like, Shifted, Row

\* Every row of two arrays is in their concatenation, but for its rank.
LEMMA ConcatLike ==
  ASSUME NEW front \in SUBSET Row, WellFormed(front), NEW back \in SUBSET Row, WellFormed(back)
  PROVE  /\ \A r \in front \cup back : \E x \in Concat(front, back) : Like(x, r)
         /\ \A x \in Concat(front, back) : \E r \in front \cup back : Like(x, r)
<1>1. Concat(front, back) = Renumbered(front) \cup {Shifted(r, front) : r \in Renumbered(back)}
  BY DEF Concat, Shifted, Same
<1>2. \A r \in Renumbered(back) : Like(Shifted(r, front), r)
  BY RenumberedWellFormed, ShiftedLike
<1>3. ASSUME NEW r \in front \cup back PROVE \E x \in Concat(front, back) : Like(x, r)
  <2>1. CASE r \in front
    BY <1>1, <2>1, RenumberedLike
  <2>2. CASE r \in back
    <3>1. PICK q \in Renumbered(back) : Like(q, r)
      BY <2>2, RenumberedLike
    <3>2. Like(Shifted(q, front), r)
      BY <1>2, <3>1 DEF Like
    <3> QED
      BY <1>1, <3>2
  <2> QED
    BY <2>1, <2>2
<1>4. ASSUME NEW x \in Concat(front, back) PROVE \E r \in front \cup back : Like(x, r)
  <2>1. CASE x \in Renumbered(front)
    BY <2>1, RenumberedLike
  <2>2. ASSUME NEW q \in Renumbered(back), x = Shifted(q, front) PROVE \E r \in front \cup back : Like(x, r)
    <3>1. PICK r \in back : Like(q, r)
      BY RenumberedLike
    <3>2. Like(x, r)
      BY <1>2, <2>2, <3>1 DEF Like
    <3> QED
      BY <3>2
  <2> QED
    BY <1>1, <2>1, <2>2
<1> QED
  BY <1>3, <1>4

-----------------------------------------------------------------------------
(* What is announced is written.                                           *)

\* The pass writes an active row for every grant it is going to announce.
LEMMA RebuiltGrants ==
  ASSUME IsFiniteSet(Users),
         NEW rows \in SUBSET Row, WellFormed(rows), NEW m \in Nat, NEW e \in Emojis,
         NEW reactors \in SUBSET Users, NEW v \in Nat,
         NEW w \in reactors, \A r \in rows : ~(r.msg = m /\ r.emoji = e /\ r.active /\ r.subjectId = w)
  PROVE  ActiveOf(Rebuilt(rows, m, e, reactors, v), w, EmojiScope[e]) # {}
<1> DEFINE row == ActiveRow(w, e, m, v)
<1>1. PICK front \in SUBSET Row : front = rows \ Source(rows, m, e) /\ WellFormed(front)
  BY RebuiltParts
<1>2. PICK new \in SUBSET Row : new = Appended(rows, m, e, reactors, v) /\ WellFormed(new)
  BY RebuiltParts
<1>3. row \in new
  BY <1>2 DEF Appended, Fresh, Newcomers, ActiveIn, Source
<1>4. row.subjectId = w /\ row.scope = EmojiScope[e] /\ row.active
  BY DEF ActiveRow
<1> HIDE DEF row
<1>5. PICK x \in Concat(front, new) : Like(x, row)
  BY <1>1, <1>2, <1>3, ConcatLike
<1>6. x.subjectId = w /\ x.scope = EmojiScope[e] /\ x.active
  BY <1>4, <1>5 DEF Like
<1>7. Rebuilt(rows, m, e, reactors, v) = Concat(front, new)
  BY <1>1, <1>2, RebuiltIsConcat
<1> QED
  BY <1>5, <1>6, <1>7 DEF ActiveOf

\* upsert writes the row of the grant it announces.
LEMMA UpsertedGrant ==
  ASSUME NEW rows, NEW u \in Users, NEW e \in Emojis, NEW m \in Nat, NEW v \in Nat
  PROVE  ActiveOf(Upserted(rows, ActiveRow(u, e, m, v)), u, EmojiScope[e]) # {}
<1> DEFINE row == [ActiveRow(u, e, m, v) EXCEPT !.pos = 0]
<1>1. row.subjectId = u /\ row.scope = EmojiScope[e] /\ row.active
  BY DEF ActiveRow
<1>2. row \in Upserted(rows, ActiveRow(u, e, m, v))
  BY DEF Upserted
<1> QED
  BY <1>1, <1>2 DEF ActiveOf

\* Steps announce no grant but those of the reaction handler and the pass.
Announced == \A ev \in events' : ev.kind = "grant" => ActiveOf(disk'.rows, ev.subjectId, ev.scope) # {}

\* A grant is announced only once the file holds it: authorize answers for
\* it as soon as a listener can ask.
THEOREM GrantsAreWritten == Spec => GrantsDurable
<1>1. TypeOK /\ Next => Announced
  <2> SUFFICES ASSUME TypeOK, Next PROVE Announced
    OBVIOUS
  <2> DiscordOK /\ StoreOK /\ BootOK /\ RecOK /\ RestOK
    BY TypeParts
  <2>1. ASSUME events' = {} PROVE Announced
    BY <2>1 DEF Announced
  <2>2. CASE ReconcileEmoji
    <3> DEFINE next == Rebuilt(rec.snapshot, target, Emoji, rec.answer, policy)
               grants == NewGrants(rec.snapshot, target, Emoji, rec.answer)
    <3>1. /\ disk'.rows = next /\ Reconciling /\ rec.answer # NoAnswer
          /\ \A ev \in events' : ev.kind = "grant" =>
               \E p \in grants : ev.subjectId = p[1] /\ ev.scope = p[2]
      BY <2>2 DEF ReconcileEmoji, Persist
    <3>2. /\ rec.snapshot \in SUBSET Row /\ WellFormed(rec.snapshot)
          /\ rec.answer \in SUBSET Users /\ target \in Nat /\ policy \in Nat /\ Emoji \in Emojis
      BY <3>1, TurnEmoji DEF RecOK, BootOK
    <3>3. ASSUME NEW p \in grants PROVE ActiveOf(next, p[1], p[2]) # {}
      <4>1. PICK w \in rec.answer :
              /\ p = <<w, EmojiScope[Emoji]>>
              /\ \A r \in rec.snapshot :
                   ~(r.msg = target /\ r.emoji = Emoji /\ r.active /\ r.subjectId = w)
        BY DEF NewGrants
      <4>2. ActiveOf(next, w, EmojiScope[Emoji]) # {}
        BY <3>2, <4>1, UsersAssumption, RebuiltGrants
      <4> QED
        BY <4>1, <4>2
    <3> HIDE DEF next, grants
    <3> QED
      BY <3>1, <3>3 DEF Announced
  <2>3. CASE OnAdd
    <3> DEFINE ev == Head(queue)
               row == ActiveRow(ev.user, ev.emoji, ev.msg, policy)
    <3>1. /\ disk'.rows = Upserted(repo.rows, row) /\ Deliver
          /\ events' = {[kind |-> "grant", subjectId |-> ev.user, scope |-> row.scope]}
      BY <2>3 DEF OnAdd, Persist
    <3>2. ev \in Event
      BY <3>1, DeliverType
    <3>3. ev.user \in Users /\ ev.emoji \in Emojis /\ ev.msg \in Nat /\ policy \in Nat
      BY <3>2 DEF Event, BootOK
    <3>4. row.scope = EmojiScope[ev.emoji]
      BY DEF ActiveRow
    <3>5. ActiveOf(disk'.rows, ev.user, EmojiScope[ev.emoji]) # {}
      BY <3>1, <3>3, UpsertedGrant
    <3> HIDE DEF ev, row
    <3> QED
      BY <3>1, <3>4, <3>5 DEF Announced
  <2>4. CASE OnRemove
    BY <2>4 DEF OnRemove, Announced
  <2>5. CASE \E u \in Users : Clear(u)
    <3>1. PICK u \in Users : Clear(u)
      BY <2>5
    <3>2. events' = {} \/ events' = {[kind |-> "clear", subjectId |-> u]}
      BY <3>1 DEF Clear
    <3> QED
      BY <3>2 DEF Announced
  <2>6. CASE UserStep \/ (\E m \in 1..MaxMessages : DeleteMessage(m) \/ ResolveMessage(m))
    BY <2>1, <2>6 DEF UserStep, AddReaction, RemoveReaction, Toggled, DeleteMessage, ResolveMessage
  <2>7. CASE LoseEvents \/ Start \/ Stop \/ \E kind \in {"corrupt", "alien"} : DamageFile(kind)
    BY <2>1, <2>7 DEF LoseEvents, Start, Stop, DamageFile
  <2>8. CASE CreateMessage \/ BootstrapFails \/ BootstrapDone \/ Authorize
    BY <2>1, <2>8 DEF CreateMessage, BootstrapFails, BootstrapDone, Authorize
  <2>9. CASE FetchAnswered \/ FetchFails \/ ReconcileSaveFails
    BY <2>1, <2>9 DEF FetchAnswered, FetchFails, ReconcileSaveFails
  <2>10. CASE IgnoreReaction \/ OnRemoveAbsent \/ HandlerFails
    BY <2>1, <2>10 DEF IgnoreReaction, OnRemoveAbsent, HandlerFails
  <2> QED
    BY <2>2, <2>3, <2>4, <2>5, <2>6, <2>7, <2>8, <2>9, <2>10 DEF Next
<1>2. TypeOK /\ [Next]_vars =>
        [\A ev \in events' : ev.kind = "grant" => ActiveOf(disk'.rows, ev.subjectId, ev.scope) # {}]_vars
  BY <1>1 DEF Announced
<1> QED
  BY <1>2, TypeCorrect, PTL DEF Spec, GrantsDurable

-----------------------------------------------------------------------------
(* Where every row stands: the rows of a key rank 0, 1, ... without a gap, *)
(* so a row that is not spliced keeps its rank when the rest is ranked.    *)

Dense(rows) == \A r \in rows : r.pos = Cardinality(Lower(rows, r))

\* Ranking again moves a row past no other.
LEMMA LowerRanked ==
  ASSUME NEW rows \in SUBSET Row, WellFormed(rows), NEW r \in rows
  PROVE  Lower(Renumbered(rows), Ranked(r, rows)) = {Ranked(q, rows) : q \in Lower(rows, r)}
<1>1. Renumbered(rows) = {Ranked(q, rows) : q \in rows}
  BY DEF Renumbered, Ranked, Lower
<1>2. \A q \in rows : /\ Ranked(q, rows).pos = Cardinality(Lower(rows, q))
                      /\ Cardinality(Lower(rows, q)) \in Nat /\ q.pos \in Nat
  BY LowerRank DEF Ranked, Row
<1>3. \A q \in rows : SameKey(Ranked(q, rows), Ranked(r, rows)) <=> SameKey(q, r)
  BY DEF Ranked, Row, SameKey
<1>4. ASSUME NEW q \in rows, SameKey(q, r)
      PROVE  Cardinality(Lower(rows, q)) < Cardinality(Lower(rows, r)) <=> q.pos < r.pos
  <2>1. SameKey(r, q)
    BY <1>4 DEF SameKey
  <2>2. CASE q.pos < r.pos
    BY <1>4, <2>2, LowerRank
  <2>3. CASE r.pos < q.pos
    <3>1. Cardinality(Lower(rows, r)) < Cardinality(Lower(rows, q))
      BY <2>1, <2>3, LowerRank
    <3> QED
      BY <1>2, <2>3, <3>1
  <2>4. CASE q.pos = r.pos
    <3>1. q = r
      BY <1>4, <2>4 DEF WellFormed
    <3> QED
      BY <1>2, <3>1
  <2> QED
    BY <1>2, <2>2, <2>3, <2>4
<1>5. \A q \in rows : q \in Lower(rows, r) <=>
        SameKey(Ranked(q, rows), Ranked(r, rows)) /\ Ranked(q, rows).pos < Ranked(r, rows).pos
  BY <1>2, <1>3, <1>4 DEF Lower
<1>6. \A x \in Renumbered(rows) : \E q \in rows : x = Ranked(q, rows)
  BY <1>1
<1>7. ASSUME NEW x \in Lower(Renumbered(rows), Ranked(r, rows))
      PROVE  x \in {Ranked(q, rows) : q \in Lower(rows, r)}
  <2>1. PICK q \in rows : x = Ranked(q, rows)
    BY <1>6 DEF Lower
  <2>2. SameKey(x, Ranked(r, rows)) /\ x.pos < Ranked(r, rows).pos
    BY DEF Lower
  <2> QED
    BY <1>5, <2>1, <2>2
<1>8. ASSUME NEW q \in Lower(rows, r)
      PROVE  Ranked(q, rows) \in Lower(Renumbered(rows), Ranked(r, rows))
  <2>1. q \in rows /\ Ranked(q, rows) \in Renumbered(rows)
    BY <1>1 DEF Lower
  <2> QED
    BY <1>5, <2>1 DEF Lower
<1> QED
  BY <1>7, <1>8

\* Two rows that rank alike are one row.
LEMMA RankedApart ==
  ASSUME NEW rows \in SUBSET Row, WellFormed(rows), NEW r \in rows, NEW q \in rows,
         Ranked(r, rows) = Ranked(q, rows)
  PROVE  r = q
<1>1. SameKey(r, q) /\ SameKey(q, r)
  BY DEF SameKey, Ranked, Row
<1>2. Cardinality(Lower(rows, r)) = Cardinality(Lower(rows, q))
  BY DEF Ranked, Row
<1>3. r.pos \in Nat /\ q.pos \in Nat
  BY DEF Row
<1>4. ~(r.pos < q.pos) /\ ~(q.pos < r.pos)
  BY <1>1, <1>2, LowerRank
<1> QED
  BY <1>1, <1>3, <1>4 DEF WellFormed

\* Ranking again leaves no gap.
LEMMA RenumberedDense ==
  ASSUME NEW rows \in SUBSET Row, WellFormed(rows)
  PROVE  Dense(Renumbered(rows))
<1> SUFFICES ASSUME NEW x \in Renumbered(rows) PROVE x.pos = Cardinality(Lower(Renumbered(rows), x))
  BY DEF Dense
<1>1. PICK r \in rows : x = Ranked(r, rows)
  BY RenumberedWellFormed
<1>2. x.pos = Cardinality(Lower(rows, r))
  BY <1>1 DEF Ranked, Row
<1> DEFINE below == Lower(rows, r)
           ranked == {Ranked(q, rows) : q \in below}
           f == [q \in below |-> Ranked(q, rows)]
<1>3. below \subseteq rows /\ IsFiniteSet(below)
  <2>1. below \in SUBSET rows
    BY DEF Lower
  <2> HIDE DEF below
  <2> QED
    BY <2>1, FS_Subset DEF WellFormed
<1>4. f \in Bijection(below, ranked)
  <2>1. f \in [below -> ranked] /\ \A t \in ranked : \E q \in below : f[q] = t
    OBVIOUS
  <2>2. \A q, p \in below : f[q] = f[p] => q = p
    BY <1>3, RankedApart
  <2> HIDE DEF f, below, ranked
  <2> QED
    BY <2>1, <2>2 DEF Bijection, Injection, Surjection, IsInjective
<1> HIDE DEF f
<1>5. Cardinality(ranked) = Cardinality(below)
  <2> HIDE DEF below, ranked
  <2>1. ExistsBijection(below, ranked)
    BY <1>4 DEF ExistsBijection
  <2> QED
    BY <1>3, <2>1, FS_Bijection
<1>6. Lower(Renumbered(rows), x) = ranked
  BY <1>1, LowerRanked
<1> QED
  BY <1>2, <1>5, <1>6

\* Without a gap, the first of a key is there: the ranks of its n rows are
\* n different numbers below n.
LEMMA DenseHasFirst ==
  ASSUME NEW rows \in SUBSET Row, WellFormed(rows), Dense(rows), NEW r \in rows
  PROVE  \E q \in rows : SameKey(q, r) /\ q.pos = 0
<1> DEFINE S == Same(rows, r)
           n == Cardinality(S)
           f == [q \in S |-> q.pos]
<1>1. S \in SUBSET rows /\ r \in S /\ IsFiniteSet(S)
  <2>1. S \in SUBSET rows /\ r \in S
    BY DEF Same, SameKey
  <2> HIDE DEF S
  <2> QED
    BY <2>1, FS_Subset DEF WellFormed
<1>2. n \in Nat /\ n # 0
  <2> HIDE DEF S
  <2> QED
    BY <1>1, FS_CardinalityType, FS_EmptySet
<1>3. ASSUME NEW q \in S PROVE q.pos \in 0 .. n - 1
  <2>1. Lower(rows, q) \in SUBSET S /\ q \notin Lower(rows, q)
    BY DEF Lower, Same, SameKey, Row
  <2>2. q.pos = Cardinality(Lower(rows, q)) /\ q.pos \in Nat
    BY <1>1 DEF Dense, Row
  <2> HIDE DEF S
  <2>3. Cardinality(Lower(rows, q)) <= n /\ Cardinality(Lower(rows, q)) # n
    BY <1>1, <2>1, FS_Subset
  <2> QED
    BY <1>2, <2>2, <2>3
<1>4. f \in Injection(S, 0 .. n - 1)
  <2>1. f \in [S -> 0 .. n - 1]
    BY <1>3
  <2>2. \A q, p \in S : f[q] = f[p] => q = p
    <3>1. \A q, p \in S : SameKey(q, p)
      BY DEF Same, SameKey
    <3> QED
      BY <1>1, <3>1 DEF WellFormed
  <2> HIDE DEF f, S, n
  <2> QED
    BY <2>1, <2>2 DEF Injection, IsInjective
<1>5. IsFiniteSet(0 .. n - 1) /\ Cardinality(0 .. n - 1) = n
  <2> HIDE DEF n
  <2> QED
    BY <1>2, FS_Interval
<1>6. f \in Surjection(S, 0 .. n - 1)
  <2> HIDE DEF f, S
  <2> QED
    BY <1>4, <1>5, FS_Injection
<1>7. PICK q \in S : f[q] = 0
  <2>1. 0 \in 0 .. n - 1
    BY <1>2
  <2> HIDE DEF f, S, n
  <2> QED
    BY <1>6, <2>1 DEF Surjection
<1> QED
  BY <1>7 DEF Same

\* A row of another key changes no rank.
LEMMA LowerOf ==
  ASSUME NEW rows, NEW S, NEW r, \A q : SameKey(q, r) => (q \in S <=> q \in rows)
  PROVE  Lower(S, r) = Lower(rows, r)
BY DEF Lower

\* upsert overwrites the first of the key, or there is none of it.
LEMMA UpsertedDense ==
  ASSUME NEW rows \in SUBSET Row, WellFormed(rows), Dense(rows), NEW row \in Row
  PROVE  Dense(Upserted(rows, row))
<1> DEFINE first == [row EXCEPT !.pos = 0]
           old == {q \in rows : SameKey(q, row) /\ q.pos = 0}
           next == Upserted(rows, row)
<1>1. next = (rows \ old) \cup {first}
  BY DEF Upserted
<1>2. first \in Row /\ first.pos = 0 /\ SameKey(first, row) /\ \A q : SameKey(q, first) <=> SameKey(q, row)
  BY DEF Row, SameKey
<1>3. \A q \in rows : q.pos \in Nat
  BY DEF Row
<1> HIDE DEF first
<1>4. Lower(next, first) = {}
  BY <1>1, <1>2, <1>3 DEF Lower
<1>5. Cardinality({}) = 0
  BY FS_EmptySet
<1>6. ASSUME NEW r \in rows \ old, ~SameKey(r, row) PROVE r.pos = Cardinality(Lower(next, r))
  <2>1. \A q : SameKey(q, r) => (q \in next <=> q \in rows)
    <3>1. \A q : SameKey(q, r) => ~SameKey(q, row)
      BY <1>6 DEF SameKey
    <3> QED
      BY <1>1, <1>2, <3>1
  <2>2. Lower(next, r) = Lower(rows, r)
    BY <2>1, LowerOf
  <2> QED
    BY <2>2 DEF Dense
<1>7. ASSUME NEW r \in rows \ old, SameKey(r, row) PROVE r.pos = Cardinality(Lower(next, r))
  <2>1. PICK q \in rows : SameKey(q, r) /\ q.pos = 0
    BY DenseHasFirst
  <2>2. SameKey(q, row) /\ r.pos # 0 /\ r.pos \in Nat
    BY <1>3, <1>7, <2>1 DEF SameKey
  <2>3. \A p \in rows : SameKey(p, row) /\ p.pos = 0 => p = q
    BY <2>1, <2>2 DEF WellFormed, SameKey
  <2>4. Lower(next, r) = (Lower(rows, r) \ {q}) \cup {first}
    <3>1. SameKey(first, r)
      BY <1>2, <1>7 DEF SameKey
    <3>2. \A p : SameKey(p, r) => SameKey(p, row)
      BY <1>7 DEF SameKey
    <3>3. \A p \in rows : SameKey(p, r) => (p \in old <=> p = q)
      BY <2>1, <2>2, <2>3, <3>2
    <3>4. \A p \in Lower(next, r) : p = first \/ (p \in Lower(rows, r) /\ p # q)
      BY <1>1, <2>1, <3>3 DEF Lower
    <3>5. \A p \in Lower(rows, r) : p # q => p \in Lower(next, r)
      BY <1>1, <3>3 DEF Lower
    <3>6. first \in Lower(next, r)
      BY <1>1, <1>2, <2>2, <3>1 DEF Lower
    <3> QED
      BY <3>4, <3>5, <3>6
  <2>5. IsFiniteSet(Lower(rows, r)) /\ q \in Lower(rows, r)
    <3>1. Lower(rows, r) \in SUBSET rows
      BY DEF Lower
    <3>2. IsFiniteSet(Lower(rows, r))
      BY <3>1, FS_Subset DEF WellFormed
    <3> QED
      BY <2>1, <2>2, <3>2 DEF Lower
  <2>6. first \notin Lower(rows, r) \ {q}
    <3>1. ASSUME first \in rows PROVE first = q
      BY <1>2, <2>3, <3>1
    <3> QED
      BY <3>1 DEF Lower
  <2>7. Cardinality(Lower(rows, r)) \in Nat
    BY <2>5, FS_CardinalityType
  <2>8. IsFiniteSet(Lower(rows, r) \ {q}) /\ Cardinality(Lower(rows, r) \ {q}) = Cardinality(Lower(rows, r)) - 1
    BY <2>5, FS_RemoveElement
  <2>9. Cardinality((Lower(rows, r) \ {q}) \cup {first}) = Cardinality(Lower(rows, r) \ {q}) + 1
    BY <2>6, <2>8, FS_AddElement
  <2>10. r.pos = Cardinality(Lower(rows, r))
    BY DEF Dense
  <2> QED
    BY <2>4, <2>7, <2>8, <2>9, <2>10
<1> HIDE DEF old, next
<1>8. ASSUME NEW r \in next PROVE r.pos = Cardinality(Lower(next, r))
  <2>1. CASE r = first
    BY <1>2, <1>4, <1>5, <2>1
  <2>2. CASE r \in rows \ old
    BY <1>6, <1>7, <2>2
  <2> QED
    BY <1>1, <2>1, <2>2
<1> QED
  BY <1>8 DEF Dense, next

\* Ranking keeps as many rows of each key.
LEMMA RenumberedSame ==
  ASSUME NEW rows \in SUBSET Row, WellFormed(rows), NEW r
  PROVE  /\ IsFiniteSet(Same(Renumbered(rows), r)) /\ Cardinality(Same(rows, r)) \in Nat
         /\ Cardinality(Same(Renumbered(rows), r)) = Cardinality(Same(rows, r))
<1> DEFINE S == Same(rows, r)
           T == Same(Renumbered(rows), r)
           f == [q \in S |-> Ranked(q, rows)]
<1>1. S \subseteq rows /\ IsFiniteSet(S)
  <2>1. S \in SUBSET rows
    BY DEF Same
  <2> HIDE DEF S
  <2> QED
    BY <2>1, FS_Subset DEF WellFormed
<1>2. Renumbered(rows) = {Ranked(q, rows) : q \in rows}
  BY DEF Renumbered, Ranked, Lower
<1>3. \A q \in rows : SameKey(Ranked(q, rows), r) <=> SameKey(q, r)
  BY DEF Ranked, Row, SameKey
<1>4. f \in [S -> T] /\ \A t \in T : \E q \in S : f[q] = t
  BY <1>2, <1>3 DEF Same
<1>5. \A q, p \in S : f[q] = f[p] => q = p
  BY <1>1, RankedApart
<1> HIDE DEF f, S, T
<1>6. ExistsBijection(S, T)
  BY <1>4, <1>5 DEF Bijection, Injection, Surjection, IsInjective, ExistsBijection
<1>7. IsFiniteSet(T) /\ Cardinality(T) = Cardinality(S) /\ Cardinality(S) \in Nat
  BY <1>1, <1>6, FS_Bijection, FS_CardinalityType
<1> QED
  BY <1>7 DEF S, T

\* The second array continues the ranks of the first without a gap.
LEMMA ConcatDense ==
  ASSUME NEW front \in SUBSET Row, WellFormed(front), NEW back \in SUBSET Row, WellFormed(back)
  PROVE  Dense(Concat(front, back))
<1> DEFINE F == Renumbered(front)
           B == Renumbered(back)
           C == Concat(front, back)
           up(r) == Shifted(r, front)
<1>1. C = F \cup {up(r) : r \in B}
  BY DEF Concat, Shifted, Same
<1>2. /\ F \in SUBSET Row /\ WellFormed(F) /\ B \in SUBSET Row /\ WellFormed(B)
      /\ Dense(F) /\ Dense(B)
  BY RenumberedWellFormed, RenumberedDense
<1>3. ASSUME NEW r \in B
      PROVE  /\ r \in Row /\ r.pos \in Nat /\ Cardinality(Same(front, r)) \in Nat
             /\ up(r).pos = r.pos + Cardinality(Same(front, r))
             /\ SameKey(up(r), r) /\ \A q : SameKey(q, up(r)) <=> SameKey(q, r)
  <2>1. r \in Row /\ r.pos \in Nat
    BY <1>2 DEF Row
  <2>2. Cardinality(Same(front, r)) \in Nat
    BY RenumberedSame
  <2> QED
    BY <2>1, <2>2 DEF Shifted, Row, SameKey
\* Rows in front rank below all of theirs behind.
<1>4. ASSUME NEW x \in F, NEW r \in B, SameKey(x, r)
      PROVE  x.pos \in Nat /\ x.pos < Cardinality(Same(front, r))
  <2>1. x.pos \in Nat
    BY <1>2 DEF Row
  <2> QED
    BY <1>3, <1>4, <2>1, FrontRank
<1> HIDE DEF up, C, F, B
<1>5. ASSUME NEW x \in F PROVE x.pos = Cardinality(Lower(C, x))
  <2>1. ASSUME NEW r \in B, SameKey(up(r), x) PROVE ~(up(r).pos < x.pos)
    <3>1. SameKey(x, r)
      BY <1>3, <2>1 DEF SameKey
    <3> QED
      BY <1>3, <1>4, <3>1
  <2>2. Lower(C, x) = Lower(F, x)
    BY <1>1, <2>1 DEF Lower
  <2> QED
    BY <1>2, <2>2 DEF Dense
<1>6. ASSUME NEW r \in B PROVE up(r).pos = Cardinality(Lower(C, up(r)))
  <2> DEFINE below == Lower(B, r)
             above == {up(q) : q \in below}
             ahead == Same(F, r)
             f == [q \in below |-> up(q)]
  <2>1. \A q \in B : SameKey(q, r) => Same(front, q) = Same(front, r)
    BY DEF Same, SameKey
  <2>2. \A q \in B : SameKey(q, r) =>
          up(q).pos = q.pos + Cardinality(Same(front, r)) /\ q.pos \in Nat
    BY <1>3, <2>1
  <2>3. Lower(C, up(r)) = ahead \cup above
    <3>1. \A x : SameKey(x, up(r)) <=> SameKey(x, r)
      BY <1>3
    <3>2. \A q \in B : SameKey(up(q), r) <=> SameKey(q, r)
      BY <1>3 DEF SameKey
    <3>3. ASSUME NEW x \in F, SameKey(x, r) PROVE x.pos < up(r).pos
      BY <1>3, <1>4, <3>3
    <3>4. \A q \in B : SameKey(q, r) => (up(q).pos < up(r).pos <=> q.pos < r.pos)
      BY <1>3, <2>2
    <3>5. \A x \in Lower(C, up(r)) : x \in ahead \cup above
      BY <1>1, <3>1, <3>2, <3>4 DEF Lower, Same
    <3>6. \A x \in ahead : x \in Lower(C, up(r))
      BY <1>1, <3>1, <3>3 DEF Lower, Same
    <3>7. \A q \in below : up(q) \in Lower(C, up(r))
      BY <1>1, <3>1, <3>2, <3>4 DEF Lower
    <3> QED
      BY <3>5, <3>6, <3>7
  <2>4. \A q \in below : q \in B /\ SameKey(q, r)
    BY DEF Lower
  <2>5. IsFiniteSet(below)
    <3>1. below \in SUBSET B
      BY <2>4
    <3> HIDE DEF below
    <3> QED
      BY <1>2, <3>1, FS_Subset DEF WellFormed
  <2>6. f \in [below -> above] /\ \A t \in above : \E q \in below : f[q] = t
    OBVIOUS
  <2>7. \A q, p \in below : f[q] = f[p] => q = p
    <3> SUFFICES ASSUME NEW q \in below, NEW p \in below, up(q) = up(p) PROVE q = p
      OBVIOUS
    <3>1. q \in B /\ p \in B /\ SameKey(q, p)
      BY <2>4 DEF SameKey
    <3>2. q.pos = p.pos
      BY <1>3, <2>2, <2>4
    <3> QED
      BY <1>2, <3>1, <3>2 DEF WellFormed
  <2>8. IsFiniteSet(above) /\ Cardinality(above) = Cardinality(below)
    <3> HIDE DEF f, above, below
    <3>1. ExistsBijection(below, above)
      BY <2>6, <2>7 DEF Bijection, Injection, Surjection, IsInjective, ExistsBijection
    <3> QED
      BY <2>5, <3>1, FS_Bijection
  <2>9. IsFiniteSet(ahead) /\ Cardinality(ahead) = Cardinality(Same(front, r))
    BY RenumberedSame DEF F
  <2>10. ahead \cap above = {}
    <3>1. ASSUME NEW x \in ahead, NEW q \in below, x = up(q) PROVE FALSE
      <4>1. x.pos < Cardinality(Same(front, r)) /\ x.pos \in Nat
        BY <1>4 DEF Same
      <4>2. x.pos = q.pos + Cardinality(Same(front, r)) /\ q.pos \in Nat
        BY <2>2, <2>4, <3>1
      <4>3. Cardinality(Same(front, r)) \in Nat
        BY <1>3
      <4> QED
        BY <4>1, <4>2, <4>3
    <3> QED
      BY <3>1
  <2>11. Cardinality(below) = r.pos
    BY <1>2 DEF Dense
  <2>12. Cardinality(ahead \cup above) = Cardinality(ahead) + Cardinality(above) - Cardinality(ahead \cap above)
    <3> HIDE DEF ahead, above
    <3> QED
      BY <2>8, <2>9, FS_Union
  <2>13. Cardinality(ahead \cap above) = 0
    BY <2>10, FS_EmptySet
  <2>14. up(r).pos = r.pos + Cardinality(Same(front, r)) /\ r.pos \in Nat /\ Cardinality(Same(front, r)) \in Nat
    BY <1>3
  <2> QED
    BY <2>3, <2>8, <2>9, <2>11, <2>12, <2>13, <2>14
<1>7. \A x \in C : x.pos = Cardinality(Lower(C, x))
  BY <1>1, <1>5, <1>6
<1> QED
  BY <1>7 DEF Dense, C

\* remove leaves no gap.
LEMMA RemovedDense ==
  ASSUME NEW rows \in SUBSET Row, WellFormed(rows), NEW u, NEW s
  PROVE  Dense(Removed(rows, u, s))
BY FilterWellFormed, RenumberedDense DEF Removed

\* The removals of clear leave no gap.
LEMMA ClearedDense ==
  ASSUME NEW rows \in SUBSET Row, WellFormed(rows), NEW u, NEW k
  PROVE  Dense(Cleared(rows, u, k))
BY FilterWellFormed, RenumberedDense DEF Cleared

\* Nor does the array the pass puts together.
LEMMA RebuiltDense ==
  ASSUME IsFiniteSet(Users),
         NEW rows \in SUBSET Row, WellFormed(rows), NEW m \in Nat, NEW e \in Emojis,
         NEW reactors \in SUBSET Users, NEW v \in Nat
  PROVE  Dense(Rebuilt(rows, m, e, reactors, v))
BY RebuiltParts, RebuiltIsConcat, ConcatDense

-----------------------------------------------------------------------------
(* What the handlers leave of the rows of others.                          *)

\* Overwriting or pushing a row leaves the rows of others.
LEMMA UpsertedOthers ==
  ASSUME NEW rows, NEW row \in Row, NEW u, row.subjectId # u
  PROVE  RowsOf(Upserted(rows, row), u) = RowsOf(rows, u)
BY DEF RowsOf, Upserted, SameKey, Row

\* A splice ranks again only the rows of the subject it took one from.
LEMMA RenumberedOthers ==
  ASSUME NEW rows \in SUBSET Row, WellFormed(rows), Dense(rows), NEW S \in SUBSET rows, NEW u,
         \A r \in rows : r.subjectId = u => r \in S
  PROVE  RowsOf(Renumbered(S), u) = RowsOf(rows, u)
<1>1. Renumbered(S) = {Ranked(r, S) : r \in S}
  BY DEF Renumbered, Ranked, Lower
<1>2. ASSUME NEW r \in S, r.subjectId = u PROVE Ranked(r, S) = r
  <2>1. Lower(S, r) = Lower(rows, r)
    BY <1>2 DEF Lower, SameKey
  <2>2. r \in Row /\ r.pos = Cardinality(Lower(S, r))
    BY <2>1 DEF Dense
  <2> QED
    BY <2>2 DEF Ranked, Row
<1>3. \A r \in S : Ranked(r, S).subjectId = r.subjectId
  BY DEF Ranked, Row
<1>4. \A x \in RowsOf(Renumbered(S), u) : x \in RowsOf(rows, u)
  BY <1>1, <1>2, <1>3 DEF RowsOf
<1>5. \A x \in RowsOf(rows, u) : x \in RowsOf(Renumbered(S), u)
  BY <1>1, <1>2 DEF RowsOf
<1> QED
  BY <1>4, <1>5

\* remove leaves the rows of others as they are, ranks included.
LEMMA RemovedOthers ==
  ASSUME NEW rows \in SUBSET Row, WellFormed(rows), Dense(rows), NEW v, NEW s, NEW u, u # v
  PROVE  RowsOf(Removed(rows, v, s), u) = RowsOf(rows, u)
<1> DEFINE S == {r \in rows : ~(r.subjectId = v /\ r.scope = s /\ r.pos = 0)}
<1>1. S \in SUBSET rows /\ \A r \in rows : r.subjectId = u => r \in S
  OBVIOUS
<1>2. Removed(rows, v, s) = Renumbered(S)
  BY DEF Removed
<1> HIDE DEF S
<1> QED
  BY <1>1, <1>2, RenumberedOthers

\* And so does clear.
LEMMA ClearedOthers ==
  ASSUME NEW rows \in SUBSET Row, WellFormed(rows), Dense(rows), NEW v, NEW k, NEW u, u # v
  PROVE  RowsOf(Cleared(rows, v, k), u) = RowsOf(rows, u)
<1> DEFINE S == {r \in rows : ~(r.subjectId = v /\ r.pos < k[r.scope])}
<1>1. S \in SUBSET rows /\ \A r \in rows : r.subjectId = u => r \in S
  OBVIOUS
<1>2. Cleared(rows, v, k) = Renumbered(S)
  BY DEF Cleared
<1> HIDE DEF S
<1> QED
  BY <1>1, <1>2, RenumberedOthers

-----------------------------------------------------------------------------
(* One consent message and one emoji per scope: a key has one row, of the  *)
(* one reaction it can be of.                                              *)

Plain(rows) == \A r \in rows : r.pos = 0 /\ r.msg = 1 /\ r.scope = EmojiScope[r.emoji]

Injective == \A e, f \in Emojis : EmojiScope[e] = EmojiScope[f] => e = f

\* As many scopes as emojis: no two emojis share one.
LEMMA ScopesApart == Cardinality(Scopes) = Cardinality(Emojis) => Injective
<1> SUFFICES ASSUME Cardinality(Scopes) = Cardinality(Emojis) PROVE Injective
  OBVIOUS
<1> DEFINE n == Len(EmojiOrder)
           f == [e \in Emojis |-> EmojiScope[e]]
<1>1. n \in Nat /\ EmojiOrder \in [1 .. n -> Emojis]
  BY EmojiOrderAssumption
<1>2. IsFiniteSet(1 .. n)
  <2> HIDE DEF n
  <2> QED
    BY <1>1, FS_Interval
<1>3. EmojiOrder \in Surjection(1 .. n, Emojis)
  BY <1>1, EmojiOrderAssumption DEF Surjection
<1>4. IsFiniteSet(Emojis)
  <2> HIDE DEF n
  <2> QED
    BY <1>2, <1>3, FS_Surjection
<1>5. f \in Surjection(Emojis, Scopes)
  BY DEF Surjection, Scopes
<1> HIDE DEF f
<1>6. f \in Injection(Emojis, Scopes)
  BY <1>4, <1>5, FS_Surjection
<1>7. \A e, g \in Emojis : f[e] = f[g] => e = g
  BY <1>6 DEF Injection, IsInjective
<1> QED
  BY <1>7 DEF f, Injective

\* Taking rows out keeps a plain ledger plain.
LEMMA PlainFilter == ASSUME NEW rows, Plain(rows), NEW S \in SUBSET rows PROVE Plain(S)
BY DEF Plain

\* Where every row is the first of its key, ranking changes nothing.
LEMMA PlainRenumbered ==
  ASSUME NEW rows \in SUBSET Row, Plain(rows) PROVE Renumbered(rows) = rows
<1>1. Renumbered(rows) = {Ranked(r, rows) : r \in rows}
  BY DEF Renumbered, Ranked, Lower
<1>2. ASSUME NEW r \in rows PROVE Ranked(r, rows) = r
  <2>1. Lower(rows, r) = {}
    BY DEF Lower, Plain
  <2>2. r \in Row /\ r.pos = Cardinality(Lower(rows, r))
    BY <2>1, FS_EmptySet DEF Plain
  <2> QED
    BY <2>2 DEF Ranked, Row
<1> QED
  BY <1>1, <1>2

\* Plain arrays without a common key are concatenated as they are.
LEMMA PlainConcat ==
  ASSUME NEW front \in SUBSET Row, Plain(front), NEW back \in SUBSET Row, Plain(back),
         \A q \in front, r \in back : ~SameKey(q, r)
  PROVE  Concat(front, back) = front \cup back
<1>1. Concat(front, back) = Renumbered(front) \cup {Shifted(r, front) : r \in Renumbered(back)}
  BY DEF Concat, Shifted, Same
<1>2. Renumbered(front) = front /\ Renumbered(back) = back
  BY PlainRenumbered
<1>3. ASSUME NEW r \in back PROVE Shifted(r, front) = r
  <2>1. Same(front, r) = {}
    BY DEF Same
  <2>2. r \in Row /\ Cardinality(Same(front, r)) = 0
    BY <2>1, FS_EmptySet
  <2> QED
    BY <2>2 DEF Shifted, Row
<1> QED
  BY <1>1, <1>2, <1>3

\* A source of a ledger, and the row it is read from.
LEMMA SourceOf ==
  ASSUME NEW rows, NEW u, NEW e, NEW m
  PROVE  <<u, e, m>> \in ActiveSources(rows) <=>
           \E r \in rows : r.active /\ r.subjectId = u /\ r.emoji = e /\ r.msg = m
BY DEF ActiveSources

\* upsert makes one reaction active and leaves every other.
LEMMA PlainUpserted ==
  ASSUME Injective, NEW rows \in SUBSET Row, Plain(rows),
         NEW u \in Users, NEW e \in Emojis, NEW v \in Nat
  PROVE  /\ Plain(Upserted(rows, ActiveRow(u, e, 1, v)))
         /\ \A w \in Users, f \in Emojis :
              <<w, f, 1>> \in ActiveSources(Upserted(rows, ActiveRow(u, e, 1, v)))
                <=> (w = u /\ f = e) \/ <<w, f, 1>> \in ActiveSources(rows)
<1> DEFINE row == ActiveRow(u, e, 1, v)
           next == Upserted(rows, row)
<1>1. /\ row \in Row /\ row.subjectId = u /\ row.emoji = e /\ row.msg = 1 /\ row.active
      /\ row.scope = EmojiScope[e] /\ row.pos = 0 /\ [row EXCEPT !.pos = 0] = row
  <2>1. row \in Row
    BY ActiveRowType
  <2>2. /\ row.subjectId = u /\ row.emoji = e /\ row.msg = 1 /\ row.active
        /\ row.scope = EmojiScope[e] /\ row.pos = 0
    BY DEF ActiveRow
  <2> HIDE DEF row
  <2>3. [row EXCEPT !.pos = 0] = row
    BY <2>1, <2>2 DEF Row
  <2> QED
    BY <2>1, <2>2, <2>3
<1> HIDE DEF row
<1>2. next = {q \in rows : ~SameKey(q, row)} \cup {row}
  BY <1>1 DEF Upserted, Plain
<1>3. \A q \in rows : SameKey(q, row) => q.subjectId = u /\ q.emoji = e
  BY <1>1 DEF SameKey, Plain, Injective, Row
<1>4. Plain(next)
  BY <1>1, <1>2 DEF Plain
<1> HIDE DEF next
<1>5. ASSUME NEW w \in Users, NEW f \in Emojis
      PROVE  <<w, f, 1>> \in ActiveSources(next)
               <=> (w = u /\ f = e) \/ <<w, f, 1>> \in ActiveSources(rows)
  <2>1. ASSUME NEW r \in next, r.active, r.subjectId = w, r.emoji = f, r.msg = 1
        PROVE  (w = u /\ f = e) \/ <<w, f, 1>> \in ActiveSources(rows)
    BY <1>1, <1>2, <2>1, SourceOf
  <2>2. ASSUME w = u, f = e PROVE <<w, f, 1>> \in ActiveSources(next)
    BY <1>1, <1>2, <2>2, SourceOf
  <2>3. ASSUME NEW r \in rows, r.active, r.subjectId = w, r.emoji = f, r.msg = 1
        PROVE  <<w, f, 1>> \in ActiveSources(next)
    <3>1. CASE SameKey(r, row)
      BY <1>3, <2>2, <2>3, <3>1
    <3>2. CASE ~SameKey(r, row)
      BY <1>2, <2>3, <3>2, SourceOf
    <3> QED
      BY <3>1, <3>2
  <2> QED
    BY <2>1, <2>2, <2>3, SourceOf
<1> QED
  BY <1>4, <1>5 DEF next, row

\* remove makes one reaction inactive and leaves every other.
LEMMA PlainRemoved ==
  ASSUME Injective, NEW rows \in SUBSET Row, Plain(rows), NEW u \in Users, NEW e \in Emojis
  PROVE  /\ Plain(Removed(rows, u, EmojiScope[e]))
         /\ \A w \in Users, f \in Emojis :
              <<w, f, 1>> \in ActiveSources(Removed(rows, u, EmojiScope[e]))
                <=> ~(w = u /\ f = e) /\ <<w, f, 1>> \in ActiveSources(rows)
<1> DEFINE S == {r \in rows : ~(r.subjectId = u /\ r.scope = EmojiScope[e] /\ r.pos = 0)}
<1>1. S \in SUBSET Row /\ S \in SUBSET rows
  OBVIOUS
<1>2. \A r \in rows : r \in S <=> ~(r.subjectId = u /\ r.emoji = e)
  BY DEF Plain, Injective, Row
<1>3. Removed(rows, u, EmojiScope[e]) = Renumbered(S)
  BY DEF Removed
<1> HIDE DEF S
<1>4. Plain(S) /\ Renumbered(S) = S
  BY <1>1, PlainFilter, PlainRenumbered
<1>5. ASSUME NEW w \in Users, NEW f \in Emojis
      PROVE  <<w, f, 1>> \in ActiveSources(S) <=> ~(w = u /\ f = e) /\ <<w, f, 1>> \in ActiveSources(rows)
  BY <1>1, <1>2, SourceOf
<1> QED
  BY <1>3, <1>4, <1>5

\* Without a row there is nothing to be active.
LEMMA PlainAbsent ==
  ASSUME NEW rows, Plain(rows), NEW u, NEW e, ~HasRow(rows, u, EmojiScope[e])
  PROVE  <<u, e, 1>> \notin ActiveSources(rows)
BY SourceOf DEF HasRow, Plain

\* clear keeps a plain ledger plain.
LEMMA PlainCleared ==
  ASSUME NEW rows \in SUBSET Row, Plain(rows), NEW u, NEW k
  PROVE  Plain(Cleared(rows, u, k))
<1> DEFINE S == {r \in rows : ~(r.subjectId = u /\ r.pos < k[r.scope])}
<1>1. S \in SUBSET Row /\ S \in SUBSET rows
  OBVIOUS
<1>2. Cleared(rows, u, k) = Renumbered(S)
  BY DEF Cleared
<1> HIDE DEF S
<1> QED
  BY <1>1, <1>2, PlainFilter, PlainRenumbered

\* The pass makes the rows of its emoji those of the reactors, and leaves
\* those of the other emojis.
LEMMA PlainRebuilt ==
  ASSUME Injective, IsFiniteSet(Users),
         NEW rows \in SUBSET Row, WellFormed(rows), Plain(rows), NEW e \in Emojis,
         NEW reactors \in SUBSET Users, NEW v \in Nat
  PROVE  /\ Plain(Rebuilt(rows, 1, e, reactors, v))
         /\ \A w \in Users, f \in Emojis :
              <<w, f, 1>> \in ActiveSources(Rebuilt(rows, 1, e, reactors, v))
                <=> IF f = e THEN w \in reactors ELSE <<w, f, 1>> \in ActiveSources(rows)
<1>1. PICK front \in SUBSET Row : front = rows \ Source(rows, 1, e)
  OBVIOUS
<1>2. PICK new \in SUBSET Row : new = Appended(rows, 1, e, reactors, v)
  BY RebuiltParts
<1>3. front \in SUBSET rows /\ Plain(front) /\ \A r \in rows : r \in front <=> r.emoji # e
  BY <1>1 DEF Plain, Source
<1>4. ASSUME NEW x \in new
      PROVE  /\ x.pos = 0 /\ x.msg = 1 /\ x.emoji = e /\ x.scope = EmojiScope[e]
             /\ x.active => x.subjectId \in reactors
  <2>1. CASE x \in Existing(rows, 1, e, reactors)
    BY <2>1, ExistingRow DEF Plain
  <2>2. CASE x \in Fresh(rows, 1, e, reactors, v)
    BY <2>2, FreshRow
  <2>3. CASE x \in Revoked(rows, 1, e, reactors)
    <3>1. /\ ~x.active /\ x.emoji = e /\ x.msg = 1
          /\ \E r \in Leavers(rows, 1, e, reactors) : r \in rows /\ x.scope = r.scope /\ x.pos = r.pos
      BY <2>3, RevokedRow
    <3>2. \A r \in Leavers(rows, 1, e, reactors) : r.emoji = e
      BY DEF Leavers, ActiveIn, Source
    <3> QED
      BY <3>1, <3>2 DEF Plain
  <2> QED
    BY <1>2, <2>1, <2>2, <2>3 DEF Appended
<1>5. Plain(new)
  BY <1>4 DEF Plain
<1>6. \A q \in front, r \in new : ~SameKey(q, r)
  BY <1>3, <1>4 DEF SameKey, Plain, Injective, Row
<1>7. Rebuilt(rows, 1, e, reactors, v) = front \cup new
  <2>1. Rebuilt(rows, 1, e, reactors, v) = Concat(front, new)
    BY <1>1, <1>2, RebuiltIsConcat
  <2>2. Concat(front, new) = front \cup new
    BY <1>3, <1>5, <1>6, PlainConcat
  <2> QED
    BY <2>1, <2>2
<1>8. ASSUME NEW w \in reactors PROVE \E x \in new : x.active /\ x.subjectId = w
  <2>1. CASE w \in Newcomers(rows, 1, e, reactors)
    <3>1. ActiveRow(w, e, 1, v) \in new
      BY <1>2, <2>1 DEF Appended, Fresh
    <3>2. ActiveRow(w, e, 1, v).active /\ ActiveRow(w, e, 1, v).subjectId = w
      BY DEF ActiveRow
    <3> QED
      BY <3>1, <3>2
  <2>2. CASE w \notin Newcomers(rows, 1, e, reactors)
    <3>1. PICK r \in ActiveIn(rows, 1, e) : r.subjectId = w
      BY <2>2 DEF Newcomers
    <3>2. \A q \in ActiveIn(rows, 1, e) : q.pos = 0 /\ q.active
      BY DEF ActiveIn, Source, Plain
    <3>3. r \in Existing(rows, 1, e, reactors)
      BY <3>1, <3>2 DEF Existing
    <3> QED
      BY <1>2, <3>1, <3>2, <3>3 DEF Appended
  <2> QED
    BY <2>1, <2>2
<1>9. ASSUME NEW w \in Users, NEW f \in Emojis
      PROVE  <<w, f, 1>> \in ActiveSources(front \cup new)
               <=> IF f = e THEN w \in reactors ELSE <<w, f, 1>> \in ActiveSources(rows)
  <2>1. CASE f = e
    <3>1. <<w, f, 1>> \in ActiveSources(front \cup new) => w \in reactors
      BY <1>3, <1>4, <2>1, SourceOf
    <3>2. w \in reactors => <<w, f, 1>> \in ActiveSources(front \cup new)
      BY <1>4, <1>8, <2>1, SourceOf
    <3> QED
      BY <2>1, <3>1, <3>2
  <2>2. CASE f # e
    BY <1>3, <1>4, <2>2, SourceOf
  <2> QED
    BY <2>1, <2>2
<1> QED
  BY <1>3, <1>5, <1>7, <1>9 DEF Plain

-----------------------------------------------------------------------------
(* Where messages come from, and what every copy of the ledger keeps.      *)

\* Messages the program and Discord know of have been made.
MadeInv ==
  /\ alive \subseteq 1..made
  /\ \A t \in reacted : t[3] \in 1..made
  /\ \A i \in 1..Len(queue) : queue[i].msg \in 1..made
  /\ phase \in {"reacting", "up"} => target \in 1..made
  /\ ~Running => queue = <<>>

\* Taking an event from the queue leaves older knowledge in place.
LEMMA DeliverMade ==
  ASSUME RestOK, MadeInv, Deliver, UNCHANGED <<discord, phase, target>>
  PROVE  MadeInv' /\ Head(queue).msg \in 1..made
<1>1. queue \in Seq(Event) /\ queue # <<>> /\ queue' = Tail(queue)
  BY DEF RestOK, Deliver
<1>2. \A i \in 1..Len(queue') : queue'[i] = queue[i + 1] /\ i + 1 \in 1..Len(queue)
  BY <1>1
<1>3. Head(queue) = queue[1] /\ 1 \in 1..Len(queue)
  BY <1>1
<1>4. UNCHANGED <<reacted, made, alive, phase, target>> /\ Running
  BY DEF discord, Deliver
<1> QED
  BY <1>2, <1>3, <1>4 DEF MadeInv, Running

\* A reaction stands on a message that has been made, and so does its event.
LEMMA UserMade ==
  ASSUME TypeOK, MadeInv, NEW u \in Users, NEW e \in Emojis, NEW m \in 1..MaxMessages,
         AddReaction(u, e, m) \/ RemoveReaction(u, e, m)
  PROVE  MadeInv'
<1> DEFINE ev(op) == [op |-> op, user |-> u, emoji |-> e, msg |-> m]
<1>1. UNCHANGED <<made, alive, phase, target>>
  BY DEF AddReaction, RemoveReaction, Toggled, boot
<1>2. m \in 1..made
  <2>1. CASE AddReaction(u, e, m)
    BY <2>1 DEF AddReaction, MadeInv
  <2>2. CASE RemoveReaction(u, e, m)
    <3>1. <<u, e, m>> \in reacted
      BY <2>2 DEF RemoveReaction
    <3> QED
      BY <3>1 DEF MadeInv
  <2> QED
    BY <2>1, <2>2
<1>3. \A t \in reacted' : t[3] \in 1..made
  <2>1. \A t \in reacted' : t \in reacted \/ t = <<u, e, m>>
    BY DEF AddReaction, RemoveReaction
  <2> QED
    BY <1>2, <2>1 DEF MadeInv
<1>4. \A i \in 1..Len(queue') : queue'[i].msg \in 1..made
  <2>1. queue \in Seq(Event)
    BY DEF TypeOK
  <2>2. queue' = queue \/ queue' = Append(queue, ev("add")) \/ queue' = Append(queue, ev("remove"))
    BY DEF AddReaction, RemoveReaction, Announce
  <2>3. ev("add").msg = m /\ ev("remove").msg = m
    OBVIOUS
  <2> HIDE DEF ev
  <2>4. ASSUME NEW x, x.msg = m, queue' = Append(queue, x)
        PROVE  \A i \in 1..Len(queue') : queue'[i].msg \in 1..made
    <3>1. \A i \in 1..Len(queue') : queue'[i] = x \/ (i \in 1..Len(queue) /\ queue'[i] = queue[i])
      BY <2>1, <2>4
    <3> QED
      BY <1>2, <2>4, <3>1 DEF MadeInv
  <2> QED
    BY <2>2, <2>3, <2>4 DEF MadeInv
<1>5. ~Running => queue' = <<>>
  BY DEF AddReaction, RemoveReaction, Announce, MadeInv
<1> QED
  BY <1>1, <1>3, <1>4, <1>5 DEF MadeInv, Running

\* No step knows of a message that was never made.
THEOREM MadeInduction == Spec => []MadeInv
<1>1. Init => MadeInv
  BY DEF Init, MadeInv, Running
<1>2. TypeOK /\ MadeInv /\ [Next]_vars => MadeInv'
  <2> SUFFICES ASSUME TypeOK, MadeInv, [Next]_vars PROVE MadeInv'
    OBVIOUS
  <2> DiscordOK /\ StoreOK /\ BootOK /\ RecOK /\ RestOK
    BY TypeParts
  <2> made \in Nat
    BY DEF DiscordOK
  <2>1. ASSUME UNCHANGED <<discord, queue, phase, target>> PROVE MadeInv'
    BY <2>1 DEF MadeInv, Running, discord
  <2>2. ASSUME Deliver, Heard PROVE MadeInv'
    BY <2>2, DeliverMade DEF Heard, boot
  <2>3. CASE UNCHANGED vars
    BY <2>1, <2>3 DEF vars, discord
  <2>4. CASE UserStep
    BY <2>4, UserMade DEF UserStep
  <2>5. CASE \E m \in 1..MaxMessages : DeleteMessage(m)
    BY <2>5 DEF DeleteMessage, MadeInv, boot, Running
  <2>6. CASE \E m \in 1..MaxMessages : ResolveMessage(m)
    BY <2>6 DEF ResolveMessage, MadeInv, discord, Running
  <2>7. CASE LoseEvents \/ Stop
    <3>1. /\ UNCHANGED discord /\ queue' = <<>>
          /\ UNCHANGED <<phase, target>> \/ phase' = "down"
      BY <2>7 DEF LoseEvents, Stop, boot
    <3>2. \A i \in 1..Len(queue') : FALSE
      BY <3>1
    <3> QED
      BY <3>1, <3>2 DEF MadeInv, discord, Running
  <2>8. CASE Start
    BY <2>8 DEF Start, MadeInv, discord, Running
  <2>9. CASE \E kind \in {"corrupt", "alien"} : DamageFile(kind)
    BY <2>1, <2>9 DEF DamageFile, boot
  <2>10. CASE CreateMessage
    BY <2>10 DEF CreateMessage, MadeInv, Running
  <2>11. CASE BootstrapFails
    BY <2>11 DEF BootstrapFails, MadeInv, discord, Running
  <2>12. CASE BootstrapDone
    BY <2>12 DEF BootstrapDone, MadeInv, discord, Running
  <2>13. CASE FetchAnswered \/ FetchFails \/ ReconcileEmoji \/ ReconcileSaveFails \/ Authorize
    BY <2>1, <2>13 DEF FetchAnswered, FetchFails, ReconcileEmoji, ReconcileSaveFails, Authorize, boot
  <2>14. CASE IgnoreReaction \/ OnAdd \/ OnRemove \/ OnRemoveAbsent \/ HandlerFails
    BY <2>2, <2>14 DEF IgnoreReaction, OnAdd, OnRemove, OnRemoveAbsent, HandlerFails
  <2>15. CASE \E u \in Users : Clear(u)
    BY <2>1, <2>15 DEF Clear, boot
  <2> QED
    BY <2>3, <2>4, <2>5, <2>6, <2>7, <2>8, <2>9, <2>10, <2>11, <2>12, <2>13, <2>14, <2>15 DEF Next
<1> QED
  BY <1>1, <1>2, TypeCorrect, PTL DEF Spec

\* One consent message so far, and one emoji per scope.
Single == made <= 1 /\ Cardinality(Scopes) = Cardinality(Emojis)

\* A copy without a gap in its ranks, and plain where there is one reaction
\* for each key.
Sound(rows, one) == Dense(rows) /\ (one => Plain(rows))

LedgerInv ==
  /\ Sound(disk.rows, Single) /\ Sound(repo.rows, Single) /\ Sound(rec.snapshot, Single)
  /\ cache # NoCache => Sound(cache, Single)

\* The empty ledger has no gap and no second row.
LEMMA SoundEmpty == \A one : Sound({}, one)
BY DEF Sound, Dense, Plain

\* Messages are only added, so what holds while there is one still holds.
LEMMA SoundKept ==
  ASSUME NEW rows, NEW one, Sound(rows, one), NEW later, later => one
  PROVE  Sound(rows, later)
BY DEF Sound

\* What the pass writes is as sound as its snapshot.
LEMMA SoundRebuilt ==
  ASSUME NEW rows \in SUBSET Row, WellFormed(rows), NEW one, Sound(rows, one),
         NEW m \in Nat, one => Injective /\ m = 1, NEW e \in Emojis,
         NEW reactors \in SUBSET Users, NEW v \in Nat
  PROVE  Sound(Rebuilt(rows, m, e, reactors, v), one)
BY UsersAssumption, RebuiltDense, PlainRebuilt DEF Sound

\* What an added reaction writes is as sound as the file before it.
LEMMA SoundUpserted ==
  ASSUME NEW rows \in SUBSET Row, WellFormed(rows), NEW one, Sound(rows, one),
         NEW u \in Users, NEW e \in Emojis, NEW m \in Nat, one => Injective /\ m = 1, NEW v \in Nat
  PROVE  Sound(Upserted(rows, ActiveRow(u, e, m, v)), one)
BY ActiveRowType, UpsertedDense, PlainUpserted DEF Sound

\* What a removed reaction writes is as sound as the file before it.
LEMMA SoundRemoved ==
  ASSUME NEW rows \in SUBSET Row, WellFormed(rows), NEW one, Sound(rows, one),
         one => Injective, NEW u \in Users, NEW e \in Emojis
  PROVE  Sound(Removed(rows, u, EmojiScope[e]), one)
BY RemovedDense, PlainRemoved DEF Sound

\* What clear writes is as sound as the rows it started from.
LEMMA SoundCleared ==
  ASSUME NEW rows \in SUBSET Row, WellFormed(rows), NEW one, Sound(rows, one), NEW u, NEW k
  PROVE  Sound(Cleared(rows, u, k), one)
BY ClearedDense, PlainCleared DEF Sound

\* Reading the file brings in nothing but its rows, or none.
LEMMA LoadAllSound ==
  ASSUME LedgerInv, LoadAll
  PROVE  Sound(disk'.rows, Single) /\ Sound(repo'.rows, Single) /\ Sound(cache', Single)
<1>1. Sound(Loaded(disk).rows, Single)
  BY SoundEmpty DEF LedgerInv, Loaded
<1>2. /\ disk'.rows = {} \/ disk' = disk
      /\ \/ repo'.rows = Loaded(disk).rows /\ cache' = Loaded(disk).rows
         \/ cache # NoCache /\ repo' = repo /\ cache' = cache
  BY DEF LoadAll, LoadFile, Missing, store
<1> QED
  BY <1>1, <1>2, SoundEmpty DEF LedgerInv

\* While there is one message, a target or the message of an event is it.
LEMMA SingleMessage ==
  ASSUME TypeOK, Single, NEW m \in 1..made PROVE Injective /\ m = 1
<1>1. made \in Nat /\ made <= 1
  BY DEF TypeOK, Single
<1>2. m = 1
  BY <1>1
<1> QED
  BY <1>2, ScopesApart DEF Single

\* Every copy of the ledger stays free of gaps, and plain while there is one
\* consent message and one emoji per scope.
THEOREM LedgerInduction == Spec => []LedgerInv
<1>1. Init => LedgerInv
  BY SoundEmpty DEF Init, LedgerInv, Missing, FreshRepo, Idle
<1>2. TypeOK /\ MadeInv /\ ProvenanceInv /\ LedgerInv /\ [Next]_vars => LedgerInv'
  <2> SUFFICES ASSUME TypeOK, MadeInv, ProvenanceInv, LedgerInv, [Next]_vars PROVE LedgerInv'
    OBVIOUS
  <2> DiscordOK /\ StoreOK /\ BootOK /\ RecOK /\ RestOK
    BY TypeParts
  <2> DEFINE one == Single
  <2>1. one \in BOOLEAN /\ \A m \in 1..made : one => Injective /\ m = 1
    BY SingleMessage DEF Single
  <2>2. UNCHANGED made => Single' = one
    BY DEF Single
  <2>3. /\ Sound(disk.rows, one) /\ Sound(repo.rows, one) /\ Sound(rec.snapshot, one)
        /\ cache # NoCache => Sound(cache, one)
    BY DEF LedgerInv
  <2>4. Reconciling => target \in 1..made
    BY DEF ProvenanceInv, RecEarned, MadeInv
  <2>5. /\ disk.rows \in SUBSET Row /\ repo.rows \in SUBSET Row /\ rec.snapshot \in SUBSET Row
        /\ WellFormed(disk.rows) /\ WellFormed(repo.rows) /\ WellFormed(rec.snapshot)
    BY DEF StoreOK, RecOK
  <2>6. policy \in Nat /\ target \in Nat
    BY DEF BootOK
  <2> HIDE DEF one
  <2>7. ASSUME UNCHANGED <<store, rec, made>> PROVE LedgerInv'
    BY <2>2, <2>3, <2>7 DEF LedgerInv, store
  <2>8. ASSUME NEW next, Sound(next, one), Persist(next), Invalidate, UNCHANGED made,
               rec'.snapshot \in {rec.snapshot, next, {}}
        PROVE  LedgerInv'
    <3>1. disk'.rows = next /\ repo'.rows = next /\ cache' = NoCache
      BY <2>8 DEF Persist, Invalidate
    <3> QED
      BY <2>2, <2>3, <2>8, <3>1, SoundEmpty DEF LedgerInv
  <2>9. ASSUME UNCHANGED <<store, made>>, rec'.snapshot \in {rec.snapshot, {}} PROVE LedgerInv'
    BY <2>2, <2>3, <2>9, SoundEmpty DEF LedgerInv, store
  <2>10. ASSUME NEW snapshot, NextEmoji(snapshot) PROVE rec'.snapshot \in {snapshot, {}}
    BY <2>10 DEF NextEmoji, Idle
  <2>11. CASE UNCHANGED vars
    BY <2>7, <2>11 DEF vars, store
  <2>12. CASE UserStep
    BY <2>7, <2>12 DEF UserStep, AddReaction, RemoveReaction, Toggled
  <2>13. CASE \E m \in 1..MaxMessages : DeleteMessage(m) \/ ResolveMessage(m)
    BY <2>7, <2>13 DEF DeleteMessage, ResolveMessage, discord
  <2>14. CASE LoseEvents \/ Start \/ BootstrapFails
    BY <2>7, <2>14 DEF LoseEvents, Start, BootstrapFails, discord
  <2>15. CASE Stop
    <3>1. /\ UNCHANGED <<made, disk>> /\ repo'.rows = {} /\ cache' = NoCache /\ rec'.snapshot = {}
      BY <2>15 DEF Stop, discord, FreshRepo, Idle
    <3> QED
      BY <2>2, <2>3, <3>1, SoundEmpty DEF LedgerInv
  <2>16. CASE \E kind \in {"corrupt", "alien"} : DamageFile(kind)
    <3>1. UNCHANGED <<made, repo, cache, rec>> /\ disk'.rows = {}
      BY <2>16 DEF DamageFile, discord
    <3> QED
      BY <2>2, <2>3, <3>1, SoundEmpty DEF LedgerInv
  <2>17. CASE CreateMessage
    <3>1. UNCHANGED <<store, rec>> /\ made' = made + 1
      BY <2>17 DEF CreateMessage
    <3>2. Single' => one
      BY <3>1 DEF Single, DiscordOK, one
    <3> QED
      BY <2>3, <3>1, <3>2, SoundKept DEF LedgerInv, store
  <2>18. CASE BootstrapDone
    <3>1. LoadAll /\ UNCHANGED made /\ rec'.snapshot = cache'
      BY <2>18 DEF BootstrapDone, discord
    <3> QED
      BY <2>2, <3>1, LoadAllSound DEF LedgerInv, one
  <2>19. CASE FetchAnswered
    <3>1. UNCHANGED <<store, made>> /\ rec'.snapshot = rec.snapshot
      BY <2>19 DEF FetchAnswered, discord, RecOK
    <3> QED
      BY <2>9, <3>1
  <2>20. CASE FetchFails \/ ReconcileSaveFails
    <3>1. UNCHANGED <<store, made>> /\ NextEmoji(rec.snapshot)
      BY <2>20 DEF FetchFails, ReconcileSaveFails, PersistFails, discord
    <3> QED
      BY <2>9, <2>10, <3>1
  <2>21. CASE ReconcileEmoji
    <3>1. PICK next : next = Rebuilt(rec.snapshot, target, Emoji, rec.answer, policy)
      OBVIOUS
    <3>2. Reconciling /\ Persist(next) /\ Invalidate /\ NextEmoji(next) /\ UNCHANGED made
      BY <2>21, <3>1 DEF ReconcileEmoji, discord
    <3>3. rec.answer \in SUBSET Users /\ Emoji \in Emojis
      BY <2>21, TurnEmoji DEF ReconcileEmoji, RecOK
    <3>4. one => Injective /\ target = 1
      BY <2>1, <2>4, <3>2
    <3>5. Sound(next, one)
      BY <2>3, <2>5, <2>6, <3>1, <3>3, <3>4, SoundRebuilt
    <3> QED
      BY <2>8, <2>10, <3>2, <3>5
  <2>22. CASE IgnoreReaction \/ OnRemoveAbsent \/ HandlerFails
    BY <2>7, <2>22 DEF IgnoreReaction, OnRemoveAbsent, HandlerFails, PersistFails, Heard, discord
  <2>23. CASE OnAdd \/ OnRemove
    <3>1. Deliver /\ Heard /\ Invalidate
      BY <2>23 DEF OnAdd, OnRemove
    <3>2. PICK ev \in Event : ev = Head(queue)
      BY <3>1, DeliverType
    <3>3. ev.user \in Users /\ ev.emoji \in Emojis /\ ev.msg \in Nat
      BY DEF Event
    <3>4. one => Injective /\ ev.msg = 1
      BY <2>1, <3>1, <3>2, DeliverMade DEF Heard, boot
    <3>5. CASE OnAdd
      BY <2>3, <2>5, <2>6, <2>8, <3>1, <3>2, <3>3, <3>4, <3>5, SoundUpserted DEF OnAdd, Heard, discord
    <3>6. CASE OnRemove
      BY <2>3, <2>5, <2>8, <3>1, <3>2, <3>3, <3>4, <3>6, SoundRemoved DEF OnRemove, Heard, discord
    <3> QED
      BY <2>23, <3>5, <3>6
  <2>24. CASE Authorize
    <3>1. LoadAll /\ UNCHANGED <<made, rec>>
      BY <2>24 DEF Authorize, discord
    <3> QED
      BY <2>2, <2>3, <3>1, LoadAllSound DEF LedgerInv, one
  <2>25. ASSUME NEW u \in Users, Clear(u) PROVE LedgerInv'
    <3> DEFINE view == IF cache = NoCache THEN Loaded(disk) ELSE repo
               rows == IF cache = NoCache THEN view.rows ELSE cache
    <3>1. PICK done :
            \/ /\ repo' = [rows |-> Cleared(view.rows, u, done), existed |-> TRUE, recognised |-> TRUE]
               /\ disk' = [kind |-> "ok", rows |-> repo'.rows]
               /\ Invalidate
            \/ repo' = view /\ cache' = rows /\ UNCHANGED disk
      BY <2>25 DEF Clear
    <3>2. UNCHANGED <<rec, made>>
      BY <2>25 DEF Clear, discord
    <3>3. Sound(view.rows, one) /\ Sound(rows, one) /\ view.rows \in SUBSET Row /\ WellFormed(view.rows)
      BY <2>3, <2>5, SoundEmpty, LoadedType DEF Loaded
    <3> HIDE DEF view, rows
    <3>4. Sound(Cleared(view.rows, u, done), one)
      BY <3>3, SoundCleared
    <3>5. /\ Sound(disk'.rows, one) /\ Sound(repo'.rows, one)
          /\ cache' # NoCache => Sound(cache', one)
      BY <2>3, <3>1, <3>3, <3>4 DEF Invalidate
    <3> QED
      BY <2>2, <2>3, <3>2, <3>5 DEF LedgerInv
  <2> QED
    BY <2>11, <2>12, <2>13, <2>14, <2>15, <2>16, <2>17, <2>18, <2>19, <2>20, <2>21, <2>22, <2>23,
       <2>24, <2>25 DEF Next
<1> QED
  BY <1>1, <1>2, TypeCorrect, MadeInduction, ProvenanceInduction, PTL DEF Spec

-----------------------------------------------------------------------------
(* Whose rows a step may change.                                           *)

\* The file holds the same rows of u before and after the step.
Kept(u) == RowsOf(Loaded(disk').rows, u) = RowsOf(Loaded(disk).rows, u)

\* The steps OthersUntouched is about, as they concern u.
Concerns(u) ==
  \/ queue # <<>> /\ queue' = Tail(queue) /\ Running' /\ Head(queue).user # u
  \/ \E ev \in events' : ev.kind = "clear" /\ ev.subjectId # u

\* A queue that is left alone is not one that an event was taken from.
LEMMA TailDiffers == ASSUME NEW S, NEW q \in Seq(S), q # <<>> PROVE Tail(q) # q
<1> DEFINE n == Len(q)
           m == Len(Tail(q))
<1>1. n \in Nat /\ m = n - 1
  OBVIOUS
<1>2. m # n
  <2> HIDE DEF n, m
  <2> QED
    BY <1>1
<1> QED
  BY <1>2, Zenon

\* A reaction, and a deletion that removed something, change the rows of one
\* subject.  The ranks must be free of gaps: a splice ranks every row again.
THEOREM OthersAreUntouched == Spec => OthersUntouched
<1>1. TypeOK /\ CacheInv /\ LedgerInv /\ [Next]_vars =>
        [\A u \in Users :
           (\/ queue # <<>> /\ queue' = Tail(queue) /\ Running' /\ Head(queue).user # u
            \/ \E ev \in events' : ev.kind = "clear" /\ ev.subjectId # u)
           => RowsOf(Loaded(disk)'.rows, u) = RowsOf(Loaded(disk).rows, u)]_vars
  <2> SUFFICES ASSUME TypeOK, CacheInv, LedgerInv, Next, NEW u \in Users, Concerns(u) PROVE Kept(u)
    BY DEF Kept, Concerns, Loaded
  <2> DiscordOK /\ StoreOK /\ BootOK /\ RecOK /\ RestOK
    BY TypeParts
  <2>1. ASSUME UNCHANGED disk PROVE Kept(u)
    BY <2>1 DEF Kept, Loaded
  <2>2. ASSUME LoadAll PROVE Kept(u)
    <3>1. disk' = disk \/ (disk.kind = "alien" /\ disk' = Missing)
      BY <2>2 DEF LoadAll, LoadFile, store
    <3> QED
      BY <3>1 DEF Kept, Loaded, Missing
  <2>3. ASSUME UNCHANGED queue, \A ev \in events' : ev.kind # "clear" PROVE FALSE
    BY <2>3, TailDiffers DEF RestOK, Concerns
  <2>4. /\ disk.rows \in SUBSET Row /\ WellFormed(disk.rows) /\ Dense(disk.rows)
        /\ repo.rows \in SUBSET Row /\ WellFormed(repo.rows) /\ Dense(repo.rows)
    BY DEF StoreOK, LedgerInv, Sound
  <2>5. CASE UserStep
    BY <2>1, <2>5 DEF UserStep, AddReaction, RemoveReaction, Toggled, store
  <2>6. CASE \E m \in 1..MaxMessages : DeleteMessage(m) \/ ResolveMessage(m)
    BY <2>1, <2>6 DEF DeleteMessage, ResolveMessage, store
  <2>7. CASE LoseEvents \/ Start \/ Stop \/ CreateMessage \/ BootstrapFails
    BY <2>1, <2>7 DEF LoseEvents, Start, Stop, CreateMessage, BootstrapFails, store
  <2>8. CASE \E kind \in {"corrupt", "alien"} : DamageFile(kind)
    BY <2>3, <2>8 DEF DamageFile
  <2>9. CASE BootstrapDone \/ Authorize
    BY <2>2, <2>9 DEF BootstrapDone, Authorize
  <2>10. CASE FetchAnswered \/ FetchFails \/ ReconcileSaveFails
    BY <2>1, <2>10 DEF FetchAnswered, FetchFails, ReconcileSaveFails, PersistFails, store
  <2>11. CASE ReconcileEmoji
    BY <2>3, <2>11 DEF ReconcileEmoji
  <2>12. CASE IgnoreReaction \/ OnRemoveAbsent \/ HandlerFails
    BY <2>1, <2>12 DEF IgnoreReaction, OnRemoveAbsent, HandlerFails, PersistFails, store
  <2>13. CASE OnAdd \/ OnRemove
    <3>1. Deliver /\ phase = "up" /\ \A ev \in events' : ev.kind # "clear"
      BY <2>13 DEF OnAdd, OnRemove, Matches
    <3>2. PICK ev \in Event : ev = Head(queue)
      BY <3>1, DeliverType
    <3>3. /\ ev.user \in Users /\ ev.emoji \in Emojis /\ ev.msg \in Nat /\ policy \in Nat
          /\ ev.user # u /\ repo.rows = Loaded(disk).rows
      BY <3>1, <3>2 DEF Event, BootOK, Concerns, CacheInv, CacheCoherent
    <3>4. CASE OnAdd
      <4>1. PICK row : row = ActiveRow(ev.user, ev.emoji, ev.msg, policy)
        OBVIOUS
      <4>2. Loaded(disk').rows = Upserted(repo.rows, row)
        BY <3>2, <3>4, <4>1 DEF OnAdd, Persist, Loaded
      <4>3. row \in Row /\ row.subjectId = ev.user
        BY <3>3, <4>1, ActiveRowType DEF ActiveRow
      <4> QED
        BY <3>3, <4>2, <4>3, UpsertedOthers DEF Kept
    <3>5. CASE OnRemove
      <4>1. Loaded(disk').rows = Removed(repo.rows, ev.user, EmojiScope[ev.emoji])
        BY <3>2, <3>5 DEF OnRemove, Persist, Loaded
      <4> QED
        BY <2>4, <3>3, <4>1, RemovedOthers DEF Kept
    <3> QED
      BY <2>13, <3>4, <3>5
  <2>14. ASSUME NEW v \in Users, Clear(v) PROVE Kept(u)
    <3> DEFINE view == IF cache = NoCache THEN Loaded(disk) ELSE repo
    <3>1. PICK done :
            \/ /\ repo' = [rows |-> Cleared(view.rows, v, done), existed |-> TRUE, recognised |-> TRUE]
               /\ disk' = [kind |-> "ok", rows |-> repo'.rows]
               /\ events' = {[kind |-> "clear", subjectId |-> v]}
            \/ UNCHANGED disk /\ events' = {}
      BY <2>14 DEF Clear
    <3>2. UNCHANGED queue
      BY <2>14 DEF Clear
    <3>3. view.rows = Loaded(disk).rows
      BY DEF CacheInv, CacheCoherent
    <3>4. view.rows \in SUBSET Row /\ WellFormed(view.rows) /\ Dense(view.rows)
      BY <2>4, LoadedType, SoundEmpty DEF Loaded, Sound
    <3> HIDE DEF view
    <3>5. CASE UNCHANGED disk
      BY <2>1, <3>5
    <3>6. CASE /\ repo' = [rows |-> Cleared(view.rows, v, done), existed |-> TRUE, recognised |-> TRUE]
               /\ disk' = [kind |-> "ok", rows |-> repo'.rows]
               /\ events' = {[kind |-> "clear", subjectId |-> v]}
      <4>1. u # v
        BY <3>2, <3>6, TailDiffers DEF Concerns, RestOK
      <4>2. Loaded(disk').rows = Cleared(view.rows, v, done)
        BY <3>6 DEF Loaded
      <4> QED
        BY <3>3, <3>4, <4>1, <4>2, ClearedOthers DEF Kept
    <3> QED
      BY <3>1, <3>5, <3>6
  <2> QED
    BY <2>5, <2>6, <2>7, <2>8, <2>9, <2>10, <2>11, <2>12, <2>13, <2>14 DEF Next
<1> QED
  BY <1>1, TypeCorrect, CacheInduction, LedgerInduction, PTL DEF Spec, OthersUntouched

-----------------------------------------------------------------------------
(* The file and Discord.  With one consent message and one emoji per       *)
(* scope, while nothing failed or raced: an event that is the last of its  *)
(* reaction tells the truth, the answer in hand is current, and what the   *)
(* pass has written stays true except where an event is still pending.     *)

Of(ev) == <<ev.user, ev.emoji, ev.msg>>
Pending(t) == \E i \in 1..Len(queue) : Of(queue[i]) = t
Last(i) == \A j \in 1..Len(queue) : j > i => Of(queue[j]) # Of(queue[i])

\* The last event of a reaction says whether it is in place.
QueueTrue ==
  \A i \in 1..Len(queue) : Last(i) => (queue[i].op = "add" <=> Of(queue[i]) \in reacted)

\* The emojis the pass has written, and all of them once it is over.
Covered(e) ==
  /\ phase = "up"
  /\ Reconciling => \E i \in 1..Len(EmojiOrder) : i < rec.turn /\ EmojiOrder[i] = e

FileTrue ==
  \A u \in Users, e \in Emojis : Covered(e) /\ ~Pending(<<u, e, 1>>) =>
    (<<u, e, 1>> \in ActiveSources(disk.rows) <=> <<u, e, 1>> \in reacted)

\* The snapshot may be behind the file, but never behind Discord.
SnapshotTrue ==
  \A u \in Users, e \in Emojis : Reconciling /\ Covered(e) =>
    (<<u, e, 1>> \in ActiveSources(rec.snapshot) <=> <<u, e, 1>> \in reacted)

AnswerTrue == rec.answer # NoAnswer => rec.answer = Reactors(Emoji, target)

\* A file that cannot be read shows no rows.
RowsRead == Loaded(disk).rows = disk.rows

Truthful == QueueTrue /\ FileTrue /\ SnapshotTrue /\ AnswerTrue

SyncInv == RowsRead /\ (calm /\ Single => Truthful)

\* The event taken from the queue, the ones that stay, and what is no longer
\* pending without it.
LEMMA PopTrue ==
  ASSUME RestOK, QueueTrue, Deliver, UNCHANGED reacted, NEW ev, ev = Head(queue)
  PROVE  /\ QueueTrue'
         /\ \A t : Pending(t) => Pending(t)' \/ t = Of(ev)
         /\ ~Pending(Of(ev))' => (ev.op = "add" <=> Of(ev) \in reacted)
<1>1. queue \in Seq(Event) /\ queue # <<>> /\ queue' = Tail(queue)
  BY DEF RestOK, Deliver
<1>2. /\ Len(queue) \in Nat /\ Len(queue) > 0 /\ Len(queue') = Len(queue) - 1
      /\ ev = queue[1]
      /\ \A i \in 1..Len(queue') : queue'[i] = queue[i + 1] /\ i + 1 \in 1..Len(queue)
      /\ \A i \in 1..Len(queue) : i > 1 => i - 1 \in 1..Len(queue') /\ queue'[i - 1] = queue[i]
  BY <1>1
<1>3. QueueTrue'
  <2> SUFFICES ASSUME NEW i \in 1..Len(queue'),
                      \A j \in 1..Len(queue') : j > i => Of(queue'[j]) # Of(queue'[i])
               PROVE  queue'[i].op = "add" <=> Of(queue'[i]) \in reacted'
    BY DEF QueueTrue, Last
  <2>1. ASSUME NEW j \in 1..Len(queue), j > i + 1 PROVE Of(queue[j]) # Of(queue[i + 1])
    <3>1. j - 1 \in 1..Len(queue') /\ queue'[j - 1] = queue[j] /\ j - 1 > i
      BY <1>2, <2>1
    <3> QED
      BY <1>2, <3>1
  <2>2. i + 1 \in 1..Len(queue) /\ Last(i + 1)
    BY <1>2, <2>1 DEF Last
  <2> QED
    BY <1>2, <2>2 DEF QueueTrue
<1>4. ASSUME NEW t, Pending(t), t # Of(ev) PROVE Pending(t)'
  <2>1. PICK i \in 1..Len(queue) : Of(queue[i]) = t
    BY <1>4 DEF Pending
  <2>2. i # 1
    BY <1>2, <1>4, <2>1
  <2>3. i - 1 \in 1..Len(queue') /\ queue'[i - 1] = queue[i]
    BY <1>2, <2>2
  <2> QED
    BY <2>1, <2>3 DEF Pending
<1>5. ASSUME ~Pending(Of(ev))' PROVE ev.op = "add" <=> Of(ev) \in reacted
  <2>1. ASSUME NEW j \in 1..Len(queue), j > 1 PROVE Of(queue[j]) # Of(queue[1])
    <3>1. j - 1 \in 1..Len(queue') /\ queue'[j - 1] = queue[j]
      BY <1>2, <2>1
    <3>2. \A i \in 1..Len(queue') : Of(queue'[i]) # Of(ev)
      BY <1>5 DEF Pending
    <3> QED
      BY <1>2, <3>1, <3>2
  <2>2. 1 \in 1..Len(queue) /\ Last(1)
    BY <1>2, <2>1 DEF Last
  <2> QED
    BY <1>2, <2>2 DEF QueueTrue
<1> QED
  BY <1>3, <1>4, <1>5

\* A new event is the last of its reaction; the others keep their place.
LEMMA PushTrue ==
  ASSUME RestOK, QueueTrue, NEW ev, queue' = Append(queue, ev),
         ev.op = "add" <=> Of(ev) \in reacted',
         \A t : t # Of(ev) => (t \in reacted' <=> t \in reacted)
  PROVE  /\ QueueTrue'
         /\ \A t : ~Pending(t)' => ~Pending(t) /\ t # Of(ev)
<1>1. /\ Len(queue) \in Nat /\ Len(queue') = Len(queue) + 1
      /\ \A i \in 1..Len(queue) : queue'[i] = queue[i] /\ i \in 1..Len(queue')
      /\ queue'[Len(queue) + 1] = ev /\ Len(queue) + 1 \in 1..Len(queue')
      /\ \A i \in 1..Len(queue') : i \in 1..Len(queue) \/ i = Len(queue) + 1
  BY DEF RestOK
<1>2. ASSUME NEW i \in 1..Len(queue'),
             \A j \in 1..Len(queue') : j > i => Of(queue'[j]) # Of(queue'[i])
      PROVE  queue'[i].op = "add" <=> Of(queue'[i]) \in reacted'
  <2>1. CASE i \in 1..Len(queue)
    <3>1. Of(ev) # Of(queue[i])
      BY <1>1, <1>2, <2>1
    <3>2. Last(i)
      BY <1>1, <1>2, <2>1 DEF Last
    <3> QED
      BY <1>1, <2>1, <3>1, <3>2 DEF QueueTrue
  <2>2. CASE i = Len(queue) + 1
    BY <1>1, <2>2
  <2> QED
    BY <1>1, <2>1, <2>2
<1>3. QueueTrue'
  BY <1>2 DEF QueueTrue, Last
<1>4. ASSUME NEW t, ~Pending(t)' PROVE ~Pending(t) /\ t # Of(ev)
  BY <1>1, <1>4 DEF Pending
<1> QED
  BY <1>3, <1>4

\* loadAll does not change the rows of the file: what it renames away could
\* not be read.
LEMMA LoadAllRows == ASSUME RowsRead, LoadAll PROVE RowsRead' /\ disk'.rows = disk.rows
<1>1. disk' = disk \/ (disk.kind = "alien" /\ disk' = Missing)
  BY DEF LoadAll, LoadFile, store
<1> QED
  BY <1>1 DEF RowsRead, Loaded, Missing

\* A reaction placed or taken away while no pass runs becomes a pending event.
LEMMA UserTrue ==
  ASSUME TypeOK, MadeInv, ProvenanceInv, SyncInv,
         NEW u \in Users, NEW e \in Emojis, NEW m \in 1..MaxMessages,
         AddReaction(u, e, m) \/ RemoveReaction(u, e, m)
  PROVE  SyncInv'
<1>1. /\ UNCHANGED <<made, rec, disk, phase, target>>
      /\ calm' = (calm /\ ~Reconciling)
  BY DEF AddReaction, RemoveReaction, Toggled, store, boot
<1>2. RowsRead'
  BY <1>1 DEF SyncInv, RowsRead, Loaded
<1> SUFFICES ASSUME calm, ~Reconciling, Single PROVE Truthful'
  BY <1>1, <1>2 DEF SyncInv, Single
<1>3. Truthful
  BY DEF SyncInv
<1>4. ~Reconciling' /\ rec'.answer = NoAnswer
  BY <1>1 DEF Reconciling, ProvenanceInv, RecEarned
<1>5. CASE ~Running
  <2>1. queue' = <<>> /\ phase' # "up"
    BY <1>1, <1>5 DEF AddReaction, RemoveReaction, Announce, MadeInv, Running
  <2>2. \A i \in 1..Len(queue') : FALSE
    BY <2>1
  <2> QED
    BY <1>4, <2>1, <2>2 DEF Truthful, QueueTrue, FileTrue, SnapshotTrue, AnswerTrue, Covered
<1>6. CASE Running
  <2>1. PICK ev : /\ queue' = Append(queue, ev) /\ Of(ev) = <<u, e, m>>
                  /\ ev.op = "add" <=> <<u, e, m>> \in reacted'
    <3> DEFINE add == [op |-> "add", user |-> u, emoji |-> e, msg |-> m]
               del == [op |-> "remove", user |-> u, emoji |-> e, msg |-> m]
    <3>1. CASE AddReaction(u, e, m)
      <4>1. queue' = Append(queue, add) /\ <<u, e, m>> \in reacted'
        BY <1>6, <3>1 DEF AddReaction, Announce
      <4>2. Of(add) = <<u, e, m>> /\ add.op = "add"
        BY DEF Of
      <4> QED
        BY <4>1, <4>2
    <3>2. CASE RemoveReaction(u, e, m)
      <4>1. queue' = Append(queue, del) /\ <<u, e, m>> \notin reacted'
        BY <1>6, <3>2 DEF RemoveReaction, Announce
      <4>2. Of(del) = <<u, e, m>> /\ del.op # "add"
        BY DEF Of
      <4> QED
        BY <4>1, <4>2
    <3> QED
      BY <3>1, <3>2
  <2>2. \A t : t # <<u, e, m>> => (t \in reacted' <=> t \in reacted)
    BY DEF AddReaction, RemoveReaction
  <2>3. QueueTrue' /\ \A t : ~Pending(t)' => ~Pending(t) /\ t # <<u, e, m>>
    BY <1>3, <2>1, <2>2, PushTrue DEF TypeOK, RestOK, Truthful
  <2>4. \A f \in Emojis : Covered(f)' => Covered(f)
    BY <1>1, <1>4 DEF Covered, Reconciling
  <2>5. FileTrue'
    BY <1>1, <1>3, <2>2, <2>3, <2>4 DEF Truthful, FileTrue
  <2> QED
    BY <1>4, <2>3, <2>5 DEF Truthful, SnapshotTrue, AnswerTrue
<1> QED
  BY <1>5, <1>6

\* The handler makes the rows of the event's reaction what the event says.
LEMMA HandlerTrue ==
  ASSUME TypeOK, MadeInv, LedgerInv, CacheInv, SyncInv, OnAdd \/ OnRemove \/ OnRemoveAbsent
  PROVE  SyncInv'
<1> DiscordOK /\ StoreOK /\ BootOK /\ RecOK /\ RestOK
  BY TypeParts
<1>1. /\ Deliver /\ UNCHANGED <<discord, rec, phase, target, calm, policy>>
      /\ phase = "up" /\ Head(queue).msg = target
  BY DEF OnAdd, OnRemove, OnRemoveAbsent, Heard, boot, Matches
<1>2. RowsRead'
  <2>1. UNCHANGED disk \/ disk'.kind = "ok"
    BY DEF OnAdd, OnRemove, OnRemoveAbsent, Persist, store
  <2> QED
    BY <2>1 DEF SyncInv, RowsRead, Loaded
<1> SUFFICES ASSUME calm, Single PROVE Truthful'
  BY <1>1, <1>2 DEF SyncInv, Single, discord
<1>3. Truthful
  BY DEF SyncInv
<1>4. PICK ev \in Event : ev = Head(queue)
  BY <1>1, DeliverType
<1>5. ev.user \in Users /\ ev.emoji \in Emojis /\ ev.msg = 1 /\ policy \in Nat /\ Injective
  BY <1>1, <1>4, DeliverMade, SingleMessage DEF Event, BootOK
<1>6. /\ QueueTrue'
      /\ \A t : Pending(t) => Pending(t)' \/ t = Of(ev)
      /\ ~Pending(Of(ev))' => (ev.op = "add" <=> Of(ev) \in reacted)
  BY <1>1, <1>3, <1>4, PopTrue DEF Truthful, discord
<1>7. Of(ev) = <<ev.user, ev.emoji, 1>>
  BY <1>5 DEF Of
<1>8. /\ disk.rows = repo.rows /\ repo.rows \in SUBSET Row /\ WellFormed(repo.rows)
      /\ Plain(repo.rows)
  BY <1>1 DEF CacheInv, CacheCoherent, SyncInv, RowsRead, StoreOK, LedgerInv, Sound
<1>9. \A w \in Users, f \in Emojis :
        <<w, f, 1>> \in ActiveSources(disk'.rows)
          <=> IF w = ev.user /\ f = ev.emoji THEN ev.op = "add"
              ELSE <<w, f, 1>> \in ActiveSources(disk.rows)
  <2>1. CASE OnAdd
    <3>1. disk'.rows = Upserted(repo.rows, ActiveRow(ev.user, ev.emoji, 1, policy)) /\ ev.op = "add"
      BY <1>4, <1>5, <2>1 DEF OnAdd, Persist
    <3>2. \A w \in Users, f \in Emojis :
            <<w, f, 1>> \in ActiveSources(Upserted(repo.rows, ActiveRow(ev.user, ev.emoji, 1, policy)))
              <=> (w = ev.user /\ f = ev.emoji) \/ <<w, f, 1>> \in ActiveSources(repo.rows)
      BY <1>5, <1>8, PlainUpserted
    <3> QED
      BY <1>8, <3>1, <3>2
  <2>2. CASE OnRemove
    <3>1. disk'.rows = Removed(repo.rows, ev.user, EmojiScope[ev.emoji]) /\ ev.op = "remove"
      BY <1>4, <2>2 DEF OnRemove, Persist
    <3> QED
      BY <1>5, <1>8, <3>1, PlainRemoved
  <2>3. CASE OnRemoveAbsent
    <3>1. /\ disk' = disk /\ ~HasRow(repo.rows, ev.user, EmojiScope[ev.emoji]) /\ ev.op = "remove"
      BY <1>4, <2>3 DEF OnRemoveAbsent, store
    <3> QED
      BY <1>5, <1>8, <3>1, PlainAbsent
  <2> QED
    BY <2>1, <2>2, <2>3
<1>10. reacted' = reacted /\ rec' = rec /\ \A f : Covered(f)' => Covered(f)
  BY <1>1 DEF discord, Covered, Reconciling
<1>11. FileTrue'
  <2> SUFFICES ASSUME NEW w \in Users, NEW f \in Emojis, Covered(f), ~Pending(<<w, f, 1>>)'
               PROVE  <<w, f, 1>> \in ActiveSources(disk'.rows) <=> <<w, f, 1>> \in reacted
    BY <1>10 DEF FileTrue
  <2>1. CASE w = ev.user /\ f = ev.emoji
    BY <1>6, <1>7, <1>9, <2>1
  <2>2. CASE ~(w = ev.user /\ f = ev.emoji)
    <3>1. <<w, f, 1>> # Of(ev)
      BY <1>7, <2>2
    <3>2. ~Pending(<<w, f, 1>>)
      BY <1>6, <3>1
    <3> QED
      BY <1>3, <1>9, <2>2, <3>2 DEF Truthful, FileTrue
  <2> QED
    BY <2>1, <2>2
<1>12. SnapshotTrue' /\ AnswerTrue'
  BY <1>1, <1>3, <1>10 DEF Truthful, SnapshotTrue, AnswerTrue, Reconciling, Reactors, Emoji
<1> QED
  BY <1>6, <1>11, <1>12 DEF Truthful

\* The pass makes the rows of its emoji the answer, which is Discord's.
LEMMA PassTrue ==
  ASSUME TypeOK, MadeInv, ProvenanceInv, LedgerInv, SyncInv, ReconcileEmoji
  PROVE  SyncInv'
<1> DiscordOK /\ StoreOK /\ BootOK /\ RecOK /\ RestOK
  BY TypeParts
<1>1. PICK next : next = Rebuilt(rec.snapshot, target, Emoji, rec.answer, policy)
  OBVIOUS
<1>2. /\ Reconciling /\ rec.answer # NoAnswer /\ NextEmoji(next)
      /\ disk' = [kind |-> "ok", rows |-> next]
      /\ UNCHANGED <<discord, queue, phase, target, calm>>
  BY <1>1 DEF ReconcileEmoji, Persist, boot
<1>3. RowsRead'
  BY <1>2 DEF RowsRead, Loaded
<1> SUFFICES ASSUME calm, Single PROVE Truthful'
  BY <1>2, <1>3 DEF SyncInv, Single, discord
<1>4. Truthful
  BY DEF SyncInv
<1>5. /\ target = 1 /\ Injective /\ phase = "up"
      /\ rec.snapshot \in SUBSET Row /\ WellFormed(rec.snapshot) /\ Plain(rec.snapshot)
      /\ Emoji \in Emojis /\ rec.answer \in SUBSET Users /\ policy \in Nat
  <2>1. phase = "up" /\ target \in 1..made
    BY <1>2 DEF ProvenanceInv, RecEarned, MadeInv
  <2>2. target = 1 /\ Injective
    BY <2>1, SingleMessage
  <2> QED
    BY <1>2, <2>1, <2>2, TurnEmoji DEF RecOK, BootOK, LedgerInv, Sound
<1>6. \A w \in Users, f \in Emojis :
        <<w, f, 1>> \in ActiveSources(Rebuilt(rec.snapshot, 1, Emoji, rec.answer, policy))
          <=> IF f = Emoji THEN w \in rec.answer ELSE <<w, f, 1>> \in ActiveSources(rec.snapshot)
  BY <1>5, UsersAssumption, PlainRebuilt
<1>7. \A w \in Users : w \in rec.answer <=> <<w, Emoji, 1>> \in reacted
  BY <1>2, <1>4, <1>5 DEF Truthful, AnswerTrue, Reactors
<1>8. ASSUME NEW w \in Users, NEW f \in Emojis, Covered(f) \/ f = Emoji
      PROVE  <<w, f, 1>> \in ActiveSources(next) <=> <<w, f, 1>> \in reacted
  <2>1. CASE f = Emoji
    BY <1>1, <1>5, <1>6, <1>7, <2>1
  <2>2. CASE f # Emoji
    BY <1>1, <1>2, <1>4, <1>5, <1>6, <1>8, <2>2 DEF Truthful, SnapshotTrue
  <2> QED
    BY <2>1, <2>2
<1>9. ASSUME NEW f \in Emojis, Covered(f)' PROVE Covered(f) \/ f = Emoji
  <2> DEFINE n == Len(EmojiOrder)
  <2>1. n \in Nat /\ rec.turn \in 1..n /\ \E i \in 1..n : EmojiOrder[i] = f
    BY <1>2, EmojiOrderAssumption DEF RecOK, Reconciling
  <2> HIDE DEF n
  <2>2. \E i \in 1..n : i <= rec.turn /\ EmojiOrder[i] = f
    <3>1. CASE rec.turn < n
      <4>1. rec'.turn = rec.turn + 1 /\ Reconciling'
        BY <1>2, <2>1, <3>1 DEF NextEmoji, Reconciling, n
      <4>2. \E i \in 1..n : i < rec'.turn /\ EmojiOrder[i] = f
        BY <1>9, <4>1 DEF Covered, n
      <4> QED
        BY <2>1, <4>1, <4>2
    <3>2. CASE rec.turn = n
      BY <2>1, <3>2
    <3> QED
      BY <2>1, <3>1, <3>2
  <2>3. PICK i \in 1..n : i <= rec.turn /\ EmojiOrder[i] = f
    BY <2>2
  <2>4. CASE i = rec.turn
    BY <2>3, <2>4 DEF Emoji
  <2>5. CASE i < rec.turn
    BY <1>5, <2>3, <2>5 DEF Covered, n
  <2> QED
    BY <2>1, <2>3, <2>4, <2>5
<1>10. UNCHANGED <<reacted, queue>> /\ disk'.rows = next
  BY <1>2 DEF discord
<1>11. FileTrue'
  BY <1>8, <1>9, <1>10 DEF FileTrue
<1>12. SnapshotTrue'
  <2>1. Reconciling' => rec'.snapshot = next
    BY <1>2 DEF NextEmoji, Idle, Reconciling
  <2> QED
    BY <1>8, <1>9, <1>10, <2>1 DEF SnapshotTrue
<1>13. AnswerTrue' /\ QueueTrue'
  <2>1. rec'.answer = NoAnswer
    BY <1>2 DEF NextEmoji, Idle
  <2>2. QueueTrue'
    BY <1>4, <1>10 DEF Truthful, QueueTrue, Last
  <2> QED
    BY <2>1, <2>2 DEF AnswerTrue
<1> QED
  BY <1>11, <1>12, <1>13 DEF Truthful

\* While nothing fails or races, the last events, the answer in hand and what
\* the pass and the handler wrote agree with the reactions in place.
THEOREM SyncInduction == Spec => []SyncInv
<1>1. Init => SyncInv
  <2> SUFFICES ASSUME Init PROVE SyncInv
    OBVIOUS
  <2>1. RowsRead /\ QueueTrue
    <3>1. \A i \in 1..Len(queue) : FALSE
      BY DEF Init
    <3> QED
      BY <3>1 DEF Init, RowsRead, Loaded, Missing, QueueTrue
  <2>2. FileTrue /\ SnapshotTrue /\ AnswerTrue
    BY DEF Init, FileTrue, SnapshotTrue, AnswerTrue, Covered, Idle
  <2> QED
    BY <2>1, <2>2 DEF SyncInv, Truthful
<1>2. TypeOK /\ MadeInv /\ ProvenanceInv /\ ProvenanceInv' /\ CacheInv /\ LedgerInv /\ SyncInv
        /\ [Next]_vars => SyncInv'
  <2> SUFFICES ASSUME TypeOK, MadeInv, ProvenanceInv, CacheInv, LedgerInv, SyncInv,
                      ProvenanceInv', [Next]_vars
               PROVE  SyncInv'
    OBVIOUS
  <2> DiscordOK /\ StoreOK /\ BootOK /\ RecOK /\ RestOK
    BY TypeParts
  <2>1. RowsRead
    BY DEF SyncInv
  <2>2. ASSUME UNCHANGED disk PROVE RowsRead'
    BY <2>1, <2>2 DEF RowsRead, Loaded
  \* A step towards a process that is not up has nothing left to show.
  <2>3. ASSUME RowsRead', phase' # "up",
               \/ queue' = <<>>
               \/ UNCHANGED <<reacted, queue, calm>> /\ (Single' => Single)
        PROVE  SyncInv'
    <3>1. FileTrue' /\ SnapshotTrue' /\ AnswerTrue'
      BY <2>3 DEF FileTrue, SnapshotTrue, AnswerTrue, Covered, ProvenanceInv, RecEarned
    <3>2. CASE queue' = <<>>
      <4>1. QueueTrue'
        <5>1. \A i \in 1..Len(queue') : FALSE
          BY <3>2
        <5> QED
          BY <5>1 DEF QueueTrue
      <4> QED
        BY <2>3, <3>1, <4>1 DEF SyncInv, Truthful
    <3>3. CASE UNCHANGED <<reacted, queue, calm>> /\ (Single' => Single)
      <4>1. calm /\ Single => QueueTrue'
        BY <3>3 DEF SyncInv, Truthful, QueueTrue, Last
      <4> QED
        BY <2>3, <3>1, <3>3, <4>1 DEF SyncInv, Truthful
    <3> QED
      BY <2>3, <3>2, <3>3
  <2>4. ASSUME RowsRead', ~calm' PROVE SyncInv'
    BY <2>4 DEF SyncInv
  \* A step that moves nothing but the cache.
  <2>5. ASSUME RowsRead', disk'.rows = disk.rows,
               UNCHANGED <<reacted, made, queue, phase, target, rec, calm>>
        PROVE  SyncInv'
    BY <2>5 DEF SyncInv, Truthful, QueueTrue, Last, FileTrue, SnapshotTrue, AnswerTrue,
                Covered, Pending, Reconciling, Reactors, Emoji, Single
  <2>6. CASE UNCHANGED vars
    BY <2>2, <2>5, <2>6 DEF vars
  <2>7. CASE UserStep
    BY <2>7, UserTrue DEF UserStep
  <2>8. ASSUME NEW m \in 1..MaxMessages, DeleteMessage(m) PROVE SyncInv'
    <3>1. UNCHANGED <<disk, queue, phase>> /\ calm' = (calm /\ ~Running)
      BY <2>8 DEF DeleteMessage, store, boot
    <3>2. CASE Running
      BY <2>2, <2>4, <3>1, <3>2
    <3>3. CASE ~Running
      <4>1. queue' = <<>> /\ phase' # "up"
        BY <3>1, <3>3 DEF MadeInv, Running
      <4> QED
        BY <2>2, <2>3, <3>1, <4>1
    <3> QED
      BY <3>2, <3>3
  <2>9. CASE \E m \in 1..MaxMessages : ResolveMessage(m)
    <3>1. UNCHANGED <<disk, reacted, made, queue, calm>> /\ phase' # "up"
      BY <2>9 DEF ResolveMessage, store, discord
    <3> QED
      BY <2>2, <2>3, <3>1 DEF Single
  <2>10. CASE LoseEvents \/ FetchFails \/ ReconcileSaveFails \/ HandlerFails
    <3>1. UNCHANGED disk /\ ~calm'
      BY <2>10 DEF LoseEvents, FetchFails, ReconcileSaveFails, HandlerFails, PersistFails, store
    <3> QED
      BY <2>2, <2>4, <3>1
  <2>11. CASE Start
    <3>1. UNCHANGED disk /\ queue' = <<>> /\ phase' # "up"
      BY <2>11 DEF Start, store, MadeInv, Running
    <3> QED
      BY <2>2, <2>3, <3>1
  <2>12. CASE Stop
    <3>1. UNCHANGED disk /\ queue' = <<>> /\ phase' # "up"
      BY <2>12 DEF Stop
    <3> QED
      BY <2>2, <2>3, <3>1
  <2>13. CASE \E kind \in {"corrupt", "alien"} : DamageFile(kind)
    <3>1. disk'.rows = {} /\ queue' = <<>> /\ phase' # "up"
      BY <2>13 DEF DamageFile, boot, MadeInv, Running
    <3>2. RowsRead'
      BY <3>1 DEF RowsRead, Loaded
    <3> QED
      BY <2>3, <3>1, <3>2
  <2>14. CASE CreateMessage
    <3>1. UNCHANGED <<disk, reacted, queue, calm>> /\ phase' # "up" /\ made' = made + 1
      BY <2>14 DEF CreateMessage, store
    <3>2. Single' => Single
      BY <3>1 DEF Single, DiscordOK
    <3> QED
      BY <2>2, <2>3, <3>1, <3>2
  <2>15. CASE BootstrapFails
    <3>1. UNCHANGED <<disk, reacted, made, queue, calm>> /\ phase' # "up"
      BY <2>15 DEF BootstrapFails, store, discord
    <3> QED
      BY <2>2, <2>3, <3>1 DEF Single
  <2>16. CASE BootstrapDone
    <3>1. /\ LoadAll /\ UNCHANGED <<reacted, made, queue, calm>>
          /\ rec' = [turn |-> 1, snapshot |-> cache', answer |-> NoAnswer]
      BY <2>16 DEF BootstrapDone, discord
    <3>2. \A f : ~Covered(f)'
      <4>1. rec'.turn = 1
        BY <3>1
      <4> QED
        BY <4>1 DEF Covered, Reconciling
    <3>3. FileTrue' /\ SnapshotTrue' /\ AnswerTrue'
      BY <3>1, <3>2 DEF FileTrue, SnapshotTrue, AnswerTrue
    <3>4. QueueTrue => QueueTrue'
      BY <3>1 DEF QueueTrue, Last
    <3>5. RowsRead'
      BY <2>1, <3>1, LoadAllRows
    <3> QED
      BY <3>1, <3>3, <3>4, <3>5 DEF SyncInv, Truthful, Single
  <2>17. CASE FetchAnswered
    <3>1. UNCHANGED <<disk, reacted, made, queue, phase, target, calm>>
      BY <2>17 DEF FetchAnswered, store, discord, boot
    <3>2. /\ rec'.turn = rec.turn /\ rec'.snapshot = rec.snapshot
          /\ rec'.answer = Reactors(Emoji, target)
      BY <2>17 DEF FetchAnswered, RecOK
    <3>3. AnswerTrue'
      BY <3>1, <3>2 DEF AnswerTrue, Reactors, Emoji
    <3>4. Truthful => QueueTrue' /\ FileTrue' /\ SnapshotTrue'
      BY <3>1, <3>2 DEF Truthful, QueueTrue, Last, FileTrue, SnapshotTrue, Covered, Pending, Reconciling
    <3> QED
      BY <2>2, <3>1, <3>3, <3>4 DEF SyncInv, Truthful, Single
  <2>18. CASE ReconcileEmoji
    BY <2>18, PassTrue
  <2>19. CASE IgnoreReaction
    <3>1. /\ Deliver /\ ~(phase = "up" /\ Head(queue).msg = target)
          /\ UNCHANGED <<disk, discord, phase, target, rec, calm>>
      BY <2>19 DEF IgnoreReaction, Heard, Matches, store, boot
    <3> SUFFICES ASSUME calm, Single PROVE Truthful'
      BY <2>2, <3>1 DEF SyncInv, Single, discord
    <3>2. phase # "up"
      <4>1. Head(queue).msg \in 1..made
        BY <3>1, DeliverMade
      <4>2. phase = "up" => target \in 1..made
        BY DEF MadeInv
      <4> QED
        BY <3>1, <4>1, <4>2, SingleMessage
    <3>3. QueueTrue'
      BY <3>1, PopTrue DEF SyncInv, Truthful, discord
    <3>4. FileTrue' /\ SnapshotTrue' /\ AnswerTrue'
      BY <3>1, <3>2 DEF FileTrue, SnapshotTrue, AnswerTrue, Covered, ProvenanceInv, RecEarned
    <3> QED
      BY <3>3, <3>4 DEF Truthful
  <2>20. CASE OnAdd \/ OnRemove \/ OnRemoveAbsent
    BY <2>20, HandlerTrue
  <2>21. CASE Authorize
    <3>1. LoadAll /\ UNCHANGED <<reacted, made, queue, phase, target, rec, calm>>
      BY <2>21 DEF Authorize, discord, boot
    <3> QED
      BY <2>1, <2>5, <3>1, LoadAllRows
  <2>22. CASE \E u \in Users : Clear(u)
    <3>1. ~calm' /\ (disk' = disk \/ disk'.kind = "ok")
      BY <2>22 DEF Clear
    <3>2. RowsRead'
      BY <2>2, <3>1 DEF RowsRead, Loaded
    <3> QED
      BY <2>4, <3>1, <3>2
  <2> QED
    BY <2>6, <2>7, <2>8, <2>9, <2>10, <2>11, <2>12, <2>13, <2>14, <2>15, <2>16, <2>17, <2>18,
       <2>19, <2>20, <2>21, <2>22 DEF Next
<1> QED
  BY <1>1, <1>2, TypeCorrect, MadeInduction, ProvenanceInduction, CacheInduction, LedgerInduction,
     PTL DEF Spec

\* With one consent message, one emoji per scope and nothing failed or raced
\* since the start, the active rows of the file are the reactions in place
\* once no event is pending.
THEOREM FileFollowsDiscord == Spec => []InSync
<1>1. TypeOK /\ MadeInv /\ LedgerInv /\ SyncInv => InSync
  <2> SUFFICES ASSUME TypeOK, MadeInv, LedgerInv, SyncInv, phase = "up", ~Reconciling,
                      queue = <<>>, calm, made = 1, Cardinality(Scopes) = Cardinality(Emojis)
               PROVE  ActiveSources(disk.rows) = reacted
    BY DEF InSync
  <2>1. Single /\ FileTrue /\ Plain(disk.rows)
    BY DEF Single, SyncInv, Truthful, LedgerInv, Sound
  <2>2. \A f : Covered(f)
    BY DEF Covered
  <2>3. \A t : ~Pending(t)
    <3>1. \A i \in 1..Len(queue) : FALSE
      OBVIOUS
    <3> QED
      BY <3>1 DEF Pending
  <2>4. \A u \in Users, e \in Emojis :
          <<u, e, 1>> \in ActiveSources(disk.rows) <=> <<u, e, 1>> \in reacted
    BY <2>1, <2>2, <2>3 DEF FileTrue
  <2>5. ASSUME NEW t \in ActiveSources(disk.rows) PROVE \E u \in Users, e \in Emojis : t = <<u, e, 1>>
    <3>1. PICK r \in disk.rows : t = <<r.subjectId, r.emoji, r.msg>>
      BY DEF ActiveSources
    <3>2. r.subjectId \in Users /\ r.emoji \in Emojis /\ r.msg = 1
      BY <2>1 DEF TypeOK, Row, Plain
    <3> QED
      BY <3>1, <3>2
  <2>6. ASSUME NEW t \in reacted PROVE \E u \in Users, e \in Emojis : t = <<u, e, 1>>
    <3>1. PICK u \in Users, e \in Emojis, m \in Nat : t = <<u, e, m>>
      BY DEF TypeOK
    <3>2. t[3] \in 1..made
      BY DEF MadeInv
    <3>3. m = 1
      BY <3>1, <3>2
    <3> QED
      BY <3>1, <3>3
  <2>7. ASSUME NEW t PROVE t \in ActiveSources(disk.rows) <=> t \in reacted
    BY <2>4, <2>5, <2>6
  <2> QED
    BY <2>7
<1> QED
  BY <1>1, TypeCorrect, MadeInduction, LedgerInduction, SyncInduction, PTL
=============================================================================
