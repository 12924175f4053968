-------------------------- MODULE FeedRefreshProofs --------------------------
(***************************************************************************)
(* Proofs about FeedRefresh, for any number of refreshers, entries and     *)
(* documents, any dates and any limit: what the merge of ReplaceEntries    *)
(* stores and its trim takes, and, from that, what a 304 can hide.         *)
(***************************************************************************)
EXTENDS FeedRefresh, FiniteSetTheorems, TLAPS

------------------------------------------------------------------------------
(* Merge and trim *)

LEMMA EntriesFinite ==
  ASSUME NEW S \in SUBSET Entry
  PROVE  IsFiniteSet(S) /\ Cardinality(S) \in Nat
<1>1. IsFiniteSet(Entry)
  BY FeedRefreshAssumption
<1>2. QED
  BY <1>1, FS_Subset, FS_CardinalityType

LEMMA MoreEntries ==
  ASSUME NEW S \in SUBSET Entry, NEW T \in SUBSET S
  PROVE  Cardinality(T) <= Cardinality(S)
  BY EntriesFinite, FS_Subset

\* Versions and dates are numbers.
LEMMA Numbers ==
  /\ 0 \in Version /\ 0 \in Date
  /\ \A v \in Version : v \in Nat
  /\ \A d \in Date : d \in Nat
  BY FeedRefreshAssumption DEF Version, Date

LEMMA MergeType ==
  ASSUME NEW row \in Row, NEW item \in Item
  PROVE  Merge(row, item) \in Row
  BY DEF Merge, Row, Item

\* What the merge makes of a row that the document has, and that it does not lose
\* one that the document has not.
LEMMA MergeKeeps ==
  ASSUME NEW row \in Row, NEW item \in Item, item # NoItem => item.body > 0
  PROVE  /\ item = NoItem => Merge(row, item) = row
         /\ item # NoItem =>
              /\ Merge(row, item) # NoRow
              /\ Merge(row, item).title = item.body
              /\ Merge(row, item).link = IF row = NoRow THEN item.body ELSE row.link
              /\ Merge(row, item).date = IF item.date # 0 THEN item.date ELSE row.date
         /\ row # NoRow => Merge(row, item) # NoRow
<1>1. item = NoItem => Merge(row, item) = row
  BY DEF Merge
<1>2. ASSUME item # NoItem
      PROVE  /\ Merge(row, item).title = item.body
             /\ Merge(row, item).link = IF row = NoRow THEN item.body ELSE row.link
             /\ Merge(row, item).date = IF item.date # 0 THEN item.date ELSE row.date
  BY <1>2 DEF Merge
<1>3. item # NoItem => Merge(row, item) # NoRow
  <2>1. NoRow.title = 0
    BY DEF NoRow
  <2>2. item # NoItem => item.body # 0
    BY Numbers DEF Item
  <2> QED BY <1>2, <2>1, <2>2
<1> QED BY <1>1, <1>2, <1>3

\* The trim leaves some of the rows, no more than the limit, and takes a row only if
\* Keep rows are left that do not come after it.
LEMMA TrimKeeps ==
  ASSUME NEW table \in [Entry -> Row], NEW ages, NEW kept \in First(table, ages)
  PROVE  /\ kept \in SUBSET Filled(table)
         /\ Keep # 0 => Cardinality(kept) <= Keep
         /\ \A e \in Filled(table) \ kept :
              /\ Keep # 0 /\ Cardinality(kept) = Keep
              /\ \A x \in kept : table[x].date >= table[e].date
<1> DEFINE all == Filled(table)
<1>1. all \in SUBSET Entry /\ Cardinality(all) \in Nat
  BY EntriesFinite DEF Filled
<1>2. CASE Keep = 0 \/ Cardinality(all) <= Keep
  <2>1. kept = all
    BY <1>2 DEF First
  <2> QED BY <1>2, <2>1
<1>3. CASE ~ (Keep = 0 \/ Cardinality(all) <= Keep)
  <2>1. /\ kept \in SUBSET all /\ Cardinality(kept) = Keep
        /\ \A x \in kept, y \in all \ kept : ~Before(table, ages, y, x)
    BY <1>3 DEF First
  <2>2. ASSUME NEW x \in kept, NEW e \in all \ kept
        PROVE  table[x].date >= table[e].date
    <3>1. ~ (table[e].date > table[x].date)
      BY <2>1 DEF Before
    <3>2. table[e].date \in Nat /\ table[x].date \in Nat
      BY <1>1, <2>1, Numbers DEF Row
    <3> QED BY <3>1, <3>2
  <2>3. Cardinality(kept) <= Keep
    BY <2>1, FeedRefreshAssumption
  <2> QED BY <1>3, <2>1, <2>2, <2>3
<1> QED BY <1>2, <1>3

------------------------------------------------------------------------------
(* The invariant *)

\* A document is of what was published by then; what is not published yet is empty,
\* and nobody has heard of it.
Known ==
  /\ \A v \in Version, e \in Entry :
       /\ docs[v][e].body <= v
       /\ docs[v][e] # NoItem => docs[v][e].body > 0 /\ v <= version
  /\ etag <= version /\ lastmod <= version /\ newest <= version
  /\ \A r \in Refresher : got[r] <= version

\* The body of an entry never goes back from one document to a later one.
Monotone ==
  \A v, w \in Version, e \in Entry :
    v <= w /\ docs[w][e] # NoItem => docs[v][e].body <= docs[w][e].body

\* Document v was applied: it is not newer than the newest one, and its entries are
\* in the store, unless trimmed or purged.
Stored(v) ==
  /\ v <= newest
  /\ \A e \in In(docs[v]) : e \in Present \cup purged \cup trimmed

\* What the validators name, or are about to name, was applied.
Applied ==
  /\ etag \notin lost => Stored(etag)
  /\ lastmod \notin lost => Stored(lastmod)
  /\ \A r \in Refresher :
       pc[r] \in {"setETag", "setLastMod"} /\ got[r] \notin lost => Stored(got[r])

\* The rows that are dated no earlier than d, the purged ones included.
From(d) == purged \cup {x \in Present : entries[x].date >= d}

\* Entry e of document v is in the store as it is in the document, but for a link
\* and a date that the merge keeps, or it was purged, or Keep rows are dated no
\* earlier.
Holds(v, e) ==
  \/ /\ e \in Present
     /\ entries[e].title = docs[v][e].body
     /\ docs[v][e].date # 0 => entries[e].date = docs[v][e].date
  \/ e \in purged
  \/ Keep # 0 /\ e \notin Present /\ Cardinality(From(docs[v][e].date)) >= Keep

\* In order, the store has the newest document applied.
Exact == ~overtaken => \A e \in In(docs[newest]) : Holds(newest, e)

\* Each column of a row is from a document that is no newer than the newest applied.
FromDocument(e) ==
  /\ \E v \in Version : v <= newest /\ docs[v][e].body = entries[e].title
  /\ \E v \in Version : v <= newest /\ docs[v][e].body = entries[e].link
  /\ \E v \in Version : v <= newest /\ docs[v][e].date = entries[e].date

\* So it is, no more rows are kept than may be, and in order no link is newer than
\* its title.
Rows ==
  /\ Keep # 0 => Cardinality(Present) <= Keep
  /\ \A e \in Present : FromDocument(e) /\ (~overtaken => entries[e].link <= entries[e].title)

\* What was purged is not there.
Absent == \A e \in purged : e \notin Present

IInv == TypeOK /\ Known /\ Monotone /\ Applied /\ Exact /\ Rows /\ Absent

------------------------------------------------------------------------------
(* Steps *)

\* The columns are numbers.
LEMMA Columns ==
  ASSUME TypeOK
  PROVE  /\ \A v \in Version, e \in Entry :
              docs[v][e] \in Item /\ docs[v][e].body \in Nat /\ docs[v][e].date \in Nat
         /\ \A e \in Entry :
              /\ entries[e] \in Row
              /\ entries[e].title \in Nat /\ entries[e].link \in Nat /\ entries[e].date \in Nat
<1>1. \A v \in Version, e \in Entry : docs[v][e] \in Item
  BY DEF TypeOK
<1>2. \A e \in Entry : entries[e] \in Row
  BY DEF TypeOK
<1> QED BY <1>1, <1>2, Numbers DEF Item, Row

\* The origin adds a document, and leaves the others.
LEMMA Origin ==
  ASSUME TypeOK, Publish
  PROVE  /\ version < MaxVersion /\ version' = version + 1 /\ version + 1 \in Version
         /\ \E doc \in [Entry -> Item] :
              /\ \A e \in Entry : doc[e] = NoItem \/ doc[e] = docs[version][e] \/ doc[e].body = version + 1
              /\ docs' = [docs EXCEPT ![version + 1] = doc]
         /\ UNCHANGED <<rows, etag, lastmod, pc, askTag, askMod, got, lost, applied, faults>>
<1>1. version < MaxVersion /\ version' = version + 1 /\ version + 1 \in Version
  BY FeedRefreshAssumption DEF Publish, TypeOK, Version
<1>2. PICK doc \in [Entry -> Item] :
        /\ \A e \in Entry :
             doc[e] \in {NoItem, docs[version][e]} \cup [body : {version + 1}, date : Date]
        /\ docs' = [docs EXCEPT ![version + 1] = doc]
  BY DEF Publish
<1>3. \A e \in Entry : doc[e] = NoItem \/ doc[e] = docs[version][e] \/ doc[e].body = version + 1
  BY <1>2
<1>4. UNCHANGED <<rows, etag, lastmod, pc, askTag, askMod, got, lost, applied, faults>>
  BY DEF Publish
<1> QED BY <1>1, <1>2, <1>3, <1>4

\* Purge takes rows away, remembers which, and leaves all the rest.
LEMMA Purged ==
  ASSUME PurgeExpired \/ PurgeBudget
  PROVE  /\ \E S \in SUBSET Present :
              /\ entries' = [e \in Entry |-> IF e \in Present \ S THEN entries[e] ELSE NoRow]
              /\ age' = [e \in Entry |-> IF e \in Present \ S THEN age[e] ELSE 0]
              /\ purged' = purged \cup S
              /\ Present' = Present \ S
         /\ UNCHANGED <<origin, trimmed, etag, lastmod, pc, askTag, askMod, got, lost, applied, faults>>
<1>1. PICK S \in SUBSET Present : Delete(S)
  <2>1. CASE PurgeExpired
    <3>1. PICK e \in Present : Delete({x \in Present : age[x] >= age[e]})
      BY <2>1 DEF PurgeExpired
    <3> QED BY <3>1
  <2>2. CASE PurgeBudget
    BY <2>2 DEF PurgeBudget
  <2> QED BY <2>1, <2>2
<1>2. /\ entries' = [e \in Entry |-> IF e \in Present \ S THEN entries[e] ELSE NoRow]
      /\ age' = [e \in Entry |-> IF e \in Present \ S THEN age[e] ELSE 0]
      /\ purged' = purged \cup S
  BY <1>1 DEF Delete, Leaves
<1>3. Present' = Present \ S
  BY <1>2 DEF Present, Filled
<1>4. UNCHANGED <<origin, trimmed, etag, lastmod, pc, askTag, askMod, got, lost, applied, faults>>
  BY <1>1 DEF Delete
<1> QED BY <1>1, <1>2, <1>3, <1>4

\* What a document that is applied leaves in the store.
LEMMA Replaced ==
  ASSUME TypeOK, NEW r \in Refresher, ReplaceEntries(r)
  PROVE  \E table \in [Entry -> Row], kept \in SUBSET Filled(Merged(docs[got[r]])) :
           /\ table = Merged(docs[got[r]])
           /\ \A e \in Entry : table[e] = Merge(entries[e], docs[got[r]][e])
           /\ entries' = [e \in Entry |-> IF e \in kept THEN table[e] ELSE NoRow]
           /\ Present' = kept
           /\ Keep # 0 => Cardinality(kept) <= Keep
           /\ \A e \in Filled(table) \ kept :
                /\ Keep # 0 /\ Cardinality(kept) = Keep
                /\ \A x \in kept : table[x].date >= table[e].date
           /\ Apply(got[r], table, kept)
<1> DEFINE doc == docs[got[r]]
           table == Merged(doc)
<1>1. got[r] \in Version /\ doc \in [Entry -> Item] /\ entries \in [Entry -> Row]
  BY DEF TypeOK
<1>2. \A e \in Entry : Merge(entries[e], doc[e]) \in Row
  BY <1>1, MergeType
<1>3. table \in [Entry -> Row] /\ \A e \in Entry : table[e] = Merge(entries[e], doc[e])
  BY <1>2 DEF Merged
<1>4. PICK kept \in First(table, Refetched(doc)) :
        Leaves(table, Refetched(doc), kept) /\ Apply(got[r], table, kept)
  BY DEF ReplaceEntries
<1>5. /\ kept \in SUBSET Filled(table)
      /\ Keep # 0 => Cardinality(kept) <= Keep
      /\ \A e \in Filled(table) \ kept :
           /\ Keep # 0 /\ Cardinality(kept) = Keep
           /\ \A x \in kept : table[x].date >= table[e].date
  <2> HIDE DEF table
  <2> QED BY <1>3, <1>4, TrimKeeps
<1>6. entries' = [e \in Entry |-> IF e \in kept THEN table[e] ELSE NoRow]
  BY <1>4 DEF Leaves
<1>7. Present' = kept
  BY <1>5, <1>6 DEF Present, Filled
<1> HIDE DEF table
<1> QED BY <1>3, <1>4, <1>5, <1>6, <1>7 DEF table

LEMMA InitIInv == Init => IInv
<1> SUFFICES ASSUME Init PROVE IInv
  OBVIOUS
<1> USE FeedRefreshAssumption, Numbers DEF Init
<1>1. NoItem \in Item /\ NoRow \in Row
  BY DEF NoItem, NoRow, Item, Row
<1>2. TypeOK
  <2>1. overtaken \in BOOLEAN
    OBVIOUS
  <2> QED BY <1>1, <2>1 DEF TypeOK
<1>3. Known
  BY DEF Known, NoItem, Version
<1>4. Monotone
  BY DEF Monotone
<1>5. Applied
  BY DEF Applied, Stored, In
<1>6. Exact
  BY DEF Exact, In
<1>7. Present = {}
  BY DEF Present, Filled
<1>8. Rows
  BY <1>7, FS_EmptySet DEF Rows
<1>9. Absent
  BY DEF Absent
<1> QED BY <1>2, <1>3, <1>4, <1>5, <1>6, <1>8, <1>9 DEF IInv

\* Every step preserves the types.
LEMMA TypeStep == TypeOK /\ [Next]_vars => TypeOK'
<1> SUFFICES ASSUME TypeOK, [Next]_vars
             PROVE  TypeOK'
  OBVIOUS
<1> USE FeedRefreshAssumption, Numbers
<1>0. NoRow \in Row
  BY DEF NoRow, Row
<1>1. CASE Publish
  <2>1. version' \in Version /\ docs' \in [Version -> [Entry -> Item]]
    <3>1. version' = version + 1 /\ version + 1 \in Version
      BY <1>1, Origin
    <3>2. PICK doc \in [Entry -> Item] : docs' = [docs EXCEPT ![version + 1] = doc]
      BY <1>1, Origin
    <3>3. docs \in [Version -> [Entry -> Item]]
      BY DEF TypeOK
    <3> QED BY <3>1, <3>2, <3>3
  <2>2. UNCHANGED <<rows, etag, lastmod, pc, askTag, askMod, got, lost, applied, faults>>
    BY <1>1, Origin
  <2> QED BY <2>1, <2>2 DEF TypeOK, rows, applied
<1>2. ASSUME NEW r \in Refresher, ReplaceEntries(r)
      PROVE  TypeOK'
  <2> DEFINE doc == docs[got[r]]
  <2>1. entries' \in [Entry -> Row]
    BY <1>0, <1>2, Replaced
  <2>2. age' \in [Entry -> Nat]
    <3>1. PICK kept : Leaves(Merged(doc), Refetched(doc), kept)
      BY <1>2 DEF ReplaceEntries
    <3>2. \A e \in Entry : Refetched(doc)[e] \in Nat
      <4>1. Present \ In(doc) \in SUBSET Entry
        BY DEF Present, Filled
      <4>2. ASSUME NEW S \in SUBSET Entry
            PROVE  Cardinality({age[x] : x \in S}) \in Nat
        <5>1. IsFiniteSet(S)
          BY EntriesFinite
        <5>2. age \in [Entry -> Nat]
          BY DEF TypeOK
        <5>3. [x \in S |-> age[x]] \in Surjection(S, {age[x] : x \in S})
          BY DEF Surjection
        <5>4. IsFiniteSet({age[x] : x \in S})
          BY <5>1, <5>3, FS_Surjection
        <5> QED BY <5>4, FS_CardinalityType
      <4>3. ASSUME NEW e \in Entry
            PROVE  Cardinality({age[x] : x \in {y \in Present \ In(doc) : age[y] < age[e]}}) \in Nat
        <5>1. {y \in Present \ In(doc) : age[y] < age[e]} \in SUBSET Entry
          BY <4>1
        <5> QED BY <4>2, <5>1
      <4> HIDE DEF doc
      <4> QED BY <4>3 DEF Refetched
    <3> HIDE DEF doc
    <3> QED BY <3>1, <3>2 DEF Leaves
  <2>3. newest' \in Version /\ overtaken' \in BOOLEAN
    <3>1. got[r] \in Version /\ newest \in Version /\ overtaken \in BOOLEAN
      BY DEF TypeOK
    <3>2. /\ newest' = IF got[r] > newest THEN got[r] ELSE newest
          /\ overtaken' = (overtaken \/ got[r] < newest)
      BY <1>2 DEF ReplaceEntries, Apply
    <3> QED BY <3>1, <3>2, Zenon
  <2>4. trimmed' \in SUBSET Entry /\ purged' \in SUBSET Entry
    BY <1>2 DEF ReplaceEntries, Apply, Filled, TypeOK
  <2> QED BY <1>2, <2>1, <2>2, <2>3, <2>4 DEF ReplaceEntries, Goto, origin, TypeOK
<1>3. CASE PurgeExpired \/ PurgeBudget
  <2>1. /\ entries' \in [Entry -> Row] /\ age' \in [Entry -> Nat]
        /\ purged' \in SUBSET Entry
    <3>1. Present \in SUBSET Entry
      BY DEF Present, Filled
    <3> QED BY <1>0, <1>3, <3>1, Purged DEF TypeOK
  <2> QED BY <1>3, <2>1, Purged DEF origin, applied, TypeOK
<1>4. ASSUME NEW r \in Refresher,
             ReadETag(r) \/ ReadLastMod(r) \/ Answer200(r) \/ Answer304(r) \/ AnswerBad(r)
               \/ SetETag(r) \/ SetLastMod(r)
      PROVE  TypeOK'
  <2>1. CASE ReadETag(r)
    BY <2>1 DEF ReadETag, Goto, origin, rows, applied, TypeOK
  <2>2. CASE ReadLastMod(r)
    BY <2>2 DEF ReadLastMod, Goto, origin, rows, applied, TypeOK
  <2>3. CASE Answer200(r)
    BY <2>3 DEF Answer200, Goto, origin, rows, applied, TypeOK
  <2>4. CASE Answer304(r)
    BY <2>4 DEF Answer304, Goto, Leave, origin, rows, applied, TypeOK
  <2>5. CASE AnswerBad(r)
    BY <2>5 DEF AnswerBad, Goto, Leave, origin, rows, applied, TypeOK
  <2>6. CASE SetETag(r)
    BY <2>6 DEF SetETag, Goto, origin, rows, applied, TypeOK
  <2>7. CASE SetLastMod(r)
    BY <2>7 DEF SetLastMod, Goto, Leave, origin, rows, applied, TypeOK
  <2> QED BY <1>4, <2>1, <2>2, <2>3, <2>4, <2>5, <2>6, <2>7
<1>5. ASSUME NEW r \in Refresher, WriteFails(r)
      PROVE  TypeOK'
  <2>1. faults' \in 0..MaxFaults
    BY <1>5 DEF WriteFails, TypeOK
  <2>2. /\ pc' \in [Refresher -> {"idle", "readMod", "get", "replace", "setETag", "setLastMod"}]
        /\ lost' \in SUBSET Version
        /\ askTag' \in [Refresher -> Version] /\ askMod' \in [Refresher -> Version]
        /\ got' \in [Refresher -> Version]
    <3>1. CASE Goto(r, "replace", "setETag") /\ lost' = lost \cup {got[r]} /\ UNCHANGED <<askTag, askMod, got>>
      BY <3>1 DEF Goto, TypeOK
    <3>2. CASE Goto(r, "setETag", "setLastMod") /\ UNCHANGED <<lost, askTag, askMod, got>>
      BY <3>2 DEF Goto, TypeOK
    <3>3. CASE Goto(r, "setLastMod", "idle") /\ Leave(r) /\ UNCHANGED lost
      BY <3>3 DEF Goto, Leave, TypeOK
    <3> QED BY <1>5, <3>1, <3>2, <3>3 DEF WriteFails
  <2>3. UNCHANGED <<origin, rows, etag, lastmod, applied>>
    BY <1>5 DEF WriteFails
  <2> QED BY <2>1, <2>2, <2>3 DEF origin, rows, applied, TypeOK
<1>6. CASE Crash
  BY <1>6 DEF Crash, origin, rows, applied, TypeOK
<1>7. CASE UNCHANGED vars
  BY <1>7 DEF vars, origin, rows, applied, TypeOK
<1> QED BY <1>1, <1>2, <1>3, <1>4, <1>5, <1>6, <1>7 DEF Next, RefreshFeed

\* Only four kinds of steps touch the documents or the rows.
LEMMA Kinds ==
  ASSUME [Next]_vars
  PROVE  \/ Publish
         \/ \E r \in Refresher : ReplaceEntries(r)
         \/ PurgeExpired \/ PurgeBudget
         \/ UNCHANGED <<origin, rows, applied>>
  BY DEF Next, RefreshFeed, vars, ReadETag, ReadLastMod, Answer200, Answer304, AnswerBad,
         SetETag, SetLastMod, WriteFails, Crash

\* The documents of the past stay.
LEMMA Documents ==
  ASSUME TypeOK, Known, [Next]_vars
  PROVE  \A v \in Version : docs'[v] = docs[v] \/ (v = version + 1 /\ Publish)
<1>1. CASE Publish
  <2>1. PICK doc : docs' = [docs EXCEPT ![version + 1] = doc]
    BY <1>1, Origin
  <2>2. \A v \in Version : docs'[v] = IF v = version + 1 THEN doc ELSE docs[v]
    BY <2>1 DEF TypeOK
  <2> QED BY <1>1, <2>2
<1>2. CASE ~Publish
  <2>1. ASSUME NEW r \in Refresher, ReplaceEntries(r) PROVE docs' = docs
    BY <2>1 DEF ReplaceEntries, origin
  <2>2. ASSUME PurgeExpired \/ PurgeBudget PROVE docs' = docs
    BY <2>2, Purged DEF origin
  <2>3. ASSUME UNCHANGED <<origin, rows, applied>> PROVE docs' = docs
    BY <2>3 DEF origin
  <2>4. docs' = docs
    BY <1>2, <2>1, <2>2, <2>3, Kinds
  <2> QED BY <2>4
<1> QED BY <1>1, <1>2

LEMMA KnownStep == TypeOK /\ Known /\ [Next]_vars => Known'
<1> SUFFICES ASSUME TypeOK, Known, [Next]_vars
             PROVE  Known'
  OBVIOUS
<1> USE FeedRefreshAssumption, Numbers
<1>0. /\ version \in Version /\ version \in Nat
      /\ etag \in Nat /\ lastmod \in Nat /\ newest \in Nat
      /\ \A r \in Refresher : got[r] \in Version /\ got[r] \in Nat
  BY DEF TypeOK
<1> DEFINE Past == \A v \in Version, e \in Entry :
                     /\ docs[v][e].body <= v
                     /\ docs[v][e] # NoItem => docs[v][e].body > 0 /\ v <= version
           Heard == /\ etag <= version /\ lastmod <= version /\ newest <= version
                    /\ \A r \in Refresher : got[r] <= version
<1>1. CASE Publish
  <2>1. version' = version + 1
    BY <1>1, Origin
  <2>2. PICK doc \in [Entry -> Item] :
          /\ \A e \in Entry : doc[e] = NoItem \/ doc[e] = docs[version][e] \/ doc[e].body = version + 1
          /\ docs' = [docs EXCEPT ![version + 1] = doc]
    BY <1>1, Origin
  <2>3. ASSUME NEW e \in Entry
        PROVE  doc[e].body <= version + 1 /\ (doc[e] # NoItem => doc[e].body > 0)
    <3>1. CASE doc[e] = NoItem
      BY <1>0, <3>1 DEF NoItem
    <3>2. CASE doc[e] = docs[version][e]
      <4>1. docs[version][e].body <= version /\ docs[version][e].body \in Nat
        BY <1>0, Columns DEF Known
      <4> QED BY <1>0, <3>2, <4>1 DEF Known
    <3>3. CASE doc[e].body = version + 1
      BY <1>0, <3>3
    <3> QED BY <2>2, <3>1, <3>2, <3>3
  <2>4. ASSUME NEW v \in Version, NEW e \in Entry
        PROVE  /\ docs'[v][e].body <= v
               /\ docs'[v][e] # NoItem => docs'[v][e].body > 0 /\ v <= version'
    <3>1. CASE v = version + 1
      <4>1. docs'[v] = doc
        BY <2>2, <3>1 DEF TypeOK
      <4> QED BY <1>0, <2>1, <2>3, <3>1, <4>1
    <3>2. CASE v # version + 1
      <4>1. docs'[v] = docs[v]
        BY <2>2, <3>2 DEF TypeOK
      <4> QED BY <1>0, <2>1, <4>1 DEF Known
    <3> QED BY <3>1, <3>2
  <2>5. Heard'
    <3>1. UNCHANGED <<etag, lastmod, got, newest>>
      BY <1>1, Origin DEF applied
    <3> QED BY <1>0, <2>1, <3>1 DEF Known
  <2> QED BY <2>4, <2>5 DEF Known
<1>2. ASSUME UNCHANGED origin
      PROVE  Past'
  BY <1>2 DEF origin, Known
<1>3. ASSUME NEW r \in Refresher, ReplaceEntries(r)
      PROVE  Known'
  <2>1. newest' = IF got[r] > newest THEN got[r] ELSE newest
    BY <1>3 DEF ReplaceEntries, Apply
  <2>2. newest' <= version
    BY <1>0, <2>1 DEF Known
  <2>3. Heard'
    BY <1>3, <2>2 DEF ReplaceEntries, origin, Known
  <2>4. UNCHANGED origin
    BY <1>3 DEF ReplaceEntries
  <2> QED BY <1>2, <2>3, <2>4 DEF Known
<1>4. ASSUME NEW r \in Refresher,
             ReadETag(r) \/ ReadLastMod(r) \/ Answer200(r) \/ Answer304(r) \/ AnswerBad(r)
               \/ SetETag(r) \/ SetLastMod(r) \/ WriteFails(r)
      PROVE  Known'
  <2>1. UNCHANGED origin /\ UNCHANGED newest
    BY <1>4 DEF ReadETag, ReadLastMod, Answer200, Answer304, AnswerBad, SetETag, SetLastMod,
                WriteFails, applied
  <2>2. /\ etag' \in {etag, got[r]} /\ lastmod' \in {lastmod, got[r]}
        /\ \A q \in Refresher : got'[q] \in {got[q], version, 0}
    BY <1>4 DEF ReadETag, ReadLastMod, Answer200, Answer304, AnswerBad, SetETag, SetLastMod,
                WriteFails, Leave, TypeOK
  <2>3. Heard'
    BY <1>0, <2>1, <2>2 DEF Known, origin
  <2> QED BY <1>2, <2>1, <2>3 DEF Known
<1>5. CASE Crash
  <2>1. UNCHANGED <<origin, etag, lastmod, newest>> /\ \A q \in Refresher : got'[q] \in {got[q], 0}
    BY <1>5 DEF Crash, applied, TypeOK
  <2>2. Heard'
    BY <1>0, <2>1 DEF Known, origin
  <2> QED BY <1>2, <2>1, <2>2 DEF Known
<1>6. CASE PurgeExpired \/ PurgeBudget
  BY <1>6, Purged DEF Known, origin, applied
<1>7. CASE UNCHANGED vars
  BY <1>7 DEF vars, Known, origin, applied
<1> QED BY <1>1, <1>3, <1>4, <1>5, <1>6, <1>7 DEF Next, RefreshFeed

LEMMA MonotoneStep == TypeOK /\ Known /\ Monotone /\ [Next]_vars => Monotone'
<1> SUFFICES ASSUME TypeOK, Known, Monotone, [Next]_vars,
                    NEW v \in Version, NEW w \in Version, NEW e \in Entry,
                    v <= w, docs'[w][e] # NoItem
             PROVE  docs'[v][e].body <= docs'[w][e].body
  BY DEF Monotone
<1> USE FeedRefreshAssumption, Numbers
<1>0. version \in Version /\ version \in Nat /\ \A u \in Version : docs[u][e].body \in Nat
  BY Columns DEF TypeOK
<1>1. CASE Publish
  <2>1. PICK doc \in [Entry -> Item] :
          /\ doc[e] = NoItem \/ doc[e] = docs[version][e] \/ doc[e].body = version + 1
          /\ docs' = [docs EXCEPT ![version + 1] = doc]
    BY <1>1, Origin
  <2>2. \A u \in Version : docs'[u] = IF u = version + 1 THEN doc ELSE docs[u]
    BY <2>1 DEF TypeOK
  <2>3. CASE w = version + 1 /\ v # w
    <3>1. docs'[v] = docs[v] /\ docs'[w] = doc /\ v <= version
      BY <1>0, <2>2, <2>3
    <3>2. CASE doc[e] = docs[version][e]
      <4>1. docs[version][e] # NoItem
        BY <3>1, <3>2
      <4> QED BY <1>0, <3>1, <3>2, <4>1 DEF Monotone
    <3>3. CASE doc[e].body = version + 1
      <4>1. docs[v][e].body <= v
        BY DEF Known
      <4> QED BY <1>0, <3>1, <3>3, <4>1
    <3> QED BY <2>1, <3>1, <3>2, <3>3
  <2>4. CASE w = version + 1 /\ v = w
    <3>1. doc[e].body \in Nat
      BY DEF Item
    <3> QED BY <2>2, <2>4, <3>1
  <2>5. CASE w # version + 1
    <3>1. docs'[w] = docs[w] /\ w <= version
      BY <2>2, <2>5 DEF Known
    <3>2. docs'[v] = docs[v]
      BY <1>0, <2>2, <3>1
    <3> QED BY <3>1, <3>2 DEF Monotone
  <2> QED BY <2>3, <2>4, <2>5
<1>2. CASE ~Publish
  <2>1. docs'[v] = docs[v] /\ docs'[w] = docs[w]
    BY <1>2, Documents
  <2> QED BY <2>1 DEF Monotone
<1> QED BY <1>1, <1>2

\* A document that was applied stays so.
LEMMA StoredStays ==
  ASSUME TypeOK, Known, [Next]_vars, NEW v \in Version, Stored(v)
  PROVE  Stored(v)'
<1> USE FeedRefreshAssumption, Numbers
<1>0. v \in Nat /\ newest \in Nat /\ version \in Nat /\ v <= newest /\ newest <= version
  BY DEF TypeOK, Known, Stored
<1>1. docs'[v] = docs[v]
  BY <1>0, Documents
<1>2. In(docs'[v]) = In(docs[v])
  BY <1>1 DEF In
<1>3. newest <= newest' /\ Present \cup purged \cup trimmed \subseteq Present' \cup purged' \cup trimmed'
  <2>1. ASSUME NEW r \in Refresher, ReplaceEntries(r)
        PROVE  newest <= newest' /\ Present \cup purged \cup trimmed \subseteq Present' \cup purged' \cup trimmed'
    <3>1. PICK table \in [Entry -> Row], kept \in SUBSET Filled(Merged(docs[got[r]])) :
            /\ table = Merged(docs[got[r]])
            /\ Present' = kept
            /\ Apply(got[r], table, kept)
      BY <2>1, Replaced
    <3>2. newest <= newest'
      <4>1. newest' = IF got[r] > newest THEN got[r] ELSE newest
        BY <3>1 DEF Apply
      <4>2. got[r] \in Nat
        BY DEF TypeOK
      <4> QED BY <1>0, <4>1, <4>2
    <3>3. /\ trimmed' = (trimmed \cup Filled(table)) \ Present'
          /\ purged' = purged \ Filled(table)
      BY <3>1 DEF Apply
    <3>4. Present \subseteq Filled(table)
      <4>1. ASSUME NEW e \in Present PROVE table[e] # NoRow
        <5>1. e \in Entry /\ entries[e] # NoRow /\ entries[e] \in Row
          BY DEF Present, Filled, TypeOK
        <5>2. docs[got[r]][e] \in Item
          BY <5>1 DEF TypeOK
        <5>3. docs[got[r]][e] # NoItem => docs[got[r]][e].body > 0
          BY <5>1 DEF TypeOK, Known
        <5> QED BY <3>1, <5>1, <5>2, <5>3, MergeKeeps DEF Merged
      <4> QED BY <4>1 DEF Present, Filled
    <3> QED BY <3>2, <3>3, <3>4
  <2>2. CASE PurgeExpired \/ PurgeBudget
    BY <1>0, <2>2, Purged DEF applied
  <2>3. CASE Publish \/ UNCHANGED <<origin, rows, applied>>
    BY <1>0, <2>3, Origin DEF rows, applied, Present, Filled
  <2> QED BY <2>1, <2>2, <2>3, Kinds
<1>4. newest' \in Nat
  BY TypeStep DEF TypeOK
<1> QED BY <1>0, <1>2, <1>3, <1>4 DEF Stored

\* The document that a refresh has applied, it has.
LEMMA StoredNow ==
  ASSUME TypeOK, Known, NEW r \in Refresher, ReplaceEntries(r)
  PROVE  Stored(got[r])'
<1> USE FeedRefreshAssumption, Numbers
<1> DEFINE v == got[r]
<1>1. PICK table \in [Entry -> Row], kept \in SUBSET Filled(Merged(docs[v])) :
        /\ table = Merged(docs[v])
        /\ \A e \in Entry : table[e] = Merge(entries[e], docs[v][e])
        /\ Present' = kept
        /\ Apply(v, table, kept)
  BY Replaced
<1>2. v \in Version /\ v \in Nat /\ newest \in Nat
  BY DEF TypeOK
<1>3. v <= newest'
  <2>1. newest' = IF v > newest THEN v ELSE newest
    BY <1>1 DEF Apply
  <2> QED BY <1>2, <2>1
<1>4. docs' = docs /\ got' = got
  BY DEF ReplaceEntries, origin
<1>5. ASSUME NEW e \in In(docs[v]) PROVE e \in Present' \cup trimmed'
  <2>1. e \in Entry /\ docs[v][e] # NoItem /\ docs[v][e] \in Item /\ entries[e] \in Row
    BY <1>2, Columns DEF In
  <2>2. docs[v][e].body > 0
    BY <1>2, <2>1 DEF Known
  <2>3. e \in Filled(table)
    BY <1>1, <2>1, <2>2, MergeKeeps DEF Filled
  <2> QED BY <1>1, <2>3 DEF Apply
<1> QED BY <1>3, <1>4, <1>5 DEF Stored, In

LEMMA AppliedStep == TypeOK /\ Known /\ Applied /\ [Next]_vars => Applied'
<1> SUFFICES ASSUME TypeOK, Known, Applied, [Next]_vars
             PROVE  Applied'
  OBVIOUS
<1>0. /\ etag \in Version /\ lastmod \in Version
      /\ \A r \in Refresher : got[r] \in Version
  BY DEF TypeOK
<1>1. ASSUME NEW v \in Version, Stored(v)
      PROVE  Stored(v)'
  BY <1>1, StoredStays
<1>2. /\ etag' \in Version /\ lastmod' \in Version
      /\ \A r \in Refresher : got'[r] \in Version
  BY TypeStep DEF TypeOK
\* What must have been applied after the step.
<1>3. SUFFICES ASSUME NEW u \in Version,
                      u \notin lost',
                      u = etag' \/ u = lastmod'
                        \/ \E r \in Refresher : u = got'[r] /\ pc'[r] \in {"setETag", "setLastMod"}
               PROVE  Stored(u)'
  BY <1>2 DEF Applied, Stored, In
\* Before the step it had been, or the step applies it.
<1>4. ASSUME lost \subseteq lost',
             u = etag \/ u = lastmod
               \/ \E r \in Refresher : u = got[r] /\ pc[r] \in {"setETag", "setLastMod"}
      PROVE  Stored(u)'
  BY <1>0, <1>1, <1>3, <1>4 DEF Applied
<1>5. ASSUME NEW r \in Refresher, ReplaceEntries(r)
      PROVE  Stored(u)'
  <2>1. CASE u = got[r]
    <3>1. Stored(got[r])'
      BY <1>5, StoredNow
    <3>2. got'[r] = u
      BY <1>5, <2>1 DEF ReplaceEntries
    <3> QED BY <3>1, <3>2 DEF Stored, In
  <2>2. CASE u # got[r]
    BY <1>3, <1>4, <1>5, <2>2 DEF ReplaceEntries, Goto, TypeOK
  <2> QED BY <2>1, <2>2
<1>6. ASSUME NEW r \in Refresher, SetETag(r)
      PROVE  Stored(u)'
  BY <1>3, <1>4, <1>6 DEF SetETag, Goto, TypeOK
<1>7. ASSUME NEW r \in Refresher, SetLastMod(r)
      PROVE  Stored(u)'
  BY <1>3, <1>4, <1>7 DEF SetLastMod, Goto, Leave, TypeOK
<1>8. ASSUME NEW r \in Refresher,
             ReadETag(r) \/ ReadLastMod(r) \/ Answer200(r) \/ Answer304(r) \/ AnswerBad(r)
      PROVE  Stored(u)'
  BY <1>3, <1>4, <1>8 DEF ReadETag, ReadLastMod, Answer200, Answer304, AnswerBad, Goto, Leave, TypeOK
<1>9. ASSUME NEW r \in Refresher, WriteFails(r)
      PROVE  Stored(u)'
  BY <1>3, <1>4, <1>9 DEF WriteFails, Goto, Leave, TypeOK
<1>10. CASE Crash
  BY <1>3, <1>4, <1>10 DEF Crash, TypeOK
<1>11. CASE Publish \/ PurgeExpired \/ PurgeBudget \/ UNCHANGED vars
  BY <1>3, <1>4, <1>11, Origin, Purged DEF vars
<1> QED BY <1>5, <1>6, <1>7, <1>8, <1>9, <1>10, <1>11 DEF Next, RefreshFeed

\* In order, a document that is applied is as new as any before, and the store has it
\* as it is.
LEMMA ExactStep == TypeOK /\ Known /\ Exact /\ [Next]_vars => Exact'
<1> SUFFICES ASSUME TypeOK, Known, Exact, [Next]_vars, ~overtaken',
                    NEW e \in Entry, docs'[newest'][e] # NoItem
             PROVE  Holds(newest, e)'
  BY DEF Exact, In
<1> USE FeedRefreshAssumption, Numbers
<1>0. newest \in Version /\ newest \in Nat /\ version \in Nat /\ newest <= version
  BY DEF TypeOK, Known
<1>1. ASSUME NEW r \in Refresher, ReplaceEntries(r)
      PROVE  Holds(newest, e)'
  <2> DEFINE v == got[r]
  <2>1. PICK table \in [Entry -> Row], kept \in SUBSET Filled(Merged(docs[v])) :
          /\ table = Merged(docs[v])
          /\ \A x \in Entry : table[x] = Merge(entries[x], docs[v][x])
          /\ entries' = [x \in Entry |-> IF x \in kept THEN table[x] ELSE NoRow]
          /\ Present' = kept
          /\ \A x \in Filled(table) \ kept :
               /\ Keep # 0 /\ Cardinality(kept) = Keep
               /\ \A y \in kept : table[y].date >= table[x].date
          /\ Apply(v, table, kept)
    BY <1>1, Replaced
  <2>2. docs' = docs /\ v \in Version /\ v \in Nat
    BY <1>1 DEF ReplaceEntries, origin, TypeOK
  <2>3. newest' = v
    <3>1. newest' = IF v > newest THEN v ELSE newest
      BY <2>1 DEF Apply
    <3>2. ~ (v < newest)
      BY <2>1, Zenon DEF Apply
    <3> QED BY <1>0, <2>2, <3>1, <3>2
  <2>4. docs[v][e] # NoItem /\ docs[v][e] \in Item /\ entries[e] \in Row /\ docs[v][e].body > 0
    BY <2>2, <2>3, Columns DEF Known
  <2>5. /\ e \in Filled(table)
        /\ table[e].title = docs[v][e].body
        /\ docs[v][e].date # 0 => table[e].date = docs[v][e].date
    BY <2>1, <2>4, MergeKeeps DEF Filled
  <2>6. CASE e \in kept
    BY <2>1, <2>2, <2>3, <2>5, <2>6 DEF Holds
  <2>7. CASE e \notin kept
    <3>1. Keep # 0 /\ Cardinality(kept) = Keep
      BY <2>1, <2>5, <2>7
    <3>2. \A y \in kept : entries'[y].date >= docs[v][e].date
      <4>1. ASSUME NEW y \in kept PROVE table[y].date >= docs[v][e].date
        <5>1. table[y].date >= table[e].date
          BY <2>1, <2>5, <2>7
        <5>2. table[y].date \in Nat /\ table[e].date \in Nat
          BY <2>1 DEF Filled, Row
        <5>3. docs[v][e].date = 0 \/ table[e].date = docs[v][e].date
          BY <2>5
        <5> QED BY <5>1, <5>2, <5>3
      <4>2. kept \in SUBSET Entry
        BY <2>1 DEF Filled
      <4> QED BY <2>1, <4>1, <4>2
    <3>3. kept \subseteq From(docs[newest][e].date)'
      BY <2>1, <2>2, <2>3, <3>2 DEF From
    <3>4. From(docs[newest][e].date)' \in SUBSET Entry
      BY TypeStep DEF From, Present, Filled, TypeOK
    <3>5. Cardinality(From(docs[newest][e].date)') >= Keep
      <4>1. Cardinality(kept) <= Cardinality(From(docs[newest][e].date)')
        BY <3>3, <3>4, MoreEntries
      <4>2. Cardinality(From(docs[newest][e].date)') \in Nat
        BY <3>4, EntriesFinite
      <4> QED BY <3>1, <4>1, <4>2
    <3> QED BY <2>1, <2>7, <3>1, <3>5 DEF Holds
  <2> QED BY <2>6, <2>7
<1>2. CASE PurgeExpired \/ PurgeBudget
  <2>1. PICK S \in SUBSET Present :
          /\ entries' = [x \in Entry |-> IF x \in Present \ S THEN entries[x] ELSE NoRow]
          /\ purged' = purged \cup S
          /\ Present' = Present \ S
    BY <1>2, Purged
  <2>2. docs' = docs /\ newest' = newest /\ overtaken' = overtaken
    BY <1>2, Purged DEF origin, applied
  <2>3. Holds(newest, e)
    BY <2>2 DEF Exact, In
  <2> DEFINE d == docs[newest][e].date
  <2>4. From(d) \subseteq From(docs[newest][e].date)'
    BY <2>1, <2>2 DEF From, Present, Filled
  <2>5. From(docs[newest][e].date)' \in SUBSET Entry
    BY TypeStep DEF From, Present, Filled, TypeOK
  <2>6. Cardinality(From(d)) <= Cardinality(From(docs[newest][e].date)')
    BY <2>4, <2>5, MoreEntries
  <2>7. Cardinality(From(d)) \in Nat /\ Cardinality(From(docs[newest][e].date)') \in Nat
    BY <2>4, <2>5, EntriesFinite
  <2>8. CASE Keep # 0 /\ e \notin Present /\ Cardinality(From(d)) >= Keep
    BY <2>1, <2>6, <2>7, <2>8 DEF Holds
  <2>9. CASE e \in purged
    BY <2>1, <2>9 DEF Holds
  <2>10. CASE e \in Present /\ entries[e].title = docs[newest][e].body
                /\ (docs[newest][e].date # 0 => entries[e].date = docs[newest][e].date)
    BY <2>1, <2>2, <2>10 DEF Holds
  <2> QED BY <2>3, <2>8, <2>9, <2>10 DEF Holds
<1>3. CASE Publish \/ UNCHANGED <<origin, rows, applied>>
  <2>1. UNCHANGED <<rows, applied>>
    BY <1>3, Origin
  <2>2. docs'[newest] = docs[newest]
    BY <1>0, Documents
  <2> QED BY <2>1, <2>2 DEF Exact, Holds, From, Present, Filled, In, rows, applied
<1> QED BY <1>1, <1>2, <1>3, Kinds

\* The merge takes each column from the document or leaves it.
LEMMA RowsStep == TypeOK /\ Known /\ Monotone /\ Rows /\ [Next]_vars => Rows'
<1> SUFFICES ASSUME TypeOK, Known, Monotone, Rows, [Next]_vars
             PROVE  Rows'
  OBVIOUS
<1> USE FeedRefreshAssumption, Numbers
<1>0. newest \in Version /\ newest \in Nat /\ version \in Nat /\ newest <= version
  BY DEF TypeOK, Known
<1>1. ASSUME NEW r \in Refresher, ReplaceEntries(r)
      PROVE  Rows'
  <2> DEFINE v == got[r]
  <2>1. PICK table \in [Entry -> Row], kept \in SUBSET Filled(Merged(docs[v])) :
          /\ table = Merged(docs[v])
          /\ \A x \in Entry : table[x] = Merge(entries[x], docs[v][x])
          /\ entries' = [x \in Entry |-> IF x \in kept THEN table[x] ELSE NoRow]
          /\ Present' = kept
          /\ Keep # 0 => Cardinality(kept) <= Keep
          /\ Apply(v, table, kept)
    BY <1>1, Replaced
  <2>2. docs' = docs /\ v \in Version /\ v \in Nat
    BY <1>1 DEF ReplaceEntries, origin, TypeOK
  <2>3. newest' \in Nat /\ v <= newest' /\ newest <= newest' /\ (~overtaken' => ~overtaken /\ newest <= v)
    <3>1. newest' = IF v > newest THEN v ELSE newest
      BY <2>1 DEF Apply
    <3>2. ~overtaken' => ~overtaken /\ ~ (v < newest)
      BY <2>1, Zenon DEF Apply
    <3> QED BY <1>0, <2>2, <3>1, <3>2
  <2>4. ASSUME NEW e \in kept
        PROVE  FromDocument(e)' /\ (~overtaken' => entries'[e].link <= entries'[e].title)
    <3> DEFINE item == docs[v][e]
               row == entries[e]
    <3>1. /\ e \in Entry /\ entries'[e] = Merge(row, item) /\ Merge(row, item) # NoRow
          /\ row \in Row /\ item \in Item
      BY <2>1, <2>2, Columns DEF Filled
    <3>2. item # NoItem => item.body > 0
      BY <2>2, <3>1 DEF Known
    <3>3. row # NoRow =>
            /\ FromDocument(e)
            /\ ~overtaken => row.link <= row.title
      BY <3>1 DEF Rows, Present, Filled
    <3>4. /\ row.title \in Nat /\ row.link \in Nat /\ item.body \in Nat
          /\ \A u \in Version : u \in Nat /\ docs[u][e].body \in Nat
      BY <2>2, <3>1, Columns
    <3>5. CASE item = NoItem
      <4>1. entries'[e] = row /\ row # NoRow
        BY <3>1, <3>2, <3>5, MergeKeeps
      <4>2. \A u \in Version : u <= newest => u <= newest'
        BY <1>0, <2>3, <3>4
      <4> QED BY <2>2, <2>3, <3>3, <4>1, <4>2 DEF FromDocument
    <3>6. CASE item # NoItem /\ row = NoRow
      <4>1. /\ entries'[e].title = item.body /\ entries'[e].link = item.body
            /\ entries'[e].date = item.date
        <5>1. item.date # 0 \/ row.date = 0
          BY <3>6 DEF NoRow
        <5> QED BY <3>1, <3>2, <3>6, <5>1, MergeKeeps
      <4> QED BY <2>2, <2>3, <3>4, <4>1 DEF FromDocument
    <3>7. CASE item # NoItem /\ row # NoRow
      <4>1. /\ entries'[e].title = item.body /\ entries'[e].link = row.link
            /\ entries'[e].date = IF item.date # 0 THEN item.date ELSE row.date
        BY <3>1, <3>2, <3>7, MergeKeeps
      <4>2. PICK w \in Version : w <= newest /\ docs[w][e].body = row.link
        BY <3>3, <3>7 DEF FromDocument
      <4>3. PICK u \in Version : u <= newest /\ docs[u][e].date = row.date
        BY <3>3, <3>7 DEF FromDocument
      <4>4. w <= newest' /\ u <= newest'
        BY <1>0, <2>3, <3>4, <4>2, <4>3
      <4>5. FromDocument(e)'
        <5>1. CASE item.date # 0
          BY <2>2, <2>3, <4>1, <4>2, <4>4, <5>1 DEF FromDocument
        <5>2. CASE item.date = 0
          BY <2>2, <2>3, <4>1, <4>2, <4>3, <4>4, <5>2 DEF FromDocument
        <5> QED BY <5>1, <5>2
      <4>6. ASSUME ~overtaken' PROVE row.link <= item.body
        <5>0. newest <= v
          BY <2>3, <4>6, Zenon
        <5>1. w <= v
          <6>1. w \in Nat /\ w <= newest
            BY <3>4, <4>2
          <6>2. v \in Nat /\ newest \in Nat
            BY <1>0, <2>2
          <6> HIDE DEF v
          <6> QED BY <5>0, <6>1, <6>2, SMT
        <5> QED BY <2>2, <3>1, <3>7, <4>2, <5>1 DEF Monotone
      <4> QED BY <4>1, <4>5, <4>6
    <3> QED BY <3>5, <3>6, <3>7
  <2> QED BY <2>1, <2>4 DEF Rows
<1>2. CASE PurgeExpired \/ PurgeBudget
  <2>1. PICK S \in SUBSET Present :
          /\ entries' = [x \in Entry |-> IF x \in Present \ S THEN entries[x] ELSE NoRow]
          /\ Present' = Present \ S
    BY <1>2, Purged
  <2>2. docs' = docs /\ newest' = newest /\ overtaken' = overtaken
    BY <1>2, Purged DEF origin, applied
  <2>3. Keep # 0 => Cardinality(Present') <= Keep
    <3>1. Present \in SUBSET Entry /\ Present' \in SUBSET Present
      BY <2>1 DEF Present, Filled
    <3>2. Cardinality(Present') <= Cardinality(Present)
      BY <3>1, MoreEntries
    <3>3. Cardinality(Present') \in Nat /\ Cardinality(Present) \in Nat
      BY <3>1, EntriesFinite
    <3> QED BY <3>2, <3>3 DEF Rows
  <2>4. \A e \in Present' : e \in Present /\ entries'[e] = entries[e]
    BY <2>1 DEF Present, Filled
  <2> QED BY <2>2, <2>3, <2>4 DEF Rows, FromDocument
<1>3. CASE Publish \/ UNCHANGED <<origin, rows, applied>>
  <2>1. UNCHANGED <<rows, applied>>
    BY <1>3, Origin
  <2>2. \A v \in Version : v <= newest => docs'[v] = docs[v]
    <3>1. ASSUME NEW v \in Version, v <= newest PROVE v # version + 1
      BY <1>0, <3>1
    <3> QED BY <3>1, Documents
  <2> QED BY <2>1, <2>2 DEF Rows, FromDocument, Present, Filled, rows, applied
<1> QED BY <1>1, <1>2, <1>3, Kinds

LEMMA AbsentStep == TypeOK /\ Absent /\ [Next]_vars => Absent'
<1> SUFFICES ASSUME TypeOK, Absent, [Next]_vars
             PROVE  Absent'
  OBVIOUS
<1>1. ASSUME NEW r \in Refresher, ReplaceEntries(r)
      PROVE  Absent'
  BY <1>1, Replaced DEF Apply, Absent
<1>2. CASE PurgeExpired \/ PurgeBudget
  BY <1>2, Purged DEF Absent
<1>3. CASE Publish \/ UNCHANGED <<origin, rows, applied>>
  BY <1>3, Origin DEF Absent, Present, Filled, rows
<1> QED BY <1>1, <1>2, <1>3, Kinds

LEMMA Invariant == Spec => []IInv
<1>1. IInv /\ [Next]_vars => IInv'
  BY TypeStep, KnownStep, MonotoneStep, AppliedStep, ExactStep, RowsStep, AbsentStep DEF IInv
<1> QED BY InitIInv, <1>1, PTL DEF Spec

------------------------------------------------------------------------------
(* Theorems *)

\* Every variable keeps its type.
THEOREM TypeCorrect == Spec => []TypeOK
<1>1. IInv => TypeOK
  BY DEF IInv
<1> QED BY <1>1, Invariant, PTL

\* Once the origin has nothing newer than what the validators name, that is the
\* newest document applied, unless storing it failed.
LEMMA SettledNewest ==
  ASSUME IInv, Settled, Validated \notin lost
  PROVE  newest = version /\ ~overtaken
<1>1. Validated <= newest
  BY DEF IInv, Applied, Stored, Validated
<1>2. version \in Nat /\ newest \in Nat /\ newest <= version
  BY Numbers DEF IInv, Known, TypeOK
<1>3. Validated = version /\ ~overtaken
  BY Zenon DEF Settled
<1>4. newest = version
  BY <1>1, <1>2, <1>3
<1> QED BY <1>3, <1>4

\* No entry is hidden behind a 304 but by a purge, by the trim, or by a write that
\* failed unnoticed; and, in order, by the trim only if Keep rows are dated no
\* earlier than the feed dates the entry.
THEOREM EntriesCorrect == Spec => []NoEntryHidden
<1>1. IInv => NoEntryHidden
  <2> SUFFICES ASSUME IInv, Validated \notin lost,
                      NEW e \in In(docs[Validated]) \ (Present \cup purged)
               PROVE  e \in trimmed /\ (Settled => Outdated(e))
    BY DEF NoEntryHidden
  <2>1. e \in trimmed
    BY DEF IInv, Applied, Stored, Validated
  <2>2. ASSUME Settled PROVE Outdated(e)
    <3>1. newest = version /\ ~overtaken /\ Validated = version
      BY <2>2, SettledNewest DEF Settled
    <3>2. Holds(newest, e)
      BY <3>1 DEF IInv, Exact
    <3> QED BY <3>1, <3>2 DEF Holds, Outdated, From
  <2> QED BY <2>1, <2>2
<1> QED BY <1>1, Invariant, PTL

\* Nor is an edit of a title or a date hidden, as long as no document was applied
\* after a newer one.
THEOREM EditsCorrect == Spec => []NoEditHidden
<1>1. IInv => NoEditHidden
  <2> SUFFICES ASSUME IInv, Settled, Validated \notin lost, NEW e \in In(docs[Validated]) \cap Present
               PROVE  /\ entries[e].title = docs[Validated][e].body
                      /\ docs[Validated][e].date # 0 => entries[e].date = docs[Validated][e].date
    BY DEF NoEditHidden
  <2>1. newest = version /\ ~overtaken /\ Validated = version
    BY SettledNewest DEF Settled
  <2>2. Holds(newest, e)
    BY <2>1 DEF IInv, Exact
  <2>3. e \notin purged
    BY DEF IInv, Absent
  <2> QED BY <2>1, <2>2, <2>3 DEF Holds
<1> QED BY <1>1, Invariant, PTL

\* The store holds no more entries than the limit, and every column of a row is from
\* a document; in order, no row has a link that is newer than its title.
THEOREM PublishedCorrect == Spec => []OnlyPublished
<1>1. IInv => OnlyPublished
  BY DEF IInv, Rows, FromDocument, OnlyPublished
<1> QED BY <1>1, Invariant, PTL

\* Of a row that stays, a refresh leaves the link, and takes neither the date nor, in
\* order, the newest title.
LEMMA AdvanceStep ==
  ASSUME IInv, [Next]_vars, NEW e \in Present \cap Present'
  PROVE  /\ entries'[e].link = entries[e].link
         /\ entries[e].date # 0 => entries'[e].date # 0
         /\ ~overtaken' => entries'[e].title >= entries[e].title
<1> USE FeedRefreshAssumption, Numbers
<1>0. /\ TypeOK /\ e \in Entry /\ entries[e] # NoRow /\ entries[e] \in Row /\ entries[e].title \in Nat
      /\ newest \in Nat
  BY Columns DEF IInv, Present, Filled, TypeOK
<1>1. ASSUME NEW r \in Refresher, ReplaceEntries(r)
      PROVE  /\ entries'[e].link = entries[e].link
             /\ entries[e].date # 0 => entries'[e].date # 0
             /\ ~overtaken' => entries'[e].title >= entries[e].title
  <2> DEFINE v == got[r]
             item == docs[v][e]
  <2>1. /\ entries'[e] = Merge(entries[e], item)
        /\ overtaken' = (overtaken \/ v < newest)
    BY <1>0, <1>1, Replaced DEF Apply
  <2>2. v \in Version /\ v \in Nat /\ item \in Item /\ item.body \in Nat /\ (item # NoItem => item.body > 0)
    BY <1>0, Columns DEF IInv, TypeOK, Known
  <2>3. CASE item = NoItem
    BY <1>0, <2>1, <2>2, <2>3, MergeKeeps
  <2>4. CASE item # NoItem
    <3>1. /\ entries'[e].link = entries[e].link /\ entries'[e].title = item.body
          /\ entries'[e].date = IF item.date # 0 THEN item.date ELSE entries[e].date
      BY <1>0, <2>1, <2>2, <2>4, MergeKeeps
    <3>2. PICK w \in Version : w <= newest /\ docs[w][e].body = entries[e].title
      BY DEF IInv, Rows, FromDocument
    <3>3. ASSUME ~overtaken' PROVE entries[e].title <= item.body
      <4>1. ~ (v < newest)
        BY <2>1, <3>3, Zenon
      <4>2. w <= v
        BY <1>0, <2>2, <3>2, <4>1
      <4> QED BY <1>0, <2>2, <2>4, <3>2, <4>2 DEF IInv, Monotone
    <3>4. entries[e].date # 0 => entries'[e].date # 0
      BY <3>1
    <3>5. ~overtaken' => entries'[e].title >= entries[e].title
      BY <1>0, <2>2, <3>1, <3>3
    <3> QED BY <3>1, <3>4, <3>5
  <2> QED BY <2>3, <2>4
<1>2. CASE PurgeExpired \/ PurgeBudget
  <2>1. entries'[e] = entries[e]
    BY <1>0, <1>2, Purged
  <2> QED BY <1>0, <2>1
<1>3. CASE Publish \/ UNCHANGED <<origin, rows, applied>>
  <2>1. entries' = entries
    BY <1>0, <1>3, Origin DEF rows
  <2> QED BY <1>0, <2>1
<1> QED BY <1>1, <1>2, <1>3, Kinds

\* As long as a row is in the store, no refresh changes its link, empties its date,
\* or, if no document is applied after a newer one, brings an older title back.
THEOREM AdvanceCorrect == Spec => RowsAdvance
<1>1. IInv /\ [Next]_vars
      => [\A e \in Present \cap Present' :
            /\ entries'[e].link = entries[e].link
            /\ entries[e].date # 0 => entries'[e].date # 0
            /\ ~overtaken' => entries'[e].title >= entries[e].title]_vars
  BY AdvanceStep
<1> QED BY <1>1, Invariant, PTL DEF Spec, RowsAdvance

\* A feed that is refreshed by one goroutine at a time is never overtaken, whatever
\* is lost or dies: the document it got is as new as any that was applied, and
\* nobody applies one in between.  Nothing in the code makes it one at a time.
THEOREM OneAtATime ==
  ASSUME \A q, r \in Refresher : q = r
  PROVE  Spec => []NeverOvertaken
<1> DEFINE Recent == \A r \in Refresher : pc[r] = "replace" => newest <= got[r]
<1>1. Init => Recent /\ NeverOvertaken
  BY DEF Init, NeverOvertaken
<1>2. IInv /\ Recent /\ NeverOvertaken /\ [Next]_vars => Recent' /\ NeverOvertaken'
  <2> SUFFICES ASSUME TypeOK, Known, Recent, NeverOvertaken, [Next]_vars
               PROVE  Recent' /\ NeverOvertaken'
    BY DEF IInv
  <2>0. newest \in Nat /\ \A r \in Refresher : got[r] \in Nat
    BY Numbers DEF TypeOK
  <2>1. ASSUME NEW r \in Refresher, ReplaceEntries(r)
        PROVE  Recent' /\ NeverOvertaken'
    <3>1. newest <= got[r] /\ pc'[r] # "replace"
      BY <2>1 DEF ReplaceEntries, Goto, TypeOK
    <3>2. ~ (got[r] < newest)
      BY <2>0, <3>1
    <3>3. NeverOvertaken'
      BY <2>1, <3>2, Zenon DEF ReplaceEntries, Apply, NeverOvertaken
    <3> QED BY <3>1, <3>3
  <2>2. ASSUME NEW r \in Refresher, Answer200(r)
        PROVE  Recent' /\ NeverOvertaken'
    BY <2>2 DEF Answer200, Goto, applied, TypeOK, Known, NeverOvertaken
  <2>3. ASSUME NEW r \in Refresher,
               ReadETag(r) \/ ReadLastMod(r) \/ Answer304(r) \/ AnswerBad(r)
                 \/ SetETag(r) \/ SetLastMod(r) \/ WriteFails(r)
        PROVE  Recent' /\ NeverOvertaken'
    BY <2>3 DEF ReadETag, ReadLastMod, Answer304, AnswerBad, SetETag, SetLastMod, WriteFails,
                Goto, Leave, applied, TypeOK, NeverOvertaken
  <2>4. CASE Crash
    BY <2>4 DEF Crash, applied, TypeOK, NeverOvertaken
  <2>5. ASSUME UNCHANGED <<pc, got, newest, overtaken>>
        PROVE  Recent' /\ NeverOvertaken'
    BY <2>5 DEF NeverOvertaken
  <2>6. CASE Publish \/ PurgeExpired \/ PurgeBudget \/ UNCHANGED vars
    BY <2>5, <2>6, Origin, Purged DEF applied, vars
  <2> QED BY <2>1, <2>2, <2>3, <2>4, <2>6 DEF Next, RefreshFeed
<1> QED BY <1>1, <1>2, Invariant, PTL DEF Spec
==============================================================================
