----------------------------- MODULE FeedRefresh -----------------------------
(***************************************************************************)
(* Pool.refreshFeed for one feed, run by any number of goroutines at once: *)
(* feed workers, API requests and runJob all refresh the same feed with no *)
(* lock between them.  What is at stake is the conditional request: once   *)
(* the validators of a document are stored, the origin answers 304 until   *)
(* it publishes again, so whatever of that document is not in the store by *)
(* then stays out of it.  Purge, which runs beside, does take entries out  *)
(* of the store and leaves the validators.                                 *)
(*                                                                         *)
(* A document is abstracted to its entries, and an entry to a body and a   *)
(* date.  The steps of refreshFeed that touch neither entries nor          *)
(* validators are left out; Catalog has those on the table of feeds and    *)
(* its revision.                                                           *)
(***************************************************************************)
EXTENDS Naturals, FiniteSets

CONSTANTS
  Refresher,    \* goroutines that may be inside refreshFeed
  Entry,        \* entries, by their ids (a hash of the guid, or of the link without one)
  MaxVersion,   \* bound: documents the origin ever publishes
  MaxDate,      \* bound: publication dates
  Window,       \* entries the origin keeps in a document
  Keep,         \* max_entries_per_feed; 0 for no limit
  SendsETag,    \* whether the origin sends ETag
  SendsMod,     \* whether the origin sends Last-Modified
  MaxFaults     \* bound: writes that fail, and process deaths

ASSUME FeedRefreshAssumption ==
  /\ IsFiniteSet(Entry)
  /\ MaxVersion \in Nat /\ MaxDate \in Nat /\ MaxFaults \in Nat
  /\ Window \in Nat \ {0}
  /\ Keep \in Nat
  /\ SendsETag \in BOOLEAN
  /\ SendsMod \in BOOLEAN

Version == 0..MaxVersion    \* of a document; 0 is "none"
Date == 0..MaxDate          \* published_at; 0 is NULL, which the feed may leave it

\* An entry in a document: its body, that is title, summary and link, by the
\* version that last changed them, and its date.
Item == [body : Version, date : Date]
NoItem == [body |-> 0, date |-> 0]

\* An entry in the table: the versions its title and its link are from, its date.
Row == [title : Version, link : Version, date : Date]
NoRow == [title |-> 0, link |-> 0, date |-> 0]

VARIABLES
  (* the origin *)
  version,    \* version of the document it serves
  docs,       \* docs[v][e]: entry e in document v
  (* the store *)
  entries,    \* entries[e]: the row of entry e
  age,        \* by fetched_at: how many later fetches there are among the rows
  etag,       \* meta "etag:<feed>", as the version of the document it names
  lastmod,    \* meta "lastmod:<feed>", likewise
  (* calls of refreshFeed *)
  pc,
  askTag,     \* If-None-Match of the request
  askMod,     \* If-Modified-Since of the request
  got,        \* version of the document in the response
  (* history and bounds *)
  lost,       \* documents whose ReplaceEntries failed
  newest,     \* newest document applied
  overtaken,  \* an older document was applied after a newer one
  purged,     \* entries taken away by Purge and not written again since
  trimmed,    \* entries taken away by the trim and not stored again since
  faults

origin == <<version, docs>>
rows == <<entries, age, purged, trimmed>>
applied == <<newest, overtaken>>
vars == <<origin, rows, etag, lastmod, pc, askTag, askMod, got, lost, applied, faults>>

Init ==
  /\ version = 0
  /\ docs = [v \in Version |-> [e \in Entry |-> NoItem]]
  /\ entries = [e \in Entry |-> NoRow]
  /\ age = [e \in Entry |-> 0]
  /\ etag = 0
  /\ lastmod = 0
  /\ pc = [r \in Refresher |-> "idle"]
  /\ askTag = [r \in Refresher |-> 0]
  /\ askMod = [r \in Refresher |-> 0]
  /\ got = [r \in Refresher |-> 0]
  /\ lost = {}
  /\ newest = 0
  /\ overtaken = FALSE
  /\ purged = {}
  /\ trimmed = {}
  /\ faults = 0

Goto(r, from, to) == pc[r] = from /\ pc' = [pc EXCEPT ![r] = to]

In(doc) == {e \in Entry : doc[e] # NoItem}
Filled(table) == {e \in Entry : table[e] # NoRow}
Present == Filled(entries)

------------------------------------------------------------------------------
(* The origin *)

\* It publishes another document: an entry is left as it was, appears or is edited,
\* with a date that may move, appear or vanish, or falls off.
Publish ==
  /\ version < MaxVersion
  /\ version' = version + 1
  /\ \E doc \in [Entry -> Item] :
       /\ \A e \in Entry :
            doc[e] \in {NoItem, docs[version][e]} \cup [body : {version + 1}, date : Date]
       /\ doc # docs[version]
       /\ Cardinality(In(doc)) <= Window
       /\ docs' = [docs EXCEPT ![version + 1] = doc]
  /\ UNCHANGED <<rows, etag, lastmod, pc, askTag, askMod, got, lost, applied, faults>>

------------------------------------------------------------------------------
(* refreshFeed *)

ReadETag(r) ==
  /\ Goto(r, "idle", "readMod")
  /\ askTag' = [askTag EXCEPT ![r] = etag]
  /\ UNCHANGED <<origin, rows, etag, lastmod, askMod, got, lost, applied, faults>>

ReadLastMod(r) ==
  /\ Goto(r, "readMod", "get")
  /\ askMod' = [askMod EXCEPT ![r] = lastmod]
  /\ UNCHANGED <<origin, rows, etag, lastmod, askTag, got, lost, applied, faults>>

\* How the origin evaluates the conditional request: If-Modified-Since counts
\* only without If-None-Match.
Unmodified(r) ==
  \/ askTag[r] # 0 /\ askTag[r] = version
  \/ askTag[r] = 0 /\ askMod[r] # 0 /\ askMod[r] = version

\* Mutant: the ETag is saved as soon as the response is there.
Answer200_SaveFirst(r) ==
  /\ version # 0
  /\ ~Unmodified(r)
  /\ Goto(r, "get", "replace")
  /\ got' = [got EXCEPT ![r] = version]
  /\ etag' = IF SendsETag THEN version ELSE etag
  /\ UNCHANGED <<origin, rows, lastmod, askTag, askMod, lost, applied, faults>>

\* 200: the document travels while others go on.
Answer200(r) ==
  /\ version # 0
  /\ ~Unmodified(r)
  /\ Goto(r, "get", "replace")
  /\ got' = [got EXCEPT ![r] = version]
  /\ UNCHANGED <<origin, rows, etag, lastmod, askTag, askMod, lost, applied, faults>>

\* Forget the call's local variables.
Leave(r) ==
  /\ askTag' = [askTag EXCEPT ![r] = 0]
  /\ askMod' = [askMod EXCEPT ![r] = 0]
  /\ got' = [got EXCEPT ![r] = 0]

\* 304: nothing but statistics is written.
Answer304(r) ==
  /\ Unmodified(r)
  /\ Goto(r, "get", "idle")
  /\ Leave(r)
  /\ UNCHANGED <<origin, rows, etag, lastmod, lost, applied, faults>>

\* Mutant: a bad answer is put aside for another try.
AnswerBad_Retry(r) ==
  /\ Goto(r, "get", "retry")
  /\ UNCHANGED <<origin, rows, etag, lastmod, askTag, askMod, got, lost, applied, faults>>

\* Transport error, status outside 2xx, or a body that does not parse.
AnswerBad(r) ==
  /\ Goto(r, "get", "idle")
  /\ Leave(r)
  /\ UNCHANGED <<origin, rows, etag, lastmod, lost, applied, faults>>

\* Mutant: an entry already stored is left as it is (ON CONFLICT DO NOTHING).
Merge_NoUpdate(row, item) ==
  IF item = NoItem \/ row # NoRow THEN row
  ELSE [title |-> item.body, link |-> item.body, date |-> item.date]

\* Insert, or on conflict update: the link stays, and so does a date that the
\* document leaves out (like it, image_url and updated_at).
Merge(row, item) ==
  IF item = NoItem THEN row
  ELSE [title |-> item.body,
        link  |-> IF row = NoRow THEN item.body ELSE row.link,
        date  |-> IF item.date # 0 THEN item.date ELSE row.date]

\* The table after the insertions of a document.
Merged(doc) == [e \in Entry |-> Merge(entries[e], doc[e])]

\* The ages then: fetched_at is now() for what the document has.
Refetched(doc) ==
  LET rest == Present \ In(doc) IN
  [e \in Entry |->
     IF e \in rest THEN 1 + Cardinality({age[x] : x \in {y \in rest : age[y] < age[e]}})
     ELSE 0]

\* ORDER BY published_at DESC NULLS LAST, fetched_at DESC; equals in any order.
Before(table, ages, x, y) ==
  \/ table[x].date > table[y].date
  \/ table[x].date = table[y].date /\ ages[x] < ages[y]

\* What a trim to Keep rows may leave: the first ones.
First(table, ages) ==
  LET all == Filled(table) IN
  IF Keep = 0 \/ Cardinality(all) <= Keep THEN {all}
  ELSE {S \in SUBSET all : /\ Cardinality(S) = Keep
                           /\ \A x \in S, y \in all \ S : ~Before(table, ages, y, x)}

\* Of a table, a set of rows is left.
Leaves(table, ages, kept) ==
  /\ entries' = [e \in Entry |-> IF e \in kept THEN table[e] ELSE NoRow]
  /\ age' = [e \in Entry |-> IF e \in kept THEN ages[e] ELSE 0]

\* History of the documents applied, and of what their trims took.
Apply(v, table, kept) ==
  /\ newest' = IF v > newest THEN v ELSE newest
  /\ overtaken' = (overtaken \/ v < newest)
  /\ trimmed' = (trimmed \cup Filled(table)) \ kept
  /\ purged' = purged \ Filled(table)

\* Mutant: an update has lost the trim.
ReplaceEntries_NoTrim(r) ==
  LET doc == docs[got[r]] IN
  /\ Goto(r, "replace", "setETag")
  /\ Leaves(Merged(doc), Refetched(doc), Filled(Merged(doc)))
  /\ Apply(got[r], Merged(doc), Filled(Merged(doc)))
  /\ UNCHANGED <<origin, etag, lastmod, askTag, askMod, got, lost, faults>>

\* ReplaceEntries, one transaction: insert or update what the document has, leave
\* what it has not, then trim.
ReplaceEntries(r) ==
  LET doc == docs[got[r]] IN
  /\ Goto(r, "replace", "setETag")
  /\ \E kept \in First(Merged(doc), Refetched(doc)) :
       /\ Leaves(Merged(doc), Refetched(doc), kept)
       /\ Apply(got[r], Merged(doc), kept)
  /\ UNCHANGED <<origin, etag, lastmod, askTag, askMod, got, lost, faults>>

\* SetMeta, when the response had the header.
SetETag(r) ==
  /\ Goto(r, "setETag", "setLastMod")
  /\ etag' = IF SendsETag THEN got[r] ELSE etag
  /\ UNCHANGED <<origin, rows, lastmod, askTag, askMod, got, lost, applied, faults>>

SetLastMod(r) ==
  /\ Goto(r, "setLastMod", "idle")
  /\ lastmod' = IF SendsMod THEN got[r] ELSE lastmod
  /\ Leave(r)
  /\ UNCHANGED <<origin, rows, etag, lost, applied, faults>>

\* A write fails; refreshFeed ignores the error and goes on to the next.
WriteFails(r) ==
  /\ faults < MaxFaults
  /\ faults' = faults + 1
  /\ \/ /\ Goto(r, "replace", "setETag")
        /\ lost' = lost \cup {got[r]}
        /\ UNCHANGED <<askTag, askMod, got>>
     \/ /\ Goto(r, "setETag", "setLastMod")
        /\ UNCHANGED <<lost, askTag, askMod, got>>
     \/ /\ Goto(r, "setLastMod", "idle")
        /\ Leave(r)
        /\ UNCHANGED lost
  /\ UNCHANGED <<origin, rows, etag, lastmod, applied>>

\* The process dies, or a context is cancelled (every later store call of that
\* refresh then fails): what was committed stays, the rest never happens.
Crash ==
  /\ faults < MaxFaults
  /\ faults' = faults + 1
  /\ \E S \in SUBSET Refresher :
       /\ \E r \in S : pc[r] # "idle"
       /\ pc' = [r \in Refresher |-> IF r \in S THEN "idle" ELSE pc[r]]
       /\ askTag' = [r \in Refresher |-> IF r \in S THEN 0 ELSE askTag[r]]
       /\ askMod' = [r \in Refresher |-> IF r \in S THEN 0 ELSE askMod[r]]
       /\ got' = [r \in Refresher |-> IF r \in S THEN 0 ELSE got[r]]
  /\ UNCHANGED <<origin, rows, etag, lastmod, lost, applied>>

------------------------------------------------------------------------------
(* Purge, of this feed's entries *)

Delete(S) ==
  /\ S # {}
  /\ Leaves(entries, age, Present \ S)
  /\ purged' = purged \cup S
  /\ UNCHANGED <<origin, trimmed, etag, lastmod, pc, askTag, askMod, got, lost, applied, faults>>

\* The first transaction of Purge: whatever was fetched before a moment, which may
\* be after the last fetch, for a 304 does not touch fetched_at.
PurgeExpired ==
  \E e \in Present : Delete({x \in Present : age[x] >= age[e]})

\* One of the transactions that follow while the file is over its budget: the
\* oldest fetched_at first, equals in any order, of all feeds, so that any number
\* of this feed's entries may fall into the batch.
PurgeBudget ==
  \E S \in SUBSET Present :
    /\ \A x \in S, y \in Present \ S : age[x] >= age[y]
    /\ Delete(S)

------------------------------------------------------------------------------

RefreshFeed(r) ==
  \/ ReadETag(r)
  \/ ReadLastMod(r)
  \/ Answer200(r)
  \/ Answer304(r)
  \/ AnswerBad(r)
  \/ ReplaceEntries(r)
  \/ SetETag(r)
  \/ SetLastMod(r)

Next ==
  \/ Publish
  \/ \E r \in Refresher : RefreshFeed(r) \/ WriteFails(r)
  \/ PurgeExpired
  \/ PurgeBudget
  \/ Crash

Spec == Init /\ [][Next]_vars

------------------------------------------------------------------------------
(* Properties *)

\* Every variable has its type.
TypeOK ==
  /\ version \in Version
  /\ docs \in [Version -> [Entry -> Item]]
  /\ entries \in [Entry -> Row]
  /\ age \in [Entry -> Nat]
  /\ etag \in Version
  /\ lastmod \in Version
  /\ pc \in [Refresher -> {"idle", "readMod", "get", "replace", "setETag", "setLastMod"}]
  /\ askTag \in [Refresher -> Version]
  /\ askMod \in [Refresher -> Version]
  /\ got \in [Refresher -> Version]
  /\ lost \in SUBSET Version
  /\ newest \in Version
  /\ overtaken \in BOOLEAN
  /\ purged \in SUBSET Entry
  /\ trimmed \in SUBSET Entry
  /\ faults \in 0..MaxFaults

\* The document named by the validators that the next request will send.
Validated == IF etag # 0 THEN etag ELSE lastmod

\* The origin has nothing newer than what the validators name, so that it answers
\* 304, and no document was applied after a newer one.
Settled == Validated = version /\ ~overtaken

\* At least Keep rows, the ones purged since included, have a date that is not
\* before the one that the document gives entry e; without a date any row has.
Outdated(e) ==
  /\ Keep # 0
  /\ Cardinality(purged \cup {x \in Present : entries[x].date >= docs[version][e].date}) >= Keep

\* A 304 hides no entry, however refreshes, crashes and purges interleave: each
\* entry of the document that the validators name is in the store, or Purge took it,
\* or the trim did.  A dated entry, the trim takes only for entries that are dated
\* no earlier; one without a date, it may take although nothing is newer, and in the
\* transaction that inserts it.  A failed ReplaceEntries hides entries as well: its
\* error is ignored.
NoEntryHidden ==
  Validated \notin lost =>
    \A e \in In(docs[Validated]) \ (Present \cup purged) :
      e \in trimmed /\ (Settled => Outdated(e))

\* Nor does it hide an edit of a title or a date, of the entries that are in the
\* store.  Edits of the link it does hide, a date that was taken back stays, and two
\* refreshes at a time can overtake each other, when the older document overwrites
\* the newer one's columns for good.
NoEditHidden ==
  Settled /\ Validated \notin lost =>
    \A e \in In(docs[Validated]) \cap Present :
      /\ entries[e].title = docs[Validated][e].body
      /\ docs[Validated][e].date # 0 => entries[e].date = docs[Validated][e].date

\* The store never holds more entries than the limit, and each column of a row is
\* from a document, also while documents are applied out of order; in order, a row
\* may have an older link beside a newer title, and never the reverse.
OnlyPublished ==
  /\ Keep # 0 => Cardinality(Present) <= Keep
  /\ \A e \in Present :
       /\ \E v \in Version : docs[v][e].body = entries[e].title
       /\ \E v \in Version : docs[v][e].body = entries[e].link
       /\ \E v \in Version : docs[v][e].date = entries[e].date
       /\ ~overtaken => entries[e].link <= entries[e].title

\* As long as a row is in the store it keeps its link and does not lose its date,
\* and nothing but overtaking brings an older title back.
RowsAdvance ==
  [][\A e \in Present \cap Present' :
       /\ entries'[e].link = entries[e].link
       /\ entries[e].date # 0 => entries'[e].date # 0
       /\ ~overtaken' => entries'[e].title >= entries[e].title]_vars

\* Documents are applied in the order in which the origin published them.
NeverOvertaken == ~overtaken
==============================================================================
