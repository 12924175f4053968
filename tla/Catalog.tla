------------------------------- MODULE Catalog -------------------------------
(***************************************************************************)
(* The catalog (table feeds) as its HTTP clients see it.  A client keeps a *)
(* copy of a listing and asks again with the copy's ETag, made of the      *)
(* catalog revision, or with its Last-Modified, the latest updated_at in   *)
(* whole seconds.  Writers change the table in several transactions and    *)
(* bump the revision in one more; conditionalGET and the listing itself    *)
(* are separate reads, so every interleaving of the two sides counts.      *)
(*                                                                         *)
(* The content of the table is abstracted to the number of changes made to *)
(* it.                                                                     *)
(***************************************************************************)
EXTENDS Naturals

CONSTANTS
  Writer,     \* goroutines that write to the catalog
  Client,     \* HTTP clients that keep a copy of a listing
  Nobody,     \* "writeMu is free"
  MaxChange,  \* bound: changes
  MaxRev,     \* bound: revisions
  MaxSecond,  \* bound: seconds that pass
  MaxFaults   \* bound: transactions that fail and processes that die

ASSUME CatalogAssumption ==
  /\ Nobody \notin Writer
  /\ MaxChange \in Nat /\ MaxRev \in Nat \ {0} /\ MaxSecond \in Nat /\ MaxFaults \in Nat

VARIABLES
  now,        \* the clock, in seconds
  (* the store *)
  content,    \* changes made to table feeds
  updatedAt,  \* MAX(updated_at) of table feeds
  rev,        \* meta "catalog_rev"
  (* writers *)
  wpc,        \* what the writer does next
  holder,     \* the writer that holds writeMu
  stamp,      \* now() of its transaction, which is the time it began
  (* requests *)
  rpc,        \* what conditionalGET does next
  seenRev,    \* revision read
  seenAt,     \* updated_at read
  ripe,       \* no transaction could any more stamp a row with seenAt
  (* clients *)
  sends,      \* the validators it sends, of the two that it was handed
  copy,       \* the copy a client holds
  (* history and bounds *)
  bumped,     \* content at the last bump
  silent,     \* a change may have been left without a bump
  faults

store == <<content, updatedAt, rev, bumped>>
writers == <<wpc, holder, stamp>>
requests == <<rpc, seenRev, seenAt, ripe, copy>>
vars == <<now, content, updatedAt, rev, wpc, holder, stamp, rpc, seenRev, seenAt,
          ripe, sends, copy, bumped, silent, faults>>

\* No copy: a request without validators.
NoCopy == [held |-> FALSE, tag |-> 0, date |-> 0, made |-> 0, ripe |-> FALSE, content |-> 0]

Init ==
  /\ now = 0
  /\ content = 0 /\ updatedAt = 0 /\ rev = 1
  /\ wpc = [w \in Writer |-> "idle"]
  /\ holder = Nobody
  /\ stamp = 0
  /\ rpc = [c \in Client |-> "idle"]
  /\ seenRev = [c \in Client |-> 0]
  /\ seenAt = [c \in Client |-> 0]
  /\ ripe = [c \in Client |-> FALSE]
  /\ sends \in [Client -> SUBSET {"tag", "date"}]
  /\ copy = [c \in Client |-> NoCopy]
  /\ bumped = 0
  /\ silent = FALSE
  /\ faults = 0

Tick ==
  /\ now < MaxSecond
  /\ now' = now + 1
  /\ UNCHANGED <<store, writers, requests, silent, faults, sends>>

------------------------------------------------------------------------------
(* Writers *)

\* What follows a transaction of refreshFeed, or of a handler.
NextStep == [upsert |-> "replace", replace |-> "record", record |-> "bump", direct |-> "idle"]

\* refreshFeed got a document: UpsertFeed, ReplaceEntries, RecordFetch, and then
\* the bump.
RefreshFeed(w) ==
  /\ wpc[w] = "idle"
  /\ rev < MaxRev
  /\ wpc' = [wpc EXCEPT ![w] = "upsert"]
  /\ UNCHANGED <<now, store, holder, stamp, requests, silent, faults, sends>>

\* addFeed, discover, importOPML and bulkDiscover (UpsertFeed), and refreshFeed
\* after a 304 or an error (RecordFetch): one transaction, no bump.
WriteOnce(w) ==
  /\ wpc[w] = "idle"
  /\ wpc' = [wpc EXCEPT ![w] = "direct"]
  /\ UNCHANGED <<now, store, holder, stamp, requests, silent, faults, sends>>

\* WithWrite: lock writeMu and begin a transaction.
Begin(w) ==
  /\ wpc[w] \in DOMAIN NextStep
  /\ holder = Nobody
  /\ content < MaxChange
  /\ holder' = w
  /\ stamp' = now
  /\ UNCHANGED <<now, store, wpc, requests, silent, faults, sends>>

\* The transaction is over, writeMu unlocked.
Release(w) ==
  /\ holder = w
  /\ holder' = Nobody
  /\ stamp' = 0

\* Commit: the change becomes visible, dated from the beginning.
Commit(w) ==
  /\ Release(w)
  /\ content' = content + 1
  /\ updatedAt' = stamp
  /\ silent' = (silent \/ wpc[w] = "direct")
  /\ wpc' = [wpc EXCEPT ![w] = NextStep[@]]
  /\ UNCHANGED <<now, rev, bumped, requests, faults, sends>>

\* Mutant: a transaction that fails ends the refresh in a state of its own.
Fail_Stuck(w) ==
  /\ faults < MaxFaults
  /\ faults' = faults + 1
  /\ Release(w)
  /\ wpc' = [wpc EXCEPT ![w] = "failed"]
  /\ UNCHANGED <<now, store, requests, silent, sends>>

\* Roll back; refreshFeed goes on all the same.
Fail(w) ==
  /\ faults < MaxFaults
  /\ faults' = faults + 1
  /\ Release(w)
  /\ wpc' = [wpc EXCEPT ![w] = NextStep[@]]
  /\ UNCHANGED <<now, store, requests, silent, sends>>

\* Mutant: the revision is bumped when a feed is new, not when it changes.
BumpCatalogRev_OnlyNew(w) ==
  /\ wpc[w] = "bump"
  /\ wpc' = [wpc EXCEPT ![w] = "idle"]
  /\ UNCHANGED <<now, store, holder, stamp, requests, silent, faults, sends>>

\* Mutant: the new value is computed before the transaction, so that of two
\* bumps at a time one is lost.
BumpCatalogRev_Lost(w) ==
  /\ wpc[w] = "bump"
  /\ holder = Nobody
  /\ rev' \in {rev, rev + 1}
  /\ bumped' = content
  /\ silent' = FALSE
  /\ wpc' = [wpc EXCEPT ![w] = "idle"]
  /\ UNCHANGED <<now, content, updatedAt, holder, stamp, requests, faults, sends>>

BumpCatalogRev(w) ==
  /\ wpc[w] = "bump"
  /\ holder = Nobody
  /\ rev < MaxRev
  /\ rev' = rev + 1
  /\ bumped' = content
  /\ silent' = FALSE
  /\ wpc' = [wpc EXCEPT ![w] = "idle"]
  /\ UNCHANGED <<now, content, updatedAt, holder, stamp, requests, faults, sends>>

\* The bump fails and refreshFeed ignores it, or the process dies (an open
\* transaction rolls back; clients keep their copies).
BumpFails(w) ==
  /\ faults < MaxFaults
  /\ faults' = faults + 1
  /\ wpc[w] = "bump"
  /\ wpc' = [wpc EXCEPT ![w] = "idle"]
  /\ silent' = TRUE
  /\ UNCHANGED <<now, store, holder, stamp, requests, sends>>

Crash ==
  /\ faults < MaxFaults
  /\ faults' = faults + 1
  /\ wpc # [w \in Writer |-> "idle"]
  /\ wpc' = [w \in Writer |-> "idle"]
  /\ rpc' = [c \in Client |-> "idle"]
  /\ seenRev' = [c \in Client |-> 0]
  /\ seenAt' = [c \in Client |-> 0]
  /\ ripe' = [c \in Client |-> FALSE]
  /\ holder' = Nobody
  /\ stamp' = 0
  /\ silent' = TRUE
  /\ UNCHANGED <<now, store, copy, sends>>

------------------------------------------------------------------------------
(* Requests *)

\* CatalogRev
ReadRev(c) ==
  /\ rpc[c] = "idle"
  /\ rpc' = [rpc EXCEPT ![c] = "updated"]
  /\ seenRev' = [seenRev EXCEPT ![c] = rev]
  /\ UNCHANGED <<now, store, writers, seenAt, ripe, copy, silent, faults, sends>>

\* CatalogUpdatedAt
ReadUpdatedAt(c) ==
  /\ rpc[c] = "updated"
  /\ rpc' = [rpc EXCEPT ![c] = "compare"]
  /\ seenAt' = [seenAt EXCEPT ![c] = updatedAt]
  /\ ripe' = [ripe EXCEPT ![c] = now > updatedAt /\ (holder # Nobody => stamp > updatedAt)]
  /\ UNCHANGED <<now, store, writers, seenRev, copy, silent, faults, sends>>

\* Mutant: a second of tolerance for clock skew.
NotModified_Tolerant(c) ==
  /\ copy[c].held
  /\ \/ "tag" \in sends[c] /\ copy[c].tag = seenRev[c]
     \/ "date" \in sends[c] /\ seenAt[c] <= copy[c].date + 1

\* The two tests of conditionalGET.  The date is looked at whenever the tag did
\* not match, also if there was one.
NotModified(c) ==
  /\ copy[c].held
  /\ \/ "tag" \in sends[c] /\ copy[c].tag = seenRev[c]
     \/ "date" \in sends[c] /\ seenAt[c] <= copy[c].date

\* The request is over, its variables are gone.
Done(c) ==
  /\ rpc' = [rpc EXCEPT ![c] = "idle"]
  /\ seenRev' = [seenRev EXCEPT ![c] = 0]
  /\ seenAt' = [seenAt EXCEPT ![c] = 0]
  /\ ripe' = [ripe EXCEPT ![c] = FALSE]

\* 304, with the current ETag and Last-Modified in its header: the client keeps
\* its copy under the new validators.
Answer304(c) ==
  /\ rpc[c] = "compare"
  /\ NotModified(c)
  /\ Done(c)
  /\ copy' = [copy EXCEPT ![c].tag = seenRev[c], ![c].date = seenAt[c]]
  /\ UNCHANGED <<now, store, writers, silent, faults, sends>>

\* 200: the listing is read after the validators.
Answer200(c) ==
  /\ rpc[c] = "compare"
  /\ ~NotModified(c)
  /\ Done(c)
  /\ copy' = [copy EXCEPT ![c] = [held |-> TRUE, tag |-> seenRev[c], date |-> seenAt[c],
                                  made |-> seenAt[c], ripe |-> ripe[c], content |-> content]]
  /\ UNCHANGED <<now, store, writers, silent, faults, sends>>

Next ==
  \/ Tick
  \/ \E w \in Writer :
       \/ RefreshFeed(w) \/ WriteOnce(w)
       \/ Begin(w) \/ Commit(w) \/ Fail(w)
       \/ BumpCatalogRev(w) \/ BumpFails(w)
  \/ Crash
  \/ \E c \in Client : ReadRev(c) \/ ReadUpdatedAt(c) \/ Answer304(c) \/ Answer200(c)

Spec == Init /\ [][Next]_vars
------------------------------------------------------------------------------
(* Properties *)

Copy == [held : BOOLEAN, tag : 0..MaxRev, date : 0..MaxSecond, made : 0..MaxSecond,
         ripe : BOOLEAN, content : 0..MaxChange]

\* Every variable has its type.
TypeOK ==
  /\ now \in 0..MaxSecond
  /\ content \in 0..MaxChange
  /\ bumped \in 0..MaxChange
  /\ updatedAt \in 0..MaxSecond
  /\ rev \in 0..MaxRev
  /\ wpc \in [Writer -> {"idle", "bump"} \cup DOMAIN NextStep]
  /\ holder \in Writer \cup {Nobody}
  /\ stamp \in 0..MaxSecond
  /\ rpc \in [Client -> {"idle", "updated", "compare"}]
  /\ seenRev \in [Client -> 0..MaxRev]
  /\ seenAt \in [Client -> 0..MaxSecond]
  /\ ripe \in [Client -> BOOLEAN]
  /\ sends \in [Client -> SUBSET {"tag", "date"}]
  /\ copy \in [Client -> Copy]
  /\ silent \in BOOLEAN
  /\ faults \in 0..MaxFaults

\* A 304 by the tag has given the copy a later date than that of its listing.
Raised(c) == copy[c].made < copy[c].date

\* A change announced by a bump is never hidden behind a 304: a copy whose ETag
\* is the current revision has all that was in the table at the last bump,
\* however the three reads of its request and the transactions of the writers
\* fell together.  A client that sends both validators has the same only for a
\* copy made after the second of its date, and until a 304 raises that date (for
\* a change whose bump is still to come): the date is compared after a tag that
\* did not match, and may hide what the tag announces.
TagSound ==
  \A c \in Client :
    /\ "tag" \in sends[c]
    /\ "date" \in sends[c] => copy[c].ripe /\ ~Raised(c)
    /\ copy[c].held /\ copy[c].tag = rev
    => copy[c].content >= bumped

\* A change is announced, or the refresh that made it is still on its way to
\* the bump; only handlers that never bump, failed bumps and crashes leave one
\* behind (until the next bump, of any feed).
Announced ==
  \/ silent
  \/ bumped = content
  \/ \E w \in Writer : wpc[w] \in {"replace", "record", "bump"}

\* Dates count whole seconds and are those of the beginning of a transaction, so
\* a copy may be revalidated although rows changed later in the same second.  A
\* copy made after that second, with no transaction of that second open, cannot,
\* unless its client also sends the tag and a 304 by the tag has raised the date.
DateSound ==
  \A c \in Client :
    /\ "date" \in sends[c]
    /\ "tag" \in sends[c] => ~Raised(c)
    /\ copy[c].held /\ copy[c].ripe /\ updatedAt <= copy[c].date
    => copy[c].content = content

\* Nothing goes back: rows are dated in the order of their commits, and a client with
\* one request at a time never trades its copy for an older one or for older
\* validators, whatever other requests, writers and crashes do between its reads.
CopiesAdvance ==
  [][/\ updatedAt <= updatedAt'
     /\ \A c \in Client : /\ copy[c].content <= copy'[c].content
                          /\ copy[c].tag <= copy'[c].tag
                          /\ copy[c].date <= copy'[c].date]_vars
==============================================================================
