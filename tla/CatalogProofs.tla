---------------------------- MODULE CatalogProofs ----------------------------
(***************************************************************************)
(* Proofs about Catalog, for any number of writers and clients, whichever  *)
(* validators each client sends.                                           *)
(***************************************************************************)
EXTENDS Catalog, TLAPS

\* Dates: rows are stamped in the order in which they are committed, because the
\* time of a transaction is taken under writeMu.
Clock ==
  /\ updatedAt <= now
  /\ stamp <= now
  /\ holder # Nobody =>
       updatedAt <= stamp /\ wpc[holder] \in DOMAIN NextStep /\ content < MaxChange

\* Revisions: what requests and copies carry is no newer than the store.
Older ==
  /\ bumped <= content
  /\ \A c \in Client : seenRev[c] <= rev /\ copy[c].tag <= rev

\* No change to come will be dated like a request, or a copy, that is ripe.
Ripe ==
  \A c \in Client :
    /\ ripe[c] => now > seenAt[c] /\ (holder # Nobody => stamp > seenAt[c])
    /\ copy[c].ripe => now > copy[c].made /\ (holder # Nobody => stamp > copy[c].made)

IInv == TypeOK /\ Clock /\ Older /\ Ripe

LEMMA Steps ==
  /\ DOMAIN NextStep = {"upsert", "replace", "record", "direct"}
  /\ \A p \in DOMAIN NextStep : NextStep[p] \in {"idle", "bump"} \cup DOMAIN NextStep
  BY DEF NextStep

LEMMA InitIInv == Init => IInv
<1> SUFFICES ASSUME Init PROVE IInv
  OBVIOUS
<1> USE CatalogAssumption, Steps DEF Init
<1>1. NoCopy \in Copy
  BY DEF NoCopy, Copy
<1>2. TypeOK
  <2>1. now \in 0..MaxSecond /\ content \in 0..MaxChange /\ bumped \in 0..MaxChange
    OBVIOUS
  <2>2. updatedAt \in 0..MaxSecond /\ rev \in 0..MaxRev /\ stamp \in 0..MaxSecond
    OBVIOUS
  <2>3. copy \in [Client -> Copy]
    BY <1>1
  <2>4. wpc \in [Writer -> {"idle", "bump"} \cup DOMAIN NextStep] /\ holder \in Writer \cup {Nobody}
    OBVIOUS
  <2>5. rpc \in [Client -> {"idle", "updated", "compare"}] /\ ripe \in [Client -> BOOLEAN]
    OBVIOUS
  <2>6. seenRev \in [Client -> 0..MaxRev] /\ seenAt \in [Client -> 0..MaxSecond]
    OBVIOUS
  <2>7. silent \in BOOLEAN
    OBVIOUS
  <2>8. faults \in 0..MaxFaults
    OBVIOUS
  <2>9. sends \in [Client -> SUBSET {"tag", "date"}]
    OBVIOUS
  <2> QED
    BY ONLY <2>1, <2>2, <2>3, <2>4, <2>5, <2>6, <2>7, <2>8, <2>9 DEF TypeOK
<1>3. Clock /\ Older /\ Ripe
  BY DEF Clock, Older, Ripe, NoCopy
<1>4. QED
  BY <1>2, <1>3 DEF IInv

\* Every step preserves the types (Clock says where a transaction stands).
LEMMA TypeStep == TypeOK /\ Clock /\ [Next]_vars => TypeOK'
<1> SUFFICES ASSUME TypeOK, Clock, [Next]_vars
             PROVE  TypeOK'
  OBVIOUS
<1> USE CatalogAssumption DEF TypeOK
<1>1. ASSUME Tick
      PROVE  TypeOK'
  BY <1>1 DEF Tick, store, writers, requests
<1>2. ASSUME NEW w \in Writer, RefreshFeed(w)
      PROVE  TypeOK'
  BY <1>2, Steps DEF RefreshFeed, store, writers, requests
<1>3. ASSUME NEW w \in Writer, WriteOnce(w)
      PROVE  TypeOK'
  BY <1>3, Steps DEF WriteOnce, store, writers, requests
<1>4. ASSUME NEW w \in Writer, Begin(w)
      PROVE  TypeOK'
  BY <1>4 DEF Begin, store, writers, requests
<1>5. ASSUME NEW w \in Writer, Commit(w)
      PROVE  TypeOK'
  <2>1. wpc[w] \in DOMAIN NextStep /\ content < MaxChange
    BY <1>5 DEF Commit, Release, Clock
  <2>2. wpc' \in [Writer -> {"idle", "bump"} \cup DOMAIN NextStep]
    BY <1>5, <2>1, Steps DEF Commit
  <2>3. content' \in 0..MaxChange /\ updatedAt' \in 0..MaxSecond /\ silent' \in BOOLEAN
    BY <1>5, <2>1 DEF Commit
  <2>4. QED
    BY <1>5, <2>2, <2>3 DEF Commit, Release, requests
<1>6. ASSUME NEW w \in Writer, Fail(w)
      PROVE  TypeOK'
  BY <1>6, Steps DEF Fail, Release, store, writers, requests, Clock
<1>7. ASSUME NEW w \in Writer, BumpCatalogRev(w)
      PROVE  TypeOK'
  <2>1. rev < MaxRev /\ rev' = rev + 1 /\ bumped' = content /\ silent' = FALSE
    BY <1>7 DEF BumpCatalogRev
  <2>2. wpc' \in [Writer -> {"idle", "bump"} \cup DOMAIN NextStep]
    BY <1>7 DEF BumpCatalogRev
  <2>3. rev' \in 0..MaxRev
    BY <2>1
  <2>4. bumped' \in 0..MaxChange /\ silent' \in BOOLEAN
    BY <2>1
  <2>5. QED
    BY ONLY <1>7, <2>2, <2>3, <2>4, TypeOK DEF BumpCatalogRev, requests, TypeOK
<1>8. ASSUME NEW w \in Writer, BumpFails(w)
      PROVE  TypeOK'
  BY <1>8 DEF BumpFails, store, writers, requests
<1>9. ASSUME Crash
      PROVE  TypeOK'
  BY <1>9 DEF Crash, store, writers, requests
<1>10. ASSUME NEW c \in Client, ReadRev(c)
       PROVE  TypeOK'
  BY <1>10 DEF ReadRev, store, writers, requests
<1>11. ASSUME NEW c \in Client, ReadUpdatedAt(c)
       PROVE  TypeOK'
  BY <1>11 DEF ReadUpdatedAt, store, writers, requests
<1>12. ASSUME NEW c \in Client, Answer304(c)
       PROVE  TypeOK'
  <2>1. copy[c] \in Copy /\ seenRev[c] \in 0..MaxRev /\ seenAt[c] \in 0..MaxSecond
    OBVIOUS
  <2>2. [copy[c] EXCEPT !.tag = seenRev[c], !.date = seenAt[c]] \in Copy
    BY ONLY <2>1 DEF Copy
  <2>3. copy' = [copy EXCEPT ![c] = [copy[c] EXCEPT !.tag = seenRev[c], !.date = seenAt[c]]]
    BY <1>12 DEF Answer304
  <2>4. copy' \in [Client -> Copy]
    BY <2>2, <2>3
  <2>5. QED
    BY <1>12, <2>4 DEF Answer304, Done, store, writers
<1>13. ASSUME NEW c \in Client, Answer200(c)
       PROVE  TypeOK'
  BY <1>13 DEF Answer200, Done, Copy, store, writers, requests
<1>14. CASE UNCHANGED vars
  BY <1>14 DEF vars
<1>15. QED
  BY <1>1, <1>2, <1>3, <1>4, <1>5, <1>6, <1>7, <1>8, <1>9, <1>10, <1>11, <1>12, <1>13, <1>14 DEF Next

LEMMA ClockStep == TypeOK /\ Clock /\ [Next]_vars => Clock'
<1> SUFFICES ASSUME TypeOK, Clock, [Next]_vars
             PROVE  Clock'
  OBVIOUS
<1> USE CatalogAssumption, Steps DEF TypeOK, Clock
<1>1. ASSUME Tick
      PROVE  Clock'
  BY <1>1 DEF Tick, store, writers, requests
<1>2. ASSUME NEW w \in Writer, RefreshFeed(w)
      PROVE  Clock'
  BY <1>2 DEF RefreshFeed, store, writers, requests
<1>3. ASSUME NEW w \in Writer, WriteOnce(w)
      PROVE  Clock'
  BY <1>3 DEF WriteOnce, store, writers, requests
<1>4. ASSUME NEW w \in Writer, Begin(w)
      PROVE  Clock'
  BY <1>4 DEF Begin, store, writers, requests
<1>5. ASSUME NEW w \in Writer, Commit(w)
      PROVE  Clock'
  BY <1>5 DEF Commit, Release, store, writers, requests
<1>6. ASSUME NEW w \in Writer, Fail(w)
      PROVE  Clock'
  BY <1>6 DEF Fail, Release, store, writers, requests
<1>7. ASSUME NEW w \in Writer, BumpCatalogRev(w)
      PROVE  Clock'
  BY <1>7 DEF BumpCatalogRev, store, writers, requests
<1>8. ASSUME NEW w \in Writer, BumpFails(w)
      PROVE  Clock'
  BY <1>8 DEF BumpFails, store, writers, requests
<1>9. ASSUME Crash
      PROVE  Clock'
  BY <1>9 DEF Crash, store, writers, requests
<1>10. ASSUME NEW c \in Client, ReadRev(c)
       PROVE  Clock'
  BY <1>10 DEF ReadRev, store, writers, requests
<1>11. ASSUME NEW c \in Client, ReadUpdatedAt(c)
       PROVE  Clock'
  BY <1>11 DEF ReadUpdatedAt, store, writers, requests
<1>12. ASSUME NEW c \in Client, Answer304(c)
       PROVE  Clock'
  BY <1>12 DEF Answer304, Done, NotModified, store, writers, requests
<1>13. ASSUME NEW c \in Client, Answer200(c)
       PROVE  Clock'
  BY <1>13 DEF Answer200, Done, Copy, store, writers, requests
<1>14. CASE UNCHANGED vars
  BY <1>14 DEF vars
<1>15. QED
  BY <1>1, <1>2, <1>3, <1>4, <1>5, <1>6, <1>7, <1>8, <1>9, <1>10, <1>11, <1>12, <1>13, <1>14 DEF Next

LEMMA OlderStep == TypeOK /\ Older /\ [Next]_vars => Older'
<1> SUFFICES ASSUME TypeOK, Older, [Next]_vars
             PROVE  Older'
  OBVIOUS
<1> USE CatalogAssumption DEF TypeOK, Older, Copy
<1>1. ASSUME Tick
      PROVE  Older'
  BY <1>1 DEF Tick, store, writers, requests
<1>2. ASSUME NEW w \in Writer, RefreshFeed(w)
      PROVE  Older'
  BY <1>2 DEF RefreshFeed, store, writers, requests
<1>3. ASSUME NEW w \in Writer, WriteOnce(w)
      PROVE  Older'
  BY <1>3 DEF WriteOnce, store, writers, requests
<1>4. ASSUME NEW w \in Writer, Begin(w)
      PROVE  Older'
  BY <1>4 DEF Begin, store, writers, requests
<1>5. ASSUME NEW w \in Writer, Commit(w)
      PROVE  Older'
  BY <1>5 DEF Commit, Release, store, writers, requests
<1>6. ASSUME NEW w \in Writer, Fail(w)
      PROVE  Older'
  BY <1>6 DEF Fail, Release, store, writers, requests
<1>7. ASSUME NEW w \in Writer, BumpCatalogRev(w)
      PROVE  Older'
  BY <1>7 DEF BumpCatalogRev, store, writers, requests
<1>8. ASSUME NEW w \in Writer, BumpFails(w)
      PROVE  Older'
  BY <1>8 DEF BumpFails, store, writers, requests
<1>9. ASSUME Crash
      PROVE  Older'
  BY <1>9 DEF Crash, store, writers, requests
<1>10. ASSUME NEW c \in Client, ReadRev(c)
       PROVE  Older'
  BY <1>10 DEF ReadRev, store, writers, requests
<1>11. ASSUME NEW c \in Client, ReadUpdatedAt(c)
       PROVE  Older'
  BY <1>11 DEF ReadUpdatedAt, store, writers, requests
<1>12. ASSUME NEW c \in Client, Answer304(c)
       PROVE  Older'
  BY <1>12 DEF Answer304, Done, NotModified, store, writers, requests
<1>13. ASSUME NEW c \in Client, Answer200(c)
       PROVE  Older'
  BY <1>13 DEF Answer200, Done, Copy, store, writers, requests
<1>14. CASE UNCHANGED vars
  BY <1>14 DEF vars
<1>15. QED
  BY <1>1, <1>2, <1>3, <1>4, <1>5, <1>6, <1>7, <1>8, <1>9, <1>10, <1>11, <1>12, <1>13, <1>14 DEF Next

LEMMA RipeStep == TypeOK /\ Clock /\ Ripe /\ [Next]_vars => Ripe'
<1> SUFFICES ASSUME TypeOK, Clock, Ripe, [Next]_vars
             PROVE  Ripe'
  OBVIOUS
<1> USE CatalogAssumption DEF TypeOK, Clock, Ripe, Copy
<1>1. ASSUME Tick
      PROVE  Ripe'
  BY <1>1 DEF Tick, store, writers, requests
<1>2. ASSUME NEW w \in Writer, RefreshFeed(w)
      PROVE  Ripe'
  BY <1>2 DEF RefreshFeed, store, writers, requests
<1>3. ASSUME NEW w \in Writer, WriteOnce(w)
      PROVE  Ripe'
  BY <1>3 DEF WriteOnce, store, writers, requests
<1>4. ASSUME NEW w \in Writer, Begin(w)
      PROVE  Ripe'
  BY <1>4 DEF Begin, store, writers, requests
<1>5. ASSUME NEW w \in Writer, Commit(w)
      PROVE  Ripe'
  BY <1>5 DEF Commit, Release, store, writers, requests
<1>6. ASSUME NEW w \in Writer, Fail(w)
      PROVE  Ripe'
  BY <1>6 DEF Fail, Release, store, writers, requests
<1>7. ASSUME NEW w \in Writer, BumpCatalogRev(w)
      PROVE  Ripe'
  BY <1>7 DEF BumpCatalogRev, store, writers, requests
<1>8. ASSUME NEW w \in Writer, BumpFails(w)
      PROVE  Ripe'
  BY <1>8 DEF BumpFails, store, writers, requests
<1>9. ASSUME Crash
      PROVE  Ripe'
  BY <1>9 DEF Crash, store, writers, requests
<1>10. ASSUME NEW c \in Client, ReadRev(c)
       PROVE  Ripe'
  BY <1>10 DEF ReadRev, store, writers, requests
<1>11. ASSUME NEW c \in Client, ReadUpdatedAt(c)
       PROVE  Ripe'
  BY <1>11 DEF ReadUpdatedAt, store, writers, requests
<1>12. ASSUME NEW c \in Client, Answer304(c)
       PROVE  Ripe'
  BY <1>12 DEF Answer304, Done, NotModified, store, writers, requests
<1>13. ASSUME NEW c \in Client, Answer200(c)
       PROVE  Ripe'
  BY <1>13 DEF Answer200, Done, Copy, store, writers, requests
<1>14. CASE UNCHANGED vars
  BY <1>14 DEF vars
<1>15. QED
  BY <1>1, <1>2, <1>3, <1>4, <1>5, <1>6, <1>7, <1>8, <1>9, <1>10, <1>11, <1>12, <1>13, <1>14 DEF Next

LEMMA IInvStep == IInv /\ [Next]_vars => IInv'
  BY TypeStep, ClockStep, OlderStep, RipeStep DEF IInv

LEMMA Invariant == Spec => []IInv
<1>1. QED
  BY InitIInv, IInvStep, PTL DEF Spec

\* Every variable keeps its type.
THEOREM TypeCorrect == Spec => []TypeOK
<1>1. IInv => TypeOK
  BY DEF IInv
<1>2. QED
  BY <1>1, Invariant, PTL

\* Every change is announced, or about to be, or known to be silent.
THEOREM AnnouncedCorrect == Spec => []Announced
<1>1. Init => Announced
  BY DEF Init, Announced
<1>2. IInv /\ Announced /\ [Next]_vars => Announced'
  <2> SUFFICES ASSUME IInv, Announced, [Next]_vars
               PROVE  Announced'
    OBVIOUS
  <2> USE CatalogAssumption, Steps DEF IInv, TypeOK, Clock, Announced
  <2>1. ASSUME Tick
        PROVE  Announced'
    BY <2>1 DEF Tick, store, writers, requests
  <2>2. ASSUME NEW w \in Writer, RefreshFeed(w)
        PROVE  Announced'
    BY <2>2 DEF RefreshFeed, store, writers, requests
  <2>3. ASSUME NEW w \in Writer, WriteOnce(w)
        PROVE  Announced'
    BY <2>3 DEF WriteOnce, store, writers, requests
  <2>4. ASSUME NEW w \in Writer, Begin(w)
        PROVE  Announced'
    BY <2>4 DEF Begin, store, writers, requests
  <2>5. ASSUME NEW w \in Writer, Commit(w)
        PROVE  Announced'
    <3>1. /\ wpc[w] \in DOMAIN NextStep
          /\ silent' = (silent \/ wpc[w] = "direct")
          /\ wpc'[w] = NextStep[wpc[w]]
      BY <2>5 DEF Commit, Release
    <3>2. CASE wpc[w] = "direct"
      BY <3>1, <3>2
    <3>3. CASE wpc[w] # "direct"
      <4>1. wpc'[w] \in {"replace", "record", "bump"}
        BY <3>1, <3>3 DEF NextStep
      <4> QED BY <4>1
    <3> QED BY <3>2, <3>3
  <2>6. ASSUME NEW w \in Writer, Fail(w)
        PROVE  Announced'
    BY <2>6 DEF Fail, Release, store, writers, requests, NextStep
  <2>7. ASSUME NEW w \in Writer, BumpCatalogRev(w)
        PROVE  Announced'
    BY <2>7 DEF BumpCatalogRev, store, writers, requests
  <2>8. ASSUME NEW w \in Writer, BumpFails(w)
        PROVE  Announced'
    BY <2>8 DEF BumpFails, store, writers, requests
  <2>9. ASSUME Crash
        PROVE  Announced'
    BY <2>9 DEF Crash, store, writers, requests
  <2>10. ASSUME NEW c \in Client, ReadRev(c)
         PROVE  Announced'
    BY <2>10 DEF ReadRev, store, writers, requests
  <2>11. ASSUME NEW c \in Client, ReadUpdatedAt(c)
         PROVE  Announced'
    BY <2>11 DEF ReadUpdatedAt, store, writers, requests
  <2>12. ASSUME NEW c \in Client, Answer304(c)
         PROVE  Announced'
    BY <2>12 DEF Answer304, Done, NotModified, store, writers, requests
  <2>13. ASSUME NEW c \in Client, Answer200(c)
         PROVE  Announced'
    BY <2>13 DEF Answer200, Done, Copy, store, writers, requests
  <2>14. CASE UNCHANGED vars
    BY <2>14 DEF vars
  <2>15. QED
    BY <2>1, <2>2, <2>3, <2>4, <2>5, <2>6, <2>7, <2>8, <2>9, <2>10, <2>11, <2>12, <2>13, <2>14 DEF Next
<1>3. QED
  BY <1>1, <1>2, Invariant, PTL DEF Spec

\* A client's copy is no newer than the store, and the validators that its request
\* has read meanwhile are no older than the copy's.
Behind(c) ==
  /\ copy[c].content <= content
  /\ copy[c].date <= updatedAt
  /\ rpc[c] # "idle" => copy[c].tag <= seenRev[c]
  /\ rpc[c] = "compare" => copy[c].date <= seenAt[c] /\ seenAt[c] <= updatedAt

\* What CopiesAdvance says of the store, and of one client.
StoreAdvances == content <= content' /\ updatedAt <= updatedAt'

CopyAdvances(c) ==
  /\ copy[c].content <= copy'[c].content
  /\ copy[c].tag <= copy'[c].tag
  /\ copy[c].date <= copy'[c].date

\* A commit dates its rows with the beginning of its transaction, which is not
\* before the commit that precedes it.
LEMMA StoreStep ==
  ASSUME IInv, [Next]_vars
  PROVE  StoreAdvances
<1> USE CatalogAssumption DEF IInv, TypeOK, StoreAdvances
<1>1. ASSUME NEW w \in Writer, Commit(w)
      PROVE  StoreAdvances
  BY <1>1 DEF Commit, Release, Clock
<1>2. CASE UNCHANGED <<content, updatedAt>>
  BY <1>2
<1>3. QED
  BY <1>1, <1>2
  DEF Next, Tick, RefreshFeed, WriteOnce, Begin, Fail, BumpCatalogRev, BumpFails, Crash,
      ReadRev, ReadUpdatedAt, Answer304, Answer200, store, vars

\* Whatever is not a step of its own request leaves a client's copy alone, and its
\* request too unless the process dies.
LEMMA OthersStep ==
  ASSUME IInv, [Next]_vars, NEW c \in Client,
         ~(ReadRev(c) \/ ReadUpdatedAt(c) \/ Answer304(c) \/ Answer200(c))
  PROVE  /\ copy'[c] = copy[c]
         /\ \/ rpc'[c] = "idle"
            \/ rpc'[c] = rpc[c] /\ seenRev'[c] = seenRev[c] /\ seenAt'[c] = seenAt[c]
<1> DEFINE Kept == /\ copy'[c] = copy[c]
                   /\ \/ rpc'[c] = "idle"
                      \/ rpc'[c] = rpc[c] /\ seenRev'[c] = seenRev[c] /\ seenAt'[c] = seenAt[c]
<1>1. CASE UNCHANGED requests
  BY <1>1 DEF requests
<1>2. CASE Crash
  BY <1>2 DEF Crash
<1>3. ASSUME NEW d \in Client \ {c},
             ReadRev(d) \/ ReadUpdatedAt(d) \/ Answer304(d) \/ Answer200(d)
      PROVE  Kept
  BY <1>3 DEF IInv, TypeOK, ReadRev, ReadUpdatedAt, Answer304, Answer200, Done
<1>4. QED
  BY <1>1, <1>2, <1>3
  DEF Next, Tick, RefreshFeed, WriteOnce, Begin, Commit, Fail, BumpCatalogRev, BumpFails,
      requests, vars

\* No step takes a client back, and what was behind the store stays behind it.
LEMMA CopyStep ==
  ASSUME IInv, [Next]_vars, NEW c \in Client, Behind(c)
  PROVE  Behind(c)' /\ CopyAdvances(c)
<1> DEFINE Goal == Behind(c)' /\ CopyAdvances(c)
<1>1. /\ copy[c] \in Copy /\ copy[c].tag <= rev
      /\ content \in Nat /\ updatedAt \in Nat /\ rev \in Nat
      /\ seenRev[c] \in Nat /\ seenAt[c] \in Nat
      /\ copy[c].content \in Nat /\ copy[c].tag \in Nat /\ copy[c].date \in Nat
  BY CatalogAssumption DEF IInv, TypeOK, Older, Copy
<1>2. StoreAdvances /\ IInv' /\ content' \in Nat /\ updatedAt' \in Nat
  <2>1. StoreAdvances /\ IInv'
    BY StoreStep, IInvStep
  <2>2. QED
    BY <2>1, CatalogAssumption DEF IInv, TypeOK
<1>3. CASE ReadRev(c)
  BY <1>1, <1>3 DEF ReadRev, Behind, CopyAdvances, store, IInv, TypeOK
<1>4. CASE ReadUpdatedAt(c)
  BY <1>1, <1>4 DEF ReadUpdatedAt, Behind, CopyAdvances, store, IInv, TypeOK
<1>5. CASE Answer304(c)
  <2>1. /\ rpc[c] = "compare" /\ rpc'[c] = "idle"
        /\ copy'[c] = [copy[c] EXCEPT !.tag = seenRev[c], !.date = seenAt[c]]
        /\ UNCHANGED <<content, updatedAt>>
    BY <1>5 DEF Answer304, Done, store, IInv, TypeOK
  <2>2. /\ copy'[c].tag = seenRev[c] /\ copy'[c].date = seenAt[c]
        /\ copy'[c].content = copy[c].content
    BY <1>1, <2>1 DEF Copy
  <2>3. QED
    BY <1>1, <2>1, <2>2 DEF Behind, CopyAdvances
<1>6. CASE Answer200(c)
  <2>1. /\ rpc[c] = "compare" /\ rpc'[c] = "idle"
        /\ copy'[c] = [held |-> TRUE, tag |-> seenRev[c], date |-> seenAt[c],
                       made |-> seenAt[c], ripe |-> ripe[c], content |-> content]
        /\ UNCHANGED <<content, updatedAt>>
    BY <1>6 DEF Answer200, Done, store, IInv, TypeOK
  <2>2. QED
    BY <1>1, <2>1 DEF Behind, CopyAdvances
<1>7. CASE ~(ReadRev(c) \/ ReadUpdatedAt(c) \/ Answer304(c) \/ Answer200(c))
  <2>1. /\ copy'[c] = copy[c]
        /\ \/ rpc'[c] = "idle"
           \/ rpc'[c] = rpc[c] /\ seenRev'[c] = seenRev[c] /\ seenAt'[c] = seenAt[c]
    BY <1>7, OthersStep
  <2>2. QED
    BY <1>1, <1>2, <2>1 DEF Behind, CopyAdvances, StoreAdvances
<1>8. QED
  BY <1>3, <1>4, <1>5, <1>6, <1>7

LEMMA BehindCorrect == Spec => [](\A c \in Client : Behind(c))
<1> DEFINE Ahead == \A c \in Client : Behind(c)
<1>1. Init => Ahead
  BY DEF Init, Behind, NoCopy
<1>2. IInv /\ Ahead /\ [Next]_vars => Ahead'
  BY CopyStep
<1> QED BY <1>1, <1>2, Invariant, PTL DEF Spec

\* Dates, revisions and contents only go forward, for the store and for each client.
\* It rests on the order of the reads: the listing after the validators, and one
\* request of a client at a time.
THEOREM CopiesCorrect == Spec => CopiesAdvance
<1> DEFINE Ahead == \A c \in Client : Behind(c)
<1>1. IInv /\ Ahead /\ [Next]_vars
      => [/\ updatedAt <= updatedAt'
          /\ \A c \in Client : /\ copy[c].content <= copy'[c].content
                               /\ copy[c].tag <= copy'[c].tag
                               /\ copy[c].date <= copy'[c].date]_vars
  BY StoreStep, CopyStep DEF StoreAdvances, CopyAdvances
<1> QED BY <1>1, BehindCorrect, Invariant, PTL DEF Spec, CopiesAdvance

------------------------------------------------------------------------------
(* What a 304 hides *)

\* The date of a copy is that of its listing, or a 304 by the tag has raised it.
Dated(c) == copy[c].made <= copy[c].date /\ ("tag" \in sends[c] \/ copy[c].made = copy[c].date)

\* A ripe copy has all that is dated no later than its listing.
Full(c) ==
  copy[c].held /\ copy[c].ripe /\ updatedAt <= copy[c].made => copy[c].content = content

\* A request that finds nothing later than the listing of a ripe copy has read a
\* revision that announces nothing that the copy lacks.
Seen(c) ==
  /\ rpc[c] = "compare" /\ seenRev[c] = rev
  /\ copy[c].held /\ copy[c].ripe /\ copy[c].made = seenAt[c]
  => copy[c].content >= bumped

\* What TagSound says of one client.
Told(c) ==
  /\ "tag" \in sends[c]
  /\ "date" \in sends[c] => copy[c].ripe /\ ~Raised(c)
  /\ copy[c].held /\ copy[c].tag = rev
  => copy[c].content >= bumped

Sound(c) == Dated(c) /\ Full(c) /\ Seen(c) /\ Told(c)

\* What writers do to the store: a change is dated after the listing of every ripe
\* copy, and a bump makes a revision that nobody has seen.
LEMMA WritersStep ==
  ASSUME IInv, [Next]_vars
  PROVE  /\ sends' = sends
         /\ \/ UNCHANGED <<content, updatedAt, rev, bumped>>
            \/ /\ UNCHANGED <<rev, bumped>>
               /\ \A c \in Client : copy[c].ripe => updatedAt' > copy[c].made
            \/ UNCHANGED <<content, updatedAt>> /\ rev' = rev + 1
<1> DEFINE Goal == \/ UNCHANGED <<content, updatedAt, rev, bumped>>
                   \/ /\ UNCHANGED <<rev, bumped>>
                      /\ \A c \in Client : copy[c].ripe => updatedAt' > copy[c].made
                   \/ UNCHANGED <<content, updatedAt>> /\ rev' = rev + 1
<1>1. sends' = sends
  BY DEF Next, Tick, RefreshFeed, WriteOnce, Begin, Commit, Fail, BumpCatalogRev, BumpFails, Crash,
         ReadRev, ReadUpdatedAt, Answer304, Answer200, vars
<1>2. ASSUME NEW w \in Writer, Commit(w)
      PROVE  Goal
  BY <1>2, CatalogAssumption DEF Commit, Release, IInv, Ripe
<1>3. ASSUME NEW w \in Writer, BumpCatalogRev(w)
      PROVE  Goal
  BY <1>3 DEF BumpCatalogRev
<1>4. ASSUME UNCHANGED store
      PROVE  Goal
  BY <1>4 DEF store
<1>5. Goal
  BY <1>2, <1>3, <1>4
  DEF Next, Tick, RefreshFeed, WriteOnce, Begin, Fail, BumpFails, Crash,
      ReadRev, ReadUpdatedAt, Answer304, Answer200, store, vars
<1> QED BY <1>1, <1>5

LEMMA SoundStep ==
  ASSUME IInv, [Next]_vars, NEW c \in Client, Behind(c), Sound(c)
  PROVE  Sound(c)'
<1>1. /\ copy[c] \in Copy /\ copy[c].tag <= rev /\ seenRev[c] <= rev /\ bumped <= content
      /\ content \in Nat /\ updatedAt \in Nat /\ rev \in Nat /\ bumped \in Nat
      /\ seenRev[c] \in Nat /\ seenAt[c] \in Nat
      /\ copy[c].content \in Nat /\ copy[c].tag \in Nat
      /\ copy[c].date \in Nat /\ copy[c].made \in Nat
  BY CatalogAssumption DEF IInv, TypeOK, Older, Copy
<1>2. sends' = sends
  BY WritersStep
<1> USE DEF Sound, Dated, Full, Seen, Told, Raised
<1>3. CASE ReadRev(c)
  <2>1. rpc'[c] = "updated" /\ UNCHANGED <<copy, content, updatedAt, rev, bumped>>
    BY <1>3 DEF ReadRev, store, IInv, TypeOK
  <2> QED BY <1>1, <1>2, <2>1
<1>4. CASE ReadUpdatedAt(c)
  <2>1. seenAt'[c] = updatedAt /\ UNCHANGED <<copy, content, updatedAt, rev, bumped>>
    BY <1>4 DEF ReadUpdatedAt, store, IInv, TypeOK
  <2> QED BY <1>1, <1>2, <2>1
<1>5. CASE Answer304(c)
  <2>1. /\ rpc[c] = "compare" /\ rpc'[c] = "idle" /\ NotModified(c)
        /\ copy'[c] = [copy[c] EXCEPT !.tag = seenRev[c], !.date = seenAt[c]]
        /\ UNCHANGED <<content, updatedAt, rev, bumped>>
    BY <1>5 DEF Answer304, Done, store, IInv, TypeOK
  <2>2. /\ copy'[c].tag = seenRev[c] /\ copy'[c].date = seenAt[c]
        /\ copy'[c].content = copy[c].content /\ copy'[c].made = copy[c].made
        /\ copy'[c].ripe = copy[c].ripe /\ copy'[c].held = copy[c].held
    BY <1>1, <2>1 DEF Copy
  <2>3. copy[c].date <= seenAt[c]
    BY <2>1 DEF Behind
  <2>4. Dated(c)'
    <3>1. CASE "tag" \in sends[c]
      BY <1>1, <1>2, <2>2, <2>3, <3>1
    <3>2. CASE "tag" \notin sends[c]
      <4>1. seenAt[c] <= copy[c].date
        BY <2>1, <3>2 DEF NotModified
      <4> QED BY <1>1, <1>2, <2>2, <2>3, <3>2, <4>1
    <3> QED BY <3>1, <3>2
  <2>5. Full(c)' /\ Seen(c)'
    BY <2>1, <2>2
  <2>6. Told(c)'
    <3> SUFFICES ASSUME "tag" \in sends[c], "date" \in sends[c] => copy[c].ripe /\ ~ (copy[c].made < seenAt[c]),
                        copy[c].held, seenRev[c] = rev
                 PROVE  copy[c].content >= bumped
      BY <1>2, <2>1, <2>2
    <3>1. CASE copy[c].tag = seenRev[c]
      BY <1>1, <2>3, <3>1
    <3>2. CASE copy[c].tag # seenRev[c]
      <4>1. "date" \in sends[c] /\ seenAt[c] <= copy[c].date
        BY <2>1, <3>2 DEF NotModified
      <4>2. copy[c].ripe /\ copy[c].made = seenAt[c]
        BY <1>1, <2>3, <4>1
      <4> QED BY <2>1, <4>2
    <3> QED BY <3>1, <3>2
  <2> QED BY <2>4, <2>5, <2>6
<1>6. CASE Answer200(c)
  <2>1. /\ rpc'[c] = "idle"
        /\ copy'[c] = [held |-> TRUE, tag |-> seenRev[c], date |-> seenAt[c],
                       made |-> seenAt[c], ripe |-> ripe[c], content |-> content]
        /\ UNCHANGED <<content, updatedAt, rev, bumped>>
    BY <1>6 DEF Answer200, Done, store, IInv, TypeOK
  <2> QED BY <1>1, <1>2, <2>1
<1>7. CASE ~(ReadRev(c) \/ ReadUpdatedAt(c) \/ Answer304(c) \/ Answer200(c))
  <2>1. /\ copy'[c] = copy[c]
        /\ \/ rpc'[c] = "idle"
           \/ rpc'[c] = rpc[c] /\ seenRev'[c] = seenRev[c] /\ seenAt'[c] = seenAt[c]
    BY <1>7, OthersStep
  <2>2. CASE UNCHANGED <<content, updatedAt, rev, bumped>>
    BY <1>1, <1>2, <2>1, <2>2
  <2>3. CASE UNCHANGED <<rev, bumped>> /\ (copy[c].ripe => updatedAt' > copy[c].made)
    <3>1. updatedAt' \in Nat
      BY IInvStep, CatalogAssumption DEF IInv, TypeOK
    <3> QED BY <1>1, <1>2, <2>1, <2>3, <3>1
  <2>4. CASE UNCHANGED <<content, updatedAt>> /\ rev' = rev + 1
    BY <1>1, <1>2, <2>1, <2>4
  <2> QED BY <2>2, <2>3, <2>4, WritersStep
<1> QED BY <1>3, <1>4, <1>5, <1>6, <1>7

LEMMA SoundCorrect == Spec => [](\A c \in Client : Sound(c))
<1> DEFINE Ahead == \A c \in Client : Behind(c)
           AllSound == \A c \in Client : Sound(c)
<1>1. Init => AllSound
  BY DEF Init, NoCopy, Sound, Dated, Full, Seen, Told, Raised
<1>2. IInv /\ Ahead /\ AllSound /\ [Next]_vars => AllSound'
  BY SoundStep
<1> QED BY <1>1, <1>2, BehindCorrect, Invariant, PTL DEF Spec

\* No change announced by a bump is hidden from a client that revalidates with the
\* ETag, nor from one that sends both validators as long as its copy is ripe and no
\* 304 has raised its date.
THEOREM TagCorrect == Spec => []TagSound
<1>1. (\A c \in Client : Sound(c)) => TagSound
  BY DEF Sound, Told, TagSound
<1> QED BY <1>1, SoundCorrect, PTL

\* A ripe copy is never revalidated by its date once the catalog has changed, unless a
\* 304 by the tag has raised its date.
THEOREM DateCorrect == Spec => []DateSound
<1>1. IInv /\ (\A c \in Client : Sound(c)) => DateSound
  <2> SUFFICES ASSUME IInv, NEW c \in Client, Sound(c), "date" \in sends[c],
                      "tag" \in sends[c] => ~Raised(c),
                      copy[c].held, copy[c].ripe, updatedAt <= copy[c].date
               PROVE  copy[c].content = content
    BY DEF DateSound
  <2>1. copy[c].made \in Nat /\ copy[c].date \in Nat
    BY CatalogAssumption DEF IInv, TypeOK, Copy
  <2>2. copy[c].made = copy[c].date
    BY <2>1 DEF Sound, Dated, Raised
  <2> QED BY <2>2 DEF Sound, Full
<1> QED BY <1>1, Invariant, SoundCorrect, PTL
==============================================================================
