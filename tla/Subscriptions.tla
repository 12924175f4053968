---------------------------- MODULE Subscriptions ----------------------------
(***************************************************************************)
(* The WebSub subscription of one feed: a row of websub_subs, written by   *)
(* refreshes that find a hub in the feed, by the goroutine each of them    *)
(* starts to ask the hub, by the hub's verification requests, and deleted  *)
(* by the API.  Each of them reads the row, waits for the network or the   *)
(* scheduler, and writes the whole row back; nothing is locked in between. *)
(*                                                                         *)
(* What has to come true is that the secret with which the hub signs is    *)
(* the one in the row, or every push is refused.  The hub is external: it  *)
(* verifies requests in any order, may decline, lose an answer, or forget. *)
(***************************************************************************)
EXTENDS Naturals

CONSTANTS
  Refresher,     \* refreshes answered with a document, with the goroutine they start
  Callback,      \* verification requests of the hub under way
  Unsubscriber,  \* unsubscribe requests of the API under way
  Secret,        \* secrets; a new one is one that is not in use
  NoSecret,
  MaxUnsub,      \* bound: unsubscribe requests
  MaxFaults      \* bound: failures of the database, the network and the hub

ASSUME SubscriptionsAssumption ==
  /\ NoSecret \notin Secret
  /\ MaxUnsub \in Nat
  /\ MaxFaults \in Nat

\* A row: status, secret, and whether expires_at is NULL, more than an hour ahead,
\* or less (or past).
Row == [status : {"pending", "active", "denied", "expired"},
        secret : Secret,
        lease : {"none", "long", "short"}]

NoRow == [status |-> "absent", secret |-> NoSecret, lease |-> "none"]

VARIABLES
  row,      \* the row of the feed
  rpc,      \* where a refresh, or its goroutine, is
  mine,     \* the secret of the row it writes
  cpc,      \* where a verification request is
  kind,     \* its hub.mode
  seen,     \* the row it has read
  for,      \* the secret of the request that the hub is verifying
  upc,      \* where an unsubscribe request is
  hub,      \* the secret that the hub signs with, NoSecret if not subscribed
  asked,    \* secrets of requests the hub has accepted and not yet verified
  leaving,  \* the hub has accepted a request to unsubscribe
  unsubs,   \* unsubscribe requests so far
  faults    \* failures so far

refreshes == <<rpc, mine>>
callbacks == <<cpc, kind, seen, for>>
theHub == <<hub, asked, leaving>>
vars == <<row, refreshes, callbacks, upc, theHub, unsubs, faults>>

Init ==
  /\ row = NoRow
  /\ rpc = [r \in Refresher |-> "idle"]
  /\ mine = [r \in Refresher |-> NoSecret]
  /\ cpc = [k \in Callback |-> "idle"]
  /\ kind = [k \in Callback |-> "none"]
  /\ seen = [k \in Callback |-> NoRow]
  /\ for = [k \in Callback |-> NoSecret]
  /\ upc = [u \in Unsubscriber |-> "idle"]
  /\ hub = NoSecret
  /\ asked = {}
  /\ leaving = FALSE
  /\ unsubs = 0
  /\ faults = 0

Fault == faults < MaxFaults /\ faults' = faults + 1

\* Secrets that are in the table, in a running call or at the hub: a random one is
\* none of them.
InUse ==
  ({row.secret, hub} \cup asked \cup {mine[r] : r \in Refresher}
     \cup {seen[k].secret : k \in Callback} \cup {for[k] : k \in Callback}) \ {NoSecret}

------------------------------------------------------------------------------
(* maybeSubscribeWebSub *)

Goto(r, from, to) == rpc[r] = from /\ rpc' = [rpc EXCEPT ![r] = to]

\* Back to the pool: nothing is kept.
Return(r, from) == Goto(r, from, "idle") /\ mine' = [mine EXCEPT ![r] = NoSecret]

\* Mutant: an active subscription, or one asked for, is never asked for again.
NeedSubscribe_NoLease == row.status \notin {"active", "pending"}

\* Whether the row that was found calls for a subscription: not if it is waiting
\* for the hub or active, and holds for an hour.
NeedSubscribe == ~(row.status \in {"active", "pending"} /\ row.lease = "long")

\* A refresh has found a hub and calls for a subscription with one of the secrets.
Need(r, secrets) ==
  /\ Goto(r, "idle", "upsert")
  /\ \E s \in secrets : mine' = [mine EXCEPT ![r] = s]
  /\ UNCHANGED <<row, callbacks, upc, theHub, unsubs>>

\* Mutant: the existing secret is not used again.
GetWebSubByFeed_NewSecret(r) ==
  NeedSubscribe /\ Need(r, Secret \ InUse) /\ UNCHANGED faults

\* Mutant: no secret is made for the first row.
GetWebSubByFeed_None(r) ==
  NeedSubscribe /\ Need(r, {row.secret}) /\ UNCHANGED faults

\* The secret of the row is used again; with no row, there is a new one.
GetWebSubByFeed(r) ==
  /\ NeedSubscribe
  /\ Need(r, IF row = NoRow THEN Secret \ InUse ELSE {row.secret})
  /\ UNCHANGED faults

\* The error of the read is ignored: it is as if there were no row.
ReadFails(r) == Fault /\ Need(r, Secret \ InUse)

\* Mutant: the lease of the row is kept.
UpsertWebSub_Lease(r) ==
  /\ Goto(r, "upsert", "post")
  /\ row' = [status |-> "pending", secret |-> mine[r], lease |-> row.lease]
  /\ UNCHANGED <<mine, callbacks, upc, theHub, unsubs, faults>>

\* The row is written whole, without expires_at.
UpsertWebSub(r) ==
  /\ Goto(r, "upsert", "post")
  /\ row' = [status |-> "pending", secret |-> mine[r], lease |-> "none"]
  /\ UNCHANGED <<mine, callbacks, upc, theHub, unsubs, faults>>

UpsertFails(r) ==
  /\ Fault
  /\ Return(r, "upsert")
  /\ UNCHANGED <<row, callbacks, upc, theHub, unsubs>>

\* The goroutine: the hub accepts the request.
Subscribe(r) ==
  /\ Return(r, "post")
  /\ asked' = asked \cup {mine[r]}
  /\ UNCHANGED <<row, callbacks, upc, hub, leaving, unsubs, faults>>

\* Subscribe returns an error, although the hub may have accepted.
SubscribeFails(r) ==
  /\ Fault
  /\ Goto(r, "post", "deny")
  /\ asked' \in {asked, asked \cup {mine[r]}}
  /\ UNCHANGED <<row, mine, callbacks, upc, hub, leaving, unsubs>>

\* The goroutine writes the row that it started with, as denied.
Deny(r) ==
  /\ row' = [status |-> "denied", secret |-> mine[r], lease |-> "none"]
  /\ Return(r, "deny")
  /\ UNCHANGED <<callbacks, upc, theHub, unsubs, faults>>

\* This write may fail too, after the counted failure that led to it.
DenyFails(r) ==
  /\ Return(r, "deny")
  /\ UNCHANGED <<row, callbacks, upc, theHub, unsubs, faults>>

------------------------------------------------------------------------------
(* websubCallback *)

\* The hub takes up a request it has accepted, in any order.  To a topic that is
\* not in the table the answer is 404, and the hub drops the request.
GetWebSubByTopic(k, mode, s) ==
  /\ cpc[k] = "idle"
  /\ IF mode = "unsubscribe"
       THEN leaving /\ leaving' = FALSE /\ s = NoSecret /\ UNCHANGED asked
       ELSE s \in asked /\ asked' = asked \ {s} /\ UNCHANGED leaving
  /\ IF mode = "denied" THEN Fault ELSE UNCHANGED faults
  /\ IF row = NoRow
       THEN UNCHANGED callbacks
       ELSE /\ cpc' = [cpc EXCEPT ![k] = "write"]
            /\ kind' = [kind EXCEPT ![k] = mode]
            /\ seen' = [seen EXCEPT ![k] = row]
            /\ for' = [for EXCEPT ![k] = s]
  /\ UNCHANGED <<row, refreshes, upc, hub, unsubs>>

\* The answer is an error, and the hub drops the request: the row cannot be read, or
\* there is no challenge (a denial need not have one, and leaves the row as it is).
CallbackFails ==
  /\ Fault
  /\ \/ \E s \in asked : asked' = asked \ {s} /\ UNCHANGED leaving
     \/ leaving /\ leaving' = FALSE /\ UNCHANGED asked
  /\ UNCHANGED <<row, refreshes, callbacks, upc, hub, unsubs>>

\* The row that was read, with a new status, and on "subscribe" with the lease that
\* the hub named, if it named one.
Changed(k) ==
  IF kind[k] = "subscribe"
    THEN {[seen[k] EXCEPT !.status = "active", !.lease = l] :
            l \in {"long", "short", seen[k].lease}}
    ELSE {[seen[k] EXCEPT
             !.status = IF kind[k] = "unsubscribe" THEN "expired" ELSE "denied"]}

\* The hub does what it has verified.
Verified(k) ==
  IF kind[k] = "subscribe" THEN for[k]
  ELSE IF kind[k] = "unsubscribe" THEN NoSecret ELSE hub

Finish(k) ==
  /\ cpc[k] = "write"
  /\ cpc' = [cpc EXCEPT ![k] = "idle"]
  /\ kind' = [kind EXCEPT ![k] = "none"]
  /\ seen' = [seen EXCEPT ![k] = NoRow]
  /\ for' = [for EXCEPT ![k] = NoSecret]
  /\ UNCHANGED <<refreshes, upc, asked, leaving, unsubs>>

\* The row is written back whole and the challenge echoed.
Confirm(k) ==
  Finish(k) /\ row' \in Changed(k) /\ hub' = Verified(k) /\ UNCHANGED faults

\* The answer does not reach the hub.
ConfirmLost(k) == Fault /\ Finish(k) /\ row' \in Changed(k) /\ UNCHANGED hub

\* The row is not written, and the challenge echoed all the same.
ConfirmUnsaved(k) == Fault /\ Finish(k) /\ hub' = Verified(k) /\ UNCHANGED row

------------------------------------------------------------------------------
(* unsubscribeWebSub *)

\* The row is read; if there is one the hub is asked to unsubscribe, which may
\* fail unnoticed.
UnsubscribeLook(u) ==
  /\ unsubs < MaxUnsub
  /\ unsubs' = unsubs + 1
  /\ upc[u] = "idle"
  /\ upc' = [upc EXCEPT ![u] = IF row = NoRow THEN "delete" ELSE "post"]
  /\ UNCHANGED <<row, refreshes, callbacks, theHub, faults>>

Unsubscribe(u) ==
  /\ upc[u] = "post"
  /\ upc' = [upc EXCEPT ![u] = "delete"]
  /\ leaving' \in {leaving, TRUE}
  /\ UNCHANGED <<row, refreshes, callbacks, hub, asked, unsubs, faults>>

DeleteWebSubByFeed(u) ==
  /\ upc[u] = "delete"
  /\ upc' = [upc EXCEPT ![u] = "idle"]
  /\ row' = NoRow
  /\ UNCHANGED <<refreshes, callbacks, theHub, unsubs, faults>>

\* The error is ignored: the client is told that it has unsubscribed.
DeleteFails(u) ==
  /\ Fault
  /\ upc[u] = "delete"
  /\ upc' = [upc EXCEPT ![u] = "idle"]
  /\ UNCHANGED <<row, refreshes, callbacks, theHub, unsubs>>

------------------------------------------------------------------------------
(* Time and the hub *)

\* The lease has less than an hour to go.
Age ==
  /\ row.lease = "long"
  /\ row' = [row EXCEPT !.lease = "short"]
  /\ UNCHANGED <<refreshes, callbacks, upc, theHub, unsubs, faults>>

\* The hub's lease ends, or the hub loses the subscription.
HubForgets ==
  /\ hub # NoSecret
  /\ Fault
  /\ hub' = NoSecret
  /\ UNCHANGED <<row, refreshes, callbacks, upc, asked, leaving, unsubs>>

------------------------------------------------------------------------------
Ask(r) == GetWebSubByFeed(r) \/ UpsertWebSub(r) \/ Subscribe(r) \/ Deny(r)

AskFails(r) == ReadFails(r) \/ UpsertFails(r) \/ SubscribeFails(r) \/ DenyFails(r)

Verify(k) ==
  \/ \E s \in asked : GetWebSubByTopic(k, "subscribe", s)
  \/ GetWebSubByTopic(k, "unsubscribe", NoSecret)

Next ==
  \/ \E r \in Refresher : Ask(r) \/ AskFails(r)
  \/ \E k \in Callback :
       \/ Verify(k)
       \/ \E s \in asked : GetWebSubByTopic(k, "denied", s)
       \/ Confirm(k)
       \/ ConfirmLost(k)
       \/ ConfirmUnsaved(k)
  \/ \E u \in Unsubscriber :
       UnsubscribeLook(u) \/ Unsubscribe(u) \/ DeleteWebSubByFeed(u) \/ DeleteFails(u)
  \/ CallbackFails
  \/ Age
  \/ HubForgets

\* Feeds are refreshed again and again, goroutines and handlers run on, the clock
\* moves, and the hub gets to each request it has accepted.
Fairness ==
  /\ WF_vars(Age)
  /\ \A r \in Refresher : WF_vars(Ask(r))
  /\ \A k \in Callback :
       /\ \A s \in Secret : SF_vars(GetWebSubByTopic(k, "subscribe", s))
       /\ SF_vars(GetWebSubByTopic(k, "unsubscribe", NoSecret))
       /\ WF_vars(Confirm(k))
  /\ \A u \in Unsubscriber : WF_vars(Unsubscribe(u) \/ DeleteWebSubByFeed(u))

Spec == Init /\ [][Next]_vars /\ Fairness

------------------------------------------------------------------------------
(* Properties *)

\* Every variable has its type: in particular there is a secret in every row.
TypeOK ==
  /\ row \in Row \cup {NoRow}
  /\ rpc \in [Refresher -> {"idle", "upsert", "post", "deny"}]
  /\ mine \in [Refresher -> Secret \cup {NoSecret}]
  /\ cpc \in [Callback -> {"idle", "write"}]
  /\ kind \in [Callback -> {"none", "subscribe", "unsubscribe", "denied"}]
  /\ seen \in [Callback -> Row \cup {NoRow}]
  /\ for \in [Callback -> Secret \cup {NoSecret}]
  /\ upc \in [Unsubscriber -> {"idle", "post", "delete"}]
  /\ hub \in Secret \cup {NoSecret}
  /\ asked \in SUBSET Secret
  /\ leaving \in BOOLEAN
  /\ unsubs \in 0..MaxUnsub
  /\ faults \in 0..MaxFaults

\* A row that waits for the hub never stops later refreshes from asking again,
\* although "pending" is among the statuses that can: no order of the writes leaves
\* a lease of an hour in it.  So a goroutine that died, or a hub that never
\* verifies, does not leave the feed without a subscription.
PendingAskedAgain == row.status = "pending" => NeedSubscribe

Settled == row # NoRow /\ \A s \in InUse : s = row.secret

\* Once the row, the running calls and the hub have one secret, they keep it: only
\* deleting the row, or a failure, can bring in another, however the refreshes, the
\* callbacks and the hub are interleaved.
SettledStays == [][Settled /\ row' # NoRow /\ UNCHANGED faults => Settled']_vars

Agreed == row.status = "active" /\ row.secret = hub

Quiet ==
  /\ \A r \in Refresher : rpc[r] = "idle"
  /\ \A k \in Callback : cpc[k] = "idle"
  /\ \A u \in Unsubscriber : upc[u] = "idle"

\* However the secrets of two first refreshes, a deletion and a few failures have
\* crossed, the row and the hub agree again and again: refreshes ask with the row's
\* secret until then, or from when the lease nears its end.  This takes a moment, now
\* and then, in which nobody is about to write a row read earlier: without one, two
\* secrets can keep replacing each other.
Heals == []<>Quiet => []<>Agreed
==============================================================================
