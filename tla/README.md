# Specifications of rss-discovery

TLA+ modules for the parts of rss-discovery (a Go server that keeps a catalogue
of feeds in DuckDB, refreshes them, and serves them over HTTP) in which several
goroutines, a database and remote servers have to agree. Each module is
translated from the Go source; TLC checks it on a small instance and TLAPS
proves its invariants for every value of the constants.

    tlc -config MCJobs.cfg MCJobs              # one of the runs below
    tlapm JobsProofs.tla                       # one of the proof modules

## 1. The system

`cmd/rss-discovery/main.go` (`runServe`) opens the store, starts the fetch pool,
the API and a purge timer, and at the end stops them in turn.

| Component | State | Operations | Talks to |
|---|---|---|---|
| **Jobs** `store/jobs.go`, `runJob` in `api/features.go` | tables `async_jobs`, `async_job_items`; one goroutine per accepted job | create, claim a batch, mark done / failed, count, complete, reclaim stale rows | `Pool.RefreshFeed` for each item |
| **HTTP client** `httpx/client.go` | per host: semaphore, token bucket, time of the last request | `Get`: slot, token, gap, request, one retry after a 429 | origin servers |
| **Feed refresh** `fetch/pool.go` `refreshFeed`, `store/feeds.go`, `store/purge.go` | tables `feeds`, `entries`; `meta` rows with ETag and Last-Modified | conditional GET, parse, `UpsertFeed`, `ReplaceEntries`, `RecordFetch`, bump, `SetMeta`; `Purge` | HTTP client, store, WebSub, webhooks |
| **Catalogue revision** `features_schema.go`, `conditionalGET` | `meta` row `catalog_rev`, `MAX(updated_at)`; `writeMu` of the store | write transactions, bump, the three reads of a conditional request | every writer of `feeds`; HTTP clients with a cache |
| **Flood guard** `api/flood.go` | a global atomic counter, one per address | count, compare, shed, serve | first of the middlewares |
| **Fetch pool** `fetch/pool.go` | two bounded channels, workers, a context | `Start`, `Stop`, `EnqueueFeed`, `EnqueueArticle` | refresh; API handlers enqueue |
| **WebSub** `websub/`, `store/websub.go`, `websubCallback` | table `websub_subs` | subscribe, verify, push, renew, unsubscribe | hubs; started by a refresh |
| **Webhooks** `webhook/`, `store/webhooks.go` | table `webhooks` (failure count, active) | match, deliver, record, deactivate | subscribers; started by a refresh |
| **Access** `store/tokens.go`, `store/oauth.go`, `auth/`, `api/middleware.go` | tokens, OAuth clients and tokens; maintenance flag; limiters | issue, look up, expire, revoke, limit | every request |
| **Retention** `store/purge.go`, `blob/store.go` | ages of rows, sizes of files | TTL, disk budget loop, checkpoint | store |
| **Blocklist** `security/blocklist.go` | an atomic pointer to the list | reload, merge, match | flood guard, dialer |
| Search, embeddings, parsers, OPML, extraction, SSRF checks, sandbox, configuration, metrics, CLI | none that changes over time | pure functions and I/O | |

What is hard here:

* *Nothing locks a feed or a job.* Workers, API handlers and bulk jobs refresh
  the same feed at the same time; a job reclaims the rows of another job's
  runner. The one lock of the store, `writeMu`, covers a single transaction.
* *Errors are dropped.* `refreshFeed` and `runJob` ignore the errors of most of
  their writes and go on with the next one.
* *Crashes.* Tables survive, goroutines, queues and limiters do not, and nothing
  restarts a job.
* *Caches over several reads and writes.* The validators kept for an origin, and
  the ones handed to our own clients, summarise state that is read and written
  in other transactions.
* *Limits taken one after the other* (slot, token, gap; global counter, address
  counter), with a way out at each step, and a retry that takes them again.

PROJECT.json lists these as hazards, each at its line with the property that
would catch it.

## 2. Modules

| Module | What it is | State ↔ code |
|---|---|---|
| `JobLedger` | what `GET /v1/jobs/{id}` promises: items open with the job, each settles once and moves one counter by one, the job closes when none is left | abstract |
| `Jobs` | the two tables and the `runJob` goroutines | `status`, `doneCount`, `failedCount`, `owner`, `itemStatus` are columns; `stale` is "running and `updated_at` older than 15 minutes"; `pc`, `batch`, `cur` are the goroutine's program counter and locals |
| `HostGate` | `Client.Get` for one host | `outer`/`inner` are the slots held by the first and the nested `getOnce`; `tokens` the limiter; `since` the age of `hl.last`; `wait` a sleep |
| `FeedRefresh` | `refreshFeed` for one feed, several at once, with its origin and `Purge` | `entries`, `etag`, `lastmod` are persisted; `entries[e]` has the columns `title` (for all that the upsert overwrites), `link` (`url`) and `date` (`published_at`); `age` is the order of `fetched_at`; `pc`, `askTag`, `askMod`, `got` locals; `version`, `docs` the origin (external); `purged`, `trimmed`, `lost`, `newest`, `overtaken` record what happened |
| `Catalog` | writers of the catalogue, and clients that revalidate their copies | `content` counts changes to `feeds`; `holder` is `writeMu`; `stamp` is DuckDB's `now()`, the start of the transaction; `seenRev`, `seenAt` the locals of `conditionalGET`; `sends` says which of the two headers a client sends back: either, both or neither |
| `FloodGuard` | `mwFlood` | `inFlight`, `ipConns` the atomics; `cur`, `n` what `Add` returned |
| `Pool` | `Start`, `Stop`, the feed queue, the workers, handlers that enqueue or refresh, and the end of `runServe` | `feedQ` is the channel; `main` the main goroutine; `wpc` the workers and `wg` their wait group; `rpc`, `feed` the handlers; `asked` records what must still be refreshed |
| `Subscriptions` | the WebSub row of one feed, `maybeSubscribeWebSub` and its goroutine, `websubCallback`, `unsubscribeWebSub`, and the hub | `row` is the row of `websub_subs`; `mine` the secret of the row a refresh writes; `seen` the row a callback has read; `hub`, `asked`, `leaving` are the hub (external) |
| `Deliveries` | webhooks, `NotifyFeedUpdated`, the goroutines of `deliver`, `RecordWebhookDelivery` | `state`, `fails` are columns of `webhooks`; `failing`, `tripped` summarise `webhook_deliveries`; `matched` is what a notifier has read; `sending`, `good`, `bad` count the goroutines of a hook by where they are; `up` is the subscriber (external) |
| `Access` | requests on their way through `mwIPRateLimit`, `mwAuth`, `mwMaintenance`, `mwTokenRateLimit` and the handlers that issue and revoke | `token`, `client`, `grant`, `owner` are rows of `api_tokens`, `oauth_clients`, `oauth_tokens`; `limiter` is the `sync.Map`, a limiter being named by the request that made it, `left` and `size` its bucket; `pc` is the middleware a request is in, `who` its credential, `level` what `mwAuth` put into the context |
| `Breaker` | what a webhook promises: Limit failures in a row switch it off, nothing else does, and it stays off | abstract, implemented by `Deliveries` |
| `Admission` | what the settings of the flood guard promise: a gate that decides in one step on who is inside and who is handled, without counters | abstract, implemented by `FloodGuard` |
| `MC*` | instances for TLC | |
| `*Proofs` | theorems and proofs; `NotificationProofs` is about `Subscriptions` and `Deliveries`, for which `Deliveries` calls its formulas `HookInit`, `HookNext`, `HookSpec` | |

An action is a step between two points where other goroutines can act: one
transaction, one atomic operation, one wait, one answer from the network. Where
a function calls the store five times, the model has five actions and other
processes run in between. A name that the code has is the name of the
definition (`ClaimPendingItems`, `ReplaceEntries`, `BumpCatalogRev`).

Operators named `X_Something` (for example `Reclaim_AnyStatus`) are deliberately
wrong variants of `X`. No specification uses them; putting one in the place of
`X` must break the property they are listed with in PROJECT.json. They show that
the property depends on that guard, update or order.

Abstractions worth knowing:

* *Jobs.* Whether a fetch succeeds is a free choice; a fetch takes finite time.
  `RefreshFeed` also reports success for a 404, so "done" in the tables means
  "answered".
* *HostGate.* Hosts share no state, so one host stands for all. A tick is a
  fraction of the gap. A host lock is only ever held for a moment and is not a
  step.
* *FeedRefresh.* An entry of a document is a body (title, summary and link, by
  the document that last changed them) and a date, which may be missing, equal
  that of others, or move in an edit. A row has these apart, because the upsert
  of `ReplaceEntries` treats them apart: the title is overwritten, the link is
  kept from the insertion, and a missing date leaves the old one (as a missing
  image or `updated_at` does). The trim orders by date with missing ones last,
  then by `fetched_at`, and takes any of those that are equal. The origin follows
  HTTP (304 exactly when its current document is the named one), may send either
  validator, both or neither, and publishes any document that fits its window. An
  id that a document has twice, and the error of reading a validator, which is
  taken for "none", are left out. `UpsertFeed`, `RecordFetch` and the bump touch neither
  entries nor validators and are in `Catalog` instead. Deleting by the disk
  budget takes some of the oldest fetched entries; which is left open.
* *Catalog.* Rows are abstracted to the number of changes committed. A client's
  copy records what it was made of, and whether any transaction that could
  still be stamped with the same second was open. Every response, a 304 too,
  hands out both validators; a copy's `date` is the last one handed out, `made`
  the one its listing came with.
* *Pool.* A refresh is one wait that ends. The article queue has no caller that
  fills it, so article workers only wait for the end. The goroutines that `Stop`
  does not wait for (`runJob`, deliveries, favicons, `purgeLoop`) and the seeding
  before the pool exists are left out.
* *Subscriptions.* One feed that always names the same hub. A secret is a value;
  a new one is one that nobody has. A lease is none, more than an hour, or less.
  A push changes no row: it is accepted exactly when the row's secret is the
  hub's, which is what `Agreed` says. A hub whose callback is answered with an
  error (the row cannot be read; there is no challenge, which a denial need not
  have) drops the request.
* *Deliveries.* Goroutines of one hook have no identity and are counted. Every
  hook hears of every refresh: the choice by feed and event reads columns that
  never change. A post has one of two outcomes, 2xx or anything else.
* *Access.* A level is admin or not; a request without a token reads the public
  catalogue. The buckets of all tokens have one size. A row is `dead` once it is
  revoked or expired. Each step of the middlewares that reads shared state is
  one action; `TouchToken` and the access log write what nobody decides by. The
  public paths that no limiter or only the address limiter guards are left out,
  but for `POST /oauth/token`. Whether that one meets the limiter depends on where
  the client puts its secret: Basic authentication looks like a token to
  `mwIPRateLimit`. Restarting `serve` reads the flag from the
  configuration again.
* *FloodGuard.* What is behind the middleware is one waiting state, which ends.

## 3. Runs

| Run | Checks | Instance | What it shows |
|---|---|---|---|
| `jobs` | `TypeOK` `CountersMatch` `DoneMeansSettled` `ExclusiveWork` `LedgerSpec` `RunnerEnds` `JobSettles` | 2 jobs, 3 items, batches of 2, 1 failed call, 1 crash | the counters count the rows, a closed job is finished, no item is in two hands; `Jobs` implements `JobLedger`; a runner ends although its rows may be reclaimed and claimed again, and a job gets done unless a store call failed or its runner died |
| `hostgate_exits` | `TypeOK` `SlotsRespected` `ReturnsUnlessJammed` `CancelReturns` | 2 cancellable callers, 2 slots | no exit leaves a slot behind; every call returns unless the retries of finding 1 jam the host; cancelling gets a caller out of every wait, of that jam too, which `Pool.Stop` relies on |
| `hostgate_retry429` | `GetReturns`, violated | 2 callers, 2 slots | finding 1 |
| `hostgate_gap` | `GapRespected`, violated | 2 callers, 2 slots | finding 2 |
| `feedrefresh` | `TypeOK` `NoEntryHidden` `NoEditHidden` `OnlyPublished` | 2 refreshes at a time, 3 entries, dated or not, 2 documents, window 2, cap 2, 1 failed write or crash, purges | of the document that the stored validators name, nothing is missing but what Purge, the trim or the upsert are known to drop, as listed below; rows hold only columns that were published |
| `catalog_each` | `TypeOK` `TagSound` `Announced` `DateSound` | 2 writers, a client of any kind (`If-None-Match`, `If-Modified-Since`, both, neither), 4 changes, 3 revisions, seconds 0 to 2, 1 fault | a 304 hides nothing that was announced, from clients with both headers only under the conditions below; every change is announced, on its way to be, or known to be left behind |
| `flood_bounds` | `TypeOK` `CountersExact` `CapacityBounded` `AddressBounded` | 3 anonymous requests, 1 with a token, 1 health check, 2 addresses, limits 3 / 2 and 2 / 1 | counters exact over all exits; what is admitted stays within both limits |
| `flood_reserve` | `ReserveKept`, violated | the same | finding 3 |
| `pool_lifecycle` | `TypeOK` `GoneBeforeClose` `AskedHeld` `AskedBegins` `Stops` | 2 feed workers, 1 article worker, 2 requests, 2 feeds, queue of 2 | a refresh that was asked for stays in the queue or in a hand until it begins, and does begin; a signal ends the process, and the store is closed after the last worker |
| `subscriptions` | `TypeOK` `PendingAskedAgain` `SettledStays` `Heals` | 2 refreshes at a time, 1 callback, 1 unsubscription, 2 secrets, 1 failure of any call | a pending row is always asked for again; one secret, once agreed on, stays; row and hub agree again after any crossing of secrets, a deletion and a failure |
| `deliveries` | `HookTypeOK` `RowMatchesLog` `OffIsSilent` `DownIsLeftAlone` | 1 hook, 2 refreshes, 3 failures in a row, at most 4 deliveries at a time, 1 refused record, 1 crash | count and switch of a row agree with the log in whatever order outcomes arrive; a hook that is off or deleted falls silent; one that stays down is left alone in the end although outcomes are lost |
| `access` | `TypeOK` `RevokedNotServed` `MaintenanceHolds` `BurstBound` | 3 requests, 2 tokens (one of an administrator, one that expires), 1 client, 1 access token, 1 address, bursts 2 / 1 / 1, 1 restart | whoever comes after the revocation of his credential is not served, also with an access token stored after its client was revoked; maintenance lets through administrators and exchanges only; racing first requests cost one burst each and no more |

### Why the bounds are enough

* Two jobs suffice for one to reclaim from the other, three items with batches
  of two for a second claim that meets reclaimed rows; one crash between any two
  steps leaves every mixture of rows, and one failed call is possible at each.
  `Jobs` may stop when every id is used, hence no deadlock check.
* `HostGate` needs as many callers as slots for finding 1; a burst of two and a
  gap of two make each of the three waits happen. That fewer callers than slots
  exclude the jam is the theorem `EnoughSlots`. Deadlock is checked in
  `hostgate_exits`: a cancelled caller can always leave.
* In `FeedRefresh` two refreshes can overtake each other, and the second
  document can replace up to two entries of the first by the third one, edit
  them, date them or take their dates, so that the merged table exceeds the cap
  of two and each rule of the trim decides: a date against none, two equal dates,
  none at all. Two entries, three dates and a cap of one were checked
  once, with the same results. The origin stops publishing at the bound, hence
  no deadlock check.
* In `Catalog` four changes allow one refresh (`UpsertFeed`, `ReplaceEntries`,
  `RecordFetch` are one change each) beside a handler that writes once, or two
  refreshes of which one is cut short; three seconds have a change in the same
  second, in the next, and one that raises a date that was already ripe. Clients
  share nothing, so one that may be of any kind stands for all.
* Five requests over the limits of `FloodGuard` are more than any of its
  limits, from each kind, and the two addresses meet different limits.
* In `Pool` a queue of two is filled by two requests while both workers are
  busy, so that the third kind of answer, refreshing in the handler, happens.
  The process ends, hence no deadlock check.
* In `Subscriptions` two refreshes can find no row and make two secrets, the
  callback can read the row before and write it after either of them, and the
  single failure is tried at every call (with the write that follows a failed
  subscription, which may fail as well); nothing counts failures, so further
  ones repeat the first.

* In `Deliveries` hooks share nothing but the notifier, so one hook stands for
  all (two were checked once, with smaller limits). Four deliveries at a time
  are one more than the failures that switch the hook off, so that one is still
  under way then, and one that succeeded can be recorded among them. All hooks
  may be off or deleted, hence no deadlock check.
* In `Access` three requests are one that exchanges, one that revokes between
  the two accesses of the exchange, and one that uses what was stored, or two
  that race for a limiter and one that comes later. The public bucket is larger
  than that of an exchange, so that a limiter made by one kind meets the other.
  Requests are interchangeable (symmetry) and made once, hence no deadlock check.

The proofs below have none of these bounds on processes, items, entries, slots
or requests; bounds on faults, crashes and counters remain as arbitrary numbers.

### Fairness

`Jobs`, `HostGate`, `Pool`, `Subscriptions` and `Deliveries` have liveness
properties.

* `Jobs`: weak fairness of each runner (`WF(RunJob(j) \/ StoreFails(j))`): the Go
  scheduler runs every runnable goroutine, every store call returns and every
  fetch has a timeout. Nothing is assumed about reclaims, ages or crashes.
* `HostGate`: weak fairness of time, of the refilling of tokens and of each
  caller's next step; strong fairness of getting a slot and a token, because
  Go's channels and `rate.Limiter` serve waiters in order. Weak fairness would
  let a caller be passed over for ever, which they do not allow.
* `Pool`: weak fairness of the main goroutine, of workers that take and refresh,
  and of handlers; strong fairness of a worker's leaving, because a `select` in
  which the end of the context and an item are both ready draws at random, and a
  worker that draws again and again leaves with probability one.
* `Subscriptions`: weak fairness of refreshes and their goroutines, of handlers
  and of the clock; strong fairness of the hub's taking up each request that it
  has accepted and not dropped. Failures are not fair: they may or may not occur.

* `Deliveries`: weak fairness of starting the goroutines that were matched, of
  their posts (which have a timeout) and of the two kinds of records. Neither
  notifications nor anything about the subscriber is assumed.

### What the properties leave out on purpose

* `DoneMeansSettled` excuses jobs closed after a count that failed: `runJob`
  drops that error and takes zero for the answer.
* `JobSettles` excuses jobs whose runner died: nothing resumes them.
* `NoEntryHidden` and `NoEditHidden` excuse a document whose `ReplaceEntries`
  failed (its error is dropped and the validators are stored all the same) and
  entries that `Purge` took away (validators stay, so they do not come back
  until the feed changes).
* `NoEntryHidden` says of an entry that the trim took that `Keep` rows are dated
  no earlier. That says much of a dated entry and nothing of an undated one:
  with `Keep` dated rows in the store the newest entry, if it has no date, is
  inserted and trimmed in one transaction, and the validators stored after it
  hide it behind 304s (feeds.go:208-211). The model reaches that state.
* `NoEditHidden` is about titles and dates: an edit of the link is always
  dropped, and a date that is taken back stays (feeds.go:192-200). It also excuses
  the case that an older answer was stored after a newer one.
* `OnlyPublished` speaks of each column of a row: a row as a whole may be one
  that no document had, an old link beside a new title.
* `AskedHeld` and `AskedBegins` do not count the refreshes of `addFeed` and
  discovery as asked for: the code drops them when the queue is full.
  `AskedBegins` excuses a process that is being stopped.
* `SettledStays` excuses failures, such as a failed read that is taken for "no
  row", and deletions. `Heals` needs, now and then, a moment in which nobody is
  about to write a row read earlier (`Quiet`): without one, a stale callback and
  a stale refresh can write two secrets over each other for ever, as TLC shows
  when the premise is dropped. It is about feeds whose refreshes are answered
  with a document: on a 304 `refreshFeed` returns before it looks for a hub.
  An unsubscribed row may come back by a late callback or goroutine; no property
  excludes it, because the code does not.
* `ReturnsUnlessJammed` excuses hosts on which every slot is held by a caller
  that waits for its second one: that is finding 1.
* `RowMatchesLog` compares with the outcomes that were recorded: one whose
  record the database refused is in neither. `OffIsSilent` allows what was under
  way to be delivered: a hook switched off or deleted is still called by
  goroutines started before.
* `RevokedNotServed` is about requests that come after the revocation. One that
  is past its lookup is served, and a client revoked between the two accesses
  of its exchange gets an access token, which no lookup accepts.
* `BurstBound` counts by the size of the limiter. Reads and `POST /oauth/token`
  of one address share a key (middleware.go:202), and the limiter keeps the size
  and rate of the request that made it: after an exchange an address reads at
  30 per minute, and the other way round.
* For clients that send both headers, `TagSound` and `DateSound` ask for a copy
  made after the second of its date whose date no 304 by the tag has raised
  since. `conditionalGET` consults the date although the tag did not match
  (features.go:532): a change in the second of the copy is then answered 304 in
  spite of its announcement; and so is one that was already dated, but not yet
  announced, when a 304 by the tag handed out its date. TLC shows both when the
  conditions are dropped.
* `Announced` excuses changes by handlers that never bump the revision, by
  failed bumps and by crashes; they are announced with the next bump.

## 4. Findings

1. **A retry after a 429 can deadlock a host** (`hostgate_retry429`).
   `getOnce` calls itself while its own slot is still held (client.go:277). With
   `concurrency_per_host` callers retrying, none gets its second slot, and those
   of `runJob`, whose context is never cancelled, hold theirs for ever.
2. **The minimum gap is not a minimum** (`hostgate_gap`). It is measured before
   the sleep and not afterwards (client.go:257); with two slots, the default,
   two requests leave together.
3. **The reserve is not kept for token clients** (`flood_reserve`). Anonymous
   requests about to be shed are in the counter that token requests are
   compared with (flood.go:102), so a burst of them sheds token requests while
   the reserve is unused.

Read in the code, with no statement in the repository that it contradicts:

* The loop over the disk budget in `Purge` (purge.go:116) breaks off when entries
  and full texts deleted *by the whole purge* add up to zero. Once anything was
  deleted and nothing is left, a file that stays over the budget keeps it going
  for ever. Not modelled.
* The link of an entry is never updated (feeds.go:192-200), though its title,
  summary and content hash, which is a hash over the link too, are.
* An entry without any date is the first to be trimmed, however new it is
  (feeds.go:210), and stays away until the feed changes.
* A client that returns both validators can be told 304 although the revision
  has moved (features.go:532), where RFC 9110 has `If-Modified-Since` ignored.
* A denial without a challenge is answered 400 and not recorded
  (features.go:360), although a denial need not have one.

## 5. Theorems

All are proved by TLAPS for arbitrary constants, from the assumption named in
each module (finite sets of ids, bounds that are numbers); the theorems
that need more say so: `EnoughSlots` (fewer callers than slots), `OneSlotGap`
(one slot), `OneAtATime` (one refresher), `ReserveIfAllFit` (all requests fit).

| Module | Theorems | Inductive invariant, and why it is needed |
|---|---|---|
| `JobsProofs` | `TypeCorrect` `CountersCorrect` `DoneCorrect` `WorkExclusive` `OutcomesCorrect` `Implements` `ProgressCorrect` `RowsCorrect` `OrphansCorrect` | A runner's batch holds only unsettled rows of its own job, although they may be reclaimed meanwhile (`BatchesUnsettled`), the item about to be marked is in it (`CurInBatch`), only running rows are stale, and a job that was counted as finished stays so until it is closed (`ClosingSettled`). Without these a mark could settle a row twice. `Implements` maps each step to a ledger step or a stutter. `ProgressCorrect` adds that a job's rows split into done, failed and unsettled (`ThreeParts`); `OrphansCorrect` that a row in a runner's hands belongs to the runner's job, so nobody moves the counters of another |
| `HostGateProofs` | `TypeCorrect` `SlotsCorrect` `EnoughSlots` `OneSlotGap` `JamsAreRetries` `JamIsForEver` `JamStarvesAll` | `Holds`: which slots a caller has is determined by where it is and whether it retries. Then the two sets together stay within the slots, fewer callers than slots leave one free, and a single slot excludes a second sleeper. The same invariant gives the shape of a jam: whoever holds two slots is past the wait, so if all slots are held by waiting callers, each is the first slot of one that retries. From that shape no step acquires, and whoever could give a slot back is waiting for one (`StarvedMoves`) |
| `FeedRefreshProofs` | `TypeCorrect` `EntriesCorrect` `EditsCorrect` `PublishedCorrect` `AdvanceCorrect` `OneAtATime` | Nobody knows of unpublished documents (`Known`), an entry's body never goes back (`Monotone`), whatever the validators name or are about to name was stored, and what of it is missing was purged or trimmed (`Applied`); unless overtaken, the rows agree with the newest document applied, and what of it was trimmed stood behind `Keep` rows, those purged since included (`Exact`); every column comes from a document no newer than that one (`Rows`); what was purged is gone (`Absent`). Lemmas say what the merge makes of a row (`MergeKeeps`) and whom the trim may take (`TrimKeeps`) |
| `CatalogProofs` | `TypeCorrect` `TagCorrect` `AnnouncedCorrect` `DateCorrect` `CopiesCorrect` | Rows are stamped in the order of their commits (`Clock`), requests and copies carry no revision newer than the store's (`Older`), no change to come will be dated like a ripe copy (`Ripe`). For `CopiesCorrect`, a copy is behind the store in each respect, and behind what its request has read so far (`Behind`). `TagCorrect` and `DateCorrect` are about clients of any kind: of each, what a copy's date and a request's reads say about the copy depends on which headers it sends (`Sound`) |
| `FloodGuardProofs` | `TypeCorrect` `CountersCorrect` `CapacityCorrect` `AddressCorrect` `GateCorrect` `ReserveIfAllFit` | `Ranks`: of the requests inside at most k got a number up to k, because a request's number is at least the number of those inside and the set only shrinks until the next addition; what was admitted compared well (`Compared`), so at most the limit of them are inside. `GateCorrect` maps the comparisons to the steps of `Admission`, and the additions and departures of what is shed to stutters |
| `PoolProofs` | `TypeCorrect` `GoneCorrect` `AskedCorrect` `AbandonedCorrect` | `Counted`: the wait group counts the workers that are not gone, so that the main goroutine passes `Wait` only after the last. That a refresh asked for is held is inductive together with what each handler has in hand (`InHand`). After `Wait` nobody is left to receive from the queue, but handlers may still send |
| `NotificationProofs`, about `Subscriptions` | `TypeCorrect` `PendingCorrect` `SettledCorrect` | A call under way holds a secret or a row of its own (`InHand`), so what it writes back has one; a pending row has no lease (`PendingBare`), because the only write that makes a row pending writes none and ageing needs one |
| `NotificationProofs`, about `Deliveries` | `HookTypeCorrect` `RowCorrect` `OffCorrect` `HookImplements` | `HookFine`: nothing has happened to a hook that does not exist; one that is on has not reached the limit; one that is off counts, together with what is still under way for it, no more than was under way when it was switched off. The second is why a count that reaches the limit switches the hook in that very record and why the log has no earlier run of that length; the third is what bounds the count of a hook that keeps counting while it is off |
| `AccessProofs` | `TypeCorrect` `RevokedCorrect` `MaintenanceCorrect` `BurstCorrect` `AdminsCorrect` `VoidCorrect` | Where a request can be with which credential (`Credentials`); one that came too late is before the lookup of a credential that stays void (`Late`); one that came in maintenance is before that check or exempt (`Closed`); a request makes at most one limiter, and only if it missed before the first was stored, and the bucket's account balances (`Limiters`). `AdminsCorrect` needs `Levels`: the level in a request's context is that of the credential it holds, and an administrative path was let through by it; rows never change hands |

Each proof module shows that the initial states satisfy the invariant and that
every action preserves it, one step per action; the named theorems follow with
`PTL`. A refinement adds one step per action that it is a step of the abstract
module or a stutter.

### What the theorems add to the runs

Every invariant and every action property of a passing run is a theorem. These
formulas are stated in the modules and proved for every instance, or under the
hypothesis named, and no passing run lists them. TLC was asked first: those
without a hypothesis hold on the instances of section 3 and can be checked again
by adding them to the `.cfg` of their component.

* *Jobs.* `ProgressAddsUp`: the three numbers a client sees add up at every
  moment. `RowsFixed`: no row is added to, lost from or moved between jobs.
  `OrphansStay`: a job that lost its runner keeps its numbers for ever, although
  another job's runner may put its rows back. `OutcomesFinal`, which `LedgerSpec`
  implies.
* *HostGate.* Finding 1 from the other side: `JamShape`, the retry is the only
  way into a jam; `JamLasts`, a jam of callers without a deadline is never
  undone; `JamStarves`, it takes every other caller without a deadline that waits
  for this host with it. These are safety properties, so no fairness of any kind
  helps. `NoRetryDeadlock` with fewer callers than slots, and
  `GapRespected` with one slot, say what would repair findings 1 and 2.
* *FeedRefresh.* `RowsAdvance`: a row keeps its link and does not lose its date,
  and only overtaking brings an older title back.
  `NeverOvertaken` with one refresh at a time: a lock per feed would do.
* *Catalog.* `CopiesAdvance`: neither the dates of the table nor any client's
  copy or validators go back.
* *FloodGuard.* `GateSpec`: several additions and comparisons, none of which is
  atomic with another, look like one atomic gate. `ReserveKept` if all requests
  together fit, those to be shed included, which is the hypothesis that the
  settings do not give (finding 3).
* *Pool.* `QueueAbandoned`: after `Wait` no worker moves, and whatever is in the
  queue or still comes into it goes with the process.
* *Deliveries.* `StaysOff` and `BreakerSpec`: the row, which is all the code
  looks at, and the log of deliveries behave as one breaker although deliveries
  overlap.
* *Access.* `AdminsOnly`: behind the level check of `/v1/admin/` there are
  credentials of administrators only. `VoidStays`: no handler, no crossing of an
  exchange with a revocation and no restart revives a credential.

Only model-checked: the liveness properties (`RunnerEnds`, `JobSettles`,
`ReturnsUnlessJammed`, `CancelReturns`, `AskedBegins`, `Stops`, `Heals`,
`OffIsSilent`, `DownIsLeftAlone`), which need fairness and `ENABLED`, outside the
reach of the proof system. The runs that expect a violation show counterexamples
and have no theorem, but for the hypotheses named above under which the same
formulas hold.

## 6. Not modelled, and the plan

PROJECT.json lists every component with its status.

* Parsers, search, embeddings, extraction, OPML, configuration, metrics, the CLI
  and the stateless request checks have no behaviour over time.
* The IP blocklist is replaced as a whole behind an atomic pointer; latency
  samples for feed health are appended and averaged. Neither has to agree with
  other state.
* `internal/api/docs/scalar-1.68.0.js` is a vendored, minified viewer of the API
  description. It runs in the reader's browser, is third-party code and takes
  part in nothing that the server does, so no module is about it: everything
  above is about the Go code of the server.

What is left:

1. `Retention`: the loop over the disk budget and its end, checkpoints, full
   texts, blobs.
2. A composition of `Pool` and `FeedRefresh`: the stale write-back of
   `UpsertFeed`, and the goroutines that outlive `Stop`.
