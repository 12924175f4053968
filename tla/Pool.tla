-------------------------------- MODULE Pool ---------------------------------
(***************************************************************************)
(* The life of the server process: runServe starts the fetch pool, serves  *)
(* requests that put feeds into the pool's queue or refresh them           *)
(* themselves, and on a signal stops the pool and closes the store.        *)
(*                                                                         *)
(* Workers hear of the signal at once, because the context of the pool is  *)
(* derived from that of the process; a worker that finds both the end of   *)
(* the context and an item in the queue takes either.  Nothing is assumed  *)
(* about srv.Shutdown, which gives up after ten seconds: requests may be   *)
(* under way, and new ones come in, until the process is gone.  What a     *)
(* refresh does is the subject of FeedRefresh and HostGate.                *)
(***************************************************************************)
EXTENDS Naturals, FiniteSets, Sequences

CONSTANTS
  Feed,       \* ids of feeds
  Fetcher,    \* feed workers, fetch_workers of them
  Extractor,  \* article workers, for whose queue nobody produces
  Request,    \* requests that may be under way at the same time
  NoFeed,     \* "no feed in hand"
  QueueSize   \* queue_size

Worker == Fetcher \cup Extractor

ASSUME PoolAssumption ==
  /\ IsFiniteSet(Worker)
  /\ NoFeed \notin Feed
  /\ QueueSize \in Nat

VARIABLES
  main,       \* where runServe is
  serving,    \* whether it serves, or runs -fetch or -purge once
  signalled,  \* SIGTERM or SIGINT came, or the server failed to start
  feedQ,      \* the queue of feeds
  wg,         \* the WaitGroup of the workers
  wpc,        \* where a worker is
  rpc,        \* where a request is
  feed,       \* the feed that a request is about
  asked       \* history: feeds asked to be refreshed and not begun to be since

workers == <<wg, wpc>>
requests == <<rpc, feed>>
vars == <<main, serving, signalled, feedQ, wg, wpc, rpc, feed, asked>>

Init ==
  /\ main = "boot"
  /\ serving \in BOOLEAN
  /\ signalled = FALSE
  /\ feedQ = <<>>
  /\ wg = 0
  /\ wpc = [w \in Worker |-> "off"]
  /\ rpc = [r \in Request |-> "idle"]
  /\ feed = [r \in Request |-> NoFeed]
  /\ asked = {}

------------------------------------------------------------------------------
(* runServe *)

MainGoto(from, to) == main = from /\ main' = to

Start ==
  /\ MainGoto("boot", "run")
  /\ wg' = Cardinality(Worker)
  /\ wpc' = [w \in Worker |-> "wait"]
  /\ UNCHANGED <<serving, signalled, feedQ, requests, asked>>

\* signal.NotifyContext, or the server's goroutine calling stop().
Signal ==
  /\ main # "exit"
  /\ signalled' = TRUE
  /\ UNCHANGED <<main, serving, feedQ, workers, requests, asked>>

\* The signal and srv.Shutdown, which may wait in vain; or -fetch and -purge come
\* to their end.  From here on the deferred calls run.
Return ==
  /\ serving => signalled
  /\ MainGoto("run", "stop")
  /\ UNCHANGED <<serving, signalled, feedQ, workers, requests, asked>>

\* pool.Stop: p.cancel()
Stop ==
  /\ MainGoto("stop", "wait")
  /\ UNCHANGED <<serving, signalled, feedQ, workers, requests, asked>>

\* Mutant: Stop does not wait.
Waited_Not ==
  /\ MainGoto("wait", "close")
  /\ UNCHANGED <<serving, signalled, feedQ, workers, requests, asked>>

\* pool.Stop: p.wg.Wait()
Waited ==
  /\ wg = 0
  /\ MainGoto("wait", "close")
  /\ UNCHANGED <<serving, signalled, feedQ, workers, requests, asked>>

\* Checkpoint and Close of the store.
CloseStore ==
  /\ MainGoto("close", "closed")
  /\ UNCHANGED <<serving, signalled, feedQ, workers, requests, asked>>

Exit ==
  /\ MainGoto("closed", "exit")
  /\ UNCHANGED <<serving, signalled, feedQ, workers, requests, asked>>

------------------------------------------------------------------------------
(* Workers *)

Goto(w, from, to) == main # "exit" /\ wpc[w] = from /\ wpc' = [wpc EXCEPT ![w] = to]

\* The context of the pool is done.
CtxDone == signalled \/ main \in {"wait", "close", "closed"}

\* case feedID := <-p.feedQ, also when the context is done.
Take(w) ==
  /\ feedQ # <<>>
  /\ Goto(w, "wait", "busy")
  /\ asked' = asked \ {Head(feedQ)}
  /\ feedQ' = Tail(feedQ)
  /\ UNCHANGED <<main, serving, signalled, wg, requests>>

\* Mutant: an error of refreshFeed ends the worker.
Refreshed_Quits(w) ==
  /\ \/ Goto(w, "busy", "wait") /\ UNCHANGED wg
     \/ Goto(w, "busy", "gone") /\ wg' = wg - 1
  /\ UNCHANGED <<main, serving, signalled, feedQ, requests, asked>>

\* refreshFeed returns, in whatever way.
Refreshed(w) ==
  /\ Goto(w, "busy", "wait")
  /\ UNCHANGED <<main, serving, signalled, feedQ, wg, requests, asked>>

\* Mutant: a worker empties the queue first.
Leave_Drained(w) ==
  /\ CtxDone
  /\ feedQ = <<>>
  /\ Goto(w, "wait", "gone")
  /\ wg' = wg - 1
  /\ UNCHANGED <<main, serving, signalled, feedQ, requests, asked>>

\* case <-ctx.Done()
Leave(w) ==
  /\ CtxDone
  /\ Goto(w, "wait", "gone")
  /\ wg' = wg - 1
  /\ UNCHANGED <<main, serving, signalled, feedQ, requests, asked>>

------------------------------------------------------------------------------
(* Requests *)

RequestGoto(r, from, to) ==
  /\ serving
  /\ main \notin {"boot", "exit"}
  /\ rpc[r] = from
  /\ rpc' = [rpc EXCEPT ![r] = to]

\* A request that calls for a refresh of feed f.  "refresh": POST
\* /v1/feeds/{id}/refresh.  "self": the same with a token of priority, and adding
\* or discovering a feed with refresh set.  "try": adding or discovering one
\* without, and a push by a hub.
Ask(r, f, kind) ==
  /\ RequestGoto(r, "idle", kind)
  /\ feed' = [feed EXCEPT ![r] = f]
  /\ asked' = IF kind = "try" THEN asked ELSE asked \cup {f}
  /\ UNCHANGED <<main, serving, signalled, feedQ, workers>>

Full == Len(feedQ) >= QueueSize

\* Put the feed in the queue; the request is answered.
Put(r) ==
  /\ \E from \in {"refresh", "try"} : RequestGoto(r, from, "idle")
  /\ feedQ' = Append(feedQ, feed[r])
  /\ feed' = [feed EXCEPT ![r] = NoFeed]
  /\ UNCHANGED <<main, serving, signalled, workers, asked>>

\* Mutant: one feed too many.
EnqueueFeed_Over(r) == Len(feedQ) <= QueueSize /\ Put(r)

\* EnqueueFeed returns true.
EnqueueFeed(r) == ~Full /\ Put(r)

\* The queue is full and nobody looks at what EnqueueFeed returned.
Dropped(r) ==
  /\ Full
  /\ RequestGoto(r, "try", "idle")
  /\ feed' = [feed EXCEPT ![r] = NoFeed]
  /\ UNCHANGED <<main, serving, signalled, feedQ, workers, asked>>

\* Mutant: a full queue is ignored by the refresh request, too.
RefreshFeed_Dropped(r) ==
  /\ \/ RequestGoto(r, "self", "sync") /\ asked' = asked \ {feed[r]} /\ UNCHANGED feed
     \/ /\ Full
        /\ RequestGoto(r, "refresh", "idle")
        /\ feed' = [feed EXCEPT ![r] = NoFeed]
        /\ UNCHANGED asked
  /\ UNCHANGED <<main, serving, signalled, feedQ, workers>>

\* The request refreshes the feed itself, if the queue is full or it would not
\* have queued it anyway.
RefreshFeed(r) ==
  /\ \/ RequestGoto(r, "self", "sync")
     \/ Full /\ RequestGoto(r, "refresh", "sync")
  /\ asked' = asked \ {feed[r]}
  /\ UNCHANGED <<main, serving, signalled, feedQ, workers, feed>>

\* Its refresh returns, with or without an error, or the client has gone.
Answer(r) ==
  /\ RequestGoto(r, "sync", "idle")
  /\ feed' = [feed EXCEPT ![r] = NoFeed]
  /\ UNCHANGED <<main, serving, signalled, feedQ, workers, asked>>

------------------------------------------------------------------------------
Main == Start \/ Return \/ Stop \/ Waited \/ CloseStore \/ Exit

Handle(r) == EnqueueFeed(r) \/ Dropped(r) \/ RefreshFeed(r) \/ Answer(r)

Next ==
  \/ Main
  \/ Signal
  \/ \E w \in Fetcher : Take(w) \/ Refreshed(w)
  \/ \E w \in Worker : Leave(w)
  \/ \E r \in Request :
       \/ \E f \in Feed, kind \in {"try", "refresh", "self"} : Ask(r, f, kind)
       \/ Handle(r)

\* Goroutines run and refreshes return, in particular when they are cancelled
\* (HostGate).  The select of a worker draws at random between the queue and the
\* end of the context, so it draws the end sooner or later.
Fairness ==
  /\ WF_vars(Main)
  /\ WF_vars(\E w \in Fetcher : Take(w))
  /\ \A w \in Fetcher : WF_vars(Refreshed(w))
  /\ \A w \in Worker : SF_vars(Leave(w))
  /\ \A r \in Request : WF_vars(Handle(r))

Spec == Init /\ [][Next]_vars /\ Fairness

------------------------------------------------------------------------------
(* Properties *)

\* Every variable has its type; the queue never holds more than its size.
TypeOK ==
  /\ main \in {"boot", "run", "stop", "wait", "close", "closed", "exit"}
  /\ serving \in BOOLEAN
  /\ signalled \in BOOLEAN
  /\ feedQ \in Seq(Feed) /\ Len(feedQ) <= QueueSize
  /\ wg \in Nat
  /\ wpc \in [Worker -> {"off", "wait", "busy", "gone"}]
  /\ rpc \in [Request -> {"idle", "try", "refresh", "self", "sync"}]
  /\ feed \in [Request -> Feed \cup {NoFeed}]
  /\ asked \in SUBSET Feed

\* When the store is closed every worker has gone: no refresh of a worker is
\* left half done, which rests on the order of the deferred calls and on the
\* count of the WaitGroup.
GoneBeforeClose ==
  main \in {"close", "closed", "exit"} => \A w \in Worker : wpc[w] = "gone"

\* Once Stop has waited, no worker begins or ends a refresh any more, so none runs
\* while the store is being checkpointed and closed, and what requests left or
\* still put in the queue stays there and goes with the process.
QueueAbandoned ==
  [][(main \in {"close", "closed", "exit"}) =>
       /\ wpc' = wpc
       /\ Len(feedQ') >= Len(feedQ)
       /\ \A k \in 1..Len(feedQ) : feedQ'[k] = feedQ[k]]_vars

\* A refresh that a request asked for is never forgotten: until one begins, the
\* feed is in the queue or in the hands of a handler, also when the queue is full
\* and when other requests ask for the same feed.
AskedHeld ==
  \A f \in asked :
    \/ \E k \in 1..Len(feedQ) : feedQ[k] = f
    \/ \E r \in Request : rpc[r] \in {"refresh", "self"} /\ feed[r] = f

\* So a refresh that was asked for begins, unless the process is being stopped.
AskedBegins == \A f \in Feed : f \in asked ~> f \notin asked \/ CtxDone \/ main = "exit"

\* The signal brings the process to its end, although requests may go on filling
\* the queue.
Stops == signalled ~> main = "exit"
==============================================================================
