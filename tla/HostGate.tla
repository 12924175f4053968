------------------------------ MODULE HostGate -------------------------------
(***************************************************************************)
(* httpx.Client.Get as the callers for one host see it: a semaphore of     *)
(* Slots, a token bucket, a minimum gap between requests, and one retry    *)
(* after a 429.  Hosts share nothing, so one host is modelled.             *)
(*                                                                         *)
(* The retry is a recursive call of getOnce, made while the first call     *)
(* still holds its slot: it needs a second slot of the same semaphore.     *)
(***************************************************************************)
EXTENDS Naturals, FiniteSets

CONSTANTS
  Caller,       \* goroutines that call Get: feed workers, API requests, runJob
  Cancellable,  \* those whose context may be cancelled (not runJob's)
  Slots,        \* concurrency_per_host
  Burst,        \* size of the token bucket
  Gap           \* min_host_gap_ms, in ticks of the clock

ASSUME HostGateAssumption ==
  /\ IsFiniteSet(Caller)
  /\ Cancellable \subseteq Caller
  /\ Slots \in Nat \ {0}
  /\ Burst \in Nat \ {0}
  /\ Gap \in Nat

VARIABLES
  pc,         \* pc[c]: what caller c waits for
  retrying,   \* callers inside the second getOnce
  outer,      \* callers holding the slot of the first getOnce
  inner,      \* callers holding the slot of the second
  tokens,     \* tokens in the bucket
  since,      \* ticks since hl.last, Gap standing for "Gap or more, or never"
  wait,       \* wait[c]: ticks left of a sleep
  cancelled   \* callers whose context is done

vars == <<pc, retrying, outer, inner, tokens, since, wait, cancelled>>

Used == Cardinality(outer) + Cardinality(inner)

Init ==
  /\ pc = [c \in Caller |-> "idle"]
  /\ retrying = {}
  /\ outer = {}
  /\ inner = {}
  /\ tokens = Burst
  /\ since = Gap
  /\ wait = [c \in Caller |-> 0]
  /\ cancelled = {}

Goto(c, from, to) == pc[c] = from /\ pc' = [pc EXCEPT ![c] = to]

\* getOnce returns through both frames: each deferred "<-sem" frees its slot.
Return(c) ==
  /\ pc' = [pc EXCEPT ![c] = "idle"]
  /\ outer' = outer \ {c}
  /\ inner' = inner \ {c}
  /\ retrying' = retrying \ {c}
  /\ wait' = [wait EXCEPT ![c] = 0]
  /\ cancelled' = cancelled \ {c}
  /\ UNCHANGED <<tokens, since>>

Get(c) ==
  /\ Goto(c, "idle", "slot")
  /\ UNCHANGED <<retrying, outer, inner, tokens, since, wait, cancelled>>

\* "sem <- struct{}{}": the channel is the count of slots in use.
AcquireSlot(c) ==
  /\ Used < Slots
  /\ Goto(c, "slot", "token")
  /\ \/ c \notin retrying /\ outer' = outer \cup {c} /\ UNCHANGED inner
     \/ c \in retrying /\ inner' = inner \cup {c} /\ UNCHANGED outer
  /\ UNCHANGED <<retrying, tokens, since, wait, cancelled>>

\* hl.lim.Wait
TakeToken(c) ==
  /\ tokens > 0
  /\ Goto(c, "token", "gap")
  /\ tokens' = tokens - 1
  /\ UNCHANGED <<retrying, outer, inner, since, wait, cancelled>>

\* Stamp hl.last and send.
Send(c) ==
  /\ pc' = [pc EXCEPT ![c] = "request"]
  /\ since' = 0
  /\ UNCHANGED <<retrying, outer, inner, tokens, wait, cancelled>>

\* Under hl.mu: either enough time has passed and the request goes out ...
GapOver(c) ==
  /\ pc[c] = "gap"
  /\ since = Gap
  /\ Send(c)

\* ... or the lock is given up for a sleep of what is missing.
GapSleep(c) ==
  /\ since < Gap
  /\ Goto(c, "gap", "sleep")
  /\ wait' = [wait EXCEPT ![c] = Gap - since]
  /\ UNCHANGED <<retrying, outer, inner, tokens, since, cancelled>>

\* After the sleep hl.last is not looked at again.
Wake(c) ==
  /\ pc[c] = "sleep"
  /\ wait[c] = 0
  /\ Send(c)

\* c.http.Do returned: a response, or an error (its timeout included).
Respond(c) ==
  /\ pc[c] = "request"
  /\ Return(c)

\* A 429 on the first try: sleep for Retry-After, which is at most 60 seconds,
\* and call getOnce again.  A 429 on the second try is a response like others.
TooManyRequests(c) ==
  /\ c \notin retrying
  /\ Goto(c, "request", "backoff")
  /\ UNCHANGED <<retrying, outer, inner, tokens, since, wait, cancelled>>

Retry(c) ==
  /\ Goto(c, "backoff", "slot")
  /\ retrying' = retrying \cup {c}
  /\ UNCHANGED <<outer, inner, tokens, since, wait, cancelled>>

\* Mutant: the release of the slot is not deferred.
GiveUp_Leak(c) ==
  /\ c \in cancelled
  /\ pc[c] \in {"slot", "token", "sleep", "backoff"}
  /\ pc' = [pc EXCEPT ![c] = "idle"]
  /\ retrying' = retrying \ {c}
  /\ wait' = [wait EXCEPT ![c] = 0]
  /\ cancelled' = cancelled \ {c}
  /\ UNCHANGED <<outer, inner, tokens, since>>

\* Mutant: the slot is waited for in a loop, and "break" on ctx.Done leaves the
\* select but not the loop.
GiveUp_Break(c) ==
  /\ c \in cancelled
  /\ \/ pc[c] \in {"token", "sleep", "backoff"} /\ Return(c)
     \/ pc[c] = "slot" /\ UNCHANGED vars

\* ctx.Done in any of the four selects, and in lim.Wait.
GiveUp(c) ==
  /\ c \in cancelled
  /\ pc[c] \in {"slot", "token", "sleep", "backoff"}
  /\ Return(c)

\* Pool.Stop, or the HTTP client of an API request going away.
Cancel(c) ==
  /\ c \in Cancellable \ cancelled
  /\ pc[c] # "idle"
  /\ cancelled' = cancelled \cup {c}
  /\ UNCHANGED <<pc, retrying, outer, inner, tokens, since, wait>>

\* Mutant: the bucket has no size.
Refill_Unbounded ==
  /\ tokens' = tokens + 1
  /\ UNCHANGED <<pc, retrying, outer, inner, since, wait, cancelled>>

Refill ==
  /\ tokens < Burst
  /\ tokens' = tokens + 1
  /\ UNCHANGED <<pc, retrying, outer, inner, since, wait, cancelled>>

Tick ==
  /\ since < Gap \/ \E c \in Caller : wait[c] > 0
  /\ since' = IF since < Gap THEN since + 1 ELSE since
  /\ wait' = [c \in Caller |-> IF wait[c] > 0 THEN wait[c] - 1 ELSE 0]
  /\ UNCHANGED <<pc, retrying, outer, inner, tokens, cancelled>>

Proceed(c) ==
  \/ AcquireSlot(c)
  \/ TakeToken(c)
  \/ GapOver(c)
  \/ GapSleep(c)
  \/ Wake(c)
  \/ Respond(c)
  \/ TooManyRequests(c)
  \/ Retry(c)
  \/ GiveUp(c)

Next ==
  \/ \E c \in Caller : Get(c) \/ Proceed(c) \/ Cancel(c)
  \/ Refill
  \/ Tick

\* Time passes; goroutines run; a channel and a rate.Limiter serve their
\* waiters in turn, so whoever can be served again and again is served; the
\* HTTP client has a timeout, and a 429 cannot be had for ever because a second
\* one is returned.
Fairness ==
  /\ WF_vars(Refill)
  /\ WF_vars(Tick)
  /\ \A c \in Caller :
       /\ WF_vars(Proceed(c))
       /\ SF_vars(AcquireSlot(c))
       /\ SF_vars(TakeToken(c))

Spec == Init /\ [][Next]_vars /\ Fairness

------------------------------------------------------------------------------
(* Properties *)

\* Every variable has its type.
TypeOK ==
  /\ pc \in [Caller -> {"idle", "slot", "token", "gap", "sleep", "request", "backoff"}]
  /\ retrying \in SUBSET Caller
  /\ outer \in SUBSET Caller
  /\ inner \in SUBSET Caller
  /\ tokens \in 0..Burst
  /\ since \in 0..Gap
  /\ wait \in [Caller -> 0..Gap]
  /\ cancelled \in SUBSET Cancellable

\* Never more requests to the host than slots, nested calls included, and a
\* caller that has returned, by whichever of the exits, holds no slot.
SlotsRespected ==
  /\ Cardinality({c \in Caller : pc[c] = "request"}) <= Used
  /\ Used <= Slots
  /\ \A c \in outer \cup inner : pc[c] # "idle"

\* Somebody waits for a slot, all are in use, and all their holders wait as well.
Jammed ==
  /\ \E c \in Caller : pc[c] = "slot"
  /\ Used >= Slots
  /\ \A d \in outer \cup inner : pc[d] = "slot"

\* Callers never wait in a circle for the slots that they hold themselves: what
\* the retry inside getOnce takes for granted, and fewer callers than slots give.
NoRetryDeadlock == ~Jammed

\* A jam has one shape: every slot is the first slot of a caller that got a 429
\* and now waits in the retry for a second one.  No error, timeout or gap jams.
JamShape ==
  Jammed => /\ inner = {}
            /\ outer \subseteq retrying
            /\ Cardinality(outer) = Slots

\* A jam whose members all run without a deadline, as the callers of runJob do.
Starved == Jammed /\ outer \cap Cancellable = {}

\* Such a jam is for ever: no response, refill, clock tick or other caller's
\* return or cancellation undoes it.
JamLasts == [](Starved => []Starved)

\* Every caller without a deadline that waits for a slot while it lasts waits for
\* ever, those that were never in the retry included.
JamStarves ==
  \A c \in Caller \ Cancellable :
    [](Starved /\ pc[c] = "slot" => [](pc[c] = "slot"))

\* Requests to the host are at least Gap apart, as the comment on MinHostGap has
\* it.
GapRespected ==
  [][\A c \in Caller : pc[c] # "request" /\ pc'[c] = "request" => since = Gap]_vars

\* Every Get returns.
GetReturns == \A c \in Caller : pc[c] # "idle" ~> pc[c] = "idle"

\* Nothing but callers that wait for each other's slots keeps a Get from returning:
\* no way out of getOnce leaks a slot, passes a waiter over or sleeps for ever.
ReturnsUnlessJammed == \A c \in Caller : pc[c] # "idle" ~> pc[c] = "idle" \/ Jammed

\* A Get whose context is cancelled returns, whatever the other callers hold:
\* Pool.Stop, which waits for its workers, depends on it.
CancelReturns == \A c \in Caller : c \in cancelled ~> pc[c] = "idle"
==============================================================================
