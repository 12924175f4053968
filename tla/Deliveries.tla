----------------------------- MODULE Deliveries ------------------------------
(***************************************************************************)
(* Webhooks: the rows of webhooks, the refreshes that notify them, and one *)
(* goroutine per notification and hook that posts and records the outcome. *)
(*                                                                         *)
(* The goroutines of a hook overlap.  Each was started from a row read     *)
(* earlier and records its outcome later, whatever happened to the row     *)
(* meanwhile: it may have been switched off after Limit failures in a row, *)
(* or deleted.  Goroutines of one hook have no identity: they are counted. *)
(*                                                                         *)
(* Init, Next and the like are called HookInit, HookNext: one module of    *)
(* proofs extends this one together with Subscriptions.                    *)
(***************************************************************************)
EXTENDS Naturals, FiniteSets

CONSTANTS
  Hook,       \* ids of webhooks; a deleted one is not used again
  Notifier,   \* refreshes that have stored a changed feed
  Limit,      \* failures in a row that switch a hook off (20 in the code)
  MaxFlight,  \* bound: deliveries of one hook under way or about to start
  MaxLost,    \* bound: records that the database refuses
  MaxCrashes  \* bound: ends of the process

ASSUME DeliveriesAssumption ==
  /\ IsFiniteSet(Notifier)
  /\ Limit \in Nat \ {0}
  /\ MaxFlight \in Nat
  /\ MaxLost \in Nat
  /\ MaxCrashes \in Nat

VARIABLES
  state,    \* the row of a hook: not created yet, active or not, deleted
  fails,    \* its fail_count
  failing,  \* failures at the end of its rows in webhook_deliveries
  tripped,  \* whether there have ever been Limit of them in a row
  matched,  \* the hooks that a notifier has read and not yet started on
  sending,  \* goroutines of a hook that have not posted yet
  good,     \* goroutines whose post was answered with a 2xx, not yet recorded
  bad,      \* goroutines whose post failed, not yet recorded
  up,       \* whether the subscriber is reachable (external)
  lost,     \* records refused so far
  crashes   \* ends of the process so far

hookRow == <<state, fails>>
log == <<failing, tripped>>
goroutines == <<sending, good, bad>>
bounds == <<lost, crashes>>
hookVars == <<hookRow, log, matched, goroutines, up, bounds>>

HookInit ==
  /\ state = [h \in Hook |-> "new"]
  /\ fails = [h \in Hook |-> 0]
  /\ failing = [h \in Hook |-> 0]
  /\ tripped = [h \in Hook |-> FALSE]
  /\ matched = [n \in Notifier |-> {}]
  /\ sending = [h \in Hook |-> 0]
  /\ good = [h \in Hook |-> 0]
  /\ bad = [h \in Hook |-> 0]
  /\ up = [h \in Hook |-> TRUE]
  /\ lost = 0
  /\ crashes = 0

Active == {h \in Hook : state[h] = "active"}

\* Whether nobody has read the row of a hook and not yet finished with it.
Idle(h) ==
  /\ \A n \in Notifier : h \notin matched[n]
  /\ sending[h] = 0 /\ good[h] = 0 /\ bad[h] = 0

More(count, hs) == [h \in Hook |-> IF h \in hs THEN count[h] + 1 ELSE count[h]]
Less(count, h) == [count EXCEPT ![h] = @ - 1]

------------------------------------------------------------------------------
(* The API *)

CreateWebhook(h) ==
  /\ state[h] = "new"
  /\ state' = [state EXCEPT ![h] = "active"]
  /\ UNCHANGED <<fails, log, matched, goroutines, up, bounds>>

\* The row goes; goroutines started from it and rows in webhook_deliveries stay.
DeleteWebhook(h) ==
  /\ state[h] \in {"active", "inactive"}
  /\ state' = [state EXCEPT ![h] = "gone"]
  /\ UNCHANGED <<fails, log, matched, goroutines, up, bounds>>

------------------------------------------------------------------------------
(* NotifyFeedUpdated *)

\* The notifiers that have read a hook and not yet started on it.
Readers(h) == {n \in Notifier : h \in matched[n]}

\* The deliveries of a hook that are about to start or not yet recorded.
UnderWay(h) == Cardinality(Readers(h)) + sending[h] + good[h] + bad[h]

\* Room for one more delivery of each of some hooks.
Room(hs) == \A h \in hs : UnderWay(h) < MaxFlight

\* Mutant: also the hooks that were switched off.
MatchingWebhooks_All(n) ==
  LET hs == {h \in Hook : state[h] \in {"active", "inactive"}} IN
  /\ matched[n] = {}
  /\ hs # {}
  /\ Room(hs)
  /\ matched' = [matched EXCEPT ![n] = hs]
  /\ UNCHANGED <<hookRow, log, goroutines, up, bounds>>

\* The hooks that hear of this feed, in one read.
MatchingWebhooks(n) ==
  /\ matched[n] = {}
  /\ Active # {}
  /\ Room(Active)
  /\ matched' = [matched EXCEPT ![n] = Active]
  /\ UNCHANGED <<hookRow, log, goroutines, up, bounds>>

\* One goroutine per hook, with a context that nothing cancels.
Dispatch(n) ==
  /\ matched[n] # {}
  /\ sending' = More(sending, matched[n])
  /\ matched' = [matched EXCEPT ![n] = {}]
  /\ UNCHANGED <<hookRow, log, good, bad, up, bounds>>

------------------------------------------------------------------------------
(* deliver *)

\* The post is answered with a 2xx.
Accepted(h) ==
  /\ up[h]
  /\ sending[h] > 0
  /\ sending' = Less(sending, h)
  /\ good' = More(good, {h})
  /\ UNCHANGED <<hookRow, log, matched, bad, up, bounds>>

\* Any other status, a refused address, an error, or the timeout.
Refused(h) ==
  /\ sending[h] > 0
  /\ sending' = Less(sending, h)
  /\ bad' = More(bad, {h})
  /\ UNCHANGED <<hookRow, log, matched, good, up, bounds>>

Exists(h) == state[h] \in {"active", "inactive"}

\* Mutant: a success switches the hook on.
RecordGood_Revive(h) ==
  /\ good[h] > 0
  /\ good' = Less(good, h)
  /\ failing' = [failing EXCEPT ![h] = 0]
  /\ fails' = [fails EXCEPT ![h] = IF Exists(h) THEN 0 ELSE @]
  /\ state' = [state EXCEPT ![h] = IF Exists(h) THEN "active" ELSE @]
  /\ UNCHANGED <<tripped, matched, sending, bad, up, bounds>>

\* RecordWebhookDelivery after a success: one transaction inserts the row and
\* updates the hook, if there still is one.
RecordGood(h) ==
  /\ good[h] > 0
  /\ good' = Less(good, h)
  /\ failing' = [failing EXCEPT ![h] = 0]
  /\ fails' = [fails EXCEPT ![h] = IF Exists(h) THEN 0 ELSE @]
  /\ UNCHANGED <<state, tripped, matched, sending, bad, up, bounds>>

\* Its insertion, after a failure.
LogBad(h) ==
  /\ bad[h] > 0
  /\ bad' = Less(bad, h)
  /\ failing' = More(failing, {h})
  /\ tripped' = [tripped EXCEPT ![h] = @ \/ failing[h] + 1 >= Limit]

\* Mutant: the hook is compared before it is counted.
RecordBad_Late(h) ==
  /\ LogBad(h)
  /\ fails' = IF Exists(h) THEN More(fails, {h}) ELSE fails
  /\ state' = [state EXCEPT ![h] = IF @ = "active" /\ fails[h] >= Limit
                                   THEN "inactive" ELSE @]
  /\ UNCHANGED <<matched, sending, good, up, bounds>>

\* Mutant: a post without an answer is not recorded.
RecordBad_Skip(h) ==
  /\ bad[h] > 0
  /\ bad' = Less(bad, h)
  /\ UNCHANGED <<hookRow, log, matched, sending, good, up, bounds>>

\* RecordWebhookDelivery after a failure.
RecordBad(h) ==
  /\ LogBad(h)
  /\ fails' = IF Exists(h) THEN More(fails, {h}) ELSE fails
  /\ state' = [state EXCEPT ![h] = IF @ = "active" /\ fails[h] + 1 >= Limit
                                   THEN "inactive" ELSE @]
  /\ UNCHANGED <<matched, sending, good, up, bounds>>

\* The transaction fails, and deliver drops the error: the outcome is lost.
RecordFails(h) ==
  /\ lost < MaxLost
  /\ lost' = lost + 1
  /\ \/ good[h] > 0 /\ good' = Less(good, h) /\ UNCHANGED bad
     \/ bad[h] > 0 /\ bad' = Less(bad, h) /\ UNCHANGED good
  /\ UNCHANGED <<hookRow, log, matched, sending, up, crashes>>

------------------------------------------------------------------------------
(* The world *)

\* The tables survive; what the goroutines had to do is lost.
Crash ==
  /\ crashes < MaxCrashes
  /\ crashes' = crashes + 1
  /\ matched' = [n \in Notifier |-> {}]
  /\ sending' = [h \in Hook |-> 0]
  /\ good' = [h \in Hook |-> 0]
  /\ bad' = [h \in Hook |-> 0]
  /\ UNCHANGED <<hookRow, log, up, lost>>

\* The subscriber goes away or comes back.
Toggle(h) ==
  /\ up' = [up EXCEPT ![h] = ~@]
  /\ UNCHANGED <<hookRow, log, matched, goroutines, bounds>>

Deliver(h) == Accepted(h) \/ Refused(h)
RecordWebhookDelivery(h) == RecordGood(h) \/ RecordBad(h) \/ RecordFails(h)

HookNext ==
  \/ \E n \in Notifier : MatchingWebhooks(n) \/ Dispatch(n)
  \/ \E h \in Hook :
       \/ CreateWebhook(h)
       \/ DeleteWebhook(h)
       \/ Deliver(h)
       \/ RecordWebhookDelivery(h)
       \/ Toggle(h)
  \/ Crash

\* Goroutines run, a post has a timeout, and a transaction returns.  Neither
\* notifications nor anything about the subscriber is taken to happen.
HookFairness ==
  /\ \A n \in Notifier : WF_hookVars(Dispatch(n))
  /\ \A h \in Hook : WF_hookVars(Deliver(h)) /\ WF_hookVars(RecordGood(h)) /\ WF_hookVars(RecordBad(h))

HookSpec == HookInit /\ [][HookNext]_hookVars /\ HookFairness

------------------------------------------------------------------------------
(* Properties *)

\* Every variable has its type, and what was under way when a hook was
\* switched off is all that can be counted beyond the limit.
HookTypeOK ==
  /\ state \in [Hook -> {"new", "active", "inactive", "gone"}]
  /\ fails \in [Hook -> 0..(Limit - 1 + MaxFlight)]
  /\ failing \in [Hook -> Nat]
  /\ tripped \in [Hook -> BOOLEAN]
  /\ matched \in [Notifier -> SUBSET Hook]
  /\ sending \in [Hook -> 0..MaxFlight]
  /\ good \in [Hook -> 0..MaxFlight]
  /\ bad \in [Hook -> 0..MaxFlight]
  /\ up \in [Hook -> BOOLEAN]
  /\ lost \in 0..MaxLost
  /\ crashes \in 0..MaxCrashes

\* The row says what the log of deliveries says, in whatever order outcomes
\* arrive: the count is that of the failures at its end, and a hook is off
\* exactly when the log has once had Limit failures in a row.
RowMatchesLog ==
  \A h \in Hook : Exists(h) =>
    /\ fails[h] = failing[h]
    /\ state[h] = "inactive" <=> tripped[h]

Off(h) == state[h] \in {"inactive", "gone"}

\* A hook that was switched off or deleted falls silent for good: what was under
\* way comes to an end, and nothing new is started, whatever a late success records.
OffIsSilent == \A h \in Hook : Off(h) ~> [](Idle(h))

\* A subscriber that stays away is, from some time on, no longer called, however
\* often feeds change, and however outcomes, lost records and crashes mix.
DownIsLeftAlone ==
  \A h \in Hook : <>[](~up[h]) => <>[](\A n \in Notifier : h \notin matched[n])

\* A hook that is off is never switched on again, also not by a success of a
\* delivery that began before, and no step adds to what is under way for it.
StaysOff ==
  [][\A h \in Hook : Off(h) => Off(h)' /\ UnderWay(h)' <= UnderWay(h)]_hookVars

\* The row, which is all that the code looks at, and the log behave as one breaker.
Switch == INSTANCE Breaker WITH streak <- failing
BreakerSpec == Switch!Spec
==============================================================================
