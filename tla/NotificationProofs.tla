------------------------ MODULE NotificationProofs -------------------------
(***************************************************************************)
(* Proofs about the two components that talk to other people's servers.    *)
(*                                                                         *)
(* Subscriptions: its types, that a row that waits for the hub is asked    *)
(* for again, and that settled secrets stay.  Deliveries: its types, that  *)
(* the row of a webhook matches the log of its deliveries, and that both   *)
(* together behave as one breaker.                                         *)
(***************************************************************************)
EXTENDS Subscriptions, Deliveries, FiniteSetTheorems, TLAPS

\* What is held by a call under way is a secret, or a row, of its own.
InHand ==
  /\ \A r \in Refresher : rpc[r] # "idle" => mine[r] # NoSecret
  /\ \A k \in Callback : cpc[k] = "write" => seen[k] # NoRow /\ kind[k] # "none"

\* A row that waits for the hub has no lease.
PendingBare == row.status = "pending" => row.lease = "none"

IInv == TypeOK /\ InHand /\ PendingBare

\* The absent row is not a row, and has a status of its own.
LEMMA RowOrNot == NoRow \notin Row /\ NoRow.status = "absent" /\ NoSecret \notin Secret
  BY SubscriptionsAssumption DEF NoRow, Row

\* In the beginning there is no row and nothing runs.
LEMMA InitIInv == Init => IInv
<1> SUFFICES ASSUME Init PROVE IInv
  OBVIOUS
<1>1. TypeOK
  <2>1. /\ row \in Row \cup {NoRow} /\ hub \in Secret \cup {NoSecret}
        /\ asked \in SUBSET Secret /\ leaving \in BOOLEAN
    BY DEF Init
  <2>2. unsubs \in 0..MaxUnsub /\ faults \in 0..MaxFaults
    BY SubscriptionsAssumption DEF Init
  <2>3. /\ rpc \in [Refresher -> {"idle", "upsert", "post", "deny"}]
        /\ mine \in [Refresher -> Secret \cup {NoSecret}]
        /\ upc \in [Unsubscriber -> {"idle", "post", "delete"}]
    BY DEF Init
  <2>4. /\ cpc \in [Callback -> {"idle", "write"}]
        /\ kind \in [Callback -> {"none", "subscribe", "unsubscribe", "denied"}]
        /\ seen \in [Callback -> Row \cup {NoRow}]
        /\ for \in [Callback -> Secret \cup {NoSecret}]
    BY DEF Init
  <2> QED
    BY <2>1, <2>2, <2>3, <2>4 DEF TypeOK
<1>2. InHand
  BY DEF Init, InHand
<1>3. PendingBare
  BY RowOrNot DEF Init, PendingBare
<1> QED
  BY <1>1, <1>2, <1>3 DEF IInv

\* Every step keeps the strengthened invariant.
LEMMA NextIInv == IInv /\ [Next]_vars => IInv'
<1> SUFFICES ASSUME IInv, [Next]_vars PROVE IInv'
  OBVIOUS
<1> USE SubscriptionsAssumption, RowOrNot
<1>1. ASSUME NEW r \in Refresher, NEW secrets \in SUBSET Secret, Need(r, secrets),
             faults' \in 0..MaxFaults
      PROVE IInv'
  BY <1>1 DEF IInv, TypeOK, InHand, PendingBare, Need, Goto, callbacks, theHub
<1>2. ASSUME NEW r \in Refresher, GetWebSubByFeed(r) PROVE IInv'
  <2>1. (IF row = NoRow THEN Secret \ InUse ELSE {row.secret}) \in SUBSET Secret
    BY DEF IInv, TypeOK, Row
  <2>2. faults' \in 0..MaxFaults
    BY <1>2 DEF GetWebSubByFeed, IInv, TypeOK
  <2> QED
    BY <1>1, <1>2, <2>1, <2>2 DEF GetWebSubByFeed
<1>3. ASSUME NEW r \in Refresher, ReadFails(r) PROVE IInv'
  <2>1. faults' \in 0..MaxFaults
    BY <1>3 DEF ReadFails, Fault, IInv, TypeOK
  <2> QED
    BY <1>1, <1>3, <2>1 DEF ReadFails
<1>4. ASSUME NEW r \in Refresher, UpsertWebSub(r) PROVE IInv'
  BY <1>4 DEF IInv, TypeOK, InHand, PendingBare, UpsertWebSub, Goto, Row, callbacks, theHub
<1>5. ASSUME NEW r \in Refresher, UpsertFails(r) PROVE IInv'
  BY <1>5
  DEF IInv, TypeOK, InHand, PendingBare, UpsertFails, Return, Goto, Fault, callbacks, theHub
<1>6. ASSUME NEW r \in Refresher, Subscribe(r) PROVE IInv'
  BY <1>6
  DEF IInv, TypeOK, InHand, PendingBare, Subscribe, Return, Goto, callbacks
<1>7. ASSUME NEW r \in Refresher, SubscribeFails(r) PROVE IInv'
  <2>1. asked' \in SUBSET Secret
    BY <1>7 DEF SubscribeFails, Goto, IInv, TypeOK, InHand
  <2> QED
    BY <1>7, <2>1
    DEF IInv, TypeOK, InHand, PendingBare, SubscribeFails, Goto, Fault, callbacks
<1>8. ASSUME NEW r \in Refresher, Deny(r) PROVE IInv'
  BY <1>8
  DEF IInv, TypeOK, InHand, PendingBare, Deny, Return, Goto, Row, callbacks, theHub
<1>9. ASSUME NEW r \in Refresher, DenyFails(r) PROVE IInv'
  BY <1>9
  DEF IInv, TypeOK, InHand, PendingBare, DenyFails, Return, Goto, callbacks, theHub
<1>10. ASSUME NEW k \in Callback, NEW s \in Secret \cup {NoSecret},
              NEW mode \in {"subscribe", "unsubscribe", "denied"},
              GetWebSubByTopic(k, mode, s)
       PROVE IInv'
  <2>1. faults' \in 0..MaxFaults
    BY <1>10 DEF GetWebSubByTopic, Fault, IInv, TypeOK
  <2>2. asked' \in SUBSET Secret /\ leaving' \in BOOLEAN
    BY <1>10 DEF GetWebSubByTopic, IInv, TypeOK
  <2>3. UNCHANGED <<row, rpc, mine, upc, hub, unsubs>>
    BY <1>10 DEF GetWebSubByTopic, refreshes
  <2>4. CASE UNCHANGED callbacks
    BY <2>1, <2>2, <2>3, <2>4 DEF IInv, TypeOK, InHand, PendingBare, callbacks
  <2>5. CASE /\ row # NoRow
             /\ cpc' = [cpc EXCEPT ![k] = "write"]
             /\ kind' = [kind EXCEPT ![k] = mode]
             /\ seen' = [seen EXCEPT ![k] = row]
             /\ for' = [for EXCEPT ![k] = s]
    BY <2>1, <2>2, <2>3, <2>5 DEF IInv, TypeOK, InHand, PendingBare
  <2> QED
    BY <1>10, <2>4, <2>5 DEF GetWebSubByTopic
<1>11. ASSUME NEW k \in Callback, Finish(k), UNCHANGED row \/ row' \in Changed(k),
              hub' \in Secret \cup {NoSecret}, faults' \in 0..MaxFaults
       PROVE IInv'
  <2>1. seen[k] \in Row
    BY <1>11 DEF Finish, IInv, TypeOK, InHand
  <2>2. row' \in Row \cup {NoRow} /\ PendingBare'
    <3>1. \A w \in Changed(k) : w \in Row /\ w.status # "pending"
      BY <2>1 DEF Changed, Row
    <3> QED
      BY <1>11, <3>1 DEF IInv, TypeOK, PendingBare
  <2>3. /\ cpc' = [cpc EXCEPT ![k] = "idle"]
        /\ kind' = [kind EXCEPT ![k] = "none"]
        /\ seen' = [seen EXCEPT ![k] = NoRow]
        /\ for' = [for EXCEPT ![k] = NoSecret]
        /\ UNCHANGED <<rpc, mine, upc, asked, leaving, unsubs>>
    BY <1>11 DEF Finish, refreshes
  <2> QED
    BY <1>11, <2>2, <2>3 DEF IInv, TypeOK, InHand
<1>12. ASSUME NEW k \in Callback, Confirm(k) PROVE IInv'
  <2>1. hub' \in Secret \cup {NoSecret} /\ faults' \in 0..MaxFaults
    BY <1>12 DEF Confirm, Verified, IInv, TypeOK
  <2> QED
    BY <1>11, <1>12, <2>1 DEF Confirm
<1>13. ASSUME NEW k \in Callback, ConfirmLost(k) \/ ConfirmUnsaved(k) PROVE IInv'
  <2>1. hub' \in Secret \cup {NoSecret} /\ faults' \in 0..MaxFaults
    BY <1>13 DEF ConfirmLost, ConfirmUnsaved, Verified, Fault, IInv, TypeOK
  <2> QED
    BY <1>11, <1>13, <2>1 DEF ConfirmLost, ConfirmUnsaved
<1>14. ASSUME NEW u \in Unsubscriber,
              \/ UnsubscribeLook(u) \/ Unsubscribe(u)
              \/ DeleteWebSubByFeed(u) \/ DeleteFails(u)
       PROVE IInv'
  <2>1. CASE UnsubscribeLook(u)
    BY <2>1
    DEF IInv, TypeOK, InHand, PendingBare, UnsubscribeLook, refreshes, callbacks, theHub
  <2>2. CASE Unsubscribe(u)
    BY <2>2
    DEF IInv, TypeOK, InHand, PendingBare, Unsubscribe, refreshes, callbacks
  <2>3. CASE DeleteWebSubByFeed(u)
    <3>1. TypeOK'
      BY <2>3 DEF IInv, TypeOK, DeleteWebSubByFeed, refreshes, callbacks, theHub
    <3>2. InHand' /\ PendingBare'
      BY <2>3 DEF IInv, InHand, PendingBare, DeleteWebSubByFeed, refreshes, callbacks
    <3> QED
      BY <3>1, <3>2 DEF IInv
  <2>4. CASE DeleteFails(u)
    BY <2>4
    DEF IInv, TypeOK, InHand, PendingBare, DeleteFails, Fault, refreshes, callbacks, theHub
  <2> QED
    BY <1>14, <2>1, <2>2, <2>3, <2>4
<1>15. CASE Age
  <2>1. row \in Row /\ row.status # "pending"
    BY <1>15 DEF Age, IInv, TypeOK, PendingBare, NoRow
  <2>2. row' \in Row /\ row'.status # "pending"
    BY <1>15, <2>1 DEF Age, Row
  <2> QED
    BY <1>15, <2>2
    DEF IInv, TypeOK, InHand, PendingBare, Age, refreshes, callbacks, theHub
<1>16. CASE HubForgets
  BY <1>16
  DEF IInv, TypeOK, InHand, PendingBare, HubForgets, Fault, refreshes, callbacks
<1>17. CASE UNCHANGED vars
  BY <1>17
  DEF IInv, TypeOK, InHand, PendingBare, vars, refreshes, callbacks, theHub
<1>18. ASSUME NEW k \in Callback,
              Verify(k) \/ \E s \in asked : GetWebSubByTopic(k, "denied", s)
       PROVE IInv'
  BY <1>10, <1>18 DEF Verify, IInv, TypeOK
<1>19. CASE CallbackFails
  <2>1. asked' \in SUBSET Secret /\ leaving' \in BOOLEAN
    BY <1>19 DEF IInv, TypeOK, CallbackFails
  <2> QED
    BY <1>19, <2>1
    DEF IInv, TypeOK, InHand, PendingBare, CallbackFails, Fault, refreshes, callbacks
<1> QED
  BY <1>2, <1>3, <1>4, <1>5, <1>6, <1>7, <1>8, <1>9, <1>12, <1>13, <1>14, <1>15, <1>16,
     <1>17, <1>18, <1>19
  DEF Next, Ask, AskFails

\* The strengthened invariant holds in every behaviour.
THEOREM Inductive == Spec => []IInv
  BY InitIInv, NextIInv, PTL DEF Spec

\* Every variable has its type.
THEOREM TypeCorrect == Spec => []TypeOK
  BY Inductive, PTL DEF IInv

\* A row that waits for the hub never stops later refreshes from asking again.
THEOREM PendingCorrect == Spec => []PendingAskedAgain
<1>1. IInv => PendingAskedAgain
  BY DEF IInv, PendingBare, PendingAskedAgain, NeedSubscribe
<1> QED
  BY <1>1, Inductive, PTL

\* No step that leaves the row in the table, and is no failure, brings a second secret.
LEMMA SettledStep ==
  IInv /\ [Next]_vars => (Settled /\ row' # NoRow /\ UNCHANGED faults => Settled')
<1> SUFFICES ASSUME IInv, [Next]_vars, Settled, row' # NoRow, UNCHANGED faults
             PROVE Settled'
  OBVIOUS
<1> USE SubscriptionsAssumption, RowOrNot
<1> DEFINE S == {row.secret, NoSecret}
<1>0. /\ row \in Row /\ row.secret \in Secret
      /\ hub \in S /\ asked \subseteq {row.secret}
      /\ \A r \in Refresher : mine[r] \in S
      /\ \A r \in Refresher : rpc[r] # "idle" => mine[r] = row.secret
      /\ \A k \in Callback : seen[k].secret \in S /\ for[k] \in S
      /\ \A k \in Callback : cpc[k] = "write" => seen[k] \in Row /\ seen[k].secret = row.secret
  <2>1. row \in Row /\ row.secret \in Secret
    BY DEF Settled, IInv, TypeOK, Row
  <2>2. \A s \in InUse : s = row.secret
    BY DEF Settled
  <2>3. hub \in S /\ asked \subseteq {row.secret}
    BY <2>2 DEF InUse, IInv, TypeOK
  <2>4. \A r \in Refresher : mine[r] \in S
    BY <2>2 DEF InUse
  <2>5. \A k \in Callback : seen[k].secret \in S /\ for[k] \in S
    BY <2>2 DEF InUse
  <2>6. \A k \in Callback : cpc[k] = "write" => seen[k] \in Row /\ seen[k].secret \in Secret
    BY DEF IInv, TypeOK, InHand, Row
  <2>7. \A k \in Callback : cpc[k] = "write" => seen[k] \in Row /\ seen[k].secret = row.secret
    BY <2>5, <2>6
  <2>8. \A r \in Refresher : rpc[r] # "idle" => mine[r] = row.secret
    BY <2>4 DEF IInv, InHand
  <2> QED
    BY <2>1, <2>3, <2>4, <2>5, <2>7, <2>8
<1>1. ASSUME row'.secret = row.secret, hub' \in S, asked' \subseteq {row.secret},
             \A r \in Refresher : mine'[r] \in S,
             \A k \in Callback : seen'[k].secret \in S /\ for'[k] \in S
      PROVE Settled'
  BY <1>1 DEF Settled, InUse
<1> HIDE DEF S
<1>2. ASSUME NEW r \in Refresher, GetWebSubByFeed(r) PROVE Settled'
  <2>1. mine' = [mine EXCEPT ![r] = row.secret]
    BY <1>0, <1>2 DEF GetWebSubByFeed, Need
  <2>2. \A q \in Refresher : mine'[q] \in S
    BY <1>0, <2>1 DEF IInv, TypeOK, S
  <2>3. UNCHANGED <<row, hub, asked, seen, for>>
    BY <1>2 DEF GetWebSubByFeed, Need, callbacks, theHub
  <2> QED
    BY <1>0, <1>1, <2>2, <2>3
<1>3. ~Fault
  BY DEF Fault, IInv, TypeOK
<1>4. ASSUME NEW r \in Refresher, UpsertWebSub(r) PROVE Settled'
  BY <1>0, <1>1, <1>4 DEF UpsertWebSub, Goto, callbacks, theHub
<1>5. ASSUME NEW r \in Refresher, Subscribe(r) PROVE Settled'
  BY <1>0, <1>1, <1>5 DEF Subscribe, Return, Goto, IInv, TypeOK, S, callbacks
<1>6. ASSUME NEW r \in Refresher, Deny(r) PROVE Settled'
  BY <1>0, <1>1, <1>6 DEF Deny, Return, Goto, IInv, TypeOK, S, callbacks, theHub
<1>7. ASSUME NEW k \in Callback, NEW s \in asked \cup {NoSecret},
             NEW mode \in {"subscribe", "unsubscribe"}, GetWebSubByTopic(k, mode, s)
      PROVE Settled'
  <2>1. asked' \subseteq {row.secret} /\ UNCHANGED <<row, mine, hub>>
    BY <1>0, <1>7 DEF GetWebSubByTopic, refreshes
  <2>2. s \in S
    BY <1>0 DEF S
  <2>3. \A j \in Callback : seen'[j].secret \in S /\ for'[j] \in S
    BY <1>0, <1>7, <2>2 DEF GetWebSubByTopic, IInv, TypeOK, S, callbacks
  <2> QED
    BY <1>0, <1>1, <2>1, <2>3
<1>8. ASSUME NEW k \in Callback, Confirm(k) PROVE Settled'
  <2>1. row'.secret = row.secret
    <3>1. seen[k] \in Row /\ seen[k].secret = row.secret
      BY <1>0, <1>8 DEF Confirm, Finish
    <3>2. \A w \in Changed(k) : w.secret = seen[k].secret
      BY <3>1 DEF Changed, Row
    <3> QED
      BY <1>8, <3>1, <3>2 DEF Confirm
  <2>2. hub' \in S
    BY <1>0, <1>8 DEF Confirm, Verified, S
  <2>3. \A j \in Callback : seen'[j].secret \in S /\ for'[j] \in S
    <3>1. NoRow.secret = NoSecret
      BY DEF NoRow
    <3>2. /\ seen' = [seen EXCEPT ![k] = NoRow]
          /\ for' = [for EXCEPT ![k] = NoSecret]
      BY <1>8 DEF Confirm, Finish
    <3>3. /\ \A j \in Callback : seen'[j] = IF j = k THEN NoRow ELSE seen[j]
          /\ \A j \in Callback : for'[j] = IF j = k THEN NoSecret ELSE for[j]
      BY <3>2 DEF IInv, TypeOK
    <3> QED
      BY <1>0, <3>1, <3>3 DEF S
  <2> QED
    BY <1>0, <1>1, <1>8, <2>1, <2>2, <2>3 DEF Confirm, Finish, refreshes
<1>9. ASSUME NEW u \in Unsubscriber,
             \/ UnsubscribeLook(u) \/ Unsubscribe(u)
             \/ DeleteWebSubByFeed(u) \/ DeleteFails(u)
      PROVE Settled'
  BY <1>0, <1>1, <1>3, <1>9
  DEF UnsubscribeLook, Unsubscribe, DeleteWebSubByFeed, DeleteFails, refreshes, callbacks,
      theHub
<1>10. CASE Age
  <2>1. row'.secret = row.secret
    BY <1>0, <1>10 DEF Age, Row
  <2> QED
    BY <1>0, <1>1, <1>10, <2>1 DEF Age, refreshes, callbacks, theHub
<1>11. CASE UNCHANGED vars
  BY <1>0, <1>1, <1>11 DEF vars, refreshes, callbacks, theHub
<1>12. ASSUME NEW r \in Refresher, AskFails(r) PROVE Settled'
  <2>1. DenyFails(r)
    BY <1>3, <1>12 DEF AskFails, ReadFails, UpsertFails, SubscribeFails
  <2> QED
    BY <1>0, <1>1, <2>1 DEF DenyFails, Return, Goto, IInv, TypeOK, S, callbacks, theHub
<1>13. ASSUME NEW k \in Callback, NEW s \in asked, GetWebSubByTopic(k, "denied", s)
       PROVE FALSE
  BY <1>3, <1>13 DEF GetWebSubByTopic
<1>14. ASSUME NEW k \in Callback, ConfirmLost(k) \/ ConfirmUnsaved(k) PROVE FALSE
  BY <1>3, <1>14 DEF ConfirmLost, ConfirmUnsaved
<1>15. ~HubForgets /\ ~CallbackFails
  BY <1>3 DEF HubForgets, CallbackFails
<1>16. ASSUME NEW k \in Callback, Verify(k) PROVE Settled'
  BY <1>7, <1>16 DEF Verify
<1> QED
  BY <1>2, <1>4, <1>5, <1>6, <1>8, <1>9, <1>10, <1>11, <1>12, <1>13, <1>14, <1>15, <1>16
  DEF Next, Ask

\* Settled secrets stay settled.
THEOREM SettledCorrect == Spec => SettledStays
<1>1. IInv /\ [Next]_vars
        => [Settled /\ row' # NoRow /\ UNCHANGED faults => Settled']_vars
  BY SettledStep
<1> QED
  BY <1>1, Inductive, PTL DEF Spec, SettledStays

------------------------------------------------------------------------------
(* Deliveries *)

\* What HookTypeOK says, without the bounds.
HookTypes ==
  /\ state \in [Hook -> {"new", "active", "inactive", "gone"}]
  /\ fails \in [Hook -> Nat]
  /\ failing \in [Hook -> Nat]
  /\ tripped \in [Hook -> BOOLEAN]
  /\ matched \in [Notifier -> SUBSET Hook]
  /\ sending \in [Hook -> Nat]
  /\ good \in [Hook -> Nat]
  /\ bad \in [Hook -> Nat]
  /\ up \in [Hook -> BOOLEAN]
  /\ lost \in 0..MaxLost
  /\ crashes \in 0..MaxCrashes

\* Nothing has happened to a hook that does not exist; one that is on has not yet
\* failed Limit times; one that exists agrees with the log; and what is under way
\* for one that was switched off is what can still be counted.
HookFine(h) ==
  /\ UnderWay(h) <= MaxFlight
  /\ fails[h] <= Limit - 1 + MaxFlight
  /\ state[h] = "new" => fails[h] = 0 /\ failing[h] = 0 /\ ~tripped[h] /\ UnderWay(h) = 0
  /\ state[h] = "active" => fails[h] < Limit
  /\ Exists(h) => fails[h] = failing[h] /\ (state[h] = "inactive" <=> tripped[h])
  /\ state[h] = "inactive" => fails[h] + UnderWay(h) <= Limit - 1 + MaxFlight

HookInv == HookTypes /\ \A h \in Hook : HookFine(h)

\* Counting what is under way.
LEMMA UnderWayType ==
  ASSUME HookTypes, NEW h \in Hook
  PROVE  /\ IsFiniteSet(Readers(h))
         /\ Cardinality(Readers(h)) \in Nat
         /\ UnderWay(h) \in Nat
         /\ UnderWay(h) = Cardinality(Readers(h)) + sending[h] + good[h] + bad[h]
<1>1. IsFiniteSet(Readers(h))
  BY FS_Subset, DeliveriesAssumption DEF Readers
<1>2. Cardinality(Readers(h)) \in Nat
  BY <1>1, FS_CardinalityType
<1> QED
  BY <1>1, <1>2 DEF UnderWay, HookTypes

\* In the beginning nothing is under way.
LEMMA HookStart == HookInit => HookInv
<1> SUFFICES ASSUME HookInit PROVE HookInv
  OBVIOUS
<1>1. HookTypes
  BY DeliveriesAssumption DEF HookInit, HookTypes
<1>2. ASSUME NEW h \in Hook PROVE UnderWay(h) = 0
  <2>1. Readers(h) = {}
    BY DEF HookInit, Readers
  <2> QED
    BY <2>1, FS_EmptySet DEF HookInit, UnderWay
<1> QED
  BY <1>1, <1>2, DeliveriesAssumption DEF HookInit, HookInv, HookFine, Exists

\* Every step keeps the types.
LEMMA HookTypesStep == HookTypes /\ [HookNext]_hookVars => HookTypes'
<1> SUFFICES ASSUME HookTypes, [HookNext]_hookVars PROVE HookTypes'
  OBVIOUS
<1> USE DeliveriesAssumption DEF HookTypes, hookRow, log, goroutines, bounds, More, Less
<1>1. ASSUME NEW n \in Notifier, MatchingWebhooks(n) PROVE HookTypes'
  BY <1>1 DEF MatchingWebhooks, Active
<1>2. ASSUME NEW n \in Notifier, Dispatch(n) PROVE HookTypes'
  BY <1>2 DEF Dispatch
<1>3. ASSUME NEW h \in Hook, CreateWebhook(h) PROVE HookTypes'
  BY <1>3 DEF CreateWebhook
<1>4. ASSUME NEW h \in Hook, DeleteWebhook(h) PROVE HookTypes'
  BY <1>4 DEF DeleteWebhook
<1>5. ASSUME NEW h \in Hook, Accepted(h) PROVE HookTypes'
  BY <1>5 DEF Accepted
<1>6. ASSUME NEW h \in Hook, Refused(h) PROVE HookTypes'
  BY <1>6 DEF Refused
<1>7. ASSUME NEW h \in Hook, RecordGood(h) PROVE HookTypes'
  BY <1>7 DEF RecordGood
<1>8. ASSUME NEW h \in Hook, RecordBad(h) PROVE HookTypes'
  BY <1>8 DEF RecordBad, LogBad
<1>9. ASSUME NEW h \in Hook, RecordFails(h) PROVE HookTypes'
  BY <1>9 DEF RecordFails
<1>10. ASSUME NEW h \in Hook, Toggle(h) PROVE HookTypes'
  BY <1>10 DEF Toggle
<1>11. CASE Crash
  BY <1>11 DEF Crash
<1>12. CASE UNCHANGED hookVars
  BY <1>12 DEF hookVars
<1> QED
  BY <1>1, <1>2, <1>3, <1>4, <1>5, <1>6, <1>7, <1>8, <1>9, <1>10, <1>11, <1>12
  DEF HookNext, Deliver, RecordWebhookDelivery

\* The notifiers that have read a hook change only with the reads.
LEMMA SameReaders ==
  ASSUME HookTypes, UNCHANGED matched, NEW h \in Hook
  PROVE  Readers(h)' = Readers(h)
  BY DEF Readers

\* A read counts each active hook once more, and no other.
LEMMA ReadCounts ==
  ASSUME HookTypes, NEW n \in Notifier, MatchingWebhooks(n), NEW h \in Hook
  PROVE  /\ h \in Active => UnderWay(h)' = UnderWay(h) + 1 /\ UnderWay(h) < MaxFlight
         /\ h \notin Active => UnderWay(h)' = UnderWay(h)
<1>0. IsFiniteSet(Readers(h)) /\ Cardinality(Readers(h)) \in Nat
  BY UnderWayType
<1> USE DEF MatchingWebhooks, HookTypes, goroutines
<1>1. CASE h \in Active
  <2>1. Readers(h)' = Readers(h) \cup {n} /\ n \notin Readers(h)
    BY <1>1 DEF Readers, Active
  <2>2. Cardinality(Readers(h)') = Cardinality(Readers(h)) + 1
    BY ONLY <1>0, <2>1, FS_AddElement
  <2>3. UnderWay(h) < MaxFlight
    BY <1>1 DEF Room
  <2> QED
    BY <1>0, <1>1, <2>2, <2>3 DEF UnderWay
<1>2. CASE h \notin Active
  <2>1. Readers(h)' = Readers(h)
    BY <1>2 DEF Readers
  <2> QED
    BY <1>2, <2>1 DEF UnderWay
<1> QED
  BY <1>1, <1>2

\* Starting goroutines changes nothing in the count.
LEMMA DispatchKeeps ==
  ASSUME HookTypes, NEW n \in Notifier, Dispatch(n), NEW h \in Hook
  PROVE  UnderWay(h)' = UnderWay(h)
<1>0. IsFiniteSet(Readers(h)) /\ Cardinality(Readers(h)) \in Nat
  BY UnderWayType
<1> USE DEF Dispatch, HookTypes, More
<1>1. CASE h \in matched[n]
  <2>1. Readers(h)' = Readers(h) \ {n} /\ n \in Readers(h)
    BY <1>1 DEF Readers
  <2>2. Cardinality(Readers(h)') = Cardinality(Readers(h)) - 1
    BY ONLY <1>0, <2>1, FS_RemoveElement
  <2> QED
    BY <1>0, <1>1, <2>2 DEF UnderWay
<1>2. CASE h \notin matched[n]
  <2>1. Readers(h)' = Readers(h)
    BY <1>2 DEF Readers
  <2> QED
    BY <1>2, <2>1 DEF UnderWay
<1> QED
  BY <1>1, <1>2

\* A post moves its goroutine from one count to another.
LEMMA PostKeeps ==
  ASSUME HookTypes, NEW k \in Hook, Accepted(k) \/ Refused(k), NEW h \in Hook
  PROVE  UnderWay(h)' = UnderWay(h)
<1>1. Readers(h)' = Readers(h)
  BY SameReaders DEF Accepted, Refused
<1>2. sending[h]' + good[h]' + bad[h]' = sending[h] + good[h] + bad[h]
  BY DEF Accepted, Refused, HookTypes, More, Less
<1>3. sending'[h] \in Nat /\ good'[h] \in Nat /\ bad'[h] \in Nat
  BY DEF Accepted, Refused, HookTypes, More, Less
<1> QED
  BY <1>1, <1>2, <1>3, UnderWayType DEF UnderWay, HookTypes

\* A record ends the goroutine that makes it.
LEMMA RecordCounts ==
  ASSUME HookTypes, NEW k \in Hook, NEW h \in Hook,
         RecordGood(k) \/ RecordBad(k) \/ RecordFails(k)
  PROVE  /\ h = k => UnderWay(h)' = UnderWay(h) - 1 /\ UnderWay(h) > 0
         /\ h # k => UnderWay(h)' = UnderWay(h)
<1>1. Readers(h)' = Readers(h) /\ sending' = sending
  BY SameReaders DEF RecordGood, RecordBad, RecordFails
<1>2. /\ h = k => good'[h] + bad'[h] = good[h] + bad[h] - 1
      /\ h # k => good'[h] + bad'[h] = good[h] + bad[h]
      /\ h = k => good[h] + bad[h] > 0
      /\ good'[h] \in Nat /\ bad'[h] \in Nat
  BY DEF RecordGood, RecordBad, LogBad, RecordFails, HookTypes, Less
<1>3. Cardinality(Readers(h)) \in Nat /\ sending[h] \in Nat /\ good[h] \in Nat /\ bad[h] \in Nat
  BY UnderWayType DEF HookTypes
<1>4. UnderWay(h)' = Cardinality(Readers(h)) + sending[h] + good'[h] + bad'[h]
  BY <1>1 DEF UnderWay
<1>5. UnderWay(h) = Cardinality(Readers(h)) + sending[h] + good[h] + bad[h]
  BY DEF UnderWay
<1> QED
  BY ONLY <1>2, <1>3, <1>4, <1>5

\* Every step keeps what is known of a hook.
LEMMA HookFineStep ==
  ASSUME HookInv, [HookNext]_hookVars, NEW h \in Hook
  PROVE  HookFine(h)'
<1> USE DeliveriesAssumption DEF HookInv, HookTypes, hookRow, log, goroutines, bounds
<1>0. HookFine(h) /\ UnderWay(h) \in Nat
  BY UnderWayType
<1>1. ASSUME UnderWay(h)' <= UnderWay(h), UnderWay(h)' \in Nat,
             UNCHANGED <<fails, failing, tripped>>, UNCHANGED state
      PROVE  HookFine(h)'
  BY <1>0, <1>1 DEF HookFine, Exists
<1>2. ASSUME NEW n \in Notifier, MatchingWebhooks(n) PROVE HookFine(h)'
  <2>1. UNCHANGED <<state, fails, failing, tripped>>
    BY <1>2 DEF MatchingWebhooks
  <2>2. CASE h \in Active
    <3>1. UnderWay(h)' = UnderWay(h) + 1 /\ UnderWay(h) < MaxFlight
      BY <1>2, <2>2, ReadCounts
    <3>2. state[h] = "active"
      BY <2>2 DEF Active
    <3> QED
      BY <1>0, <2>1, <3>1, <3>2 DEF HookFine, Exists
  <2>3. CASE h \notin Active
    <3>1. UnderWay(h)' = UnderWay(h)
      BY <1>2, <2>3, ReadCounts
    <3> QED
      BY <1>0, <1>1, <2>1, <3>1
  <2> QED
    BY <2>2, <2>3
<1>3. ASSUME NEW n \in Notifier, Dispatch(n) PROVE HookFine(h)'
  <2>1. UnderWay(h)' = UnderWay(h)
    BY <1>3, DispatchKeeps
  <2> QED
    BY <1>0, <1>1, <1>3, <2>1 DEF Dispatch
<1>4. ASSUME NEW k \in Hook, CreateWebhook(k) \/ DeleteWebhook(k) PROVE HookFine(h)'
  <2>1. UnderWay(h)' = UnderWay(h)
    BY <1>4, SameReaders DEF UnderWay, CreateWebhook, DeleteWebhook
  <2> QED
    BY <1>0, <1>4, <2>1 DEF HookFine, Exists, CreateWebhook, DeleteWebhook
<1>5. ASSUME NEW k \in Hook, Accepted(k) \/ Refused(k) PROVE HookFine(h)'
  <2>1. UnderWay(h)' = UnderWay(h)
    BY <1>5, PostKeeps
  <2> QED
    BY <1>0, <1>1, <1>5, <2>1 DEF Accepted, Refused
<1>6. ASSUME NEW k \in Hook, RecordGood(k) PROVE HookFine(h)'
  <2>1. /\ h = k => UnderWay(h)' = UnderWay(h) - 1 /\ UnderWay(h) > 0
        /\ h # k => UnderWay(h)' = UnderWay(h)
    BY <1>6, RecordCounts
  <2> QED
    BY <1>0, <1>6, <2>1 DEF HookFine, Exists, RecordGood
<1>7. ASSUME NEW k \in Hook, RecordBad(k) PROVE HookFine(h)'
  <2>1. /\ h = k => UnderWay(h)' = UnderWay(h) - 1 /\ UnderWay(h) > 0
        /\ h # k => UnderWay(h)' = UnderWay(h)
    BY <1>7, RecordCounts
  <2>2. CASE h # k
    BY <1>0, <1>1, <1>7, <2>1, <2>2 DEF HookFine, Exists, RecordBad, LogBad, More
  <2>3. CASE h = k
    <3>1. fails'[h] = IF Exists(h) THEN fails[h] + 1 ELSE fails[h]
      BY <1>7, <2>3 DEF RecordBad, More
    <3>2. /\ failing'[h] = failing[h] + 1
          /\ tripped'[h] = (tripped[h] \/ failing[h] + 1 >= Limit)
      BY <1>7, <2>3 DEF RecordBad, LogBad, More
    <3>3. state'[h] = IF state[h] = "active" /\ fails[h] + 1 >= Limit
                      THEN "inactive" ELSE state[h]
      BY <1>7, <2>3 DEF RecordBad
    <3>4. /\ UnderWay(h)' = UnderWay(h) - 1 /\ UnderWay(h) > 0
          /\ UnderWay(h) \in Nat /\ fails[h] \in Nat /\ failing[h] \in Nat
          /\ state[h] \in {"new", "active", "inactive", "gone"}
          /\ tripped[h] \in BOOLEAN
      BY <1>0, <2>1, <2>3
    <3>5. tripped'[h] <=> tripped[h] \/ failing[h] + 1 >= Limit
      BY ONLY <3>2
    <3>6. state[h] # "new"
      BY <1>0, <3>4 DEF HookFine
    <3>7. CASE state[h] = "active"
      BY ONLY <1>0, <3>1, <3>2, <3>3, <3>4, <3>5, <3>7, DeliveriesAssumption DEF HookFine, Exists
    <3>8. CASE state[h] = "inactive"
      BY ONLY <1>0, <3>1, <3>2, <3>3, <3>4, <3>5, <3>8, DeliveriesAssumption DEF HookFine, Exists
    <3>9. CASE state[h] = "gone"
      BY ONLY <1>0, <3>1, <3>2, <3>3, <3>4, <3>9, DeliveriesAssumption DEF HookFine, Exists
    <3> QED
      BY <3>4, <3>6, <3>7, <3>8, <3>9
  <2> QED
    BY <2>2, <2>3
<1>8. ASSUME NEW k \in Hook, RecordFails(k) PROVE HookFine(h)'
  <2>1. /\ h = k => UnderWay(h)' = UnderWay(h) - 1 /\ UnderWay(h) > 0
        /\ h # k => UnderWay(h)' = UnderWay(h)
    BY <1>8, RecordCounts
  <2> QED
    BY <1>0, <1>1, <1>8, <2>1 DEF RecordFails
<1>9. ASSUME NEW k \in Hook, Toggle(k) PROVE HookFine(h)'
  <2>1. UnderWay(h)' = UnderWay(h)
    BY <1>9, SameReaders DEF UnderWay, Toggle
  <2> QED
    BY <1>0, <1>1, <1>9, <2>1 DEF Toggle
<1>10. CASE Crash
  <2>1. Readers(h)' = {}
    BY <1>10 DEF Crash, Readers
  <2>2. UnderWay(h)' = 0
    BY <1>10, <2>1, FS_EmptySet DEF UnderWay, Crash
  <2> QED
    BY <1>0, <1>1, <1>10, <2>2 DEF Crash
<1>11. CASE UNCHANGED hookVars
  <2>1. UnderWay(h)' = UnderWay(h)
    BY <1>11, SameReaders DEF UnderWay, hookVars
  <2> QED
    BY <1>0, <1>1, <1>11, <2>1 DEF hookVars
<1> QED
  BY <1>2, <1>3, <1>4, <1>5, <1>6, <1>7, <1>8, <1>9, <1>10, <1>11
  DEF HookNext, Deliver, RecordWebhookDelivery

\* The strengthened invariant holds in every behaviour.
THEOREM HookInductive == HookSpec => []HookInv
<1>1. HookInv /\ [HookNext]_hookVars => HookInv'
  BY HookTypesStep, HookFineStep DEF HookInv
<1> QED
  BY HookStart, <1>1, PTL DEF HookSpec

\* Every variable has its type, and the count of failures of a hook stays below what
\* was under way when it was switched off added to the limit.
THEOREM HookTypeCorrect == HookSpec => []HookTypeOK
<1>1. HookInv => HookTypeOK
  <2>1. ASSUME HookInv, NEW h \in Hook
        PROVE  /\ fails[h] \in 0..(Limit - 1 + MaxFlight)
               /\ sending[h] \in 0..MaxFlight /\ good[h] \in 0..MaxFlight /\ bad[h] \in 0..MaxFlight
    BY <2>1, UnderWayType, DeliveriesAssumption DEF HookInv, HookTypes, HookFine
  <2> QED
    BY <2>1 DEF HookInv, HookTypes, HookTypeOK
<1> QED
  BY <1>1, HookInductive, PTL

\* In whatever order the outcomes of overlapping deliveries are recorded, and whichever
\* of them are lost, the row of a hook says what the log of its deliveries says.
THEOREM RowCorrect == HookSpec => []RowMatchesLog
<1>1. HookInv => RowMatchesLog
  BY DEF HookInv, HookFine, RowMatchesLog
<1> QED
  BY <1>1, HookInductive, PTL

\* What one step can do to a hook that is off.
LEMMA OffStep ==
  ASSUME HookInv, [HookNext]_hookVars, NEW h \in Hook, Off(h)
  PROVE  Off(h)' /\ UnderWay(h)' <= UnderWay(h)
<1> USE DEF HookInv, HookTypes, hookRow, log, goroutines, bounds, Off
<1>0. UnderWay(h) \in Nat
  BY UnderWayType
<1>1. ASSUME NEW n \in Notifier, MatchingWebhooks(n)
      PROVE  Off(h)' /\ UnderWay(h)' <= UnderWay(h)
  <2>1. UnderWay(h)' = UnderWay(h)
    BY <1>1, ReadCounts DEF Active
  <2> QED
    BY <1>0, <1>1, <2>1 DEF MatchingWebhooks
<1>2. ASSUME NEW n \in Notifier, Dispatch(n)
      PROVE  Off(h)' /\ UnderWay(h)' <= UnderWay(h)
  <2>1. UnderWay(h)' = UnderWay(h)
    BY <1>2, DispatchKeeps
  <2> QED
    BY <1>0, <1>2, <2>1 DEF Dispatch
<1>3. ASSUME NEW k \in Hook, CreateWebhook(k) \/ DeleteWebhook(k) \/ Toggle(k)
      PROVE  Off(h)' /\ UnderWay(h)' <= UnderWay(h)
  <2>1. UnderWay(h)' = UnderWay(h)
    BY <1>3, SameReaders DEF UnderWay, CreateWebhook, DeleteWebhook, Toggle
  <2>2. Off(h)'
    BY <1>3 DEF CreateWebhook, DeleteWebhook, Toggle
  <2> QED
    BY <1>0, <2>1, <2>2
<1>4. ASSUME NEW k \in Hook, Accepted(k) \/ Refused(k)
      PROVE  Off(h)' /\ UnderWay(h)' <= UnderWay(h)
  <2>1. UnderWay(h)' = UnderWay(h)
    BY <1>4, PostKeeps
  <2> QED
    BY <1>0, <1>4, <2>1 DEF Accepted, Refused
<1>5. ASSUME NEW k \in Hook, RecordGood(k) \/ RecordBad(k) \/ RecordFails(k)
      PROVE  Off(h)' /\ UnderWay(h)' <= UnderWay(h)
  <2>1. /\ h = k => UnderWay(h)' = UnderWay(h) - 1 /\ UnderWay(h) > 0
        /\ h # k => UnderWay(h)' = UnderWay(h)
    BY <1>5, RecordCounts
  <2>2. Off(h)'
    BY <1>5 DEF RecordGood, RecordBad, RecordFails
  <2> QED
    BY <1>0, <2>1, <2>2
<1>6. CASE Crash
  <2>1. Readers(h)' = {}
    BY <1>6 DEF Crash, Readers
  <2>2. UnderWay(h)' = 0
    BY <1>6, <2>1, FS_EmptySet DEF UnderWay, Crash
  <2> QED
    BY <1>0, <1>6, <2>2 DEF Crash
<1>7. CASE UNCHANGED hookVars
  <2>1. UnderWay(h)' = UnderWay(h)
    BY <1>7, SameReaders DEF UnderWay, hookVars
  <2> QED
    BY <1>0, <1>7, <2>1 DEF hookVars
<1> QED
  BY <1>1, <1>2, <1>3, <1>4, <1>5, <1>6, <1>7 DEF HookNext, Deliver, RecordWebhookDelivery

\* A hook that was switched off or deleted is never on again, and no step adds to what
\* is under way for it, also not the record of a late success.
THEOREM OffCorrect == HookSpec => StaysOff
<1>1. HookInv /\ [HookNext]_hookVars
      => [\A h \in Hook : Off(h) => Off(h)' /\ UnderWay(h)' <= UnderWay(h)]_hookVars
  BY OffStep
<1> QED
  BY <1>1, HookInductive, PTL DEF HookSpec, StaysOff

\* Every step of the components behind a hook is one of the breaker, or none.
LEMMA BreakerStep == HookInv /\ [HookNext]_hookVars => [Switch!Next]_(Switch!breaker)
<1> SUFFICES ASSUME HookInv, [HookNext]_hookVars
             PROVE  Switch!Next \/ UNCHANGED <<state, failing>>
  BY DEF Switch!breaker
<1> USE DEF hookRow, log
<1>1. ASSUME NEW n \in Notifier, MatchingWebhooks(n) \/ Dispatch(n)
      PROVE  UNCHANGED <<state, failing>>
  BY <1>1 DEF MatchingWebhooks, Dispatch
<1>2. ASSUME NEW h \in Hook, CreateWebhook(h) PROVE Switch!Create(h)
  BY <1>2 DEF CreateWebhook, Switch!Create
<1>3. ASSUME NEW h \in Hook, DeleteWebhook(h) PROVE Switch!Delete(h)
  BY <1>3 DEF DeleteWebhook, Switch!Delete
<1>4. ASSUME NEW h \in Hook, Accepted(h) \/ Refused(h) \/ RecordFails(h) \/ Toggle(h)
      PROVE  UNCHANGED <<state, failing>>
  BY <1>4 DEF Accepted, Refused, RecordFails, Toggle
<1>5. ASSUME NEW h \in Hook, good[h] > 0 \/ bad[h] > 0 PROVE state[h] # "new"
  BY <1>5, UnderWayType DEF HookInv, HookTypes, HookFine
<1>6. ASSUME NEW h \in Hook, RecordGood(h) PROVE Switch!Success(h)
  BY <1>5, <1>6 DEF RecordGood, Switch!Success
<1>7. ASSUME NEW h \in Hook, RecordBad(h) PROVE Switch!Failure(h)
  <2>1. state[h] # "new"
    BY <1>5, <1>7 DEF RecordBad, LogBad
  <2>2. failing' = [failing EXCEPT ![h] = @ + 1]
    BY <1>7 DEF RecordBad, LogBad, More, HookInv, HookTypes
  <2>3. state[h] = "active" => fails[h] = failing[h]
    BY DEF HookInv, HookFine, Exists
  <2>4. state' = IF state[h] = "active" /\ failing[h] + 1 >= Limit
                 THEN [state EXCEPT ![h] = "inactive"]
                 ELSE state
    BY <1>7, <2>3 DEF RecordBad, HookInv, HookTypes
  <2> QED
    BY <2>1, <2>2, <2>4 DEF Switch!Failure
<1>8. CASE Crash
  BY <1>8 DEF Crash
<1>9. CASE UNCHANGED hookVars
  BY <1>9 DEF hookVars
<1> QED
  BY <1>1, <1>2, <1>3, <1>4, <1>6, <1>7, <1>8, <1>9
  DEF HookNext, Deliver, RecordWebhookDelivery, Switch!Next

\* Overlapping deliveries, lost records, crashes and deletions together implement one
\* breaker per hook, which the log of outcomes alone switches off.
THEOREM HookImplements == HookSpec => BreakerSpec
<1>1. HookInit => Switch!Init
  BY DEF HookInit, Switch!Init
<1> QED
  BY <1>1, BreakerStep, HookInductive, PTL DEF HookSpec, BreakerSpec, Switch!Spec
==============================================================================
