----------------------------- MODULE JobsProofs ------------------------------
(***************************************************************************)
(* Proofs about Jobs, for any set of jobs, any finite set of items and any *)
(* batch size.                                                             *)
(***************************************************************************)
EXTENDS Jobs, FiniteSetTheorems, TLAPS

\* A runner holds only rows of its own job that have no outcome yet ...
BatchesUnsettled == \A j \in Job : batch[j] \subseteq ItemsIn(j, Unsettled)

\* ... and the item it is about to mark is one of them, so a mark moves a row
\* from unsettled to settled: no row is counted twice.
CurInBatch == \A j \in Job : pc[j] \in {"markDone", "markFailed"} => cur[j] \in batch[j]

\* Only running rows are reclaimed.
StaleRunning == \A i \in stale : itemStatus[i] = "running"

\* Every row that exists belongs to a job.
RowsOwned == \A i \in Item : owner[i] = NoJob <=> itemStatus[i] = "none"

\* From the count on, a job that was seen finished stays finished.
ClosingSettled ==
  \A j \in Job \ blind :
    status[j] = "done" \/ pc[j] = "complete" => ItemsIn(j, Unsettled) = {}

\* The inductive invariant.
IInv ==
  /\ TypeOK
  /\ BatchesUnsettled
  /\ CurInBatch
  /\ StaleRunning
  /\ RowsOwned
  /\ CountersMatch
  /\ ClosingSettled

\* Rows form a finite set, and marking one more row adds one to its count.
LEMMA ItemsInFinite ==
  ASSUME NEW j, NEW S
  PROVE  IsFiniteSet(ItemsIn(j, S)) /\ Cardinality(ItemsIn(j, S)) \in Nat
<1>1. ItemsIn(j, S) \in SUBSET Item
  BY DEF ItemsIn
<1>2. QED
  BY <1>1, FS_Subset, FS_CardinalityType, JobsAssumption

\* The initial state satisfies the inductive invariant.
LEMMA InitIInv == Init => IInv
<1> SUFFICES ASSUME Init PROVE IInv
  OBVIOUS
<1>1. TypeOK
  BY JobsAssumption DEF Init, TypeOK, Unsettled, Settled
<1>2. \A S : \A j \in Job : ItemsIn(j, S) = {}
  BY JobsAssumption DEF Init, ItemsIn
<1>3. CountersMatch
  BY <1>2, FS_EmptySet DEF Init, CountersMatch
<1>4. QED
  BY <1>1, <1>2, <1>3 DEF Init, IInv, BatchesUnsettled, CurInBatch, StaleRunning,
                          RowsOwned, ClosingSettled

\* The item in hand is a row of the runner's job without an outcome.
LEMMA InHand ==
  ASSUME TypeOK, BatchesUnsettled, CurInBatch,
         NEW j \in Job, pc[j] \in {"markDone", "markFailed"}
  PROVE  cur[j] \in Item /\ owner[cur[j]] = j /\ itemStatus[cur[j]] \in Unsettled
BY DEF TypeOK, BatchesUnsettled, CurInBatch, ItemsIn

\* Every step preserves the types.
LEMMA TypeStep == TypeOK /\ StaleRunning /\ RowsOwned /\ CurInBatch /\ BatchesUnsettled
                    /\ [Next]_vars => TypeOK'
<1> SUFFICES ASSUME TypeOK, StaleRunning, RowsOwned, CurInBatch, BatchesUnsettled, [Next]_vars
             PROVE  TypeOK'
  OBVIOUS
<1> USE JobsAssumption DEF TypeOK, Unsettled, Settled
<1>1. ASSUME NEW j \in Job, NEW S \in SUBSET Item, CreateJob(j, S)
      PROVE  TypeOK'
  BY <1>1 DEF CreateJob, Goto
<1>2. ASSUME NEW j \in Job, Reclaim(j)
      PROVE  TypeOK'
  BY <1>2 DEF Reclaim, Goto, jobRows
<1>3. ASSUME NEW j \in Job, SetJobRunning(j)
      PROVE  TypeOK'
  BY <1>3 DEF SetJobRunning, Goto, itemRows
<1>4. ASSUME NEW j \in Job, ClaimPendingItems(j)
      PROVE  TypeOK'
  BY <1>4 DEF ClaimPendingItems, Claim, ItemsIn, Goto, jobRows
<1>5. ASSUME NEW j \in Job, LoopEnds(j)
      PROVE  TypeOK'
  BY <1>5 DEF LoopEnds, Goto, jobRows, itemRows
<1>6. ASSUME NEW j \in Job, NEW i \in Item, Refresh(j, i)
      PROVE  TypeOK'
  BY <1>6 DEF Refresh, Goto, jobRows, itemRows
<1>7. ASSUME NEW j \in Job, MarkItemDone(j)
      PROVE  TypeOK'
  <2>1. cur[j] \in Item /\ owner[cur[j]] = j
    BY <1>7, InHand DEF MarkItemDone, Goto
  <2>2. QED
    BY <1>7, <2>1 DEF MarkItemDone, Advance, Goto
<1>8. ASSUME NEW j \in Job, MarkItemFailed(j)
      PROVE  TypeOK'
  <2>1. cur[j] \in Item /\ owner[cur[j]] = j
    BY <1>8, InHand DEF MarkItemFailed, Goto
  <2>2. QED
    BY <1>8, <2>1 DEF MarkItemFailed, Advance, Goto
<1>9. ASSUME NEW j \in Job, Count(j)
      PROVE  TypeOK'
  BY <1>9 DEF Count, CountThose, Goto, jobRows, itemRows
<1>10. ASSUME NEW j \in Job, CompleteJob(j)
       PROVE  TypeOK'
  BY <1>10 DEF CompleteJob, Goto, itemRows
<1>11. ASSUME NEW j \in Job, StoreFails(j)
       PROVE  TypeOK'
  BY <1>11 DEF StoreFails, Advance, Goto, jobRows, itemRows
<1>12. ASSUME NEW i \in Item, Age(i)
       PROVE  TypeOK'
  BY <1>12 DEF Age, jobRows, runner
<1>13. CASE Crash
  BY <1>13 DEF Crash, jobRows, itemRows
<1>14. CASE UNCHANGED vars
  BY <1>14 DEF vars
<1>15. QED
  BY <1>1, <1>2, <1>3, <1>4, <1>5, <1>6, <1>7, <1>8, <1>9, <1>10, <1>11, <1>12,
     <1>13, <1>14 DEF Next, RunJob

\* What the runners hold and which rows exist, after any step.
HeldRows == BatchesUnsettled /\ CurInBatch /\ StaleRunning /\ RowsOwned

LEMMA HeldRowsStep == TypeOK /\ HeldRows /\ [Next]_vars => HeldRows'
<1> SUFFICES ASSUME TypeOK, HeldRows, [Next]_vars
             PROVE  HeldRows'
  OBVIOUS
<1> USE JobsAssumption DEF TypeOK, Unsettled, Settled, HeldRows, BatchesUnsettled,
                           CurInBatch, StaleRunning, RowsOwned, ItemsIn
<1>1. ASSUME NEW j \in Job, NEW S \in SUBSET Item, CreateJob(j, S)
      PROVE  HeldRows'
  BY <1>1 DEF CreateJob, Goto
<1>2. ASSUME NEW j \in Job, Reclaim(j)
      PROVE  HeldRows'
  BY <1>2 DEF Reclaim, Goto, jobRows
<1>3. ASSUME NEW j \in Job, SetJobRunning(j)
      PROVE  HeldRows'
  BY <1>3 DEF SetJobRunning, Goto, itemRows
<1>4. ASSUME NEW j \in Job, ClaimPendingItems(j)
      PROVE  HeldRows'
  BY <1>4 DEF ClaimPendingItems, Claim, Goto, jobRows
<1>5. ASSUME NEW j \in Job, LoopEnds(j)
      PROVE  HeldRows'
  BY <1>5 DEF LoopEnds, Goto, jobRows, itemRows
<1>6. ASSUME NEW j \in Job, NEW i \in Item, Refresh(j, i)
      PROVE  HeldRows'
  BY <1>6 DEF Refresh, Goto, jobRows, itemRows
<1>7. ASSUME NEW j \in Job, MarkItemDone(j)
      PROVE  HeldRows'
  BY <1>7, InHand DEF MarkItemDone, Advance, Goto
<1>8. ASSUME NEW j \in Job, MarkItemFailed(j)
      PROVE  HeldRows'
  BY <1>8, InHand DEF MarkItemFailed, Advance, Goto
<1>9. ASSUME NEW j \in Job, Count(j)
      PROVE  HeldRows'
  BY <1>9 DEF Count, CountThose, Goto, jobRows, itemRows
<1>10. ASSUME NEW j \in Job, CompleteJob(j)
       PROVE  HeldRows'
  BY <1>10 DEF CompleteJob, Goto, itemRows
<1>11. ASSUME NEW j \in Job, StoreFails(j)
       PROVE  HeldRows'
  BY <1>11 DEF StoreFails, Advance, Goto, jobRows, itemRows
<1>12. ASSUME NEW i \in Item, Age(i)
       PROVE  HeldRows'
  BY <1>12 DEF Age, jobRows, runner
<1>13. CASE Crash
  BY <1>13 DEF Crash, jobRows, itemRows
<1>14. CASE UNCHANGED vars
  BY <1>14 DEF vars
<1>15. QED
  BY <1>1, <1>2, <1>3, <1>4, <1>5, <1>6, <1>7, <1>8, <1>9, <1>10, <1>11, <1>12,
     <1>13, <1>14 DEF Next, RunJob

\* A step that settles no row and changes no settled row keeps the counters right.
LEMMA SameCounts ==
  ASSUME CountersMatch, UNCHANGED <<doneCount, failedCount>>,
         \A i \in Item : itemStatus[i] \in Settled \/ itemStatus'[i] \in Settled
                        => itemStatus'[i] = itemStatus[i] /\ owner'[i] = owner[i]
  PROVE  CountersMatch'
<1>1. \A j \in Job : /\ ItemsIn(j, {"done"})' = ItemsIn(j, {"done"})
                    /\ ItemsIn(j, {"failed"})' = ItemsIn(j, {"failed"})
  BY DEF ItemsIn, Settled
<1>2. QED
  BY <1>1 DEF CountersMatch

\* Every step keeps the counters right.  Only a mark changes one, by one, and it
\* adds one row, the one in hand, to the rows counted.
LEMMA CountersStep == TypeOK /\ HeldRows /\ CountersMatch /\ [Next]_vars => CountersMatch'
<1> SUFFICES ASSUME TypeOK, HeldRows, CountersMatch, [Next]_vars
             PROVE  CountersMatch'
  OBVIOUS
<1> USE JobsAssumption DEF TypeOK, Unsettled, Settled, HeldRows, BatchesUnsettled,
                           CurInBatch, StaleRunning, RowsOwned
<1>1. ASSUME NEW j \in Job, NEW S \in SUBSET Item, CreateJob(j, S)
      PROVE  CountersMatch'
  BY <1>1, SameCounts DEF CreateJob, Goto
<1>2. ASSUME NEW j \in Job, Reclaim(j)
      PROVE  CountersMatch'
  BY <1>2, SameCounts DEF Reclaim, Goto, jobRows
<1>3. ASSUME NEW j \in Job, SetJobRunning(j)
      PROVE  CountersMatch'
  BY <1>3, SameCounts DEF SetJobRunning, Goto, itemRows
<1>4. ASSUME NEW j \in Job, ClaimPendingItems(j)
      PROVE  CountersMatch'
  BY <1>4, SameCounts DEF ClaimPendingItems, Claim, ItemsIn, Goto, jobRows
<1>5. ASSUME NEW j \in Job, LoopEnds(j)
      PROVE  CountersMatch'
  BY <1>5, SameCounts DEF LoopEnds, Goto, jobRows, itemRows
<1>6. ASSUME NEW j \in Job, NEW i \in Item, Refresh(j, i)
      PROVE  CountersMatch'
  BY <1>6, SameCounts DEF Refresh, Goto, jobRows, itemRows
<1>7. ASSUME NEW j \in Job, MarkItemDone(j)
      PROVE  CountersMatch'
  <2>1. cur[j] \in Item /\ owner[cur[j]] = j /\ itemStatus[cur[j]] \in Unsettled
    BY <1>7, InHand DEF MarkItemDone, Goto
  <2>2. /\ ItemsIn(j, {"done"})' = ItemsIn(j, {"done"}) \cup {cur[j]}
        /\ cur[j] \notin ItemsIn(j, {"done"})
        /\ \A k \in Job \ {j} : ItemsIn(k, {"done"})' = ItemsIn(k, {"done"})
        /\ \A k \in Job : ItemsIn(k, {"failed"})' = ItemsIn(k, {"failed"})
    BY <1>7, <2>1 DEF MarkItemDone, ItemsIn
  <2>3. Cardinality(ItemsIn(j, {"done"})') = Cardinality(ItemsIn(j, {"done"})) + 1
    BY <2>2, ItemsInFinite, FS_AddElement
  <2>4. /\ doneCount' = [doneCount EXCEPT ![j] = @ + 1]
        /\ UNCHANGED failedCount
    BY <1>7, <2>1 DEF MarkItemDone
  <2>5. QED
    BY <2>2, <2>3, <2>4 DEF CountersMatch
<1>8. ASSUME NEW j \in Job, MarkItemFailed(j)
      PROVE  CountersMatch'
  <2>1. cur[j] \in Item /\ owner[cur[j]] = j /\ itemStatus[cur[j]] \in Unsettled
    BY <1>8, InHand DEF MarkItemFailed, Goto
  <2>2. /\ ItemsIn(j, {"failed"})' = ItemsIn(j, {"failed"}) \cup {cur[j]}
        /\ cur[j] \notin ItemsIn(j, {"failed"})
        /\ \A k \in Job \ {j} : ItemsIn(k, {"failed"})' = ItemsIn(k, {"failed"})
        /\ \A k \in Job : ItemsIn(k, {"done"})' = ItemsIn(k, {"done"})
    BY <1>8, <2>1 DEF MarkItemFailed, ItemsIn
  <2>3. Cardinality(ItemsIn(j, {"failed"})') = Cardinality(ItemsIn(j, {"failed"})) + 1
    BY <2>2, ItemsInFinite, FS_AddElement
  <2>4. /\ failedCount' = [failedCount EXCEPT ![j] = @ + 1]
        /\ UNCHANGED doneCount
    BY <1>8, <2>1 DEF MarkItemFailed
  <2>5. QED
    BY <2>2, <2>3, <2>4 DEF CountersMatch
<1>9. ASSUME NEW j \in Job, Count(j)
      PROVE  CountersMatch'
  BY <1>9, SameCounts DEF Count, CountThose, Goto, jobRows, itemRows
<1>10. ASSUME NEW j \in Job, CompleteJob(j)
       PROVE  CountersMatch'
  BY <1>10, SameCounts DEF CompleteJob, Goto, itemRows
<1>11. ASSUME NEW j \in Job, StoreFails(j)
       PROVE  CountersMatch'
  BY <1>11, SameCounts DEF StoreFails, Advance, Goto, jobRows, itemRows
<1>12. ASSUME NEW i \in Item, Age(i)
       PROVE  CountersMatch'
  BY <1>12, SameCounts DEF Age, jobRows, runner
<1>13. CASE Crash
  BY <1>13, SameCounts DEF Crash, jobRows, itemRows
<1>14. CASE UNCHANGED vars
  BY <1>14, SameCounts DEF vars
<1>15. QED
  BY <1>1, <1>2, <1>3, <1>4, <1>5, <1>6, <1>7, <1>8, <1>9, <1>10, <1>11, <1>12,
     <1>13, <1>14 DEF Next, RunJob

\* Every step keeps finished jobs finished: no step gives an unsettled row to a
\* job that has none, except its creation.
LEMMA ClosingStep == TypeOK /\ HeldRows /\ ClosingSettled /\ [Next]_vars => ClosingSettled'
<1> SUFFICES ASSUME TypeOK, HeldRows, ClosingSettled, [Next]_vars
             PROVE  ClosingSettled'
  OBVIOUS
<1> USE JobsAssumption DEF TypeOK, Unsettled, Settled, HeldRows, StaleRunning, RowsOwned,
                           ClosingSettled, ItemsIn
<1>1. ASSUME NEW j \in Job, NEW S \in SUBSET Item, CreateJob(j, S)
      PROVE  ClosingSettled'
  BY <1>1 DEF CreateJob, Goto
<1>2. ASSUME NEW j \in Job, Reclaim(j)
      PROVE  ClosingSettled'
  BY <1>2 DEF Reclaim, Goto, jobRows
<1>3. ASSUME NEW j \in Job, SetJobRunning(j)
      PROVE  ClosingSettled'
  BY <1>3 DEF SetJobRunning, Goto, itemRows
<1>4. ASSUME NEW j \in Job, ClaimPendingItems(j)
      PROVE  ClosingSettled'
  BY <1>4 DEF ClaimPendingItems, Claim, Goto, jobRows
<1>5. ASSUME NEW j \in Job, LoopEnds(j)
      PROVE  ClosingSettled'
  BY <1>5 DEF LoopEnds, Goto, jobRows, itemRows
<1>6. ASSUME NEW j \in Job, NEW i \in Item, Refresh(j, i)
      PROVE  ClosingSettled'
  BY <1>6 DEF Refresh, Goto, jobRows, itemRows
<1>7. ASSUME NEW j \in Job, MarkItemDone(j)
      PROVE  ClosingSettled'
  BY <1>7 DEF MarkItemDone, Advance, Goto
<1>8. ASSUME NEW j \in Job, MarkItemFailed(j)
      PROVE  ClosingSettled'
  BY <1>8 DEF MarkItemFailed, Advance, Goto
<1>9. ASSUME NEW j \in Job, Count(j)
      PROVE  ClosingSettled'
  BY <1>9 DEF Count, CountThose, Goto, jobRows, itemRows
<1>10. ASSUME NEW j \in Job, CompleteJob(j)
       PROVE  ClosingSettled'
  BY <1>10 DEF CompleteJob, Goto, itemRows
<1>11. ASSUME NEW j \in Job, StoreFails(j)
       PROVE  ClosingSettled'
  BY <1>11 DEF StoreFails, Advance, Goto, jobRows, itemRows
<1>12. ASSUME NEW i \in Item, Age(i)
       PROVE  ClosingSettled'
  BY <1>12 DEF Age, jobRows, runner
<1>13. CASE Crash
  BY <1>13 DEF Crash, jobRows, itemRows
<1>14. CASE UNCHANGED vars
  BY <1>14 DEF vars
<1>15. QED
  BY <1>1, <1>2, <1>3, <1>4, <1>5, <1>6, <1>7, <1>8, <1>9, <1>10, <1>11, <1>12,
     <1>13, <1>14 DEF Next, RunJob

\* The inductive invariant holds in every reachable state.
LEMMA Inductive == Spec => []IInv
<1>1. IInv /\ [Next]_vars => IInv'
  BY TypeStep, HeldRowsStep, CountersStep, ClosingStep DEF IInv, HeldRows
<1>2. QED
  BY <1>1, InitIInv, PTL DEF Spec

\* The types hold in every reachable state: no counter goes negative and no row
\* gets a status the API does not know.
THEOREM TypeCorrect == Spec => []TypeOK
BY Inductive, PTL DEF IInv

\* The progress a client polls is right in every reachable state, for any number
\* of jobs, items, crashes and failed store calls.
THEOREM CountersCorrect == Spec => []CountersMatch
BY Inductive, PTL DEF IInv

\* A job shown as done has nothing left to do, unless its count failed.
THEOREM DoneCorrect == Spec => []DoneMeansSettled
<1>1. IInv => DoneMeansSettled
  BY DEF IInv, ClosingSettled, DoneMeansSettled
<1>2. QED
  BY <1>1, Inductive, PTL

\* A finite set cut in three disjoint parts has as many members as they have.
LEMMA ThreeParts ==
  ASSUME NEW A, NEW B, NEW C,
         IsFiniteSet(A), IsFiniteSet(B), IsFiniteSet(C),
         A \cap B = {}, (A \cup B) \cap C = {}
  PROVE  Cardinality(A \cup B \cup C) = Cardinality(A) + Cardinality(B) + Cardinality(C)
<1>1. /\ IsFiniteSet(A \cup B)
      /\ Cardinality(A \cup B) = Cardinality(A) + Cardinality(B)
  <2>1. Cardinality(A \cap B) = 0
    BY FS_EmptySet
  <2>2. Cardinality(A) \in Nat /\ Cardinality(B) \in Nat
    BY FS_CardinalityType
  <2>3. /\ IsFiniteSet(A \cup B)
        /\ Cardinality(A \cup B) = Cardinality(A) + Cardinality(B) - Cardinality(A \cap B)
    BY FS_Union
  <2>4. QED
    BY <2>1, <2>2, <2>3
<1>2. Cardinality((A \cup B) \cap C) = 0
  BY FS_EmptySet
<1>3. Cardinality(A) \in Nat /\ Cardinality(B) \in Nat /\ Cardinality(C) \in Nat
  BY FS_CardinalityType
<1>4. QED
  BY <1>1, <1>2, <1>3, FS_Union

\* Done, failed and open items are all there are, and a finished job has none of
\* the last.
THEOREM ProgressCorrect == Spec => []ProgressAddsUp
<1>1. IInv => ProgressAddsUp
  <2> SUFFICES ASSUME IInv, NEW j \in Job
               PROVE  /\ doneCount[j] + failedCount[j] + Cardinality(ItemsIn(j, Unsettled))
                           = Total(j)
                      /\ status[j] = "done" /\ j \notin blind
                           => doneCount[j] + failedCount[j] = Total(j)
    BY DEF ProgressAddsUp
  <2> DEFINE Good == ItemsIn(j, {"done"})
             Bad  == ItemsIn(j, {"failed"})
             Todo == ItemsIn(j, Unsettled)
  <2>1. /\ IsFiniteSet(Good) /\ Cardinality(Good) \in Nat
        /\ IsFiniteSet(Bad) /\ Cardinality(Bad) \in Nat
        /\ IsFiniteSet(Todo) /\ Cardinality(Todo) \in Nat
    BY ItemsInFinite
  <2>2. Good \cap Bad = {} /\ (Good \cup Bad) \cap Todo = {}
    BY DEF ItemsIn, Unsettled
  <2>3. Rows(j) = Good \cup Bad \cup Todo
    BY JobsAssumption DEF Rows, ItemsIn, IInv, TypeOK, RowsOwned, Unsettled, Settled
  <2>4. Total(j) = Cardinality(Good) + Cardinality(Bad) + Cardinality(Todo)
    BY <2>1, <2>2, <2>3, ThreeParts DEF Total
  <2>5. doneCount[j] = Cardinality(Good) /\ failedCount[j] = Cardinality(Bad)
    BY DEF IInv, CountersMatch
  <2>6. status[j] = "done" /\ j \notin blind => Cardinality(Todo) = 0
    BY FS_EmptySet DEF IInv, ClosingSettled
  <2> HIDE DEF Good, Bad, Todo
  <2>7. Cardinality(ItemsIn(j, Unsettled)) = Cardinality(Todo)
    BY DEF Todo
  <2>8. QED
    BY <2>1, <2>4, <2>5, <2>6, <2>7
<1>2. QED
  BY <1>1, Inductive, PTL

\* No item is worked on by two runners, or after its outcome is recorded.
THEOREM WorkExclusive == Spec => []ExclusiveWork
<1>1. IInv => ExclusiveWork
  BY DEF IInv, TypeOK, BatchesUnsettled, ItemsIn, ExclusiveWork, Unsettled, Settled
<1>2. QED
  BY <1>1, Inductive, PTL

------------------------------------------------------------------------------
(* Outcomes, and the ledger *)

\* Every step keeps the outcomes already recorded.
LEMMA OutcomesStep ==
  ASSUME TypeOK, HeldRows, [Next]_vars,
         NEW i \in Item, itemStatus[i] \in Settled
  PROVE  itemStatus'[i] = itemStatus[i]
<1> USE JobsAssumption DEF TypeOK, Unsettled, Settled, HeldRows, StaleRunning, RowsOwned
<1>1. ASSUME NEW j \in Job, NEW S \in SUBSET Item, CreateJob(j, S)
      PROVE  itemStatus'[i] = itemStatus[i]
  BY <1>1 DEF CreateJob, Goto
<1>2. ASSUME NEW j \in Job, Reclaim(j)
      PROVE  itemStatus'[i] = itemStatus[i]
  BY <1>2 DEF Reclaim, Goto, jobRows
<1>3. ASSUME NEW j \in Job, SetJobRunning(j)
      PROVE  itemStatus'[i] = itemStatus[i]
  BY <1>3 DEF SetJobRunning, Goto, itemRows
<1>4. ASSUME NEW j \in Job, ClaimPendingItems(j)
      PROVE  itemStatus'[i] = itemStatus[i]
  BY <1>4 DEF ClaimPendingItems, Claim, ItemsIn, Goto, jobRows
<1>5. ASSUME NEW j \in Job, LoopEnds(j)
      PROVE  itemStatus'[i] = itemStatus[i]
  BY <1>5 DEF LoopEnds, Goto, jobRows, itemRows
<1>6. ASSUME NEW j \in Job, NEW r \in Item, Refresh(j, r)
      PROVE  itemStatus'[i] = itemStatus[i]
  BY <1>6 DEF Refresh, Goto, jobRows, itemRows
<1>7. ASSUME NEW j \in Job, MarkItemDone(j)
      PROVE  itemStatus'[i] = itemStatus[i]
  BY <1>7, InHand DEF MarkItemDone, Goto
<1>8. ASSUME NEW j \in Job, MarkItemFailed(j)
      PROVE  itemStatus'[i] = itemStatus[i]
  BY <1>8, InHand DEF MarkItemFailed, Goto
<1>9. ASSUME NEW j \in Job, Count(j)
      PROVE  itemStatus'[i] = itemStatus[i]
  BY <1>9 DEF Count, CountThose, Goto, jobRows, itemRows
<1>10. ASSUME NEW j \in Job, CompleteJob(j)
       PROVE  itemStatus'[i] = itemStatus[i]
  BY <1>10 DEF CompleteJob, Goto, itemRows
<1>11. ASSUME NEW j \in Job, StoreFails(j)
       PROVE  itemStatus'[i] = itemStatus[i]
  BY <1>11 DEF StoreFails, Advance, Goto, jobRows, itemRows
<1>12. ASSUME NEW r \in Item, Age(r)
       PROVE  itemStatus'[i] = itemStatus[i]
  BY <1>12 DEF Age, jobRows, runner
<1>13. CASE Crash
  BY <1>13 DEF Crash, jobRows, itemRows
<1>14. CASE UNCHANGED vars
  BY <1>14 DEF vars
<1>15. QED
  BY <1>1, <1>2, <1>3, <1>4, <1>5, <1>6, <1>7, <1>8, <1>9, <1>10, <1>11, <1>12,
     <1>13, <1>14 DEF Next, RunJob

\* No recorded outcome is ever taken back.
THEOREM OutcomesCorrect == Spec => OutcomesFinal
<1>1. IInv /\ [Next]_vars
      => [\A i \in Item : itemStatus[i] \in Settled => itemStatus'[i] = itemStatus[i]]_vars
  BY OutcomesStep DEF IInv, HeldRows
<1>2. QED
  BY <1>1, Inductive, PTL DEF Spec, OutcomesFinal

\* A job has a runner only between its creation and its completion, and rows
\* only from its creation on.
JobPhases ==
  \A j \in Job :
    /\ status[j] \in {"none", "done"} => pc[j] = "off"
    /\ status[j] = "none" => \A i \in Item : owner[i] # j

LEMMA JobPhasesStep == TypeOK /\ HeldRows /\ JobPhases /\ [Next]_vars => JobPhases'
<1> SUFFICES ASSUME TypeOK, HeldRows, JobPhases, [Next]_vars
             PROVE  JobPhases'
  OBVIOUS
<1> USE JobsAssumption DEF TypeOK, Unsettled, Settled, JobPhases
<1>1. ASSUME NEW j \in Job, NEW S \in SUBSET Item, CreateJob(j, S)
      PROVE  JobPhases'
  BY <1>1 DEF CreateJob, Goto
<1>2. ASSUME NEW j \in Job, Reclaim(j)
      PROVE  JobPhases'
  BY <1>2 DEF Reclaim, Goto, jobRows
<1>3. ASSUME NEW j \in Job, SetJobRunning(j)
      PROVE  JobPhases'
  BY <1>3 DEF SetJobRunning, Goto, itemRows
<1>4. ASSUME NEW j \in Job, ClaimPendingItems(j)
      PROVE  JobPhases'
  BY <1>4 DEF ClaimPendingItems, Claim, Goto, jobRows
<1>5. ASSUME NEW j \in Job, LoopEnds(j)
      PROVE  JobPhases'
  BY <1>5 DEF LoopEnds, Goto, jobRows, itemRows
<1>6. ASSUME NEW j \in Job, NEW i \in Item, Refresh(j, i)
      PROVE  JobPhases'
  BY <1>6 DEF Refresh, Goto, jobRows, itemRows
<1>7. ASSUME NEW j \in Job, MarkItemDone(j)
      PROVE  JobPhases'
  BY <1>7 DEF MarkItemDone, Advance, Goto
<1>8. ASSUME NEW j \in Job, MarkItemFailed(j)
      PROVE  JobPhases'
  BY <1>8 DEF MarkItemFailed, Advance, Goto
<1>9. ASSUME NEW j \in Job, Count(j)
      PROVE  JobPhases'
  BY <1>9 DEF Count, CountThose, Goto, jobRows, itemRows
<1>10. ASSUME NEW j \in Job, CompleteJob(j)
       PROVE  JobPhases'
  BY <1>10 DEF CompleteJob, Goto, itemRows
<1>11. ASSUME NEW j \in Job, StoreFails(j)
       PROVE  JobPhases'
  BY <1>11 DEF StoreFails, Advance, Goto, jobRows, itemRows
<1>12. ASSUME NEW i \in Item, Age(i)
       PROVE  JobPhases'
  BY <1>12 DEF Age, jobRows, runner
<1>13. CASE Crash
  BY <1>13 DEF Crash, jobRows, itemRows
<1>14. CASE UNCHANGED vars
  BY <1>14 DEF vars
<1>15. QED
  BY <1>1, <1>2, <1>3, <1>4, <1>5, <1>6, <1>7, <1>8, <1>9, <1>10, <1>11, <1>12,
     <1>13, <1>14 DEF Next, RunJob

LEMMA JobPhasesCorrect == Spec => []JobPhases
<1>1. Init => JobPhases
  BY JobsAssumption DEF Init, JobPhases
<1>2. IInv /\ JobPhases /\ [Next]_vars => JobPhases'
  BY JobPhasesStep DEF IInv, HeldRows
<1>3. QED
  BY <1>1, <1>2, Inductive, PTL DEF Spec

\* No step touches the rows of a job that exists.
LEMMA RowsStep ==
  ASSUME IInv, [Next]_vars, NEW j \in Job, status[j] # "none"
  PROVE  Rows(j)' = Rows(j)
<1>1. SUFFICES ASSUME NEW i \in Item PROVE owner'[i] = j <=> owner[i] = j
  BY DEF Rows
<1>2. CASE \E k \in Job, S \in SUBSET Item : CreateJob(k, S)
  BY <1>2, JobsAssumption DEF CreateJob, IInv, TypeOK
<1>3. CASE \E k \in Job : RunJob(k)
  BY <1>3 DEF RunJob, Reclaim, SetJobRunning, ClaimPendingItems, Claim, LoopEnds, Refresh,
              MarkItemDone, MarkItemFailed, Count, CountThose, CompleteJob, itemRows
<1>4. CASE \E k \in Job : StoreFails(k)
  BY <1>4 DEF StoreFails, itemRows
<1>5. CASE \E r \in Item : Age(r)
  BY <1>5 DEF Age
<1>6. CASE Crash
  BY <1>6 DEF Crash, itemRows
<1>7. CASE UNCHANGED vars
  BY <1>7 DEF vars
<1>8. QED
  BY <1>2, <1>3, <1>4, <1>5, <1>6, <1>7 DEF Next

\* The total of a job is what it was when the job was accepted.
THEOREM RowsCorrect == Spec => RowsFixed
<1>1. IInv /\ [Next]_vars
      => [\A j \in Job : status[j] # "none" => Rows(j)' = Rows(j)]_vars
  BY RowsStep
<1>2. QED
  BY <1>1, Inductive, PTL DEF Spec, RowsFixed

\* No step gives an orphaned job a runner, a status or a count.
LEMMA OrphanStep ==
  ASSUME IInv, [Next]_vars, NEW j \in Job, Orphaned(j)
  PROVE  /\ Orphaned(j)'
         /\ doneCount'[j] = doneCount[j]
         /\ failedCount'[j] = failedCount[j]
<1> DEFINE Kept == /\ status'[j] = status[j]
                   /\ pc'[j] = "off"
                   /\ doneCount'[j] = doneCount[j]
                   /\ failedCount'[j] = failedCount[j]
<1> SUFFICES Kept
  BY DEF Orphaned
<1> USE DEF IInv, TypeOK, Orphaned
<1>1. ASSUME NEW k \in Job, NEW S \in SUBSET Item, CreateJob(k, S)
      PROVE  Kept
  BY <1>1 DEF CreateJob, Goto
<1>2. ASSUME NEW k \in Job, Reclaim(k)
      PROVE  Kept
  BY <1>2 DEF Reclaim, Goto, jobRows
<1>3. ASSUME NEW k \in Job, SetJobRunning(k)
      PROVE  Kept
  BY <1>3 DEF SetJobRunning, Goto
<1>4. ASSUME NEW k \in Job, ClaimPendingItems(k)
      PROVE  Kept
  BY <1>4 DEF ClaimPendingItems, Claim, Goto, jobRows
<1>5. ASSUME NEW k \in Job, LoopEnds(k)
      PROVE  Kept
  BY <1>5 DEF LoopEnds, Goto, jobRows
<1>6. ASSUME NEW k \in Job, NEW i \in Item, Refresh(k, i)
      PROVE  Kept
  BY <1>6 DEF Refresh, Goto, jobRows
<1>7. ASSUME NEW k \in Job, MarkItemDone(k)
      PROVE  Kept
  <2>1. owner[cur[k]] = k /\ k # j
    BY <1>7, InHand DEF MarkItemDone, Goto
  <2>2. QED
    BY <1>7, <2>1 DEF MarkItemDone, Goto
<1>8. ASSUME NEW k \in Job, MarkItemFailed(k)
      PROVE  Kept
  <2>1. owner[cur[k]] = k /\ k # j
    BY <1>8, InHand DEF MarkItemFailed, Goto
  <2>2. QED
    BY <1>8, <2>1 DEF MarkItemFailed, Goto
<1>9. ASSUME NEW k \in Job, Count(k)
      PROVE  Kept
  BY <1>9 DEF Count, CountThose, Goto, jobRows
<1>10. ASSUME NEW k \in Job, CompleteJob(k)
       PROVE  Kept
  BY <1>10 DEF CompleteJob, Goto
<1>11. ASSUME NEW k \in Job, StoreFails(k)
       PROVE  Kept
  BY <1>11 DEF StoreFails, Goto, jobRows
<1>12. ASSUME NEW r \in Item, Age(r)
       PROVE  Kept
  BY <1>12 DEF Age, jobRows, runner
<1>13. CASE Crash
  BY <1>13 DEF Crash, jobRows
<1>14. CASE UNCHANGED vars
  BY <1>14 DEF vars
<1>15. QED
  BY <1>1, <1>2, <1>3, <1>4, <1>5, <1>6, <1>7, <1>8, <1>9, <1>10, <1>11, <1>12,
     <1>13, <1>14 DEF Next, RunJob

\* A job whose runner died is shown as unfinished for ever, with the counts it
\* had: other jobs' reclaims do not help it.
THEOREM OrphansCorrect == Spec => OrphansStay
<1>1. IInv /\ [Next]_vars
      => [\A j \in Job :
            Orphaned(j) => /\ Orphaned(j)'
                           /\ doneCount'[j] = doneCount[j]
                           /\ failedCount'[j] = failedCount[j]]_vars
  BY OrphanStep
<1>2. QED
  BY <1>1, Inductive, PTL DEF Spec, OrphansStay

\* Every step is a step of the ledger, or one the ledger does not see.
LEMMA LedgerStep ==
  ASSUME IInv, JobPhases, [Next]_vars
  PROVE  [Ledger!Next]_Ledger!ledger
<1> USE JobsAssumption DEF IInv, TypeOK, Unsettled, Settled, JobPhases, ClosingSettled,
                           StaleRunning, RowsOwned
<1>1. ASSUME NEW j \in Job, NEW S \in SUBSET Item, CreateJob(j, S)
      PROVE  [Ledger!Next]_Ledger!ledger
  <2>1. /\ ItemsIn(j, Unsettled)' = S
        /\ \A k \in Job \ {j} : ItemsIn(k, Unsettled)' = ItemsIn(k, Unsettled)
        /\ \A k \in Job : S \cap ItemsIn(k, Unsettled) = {}
    BY <1>1 DEF CreateJob, ItemsIn
  <2>2. /\ JobPhase(j) = "none"
        /\ JobPhase(j)' = "open"
        /\ \A k \in Job \ {j} : JobPhase(k)' = JobPhase(k)
    BY <1>1 DEF CreateJob, JobPhase
  <2>3. Ledger!Open(j, S)
    <3>1. [k \in Job |-> ItemsIn(k, Unsettled)]'
          = [[k \in Job |-> ItemsIn(k, Unsettled)] EXCEPT ![j] = S]
      <4> HIDE JobsAssumption DEF IInv, TypeOK, Unsettled, Settled, JobPhases, ClosingSettled,
                                  StaleRunning, RowsOwned
      <4>1. QED
        BY <2>1
    <3>2. [k \in Job |-> JobPhase(k)]' = [[k \in Job |-> JobPhase(k)] EXCEPT ![j] = "open"]
      <4> HIDE JobsAssumption DEF IInv, TypeOK, Unsettled, Settled, JobPhases, ClosingSettled,
                                  StaleRunning, RowsOwned
      <4>1. QED
        BY <2>2
    <3>3. UNCHANGED <<doneCount, failedCount>>
      BY <1>1 DEF CreateJob
    <3>4. QED
      BY <2>1, <2>2, <3>1, <3>2, <3>3 DEF Ledger!Open
  <2>4. QED
    BY <2>3 DEF Ledger!Next
<1>2. ASSUME NEW j \in Job, Reclaim(j)
      PROVE  [Ledger!Next]_Ledger!ledger
  BY <1>2 DEF Reclaim, Goto, jobRows, Ledger!ledger, JobPhase, ItemsIn
<1>3. ASSUME NEW j \in Job, SetJobRunning(j)
      PROVE  [Ledger!Next]_Ledger!ledger
  BY <1>3 DEF SetJobRunning, Goto, itemRows, Ledger!ledger, JobPhase, ItemsIn
<1>4. ASSUME NEW j \in Job, ClaimPendingItems(j)
      PROVE  [Ledger!Next]_Ledger!ledger
  BY <1>4 DEF ClaimPendingItems, Claim, Goto, jobRows, Ledger!ledger, JobPhase, ItemsIn
<1>5. ASSUME NEW j \in Job, LoopEnds(j)
      PROVE  [Ledger!Next]_Ledger!ledger
  BY <1>5 DEF LoopEnds, Goto, jobRows, itemRows, Ledger!ledger, JobPhase, ItemsIn
<1>6. ASSUME NEW j \in Job, NEW i \in Item, Refresh(j, i)
      PROVE  [Ledger!Next]_Ledger!ledger
  BY <1>6 DEF Refresh, Goto, jobRows, itemRows, Ledger!ledger, JobPhase, ItemsIn
<1>7. ASSUME NEW j \in Job, MarkItemDone(j)
      PROVE  [Ledger!Next]_Ledger!ledger
  <2>1. cur[j] \in Item /\ owner[cur[j]] = j /\ itemStatus[cur[j]] \in Unsettled
    BY <1>7, InHand DEF MarkItemDone, Goto
  <2>2. \A k \in Job : ItemsIn(k, Unsettled)'
                        = IF k = j THEN ItemsIn(k, Unsettled) \ {cur[j]}
                          ELSE ItemsIn(k, Unsettled)
    BY <1>7, <2>1 DEF MarkItemDone, ItemsIn
  <2>3. JobPhase(j) = "open" /\ cur[j] \in ItemsIn(j, Unsettled)
    BY <1>7, <2>1 DEF MarkItemDone, Goto, JobPhase, ItemsIn
  <2>4. \A k \in Job : JobPhase(k)' = JobPhase(k)
    BY <1>7 DEF MarkItemDone, JobPhase
  <2>5. /\ doneCount' = [doneCount EXCEPT ![j] = @ + 1]
        /\ UNCHANGED failedCount
    BY <1>7, <2>1 DEF MarkItemDone
  <2>6. Ledger!Settle(j, cur[j])
    <3>1. [k \in Job |-> ItemsIn(k, Unsettled)]'
          = [[k \in Job |-> ItemsIn(k, Unsettled)] EXCEPT ![j] = ItemsIn(j, Unsettled) \ {cur[j]}]
      BY <2>2
    <3>2. [k \in Job |-> JobPhase(k)]' = [k \in Job |-> JobPhase(k)]
      BY <2>4
    <3>3. QED
      BY <2>3, <2>5, <3>1, <3>2 DEF Ledger!Settle
  <2>7. QED
    BY <2>1, <2>6 DEF Ledger!Next
<1>8. ASSUME NEW j \in Job, MarkItemFailed(j)
      PROVE  [Ledger!Next]_Ledger!ledger
  <2>1. cur[j] \in Item /\ owner[cur[j]] = j /\ itemStatus[cur[j]] \in Unsettled
    BY <1>8, InHand DEF MarkItemFailed, Goto
  <2>2. \A k \in Job : ItemsIn(k, Unsettled)'
                        = IF k = j THEN ItemsIn(k, Unsettled) \ {cur[j]}
                          ELSE ItemsIn(k, Unsettled)
    BY <1>8, <2>1 DEF MarkItemFailed, ItemsIn
  <2>3. JobPhase(j) = "open" /\ cur[j] \in ItemsIn(j, Unsettled)
    BY <1>8, <2>1 DEF MarkItemFailed, Goto, JobPhase, ItemsIn
  <2>4. \A k \in Job : JobPhase(k)' = JobPhase(k)
    BY <1>8 DEF MarkItemFailed, JobPhase
  <2>5. /\ failedCount' = [failedCount EXCEPT ![j] = @ + 1]
        /\ UNCHANGED doneCount
    BY <1>8, <2>1 DEF MarkItemFailed
  <2>6. Ledger!Settle(j, cur[j])
    <3>1. [k \in Job |-> ItemsIn(k, Unsettled)]'
          = [[k \in Job |-> ItemsIn(k, Unsettled)] EXCEPT ![j] = ItemsIn(j, Unsettled) \ {cur[j]}]
      BY <2>2
    <3>2. [k \in Job |-> JobPhase(k)]' = [k \in Job |-> JobPhase(k)]
      BY <2>4
    <3>3. QED
      BY <2>3, <2>5, <3>1, <3>2 DEF Ledger!Settle
  <2>7. QED
    BY <2>1, <2>6 DEF Ledger!Next
<1>9. ASSUME NEW j \in Job, Count(j)
      PROVE  [Ledger!Next]_Ledger!ledger
  BY <1>9 DEF Count, CountThose, Goto, jobRows, itemRows, Ledger!ledger, JobPhase, ItemsIn
<1>10. ASSUME NEW j \in Job, CompleteJob(j)
       PROVE  [Ledger!Next]_Ledger!ledger
  <2>1. \A k \in Job : ItemsIn(k, Unsettled)' = ItemsIn(k, Unsettled)
    BY <1>10 DEF CompleteJob, itemRows, ItemsIn
  <2>2. JobPhase(j) = "open" /\ \A k \in Job \ {j} : JobPhase(k)' = JobPhase(k)
    BY <1>10 DEF CompleteJob, Goto, JobPhase
  <2>3. CASE j \in blind
    <3>1. JobPhase(j)' = "open"
      BY <1>10, <2>3 DEF CompleteJob, JobPhase
    <3>2. QED
      BY <1>10, <2>1, <2>2, <3>1 DEF CompleteJob, Ledger!ledger
  <2>4. CASE j \notin blind
    <3>1. /\ ItemsIn(j, Unsettled) = {}
          /\ \A k \in Job : JobPhase(k)' = IF k = j THEN "closed" ELSE JobPhase(k)
      BY <1>10, <2>4 DEF CompleteJob, Goto, JobPhase
    <3>2. [k \in Job |-> JobPhase(k)]' = [[k \in Job |-> JobPhase(k)] EXCEPT ![j] = "closed"]
      BY ONLY <3>1, <1>10
    <3>3. [k \in Job |-> ItemsIn(k, Unsettled)]' = [k \in Job |-> ItemsIn(k, Unsettled)]
      BY <2>1
    <3>4. UNCHANGED <<doneCount, failedCount>>
      BY <1>10 DEF CompleteJob
    <3>5. Ledger!Close(j)
      BY <2>2, <3>1, <3>2, <3>3, <3>4 DEF Ledger!Close
    <3>6. QED
      BY <3>5 DEF Ledger!Next
  <2>5. QED
    BY <2>3, <2>4
<1>11. ASSUME NEW j \in Job, StoreFails(j)
       PROVE  [Ledger!Next]_Ledger!ledger
  BY <1>11 DEF StoreFails, Advance, Goto, jobRows, itemRows, Ledger!ledger, JobPhase, ItemsIn
<1>12. ASSUME NEW i \in Item, Age(i)
       PROVE  [Ledger!Next]_Ledger!ledger
  BY <1>12 DEF Age, jobRows, runner, Ledger!ledger, JobPhase, ItemsIn
<1>13. CASE Crash
  BY <1>13 DEF Crash, jobRows, itemRows, Ledger!ledger, JobPhase, ItemsIn
<1>14. CASE UNCHANGED vars
  BY <1>14 DEF vars, Ledger!ledger, JobPhase, ItemsIn
<1>15. QED
  BY <1>1, <1>2, <1>3, <1>4, <1>5, <1>6, <1>7, <1>8, <1>9, <1>10, <1>11, <1>12,
     <1>13, <1>14 DEF Next, RunJob

\* Jobs implements the ledger: whatever crashes, reclaims and lost marks happen,
\* a client that polls a job sees items settled once each and the job closed
\* only after the last.
THEOREM Implements == Spec => LedgerSpec
<1>1. Init => Ledger!Init
  BY JobsAssumption DEF Init, Ledger!Init, ItemsIn, JobPhase
<1>2. QED
  BY <1>1, LedgerStep, Inductive, JobPhasesCorrect, PTL DEF Spec, LedgerSpec, Ledger!Spec
==============================================================================
