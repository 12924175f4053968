-------------------------------- MODULE Jobs ---------------------------------
(***************************************************************************)
(* Asynchronous jobs (OPML import, bulk discovery).  The handler commits a *)
(* job and its items in one transaction and starts one goroutine, runJob,  *)
(* that claims items in batches, refreshes the feed of each, records the   *)
(* outcome, and at the end closes the job if nothing is left.              *)
(*                                                                         *)
(* The two tables survive a crash; the goroutines do not, and nothing      *)
(* starts them again.  Every call into the store can fail: a transaction   *)
(* rolls back, and runJob ignores the error.                               *)
(***************************************************************************)
EXTENDS Naturals, FiniteSets

CONSTANTS
  Job,        \* ids a job may be given
  Item,       \* ids an item row may be given
  NoJob,      \* owner of an item row that does not exist
  NoItem,     \* "no item in hand"
  Batch,      \* items claimed at a time (runJob passes 8)
  MaxFaults,  \* bound: store calls that fail
  MaxCrashes  \* bound: process deaths

ASSUME JobsAssumption ==
  /\ IsFiniteSet(Item)
  /\ NoJob \notin Job
  /\ NoItem \notin Item
  /\ Batch \in Nat \ {0}
  /\ MaxFaults \in Nat
  /\ MaxCrashes \in Nat

VARIABLES
  (* async_jobs *)
  status,       \* status[j], "none" before the row exists
  doneCount,    \* done_count
  failedCount,  \* failed_count
  (* async_job_items *)
  owner,        \* job_id
  itemStatus,   \* status, "none" before the row exists
  stale,        \* running rows whose updated_at is older than 15 minutes
  (* runJob goroutines, one per job *)
  pc,
  batch,        \* items claimed and not yet processed
  cur,          \* the item just refreshed, whose outcome is to be recorded
  (* history and bounds *)
  blind,        \* jobs closed on the zero that a failed count returns
  faults,
  crashes

jobRows == <<status, doneCount, failedCount>>
itemRows == <<owner, itemStatus, stale>>
runner == <<pc, batch, cur>>
vars == <<status, doneCount, failedCount, owner, itemStatus, stale,
          pc, batch, cur, blind, faults, crashes>>

Settled == {"done", "failed"}
Unsettled == {"pending", "running"}

\* The rows of job j whose status is in S.
ItemsIn(j, S) == {i \in Item : owner[i] = j /\ itemStatus[i] \in S}

Init ==
  /\ status = [j \in Job |-> "none"]
  /\ doneCount = [j \in Job |-> 0]
  /\ failedCount = [j \in Job |-> 0]
  /\ owner = [i \in Item |-> NoJob]
  /\ itemStatus = [i \in Item |-> "none"]
  /\ stale = {}
  /\ pc = [j \in Job |-> "off"]
  /\ batch = [j \in Job |-> {}]
  /\ cur = [j \in Job |-> NoItem]
  /\ blind = {}
  /\ faults = 0
  /\ crashes = 0

Goto(j, from, to) == pc[j] = from /\ pc' = [pc EXCEPT ![j] = to]

\* bulkDiscover and importOPML: one transaction, then "go s.runJob".  S may be
\* empty (every URL was refused by the filter).
CreateJob(j, S) ==
  /\ status[j] = "none"
  /\ \A i \in S : owner[i] = NoJob
  /\ status' = [status EXCEPT ![j] = "pending"]
  /\ owner' = [i \in Item |-> IF i \in S THEN j ELSE owner[i]]
  /\ itemStatus' = [i \in Item |-> IF i \in S THEN "pending" ELSE itemStatus[i]]
  /\ Goto(j, "off", "reclaim")
  /\ UNCHANGED <<doneCount, failedCount, stale, batch, cur, blind, faults, crashes>>

\* ReclaimStaleJobItems: the rows of every job, not only j's.
Reclaim(j) ==
  /\ Goto(j, "reclaim", "setRunning")
  /\ itemStatus' = [i \in Item |-> IF i \in stale THEN "pending" ELSE itemStatus[i]]
  /\ stale' = {}
  /\ UNCHANGED <<jobRows, owner, batch, cur, blind, faults, crashes>>

SetJobRunning(j) ==
  /\ Goto(j, "setRunning", "loop")
  /\ status' = [status EXCEPT ![j] = "running"]
  /\ UNCHANGED <<doneCount, failedCount, itemRows, batch, cur, blind, faults, crashes>>

\* What a claim does to the rows it finds claimable.
Claim(j, claimable) ==
  /\ batch[j] = {}
  /\ claimable # {}
  /\ \E S \in SUBSET claimable :
       /\ Cardinality(S) <= Batch
       /\ Cardinality(S) = Batch \/ S = claimable
       /\ batch' = [batch EXCEPT ![j] = S]
       /\ itemStatus' = [i \in Item |-> IF i \in S THEN "running" ELSE itemStatus[i]]
  /\ Goto(j, "loop", "loop")
  /\ UNCHANGED <<jobRows, owner, stale, cur, blind, faults, crashes>>

\* Mutant: the claim's SELECT has lost "job_id=?".
ClaimPendingItems_AnyJob(j) == Claim(j, {i \in Item : itemStatus[i] = "pending"})

\* Mutant: a job retries its failed items.
ClaimPendingItems_Retry(j) == Claim(j, ItemsIn(j, {"pending", "failed"}))

\* ClaimPendingItems: up to Batch pending rows of j, in no particular order.
ClaimPendingItems(j) == Claim(j, ItemsIn(j, {"pending"}))

\* ... or none is left and the loop ends.
LoopEnds(j) ==
  /\ batch[j] = {}
  /\ ItemsIn(j, {"pending"}) = {}
  /\ Goto(j, "loop", "count")
  /\ UNCHANGED <<jobRows, itemRows, batch, cur, blind, faults, crashes>>

\* pool.RefreshFeed returned, with an error or without.
Refresh(j, i) ==
  /\ i \in batch[j]
  /\ \/ Goto(j, "loop", "markDone")
     \/ Goto(j, "loop", "markFailed")
  /\ cur' = [cur EXCEPT ![j] = i]
  /\ UNCHANGED <<jobRows, itemRows, batch, blind, faults, crashes>>

\* The runner lets go of the item in hand and takes the next.
Advance(j) ==
  /\ batch' = [batch EXCEPT ![j] = @ \ {cur[j]}]
  /\ cur' = [cur EXCEPT ![j] = NoItem]

\* MarkItemDone: the row and the counter of the row's job, in one transaction.
MarkItemDone(j) ==
  /\ Goto(j, "markDone", "loop")
  /\ itemStatus' = [itemStatus EXCEPT ![cur[j]] = "done"]
  /\ stale' = stale \ {cur[j]}
  /\ doneCount' = [doneCount EXCEPT ![owner[cur[j]]] = @ + 1]
  /\ Advance(j)
  /\ UNCHANGED <<status, failedCount, owner, blind, faults, crashes>>

\* Mutant: a failed item is put back for another try.
MarkItemFailed_Requeue(j) ==
  /\ Goto(j, "markFailed", "loop")
  /\ itemStatus' = [itemStatus EXCEPT ![cur[j]] = "pending"]
  /\ stale' = stale \ {cur[j]}
  /\ Advance(j)
  /\ UNCHANGED <<jobRows, owner, blind, faults, crashes>>

MarkItemFailed(j) ==
  /\ Goto(j, "markFailed", "loop")
  /\ itemStatus' = [itemStatus EXCEPT ![cur[j]] = "failed"]
  /\ stale' = stale \ {cur[j]}
  /\ failedCount' = [failedCount EXCEPT ![owner[cur[j]]] = @ + 1]
  /\ Advance(j)
  /\ UNCHANGED <<status, doneCount, owner, blind, faults, crashes>>

\* The end of runJob when "remaining" counts the rows whose status is in S.
CountThose(j, S) ==
  /\ \/ ItemsIn(j, S) = {} /\ Goto(j, "count", "complete")
     \/ ItemsIn(j, S) # {} /\ Goto(j, "count", "off")
  /\ UNCHANGED <<jobRows, itemRows, batch, cur, blind, faults, crashes>>

\* Mutant: running items are not counted.
Count_PendingOnly(j) == CountThose(j, {"pending"})

\* Mutant: everything but "done" is counted.
Count_NotDone(j) == CountThose(j, Unsettled \cup {"failed"})

\* JobPendingRemaining, and the test on what it returns.
Count(j) == CountThose(j, Unsettled)

\* Mutant: the job ends in a status of its own when the count is zero.
CompleteJob_Closed(j) ==
  /\ Goto(j, "complete", "off")
  /\ status' = [status EXCEPT ![j] = "closed"]
  /\ UNCHANGED <<doneCount, failedCount, itemRows, batch, cur, blind, faults, crashes>>

CompleteJob(j) ==
  /\ Goto(j, "complete", "off")
  /\ status' = [status EXCEPT ![j] = "done"]
  /\ UNCHANGED <<doneCount, failedCount, itemRows, batch, cur, blind, faults, crashes>>

\* Mutant: a mark is two statements, and the second, on the row, is lost.
StoreFails_CounterKept(j) ==
  /\ faults < MaxFaults
  /\ faults' = faults + 1
  /\ Goto(j, "markDone", "loop")
  /\ doneCount' = [doneCount EXCEPT ![owner[cur[j]]] = @ + 1]
  /\ Advance(j)
  /\ UNCHANGED <<status, failedCount, itemRows, blind, crashes>>

\* A store call of runJob fails.  The transaction leaves no trace; runJob goes
\* on as if it had succeeded, except that a failed claim ends the loop.  A
\* failed count leaves 0 in "remaining", so the job is closed unseen.
StoreFails(j) ==
  /\ faults < MaxFaults
  /\ faults' = faults + 1
  /\ \/ /\ \/ Goto(j, "reclaim", "setRunning")
           \/ Goto(j, "setRunning", "loop")
           \/ batch[j] = {} /\ Goto(j, "loop", "count")
           \/ Goto(j, "complete", "off")
        /\ UNCHANGED <<batch, cur, blind>>
     \/ /\ \/ Goto(j, "markDone", "loop")
           \/ Goto(j, "markFailed", "loop")
        /\ Advance(j)
        /\ UNCHANGED blind
     \/ /\ Goto(j, "count", "complete")
        /\ blind' = blind \cup {j}
        /\ UNCHANGED <<batch, cur>>
  /\ UNCHANGED <<jobRows, itemRows, crashes>>

\* Fifteen minutes pass since the row was last written.  Its runner may be dead
\* or merely slow: a batch is worked through one item at a time.
Age(i) ==
  /\ itemStatus[i] = "running"
  /\ i \notin stale
  /\ stale' = stale \cup {i}
  /\ UNCHANGED <<jobRows, owner, itemStatus, runner, blind, faults, crashes>>

\* The process dies or is stopped: runJob uses context.Background and nobody
\* waits for it.  The tables stay; the next process starts no runner for them.
Crash ==
  /\ crashes < MaxCrashes
  /\ crashes' = crashes + 1
  /\ pc' = [j \in Job |-> "off"]
  /\ batch' = [j \in Job |-> {}]
  /\ cur' = [j \in Job |-> NoItem]
  /\ UNCHANGED <<jobRows, itemRows, blind, faults>>

RunJob(j) ==
  \/ Reclaim(j)
  \/ SetJobRunning(j)
  \/ ClaimPendingItems(j)
  \/ LoopEnds(j)
  \/ \E i \in Item : Refresh(j, i)
  \/ MarkItemDone(j)
  \/ MarkItemFailed(j)
  \/ Count(j)
  \/ CompleteJob(j)

Next ==
  \/ \E j \in Job, S \in SUBSET Item : CreateJob(j, S)
  \/ \E j \in Job : RunJob(j)
  \/ \E j \in Job : StoreFails(j)
  \/ \E i \in Item : Age(i)
  \/ Crash

\* The Go scheduler runs every runnable goroutine, and every fetch returns (its
\* HTTP client has a timeout; HostGate shows where that is not enough).
Fairness == \A j \in Job : WF_vars(RunJob(j) \/ StoreFails(j))

Spec == Init /\ [][Next]_vars /\ Fairness

------------------------------------------------------------------------------
(* Properties *)

\* Every variable has its type.
TypeOK ==
  /\ status \in [Job -> {"none", "pending", "running", "done"}]
  /\ doneCount \in [Job -> Nat]
  /\ failedCount \in [Job -> Nat]
  /\ owner \in [Item -> Job \cup {NoJob}]
  /\ itemStatus \in [Item -> {"none"} \cup Unsettled \cup Settled]
  /\ stale \in SUBSET Item
  /\ pc \in [Job -> {"off", "reclaim", "setRunning", "loop", "markDone",
                     "markFailed", "count", "complete"}]
  /\ batch \in [Job -> SUBSET Item]
  /\ cur \in [Job -> Item \cup {NoItem}]
  /\ blind \in SUBSET Job
  /\ faults \in 0..MaxFaults
  /\ crashes \in 0..MaxCrashes

\* The progress that GET /v1/jobs/{id} shows is the truth about the items:
\* done_count and failed_count, which are only ever incremented, equal the
\* number of rows in those states, although rows are reclaimed while their
\* runner is still working on them, marks are lost and runners die.
CountersMatch ==
  \A j \in Job :
    /\ doneCount[j] = Cardinality(ItemsIn(j, {"done"}))
    /\ failedCount[j] = Cardinality(ItemsIn(j, {"failed"}))

\* A job shown as done has no item left to do: nothing between the count and
\* CompleteJob, a reclaim included, can reopen one.  The one exception is a
\* count that failed (runJob drops that error).
DoneMeansSettled ==
  \A j \in Job :
    status[j] = "done" /\ j \notin blind => ItemsIn(j, Unsettled) = {}

\* The rows of a job, and how many they are: the column "total" is written with
\* them, in the transaction that creates the job, and never again.
Rows(j) == {i \in Item : owner[i] = j}

Total(j) == Cardinality(Rows(j))

\* The three numbers of a job's progress add up at every moment, so "done + failed
\* of total" never overshoots, and a job shown as done shows all of its items,
\* except if its count failed.
ProgressAddsUp ==
  \A j \in Job :
    /\ doneCount[j] + failedCount[j] + Cardinality(ItemsIn(j, Unsettled)) = Total(j)
    /\ status[j] = "done" /\ j \notin blind => doneCount[j] + failedCount[j] = Total(j)

\* A job that was accepted keeps its rows: none is added, lost or moved to
\* another job.
RowsFixed == [][\A j \in Job : status[j] # "none" => Rows(j)' = Rows(j)]_vars

\* A job that lost its runner before it was done.
Orphaned(j) == status[j] \in {"pending", "running"} /\ pc[j] = "off"

\* Nobody adopts such a job: another job's runner may reclaim its rows, but none
\* works on them, and what it shows stays as it is.
OrphansStay ==
  [][\A j \in Job :
       Orphaned(j) => /\ Orphaned(j)'
                      /\ doneCount'[j] = doneCount[j]
                      /\ failedCount'[j] = failedCount[j]]_vars

\* Nobody works twice at a time on an item, and nobody works on an item whose
\* outcome is already recorded: reclaiming a slow runner's rows must not hand
\* them to a second runner.
ExclusiveWork ==
  \A j \in Job : \A i \in batch[j] :
    /\ itemStatus[i] \notin Settled
    /\ \A k \in Job \ {j} : i \notin batch[k]

\* An outcome once recorded is never taken back, not by a reclaim and not by a
\* second runner.
OutcomesFinal ==
  [][\A i \in Item : itemStatus[i] \in Settled => itemStatus'[i] = itemStatus[i]]_vars

\* A runner always comes to an end, even if its items are reclaimed under it,
\* its marks are lost and it has to claim the same items again.
RunnerEnds == \A j \in Job : pc[j] # "off" ~> pc[j] = "off"

\* A job that was accepted gets done, whatever other jobs reclaim meanwhile and
\* whatever an earlier process left behind, unless a store call failed or its
\* own runner died with the process.
JobSettles ==
  \A j \in Job :
    status[j] = "pending" ~>
      \/ status[j] = "done"
      \/ faults > 0
      \/ crashes > 0 /\ pc[j] = "off"

\* The ledger a client sees: a job is open from its creation until a count that
\* really was read said that nothing is left.
JobPhase(j) ==
  CASE status[j] = "none" -> "none"
    [] status[j] = "done" /\ j \notin blind -> "closed"
    [] OTHER -> "open"

Ledger == INSTANCE JobLedger WITH
  phase <- [j \in Job |-> JobPhase(j)],
  todo <- [j \in Job |-> ItemsIn(j, Unsettled)],
  good <- doneCount,
  bad <- failedCount

\* Jobs implements the ledger.
LedgerSpec == Ledger!Spec
==============================================================================
