------------------------------ MODULE JobLedger ------------------------------
(***************************************************************************)
(* What GET /v1/jobs/{id} promises about an asynchronous job, whatever     *)
(* goroutines, retries and restarts lie behind it: a job is opened once    *)
(* with a fixed set of items, every item is settled at most once, each     *)
(* settlement moves exactly one of the two counters by exactly one, and    *)
(* the job is closed only when nothing is left to settle.                  *)
(***************************************************************************)
EXTENDS Naturals, FiniteSets

CONSTANTS
  Job,   \* job ids
  Item   \* item ids

VARIABLES
  phase, \* phase[j]: "none", "open" or "closed"
  todo,  \* todo[j]: the items of j not yet settled
  good,  \* good[j]: how many were settled with success
  bad    \* bad[j]: how many were settled with a failure

ledger == <<phase, todo, good, bad>>

Init ==
  /\ phase = [j \in Job |-> "none"]
  /\ todo = [j \in Job |-> {}]
  /\ good = [j \in Job |-> 0]
  /\ bad = [j \in Job |-> 0]

Open(j, S) ==
  /\ phase[j] = "none"
  /\ \A k \in Job : S \cap todo[k] = {}
  /\ phase' = [phase EXCEPT ![j] = "open"]
  /\ todo' = [todo EXCEPT ![j] = S]
  /\ UNCHANGED <<good, bad>>

Settle(j, i) ==
  /\ phase[j] = "open"
  /\ i \in todo[j]
  /\ todo' = [todo EXCEPT ![j] = @ \ {i}]
  /\ \/ good' = [good EXCEPT ![j] = @ + 1] /\ UNCHANGED bad
     \/ bad' = [bad EXCEPT ![j] = @ + 1] /\ UNCHANGED good
  /\ UNCHANGED phase

Close(j) ==
  /\ phase[j] = "open"
  /\ todo[j] = {}
  /\ phase' = [phase EXCEPT ![j] = "closed"]
  /\ UNCHANGED <<todo, good, bad>>

Next ==
  \E j \in Job :
    \/ \E S \in SUBSET Item : Open(j, S)
    \/ \E i \in Item : Settle(j, i)
    \/ Close(j)

Spec == Init /\ [][Next]_ledger
==============================================================================
