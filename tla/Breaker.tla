------------------------------- MODULE Breaker --------------------------------
(***************************************************************************)
(* What the settings page of a webhook promises, whatever goroutines stand *)
(* behind it: a hook is switched off by the outcome that makes it Limit    *)
(* failures in a row, and by nothing else; once off or deleted it stays    *)
(* so; and there are no outcomes before it exists.                         *)
(***************************************************************************)
EXTENDS Naturals

CONSTANTS
  Hook,   \* ids of webhooks
  Limit   \* failures in a row that switch a hook off

VARIABLES
  state,  \* "new", "active", "inactive" or "gone"
  streak  \* failures since the last success

breaker == <<state, streak>>

Init ==
  /\ state = [h \in Hook |-> "new"]
  /\ streak = [h \in Hook |-> 0]

Create(h) ==
  /\ state[h] = "new"
  /\ state' = [state EXCEPT ![h] = "active"]
  /\ UNCHANGED streak

Delete(h) ==
  /\ state[h] \in {"active", "inactive"}
  /\ state' = [state EXCEPT ![h] = "gone"]
  /\ UNCHANGED streak

Success(h) ==
  /\ state[h] # "new"
  /\ streak' = [streak EXCEPT ![h] = 0]
  /\ UNCHANGED state

Failure(h) ==
  /\ state[h] # "new"
  /\ streak' = [streak EXCEPT ![h] = @ + 1]
  /\ state' = IF state[h] = "active" /\ streak[h] + 1 >= Limit
              THEN [state EXCEPT ![h] = "inactive"]
              ELSE state

Next == \E h \in Hook : Create(h) \/ Delete(h) \/ Success(h) \/ Failure(h)

Spec == Init /\ [][Next]_breaker
==============================================================================
