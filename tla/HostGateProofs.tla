--------------------------- MODULE HostGateProofs ----------------------------
(***************************************************************************)
(* Proofs about HostGate, for any number of callers and any settings.      *)
(***************************************************************************)
EXTENDS HostGate, FiniteSetTheorems, TLAPS

\* Which slots a caller holds, by what it waits for.  A caller inside the second
\* getOnce holds the slot of the first throughout.
Holds ==
  \A c \in Caller :
    /\ pc[c] = "idle" => c \notin outer \cup inner \cup retrying
    /\ pc[c] = "slot" => c \notin inner /\ (c \in outer <=> c \in retrying)
    /\ pc[c] \in {"token", "gap", "sleep", "request"}
         => c \in outer /\ (c \in inner <=> c \in retrying)
    /\ pc[c] = "backoff" => c \in outer /\ c \notin inner /\ c \notin retrying

\* The inductive invariant of the semaphore.
IInv == TypeOK /\ Holds /\ Used <= Slots

\* Counting the slots in use.
LEMMA UsedType ==
  ASSUME TypeOK
  PROVE  /\ IsFiniteSet(outer) /\ Cardinality(outer) \in Nat
         /\ IsFiniteSet(inner) /\ Cardinality(inner) \in Nat
         /\ Used \in Nat
<1>1. IsFiniteSet(outer) /\ IsFiniteSet(inner)
  BY FS_Subset, HostGateAssumption DEF TypeOK
<1>2. QED
  BY <1>1, FS_CardinalityType DEF Used

\* Giving a slot back leaves no more than before.
LEMMA Released ==
  ASSUME NEW S, NEW x, IsFiniteSet(S)
  PROVE  Cardinality(S \ {x}) <= Cardinality(S) /\ Cardinality(S \ {x}) \in Nat
<1>1. S \ {x} \in SUBSET S
  OBVIOUS
<1>2. IsFiniteSet(S \ {x}) /\ Cardinality(S \ {x}) <= Cardinality(S)
  BY <1>1, FS_Subset
<1>3. QED
  BY <1>2, FS_CardinalityType

LEMMA InitIInv == Init => IInv
<1> SUFFICES ASSUME Init PROVE IInv
  OBVIOUS
<1>1. Used = 0
  BY FS_EmptySet DEF Init, Used
<1>2. QED
  BY <1>1, HostGateAssumption DEF Init, IInv, TypeOK, Holds

\* Every step preserves the types.
LEMMA TypeStep == TypeOK /\ [Next]_vars => TypeOK'
<1> SUFFICES ASSUME TypeOK, [Next]_vars
             PROVE  TypeOK'
  OBVIOUS
<1> USE HostGateAssumption DEF TypeOK
<1>1. ASSUME NEW c \in Caller, Get(c)
      PROVE  TypeOK'
  BY <1>1 DEF Get, Goto
<1>2. ASSUME NEW c \in Caller, AcquireSlot(c)
      PROVE  TypeOK'
  BY <1>2 DEF AcquireSlot, Goto
<1>3. ASSUME NEW c \in Caller, TakeToken(c)
      PROVE  TypeOK'
  BY <1>3 DEF TakeToken, Goto
<1>4. ASSUME NEW c \in Caller, GapOver(c)
      PROVE  TypeOK'
  BY <1>4 DEF GapOver, Send
<1>5. ASSUME NEW c \in Caller, GapSleep(c)
      PROVE  TypeOK'
  BY <1>5 DEF GapSleep, Goto
<1>6. ASSUME NEW c \in Caller, Wake(c)
      PROVE  TypeOK'
  BY <1>6 DEF Wake, Send
<1>7. ASSUME NEW c \in Caller, Respond(c)
      PROVE  TypeOK'
  BY <1>7 DEF Respond, Return
<1>8. ASSUME NEW c \in Caller, TooManyRequests(c)
      PROVE  TypeOK'
  BY <1>8 DEF TooManyRequests, Goto
<1>9. ASSUME NEW c \in Caller, Retry(c)
      PROVE  TypeOK'
  BY <1>9 DEF Retry, Goto
<1>10. ASSUME NEW c \in Caller, GiveUp(c)
       PROVE  TypeOK'
  BY <1>10 DEF GiveUp, Return
<1>11. ASSUME NEW c \in Caller, Cancel(c)
       PROVE  TypeOK'
  BY <1>11 DEF Cancel
<1>12. CASE Refill
  BY <1>12 DEF Refill
<1>13. CASE Tick
  BY <1>13 DEF Tick
<1>14. CASE UNCHANGED vars
  BY <1>14 DEF vars
<1>15. QED
  BY <1>1, <1>2, <1>3, <1>4, <1>5, <1>6, <1>7, <1>8, <1>9, <1>10, <1>11, <1>12,
     <1>13, <1>14 DEF Next, Proceed

\* Every step keeps the book of who holds what.
LEMMA HoldsStep == TypeOK /\ Holds /\ [Next]_vars => Holds'
<1> SUFFICES ASSUME TypeOK, Holds, [Next]_vars
             PROVE  Holds'
  OBVIOUS
<1> USE HostGateAssumption DEF TypeOK, Holds
<1>1. ASSUME NEW c \in Caller, Get(c)
      PROVE  Holds'
  BY <1>1 DEF Get, Goto
<1>2. ASSUME NEW c \in Caller, AcquireSlot(c)
      PROVE  Holds'
  BY <1>2 DEF AcquireSlot, Goto
<1>3. ASSUME NEW c \in Caller, TakeToken(c)
      PROVE  Holds'
  BY <1>3 DEF TakeToken, Goto
<1>4. ASSUME NEW c \in Caller, GapOver(c)
      PROVE  Holds'
  BY <1>4 DEF GapOver, Send
<1>5. ASSUME NEW c \in Caller, GapSleep(c)
      PROVE  Holds'
  BY <1>5 DEF GapSleep, Goto
<1>6. ASSUME NEW c \in Caller, Wake(c)
      PROVE  Holds'
  BY <1>6 DEF Wake, Send
<1>7. ASSUME NEW c \in Caller, Respond(c)
      PROVE  Holds'
  BY <1>7 DEF Respond, Return
<1>8. ASSUME NEW c \in Caller, TooManyRequests(c)
      PROVE  Holds'
  BY <1>8 DEF TooManyRequests, Goto
<1>9. ASSUME NEW c \in Caller, Retry(c)
      PROVE  Holds'
  BY <1>9 DEF Retry, Goto
<1>10. ASSUME NEW c \in Caller, GiveUp(c)
       PROVE  Holds'
  BY <1>10 DEF GiveUp, Return
<1>11. ASSUME NEW c \in Caller, Cancel(c)
       PROVE  Holds'
  BY <1>11 DEF Cancel
<1>12. CASE Refill
  BY <1>12 DEF Refill
<1>13. CASE Tick
  BY <1>13 DEF Tick
<1>14. CASE UNCHANGED vars
  BY <1>14 DEF vars
<1>15. QED
  BY <1>1, <1>2, <1>3, <1>4, <1>5, <1>6, <1>7, <1>8, <1>9, <1>10, <1>11, <1>12,
     <1>13, <1>14 DEF Next, Proceed

\* No step takes a slot that is not there.
LEMMA UsedStep == TypeOK /\ Used <= Slots /\ [Next]_vars => Used' <= Slots
<1> SUFFICES ASSUME TypeOK, Used <= Slots, [Next]_vars
             PROVE  Used' <= Slots
  OBVIOUS
<1> USE HostGateAssumption
<1>0. /\ IsFiniteSet(outer) /\ Cardinality(outer) \in Nat
      /\ IsFiniteSet(inner) /\ Cardinality(inner) \in Nat
  BY UsedType
<1>1. ASSUME NEW c \in Caller, Get(c)
      PROVE  Used' <= Slots
  BY <1>1 DEF Get, Goto, Used
<1>2. ASSUME NEW c \in Caller, AcquireSlot(c)
      PROVE  Used' <= Slots
  <2>1. CASE c \notin retrying /\ outer' = outer \cup {c} /\ UNCHANGED inner
    <3>1. Cardinality(outer \cup {c}) = Cardinality(outer) \/ Cardinality(outer \cup {c}) = Cardinality(outer) + 1
      BY <1>0, FS_AddElement
    <3>2. QED
      BY <1>0, <1>2, <2>1, <3>1 DEF AcquireSlot, Used
  <2>2. CASE c \in retrying /\ inner' = inner \cup {c} /\ UNCHANGED outer
    <3>1. Cardinality(inner \cup {c}) = Cardinality(inner) \/ Cardinality(inner \cup {c}) = Cardinality(inner) + 1
      BY <1>0, FS_AddElement
    <3>2. QED
      BY <1>0, <1>2, <2>2, <3>1 DEF AcquireSlot, Used
  <2>3. QED
    BY <1>2, <2>1, <2>2 DEF AcquireSlot
<1>3. ASSUME NEW c \in Caller, TakeToken(c)
      PROVE  Used' <= Slots
  BY <1>3 DEF TakeToken, Goto, Used
<1>4. ASSUME NEW c \in Caller, GapOver(c)
      PROVE  Used' <= Slots
  BY <1>4 DEF GapOver, Send, Used
<1>5. ASSUME NEW c \in Caller, GapSleep(c)
      PROVE  Used' <= Slots
  BY <1>5 DEF GapSleep, Goto, Used
<1>6. ASSUME NEW c \in Caller, Wake(c)
      PROVE  Used' <= Slots
  BY <1>6 DEF Wake, Send, Used
<1>7. ASSUME NEW c \in Caller, Respond(c)
      PROVE  Used' <= Slots
  <2>1. Cardinality(outer \ {c}) <= Cardinality(outer) /\ Cardinality(outer \ {c}) \in Nat
    BY <1>0, Released
  <2>2. Cardinality(inner \ {c}) <= Cardinality(inner) /\ Cardinality(inner \ {c}) \in Nat
    BY <1>0, Released
  <2>3. QED
    BY <1>7, <1>0, <2>1, <2>2 DEF Respond, Return, Used
<1>8. ASSUME NEW c \in Caller, TooManyRequests(c)
      PROVE  Used' <= Slots
  BY <1>8 DEF TooManyRequests, Goto, Used
<1>9. ASSUME NEW c \in Caller, Retry(c)
      PROVE  Used' <= Slots
  BY <1>9 DEF Retry, Goto, Used
<1>10. ASSUME NEW c \in Caller, GiveUp(c)
       PROVE  Used' <= Slots
  <2>1. Cardinality(outer \ {c}) <= Cardinality(outer) /\ Cardinality(outer \ {c}) \in Nat
    BY <1>0, Released
  <2>2. Cardinality(inner \ {c}) <= Cardinality(inner) /\ Cardinality(inner \ {c}) \in Nat
    BY <1>0, Released
  <2>3. QED
    BY <1>10, <1>0, <2>1, <2>2 DEF GiveUp, Return, Used
<1>11. ASSUME NEW c \in Caller, Cancel(c)
       PROVE  Used' <= Slots
  BY <1>11 DEF Cancel, Used
<1>12. CASE Refill
  BY <1>12 DEF Refill, Used
<1>13. CASE Tick
  BY <1>13 DEF Tick, Used
<1>14. CASE UNCHANGED vars
  BY <1>14 DEF vars, Used
<1>15. QED
  BY <1>1, <1>2, <1>3, <1>4, <1>5, <1>6, <1>7, <1>8, <1>9, <1>10, <1>11, <1>12,
     <1>13, <1>14 DEF Next, Proceed

\* The inductive invariant holds in every reachable state.
LEMMA Inductive == Spec => []IInv
<1>1. IInv /\ [Next]_vars => IInv'
  BY TypeStep, HoldsStep, UsedStep DEF IInv
<1>2. QED
  BY <1>1, InitIInv, PTL DEF Spec

\* Every variable keeps its type; in particular the bucket never overfills.
THEOREM TypeCorrect == Spec => []TypeOK
BY Inductive, PTL DEF IInv

\* The concurrency limit per host holds with nested calls and every exit, and no
\* exit leaks a slot.
THEOREM SlotsCorrect == Spec => []SlotsRespected
<1>1. ASSUME IInv PROVE SlotsRespected
  <2> DEFINE Sending == {c \in Caller : pc[c] = "request"}
  <2>1. Sending \subseteq outer
    BY <1>1 DEF IInv, Holds
  <2>2. Cardinality(Sending) <= Cardinality(outer)
    BY <1>1, <2>1, UsedType, FS_Subset DEF IInv
  <2>3. Cardinality(Sending) \in Nat
    BY <1>1, <2>1, UsedType, FS_Subset, FS_CardinalityType DEF IInv
  <2>4. Cardinality(Sending) <= Used
    BY <1>1, <2>2, <2>3, UsedType DEF IInv, Used
  <2>5. \A c \in outer \cup inner : pc[c] # "idle"
    BY <1>1 DEF IInv, Holds, TypeOK
  <2>6. QED
    BY <1>1, <2>4, <2>5 DEF IInv, SlotsRespected
<1>2. QED
  BY <1>1, Inductive, PTL

\* With more slots than callers the retry cannot deadlock.  The bound is sharp:
\* as many callers as slots can all hold one and wait for a second.
THEOREM EnoughSlots ==
  ASSUME Cardinality(Caller) < Slots
  PROVE  Spec => []NoRetryDeadlock
<1>1. ASSUME IInv PROVE NoRetryDeadlock
  <2>1. SUFFICES ASSUME Used >= Slots, \A d \in outer \cup inner : pc[d] = "slot"
                 PROVE  FALSE
    BY <1>1, UsedType, HostGateAssumption DEF NoRetryDeadlock, Jammed, IInv
  <2>2. inner = {}
    BY <1>1, <2>1 DEF IInv, Holds, TypeOK
  <2>3. Used = Cardinality(outer)
    BY <1>1, <2>2, UsedType, FS_EmptySet DEF Used, IInv
  <2>4. Cardinality(outer) <= Cardinality(Caller)
    BY <1>1, FS_Subset, HostGateAssumption DEF IInv, TypeOK
  <2>5. Cardinality(Caller) \in Nat
    BY FS_CardinalityType, HostGateAssumption
  <2>6. QED
    BY <1>1, <2>1, <2>3, <2>4, <2>5, UsedType, HostGateAssumption DEF IInv
<1>2. QED
  BY <1>1, Inductive, PTL

------------------------------------------------------------------------------
(* What a jam is, and that it lasts *)

\* Callers that hold slots and wait for one are in the retry and hold one each.
LEMMA ShapeOfJam == IInv => JamShape
<1> SUFFICES ASSUME IInv, Jammed
             PROVE  inner = {} /\ outer \subseteq retrying /\ Cardinality(outer) = Slots
  BY DEF JamShape
<1>1. inner = {}
  BY DEF IInv, TypeOK, Holds, Jammed
<1>2. outer \subseteq retrying
  BY DEF IInv, TypeOK, Holds, Jammed
<1>3. Used = Cardinality(outer)
  BY <1>1, UsedType, FS_EmptySet DEF IInv, Used
<1>4. Cardinality(outer) = Slots
  BY <1>3, UsedType, HostGateAssumption DEF IInv, Jammed
<1>5. QED
  BY <1>1, <1>2, <1>4

\* A jam can only be made of callers in the retry: whatever else goes wrong with
\* a request, its slots come back.
THEOREM JamsAreRetries == Spec => []JamShape
BY ShapeOfJam, Inductive, PTL

\* In such a jam nobody acquires a slot, its members do not move, and the others
\* hold nothing they could give back.
LEMMA StarvedMoves ==
  ASSUME IInv, Starved, [Next]_vars
  PROVE  /\ outer' = outer
         /\ inner' = inner
         /\ \A c \in Caller \ Cancellable : pc[c] = "slot" => pc'[c] = "slot"
<1>0. /\ Used = Slots /\ Slots \in Nat
      /\ inner = {}
      /\ \A d \in outer : pc[d] = "slot" /\ d \notin cancelled
  BY UsedType, ShapeOfJam, HostGateAssumption DEF IInv, TypeOK, Starved, Jammed, JamShape
<1> DEFINE Waits == \A c \in Caller \ Cancellable : pc[c] = "slot" => pc'[c] = "slot"
<1> SUFFICES outer' = outer /\ inner' = inner /\ Waits
  OBVIOUS
<1>a. pc \in [Caller -> {"idle", "slot", "token", "gap", "sleep", "request", "backoff"}]
      /\ outer \subseteq Caller /\ cancelled \subseteq Cancellable
  BY DEF IInv, TypeOK
<1>1. ASSUME NEW c \in Caller, Get(c)
      PROVE  outer' = outer /\ inner' = inner /\ Waits
  BY <1>1, <1>a DEF Get, Goto
<1>2. ASSUME NEW c \in Caller, AcquireSlot(c)
      PROVE  FALSE
  BY <1>2, <1>0 DEF AcquireSlot
<1>3. ASSUME NEW c \in Caller, TakeToken(c)
      PROVE  outer' = outer /\ inner' = inner /\ Waits
  BY <1>3, <1>a DEF TakeToken, Goto
<1>4. ASSUME NEW c \in Caller, GapOver(c)
      PROVE  outer' = outer /\ inner' = inner /\ Waits
  BY <1>4, <1>a DEF GapOver, Send
<1>5. ASSUME NEW c \in Caller, GapSleep(c)
      PROVE  outer' = outer /\ inner' = inner /\ Waits
  BY <1>5, <1>a DEF GapSleep, Goto
<1>6. ASSUME NEW c \in Caller, Wake(c)
      PROVE  outer' = outer /\ inner' = inner /\ Waits
  BY <1>6, <1>a DEF Wake, Send
<1>7. ASSUME NEW c \in Caller, Respond(c)
      PROVE  outer' = outer /\ inner' = inner /\ Waits
  <2>1. c \notin outer /\ pc[c] = "request"
    BY <1>7, <1>0 DEF Respond
  <2>2. QED
    BY <1>7, <2>1, <1>0, <1>a DEF Respond, Return
<1>8. ASSUME NEW c \in Caller, TooManyRequests(c)
      PROVE  outer' = outer /\ inner' = inner /\ Waits
  BY <1>8, <1>a DEF TooManyRequests, Goto
<1>9. ASSUME NEW c \in Caller, Retry(c)
      PROVE  outer' = outer /\ inner' = inner /\ Waits
  BY <1>9, <1>a DEF Retry, Goto
<1>10. ASSUME NEW c \in Caller, GiveUp(c)
       PROVE  outer' = outer /\ inner' = inner /\ Waits
  <2>1. c \notin outer /\ c \in Cancellable
    BY <1>10, <1>0, <1>a DEF GiveUp
  <2>2. QED
    BY <1>10, <2>1, <1>0, <1>a DEF GiveUp, Return
<1>11. ASSUME NEW c \in Caller, Cancel(c)
       PROVE  outer' = outer /\ inner' = inner /\ Waits
  BY <1>11 DEF Cancel
<1>12. CASE Refill
  BY <1>12 DEF Refill
<1>13. CASE Tick
  BY <1>13 DEF Tick
<1>14. CASE UNCHANGED vars
  BY <1>14 DEF vars
<1>15. QED
  BY <1>1, <1>2, <1>3, <1>4, <1>5, <1>6, <1>7, <1>8, <1>9, <1>10, <1>11, <1>12,
     <1>13, <1>14 DEF Next, Proceed

\* A starving jam starves in the next state too: there is at least one slot, so
\* it has a member.
LEMMA StarvedStep ==
  ASSUME IInv, Starved, [Next]_vars
  PROVE  Starved'
<1>1. /\ outer' = outer /\ inner' = inner
      /\ \A c \in Caller \ Cancellable : pc[c] = "slot" => pc'[c] = "slot"
  BY StarvedMoves
<1>2. inner = {} /\ Cardinality(outer) = Slots /\ outer \subseteq Caller
  BY ShapeOfJam DEF JamShape, Starved, IInv, TypeOK
<1>3. outer # {}
  BY <1>2, FS_EmptySet, HostGateAssumption
<1>4. \A d \in outer : pc[d] = "slot" /\ d \notin Cancellable
  BY DEF Starved, Jammed
<1>5. \A d \in outer' \cup inner' : pc'[d] = "slot"
  BY <1>1, <1>2, <1>4
<1>6. \E c \in Caller : pc'[c] = "slot"
  BY <1>1, <1>2, <1>3, <1>5
<1>7. (Used >= Slots)'
  BY <1>1 DEF Starved, Jammed, Used
<1>8. QED
  BY <1>1, <1>5, <1>6, <1>7 DEF Starved, Jammed

\* Once callers without a deadline wait for each other's slots, they do so for
\* ever: the finding of the run retry429 for any number of callers and slots.
THEOREM JamIsForEver == Spec => JamLasts
<1>1. IInv /\ Starved /\ [Next]_vars => Starved'
  BY StarvedStep
<1>2. QED
  BY <1>1, Inductive, PTL DEF Spec, JamLasts

\* And whoever comes to the host without a deadline then never gets through.
THEOREM JamStarvesAll == Spec => JamStarves
<1> SUFFICES ASSUME NEW c \in Caller \ Cancellable
             PROVE  Spec => [](Starved /\ pc[c] = "slot" => [](pc[c] = "slot"))
  BY DEF JamStarves
<1>1. IInv /\ Starved /\ pc[c] = "slot" /\ [Next]_vars => Starved' /\ (pc[c] = "slot")'
  BY StarvedStep, StarvedMoves
<1>2. QED
  BY <1>1, Inductive, PTL DEF Spec

------------------------------------------------------------------------------
(* The minimum gap, with a single slot *)

\* With one slot at most one caller is past the semaphore.
LEMMA OneHolder ==
  ASSUME Slots = 1, IInv, NEW c \in outer, NEW d \in outer
  PROVE  c = d
<1>1. SUFFICES ASSUME c # d PROVE FALSE
  OBVIOUS
<1>2. IsFiniteSet({c}) /\ Cardinality({c}) = 1
  BY FS_Singleton
<1>3. {c, d} = {c} \cup {d}
  OBVIOUS
<1>4. IsFiniteSet({c, d}) /\ Cardinality({c, d}) = 2
  BY <1>1, <1>2, <1>3, FS_AddElement
<1>5. {c, d} \in SUBSET outer
  OBVIOUS
<1>6. /\ IsFiniteSet(outer) /\ Cardinality(outer) \in Nat /\ Cardinality(inner) \in Nat
      /\ Cardinality(outer) + Cardinality(inner) <= 1
  BY UsedType DEF IInv, Used
<1>7. Cardinality({c, d}) <= Cardinality(outer)
  BY <1>5, <1>6, FS_Subset
<1>8. QED
  BY <1>4, <1>6, <1>7

\* A sleeper's alarm is not before the gap is over.
SleepCovers == \A c \in Caller : pc[c] = "sleep" => since + wait[c] >= Gap

LEMMA SleepStep ==
  ASSUME Slots = 1, IInv, SleepCovers, [Next]_vars
  PROVE  SleepCovers'
<1>0. \A c \in Caller : pc[c] \in {"gap", "sleep"} => c \in outer
  BY DEF IInv, Holds
<1> USE HostGateAssumption DEF IInv, TypeOK, SleepCovers
<1>1. ASSUME NEW c \in Caller, Get(c)
      PROVE  SleepCovers'
  BY <1>1 DEF Get, Goto
<1>2. ASSUME NEW c \in Caller, AcquireSlot(c)
      PROVE  SleepCovers'
  BY <1>2 DEF AcquireSlot, Goto
<1>3. ASSUME NEW c \in Caller, TakeToken(c)
      PROVE  SleepCovers'
  BY <1>3 DEF TakeToken, Goto
<1>4. ASSUME NEW c \in Caller, GapOver(c)
      PROVE  SleepCovers'
  BY <1>4, <1>0, OneHolder DEF GapOver, Send
<1>5. ASSUME NEW c \in Caller, GapSleep(c)
      PROVE  SleepCovers'
  BY <1>5 DEF GapSleep, Goto
<1>6. ASSUME NEW c \in Caller, Wake(c)
      PROVE  SleepCovers'
  BY <1>6, <1>0, OneHolder DEF Wake, Send
<1>7. ASSUME NEW c \in Caller, Respond(c)
      PROVE  SleepCovers'
  BY <1>7 DEF Respond, Return
<1>8. ASSUME NEW c \in Caller, TooManyRequests(c)
      PROVE  SleepCovers'
  BY <1>8 DEF TooManyRequests, Goto
<1>9. ASSUME NEW c \in Caller, Retry(c)
      PROVE  SleepCovers'
  BY <1>9 DEF Retry, Goto
<1>10. ASSUME NEW c \in Caller, GiveUp(c)
       PROVE  SleepCovers'
  BY <1>10 DEF GiveUp, Return
<1>11. ASSUME NEW c \in Caller, Cancel(c)
       PROVE  SleepCovers'
  BY <1>11 DEF Cancel
<1>12. CASE Refill
  BY <1>12 DEF Refill
<1>13. CASE Tick
  BY <1>13 DEF Tick
<1>14. CASE UNCHANGED vars
  BY <1>14 DEF vars
<1>15. QED
  BY <1>1, <1>2, <1>3, <1>4, <1>5, <1>6, <1>7, <1>8, <1>9, <1>10, <1>11, <1>12,
     <1>13, <1>14 DEF Next, Proceed

\* With one slot per host the gap is kept: nobody can send between a caller's
\* look at hl.last and its own request.
THEOREM OneSlotGap ==
  ASSUME Slots = 1
  PROVE  Spec => GapRespected
<1>1. Init => SleepCovers
  BY DEF Init, SleepCovers
<1>2. IInv /\ SleepCovers /\ [Next]_vars => SleepCovers'
  BY SleepStep
<1>3. IInv /\ SleepCovers /\ [Next]_vars
      => [\A c \in Caller : pc[c] # "request" /\ pc'[c] = "request" => since = Gap]_vars
  <2> SUFFICES ASSUME IInv, SleepCovers, Next,
                      NEW c \in Caller, pc[c] # "request", pc'[c] = "request"
               PROVE  since = Gap
    BY DEF GapRespected
  <2>1. GapOver(c) \/ Wake(c)
    BY DEF IInv, TypeOK, Next, Proceed, Get, AcquireSlot, TakeToken, GapOver, GapSleep, Wake,
           Respond, TooManyRequests, Retry, GiveUp, Cancel, Refill, Tick, Goto, Return, Send
  <2>2. QED
    BY <2>1, HostGateAssumption DEF GapOver, Wake, IInv, TypeOK, SleepCovers
<1>4. QED
  BY <1>1, <1>2, <1>3, Inductive, PTL DEF Spec, GapRespected
==============================================================================
