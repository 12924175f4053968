------------------------------ MODULE PoolProofs ------------------------------
(***************************************************************************)
(* Proofs about Pool, for any numbers of workers, requests and feeds and   *)
(* any size of the queue.                                                  *)
(***************************************************************************)
EXTENDS Pool, FiniteSetTheorems, TLAPS

\* The workers that have not called wg.Done.
Working == {w \in Worker : wpc[w] \in {"wait", "busy"}}

\* The WaitGroup counts them, and after Wait there are none.
Counted ==
  /\ wg = Cardinality(Working)
  /\ main = "boot" => \A w \in Worker : wpc[w] = "off"
  /\ main # "boot" => \A w \in Worker : wpc[w] # "off"
  /\ main \in {"close", "closed", "exit"} => wg = 0

\* A request has a feed in hand until it is answered.
InHand == \A r \in Request : rpc[r] # "idle" => feed[r] \in Feed

IInv == TypeOK /\ Counted /\ InHand

\* Working is finite.
LEMMA WorkingFinite ==
  ASSUME NEW S, S \subseteq Worker
  PROVE  IsFiniteSet(S) /\ Cardinality(S) \in Nat
  BY PoolAssumption, FS_Subset, FS_CardinalityType

LEMMA InitIInv == Init => IInv
<1> SUFFICES ASSUME Init PROVE IInv
  OBVIOUS
<1>1. TypeOK
  <2>1. feedQ \in Seq(Feed) /\ Len(feedQ) <= QueueSize
    BY PoolAssumption DEF Init
  <2>2. QED
    BY <2>1 DEF Init, TypeOK
<1>2. Working = {}
  BY DEF Init, Working
<1>3. Counted
  BY <1>2, FS_EmptySet DEF Init, Counted
<1>4. QED
  BY <1>1, <1>3 DEF Init, IInv, InHand

\* A worker that leaves takes one off the count.
LEMMA OneLess ==
  ASSUME TypeOK, NEW w \in Worker, Leave(w)
  PROVE  Cardinality(Working)' = Cardinality(Working) - 1
<1>1. w \in Working /\ Working' = Working \ {w}
  BY DEF Leave, Goto, Working, TypeOK
<1>2. IsFiniteSet(Working)
  BY WorkingFinite DEF Working
<1>3. QED
  BY <1>1, <1>2, FS_RemoveElement

\* The queue and the types under the steps of requests.
LEMMA TypeStep == IInv /\ [Next]_vars => TypeOK' /\ InHand'
<1> SUFFICES ASSUME TypeOK, Counted, InHand, [Next]_vars
             PROVE  TypeOK' /\ InHand'
  BY DEF IInv
<1> USE PoolAssumption DEF TypeOK, InHand
<1>1. CASE Start
  BY <1>1, WorkingFinite DEF Start, MainGoto, requests
<1>2. CASE Signal \/ Return \/ Stop \/ Waited \/ CloseStore \/ Exit
  BY <1>2 DEF Signal, Return, Stop, Waited, CloseStore, Exit, MainGoto, workers, requests
<1>3. ASSUME NEW w \in Fetcher, Take(w)
      PROVE  TypeOK' /\ InHand'
  <2>1. feedQ' \in Seq(Feed) /\ Len(feedQ') <= QueueSize
    BY <1>3 DEF Take
  <2>2. QED
    BY <1>3, <2>1 DEF Take, Goto, requests
<1>4. ASSUME NEW w \in Fetcher, Refreshed(w)
      PROVE  TypeOK' /\ InHand'
  BY <1>4 DEF Refreshed, Goto, requests
<1>5. ASSUME NEW w \in Worker, Leave(w)
      PROVE  TypeOK' /\ InHand'
  <2>1. wg' \in Nat
    BY <1>5, OneLess, WorkingFinite DEF Leave, Counted, Working
  <2>2. QED
    BY <1>5, <2>1 DEF Leave, Goto, requests
<1>6. ASSUME NEW r \in Request, NEW f \in Feed, NEW kind \in {"try", "refresh", "self"},
             Ask(r, f, kind)
      PROVE  TypeOK' /\ InHand'
  BY <1>6 DEF Ask, RequestGoto, workers
<1>7. ASSUME NEW r \in Request, EnqueueFeed(r)
      PROVE  TypeOK' /\ InHand'
  <2>1. feedQ' \in Seq(Feed) /\ Len(feedQ') <= QueueSize
    BY <1>7 DEF EnqueueFeed, Put, RequestGoto, Full
  <2>2. QED
    BY <1>7, <2>1 DEF EnqueueFeed, Put, RequestGoto, workers
<1>8. ASSUME NEW r \in Request, Dropped(r) \/ RefreshFeed(r) \/ Answer(r)
      PROVE  TypeOK' /\ InHand'
  BY <1>8 DEF Dropped, RefreshFeed, Answer, RequestGoto, workers
<1>9. CASE UNCHANGED vars
  BY <1>9 DEF vars
<1>10. QED
  BY <1>1, <1>2, <1>3, <1>4, <1>5, <1>6, <1>7, <1>8, <1>9 DEF Next, Main, Handle

\* The count of the WaitGroup under every step.
LEMMA CountedStep == IInv /\ [Next]_vars => Counted'
<1> SUFFICES ASSUME TypeOK, Counted, [Next]_vars
             PROVE  Counted'
  BY DEF IInv
<1>1. CASE Start
  <2>1. Working' = Worker
    BY <1>1 DEF Start, Working
  <2>2. QED
    BY <1>1, <2>1 DEF Start, MainGoto, Counted
<1>2. CASE Waited
  <2>1. Working' = Working
    BY <1>2 DEF Waited, workers, Working
  <2>2. QED
    BY <1>2, <2>1 DEF Waited, MainGoto, workers, Counted
<1>3. CASE Signal \/ Return \/ Stop \/ CloseStore \/ Exit
  <2>1. Working' = Working /\ wg' = wg /\ wpc' = wpc
    BY <1>3 DEF Signal, Return, Stop, CloseStore, Exit, workers, Working
  <2>2. QED
    BY <1>3, <2>1 DEF Signal, Return, Stop, CloseStore, Exit, MainGoto, Counted
<1>4. ASSUME NEW w \in Fetcher, Take(w) \/ Refreshed(w)
      PROVE  Counted'
  <2>1. w \in Worker /\ w \in Working
    BY <1>4 DEF Take, Refreshed, Goto, Working, Worker
  <2>2. Working' = Working
    BY <1>4, <2>1 DEF Take, Refreshed, Goto, Working, TypeOK
  <2>3. QED
    BY <1>4, <2>1, <2>2 DEF Take, Refreshed, Goto, Counted, TypeOK
<1>5. ASSUME NEW w \in Worker, Leave(w)
      PROVE  Counted'
  <2>1. Cardinality(Working)' = Cardinality(Working) - 1
    BY <1>5, OneLess
  <2>2. w \in Working
    BY <1>5 DEF Leave, Goto, Working
  <2>3. Cardinality(Working) # 0
    BY <2>2, WorkingFinite, FS_EmptySet DEF Working
  <2>4. QED
    BY <1>5, <2>1, <2>3 DEF Leave, Goto, Counted, TypeOK
<1>6. ASSUME NEW r \in Request, NEW f \in Feed, NEW kind \in {"try", "refresh", "self"},
             Ask(r, f, kind)
      PROVE  Counted'
  <2>1. UNCHANGED <<main, wg, wpc>>
    BY <1>6 DEF Ask, workers
  <2>2. QED
    BY <2>1 DEF Counted, Working
<1>7. CASE UNCHANGED vars
  BY <1>7 DEF vars, Counted, Working
<1>8. ASSUME NEW r \in Request, Handle(r)
      PROVE  Counted'
  <2>1. UNCHANGED <<main, wg, wpc>>
    BY <1>8 DEF Handle, EnqueueFeed, Put, Dropped, RefreshFeed, Answer, workers
  <2>2. QED
    BY <2>1 DEF Counted, Working
<1>9. QED
  BY <1>1, <1>2, <1>3, <1>4, <1>5, <1>6, <1>7, <1>8 DEF Next, Main

THEOREM Inductive == Spec => []IInv
<1>1. IInv /\ [Next]_vars => IInv'
  BY TypeStep, CountedStep DEF IInv
<1>2. QED
  BY InitIInv, <1>1, PTL DEF Spec

\* Every variable has its type, and the queue never holds more than its size.
THEOREM TypeCorrect == Spec => []TypeOK
<1>1. IInv => TypeOK
  BY DEF IInv
<1>2. QED
  BY <1>1, Inductive, PTL

\* When the store is closed every worker has gone: the WaitGroup is zero, and it
\* counts those that have not.
THEOREM GoneCorrect == Spec => []GoneBeforeClose
<1>1. IInv => GoneBeforeClose
  <2>1. SUFFICES ASSUME IInv, main \in {"close", "closed", "exit"}
                 PROVE  \A w \in Worker : wpc[w] = "gone"
    BY DEF GoneBeforeClose
  <2>2. Working = {}
    BY <2>1, WorkingFinite, FS_EmptySet DEF IInv, Counted, Working
  <2>3. QED
    BY <2>1, <2>2 DEF IInv, Counted, Working, TypeOK
<1>2. QED
  BY <1>1, Inductive, PTL

\* With all workers gone the queue is only added to.
LEMMA AbandonStep ==
  ASSUME IInv, GoneBeforeClose, [Next]_vars, main \in {"close", "closed", "exit"}
  PROVE  /\ wpc' = wpc
         /\ Len(feedQ') >= Len(feedQ)
         /\ \A k \in 1..Len(feedQ) : feedQ'[k] = feedQ[k]
<1> DEFINE Kept == /\ wpc' = wpc
                   /\ Len(feedQ') >= Len(feedQ)
                   /\ \A k \in 1..Len(feedQ) : feedQ'[k] = feedQ[k]
<1>0. /\ feedQ \in Seq(Feed) /\ Len(feedQ) \in Nat
      /\ \A w \in Worker : wpc[w] = "gone"
  BY DEF IInv, TypeOK, GoneBeforeClose
<1>1. CASE wpc' = wpc /\ feedQ' = feedQ
  BY <1>0, <1>1
<1>2. ASSUME NEW r \in Request, EnqueueFeed(r)
      PROVE  Kept
  <2>1. feed[r] \in Feed /\ wpc' = wpc /\ feedQ' = Append(feedQ, feed[r])
    BY <1>2 DEF EnqueueFeed, Put, RequestGoto, workers, IInv, InHand
  <2>2. QED
    BY <2>1, <1>0
<1>3. ASSUME NEW r \in Request, Dropped(r) \/ RefreshFeed(r) \/ Answer(r)
      PROVE  wpc' = wpc /\ feedQ' = feedQ
  BY <1>3 DEF Dropped, RefreshFeed, Answer, workers
<1>4. ASSUME NEW r \in Request, NEW f \in Feed, NEW kind \in {"try", "refresh", "self"},
             Ask(r, f, kind)
      PROVE  wpc' = wpc /\ feedQ' = feedQ
  BY <1>4 DEF Ask, workers
<1>5. ASSUME NEW w \in Worker,
             (w \in Fetcher /\ (Take(w) \/ Refreshed(w))) \/ Leave(w)
      PROVE  FALSE
  BY <1>5, <1>0 DEF Take, Refreshed, Leave, Goto
<1>6. CASE Main \/ Signal
  BY <1>6, <1>1 DEF Main, Start, Signal, Return, Stop, Waited, CloseStore, Exit, MainGoto, workers
<1>7. CASE UNCHANGED vars
  BY <1>7, <1>1 DEF vars
<1>8. QED
  BY <1>1, <1>2, <1>3, <1>4, <1>5, <1>6, <1>7 DEF Next, Handle, Worker

\* Closing the store races with no worker, and nothing empties the queue any more.
THEOREM AbandonedCorrect == Spec => QueueAbandoned
<1>1. IInv /\ GoneBeforeClose /\ [Next]_vars
      => [(main \in {"close", "closed", "exit"}) =>
            /\ wpc' = wpc
            /\ Len(feedQ') >= Len(feedQ)
            /\ \A k \in 1..Len(feedQ) : feedQ'[k] = feedQ[k]]_vars
  BY AbandonStep
<1>2. QED
  BY <1>1, Inductive, GoneCorrect, PTL DEF Spec, QueueAbandoned

\* Feed f is in the queue, or in the hands of a handler that will refresh it.
Queued(f) == \E k \in 1..Len(feedQ) : feedQ[k] = f
InHands(f) == \E r \in Request : rpc[r] \in {"refresh", "self"} /\ feed[r] = f

\* A refresh that was asked for is not forgotten before one begins.
THEOREM AskedCorrect == Spec => []AskedHeld
<1> USE DEF AskedHeld
<1>1. Init => AskedHeld
  BY DEF Init
<1>2. IInv /\ AskedHeld /\ [Next]_vars => AskedHeld'
  <2> SUFFICES ASSUME TypeOK, InHand, AskedHeld, [Next]_vars, NEW g \in asked'
               PROVE  Queued(g)' \/ InHands(g)'
    BY DEF IInv, Queued, InHands
  <2>1. CASE UNCHANGED <<feedQ, rpc, feed, asked>>
    BY <2>1 DEF Queued, InHands
  <2>2. ASSUME NEW w \in Fetcher, Take(w)
        PROVE  Queued(g)' \/ InHands(g)'
    <3>1. g \in asked /\ g # Head(feedQ) /\ rpc' = rpc /\ feed' = feed
      BY <2>2 DEF Take, requests
    <3>2. CASE InHands(g)
      BY <3>1, <3>2 DEF InHands
    <3>3. CASE Queued(g)
      <4>1. PICK k \in 1..Len(feedQ) : feedQ[k] = g
        BY <3>3 DEF Queued
      <4>2. feedQ # <<>> /\ feedQ' = Tail(feedQ) /\ feedQ \in Seq(Feed)
        BY <2>2 DEF Take, TypeOK
      <4>3. k - 1 \in 1..Len(feedQ') /\ feedQ'[k - 1] = g
        BY <3>1, <4>1, <4>2
      <4>4. QED
        BY <4>3 DEF Queued
    <3>4. QED
      BY <3>1, <3>2, <3>3 DEF Queued, InHands
  <2>3. ASSUME NEW r \in Request, NEW f \in Feed, NEW kind \in {"try", "refresh", "self"},
               Ask(r, f, kind)
        PROVE  Queued(g)' \/ InHands(g)'
    <3>1. rpc[r] = "idle" /\ feedQ' = feedQ
          /\ rpc' = [rpc EXCEPT ![r] = kind] /\ feed' = [feed EXCEPT ![r] = f]
      BY <2>3 DEF Ask, RequestGoto
    <3>2. CASE g \in asked
      BY <3>1, <3>2 DEF Queued, InHands, TypeOK
    <3>3. CASE g \notin asked
      <4>1. g = f /\ kind # "try"
        BY <2>3, <3>3 DEF Ask
      <4>2. QED
        BY <3>1, <4>1 DEF InHands, TypeOK
    <3>4. QED
      BY <3>2, <3>3
  <2>4. ASSUME NEW r \in Request, EnqueueFeed(r)
        PROVE  Queued(g)' \/ InHands(g)'
    <3>1. g \in asked /\ feedQ' = Append(feedQ, feed[r]) /\ rpc[r] # "idle"
          /\ rpc' = [rpc EXCEPT ![r] = "idle"] /\ feed' = [feed EXCEPT ![r] = NoFeed]
      BY <2>4 DEF EnqueueFeed, Put, RequestGoto
    <3>2. feed[r] \in Feed /\ feedQ \in Seq(Feed)
      BY <3>1 DEF InHand, TypeOK
    <3>3. Len(feedQ') = Len(feedQ) + 1 /\ feedQ'[Len(feedQ) + 1] = feed[r]
          /\ \A k \in 1..Len(feedQ) : feedQ'[k] = feedQ[k]
      BY <3>1, <3>2
    <3>4. Len(feedQ) \in Nat
      BY <3>2
    <3>5. CASE Queued(g) \/ feed[r] = g
      BY <3>3, <3>4, <3>5 DEF Queued
    <3>6. CASE feed[r] # g /\ InHands(g)
      BY <3>1, <3>6 DEF InHands, TypeOK
    <3>7. QED
      BY <3>1, <3>5, <3>6 DEF Queued, InHands
  <2>5. ASSUME NEW r \in Request, Dropped(r) \/ Answer(r)
        PROVE  Queued(g)' \/ InHands(g)'
    BY <2>5 DEF Dropped, Answer, RequestGoto, Queued, InHands, TypeOK
  <2>6. ASSUME NEW r \in Request, RefreshFeed(r)
        PROVE  Queued(g)' \/ InHands(g)'
    BY <2>6 DEF RefreshFeed, RequestGoto, Queued, InHands, TypeOK
  <2>7. ASSUME NEW w \in Worker, Leave(w) \/ Refreshed(w)
        PROVE  UNCHANGED <<feedQ, rpc, feed, asked>>
    BY <2>7 DEF Leave, Refreshed, requests
  <2>8. CASE Main \/ Signal
    BY <2>1, <2>8 DEF Main, Start, Signal, Return, Stop, Waited, CloseStore, Exit, requests
  <2>9. CASE UNCHANGED vars
    BY <2>1, <2>9 DEF vars
  <2>10. QED
    BY <2>1, <2>2, <2>3, <2>4, <2>5, <2>6, <2>7, <2>8, <2>9 DEF Next, Handle, Worker
<1>3. QED
  BY <1>1, <1>2, Inductive, PTL DEF Spec
==============================================================================
