--------------------------- MODULE FloodGuardProofs ---------------------------
(***************************************************************************)
(* Proofs about FloodGuard, for any number of requests and addresses and   *)
(* any limits.  A counter only says how many requests there are, and a     *)
(* request compares what the counter was long ago.  What makes that enough *)
(* is Ranks: of the requests that are inside, at most k got a number up to *)
(* k, because the number a request gets is at least the number of those    *)
(* inside, and the set only shrinks until the next addition.               *)
(***************************************************************************)
EXTENDS FloodGuard, FiniteSetTheorems, TLAPS

Within(k) == {r \in Inside : cur[r] <= k}
WithinIp(i, k) == {r \in InsideIp(i) : n[r] <= k}

Ranks ==
  /\ \A k \in Nat : Cardinality(Within(k)) <= k
  /\ \A i \in Ip, k \in Nat : Cardinality(WithinIp(i, k)) <= k

Compared ==
  /\ \A r \in Admitted : cur[r] <= Limit(r)
  /\ \A i \in Ip : \A r \in Served(i) : n[r] <= IpLimit(r)

IInv == TypeOK /\ CountersExact /\ Ranks /\ Compared

------------------------------------------------------------------------------
(* Sets and limits *)

\* Only sets of requests are counted, and those are finite.
LEMMA Finite ==
  ASSUME NEW S, S \subseteq Request
  PROVE  IsFiniteSet(S) /\ Cardinality(S) \in Nat
  BY FloodGuardAssumption, FS_Subset, FS_CardinalityType

LEMMA Part ==
  ASSUME NEW S, S \subseteq Request, NEW T, T \subseteq S
  PROVE  Cardinality(T) <= Cardinality(S)
<1>1. IsFiniteSet(S)
  BY Finite
<1> QED BY <1>1, FS_Subset

LEMMA Joined ==
  ASSUME NEW S, S \subseteq Request, NEW r \in Request, r \notin S
  PROVE  Cardinality(S \cup {r}) = Cardinality(S) + 1
<1>1. IsFiniteSet(S)
  BY Finite
<1> QED BY <1>1, FS_AddElement

LEMMA Parted ==
  ASSUME NEW S, S \subseteq Request, NEW r \in S
  PROVE  Cardinality(S \ {r}) = Cardinality(S) - 1
<1>1. IsFiniteSet(S)
  BY Finite
<1> QED BY <1>1, FS_RemoveElement

\* Whatever is configured, both limits are numbers, and no limit exceeds the
\* one for clients with a token.
LEMMA Limits ==
  /\ Max \in Nat /\ PublicLimit \in Nat /\ PublicLimit <= Max
  /\ MaxPerIp \in Nat /\ PublicIpLimit \in Nat /\ PublicIpLimit <= MaxPerIp
  /\ \A r \in Request : Limit(r) \in Nat /\ Limit(r) <= Max
  /\ \A r \in Request : IpLimit(r) \in Nat /\ IpLimit(r) <= MaxPerIp
BY FloodGuardAssumption DEF PublicLimit, PublicIpLimit, Limit, IpLimit

------------------------------------------------------------------------------
(* What the invariant gives *)

\* The bound on admitted requests follows from Ranks at the limit.
LEMMA Capacity == IInv => CapacityBounded
<1> SUFFICES ASSUME IInv PROVE CapacityBounded
  OBVIOUS
<1> USE DEF IInv
<1>1. Admitted \subseteq Within(Max)
  <2> SUFFICES ASSUME NEW r \in Admitted PROVE r \in Inside /\ cur[r] <= Max
    BY DEF Within
  <2>1. r \in Request /\ r \in Inside
    BY DEF Admitted, Inside
  <2>2. cur[r] \in Nat /\ cur[r] <= Limit(r)
    BY <2>1 DEF Compared, TypeOK
  <2> QED BY <2>1, <2>2, Limits
<1>2. Admitted \cap Public \subseteq Within(PublicLimit)
  <2> SUFFICES ASSUME NEW r \in Admitted, r \in Public
               PROVE  r \in Inside /\ cur[r] <= PublicLimit
    BY DEF Within
  <2> QED BY DEF Compared, Limit, Admitted, Inside
<1>3. \A k \in Nat : Within(k) \subseteq Request /\ Cardinality(Within(k)) <= k
  BY DEF Ranks, Within, Inside
<1>4. \A S, T : S \subseteq Request /\ T \subseteq S =>
        Cardinality(T) \in Nat /\ Cardinality(S) \in Nat /\ Cardinality(T) <= Cardinality(S)
  BY Part, Finite
<1>5. Cardinality(Admitted) <= Max
  BY <1>1, <1>3, <1>4, Limits
<1>6. Cardinality(Admitted \cap Public) <= PublicLimit
  BY <1>2, <1>3, <1>4, Limits
<1> QED BY <1>5, <1>6 DEF CapacityBounded

\* The same for the requests of an address.
LEMMA Address == IInv => AddressBounded
<1> SUFFICES ASSUME IInv, NEW i \in Ip
             PROVE  /\ Cardinality(Served(i)) <= MaxPerIp
                    /\ Cardinality(Served(i) \cap Public) <= PublicIpLimit
  BY DEF AddressBounded
<1> USE DEF IInv
<1>1. Served(i) \subseteq WithinIp(i, MaxPerIp)
  <2> SUFFICES ASSUME NEW r \in Served(i) PROVE r \in InsideIp(i) /\ n[r] <= MaxPerIp
    BY DEF WithinIp
  <2>1. r \in Request /\ r \in InsideIp(i)
    BY DEF Served, InsideIp
  <2>2. n[r] \in Nat /\ n[r] <= IpLimit(r)
    BY <2>1 DEF Compared, TypeOK
  <2> QED BY <2>1, <2>2, Limits
<1>2. Served(i) \cap Public \subseteq WithinIp(i, PublicIpLimit)
  <2> SUFFICES ASSUME NEW r \in Served(i), r \in Public
               PROVE  r \in InsideIp(i) /\ n[r] <= PublicIpLimit
    BY DEF WithinIp
  <2> QED BY DEF Compared, IpLimit, Served, InsideIp
<1>3. \A k \in Nat : WithinIp(i, k) \subseteq Request /\ Cardinality(WithinIp(i, k)) <= k
  BY DEF Ranks, WithinIp, InsideIp
<1>4. \A S, T : S \subseteq Request /\ T \subseteq S =>
        Cardinality(T) \in Nat /\ Cardinality(S) \in Nat /\ Cardinality(T) <= Cardinality(S)
  BY Part, Finite
<1> QED BY <1>1, <1>2, <1>3, <1>4, Limits

------------------------------------------------------------------------------
(* The steps *)

LEMMA Start == Init => IInv
<1> SUFFICES ASSUME Init PROVE IInv
  OBVIOUS
<1> USE DEF Init
<1>1. TypeOK
  BY DEF TypeOK
<1>2. Inside = {} /\ Admitted = {} /\ \A i \in Ip : InsideIp(i) = {} /\ Served(i) = {}
  BY DEF Inside, InsideIp, Admitted, Served
<1>3. Cardinality({}) = 0
  BY FS_EmptySet
<1>4. CountersExact
  BY <1>2, <1>3 DEF CountersExact
<1>5. /\ \A k \in Nat : Within(k) = {}
      /\ \A i \in Ip, k \in Nat : WithinIp(i, k) = {}
  BY <1>2 DEF Within, WithinIp
<1>6. Ranks
  BY <1>3, <1>5 DEF Ranks
<1>7. Compared
  BY <1>2 DEF Compared
<1> QED BY <1>1, <1>4, <1>6, <1>7 DEF IInv

\* Every step keeps the types.  A counter that is taken down counted the
\* request that leaves.
LEMMA TypeStep ==
  ASSUME IInv, NEW r \in Request,
         \/ Enter(r) \/ Shed(r) \/ Pass(r) \/ Forbid(r)
         \/ CountIp(r) \/ ShedIp(r) \/ Serve(r) \/ Finish(r)
         \/ LeaveIp(r) \/ Leave(r)
  PROVE  TypeOK'
<1> USE DEF IInv, TypeOK, Goto
<1>1. CASE Leave(r)
  <2>1. r \in Inside /\ Inside \subseteq Request
    BY <1>1 DEF Leave, Inside
  <2>2. inFlight = Cardinality(Inside) /\ Cardinality(Inside \ {r}) = Cardinality(Inside) - 1
    BY <2>1, Parted DEF CountersExact
  <2>3. Cardinality(Inside \ {r}) \in Nat
    BY <2>1, Finite
  <2>4. inFlight' \in Nat
    BY <1>1, <2>2, <2>3 DEF Leave
  <2> QED BY <1>1, <2>4 DEF Leave
<1>2. CASE LeaveIp(r)
  <2> DEFINE i == From[r]
  <2>1. i \in Ip
    BY FloodGuardAssumption
  <2>2. r \in InsideIp(i) /\ InsideIp(i) \subseteq Request
    BY <1>2 DEF LeaveIp, InsideIp
  <2>3. /\ ipConns[i] = Cardinality(InsideIp(i))
        /\ Cardinality(InsideIp(i) \ {r}) = Cardinality(InsideIp(i)) - 1
    BY <2>1, <2>2, Parted DEF CountersExact
  <2>4. Cardinality(InsideIp(i) \ {r}) \in Nat
    BY <2>2, Finite
  <2>5. ipConns[i] - 1 \in Nat
    BY <2>3, <2>4
  <2>6. ipConns' \in [Ip -> Nat]
    BY <1>2, <2>1, <2>5 DEF LeaveIp
  <2> QED BY <1>2, <2>6 DEF LeaveIp
<1>3. CASE CountIp(r)
  <2> DEFINE i == From[r]
  <2>1. i \in Ip
    BY FloodGuardAssumption
  <2>2. ipConns[i] + 1 \in Nat
    BY <2>1
  <2>3. ipConns' \in [Ip -> Nat] /\ n' \in [Request -> Nat]
    BY <1>3, <2>1, <2>2 DEF CountIp
  <2> QED BY <1>3, <2>3 DEF CountIp
<1>4. CASE Enter(r)
  BY <1>4 DEF Enter
<1>5. CASE Shed(r) \/ Pass(r) \/ Forbid(r) \/ ShedIp(r) \/ Serve(r) \/ Finish(r)
  BY <1>5 DEF Shed, Pass, Forbid, ShedIp, Serve, Finish
<1> QED BY <1>1, <1>2, <1>3, <1>4, <1>5

\* The global counter and its ranks change when a request comes and when it
\* goes.
LEMMA GlobalStep ==
  ASSUME IInv, NEW r \in Request,
         \/ Enter(r) \/ Shed(r) \/ Pass(r) \/ Forbid(r)
         \/ CountIp(r) \/ ShedIp(r) \/ Serve(r) \/ Finish(r)
         \/ LeaveIp(r) \/ Leave(r)
  PROVE  /\ inFlight' = Cardinality(Inside')
         /\ \A k \in Nat : Cardinality(Within(k)') <= k
<1> USE DEF IInv, TypeOK, Goto
<1>0. /\ inFlight = Cardinality(Inside) /\ Inside \subseteq Request
      /\ \A k \in Nat : Within(k) \subseteq Inside /\ Cardinality(Within(k)) <= k
  BY DEF CountersExact, Ranks, Within, Inside
<1>1. CASE Enter(r)
  <2>1. r \notin Inside /\ Inside' = Inside \cup {r} /\ cur'[r] = inFlight + 1
        /\ inFlight' = inFlight + 1
    BY <1>1 DEF Enter, Inside
  <2>2. inFlight' = Cardinality(Inside')
    BY <1>0, <2>1, Joined
  <2>3. ASSUME NEW k \in Nat PROVE Cardinality(Within(k)') <= k
    <3>1. CASE k >= inFlight'
      <4>1. Within(k)' \subseteq Inside' /\ Inside' \subseteq Request
        BY DEF Within, Inside
      <4>2. Cardinality(Within(k)') <= Cardinality(Inside')
        BY <4>1, Part
      <4>3. Cardinality(Within(k)') \in Nat
        BY <4>1, Finite
      <4> QED BY <2>2, <3>1, <4>2, <4>3, <2>1
    <3>2. CASE k < inFlight'
      <4>1. Within(k)' = Within(k)
        BY <1>1, <2>1, <3>2 DEF Within, Enter
      <4> QED BY <4>1, <1>0
    <3> QED BY <3>1, <3>2, <2>1
  <2> QED BY <2>2, <2>3
<1>2. CASE Leave(r)
  <2>1. r \in Inside /\ Inside' = Inside \ {r} /\ inFlight' = inFlight - 1
    BY <1>2 DEF Leave, Inside
  <2>2. inFlight' = Cardinality(Inside')
    BY <1>0, <2>1, Parted
  <2>3. ASSUME NEW k \in Nat PROVE Cardinality(Within(k)') <= k
    <3>1. Within(k)' \subseteq Within(k) /\ Within(k) \subseteq Request
      BY <1>2, <2>1 DEF Within, Leave, Inside
    <3>2. Cardinality(Within(k)') <= Cardinality(Within(k))
      BY <3>1, Part
    <3>3. Cardinality(Within(k)') \in Nat /\ Cardinality(Within(k)) \in Nat
      BY <3>1, Finite
    <3> QED BY <1>0, <3>2, <3>3
  <2> QED BY <2>2, <2>3
<1>3. CASE \/ Shed(r) \/ Pass(r) \/ Forbid(r) \/ CountIp(r)
           \/ ShedIp(r) \/ Serve(r) \/ Finish(r) \/ LeaveIp(r)
  <2>1. inFlight' = inFlight /\ cur' = cur /\ Inside' = Inside
    BY <1>3 DEF Shed, Pass, Forbid, CountIp, ShedIp, Serve, Finish, LeaveIp, Inside
  <2>2. \A k \in Nat : Within(k)' = Within(k)
    BY <2>1 DEF Within
  <2> QED BY <1>0, <2>1, <2>2
<1> QED BY <1>1, <1>2, <1>3

\* The counter of an address and its ranks, in the same way.
LEMMA AddressStep ==
  ASSUME IInv, NEW r \in Request, NEW i \in Ip,
         \/ Enter(r) \/ Shed(r) \/ Pass(r) \/ Forbid(r)
         \/ CountIp(r) \/ ShedIp(r) \/ Serve(r) \/ Finish(r)
         \/ LeaveIp(r) \/ Leave(r)
  PROVE  /\ ipConns'[i] = Cardinality(InsideIp(i)')
         /\ \A k \in Nat : Cardinality(WithinIp(i, k)') <= k
<1> USE DEF IInv, TypeOK, Goto
<1>0. /\ ipConns[i] = Cardinality(InsideIp(i)) /\ InsideIp(i) \subseteq Request
      /\ \A k \in Nat : WithinIp(i, k) \subseteq InsideIp(i) /\ Cardinality(WithinIp(i, k)) <= k
  BY DEF CountersExact, Ranks, WithinIp, InsideIp
<1>1. CASE CountIp(r) /\ From[r] = i
  <2>1. /\ r \notin InsideIp(i) /\ InsideIp(i)' = InsideIp(i) \cup {r}
        /\ n'[r] = ipConns[i] + 1 /\ ipConns'[i] = ipConns[i] + 1
    BY <1>1 DEF CountIp, InsideIp
  <2>2. ipConns'[i] = Cardinality(InsideIp(i)')
    BY <1>0, <2>1, Joined
  <2>3. ASSUME NEW k \in Nat PROVE Cardinality(WithinIp(i, k)') <= k
    <3>1. CASE k >= ipConns'[i]
      <4>1. WithinIp(i, k)' \subseteq InsideIp(i)' /\ InsideIp(i)' \subseteq Request
        BY DEF WithinIp, InsideIp
      <4>2. Cardinality(WithinIp(i, k)') <= Cardinality(InsideIp(i)')
        BY <4>1, Part
      <4>3. Cardinality(WithinIp(i, k)') \in Nat
        BY <4>1, Finite
      <4> QED BY <2>2, <3>1, <4>2, <4>3, <2>1
    <3>2. CASE k < ipConns'[i]
      <4>1. WithinIp(i, k)' = WithinIp(i, k)
        BY <1>1, <2>1, <3>2 DEF WithinIp, CountIp
      <4> QED BY <4>1, <1>0
    <3> QED BY <3>1, <3>2, <2>1
  <2> QED BY <2>2, <2>3
<1>2. CASE LeaveIp(r) /\ From[r] = i
  <2>1. r \in InsideIp(i) /\ InsideIp(i)' = InsideIp(i) \ {r} /\ ipConns'[i] = ipConns[i] - 1
    BY <1>2 DEF LeaveIp, InsideIp
  <2>2. ipConns'[i] = Cardinality(InsideIp(i)')
    BY <1>0, <2>1, Parted
  <2>3. ASSUME NEW k \in Nat PROVE Cardinality(WithinIp(i, k)') <= k
    <3>1. WithinIp(i, k)' \subseteq WithinIp(i, k) /\ WithinIp(i, k) \subseteq Request
      BY <1>2, <2>1 DEF WithinIp, LeaveIp, InsideIp
    <3>2. Cardinality(WithinIp(i, k)') <= Cardinality(WithinIp(i, k))
      BY <3>1, Part
    <3>3. Cardinality(WithinIp(i, k)') \in Nat /\ Cardinality(WithinIp(i, k)) \in Nat
      BY <3>1, Finite
    <3> QED BY <1>0, <3>2, <3>3
  <2> QED BY <2>2, <2>3
<1>3. CASE \/ Enter(r) \/ Shed(r) \/ Pass(r) \/ Forbid(r)
           \/ ShedIp(r) \/ Serve(r) \/ Finish(r) \/ Leave(r)
           \/ (CountIp(r) /\ From[r] # i) \/ (LeaveIp(r) /\ From[r] # i)
  <2>1. ipConns'[i] = ipConns[i] /\ InsideIp(i)' = InsideIp(i)
    BY <1>3 DEF Enter, Shed, Pass, Forbid, CountIp, ShedIp, Serve, Finish, LeaveIp, Leave, InsideIp
  <2>2. \A q \in InsideIp(i) : n'[q] = n[q]
    BY <1>3 DEF Enter, Shed, Pass, Forbid, CountIp, ShedIp, Serve, Finish, LeaveIp, Leave, InsideIp
  <2>3. \A k \in Nat : WithinIp(i, k)' = WithinIp(i, k)
    BY <2>1, <2>2 DEF WithinIp
  <2> QED BY <1>0, <2>1, <2>3
<1> QED BY <1>1, <1>2, <1>3

\* What a request was admitted with, it keeps until it leaves.
LEMMA ComparedStep ==
  ASSUME IInv, NEW r \in Request,
         \/ Enter(r) \/ Shed(r) \/ Pass(r) \/ Forbid(r)
         \/ CountIp(r) \/ ShedIp(r) \/ Serve(r) \/ Finish(r)
         \/ LeaveIp(r) \/ Leave(r)
  PROVE  Compared'
<1> USE DEF IInv, TypeOK, Goto
<1>1. ASSUME NEW q \in Admitted' PROVE cur'[q] <= Limit(q)
  <2>1. CASE q = r
    BY <2>1 DEF Admitted, Compared, Enter, Shed, Pass, Forbid, CountIp, ShedIp, Serve, Finish, LeaveIp, Leave
  <2>2. CASE q # r
    <3>1. q \in Admitted /\ cur'[q] = cur[q]
      BY <2>2 DEF Admitted, Enter, Shed, Pass, Forbid, CountIp, ShedIp, Serve, Finish, LeaveIp, Leave
    <3> QED BY <3>1 DEF Compared
  <2> QED BY <2>1, <2>2
<1>2. ASSUME NEW i \in Ip, NEW q \in Served(i)' PROVE n'[q] <= IpLimit(q)
  <2>1. CASE q = r
    BY <2>1 DEF Served, Enter, Shed, Pass, Forbid, CountIp, ShedIp, Serve, Finish, LeaveIp, Leave
  <2>2. CASE q # r
    <3>1. q \in Served(i) /\ n'[q] = n[q]
      BY <2>2 DEF Served, Enter, Shed, Pass, Forbid, CountIp, ShedIp, Serve, Finish, LeaveIp, Leave
    <3> QED BY <3>1 DEF Compared
  <2> QED BY <2>1, <2>2
<1> QED BY <1>1, <1>2 DEF Compared, Limit, IpLimit

THEOREM Inductive == Spec => []IInv
<1>1. Init => IInv
  BY Start
<1>2. IInv /\ [Next]_vars => IInv'
  <2> SUFFICES ASSUME IInv, [Next]_vars PROVE IInv'
    OBVIOUS
  <2>1. CASE Next
    <3>1. PICK r \in Request :
            \/ Enter(r) \/ Shed(r) \/ Pass(r) \/ Forbid(r)
            \/ CountIp(r) \/ ShedIp(r) \/ Serve(r) \/ Finish(r)
            \/ LeaveIp(r) \/ Leave(r)
      BY <2>1 DEF Next
    <3>2. TypeOK' /\ Compared'
      BY <3>1, TypeStep, ComparedStep
    <3>3. /\ inFlight' = Cardinality(Inside')
          /\ \A k \in Nat : Cardinality(Within(k)') <= k
      BY <3>1, GlobalStep
    <3>4. \A i \in Ip : /\ ipConns'[i] = Cardinality(InsideIp(i)')
                        /\ \A k \in Nat : Cardinality(WithinIp(i, k)') <= k
      BY <3>1, AddressStep
    <3> QED BY <3>2, <3>3, <3>4 DEF IInv, CountersExact, Ranks
  <2>2. CASE UNCHANGED vars
    BY <2>2 DEF vars, IInv, TypeOK, CountersExact, Ranks, Compared, Inside, InsideIp, Within,
                WithinIp, Admitted, Served, Limit, IpLimit, Public
  <2> QED BY <2>1, <2>2
<1> QED BY <1>1, <1>2, PTL DEF Spec

------------------------------------------------------------------------------
(* The theorems *)

\* No counter is ever taken below zero.
THEOREM TypeCorrect == Spec => []TypeOK
<1>1. IInv => TypeOK
  BY DEF IInv
<1> QED BY <1>1, Inductive, PTL

\* Whichever way requests leave, the counters count those inside.
THEOREM CountersCorrect == Spec => []CountersExact
<1>1. IInv => CountersExact
  BY DEF IInv
<1> QED BY <1>1, Inductive, PTL

\* mwFlood needs no lock: adding first and comparing later never admits too many.
THEOREM CapacityCorrect == Spec => []CapacityBounded
<1> QED BY Capacity, Inductive, PTL

\* And never too many of an address.
THEOREM AddressCorrect == Spec => []AddressBounded
<1> QED BY Address, Inductive, PTL

------------------------------------------------------------------------------
(* The gate, and the reserve *)

\* The gate counts as this module does.
LEMMA SameCardinality ==
  ASSUME NEW S
  PROVE  Gate!Cardinality(S) = Cardinality(S)
BY DEF Gate!Cardinality, Cardinality

\* A step of a request that leaves "passed" and "serving" alone, or goes from the
\* one to the other, changes the gate accordingly.
LEMMA GateStep ==
  ASSUME IInv, IInv', NEW r \in Request,
         \/ Enter(r) \/ Shed(r) \/ Pass(r) \/ Forbid(r)
         \/ CountIp(r) \/ ShedIp(r) \/ Serve(r) \/ Finish(r)
         \/ LeaveIp(r) \/ Leave(r)
  PROVE  [Gate!Next]_Gate!gate
<1> DEFINE Serving == {q \in Request : pc[q] = "serving"}
<1>a. /\ pc \in [Request -> {"out", "counted", "passed", "countedIp", "serving", "leavingIp", "leaving"}]
      /\ From \in [Request -> Ip]
  BY FloodGuardAssumption DEF IInv, TypeOK
<1>b. /\ Cardinality(Admitted') <= Max
      /\ Cardinality(Admitted' \cap Public) <= PublicLimit
      /\ \A i \in Ip : /\ Cardinality(Served(i)') <= MaxPerIp
                       /\ Cardinality(Served(i)' \cap Public) <= PublicIpLimit
  <2>1. CapacityBounded' /\ AddressBounded'
    BY Capacity, Address, PTL
  <2>2. Public' = Public /\ PublicLimit' = PublicLimit /\ PublicIpLimit' = PublicIpLimit
    BY DEF Public, PublicLimit, PublicIpLimit
  <2>3. QED
    BY <2>1, <2>2 DEF CapacityBounded, AddressBounded
<1>1. CASE Enter(r) \/ Shed(r) \/ CountIp(r) \/ LeaveIp(r) \/ Leave(r)
  <2>1. Admitted' = Admitted /\ Serving' = Serving
    BY <1>1, <1>a DEF Enter, Shed, CountIp, LeaveIp, Leave, Goto, Admitted
  <2>2. QED
    BY <2>1 DEF Gate!gate
<1>2. CASE Pass(r)
  <2>1. r \notin Admitted /\ Admitted' = Admitted \cup {r} /\ Serving' = Serving
    BY <1>2, <1>a DEF Pass, Goto, Admitted
  <2>2. Gate!LetIn(r)
    BY <2>1, <1>b, SameCardinality DEF Gate!LetIn
  <2>3. QED
    BY <2>2 DEF Gate!Next
<1>3. CASE Serve(r)
  <2>1. r \in Admitted \ Serving /\ Admitted' = Admitted /\ Serving' = Serving \cup {r}
    BY <1>3, <1>a DEF Serve, Goto, Admitted
  <2>2. Gate!Of(From[r])' = Served(From[r])' /\ From[r] \in Ip
    BY <1>a DEF Gate!Of, Served
  <2>3. Gate!Handle(r)
    BY <2>1, <2>2, <1>b, SameCardinality DEF Gate!Handle
  <2>4. QED
    BY <2>3 DEF Gate!Next
<1>4. CASE Forbid(r) \/ ShedIp(r) \/ Finish(r)
  <2>1. r \in Admitted /\ Admitted' = Admitted \ {r} /\ Serving' = Serving \ {r}
    BY <1>4, <1>a DEF Forbid, ShedIp, Finish, Goto, Admitted
  <2>2. Gate!Go(r)
    BY <2>1 DEF Gate!Go
  <2>3. QED
    BY <2>2 DEF Gate!Next
<1>5. QED
  BY <1>1, <1>2, <1>3, <1>4

\* The flood guard implements the gate that its settings describe: requests that
\* are counted and then turned away are not seen, and no interleaving of two
\* additions and two comparisons lets one in too many.
THEOREM GateCorrect == Spec => GateSpec
<1>1. Init => Gate!Init
  BY DEF Init, Gate!Init, Admitted
<1>2. IInv /\ IInv' /\ [Next]_vars => [Gate!Next]_Gate!gate
  <2> SUFFICES ASSUME IInv, IInv', [Next]_vars PROVE [Gate!Next]_Gate!gate
    OBVIOUS
  <2>1. CASE Next
    BY <2>1, GateStep DEF Next
  <2>2. CASE UNCHANGED vars
    BY <2>2 DEF vars, Gate!gate, Admitted
  <2>3. QED
    BY <2>1, <2>2
<1>3. QED
  BY <1>1, <1>2, Inductive, PTL DEF Spec, GateSpec, Gate!Spec

\* If all requests fit into the server, the ones to be turned away included,
\* nobody with a token is shed.  The run flood_reserve shows that it is those
\* additions, and not the admitted requests, that the reserve does not cover.
THEOREM ReserveIfAllFit ==
  ASSUME Cardinality(Request) <= Max
  PROVE  Spec => ReserveKept
<1> DEFINE Small == \A r \in Request : cur[r] <= Cardinality(Request)
<1>0. Cardinality(Request) \in Nat
  BY Finite
<1>1. Init => Small
  BY <1>0 DEF Init
<1>2. IInv /\ Small /\ [Next]_vars => Small'
  <2> SUFFICES ASSUME IInv, Small, [Next]_vars PROVE Small'
    OBVIOUS
  <2>1. ASSUME NEW r \in Request, Enter(r)
        PROVE  Small'
    <3>1. /\ r \notin Inside /\ Inside \subseteq Request /\ Inside \cup {r} \subseteq Request
          /\ inFlight = Cardinality(Inside)
      BY <2>1 DEF Enter, Goto, Inside, IInv, CountersExact
    <3>2. inFlight + 1 <= Cardinality(Request)
      BY <3>1, Joined, Part
    <3>3. QED
      BY <2>1, <3>2 DEF Enter, IInv, TypeOK
  <2>2. ASSUME NEW r \in Request, Leave(r)
        PROVE  Small'
    BY <2>2, <1>0 DEF Leave, IInv, TypeOK
  <2>3. CASE UNCHANGED cur
    BY <2>3
  <2>4. QED
    BY <2>1, <2>2, <2>3 DEF Next, vars, Shed, Pass, Forbid, CountIp, ShedIp, Serve, Finish, LeaveIp
<1>3. IInv /\ Small /\ [Next]_vars
      => [\A r \in Creds : Shed(r) => Cardinality(Inside \ Public) > Max - PublicLimit]_vars
  <2> SUFFICES ASSUME IInv, Small, NEW r \in Creds, Shed(r)
               PROVE  FALSE
    OBVIOUS
  <2>1. r \in Request /\ Limit(r) = Max
    BY FloodGuardAssumption DEF Limit, Public
  <2>2. QED
    BY <2>1, <1>0, Limits DEF Shed, IInv, TypeOK
<1>4. QED
  BY <1>1, <1>2, <1>3, Inductive, PTL DEF Spec, ReserveKept
==============================================================================
