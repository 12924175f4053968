------------------------------ MODULE FloodGuard ------------------------------
(***************************************************************************)
(* mwFlood, the first middleware: every request adds itself to a global    *)
(* counter, compares the value it got with its limit, does the same with   *)
(* the counter of its address, and takes itself off both on the way out.   *)
(* There is no lock: an addition is atomic, the comparison comes later,    *)
(* and a request that will be turned away counts in the meantime.          *)
(***************************************************************************)
EXTENDS Naturals, FiniteSets

CONSTANTS
  Request,    \* requests that may be inside the server at the same time
  Creds,      \* those that carry a token
  Health,     \* those for a health endpoint
  Ip,         \* client addresses
  From,       \* From[r]: the address of r
  Max,        \* max_concurrent
  Reserved,   \* authed_reserved_concurrent
  MaxPerIp,   \* max_conn_per_ip
  PublicPerIp \* public_max_conn_per_ip, 0 for none

ASSUME FloodGuardAssumption ==
  /\ IsFiniteSet(Request)
  /\ Creds \subseteq Request /\ Health \subseteq Request
  /\ From \in [Request -> Ip]
  /\ Max \in Nat \ {0} /\ MaxPerIp \in Nat \ {0}
  /\ Reserved \in Nat /\ PublicPerIp \in Nat

VARIABLES
  pc,        \* pc[r]: how far r has come
  inFlight,  \* the global counter
  cur,       \* cur[r]: what inFlight.Add returned to r
  ipConns,   \* ipConns[i]: the counter of address i
  n          \* n[r]: what its Add returned to r

vars == <<pc, inFlight, cur, ipConns, n>>

Init ==
  /\ pc = [r \in Request |-> "out"]
  /\ inFlight = 0
  /\ cur = [r \in Request |-> 0]
  /\ ipConns = [i \in Ip |-> 0]
  /\ n = [r \in Request |-> 0]

Goto(r, from, to) == pc[r] = from /\ pc' = [pc EXCEPT ![r] = to]

\* Anonymous requests, health checks apart.
Public == Request \ (Creds \cup Health)

\* publicConcurrencyLimit: what the reserve leaves, one at least.
PublicLimit == IF Reserved >= Max THEN 1 ELSE Max - Reserved

Limit(r) == IF r \in Public THEN PublicLimit ELSE Max

PublicIpLimit == IF PublicPerIp \in 1..MaxPerIp THEN PublicPerIp ELSE MaxPerIp

IpLimit(r) == IF r \in Public THEN PublicIpLimit ELSE MaxPerIp

\* cur := fg.inFlight.Add(1)
Enter(r) ==
  /\ Goto(r, "out", "counted")
  /\ inFlight' = inFlight + 1
  /\ cur' = [cur EXCEPT ![r] = inFlight + 1]
  /\ UNCHANGED <<ipConns, n>>

\* cur > limit: 503
Shed(r) ==
  /\ cur[r] > Limit(r)
  /\ Goto(r, "counted", "leaving")
  /\ UNCHANGED <<inFlight, cur, ipConns, n>>

\* Mutant: only anonymous requests are compared.
Pass_Creds(r) ==
  /\ cur[r] <= Limit(r) \/ r \in Creds
  /\ Goto(r, "counted", "passed")
  /\ UNCHANGED <<inFlight, cur, ipConns, n>>

Pass(r) ==
  /\ cur[r] <= Limit(r)
  /\ Goto(r, "counted", "passed")
  /\ UNCHANGED <<inFlight, cur, ipConns, n>>

\* Mutant: the 403 takes the request off the counter, and so does the defer.
Forbid_Twice(r) ==
  /\ Goto(r, "passed", "leaving")
  /\ inFlight' = inFlight - 1
  /\ UNCHANGED <<cur, ipConns, n>>

\* The address is on the blocklist: 403
Forbid(r) ==
  /\ Goto(r, "passed", "leaving")
  /\ UNCHANGED <<inFlight, cur, ipConns, n>>

\* Mutant: Load, then Store of one more.
CountIp_Stale(r) ==
  /\ Goto(r, "passed", "countedIp")
  /\ \E old \in {ipConns[From[r]], ipConns[From[r]] - 1} \cap Nat :
       /\ ipConns' = [ipConns EXCEPT ![From[r]] = old + 1]
       /\ n' = [n EXCEPT ![r] = old + 1]
  /\ UNCHANGED <<inFlight, cur>>

\* n := counter.Add(1), on the counter that LoadOrStore has for the address
CountIp(r) ==
  /\ Goto(r, "passed", "countedIp")
  /\ ipConns' = [ipConns EXCEPT ![From[r]] = @ + 1]
  /\ n' = [n EXCEPT ![r] = ipConns[From[r]] + 1]
  /\ UNCHANGED <<inFlight, cur>>

\* Mutant: the 429 comes before the defer is set up.
ShedIp_Leak(r) ==
  /\ n[r] > IpLimit(r)
  /\ Goto(r, "countedIp", "leaving")
  /\ UNCHANGED <<inFlight, cur, ipConns, n>>

\* n > maxConn: 429
ShedIp(r) ==
  /\ n[r] > IpLimit(r)
  /\ Goto(r, "countedIp", "leavingIp")
  /\ UNCHANGED <<inFlight, cur, ipConns, n>>

\* next(c)
Serve(r) ==
  /\ n[r] <= IpLimit(r)
  /\ Goto(r, "countedIp", "serving")
  /\ UNCHANGED <<inFlight, cur, ipConns, n>>

\* The handler returned or panicked, or the method was not allowed.
Finish(r) ==
  /\ Goto(r, "serving", "leavingIp")
  /\ UNCHANGED <<inFlight, cur, ipConns, n>>

\* The deferred counter.Add(-1)
LeaveIp(r) ==
  /\ Goto(r, "leavingIp", "leaving")
  /\ ipConns' = [ipConns EXCEPT ![From[r]] = @ - 1]
  /\ n' = [n EXCEPT ![r] = 0]
  /\ UNCHANGED <<inFlight, cur>>

\* The deferred inFlight.Add(-1)
Leave(r) ==
  /\ Goto(r, "leaving", "out")
  /\ inFlight' = inFlight - 1
  /\ cur' = [cur EXCEPT ![r] = 0]
  /\ UNCHANGED <<ipConns, n>>

Next ==
  \E r \in Request :
    \/ Enter(r) \/ Shed(r) \/ Pass(r) \/ Forbid(r)
    \/ CountIp(r) \/ ShedIp(r) \/ Serve(r) \/ Finish(r)
    \/ LeaveIp(r) \/ Leave(r)

Spec == Init /\ [][Next]_vars

------------------------------------------------------------------------------
(* Properties *)

Inside == {r \in Request : pc[r] # "out"}
InsideIp(i) == {r \in Request : pc[r] \in {"countedIp", "serving", "leavingIp"} /\ From[r] = i}
Admitted == {r \in Request : pc[r] \in {"passed", "countedIp", "serving"}}
Served(i) == {r \in Request : pc[r] = "serving" /\ From[r] = i}

\* Every variable has its type: a counter is never taken below zero.
TypeOK ==
  /\ pc \in [Request -> {"out", "counted", "passed", "countedIp", "serving", "leavingIp", "leaving"}]
  /\ inFlight \in Nat
  /\ cur \in [Request -> Nat]
  /\ ipConns \in [Ip -> Nat]
  /\ n \in [Request -> Nat]

\* Whichever of the six ways out a request takes, it is taken off exactly the
\* counters it was put on: nothing turned away stays counted, which would in
\* the end turn away everybody.
CountersExact ==
  /\ inFlight = Cardinality(Inside)
  /\ \A i \in Ip : ipConns[i] = Cardinality(InsideIp(i))

\* However additions, comparisons and departures interleave, no more requests
\* are admitted than max_concurrent, no more anonymous ones than the reserve
\* leaves.
CapacityBounded ==
  /\ Cardinality(Admitted) <= Max
  /\ Cardinality(Admitted \cap Public) <= PublicLimit

\* Nor does an address get more than its share.
AddressBounded ==
  \A i \in Ip :
    /\ Cardinality(Served(i)) <= MaxPerIp
    /\ Cardinality(Served(i) \cap Public) <= PublicIpLimit

\* As long as the requests that are not anonymous fit into the reserve, none of
\* those with a token is turned away for want of capacity.
ReserveKept ==
  [][\A r \in Creds :
       Shed(r) => Cardinality(Inside \ Public) > Max - PublicLimit]_vars

\* The additions, comparisons and departures, none of which is atomic together,
\* look to requests like one atomic gate.
Gate == INSTANCE Admission WITH
  inside <- Admitted,
  handled <- {r \in Request : pc[r] = "serving"}

GateSpec == Gate!Spec
==============================================================================
