------------------------------ MODULE Admission -------------------------------
(***************************************************************************)
(* What the settings of the flood guard promise: a gate that looks at who  *)
(* is inside and lets a request in, and later through to its handler, in   *)
(* one step, and only if the limits still hold with it.  There are no      *)
(* counters here, and nothing that is turned away leaves a trace.          *)
(***************************************************************************)
EXTENDS Naturals, FiniteSets

CONSTANTS
  Request,       \* requests
  Public,        \* the anonymous ones
  Ip,            \* client addresses
  From,          \* From[r]: the address of r
  Max,           \* requests inside
  PublicLimit,   \* anonymous requests inside
  MaxPerIp,      \* requests of an address with its handler
  PublicIpLimit  \* anonymous ones

VARIABLES
  inside,   \* requests let in
  handled   \* those of them that reached their handler

gate == <<inside, handled>>

Init == inside = {} /\ handled = {}

Of(i) == {r \in handled : From[r] = i}

LetIn(r) ==
  /\ r \notin inside
  /\ inside' = inside \cup {r}
  /\ Cardinality(inside') <= Max
  /\ Cardinality(inside' \cap Public) <= PublicLimit
  /\ UNCHANGED handled

Handle(r) ==
  /\ r \in inside \ handled
  /\ handled' = handled \cup {r}
  /\ Cardinality(Of(From[r])') <= MaxPerIp
  /\ Cardinality(Of(From[r])' \cap Public) <= PublicIpLimit
  /\ UNCHANGED inside

\* A request goes, served or turned away for its address.
Go(r) ==
  /\ r \in inside
  /\ inside' = inside \ {r}
  /\ handled' = handled \ {r}

Next == \E r \in Request : LetIn(r) \/ Handle(r) \/ Go(r)

Spec == Init /\ [][Next]_gate
===============================================================================
