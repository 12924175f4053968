---------------------------- MODULE AccessProofs -----------------------------
(***************************************************************************)
(* Proofs about Access: types, credentials that no longer count,           *)
(* maintenance mode and the limiters, for any requests, tokens, clients,   *)
(* addresses and sizes of buckets.                                         *)
(***************************************************************************)
EXTENDS Access, TLAPS

\* Which credentials a request can have where.
Credentials ==
  \A r \in Request :
    /\ pc[r] = "new" => who[r] = Nobody
    /\ who[r] \in Client => path[r] = "exchange" /\ pc[r] \notin {"token", "grant", "maintenance"}
    /\ who[r] \in Grant => grant[who[r]] # "none"
    /\ pc[r] \in {"token", "grant"} => who[r] \in Token \cup Grant
    /\ pc[r] \in {"client", "issue"} => who[r] \in Client

\* A request that came too late is on its way to be refused: it is before the lookup
\* of its credential, which is void and stays void.
Late ==
  \A r \in stale :
    /\ Void(who[r])
    /\ \/ pc[r] \in {"token", "grant", "client", "refused"}
       \/ pc[r] \in {"limiter", "make", "allow"} /\ who[r] \in Client

\* A request that came in maintenance is before mwMaintenance, or exempt from it.
Closed ==
  \A r \in shut :
    /\ maintenance
    /\ pc[r] # "new"
    /\ pc[r] \in {"limiter", "make", "allow"} /\ who[r] \in Token \cup Grant => level[r] = "admin"
    /\ pc[r] \in {"handler", "served"} => level[r] = "admin" \/ who[r] \in Client

\* A request makes at most one limiter, and only if it raced for the first.
Limiters ==
  /\ \A k \in Key : limiter[k] # Nobody => Missed(k) \subseteq racers[k]
  /\ \A r \in Request :
       /\ admitted[r] + left[r] = size[r] + refilled[r]
       /\ size[r] = 0 => left[r] = 0 /\ refilled[r] = 0
       /\ size[r] > 0 =>
            /\ limiter[KeyOf(r)] # Nobody
            /\ r \in racers[KeyOf(r)]
            /\ pc[r] \notin {"new", "limiter", "make", "token", "grant"}
            /\ pc[r] = "maintenance" => who[r] = Nobody

IInv == TypeOK /\ Credentials /\ Late /\ Closed /\ Limiters

\* Types are kept; that an exchange has a client is needed to see who owns what.
LEMMA TypeStep == TypeOK /\ Credentials /\ [Next]_vars => TypeOK'
<1> SUFFICES ASSUME TypeOK /\ Credentials, [Next]_vars PROVE TypeOK'
  OBVIOUS
<1> USE AccessAssumption DEF TypeOK, Key, Goto, tables, limits, request, history
<1>1. ASSUME NEW r \in Request, ArrivePublic(r) PROVE TypeOK'
  BY <1>1 DEF ArrivePublic, Begin
<1>2. ASSUME NEW r \in Request, ArriveExchange(r) PROVE TypeOK'
  BY <1>2 DEF ArriveExchange, Begin
<1>3. ASSUME NEW r \in Request, ArriveWithToken(r) PROVE TypeOK'
  <2>1. ASSUME NEW p \in {"read", "admin"}, NEW x \in Token \cup Grant, Begin(r, p, x, "token")
       PROVE TypeOK'
    BY <2>1 DEF Begin
  <2> QED
    BY <1>3, <2>1 DEF ArriveWithToken
<1>4. ASSUME NEW r \in Request, LoadLimiter(r) PROVE TypeOK'
  <2>1. KeyOf(r) \in Key
    BY DEF KeyOf
  <2> QED
    BY <1>4, <2>1 DEF LoadLimiter
<1>5. ASSUME NEW r \in Request, StoreLimiter(r) PROVE TypeOK'
  BY <1>5 DEF StoreLimiter, KeyOf, BurstOf, Missed
<1>6. ASSUME NEW r \in Request, Allow(r) PROVE TypeOK'
  BY <1>6 DEF Allow, AfterLimit
<1>7. ASSUME NEW r \in Request, TooManyRequests(r) PROVE TypeOK'
  BY <1>7 DEF TooManyRequests, Refuse
<1>8. ASSUME NEW r \in Request, Refill(r) PROVE TypeOK'
  BY <1>8 DEF Refill
<1>9. ASSUME NEW r \in Request, LookupTokenByHash(r) PROVE TypeOK'
  <2>1. CASE Authorize(r, "token", LevelOf(who[r]))
    BY <2>1 DEF Authorize, LevelOf
  <2>2. CASE Pass(r, "token", "grant")
    BY <2>2 DEF Pass
  <2> QED
    BY <1>9, <2>1, <2>2 DEF LookupTokenByHash
<1>10. ASSUME NEW r \in Request, LookupOAuthToken(r) PROVE TypeOK'
  BY <1>10 DEF LookupOAuthToken, Authorize, Refuse, LevelOf
<1>11. ASSUME NEW r \in Request, Maintenance(r) PROVE TypeOK'
  BY <1>11 DEF Maintenance, Pass, Refuse
<1>12. ASSUME NEW r \in Request, Read(r) PROVE TypeOK'
  BY <1>12 DEF Read, Serve
<1>13. ASSUME NEW r \in Request, CreateToken(r) PROVE TypeOK'
  BY <1>13 DEF CreateToken, AdminOf, Serve
<1>14. ASSUME NEW r \in Request, RevokeToken(r) PROVE TypeOK'
  BY <1>14 DEF RevokeToken, AdminOf, Serve
<1>15. ASSUME NEW r \in Request, CreateOAuthClient(r) PROVE TypeOK'
  BY <1>15 DEF CreateOAuthClient, AdminOf, Serve
<1>16. ASSUME NEW r \in Request, RevokeOAuthClient(r) PROVE TypeOK'
  BY <1>16 DEF RevokeOAuthClient, AdminOf, Serve
<1>17. ASSUME NEW r \in Request, SetMaintenance(r) PROVE TypeOK'
  BY <1>17 DEF SetMaintenance, AdminOf, Serve
<1>18. ASSUME NEW r \in Request, LookupOAuthClient(r) PROVE TypeOK'
  BY <1>18 DEF LookupOAuthClient, Pass, Refuse
<1>19. ASSUME NEW r \in Request, IssueOAuthToken(r) PROVE TypeOK'
  <2>1. who[r] \in Client
    BY <1>19 DEF IssueOAuthToken, Credentials
  <2> QED
    BY <1>19, <2>1 DEF IssueOAuthToken
<1>20. ASSUME NEW r \in Request, StoreFails(r) PROVE TypeOK'
  BY <1>20 DEF StoreFails, Refuse
<1>21. ASSUME NEW t \in Token, ExpireToken(t) PROVE TypeOK'
  BY <1>21 DEF ExpireToken
<1>22. ASSUME NEW g \in Grant, ExpireGrant(g) PROVE TypeOK'
  BY <1>22 DEF ExpireGrant
<1>23. CASE Restart
  BY <1>23 DEF Restart
<1>24. CASE UNCHANGED vars
  BY <1>24 DEF vars
<1> QED
  BY <1>1, <1>2, <1>3, <1>4, <1>5, <1>6, <1>7, <1>8, <1>9, <1>10, <1>11, <1>12,
     <1>13, <1>14, <1>15, <1>16, <1>17, <1>18, <1>19, <1>20, <1>21, <1>22, <1>23, <1>24
  DEF Next, Arrive, Limit, Check, Handle

\* What credentials requests have where.
LEMMA CredentialsStep == TypeOK /\ Credentials /\ [Next]_vars => Credentials'
<1> SUFFICES ASSUME TypeOK /\ Credentials, [Next]_vars PROVE Credentials'
  OBVIOUS
<1> USE AccessAssumption DEF TypeOK, Credentials, Goto, tables, limits, request, history
<1>1. ASSUME NEW r \in Request, ArrivePublic(r) PROVE Credentials'
  BY <1>1 DEF ArrivePublic, Begin
<1>2. ASSUME NEW r \in Request, ArriveExchange(r) PROVE Credentials'
  BY <1>2 DEF ArriveExchange, Begin
<1>3. ASSUME NEW r \in Request, ArriveWithToken(r) PROVE Credentials'
  <2>1. ASSUME NEW p \in {"read", "admin"}, NEW x \in Token \cup Grant,
              x \in Grant => grant[x] # "none", Begin(r, p, x, "token")
       PROVE Credentials'
    BY <2>1 DEF Begin
  <2> QED
    BY <1>3, <2>1 DEF ArriveWithToken
<1>4. ASSUME NEW r \in Request, LoadLimiter(r) PROVE Credentials'
  BY <1>4 DEF LoadLimiter
<1>5. ASSUME NEW r \in Request, StoreLimiter(r) PROVE Credentials'
  BY <1>5 DEF StoreLimiter
<1>6. ASSUME NEW r \in Request, Allow(r) PROVE Credentials'
  BY <1>6 DEF Allow, AfterLimit
<1>7. ASSUME NEW r \in Request, TooManyRequests(r) PROVE Credentials'
  BY <1>7 DEF TooManyRequests, Refuse
<1>8. ASSUME NEW r \in Request, Refill(r) PROVE Credentials'
  BY <1>8 DEF Refill
<1>9. ASSUME NEW r \in Request, LookupTokenByHash(r) PROVE Credentials'
  BY <1>9 DEF LookupTokenByHash, Authorize, Pass
<1>10. ASSUME NEW r \in Request, LookupOAuthToken(r) PROVE Credentials'
  BY <1>10 DEF LookupOAuthToken, Authorize, Refuse
<1>11. ASSUME NEW r \in Request, Maintenance(r) PROVE Credentials'
  BY <1>11 DEF Maintenance, Pass, Refuse
<1>12. ASSUME NEW r \in Request, Read(r) PROVE Credentials'
  BY <1>12 DEF Read, Serve
<1>13. ASSUME NEW r \in Request, CreateToken(r) PROVE Credentials'
  BY <1>13 DEF CreateToken, AdminOf, Serve
<1>14. ASSUME NEW r \in Request, RevokeToken(r) PROVE Credentials'
  BY <1>14 DEF RevokeToken, AdminOf, Serve
<1>15. ASSUME NEW r \in Request, CreateOAuthClient(r) PROVE Credentials'
  BY <1>15 DEF CreateOAuthClient, AdminOf, Serve
<1>16. ASSUME NEW r \in Request, RevokeOAuthClient(r) PROVE Credentials'
  BY <1>16 DEF RevokeOAuthClient, AdminOf, Serve
<1>17. ASSUME NEW r \in Request, SetMaintenance(r) PROVE Credentials'
  BY <1>17 DEF SetMaintenance, AdminOf, Serve
<1>18. ASSUME NEW r \in Request, LookupOAuthClient(r) PROVE Credentials'
  BY <1>18 DEF LookupOAuthClient, Pass, Refuse
<1>19. ASSUME NEW r \in Request, IssueOAuthToken(r) PROVE Credentials'
  BY <1>19 DEF IssueOAuthToken
<1>20. ASSUME NEW r \in Request, StoreFails(r) PROVE Credentials'
  BY <1>20 DEF StoreFails, Refuse
<1>21. ASSUME NEW t \in Token, ExpireToken(t) PROVE Credentials'
  BY <1>21 DEF ExpireToken
<1>22. ASSUME NEW g \in Grant, ExpireGrant(g) PROVE Credentials'
  BY <1>22 DEF ExpireGrant
<1>23. CASE Restart
  BY <1>23 DEF Restart
<1>24. CASE UNCHANGED vars
  BY <1>24 DEF vars
<1> QED
  BY <1>1, <1>2, <1>3, <1>4, <1>5, <1>6, <1>7, <1>8, <1>9, <1>10, <1>11, <1>12,
     <1>13, <1>14, <1>15, <1>16, <1>17, <1>18, <1>19, <1>20, <1>21, <1>22, <1>23, <1>24
  DEF Next, Arrive, Limit, Check, Handle

\* A void credential stays void, and a request that came with one gets no further.
LEMMA LateStep == IInv /\ [Next]_vars => Late'
<1> SUFFICES ASSUME IInv, [Next]_vars PROVE Late'
  OBVIOUS
<1> USE AccessAssumption
    DEF IInv, TypeOK, Credentials, Late, Void, Goto, tables, limits, request, history
<1>1. ASSUME NEW r \in Request, ArrivePublic(r) PROVE Late'
  BY <1>1 DEF ArrivePublic, Begin
<1>2. ASSUME NEW r \in Request, ArriveExchange(r) PROVE Late'
  BY <1>2 DEF ArriveExchange, Begin
<1>3. ASSUME NEW r \in Request, ArriveWithToken(r) PROVE Late'
  <2>1. ASSUME NEW p \in {"read", "admin"}, NEW x \in Token \cup Grant,
              x \in Grant => grant[x] # "none", Begin(r, p, x, "token")
       PROVE Late'
    BY <2>1 DEF Begin
  <2> QED
    BY <1>3, <2>1 DEF ArriveWithToken
<1>4. ASSUME NEW r \in Request, LoadLimiter(r) PROVE Late'
  BY <1>4 DEF LoadLimiter
<1>5. ASSUME NEW r \in Request, StoreLimiter(r) PROVE Late'
  BY <1>5 DEF StoreLimiter
<1>6. ASSUME NEW r \in Request, Allow(r) PROVE Late'
  BY <1>6 DEF Allow, AfterLimit
<1>7. ASSUME NEW r \in Request, TooManyRequests(r) PROVE Late'
  BY <1>7 DEF TooManyRequests, Refuse
<1>8. ASSUME NEW r \in Request, Refill(r) PROVE Late'
  BY <1>8 DEF Refill
<1>9. ASSUME NEW r \in Request, LookupTokenByHash(r) PROVE Late'
  BY <1>9 DEF LookupTokenByHash, Authorize, Pass
<1>10. ASSUME NEW r \in Request, LookupOAuthToken(r) PROVE Late'
  BY <1>10 DEF LookupOAuthToken, Authorize, Refuse
<1>11. ASSUME NEW r \in Request, Maintenance(r) PROVE Late'
  BY <1>11 DEF Maintenance, Pass, Refuse
<1>12. ASSUME NEW r \in Request, Read(r) PROVE Late'
  BY <1>12 DEF Read, Serve
<1>13. ASSUME NEW r \in Request, CreateToken(r) PROVE Late'
  BY <1>13 DEF CreateToken, AdminOf, Serve
<1>14. ASSUME NEW r \in Request, RevokeToken(r) PROVE Late'
  BY <1>14 DEF RevokeToken, AdminOf, Serve
<1>15. ASSUME NEW r \in Request, CreateOAuthClient(r) PROVE Late'
  BY <1>15 DEF CreateOAuthClient, AdminOf, Serve
<1>16. ASSUME NEW r \in Request, RevokeOAuthClient(r) PROVE Late'
  BY <1>16 DEF RevokeOAuthClient, AdminOf, Serve
<1>17. ASSUME NEW r \in Request, SetMaintenance(r) PROVE Late'
  BY <1>17 DEF SetMaintenance, AdminOf, Serve
<1>18. ASSUME NEW r \in Request, LookupOAuthClient(r) PROVE Late'
  BY <1>18 DEF LookupOAuthClient, Pass, Refuse
<1>19. ASSUME NEW r \in Request, IssueOAuthToken(r) PROVE Late'
  BY <1>19 DEF IssueOAuthToken
<1>20. ASSUME NEW r \in Request, StoreFails(r) PROVE Late'
  BY <1>20 DEF StoreFails, Refuse
<1>21. ASSUME NEW t \in Token, ExpireToken(t) PROVE Late'
  BY <1>21 DEF ExpireToken
<1>22. ASSUME NEW g \in Grant, ExpireGrant(g) PROVE Late'
  BY <1>22 DEF ExpireGrant
<1>23. CASE Restart
  BY <1>23 DEF Restart
<1>24. CASE UNCHANGED vars
  BY <1>24 DEF vars
<1> QED
  BY <1>1, <1>2, <1>3, <1>4, <1>5, <1>6, <1>7, <1>8, <1>9, <1>10, <1>11, <1>12,
     <1>13, <1>14, <1>15, <1>16, <1>17, <1>18, <1>19, <1>20, <1>21, <1>22, <1>23, <1>24
  DEF Next, Arrive, Limit, Check, Handle

\* Maintenance catches who came after it began.
LEMMA ClosedStep == IInv /\ [Next]_vars => Closed'
<1> SUFFICES ASSUME IInv, [Next]_vars PROVE Closed'
  OBVIOUS
<1> USE AccessAssumption
    DEF IInv, TypeOK, Credentials, Closed, Goto, tables, limits, request, history
<1>1. ASSUME NEW r \in Request, ArrivePublic(r) PROVE Closed'
  BY <1>1 DEF ArrivePublic, Begin
<1>2. ASSUME NEW r \in Request, ArriveExchange(r) PROVE Closed'
  BY <1>2 DEF ArriveExchange, Begin
<1>3. ASSUME NEW r \in Request, ArriveWithToken(r) PROVE Closed'
  <2>1. ASSUME NEW p \in {"read", "admin"}, NEW x \in Token \cup Grant,
              x \in Grant => grant[x] # "none", Begin(r, p, x, "token")
       PROVE Closed'
    BY <2>1 DEF Begin
  <2> QED
    BY <1>3, <2>1 DEF ArriveWithToken
<1>4. ASSUME NEW r \in Request, LoadLimiter(r) PROVE Closed'
  BY <1>4 DEF LoadLimiter
<1>5. ASSUME NEW r \in Request, StoreLimiter(r) PROVE Closed'
  BY <1>5 DEF StoreLimiter
<1>6. ASSUME NEW r \in Request, Allow(r) PROVE Closed'
  BY <1>6 DEF Allow, AfterLimit
<1>7. ASSUME NEW r \in Request, TooManyRequests(r) PROVE Closed'
  BY <1>7 DEF TooManyRequests, Refuse
<1>8. ASSUME NEW r \in Request, Refill(r) PROVE Closed'
  BY <1>8 DEF Refill
<1>9. ASSUME NEW r \in Request, LookupTokenByHash(r) PROVE Closed'
  BY <1>9 DEF LookupTokenByHash, Authorize, Pass, LevelOf, Allows
<1>10. ASSUME NEW r \in Request, LookupOAuthToken(r) PROVE Closed'
  BY <1>10 DEF LookupOAuthToken, Authorize, Refuse, LevelOf, Allows
<1>11. ASSUME NEW r \in Request, Maintenance(r) PROVE Closed'
  BY <1>11 DEF Maintenance, Pass, Refuse
<1>12. ASSUME NEW r \in Request, Read(r) PROVE Closed'
  BY <1>12 DEF Read, Serve
<1>13. ASSUME NEW r \in Request, CreateToken(r) PROVE Closed'
  BY <1>13 DEF CreateToken, AdminOf, Serve
<1>14. ASSUME NEW r \in Request, RevokeToken(r) PROVE Closed'
  BY <1>14 DEF RevokeToken, AdminOf, Serve
<1>15. ASSUME NEW r \in Request, CreateOAuthClient(r) PROVE Closed'
  BY <1>15 DEF CreateOAuthClient, AdminOf, Serve
<1>16. ASSUME NEW r \in Request, RevokeOAuthClient(r) PROVE Closed'
  BY <1>16 DEF RevokeOAuthClient, AdminOf, Serve
<1>17. ASSUME NEW r \in Request, SetMaintenance(r) PROVE Closed'
  BY <1>17 DEF SetMaintenance, AdminOf, Serve
<1>18. ASSUME NEW r \in Request, LookupOAuthClient(r) PROVE Closed'
  BY <1>18 DEF LookupOAuthClient, Pass, Refuse
<1>19. ASSUME NEW r \in Request, IssueOAuthToken(r) PROVE Closed'
  BY <1>19 DEF IssueOAuthToken
<1>20. ASSUME NEW r \in Request, StoreFails(r) PROVE Closed'
  BY <1>20 DEF StoreFails, Refuse
<1>21. ASSUME NEW t \in Token, ExpireToken(t) PROVE Closed'
  BY <1>21 DEF ExpireToken
<1>22. ASSUME NEW g \in Grant, ExpireGrant(g) PROVE Closed'
  BY <1>22 DEF ExpireGrant
<1>23. CASE Restart
  BY <1>23 DEF Restart
<1>24. CASE UNCHANGED vars
  BY <1>24 DEF vars
<1> QED
  BY <1>1, <1>2, <1>3, <1>4, <1>5, <1>6, <1>7, <1>8, <1>9, <1>10, <1>11, <1>12,
     <1>13, <1>14, <1>15, <1>16, <1>17, <1>18, <1>19, <1>20, <1>21, <1>22, <1>23, <1>24
  DEF Next, Arrive, Limit, Check, Handle

\* Nothing that the limiters depend on has changed.
LEMMA Stays ==
  ASSUME IInv, UNCHANGED <<limits, pc, who, from, admitted, refilled, racers>>
  PROVE  Limiters'
<1>1. \A q \in Request : KeyOf(q)' = KeyOf(q)
  BY DEF KeyOf
<1>2. \A k \in Key : Missed(k)' = Missed(k)
  BY <1>1 DEF Missed
<1>3. Limiters
  BY DEF IInv
<1> QED
  BY <1>1, <1>2, <1>3 DEF Limiters, limits

\* A request that goes on, with its limiters as they were, breaks nothing if it does
\* not come to make one for a key that has one, nor come back to the limiters.
LEMMA Moves ==
  ASSUME IInv, NEW r \in Request, NEW here, NEW next, Goto(r, here, next),
         UNCHANGED <<limits, who, from, admitted, refilled, racers>>,
         next = "make" => limiter[KeyOf(r)] = Nobody,
         size[r] > 0 => /\ next \notin {"new", "limiter", "make", "token", "grant"}
                        /\ next = "maintenance" => who[r] = Nobody
  PROVE  Limiters'
<1>1. \A q \in Request : KeyOf(q)' = KeyOf(q)
  <2>1. who' = who /\ from' = from
    OBVIOUS
  <2> QED
    BY <2>1 DEF KeyOf
<1>2. \A q \in Request : pc'[q] = IF q = r THEN next ELSE pc[q]
  BY DEF Goto, IInv, TypeOK
<1>3. UNCHANGED <<limiter, left, size>> /\ Limiters
  BY DEF limits, IInv
<1>4. ASSUME NEW k \in Key, limiter'[k] # Nobody PROVE Missed(k)' \subseteq racers'[k]
  <2>1. Missed(k)' \subseteq Missed(k)
    BY <1>1, <1>2, <1>3, <1>4 DEF Missed
  <2> QED
    BY <1>3, <1>4, <2>1 DEF Limiters
<1>5. ASSUME NEW q \in Request, size'[q] > 0
      PROVE  /\ limiter'[KeyOf(q)'] # Nobody /\ q \in racers'[KeyOf(q)']
             /\ pc'[q] \notin {"new", "limiter", "make", "token", "grant"}
             /\ pc'[q] = "maintenance" => who'[q] = Nobody
  BY <1>1, <1>2, <1>3, <1>5 DEF Limiters
<1> QED
  BY <1>3, <1>4, <1>5 DEF Limiters

\* A request that comes in has made no limiter and is not about to.
LEMMA Comes ==
  ASSUME IInv, NEW r \in Request, NEW p, NEW x, NEW next \in {"limiter", "token", "client"},
         Begin(r, p, x, next)
  PROVE  Limiters'
<1> USE DEF IInv, TypeOK, Key, Limiters, Goto, limits, Begin
<1>1. \A q \in Request \ {r} : KeyOf(q)' = KeyOf(q) /\ pc'[q] = pc[q]
  BY DEF KeyOf
<1>2. pc[r] = "new" /\ pc'[r] = next /\ size[r] = 0
  OBVIOUS
<1>3. \A k \in Key : Missed(k)' \subseteq Missed(k)
  BY <1>1, <1>2 DEF Missed
<1> QED
  BY <1>1, <1>2, <1>3

\* Nobody makes a limiter but those who raced for the first.
LEMMA LimitersStep == IInv /\ [Next]_vars => Limiters'
<1> SUFFICES ASSUME IInv, [Next]_vars PROVE Limiters'
  OBVIOUS
<1> USE AccessAssumption DEF IInv
<1>1. ASSUME NEW r \in Request, ArrivePublic(r) PROVE Limiters'
  BY <1>1, Comes DEF ArrivePublic
<1>2. ASSUME NEW r \in Request, ArriveExchange(r) PROVE Limiters'
  BY <1>2, Comes DEF ArriveExchange
<1>3. ASSUME NEW r \in Request, ArriveWithToken(r) PROVE Limiters'
  BY <1>3, Comes DEF ArriveWithToken
<1>4. ASSUME NEW r \in Request, LoadLimiter(r) PROVE Limiters'
  BY <1>4, Moves DEF LoadLimiter, limits, request, history, IInv, Limiters, Goto
<1>5. ASSUME NEW r \in Request, StoreLimiter(r) PROVE Limiters'
  <2> USE <1>5 DEF StoreLimiter, Goto, IInv, TypeOK, limits, request, Limiters
  <2> DEFINE k == KeyOf(r)
  <2>1. \A q \in Request : KeyOf(q)' = KeyOf(q)
    BY DEF KeyOf
  <2>2. k \in Key /\ Nobody \notin Request
    BY AccessAssumption DEF KeyOf, Key
  <2>3. \A j \in Key : Missed(j)' \subseteq Missed(j)
    BY <2>1 DEF Missed
  <2>4. r \in Missed(k) /\ size[r] = 0 /\ BurstOf(r) \in Nat \ {0}
    BY AccessAssumption DEF Missed, BurstOf
  <2>5. limiter'[k] # Nobody /\ r \in racers'[k] /\ Missed(k) \subseteq racers'[k]
    BY <2>2, <2>4
  <2>6. ASSUME NEW j \in Key, j # k PROVE limiter'[j] = limiter[j] /\ racers'[j] = racers[j]
    BY <2>2, <2>6
  <2>7. ASSUME NEW j \in Key, limiter'[j] # Nobody PROVE Missed(j)' \subseteq racers'[j]
    BY <2>3, <2>5, <2>6, <2>7
  <2>8. ASSUME NEW q \in Request, q # r, size'[q] > 0
        PROVE  limiter'[KeyOf(q)] # Nobody /\ q \in racers'[KeyOf(q)]
    <3>1. KeyOf(q) \in Key /\ size[q] > 0
      BY <2>8 DEF KeyOf, Key
    <3>2. limiter[KeyOf(q)] # Nobody /\ q \in racers[KeyOf(q)]
      BY <3>1
    <3> QED
      BY <2>5, <2>6, <3>1, <3>2
  <2>9. \A q \in Request : /\ admitted'[q] + left'[q] = size'[q] + refilled'[q]
                           /\ size'[q] = 0 => left'[q] = 0 /\ refilled'[q] = 0
    BY <2>4
  <2>10. ASSUME NEW q \in Request, size'[q] > 0
         PROVE  /\ pc'[q] \notin {"new", "limiter", "make", "token", "grant"}
                /\ pc'[q] = "maintenance" => who'[q] = Nobody
    BY <2>10
  <2> HIDE <1>5 DEF StoreLimiter, Goto, IInv, TypeOK, k
  <2>11. \A q \in Request : size'[q] > 0 => /\ limiter'[KeyOf(q)'] # Nobody
                                           /\ q \in racers'[KeyOf(q)']
    BY <2>1, <2>5, <2>8 DEF k
  <2> QED
    BY <2>7, <2>9, <2>10, <2>11
<1>6. ASSUME NEW r \in Request, Allow(r) PROVE Limiters'
  <2> USE <1>6 DEF Allow, Goto, IInv, TypeOK, limits, request, Limiters
  <2>1. \A q \in Request : KeyOf(q)' = KeyOf(q)
    BY DEF KeyOf
  <2>2. pc'[r] \notin {"new", "limiter", "make", "token", "grant"}
        /\ (pc'[r] = "maintenance" => who[r] = Nobody)
    BY DEF AfterLimit
  <2>3. \A k \in Key : Missed(k)' \subseteq Missed(k)
    BY <2>1, <2>2 DEF Missed
  <2>4. mine[r] \in Request /\ size[mine[r]] > 0
    OBVIOUS
  <2>5. \A q \in Request : admitted'[q] + left'[q] = size'[q] + refilled'[q]
    BY <2>4
  <2>6. \A q \in Request : size'[q] = 0 => left'[q] = 0 /\ refilled'[q] = 0
    BY <2>4
  <2>7. ASSUME NEW q \in Request, size'[q] > 0
        PROVE  /\ limiter'[KeyOf(q)'] # Nobody /\ q \in racers'[KeyOf(q)']
               /\ pc'[q] \notin {"new", "limiter", "make", "token", "grant"}
               /\ pc'[q] = "maintenance" => who'[q] = Nobody
    BY <2>1, <2>2, <2>7
  <2> QED
    BY <2>3, <2>5, <2>6, <2>7
<1>7. ASSUME NEW r \in Request, TooManyRequests(r) PROVE Limiters'
  BY <1>7, Moves DEF TooManyRequests, Refuse, limits, request, history, Credentials, Goto
<1>8. ASSUME NEW r \in Request, Refill(r) PROVE Limiters'
  <2> USE <1>8 DEF Refill, IInv, TypeOK, limits, request, Limiters
  <2>1. \A q \in Request : KeyOf(q)' = KeyOf(q)
    BY DEF KeyOf
  <2>2. \A k \in Key : Missed(k)' = Missed(k)
    BY <2>1 DEF Missed
  <2>3. /\ left' = [left EXCEPT ![r] = left[r] + 1]
        /\ refilled' = [refilled EXCEPT ![r] = refilled[r] + 1]
        /\ size' = size /\ admitted' = admitted
        /\ size[r] # 0
    OBVIOUS
  <2>4. ASSUME NEW q \in Request
        PROVE  /\ admitted'[q] + left'[q] = size'[q] + refilled'[q]
               /\ size'[q] = 0 => left'[q] = 0 /\ refilled'[q] = 0
    <3>1. CASE q = r
      <4>1. left'[r] = left[r] + 1 /\ refilled'[r] = refilled[r] + 1
        BY <2>3
      <4>2. admitted[r] + left[r] = size[r] + refilled[r]
        OBVIOUS
      <4>3. admitted[r] \in Nat /\ left[r] \in Nat /\ size[r] \in Nat /\ refilled[r] \in Nat
        OBVIOUS
      <4> HIDE <1>8 DEF Refill, IInv, TypeOK, limits, request, Limiters
      <4> QED
        BY <2>3, <3>1, <4>1, <4>2, <4>3
    <3>2. CASE q # r
      BY <2>3, <3>2
    <3> QED
      BY <3>1, <3>2
  <2> QED
    BY <2>1, <2>2, <2>3, <2>4
<1>9. ASSUME NEW r \in Request, LookupTokenByHash(r) PROVE Limiters'
  BY <1>9, Moves DEF LookupTokenByHash, Authorize, Pass, limits, request, history, IInv, Limiters, Goto
<1>10. ASSUME NEW r \in Request, LookupOAuthToken(r) PROVE Limiters'
  BY <1>10, Moves DEF LookupOAuthToken, Authorize, Refuse, limits, request, history, IInv, Limiters, Goto
<1>11. ASSUME NEW r \in Request, Maintenance(r) PROVE Limiters'
  BY <1>11, Moves DEF Maintenance, Pass, Refuse, limits, request, history, IInv, Limiters, Goto
<1>12. ASSUME NEW r \in Request, Read(r) PROVE Limiters'
  BY <1>12, Moves DEF Read, Serve, limits, request, history, Credentials, Goto
<1>13. ASSUME NEW r \in Request, CreateToken(r) PROVE Limiters'
  BY <1>13, Moves DEF CreateToken, AdminOf, Serve, limits, request, history, Credentials, Goto
<1>14. ASSUME NEW r \in Request, RevokeToken(r) PROVE Limiters'
  BY <1>14, Moves DEF RevokeToken, AdminOf, Serve, limits, request, history, Credentials, Goto
<1>15. ASSUME NEW r \in Request, CreateOAuthClient(r) PROVE Limiters'
  BY <1>15, Moves DEF CreateOAuthClient, AdminOf, Serve, limits, request, history, Credentials, Goto
<1>16. ASSUME NEW r \in Request, RevokeOAuthClient(r) PROVE Limiters'
  BY <1>16, Moves DEF RevokeOAuthClient, AdminOf, Serve, limits, request, history, Credentials, Goto
<1>17. ASSUME NEW r \in Request, SetMaintenance(r) PROVE Limiters'
  BY <1>17, Moves DEF SetMaintenance, AdminOf, Serve, limits, request, history, Credentials, Goto
<1>18. ASSUME NEW r \in Request, LookupOAuthClient(r) PROVE Limiters'
  BY <1>18, Moves DEF LookupOAuthClient, Pass, Refuse, limits, request, history, Credentials, Goto
<1>19. ASSUME NEW r \in Request, IssueOAuthToken(r) PROVE Limiters'
  BY <1>19, Moves DEF IssueOAuthToken, limits, request, history, Credentials, Goto
<1>20. ASSUME NEW r \in Request, StoreFails(r) PROVE Limiters'
  BY <1>20, Moves DEF StoreFails, Refuse, limits, request, history, Credentials, Goto
<1>21. ASSUME NEW t \in Token, ExpireToken(t) PROVE Limiters'
  BY <1>21, Stays DEF ExpireToken, request, history
<1>22. ASSUME NEW g \in Grant, ExpireGrant(g) PROVE Limiters'
  BY <1>22, Stays DEF ExpireGrant, request, history
<1>23. CASE Restart
  <2>1. \A r \in Request : size'[r] = 0 /\ left'[r] = 0 /\ refilled'[r] = 0 /\ admitted'[r] = 0
    BY <1>23 DEF Restart
  <2>2. \A k \in Key : limiter'[k] = Nobody
    BY <1>23 DEF Restart
  <2> QED
    BY <2>1, <2>2 DEF Limiters
<1>24. CASE UNCHANGED vars
  BY <1>24, Stays DEF vars, limits, request, history
<1> QED
  BY <1>1, <1>2, <1>3, <1>4, <1>5, <1>6, <1>7, <1>8, <1>9, <1>10, <1>11, <1>12,
     <1>13, <1>14, <1>15, <1>16, <1>17, <1>18, <1>19, <1>20, <1>21, <1>22, <1>23, <1>24
  DEF Next, Arrive, Limit, Check, Handle

LEMMA Step == IInv /\ [Next]_vars => IInv'
BY TypeStep, CredentialsStep, LateStep, ClosedStep, LimitersStep DEF IInv

LEMMA Start == Init => IInv
<1> SUFFICES ASSUME Init PROVE IInv
  OBVIOUS
<1> USE AccessAssumption DEF Init
<1>1. TypeOK
  BY DEF TypeOK, Key
<1>2. Credentials
  BY DEF Credentials
<1>3. Late /\ Closed
  BY DEF Late, Closed
<1>4. Limiters
  <2>1. \A k \in Key : limiter[k] = Nobody
    OBVIOUS
  <2>2. \A r \in Request : admitted[r] = 0 /\ left[r] = 0 /\ size[r] = 0 /\ refilled[r] = 0
    OBVIOUS
  <2> QED
    BY <2>1, <2>2 DEF Limiters
<1> QED
  BY <1>1, <1>2, <1>3, <1>4 DEF IInv

LEMMA Always == Spec => []IInv
BY Start, Step, PTL DEF Spec

\* The state of the tables, the limiters and the requests that the middlewares work
\* on always has its type.
THEOREM TypeCorrect == Spec => []TypeOK
<1>1. IInv => TypeOK
  BY DEF IInv
<1> QED
  BY <1>1, Always, PTL

\* However the two accesses of an exchange fall between a revocation, no request that
\* comes after its token, its access token or its client was revoked is served.
THEOREM RevokedCorrect == Spec => []RevokedNotServed
<1>1. IInv => RevokedNotServed
  <2>1. ASSUME IInv, NEW r \in stale PROVE pc[r] # "served"
    BY <2>1 DEF IInv, Late
  <2> QED
    BY <2>1 DEF RevokedNotServed
<1> QED
  BY <1>1, Always, PTL

\* The level that mwAuth has found and the flag that mwMaintenance reads later keep out
\* everyone who came after maintenance began and is no administrator.
THEOREM MaintenanceCorrect == Spec => []MaintenanceHolds
<1>1. IInv => MaintenanceHolds
  <2>1. ASSUME IInv, NEW r \in shut, pc[r] = "served"
        PROVE  level[r] = "admin" \/ path[r] = "exchange"
    BY <2>1 DEF IInv, TypeOK, Closed, Credentials
  <2> QED
    BY <2>1 DEF MaintenanceHolds
<1> QED
  BY <1>1, Always, PTL

\* The race between Load and Store costs at most one burst for each request in it, and
\* a limiter that was replaced in the map is still counted by those who hold it.
THEOREM BurstCorrect == Spec => []BurstBound
<1>1. IInv => BurstBound
  <2>1. ASSUME IInv, NEW r \in Request, size[r] > 0
        PROVE  r \in racers[KeyOf(r)] /\ admitted[r] <= size[r] + refilled[r]
    <3>1. /\ admitted[r] \in Nat /\ left[r] \in Nat
          /\ admitted[r] + left[r] = size[r] + refilled[r]
          /\ r \in racers[KeyOf(r)]
      BY <2>1 DEF IInv, TypeOK, Limiters
    <3>2. size[r] + refilled[r] \in Nat
      BY <2>1 DEF IInv, TypeOK
    <3> QED
      BY <3>1, <3>2
  <2> QED
    BY <2>1 DEF BurstBound
<1> QED
  BY <1>1, Always, PTL

------------------------------------------------------------------------------
(* Levels, and what is void *)

HoldsAdmin(r) ==
  \/ who[r] \in Token \cap Admin
  \/ who[r] \in Grant /\ owner[who[r]] \in Admin

\* The level in the context is that of the request's own credential, and past
\* mwAuth a request for an admin path has the level admin.
Levels ==
  \A r \in Request :
    /\ pc[r] = "new" => level[r] = "anonymous" /\ path[r] = "read"
    /\ level[r] = "admin" => HoldsAdmin(r)
    /\ path[r] = "admin" /\ pc[r] \notin {"token", "grant", "refused"} => level[r] = "admin"

\* No step gives a request a level that its credential does not have.
LEMMA LevelsStep == IInv /\ Levels /\ [Next]_vars => Levels'
<1> SUFFICES ASSUME IInv, Levels, [Next]_vars PROVE Levels'
  OBVIOUS
<1> USE AccessAssumption
    DEF IInv, TypeOK, Credentials, Levels, HoldsAdmin, Goto, tables, limits, request, history
<1>1. ASSUME NEW r \in Request, ArrivePublic(r) PROVE Levels'
  BY <1>1 DEF ArrivePublic, Begin
<1>2. ASSUME NEW r \in Request, ArriveExchange(r) PROVE Levels'
  BY <1>2 DEF ArriveExchange, Begin
<1>3. ASSUME NEW r \in Request, ArriveWithToken(r) PROVE Levels'
  <2>1. ASSUME NEW p \in {"read", "admin"}, NEW x \in Token \cup Grant,
              x \in Grant => grant[x] # "none", Begin(r, p, x, "token")
       PROVE Levels'
    BY <2>1 DEF Begin
  <2> QED
    BY <1>3, <2>1 DEF ArriveWithToken
<1>4. ASSUME NEW r \in Request, LoadLimiter(r) PROVE Levels'
  BY <1>4 DEF LoadLimiter
<1>5. ASSUME NEW r \in Request, StoreLimiter(r) PROVE Levels'
  BY <1>5 DEF StoreLimiter
<1>6. ASSUME NEW r \in Request, Allow(r) PROVE Levels'
  BY <1>6 DEF Allow, AfterLimit
<1>7. ASSUME NEW r \in Request, TooManyRequests(r) PROVE Levels'
  BY <1>7 DEF TooManyRequests, Refuse
<1>8. ASSUME NEW r \in Request, Refill(r) PROVE Levels'
  BY <1>8 DEF Refill
<1>9. ASSUME NEW r \in Request, LookupTokenByHash(r) PROVE Levels'
  BY <1>9 DEF LookupTokenByHash, Authorize, Pass, LevelOf, Allows
<1>10. ASSUME NEW r \in Request, LookupOAuthToken(r) PROVE Levels'
  BY <1>10 DEF LookupOAuthToken, Authorize, Refuse, LevelOf, Allows
<1>11. ASSUME NEW r \in Request, Maintenance(r) PROVE Levels'
  BY <1>11 DEF Maintenance, Pass, Refuse
<1>12. ASSUME NEW r \in Request, Read(r) PROVE Levels'
  BY <1>12 DEF Read, Serve
<1>13. ASSUME NEW r \in Request, CreateToken(r) PROVE Levels'
  BY <1>13 DEF CreateToken, AdminOf, Serve
<1>14. ASSUME NEW r \in Request, RevokeToken(r) PROVE Levels'
  BY <1>14 DEF RevokeToken, AdminOf, Serve
<1>15. ASSUME NEW r \in Request, CreateOAuthClient(r) PROVE Levels'
  BY <1>15 DEF CreateOAuthClient, AdminOf, Serve
<1>16. ASSUME NEW r \in Request, RevokeOAuthClient(r) PROVE Levels'
  BY <1>16 DEF RevokeOAuthClient, AdminOf, Serve
<1>17. ASSUME NEW r \in Request, SetMaintenance(r) PROVE Levels'
  BY <1>17 DEF SetMaintenance, AdminOf, Serve
<1>18. ASSUME NEW r \in Request, LookupOAuthClient(r) PROVE Levels'
  BY <1>18 DEF LookupOAuthClient, Pass, Refuse
<1>19. ASSUME NEW r \in Request, IssueOAuthToken(r) PROVE Levels'
  BY <1>19 DEF IssueOAuthToken
<1>20. ASSUME NEW r \in Request, StoreFails(r) PROVE Levels'
  BY <1>20 DEF StoreFails, Refuse
<1>21. ASSUME NEW t \in Token, ExpireToken(t) PROVE Levels'
  BY <1>21 DEF ExpireToken
<1>22. ASSUME NEW g \in Grant, ExpireGrant(g) PROVE Levels'
  BY <1>22 DEF ExpireGrant
<1>23. CASE Restart
  BY <1>23 DEF Restart
<1>24. CASE UNCHANGED vars
  BY <1>24 DEF vars
<1> QED
  BY <1>1, <1>2, <1>3, <1>4, <1>5, <1>6, <1>7, <1>8, <1>9, <1>10, <1>11, <1>12,
     <1>13, <1>14, <1>15, <1>16, <1>17, <1>18, <1>19, <1>20, <1>21, <1>22, <1>23, <1>24
  DEF Next, Arrive, Limit, Check, Handle

\* Nobody but an administrator gets to an admin handler.
THEOREM AdminsCorrect == Spec => []AdminsOnly
<1>1. Init => Levels
  BY DEF Init, Levels
<1>2. IInv /\ Levels /\ [Next]_vars => Levels'
  BY LevelsStep
<1>3. IInv /\ Levels => AdminsOnly
  BY DEF Levels, AdminsOnly, HoldsAdmin
<1> QED
  BY <1>1, <1>2, <1>3, Always, PTL DEF Spec

\* No step brings a void credential back.
LEMMA VoidStep ==
  ASSUME IInv, [Next]_vars, NEW x \in Token \cup Client \cup {g \in Grant : grant[g] # "none"}, Void(x)
  PROVE  Void(x)'
<1> USE AccessAssumption
    DEF IInv, TypeOK, Void, Goto, tables, limits, request, history
<1>1. ASSUME NEW r \in Request, ArrivePublic(r) PROVE Void(x)'
  BY <1>1 DEF ArrivePublic, Begin
<1>2. ASSUME NEW r \in Request, ArriveExchange(r) PROVE Void(x)'
  BY <1>2 DEF ArriveExchange, Begin
<1>3. ASSUME NEW r \in Request, ArriveWithToken(r) PROVE Void(x)'
  <2>1. ASSUME NEW p \in {"read", "admin"}, NEW y \in Token \cup Grant,
              y \in Grant => grant[y] # "none", Begin(r, p, y, "token")
       PROVE Void(x)'
    BY <2>1 DEF Begin
  <2> QED
    BY <1>3, <2>1 DEF ArriveWithToken
<1>4. ASSUME NEW r \in Request, LoadLimiter(r) PROVE Void(x)'
  BY <1>4 DEF LoadLimiter
<1>5. ASSUME NEW r \in Request, StoreLimiter(r) PROVE Void(x)'
  BY <1>5 DEF StoreLimiter
<1>6. ASSUME NEW r \in Request, Allow(r) PROVE Void(x)'
  BY <1>6 DEF Allow, AfterLimit
<1>7. ASSUME NEW r \in Request, TooManyRequests(r) PROVE Void(x)'
  BY <1>7 DEF TooManyRequests, Refuse
<1>8. ASSUME NEW r \in Request, Refill(r) PROVE Void(x)'
  BY <1>8 DEF Refill
<1>9. ASSUME NEW r \in Request, LookupTokenByHash(r) PROVE Void(x)'
  BY <1>9 DEF LookupTokenByHash, Authorize, Pass
<1>10. ASSUME NEW r \in Request, LookupOAuthToken(r) PROVE Void(x)'
  BY <1>10 DEF LookupOAuthToken, Authorize, Refuse
<1>11. ASSUME NEW r \in Request, Maintenance(r) PROVE Void(x)'
  BY <1>11 DEF Maintenance, Pass, Refuse
<1>12. ASSUME NEW r \in Request, Read(r) PROVE Void(x)'
  BY <1>12 DEF Read, Serve
<1>13. ASSUME NEW r \in Request, CreateToken(r) PROVE Void(x)'
  BY <1>13 DEF CreateToken, AdminOf, Serve
<1>14. ASSUME NEW r \in Request, RevokeToken(r) PROVE Void(x)'
  BY <1>14 DEF RevokeToken, AdminOf, Serve
<1>15. ASSUME NEW r \in Request, CreateOAuthClient(r) PROVE Void(x)'
  BY <1>15 DEF CreateOAuthClient, AdminOf, Serve
<1>16. ASSUME NEW r \in Request, RevokeOAuthClient(r) PROVE Void(x)'
  BY <1>16 DEF RevokeOAuthClient, AdminOf, Serve
<1>17. ASSUME NEW r \in Request, SetMaintenance(r) PROVE Void(x)'
  BY <1>17 DEF SetMaintenance, AdminOf, Serve
<1>18. ASSUME NEW r \in Request, LookupOAuthClient(r) PROVE Void(x)'
  BY <1>18 DEF LookupOAuthClient, Pass, Refuse
<1>19. ASSUME NEW r \in Request, IssueOAuthToken(r) PROVE Void(x)'
  BY <1>19 DEF IssueOAuthToken
<1>20. ASSUME NEW r \in Request, StoreFails(r) PROVE Void(x)'
  BY <1>20 DEF StoreFails, Refuse
<1>21. ASSUME NEW t \in Token, ExpireToken(t) PROVE Void(x)'
  BY <1>21 DEF ExpireToken
<1>22. ASSUME NEW g \in Grant, ExpireGrant(g) PROVE Void(x)'
  BY <1>22 DEF ExpireGrant
<1>23. CASE Restart
  BY <1>23 DEF Restart
<1>24. CASE UNCHANGED vars
  BY <1>24 DEF vars
<1> QED
  BY <1>1, <1>2, <1>3, <1>4, <1>5, <1>6, <1>7, <1>8, <1>9, <1>10, <1>11, <1>12,
     <1>13, <1>14, <1>15, <1>16, <1>17, <1>18, <1>19, <1>20, <1>21, <1>22, <1>23, <1>24
  DEF Next, Arrive, Limit, Check, Handle

\* Revocation is for good, in whatever order it and an exchange write their rows.
THEOREM VoidCorrect == Spec => VoidStays
<1>1. IInv /\ [Next]_vars
      => [\A x \in Token \cup Client \cup {g \in Grant : grant[g] # "none"} :
            Void(x) => Void(x)']_vars
  BY VoidStep
<1> QED
  BY <1>1, Always, PTL DEF Spec, VoidStays
==============================================================================
