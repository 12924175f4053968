------------------------------- MODULE Access --------------------------------
(***************************************************************************)
(* Who is let in: API tokens, OAuth clients and the access tokens issued   *)
(* to them, maintenance mode and the rate limiters, as the middlewares     *)
(* mwIPRateLimit, mwAuth, mwMaintenance and mwTokenRateLimit consult them, *)
(* one after the other, while administrators change them.                  *)
(*                                                                         *)
(* A request reads each of these at another moment, and an exchange of     *)
(* client credentials reads the client and stores the access token in two  *)
(* separate accesses to the database: what was read may be out of date     *)
(* when it is used.  FloodGuard is the middleware before these.            *)
(***************************************************************************)
EXTENDS Naturals

CONSTANTS
  Request,        \* requests; each is made once
  Token,          \* API tokens
  Client,         \* OAuth clients
  Grant,          \* access tokens of OAuth clients
  Expiring,       \* the API tokens with an expiry date
  Admin,          \* the tokens and clients of level admin
  Address,        \* addresses that requests without a token come from
  Nobody,         \* no credential
  PublicBurst,    \* size of the bucket of an address that reads
  ExchangeBurst,  \* ... whose first request is POST /oauth/token
  TokenBurst,     \* size of the bucket of a token
  MaxCrashes      \* bound: ends of the process

ASSUME AccessAssumption ==
  /\ Token \cap Grant = {} /\ Client \cap (Token \cup Grant) = {}
  /\ Address \cap (Token \cup Client \cup Grant) = {}
  /\ Nobody \notin Token \cup Client \cup Grant \cup Request
  /\ Admin \subseteq Token \cup Client
  /\ Expiring \subseteq Token
  /\ {PublicBurst, ExchangeBurst, TokenBurst} \subseteq Nat \ {0}
  /\ MaxCrashes \in Nat

VARIABLES
  token,        \* rows of api_tokens
  client,       \* rows of oauth_clients
  grant,        \* rows of oauth_tokens
  owner,        \* their client_id
  maintenance,  \* the flag
  limiter,      \* Server.limiters: by key, the request that made the limiter
  left,         \* tokens left in the limiter that a request made
  size,         \* its burst, 0 if the request made none
  pc,           \* where a request is
  path,         \* what it asks for
  who,          \* the credential that it presents
  from,         \* its address
  level,        \* what mwAuth has put into the context
  mine,         \* the request that made the limiter it got from getLimiter
  stale,        \* requests that came with a credential already revoked or expired
  shut,         \* requests that came in maintenance, which has lasted since
  admitted,     \* how many the limiter that a request made has let pass
  refilled,     \* how many tokens time has put into it
  racers,       \* by key, the requests between Load and Store when the first stored
  crashes       \* ends of the process so far

Key == Address \cup Token \cup Grant

tables == <<token, client, grant, owner>>
limits == <<limiter, left, size>>
request == <<path, who, from, level>>
history == <<stale, admitted, refilled, racers>>
vars == <<tables, maintenance, limits, pc, request, mine, history, shut, crashes>>

Init ==
  /\ token \in [Token -> {"none", "live"}]
  /\ client \in [Client -> {"none", "live"}]
  /\ grant = [g \in Grant |-> "none"]
  /\ owner = [g \in Grant |-> Nobody]
  /\ maintenance \in BOOLEAN
  /\ limiter = [k \in Key |-> Nobody]
  /\ left = [r \in Request |-> 0]
  /\ size = [r \in Request |-> 0]
  /\ pc = [r \in Request |-> "new"]
  /\ path = [r \in Request |-> "read"]
  /\ who = [r \in Request |-> Nobody]
  /\ from \in [Request -> Address]
  /\ level = [r \in Request |-> "anonymous"]
  /\ mine = [r \in Request |-> Nobody]
  /\ stale = {}
  /\ shut = {}
  /\ admitted = [r \in Request |-> 0]
  /\ refilled = [r \in Request |-> 0]
  /\ racers = [k \in Key |-> {}]
  /\ crashes = 0

Goto(r, here, next) == pc[r] = here /\ pc' = [pc EXCEPT ![r] = next]

LevelOf(x) == IF x \in Admin THEN "admin" ELSE "user"

\* auth.Allows: what is under /v1/admin/ is for administrators.
Allows(lv, p) == p = "admin" => lv = "admin"

------------------------------------------------------------------------------
(* A request comes in *)

\* Whether a credential has been revoked, by itself or with its client, or has expired.
Void(x) ==
  \/ x \in Token /\ token[x] = "dead"
  \/ x \in Client /\ client[x] = "dead"
  \/ x \in Grant /\ (grant[x] = "dead" \/ client[owner[x]] = "dead")

Begin(r, p, x, next) ==
  /\ Goto(r, "new", next)
  /\ path' = [path EXCEPT ![r] = p]
  /\ who' = [who EXCEPT ![r] = x]
  /\ stale' = IF Void(x) THEN stale \cup {r} ELSE stale
  /\ shut' = IF maintenance THEN shut \cup {r} ELSE shut
  /\ UNCHANGED <<tables, maintenance, limits, from, level, mine, admitted, refilled, racers, crashes>>

\* Without a token: a read of the public catalogue, behind the bucket of the address.
ArrivePublic(r) == Begin(r, "read", Nobody, "limiter")

\* POST /oauth/token with the secret of a client: behind the same bucket if the secret
\* is in the body; in a header mwIPRateLimit takes it for a token and lets it pass.
ArriveExchange(r) ==
  \E c \in Client, next \in {"limiter", "client"} :
    client[c] # "none" /\ Begin(r, "exchange", c, next)

\* With an API token or an access token: mwIPRateLimit lets it pass.
ArriveWithToken(r) ==
  \E p \in {"read", "admin"} :
    \/ \E t \in Token : token[t] # "none" /\ Begin(r, p, t, "token")
    \/ \E g \in Grant : grant[g] # "none" /\ Begin(r, p, g, "token")

Refuse(r, here) ==
  /\ Goto(r, here, "refused")
  /\ UNCHANGED <<tables, maintenance, limits, request, mine, history, shut, crashes>>

Pass(r, here, next) ==
  /\ Goto(r, here, next)
  /\ UNCHANGED <<tables, maintenance, limits, request, mine, history, shut, crashes>>

------------------------------------------------------------------------------
(* getLimiter and Allow *)

KeyOf(r) == IF who[r] \in Token \cup Grant THEN who[r] ELSE from[r]

BurstOf(r) ==
  CASE who[r] \in Token \cup Grant -> TokenBurst
    [] who[r] \in Client -> ExchangeBurst
    [] OTHER -> PublicBurst

\* Mutant: a limiter of another size is not used.
LoadLimiter_Sized(r) ==
  /\ IF limiter[KeyOf(r)] # Nobody /\ size[limiter[KeyOf(r)]] = BurstOf(r)
     THEN Goto(r, "limiter", "allow") /\ mine' = [mine EXCEPT ![r] = limiter[KeyOf(r)]]
     ELSE Goto(r, "limiter", "make") /\ UNCHANGED mine
  /\ UNCHANGED <<tables, maintenance, limits, request, history, shut, crashes>>

\* The key's limiter, whatever request it was made for, or none.
LoadLimiter(r) ==
  /\ pc[r] = "limiter"
  /\ IF limiter[KeyOf(r)] # Nobody
     THEN Goto(r, "limiter", "allow") /\ mine' = [mine EXCEPT ![r] = limiter[KeyOf(r)]]
     ELSE Goto(r, "limiter", "make") /\ UNCHANGED mine
  /\ UNCHANGED <<tables, maintenance, limits, request, history, shut, crashes>>

\* Requests that have found no limiter of a key and not yet stored one.
Missed(k) == {q \in Request : pc[q] = "make" /\ KeyOf(q) = k}

\* Mutant: LoadOrStore, whose answer is dropped when another request was first.
StoreLimiter_Dropped(r) ==
  LET k == KeyOf(r) IN
  /\ Goto(r, "make", "allow")
  /\ IF limiter[k] # Nobody THEN UNCHANGED <<limits, mine>>
     ELSE /\ limiter' = [limiter EXCEPT ![k] = r]
          /\ left' = [left EXCEPT ![r] = BurstOf(r)]
          /\ size' = [size EXCEPT ![r] = BurstOf(r)]
          /\ mine' = [mine EXCEPT ![r] = r]
  /\ racers' = IF limiter[k] # Nobody THEN racers ELSE [racers EXCEPT ![k] = Missed(k)]
  /\ UNCHANGED <<tables, maintenance, request, stale, admitted, refilled, shut, crashes>>

\* A new limiter, stored over one that another request has stored meanwhile.
StoreLimiter(r) ==
  LET k == KeyOf(r) IN
  /\ Goto(r, "make", "allow")
  /\ limiter' = [limiter EXCEPT ![k] = r]
  /\ left' = [left EXCEPT ![r] = BurstOf(r)]
  /\ size' = [size EXCEPT ![r] = BurstOf(r)]
  /\ mine' = [mine EXCEPT ![r] = r]
  /\ racers' = IF limiter[k] # Nobody THEN racers ELSE [racers EXCEPT ![k] = Missed(k)]
  /\ UNCHANGED <<tables, maintenance, request, stale, admitted, refilled, shut, crashes>>

\* Where a request goes that its limiter has let pass: mwIPRateLimit is before
\* mwAuth, where a public read is allowed, mwTokenRateLimit before the handler.
AfterLimit(r) ==
  CASE who[r] = Nobody -> "maintenance"
    [] who[r] \in Client -> "client"
    [] OTHER -> "handler"

Allow(r) ==
  /\ Goto(r, "allow", AfterLimit(r))
  /\ left[mine[r]] > 0
  /\ left' = [left EXCEPT ![mine[r]] = @ - 1]
  /\ admitted' = [admitted EXCEPT ![mine[r]] = @ + 1]
  /\ mine' = [mine EXCEPT ![r] = Nobody]
  /\ UNCHANGED <<tables, maintenance, limiter, size, request, stale, refilled, racers, shut, crashes>>

TooManyRequests(r) ==
  /\ Goto(r, "allow", "refused")
  /\ left[mine[r]] = 0
  /\ mine' = [mine EXCEPT ![r] = Nobody]
  /\ UNCHANGED <<tables, maintenance, limits, request, history, shut, crashes>>

\* Time fills the bucket of the limiter that a request made, if it is in the map or
\* about to be asked.
Refill(r) ==
  /\ left[r] < size[r]
  /\ limiter[KeyOf(r)] = r \/ \E q \in Request : pc[q] = "allow" /\ mine[q] = r
  /\ left' = [left EXCEPT ![r] = @ + 1]
  /\ refilled' = [refilled EXCEPT ![r] = @ + 1]
  /\ UNCHANGED <<tables, maintenance, limiter, size, pc, request, mine, stale, admitted, racers, shut, crashes>>

------------------------------------------------------------------------------
(* mwAuth and mwMaintenance *)

\* Let in with a level, if the level allows what is asked for.
Authorize(r, here, lv) ==
  /\ IF Allows(lv, path[r])
     THEN Goto(r, here, "maintenance") /\ level' = [level EXCEPT ![r] = lv]
     ELSE Goto(r, here, "refused") /\ UNCHANGED level
  /\ UNCHANGED <<tables, maintenance, limits, path, who, from, mine, history, shut, crashes>>

LookupTokenByHash(r) ==
  /\ pc[r] = "token"
  /\ IF who[r] \in Token /\ token[who[r]] = "live"
     THEN Authorize(r, "token", LevelOf(who[r]))
     ELSE Pass(r, "token", "grant")

\* One query over the access token and its client.
LookupOAuthToken(r) ==
  /\ pc[r] = "grant"
  /\ IF who[r] \in Grant /\ grant[who[r]] = "live" /\ client[owner[who[r]]] = "live"
     THEN Authorize(r, "grant", LevelOf(owner[who[r]]))
     ELSE Refuse(r, "grant")

\* Mutant: any token gets through.
Maintenance_Token(r) ==
  IF maintenance /\ level[r] = "anonymous"
  THEN Refuse(r, "maintenance")
  ELSE Pass(r, "maintenance", IF who[r] = Nobody THEN "handler" ELSE "limiter")

Maintenance(r) ==
  /\ pc[r] = "maintenance"
  /\ IF maintenance /\ level[r] # "admin"
     THEN Refuse(r, "maintenance")
     ELSE Pass(r, "maintenance", IF who[r] = Nobody THEN "handler" ELSE "limiter")

------------------------------------------------------------------------------
(* The handlers *)

Serve(r) == Goto(r, "handler", "served") /\ UNCHANGED <<limits, request, mine, crashes>>

\* Any handler that reads.
Read(r) == Serve(r) /\ UNCHANGED <<tables, maintenance, history, shut>>

AdminOf(r) == path[r] = "admin" /\ Serve(r) /\ UNCHANGED history

CreateToken(r) ==
  /\ AdminOf(r)
  /\ \E t \in Token : token[t] = "none" /\ token' = [token EXCEPT ![t] = "live"]
  /\ UNCHANGED <<client, grant, owner, maintenance, shut>>

RevokeToken(r) ==
  /\ AdminOf(r)
  /\ \E t \in Token : token[t] # "none" /\ token' = [token EXCEPT ![t] = "dead"]
  /\ UNCHANGED <<client, grant, owner, maintenance, shut>>

CreateOAuthClient(r) ==
  /\ AdminOf(r)
  /\ \E c \in Client : client[c] = "none" /\ client' = [client EXCEPT ![c] = "live"]
  /\ UNCHANGED <<token, grant, owner, maintenance, shut>>

\* One transaction: the client, and the access tokens that it has by now.
RevokeOAuthClient(r) ==
  /\ AdminOf(r)
  /\ \E c \in Client :
       /\ client[c] = "live"
       /\ client' = [client EXCEPT ![c] = "dead"]
       /\ grant' = [g \in Grant |-> IF owner[g] = c THEN "dead" ELSE grant[g]]
  /\ UNCHANGED <<token, owner, maintenance, shut>>

SetMaintenance(r) ==
  /\ AdminOf(r)
  /\ maintenance' \in BOOLEAN
  /\ shut' = IF maintenance' THEN shut ELSE {}
  /\ UNCHANGED tables

\* Mutant: the secret is compared, and not whether the client was revoked.
LookupOAuthClient_AnyStatus(r) == pc[r] = "client" /\ Pass(r, "client", "issue")

\* The first access of oauthToken ...
LookupOAuthClient(r) ==
  /\ pc[r] = "client"
  /\ IF client[who[r]] = "live" THEN Pass(r, "client", "issue") ELSE Refuse(r, "client")

\* ... and the second, which does not look at the client again.
IssueOAuthToken(r) ==
  /\ Goto(r, "issue", "served")
  /\ \E g \in Grant :
       /\ grant[g] = "none"
       /\ grant' = [grant EXCEPT ![g] = "live"]
       /\ owner' = [owner EXCEPT ![g] = who[r]]
  /\ UNCHANGED <<token, client, maintenance, limits, request, mine, history, shut, crashes>>

\* A call of the store fails, and the request is answered with an error.
StoreFails(r) == pc[r] \in {"token", "grant", "client", "issue", "handler"} /\ Refuse(r, pc[r])

------------------------------------------------------------------------------
(* The world *)

\* A token with an expiry date gets there.
ExpireToken(t) ==
  /\ t \in Expiring
  /\ token[t] = "live"
  /\ token' = [token EXCEPT ![t] = "dead"]
  /\ UNCHANGED <<client, grant, owner, maintenance, limits, pc, request, mine, history, shut, crashes>>

ExpireGrant(g) ==
  /\ grant[g] = "live"
  /\ grant' = [grant EXCEPT ![g] = "dead"]
  /\ UNCHANGED <<token, client, owner, maintenance, limits, pc, request, mine, history, shut, crashes>>

\* Tables survive, limiters and requests do not; the flag is configured anew.
Restart ==
  /\ crashes < MaxCrashes
  /\ crashes' = crashes + 1
  /\ maintenance' \in BOOLEAN
  /\ shut' = {}
  /\ limiter' = [k \in Key |-> Nobody]
  /\ left' = [r \in Request |-> 0]
  /\ size' = [r \in Request |-> 0]
  /\ pc' = [r \in Request |-> IF pc[r] \in {"new", "served"} THEN pc[r] ELSE "refused"]
  /\ admitted' = [r \in Request |-> 0]
  /\ refilled' = [r \in Request |-> 0]
  /\ racers' = [k \in Key |-> {}]
  /\ mine' = [r \in Request |-> Nobody]
  /\ UNCHANGED <<tables, request, stale>>

Arrive(r) == pc[r] = "new" /\ (ArrivePublic(r) \/ ArriveExchange(r) \/ ArriveWithToken(r))

Limit(r) ==
  LoadLimiter(r) \/ StoreLimiter(r) \/ Allow(r) \/ TooManyRequests(r) \/ Refill(r)

Check(r) == LookupTokenByHash(r) \/ LookupOAuthToken(r) \/ Maintenance(r)

Handle(r) ==
  \/ /\ pc[r] = "handler"
     /\ \/ Read(r)
        \/ CreateToken(r)
        \/ RevokeToken(r)
        \/ CreateOAuthClient(r)
        \/ RevokeOAuthClient(r)
        \/ SetMaintenance(r)
  \/ LookupOAuthClient(r)
  \/ IssueOAuthToken(r)
  \/ StoreFails(r)

Next ==
  \/ \E r \in Request : Arrive(r) \/ Limit(r) \/ Check(r) \/ Handle(r)
  \/ \E t \in Token : ExpireToken(t)
  \/ \E g \in Grant : ExpireGrant(g)
  \/ Restart

Spec == Init /\ [][Next]_vars

------------------------------------------------------------------------------
(* Properties *)

\* Every variable has its type, and whoever is at a limiter has one.
TypeOK ==
  /\ token \in [Token -> {"none", "live", "dead"}]
  /\ client \in [Client -> {"none", "live", "dead"}]
  /\ grant \in [Grant -> {"none", "live", "dead"}]
  /\ owner \in [Grant -> Client \cup {Nobody}]
  /\ \A g \in Grant : owner[g] = Nobody <=> grant[g] = "none"
  /\ maintenance \in BOOLEAN
  /\ limiter \in [Key -> Request \cup {Nobody}]
  /\ left \in [Request -> Nat]
  /\ size \in [Request -> Nat]
  /\ pc \in [Request -> {"new", "limiter", "make", "allow", "token", "grant", "maintenance",
                         "client", "issue", "handler", "served", "refused"}]
  /\ path \in [Request -> {"read", "admin", "exchange"}]
  /\ who \in [Request -> Token \cup Grant \cup Client \cup {Nobody}]
  /\ from \in [Request -> Address]
  /\ level \in [Request -> {"anonymous", "user", "admin"}]
  /\ mine \in [Request -> Request \cup {Nobody}]
  /\ \A r \in Request : pc[r] = "allow" => mine[r] \in Request
  /\ stale \in SUBSET Request
  /\ shut \in SUBSET Request
  /\ admitted \in [Request -> Nat]
  /\ refilled \in [Request -> Nat]
  /\ racers \in [Key -> SUBSET Request]
  /\ crashes \in 0..MaxCrashes

\* A request that comes after its credential was revoked or had expired is not
\* served, also not with an access token that was stored after its client was
\* revoked, and no client gets an access token that asks for one after that.
RevokedNotServed == \A r \in stale : pc[r] # "served"

\* Whoever gets to a handler under /v1/admin/, before or after a restart and whatever
\* was revoked, issued or created since it was looked up, holds an administrator's
\* token or an access token of an administrator's client.
AdminsOnly ==
  \A r \in Request : path[r] = "admin" /\ pc[r] \in {"limiter", "handler", "served"} =>
    \/ who[r] \in Token \cap Admin
    \/ who[r] \in Grant /\ owner[who[r]] \in Admin

\* What is void stays void: no handler and no restart brings a credential back, and
\* an access token of a revoked client is not saved by being stored after it.
VoidStays ==
  [][\A x \in Token \cup Client \cup {g \in Grant : grant[g] # "none"} :
       Void(x) => Void(x)']_vars

\* While maintenance lasts, nobody who came after it began is served except an
\* administrator and a client that exchanges its credentials.
MaintenanceHolds ==
  \A r \in shut : pc[r] = "served" => level[r] = "admin" \/ path[r] = "exchange"

\* What gets past the limiters of a key is what time has put into them and one
\* burst for each of the requests that raced to make the first: no other request
\* makes one, although no lock is held between Load and Store and the map may
\* hold another limiter than the one that a request is using.
BurstBound ==
  \A r \in Request : size[r] > 0 =>
    /\ r \in racers[KeyOf(r)]
    /\ admitted[r] <= size[r] + refilled[r]
==============================================================================
