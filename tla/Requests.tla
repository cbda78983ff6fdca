------------------------------ MODULE Requests -------------------------------
(***************************************************************************)
(* The HTTP API: api/main.py, auth.py, rate_limit.py, audit_logger.py and  *)
(* the routes.  A request passes the middlewares, the role check of its    *)
(* route and the rate limiter, which runs inside the route's wrapper; its  *)
(* token is verified three times on the way, by the role check, by the     *)
(* limiter and by the audit, and time passes in between.                   *)
(*                                                                         *)
(* slowapi is external: with its defaults it keeps, in the memory of the   *)
(* process, one counter for each key and scope, which lasts for a minute   *)
(* from its first hit; refused requests are counted too.  The handlers     *)
(* return constants and are part of the limiter's step.                    *)
(***************************************************************************)
EXTENDS Integers, FiniteSets, Sequences

CONSTANTS
    Workers,     \* requests in progress at the same time
    Tokens,      \* [sub, role, nbf, exp]: tokens signed for this issuer, and when they
                 \* are valid
    Arrivals,    \* [op, token]: the requests that may arrive
    NoToken,     \* no bearer token
    BadToken,    \* one whose signature, issuer or claims are wrong
    Scope,       \* [Protected -> scope]: what slowapi counts together (the URL)
    Limit,       \* requests per minute (100)
    Minute,      \* a minute
    MaxTime,     \* bound: the clock
    MaxRequests, \* bound: requests
    MaxRestarts, \* bound: restarts of the process
    NoRecord     \* no audit record

Protected == {"list", "get", "feedback", "delete"}

Subs == {t.sub : t \in Tokens}

\* An audit record.
Record == [user : Subs \cup {"anonymous", "unauthenticated"}, status : {200, 401, 403, 429}]

ASSUME ArrivalsAssumption ==
    /\ Arrivals # {}
    /\ Arrivals \subseteq [op : Protected \cup {"health", "preflight"},
                           token : Tokens \cup {NoToken, BadToken}]
\* No subject is one of the audit's own words, or empty: for an empty key slowapi skips
\* the limit.
ASSUME TokensAssumption ==
    /\ \A t \in Tokens :
          /\ t.nbf \in Nat /\ t.exp \in Nat
          /\ t.sub \notin {"anonymous", "unauthenticated", ""}
    /\ {NoToken, BadToken} \cap Tokens = {} /\ NoToken # BadToken
ASSUME RecordAssumption == NoRecord \notin Record
ASSUME LimitAssumption  == Limit \in Nat \ {0} /\ Minute \in Nat \ {0}
ASSUME BoundsAssumption == {MaxTime, MaxRequests, MaxRestarts} \subseteq Nat

VARIABLES
    now,       \* 0..MaxTime: the time
    at,        \* [Workers -> Control]
    request,   \* [Workers -> Arrivals]: the request in progress
    status,    \* [Workers -> status code of the response, or 0]
    record,    \* [Workers -> [user, status] or NoRecord]: its audit record
    decided,   \* history, [Workers -> Nat]: when the response was decided on
    hits,      \* [keys -> Nat]: slowapi's counters
    until,     \* [keys -> Nat]: when they expire
    granted,   \* history, Seq([key, at]): hits within the limit, since the start
    arrived,   \* 0..MaxRequests
    restarts   \* 0..MaxRestarts

limiter == <<hits, until, granted>>
vars == <<now, at, request, status, record, decided, limiter, arrived, restarts>>

\* "responded": the router has answered, the middlewares have not returned.
Control == {"idle", "received", "authorized", "responded", "answered"}

\* slowapi's counters: by the subject and the scope.
Keys == Subs \X {Scope[op] : op \in Protected}

\* The role the route depends on.
RequiredRole(op) == IF op = "delete" THEN "admin" ELSE "analyst"

\* verify_token at time t: jwt.decode refuses a token before its nbf and after its exp.
Verified(token, t) == token \in Tokens /\ token.nbf <= t /\ t <= token.exp

TypeOK ==
    /\ now \in 0 .. MaxTime
    /\ at \in [Workers -> Control]
    /\ request \in [Workers -> Arrivals]
    /\ status \in [Workers -> {0, 200, 401, 403, 429}]
    /\ record \in [Workers -> Record \cup {NoRecord}]
    /\ decided \in [Workers -> 0 .. MaxTime]
    /\ hits \in [Keys -> Nat]
    /\ until \in [Keys -> Nat]
    /\ granted \in Seq([key : Keys, at : Nat])
    /\ arrived \in 0 .. MaxRequests
    /\ restarts \in 0 .. MaxRestarts

Init ==
    /\ now = 0
    /\ at = [w \in Workers |-> "idle"]
    /\ request = [w \in Workers |-> CHOOSE r \in Arrivals : TRUE]
    /\ status = [w \in Workers |-> 0]
    /\ record = [w \in Workers |-> NoRecord]
    /\ decided = [w \in Workers |-> 0]
    /\ hits = [k \in Keys |-> 0]
    /\ until = [k \in Keys |-> 0]
    /\ granted = <<>>
    /\ arrived = 0
    /\ restarts = 0

\* A request comes in.
Arrive(w, r) ==
    /\ at[w] \in {"idle", "answered"}
    /\ arrived < MaxRequests
    /\ arrived' = arrived + 1
    /\ at' = [at EXCEPT ![w] = "received"]
    /\ request' = [request EXCEPT ![w] = r]
    /\ status' = [status EXCEPT ![w] = 0]
    /\ record' = [record EXCEPT ![w] = NoRecord]
    /\ decided' = [decided EXCEPT ![w] = 0]
    /\ UNCHANGED <<now, limiter, restarts>>

\* The CORS middleware lies outside the audit and answers a preflight itself.
AnswerPreflight(w) ==
    /\ at[w] = "received"
    /\ request[w].op = "preflight"
    /\ status' = [status EXCEPT ![w] = 200]
    /\ at' = [at EXCEPT ![w] = "answered"]
    /\ UNCHANGED <<now, request, record, decided, limiter, arrived, restarts>>

\* /health has neither dependencies nor a limit.
CallHealth(w) ==
    /\ at[w] = "received"
    /\ request[w].op = "health"
    /\ status' = [status EXCEPT ![w] = 200]
    /\ at' = [at EXCEPT ![w] = "responded"]
    /\ UNCHANGED <<now, request, record, decided, limiter, arrived, restarts>>

\* The router's answer; code 0 stands for none yet.
Respond(w, code) ==
    /\ status' = [status EXCEPT ![w] = code]
    /\ at' = [at EXCEPT ![w] = IF code = 0 THEN "authorized" ELSE "responded"]
    /\ decided' = IF code = 0 THEN decided ELSE [decided EXCEPT ![w] = now]

\* Depends(require_role(...)), before the route's wrapper is called.
CheckRole(w) ==
    /\ at[w] = "received"
    /\ request[w].op \in Protected
    /\ LET token == request[w].token
       IN  Respond(w, IF ~Verified(token, now) THEN 401
                      ELSE IF token.role # RequiredRole(request[w].op) THEN 403
                      ELSE 0)
    /\ UNCHANGED <<now, request, record, limiter, arrived, restarts>>

\* Mutant: a counter lasts until the next full minute of the clock.
Hit_Aligned(k) ==
    /\ hits' = [hits EXCEPT ![k] = IF until[k] <= now THEN 1 ELSE @ + 1]
    /\ until' = [until EXCEPT ![k] = IF @ <= now THEN (now \div Minute + 1) * Minute ELSE @]

\* Mutant: every hit renews the counter.
Hit_Renews(k) ==
    /\ hits' = [hits EXCEPT ![k] = IF until[k] <= now THEN 1 ELSE @ + 1]
    /\ until' = [until EXCEPT ![k] = now + Minute]

\* The counter of k and its expiry after one more hit.
Hit(k) ==
    /\ hits' = [hits EXCEPT ![k] = IF until[k] <= now THEN 1 ELSE @ + 1]
    /\ until' = [until EXCEPT ![k] = IF @ <= now THEN now + Minute ELSE @]

\* Mutant: the key is the subject the role check has found, unverified.
LimitAndHandle_TrustsCheck(w) ==
    /\ at[w] = "authorized"
    /\ LET key == <<request[w].token.sub, Scope[request[w].op]>>
       IN  /\ Hit(key)
           /\ IF hits'[key] <= Limit
                THEN /\ granted' = Append(granted, [key |-> key, at |-> now])
                     /\ Respond(w, 200)
                ELSE Respond(w, 429) /\ UNCHANGED granted
    /\ UNCHANGED <<now, request, record, arrived, restarts>>

\* The wrapper of limiter.limit: limiter_key_func verifies the token again and
\* yields its subject, the counter is hit, and the handler returns.
LimitAndHandle(w) ==
    /\ at[w] = "authorized"
    /\ LET token == request[w].token
           key   == <<token.sub, Scope[request[w].op]>>
       IN  IF ~Verified(token, now)
             THEN Respond(w, 401) /\ UNCHANGED limiter
             ELSE /\ Hit(key)
                  /\ IF hits'[key] <= Limit
                       THEN /\ granted' = Append(granted, [key |-> key, at |-> now])
                            /\ Respond(w, 200)
                       ELSE Respond(w, 429) /\ UNCHANGED granted
    /\ UNCHANGED <<now, request, record, arrived, restarts>>

\* Mutant: the claims are read without verifying the token.
Principal_Unverified(token, t) ==
    CASE token = NoToken     -> "anonymous"
      [] token = BadToken    -> "unauthenticated"
      [] token \in Tokens    -> token.sub

\* Who the audit says it was.
Principal(token, t) ==
    CASE token = NoToken                          -> "anonymous"
      [] token # NoToken /\ Verified(token, t)    -> token.sub
      [] token # NoToken /\ ~Verified(token, t)   -> "unauthenticated"

\* AuditMiddleware after call_next has returned: it verifies the token once more.
Audit(w) ==
    /\ at[w] = "responded"
    /\ record' = [record EXCEPT ![w] = [user |-> Principal(request[w].token, now),
                                        status |-> status[w]]]
    /\ at' = [at EXCEPT ![w] = "answered"]
    /\ UNCHANGED <<now, request, status, decided, limiter, arrived, restarts>>

Tick ==
    /\ now < MaxTime
    /\ now' = now + 1
    /\ UNCHANGED <<at, request, status, record, decided, limiter, arrived, restarts>>

\* The process dies and is started again: requests in progress and the counters
\* are gone.
Restart ==
    /\ restarts < MaxRestarts
    /\ restarts' = restarts + 1
    /\ at' = [w \in Workers |-> "idle"]
    /\ status' = [w \in Workers |-> 0]
    /\ record' = [w \in Workers |-> NoRecord]
    /\ decided' = [w \in Workers |-> 0]
    /\ hits' = [k \in Keys |-> 0]
    /\ until' = [k \in Keys |-> 0]
    /\ granted' = <<>>
    /\ UNCHANGED <<now, request, arrived>>

Next ==
    \/ \E w \in Workers :
          \/ \E r \in Arrivals : Arrive(w, r)
          \/ AnswerPreflight(w) \/ CallHealth(w)
          \/ CheckRole(w) \/ LimitAndHandle(w) \/ Audit(w)
    \/ Tick
    \/ Restart

Spec == Init /\ [][Next]_vars

-----------------------------------------------------------------------------
(* Properties.                                                             *)

\* "100/minute" is a limit per counter, not per minute: within the life of a process a
\* user may have up to twice the limit less one requests of a scope served in less
\* than a minute, across the end of a counter, and never more.
BurstBounded ==
    \A k \in Keys, t \in 0 .. now :
        Cardinality({i \in 1 .. Len(granted) :
            granted[i].key = k /\ t <= granted[i].at /\ granted[i].at < t + Minute})
                <= 2 * Limit - 1

\* A request is turned away only for its own user's requests of its scope, served
\* within the last minute: neither other users nor requests that failed a check
\* use up anyone's quota, and a user who is refused is not locked out.
RefusedOnlyWhenOver ==
    [][\A w \in Workers :
          status[w] # 429 /\ status'[w] = 429 =>
              LET key == <<request[w].token.sub, Scope[request[w].op]>>
              IN  Cardinality({i \in 1 .. Len(granted) :
                      granted[i].key = key /\ granted[i].at > now - Minute}) >= Limit]_vars

\* At the moment a protected handler runs, however long ago the role was checked,
\* the token is still valid and of the route's role.
ServedWhileAuthorized ==
    [][\A w \in Workers :
          status[w] = 0 /\ status'[w] = 200 /\ request[w].op \in Protected =>
              /\ Verified(request[w].token, now)
              /\ request[w].token.role = RequiredRole(request[w].op)]_vars

\* The audit record and the response agree on who it was, although they verify the
\* token at different times: a record names nobody but the token's subject, what was
\* refused as unauthenticated is recorded under a name only if the token was not valid
\* yet when it was refused, and a record that fails to name the user who was let through
\* does so because the token has expired since.
AuditNamesCaller ==
    \A w \in Workers :
        at[w] = "answered" /\ request[w].op \in Protected =>
            LET token == request[w].token
                user  == record[w].user
            IN  /\ record[w] # NoRecord /\ record[w].status = status[w]
                /\ user \in Subs =>
                      user = token.sub /\ (status[w] = 401 => decided[w] < token.nbf)
                /\ user \notin Subs /\ status[w] # 401 =>
                      user = "unauthenticated" /\ now > token.exp

\* audit_logger.py:35: "Capture structured, privacy-safe audit records for every HTTP
\* request": whoever has an answer has left a record.
EveryRequestAudited ==
    \A w \in Workers : at[w] = "answered" => record[w] # NoRecord
=============================================================================
