---------------------------- MODULE RequestsProofs ---------------------------
(***************************************************************************)
(* Proofs about Requests for every set of workers, tokens and requests,    *)
(* every limit and every bound.                                            *)
(***************************************************************************)
EXTENDS Requests, FiniteSetTheorems, TLAPS

\* A request that has passed the role check has a token of the right role, signed
\* for this issuer, and no answer yet.
Checked ==
    \A w \in Workers :
        at[w] = "authorized" =>
            /\ request[w].op \in Protected
            /\ request[w].token \in Tokens
            /\ request[w].token.role = RequiredRole(request[w].op)
            /\ status[w] = 0

\* An answer still tells, before and after its audit, what the token was worth when it
\* was decided on: valid, unless the request was refused as unauthenticated.
Answered ==
    \A w \in Workers :
        /\ decided[w] <= now
        /\ at[w] \in {"responded", "answered"} =>
              /\ status[w] # 0
              /\ request[w].op \in Protected =>
                    (status[w] = 401 <=> ~Verified(request[w].token, decided[w]))

\* The hits of a counter's present minute that were within the limit.
Counted(k) ==
    {i \in 1 .. Len(granted) : granted[i].key = k /\ granted[i].at >= until[k] - Minute}

\* A counter lasts no longer than a minute, and counts, up to the limit, requests
\* that were served.
CountersCount ==
    \A k \in Keys :
        /\ until[k] <= now + Minute
        /\ now < until[k] => \/ hits[k] <= Cardinality(Counted(k))
                             \/ Limit <= Cardinality(Counted(k))

-----------------------------------------------------------------------------
(* Types.                                                                  *)

LEMMA InitType == Init => TypeOK
  BY ArrivalsAssumption, BoundsAssumption DEF Init, TypeOK, Control

\* What a step knows of the request of a worker.
LEMMA RequestKnown ==
  ASSUME TypeOK, NEW w \in Workers
  PROVE  /\ request[w].op \in Protected \cup {"health", "preflight"}
         /\ request[w].token \in Tokens \cup {NoToken, BadToken}
  BY ArrivalsAssumption DEF TypeOK

LEMMA TokenKnown ==
  ASSUME NEW t \in Tokens
  PROVE  t.nbf \in Nat /\ t.exp \in Nat /\ t.sub \in Subs /\ t.sub \notin {"anonymous", "unauthenticated"}
  BY TokensAssumption DEF Subs

LEMMA KeyKnown ==
  ASSUME NEW t \in Tokens, NEW op \in Protected
  PROVE  <<t.sub, Scope[op]>> \in Keys
  BY DEF Keys, Subs

LEMMA HitType ==
  ASSUME TypeOK, NEW k \in Keys, Hit(k)
  PROVE  hits' \in [Keys -> Nat] /\ until' \in [Keys -> Nat]
  BY LimitAssumption DEF TypeOK, Hit

\* The counter a request hits.
KeyOf(w) == <<request[w].token.sub, Scope[request[w].op]>>

\* The limiter refuses the token, serves the request, or refuses it for its counter.
LEMMA LimiterDecides ==
  ASSUME TypeOK, Checked, NEW w \in Workers, LimitAndHandle(w)
  PROVE  /\ KeyOf(w) \in Keys
         /\ \/ /\ ~Verified(request[w].token, now)
               /\ Respond(w, 401)
               /\ UNCHANGED <<hits, until, granted>>
            \/ /\ Verified(request[w].token, now)
               /\ Hit(KeyOf(w))
               /\ hits'[KeyOf(w)] <= Limit
               /\ granted' = Append(granted, [key |-> KeyOf(w), at |-> now])
               /\ Respond(w, 200)
            \/ /\ Verified(request[w].token, now)
               /\ Hit(KeyOf(w))
               /\ ~(hits'[KeyOf(w)] <= Limit)
               /\ UNCHANGED granted
               /\ Respond(w, 429)
<1>1. KeyOf(w) \in Keys
  BY KeyKnown DEF LimitAndHandle, Checked, KeyOf
<1>2. CASE ~Verified(request[w].token, now)
  BY <1>1, <1>2 DEF LimitAndHandle, limiter
<1>3. CASE Verified(request[w].token, now)
  BY <1>1, <1>3 DEF LimitAndHandle, KeyOf
<1> QED
  BY <1>2, <1>3

\* A preflight and the health check are answered without touching anything else.
LEMMA PlainAnswer ==
  ASSUME TypeOK, NEW w \in Workers, AnswerPreflight(w) \/ CallHealth(w)
  PROVE  /\ request[w].op \notin Protected
         /\ UNCHANGED <<now, request, record, decided>>
         /\ at[w] = "received" /\ at'[w] \in {"responded", "answered"} /\ status'[w] = 200
         /\ \A v \in Workers \ {w} : UNCHANGED <<at[v], status[v]>>
<1>1. CASE AnswerPreflight(w)
  BY <1>1 DEF TypeOK, AnswerPreflight, Protected
<1>2. CASE CallHealth(w)
  BY <1>2 DEF TypeOK, CallHealth, Protected
<1> QED
  BY <1>1, <1>2

LEMMA NowType == TypeOK => now \in Nat
  BY BoundsAssumption DEF TypeOK

\* Whatever the limiter decides, it leaves well-typed counters and an answer.
LEMMA LimitType ==
  ASSUME TypeOK, Checked, NEW w \in Workers, LimitAndHandle(w)
  PROVE  TypeOK'
<1>1. UNCHANGED <<now, request, record, arrived, restarts>>
  BY DEF LimitAndHandle
<1>2. Respond(w, 200) \/ Respond(w, 401) \/ Respond(w, 429)
  BY LimiterDecides
<1>3. /\ at' \in [Workers -> Control] /\ status' \in [Workers -> {0, 200, 401, 403, 429}]
      /\ decided' \in [Workers -> 0 .. MaxTime]
  <2>1. ASSUME NEW code \in {200, 401, 429}, Respond(w, code)
        PROVE  /\ at' \in [Workers -> Control]
               /\ status' \in [Workers -> {0, 200, 401, 403, 429}]
               /\ decided' \in [Workers -> 0 .. MaxTime]
    BY <2>1 DEF TypeOK, Respond, Control
  <2> QED
    BY <1>2, <2>1
<1>4. hits' \in [Keys -> Nat] /\ until' \in [Keys -> Nat]
  <2>1. CASE UNCHANGED <<hits, until>>
    BY <2>1 DEF TypeOK
  <2>2. CASE Hit(KeyOf(w))
    BY <2>2, LimiterDecides, HitType
  <2> QED
    BY <2>1, <2>2, LimiterDecides
<1>5. granted' \in Seq([key : Keys, at : Nat])
  <2>1. ASSUME NEW k \in Keys, granted' = Append(granted, [key |-> k, at |-> now])
        PROVE  granted' \in Seq([key : Keys, at : Nat])
    <3>1. [key |-> k, at |-> now] \in [key : Keys, at : Nat]
      BY NowType
    <3> QED
      BY <2>1, <3>1 DEF TypeOK
  <2> QED
    BY <2>1, LimiterDecides DEF TypeOK
<1> QED
  BY <1>1, <1>3, <1>4, <1>5 DEF TypeOK

\* A verified token is named, any other is not.
LEMMA PrincipalNames ==
  ASSUME NEW token \in Tokens \cup {NoToken, BadToken}, NEW t \in Nat
  PROVE  /\ Verified(token, t) => Principal(token, t) = token.sub
         /\ ~Verified(token, t) => Principal(token, t) \in {"anonymous", "unauthenticated"}
         /\ token \in Tokens /\ ~Verified(token, t) => Principal(token, t) = "unauthenticated"
  BY TokensAssumption DEF Principal, Verified

LEMMA AuditType ==
  ASSUME TypeOK, Answered, NEW w \in Workers, Audit(w)
  PROVE  TypeOK'
<1>1. status[w] \in {200, 401, 403, 429}
  BY DEF Answered, Audit, TypeOK
<1>2. Principal(request[w].token, now) \in Subs \cup {"anonymous", "unauthenticated"}
  <2>1. request[w].token \in Tokens \cup {NoToken, BadToken} /\ now \in Nat
    BY RequestKnown, NowType
  <2>2. CASE Verified(request[w].token, now)
    <3>1. request[w].token.sub \in Subs
      BY <2>2, TokenKnown DEF Verified
    <3> QED
      BY <2>1, <2>2, <3>1, PrincipalNames
  <2> QED
    BY <2>1, <2>2, PrincipalNames
<1>3. [user |-> Principal(request[w].token, now), status |-> status[w]] \in Record
  BY <1>1, <1>2 DEF Record
<1> QED
  BY <1>3 DEF TypeOK, Audit, Control, limiter

LEMMA NextType == TypeOK /\ Checked /\ Answered /\ [Next]_vars => TypeOK'
<1> SUFFICES ASSUME TypeOK, Checked, Answered, [Next]_vars PROVE TypeOK'
  OBVIOUS
<1> USE DEF Control, limiter
<1>1. CASE UNCHANGED vars
  BY <1>1 DEF TypeOK, vars
<1>2. ASSUME NEW w \in Workers, NEW r \in Arrivals, Arrive(w, r) PROVE TypeOK'
  BY <1>2, BoundsAssumption DEF TypeOK, Arrive
<1>3. ASSUME NEW w \in Workers, AnswerPreflight(w) PROVE TypeOK'
  BY <1>3 DEF TypeOK, AnswerPreflight
<1>4. ASSUME NEW w \in Workers, CallHealth(w) PROVE TypeOK'
  BY <1>4 DEF TypeOK, CallHealth
<1>5. ASSUME NEW w \in Workers, CheckRole(w) PROVE TypeOK'
  BY <1>5 DEF TypeOK, CheckRole, Respond
<1>6. ASSUME NEW w \in Workers, LimitAndHandle(w) PROVE TypeOK'
  BY <1>6, LimitType
<1>7. ASSUME NEW w \in Workers, Audit(w) PROVE TypeOK'
  BY <1>7, AuditType
<1>8. CASE Tick
  BY <1>8, BoundsAssumption DEF TypeOK, Tick
<1>9. CASE Restart
  BY <1>9, BoundsAssumption DEF TypeOK, Restart
<1> QED
  BY <1>1, <1>2, <1>3, <1>4, <1>5, <1>6, <1>7, <1>8, <1>9 DEF Next

-----------------------------------------------------------------------------
(* What the role check and the answer still say later.                     *)

LEMMA InitPath == Init => Checked /\ Answered
  BY DEF Init, Checked, Answered

LEMMA NextChecked == TypeOK /\ Checked /\ [Next]_vars => Checked'
<1> SUFFICES ASSUME TypeOK, Checked, [Next]_vars PROVE Checked'
  OBVIOUS
<1> USE DEF Checked
<1>1. CASE UNCHANGED vars
  BY <1>1 DEF vars
<1>2. ASSUME NEW w \in Workers, NEW r \in Arrivals, Arrive(w, r) PROVE Checked'
  BY <1>2 DEF TypeOK, Arrive
<1>3. ASSUME NEW w \in Workers, AnswerPreflight(w) \/ CallHealth(w) PROVE Checked'
  <2>1. \A v \in Workers : at'[v] = "authorized" => at[v] = "authorized" /\ v # w
    BY <1>3, PlainAnswer
  <2> QED
    BY <1>3, <2>1, PlainAnswer
<1>4. ASSUME NEW w \in Workers, CheckRole(w) PROVE Checked'
  BY <1>4 DEF TypeOK, CheckRole, Respond, Verified
<1>5. ASSUME NEW w \in Workers, LimitAndHandle(w) PROVE Checked'
  <2>1. Respond(w, 200) \/ Respond(w, 401) \/ Respond(w, 429)
    BY <1>5, LimiterDecides
  <2> QED
    BY <1>5, <2>1 DEF TypeOK, LimitAndHandle, Respond
<1>6. ASSUME NEW w \in Workers, Audit(w) PROVE Checked'
  BY <1>6 DEF TypeOK, Audit
<1>7. CASE Tick \/ Restart
  BY <1>7 DEF TypeOK, Tick, Restart
<1> QED
  BY <1>1, <1>2, <1>3, <1>4, <1>5, <1>6, <1>7 DEF Next

\* A response concerns one request, and is decided on now.
LEMMA RespondChanges ==
  ASSUME TypeOK, NEW w \in Workers, NEW code, Respond(w, code)
  PROVE  /\ status'[w] = code
         /\ at'[w] = IF code = 0 THEN "authorized" ELSE "responded"
         /\ code # 0 => decided'[w] = now
         /\ code = 0 => decided'[w] = decided[w]
         /\ \A v \in Workers \ {w} : UNCHANGED <<at[v], status[v], decided[v]>>
  BY DEF TypeOK, Respond

\* What has to be shown of a step of one request.
LEMMA AnsweredByOne ==
  ASSUME Answered, NEW w \in Workers, UNCHANGED <<now, request>>,
         \A v \in Workers \ {w} : UNCHANGED <<at[v], status[v], decided[v]>>,
         decided'[w] <= now,
         at'[w] \in {"responded", "answered"} =>
             /\ status'[w] # 0
             /\ request[w].op \in Protected =>
                   (status'[w] = 401 <=> ~Verified(request[w].token, decided'[w]))
  PROVE  Answered'
<1> DEFINE Fits(v) ==
              /\ decided'[v] <= now
              /\ at'[v] \in {"responded", "answered"} =>
                    /\ status'[v] # 0
                    /\ request[v].op \in Protected =>
                          (status'[v] = 401 <=> ~Verified(request[v].token, decided'[v]))
<1>1. Fits(w)
  OBVIOUS
<1>2. ASSUME NEW v \in Workers, v # w PROVE Fits(v)
  <2>1. at'[v] = at[v] /\ status'[v] = status[v] /\ decided'[v] = decided[v]
    BY <1>2
  <2>2. /\ decided[v] <= now
        /\ at[v] \in {"responded", "answered"} =>
              /\ status[v] # 0
              /\ request[v].op \in Protected =>
                    (status[v] = 401 <=> ~Verified(request[v].token, decided[v]))
    BY Zenon DEF Answered
  <2> QED
    BY <2>1, <2>2, Zenon
<1>3. \A v \in Workers : Fits(v)
  BY <1>1, <1>2
<1> QED
  BY <1>3, ZenonT(30) DEF Answered, Verified

LEMMA NextAnswered == TypeOK /\ Checked /\ Answered /\ [Next]_vars => Answered'
<1> SUFFICES ASSUME TypeOK, Checked, Answered, [Next]_vars PROVE Answered'
  OBVIOUS
<1>now. now \in Nat
  BY NowType
<1>1. CASE UNCHANGED vars
  BY <1>1 DEF vars, Answered
<1>2. ASSUME NEW w \in Workers, NEW r \in Arrivals, Arrive(w, r) PROVE Answered'
  BY <1>now, <1>2 DEF TypeOK, Arrive, Answered
<1>3. ASSUME NEW w \in Workers, AnswerPreflight(w) \/ CallHealth(w) PROVE Answered'
  <2>1. decided[w] <= now
    BY DEF Answered
  <2> QED
    BY <1>3, <2>1, PlainAnswer, AnsweredByOne
<1>4. ASSUME NEW w \in Workers, CheckRole(w) PROVE Answered'
  <2>1. UNCHANGED <<now, request>>
    BY <1>4 DEF CheckRole
  <2>2. PICK code \in {0, 401, 403} :
            /\ Respond(w, code)
            /\ code = 401 <=> ~Verified(request[w].token, now)
    BY <1>4 DEF CheckRole
  <2>3. /\ status'[w] = code /\ (code = 0 => at'[w] = "authorized")
        /\ code # 0 => decided'[w] = now
        /\ code = 0 => decided'[w] = decided[w]
        /\ \A v \in Workers \ {w} : UNCHANGED <<at[v], status[v], decided[v]>>
    BY <2>2, RespondChanges
  <2> QED
    <3>1. decided'[w] <= now
      BY <1>now, <2>3 DEF Answered
    <3> QED
      BY <1>now, <2>1, <2>2, <2>3, <3>1, AnsweredByOne
<1>5. ASSUME NEW w \in Workers, LimitAndHandle(w) PROVE Answered'
  <2>1. UNCHANGED <<now, request>>
    BY <1>5 DEF LimitAndHandle
  <2>2. \/ ~Verified(request[w].token, now) /\ Respond(w, 401)
        \/ Verified(request[w].token, now) /\ Respond(w, 200)
        \/ Verified(request[w].token, now) /\ Respond(w, 429)
    <3>1. CASE ~Verified(request[w].token, now)
      BY <1>5, <3>1 DEF LimitAndHandle
    <3>2. CASE Verified(request[w].token, now)
      BY <1>5, <3>2 DEF LimitAndHandle
    <3> QED
      BY <3>1, <3>2
  <2>3. PICK code \in {200, 401, 429} :
            Respond(w, code) /\ (code = 401 <=> ~Verified(request[w].token, now))
    BY <2>2
  <2>4. /\ status'[w] = code /\ decided'[w] = now
        /\ \A v \in Workers \ {w} : UNCHANGED <<at[v], status[v], decided[v]>>
    BY <2>3, RespondChanges
  <2> QED
    BY <1>now, <2>1, <2>3, <2>4, AnsweredByOne
<1>6. ASSUME NEW w \in Workers, Audit(w) PROVE Answered'
  <2>1. at[w] = "responded" /\ UNCHANGED <<now, request, status, decided>>
    BY <1>6 DEF Audit
  <2>2. \A v \in Workers \ {w} : at'[v] = at[v] /\ status'[v] = status[v]
    BY <1>6 DEF TypeOK, Audit
  <2>3. /\ decided[w] <= now /\ status[w] # 0
        /\ request[w].op \in Protected =>
              (status[w] = 401 <=> ~Verified(request[w].token, decided[w]))
    BY <2>1, Zenon DEF Answered
  <2> QED
    BY <2>1, <2>2, <2>3, AnsweredByOne
<1>7. CASE Tick
  <2>1. now' = now + 1 /\ UNCHANGED <<at, request, status, decided>>
    BY <1>7 DEF Tick
  <2>2. \A w \in Workers : decided[w] \in Nat
    BY BoundsAssumption DEF TypeOK
  <2> QED
    BY <1>now, <2>1, <2>2 DEF Answered, Verified
<1>8. CASE Restart
  BY <1>now, <1>8 DEF TypeOK, Restart, Answered
<1> QED
  BY <1>1, <1>2, <1>3, <1>4, <1>5, <1>6, <1>7, <1>8 DEF Next

PInv == TypeOK /\ Checked /\ Answered

LEMMA PathInvariant == Spec => []PInv
<1>1. Init => PInv
  BY InitType, InitPath DEF PInv
<1>2. PInv /\ [Next]_vars => PInv'
  BY NextType, NextChecked, NextAnswered DEF PInv
<1> QED
  BY <1>1, <1>2, PTL DEF Spec

\* Every variable of the request path keeps its type.
THEOREM RequestsTypeCorrect == Spec => []TypeOK
  BY PathInvariant, PTL DEF PInv

-----------------------------------------------------------------------------
(* Who is served.                                                          *)

\* No handler runs under a token that has expired since the role check, or of
\* another role than its route's: the limiter's own verification sees to it.
THEOREM ServedAuthorized == Spec => ServedWhileAuthorized
<1> DEFINE Served == \A w \in Workers :
          status[w] = 0 /\ status'[w] = 200 /\ request[w].op \in Protected =>
              /\ Verified(request[w].token, now)
              /\ request[w].token.role = RequiredRole(request[w].op)
<1>1. PInv /\ [Next]_vars => [Served]_vars
  <2> SUFFICES ASSUME TypeOK, Checked, Next, NEW v \in Workers,
                      status[v] = 0, status'[v] = 200, request[v].op \in Protected
               PROVE  /\ Verified(request[v].token, now)
                      /\ request[v].token.role = RequiredRole(request[v].op)
    BY DEF PInv
  <2>1. ASSUME NEW w \in Workers, NEW r \in Arrivals, Arrive(w, r) PROVE FALSE
    BY <2>1 DEF Arrive, TypeOK
  <2>2. ASSUME NEW w \in Workers, AnswerPreflight(w) \/ CallHealth(w) PROVE FALSE
    <3>1. v # w /\ status'[v] = status[v]
      BY <2>2, PlainAnswer
    <3> QED
      BY <3>1
  <2>3. ASSUME NEW w \in Workers, CheckRole(w) PROVE FALSE
    BY <2>3 DEF CheckRole, Respond, TypeOK
  <2>4. ASSUME NEW w \in Workers, LimitAndHandle(w)
        PROVE  /\ Verified(request[v].token, now)
               /\ request[v].token.role = RequiredRole(request[v].op)
    <3>1. CASE Respond(w, 401) \/ Respond(w, 429)
      <4>1. CASE v = w
        BY <3>1, <4>1 DEF Respond, TypeOK
      <4>2. CASE v # w
        <5>1. status'[v] = status[v]
          BY <3>1, <4>2 DEF Respond, TypeOK
        <5> QED
          BY <5>1
      <4> QED
        BY <4>1, <4>2
    <3>2. CASE Verified(request[w].token, now) /\ Respond(w, 200)
      <4>1. v = w
        BY <3>2 DEF Respond, TypeOK
      <4> QED
        BY <2>4, <3>2, <4>1 DEF Checked, LimitAndHandle
    <3> QED
      BY <2>4, <3>1, <3>2, LimiterDecides, ZenonT(30)
  <2>5. ASSUME NEW w \in Workers, Audit(w) PROVE FALSE
    BY <2>5 DEF Audit
  <2>6. CASE Tick \/ Restart
    BY <2>6 DEF Tick, Restart
  <2> QED
    BY <2>1, <2>2, <2>3, <2>4, <2>5, <2>6 DEF Next
<1>2. ServedWhileAuthorized <=> [][Served]_vars
  BY DEF ServedWhileAuthorized
<1> QED
  BY <1>1, <1>2, PathInvariant, PTL DEF Spec

-----------------------------------------------------------------------------
(* What the audit says of it.                                              *)

LEMMA InitAudit == Init => AuditNamesCaller
  BY DEF Init, AuditNamesCaller

LEMMA NextAudit == PInv /\ AuditNamesCaller /\ [Next]_vars => AuditNamesCaller'
<1> SUFFICES ASSUME PInv, TypeOK, Checked, Answered, AuditNamesCaller, [Next]_vars
             PROVE  AuditNamesCaller'
  BY DEF PInv
<1>1. CASE UNCHANGED vars
  BY <1>1 DEF vars, AuditNamesCaller
<1>2. ASSUME NEW w \in Workers, NEW r \in Arrivals, Arrive(w, r) PROVE AuditNamesCaller'
  BY <1>2 DEF TypeOK, Arrive, AuditNamesCaller
<1>3. ASSUME NEW w \in Workers, AnswerPreflight(w) \/ CallHealth(w) PROVE AuditNamesCaller'
  <2>1. \A v \in Workers \ {w} : UNCHANGED <<at[v], status[v], record[v], decided[v]>>
    BY <1>3, PlainAnswer
  <2>2. request[w].op \notin Protected /\ UNCHANGED <<now, request, record, decided>>
    BY <1>3, PlainAnswer
  <2> QED
    BY <2>1, <2>2 DEF AuditNamesCaller
<1>4. ASSUME NEW w \in Workers, CheckRole(w) PROVE AuditNamesCaller'
  BY <1>4 DEF TypeOK, CheckRole, Respond, AuditNamesCaller
<1>5. ASSUME NEW w \in Workers, LimitAndHandle(w) PROVE AuditNamesCaller'
  <2>1. UNCHANGED <<now, request, record>> /\ at[w] = "authorized"
    BY <1>5 DEF LimitAndHandle
  <2>2. Respond(w, 200) \/ Respond(w, 401) \/ Respond(w, 429)
    BY <1>5, LimiterDecides
  <2>3. /\ at'[w] = "responded"
        /\ \A v \in Workers \ {w} : UNCHANGED <<at[v], status[v], decided[v]>>
    BY <2>2, RespondChanges
  <2> QED
    BY <2>1, <2>3 DEF AuditNamesCaller
<1>6. ASSUME NEW w \in Workers, Audit(w) PROVE AuditNamesCaller'
  <2> DEFINE token == request[w].token
             user  == Principal(token, now)
  <2>1. token \in Tokens \cup {NoToken, BadToken} /\ now \in Nat
    BY RequestKnown, NowType
  <2>2. [user |-> user, status |-> status[w]] # NoRecord
    <3>1. [user |-> user, status |-> status[w]] \in Record
      <4>1. record'[w] \in Record \cup {NoRecord}
        BY <1>6, AuditType DEF TypeOK
      <4>2. status[w] \in {200, 401, 403, 429}
        BY <1>6 DEF Answered, Audit, TypeOK
      <4>3. user \in Subs \cup {"anonymous", "unauthenticated"}
        BY <2>1, PrincipalNames, TokenKnown DEF Verified
      <4> QED
        BY <4>2, <4>3 DEF Record
    <3> QED
      BY <3>1, RecordAssumption
  <2>3. ASSUME request[w].op \in Protected
        PROVE  /\ user \in Subs =>
                      user = token.sub /\ (status[w] = 401 => decided[w] < token.nbf)
               /\ user \notin Subs /\ status[w] # 401 => user = "unauthenticated" /\ now > token.exp
    <3>1. status[w] = 401 <=> ~Verified(token, decided[w])
      BY <1>6, <2>3 DEF Answered, Audit
    <3>2. \A sub \in Subs : sub \notin {"anonymous", "unauthenticated"}
      BY TokenKnown DEF Subs
    <3>3. decided[w] <= now /\ decided[w] \in Nat
      BY <1>6, BoundsAssumption DEF Answered, Audit, TypeOK
    <3>4. CASE Verified(token, now)
      <4>1. user = token.sub /\ token.sub \in Subs
        BY <2>1, <3>4, PrincipalNames, TokenKnown DEF Verified
      <4>2. ~Verified(token, decided[w]) => decided[w] < token.nbf
        BY <2>1, <3>3, <3>4, TokenKnown DEF Verified
      <4> QED
        BY <3>1, <4>1, <4>2
    <3>5. CASE ~Verified(token, now)
      <4>1. user \notin Subs
        BY <2>1, <3>2, <3>5, PrincipalNames
      <4>2. ASSUME Verified(token, decided[w])
            PROVE  user = "unauthenticated" /\ now > token.exp
        BY <2>1, <3>3, <3>5, <4>2, PrincipalNames, TokenKnown DEF Verified
      <4> QED
        BY <3>1, <4>1, <4>2
    <3> QED
      BY <3>4, <3>5
  <2>4. /\ record' = [record EXCEPT ![w] = [user |-> user, status |-> status[w]]]
        /\ at' = [at EXCEPT ![w] = "answered"]
        /\ UNCHANGED <<now, request, status, decided>>
    BY <1>6 DEF Audit
  <2> HIDE DEF token, user
  <2> QED
    BY <2>2, <2>3, <2>4 DEF TypeOK, AuditNamesCaller, token
<1>7. CASE Tick
  <2>1. now' = now + 1 /\ now \in Nat /\ UNCHANGED <<at, request, status, record, decided>>
    BY <1>7, NowType DEF Tick
  <2>2. \A w \in Workers :
            at[w] = "answered" /\ request[w].op \in Protected /\ status[w] # 401 =>
                request[w].token.exp \in Nat
    BY TokenKnown DEF Answered, Verified
  <2> QED
    BY <2>1, <2>2 DEF AuditNamesCaller
<1>8. CASE Restart
  BY <1>8 DEF TypeOK, Restart, AuditNamesCaller
<1> QED
  BY <1>1, <1>2, <1>3, <1>4, <1>5, <1>6, <1>7, <1>8 DEF Next

\* The audit record of a request never contradicts its response.
THEOREM AuditAgrees == Spec => []AuditNamesCaller
<1>1. PInv /\ AuditNamesCaller /\ [Next]_vars => AuditNamesCaller'
  BY NextAudit
<1> QED
  BY <1>1, InitAudit, PathInvariant, PTL DEF Spec

-----------------------------------------------------------------------------
(* Who is refused.                                                         *)

LEMMA CountedFinite ==
  ASSUME TypeOK, NEW k \in Keys
  PROVE  /\ IsFiniteSet(Counted(k))
         /\ Cardinality(Counted(k)) \in Nat
<1>1. Len(granted) \in Nat
  BY DEF TypeOK
<1>2. IsFiniteSet(1 .. Len(granted)) /\ Counted(k) \in SUBSET (1 .. Len(granted))
  BY <1>1, FS_Interval, SMTT(30) DEF Counted
<1> QED
  BY <1>2, FS_Subset, FS_CardinalityType

LEMMA InitCounters == Init => CountersCount
<1> SUFFICES ASSUME Init, NEW k \in Keys
             PROVE  until[k] = 0 /\ now = 0
  BY LimitAssumption DEF CountersCount
<1> QED
  BY DEF Init

\* One more served request of a counter is one more hit that counts, unless the
\* counter has just begun anew, and then it is the first one.
LEMMA ServedCounts ==
  ASSUME TypeOK, CountersCount, NEW k \in Keys,
         Hit(k), now' = now,
         granted' = Append(granted, [key |-> k, at |-> now])
  PROVE  CountersCount'
<1> DEFINE n == Len(granted) + 1
<1>1. /\ now \in Nat /\ n \in Nat /\ Len(granted) \in Nat
      /\ granted \in Seq([key : Keys, at : Nat])
      /\ hits \in [Keys -> Nat] /\ until \in [Keys -> Nat]
  BY NowType DEF TypeOK
<1>2. /\ Len(granted') = n
      /\ granted'[n] = [key |-> k, at |-> now]
      /\ \A i \in 1 .. Len(granted) : granted'[i] = granted[i]
  BY <1>1
<1> SUFFICES ASSUME NEW q \in Keys
             PROVE  /\ until'[q] <= now + Minute
                    /\ now < until'[q] => \/ hits'[q] <= Cardinality(Counted(q)')
                                          \/ Limit <= Cardinality(Counted(q)')
  BY DEF CountersCount
<1> HIDE DEF n
<1>3. CASE q # k
  <2>1. until'[q] = until[q] /\ hits'[q] = hits[q]
    BY <1>1, <1>3 DEF Hit
  <2>2. Counted(q)' = Counted(q)
    BY <1>1, <1>2, <1>3, <2>1 DEF Counted, n
  <2> QED
    BY <2>1, <2>2 DEF CountersCount
<1>4. CASE q = k /\ until[k] <= now
  <2>1. until'[k] = now + Minute /\ hits'[k] = 1
    BY <1>1, <1>4, LimitAssumption DEF Hit
  <2>2. n \in Counted(k)'
    BY <1>1, <1>2, <2>1, LimitAssumption DEF Counted, n
  <2>3. Counted(k)' \in SUBSET (1 .. n) /\ IsFiniteSet(1 .. n)
    BY <1>1, <1>2, FS_Interval DEF Counted
  <2>4. IsFiniteSet(Counted(k)') /\ Cardinality(Counted(k)') \in Nat
    BY <2>3, FS_Subset, FS_CardinalityType
  <2>5. Cardinality(Counted(k)') # 0
    BY <2>2, <2>4, FS_EmptySet
  <2> QED
    BY <1>1, <1>4, <2>1, <2>4, <2>5, LimitAssumption
<1>5. CASE q = k /\ ~(until[k] <= now)
  <2>1. until'[k] = until[k] /\ hits'[k] = hits[k] + 1
    BY <1>1, <1>5 DEF Hit
  <2>2. now >= until[k] - Minute
    BY <1>1, LimitAssumption DEF CountersCount
  <2>3. Counted(k)' = Counted(k) \cup {n}
    BY <1>1, <1>2, <2>1, <2>2, SMTT(30) DEF Counted, n
  <2>4. n \notin Counted(k)
    BY <1>1 DEF Counted, n
  <2>5. Cardinality(Counted(k)') = Cardinality(Counted(k)) + 1
    BY <2>3, <2>4, CountedFinite, FS_AddElement
  <2>6. \/ hits[k] <= Cardinality(Counted(k))
        \/ Limit <= Cardinality(Counted(k))
    BY <1>1, <1>5 DEF CountersCount
  <2> QED
    BY <1>1, <1>5, <2>1, <2>5, <2>6, CountedFinite, LimitAssumption DEF CountersCount
<1> QED
  BY <1>3, <1>4, <1>5

\* A hit above the limit finds the limit used up; a counter that begins anew is
\* never above it.
LEMMA OverMeansUsedUp ==
  ASSUME TypeOK, CountersCount, NEW k \in Keys, Hit(k), ~(hits'[k] <= Limit)
  PROVE  now < until[k] /\ Limit <= Cardinality(Counted(k))
<1>1. now \in Nat /\ hits \in [Keys -> Nat] /\ until \in [Keys -> Nat]
  BY NowType DEF TypeOK
<1>2. CASE until[k] <= now
  BY <1>1, <1>2, LimitAssumption DEF Hit
<1>3. CASE ~(until[k] <= now)
  <2>1. hits'[k] = hits[k] + 1
    BY <1>1, <1>3 DEF Hit
  <2>2. now < until[k]
    BY <1>1, <1>3
  <2> QED
    BY <1>1, <2>1, <2>2, CountedFinite, LimitAssumption DEF CountersCount
<1> QED
  BY <1>2, <1>3

LEMMA RefusalCounts ==
  ASSUME TypeOK, CountersCount, NEW k \in Keys,
         Hit(k), now' = now, UNCHANGED granted, ~(hits'[k] <= Limit)
  PROVE  CountersCount'
<1>1. now \in Nat /\ hits \in [Keys -> Nat] /\ until \in [Keys -> Nat]
  BY NowType DEF TypeOK
<1>2. UNCHANGED until
  <2>1. ~(until[k] <= now)
    BY <1>1, OverMeansUsedUp
  <2> QED
    BY <1>1, <2>1 DEF Hit
<1> SUFFICES ASSUME NEW q \in Keys
             PROVE  /\ until[q] <= now + Minute
                    /\ now < until[q] => \/ hits'[q] <= Cardinality(Counted(q))
                                         \/ Limit <= Cardinality(Counted(q))
  BY <1>2 DEF CountersCount, Counted
<1>3. CASE q = k
  BY <1>3, OverMeansUsedUp DEF CountersCount
<1>4. CASE q # k
  BY <1>1, <1>4 DEF CountersCount, Hit
<1> QED
  BY <1>3, <1>4

LEMMA NextCounters == PInv /\ CountersCount /\ [Next]_vars => CountersCount'
<1> SUFFICES ASSUME PInv, TypeOK, Checked, CountersCount, [Next]_vars
             PROVE  CountersCount'
  BY DEF PInv
<1>1. CASE UNCHANGED <<now, limiter>>
  BY <1>1 DEF limiter, CountersCount, Counted
<1>2. CASE UNCHANGED vars
  BY <1>1, <1>2 DEF vars
<1>3. ASSUME NEW w \in Workers, LimitAndHandle(w) PROVE CountersCount'
  <2>1. now' = now
    BY <1>3 DEF LimitAndHandle
  <2>2. CASE UNCHANGED <<hits, until, granted>>
    BY <1>1, <2>1, <2>2 DEF limiter
  <2> QED
    BY <1>3, <2>1, <2>2, LimiterDecides, ServedCounts, RefusalCounts, ZenonT(30)
<1>4. ASSUME NEW w \in Workers,
             \/ \E r \in Arrivals : Arrive(w, r)
             \/ AnswerPreflight(w) \/ CallHealth(w) \/ CheckRole(w) \/ Audit(w)
      PROVE  CountersCount'
  BY <1>1, <1>4 DEF Arrive, AnswerPreflight, CallHealth, CheckRole, Audit
<1>5. CASE Tick
  <2>1. now' = now + 1 /\ now \in Nat /\ UNCHANGED <<hits, until, granted>>
    BY <1>5, NowType DEF Tick, limiter
  <2>2. until \in [Keys -> Nat]
    BY DEF TypeOK
  <2>3. \A k \in Keys : Counted(k)' = Counted(k)
    BY <2>1 DEF Counted
  <2> SUFFICES ASSUME NEW k \in Keys
               PROVE  /\ until[k] <= now + 1 + Minute
                      /\ now + 1 < until[k] => \/ hits[k] <= Cardinality(Counted(k))
                                               \/ Limit <= Cardinality(Counted(k))
    BY <2>1, <2>3 DEF CountersCount
  <2> QED
    BY <2>1, <2>2, LimitAssumption DEF CountersCount
<1>6. CASE Restart
  <2> SUFFICES ASSUME NEW k \in Keys
               PROVE  until'[k] = 0 /\ now' \in Nat
    BY LimitAssumption DEF CountersCount
  <2> QED
    BY <1>6, NowType DEF Restart
<1> QED
  BY <1>2, <1>3, <1>4, <1>5, <1>6 DEF Next

\* The user's own requests of that scope, of the last minute, reach the limit.
UsedUp(w) ==
    LET key == <<request[w].token.sub, Scope[request[w].op]>>
    IN  Cardinality({i \in 1 .. Len(granted) :
            granted[i].key = key /\ granted[i].at > now - Minute}) >= Limit

\* A counter that is over its limit has the hits of its minute within the last one.
LEMMA OverUsedUp ==
  ASSUME TypeOK, CountersCount, NEW w \in Workers, KeyOf(w) \in Keys,
         Hit(KeyOf(w)), ~(hits'[KeyOf(w)] <= Limit)
  PROVE  UsedUp(w)
<1> DEFINE recent == {i \in 1 .. Len(granted) :
                         granted[i].key = KeyOf(w) /\ granted[i].at > now - Minute}
<1>1. now < until[KeyOf(w)] /\ Limit <= Cardinality(Counted(KeyOf(w)))
  BY OverMeansUsedUp
<1>2. now \in Nat /\ until[KeyOf(w)] \in Nat /\ Len(granted) \in Nat
  BY NowType DEF TypeOK
<1>3. ASSUME NEW i \in 1 .. Len(granted) PROVE granted[i].at \in Nat
  <2> DEFINE Hits == [key : Keys, at : Nat]
  <2>1. granted \in Seq(Hits)
    BY DEF TypeOK
  <2>2. granted[i] \in Hits
    <3> HIDE DEF Hits
    <3> QED
      BY <2>1
  <2> QED
    BY <2>2
<1>4. Counted(KeyOf(w)) \in SUBSET recent
  BY <1>1, <1>2, <1>3, LimitAssumption DEF Counted
<1>5. IsFiniteSet(1 .. Len(granted)) /\ recent \in SUBSET (1 .. Len(granted))
  BY <1>2, FS_Interval
<1>6. Cardinality(Counted(KeyOf(w))) <= Cardinality(recent) /\ Cardinality(recent) \in Nat
  BY <1>4, <1>5, FS_Subset, FS_CardinalityType
<1>7. UsedUp(w) <=> Cardinality(recent) >= Limit
  BY DEF UsedUp, KeyOf
<1> HIDE DEF recent
<1> QED
  BY <1>1, <1>6, <1>7, CountedFinite, LimitAssumption

\* The limiter's step without what it leaves alone: refused as unauthenticated, served,
\* or counted and over the limit (rate_limit.py 10-31).
LEMMA LimiterAnswers ==
  ASSUME TypeOK, Checked, NEW w \in Workers, LimitAndHandle(w)
  PROVE  /\ KeyOf(w) \in Keys
         /\ \/ Respond(w, 401)
            \/ Respond(w, 200)
            \/ /\ Hit(KeyOf(w))
               /\ ~(hits'[KeyOf(w)] <= Limit)
               /\ Respond(w, 429)
<1>1. KeyOf(w) \in Keys
  BY LimiterDecides
<1>2. CASE ~Verified(request[w].token, now)
  BY <1>1, <1>2 DEF LimitAndHandle
<1>3. CASE Verified(request[w].token, now)
  BY <1>1, <1>3 DEF LimitAndHandle, KeyOf
<1> QED
  BY <1>2, <1>3

LEMMA OnlyLimiterRefuses ==
  ASSUME TypeOK, Checked, Next, NEW v \in Workers, status[v] # 429, status'[v] = 429
  PROVE  /\ KeyOf(v) \in Keys
         /\ Hit(KeyOf(v)) /\ ~(hits'[KeyOf(v)] <= Limit)
<1>1. ASSUME NEW w \in Workers, NEW r \in Arrivals, Arrive(w, r) PROVE FALSE
  BY <1>1 DEF Arrive, TypeOK
<1>2. ASSUME NEW w \in Workers, AnswerPreflight(w) \/ CallHealth(w) PROVE FALSE
  BY <1>2 DEF AnswerPreflight, CallHealth, TypeOK
<1>3. ASSUME NEW w \in Workers, CheckRole(w) PROVE FALSE
  BY <1>3 DEF CheckRole, Respond, TypeOK
<1>4. ASSUME NEW w \in Workers, LimitAndHandle(w)
      PROVE  /\ KeyOf(v) \in Keys
             /\ Hit(KeyOf(v)) /\ ~(hits'[KeyOf(v)] <= Limit)
  <2>1. ~Respond(w, 200) /\ ~Respond(w, 401)
    BY DEF Respond, TypeOK
  <2>2. /\ Respond(w, 429) /\ KeyOf(w) \in Keys
        /\ Hit(KeyOf(w)) /\ ~(hits'[KeyOf(w)] <= Limit)
    <3>1. /\ KeyOf(w) \in Keys
          /\ \/ Respond(w, 401)
             \/ Respond(w, 200)
             \/ /\ Hit(KeyOf(w))
                /\ ~(hits'[KeyOf(w)] <= Limit)
                /\ Respond(w, 429)
      BY <1>4, LimiterAnswers
    <3> QED
      BY <2>1, <3>1
  <2>3. v = w
    BY <2>2 DEF Respond, TypeOK
  <2> QED
    BY <2>2, <2>3
<1>5. ASSUME NEW w \in Workers, Audit(w) PROVE FALSE
  BY <1>5 DEF Audit
<1>6. CASE Tick
  BY <1>6 DEF Tick
<1>7. CASE Restart
  BY <1>7 DEF Restart
<1> QED
  BY <1>1, <1>2, <1>3, <1>4, <1>5, <1>6, <1>7 DEF Next

\* A user is refused only if the user's own requests of that scope have used up the
\* limit within the last minute.
THEOREM RefusedWhenOver == Spec => RefusedOnlyWhenOver
<1>1. PInv /\ CountersCount /\ [Next]_vars =>
          [\A w \in Workers : status[w] # 429 /\ status'[w] = 429 => UsedUp(w)]_vars
  BY OnlyLimiterRefuses, OverUsedUp DEF PInv
<1>2. RefusedOnlyWhenOver <=>
          [][\A w \in Workers : status[w] # 429 /\ status'[w] = 429 => UsedUp(w)]_vars
  BY DEF RefusedOnlyWhenOver, UsedUp
<1>3. PInv /\ CountersCount /\ [Next]_vars => CountersCount'
  BY NextCounters
<1> QED
  BY <1>1, <1>2, <1>3, InitCounters, PathInvariant, PTL DEF Spec

-----------------------------------------------------------------------------
(* Bursts.                                                                 *)

\* The requests of counter k served from time t until time u.
ServedIn(k, t, u) ==
    {i \in 1 .. Len(granted) : granted[i].key = k /\ t <= granted[i].at /\ granted[i].at < u}

\* When the present minute of counter k, or its last one, began.
Opened(k) == until[k] - Minute

\* Those served from time t until that minute began.
Earlier(k, t) == ServedIn(k, t, Opened(k))

\* A minute of a counter is opened by a request that is served, counts at most the
\* limit and serves nothing after its end; in the minute before it was opened, less
\* than the limit was served.
MinutesCount ==
    \A k \in Keys :
        /\ \A i \in 1 .. Len(granted) : granted[i].key = k => granted[i].at < until[k]
        /\ Cardinality(Counted(k)) <= hits[k] /\ Cardinality(Counted(k)) <= Limit
        /\ until[k] > 0 => \E j \in Counted(k) : granted[j].at = Opened(k)
        /\ \A t \in Nat : t > Opened(k) - Minute => Cardinality(Earlier(k, t)) <= Limit - 1

\* BurstBounded at all times, past and future.
BurstsBounded ==
    \A k \in Keys, t \in Nat : Cardinality(ServedIn(k, t, t + Minute)) <= 2 * Limit - 1

LEMMA GrantedType ==
  ASSUME TypeOK
  PROVE  /\ Len(granted) \in Nat
         /\ \A i \in 1 .. Len(granted) : granted[i].at \in Nat /\ granted[i].key \in Keys
<1> DEFINE Hits == [key : Keys, at : Nat]
<1>1. granted \in Seq(Hits)
  BY DEF TypeOK
<1>2. ASSUME NEW i \in 1 .. Len(granted) PROVE granted[i].at \in Nat /\ granted[i].key \in Keys
  <2>1. granted[i] \in Hits
    <3> HIDE DEF Hits
    <3> QED
      BY <1>1
  <2> QED
    BY <2>1
<1> QED
  BY <1>1, <1>2

\* Sets of served requests are finite.
LEMMA IndicesFinite ==
  ASSUME NEW n \in Nat, NEW S, S \subseteq 1 .. n
  PROVE  IsFiniteSet(S) /\ Cardinality(S) \in Nat
<1>1. IsFiniteSet(1 .. n)
  BY FS_Interval
<1> QED
  BY <1>1, FS_Subset, FS_CardinalityType

LEMMA SubsetSmaller ==
  ASSUME NEW S, NEW T, IsFiniteSet(S), T \subseteq S
  PROVE  IsFiniteSet(T) /\ Cardinality(T) \in Nat /\ Cardinality(T) <= Cardinality(S)
  BY FS_Subset, FS_CardinalityType

LEMMA UnionBounded ==
  ASSUME NEW R, NEW S, NEW T, IsFiniteSet(S), IsFiniteSet(T), R \subseteq S \cup T
  PROVE  Cardinality(R) \in Nat /\ Cardinality(R) <= Cardinality(S) + Cardinality(T)
<1>1. /\ IsFiniteSet(S \cup T)
      /\ Cardinality(S \cup T) = Cardinality(S) + Cardinality(T) - Cardinality(S \cap T)
  BY FS_Union
<1>2. /\ Cardinality(S) \in Nat /\ Cardinality(T) \in Nat /\ Cardinality(S \cup T) \in Nat
  BY <1>1, FS_CardinalityType
<1>3. Cardinality(S \cap T) \in Nat
  BY FS_Intersection, FS_CardinalityType
<1>4. Cardinality(R) \in Nat /\ Cardinality(R) <= Cardinality(S \cup T)
  BY <1>1, SubsetSmaller
<1> QED
  BY <1>1, <1>2, <1>3, <1>4

LEMMA NothingServed ==
  TypeOK /\ granted = <<>> /\ (\A k \in Keys : until[k] = 0) => MinutesCount /\ BurstsBounded
<1> SUFFICES ASSUME TypeOK, granted = <<>>, \A k \in Keys : until[k] = 0
             PROVE  MinutesCount /\ BurstsBounded
  OBVIOUS
<1>1. /\ \A k \in Keys : Counted(k) = {}
      /\ \A k \in Keys, t, u \in Int : ServedIn(k, t, u) = {}
  BY DEF ServedIn, Counted
<1>2. Cardinality({}) = 0
  BY FS_EmptySet
<1>3. \A k \in Keys : hits[k] \in Nat /\ Opened(k) \in Int
  BY LimitAssumption DEF TypeOK, Opened
<1>4. MinutesCount
  <2> SUFFICES ASSUME NEW k \in Keys
               PROVE  /\ \A i \in 1 .. Len(granted) : granted[i].key = k => granted[i].at < until[k]
                      /\ Cardinality(Counted(k)) <= hits[k] /\ Cardinality(Counted(k)) <= Limit
                      /\ until[k] > 0 => \E j \in Counted(k) : granted[j].at = Opened(k)
                      /\ \A t \in Nat : t > Opened(k) - Minute =>
                            Cardinality(Earlier(k, t)) <= Limit - 1
    BY DEF MinutesCount
  <2>1. Cardinality(Counted(k)) = 0
    BY <1>1, <1>2
  <2>2. \A t \in Nat : Cardinality(Earlier(k, t)) = 0
    <3> SUFFICES ASSUME NEW t \in Nat PROVE Cardinality(Earlier(k, t)) = 0
      OBVIOUS
    <3>1. t \in Int /\ Opened(k) \in Int
      BY <1>3
    <3> HIDE DEF Opened
    <3> QED
      BY <1>1, <1>2, <3>1 DEF Earlier
  <2> QED
    BY <1>3, <2>1, <2>2, LimitAssumption
<1>5. BurstsBounded
  <2> SUFFICES ASSUME NEW k \in Keys, NEW t \in Nat
               PROVE  Cardinality(ServedIn(k, t, t + Minute)) <= 2 * Limit - 1
    BY DEF BurstsBounded
  <2>1. t \in Int /\ t + Minute \in Int
    BY LimitAssumption
  <2>2. Cardinality(ServedIn(k, t, t + Minute)) = 0
    BY <1>1, <1>2, <2>1
  <2> QED
    BY <2>2, LimitAssumption
<1> QED
  BY <1>4, <1>5

\* What a served request does to the counter it hits.
LEMMA ServedBursts ==
  ASSUME TypeOK, CountersCount, MinutesCount, BurstsBounded, NEW k \in Keys,
         Hit(k), hits'[k] <= Limit,
         granted' = Append(granted, [key |-> k, at |-> now])
  PROVE  MinutesCount' /\ BurstsBounded'
<1> DEFINE n == Len(granted) + 1
<1>1. /\ now \in Nat /\ n \in Nat /\ Len(granted) \in Nat /\ Limit \in Nat /\ Limit >= 1
      /\ Minute \in Nat /\ Minute >= 1
      /\ \A q \in Keys : hits[q] \in Nat /\ until[q] \in Nat /\ until[q] <= now + Minute
      /\ hits \in [Keys -> Nat] /\ until \in [Keys -> Nat]
      /\ \A i \in 1 .. Len(granted) : granted[i].at \in Nat
  <2>1. hits \in [Keys -> Nat] /\ until \in [Keys -> Nat]
    BY DEF TypeOK
  <2>2. \A q \in Keys : until[q] <= now + Minute
    BY DEF CountersCount
  <2>3. now \in Nat /\ Len(granted) \in Nat /\ \A i \in 1 .. Len(granted) : granted[i].at \in Nat
    BY NowType, GrantedType
  <2> QED
    BY <2>1, <2>2, <2>3, LimitAssumption
<1>2. /\ Len(granted') = n
      /\ granted'[n] = [key |-> k, at |-> now]
      /\ \A i \in 1 .. Len(granted) : granted'[i] = granted[i]
  BY <1>1 DEF TypeOK
<1>3. n \notin 1 .. Len(granted) /\ n \in 1 .. n /\ \A i \in 1 .. n : i # n => i \in 1 .. Len(granted)
  BY <1>1
<1> HIDE DEF n
<1>4. ASSUME NEW q \in Keys, q # k
      PROVE  /\ until'[q] = until[q] /\ hits'[q] = hits[q] /\ Counted(q)' = Counted(q)
             /\ \A t, u \in Int : ServedIn(q, t, u)' = ServedIn(q, t, u)
  <2>1. until'[q] = until[q] /\ hits'[q] = hits[q]
    BY <1>1, <1>4 DEF Hit
  <2>2. Counted(q)' = Counted(q)
    BY <1>2, <1>3, <1>4, <2>1 DEF Counted
  <2>3. ASSUME NEW t \in Int, NEW u \in Int PROVE ServedIn(q, t, u)' = ServedIn(q, t, u)
    BY <1>2, <1>3, <1>4 DEF ServedIn
  <2> QED
    BY <2>1, <2>2, <2>3
<1>5. /\ IsFiniteSet(Counted(k)) /\ Cardinality(Counted(k)) \in Nat
      /\ IsFiniteSet(Counted(k)') /\ Cardinality(Counted(k)') \in Nat
  <2>1. Counted(k)' \subseteq 1 .. n
    BY <1>2 DEF Counted
  <2> QED
    BY <1>1, <2>1, CountedFinite, IndicesFinite
<1>6. \A t, u \in Int : IsFiniteSet(ServedIn(k, t, u)')
  <2>1. ASSUME NEW t \in Int, NEW u \in Int PROVE ServedIn(k, t, u)' \subseteq 1 .. n
    BY <1>2 DEF ServedIn
  <2> QED
    BY <1>1, <2>1, IndicesFinite
<1>7. /\ \A i \in 1 .. Len(granted) : granted[i].key = k => granted[i].at < until[k]
      /\ Cardinality(Counted(k)) <= hits[k] /\ Cardinality(Counted(k)) <= Limit
      /\ until[k] > 0 => \E j \in Counted(k) : granted[j].at = Opened(k)
      /\ \A t \in Nat : t > Opened(k) - Minute => Cardinality(Earlier(k, t)) <= Limit - 1
  BY DEF MinutesCount
<1> DEFINE Account ==
             /\ Opened(k)' <= now /\ Opened(k)' \in Int
             /\ \A i \in 1 .. Len(granted') : granted'[i].key = k => granted'[i].at < until'[k]
             /\ Cardinality(Counted(k)') <= hits'[k] /\ Cardinality(Counted(k)') <= Limit
             /\ until'[k] > 0 => \E j \in Counted(k)' : granted'[j].at = Opened(k)'
             /\ \A t \in Nat : t > Opened(k)' - Minute => Cardinality(Earlier(k, t)') <= Limit - 1
<1>8. ASSUME until[k] <= now PROVE Account
  <2>1. until'[k] = now + Minute /\ hits'[k] = 1 /\ Opened(k)' = now
    BY <1>1, <1>8 DEF Hit, Opened
  <2>2. ASSUME NEW i \in 1 .. Len(granted'), granted'[i].key = k, i # n
        PROVE  granted'[i] = granted[i] /\ granted[i].at < until[k] /\ i \in 1 .. Len(granted)
    BY <1>2, <1>3, <1>7, <2>2
  <2>3. Counted(k)' = {n}
    BY <1>1, <1>2, <1>3, <1>8, <2>1, <2>2 DEF Counted
  <2>4. Cardinality(Counted(k)') = 1
    BY <2>3, FS_Singleton
  <2>5. ASSUME NEW t \in Nat, t > now - Minute PROVE Cardinality(Earlier(k, t)') <= Limit - 1
    <3>1. ASSUME NEW i \in Earlier(k, t)'
          PROVE  i \in Counted(k) /\ granted[i].at > Opened(k) /\ until[k] > 0
      <4>1. i \in 1 .. Len(granted') /\ granted'[i].key = k /\ t <= granted'[i].at /\ granted'[i].at < now
        BY <2>1, <3>1 DEF Earlier, ServedIn
      <4>2. i # n
        BY <1>1, <1>2, <4>1
      <4>3. granted'[i] = granted[i] /\ granted[i].at < until[k] /\ i \in 1 .. Len(granted)
        BY <2>2, <4>1, <4>2
      <4>4. granted[i].at \in Nat /\ granted[i].at > until[k] - Minute
        BY <1>1, <1>8, <2>5, <4>1, <4>3
      <4> QED
        BY <1>1, <4>1, <4>3, <4>4 DEF Counted, Opened
    <3>2. CASE Earlier(k, t)' = {}
      <4>1. Cardinality(Earlier(k, t)') = 0
        BY <3>2, FS_EmptySet
      <4> QED
        BY <1>1, <4>1
    <3>3. CASE Earlier(k, t)' # {}
      <4>1. PICK j \in Counted(k) : granted[j].at = Opened(k)
        BY <1>7, <3>1, <3>3
      <4>2. Opened(k) \in Int
        BY <1>1 DEF Opened
      <4>3. Earlier(k, t)' \subseteq Counted(k) \ {j}
        BY <3>1, <4>1, <4>2
      <4>4. /\ IsFiniteSet(Counted(k) \ {j})
            /\ Cardinality(Counted(k) \ {j}) = Cardinality(Counted(k)) - 1
        BY <1>5, <4>1, FS_RemoveElement
      <4>5. /\ Cardinality(Earlier(k, t)') \in Nat
            /\ Cardinality(Earlier(k, t)') <= Cardinality(Counted(k) \ {j})
        BY <4>3, <4>4, SubsetSmaller
      <4> QED
        BY <1>1, <1>5, <1>7, <4>4, <4>5
    <3> QED
      BY <3>2, <3>3
  <2>6. \A i \in 1 .. Len(granted') : granted'[i].key = k => granted'[i].at < until'[k]
    <3>1. ASSUME NEW i \in 1 .. Len(granted'), granted'[i].key = k PROVE granted'[i].at < until'[k]
      <4>1. CASE i = n
        BY <1>1, <1>2, <2>1, <4>1
      <4>2. CASE i # n
        BY <1>1, <1>8, <2>1, <2>2, <3>1, <4>2
      <4> QED
        BY <4>1, <4>2
    <3> QED
      BY <3>1
  <2>7. n \in Counted(k)' /\ granted'[n].at = Opened(k)'
    BY <1>2, <2>1, <2>3
  <2>8. \A t \in Nat : t > Opened(k)' - Minute => Cardinality(Earlier(k, t)') <= Limit - 1
    BY <2>1, <2>5
  <2>9. Cardinality(Counted(k)') <= hits'[k] /\ Cardinality(Counted(k)') <= Limit
    BY <1>1, <2>1, <2>4
  <2>10. Opened(k)' <= now /\ Opened(k)' \in Int
    BY <1>1, <2>1
  <2>11. until'[k] > 0 => \E j \in Counted(k)' : granted'[j].at = Opened(k)'
    BY <2>7
  <2> QED
    BY <2>6, <2>8, <2>9, <2>10, <2>11
<1>9. ASSUME ~(until[k] <= now) PROVE Account
  <2>1. until'[k] = until[k] /\ hits'[k] = hits[k] + 1 /\ Opened(k)' = Opened(k)
    BY <1>1, <1>9 DEF Hit, Opened
  <2>2. Opened(k) <= now /\ Opened(k) \in Int /\ until[k] > 0 /\ now < until[k]
    BY <1>1, <1>9 DEF Opened
  <2>3. Counted(k)' \subseteq Counted(k) \cup {n} /\ Counted(k) \subseteq Counted(k)'
    <3>1. \A i \in 1 .. n : i # n => (i \in Counted(k)' <=> i \in Counted(k))
      BY <1>2, <1>3, <2>1 DEF Counted
    <3> QED
      BY <1>2, <1>3, <3>1 DEF Counted
  <2>4. Cardinality(Counted(k)') <= Cardinality(Counted(k)) + 1
    <3>1. IsFiniteSet({n}) /\ Cardinality({n}) = 1
      BY FS_Singleton
    <3> QED
      BY <1>5, <2>3, <3>1, UnionBounded
  <2>5. \A i \in 1 .. Len(granted') : granted'[i].key = k => granted'[i].at < until'[k]
    BY <1>2, <1>3, <1>7, <2>1, <2>2
  <2>6. ASSUME NEW t \in Nat PROVE Earlier(k, t)' = Earlier(k, t)
    <3>1. n \notin Earlier(k, t)'
      BY <1>1, <1>2, <2>1, <2>2 DEF Earlier, ServedIn
    <3>2. \A i \in 1 .. Len(granted) : i \in Earlier(k, t)' <=> i \in Earlier(k, t)
      BY <1>1, <1>2, <1>3, <2>1 DEF Earlier, ServedIn
    <3>3. Earlier(k, t) \subseteq 1 .. Len(granted) /\ Earlier(k, t)' \subseteq 1 .. n
      BY <1>2 DEF Earlier, ServedIn
    <3> QED
      BY <1>3, <3>1, <3>2, <3>3
  <2>7. PICK j \in Counted(k) : granted[j].at = Opened(k)
    BY <1>7, <2>2
  <2>8. j \in Counted(k)' /\ granted'[j].at = Opened(k)'
    BY <1>2, <2>1, <2>3, <2>7 DEF Counted
  <2>9. Cardinality(Counted(k)') <= hits'[k] /\ Cardinality(Counted(k)') <= Limit
    BY <1>1, <1>5, <1>7, <2>1, <2>4
  <2>10. \A t \in Nat : t > Opened(k)' - Minute => Cardinality(Earlier(k, t)') <= Limit - 1
    BY <1>7, <2>1, <2>6
  <2>11. Opened(k)' <= now /\ Opened(k)' \in Int
    BY <2>1, <2>2
  <2>12. until'[k] > 0 => \E m \in Counted(k)' : granted'[m].at = Opened(k)'
    BY <2>8
  <2> QED
    BY <2>5, <2>9, <2>10, <2>11, <2>12
<1>10. Account
  BY <1>8, <1>9
<1>11. MinutesCount'
  <2>1. ASSUME NEW q \in Keys, q # k
        PROVE  /\ \A i \in 1 .. Len(granted') : granted'[i].key = q => granted'[i].at < until'[q]
               /\ Cardinality(Counted(q)') <= hits'[q] /\ Cardinality(Counted(q)') <= Limit
               /\ until'[q] > 0 => \E j \in Counted(q)' : granted'[j].at = Opened(q)'
               /\ \A t \in Nat : t > Opened(q)' - Minute => Cardinality(Earlier(q, t)') <= Limit - 1
    <3>1. Opened(q)' = Opened(q) /\ Opened(q) \in Int
      BY <1>1, <1>4, <2>1 DEF Opened
    <3>2. \A j \in Counted(q) : granted'[j] = granted[j]
      BY <1>2 DEF Counted
    <3>3. \A i \in 1 .. Len(granted') : granted'[i].key = q => i \in 1 .. Len(granted) /\ granted'[i] = granted[i]
      BY <1>2, <1>3, <2>1
    <3>4. ASSUME NEW t \in Nat PROVE Earlier(q, t)' = Earlier(q, t)
      BY <1>1, <1>2, <1>3, <2>1, <3>1, <3>3 DEF Earlier, ServedIn
    <3> QED
      BY <1>4, <2>1, <3>1, <3>2, <3>3, <3>4 DEF MinutesCount
  <2> QED
    BY <1>10, <2>1 DEF MinutesCount
<1>12. BurstsBounded'
  <2> SUFFICES ASSUME NEW q \in Keys, NEW t \in Nat
               PROVE  Cardinality(ServedIn(q, t, t + Minute)') <= 2 * Limit - 1
    BY DEF BurstsBounded
  <2>0. t + Minute \in Int /\ t \in Int
    BY <1>1
  <2>1. CASE q # k
    BY <1>4, <2>0, <2>1 DEF BurstsBounded
  <2>2. CASE q = k /\ ~(t <= now /\ now < t + Minute)
    <3>1. ServedIn(k, t, t + Minute)' = ServedIn(k, t, t + Minute)
      BY <1>1, <1>2, <1>3, <2>2 DEF ServedIn
    <3> QED
      BY <2>2, <3>1 DEF BurstsBounded
  <2>3. CASE q = k /\ t <= now /\ now < t + Minute
    <3> DEFINE earlier == Earlier(k, t)'
    <3>1. ServedIn(k, t, t + Minute)' \subseteq earlier \cup Counted(k)'
      <4>1. \A i \in 1 .. Len(granted') : granted'[i].at \in Nat
        BY <1>1, <1>2, <1>3
      <4>2. Opened(k)' = until'[k] - Minute /\ Opened(k)' \in Int
        BY <1>10 DEF Opened
      <4> QED
        <5> SUFFICES ASSUME NEW i \in ServedIn(k, t, t + Minute)'
                     PROVE  i \in Earlier(k, t)' \/ i \in Counted(k)'
          OBVIOUS
        <5>1. i \in 1 .. Len(granted') /\ granted'[i].key = k /\ t <= granted'[i].at
          BY DEF ServedIn
        <5>2. CASE granted'[i].at < Opened(k)'
          BY <5>1, <5>2 DEF Earlier, ServedIn
        <5>3. CASE ~(granted'[i].at < Opened(k)')
          BY <4>1, <4>2, <5>1, <5>3 DEF Counted
        <5> QED
          BY <5>2, <5>3
    <3>2. t > Opened(k)' - Minute
      BY <1>1, <1>10, <2>3
    <3>3. Cardinality(earlier) <= Limit - 1 /\ Cardinality(Counted(k)') <= Limit
      BY <1>10, <3>2
    <3>4. IsFiniteSet(earlier) /\ Cardinality(earlier) \in Nat
      <4>1. earlier \subseteq 1 .. n
        BY <1>2 DEF Earlier, ServedIn
      <4> QED
        BY <1>1, <4>1, IndicesFinite
    <3> HIDE DEF earlier
    <3>5. /\ Cardinality(ServedIn(k, t, t + Minute)') \in Nat
          /\ Cardinality(ServedIn(k, t, t + Minute)') <= Cardinality(earlier) + Cardinality(Counted(k)')
      BY <1>5, <3>1, <3>4, UnionBounded
    <3> QED
      BY <1>1, <1>5, <2>3, <3>3, <3>4, <3>5
  <2> QED
    BY <2>1, <2>2, <2>3
<1> QED
  BY <1>11, <1>12

LEMMA RefusalBursts ==
  ASSUME TypeOK, CountersCount, MinutesCount, BurstsBounded, NEW k \in Keys,
         Hit(k), UNCHANGED granted, ~(hits'[k] <= Limit)
  PROVE  MinutesCount' /\ BurstsBounded'
<1>1. now \in Nat /\ hits \in [Keys -> Nat] /\ until \in [Keys -> Nat]
  BY NowType DEF TypeOK
<1>2. UNCHANGED until
  <2>1. ~(until[k] <= now)
    BY <1>1, OverMeansUsedUp
  <2> QED
    BY <1>1, <2>1 DEF Hit
<1>3. \A q \in Keys : hits'[q] = hits[q] \/ hits'[q] = hits[q] + 1
  <2>1. ~(until[k] <= now)
    BY <1>1, OverMeansUsedUp
  <2> QED
    BY <1>1, <2>1 DEF Hit
<1>4. \A q \in Keys : Counted(q)' = Counted(q) /\ Opened(q)' = Opened(q)
  BY <1>2 DEF Counted, Opened
<1>5. \A q \in Keys, t, u \in Int : ServedIn(q, t, u)' = ServedIn(q, t, u)
  BY DEF ServedIn
<1>6. BurstsBounded'
  BY <1>5, LimitAssumption DEF BurstsBounded
<1>7. \A q \in Keys : hits[q] \in Nat /\ Cardinality(Counted(q)) \in Nat /\ Opened(q) \in Int
  BY <1>1, CountedFinite, LimitAssumption DEF Opened
<1>8. MinutesCount'
  <2> SUFFICES ASSUME NEW q \in Keys
               PROVE  /\ \A i \in 1 .. Len(granted') : granted'[i].key = q => granted'[i].at < until'[q]
                      /\ Cardinality(Counted(q)') <= hits'[q] /\ Cardinality(Counted(q)') <= Limit
                      /\ until'[q] > 0 => \E j \in Counted(q)' : granted'[j].at = Opened(q)'
                      /\ \A t \in Nat : t > Opened(q)' - Minute => Cardinality(Earlier(q, t)') <= Limit - 1
    BY DEF MinutesCount
  <2>1. \A t \in Nat : Earlier(q, t)' = Earlier(q, t)
    BY <1>2 DEF Earlier, ServedIn, Opened
  <2> QED
    <3>1. \A i \in 1 .. Len(granted') : granted'[i].key = q => granted'[i].at < until'[q]
      BY <1>2 DEF MinutesCount
    <3>2. Cardinality(Counted(q)') <= hits'[q] /\ Cardinality(Counted(q)') <= Limit
      BY <1>3, <1>4, <1>7 DEF MinutesCount
    <3>3. until'[q] > 0 => \E j \in Counted(q)' : granted'[j].at = Opened(q)'
      BY <1>2, <1>4 DEF MinutesCount
    <3>4. \A t \in Nat : t > Opened(q)' - Minute => Cardinality(Earlier(q, t)') <= Limit - 1
      BY <1>4, <2>1 DEF MinutesCount
    <3> QED
      BY <3>1, <3>2, <3>3, <3>4
<1> QED
  BY <1>6, <1>8

LEMMA NextBursts ==
  ASSUME PInv, CountersCount, MinutesCount, BurstsBounded, [Next]_vars
  PROVE  MinutesCount' /\ BurstsBounded'
<1> USE DEF PInv
<1>1. CASE UNCHANGED limiter
  <2> USE <1>1 DEF limiter
  <2>1. \A q \in Keys : Counted(q)' = Counted(q) /\ Opened(q)' = Opened(q)
    BY DEF Counted, Opened
  <2>2. \A q \in Keys, t, u \in Int : ServedIn(q, t, u)' = ServedIn(q, t, u)
    BY DEF ServedIn
  <2>3. \A q \in Keys, t \in Nat : Earlier(q, t)' = Earlier(q, t)
    BY DEF Earlier, ServedIn, Opened
  <2>4. BurstsBounded'
    BY <2>2, LimitAssumption DEF BurstsBounded
  <2>5. MinutesCount'
    BY <2>1, <2>3 DEF MinutesCount
  <2> QED
    BY <2>4, <2>5
<1>2. ASSUME NEW w \in Workers, LimitAndHandle(w) PROVE MinutesCount' /\ BurstsBounded'
  <2>1. CASE UNCHANGED <<hits, until, granted>>
    BY <1>1, <2>1 DEF limiter
  <2> QED
    BY <1>2, <2>1, LimiterDecides, ServedBursts, RefusalBursts, ZenonT(30)
<1>3. ASSUME NEW w \in Workers,
             \/ \E r \in Arrivals : Arrive(w, r)
             \/ AnswerPreflight(w) \/ CallHealth(w) \/ CheckRole(w) \/ Audit(w)
      PROVE  MinutesCount' /\ BurstsBounded'
  BY <1>1, <1>3 DEF Arrive, AnswerPreflight, CallHealth, CheckRole, Audit
<1>4. CASE Tick
  BY <1>1, <1>4 DEF Tick
<1>5. CASE Restart
  <2>1. TypeOK'
    BY NextType
  <2>2. granted' = <<>> /\ \A k \in Keys : until'[k] = 0
    BY <1>5 DEF Restart
  <2>3. (TypeOK /\ granted = <<>> /\ (\A k \in Keys : until[k] = 0)
            => MinutesCount /\ BurstsBounded)'
    BY NothingServed, PTL
  <2> QED
    BY <2>1, <2>2, <2>3
<1>6. CASE UNCHANGED vars
  BY <1>1, <1>6 DEF vars
<1> QED
  BY <1>2, <1>3, <1>4, <1>5, <1>6 DEF Next

\* Whatever the limit, no user is served twice the limit's requests of a scope in less
\* than a minute, not even across the end of a counter.
THEOREM BurstsStayBounded == Spec => []BurstBounded
<1>1. Init => MinutesCount /\ BurstsBounded
  <2> SUFFICES ASSUME Init PROVE MinutesCount /\ BurstsBounded
    OBVIOUS
  <2>1. TypeOK /\ granted = <<>> /\ \A k \in Keys : until[k] = 0
    BY InitType DEF Init
  <2> QED
    BY <2>1, NothingServed
<1>2. PInv /\ CountersCount /\ (MinutesCount /\ BurstsBounded) /\ [Next]_vars
        => (MinutesCount /\ BurstsBounded)'
  BY NextBursts
<1>3. PInv /\ BurstsBounded => BurstBounded
  <2> SUFFICES ASSUME PInv, BurstsBounded, NEW k \in Keys, NEW t \in 0 .. now
               PROVE  Cardinality(ServedIn(k, t, t + Minute)) <= 2 * Limit - 1
    BY DEF BurstBounded, ServedIn
  <2>1. t \in Nat
    BY NowType DEF PInv
  <2> QED
    BY <2>1 DEF BurstsBounded
<1>4. PInv /\ CountersCount /\ [Next]_vars => CountersCount'
  BY NextCounters
<1> QED
  BY <1>1, <1>2, <1>3, <1>4, InitCounters, PathInvariant, PTL DEF Spec
=============================================================================
