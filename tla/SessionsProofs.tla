--------------------------- MODULE SessionsProofs ----------------------------
(***************************************************************************)
(* Proofs about Sessions for every list of events, gap and row length: a   *)
(* stable sort is a permutation in order, what the loop has made of the    *)
(* first events of a list cuts them at its gaps, the index tells the event *)
(* types apart, and one event more leaves the sessions it is apart from.   *)
(***************************************************************************)
EXTENDS Sessions, FiniteSetTheorems, WellFoundedInduction, TLAPS

-----------------------------------------------------------------------------
(* The least of a set of numbers.                                          *)

LEMMA Least ==
  ASSUME NEW T, T \subseteq Nat, T # {}
  PROVE  \E n \in T : \A m \in T : n <= m
<1> DEFINE R == {ss \in Nat \X Nat : ss[1] < ss[2]}
<1>1. IsWellFoundedOn(R, Nat)
  <2>1. IsWellFoundedOn(OpToRel(<, Nat), Nat)
    BY NatLessThanWellFounded, Zenon
  <2> QED
    BY <2>1, Zenon DEF OpToRel
<1> HIDE DEF R
<1>2. PICK n \in T : \A m \in T : ~ (<<m, n>> \in R)
  BY <1>1, WFMin, Zenon
<1>3. \A m \in T : ~(m < n)
  BY <1>2 DEF R
<1> QED
  BY <1>3

-----------------------------------------------------------------------------
(* A stable order.                                                         *)

\* Whether a stable sort puts the i-th element before the j-th.
Before(s, i, j) == s[i] < s[j] \/ (s[i] = s[j] /\ i < j)

\* An element has a place of its own, and the places are in order.
LEMMA Places ==
  ASSUME NEW s \in Seq(Int), NEW n \in Nat, n = Len(s)
  PROVE  /\ \A i \in 1 .. n : Place(s, i) \in 1 .. n
         /\ \A i, j \in 1 .. n : Before(s, i, j) => Place(s, i) < Place(s, j)
         /\ \A k \in 1 .. n : \E i \in 1 .. n : Place(s, i) = k
<1> DEFINE Up(i) == {j \in 1 .. n : s[j] < s[i] \/ (s[j] = s[i] /\ j <= i)}
<1>1. \A i \in 1 .. n : s[i] \in Int
  OBVIOUS
<1>2. IsFiniteSet(1 .. n) /\ Cardinality(1 .. n) = n
  <2>1. 1 \in Int /\ n \in Int
    OBVIOUS
  <2>2. IsFiniteSet(1 .. n) /\ Cardinality(1 .. n) = IF 1 > n THEN 0 ELSE n - 1 + 1
    BY <2>1, FS_Interval
  <2> QED
    BY <2>2
<1>3. \A i : Place(s, i) = Cardinality(Up(i))
  BY DEF Place
<1>4. \A i \in 1 .. n : IsFiniteSet(Up(i)) /\ Cardinality(Up(i)) \in 1 .. n
  <2> SUFFICES ASSUME NEW i \in 1 .. n
               PROVE  IsFiniteSet(Up(i)) /\ Cardinality(Up(i)) \in 1 .. n
    OBVIOUS
  <2>1. Up(i) \in SUBSET (1 .. n) /\ i \in Up(i)
    OBVIOUS
  <2> HIDE DEF Up
  <2>2. IsFiniteSet(Up(i)) /\ Cardinality(Up(i)) <= n
    BY <1>2, <2>1, FS_Subset
  <2>3. Cardinality(Up(i)) \in Nat
    BY <2>2, FS_CardinalityType
  <2>4. Cardinality(Up(i)) # 0
    BY <2>1, <2>2, FS_EmptySet
  <2> QED
    BY <2>2, <2>3, <2>4
<1>5. ASSUME NEW i \in 1 .. n, NEW j \in 1 .. n, Before(s, i, j)
      PROVE  Cardinality(Up(i)) < Cardinality(Up(j))
  <2>1. Up(i) \in SUBSET Up(j)
    <3> SUFFICES ASSUME NEW k \in 1 .. n, s[k] < s[i] \/ (s[k] = s[i] /\ k <= i)
                 PROVE  s[k] < s[j] \/ (s[k] = s[j] /\ k <= j)
      OBVIOUS
    <3>1. s[i] \in Int /\ s[j] \in Int /\ s[k] \in Int
      BY <1>1
    <3> QED
      BY <3>1, <1>5 DEF Before
  <2>2. j \in Up(j) /\ j \notin Up(i)
    BY <1>1, <1>5 DEF Before
  <2> HIDE DEF Up
  <2>3. Cardinality(Up(i)) <= Cardinality(Up(j)) /\ Cardinality(Up(i)) # Cardinality(Up(j))
    BY <1>4, <2>1, <2>2, FS_Subset
  <2> QED
    BY <1>4, <2>3
<1>6. ASSUME NEW k \in 1 .. n PROVE \E i \in 1 .. n : Cardinality(Up(i)) = k
  <2> DEFINE f == [i \in 1 .. n |-> Cardinality(Up(i))]
  <2>1. f \in [1 .. n -> 1 .. n]
    <3> HIDE DEF Up
    <3> QED
      BY <1>4
  <2>2. ASSUME NEW i \in 1 .. n, NEW j \in 1 .. n, i # j PROVE f[i] # f[j]
    <3>1. Before(s, i, j) \/ Before(s, j, i)
      BY <1>1, <2>2 DEF Before
    <3> HIDE DEF Up
    <3>2. Cardinality(Up(i)) < Cardinality(Up(j)) \/ Cardinality(Up(j)) < Cardinality(Up(i))
      BY <1>5, <3>1
    <3>3. Cardinality(Up(i)) \in 1 .. n /\ Cardinality(Up(j)) \in 1 .. n
      BY <1>4
    <3>4. Cardinality(Up(i)) # Cardinality(Up(j))
      BY <3>2, <3>3
    <3> QED
      BY <3>4
  <2> HIDE DEF f
  <2>3. f \in Injection(1 .. n, 1 .. n)
    BY <2>1, <2>2 DEF Injection, IsInjective
  <2>4. f \in Surjection(1 .. n, 1 .. n)
    BY <1>2, <2>3, FS_Injection
  <2>5. PICK i \in 1 .. n : f[i] = k
    BY <2>4 DEF Surjection
  <2> QED
    BY <2>5 DEF f
<1> HIDE DEF Up
<1> QED
  BY <1>3, <1>4, <1>5, <1>6

LEMMA StableOrderIs ==
  ASSUME NEW s \in Seq(Int), NEW n \in Nat, n = Len(s)
  PROVE  /\ StableOrder(s) \in [1 .. n -> 1 .. n]
         /\ \A k \in 1 .. n : Place(s, StableOrder(s)[k]) = k
         /\ \A i \in 1 .. n : StableOrder(s)[Place(s, i)] = i
         /\ \A j, k \in 1 .. n : j < k => Before(s, StableOrder(s)[j], StableOrder(s)[k])
<1>1. \A i \in 1 .. n : s[i] \in Int
  OBVIOUS
<1>2. \A k \in 1 .. n : StableOrder(s)[k] \in 1 .. n /\ Place(s, StableOrder(s)[k]) = k
  <2> SUFFICES ASSUME NEW k \in 1 .. n
               PROVE  StableOrder(s)[k] \in 1 .. n /\ Place(s, StableOrder(s)[k]) = k
    OBVIOUS
  <2>1. StableOrder(s)[k] = CHOOSE i \in 1 .. n : Place(s, i) = k
    BY DEF StableOrder
  <2>2. \E i \in 1 .. n : Place(s, i) = k
    BY Places
  <2> QED
    BY <2>1, <2>2
<1>3. StableOrder(s) \in [1 .. n -> 1 .. n]
  <2>1. StableOrder(s) = [k \in 1 .. n |-> StableOrder(s)[k]]
    BY DEF StableOrder
  <2> QED
    BY <1>2, <2>1
<1>4. ASSUME NEW i \in 1 .. n, NEW j \in 1 .. n PROVE i = j \/ Before(s, i, j) \/ Before(s, j, i)
  BY <1>1 DEF Before
<1>5. ASSUME NEW i \in 1 .. n PROVE StableOrder(s)[Place(s, i)] = i
  <2>1. PICK k \in 1 .. n : k = Place(s, i)
    BY Places
  <2>2. PICK j \in 1 .. n : j = StableOrder(s)[k] /\ Place(s, j) = k
    BY <1>2
  <2>3. ~Before(s, i, j) /\ ~Before(s, j, i)
    <3>1. Before(s, i, j) => Place(s, i) < Place(s, j)
      BY Places
    <3>2. Before(s, j, i) => Place(s, j) < Place(s, i)
      BY Places
    <3> QED
      BY <2>1, <2>2, <3>1, <3>2
  <2> QED
    BY <1>4, <2>1, <2>2, <2>3
<1>6. ASSUME NEW j \in 1 .. n, NEW k \in 1 .. n, j < k
      PROVE  Before(s, StableOrder(s)[j], StableOrder(s)[k])
  <2>1. PICK x \in 1 .. n, y \in 1 .. n :
           /\ x = StableOrder(s)[j] /\ Place(s, x) = j
           /\ y = StableOrder(s)[k] /\ Place(s, y) = k
    BY <1>2
  <2>2. x # y
    BY <1>6, <2>1
  <2>3. ~Before(s, y, x)
    <3>1. Before(s, y, x) => Place(s, y) < Place(s, x)
      BY Places
    <3> QED
      BY <1>6, <2>1, <3>1
  <2> QED
    BY <1>4, <2>1, <2>2, <2>3
<1> QED
  BY <1>2, <1>3, <1>5, <1>6

-----------------------------------------------------------------------------
(* The events in order.                                                    *)

\* When the events of a list happen.
Moments(evs) == [i \in 1 .. Len(evs) |-> evs[i].time]

LEMMA EventMoment == \A e \in Event : e.time \in Nat
  BY TimestampsAssumption DEF Event

LEMMA EventType ==
  ASSUME NEW evs \in Seq(Event), NEW n \in Nat, n = Len(evs)
  PROVE  /\ \A i \in 1 .. n : evs[i] \in Event /\ evs[i].time \in Nat
         /\ Moments(evs) \in Seq(Int) /\ Len(Moments(evs)) = n
         /\ \A i \in 1 .. n : Moments(evs)[i] = evs[i].time
<1>1. \A i \in 1 .. n : evs[i] \in Event
  OBVIOUS
<1>2. \A e \in Event : e.time \in Nat
  BY EventMoment
<1>3. \A i \in 1 .. n : evs[i].time \in Int
  BY <1>1, <1>2
<1>4. Moments(evs) \in [1 .. n -> Int]
  BY <1>3 DEF Moments
<1> QED
  BY <1>1, <1>2, <1>4 DEF Moments

Ascending(o) == \A j, k \in 1 .. Len(o) : j <= k => o[j].time <= o[k].time

LEMMA OrderedIs ==
  ASSUME NEW evs \in Seq(Event), NEW n \in Nat, n = Len(evs)
  PROVE  /\ Ordered(evs) \in Seq(Event) /\ Len(Ordered(evs)) = n
         /\ \A k \in 1 .. n : Ordered(evs)[k] = evs[StableOrder(Moments(evs))[k]]
         /\ Ascending(Ordered(evs))
<1> DEFINE order == StableOrder(Moments(evs))
<1>1. Ordered(evs) = [k \in 1 .. n |-> evs[order[k]]]
  BY Zenon DEF Ordered, Moments
<1>2. /\ order \in [1 .. n -> 1 .. n]
      /\ \A j, k \in 1 .. n : j < k => Before(Moments(evs), order[j], order[k])
  BY EventType, StableOrderIs
<1> HIDE DEF order
<1>3. Ordered(evs) \in [1 .. n -> Event]
  BY <1>1, <1>2, EventType
<1>4. Ordered(evs) \in Seq(Event) /\ Len(Ordered(evs)) = n
  BY <1>3
<1>5. \A k \in 1 .. n : Ordered(evs)[k] = evs[order[k]]
  BY <1>1
<1>6. ASSUME NEW j \in 1 .. n, NEW k \in 1 .. n, j <= k
      PROVE  Ordered(evs)[j].time <= Ordered(evs)[k].time
  <2>1. order[j] \in 1 .. n /\ order[k] \in 1 .. n
    BY <1>2
  <2>2. PICK x \in Nat, y \in Nat : x = evs[order[j]].time /\ y = evs[order[k]].time
    BY <2>1, EventType
  <2>3. CASE j = k
    BY <2>2, <2>3, <1>5
  <2>4. CASE j < k
    <3>1. Before(Moments(evs), order[j], order[k])
      BY <1>2, <2>4
    <3>2. Moments(evs)[order[j]] = x /\ Moments(evs)[order[k]] = y
      BY <2>1, <2>2, EventType
    <3>3. x <= y
      BY <3>1, <3>2 DEF Before
    <3> QED
      BY <1>5, <2>2, <3>3
  <2> QED
    BY <1>6, <2>3, <2>4
<1> QED
  BY <1>4, <1>5, <1>6 DEF order, Ascending

-----------------------------------------------------------------------------
(* The loop.                                                               *)

\* A gap lies before the i-th event.
Gapped(o, i) == o[i].time - o[i - 1].time > Gap

\* The events of o from the a-th up to the one before the c-th.
Piece(o, s, a, c) ==
  /\ s \in Seq(Event)
  /\ Len(s) = c - a
  /\ \A i \in 1 .. c - a : s[i] = o[a + i - 1]

\* The first n events of o fall into these m sessions: the k-th begins with the b[k]-th
\* event, and sessions begin at the gaps.
Cut(o, n, ses, m, b) ==
  /\ b \in [1 .. m + 1 -> 1 .. n + 1]
  /\ b[1] = 1 /\ b[m + 1] = n + 1
  /\ \A j, k \in 1 .. m + 1 : j < k => b[j] < b[k]
  /\ \A k \in 1 .. m : Piece(o, ses[k], b[k], b[k + 1])
  /\ \A i \in 2 .. n : Gapped(o, i) <=> \E k \in 1 .. m : b[k] = i

Loops == [sessions : Seq(Seq(Event)), current : Seq(Event), last : Nat]

\* What the loop has made of the first n events.
Made(o, n, acc) ==
  /\ acc \in Loops
  /\ acc.last = o[n].time
  /\ \E m \in Nat \ {0} :
        /\ Len(acc.sessions) = m - 1
        /\ \E b : Cut(o, n, Append(acc.sessions, acc.current), m, b)

LEMMA Appended ==
  ASSUME NEW S, NEW s \in Seq(S), NEW x \in S
  PROVE  /\ Append(s, x) \in Seq(S)
         /\ Len(Append(s, x)) = Len(s) + 1
         /\ Append(s, x)[Len(s) + 1] = x
         /\ \A i \in 1 .. Len(s) : Append(s, x)[i] = s[i]
  OBVIOUS

LEMMA NestedAppend ==
  ASSUME NEW s \in Seq(Seq(Event)), NEW x \in Seq(Event)
  PROVE  Append(s, x) \in Seq(Seq(Event))
<1> DEFINE S == Seq(Event)
<1>1. s \in Seq(S) /\ x \in S
  OBVIOUS
<1> HIDE DEF S
<1>2. Append(s, x) \in Seq(S)
  BY <1>1, Appended
<1> QED
  BY <1>2 DEF S

LEMMA TurnType ==
  ASSUME NEW acc \in Loops, NEW e \in Event, e.time \in Nat
  PROVE  /\ Extended(acc, e) \in Loops
         /\ Extended(acc, e).last = e.time
         /\ e.time - acc.last > Gap =>
              /\ Extended(acc, e).sessions = Append(acc.sessions, acc.current)
              /\ Extended(acc, e).current = <<e>>
         /\ ~(e.time - acc.last > Gap) =>
              /\ Extended(acc, e).sessions = acc.sessions
              /\ Extended(acc, e).current = Append(acc.current, e)
<1>1. acc.sessions \in Seq(Seq(Event)) /\ acc.current \in Seq(Event)
  BY DEF Loops
<1>2. PICK more \in Seq(Seq(Event)) : more = Append(acc.sessions, acc.current)
  BY <1>1, NestedAppend
<1>3. PICK cur \in Seq(Event) : cur = Append(acc.current, e)
  BY <1>1, Appended
<1>4. <<e>> \in Seq(Event)
  OBVIOUS
<1>5. CASE e.time - acc.last > Gap
  <2>1. Extended(acc, e) = [sessions |-> more, current |-> <<e>>, last |-> e.time]
    BY <1>2, <1>5 DEF Extended
  <2> QED
    BY <1>2, <1>4, <1>5, <2>1 DEF Loops
<1>6. CASE ~(e.time - acc.last > Gap)
  <2>1. Extended(acc, e) = [acc EXCEPT !.current = cur, !.last = e.time]
    BY <1>3, <1>6 DEF Extended
  <2> QED
    BY <1>1, <1>3, <1>6, <2>1 DEF Loops
<1> QED
  BY <1>5, <1>6

LEMMA FirstTurn ==
  ASSUME NEW o \in Seq(Event), o # <<>>
  PROVE  Made(o, 1, Extended([sessions |-> <<>>, current |-> <<>>, last |-> o[1].time], o[1]))
<1>1. o[1] \in Event /\ o[1].time \in Nat
  BY EventType
<1>2. ~(o[1].time - o[1].time > Gap)
  BY <1>1, SessionsAssumption
<1>3. PICK start : start = [sessions |-> <<>>, current |-> <<>>, last |-> o[1].time]
  OBVIOUS
<1>4. start \in Loops
  BY <1>1, <1>3 DEF Loops
<1>5. start.sessions = <<>> /\ start.current = <<>> /\ start.last = o[1].time
  BY <1>3
<1>6. PICK acc \in Loops :
         /\ acc = Extended(start, o[1]) /\ acc.last = o[1].time
         /\ acc.sessions = <<>> /\ acc.current = Append(<<>>, o[1])
  BY <1>1, <1>2, <1>4, <1>5, TurnType
<1>7. Cut(o, 1, <<<<o[1]>>>>, 1, [k \in 1 .. 2 |-> k])
  <2>1. Piece(o, <<o[1]>>, 1, 2)
    BY <1>1 DEF Piece
  <2> DEFINE b == [k \in 1 .. 2 |-> k]
  <2>2. b \in [1 .. 1 + 1 -> 1 .. 1 + 1] /\ b[1] = 1 /\ b[1 + 1] = 1 + 1
    OBVIOUS
  <2>3. \A j, k \in 1 .. 1 + 1 : j < k => b[j] < b[k]
    OBVIOUS
  <2>4. \A k \in 1 .. 1 : k = 1 /\ b[k] = 1 /\ b[k + 1] = 2 /\ <<<<o[1]>>>>[k] = <<o[1]>>
    OBVIOUS
  <2>5. \A i \in 2 .. 1 : FALSE
    OBVIOUS
  <2> QED
    BY <2>1, <2>2, <2>3, <2>4, <2>5 DEF Cut
<1>8. Append(acc.sessions, acc.current) = <<<<o[1]>>>>
  <2>1. acc.current = <<o[1]>>
    BY <1>6
  <2>2. Append(<<>>, <<o[1]>>) = <<<<o[1]>>>>
    OBVIOUS
  <2> QED
    BY <1>6, <2>1, <2>2
<1>9. Len(acc.sessions) = 1 - 1
  BY <1>6
<1>10. Made(o, 1, acc)
  BY <1>6, <1>7, <1>8, <1>9 DEF Made
<1> QED
  BY <1>3, <1>6, <1>10

LEMMA NextTurn ==
  ASSUME NEW o \in Seq(Event), NEW n \in Nat \ {0}, n + 1 <= Len(o), NEW acc, Made(o, n, acc)
  PROVE  Made(o, n + 1, Extended(acc, o[n + 1]))
<1>1. PICK m \in Nat \ {0} :
         /\ Len(acc.sessions) = m - 1
         /\ \E b : Cut(o, n, Append(acc.sessions, acc.current), m, b)
  BY DEF Made
<1>2. PICK b : Len(acc.sessions) = m - 1 /\ Cut(o, n, Append(acc.sessions, acc.current), m, b)
  BY <1>1
<1>3. /\ acc \in Loops /\ acc.last = o[n].time
      /\ acc.sessions \in Seq(Seq(Event)) /\ acc.current \in Seq(Event)
  BY DEF Made, Loops
<1>4. PICK e \in Event : e = o[n + 1] /\ e.time \in Nat
  <2>1. n + 1 \in 1 .. Len(o)
    OBVIOUS
  <2> QED
    BY <2>1, EventType
<1>5. PICK ses \in Seq(Seq(Event)) : ses = Append(acc.sessions, acc.current)
  BY <1>3, NestedAppend
<1>6. /\ Len(ses) = m /\ ses[m] = acc.current
      /\ \A k \in 1 .. m - 1 : ses[k] = acc.sessions[k]
  BY <1>2, <1>3, <1>5
<1>7. /\ b \in [1 .. m + 1 -> 1 .. n + 1]
      /\ b[1] = 1 /\ b[m + 1] = n + 1
      /\ \A j, k \in 1 .. m + 1 : j < k => b[j] < b[k]
      /\ \A k \in 1 .. m : Piece(o, ses[k], b[k], b[k + 1])
      /\ \A i \in 2 .. n : Gapped(o, i) <=> \E k \in 1 .. m : b[k] = i
  BY <1>2, <1>5 DEF Cut
<1>8. Gapped(o, n + 1) <=> e.time - acc.last > Gap
  BY <1>3, <1>4 DEF Gapped
<1>9. CASE Gapped(o, n + 1)
  <2>1. PICK new \in Loops :
           /\ new = Extended(acc, o[n + 1]) /\ new.last = o[n + 1].time
           /\ new.sessions = ses /\ new.current = <<e>>
    BY <1>3, <1>4, <1>5, <1>8, <1>9, TurnType
  <2>2. PICK all \in Seq(Seq(Event)) : all = Append(ses, <<e>>)
    <3>1. <<e>> \in Seq(Event)
      OBVIOUS
    <3> QED
      BY <3>1, NestedAppend
  <2>3. /\ all[m + 1] = <<e>>
        /\ \A k \in 1 .. m : all[k] = ses[k]
    BY <1>6, <2>1, <2>2
  <2>4. PICK c : c = [k \in 1 .. m + 2 |-> IF k <= m + 1 THEN b[k] ELSE n + 2]
    OBVIOUS
  <2>5. \A k \in 1 .. m + 1 : c[k] = b[k]
    BY <2>4
  <2>6. c[m + 2] = n + 2
    BY <2>4
  <2>7. Cut(o, n + 1, all, m + 1, c)
    <3>1. c \in [1 .. (m + 1) + 1 -> 1 .. (n + 1) + 1]
      <4>1. \A k \in 1 .. m + 1 : b[k] \in 1 .. n + 2
        BY <1>7
      <4>2. ASSUME NEW k \in 1 .. m + 2 PROVE c[k] \in 1 .. n + 2
        <5>1. CASE k \in 1 .. m + 1
          <6>1. c[k] = b[k]
            BY <2>5, <5>1
          <6> QED
            BY <4>1, <5>1, <6>1
        <5>2. CASE k = m + 2
          BY <2>6, <5>2
        <5> QED
          BY <5>1, <5>2
      <4> QED
        BY <2>4, <4>2
    <3>2. c[1] = 1 /\ c[(m + 1) + 1] = (n + 1) + 1
      BY <1>7, <2>5, <2>6
    <3>3. ASSUME NEW j \in 1 .. (m + 1) + 1, NEW k \in 1 .. (m + 1) + 1, j < k PROVE c[j] < c[k]
      <4>1. j \in 1 .. m + 1 /\ c[j] = b[j] /\ b[j] \in 1 .. n + 1
        BY <1>7, <2>5, <3>3
      <4>2. CASE k = m + 2
        BY <2>6, <4>1, <4>2
      <4>3. CASE k \in 1 .. m + 1
        BY <1>7, <2>5, <3>3, <4>1, <4>3
      <4> QED
        BY <4>2, <4>3
    <3>4. ASSUME NEW k \in 1 .. m + 1 PROVE Piece(o, all[k], c[k], c[k + 1])
      <4>1. CASE k = m + 1
        <5>1. c[k] = n + 1 /\ c[k + 1] = n + 2
          BY <1>7, <2>5, <2>6, <4>1
        <5>2. Piece(o, <<e>>, n + 1, n + 2)
          BY <1>4 DEF Piece
        <5> QED
          BY <2>3, <4>1, <5>1, <5>2
      <4>2. CASE k \in 1 .. m
        <5>1. k \in 1 .. m + 1 /\ k + 1 \in 1 .. m + 1
          BY <4>2
        <5>2. c[k] = b[k] /\ c[k + 1] = b[k + 1] /\ all[k] = ses[k]
          BY <2>3, <2>5, <4>2, <5>1
        <5>3. Piece(o, ses[k], b[k], b[k + 1])
          BY <1>7, <4>2
        <5> QED
          BY <5>2, <5>3
      <4> QED
        BY <4>1, <4>2
    <3>5. ASSUME NEW i \in 2 .. n + 1 PROVE Gapped(o, i) <=> \E k \in 1 .. m + 1 : c[k] = i
      <4>1. CASE i = n + 1
        <5>1. m + 1 \in 1 .. m + 1 /\ c[m + 1] = i
          BY <1>7, <2>5, <4>1
        <5> QED
          BY <1>9, <4>1, <5>1
      <4>2. CASE i \in 2 .. n
        <5>1. c[m + 1] # i
          BY <1>7, <2>5, <4>2
        <5>2. \A k \in 1 .. m + 1 : k \in 1 .. m \/ k = m + 1
          OBVIOUS
        <5>3. \A k \in 1 .. m : k \in 1 .. m + 1 /\ c[k] = b[k]
          <6>1. \A k \in 1 .. m : k \in 1 .. m + 1
            OBVIOUS
          <6> QED
            BY <2>5, <6>1
        <5>4. (\E k \in 1 .. m + 1 : c[k] = i) => \E k \in 1 .. m : b[k] = i
          BY <5>1, <5>2, <5>3
        <5> QED
          BY <1>7, <4>2, <5>3, <5>4
      <4> QED
        BY <4>1, <4>2
    <3> QED
      BY <3>1, <3>2, <3>3, <3>4, <3>5 DEF Cut
  <2>8. Len(new.sessions) = (m + 1) - 1
    BY <1>6, <2>1
  <2>9. PICK m1 \in Nat \ {0}, n1 \in Nat : m1 = m + 1 /\ n1 = n + 1
    OBVIOUS
  <2>10. Cut(o, n1, Append(new.sessions, new.current), m1, c) /\ Len(new.sessions) = m1 - 1
    BY <2>1, <2>2, <2>7, <2>8, <2>9
  <2>11. Made(o, n1, new)
    BY <2>1, <2>9, <2>10 DEF Made
  <2> QED
    BY <2>1, <2>9, <2>11
<1>10. CASE ~Gapped(o, n + 1)
  <2>1. PICK cur \in Seq(Event) : cur = Append(acc.current, e)
    BY <1>3, <1>4, Appended
  <2>2. PICK new \in Loops :
           /\ new = Extended(acc, o[n + 1]) /\ new.last = o[n + 1].time
           /\ new.sessions = acc.sessions /\ new.current = cur
    BY <1>3, <1>4, <1>8, <1>10, <2>1, TurnType
  <2>3. PICK all \in Seq(Seq(Event)) : all = Append(acc.sessions, cur)
    BY <1>3, <2>1, NestedAppend
  <2>4. all[m] = cur /\ \A k \in 1 .. m - 1 : all[k] = ses[k]
    BY <1>2, <1>3, <1>6, <2>3
  <2>5. PICK c : c = [k \in 1 .. m + 1 |-> IF k <= m THEN b[k] ELSE n + 2]
    OBVIOUS
  <2>6. \A k \in 1 .. m : c[k] = b[k]
    BY <2>5
  <2>7. c[m + 1] = n + 2
    BY <2>5
  <2>8. Cut(o, n + 1, all, m, c)
    <3>1. c \in [1 .. m + 1 -> 1 .. (n + 1) + 1]
      <4>1. \A k \in 1 .. m + 1 : b[k] \in 1 .. n + 2
        BY <1>7
      <4>2. ASSUME NEW k \in 1 .. m + 1 PROVE c[k] \in 1 .. n + 2
        <5>1. CASE k \in 1 .. m
          <6>1. c[k] = b[k]
            BY <2>6, <5>1
          <6> QED
            BY <4>1, <6>1
        <5>2. CASE k = m + 1
          BY <2>7, <5>2
        <5> QED
          BY <5>1, <5>2
      <4> QED
        BY <2>5, <4>2
    <3>2. c[1] = 1 /\ c[m + 1] = (n + 1) + 1
      BY <1>7, <2>6, <2>7
    <3>3. ASSUME NEW j \in 1 .. m + 1, NEW k \in 1 .. m + 1, j < k PROVE c[j] < c[k]
      <4>1. j \in 1 .. m /\ c[j] = b[j] /\ b[j] \in 1 .. n + 1
        BY <1>7, <2>6, <3>3
      <4>2. CASE k = m + 1
        BY <2>7, <4>1, <4>2
      <4>3. CASE k \in 1 .. m
        BY <1>7, <2>6, <3>3, <4>1, <4>3
      <4> QED
        BY <4>2, <4>3
    <3>4. ASSUME NEW k \in 1 .. m PROVE Piece(o, all[k], c[k], c[k + 1])
      <4>1. CASE k = m
        <5>1. PICK a \in 1 .. n + 1 : a = b[m]
          BY <1>7
        <5>2. a <= n
          <6>1. b[m] < b[m + 1]
            BY <1>7
          <6> QED
            BY <1>7, <5>1, <6>1
        <5>3. Piece(o, acc.current, a, n + 1)
          <6>1. Piece(o, ses[m], b[m], b[m + 1])
            BY <1>7
          <6> QED
            BY <1>6, <1>7, <5>1, <6>1
        <5>4. Piece(o, cur, a, n + 2)
          <6>1. PICK l \in Nat : l = n + 1 - a /\ Len(acc.current) = l
            BY <5>2, <5>3 DEF Piece
          <6>2. Len(cur) = l + 1 /\ cur[l + 1] = e /\ \A i \in 1 .. l : cur[i] = acc.current[i]
            BY <1>3, <1>4, <2>1, <6>1
          <6>3. \A i \in 1 .. l : acc.current[i] = o[a + i - 1]
            BY <5>3, <6>1 DEF Piece
          <6>4. \A i \in 1 .. l + 1 : cur[i] = o[a + i - 1]
            <7> SUFFICES ASSUME NEW i \in 1 .. l + 1 PROVE cur[i] = o[a + i - 1]
              OBVIOUS
            <7>1. CASE i \in 1 .. l
              BY <6>2, <6>3, <7>1
            <7>2. CASE i = l + 1
              <8>1. a + i - 1 = n + 1
                BY <6>1, <7>2
              <8> QED
                BY <1>4, <6>2, <7>2, <8>1
            <7> QED
              BY <7>1, <7>2
          <6>5. (n + 2) - a = l + 1
            BY <6>1
          <6> QED
            BY <6>2, <6>4, <6>5 DEF Piece
        <5> QED
          BY <2>4, <2>6, <2>7, <4>1, <5>1, <5>4
      <4>2. CASE k \in 1 .. m - 1
        <5>1. k \in 1 .. m /\ k + 1 \in 1 .. m
          BY <4>2
        <5>2. c[k] = b[k] /\ c[k + 1] = b[k + 1]
          BY <2>6, <5>1
        <5>3. all[k] = ses[k]
          BY <2>4, <4>2
        <5> QED
          BY <1>7, <5>1, <5>2, <5>3
      <4> QED
        BY <4>1, <4>2
    <3>5. ASSUME NEW i \in 2 .. n + 1 PROVE Gapped(o, i) <=> \E k \in 1 .. m : c[k] = i
      <4>1. (\E k \in 1 .. m : c[k] = i) <=> \E k \in 1 .. m : b[k] = i
        BY <2>6
      <4>2. CASE i = n + 1
        <5>1. \A k \in 1 .. m : b[k] < b[m + 1]
          BY <1>7
        <5>2. ~ \E k \in 1 .. m : b[k] = i
          BY <1>7, <4>2, <5>1
        <5> QED
          BY <1>10, <4>1, <4>2, <5>2
      <4>3. CASE i \in 2 .. n
        BY <1>7, <4>1, <4>3
      <4> QED
        BY <4>2, <4>3
    <3> QED
      BY <3>1, <3>2, <3>3, <3>4, <3>5 DEF Cut
  <2>9. Len(new.sessions) = m - 1
    BY <1>2, <2>2
  <2> QED
    BY <2>2, <2>3, <2>8, <2>9 DEF Made
<1> QED
  BY <1>9, <1>10

\* f is what the loop makes of the first n events, turn by turn.
Turns(o, n, start, f) == f = [i \in 0 .. n |-> IF i = 0 THEN start ELSE Extended(f[i - 1], o[i])]

\* It makes something: it takes one turn after the other.
LEMMA LoopRuns ==
  ASSUME NEW o, NEW n \in Nat, NEW start
  PROVE  \E f : Turns(o, n, start, f)
<1> DEFINE Runs(f, k) == f = [i \in 0 .. k |-> IF i = 0 THEN start ELSE Extended(f[i - 1], o[i])]
<1> DEFINE T == {k \in Nat : ~ \E f : Runs(f, k)}
<1>1. 0 \notin T
  <2>1. PICK f : f = [i \in 0 .. 0 |-> start]
    OBVIOUS
  <2>2. Runs(f, 0)
    <3>1. \A i \in 0 .. 0 : i = 0
      OBVIOUS
    <3>2. [i \in 0 .. 0 |-> start] = [i \in 0 .. 0 |-> IF i = 0 THEN start ELSE Extended(f[i - 1], o[i])]
      BY <3>1
    <3> QED
      BY <2>1, <3>2
  <2> HIDE DEF Runs
  <2> QED
    BY <2>2
<1>2. ASSUME NEW k \in Nat, NEW f, Runs(f, k) PROVE \E g : Runs(g, k + 1)
  <2>1. PICK g : g = [i \in 0 .. k + 1 |-> IF i <= k THEN f[i] ELSE Extended(f[k], o[k + 1])]
    OBVIOUS
  <2>2. \A i \in 0 .. k : g[i] = f[i]
    BY <2>1
  <2>3. ASSUME NEW i \in 0 .. k + 1
        PROVE  g[i] = IF i = 0 THEN start ELSE Extended(g[i - 1], o[i])
    <3>1. CASE i \in 0 .. k
      <4>1. g[i] = f[i] /\ (i # 0 => g[i - 1] = f[i - 1])
        BY <2>2, <3>1
      <4>2. f[i] = IF i = 0 THEN start ELSE Extended(f[i - 1], o[i])
        BY <1>2, <3>1, Zenon
      <4> QED
        BY <4>1, <4>2
    <3>2. CASE i = k + 1
      <4>1. i # 0 /\ i - 1 = k /\ ~(i <= k) /\ k \in 0 .. k
        BY <3>2
      <4>2. g[i] = Extended(f[k], o[k + 1])
        BY <2>1, <4>1
      <4> QED
        BY <2>2, <3>2, <4>1, <4>2
    <3> QED
      BY <3>1, <3>2
  <2>4. g = [i \in 0 .. k + 1 |-> g[i]]
    BY <2>1
  <2>5. Runs(g, k + 1)
    BY <2>3, <2>4
  <2> HIDE DEF Runs
  <2> QED
    BY <2>5
<1> HIDE DEF Runs
<1>3. T = {}
  <2> SUFFICES ASSUME T # {} PROVE FALSE
    OBVIOUS
  <2>1. PICK k \in T : \A j \in T : k <= j
    <3>1. T \subseteq Nat
      OBVIOUS
    <3> QED
      BY <3>1, Least
  <2>2. k \in Nat /\ k # 0
    BY <1>1
  <2>3. PICK j \in Nat : j + 1 = k
    BY <2>2
  <2>4. j \notin T
    BY <2>1, <2>3
  <2>5. \E f : Runs(f, j)
    BY <2>4
  <2>6. \E g : Runs(g, k)
    BY <1>2, <2>3, <2>5
  <2> QED
    BY <2>6
<1>4. \E f : Runs(f, n)
  BY <1>3
<1> QED
  BY <1>4 DEF Runs, Turns

LEMMA SplitCuts ==
  ASSUME NEW o \in Seq(Event), NEW n \in Nat \ {0}, n = Len(o)
  PROVE  /\ Split(o) \in Seq(Seq(Event))
         /\ Len(Split(o)) # 0
         /\ \E b : Cut(o, n, Split(o), Len(Split(o)), b)
<1> DEFINE start == [sessions |-> <<>>, current |-> <<>>, last |-> o[1].time]
<1> DEFINE Runs(f) == f = [i \in 0 .. n |-> IF i = 0 THEN start ELSE Extended(f[i - 1], o[i])]
<1> DEFINE after == CHOOSE f : Runs(f)
<1>1. Split(o) = Append(after[n].sessions, after[n].current)
  BY DEF Split
<1>2. Runs(after)
  <2>1. \E f : Runs(f)
    <3>1. PICK f : Turns(o, n, start, f)
      <4> HIDE DEF start
      <4> QED
        BY LoopRuns
    <3>2. Runs(f)
      BY <3>1 DEF Turns
    <3> HIDE DEF Runs
    <3> QED
      BY <3>2
  <2> HIDE DEF Runs
  <2> QED
    BY <2>1
<1> HIDE DEF after
<1>3. after[0] = start
  BY <1>2
<1>4. ASSUME NEW i \in 1 .. n PROVE after[i] = Extended(after[i - 1], o[i])
  <2>1. i \in 0 .. n /\ i # 0
    OBVIOUS
  <2>2. after[i] = IF i = 0 THEN start ELSE Extended(after[i - 1], o[i])
    BY <1>2, <2>1, Zenon
  <2> QED
    BY <2>1, <2>2
<1> HIDE DEF Runs
<1> DEFINE T == {i \in 1 .. n : ~ Made(o, i, after[i])}
<1>5. 1 \notin T
  <2>1. 1 \in 1 .. n /\ 1 - 1 = 0 /\ o # <<>>
    OBVIOUS
  <2>2. after[1] = Extended(start, o[1])
    BY <1>3, <1>4, <2>1
  <2> QED
    BY <2>1, <2>2, FirstTurn
<1>6. T = {}
  <2> SUFFICES ASSUME T # {} PROVE FALSE
    OBVIOUS
  <2>1. PICK i \in T : \A j \in T : i <= j
    <3>1. T \subseteq Nat
      OBVIOUS
    <3> QED
      BY <3>1, Least
  <2>2. PICK k \in Nat \ {0} : k + 1 = i /\ k + 1 <= n
    BY <1>5, <2>1
  <2>3. Made(o, k, after[k])
    BY <2>1, <2>2
  <2>4. after[i] = Extended(after[k], o[k + 1])
    <3>1. i \in 1 .. n /\ i - 1 = k
      BY <2>2
    <3> QED
      BY <1>4, <2>2, <3>1
  <2>5. Made(o, k + 1, Extended(after[k], o[k + 1]))
    BY <2>2, <2>3, NextTurn
  <2> QED
    BY <2>2, <2>4, <2>5
<1>7. PICK acc : acc = after[n] /\ Made(o, n, acc)
  <2>1. n \in 1 .. n
    OBVIOUS
  <2> QED
    BY <1>6, <2>1
<1>8. PICK m \in Nat \ {0} :
         /\ Len(acc.sessions) = m - 1
         /\ \E b : Cut(o, n, Append(acc.sessions, acc.current), m, b)
  BY <1>7 DEF Made
<1>9. PICK b : Len(acc.sessions) = m - 1 /\ Cut(o, n, Append(acc.sessions, acc.current), m, b)
  BY <1>8
<1>10. acc.sessions \in Seq(Seq(Event)) /\ acc.current \in Seq(Event)
  BY <1>7 DEF Made, Loops
<1>11. Split(o) = Append(acc.sessions, acc.current)
  BY <1>1, <1>7
<1>12. Split(o) \in Seq(Seq(Event))
  BY <1>10, <1>11, NestedAppend
<1>13. Len(Split(o)) = m
  <2>1. \E S : acc.sessions \in Seq(S) /\ acc.current \in S
    BY <1>10
  <2> QED
    BY <1>9, <1>11, <2>1, Appended
<1> QED
  BY <1>9, <1>11, <1>12, <1>13

-----------------------------------------------------------------------------
(* The sessions of a list.                                                 *)

\* A session begins with the a-th event of o.
Begins(o, a) == a = 1 \/ a = Len(o) + 1 \/ (a \in 2 .. Len(o) /\ Gapped(o, a))

\* A session runs from the a-th event to the one before the c-th.
Session(o, a, c) ==
  /\ a \in 1 .. Len(o) /\ c \in 2 .. Len(o) + 1 /\ a < c
  /\ Begins(o, a) /\ Begins(o, c)
  /\ \A i \in a + 1 .. c - 1 : ~ Begins(o, i)

\* Where m pieces of n events in a row begin.
Blocks(n, m, b) ==
  /\ \A k \in 1 .. m : b[k] \in 1 .. n /\ b[k + 1] \in 2 .. n + 1 /\ b[k] < b[k + 1]
  /\ \A j, k \in 1 .. m : j < k => b[j + 1] <= b[k]
  /\ \A p \in 1 .. n : \E k \in 1 .. m : b[k] <= p /\ p < b[k + 1]

\* Every session is one of those that begin at b.
Listed(o, m, b) ==
  \A a, c \in 1 .. Len(o) + 1 : Session(o, a, c) => \E k \in 1 .. m : b[k] = a /\ b[k + 1] = c

\* What the loop makes are the sessions, in order.
LEMMA CutSessions ==
  ASSUME NEW o \in Seq(Event), NEW n \in Nat \ {0}, n = Len(o), NEW ses, NEW m \in Nat \ {0}, NEW b,
         Cut(o, n, ses, m, b)
  PROVE  /\ \A k \in 1 .. m : Session(o, b[k], b[k + 1]) /\ Piece(o, ses[k], b[k], b[k + 1])
         /\ Blocks(n, m, b)
         /\ Listed(o, m, b)
<1>1. /\ b \in [1 .. m + 1 -> 1 .. n + 1]
      /\ b[1] = 1 /\ b[m + 1] = n + 1
      /\ \A j, k \in 1 .. m + 1 : j < k => b[j] < b[k]
      /\ \A k \in 1 .. m : Piece(o, ses[k], b[k], b[k + 1])
      /\ \A i \in 2 .. n : Gapped(o, i) <=> \E k \in 1 .. m : b[k] = i
  BY DEF Cut
<1>2. ASSUME NEW i \in 1 .. n + 1 PROVE Begins(o, i) <=> \E k \in 1 .. m + 1 : b[k] = i
  <2>1. CASE i = 1
    <3>1. 1 \in 1 .. m + 1
      OBVIOUS
    <3> QED
      BY <1>1, <2>1, <3>1 DEF Begins
  <2>2. CASE i = n + 1
    <3>1. m + 1 \in 1 .. m + 1
      OBVIOUS
    <3> QED
      BY <1>1, <2>2, <3>1 DEF Begins
  <2>3. CASE i \in 2 .. n
    <3>1. \A k \in 1 .. m : k \in 1 .. m + 1
      OBVIOUS
    <3>2. ASSUME NEW k \in 1 .. m + 1 PROVE k \in 1 .. m \/ k = m + 1
      OBVIOUS
    <3>3. b[m + 1] # i
      BY <1>1, <2>3
    <3>4. (\E k \in 1 .. m : b[k] = i) <=> \E k \in 1 .. m + 1 : b[k] = i
      BY <3>1, <3>2, <3>3
    <3>5. Begins(o, i) <=> Gapped(o, i)
      BY <2>3 DEF Begins
    <3> QED
      BY <1>1, <2>3, <3>4, <3>5
  <2> QED
    BY <2>1, <2>2, <2>3
<1>3. ASSUME NEW k \in 1 .. m PROVE Session(o, b[k], b[k + 1])
  <2>1. k \in 1 .. m + 1 /\ k + 1 \in 1 .. m + 1 /\ k < k + 1
    OBVIOUS
  <2>2. PICK a \in 1 .. n + 1, c \in 1 .. n + 1 : a = b[k] /\ c = b[k + 1] /\ a < c
    BY <1>1, <2>1
  <2>3. Begins(o, a) /\ Begins(o, c)
    BY <1>2, <2>1, <2>2
  <2>4. ASSUME NEW i \in a + 1 .. c - 1 PROVE ~ Begins(o, i)
    <3> SUFFICES ASSUME Begins(o, i) PROVE FALSE
      OBVIOUS
    <3>1. i \in 1 .. n + 1
      OBVIOUS
    <3>2. PICK j \in 1 .. m + 1 : b[j] = i
      BY <1>2, <3>1
    <3>3. j < k => b[j] < b[k]
      BY <1>1, <2>1
    <3>4. k + 1 < j => b[k + 1] < b[j]
      BY <1>1, <2>1
    <3>5. j < k \/ j = k \/ j = k + 1 \/ k + 1 < j
      OBVIOUS
    <3> QED
      BY <2>2, <3>2, <3>3, <3>4, <3>5
  <2> QED
    BY <2>2, <2>3, <2>4 DEF Session
<1>4. ASSUME NEW a \in 1 .. n + 1, NEW c \in 1 .. n + 1, Session(o, a, c)
      PROVE  \E k \in 1 .. m : b[k] = a /\ b[k + 1] = c
  <2>1. PICK k \in 1 .. m + 1 : b[k] = a
    BY <1>2, <1>4 DEF Session
  <2>2. PICK l \in 1 .. m + 1 : b[l] = c
    BY <1>2, <1>4 DEF Session
  <2>3. a < c /\ \A i \in a + 1 .. c - 1 : ~ Begins(o, i)
    BY <1>4 DEF Session
  <2>4. k < l
    <3>1. l < k => b[l] < b[k]
      BY <1>1
    <3>2. l < k \/ l = k \/ k < l
      OBVIOUS
    <3> QED
      BY <2>1, <2>2, <2>3, <3>1, <3>2
  <2>5. l = k + 1
    <3> SUFFICES ASSUME k + 1 < l PROVE FALSE
      BY <2>4
    <3>1. PICK j \in 1 .. m + 1 : j = k + 1 /\ k < j /\ j < l
      OBVIOUS
    <3>2. b[j] \in 1 .. n + 1 /\ a < b[j] /\ b[j] < c
      BY <1>1, <2>1, <2>2, <3>1
    <3>3. Begins(o, b[j])
      BY <1>2, <3>2
    <3>4. b[j] \in a + 1 .. c - 1
      BY <3>2
    <3> QED
      BY <2>3, <3>3, <3>4
  <2> QED
    BY <2>1, <2>2, <2>4, <2>5
<1>5. ASSUME NEW j \in 1 .. m, NEW k \in 1 .. m, j < k PROVE b[j + 1] <= b[k]
  <2>1. j + 1 \in 1 .. m + 1 /\ k \in 1 .. m + 1
    OBVIOUS
  <2>2. b[j + 1] \in 1 .. n + 1 /\ b[k] \in 1 .. n + 1
    BY <1>1, <2>1
  <2>3. j + 1 < k => b[j + 1] < b[k]
    BY <1>1, <2>1
  <2>4. j + 1 = k \/ j + 1 < k
    BY <1>5
  <2> QED
    BY <2>2, <2>3, <2>4
<1>6. ASSUME NEW p \in 1 .. n PROVE \E k \in 1 .. m : b[k] <= p /\ p < b[k + 1]
  <2> DEFINE T == {k \in 1 .. m + 1 : p < b[k]}
  <2>1. m + 1 \in T
    BY <1>1
  <2>2. PICK l \in T : \A k \in T : l <= k
    <3>1. T \subseteq Nat /\ T # {}
      BY <2>1
    <3> HIDE DEF T
    <3> QED
      BY <3>1, Least
  <2>3. l # 1
    BY <1>1
  <2>4. PICK k \in 1 .. m : k + 1 = l
    BY <2>3
  <2>5. k \notin T /\ k \in 1 .. m + 1
    BY <2>2, <2>4
  <2>6. b[k] \in 1 .. n + 1 /\ ~(p < b[k])
    BY <1>1, <2>5
  <2> QED
    BY <2>4, <2>6
<1>7. Blocks(n, m, b)
  <2>1. ASSUME NEW k \in 1 .. m PROVE b[k] \in 1 .. n /\ b[k + 1] \in 2 .. n + 1 /\ b[k] < b[k + 1]
    BY <1>3 DEF Session
  <2> QED
    BY <1>5, <1>6, <2>1 DEF Blocks
<1>8. Listed(o, m, b)
  BY <1>4 DEF Listed
<1> QED
  BY <1>1, <1>3, <1>7, <1>8

\* The sessions of a list are those of its events in order.
LEMMA SessionsSplit ==
  ASSUME NEW evs \in Seq(Event), NEW n \in Nat \ {0}, n = Len(evs)
  PROVE  /\ SessionsOf(evs) \in Seq(Seq(Event)) /\ Len(SessionsOf(evs)) \in Nat \ {0}
         /\ \E b : Cut(Ordered(evs), n, SessionsOf(evs), Len(SessionsOf(evs)), b)
<1>1. evs # <<>>
  OBVIOUS
<1>2. SessionsOf(evs) = Split(Ordered(evs))
  BY <1>1 DEF SessionsOf
<1>3. PICK o \in Seq(Event) : o = Ordered(evs) /\ Len(o) = n
  BY OrderedIs
<1>4. /\ Split(o) \in Seq(Seq(Event))
      /\ Len(Split(o)) # 0
      /\ \E b : Cut(o, n, Split(o), Len(Split(o)), b)
  BY <1>3, SplitCuts
<1>5. Len(Split(o)) \in Nat \ {0}
  BY <1>4
<1> QED
  BY <1>2, <1>3, <1>4, <1>5

\* The events in order are those of the list.
LEMMA OrderedSet ==
  ASSUME NEW evs \in Seq(Event), NEW n \in Nat, n = Len(evs)
  PROVE  /\ ToSet(evs) = {evs[i] : i \in 1 .. n}
         /\ ToSet(evs) = {Ordered(evs)[i] : i \in 1 .. n}
         /\ TimesOf(evs) = {Ordered(evs)[i].time : i \in 1 .. n}
<1> DEFINE order == StableOrder(Moments(evs))
<1>1. Moments(evs) \in Seq(Int) /\ Len(Moments(evs)) = n
  BY EventType
<1>2. /\ order \in [1 .. n -> 1 .. n]
      /\ \A i \in 1 .. n : order[Place(Moments(evs), i)] = i
      /\ \A i \in 1 .. n : Place(Moments(evs), i) \in 1 .. n
  BY <1>1, StableOrderIs, Places
<1> HIDE DEF order
<1>3. \A k \in 1 .. n : Ordered(evs)[k] = evs[order[k]]
  BY OrderedIs DEF order
<1>4. ToSet(evs) = {evs[i] : i \in 1 .. n}
  BY DEF ToSet
<1>5. ASSUME NEW i \in 1 .. n PROVE \E k \in 1 .. n : evs[i] = Ordered(evs)[k]
  <2>1. PICK k \in 1 .. n : order[k] = i
    BY <1>2
  <2> QED
    BY <1>3, <2>1
<1>6. ASSUME NEW k \in 1 .. n PROVE \E i \in 1 .. n : evs[i] = Ordered(evs)[k]
  BY <1>2, <1>3
<1>7. ToSet(evs) = {Ordered(evs)[i] : i \in 1 .. n}
  <2>1. ASSUME NEW x \in ToSet(evs) PROVE x \in {Ordered(evs)[i] : i \in 1 .. n}
    <3>1. PICK i \in 1 .. n : x = evs[i]
      BY <1>4
    <3>2. PICK k \in 1 .. n : evs[i] = Ordered(evs)[k]
      BY <1>5
    <3> QED
      BY <3>1, <3>2
  <2>2. ASSUME NEW k \in 1 .. n PROVE Ordered(evs)[k] \in ToSet(evs)
    BY <1>4, <1>6
  <2> QED
    BY <2>1, <2>2
<1>8. TimesOf(evs) = {Ordered(evs)[i].time : i \in 1 .. n}
  BY <1>7 DEF TimesOf
<1> QED
  BY <1>4, <1>7, <1>8

\* Within a session the next event after a moment is less than a gap away.
LEMMA NextWithin ==
  ASSUME NEW o \in Seq(Event), NEW n \in Nat, n = Len(o), Ascending(o),
         NEW p \in 1 .. n, NEW q \in 1 .. n, NEW r \in 1 .. n,
         o[p].time <= o[r].time, o[r].time < o[q].time,
         \A i \in p + 1 .. q : ~ Begins(o, i)
  PROVE  \E i \in 1 .. n : o[i].time \in o[r].time + 1 .. o[r].time + Gap
<1>1. \A i \in 1 .. n : o[i].time \in Nat
  BY EventType
<1>2. PICK t \in Nat : t = o[r].time
  BY <1>1
<1> DEFINE T == {i \in 1 .. n : t < o[i].time}
<1>3. PICK i \in T : \A j \in T : i <= j
  <2>1. T \subseteq Nat /\ q \in T
    BY <1>2
  <2> HIDE DEF T
  <2> QED
    BY <2>1, Least
<1>4. i <= q
  BY <1>2, <1>3
<1>5. \A j, k \in 1 .. n : j <= k => o[j].time <= o[k].time
  BY DEF Ascending
<1>6. p < i
  <2>1. i <= p => o[i].time <= o[p].time
    BY <1>5
  <2>2. o[i].time \in Nat /\ o[p].time \in Nat
    BY <1>1
  <2> QED
    BY <1>2, <1>3, <2>1, <2>2
<1>7. PICK h \in 1 .. n : h + 1 = i
  <2>1. i \in 1 .. n /\ i - 1 \in 1 .. n
    BY <1>6
  <2> QED
    BY <2>1
<1>8. ~ Gapped(o, i)
  <2>1. i \in p + 1 .. q /\ i \in 2 .. n
    BY <1>4, <1>6
  <2> QED
    BY <2>1 DEF Begins
<1>9. o[h].time = t
  <2>1. o[h].time \in Nat /\ o[h].time <= t
    BY <1>1, <1>3, <1>7
  <2>2. r <= h
    <3>1. i <= r => o[i].time <= o[r].time
      BY <1>5
    <3>2. o[i].time \in Nat
      BY <1>1
    <3> QED
      BY <1>2, <1>3, <1>7, <3>1, <3>2
  <2>3. o[r].time <= o[h].time
    BY <1>5, <2>2
  <2> QED
    BY <1>2, <2>1, <2>3
<1>10. o[i].time \in Nat /\ o[i].time - t <= Gap
  <2>1. i - 1 = h /\ o[i].time \in Nat
    BY <1>1, <1>7
  <2>2. ~(o[i].time - o[h].time > Gap)
    BY <1>8, <2>1 DEF Gapped
  <2> QED
    BY <1>9, <2>1, <2>2, SessionsAssumption
<1> QED
  BY <1>2, <1>3, <1>10, SessionsAssumption

\* Across the beginning of a session events are apart.
LEMMA ApartAcross ==
  ASSUME NEW o \in Seq(Event), NEW n \in Nat, n = Len(o), Ascending(o),
         NEW p \in 1 .. n, NEW q \in 1 .. n, NEW i \in p + 1 .. q, Begins(o, i)
  PROVE  o[p].time + Gap < o[q].time
<1>1. PICK h \in 1 .. n : h + 1 = i
  OBVIOUS
<1>2. Gapped(o, i) /\ i \in 1 .. n /\ i - 1 = h
  BY <1>1 DEF Begins
<1>3. o[p].time <= o[h].time /\ o[i].time <= o[q].time
  BY <1>1, <1>2 DEF Ascending
<1>4. o[p].time \in Nat /\ o[h].time \in Nat /\ o[i].time \in Nat /\ o[q].time \in Nat
  <2>1. \A j \in 1 .. n : o[j].time \in Nat
    BY EventType
  <2> QED
    BY <1>2, <2>1
<1>5. o[i].time - o[h].time > Gap
  BY <1>2 DEF Gapped
<1> QED
  BY <1>3, <1>4, <1>5, SessionsAssumption

-----------------------------------------------------------------------------
(* Sessions are runs.                                                      *)

\* Its events happen when those of o happen from the a-th up to the one before the c-th.
Within(o, s, a, c) == \A x \in TimesOf(s) : \E p \in a .. c - 1 : x = o[p].time

LEMMA MomentOf ==
  ASSUME NEW o, NEW s, NEW a \in Nat \ {0}, NEW c \in Nat, Piece(o, s, a, c)
  PROVE  Within(o, s, a, c)
<1> SUFFICES ASSUME NEW x \in TimesOf(s) PROVE \E p \in a .. c - 1 : x = o[p].time
  BY DEF Within
<1>1. PICK l \in Nat : l = c - a /\ Len(s) = l
  BY DEF Piece
<1>2. ToSet(s) = {s[i] : i \in 1 .. l}
  BY <1>1 DEF ToSet, Piece
<1>3. PICK i \in 1 .. l : x = s[i].time
  BY <1>2 DEF TimesOf
<1>4. s[i] = o[a + i - 1] /\ a + i - 1 \in a .. c - 1
  BY <1>1, <1>3 DEF Piece
<1> QED
  BY <1>3, <1>4

LEMMA ApartSymmetric == \A x, y : Apart(x, y) <=> Apart(y, x)
  BY DEF Apart

\* Cutting a list in order into pieces keeps the number of every event.
LEMMA PiecesCount ==
  ASSUME NEW evs \in Seq(Event), NEW n \in Nat, n = Len(evs), NEW o, o = Ordered(evs), NEW e,
         NEW ses, NEW m \in Nat, m = Len(ses), NEW b,
         Blocks(n, m, b), \A k \in 1 .. m : Piece(o, ses[k], b[k], b[k + 1])
  PROVE  InSessions(ses, e) = Cardinality({i \in 1 .. n : evs[i] = e})
<1> DEFINE A == UNION {{<<k, i>> : i \in {l \in 1 .. Len(ses[k]) : ses[k][l] = e}} : k \in 1 .. Len(ses)}
<1> DEFINE B == {i \in 1 .. n : evs[i] = e}
<1> DEFINE order == StableOrder(Moments(evs))
<1>1. InSessions(ses, e) = Cardinality(A)
  BY DEF InSessions
<1>2. Moments(evs) \in Seq(Int) /\ Len(Moments(evs)) = n
  BY EventType
<1>3. /\ order \in [1 .. n -> 1 .. n]
      /\ \A i \in 1 .. n : order[Place(Moments(evs), i)] = i
      /\ \A i \in 1 .. n : Place(Moments(evs), i) \in 1 .. n
      /\ \A k \in 1 .. n : Place(Moments(evs), order[k]) = k
  BY <1>2, StableOrderIs, Places
<1>4. \A k \in 1 .. n : o[k] = evs[order[k]]
  BY OrderedIs
<1> HIDE DEF order
<1>5. /\ \A k \in 1 .. m : b[k] \in 1 .. n /\ b[k + 1] \in 2 .. n + 1 /\ b[k] < b[k + 1]
      /\ \A j, k \in 1 .. m : j < k => b[j + 1] <= b[k]
      /\ \A p \in 1 .. n : \E k \in 1 .. m : b[k] <= p /\ p < b[k + 1]
  BY DEF Blocks
<1>6. ASSUME NEW z \in A
      PROVE  \E k \in 1 .. m, i \in Nat \ {0} :
                z = <<k, i>> /\ i <= b[k + 1] - b[k] /\ ses[k][i] = e /\ o[b[k] + i - 1] = e
  <2>1. PICK k \in 1 .. m : \E i \in 1 .. Len(ses[k]) : z = <<k, i>> /\ ses[k][i] = e
    OBVIOUS
  <2>2. Len(ses[k]) = b[k + 1] - b[k] /\ \A l \in 1 .. b[k + 1] - b[k] : ses[k][l] = o[b[k] + l - 1]
    BY DEF Piece
  <2>3. b[k] \in Nat /\ b[k + 1] \in Nat
    BY <1>5
  <2>4. PICK i \in 1 .. b[k + 1] - b[k] : z = <<k, i>> /\ ses[k][i] = e
    BY <2>1, <2>2
  <2>5. i \in Nat \ {0} /\ i <= b[k + 1] - b[k]
    BY <2>3
  <2>6. o[b[k] + i - 1] = e
    BY <2>2, <2>4
  <2> QED
    BY <2>4, <2>5, <2>6, Zenon
<1>7. ASSUME NEW k \in 1 .. m, NEW i \in 1 .. b[k + 1] - b[k], o[b[k] + i - 1] = e
      PROVE  <<k, i>> \in A
  <2>1. Len(ses[k]) = b[k + 1] - b[k] /\ \A l \in 1 .. b[k + 1] - b[k] : ses[k][l] = o[b[k] + l - 1]
    BY DEF Piece
  <2>2. i \in {l \in 1 .. Len(ses[k]) : ses[k][l] = e}
    BY <1>7, <2>1
  <2> QED
    BY <2>2
<1> HIDE DEF A
<1> DEFINE f == [z \in A |-> order[b[z[1]] + z[2] - 1]]
<1>8. ASSUME NEW z \in A
      PROVE  /\ f[z] \in B
             /\ b[z[1]] + z[2] - 1 \in 1 .. n
  <2>1. PICK k \in 1 .. m, i \in Nat \ {0} :
           z = <<k, i>> /\ i <= b[k + 1] - b[k] /\ o[b[k] + i - 1] = e
    BY <1>6
  <2>2. PICK p \in 1 .. n : p = b[k] + i - 1
    <3>1. b[k] \in 1 .. n /\ b[k + 1] \in 2 .. n + 1
      BY <1>5
    <3>2. \A u \in 1 .. n, v \in 2 .. n + 1 : i <= v - u => u + i - 1 \in 1 .. n
      OBVIOUS
    <3>3. b[k] + i - 1 \in 1 .. n
      BY <2>1, <3>1, <3>2
    <3> QED
      BY <3>3
  <2>3. f[z] = order[p] /\ p = b[z[1]] + z[2] - 1
    BY <2>1, <2>2
  <2>4. evs[order[p]] = e /\ order[p] \in 1 .. n
    BY <1>3, <1>4, <2>1, <2>2
  <2> QED
    BY <2>3, <2>4
<1>9. ASSUME NEW y \in A, NEW z \in A, f[y] = f[z] PROVE y = z
  <2>1. PICK p \in 1 .. n, q \in 1 .. n : p = b[y[1]] + y[2] - 1 /\ q = b[z[1]] + z[2] - 1
    BY <1>8
  <2>2. order[p] = order[q]
    BY <1>9, <2>1
  <2>3. p = q
    BY <1>3, <2>2
  <2>4. PICK j \in 1 .. m, i \in Nat \ {0} : y = <<j, i>> /\ i <= b[j + 1] - b[j]
    BY <1>6
  <2>5. PICK k \in 1 .. m, l \in Nat \ {0} : z = <<k, l>> /\ l <= b[k + 1] - b[k]
    BY <1>6
  <2>6. b[j] + i - 1 = b[k] + l - 1
    BY <2>1, <2>3, <2>4, <2>5
  <2>7. b[j] \in 1 .. n /\ b[j + 1] \in 2 .. n + 1
    BY <1>5
  <2>8. b[k] \in 1 .. n /\ b[k + 1] \in 2 .. n + 1
    BY <1>5
  <2>9. (j < k => b[j + 1] <= b[k]) /\ (k < j => b[k + 1] <= b[j])
    BY <1>5
  <2>10. PICK u \in Nat, v \in Nat, w \in Nat, x \in Nat :
            u = b[j] /\ v = b[j + 1] /\ w = b[k] /\ x = b[k + 1]
    <3>1. b[j] \in Nat /\ b[j + 1] \in Nat
      BY <2>7
    <3>2. b[k] \in Nat /\ b[k + 1] \in Nat
      BY <2>8
    <3> QED
      BY <3>1, <3>2
  <2>11. u + i = w + l /\ i <= v - u /\ l <= x - w
    <3>1. u + i - 1 = w + l - 1
      BY <2>6, <2>10
    <3>2. i <= v - u
      BY <2>4, <2>10
    <3>3. l <= x - w
      BY <2>5, <2>10
    <3> QED
      BY <3>1, <3>2, <3>3
  <2>12. j = k
    <3>1. j < k => v <= w
      BY <2>9, <2>10
    <3>2. k < j => x <= u
      BY <2>9, <2>10
    <3> QED
      BY <2>11, <3>1, <3>2
  <2>13. i = l
    BY <2>10, <2>11, <2>12
  <2> QED
    BY <2>4, <2>5, <2>12, <2>13
<1>10. ASSUME NEW i \in B PROVE \E z \in A : f[z] = i
  <2>1. PICK p \in 1 .. n : p = Place(Moments(evs), i) /\ order[p] = i
    BY <1>3
  <2>2. PICK k \in 1 .. m : b[k] <= p /\ p < b[k + 1]
    BY <1>5
  <2>3. b[k] \in 1 .. n /\ b[k + 1] \in 2 .. n + 1
    BY <1>5
  <2>4. PICK l \in 1 .. b[k + 1] - b[k] : p = b[k] + l - 1
    <3>1. PICK u \in Nat, v \in Nat : u = b[k] /\ v = b[k + 1]
      BY <2>3
    <3>2. u <= p /\ p < v
      BY <2>2, <3>1
    <3>3. PICK l \in Nat : l = p - u + 1
      BY <3>2
    <3>4. l \in 1 .. v - u /\ p = u + l - 1
      BY <3>2, <3>3
    <3> QED
      BY <3>1, <3>4
  <2>5. o[p] = e
    BY <1>4, <2>1
  <2>6. <<k, l>> \in A
    BY <1>7, <2>4, <2>5
  <2>7. f[<<k, l>>] = i
    BY <2>1, <2>4, <2>6
  <2> QED
    BY <2>6, <2>7
<1>11. IsFiniteSet(B)
  <2>1. 1 \in Int /\ n \in Int
    OBVIOUS
  <2>2. IsFiniteSet(1 .. n)
    BY <2>1, FS_Interval
  <2>3. B \in SUBSET (1 .. n)
    OBVIOUS
  <2> HIDE DEF B
  <2> QED
    BY <2>2, <2>3, FS_Subset
<1>12. f \in [A -> B]
  BY <1>8
<1> HIDE DEF f, B
<1>13. f \in Injection(A, B)
  BY <1>9, <1>12 DEF Injection, IsInjective
<1>14. f \in Surjection(A, B)
  BY <1>10, <1>12 DEF Surjection
<1>15. Cardinality(A) = Cardinality(B)
  BY <1>11, <1>13, <1>14, FS_Injection
<1> QED
  BY <1>1, <1>15 DEF B

LEMMA RunsFollow ==
  ASSUME events \in Seq(Event)
  PROVE  SessionsAreRuns
<1>1. CASE events = <<>>
  <2>1. SessionsOf(events) = <<>>
    BY <1>1 DEF SessionsOf
  <2>2. ToSet(<<>>) = {}
    BY DEF ToSet
  <2>3. \A i \in 1 .. Len(<<>>) : FALSE
    OBVIOUS
  <2> QED
    BY <1>1, <2>1, <2>2, <2>3 DEF SessionsAreRuns
<1>2. CASE events # <<>>
  <2>1. PICK n \in Nat \ {0} : n = Len(events)
    BY <1>2
  <2>2. PICK o \in Seq(Event) : o = Ordered(events) /\ Len(o) = n /\ Ascending(o)
    BY <2>1, OrderedIs
  <2>3. PICK ses \in Seq(Seq(Event)), m \in Nat \ {0} :
           ses = SessionsOf(events) /\ Len(ses) = m /\ \E b : Cut(o, n, ses, m, b)
    BY <2>1, <2>2, SessionsSplit
  <2>4. PICK b : ses = SessionsOf(events) /\ Len(ses) = m /\ Cut(o, n, ses, m, b)
    BY <2>3
  <2>5. /\ \A k \in 1 .. m : Session(o, b[k], b[k + 1]) /\ Piece(o, ses[k], b[k], b[k + 1])
        /\ Blocks(n, m, b)
    BY <2>2, <2>4, CutSessions
  <2>6. /\ \A k \in 1 .. m : b[k] \in 1 .. n /\ b[k + 1] \in 2 .. n + 1 /\ b[k] < b[k + 1]
        /\ \A j, k \in 1 .. m : j < k => b[j + 1] <= b[k]
    BY <2>5 DEF Blocks
  <2>7. ToSet(ses) = {ses[k] : k \in 1 .. m}
    <3>1. DOMAIN ses = 1 .. m
      BY <2>4
    <3> QED
      BY <3>1 DEF ToSet
  <2>8. /\ ToSet(events) = {o[i] : i \in 1 .. n}
        /\ TimesOf(events) = {o[i].time : i \in 1 .. n}
    <3>1. /\ ToSet(events) = {Ordered(events)[i] : i \in 1 .. n}
          /\ TimesOf(events) = {Ordered(events)[i].time : i \in 1 .. n}
      BY <2>1, OrderedSet
    <3> QED
      BY <2>2, <3>1
  <2>9. \A i \in 1 .. n : o[i].time \in Nat
    BY <2>2, EventType
  <2>10. ASSUME NEW s \in ToSet(ses), NEW x \in TimesOf(s), NEW y \in TimesOf(s),
               NEW t \in TimesOf(events) \cap (x .. y - 1)
        PROVE  TimesOf(events) \cap (t + 1 .. t + Gap) # {}
    <3>1. PICK k \in 1 .. m : s = ses[k]
      BY <2>7
    <3>2. PICK a \in 1 .. n, c \in 2 .. n + 1 :
             a = b[k] /\ c = b[k + 1] /\ Piece(o, s, a, c) /\ Session(o, a, c)
      BY <2>5, <2>6, <3>1
    <3>3. a \in Nat \ {0} /\ c \in Nat
      OBVIOUS
    <3>4. Within(o, s, a, c)
      BY <3>2, <3>3, MomentOf
    <3>5. PICK p \in a .. c - 1 : x = o[p].time
      BY <3>4 DEF Within
    <3>6. PICK q \in a .. c - 1 : y = o[q].time
      BY <3>4 DEF Within
    <3>7. x = o[p].time /\ y = o[q].time
      BY <3>5, <3>6
    <3>8. p \in 1 .. n /\ q \in 1 .. n
      OBVIOUS
    <3>9. PICK r \in 1 .. n : t = o[r].time
      BY <2>8
    <3>10. \A i \in p + 1 .. q : ~ Begins(o, i)
      <4>1. \A i \in a + 1 .. c - 1 : ~ Begins(o, i)
        BY <3>2 DEF Session
      <4>2. \A i \in p + 1 .. q : i \in a + 1 .. c - 1
        BY <3>7
      <4> QED
        BY <4>1, <4>2
    <3>11. x \in Nat /\ y \in Nat
      BY <2>9, <3>7, <3>8
    <3>12. x <= t /\ t < y
      <4>1. t \in x .. y - 1
        OBVIOUS
      <4> QED
        BY <3>11, <4>1
    <3>13. PICK i \in 1 .. n : o[i].time \in t + 1 .. t + Gap
      BY <2>2, <3>7, <3>8, <3>9, <3>10, <3>12, NextWithin
    <3> QED
      BY <2>8, <3>13
  <2>11. ASSUME NEW j \in 1 .. m, NEW k \in 1 .. m, j < k,
                NEW x \in TimesOf(ses[j]), NEW y \in TimesOf(ses[k])
         PROVE  Apart(x, y)
    <3>1. PICK g \in 1 .. n, h \in 2 .. n + 1 : g = b[j] /\ h = b[j + 1] /\ Piece(o, ses[j], g, h)
      BY <2>5, <2>6
    <3>2. PICK i \in 1 .. n, c \in 2 .. n + 1 : i = b[k] /\ c = b[k + 1] /\ Piece(o, ses[k], i, c)
      BY <2>5, <2>6
    <3>3. g \in Nat \ {0} /\ h \in Nat /\ i \in Nat \ {0} /\ c \in Nat
      OBVIOUS
    <3>4. Within(o, ses[j], g, h)
      BY <3>1, <3>3, MomentOf
    <3>5. PICK p \in g .. h - 1 : x = o[p].time
      BY <2>11, <3>4 DEF Within
    <3>6. Within(o, ses[k], i, c)
      BY <3>2, <3>3, MomentOf
    <3>7. PICK q \in i .. c - 1 : y = o[q].time
      BY <2>11, <3>6 DEF Within
    <3>8. Begins(o, i)
      BY <2>5, <3>2 DEF Session
    <3>9. h <= i
      BY <2>6, <2>11, <3>2, <3>1
    <3>10. p \in 1 .. n /\ q \in 1 .. n /\ i \in p + 1 .. q
      BY <3>9
    <3>11. x + Gap < y
      BY <2>2, <3>5, <3>7, <3>8, <3>10, ApartAcross
    <3> QED
      BY <3>11 DEF Apart
  <2>12. ASSUME NEW j \in 1 .. m, NEW k \in 1 .. m, j # k,
                NEW x \in TimesOf(ses[j]), NEW y \in TimesOf(ses[k])
         PROVE  Apart(x, y)
    <3>1. j < k \/ k < j
      BY <2>12
    <3>2. CASE j < k
      BY <2>11, <3>2
    <3>3. CASE k < j
      <4>1. Apart(y, x)
        BY <2>11, <3>3
      <4> QED
        BY <4>1, ApartSymmetric
    <3> QED
      BY <3>1, <3>2, <3>3
  <2>13. ASSUME NEW s \in ToSet(ses) PROVE ToSet(s) \subseteq ToSet(events)
    <3>1. PICK k \in 1 .. m : s = ses[k]
      BY <2>7
    <3>2. PICK a \in 1 .. n, c \in 2 .. n + 1 : a < c /\ Piece(o, s, a, c)
      BY <2>5, <2>6, <3>1
    <3>3. ASSUME NEW e \in ToSet(s) PROVE e \in ToSet(events)
      <4>1. PICK l \in Nat : l = c - a /\ Len(s) = l
        BY <3>2
        DEF Piece
      <4>2. ToSet(s) = {s[i] : i \in 1 .. l}
        BY <3>2, <4>1 DEF ToSet, Piece
      <4>3. PICK i \in 1 .. l : e = s[i]
        BY <4>2
      <4>4. a + i - 1 \in 1 .. n
        BY <3>2, <4>1
      <4>5. e = o[a + i - 1]
        <5>1. \A h \in 1 .. c - a : s[h] = o[a + h - 1]
          BY <3>2 DEF Piece
        <5> QED
          BY <4>1, <4>3, <5>1
      <4> QED
        BY <2>8, <4>4, <4>5
    <3> QED
      BY <3>3
  <2>14. ASSUME NEW e \in ToSet(events)
         PROVE  InSessions(ses, e) = Cardinality({i \in 1 .. n : events[i] = e})
    <3>1. Blocks(n, m, b) /\ \A k \in 1 .. m : Piece(o, ses[k], b[k], b[k + 1])
      BY <2>5
    <3>2. n \in Nat /\ m \in Nat /\ m = Len(ses) /\ n = Len(events) /\ o = Ordered(events)
      BY <2>1, <2>2, <2>4
    <3> QED
      BY <3>1, <3>2, PiecesCount, SMTT(30)
  <2> QED
    BY <2>1, <2>4, <2>10, <2>12, <2>13, <2>14 DEF SessionsAreRuns
<1> QED
  BY <1>1, <1>2

LEMMA EventsStart == SessionsInit => events \in Seq(Event)
  BY DEF SessionsInit

LEMMA EventsArrive ==
  ASSUME events \in Seq(Event), [SessionsNext]_sessionsVars
  PROVE  (events \in Seq(Event))'
<1>1. CASE SessionsNext
  <2>1. PICK e \in Event : events' = Append(events, e)
    BY <1>1 DEF SessionsNext, Arrive
  <2> QED
    BY <2>1
<1>2. CASE UNCHANGED sessionsVars
  BY <1>2 DEF sessionsVars
<1> QED
  BY <1>1, <1>2

LEMMA EventsListed == SessionsSpec => [](events \in Seq(Event))
  BY EventsStart, EventsArrive, PTL DEF SessionsSpec

\* The sequences are the runs of events without a gap, whatever order the events
\* arrive in: the loop over the sorted list loses, repeats and misplaces none.
THEOREM SessionsFollowGaps == SessionsSpec => []SessionsAreRuns
  BY EventsListed, RunsFollow, PTL

-----------------------------------------------------------------------------
(* The index of the event types.                                           *)

\* index tells the types of evs apart, and from the padding.
Distinguishes(evs, index) ==
  /\ \A k \in 1 .. Len(evs) : evs[k].type \in DOMAIN index
  /\ \A t \in DOMAIN index : index[t] \in Nat \ {0}
  /\ \A t, u \in DOMAIN index : index[t] = index[u] => t = u

\* The types that occur are numbered on from 1, in their order.
LEMMA NumberedOn ==
  ASSUME NEW evs, NEW N \in Nat, N = Len(NewTypes)
  PROVE  /\ \A i \in Unseen(evs) : UpToType(evs, NewTypes[i]) \in Nat \ {0}
         /\ \A i, j \in Unseen(evs) :
               i < j => UpToType(evs, NewTypes[i]) < UpToType(evs, NewTypes[j])
<1> DEFINE U == Unseen(evs)
<1> DEFINE P(i) == {h \in U : h <= i}
<1>1. U \in SUBSET (1 .. N)
  BY DEF Unseen
<1>2. IsFiniteSet(U)
  <2>1. 1 \in Int /\ N \in Int
    OBVIOUS
  <2>2. IsFiniteSet(1 .. N)
    BY <2>1, FS_Interval
  <2> QED
    BY <1>1, <2>2, FS_Subset
<1> HIDE DEF U
<1>3. ASSUME NEW i \in U PROVE UpToType(evs, NewTypes[i]) = Cardinality(P(i))
  <2>1. ASSUME NEW h \in U
        PROVE  (\E j \in h .. N : NewTypes[j] = NewTypes[i]) <=> h <= i
    <3>1. h \in 1 .. N /\ i \in 1 .. N
      BY <1>1
    <3>2. \A j \in h .. N : NewTypes[j] = NewTypes[i] => j = i
      <4>1. \A j \in h .. N : j \in 1 .. N
        BY <3>1
      <4> QED
        BY <3>1, <4>1, NewTypesAssumption
    <3> QED
      BY <3>1, <3>2
  <2>2. {h \in U : \E j \in h .. N : NewTypes[j] = NewTypes[i]} = P(i)
    BY <2>1
  <2> QED
    BY <2>2 DEF UpToType, U
<1>4. ASSUME NEW i \in U
      PROVE  IsFiniteSet(P(i)) /\ Cardinality(P(i)) \in Nat \ {0}
  <2>1. P(i) \in SUBSET U /\ i \in P(i)
    BY <1>1
  <2> HIDE DEF P
  <2>2. IsFiniteSet(P(i))
    BY <1>2, <2>1, FS_Subset
  <2>3. Cardinality(P(i)) \in Nat
    BY <2>2, FS_CardinalityType
  <2>4. Cardinality(P(i)) # 0
    BY <2>1, <2>2, FS_EmptySet
  <2> QED
    BY <2>2, <2>3, <2>4
<1>5. ASSUME NEW i \in U, NEW j \in U, i < j PROVE Cardinality(P(i)) < Cardinality(P(j))
  <2>1. i \in Int /\ j \in Int /\ \A h \in U : h \in Int
    BY <1>1
  <2>2. \A h \in U : h <= i => h <= j
    BY <1>5, <2>1
  <2>3. j <= j /\ ~(j <= i)
    BY <1>5, <2>1
  <2>4. P(i) \in SUBSET P(j) /\ j \in P(j) /\ j \notin P(i)
    BY <2>2, <2>3, Zenon
  <2> HIDE DEF P
  <2>5. Cardinality(P(i)) <= Cardinality(P(j)) /\ Cardinality(P(i)) # Cardinality(P(j))
    BY <1>4, <2>4, FS_Subset
  <2> QED
    BY <1>4, <2>5
<1> HIDE DEF P
<1> QED
  BY <1>3, <1>4, <1>5 DEF U

LEMMA IndexDistinguishes ==
  ASSUME NEW evs \in Seq(Event)
  PROVE  Distinguishes(evs, EventIndex(evs))
<1> DEFINE B == {"unknown", "auth", "network", "file"}
<1> DEFINE U == Unseen(evs)
<1> DEFINE index == EventIndex(evs)
<1>1. PICK N \in Nat : N = Len(NewTypes)
  BY NewTypesAssumption
<1>2. DOMAIN BaseEventIndex = B
  BY DEF BaseEventIndex
<1>3. U = {i \in 1 .. N : \E k \in 1 .. Len(evs) : evs[k].type = NewTypes[i]}
  BY <1>1 DEF Unseen
<1> HIDE DEF U
<1>4. /\ \A i \in U : UpToType(evs, NewTypes[i]) \in Nat \ {0}
      /\ \A i, j \in U : i < j => UpToType(evs, NewTypes[i]) < UpToType(evs, NewTypes[j])
  BY <1>1, NumberedOn DEF U
<1>5. DOMAIN index = B \cup {NewTypes[i] : i \in U}
  BY <1>2 DEF EventIndex, U
<1>6. \A i \in U : i \in 1 .. N /\ NewTypes[i] \notin B
  BY <1>1, <1>3, NewTypesAssumption
<1>7. /\ index["unknown"] = 1 /\ index["auth"] = 2
      /\ index["network"] = 3 /\ index["file"] = 4
  BY <1>2 DEF EventIndex, BaseEventIndex
<1>8. ASSUME NEW i \in U PROVE index[NewTypes[i]] = 4 + UpToType(evs, NewTypes[i])
  BY <1>2, <1>6 DEF EventIndex, U
<1> HIDE DEF index
<1>9. ASSUME NEW t \in DOMAIN index
      PROVE  index[t] \in Nat \ {0} /\ (t \in B <=> index[t] <= 4)
  <2>1. CASE t \in B
    BY <1>7, <2>1
  <2>2. CASE t \notin B
    <3>1. PICK i \in U : t = NewTypes[i]
      BY <1>5, <2>2
    <3>2. PICK c \in Nat \ {0} : c = UpToType(evs, NewTypes[i])
      BY <1>4
    <3>3. index[t] = 4 + c
      BY <1>8, <3>1, <3>2
    <3> QED
      BY <2>2, <3>3
  <2> QED
    BY <2>1, <2>2
<1>10. ASSUME NEW t \in DOMAIN index, NEW u \in DOMAIN index, index[t] = index[u]
       PROVE  t = u
  <2>1. CASE t \in B
    <3>1. u \in B
      BY <1>9, <1>10, <2>1
    <3> QED
      BY <1>7, <1>10, <2>1, <3>1
  <2>2. CASE t \notin B
    <3>1. u \notin B
      BY <1>9, <1>10, <2>2
    <3>2. PICK i \in U : t = NewTypes[i]
      BY <1>5, <2>2
    <3>3. PICK j \in U : u = NewTypes[j]
      BY <1>5, <3>1
    <3>4. PICK c \in Nat, d \in Nat : c = UpToType(evs, t) /\ d = UpToType(evs, u)
      BY <1>4, <3>2, <3>3
    <3>5. c = d
      BY <1>8, <1>10, <3>2, <3>3, <3>4
    <3>6. (i < j => c < d) /\ (j < i => d < c)
      BY <1>4, <3>2, <3>3, <3>4
    <3>7. i \in 1 .. N /\ j \in 1 .. N
      BY <1>6
    <3> QED
      BY <3>2, <3>3, <3>5, <3>6, <3>7
  <2> QED
    BY <2>1, <2>2
<1>11. ASSUME NEW k \in 1 .. Len(evs) PROVE evs[k].type \in DOMAIN index
  <2>1. PICK t : t = evs[k].type /\ t \in Type
    <3>1. evs[k] \in Event
      OBVIOUS
    <3> QED
      BY <3>1 DEF Event
  <2>2. CASE t \in KnownTypes
    BY <1>5, <2>1, <2>2, TypesAssumption
  <2>3. CASE t \in ToSet(NewTypes)
    <3>1. PICK i \in 1 .. N : t = NewTypes[i]
      <4>1. DOMAIN NewTypes = 1 .. N
        BY <1>1, NewTypesAssumption
      <4> QED
        BY <2>3, <4>1 DEF ToSet
    <3>2. i \in U
      BY <1>3, <2>1, <3>1
    <3> QED
      BY <1>5, <2>1, <3>1, <3>2
  <2> QED
    BY <2>1, <2>2, <2>3 DEF Type
<1> QED
  BY <1>9, <1>10, <1>11 DEF Distinguishes, index

LEMMA RowsFollow ==
  ASSUME events \in Seq(Event)
  PROVE  RowsDecodable
<1>1. PICK n \in Nat : n = Len(events)
  OBVIOUS
<1>2. PICK index : index = EventIndex(events) /\ Distinguishes(events, index)
  BY IndexDistinguishes
<1>3. PICK ses \in Seq(Seq(Event)) : ses = SessionsOf(events)
  <2>1. CASE events = <<>>
    <3>1. SessionsOf(events) = <<>>
      BY <2>1 DEF SessionsOf
    <3>2. <<>> \in Seq(Seq(Event))
      OBVIOUS
    <3> QED
      BY <3>1, <3>2
  <2>2. CASE events # <<>>
    <3>1. n \in Nat \ {0}
      BY <1>1, <2>2
    <3> QED
      BY <1>1, <3>1, SessionsSplit
  <2> QED
    BY <2>1, <2>2
<1>4. PICK m \in Nat : m = Len(ses)
  OBVIOUS
<1>5. \A k \in 1 .. m : ses[k] \in Seq(Event)
  BY <1>4
<1>6. ASSUME NEW k \in 1 .. m, NEW i \in 1 .. Len(ses[k])
      PROVE  ses[k][i].type \in DOMAIN index
  <2>1. ses[k] \in ToSet(ses)
    <3>1. k \in DOMAIN ses
      BY <1>4
    <3> QED
      BY <3>1 DEF ToSet
  <2>2. ToSet(ses[k]) \subseteq ToSet(events)
    BY <1>3, <2>1, RunsFollow DEF SessionsAreRuns
  <2>3. ses[k][i] \in ToSet(ses[k])
    <3>1. i \in DOMAIN ses[k]
      BY <1>5
    <3> QED
      BY <3>1 DEF ToSet
  <2>4. PICK h \in 1 .. n : ses[k][i] = events[h]
    <3>1. DOMAIN events = 1 .. n
      BY <1>1
    <3> QED
      BY <2>2, <2>3, <3>1 DEF ToSet
  <2> QED
    BY <1>1, <1>2, <2>4 DEF Distinguishes
<1>7. PICK rs : rs = Rows(events)
  OBVIOUS
<1>8. /\ Len(rs) = m
      /\ \A k \in 1 .. m :
            rs[k] = PadOrTruncate([i \in 1 .. Len(ses[k]) |-> index[ses[k][i].type]])
  BY <1>2, <1>3, <1>4, <1>7 DEF Rows
<1>9. ASSUME NEW k \in 1 .. m
      PROVE  /\ Len(rs[k]) = MaxLen
             /\ \A i \in 1 .. MaxLen :
                   rs[k][i] = IF i <= Len(ses[k]) THEN index[ses[k][i].type] ELSE PadIndex
  <2>1. PICK l \in Nat : l = Len(ses[k])
    BY <1>5
  <2>2. PICK tokens : tokens = [i \in 1 .. l |-> index[ses[k][i].type]]
    OBVIOUS
  <2>3. Len(tokens) = l
    BY <2>2
  <2>4. rs[k] = [i \in 1 .. MaxLen |-> IF i <= l THEN tokens[i] ELSE PadIndex]
    <3>1. rs[k] = PadOrTruncate(tokens)
      BY <1>8, <2>1, <2>2, Zenon
    <3>2. PadOrTruncate(tokens) = [i \in 1 .. MaxLen |-> IF i <= l THEN tokens[i] ELSE PadIndex]
      BY <2>3, Zenon DEF PadOrTruncate
    <3> QED
      BY <3>1, <3>2
  <2>5. Len(rs[k]) = MaxLen
    BY <2>4, SessionsAssumption
  <2>6. ASSUME NEW i \in 1 .. MaxLen
        PROVE  rs[k][i] = IF i <= l THEN index[ses[k][i].type] ELSE PadIndex
    BY <2>2, <2>4, SessionsAssumption
  <2> QED
    BY <2>1, <2>5, <2>6
<1>10. ASSUME NEW j \in 1 .. m, NEW k \in 1 .. m, NEW i \in 1 .. MaxLen, NEW l \in 1 .. MaxLen
       PROVE  /\ Len(rs[k]) = MaxLen
              /\ rs[k][i] = PadIndex <=> i > Len(ses[k])
              /\ (i <= Len(ses[k]) /\ l <= Len(ses[j]))
                    => (rs[k][i] = rs[j][l] <=> ses[k][i].type = ses[j][l].type)
  <2>1. i \in Nat \ {0} /\ l \in Nat \ {0}
    BY SessionsAssumption
  <2>2. Len(ses[k]) \in Nat /\ Len(ses[j]) \in Nat
    BY <1>5
  <2>3. i <= Len(ses[k]) => ses[k][i].type \in DOMAIN index /\ rs[k][i] = index[ses[k][i].type]
    BY <1>6, <1>9, <2>1, <2>2
  <2>4. l <= Len(ses[j]) => ses[j][l].type \in DOMAIN index /\ rs[j][l] = index[ses[j][l].type]
    BY <1>6, <1>9, <2>1, <2>2
  <2>5. ~(i <= Len(ses[k])) => rs[k][i] = PadIndex
    BY <1>9
  <2>6. \A t \in DOMAIN index : index[t] # PadIndex
    BY <1>2 DEF Distinguishes, PadIndex
  <2>7. rs[k][i] = PadIndex <=> i > Len(ses[k])
    BY <2>1, <2>2, <2>3, <2>5, <2>6
  <2>8. \A t, u \in DOMAIN index : index[t] = index[u] <=> t = u
    BY <1>2 DEF Distinguishes
  <2>9. (i <= Len(ses[k]) /\ l <= Len(ses[j]))
          => (rs[k][i] = rs[j][l] <=> ses[k][i].type = ses[j][l].type)
    BY <2>3, <2>4, <2>8
  <2> QED
    BY <1>9, <2>7, <2>9
<1> QED
  BY <1>3, <1>7, <1>8, <1>10 DEF RowsDecodable

\* Rows read back to their sessions: the index gives every type that occurs a token of
\* its own, behind the defaults, and none is the padding.
THEOREM RowsReadBack == SessionsSpec => []RowsDecodable
  BY EventsListed, RowsFollow, PTL

-----------------------------------------------------------------------------
(* One event more.                                                         *)

\* o2 is o with e put in behind its first q events, those that are not later.
Inserted(o, o2, e, q) ==
  /\ q \in 0 .. Len(o) /\ Len(o2) = Len(o) + 1
  /\ \A p \in 1 .. q : o[p].time <= e.time /\ o2[p] = o[p]
  /\ o2[q + 1] = e
  /\ \A p \in q + 1 .. Len(o) : e.time < o[p].time /\ o2[p + 1] = o[p]

\* One place further for the elements that are greater than the new one.
LEMMA PlaceMoves ==
  ASSUME NEW s \in Seq(Int), NEW n \in Nat, n = Len(s), NEW x \in Int, NEW i \in 1 .. n
  PROVE  /\ s[i] <= x => Place(Append(s, x), i) = Place(s, i)
         /\ x < s[i] => Place(Append(s, x), i) = Place(s, i) + 1
<1> DEFINE A == {j \in 1 .. n : s[j] < s[i] \/ (s[j] = s[i] /\ j <= i)}
<1>1. Place(s, i) = Cardinality(A)
  BY DEF Place
<1>2. PICK t \in Seq(Int) :
         /\ t = Append(s, x) /\ Len(t) = n + 1 /\ t[n + 1] = x
         /\ \A j \in 1 .. n : t[j] = s[j]
  <2>1. /\ Append(s, x) \in Seq(Int) /\ Len(Append(s, x)) = Len(s) + 1
        /\ Append(s, x)[Len(s) + 1] = x /\ \A j \in 1 .. Len(s) : Append(s, x)[j] = s[j]
    OBVIOUS
  <2> QED
    BY <2>1
<1> DEFINE B == {j \in 1 .. n + 1 : t[j] < t[i] \/ (t[j] = t[i] /\ j <= i)}
<1>3. Place(t, i) = Cardinality(B)
  BY <1>2 DEF Place
<1>4. s[i] \in Int /\ t[i] = s[i]
  BY <1>2
<1>5. \A j \in 1 .. n : j \in B <=> j \in A
  BY <1>2, <1>4
<1>6. n + 1 \in B <=> x < s[i]
  BY <1>2, <1>4
<1>7. B \subseteq 1 .. n + 1 /\ A \subseteq 1 .. n
  OBVIOUS
<1>8. IsFiniteSet(A)
  <2>1. 1 \in Int /\ n \in Int
    OBVIOUS
  <2>2. IsFiniteSet(1 .. n)
    BY <2>1, FS_Interval
  <2>3. A \in SUBSET (1 .. n)
    BY <1>7
  <2> HIDE DEF A
  <2> QED
    BY <2>2, <2>3, FS_Subset
<1> HIDE DEF A, B
<1>9. \A j \in 1 .. n + 1 : j \in 1 .. n \/ j = n + 1
  OBVIOUS
<1>10. n + 1 \notin 1 .. n
  OBVIOUS
<1>11. CASE s[i] <= x
  <2>1. n + 1 \notin B
    BY <1>4, <1>6, <1>11
  <2>2. B = A
    BY <1>5, <1>7, <1>9, <2>1
  <2>3. ~(x < s[i])
    BY <1>4, <1>11
  <2> QED
    BY <1>1, <1>2, <1>3, <2>2, <2>3
<1>12. CASE x < s[i]
  <2>1. n + 1 \in B /\ n + 1 \notin A
    BY <1>6, <1>7, <1>10, <1>12
  <2>2. B = A \cup {n + 1}
    BY <1>5, <1>7, <1>9, <2>1
  <2>3. Cardinality(A \cup {n + 1}) = Cardinality(A) + 1
    BY <1>8, <2>1, FS_AddElement
  <2>4. ~(s[i] <= x)
    BY <1>4, <1>12
  <2> QED
    BY <1>1, <1>2, <1>3, <2>2, <2>3, <2>4
<1> QED
  BY <1>4, <1>11, <1>12

LEMMA SameMoments ==
  ASSUME NEW s \in Seq(Int), NEW t \in Seq(Int), NEW n, Len(s) = n, Len(t) = n,
         \A i \in 1 .. n : s[i] = t[i]
  PROVE  s = t
  OBVIOUS

LEMMA Insertion ==
  ASSUME NEW evs \in Seq(Event), NEW n \in Nat, n = Len(evs), NEW e \in Event
  PROVE  \E q \in 0 .. n : Inserted(Ordered(evs), Ordered(Append(evs, e)), e, q)
<1>1. PICK evs2 \in Seq(Event) :
         /\ evs2 = Append(evs, e) /\ Len(evs2) = n + 1 /\ evs2[n + 1] = e
         /\ \A i \in 1 .. n : evs2[i] = evs[i]
  <2>1. /\ Append(evs, e) \in Seq(Event) /\ Len(Append(evs, e)) = Len(evs) + 1
        /\ Append(evs, e)[Len(evs) + 1] = e
        /\ \A j \in 1 .. Len(evs) : Append(evs, e)[j] = evs[j]
    OBVIOUS
  <2> QED
    BY <2>1
<1>2. PICK s \in Seq(Int) :
         s = Moments(evs) /\ Len(s) = n /\ \A i \in 1 .. n : s[i] = evs[i].time
  BY EventType
<1>3. PICK x \in Nat : x = e.time
  BY TimestampsAssumption DEF Event
<1>4. PICK t \in Seq(Int) :
         /\ t = Append(s, x) /\ Len(t) = n + 1 /\ t[n + 1] = x
         /\ \A i \in 1 .. n : t[i] = s[i]
  <2>1. /\ Append(s, x) \in Seq(Int) /\ Len(Append(s, x)) = Len(s) + 1
        /\ Append(s, x)[Len(s) + 1] = x /\ \A j \in 1 .. Len(s) : Append(s, x)[j] = s[j]
    OBVIOUS
  <2> QED
    BY <1>2, <2>1
<1>5. Moments(evs2) = t
  <2>1. PICK u \in Seq(Int) :
           u = Moments(evs2) /\ Len(u) = n + 1 /\ \A i \in 1 .. n + 1 : u[i] = evs2[i].time
    <3>1. n + 1 \in Nat
      OBVIOUS
    <3> QED
      BY <1>1, <3>1, EventType
  <2>2. \A i \in 1 .. n + 1 : u[i] = t[i]
    <3>1. ASSUME NEW i \in 1 .. n PROVE u[i] = t[i]
      <4>1. i \in 1 .. n + 1
        OBVIOUS
      <4>2. u[i] = evs2[i].time /\ evs2[i] = evs[i]
        BY <1>1, <2>1, <4>1
      <4>3. t[i] = s[i] /\ s[i] = evs[i].time
        BY <1>2, <1>4
      <4> QED
        BY <4>2, <4>3
    <3>2. u[n + 1] = t[n + 1]
      <4>1. n + 1 \in 1 .. n + 1
        OBVIOUS
      <4>2. u[n + 1] = e.time
        BY <1>1, <2>1, <4>1
      <4> QED
        BY <1>3, <1>4, <4>2
    <3>3. \A i \in 1 .. n + 1 : i \in 1 .. n \/ i = n + 1
      OBVIOUS
    <3> QED
      BY <3>1, <3>2, <3>3
  <2>3. Len(u) = n + 1 /\ Len(t) = n + 1
    BY <1>4, <2>1
  <2>4. u = t
    BY <2>2, <2>3, SameMoments
  <2>5. u = Moments(evs2)
    BY <2>1
  <2> QED
    BY <2>4, <2>5
<1>6. PICK o : o = Ordered(evs) /\ Len(o) = n /\ \A k \in 1 .. n : o[k] = evs[StableOrder(s)[k]]
  <2>1. /\ Len(Ordered(evs)) = n
        /\ \A k \in 1 .. n : Ordered(evs)[k] = evs[StableOrder(Moments(evs))[k]]
    BY OrderedIs
  <2>2. s = Moments(evs)
    BY <1>2
  <2> QED
    BY <2>1, <2>2
<1>7. PICK o2 : /\ o2 = Ordered(evs2) /\ Len(o2) = n + 1
                /\ \A k \in 1 .. n + 1 : o2[k] = evs2[StableOrder(t)[k]]
  <2>1. n + 1 \in Nat
    OBVIOUS
  <2> QED
    <3>1. /\ Len(Ordered(evs2)) = n + 1
          /\ \A k \in 1 .. n + 1 : Ordered(evs2)[k] = evs2[StableOrder(Moments(evs2))[k]]
      BY <1>1, <2>1, OrderedIs
    <3> QED
      BY <1>5, <3>1
<1>8. /\ \A k \in 1 .. n : StableOrder(s)[k] \in 1 .. n /\ Place(s, StableOrder(s)[k]) = k
      /\ \A i \in 1 .. n : Place(s, i) \in 1 .. n
  <2>1. /\ StableOrder(s) \in [1 .. n -> 1 .. n]
        /\ \A k \in 1 .. n : Place(s, StableOrder(s)[k]) = k
    BY <1>2, StableOrderIs
  <2>2. \A i \in 1 .. n : Place(s, i) \in 1 .. n
    BY <1>2, Places
  <2> QED
    BY <2>1, <2>2
<1>9. /\ \A i \in 1 .. n + 1 : Place(t, i) \in 1 .. n + 1 /\ StableOrder(t)[Place(t, i)] = i
      /\ \A i, j \in 1 .. n + 1 : Before(t, i, j) => Place(t, i) < Place(t, j)
  <2>1. n + 1 \in Nat
    OBVIOUS
  <2> QED
    BY <1>4, <2>1, StableOrderIs, Places
<1>10. PICK q \in 0 .. n : q + 1 = Place(t, n + 1)
  <2>1. PICK r \in 1 .. n + 1 : r = Place(t, n + 1)
    <3>1. n + 1 \in 1 .. n + 1
      OBVIOUS
    <3> QED
      BY <1>9, <3>1
  <2>2. r - 1 \in 0 .. n /\ (r - 1) + 1 = r
    OBVIOUS
  <2> QED
    BY <2>1, <2>2
<1>11. o2[q + 1] = e
  <2>1. n + 1 \in 1 .. n + 1 /\ q + 1 \in 1 .. n + 1
    OBVIOUS
  <2> QED
    <3>1. StableOrder(t)[q + 1] = n + 1
      BY <1>9, <1>10, <2>1
    <3> QED
      BY <1>1, <1>7, <2>1, <3>1
<1>12. ASSUME NEW p \in 1 .. n
       PROVE  \/ p <= q /\ o[p].time <= x /\ o2[p] = o[p]
              \/ q < p /\ x < o[p].time /\ o2[p + 1] = o[p]
  <2>1. PICK i \in 1 .. n : i = StableOrder(s)[p] /\ Place(s, i) = p
    BY <1>8
  <2>2. o[p] = evs[i] /\ evs[i] = evs2[i] /\ o[p].time = s[i] /\ s[i] = t[i] /\ s[i] \in Int
    <3>1. o[p] = evs[i]
      BY <1>6, <2>1
    <3>2. evs[i] = evs2[i]
      BY <1>1
    <3>3. s[i] = evs[i].time /\ s[i] \in Int
      BY <1>2
    <3>4. s[i] = t[i]
      BY <1>4
    <3> QED
      BY <3>1, <3>2, <3>3, <3>4
  <2>3. i \in 1 .. n + 1 /\ n + 1 \in 1 .. n + 1
    OBVIOUS
  <2>4. CASE s[i] <= x
    <3>1. Place(t, i) = p
      BY <1>2, <1>4, <2>1, <2>4, PlaceMoves
    <3>2. Before(t, i, n + 1)
      BY <1>4, <2>2, <2>4 DEF Before
    <3>3. p < q + 1
      BY <1>9, <1>10, <2>3, <3>1, <3>2
    <3>4. o2[p] = evs2[i]
      <4>1. StableOrder(t)[p] = i
        BY <1>9, <2>3, <3>1
      <4>2. p \in 1 .. n + 1
        OBVIOUS
      <4> QED
        BY <1>7, <4>1, <4>2
    <3>5. p <= q
      BY <3>3
    <3> QED
      BY <2>2, <2>4, <3>4, <3>5
  <2>5. CASE x < s[i]
    <3>1. Place(t, i) = p + 1
      BY <1>2, <1>4, <2>1, <2>5, PlaceMoves
    <3>2. Before(t, n + 1, i)
      BY <1>4, <2>2, <2>5 DEF Before
    <3>3. q + 1 < p + 1
      BY <1>9, <1>10, <2>3, <3>1, <3>2
    <3>4. o2[p + 1] = evs2[i]
      <4>1. StableOrder(t)[p + 1] = i
        BY <1>9, <2>3, <3>1
      <4>2. p + 1 \in 1 .. n + 1
        OBVIOUS
      <4> QED
        BY <1>7, <4>1, <4>2
    <3>5. q < p
      BY <3>3
    <3> QED
      BY <2>2, <2>5, <3>4, <3>5
  <2> QED
    BY <2>2, <2>4, <2>5
<1>13. ASSUME NEW p \in 1 .. q PROVE o[p].time <= e.time /\ o2[p] = o[p]
  <2>1. p \in 1 .. n /\ ~(q < p)
    OBVIOUS
  <2> QED
    BY <1>3, <1>12, <2>1
<1>14. ASSUME NEW p \in q + 1 .. n PROVE e.time < o[p].time /\ o2[p + 1] = o[p]
  <2>1. p \in 1 .. n /\ ~(p <= q)
    OBVIOUS
  <2> QED
    BY <1>3, <1>12, <2>1
<1>15. Inserted(o, o2, e, q)
  BY <1>6, <1>7, <1>11, <1>13, <1>14 DEF Inserted
<1> QED
  BY <1>1, <1>6, <1>7, <1>15

\* The events of the session are all apart from x.
AllApart(o, a, c, x) == \A p \in a .. c - 1 : Apart(o[p].time, x)

LEMMA PieceApart ==
  ASSUME NEW o, NEW s, NEW a \in Nat \ {0}, NEW c \in Nat, Piece(o, s, a, c), NEW x,
         \A i \in 1 .. Len(s) : Apart(s[i].time, x)
  PROVE  AllApart(o, a, c, x)
<1> SUFFICES ASSUME NEW p \in a .. c - 1 PROVE Apart(o[p].time, x)
  BY DEF AllApart
<1>1. PICK i \in 1 .. c - a : a + i - 1 = p
  <2>1. p - a + 1 \in 1 .. c - a /\ a + (p - a + 1) - 1 = p
    OBVIOUS
  <2> QED
    BY <2>1
<1>2. Len(s) = c - a /\ s[i] = o[a + i - 1]
  BY DEF Piece
<1>3. Apart(s[i].time, x)
  BY <1>2
<1> QED
  BY <1>1, <1>2, <1>3

\* A session the new event is apart from lies before it or behind it.
LEMMA Beside ==
  ASSUME NEW o \in Seq(Event), NEW o2, NEW e \in Event, NEW q \in 0 .. Len(o),
         Inserted(o, o2, e, q),
         NEW a \in 1 .. Len(o), NEW c \in 2 .. Len(o) + 1, Session(o, a, c),
         AllApart(o, a, c, e.time)
  PROVE  c <= q + 1 \/ q + 1 <= a
<1> SUFFICES ASSUME a <= q, q + 1 < c
             PROVE  FALSE
  OBVIOUS
<1>1. PICK h \in 1 .. Len(o) : h = q /\ h + 1 \in 1 .. Len(o)
  OBVIOUS
<1>2. PICK x \in Nat, y \in Nat, z \in Nat : x = o[h].time /\ y = e.time /\ z = o[h + 1].time
  BY <1>1, EventType, EventMoment
<1>3. x <= y /\ y < z
  <2>1. h \in 1 .. q /\ h + 1 \in q + 1 .. Len(o)
    BY <1>1
  <2> QED
    BY <1>2, <2>1 DEF Inserted
<1>4. Apart(x, y) /\ Apart(z, y)
  <2>1. h \in a .. c - 1 /\ h + 1 \in a .. c - 1
    BY <1>1
  <2> QED
    BY <1>2, <2>1 DEF AllApart
<1>5. z - x > Gap
  BY <1>3, <1>4, SessionsAssumption DEF Apart
<1>6. Gapped(o, h + 1)
  <2>1. (h + 1) - 1 = h
    BY <1>1
  <2> QED
    BY <1>2, <1>5, <2>1 DEF Gapped
<1>7. Begins(o, h + 1)
  <2>1. h + 1 \in 2 .. Len(o)
    BY <1>1
  <2> QED
    BY <1>6, <2>1 DEF Begins
<1>8. ~ Begins(o, h + 1)
  <2>1. h + 1 \in a + 1 .. c - 1
    BY <1>1
  <2> QED
    BY <2>1 DEF Session
<1> QED
  BY <1>7, <1>8

\* Before the new event a session stays where it is.
LEMMA StaysBefore ==
  ASSUME NEW o \in Seq(Event), NEW o2, NEW e \in Event, NEW q \in 0 .. Len(o),
         Inserted(o, o2, e, q),
         NEW a \in 1 .. Len(o), NEW c \in 2 .. Len(o) + 1, Session(o, a, c),
         AllApart(o, a, c, e.time), c <= q + 1
  PROVE  Session(o2, a, c) /\ \A p \in a .. c - 1 : o2[p] = o[p]
<1>1. Len(o2) = Len(o) + 1 /\ o2[q + 1] = e
  BY DEF Inserted
<1>2. \A p \in 1 .. q : o[p].time <= e.time /\ o2[p] = o[p]
  BY DEF Inserted
<1>3. a < c /\ Begins(o, a) /\ Begins(o, c) /\ \A i \in a + 1 .. c - 1 : ~ Begins(o, i)
  BY DEF Session
<1>4. ASSUME NEW i \in 1 .. q PROVE Begins(o2, i) <=> Begins(o, i)
  <2>1. i # Len(o) + 1 /\ i # Len(o2) + 1
    BY <1>1
  <2>2. i \in 2 .. Len(o) <=> i # 1
    OBVIOUS
  <2>3. i \in 2 .. Len(o2) <=> i # 1
    BY <1>1
  <2>4. ASSUME i # 1 PROVE Gapped(o2, i) <=> Gapped(o, i)
    <3>1. i - 1 \in 1 .. q
      BY <2>4
    <3>2. o2[i] = o[i] /\ o2[i - 1] = o[i - 1]
      BY <1>2, <3>1
    <3> QED
      BY <3>2 DEF Gapped
  <2> QED
    BY <2>1, <2>2, <2>3, <2>4 DEF Begins
<1>5. Begins(o2, a)
  <2>1. a \in 1 .. q
    BY <1>3
  <2> QED
    BY <1>3, <1>4, <2>1
<1>6. \A i \in a + 1 .. c - 1 : ~ Begins(o2, i)
  <2>1. \A i \in a + 1 .. c - 1 : i \in 1 .. q
    OBVIOUS
  <2> QED
    BY <1>3, <1>4, <2>1
<1>7. Begins(o2, c)
  <2>1. CASE c <= q
    <3>1. c \in 1 .. q
      BY <2>1
    <3> QED
      BY <1>3, <1>4, <3>1
  <2>2. CASE c = q + 1
    <3>1. PICK h \in 1 .. q : h = c - 1 /\ h \in 1 .. Len(o) /\ h \in a .. c - 1
      <4>1. c - 1 \in 1 .. q /\ c - 1 \in 1 .. Len(o) /\ c - 1 \in a .. c - 1
        BY <1>3, <2>2
      <4> QED
        BY <4>1
    <3>2. PICK x \in Nat, y \in Nat : x = o[h].time /\ y = e.time
      BY <3>1, EventType, EventMoment
    <3>3. x <= y
      BY <1>2, <3>2
    <3>4. Apart(x, y)
      BY <3>1, <3>2 DEF AllApart
    <3>5. y - x > Gap
      BY <3>3, <3>4, SessionsAssumption DEF Apart
    <3>6. o2[c] = e /\ o2[c - 1] = o[h]
      BY <1>1, <1>2, <2>2, <3>1
    <3>7. Gapped(o2, c)
      BY <3>2, <3>5, <3>6 DEF Gapped
    <3>8. c \in 2 .. Len(o2)
      BY <1>1, <2>2
    <3> QED
      BY <3>7, <3>8 DEF Begins
  <2> QED
    BY <2>1, <2>2
<1>8. a \in 1 .. Len(o2) /\ c \in 2 .. Len(o2) + 1
  BY <1>1
<1>9. \A p \in a .. c - 1 : o2[p] = o[p]
  <2>1. \A p \in a .. c - 1 : p \in 1 .. q
    OBVIOUS
  <2> QED
    BY <1>2, <2>1
<1> QED
  BY <1>3, <1>5, <1>6, <1>7, <1>8, <1>9 DEF Session

\* Behind it a session moves one place on.
LEMMA MovesBehind ==
  ASSUME NEW o \in Seq(Event), NEW o2, NEW e \in Event, NEW q \in 0 .. Len(o),
         Inserted(o, o2, e, q),
         NEW a \in 1 .. Len(o), NEW c \in 2 .. Len(o) + 1, Session(o, a, c),
         AllApart(o, a, c, e.time), q + 1 <= a
  PROVE  Session(o2, a + 1, c + 1) /\ \A p \in a .. c - 1 : o2[p + 1] = o[p]
<1>1. Len(o2) = Len(o) + 1 /\ o2[q + 1] = e
  BY DEF Inserted
<1>2. \A p \in q + 1 .. Len(o) : e.time < o[p].time /\ o2[p + 1] = o[p]
  BY DEF Inserted
<1>3. a < c /\ Begins(o, a) /\ Begins(o, c) /\ \A i \in a + 1 .. c - 1 : ~ Begins(o, i)
  BY DEF Session
<1>4. ASSUME NEW i \in q + 2 .. Len(o) + 1 PROVE Begins(o2, i + 1) <=> Begins(o, i)
  <2>1. i # 1 /\ i + 1 # 1
    OBVIOUS
  <2>2. CASE i = Len(o) + 1
    BY <1>1, <2>2 DEF Begins
  <2>3. CASE i # Len(o) + 1
    <3>1. i \in 2 .. Len(o) /\ i + 1 \in 2 .. Len(o2) /\ i + 1 # Len(o2) + 1
      BY <1>1, <2>3
    <3>2. PICK h \in q + 1 .. Len(o) : h = i - 1 /\ h + 1 = i /\ (i + 1) - 1 = i
      <4>1. i - 1 \in q + 1 .. Len(o) /\ (i - 1) + 1 = i /\ (i + 1) - 1 = i
        BY <2>3
      <4> QED
        BY <4>1
    <3>3. o2[i] = o[h]
      BY <1>2, <3>2
    <3>4. o2[i + 1] = o[i]
      <4>1. i \in q + 1 .. Len(o)
        BY <2>3
      <4> QED
        BY <1>2, <4>1
    <3>5. Gapped(o2, i + 1) <=> Gapped(o, i)
      BY <3>2, <3>3, <3>4 DEF Gapped
    <3> QED
      BY <2>1, <2>3, <3>1, <3>5 DEF Begins
  <2> QED
    BY <2>2, <2>3
<1>5. Begins(o2, a + 1)
  <2>1. CASE a # q + 1
    <3>1. a \in q + 2 .. Len(o) + 1
      BY <2>1
    <3> QED
      BY <1>3, <1>4, <3>1
  <2>2. CASE a = q + 1
    <3>1. PICK x \in Nat, y \in Nat : x = o[a].time /\ y = e.time
      BY EventType, EventMoment
    <3>2. a \in q + 1 .. Len(o) /\ a \in a .. c - 1 /\ (a + 1) - 1 = a
      BY <1>3, <2>2
    <3>3. y < x /\ o2[a + 1] = o[a] /\ o2[a] = e
      BY <1>1, <1>2, <2>2, <3>1, <3>2
    <3>4. Apart(x, y)
      BY <3>1, <3>2 DEF AllApart
    <3>5. x - y > Gap
      BY <3>3, <3>4, SessionsAssumption DEF Apart
    <3>6. Gapped(o2, a + 1)
      BY <3>1, <3>2, <3>3, <3>5 DEF Gapped
    <3>7. a + 1 \in 2 .. Len(o2)
      BY <1>1
    <3> QED
      BY <3>6, <3>7 DEF Begins
  <2> QED
    BY <2>1, <2>2
<1>6. ASSUME NEW i \in (a + 1) + 1 .. (c + 1) - 1 PROVE ~ Begins(o2, i)
  <2>1. PICK h \in q + 2 .. Len(o) + 1 : i = h + 1 /\ h \in a + 1 .. c - 1
    <3>1. i - 1 \in q + 2 .. Len(o) + 1 /\ (i - 1) + 1 = i /\ i - 1 \in a + 1 .. c - 1
      OBVIOUS
    <3> QED
      BY <3>1
  <2> QED
    BY <1>3, <1>4, <2>1
<1>7. Begins(o2, c + 1)
  <2>1. c \in q + 2 .. Len(o) + 1
    BY <1>3
  <2> QED
    BY <1>3, <1>4, <2>1
<1>8. a + 1 \in 1 .. Len(o2) /\ c + 1 \in 2 .. Len(o2) + 1 /\ a + 1 < c + 1
  BY <1>1, <1>3
<1>9. \A p \in a .. c - 1 : o2[p + 1] = o[p]
  <2>1. \A p \in a .. c - 1 : p \in q + 1 .. Len(o)
    OBVIOUS
  <2> QED
    BY <1>2, <2>1
<1> QED
  BY <1>5, <1>6, <1>7, <1>8, <1>9 DEF Session

LEMMA PieceUnique ==
  ASSUME NEW o, NEW s, NEW t, NEW a \in Nat, NEW c \in Nat, Piece(o, s, a, c), Piece(o, t, a, c)
  PROVE  s = t
<1>1. s \in Seq(Event) /\ t \in Seq(Event) /\ Len(s) = c - a /\ Len(t) = c - a
  BY DEF Piece
<1>2. \A i \in 1 .. c - a : s[i] = t[i]
  BY DEF Piece
<1> QED
  BY <1>1, <1>2

\* The loop makes every session.
LEMMA SessionIsMade ==
  ASSUME NEW o \in Seq(Event), NEW n \in Nat \ {0}, n = Len(o), NEW ses, NEW m \in Nat \ {0}, NEW b,
         Cut(o, n, ses, m, b), NEW a \in Nat, NEW c \in Nat, Session(o, a, c)
  PROVE  \E k \in 1 .. m : Piece(o, ses[k], a, c)
<1>1. /\ \A k \in 1 .. m : Session(o, b[k], b[k + 1]) /\ Piece(o, ses[k], b[k], b[k + 1])
      /\ Listed(o, m, b)
  BY CutSessions
<1>2. a \in 1 .. Len(o) + 1 /\ c \in 1 .. Len(o) + 1
  BY DEF Session
<1>3. PICK k \in 1 .. m : b[k] = a /\ b[k + 1] = c
  BY <1>1, <1>2 DEF Listed
<1> QED
  BY <1>1, <1>3

\* A session the new event is apart from is a session of the longer list.
LEMMA SessionStays ==
  ASSUME NEW evs \in Seq(Event), NEW e \in Event, NEW s \in ToSet(SessionsOf(evs)),
         \A i \in 1 .. Len(s) : Apart(s[i].time, e.time)
  PROVE  s \in ToSet(SessionsOf(Append(evs, e)))
<1>1. evs # <<>>
  <2>1. ToSet(<<>>) = {}
    BY DEF ToSet
  <2> QED
    BY <2>1 DEF SessionsOf
<1>2. PICK n \in Nat \ {0}, n2 \in Nat \ {0} : n = Len(evs) /\ n2 = n + 1
  <2>1. Len(evs) \in Nat \ {0} /\ Len(evs) + 1 \in Nat \ {0}
    BY <1>1
  <2> QED
    BY <2>1
<1>3. PICK evs2 \in Seq(Event) : evs2 = Append(evs, e) /\ Len(evs2) = n2
  <2>1. Append(evs, e) \in Seq(Event) /\ Len(Append(evs, e)) = Len(evs) + 1
    OBVIOUS
  <2> QED
    BY <1>2, <2>1
<1>4. PICK o \in Seq(Event) : o = Ordered(evs) /\ Len(o) = n
  BY <1>2, OrderedIs
<1>5. PICK o2 \in Seq(Event) : o2 = Ordered(evs2) /\ Len(o2) = n2
  BY <1>3, OrderedIs
<1>6. PICK q \in 0 .. Len(o) : Inserted(o, o2, e, q)
  BY <1>2, <1>3, <1>4, <1>5, Insertion
<1>7. PICK ses \in Seq(Seq(Event)), m \in Nat \ {0} :
         ses = SessionsOf(evs) /\ Len(ses) = m /\ \E b : Cut(o, n, ses, m, b)
  BY <1>2, <1>4, SessionsSplit
<1>8. PICK b : ses = SessionsOf(evs) /\ Len(ses) = m /\ Cut(o, n, ses, m, b)
  BY <1>7
<1>9. PICK ses2 \in Seq(Seq(Event)), m2 \in Nat \ {0} :
         ses2 = SessionsOf(evs2) /\ Len(ses2) = m2 /\ \E b2 : Cut(o2, n2, ses2, m2, b2)
  BY <1>3, <1>5, SessionsSplit
<1>10. PICK b2 : ses2 = SessionsOf(evs2) /\ Len(ses2) = m2 /\ Cut(o2, n2, ses2, m2, b2)
  BY <1>9
<1>11. PICK k \in 1 .. m : s = ses[k]
  <2>1. DOMAIN ses = 1 .. m
    BY <1>8
  <2> QED
    BY <1>8, <2>1 DEF ToSet
<1>12. PICK a \in 1 .. Len(o), c \in 2 .. Len(o) + 1 : Session(o, a, c) /\ Piece(o, s, a, c)
  <2>1. Session(o, b[k], b[k + 1]) /\ Piece(o, ses[k], b[k], b[k + 1])
    BY <1>4, <1>8, CutSessions
  <2>2. b[k] \in 1 .. Len(o) /\ b[k + 1] \in 2 .. Len(o) + 1
    BY <2>1 DEF Session
  <2> QED
    BY <1>11, <2>1, <2>2
<1>13. AllApart(o, a, c, e.time)
  <2>1. a \in Nat \ {0} /\ c \in Nat
    OBVIOUS
  <2> QED
    BY <1>12, <2>1, PieceApart
<1>14. \E d \in Nat, f \in Nat : Session(o2, d, f) /\ Piece(o2, s, d, f)
  <2>1. CASE c <= q + 1
    <3>1. Session(o2, a, c) /\ \A p \in a .. c - 1 : o2[p] = o[p]
      BY <1>6, <1>12, <1>13, <2>1, StaysBefore
    <3>2. \A i \in 1 .. c - a : o2[a + i - 1] = o[a + i - 1]
      <4>1. \A i \in 1 .. c - a : a + i - 1 \in a .. c - 1
        OBVIOUS
      <4> QED
        BY <3>1, <4>1
    <3>3. Piece(o2, s, a, c)
      BY <1>12, <3>2 DEF Piece
    <3>4. a \in Nat /\ c \in Nat
      OBVIOUS
    <3> QED
      BY <3>1, <3>3, <3>4
  <2>2. CASE q + 1 <= a
    <3>1. Session(o2, a + 1, c + 1) /\ \A p \in a .. c - 1 : o2[p + 1] = o[p]
      BY <1>6, <1>12, <1>13, <2>2, MovesBehind
    <3>2. \A i \in 1 .. c - a : o2[(a + 1) + i - 1] = o[a + i - 1]
      <4>1. \A i \in 1 .. c - a : a + i - 1 \in a .. c - 1 /\ (a + 1) + i - 1 = (a + i - 1) + 1
        OBVIOUS
      <4> QED
        BY <3>1, <4>1
    <3>3. (c + 1) - (a + 1) = c - a
      OBVIOUS
    <3>4. Piece(o2, s, a + 1, c + 1)
      BY <1>12, <3>2, <3>3 DEF Piece
    <3>5. a + 1 \in Nat /\ c + 1 \in Nat
      OBVIOUS
    <3> QED
      BY <3>1, <3>4, <3>5
  <2> QED
    BY <1>6, <1>12, <1>13, <2>1, <2>2, Beside
<1>15. PICK d \in Nat, f \in Nat : Session(o2, d, f) /\ Piece(o2, s, d, f)
  BY <1>14
<1>16. PICK l \in 1 .. m2 : Piece(o2, ses2[l], d, f)
  BY <1>5, <1>10, <1>15, SessionIsMade
<1>17. s = ses2[l]
  BY <1>15, <1>16, PieceUnique
<1>18. ses2[l] \in ToSet(ses2)
  <2>1. DOMAIN ses2 = 1 .. m2
    BY <1>10
  <2> QED
    BY <2>1 DEF ToSet
<1> QED
  BY <1>3, <1>10, <1>17, <1>18

\* An arrival changes no session that is more than SESSION_GAP away from it: not its
\* events, not their order, wherever in the list it falls.
THEOREM ArrivalsStayLocal == SessionsSpec => ArrivalsAreLocal
<1>1. ASSUME events \in Seq(Event), [SessionsNext]_sessionsVars
      PROVE  [LET new == Last(events')
              IN  \A s \in ToSet(SessionsOf(events)) :
                     (\A i \in 1 .. Len(s) : Apart(s[i].time, new.time))
                         => s \in ToSet(SessionsOf(events'))]_sessionsVars
  <2>1. CASE SessionsNext
    <3>1. PICK e \in Event : events' = Append(events, e)
      BY <1>1, <2>1 DEF SessionsNext, Arrive
    <3>2. Last(events') = e
      <4>1. Len(Append(events, e)) = Len(events) + 1 /\ Append(events, e)[Len(events) + 1] = e
        BY <1>1
      <4> QED
        BY <3>1, <4>1 DEF Last
    <3>3. ASSUME NEW s \in ToSet(SessionsOf(events)),
                 \A i \in 1 .. Len(s) : Apart(s[i].time, e.time)
          PROVE  s \in ToSet(SessionsOf(events'))
      BY <1>1, <3>1, <3>3, SessionStays
    <3> QED
      BY <3>2, <3>3
  <2>2. CASE UNCHANGED sessionsVars
    BY <2>2
  <2> QED
    BY <1>1, <2>1, <2>2
<1> QED
  BY <1>1, EventsListed, PTL DEF SessionsSpec, ArrivalsAreLocal
==============================================================================
