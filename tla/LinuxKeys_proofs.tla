-------------------------- MODULE LinuxKeys_proofs --------------------------
(***************************************************************************)
(* Proofs about the keys of LinuxKeys, for any keys and combinations and   *)
(* any number of events on their way: types, and that both ends agree      *)
(* about every key that has not lost an event.                             *)
(***************************************************************************)
EXTENDS LinuxKeys, SequenceTheorems, WellFoundedInduction, TLAPS

-----------------------------------------------------------------------------
(* What the tracking computes *)

\* The natural numbers are well-founded.
LEMMA Least ==
  ASSUME NEW T, T \subseteq Nat, T # {}
  PROVE  \E x \in T : \A y \in T : x <= y
<1>1. IsWellFoundedOn(OpToRel(<, Nat), Nat)
  BY NatLessThanWellFounded
<1>2. \E x \in T : \A y \in T : <<y, x>> \notin OpToRel(<, Nat)
  BY <1>1, WFMin
<1>3. PICK x \in T : \A y \in T : <<y, x>> \notin OpToRel(<, Nat)
  BY <1>2
<1>4. \A y \in T : ~(y < x)
  BY <1>3 DEF OpToRel
<1>5. QED
  BY <1>4

\* What holds of 0, and of the next number whenever it holds of a number, holds up to n.
LEMMA UpTo ==
  ASSUME NEW n \in Nat, NEW G, 0 \in G, \A i \in 0..n : i \in G /\ i < n => i + 1 \in G
  PROVE  \A i \in 0..n : i \in G
<1> DEFINE T == {i \in 0..n : i \notin G}
<1>1. SUFFICES ASSUME T # {} PROVE FALSE
  OBVIOUS
<1>2. T \subseteq Nat
  OBVIOUS
<1>3. \E x \in T : \A y \in T : x <= y
  BY <1>1, <1>2, Least
<1>4. PICK x \in T : \A y \in T : x <= y
  BY <1>3
<1>5. x # 0 /\ x \in 0..n /\ x \notin G
  OBVIOUS
<1>6. x - 1 \in 0..n /\ x - 1 < n /\ (x - 1) + 1 = x
  BY <1>5
<1>7. x - 1 \notin T
  BY <1>4, <1>5
<1>8. x - 1 \in G
  BY <1>6, <1>7
<1>9. QED
  BY <1>5, <1>6, <1>8

\* What the tracking has after each event of a batch.
IsCourse(f, keys, events, n) ==
  f = [i \in 0..n |-> IF i = 0 THEN keys ELSE After(f[i - 1], events[i])]

LEMMA CourseExists ==
  ASSUME NEW keys, NEW events, NEW n \in Nat
  PROVE  \E f : IsCourse(f, keys, events, n)
<1> DEFINE G == {m \in 0..n : \E f : IsCourse(f, keys, events, m)}
<1>1. 0 \in G
  <2> DEFINE f == [i \in 0..0 |-> keys]
  <2>1. f = [i \in 0..0 |-> IF i = 0 THEN keys ELSE After(f[i - 1], events[i])]
    OBVIOUS
  <2>2. IsCourse(f, keys, events, 0)
    BY <2>1 DEF IsCourse
  <2>3. QED
    BY <2>2
<1>2. ASSUME NEW m \in 0..n, m \in G, m < n
      PROVE  m + 1 \in G
  <2>1. PICK f : IsCourse(f, keys, events, m)
    BY <1>2
  <2>2. f = [i \in 0..m |-> IF i = 0 THEN keys ELSE After(f[i - 1], events[i])]
    BY <2>1 DEF IsCourse
  <2>3. DOMAIN f = 0..m /\ f[0] = keys
        /\ \A i \in 0..m : i # 0 => f[i] = After(f[i - 1], events[i])
    BY <2>2
  <2> DEFINE g == [i \in 0..(m + 1) |-> IF i \in 0..m THEN f[i] ELSE After(f[m], events[m + 1])]
  <2>4. \A i \in 0..(m + 1) :
          g[i] = IF i = 0 THEN keys ELSE After(g[i - 1], events[i])
    <3>1. g[0] = keys
      BY <2>3
    <3>2. ASSUME NEW i \in 0..m, i # 0
          PROVE  g[i] = After(g[i - 1], events[i])
      <4>1. i \in 0..(m + 1) /\ i - 1 \in 0..(m + 1) /\ i - 1 \in 0..m
        BY <3>2
      <4>2. g[i] = f[i] /\ g[i - 1] = f[i - 1]
        BY <4>1
      <4>3. QED
        BY <2>3, <3>2, <4>2
    <3>3. g[m + 1] = After(g[m], events[m + 1])
      OBVIOUS
    <3> HIDE DEF g
    <3>4. ASSUME NEW i \in 0..(m + 1)
          PROVE  g[i] = IF i = 0 THEN keys ELSE After(g[i - 1], events[i])
      <4>1. CASE i = 0
        BY <3>1, <4>1
      <4>2. CASE i # 0 /\ i \in 0..m
        BY <3>2, <4>2
      <4>3. CASE i = m + 1
        <5>1. i # 0 /\ i - 1 = m
          BY <4>3
        <5>2. QED
          BY <3>3, <4>3, <5>1
      <4>4. i = 0 \/ (i # 0 /\ i \in 0..m) \/ i = m + 1
        OBVIOUS
      <4>5. QED
        BY <4>1, <4>2, <4>3, <4>4
    <3>5. QED
      BY <3>4
  <2>5. g = [i \in 0..(m + 1) |-> g[i]]
    OBVIOUS
  <2>6. IsCourse(g, keys, events, m + 1)
    <3> HIDE DEF g
    <3>1. g = [i \in 0..(m + 1) |-> IF i = 0 THEN keys ELSE After(g[i - 1], events[i])]
      BY <2>4, <2>5, Zenon
    <3>2. QED
      BY <3>1 DEF IsCourse
  <2>7. m + 1 \in 0..n
    BY <1>2
  <2>8. QED
    BY <2>6, <2>7
<1>3. \A i \in 0..n : i \in G /\ i < n => i + 1 \in G
  BY <1>2
<1>4. \A i \in 0..n : i \in G
  <2> HIDE DEF G
  <2>1. QED
    BY <1>1, <1>3, UpTo
<1>5. n \in 0..n
  OBVIOUS
<1>6. QED
  BY <1>4, <1>5

\* The recursive function of Track is such a course.
LEMMA TrackCourse ==
  ASSUME NEW keys, NEW events \in Seq(Events)
  PROVE  \E f : IsCourse(f, keys, events, Len(events)) /\ Track(keys, events) = f[Len(events)]
<1> DEFINE at == CHOOSE f : IsCourse(f, keys, events, Len(events))
<1>1. Len(events) \in Nat
  BY LenProperties
<1>2. \E f : IsCourse(f, keys, events, Len(events))
  BY <1>1, CourseExists
<1>3. IsCourse(at, keys, events, Len(events))
  BY <1>2
<1>4. Track(keys, events) = at[Len(events)]
  BY DEF Track, IsCourse
<1>5. QED
  BY <1>3, <1>4
-----------------------------------------------------------------------------
(* What events on their way will have done *)

\* When the first n events of q have been applied to D, is k there iff it is in S?
Through(k, q, n, D, S) ==
  \/ (\A i \in 1..n : q[i].key # k) /\ (k \in D <=> k \in S)
  \/ \E i \in 1..n : /\ q[i].key = k
                     /\ \A j \in (i + 1)..n : q[j].key # k
                     /\ q[i].pressed <=> k \in S

\* When all of them have.
Becomes(k, q, D, S) == Through(k, q, Len(q), D, S)

LEMMA EventParts ==
  ASSUME NEW e \in Events
  PROVE  e.key \in Keys /\ e.pressed \in BOOLEAN
  BY DEF Events

LEMMA AfterOne ==
  ASSUME NEW D, NEW e \in Events
  PROVE  /\ D \subseteq Keys => After(D, e) \subseteq Keys
         /\ e.key \in After(D, e) <=> e.pressed
         /\ \A k : k # e.key => (k \in After(D, e) <=> k \in D)
<1>1. e.key \in Keys /\ e.pressed \in BOOLEAN
  BY EventParts
<1>2. CASE e.pressed
  BY <1>1, <1>2 DEF After
<1>3. CASE ~ e.pressed
  BY <1>1, <1>3 DEF After
<1>4. QED
  BY <1>2, <1>3

\* One more event decides about its key and changes nothing about the others.
LEMMA ThroughOneMore ==
  ASSUME NEW k, NEW q, NEW n \in Nat, NEW D, NEW S, NEW R,
         Through(k, q, n, D, S),
         q[n + 1].key = k => (k \in R <=> q[n + 1].pressed),
         q[n + 1].key # k => (k \in R <=> k \in S)
  PROVE  Through(k, q, n + 1, D, R)
<1>1. \A i \in 1..(n + 1) : i \in 1..n \/ i = n + 1
  OBVIOUS
<1>2. CASE q[n + 1].key = k
  <2>1. n + 1 \in 1..(n + 1) /\ \A j \in ((n + 1) + 1)..(n + 1) : q[j].key # k
    OBVIOUS
  <2>2. QED
    BY <1>2, <2>1 DEF Through
<1>3. CASE q[n + 1].key # k
  <2>1. CASE (\A i \in 1..n : q[i].key # k) /\ (k \in D <=> k \in S)
    <3>1. \A i \in 1..(n + 1) : q[i].key # k
      BY <1>1, <1>3, <2>1
    <3>2. QED
      BY <1>3, <2>1, <3>1 DEF Through
  <2>2. ASSUME NEW i \in 1..n, q[i].key = k, q[i].pressed <=> k \in S,
               \A j \in (i + 1)..n : q[j].key # k
        PROVE  Through(k, q, n + 1, D, R)
    <3>1. i \in 1..(n + 1) /\ \A j \in (i + 1)..(n + 1) : j \in (i + 1)..n \/ j = n + 1
      OBVIOUS
    <3>2. \A j \in (i + 1)..(n + 1) : q[j].key # k
      BY <1>3, <2>2, <3>1
    <3>3. QED
      BY <1>3, <2>2, <3>1, <3>2 DEF Through
  <2>3. QED
    BY <2>1, <2>2 DEF Through
<1>4. QED
  BY <1>2, <1>3

\* After a batch the tracking holds a key iff the batch leaves it pressed.
LEMMA TrackBecomes ==
  ASSUME NEW keys \in SUBSET Keys, NEW events \in Seq(Events)
  PROVE  /\ Track(keys, events) \subseteq Keys
         /\ \A k : Becomes(k, events, keys, Track(keys, events))
<1> DEFINE n == Len(events)
<1>1. n \in Nat /\ \A i \in 1..n : events[i] \in Events
  BY LenProperties, ElementOfSeq
<1>2. PICK f : IsCourse(f, keys, events, n) /\ Track(keys, events) = f[n]
  BY TrackCourse
<1> HIDE DEF n
<1>3. f[0] = keys /\ \A i \in 0..n : i # 0 => f[i] = After(f[i - 1], events[i])
  BY <1>1, <1>2 DEF IsCourse
<1> DEFINE G == {m \in 0..n : f[m] \subseteq Keys /\ \A k : Through(k, events, m, keys, f[m])}
<1>4. 0 \in G
  <2>1. \A k : Through(k, events, 0, keys, keys)
    BY DEF Through
  <2>2. QED
    BY <1>1, <1>3, <2>1
<1>5. ASSUME NEW m \in 0..n, m \in G, m < n
      PROVE  m + 1 \in G
  <2>1. m + 1 \in 0..n /\ m + 1 \in 1..n /\ m + 1 # 0 /\ (m + 1) - 1 = m /\ m \in Nat
    BY <1>1, <1>5
  <2>2. f[m + 1] = After(f[m], events[m + 1]) /\ events[m + 1] \in Events
    BY <1>1, <1>3, <2>1
  <2>3. /\ f[m + 1] \subseteq Keys
        /\ events[m + 1].key \in f[m + 1] <=> events[m + 1].pressed
        /\ \A k : k # events[m + 1].key => (k \in f[m + 1] <=> k \in f[m])
    BY <1>5, <2>2, AfterOne
  <2>4. ASSUME NEW k
        PROVE  Through(k, events, m + 1, keys, f[m + 1])
    BY <1>5, <2>1, <2>3, ThroughOneMore
  <2>5. QED
    BY <2>1, <2>3, <2>4
<1>6. \A i \in 0..n : i \in G /\ i < n => i + 1 \in G
  BY <1>5
<1>7. \A i \in 0..n : i \in G
  <2> HIDE DEF G
  <2>1. QED
    BY <1>1, <1>4, <1>6, UpTo
<1>8. n \in 0..n
  BY <1>1
<1>9. f[n] \subseteq Keys /\ \A k : Through(k, events, n, keys, f[n])
  BY <1>7, <1>8
<1>10. QED
  BY <1>2, <1>9 DEF Becomes, n

-----------------------------------------------------------------------------
(* Events join and leave the queues *)

\* Nothing on its way: it is so already.
LEMMA BecomesNow ==
  ASSUME NEW k, NEW q \in Seq(Events), NEW D, NEW S, \A i \in 1..Len(q) : q[i].key # k
  PROVE  Becomes(k, q, D, S) <=> (k \in D <=> k \in S)
  BY DEF Becomes, Through

\* Only whether k is in them matters.
LEMMA BecomesOf ==
  ASSUME NEW k, NEW q, NEW D, NEW E, NEW S, NEW R, Becomes(k, q, D, S),
         k \in D <=> k \in E, k \in S <=> k \in R
  PROVE  Becomes(k, q, E, R)
  BY DEF Becomes, Through

\* An event is appended.
LEMMA BecomesAppend ==
  ASSUME NEW k, NEW q \in Seq(Events), NEW e \in Events, NEW D, NEW S, NEW R,
         Becomes(k, q, D, S),
         e.key = k => (k \in R <=> e.pressed),
         e.key # k => (k \in R <=> k \in S)
  PROVE  Becomes(k, Append(q, e), D, R)
<1> DEFINE n == Len(q)
           r == Append(q, e)
<1>1. /\ n \in Nat /\ Len(r) = n + 1 /\ r[n + 1] = e
      /\ \A i \in 1..n : r[i] = q[i]
  BY LenProperties, AppendProperties
<1> HIDE DEF n, r
<1>2. Through(k, r, n, D, S)
  <2>1. Through(k, q, n, D, S)
    BY DEF Becomes, n
  <2>2. \A i \in 1..n : \A j \in (i + 1)..n : j \in 1..n
    BY <1>1
  <2>3. QED
    BY <1>1, <2>1, <2>2 DEF Through
<1>3. Through(k, r, n + 1, D, R)
  BY <1>1, <1>2, ThroughOneMore
<1>4. QED
  BY <1>1, <1>3 DEF Becomes, r

\* The first event is applied.
LEMMA BecomesTail ==
  ASSUME NEW k, NEW q \in Seq(Events), q # <<>>, NEW D, NEW S, Becomes(k, q, D, S)
  PROVE  Becomes(k, Tail(q), After(D, Head(q)), S)
<1> DEFINE n == Len(q)
           r == Tail(q)
           E == After(D, Head(q))
<1>1. /\ n \in Nat \ {0} /\ Len(r) = n - 1 /\ Head(q) = q[1]
      /\ \A i \in 1..(n - 1) : r[i] = q[i + 1]
  BY LenProperties, HeadTailProperties
<1>2. q[1] \in Events /\ 1 \in 1..n
  BY <1>1, ElementOfSeq
<1>3. /\ q[1].key = k => (k \in E <=> q[1].pressed)
      /\ q[1].key # k => (k \in E <=> k \in D)
  BY <1>1, <1>2, AfterOne
<1> HIDE DEF n, r, E
<1>4. CASE (\A i \in 1..n : q[i].key # k) /\ (k \in D <=> k \in S)
  <2>1. \A i \in 1..Len(r) : i + 1 \in 1..n /\ i \in 1..(n - 1)
    BY <1>1
  <2>2. \A i \in 1..Len(r) : r[i].key # k
    BY <1>1, <1>4, <2>1
  <2>3. k \in E <=> k \in S
    BY <1>2, <1>3, <1>4
  <2>4. QED
    BY <2>2, <2>3 DEF Becomes, Through, r, E
<1>5. ASSUME NEW i \in 1..n, q[i].key = k, q[i].pressed <=> k \in S,
             \A j \in (i + 1)..n : q[j].key # k
      PROVE  Becomes(k, r, E, S)
  <2>1. CASE i = 1
    <3>1. k \in E <=> k \in S
      BY <1>3, <1>5, <2>1
    <3>2. \A j \in 1..Len(r) : r[j] = q[j + 1] /\ j + 1 \in (i + 1)..n
      BY <1>1, <2>1
    <3>3. \A j \in 1..Len(r) : r[j].key # k
      BY <1>5, <3>2
    <3>4. QED
      BY <3>1, <3>3 DEF Becomes, Through
  <2>2. CASE i # 1
    <3>1. PICK h \in 1..Len(r) : h + 1 = i
      <4>1. i - 1 \in 1..Len(r) /\ (i - 1) + 1 = i
        BY <1>1, <2>2
      <4>2. QED
        BY <4>1
    <3>2. r[h] = q[i]
      BY <1>1, <3>1
    <3>3. \A j \in (h + 1)..Len(r) : r[j] = q[j + 1] /\ j + 1 \in (i + 1)..n
      BY <1>1, <3>1
    <3>4. \A j \in (h + 1)..Len(r) : r[j].key # k
      BY <1>5, <3>3
    <3>5. QED
      BY <1>5, <3>2, <3>4 DEF Becomes, Through
  <2>3. QED
    BY <2>1, <2>2
<1>6. Becomes(k, r, E, S)
  BY <1>4, <1>5 DEF Becomes, Through, n, r, E
<1>7. QED
  BY <1>6 DEF r, E

\* d events after the first a are dropped, none of them about k.
LEMMA BecomesWithout ==
  ASSUME NEW k, NEW q \in Seq(Events), NEW r \in Seq(Events), NEW a \in Nat, NEW d \in Nat,
         NEW D, NEW S, Becomes(k, q, D, S),
         a <= Len(r), Len(q) = Len(r) + d,
         \A i \in 1..a : r[i] = q[i],
         \A i \in (a + 1)..Len(r) : r[i] = q[i + d],
         \A i \in (a + 1)..(a + d) : q[i].key # k
  PROVE  Becomes(k, r, D, S)
<1> DEFINE n == Len(r)
<1>1. n \in Nat /\ Len(q) = n + d /\ a <= n
  BY LenProperties
<1> HIDE DEF n
<1>2. CASE (\A i \in 1..Len(q) : q[i].key # k) /\ (k \in D <=> k \in S)
  <2>1. ASSUME NEW i \in 1..n
        PROVE  r[i].key # k
    <3>1. CASE i \in 1..a
      <4>1. i \in 1..Len(q) /\ r[i] = q[i]
        BY <1>1, <3>1
      <4>2. QED
        BY <1>2, <4>1
    <3>2. CASE i \in (a + 1)..n
      <4>1. i + d \in 1..Len(q) /\ r[i] = q[i + d]
        BY <1>1, <3>2 DEF n
      <4>2. QED
        BY <1>2, <4>1
    <3>3. QED
      BY <1>1, <3>1, <3>2
  <2>2. QED
    BY <1>2, <2>1 DEF Becomes, Through, n
<1>3. ASSUME NEW i \in 1..Len(q), q[i].key = k, q[i].pressed <=> k \in S,
             \A j \in (i + 1)..Len(q) : q[j].key # k
      PROVE  Becomes(k, r, D, S)
  <2>1. ASSUME NEW h \in 1..n, r[h] = q[i],
               \A j \in (h + 1)..n : r[j].key # k
        PROVE  Becomes(k, r, D, S)
    BY <1>3, <2>1 DEF Becomes, Through, n
  <2>2. \A j \in (a + 1)..n : r[j] = q[j + d] /\ j + d \in 1..Len(q)
    BY <1>1 DEF n
  <2>3. CASE i \in 1..a
    <3>1. i \in 1..n /\ r[i] = q[i]
      BY <1>1, <2>3
    <3>2. ASSUME NEW j \in (i + 1)..n
          PROVE  r[j].key # k
      <4>1. CASE j \in 1..a
        <5>1. j \in (i + 1)..Len(q) /\ r[j] = q[j]
          BY <1>1, <4>1, <2>3
        <5>2. QED
          BY <1>3, <5>1
      <4>2. CASE j \in (a + 1)..n
        <5>1. j + d \in (i + 1)..Len(q) /\ r[j] = q[j + d]
          BY <1>1, <2>2, <2>3, <4>2
        <5>2. QED
          BY <1>3, <5>1
      <4>3. QED
        BY <1>1, <2>3, <4>1, <4>2
    <3>3. QED
      BY <2>1, <3>1, <3>2
  <2>4. CASE i \in (a + d + 1)..(n + d)
    <3>1. PICK h \in (a + 1)..n : h + d = i
      <4>1. i - d \in (a + 1)..n /\ (i - d) + d = i
        BY <1>1, <2>4
      <4>2. QED
        BY <4>1
    <3>2. h \in 1..n /\ r[h] = q[i]
      BY <1>1, <2>2, <3>1
    <3>3. \A j \in (h + 1)..n : j \in (a + 1)..n /\ j + d \in (i + 1)..Len(q)
      BY <1>1, <3>1
    <3>4. \A j \in (h + 1)..n : r[j].key # k
      BY <1>3, <2>2, <3>3
    <3>5. QED
      BY <2>1, <3>2, <3>4
  <2>5. i \notin (a + 1)..(a + d)
    BY <1>3
  <2>6. QED
    BY <1>1, <2>3, <2>4, <2>5
<1>4. QED
  BY <1>2, <1>3 DEF Becomes, Through

\* One batch of events after another.
LEMMA BecomesConcat ==
  ASSUME NEW k, NEW p \in Seq(Events), NEW q \in Seq(Events), NEW D, NEW S, NEW R,
         Becomes(k, p, D, S), Becomes(k, q, S, R)
  PROVE  Becomes(k, p \o q, D, R)
<1> DEFINE n == Len(p)
           m == Len(q)
           r == p \o q
<1>1. /\ n \in Nat /\ m \in Nat /\ Len(r) = n + m
      /\ \A i \in 1..(n + m) : r[i] = IF i <= n THEN p[i] ELSE q[i - n]
  BY LenProperties, ConcatProperties
<1> HIDE DEF n, m, r
<1>2. /\ \A i \in 1..n : i \in 1..Len(r) /\ r[i] = p[i]
      /\ \A i \in 1..m : i + n \in 1..Len(r) /\ r[i + n] = q[i]
  <2>1. \A i \in 1..n : i \in 1..(n + m) /\ i <= n
    BY <1>1
  <2>2. \A i \in 1..m : i + n \in 1..(n + m) /\ ~(i + n <= n) /\ (i + n) - n = i
    BY <1>1
  <2>3. QED
    BY <1>1, <2>1, <2>2
<1>3. \A j \in 1..Len(r) : j \in 1..n \/ \E h \in 1..m : j = h + n
  <2>1. \A j \in (n + 1)..(n + m) : j - n \in 1..m /\ j = (j - n) + n
    BY <1>1
  <2>2. \A j \in 1..Len(r) : j \in 1..n \/ j \in (n + 1)..(n + m)
    BY <1>1
  <2>3. QED
    BY <2>1, <2>2
<1>4. CASE \E i \in 1..m : /\ q[i].key = k /\ (q[i].pressed <=> k \in R)
                           /\ \A j \in (i + 1)..m : q[j].key # k
  <2>1. PICK i \in 1..m : /\ q[i].key = k /\ (q[i].pressed <=> k \in R)
                          /\ \A j \in (i + 1)..m : q[j].key # k
    BY <1>4
  <2>2. i + n \in 1..Len(r) /\ r[i + n] = q[i]
    BY <1>2
  <2>3. ASSUME NEW j \in ((i + n) + 1)..Len(r)
        PROVE  r[j].key # k
    <3>1. PICK h \in (i + 1)..m : j = h + n
      <4>1. j - n \in (i + 1)..m /\ j = (j - n) + n
        BY <1>1
      <4>2. QED
        BY <4>1
    <3>2. h \in 1..m
      BY <1>1
    <3>3. QED
      BY <1>2, <2>1, <3>1, <3>2
  <2>4. QED
    BY <2>1, <2>2, <2>3 DEF Becomes, Through, r
<1>5. CASE (\A i \in 1..m : q[i].key # k) /\ (k \in S <=> k \in R)
  <2>1. \A h \in 1..m : r[h + n].key # k
    BY <1>2, <1>5
  <2>2. CASE (\A i \in 1..n : p[i].key # k) /\ (k \in D <=> k \in S)
    <3>1. \A j \in 1..Len(r) : r[j].key # k
      BY <1>2, <1>3, <2>1, <2>2
    <3>2. QED
      BY <1>5, <2>2, <3>1 DEF Becomes, Through, r
  <2>3. CASE \E i \in 1..n : /\ p[i].key = k /\ (p[i].pressed <=> k \in S)
                             /\ \A j \in (i + 1)..n : p[j].key # k
    <3>1. PICK i \in 1..n : /\ p[i].key = k /\ (p[i].pressed <=> k \in S)
                            /\ \A j \in (i + 1)..n : p[j].key # k
      BY <2>3
    <3>2. ASSUME NEW j \in (i + 1)..Len(r)
          PROVE  r[j].key # k
      <4>1. j \in 1..Len(r)
        BY <1>1
      <4>2. CASE j \in 1..n
        <5>1. j \in (i + 1)..n
          BY <1>1, <4>2
        <5>2. QED
          BY <1>2, <3>1, <4>2, <5>1
      <4>3. QED
        BY <1>3, <2>1, <4>1, <4>2
    <3>3. QED
      BY <1>2, <1>5, <3>1, <3>2 DEF Becomes, Through, r
  <2>4. QED
    BY <2>2, <2>3 DEF Becomes, Through, n
<1>6. QED
  BY <1>4, <1>5 DEF Becomes, Through, m

\* The first batch of two has been applied.
LEMMA BecomesSuffix ==
  ASSUME NEW k, NEW p \in Seq(Events), NEW q \in Seq(Events), NEW D, NEW S, NEW R,
         Becomes(k, p, D, S), Becomes(k, p \o q, D, R)
  PROVE  Becomes(k, q, S, R)
<1> DEFINE n == Len(p)
           m == Len(q)
           r == p \o q
<1>1. /\ n \in Nat /\ m \in Nat /\ Len(r) = n + m
      /\ \A i \in 1..(n + m) : r[i] = IF i <= n THEN p[i] ELSE q[i - n]
  BY LenProperties, ConcatProperties
<1> HIDE DEF n, m, r
<1>2. /\ \A i \in 1..n : i \in 1..Len(r) /\ r[i] = p[i]
      /\ \A i \in 1..m : i + n \in 1..Len(r) /\ r[i + n] = q[i]
  <2>1. \A i \in 1..n : i \in 1..(n + m) /\ i <= n
    BY <1>1
  <2>2. \A i \in 1..m : i + n \in 1..(n + m) /\ ~(i + n <= n) /\ (i + n) - n = i
    BY <1>1
  <2>3. QED
    BY <1>1, <2>1, <2>2
<1>3. CASE (\A i \in 1..Len(r) : r[i].key # k) /\ (k \in D <=> k \in R)
  <2>1. \A i \in 1..n : p[i].key # k
    BY <1>2, <1>3
  <2>2. k \in D <=> k \in S
    BY <2>1 DEF Becomes, Through, n
  <2>3. \A i \in 1..m : q[i].key # k
    BY <1>2, <1>3
  <2>4. QED
    BY <1>3, <2>2, <2>3 DEF Becomes, Through, m
<1>4. ASSUME NEW i \in 1..Len(r), r[i].key = k, r[i].pressed <=> k \in R,
             \A j \in (i + 1)..Len(r) : r[j].key # k
      PROVE  Becomes(k, q, S, R)
  <2>1. CASE i \in 1..n
    <3>1. \A j \in 1..m : j + n \in (i + 1)..Len(r)
      BY <1>1, <2>1
    <3>2. \A j \in 1..m : q[j].key # k
      BY <1>2, <1>4, <3>1
    <3>3. \A j \in (i + 1)..n : j \in (i + 1)..Len(r) /\ j \in 1..n
      BY <1>1, <2>1
    <3>4. \A j \in (i + 1)..n : p[j].key # k
      BY <1>2, <1>4, <3>3
    <3>5. k \in S <=> k \in R
      <4>1. p[i].key = k /\ (p[i].pressed <=> k \in R)
        BY <1>2, <1>4, <2>1
      <4>2. PICK h \in 1..n : /\ p[h].key = k /\ (p[h].pressed <=> k \in S)
                              /\ \A j \in (h + 1)..n : p[j].key # k
        BY <2>1, <4>1 DEF Becomes, Through, n
      <4>3. h \notin (i + 1)..n /\ i \notin (h + 1)..n
        BY <3>4, <4>1, <4>2
      <4>4. h = i
        BY <1>1, <2>1, <4>3
      <4>5. QED
        BY <4>1, <4>2, <4>4
    <3>6. QED
      BY <3>2, <3>5 DEF Becomes, Through, m
  <2>2. CASE i \in (n + 1)..(n + m)
    <3>1. PICK h \in 1..m : h + n = i
      <4>1. i - n \in 1..m /\ (i - n) + n = i
        BY <1>1, <2>2
      <4>2. QED
        BY <4>1
    <3>2. \A j \in (h + 1)..m : j \in 1..m /\ j + n \in (i + 1)..Len(r)
      BY <1>1, <3>1
    <3>3. \A j \in (h + 1)..m : q[j].key # k
      BY <1>2, <1>4, <3>2
    <3>4. q[h] = r[i]
      BY <1>2, <3>1
    <3>5. QED
      BY <1>4, <3>3, <3>4 DEF Becomes, Through, m
  <2>3. QED
    BY <1>1, <2>1, <2>2
<1>5. QED
  BY <1>3, <1>4 DEF Becomes, Through, r
-----------------------------------------------------------------------------
(* Types *)

Queues == /\ kernel \in Seq(Events) /\ chan \in Seq(Events) /\ batch \in Seq(Events)
          /\ net \in Seq(Events) /\ cmds \in Seq(Events)

Switches == wasActive \in BOOLEAN /\ paused \in BOOLEAN /\ recvPaused \in BOOLEAN

KeySets == /\ phys \subseteq Keys /\ helperDown \subseteq Keys /\ tracked \subseteq Keys
           /\ down \subseteq Keys /\ combo \in Combos

LEMMA TypeParts ==
  /\ TypeOK <=> Queues /\ Switches /\ KeySets /\ lost \subseteq Keys
  /\ TypeOK' <=> Queues' /\ Switches' /\ KeySets' /\ lost' \subseteq Keys
<1>1. TypeOK <=> Queues /\ Switches /\ KeySets /\ lost \subseteq Keys
  BY DEF TypeOK, Queues, Switches, KeySets
<1>2. TypeOK' <=> Queues' /\ Switches' /\ KeySets' /\ lost' \subseteq Keys
  BY DEF TypeOK, Queues, Switches, KeySets
<1>3. QED
  BY <1>1, <1>2

LEMMA KeysOfType == ASSUME NEW q \in Seq(Events)
                    PROVE  KeysOf(q) \subseteq Keys /\ KeysOf(q) = {q[i].key : i \in 1..Len(q)}
<1>1. DOMAIN q = 1..Len(q) /\ \A i \in 1..Len(q) : q[i] \in Events
  BY LenProperties, ElementOfSeq
<1>2. \A i \in 1..Len(q) : q[i].key \in Keys
  BY <1>1, EventParts
<1>3. QED
  BY <1>1, <1>2 DEF KeysOf

\* What one read takes from a socket.
LEMMA Read ==
  ASSUME NEW q \in Seq(Events), NEW n \in Nat \ {0}, n <= Len(q)
  PROVE  /\ q # <<>> /\ Head(q) = q[1] /\ Head(q) \in Events
         /\ SubSeq(q, n + 1, Len(q)) \in Seq(Events)
         /\ Len(SubSeq(q, n + 1, Len(q))) = Len(q) - n
         /\ \A i \in 1..(Len(q) - n) : SubSeq(q, n + 1, Len(q))[i] = q[i + n]
         /\ SubSeq(q, 2, n) \in Seq(Events)
         /\ KeysOf(SubSeq(q, 2, n)) \subseteq Keys
         /\ \A i \in 2..n : q[i].key \in KeysOf(SubSeq(q, 2, n))
<1>1. Len(q) \in Nat /\ \A i \in 1..Len(q) : q[i] \in Events
  BY LenProperties, ElementOfSeq
<1>2. q # <<>> /\ Head(q) = q[1] /\ Head(q) \in Events
  <2>1. q # <<>>
    BY <1>1, EmptySeq
  <2>2. 1 \in 1..Len(q)
    BY <1>1
  <2>3. QED
    BY <1>1, <2>1, <2>2, HeadTailProperties
<1>3. /\ SubSeq(q, n + 1, Len(q)) \in Seq(Events)
      /\ Len(SubSeq(q, n + 1, Len(q))) = Len(q) - n
      /\ \A i \in 1..(Len(q) - n) : SubSeq(q, n + 1, Len(q))[i] = q[i + n]
  <2>1. \A i \in (n + 1)..Len(q) : q[i] \in Events
    BY <1>1
  <2>2. n + 1 \in Int /\ Len(q) \in Int
    BY <1>1
  <2>3. QED
    BY <1>1, <2>1, <2>2, SubSeqProperties
<1>4. /\ SubSeq(q, 2, n) \in Seq(Events)
      /\ Len(SubSeq(q, 2, n)) = n - 1
      /\ \A i \in 1..(n - 1) : SubSeq(q, 2, n)[i] = q[i + 1]
  <2>1. \A i \in 2..n : q[i] \in Events
    BY <1>1
  <2>2. QED
    BY <1>1, <2>1, SubSeqProperties
<1>5. PICK s \in Seq(Events) : s = SubSeq(q, 2, n)
  BY <1>4
<1>6. KeysOf(s) \subseteq Keys /\ KeysOf(s) = {s[i].key : i \in 1..Len(s)}
  BY KeysOfType
<1>7. \A i \in 2..n : i - 1 \in 1..Len(s) /\ s[i - 1] = q[i]
  <2>1. ASSUME NEW i \in 2..n
        PROVE  i - 1 \in 1..Len(s) /\ s[i - 1] = q[i]
    <3>1. i - 1 \in 1..(n - 1) /\ (i - 1) + 1 = i
      OBVIOUS
    <3>2. QED
      BY <1>4, <1>5, <3>1
  <2>2. QED
    BY <2>1
<1>8. \A i \in 2..n : q[i].key \in KeysOf(s)
  <2>1. ASSUME NEW i \in 2..n
        PROVE  q[i].key \in KeysOf(s)
    <3>1. PICK j : j = i - 1
      OBVIOUS
    <3>2. j \in 1..Len(s) /\ s[j] = q[i]
      BY <1>7, <3>1
    <3>3. s[j].key \in KeysOf(s)
      BY <1>6, <3>2
    <3>4. QED
      BY <3>2, <3>3
  <2>2. QED
    BY <2>1
<1>9. KeysOf(SubSeq(q, 2, n)) \subseteq Keys
      /\ \A i \in 2..n : q[i].key \in KeysOf(SubSeq(q, 2, n))
  BY <1>5, <1>6, <1>8
<1>10. QED
  BY <1>2, <1>3, <1>4, <1>9

LEMMA LostType == ASSUME NEW S, Note(S), lost \subseteq Keys, S \subseteq Keys
                  PROVE  lost' \subseteq Keys
  BY DEF Note

LEMMA StrikeEvent == ASSUME NEW k \in Keys
                     PROVE  [key |-> k, pressed |-> k \notin phys] \in Events
  BY DEF Events

LEMMA RepeatEvent == ASSUME NEW k \in Keys
                     PROVE  [key |-> k, pressed |-> TRUE] \in Events
  BY DEF Events

\* What follows the first n events of a queue.
LEMMA Rest ==
  ASSUME NEW q \in Seq(Events), NEW n \in Nat, n <= Len(q)
  PROVE  /\ SubSeq(q, n + 1, Len(q)) \in Seq(Events)
         /\ Len(SubSeq(q, n + 1, Len(q))) = Len(q) - n
         /\ \A i \in 1..(Len(q) - n) : SubSeq(q, n + 1, Len(q))[i] = q[i + n]
         /\ SubSeq(q, 1, n) \in Seq(Events)
         /\ Len(SubSeq(q, 1, n)) = n
         /\ \A i \in 1..n : SubSeq(q, 1, n)[i] = q[i]
<1>1. Len(q) \in Nat /\ \A i \in 1..Len(q) : q[i] \in Events
  BY LenProperties, ElementOfSeq
<1>2. \A i \in (n + 1)..Len(q) : q[i] \in Events
  BY <1>1
<1>3. n + 1 \in Int /\ Len(q) \in Int /\ 1 \in Int /\ n \in Int
  BY <1>1
<1>4. /\ SubSeq(q, n + 1, Len(q)) \in Seq(Events)
      /\ Len(SubSeq(q, n + 1, Len(q))) = Len(q) - n
      /\ \A i \in 1..(Len(q) - n) : SubSeq(q, n + 1, Len(q))[i] = q[i + n]
  BY <1>1, <1>2, <1>3, SubSeqProperties
<1>5. \A i \in 1..n : q[i] \in Events
  BY <1>1
<1>6. /\ SubSeq(q, 1, n) \in Seq(Events)
      /\ Len(SubSeq(q, 1, n)) = n
      /\ \A i \in 1..n : SubSeq(q, 1, n)[i] = q[i]
  BY <1>1, <1>3, <1>5, SubSeqProperties
<1>7. QED
  BY <1>4, <1>6

LEMMA RestType ==
  ASSUME NEW rest \in Rests
  PROVE  rest \in Seq(Events) /\ (rest = <<>> \/ \E e \in Events : rest = <<e>>)
<1>1. rest = <<>> \/ \E e \in Events : rest = <<e>>
  BY DEF Rests
<1>2. <<>> \in Seq(Events) /\ \A e \in Events : <<e>> \in Seq(Events)
  BY EmptySeq
<1>3. QED
  BY <1>1, <1>2

LEMMA TypeHost ==
  ASSUME TypeOK,
         \/ \E k \in Keys : Strike(k) \/ Repeat(k)
         \/ Overrun
         \/ HelperPolls
         \/ \E n \in 1..MaxInFlight : ReadFromHelper(n)
         \/ \E n \in 0..MaxInFlight : \E rest \in Rests : ReadCutOff(n, rest)
  PROVE  TypeOK'
<1>1. Queues /\ Switches /\ KeySets /\ lost \subseteq Keys
  BY TypeParts
<1>2. ASSUME NEW k \in Keys, Strike(k) PROVE TypeOK'
  <2>1. kernel' \in Seq(Events)
    BY <1>1, <1>2, StrikeEvent, AppendProperties DEF Strike, Queues
  <2>2. phys' \subseteq Keys
    BY <1>1, <1>2 DEF Strike, KeySets
  <2>3. lost' \subseteq Keys
    BY <1>1, <1>2, LostType DEF Strike
  <2>4. QED
    BY <1>1, <1>2, <2>1, <2>2, <2>3, TypeParts DEF Strike, Queues, Switches, KeySets, pollVars
<1>3. CASE Overrun
  <2>1. kernel' \in Seq(Events) /\ KeysOf(kernel) \subseteq Keys
    BY <1>1, <1>3, KeysOfType, EmptySeq DEF Overrun, Queues
  <2>2. lost' \subseteq Keys
    BY <1>1, <1>3, <2>1, LostType DEF Overrun
  <2>3. helperDown' \subseteq Keys
    <3>1. Head(kernel) \in Events
      BY <1>1, <1>3, HeadTailProperties DEF Overrun, Queues
    <3>2. After(helperDown, Head(kernel)) \subseteq Keys
      BY <1>1, <3>1, AfterOne DEF KeySets
    <3>3. QED
      BY <1>1, <1>3, <3>2 DEF Overrun, UpdateKeyState, KeySets
  <2>4. QED
    BY <1>1, <1>3, <2>1, <2>2, <2>3, TypeParts
    DEF Overrun, Queues, Switches, KeySets, pollVars
<1>4. CASE HelperPolls
  <2>1. kernel' \in Seq(Events) /\ Head(kernel) \in Events
    BY <1>1, <1>4, HeadTailProperties DEF HelperPolls, Queues
  <2>2. /\ helperDown' \in {helperDown, After(helperDown, Head(kernel))}
        /\ chan' \in {chan, Append(chan, Head(kernel))}
    BY <1>4 DEF HelperPolls, UpdateKeyState, WriteReport
  <2>3. helperDown' \subseteq Keys /\ chan' \in Seq(Events)
    <3>1. After(helperDown, Head(kernel)) \subseteq Keys
      BY <1>1, <2>1, AfterOne DEF KeySets
    <3>2. Append(chan, Head(kernel)) \in Seq(Events)
      BY <1>1, <2>1, AppendProperties DEF Queues
    <3>3. QED
      BY <1>1, <2>2, <3>1, <3>2 DEF Queues, KeySets
  <2>4. lost' \subseteq Keys
    BY <1>1, <1>4, LostType DEF HelperPolls
  <2>5. QED
    BY <1>1, <1>4, <2>1, <2>3, <2>4, TypeParts
    DEF HelperPolls, Queues, Switches, KeySets, pollVars
<1>5. ASSUME NEW n \in 1..MaxInFlight, ReadFromHelper(n) PROVE TypeOK'
  <2>1. n \in Nat \ {0} /\ n <= Len(chan) /\ chan \in Seq(Events)
    BY <1>1, <1>5 DEF ReadFromHelper, Queues
  <2>2. chan' \in Seq(Events) /\ batch' \in Seq(Events)
    BY <1>1, <1>5, <2>1, Read, AppendProperties DEF ReadFromHelper, Queues
  <2>3. lost' \subseteq Keys
    BY <1>1, <1>5, <2>1, Read, LostType DEF ReadFromHelper
  <2>4. QED
    BY <1>1, <1>5, <2>2, <2>3, TypeParts DEF ReadFromHelper, Queues, Switches, KeySets, pollVars
<1>6. ASSUME NEW k \in Keys, Repeat(k) PROVE TypeOK'
  <2>1. kernel' \in Seq(Events)
    BY <1>1, <1>6, RepeatEvent, AppendProperties DEF Repeat, Queues
  <2>2. lost' \subseteq Keys
    BY <1>1, <1>6, LostType DEF Repeat
  <2>3. QED
    BY <1>1, <1>6, <2>1, <2>2, TypeParts DEF Repeat, Queues, Switches, KeySets, pollVars
<1>7. ASSUME NEW n \in 0..MaxInFlight, NEW rest \in Rests, ReadCutOff(n, rest) PROVE TypeOK'
  <2>1. n \in Nat /\ n <= Len(chan) /\ chan \in Seq(Events) /\ rest \in Seq(Events)
    BY <1>1, <1>7, RestType DEF ReadCutOff, Queues
  <2>2. /\ SubSeq(chan, n + 1, Len(chan)) \in Seq(Events)
        /\ SubSeq(chan, 1, n) \in Seq(Events)
    BY <2>1, Rest
  <2>3. chan' \in Seq(Events) /\ batch' \in Seq(Events)
    BY <1>1, <1>7, <2>1, <2>2, ConcatProperties DEF ReadCutOff, Queues
  <2>4. KeysOf(SubSeq(chan, 1, n) \o rest) \subseteq Keys
    BY <2>1, <2>2, ConcatProperties, KeysOfType
  <2>5. lost' \subseteq Keys
    BY <1>1, <1>7, <2>4, LostType DEF ReadCutOff
  <2>6. QED
    BY <1>1, <1>7, <2>3, <2>5, TypeParts DEF ReadCutOff, Queues, Switches, KeySets, pollVars
<1>8. QED
  BY <1>2, <1>3, <1>4, <1>5, <1>6, <1>7

LEMMA TypePolled ==
  ASSUME TypeOK, PollEvents \/ \E c \in Combos : SetPauseKeyCombo(c)
  PROVE  TypeOK'
<1>1. Queues /\ Switches /\ KeySets /\ lost \subseteq Keys
  BY TypeParts
<1>2. CASE PollEvents
  <2>1. tracked' \subseteq Keys
    BY <1>1, <1>2, TrackBecomes DEF PollEvents, Queues, KeySets
  <2>2. /\ wasActive' = (combo \subseteq tracked')
        /\ paused' = IF combo \subseteq tracked' /\ ~ wasActive THEN ~ paused ELSE paused
    BY <1>2 DEF PollEvents, TogglePauseCombo
  <2>3. wasActive' \in BOOLEAN
    BY <2>2
  <2>4. paused' \in BOOLEAN
    BY <1>1, <2>2 DEF Switches
  <2>5. batch' \in Seq(Events) /\ net' \in Seq(Events)
    BY <1>1, <1>2, ConcatProperties, EmptySeq DEF PollEvents, Queues
  <2>6. (IF paused' THEN KeysOf(batch) ELSE {}) \subseteq Keys
    BY <1>1, KeysOfType DEF Queues
  <2>7. lost' \subseteq Keys
    BY <1>1, <1>2, <2>6, LostType DEF PollEvents
  <2>8. QED
    BY <1>1, <1>2, <2>1, <2>3, <2>4, <2>5, <2>7, TypeParts
    DEF PollEvents, Queues, Switches, KeySets
<1>3. ASSUME NEW c \in Combos, SetPauseKeyCombo(c) PROVE TypeOK'
  <2>1. lost' \subseteq Keys
    BY <1>1, <1>3, LostType DEF SetPauseKeyCombo, KeySets
  <2>2. QED
    BY <1>1, <1>3, <2>1, TypeParts DEF SetPauseKeyCombo, Queues, Switches, KeySets
<1>4. QED
  BY <1>2, <1>3

LEMMA TypeReceiver ==
  ASSUME TypeOK,
         \/ ReceiverToggles
         \/ HandleInput
         \/ \E n \in 1..MaxInFlight : HelperSimulates(n)
         \/ \E n \in 0..MaxInFlight : \E rest \in Rests : SimulatesCutOff(n, rest)
  PROVE  TypeOK'
<1>1. Queues /\ Switches /\ KeySets /\ lost \subseteq Keys
  BY TypeParts
<1>2. CASE ReceiverToggles
  <2>1. lost' \subseteq Keys /\ recvPaused' \in BOOLEAN
    BY <1>1, <1>2, LostType DEF ReceiverToggles
  <2>2. QED
    BY <1>1, <1>2, <2>1, TypeParts DEF ReceiverToggles, Queues, Switches, KeySets, pollVars
<1>3. CASE HandleInput
  <2>1. net' \in Seq(Events) /\ Head(net) \in Events
    BY <1>1, <1>3, HeadTailProperties DEF HandleInput, Queues
  <2>2. cmds' \in Seq(Events)
    BY <1>1, <1>3, <2>1, AppendProperties DEF HandleInput, Queues
  <2>3. (IF recvPaused THEN {Head(net).key} ELSE {}) \subseteq Keys
    BY <2>1, EventParts
  <2>4. lost' \subseteq Keys
    BY <1>1, <1>3, <2>3, LostType DEF HandleInput
  <2>5. QED
    BY <1>1, <1>3, <2>1, <2>2, <2>4, TypeParts
    DEF HandleInput, Queues, Switches, KeySets, pollVars
<1>4. ASSUME NEW n \in 1..MaxInFlight, HelperSimulates(n) PROVE TypeOK'
  <2>1. n \in Nat \ {0} /\ n <= Len(cmds) /\ cmds \in Seq(Events)
    BY <1>1, <1>4 DEF HelperSimulates, Queues
  <2>2. cmds' \in Seq(Events) /\ Head(cmds) \in Events
    BY <1>1, <1>4, <2>1, Read DEF HelperSimulates
  <2>3. down' \subseteq Keys
    BY <1>1, <1>4, <2>2, AfterOne DEF HelperSimulates, KeySets
  <2>4. lost' \subseteq Keys
    BY <1>1, <1>4, <2>1, Read, LostType DEF HelperSimulates
  <2>5. QED
    BY <1>1, <1>4, <2>2, <2>3, <2>4, TypeParts
    DEF HelperSimulates, Queues, Switches, KeySets, pollVars
<1>5. ASSUME NEW n \in 0..MaxInFlight, NEW rest \in Rests, SimulatesCutOff(n, rest)
      PROVE  TypeOK'
  <2>1. n \in Nat /\ n <= Len(cmds) /\ cmds \in Seq(Events) /\ rest \in Seq(Events)
    BY <1>1, <1>5, RestType DEF SimulatesCutOff, Queues
  <2>2. /\ SubSeq(cmds, n + 1, Len(cmds)) \in Seq(Events)
        /\ SubSeq(cmds, 1, n) \in Seq(Events)
    BY <2>1, Rest
  <2>3. down' \subseteq Keys
    <3>1. rest # <<>> => Head(rest) \in Events
      BY <2>1, HeadTailProperties
    <3>2. rest # <<>> => After(down, Head(rest)) \subseteq Keys
      BY <1>1, <3>1, AfterOne DEF KeySets
    <3>3. QED
      BY <1>1, <1>5, <3>2 DEF SimulatesCutOff, KeySets
  <2>4. KeysOf(SubSeq(cmds, 1, n) \o rest) \subseteq Keys
    BY <2>1, <2>2, ConcatProperties, KeysOfType
  <2>5. lost' \subseteq Keys
    BY <1>1, <1>5, <2>4, LostType DEF SimulatesCutOff
  <2>6. QED
    BY <1>1, <1>5, <2>2, <2>3, <2>5, TypeParts
    DEF SimulatesCutOff, Queues, Switches, KeySets, pollVars
<1>6. QED
  BY <1>2, <1>3, <1>4, <1>5

LEMMA TypeStep == ASSUME TypeOK, [Next]_vars PROVE TypeOK'
<1>1. CASE UNCHANGED vars
  BY <1>1 DEF vars, pollVars, TypeOK
<1>2. CASE Next
  BY <1>2, TypeHost, TypePolled, TypeReceiver DEF Next
<1>3. QED
  BY <1>1, <1>2

\* The variables stay in their types: only key codes are passed on, tracked and pressed.
THEOREM TypeCorrect == Spec => []TypeOK
<1>1. Init => TypeOK
  <2> SUFFICES ASSUME Init PROVE TypeOK
    OBVIOUS
  <2>1. <<>> \in Seq(Events)
    BY EmptySeq
  <2>2. Queues /\ Switches
    BY <2>1 DEF Init, Queues, Switches
  <2>3. KeySets /\ lost \subseteq Keys
    BY DEF Init, KeySets
  <2>4. QED
    BY <2>2, <2>3, TypeParts
<1>2. TypeOK /\ [Next]_vars => TypeOK'
  BY TypeStep
<1>3. QED
  BY <1>1, <1>2, PTL DEF Spec
-----------------------------------------------------------------------------
(* What has lost no event *)

\* Each part believes of k what the part before it does, or will when it has read
\* what is on its way to it.
Follows(k) ==
  /\ Becomes(k, kernel, helperDown, phys)
  /\ Becomes(k, batch \o chan, tracked, helperDown)
  /\ Becomes(k, cmds \o net, down, tracked)

Followed == \A k \in Keys \ lost : Follows(k)

LEMMA KeysOfConcat ==
  ASSUME NEW p \in Seq(Events), NEW q \in Seq(Events)
  PROVE  p \o q \in Seq(Events) /\ KeysOf(p \o q) = KeysOf(p) \cup KeysOf(q)
<1>1. /\ Len(p) \in Nat /\ Len(q) \in Nat /\ p \o q \in Seq(Events)
      /\ Len(p \o q) = Len(p) + Len(q)
  BY LenProperties, ConcatProperties
<1>2. /\ \A i \in 1..Len(p) : i \in 1..Len(p \o q) /\ (p \o q)[i] = p[i]
      /\ \A i \in 1..Len(q) : i + Len(p) \in 1..Len(p \o q) /\ (p \o q)[i + Len(p)] = q[i]
  BY <1>1, ConcatProperties
<1>3. \A j \in 1..Len(p \o q) : j \in 1..Len(p) \/ \E h \in 1..Len(q) : j = h + Len(p)
  <2>1. \A j \in (Len(p) + 1)..(Len(p) + Len(q)) :
          j - Len(p) \in 1..Len(q) /\ j = (j - Len(p)) + Len(p)
    BY <1>1
  <2>2. \A j \in 1..Len(p \o q) : j \in 1..Len(p) \/ j \in (Len(p) + 1)..(Len(p) + Len(q))
    BY <1>1
  <2>3. QED
    BY <2>1, <2>2
<1>4. /\ KeysOf(p) = {p[i].key : i \in 1..Len(p)}
      /\ KeysOf(q) = {q[i].key : i \in 1..Len(q)}
      /\ KeysOf(p \o q) = {(p \o q)[i].key : i \in 1..Len(p \o q)}
  BY <1>1, KeysOfType
<1>5. KeysOf(p) \cup KeysOf(q) \subseteq KeysOf(p \o q)
  BY <1>2, <1>4
<1>6. KeysOf(p \o q) \subseteq KeysOf(p) \cup KeysOf(q)
  BY <1>2, <1>3, <1>4
<1>7. QED
  BY <1>1, <1>5, <1>6

LEMMA OnItsWay ==
  ASSUME Queues
  PROVE  KeysOf(InFlight) = KeysOf(kernel) \cup KeysOf(chan) \cup KeysOf(batch)
                              \cup KeysOf(net) \cup KeysOf(cmds)
<1>1. ASSUME NEW a \in Seq(Events), NEW b \in Seq(Events), NEW c \in Seq(Events),
             NEW d \in Seq(Events), NEW e \in Seq(Events)
      PROVE  KeysOf(a \o b \o c \o d \o e)
               = KeysOf(a) \cup KeysOf(b) \cup KeysOf(c) \cup KeysOf(d) \cup KeysOf(e)
  <2>1. a \o b \in Seq(Events) /\ KeysOf(a \o b) = KeysOf(a) \cup KeysOf(b)
    BY KeysOfConcat
  <2>2. PICK ab \in Seq(Events) : ab = a \o b
    BY <2>1
  <2>3. ab \o c \in Seq(Events) /\ KeysOf(ab \o c) = KeysOf(ab) \cup KeysOf(c)
    BY KeysOfConcat
  <2>4. PICK abc \in Seq(Events) : abc = ab \o c
    BY <2>3
  <2>5. abc \o d \in Seq(Events) /\ KeysOf(abc \o d) = KeysOf(abc) \cup KeysOf(d)
    BY KeysOfConcat
  <2>6. PICK abcd \in Seq(Events) : abcd = abc \o d
    BY <2>5
  <2>7. KeysOf(abcd \o e) = KeysOf(abcd) \cup KeysOf(e)
    BY KeysOfConcat
  <2>8. QED
    BY <2>1, <2>2, <2>3, <2>4, <2>5, <2>6, <2>7
<1>2. QED
  BY <1>1 DEF InFlight, Queues

\* A key no event of which is there is not named by any.
LEMMA NotAbout ==
  ASSUME NEW q \in Seq(Events), NEW k, k \notin KeysOf(q)
  PROVE  \A i \in 1..Len(q) : q[i].key # k
  BY KeysOfType

\* Nothing about k is on its way: what follows is already so.
LEMMA FollowsIdle ==
  ASSUME Queues, NEW k, k \notin KeysOf(InFlight)
  PROVE  Follows(k) <=> /\ k \in helperDown <=> k \in phys
                        /\ k \in tracked <=> k \in helperDown
                        /\ k \in down <=> k \in tracked
<1>1. k \notin KeysOf(kernel) \cup KeysOf(chan) \cup KeysOf(batch) \cup KeysOf(net)
                 \cup KeysOf(cmds)
  BY OnItsWay
<1>2. /\ batch \o chan \in Seq(Events) /\ k \notin KeysOf(batch \o chan)
      /\ cmds \o net \in Seq(Events) /\ k \notin KeysOf(cmds \o net)
  BY <1>1, KeysOfConcat DEF Queues
<1>3. Becomes(k, kernel, helperDown, phys) <=> (k \in helperDown <=> k \in phys)
  BY <1>1, NotAbout, BecomesNow DEF Queues
<1>4. Becomes(k, batch \o chan, tracked, helperDown) <=> (k \in tracked <=> k \in helperDown)
  BY <1>2, NotAbout, BecomesNow
<1>5. Becomes(k, cmds \o net, down, tracked) <=> (k \in down <=> k \in tracked)
  BY <1>2, NotAbout, BecomesNow
<1>6. QED
  BY <1>3, <1>4, <1>5 DEF Follows

LEMMA FollowsAgreed == Queues => \A k : Agreed(k) => Follows(k)
  BY FollowsIdle DEF Agreed

\* A step is good if it follows on those that lose no event in it.
LEMMA FollowedBy ==
  ASSUME TypeOK', Followed, NEW S, Note(S),
         \A k \in Keys : k \notin lost \cup S /\ Follows(k) => Follows(k)'
  PROVE  Followed'
<1>1. (Queues => \A k : Agreed(k) => Follows(k))'
  BY FollowsAgreed, PTL
<1>2. Queues'
  BY TypeParts
<1>3. ASSUME NEW k \in Keys, k \notin lost' PROVE Follows(k)'
  <2>1. k \notin lost \cup S \/ Agreed(k)'
    BY <1>3 DEF Note
  <2>2. CASE Agreed(k)'
    BY <1>1, <1>2, <2>2
  <2>3. CASE k \notin lost \cup S
    BY <2>3 DEF Followed
  <2>4. QED
    BY <2>1, <2>2, <2>3
<1>4. QED
  BY <1>3 DEF Followed

\* One read takes n events, of which the first is passed on.
LEMMA BecomesRead ==
  ASSUME NEW k, NEW p \in Seq(Events), NEW q \in Seq(Events), NEW n \in Nat \ {0},
         n <= Len(q), k \notin KeysOf(SubSeq(q, 2, n)), NEW D, NEW S,
         Becomes(k, p \o q, D, S)
  PROVE  Becomes(k, Append(p, Head(q)) \o SubSeq(q, n + 1, Len(q)), D, S)
<1> DEFINE a == Len(p)
           b == Len(q)
           t == SubSeq(q, n + 1, Len(q))
           h == Append(p, Head(q))
           r == h \o t
           s == p \o q
<1>1. /\ a \in Nat /\ b \in Nat /\ n <= b /\ s \in Seq(Events) /\ Len(s) = a + b
      /\ \A i \in 1..(a + b) : s[i] = IF i <= a THEN p[i] ELSE q[i - a]
  BY LenProperties, ConcatProperties
<1>2. /\ t \in Seq(Events) /\ Len(t) = b - n /\ \A i \in 1..(b - n) : t[i] = q[i + n]
      /\ Head(q) = q[1] /\ Head(q) \in Events /\ \A i \in 2..n : q[i].key # k
  BY Read
<1>3. h \in Seq(Events) /\ Len(h) = a + 1 /\ h[a + 1] = q[1] /\ \A i \in 1..a : h[i] = p[i]
  BY <1>2, AppendProperties
<1> HIDE DEF a, b, t, h, s
<1>4. /\ r \in Seq(Events) /\ Len(r) = a + 1 + (b - n)
      /\ \A i \in 1..(a + 1 + (b - n)) : r[i] = IF i <= a + 1 THEN h[i] ELSE t[i - (a + 1)]
  <2>1. /\ r \in Seq(Events) /\ Len(r) = Len(h) + Len(t)
        /\ \A i \in 1..(Len(h) + Len(t)) : r[i] = IF i <= Len(h) THEN h[i] ELSE t[i - Len(h)]
    <3>1. h \in Seq(Events) /\ t \in Seq(Events)
      BY <1>2, <1>3
    <3>2. QED
      BY <3>1, ConcatProperties
  <2>2. Len(h) = a + 1 /\ Len(t) = b - n
    BY <1>2, <1>3
  <2> HIDE DEF r
  <2>3. QED
    BY <2>1, <2>2
<1> HIDE DEF r
<1>5. PICK d \in Nat : n = d + 1
  <2>1. n - 1 \in Nat /\ n = (n - 1) + 1
    OBVIOUS
  <2>2. QED
    BY <2>1
<1>6. a + 1 \in Nat /\ a + 1 <= Len(r) /\ Len(s) = Len(r) + d
  BY <1>1, <1>4, <1>5
<1>7. \A i \in 1..(a + 1) : r[i] = s[i]
  <2>1. ASSUME NEW i \in 1..a
        PROVE  r[i] = s[i]
    <3>1. i \in 1..(a + 1 + (b - n)) /\ i \in 1..(a + b) /\ i <= a + 1 /\ i <= a
      BY <1>1
    <3>2. QED
      BY <1>1, <1>3, <1>4, <3>1
  <2>2. r[a + 1] = s[a + 1]
    <3>1. /\ a + 1 \in 1..(a + 1 + (b - n)) /\ a + 1 <= a + 1
          /\ a + 1 \in 1..(a + b) /\ ~(a + 1 <= a) /\ (a + 1) - a = 1
      BY <1>1
    <3>2. r[a + 1] = h[a + 1]
      BY <1>4, <3>1
    <3>3. s[a + 1] = q[1]
      BY <1>1, <3>1
    <3>4. QED
      BY <1>3, <3>2, <3>3
  <2>3. \A i \in 1..(a + 1) : i \in 1..a \/ i = a + 1
    BY <1>1
  <2>4. QED
    BY <2>1, <2>2, <2>3
<1>8. ASSUME NEW i \in ((a + 1) + 1)..Len(r)
      PROVE  r[i] = s[i + d]
  <2>1. /\ i \in 1..(a + 1 + (b - n)) /\ ~(i <= a + 1) /\ i - (a + 1) \in 1..(b - n)
        /\ i + d \in 1..(a + b) /\ ~(i + d <= a) /\ (i - (a + 1)) + n = (i + d) - a
    BY <1>1, <1>4, <1>5
  <2>2. r[i] = t[i - (a + 1)]
    BY <1>4, <2>1
  <2>3. t[i - (a + 1)] = q[(i - (a + 1)) + n]
    BY <1>2, <2>1
  <2>4. s[i + d] = q[(i + d) - a]
    BY <1>1, <2>1
  <2>5. QED
    BY <2>1, <2>2, <2>3, <2>4
<1>9. ASSUME NEW i \in ((a + 1) + 1)..((a + 1) + d)
      PROVE  s[i].key # k
  <2>1. i \in 1..(a + b) /\ ~(i <= a) /\ i - a \in 2..n
    BY <1>1, <1>5
  <2>2. s[i] = q[i - a]
    BY <1>1, <2>1
  <2>3. QED
    BY <1>2, <2>1, <2>2
<1>10. Becomes(k, s, D, S)
  BY DEF s
<1>11. Becomes(k, r, D, S)
  BY <1>1, <1>4, <1>6, <1>7, <1>8, <1>9, <1>10, BecomesWithout
<1>12. QED
  BY <1>11 DEF r, h, t

\* One read takes n commands, of which the first is obeyed.
LEMMA BecomesObeyed ==
  ASSUME NEW k, NEW q \in Seq(Events), NEW p \in Seq(Events), NEW n \in Nat \ {0},
         n <= Len(q), k \notin KeysOf(SubSeq(q, 2, n)), NEW D, NEW S,
         Becomes(k, q \o p, D, S)
  PROVE  Becomes(k, SubSeq(q, n + 1, Len(q)) \o p, After(D, Head(q)), S)
<1> DEFINE a == Len(p)
           b == Len(q)
           t == SubSeq(q, n + 1, Len(q))
           r == t \o p
           s == q \o p
<1>1. /\ a \in Nat /\ b \in Nat /\ n <= b /\ s \in Seq(Events) /\ Len(s) = b + a
      /\ \A i \in 1..(b + a) : s[i] = IF i <= b THEN q[i] ELSE p[i - b]
  BY LenProperties, ConcatProperties
<1>2. /\ t \in Seq(Events) /\ Len(t) = b - n /\ \A i \in 1..(b - n) : t[i] = q[i + n]
      /\ Head(q) = q[1] /\ \A i \in 2..n : q[i].key # k
  BY Read
<1> HIDE DEF a, b, t, s
<1>3. /\ r \in Seq(Events) /\ Len(r) = (b - n) + a
      /\ \A i \in 1..((b - n) + a) : r[i] = IF i <= b - n THEN t[i] ELSE p[i - (b - n)]
  BY <1>2, ConcatProperties DEF a
<1> HIDE DEF r
<1>4. PICK d \in Nat : n = d + 1
  <2>1. n - 1 \in Nat /\ n = (n - 1) + 1
    OBVIOUS
  <2>2. QED
    BY <2>1
<1>5. s # <<>> /\ Head(s) = s[1] /\ s[1] = q[1]
  <2>1. 1 \in 1..(b + a) /\ 1 <= b
    BY <1>1
  <2>2. s # <<>>
    BY <1>1, <2>1, EmptySeq
  <2>3. QED
    BY <1>1, <2>1, <2>2, HeadTailProperties
<1>6. PICK u \in Seq(Events) : /\ u = Tail(s) /\ Len(u) = (b + a) - 1
                               /\ \A i \in 1..((b + a) - 1) : u[i] = s[i + 1]
  <2>1. /\ Tail(s) \in Seq(Events) /\ Len(Tail(s)) = Len(s) - 1
        /\ \A i \in 1..Len(Tail(s)) : Tail(s)[i] = s[i + 1]
    BY <1>1, <1>5, HeadTailProperties
  <2>2. PICK u \in Seq(Events) : u = Tail(s)
    BY <2>1
  <2>3. Len(u) = (b + a) - 1 /\ \A i \in 1..Len(u) : u[i] = s[i + 1]
    BY <1>1, <2>1, <2>2
  <2>4. QED
    BY <2>2, <2>3
<1>7. Becomes(k, u, After(D, Head(q)), S)
  <2>1. Becomes(k, s, D, S)
    BY DEF s
  <2>2. QED
    BY <1>1, <1>2, <1>5, <1>6, <2>1, BecomesTail
<1>8. 0 \in Nat /\ 0 <= Len(r) /\ Len(u) = Len(r) + d
  BY <1>1, <1>3, <1>4, <1>6
<1>9. ASSUME NEW i \in (0 + 1)..Len(r)
      PROVE  r[i] = u[i + d]
  <2>1. i \in 1..((b - n) + a) /\ i + d \in 1..((b + a) - 1) /\ (i + d) + 1 = i + n
        /\ i + n \in 1..(b + a)
    BY <1>1, <1>3, <1>4
  <2>2. u[i + d] = s[i + n]
    BY <1>6, <2>1
  <2>3. CASE i <= b - n
    <3>1. i \in 1..(b - n) /\ i + n <= b
      BY <1>1, <2>1, <2>3
    <3>2. QED
      BY <1>1, <1>2, <1>3, <2>1, <2>2, <2>3, <3>1
  <2>4. CASE ~(i <= b - n)
    <3>1. ~(i + n <= b) /\ (i + n) - b = i - (b - n)
      BY <1>1, <2>4
    <3>2. QED
      BY <1>1, <1>3, <2>1, <2>2, <2>4, <3>1
  <2>5. QED
    BY <2>3, <2>4
<1>10. ASSUME NEW i \in (0 + 1)..(0 + d)
       PROVE  u[i].key # k
  <2>1. i \in 1..((b + a) - 1) /\ i + 1 \in 2..n /\ i + 1 \in 1..(b + a) /\ i + 1 <= b
    BY <1>1, <1>4
  <2>2. QED
    BY <1>1, <1>2, <1>6, <2>1
<1>11. \A i \in 1..0 : r[i] = u[i]
  OBVIOUS
<1>12. Becomes(k, r, After(D, Head(q)), S)
  BY <1>3, <1>7, <1>8, <1>9, <1>10, <1>11, BecomesWithout
<1>13. QED
  BY <1>12 DEF r, t

\* The first n events are thrown away.
LEMMA BecomesSkipped ==
  ASSUME NEW k, NEW q \in Seq(Events), NEW n \in Nat, n <= Len(q),
         k \notin KeysOf(SubSeq(q, 1, n)), NEW D, NEW S, Becomes(k, q, D, S)
  PROVE  Becomes(k, SubSeq(q, n + 1, Len(q)), D, S)
<1> DEFINE r == SubSeq(q, n + 1, Len(q))
           s == SubSeq(q, 1, n)
<1>1. /\ Len(q) \in Nat /\ r \in Seq(Events) /\ Len(r) = Len(q) - n
      /\ \A i \in 1..(Len(q) - n) : r[i] = q[i + n]
      /\ s \in Seq(Events) /\ Len(s) = n /\ \A i \in 1..n : s[i] = q[i]
  BY Rest, LenProperties
<1>2. \A i \in 1..Len(s) : s[i].key # k
  BY <1>1, NotAbout
<1> HIDE DEF r, s
<1>3. \A i \in (0 + 1)..(0 + n) : q[i].key # k
  BY <1>1, <1>2
<1>4. \A i \in (0 + 1)..Len(r) : r[i] = q[i + n]
  BY <1>1
<1>5. 0 \in Nat /\ 0 <= Len(r) /\ Len(q) = Len(r) + n /\ \A i \in 1..0 : r[i] = q[i]
  BY <1>1
<1>6. Becomes(k, r, D, S)
  BY <1>1, <1>3, <1>4, <1>5, BecomesWithout
<1>7. QED
  BY <1>6 DEF r

\* An event about another key, or none, is added.
LEMMA BecomesAnyway ==
  ASSUME NEW k, NEW q \in Seq(Events), NEW rest \in Rests, k \notin KeysOf(rest),
         NEW D, NEW S, Becomes(k, q, D, S)
  PROVE  Becomes(k, q \o rest, D, S)
<1>1. rest \in Seq(Events) /\ \A i \in 1..Len(rest) : rest[i].key # k
  BY RestType, NotAbout
<1>2. Becomes(k, rest, S, S)
  BY <1>1, BecomesNow
<1>3. QED
  BY <1>1, <1>2, BecomesConcat

\* An event is thrown away.
LEMMA BecomesDropped ==
  ASSUME NEW k, NEW p \in Seq(Events), NEW q \in Seq(Events), q # <<>>, Head(q).key # k,
         NEW D, NEW S, Becomes(k, p \o q, D, S)
  PROVE  Becomes(k, p \o Tail(q), D, S)
<1> DEFINE a == Len(p)
           b == Len(q)
           r == p \o Tail(q)
           s == p \o q
<1>1. PICK t \in Seq(Events) : /\ t = Tail(q) /\ Len(t) = b - 1
                               /\ \A i \in 1..(b - 1) : t[i] = q[i + 1]
  <2>1. /\ Tail(q) \in Seq(Events) /\ Len(Tail(q)) = b - 1
        /\ \A i \in 1..Len(Tail(q)) : Tail(q)[i] = q[i + 1]
    BY HeadTailProperties
  <2>2. PICK t \in Seq(Events) : t = Tail(q)
    BY <2>1
  <2>3. Len(t) = b - 1 /\ \A i \in 1..Len(t) : t[i] = q[i + 1]
    BY <2>1, <2>2
  <2>4. QED
    BY <2>2, <2>3
<1>2. /\ a \in Nat /\ b \in Nat \ {0} /\ s \in Seq(Events) /\ Len(s) = a + b /\ Head(q) = q[1]
      /\ \A i \in 1..(a + b) : s[i] = IF i <= a THEN p[i] ELSE q[i - a]
  BY LenProperties, ConcatProperties, EmptySeq, HeadTailProperties
<1>3. /\ r \in Seq(Events) /\ Len(r) = a + (b - 1)
      /\ \A i \in 1..(a + (b - 1)) : r[i] = IF i <= a THEN p[i] ELSE t[i - a]
  BY <1>1, ConcatProperties
<1>4. Becomes(k, s, D, S)
  OBVIOUS
<1> HIDE DEF a, b, r, s
<1>5. a \in Nat /\ 1 \in Nat /\ a <= Len(r) /\ Len(s) = Len(r) + 1
  BY <1>2, <1>3
<1>6. ASSUME NEW i \in 1..a
      PROVE  r[i] = s[i]
  <2>1. i \in 1..(a + (b - 1)) /\ i \in 1..(a + b) /\ i <= a
    BY <1>2
  <2>2. QED
    BY <1>2, <1>3, <2>1
<1>7. ASSUME NEW i \in (a + 1)..Len(r)
      PROVE  r[i] = s[i + 1]
  <2>1. a \in Nat /\ b \in Nat /\ i \in (a + 1)..(a + (b - 1))
    BY <1>2, <1>3
  <2>2. /\ i \in 1..(a + (b - 1)) /\ ~(i <= a) /\ i - a \in 1..(b - 1)
        /\ i + 1 \in 1..(a + b) /\ ~(i + 1 <= a) /\ (i + 1) - a = (i - a) + 1
    BY <2>1
  <2>3. r[i] = t[i - a] /\ s[i + 1] = q[(i - a) + 1]
    BY <1>2, <1>3, <2>2
  <2>4. t[i - a] = q[(i - a) + 1]
    BY <1>1, <2>2
  <2>5. QED
    BY <2>3, <2>4
<1>8. ASSUME NEW i \in (a + 1)..(a + 1)
      PROVE  s[i].key # k
  <2>1. i \in 1..(a + b) /\ ~(i <= a) /\ i - a = 1
    BY <1>2
  <2>2. QED
    BY <1>2, <2>1
<1>9. Becomes(k, r, D, S)
  BY <1>2, <1>3, <1>4, <1>5, <1>6, <1>7, <1>8, BecomesWithout
<1>10. QED
  BY <1>9 DEF r

LEMMA Appended ==
  ASSUME NEW p \in Seq(Events), NEW q \in Seq(Events), NEW e \in Events
  PROVE  p \o Append(q, e) = Append(p \o q, e)
  OBVIOUS

LEMMA FollowedStrike ==
  ASSUME TypeOK, TypeOK', Followed, NEW j \in Keys, Strike(j)
  PROVE  Followed'
<1>1. ASSUME NEW k \in Keys, Follows(k) PROVE Follows(k)'
  <2> DEFINE e == [key |-> j, pressed |-> j \notin phys]
  <2>1. e \in Events /\ kernel \in Seq(Events)
    BY StrikeEvent, TypeParts DEF Queues
  <2>2. /\ e.key = j /\ (e.pressed <=> j \notin phys)
        /\ kernel' = Append(kernel, e)
    BY DEF Strike
  <2>3. phys' = IF j \in phys THEN phys \ {j} ELSE phys \cup {j}
    BY DEF Strike
  <2>4. /\ k = j => (k \in phys' <=> e.pressed)
        /\ k # j => (k \in phys' <=> k \in phys)
    BY <2>2, <2>3
  <2> HIDE DEF e
  <2>5. Becomes(k, Append(kernel, e), helperDown, phys')
    <3>1. PICK p : p = phys'
      OBVIOUS
    <3>2. e.key = k => (k \in p <=> e.pressed)
      BY <2>2, <2>4, <3>1
    <3>3. e.key # k => (k \in p <=> k \in phys)
      BY <2>2, <2>4, <3>1
    <3>4. Becomes(k, Append(kernel, e), helperDown, p)
      BY <1>1, <2>1, <3>2, <3>3, BecomesAppend DEF Follows
    <3>5. QED
      BY <3>1, <3>4
  <2>6. UNCHANGED <<helperDown, chan, batch, tracked, net, cmds, down>>
    BY DEF Strike, pollVars
  <2>7. QED
    BY <1>1, <2>2, <2>5, <2>6 DEF Follows
<1>2. Note({})
  BY DEF Strike
<1>3. QED
  BY <1>1, <1>2, FollowedBy

LEMMA FollowedRepeat ==
  ASSUME TypeOK, TypeOK', Followed, NEW j \in Keys, Repeat(j)
  PROVE  Followed'
<1>1. ASSUME NEW k \in Keys, Follows(k) PROVE Follows(k)'
  <2> DEFINE e == [key |-> j, pressed |-> TRUE]
  <2>1. e \in Events /\ kernel \in Seq(Events)
    BY RepeatEvent, TypeParts DEF Queues
  <2>2. e.key = j /\ e.pressed /\ j \in phys /\ kernel' = Append(kernel, e)
    BY DEF Repeat
  <2> HIDE DEF e
  <2>3. Becomes(k, Append(kernel, e), helperDown, phys)
    BY <1>1, <2>1, <2>2, BecomesAppend DEF Follows
  <2>4. UNCHANGED <<phys, helperDown, chan, batch, tracked, net, cmds, down>>
    BY DEF Repeat, pollVars
  <2>5. QED
    BY <1>1, <2>2, <2>3, <2>4 DEF Follows
<1>2. Note({})
  BY DEF Repeat
<1>3. QED
  BY <1>1, <1>2, FollowedBy

LEMMA FollowedOverrun ==
  ASSUME TypeOK, TypeOK', Followed, Overrun
  PROVE  Followed'
<1>1. ASSUME NEW k \in Keys, k \notin KeysOf(kernel), Follows(k) PROVE Follows(k)'
  <2>1. kernel \in Seq(Events) /\ <<>> \in Seq(Events) /\ \A i \in 1..Len(<<>>) : FALSE
    BY TypeParts, EmptySeq DEF Queues
  <2>2. Becomes(k, kernel, helperDown, phys)
    BY <1>1 DEF Follows
  <2>3. k \in helperDown <=> k \in phys
    BY <1>1, <2>1, <2>2, NotAbout, BecomesNow
  <2>4. k \in helperDown' <=> k \in helperDown
    <3>1. Head(kernel) \in Events /\ Head(kernel).key # k
      <4>1. /\ kernel # <<>> /\ Head(kernel) = kernel[1] /\ Head(kernel) \in Events
            /\ 1 \in 1..Len(kernel)
        BY <2>1, LenProperties, EmptySeq, HeadTailProperties DEF Overrun
      <4>2. QED
        BY <1>1, <2>1, <4>1, NotAbout
    <3>2. k \in After(helperDown, Head(kernel)) <=> k \in helperDown
      BY <3>1, AfterOne
    <3>3. helperDown' \in {helperDown, After(helperDown, Head(kernel))}
      BY DEF Overrun, UpdateKeyState
    <3>4. QED
      BY <3>2, <3>3
  <2>5. kernel' = <<>> /\ UNCHANGED <<phys, chan, batch, tracked, net, cmds, down>>
    BY DEF Overrun, pollVars
  <2>6. PICK h : h = helperDown'
    OBVIOUS
  <2>7. Becomes(k, <<>>, h, phys)
    BY <2>1, <2>3, <2>4, <2>6, BecomesNow
  <2>8. Becomes(k, batch \o chan, tracked, h)
    BY <1>1, <2>4, <2>6, BecomesOf DEF Follows
  <2>9. QED
    BY <1>1, <2>5, <2>6, <2>7, <2>8 DEF Follows
<1>2. Note(KeysOf(kernel))
  BY DEF Overrun
<1>3. QED
  BY <1>1, <1>2, FollowedBy

LEMMA FollowedHelper ==
  ASSUME TypeOK, TypeOK', Followed, HelperPolls
  PROVE  Followed'
<1> DEFINE e == Head(kernel)
<1>1. /\ kernel \in Seq(Events) /\ kernel # <<>> /\ chan \in Seq(Events)
      /\ batch \in Seq(Events) /\ batch \o chan \in Seq(Events)
  BY TypeParts, ConcatProperties DEF Queues, HelperPolls
<1>2. e \in Events
  BY <1>1, HeadTailProperties
<1>3. kernel' = Tail(kernel) /\ UNCHANGED <<phys, batch, tracked, net, cmds, down>>
  BY DEF HelperPolls, pollVars
<1>4. /\ Changes(helperDown, e) => /\ helperDown' = After(helperDown, e)
                                   /\ chan' = Append(chan, e)
      /\ ~ Changes(helperDown, e) => helperDown' = helperDown /\ chan' = chan
  BY DEF HelperPolls, UpdateKeyState, WriteReport
<1>5. /\ e.key \in After(helperDown, e) <=> e.pressed
      /\ \A k : k # e.key => (k \in After(helperDown, e) <=> k \in helperDown)
  BY <1>2, AfterOne
<1>6. Changes(helperDown, e) <=> ~(e.key \in helperDown <=> e.pressed)
  <2>1. e.pressed \in BOOLEAN
    BY <1>2, EventParts
  <2>2. QED
    BY <2>1 DEF Changes
<1> HIDE DEF e
<1>7. \A k : k \in helperDown' <=> k \in After(helperDown, e)
  BY <1>4, <1>5, <1>6
<1>8. ASSUME NEW k \in Keys, Follows(k) PROVE Follows(k)'
  <2>1. PICK h : h = helperDown'
    OBVIOUS
  <2>2. Becomes(k, kernel', h, phys)
    <3>1. Becomes(k, Tail(kernel), After(helperDown, e), phys)
      BY <1>1, <1>8, BecomesTail DEF Follows, e
    <3>2. k \in After(helperDown, e) <=> k \in h
      BY <1>7, <2>1
    <3>3. Becomes(k, Tail(kernel), h, phys)
      BY <3>1, <3>2, BecomesOf
    <3>4. QED
      BY <1>3, <3>3
  <2>3. Becomes(k, batch \o chan, tracked, helperDown)
    BY <1>8 DEF Follows
  <2>4. CASE Changes(helperDown, e)
    <3>1. batch \o Append(chan, e) = Append(batch \o chan, e)
      BY <1>1, <1>2, Appended
    <3>2. e.key = k => (k \in h <=> e.pressed)
      BY <1>5, <1>7, <2>1
    <3>3. e.key # k => (k \in h <=> k \in helperDown)
      BY <1>5, <1>7, <2>1
    <3>4. Becomes(k, Append(batch \o chan, e), tracked, h)
      BY <1>1, <1>2, <2>3, <3>2, <3>3, BecomesAppend
    <3>5. QED
      BY <1>3, <1>4, <1>8, <2>1, <2>2, <2>4, <3>1, <3>4 DEF Follows
  <2>5. CASE ~ Changes(helperDown, e)
    BY <1>3, <1>4, <1>8, <2>1, <2>2, <2>3, <2>5 DEF Follows
  <2>6. QED
    BY <2>4, <2>5
<1>9. Note({})
  BY DEF HelperPolls
<1>10. QED
  BY <1>8, <1>9, FollowedBy

LEMMA FollowedRead ==
  ASSUME TypeOK, TypeOK', Followed, NEW n \in 1..MaxInFlight, ReadFromHelper(n)
  PROVE  Followed'
<1>1. ASSUME NEW k \in Keys, k \notin KeysOf(SubSeq(chan, 2, n)), Follows(k)
      PROVE  Follows(k)'
  <2>1. /\ chan \in Seq(Events) /\ batch \in Seq(Events) /\ n \in Nat \ {0} /\ n <= Len(chan)
    BY TypeParts DEF Queues, ReadFromHelper
  <2>2. Becomes(k, Append(batch, Head(chan)) \o SubSeq(chan, n + 1, Len(chan)),
                tracked, helperDown)
    BY <1>1, <2>1, BecomesRead DEF Follows
  <2>3. /\ batch' = Append(batch, Head(chan)) /\ chan' = SubSeq(chan, n + 1, Len(chan))
        /\ UNCHANGED <<phys, kernel, helperDown, tracked, net, cmds, down>>
    BY DEF ReadFromHelper, pollVars
  <2>4. QED
    BY <1>1, <2>2, <2>3 DEF Follows
<1>2. Note(KeysOf(SubSeq(chan, 2, n)))
  BY DEF ReadFromHelper
<1>3. QED
  BY <1>1, <1>2, FollowedBy

LEMMA FollowedReadCutOff ==
  ASSUME TypeOK, TypeOK', Followed, NEW n \in 0..MaxInFlight, NEW rest \in Rests,
         ReadCutOff(n, rest)
  PROVE  Followed'
<1>1. /\ chan \in Seq(Events) /\ batch \in Seq(Events) /\ tracked \in SUBSET Keys
      /\ n \in Nat /\ n <= Len(chan) /\ rest \in Seq(Events)
  BY TypeParts, RestType DEF Queues, KeySets, ReadCutOff
<1>2. PICK t \in Seq(Events) : t = SubSeq(chan, n + 1, Len(chan))
  BY <1>1, Rest
<1>3. /\ batch' = batch \o rest /\ chan' = t
      /\ UNCHANGED <<phys, kernel, helperDown, tracked, net, cmds, down>>
  BY <1>2 DEF ReadCutOff, pollVars
<1>4. KeysOf(SubSeq(chan, 1, n) \o rest) = KeysOf(SubSeq(chan, 1, n)) \cup KeysOf(rest)
  BY <1>1, Rest, KeysOfConcat
<1>5. ASSUME NEW k \in Keys, k \notin KeysOf(SubSeq(chan, 1, n) \o rest), Follows(k)
      PROVE  Follows(k)'
  <2>1. PICK s : s = Track(tracked, batch)
    OBVIOUS
  <2>2. Becomes(k, batch, tracked, s)
    BY <1>1, <2>1, TrackBecomes
  <2>3. Becomes(k, chan, s, helperDown)
    BY <1>1, <1>5, <2>2, BecomesSuffix DEF Follows
  <2>4. Becomes(k, t, s, helperDown)
    BY <1>1, <1>2, <1>4, <1>5, <2>3, BecomesSkipped
  <2>5. Becomes(k, batch \o rest, tracked, s)
    BY <1>1, <1>4, <1>5, <2>2, BecomesAnyway
  <2>6. Becomes(k, (batch \o rest) \o t, tracked, helperDown)
    BY <1>1, <1>2, <2>4, <2>5, ConcatProperties, BecomesConcat
  <2>7. QED
    BY <1>3, <1>5, <2>6 DEF Follows
<1>6. Note(KeysOf(SubSeq(chan, 1, n) \o rest))
  BY DEF ReadCutOff
<1>7. QED
  BY <1>5, <1>6, FollowedBy

LEMMA FollowedPoll ==
  ASSUME TypeOK, TypeOK', Followed, PollEvents
  PROVE  Followed'
<1> DEFINE S == IF paused' THEN KeysOf(batch) ELSE {}
<1>1. /\ batch \in Seq(Events) /\ chan \in Seq(Events) /\ cmds \in Seq(Events)
      /\ net \in Seq(Events) /\ cmds \o net \in Seq(Events) /\ tracked \in SUBSET Keys
  BY TypeParts, ConcatProperties DEF Queues, KeySets
<1>2. /\ tracked' = Track(tracked, batch) /\ batch' = <<>>
      /\ net' = IF paused' THEN net ELSE net \o batch
      /\ UNCHANGED <<phys, kernel, helperDown, chan, cmds, down>>
  BY DEF PollEvents
<1>3. PICK t : t = Track(tracked, batch)
  OBVIOUS
<1>4. \A k : Becomes(k, batch, tracked, t)
  BY <1>1, <1>3, TrackBecomes
<1>5. ASSUME NEW k \in Keys, k \notin S, Follows(k) PROVE Follows(k)'
  <2>1. Becomes(k, batch, tracked, t)
    BY <1>4
  <2>2. Becomes(k, chan, t, helperDown)
    BY <1>1, <1>5, <2>1, BecomesSuffix DEF Follows
  <2>3. <<>> \o chan = chan
    BY <1>1, ConcatEmptySeq
  <2>4. Becomes(k, cmds \o net, down, tracked)
    BY <1>5 DEF Follows
  <2>5. Becomes(k, cmds \o net', down, t)
    <3>1. CASE paused'
      <4>1. k \notin KeysOf(batch)
        BY <1>5, <3>1
      <4>2. k \in tracked <=> k \in t
        BY <1>1, <2>1, <4>1, NotAbout, BecomesNow
      <4>3. Becomes(k, cmds \o net, down, t)
        BY <2>4, <4>2, BecomesOf
      <4>4. QED
        BY <1>2, <3>1, <4>3
    <3>2. CASE ~ paused'
      <4>1. Becomes(k, (cmds \o net) \o batch, down, t)
        BY <1>1, <2>1, <2>4, BecomesConcat
      <4>2. (cmds \o net) \o batch = cmds \o (net \o batch)
        BY <1>1, ConcatAssociative
      <4>3. QED
        BY <1>2, <3>2, <4>1, <4>2
    <3>3. QED
      BY <3>1, <3>2
  <2>6. QED
    BY <1>2, <1>3, <1>5, <2>2, <2>3, <2>5 DEF Follows
<1>6. Note(S)
  BY DEF PollEvents
<1>7. QED
  BY <1>5, <1>6, FollowedBy

LEMMA FollowedCombo ==
  ASSUME TypeOK, TypeOK', Followed, NEW c \in Combos, SetPauseKeyCombo(c)
  PROVE  Followed'
<1>1. ASSUME NEW k \in Keys, k \notin tracked, Follows(k) PROVE Follows(k)'
  <2>1. /\ tracked' = {}
        /\ UNCHANGED <<phys, kernel, helperDown, chan, batch, net, cmds, down>>
    BY DEF SetPauseKeyCombo
  <2>2. /\ Becomes(k, batch \o chan, {}, helperDown)
        /\ Becomes(k, cmds \o net, down, {})
    BY <1>1, BecomesOf DEF Follows
  <2>3. QED
    BY <1>1, <2>1, <2>2 DEF Follows
<1>2. Note(tracked)
  BY DEF SetPauseKeyCombo
<1>3. QED
  BY <1>1, <1>2, FollowedBy

LEMMA FollowedReceiver ==
  ASSUME TypeOK, TypeOK', Followed, ReceiverToggles \/ HandleInput
  PROVE  Followed'
<1>1. CASE ReceiverToggles
  <2>1. ASSUME NEW k \in Keys, Follows(k) PROVE Follows(k)'
    BY <1>1, <2>1 DEF ReceiverToggles, pollVars, Follows
  <2>2. Note({})
    BY <1>1 DEF ReceiverToggles
  <2>3. QED
    BY <2>1, <2>2, FollowedBy
<1>2. CASE HandleInput
  <2> DEFINE S == IF recvPaused THEN {Head(net).key} ELSE {}
  <2>1. /\ net \in Seq(Events) /\ net # <<>> /\ cmds \in Seq(Events)
        /\ net' = Tail(net)
        /\ UNCHANGED <<phys, kernel, helperDown, chan, batch, tracked, down>>
        /\ cmds' = IF recvPaused THEN cmds ELSE Append(cmds, Head(net))
    BY <1>2, TypeParts DEF Queues, HandleInput, pollVars
  <2>2. ASSUME NEW k \in Keys, k \notin S, Follows(k) PROVE Follows(k)'
    <3>1. Becomes(k, cmds \o net, down, tracked)
      BY <2>2 DEF Follows
    <3>2. CASE recvPaused
      <4>1. Head(net).key # k
        BY <2>2, <3>2
      <4>2. Becomes(k, cmds \o Tail(net), down, tracked)
        BY <2>1, <3>1, <4>1, BecomesDropped
      <4>3. QED
        BY <2>1, <2>2, <3>2, <4>2 DEF Follows
    <3>3. CASE ~ recvPaused
      <4>1. 1 \in Nat \ {0} /\ 1 <= Len(net) /\ 1 + 1 = 2
        <5>1. Len(net) \in Nat /\ Len(net) # 0
          BY <2>1, LenProperties, EmptySeq
        <5>2. QED
          BY <5>1
      <4>2. KeysOf(SubSeq(net, 2, 1)) = {}
        <5>1. SubSeq(net, 2, 1) = <<>>
          BY SubSeqEmpty
        <5>2. KeysOf(<<>>) = {}
          BY DEF KeysOf
        <5>3. QED
          BY <5>1, <5>2
      <4>3. Tail(net) = SubSeq(net, 2, Len(net))
        BY <2>1, TailIsSubSeq
      <4>4. Becomes(k, Append(cmds, Head(net)) \o SubSeq(net, 1 + 1, Len(net)), down, tracked)
        BY <2>1, <3>1, <4>1, <4>2, BecomesRead
      <4>5. Becomes(k, Append(cmds, Head(net)) \o Tail(net), down, tracked)
        BY <4>1, <4>3, <4>4
      <4>6. QED
        BY <2>1, <2>2, <3>3, <4>5 DEF Follows
    <3>4. QED
      BY <3>2, <3>3
  <2>3. Note(S)
    BY <1>2 DEF HandleInput
  <2>4. QED
    BY <2>2, <2>3, FollowedBy
<1>3. QED
  BY <1>1, <1>2

LEMMA FollowedSimulates ==
  ASSUME TypeOK, TypeOK', Followed, NEW n \in 1..MaxInFlight, HelperSimulates(n)
  PROVE  Followed'
<1>1. ASSUME NEW k \in Keys, k \notin KeysOf(SubSeq(cmds, 2, n)), Follows(k)
      PROVE  Follows(k)'
  <2>1. cmds \in Seq(Events) /\ net \in Seq(Events) /\ n \in Nat \ {0} /\ n <= Len(cmds)
    BY TypeParts DEF Queues, HelperSimulates
  <2>2. Becomes(k, SubSeq(cmds, n + 1, Len(cmds)) \o net, After(down, Head(cmds)), tracked)
    BY <1>1, <2>1, BecomesObeyed DEF Follows
  <2>3. /\ down' = After(down, Head(cmds)) /\ cmds' = SubSeq(cmds, n + 1, Len(cmds))
        /\ UNCHANGED <<phys, kernel, helperDown, chan, batch, tracked, net>>
    BY DEF HelperSimulates, pollVars
  <2>4. QED
    BY <1>1, <2>2, <2>3 DEF Follows
<1>2. Note(KeysOf(SubSeq(cmds, 2, n)))
  BY DEF HelperSimulates
<1>3. QED
  BY <1>1, <1>2, FollowedBy

LEMMA FollowedSimulatesCutOff ==
  ASSUME TypeOK, TypeOK', Followed, NEW n \in 0..MaxInFlight, NEW rest \in Rests,
         SimulatesCutOff(n, rest)
  PROVE  Followed'
<1>1. /\ cmds \in Seq(Events) /\ net \in Seq(Events) /\ down \in SUBSET Keys
      /\ n \in Nat /\ n <= Len(cmds) /\ rest \in Seq(Events)
  BY TypeParts, RestType DEF Queues, KeySets, SimulatesCutOff
<1>2. PICK t \in Seq(Events) : t = SubSeq(cmds, n + 1, Len(cmds))
  BY <1>1, Rest
<1>3. PICK d : d = IF rest = <<>> THEN down ELSE After(down, Head(rest))
  OBVIOUS
<1>4. /\ down' = d /\ cmds' = t
      /\ UNCHANGED <<phys, kernel, helperDown, chan, batch, tracked, net>>
  BY <1>2, <1>3 DEF SimulatesCutOff, pollVars
<1>5. KeysOf(SubSeq(cmds, 1, n) \o rest) = KeysOf(SubSeq(cmds, 1, n)) \cup KeysOf(rest)
  BY <1>1, Rest, KeysOfConcat
<1>6. ASSUME NEW k \in Keys, k \notin KeysOf(SubSeq(cmds, 1, n) \o rest), Follows(k)
      PROVE  Follows(k)'
  <2>1. PICK s : s = Track(down, cmds)
    OBVIOUS
  <2>2. Becomes(k, cmds, down, s)
    BY <1>1, <2>1, TrackBecomes
  <2>3. Becomes(k, net, s, tracked)
    BY <1>1, <1>6, <2>2, BecomesSuffix DEF Follows
  <2>4. Becomes(k, t, down, s)
    BY <1>1, <1>2, <1>5, <1>6, <2>2, BecomesSkipped
  <2>5. k \in d <=> k \in down
    <3>1. CASE rest = <<>>
      BY <1>3, <3>1
    <3>2. CASE rest # <<>>
      <4>1. /\ Head(rest) = rest[1] /\ Head(rest) \in Events /\ 1 \in 1..Len(rest)
        BY <1>1, <3>2, LenProperties, EmptySeq, HeadTailProperties
      <4>2. Head(rest).key # k
        BY <1>1, <1>5, <1>6, <4>1, NotAbout
      <4>3. QED
        BY <1>3, <3>2, <4>1, <4>2, AfterOne
    <3>3. QED
      BY <3>1, <3>2
  <2>6. Becomes(k, t, d, s)
    BY <2>4, <2>5, BecomesOf
  <2>7. Becomes(k, t \o net, d, tracked)
    BY <1>1, <1>2, <2>3, <2>6, BecomesConcat
  <2>8. QED
    BY <1>4, <1>6, <2>7 DEF Follows
<1>7. Note(KeysOf(SubSeq(cmds, 1, n) \o rest))
  BY DEF SimulatesCutOff
<1>8. QED
  BY <1>6, <1>7, FollowedBy

LEMMA FollowedStep == ASSUME TypeOK, TypeOK', Followed, [Next]_vars PROVE Followed'
<1>1. CASE UNCHANGED vars
  BY <1>1 DEF vars, pollVars, Followed, Follows
<1>2. CASE Next
  BY <1>2, FollowedStrike, FollowedRepeat, FollowedOverrun, FollowedHelper, FollowedRead,
     FollowedReadCutOff, FollowedPoll, FollowedCombo, FollowedReceiver, FollowedSimulates,
     FollowedSimulatesCutOff DEF Next
<1>3. QED
  BY <1>1, <1>2

LEMMA FollowedInit == Init => Followed
<1> SUFFICES ASSUME Init, NEW k \in Keys, k \notin lost PROVE Follows(k)
  BY DEF Followed
<1>1. <<>> \in Seq(Events) /\ Queues
  BY EmptySeq DEF Init, Queues
<1>2. <<>> \o <<>> = <<>> /\ KeysOf(<<>>) = {}
  BY <1>1, ConcatEmptySeq DEF KeysOf
<1>3. k \notin KeysOf(InFlight)
  BY <1>1, <1>2, OnItsWay DEF Init
<1>4. QED
  BY <1>1, <1>3, FollowsIdle DEF Init

LEMMA FollowedAgree == TypeOK /\ Followed => KeysAgree
<1> SUFFICES ASSUME TypeOK, Followed, NEW k \in Keys, k \notin lost, k \notin KeysOf(InFlight)
             PROVE  (k \in down) = (k \in phys) /\ (k \in tracked) = (k \in phys)
  BY DEF KeysAgree
<1>1. Follows(k) /\ Queues
  BY TypeParts DEF Followed
<1>2. /\ k \in helperDown <=> k \in phys
      /\ k \in tracked <=> k \in helperDown
      /\ k \in down <=> k \in tracked
  BY <1>1, FollowsIdle
<1>3. QED
  BY <1>2

\* With nothing about a key on its way, both ends agree about it unless it has lost an
\* event: the bitmask of the helper, the tracking of pollEvents and the virtual keyboard
\* each follow the stage before them.
THEOREM EndsAgree == Spec => []KeysAgree
<1>1. Spec => []TypeOK
  BY TypeCorrect
<1>2. TypeOK /\ TypeOK' /\ Followed /\ [Next]_vars => Followed'
  BY FollowedStep
<1>3. QED
  BY <1>1, <1>2, FollowedInit, FollowedAgree, PTL DEF Spec
=============================================================================
