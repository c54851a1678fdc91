---------------------------- MODULE ModArithmetic ----------------------------
(***************************************************************************)
(* What the proofs about rings, stacks and hash tables need to know of     *)
(* them: positions modulo n, the contents of a ring of n slots, a stack of *)
(* values pushed once each, and a table of n buckets searched with linear  *)
(* probing.  Everything here is about constants; the state is the modules' *)
(* that use it.                                                            *)
(***************************************************************************)
EXTENDS Integers, Sequences, TLAPS

\* A remainder is a place of the ring.
LEMMA ModRange ==
  ASSUME NEW n \in Nat \ {0}, NEW a \in Nat
  PROVE  a % n \in 0..(n - 1)
OBVIOUS

\* Quotient and remainder.
LEMMA ModDef ==
  ASSUME NEW n \in Nat \ {0}, NEW a \in Nat
  PROVE  a = n * (a \div n) + (a % n) /\ a \div n \in Int
OBVIOUS

\* Multiples of n are n apart.
LEMMA MultiplesApart ==
  ASSUME NEW n \in Nat \ {0}, NEW q \in Int, NEW r \in Int, q < r
  PROVE  n * q + n <= n * r
OBVIOUS

\* Quotient and remainder are unique.
LEMMA ModUnique ==
  ASSUME NEW n \in Nat \ {0}, NEW q \in Int, NEW r \in Int,
         NEW s \in 0..(n - 1), NEW t \in 0..(n - 1),
         n * q + s = n * r + t
  PROVE  q = r /\ s = t
<1>1. n * q \in Int /\ n * r \in Int
  OBVIOUS
<1>2. ~(q < r)
  BY <1>1, MultiplesApart
<1>3. ~(r < q)
  BY <1>1, MultiplesApart
<1> QED BY <1>1, <1>2, <1>3

\* A number below n is its own remainder.
LEMMA ModSmall ==
  ASSUME NEW n \in Nat \ {0}, NEW a \in 0..(n - 1)
  PROVE  a % n = a
<1>1. a \in Nat /\ a % n \in 0..(n - 1) /\ a \div n \in Int /\ n * (a \div n) + (a % n) = n * 0 + a
  BY ModDef, ModRange
<1> QED BY <1>1, ModUnique

\* Two positions less than n apart are different places of the ring.
LEMMA ModApart ==
  ASSUME NEW n \in Nat \ {0}, NEW a \in Nat, NEW b \in Nat, a < b, b < a + n
  PROVE  a % n # b % n
<1> DEFINE q == a \div n
           r == b \div n
<1>1. /\ q \in Int /\ r \in Int /\ n * q \in Int /\ n * r \in Int
      /\ a = n * q + (a % n) /\ b = n * r + (b % n)
  BY ModDef
<1>2. a % n \in 0..(n - 1) /\ b % n \in 0..(n - 1)
  BY ModRange
<1> HIDE DEF q, r
<1> SUFFICES ASSUME a % n = b % n PROVE FALSE
  OBVIOUS
<1>3. n * r - n * q = b - a
  BY <1>1, <1>2
<1>4. ~(q < r)
  BY <1>3, <1>1, MultiplesApart
<1>5. ~(r < q)
  BY <1>3, <1>1, MultiplesApart
<1> QED BY <1>1, <1>3, <1>4, <1>5

\* The remainder behind a remainder.
LEMMA NextRemainder ==
  ASSUME NEW n \in Nat \ {0}, NEW q \in Int, NEW r \in Int,
         NEW s \in 0..(n - 1), NEW t \in 0..(n - 1),
         n * q + s + 1 = n * r + t
  PROVE  t = IF s = n - 1 THEN 0 ELSE s + 1
<1>1. n * q \in Int /\ n * r \in Int
  OBVIOUS
<1>2. CASE s = n - 1
  <2>1. q + 1 \in Int /\ n * (q + 1) = n * q + n
    OBVIOUS
  <2>2. n * (q + 1) + 0 = n * r + t
    BY <1>1, <1>2, <2>1
  <2> QED BY <1>2, <2>1, <2>2, ModUnique
<1>3. CASE s # n - 1
  <2>1. s + 1 \in 0..(n - 1) /\ n * q + (s + 1) = n * r + t
    BY <1>1, <1>3
  <2> QED BY <1>3, <2>1, ModUnique
<1> QED BY <1>2, <1>3

\* The place behind a place: the next one, or the first behind the last.
LEMMA ModNext ==
  ASSUME NEW n \in Nat \ {0}, NEW a \in Nat
  PROVE  (a + 1) % n = IF a % n = n - 1 THEN 0 ELSE (a % n) + 1
<1> DEFINE q == a \div n
           r == (a + 1) \div n
           s == a % n
           t == (a + 1) % n
<1>1. q \in Int /\ r \in Int /\ s \in 0..(n - 1) /\ t \in 0..(n - 1)
  BY ModDef, ModRange
<1>2. n * q + s + 1 = n * r + t
  BY <1>1, ModDef
<1>3. t = IF s = n - 1 THEN 0 ELSE s + 1
  <2> HIDE DEF q, r, s, t
  <2> QED BY <1>1, <1>2, NextRemainder
<1> QED BY <1>3

\* Steps taken from a place of the ring.
LEMMA ModShift ==
  ASSUME NEW n \in Nat \ {0}, NEW a \in Nat, NEW b \in Nat
  PROVE  ((a % n) + b) % n = (a + b) % n
<1> DEFINE s == a % n
           t == (s + b) % n
           v == (a + b) % n
           q == a \div n
           r == (s + b) \div n
           u == (a + b) \div n
<1>1. q \in Int /\ s \in 0..(n - 1) /\ a = n * q + s
  BY ModDef, ModRange
<1>2. s + b \in Nat /\ a + b \in Nat
  BY <1>1
<1>3. r \in Int /\ t \in 0..(n - 1) /\ s + b = n * r + t
  <2> HIDE DEF s
  <2> QED BY <1>2, ModDef, ModRange, Zenon
<1>4. u \in Int /\ v \in 0..(n - 1) /\ a + b = n * u + v
  BY <1>2, ModDef, ModRange, Zenon
<1> HIDE DEF s, t, v, q, r, u
<1> DEFINE w == q + r
<1>5. n * q \in Int /\ n * r \in Int /\ n * u \in Int /\ w \in Int /\ n * w = n * q + n * r
  BY <1>1, <1>3, <1>4
<1> HIDE DEF w
<1>6. n * w + t = n * u + v
  BY <1>1, <1>3, <1>4, <1>5
<1>7. w \in Int /\ u \in Int /\ t \in 0..(n - 1) /\ v \in 0..(n - 1)
  BY <1>3, <1>4, <1>5
<1>8. t = v
  BY <1>6, <1>7, ModUnique
<1> QED BY <1>8 DEF s, t, v

\* Once around the ring.
LEMMA ModAround ==
  ASSUME NEW n \in Nat \ {0}, NEW a \in 0..(n - 1)
  PROVE  (a + n) % n = a
<1> DEFINE q == (a + n) \div n
           t == (a + n) % n
<1>1. q \in Int /\ t \in 0..(n - 1) /\ a + n = n * q + t
  BY ModDef, ModRange
<1>2. n * 1 + a = n * q + t
  BY <1>1
<1>3. t = a
  <2> HIDE DEF q, t
  <2> QED BY <1>1, <1>2, ModUnique
<1> QED BY <1>3
-----------------------------------------------------------------------------
(* Rings: n slots with data d, of which the c from h on are in use. *)

\* The slot of the i-th element.
ring_slot(n, h, i) == (h + i - 1) % n

\* The elements, from the one at h on.
ring_contents(n, d, h, c) == [i \in 1..c |-> d[ring_slot(n, h, i)]]

\* Elements have slots of their own, and the slots move by one when h does.
SlotsApart(n, h) ==
  /\ \A i \in 1..n : ring_slot(n, h, i) \in 0..(n - 1)
  /\ ring_slot(n, h, 1) = h
  /\ \A c \in 0..n : (h + c) % n = ring_slot(n, h, c + 1)
  /\ (h + n) % n = h
  /\ \A i, j \in 1..n : i # j => ring_slot(n, h, i) # ring_slot(n, h, j)
  /\ \A i \in 1..n : ring_slot(n, (h + 1) % n, i) = ring_slot(n, h, i + 1)

\* s is the sequence of the elements.
ElementsAre(n, V, d, h, c, s) ==
  s \in Seq(V) /\ Len(s) = c /\ \A i \in 1..c : s[i] = d[ring_slot(n, h, i)]

LEMMA RingSlots ==
  ASSUME NEW n \in Nat \ {0}, NEW h \in 0..(n - 1)
  PROVE  SlotsApart(n, h)
<1>1. \A i \in 1..n : ring_slot(n, h, i) \in 0..(n - 1)
  <2>1. \A i \in 1..n : h + i - 1 \in Nat
    OBVIOUS
  <2> QED BY <2>1, ModRange, Zenon DEF ring_slot
<1>2. ring_slot(n, h, 1) = h
  <2>1. h + 1 - 1 = h
    OBVIOUS
  <2> QED BY <2>1, ModSmall DEF ring_slot
<1>3. ASSUME NEW c \in 0..n PROVE (h + c) % n = ring_slot(n, h, c + 1)
  <2>1. h + (c + 1) - 1 = h + c
    OBVIOUS
  <2> QED BY <2>1 DEF ring_slot
<1>4. (h + n) % n = h
  BY ModAround
<1>5. ASSUME NEW i \in 1..n, NEW j \in 1..n, i < j PROVE ring_slot(n, h, i) # ring_slot(n, h, j)
  <2>1. /\ h + i - 1 \in Nat /\ h + j - 1 \in Nat
        /\ h + i - 1 < h + j - 1 /\ h + j - 1 < h + i - 1 + n
    BY <1>5
  <2> QED BY <2>1, ModApart DEF ring_slot
<1>6. \A i, j \in 1..n : i # j => ring_slot(n, h, i) # ring_slot(n, h, j)
  <2> TAKE i \in 1..n, j \in 1..n
  <2>1. i < j \/ j < i \/ i = j
    OBVIOUS
  <2> QED BY <2>1, <1>5
<1>7. ASSUME NEW i \in 1..n PROVE ring_slot(n, (h + 1) % n, i) = ring_slot(n, h, i + 1)
  <2>1. h + 1 \in Nat /\ i - 1 \in Nat /\ (h + 1) % n \in Nat
    BY ModRange
  <2>2. (((h + 1) % n) + (i - 1)) % n = ((h + 1) + (i - 1)) % n
    BY <2>1, ModShift, Zenon
  <2>3. ((h + 1) % n) + i - 1 = ((h + 1) % n) + (i - 1) /\ (h + 1) + (i - 1) = h + (i + 1) - 1
    BY <2>1
  <2> QED BY <2>2, <2>3 DEF ring_slot
<1> QED BY <1>1, <1>2, <1>3, <1>4, <1>6, <1>7 DEF SlotsApart

\* The elements are a sequence.
LEMMA RingContents ==
  ASSUME NEW n \in Nat \ {0}, NEW V, NEW d \in [0..(n - 1) -> V], NEW h \in 0..(n - 1), NEW c \in 0..n
  PROVE  ElementsAre(n, V, d, h, c, ring_contents(n, d, h, c))
<1>1. \A i \in 1..c : ring_slot(n, h, i) \in 0..(n - 1)
  BY RingSlots DEF SlotsApart
<1>2. \A i \in 1..c : d[ring_slot(n, h, i)] \in V
  BY <1>1
<1> QED BY <1>2 DEF ring_contents, ElementsAre

\* Two sequences of one length with the same elements are equal.
LEMMA SameElements ==
  ASSUME NEW S, NEW s \in Seq(S), NEW t \in Seq(S), NEW c \in Nat, Len(s) = c, Len(t) = c, \A i \in 1..c : s[i] = t[i]
  PROVE  s = t
OBVIOUS

\* An element put in the next free slot is appended.
Appends(n, d, h, c, x) ==
  ring_contents(n, [d EXCEPT ![(h + c) % n] = x], h, c + 1) = Append(ring_contents(n, d, h, c), x)

LEMMA RingAppend ==
  ASSUME NEW n \in Nat \ {0}, NEW V, NEW d \in [0..(n - 1) -> V], NEW h \in 0..(n - 1), NEW c \in 0..(n - 1), NEW x \in V
  PROVE  Appends(n, d, h, c, x)
<1> DEFINE e == [d EXCEPT ![(h + c) % n] = x]
           s == ring_contents(n, d, h, c)
           t == ring_contents(n, e, h, c + 1)
<1>1. (h + c) % n \in 0..(n - 1) /\ e \in [0..(n - 1) -> V] /\ c + 1 \in 0..n /\ c \in 0..n /\ c \in Nat
  BY ModRange
<1> HIDE DEF s, t
<1>2. s \in Seq(V) /\ Len(s) = c /\ \A i \in 1..c : s[i] = d[ring_slot(n, h, i)]
  <2>1. ElementsAre(n, V, d, h, c, s)
    BY <1>1, RingContents, Zenon DEF s
  <2> QED BY <2>1 DEF ElementsAre
<1>3. t \in Seq(V) /\ Len(t) = c + 1 /\ \A i \in 1..(c + 1) : t[i] = e[ring_slot(n, h, i)]
  <2>1. ElementsAre(n, V, e, h, c + 1, t)
    BY <1>1, RingContents, Zenon DEF t
  <2> QED BY <2>1 DEF ElementsAre
<1>4. ASSUME NEW i \in 1..c PROVE t[i] = Append(s, x)[i]
  <2>1. i \in 1..n /\ c + 1 \in 1..n /\ i # c + 1 /\ i \in 1..(c + 1)
    OBVIOUS
  <2>2. ring_slot(n, h, i) \in 0..(n - 1) /\ ring_slot(n, h, i) # ring_slot(n, h, c + 1) /\ (h + c) % n = ring_slot(n, h, c + 1)
    <3>1. SlotsApart(n, h) /\ c \in 0..n
      BY <1>1, RingSlots
    <3> QED BY <2>1, <3>1, Zenon DEF SlotsApart
  <2>3. t[i] = s[i]
    BY <1>1, <1>2, <1>3, <2>1, <2>2
  <2> QED BY <1>2, <2>3
<1>5. t[c + 1] = x
  <2>1. (h + c) % n = ring_slot(n, h, c + 1) /\ c + 1 \in 1..(c + 1)
    BY <1>1, RingSlots DEF SlotsApart
  <2> QED BY <1>1, <1>3, <2>1
<1>6. Append(s, x) \in Seq(V) /\ Len(Append(s, x)) = c + 1 /\ Append(s, x)[c + 1] = x
  BY <1>2
<1>7. \A i \in 1..(c + 1) : t[i] = Append(s, x)[i]
  <2> SUFFICES ASSUME NEW i \in 1..(c + 1) PROVE t[i] = Append(s, x)[i]
    BY Zenon
  <2>1. i \in 1..c \/ i = c + 1
    OBVIOUS
  <2> QED BY <1>4, <1>5, <1>6, <2>1
<1>8. t = Append(s, x)
  BY <1>1, <1>3, <1>6, <1>7, SameElements
<1> QED BY <1>8 DEF s, t, Appends

\* Moving h on by one takes the first element away.
LEMMA RingTail ==
  ASSUME NEW n \in Nat \ {0}, NEW V, NEW d \in [0..(n - 1) -> V], NEW h \in 0..(n - 1), NEW c \in 1..n
  PROVE  ring_contents(n, d, (h + 1) % n, c - 1) = Tail(ring_contents(n, d, h, c))
<1> DEFINE s == ring_contents(n, d, h, c)
           t == ring_contents(n, d, (h + 1) % n, c - 1)
<1>1. (h + 1) % n \in 0..(n - 1) /\ c - 1 \in 0..n /\ c \in 0..n /\ c - 1 \in Nat
  BY ModRange
<1> HIDE DEF s, t
<1>2. s \in Seq(V) /\ Len(s) = c /\ \A i \in 1..c : s[i] = d[ring_slot(n, h, i)]
  <2>1. ElementsAre(n, V, d, h, c, s)
    BY <1>1, RingContents, Zenon DEF s
  <2> QED BY <2>1 DEF ElementsAre
<1>3. t \in Seq(V) /\ Len(t) = c - 1 /\ \A i \in 1..(c - 1) : t[i] = d[ring_slot(n, (h + 1) % n, i)]
  <2>1. ElementsAre(n, V, d, (h + 1) % n, c - 1, t)
    BY <1>1, RingContents, Zenon DEF t
  <2> QED BY <2>1 DEF ElementsAre
<1>4. Tail(s) \in Seq(V) /\ Len(Tail(s)) = c - 1 /\ \A i \in 1..(c - 1) : Tail(s)[i] = s[i + 1]
  BY <1>2
<1>5. ASSUME NEW i \in 1..(c - 1) PROVE t[i] = Tail(s)[i]
  <2>1. i + 1 \in 1..c /\ i \in 1..n
    OBVIOUS
  <2>2. ring_slot(n, (h + 1) % n, i) = ring_slot(n, h, i + 1)
    BY <2>1, RingSlots DEF SlotsApart
  <2> QED BY <1>2, <1>3, <1>4, <2>1, <2>2
<1>6. t = Tail(s)
  BY <1>1, <1>3, <1>4, <1>5, SameElements
<1> QED BY <1>6 DEF s, t

\* In a full ring the next slot is the one of the first element: putting an element there and moving
\* h on takes the first element away and appends the new one.
Rotates(n, d, h, x) ==
  ring_contents(n, [d EXCEPT ![h] = x], (h + 1) % n, n) = Append(Tail(ring_contents(n, d, h, n)), x)

LEMMA RingRotate ==
  ASSUME NEW n \in Nat \ {0}, NEW V, NEW d \in [0..(n - 1) -> V], NEW h \in 0..(n - 1), NEW x \in V
  PROVE  Rotates(n, d, h, x)
<1> DEFINE g == (h + 1) % n
<1>1. g \in 0..(n - 1) /\ n - 1 \in 0..(n - 1) /\ n \in 1..n
  BY ModRange
<1>2. (g + (n - 1)) % n = h
  <2>1. h + 1 \in Nat /\ n - 1 \in Nat /\ (h + 1) + (n - 1) = h + n
    OBVIOUS
  <2>2. (((h + 1) % n) + (n - 1)) % n = ((h + 1) + (n - 1)) % n
    BY <2>1, ModShift, Zenon
  <2> QED BY <2>1, <2>2, ModAround
<1> HIDE DEF g
<1>3. Appends(n, d, g, n - 1, x)
  BY <1>1, RingAppend, Zenon
<1>4. ring_contents(n, d, g, n - 1) = Tail(ring_contents(n, d, h, n))
  BY <1>1, RingTail, Zenon DEF g
<1>5. (n - 1) + 1 = n
  OBVIOUS
<1> QED BY <1>2, <1>3, <1>4, <1>5 DEF g, Appends, Rotates
-----------------------------------------------------------------------------
(* Rings that hold the last c of the numbers 1..p, in order. *)

Numbered(n, d, h, c, p) == c <= p /\ \A i \in 1..c : d[ring_slot(n, h, i)] = (p - c) + i

\* s is the slot of the number e, if e is in the ring.
Aims(n, h, c, p, e, s) == e > p - c /\ e # 0 => e <= p /\ s = ring_slot(n, h, e - (p - c))

\* The next number is appended.
LEMMA NumberedAppend ==
  ASSUME NEW n \in Nat \ {0}, NEW V, NEW d \in [0..(n - 1) -> V], NEW h \in 0..(n - 1), NEW c \in 0..(n - 1),
         NEW p \in Nat, p + 1 \in V, Numbered(n, d, h, c, p)
  PROVE  Numbered(n, [d EXCEPT ![(h + c) % n] = p + 1], h, c + 1, p + 1)
<1>1. SlotsApart(n, h) /\ c \in 0..n /\ c + 1 <= p + 1 /\ c \in Nat /\ (p + 1) - (c + 1) = p - c
  BY RingSlots DEF Numbered
<1>2. (h + c) % n = ring_slot(n, h, c + 1) /\ (h + c) % n \in 0..(n - 1)
  <2>1. h + c \in Nat
    BY <1>1
  <2> QED BY <1>1, <2>1, ModRange, Zenon DEF SlotsApart
<1>3. PICK e : e = [d EXCEPT ![(h + c) % n] = p + 1]
  OBVIOUS
<1>4. ASSUME NEW i \in 1..(c + 1) PROVE e[ring_slot(n, h, i)] = (p - c) + i
  <2>1. CASE i \in 1..c
    <3>1. i \in 1..n /\ c + 1 \in 1..n /\ i # c + 1
      BY <2>1
    <3>2. ring_slot(n, h, i) # (h + c) % n /\ ring_slot(n, h, i) \in 0..(n - 1)
      BY <1>1, <1>2, <3>1, Zenon DEF SlotsApart
    <3>3. d[ring_slot(n, h, i)] = (p - c) + i
      BY <2>1 DEF Numbered
    <3> QED BY <1>3, <3>2, <3>3
  <2>2. CASE i = c + 1
    <3>1. e[(h + c) % n] = p + 1
      BY <1>2, <1>3
    <3>2. (p - c) + (c + 1) = p + 1
      BY <1>1
    <3> QED BY <1>2, <2>2, <3>1, <3>2
  <2> QED BY <1>1, <2>1, <2>2
<1>5. Numbered(n, e, h, c + 1, p + 1)
  BY <1>1, <1>4 DEF Numbered
<1> QED BY <1>3, <1>5

\* The first number is taken away.
LEMMA NumberedTail ==
  ASSUME NEW n \in Nat \ {0}, NEW d, NEW h \in 0..(n - 1), NEW c \in 1..n, NEW p \in Nat, Numbered(n, d, h, c, p)
  PROVE  Numbered(n, d, (h + 1) % n, c - 1, p)
<1>1. SlotsApart(n, h)
  BY RingSlots
<1>2. ASSUME NEW i \in 1..(c - 1) PROVE d[ring_slot(n, (h + 1) % n, i)] = (p - (c - 1)) + i
  <2>1. i \in 1..n /\ i + 1 \in 1..c /\ (p - c) + (i + 1) = (p - (c - 1)) + i
    OBVIOUS
  <2>2. ring_slot(n, (h + 1) % n, i) = ring_slot(n, h, i + 1)
    BY <1>1, <2>1, Zenon DEF SlotsApart
  <2>3. d[ring_slot(n, h, i + 1)] = (p - c) + (i + 1)
    BY <2>1, Zenon DEF Numbered
  <2> QED BY <2>1, <2>2, <2>3
<1> QED BY <1>2 DEF Numbered

\* The slots of the numbers that stay are the same when one is appended and when the first is taken away.
LEMMA AimsAppend ==
  ASSUME NEW n \in Nat \ {0}, NEW h \in 0..(n - 1), NEW c \in 0..(n - 1), NEW p \in Nat, NEW e \in Nat, NEW s,
         Aims(n, h, c, p, e, s)
  PROVE  Aims(n, h, c + 1, p + 1, e, s)
<1>1. (p + 1) - (c + 1) = p - c
  OBVIOUS
<1> QED BY <1>1 DEF Aims

LEMMA AimsTail ==
  ASSUME NEW n \in Nat \ {0}, NEW h \in 0..(n - 1), NEW c \in 1..n, NEW p \in Nat, NEW e \in Nat, NEW s,
         Aims(n, h, c, p, e, s)
  PROVE  Aims(n, (h + 1) % n, c - 1, p, e, s)
<1> SUFFICES ASSUME e > p - (c - 1), e # 0
             PROVE  e <= p /\ s = ring_slot(n, (h + 1) % n, e - (p - (c - 1)))
  BY DEF Aims
<1>1. e > p - c
  OBVIOUS
<1>2. e <= p /\ s = ring_slot(n, h, e - (p - c))
  BY <1>1 DEF Aims
<1>3. PICK i \in 1..n : i = e - (p - (c - 1)) /\ i + 1 = e - (p - c)
  BY <1>2
<1>4. ring_slot(n, (h + 1) % n, i) = ring_slot(n, h, i + 1)
  <2>1. SlotsApart(n, h)
    BY RingSlots
  <2> QED BY <2>1, Zenon DEF SlotsApart
<1> QED BY <1>2, <1>3, <1>4

\* A full ring takes the next number over its first.
LEMMA NumberedRotate ==
  ASSUME NEW n \in Nat \ {0}, NEW V, NEW d \in [0..(n - 1) -> V], NEW h \in 0..(n - 1), NEW p \in Nat, p + 1 \in V
  PROVE  /\ Numbered(n, d, h, n, p) => Numbered(n, [d EXCEPT ![h] = p + 1], (h + 1) % n, n, p + 1)
         /\ \A e \in Nat, s \in 0..(n - 1) : Aims(n, h, n, p, e, s) => Aims(n, (h + 1) % n, n, p + 1, e, s)
<1>1. PICK g \in 0..(n - 1) : g = (h + 1) % n
  <2>1. h + 1 \in Nat
    OBVIOUS
  <2>2. (h + 1) % n \in 0..(n - 1)
    BY <2>1, ModRange, Zenon
  <2> QED BY <2>2, Zenon
<1>2. (g + (n - 1)) % n = h
  <2>1. h + 1 \in Nat /\ n - 1 \in Nat /\ (h + 1) + (n - 1) = h + n
    OBVIOUS
  <2>2. (((h + 1) % n) + (n - 1)) % n = ((h + 1) + (n - 1)) % n
    BY <2>1, ModShift, Zenon
  <2> QED BY <1>1, <2>1, <2>2, ModAround
<1>3. n \in 1..n /\ n - 1 \in 0..(n - 1) /\ (n - 1) + 1 = n
  OBVIOUS
<1>4. ASSUME Numbered(n, d, h, n, p) PROVE Numbered(n, [d EXCEPT ![h] = p + 1], g, n, p + 1)
  <2>1. Numbered(n, d, g, n - 1, p)
    BY <1>1, <1>3, <1>4, NumberedTail, Zenon
  <2>2. Numbered(n, [d EXCEPT ![(g + (n - 1)) % n] = p + 1], g, (n - 1) + 1, p + 1)
    BY <1>3, <2>1, NumberedAppend, Zenon
  <2> QED BY <1>2, <1>3, <2>2
<1>5. ASSUME NEW e \in Nat, NEW s \in 0..(n - 1), Aims(n, h, n, p, e, s) PROVE Aims(n, g, n, p + 1, e, s)
  <2>1. Aims(n, g, n - 1, p, e, s)
    BY <1>1, <1>3, <1>5, AimsTail, Zenon
  <2>2. Aims(n, g, (n - 1) + 1, p + 1, e, s)
    BY <1>3, <2>1, AimsAppend, Zenon
  <2> QED BY <1>3, <2>2
<1> QED BY <1>1, <1>4, <1>5
-----------------------------------------------------------------------------
(* Stacks of numbers, each pushed once. *)

On(s, v) == \E i \in 1..Len(s) : s[i] = v

\* s holds numbers up to p in rising order; of the numbers up to p, those that are missing are in q or
\* smaller than all of s.
Rising(s, p) ==
  /\ s \in Seq(Nat)
  /\ \A i \in 1..Len(s) : s[i] \in 1..p
  /\ \A i, j \in 1..Len(s) : i < j => s[i] < s[j]
Gone(s, q, v) == v \in q \/ \A i \in 1..Len(s) : v < s[i]
StackOk(s, q, p) ==
  /\ p \in Nat /\ q \subseteq 1..p
  /\ Rising(s, p)
  /\ \A v \in 1..p : On(s, v) <=> ~Gone(s, q, v)

\* i is the place of e in s, if e is in s.
Shows(s, e, i) == On(s, e) => i \in 1..Len(s) /\ s[i] = e

\* The next number goes on top.
LEMMA StackPush ==
  ASSUME NEW s, NEW q, NEW p, StackOk(s, q, p)
  PROVE  /\ StackOk(Append(s, p + 1), q, p + 1) /\ Len(Append(s, p + 1)) = Len(s) + 1
         /\ \A e \in 0..p, i \in Nat : Shows(s, e, i) => Shows(Append(s, p + 1), e, i)
<1>1. p \in Nat /\ q \subseteq 1..p /\ s \in Seq(Nat) /\ (\A i \in 1..Len(s) : s[i] \in 1..p) /\ Len(s) \in Nat
  BY DEF StackOk, Rising
<1>2. PICK t : t = Append(s, p + 1)
  BY Zenon
<1>3. t \in Seq(Nat) /\ Len(t) = Len(s) + 1 /\ t[Len(s) + 1] = p + 1 /\ \A i \in 1..Len(s) : t[i] = s[i]
  BY <1>1, <1>2
<1>4. \A i \in 1..Len(t) : i \in 1..Len(s) \/ i = Len(s) + 1
  BY <1>1, <1>3
<1>a. \A i \in 1..Len(s) : i \in 1..Len(t) /\ ~(Len(s) + 1 < i)
  BY <1>1, <1>3
<1>b. \A i \in 1..Len(t) : t[i] \in 1..(p + 1)
  <2>1. p + 1 \in 1..(p + 1) /\ \A v \in 1..p : v \in 1..(p + 1)
    BY <1>1
  <2> QED BY <1>1, <1>3, <1>4, <2>1, Zenon
<1>c. ASSUME NEW i \in 1..Len(t), NEW j \in 1..Len(t), i < j PROVE t[i] < t[j]
  <2>1. i \in 1..Len(s) /\ t[i] = s[i] /\ s[i] \in 1..p
    <3>1. \A m \in Nat : \A x, y \in 1..(m + 1) : x < y => x \in 1..m
      OBVIOUS
    <3>2. i \in 1..Len(s)
      BY <1>1, <1>3, <1>c, <3>1, Zenon
    <3> QED BY <1>1, <1>3, <3>2, Zenon
  <2>2. CASE j \in 1..Len(s)
    <3>1. s[i] < s[j]
      BY <1>c, <2>1, <2>2 DEF StackOk, Rising
    <3> QED BY <1>3, <2>1, <2>2, <3>1
  <2>3. CASE j = Len(s) + 1
    BY <1>1, <1>3, <2>1, <2>3
  <2> QED BY <1>4, <2>2, <2>3
<1>5. Rising(t, p + 1)
  BY <1>3, <1>b, <1>c, Zenon DEF Rising
<1>6. \A v \in 0..p : On(t, v) <=> On(s, v)
  <2> SUFFICES ASSUME NEW v \in 0..p PROVE On(t, v) <=> On(s, v)
    OBVIOUS
  <2>1. v # p + 1
    BY <1>1
  <2> QED BY <1>3, <1>4, <1>a, <2>1, Zenon DEF On
<1>7. ASSUME NEW v \in 1..(p + 1) PROVE On(t, v) <=> ~Gone(t, q, v)
  <2>1. CASE v \in 1..p
    <3>0. v < p + 1
      BY <1>1, <2>1
    <3>1. Gone(t, q, v) <=> Gone(s, q, v)
      BY <1>3, <1>4, <1>a, <3>0, Zenon DEF Gone
    <3>2. (On(s, v) <=> ~Gone(s, q, v)) /\ v \in 0..p
      BY <2>1 DEF StackOk
    <3> QED BY <1>6, <3>1, <3>2
  <2>2. CASE v = p + 1
    <3>1. Len(s) + 1 \in 1..Len(t) /\ p + 1 \notin q /\ ~(p + 1 < p + 1)
      BY <1>1, <1>3
    <3> QED BY <1>3, <2>2, <3>1 DEF On, Gone
  <2> QED BY <1>1, <2>1, <2>2
<1>8. StackOk(t, q, p + 1)
  BY <1>1, <1>5, <1>7 DEF StackOk
<1>9. ASSUME NEW e \in 0..p, NEW i \in Nat, Shows(s, e, i) PROVE Shows(t, e, i)
  BY <1>3, <1>6, <1>9 DEF Shows
<1> QED BY <1>2, <1>3, <1>8, <1>9

\* The top is taken away.
LEMMA StackPop ==
  ASSUME NEW s, NEW q, NEW p, StackOk(s, q, p), s # << >>
  PROVE  /\ StackOk(SubSeq(s, 1, Len(s) - 1), q \cup {s[Len(s)]}, p) /\ Len(SubSeq(s, 1, Len(s) - 1)) = Len(s) - 1
         /\ \A e \in 0..p, i \in Nat : Shows(s, e, i) => Shows(SubSeq(s, 1, Len(s) - 1), e, i)
<1>1. /\ p \in Nat /\ q \subseteq 1..p /\ s \in Seq(Nat) /\ Len(s) \in Nat \ {0}
      /\ (\A i \in 1..Len(s) : s[i] \in 1..p) /\ (\A i, j \in 1..Len(s) : i < j => s[i] < s[j])
  BY DEF StackOk, Rising
<1>2. PICK t : t = SubSeq(s, 1, Len(s) - 1)
  BY Zenon
<1>3. t \in Seq(Nat) /\ Len(t) = Len(s) - 1 /\ \A i \in 1..(Len(s) - 1) : t[i] = s[i]
  <2>1. PICK m \in Nat : m = Len(s) /\ m # 0 /\ m - 1 \in Nat
    BY <1>1
  <2>2. \A i \in 1..(m - 1) : i \in 1..m /\ s[i] \in Nat
    BY <1>1, <2>1
  <2>3. t = [i \in 1..(m - 1) |-> s[i]]
    BY <1>1, <1>2, <2>1
  <2>4. t \in [1..(m - 1) -> Nat]
    BY <2>2, <2>3
  <2>5. t \in Seq(Nat) /\ Len(t) = m - 1
    BY <2>1, <2>4
  <2>6. \A i \in 1..(m - 1) : t[i] = s[i]
    BY <2>3, Zenon
  <2> QED BY <2>1, <2>5, <2>6, Zenon
<1>4. PICK m \in Nat : m = Len(s) /\ m # 0 /\ Len(t) = m - 1
  BY <1>1, <1>3
<1>a. \A i \in 1..Len(t) : i \in 1..m /\ i \in 1..(Len(s) - 1) /\ i < m /\ t[i] = s[i]
  BY <1>3, <1>4
<1>b. \A i \in 1..m : i \in 1..Len(t) \/ i = m
  BY <1>4
<1>5. Rising(t, p)
  BY <1>1, <1>3, <1>4, <1>a, Zenon DEF Rising
<1>6. s[m] \in 1..p /\ (\A i \in 1..Len(t) : t[i] < s[m] /\ t[i] # s[m])
  <2>1. m \in 1..m
    BY <1>4
  <2>2. s[m] \in 1..p
    BY <1>1, <1>4, <2>1, Zenon
  <2>3. ASSUME NEW i \in 1..Len(t) PROVE t[i] < s[m] /\ t[i] # s[m]
    <3>1. t[i] < s[m] /\ t[i] \in 1..p
      BY <1>1, <1>4, <1>a, <2>1, <2>3, Zenon
    <3> QED BY <2>2, <3>1
  <2> QED BY <2>2, <2>3
<1>7. \A v \in 0..p : On(t, v) <=> On(s, v) /\ v # s[m]
  BY <1>4, <1>6, <1>a, <1>b, Zenon DEF On
<1>8. ASSUME NEW v \in 1..p PROVE On(t, v) <=> ~Gone(t, q \cup {s[m]}, v)
  <2>1. (On(s, v) <=> ~Gone(s, q, v)) /\ v \in 0..p
    BY DEF StackOk
  <2>2. CASE On(t, v)
    <3>1. v \notin q /\ v # s[m]
      BY <1>7, <2>1, <2>2 DEF Gone
    <3>2. ~ \A i \in 1..Len(t) : v < t[i]
      BY <2>2 DEF On
    <3> QED BY <2>2, <3>1, <3>2 DEF Gone
  <2>3. CASE ~On(t, v)
    <3>1. v = s[m] \/ Gone(s, q, v)
      BY <1>7, <2>1, <2>3
    <3> QED BY <1>3, <1>4, <2>3, <3>1 DEF Gone
  <2> QED BY <2>2, <2>3
<1>9. StackOk(t, q \cup {s[m]}, p)
  BY <1>1, <1>5, <1>6, <1>8, Zenon DEF StackOk
<1>10. ASSUME NEW e \in 0..p, NEW i \in Nat, Shows(s, e, i) PROVE Shows(t, e, i)
  <2> SUFFICES ASSUME On(t, e) PROVE i \in 1..Len(t) /\ t[i] = e
    BY DEF Shows
  <2>1. i \in 1..m /\ s[i] = e /\ e # s[m]
    BY <1>4, <1>7, <1>10 DEF Shows
  <2>2. i \in 1..(m - 1)
    BY <2>1
  <2> QED BY <1>3, <1>4, <2>1, <2>2
<1> QED BY <1>2, <1>3, <1>4, <1>9, <1>10

\* The bottom is taken away: it is smaller than all that stay.
LEMMA StackBottom ==
  ASSUME NEW s, NEW q, NEW p, StackOk(s, q, p), s # << >>
  PROVE  StackOk(Tail(s), q, p) /\ Len(Tail(s)) = Len(s) - 1
<1>1. /\ p \in Nat /\ q \subseteq 1..p /\ s \in Seq(Nat) /\ Len(s) \in Nat \ {0}
      /\ (\A i \in 1..Len(s) : s[i] \in 1..p) /\ (\A i, j \in 1..Len(s) : i < j => s[i] < s[j])
  BY DEF StackOk, Rising
<1>2. PICK t : t = Tail(s)
  BY Zenon
<1>3. t \in Seq(Nat) /\ Len(t) = Len(s) - 1 /\ \A i \in 1..(Len(s) - 1) : t[i] = s[i + 1]
  BY <1>1, <1>2
<1>4. PICK m \in Nat : m = Len(s) /\ m # 0 /\ Len(t) = m - 1
  BY <1>1, <1>3
<1>5. \A i \in 1..(m - 1) : i + 1 \in 1..m /\ 1 \in 1..m /\ 1 < i + 1
  BY <1>4
<1>6. \A i \in 1..(m - 1) : t[i] = s[i + 1] /\ t[i] \in 1..p /\ s[1] < t[i]
  BY <1>1, <1>3, <1>4, <1>5, Zenon
<1>7. Rising(t, p)
  <2>1. ASSUME NEW i \in 1..(m - 1), NEW j \in 1..(m - 1), i < j PROVE t[i] < t[j]
    <3>1. i + 1 \in 1..m /\ j + 1 \in 1..m /\ i + 1 < j + 1
      BY <1>4, <2>1
    <3> QED BY <1>1, <1>4, <1>6, <3>1
  <2> QED BY <1>3, <1>4, <1>6, <2>1 DEF Rising
<1>8. \A v \in 1..p : On(t, v) <=> On(s, v) /\ v # s[1]
  <2> SUFFICES ASSUME NEW v \in 1..p PROVE On(t, v) <=> On(s, v) /\ v # s[1]
    OBVIOUS
  <2>1. ASSUME On(t, v) PROVE On(s, v) /\ v # s[1]
    <3>1. PICK i \in 1..(m - 1) : t[i] = v
      BY <1>4, <2>1 DEF On
    <3>2. s[i + 1] = v /\ i + 1 \in 1..m /\ s[1] < v /\ s[1] \in Nat
      BY <1>1, <1>4, <1>5, <1>6, <3>1
    <3> QED BY <1>4, <3>2 DEF On
  <2>2. ASSUME On(s, v), v # s[1] PROVE On(t, v)
    <3>1. PICK i \in 1..m : s[i] = v
      BY <1>4, <2>2 DEF On
    <3>2. i - 1 \in 1..(m - 1) /\ (i - 1) + 1 = i
      BY <1>4, <2>2, <3>1
    <3> QED BY <1>4, <1>6, <3>1, <3>2, Zenon DEF On
  <2> QED BY <2>1, <2>2
<1>9. ASSUME NEW v \in 1..p PROVE On(t, v) <=> ~Gone(t, q, v)
  <2>1. On(s, v) <=> ~Gone(s, q, v)
    BY DEF StackOk
  <2>2. CASE On(t, v)
    <3>1. v \notin q
      BY <1>8, <2>1, <2>2 DEF Gone
    <3>2. ~ \A i \in 1..Len(t) : v < t[i]
      BY <2>2 DEF On
    <3> QED BY <2>2, <3>1, <3>2 DEF Gone
  <2>3. CASE ~On(t, v)
    <3>1. v = s[1] \/ Gone(s, q, v)
      BY <1>8, <2>1, <2>3
    <3> QED BY <1>4, <1>5, <1>6, <2>3, <3>1 DEF Gone
  <2> QED BY <2>2, <2>3
<1> QED BY <1>1, <1>2, <1>3, <1>7, <1>9 DEF StackOk

-----------------------------------------------------------------------------
(* Tables of n buckets, searched for a key k from bucket h % n on. *)

probe(n, h, i) == (h + i) % n
stops_in(n, h, d, k, none) == {i \in 0..(n - 1) : d[probe(n, h, i)].key = none \/ d[probe(n, h, i)].key = k}
least(S) == CHOOSE i \in S : \A j \in S : i <= j
ends_in(n, h, d, k, none) == probe(n, h, least(stops_in(n, h, d, k, none)))
value_in(n, h, d, k, none) ==
  IF stops_in(n, h, d, k, none) = {} THEN none ELSE d[ends_in(n, h, d, k, none)].value

HasLeast(S) == S = {} \/ \E i \in S : \A j \in S : i <= j

\* The i-th probe is at b, where the search ends, and not earlier.
EndsAfter(n, h, d, k, none, b, i) ==
  /\ b = probe(n, h, i) /\ (d[b].key = none \/ d[b].key = k)
  /\ \A j \in 0..(n - 1) : j < i => d[probe(n, h, j)].key # none /\ d[probe(n, h, j)].key # k
Ends(n, h, d, k, none, b) == \E i \in 0..(n - 1) : EndsAfter(n, h, d, k, none, b, i)

\* A search that ends does so at one bucket, and that is where the operators above find it.
Searches(n, h, d, k, none) ==
  /\ stops_in(n, h, d, k, none) # {} => Ends(n, h, d, k, none, ends_in(n, h, d, k, none))
  /\ \A b : Ends(n, h, d, k, none, b) =>
              stops_in(n, h, d, k, none) # {} /\ ends_in(n, h, d, k, none) = b
              /\ value_in(n, h, d, k, none) = d[b].value /\ b \in 0..(n - 1)

LEMMA SearchesEnd ==
  ASSUME NEW n \in Nat \ {0}, NEW h \in Nat, NEW d, NEW k, NEW none,
         HasLeast(stops_in(n, h, d, k, none))
  PROVE  Searches(n, h, d, k, none)
<1>1. PICK S : S = stops_in(n, h, d, k, none)
  BY Zenon
<1>2. \A i : i \in S <=> i \in 0..(n - 1) /\ (d[probe(n, h, i)].key = none \/ d[probe(n, h, i)].key = k)
  BY <1>1, Zenon DEF stops_in
<1>3. S # {} => least(S) \in S /\ \A j \in S : least(S) <= j
  BY <1>1, Zenon DEF HasLeast, least
<1>4. ASSUME NEW i \in 0..(n - 1), NEW j \in 0..(n - 1), i <= j, j < i PROVE FALSE
  BY <1>4
<1>5. S # {} => EndsAfter(n, h, d, k, none, probe(n, h, least(S)), least(S))
  BY <1>2, <1>3, <1>4, Zenon DEF EndsAfter
<1>6. S # {} => Ends(n, h, d, k, none, probe(n, h, least(S)))
  BY <1>2, <1>3, <1>5, Zenon DEF Ends
<1>7. ASSUME NEW b, Ends(n, h, d, k, none, b)
      PROVE  S # {} /\ probe(n, h, least(S)) = b /\ b \in 0..(n - 1)
  <2>1. PICK i \in 0..(n - 1) : EndsAfter(n, h, d, k, none, b, i)
    BY <1>7, Zenon DEF Ends
  <2>2. i \in S
    BY <1>2, <2>1, Zenon DEF EndsAfter
  <2>3. least(S) \in 0..(n - 1) /\ least(S) <= i
    BY <1>2, <1>3, <2>2, Zenon
  <2>4. ~(least(S) < i)
    BY <1>2, <1>3, <2>1, <2>2, <2>3, Zenon DEF EndsAfter
  <2>5. least(S) = i
    BY <2>3, <2>4
  <2>6. h + i \in Nat
    OBVIOUS
  <2>7. probe(n, h, i) \in 0..(n - 1)
    BY <2>6, ModRange, Zenon DEF probe
  <2> QED BY <2>1, <2>2, <2>5, <2>7, Zenon DEF EndsAfter
<1>8. ends_in(n, h, d, k, none) = probe(n, h, least(S)) /\ (S # {} => value_in(n, h, d, k, none) = d[probe(n, h, least(S))].value)
  BY <1>1, Zenon DEF ends_in, value_in
<1> QED BY <1>1, <1>6, <1>7, <1>8, Zenon DEF Searches

\* A change of the table that spares the buckets on the way does not move the end of a search.
LEMMA EndsKept ==
  ASSUME NEW n \in Nat \ {0}, NEW h \in Nat, NEW d, NEW e, NEW k, NEW none, NEW b,
         Ends(n, h, d, k, none, b),
         \A a \in 0..(n - 1) : d[a].key # none /\ d[a].key # k => e[a].key = d[a].key,
         e[b].key = none \/ e[b].key = k
  PROVE  Ends(n, h, e, k, none, b)
<1>1. PICK i \in 0..(n - 1) : EndsAfter(n, h, d, k, none, b, i)
  BY Zenon DEF Ends
<1>2. ASSUME NEW j \in 0..(n - 1), j < i PROVE e[probe(n, h, j)].key # none /\ e[probe(n, h, j)].key # k
  <2>1. h + j \in Nat
    OBVIOUS
  <2>2. probe(n, h, j) \in 0..(n - 1)
    BY <2>1, ModRange, Zenon DEF probe
  <2> QED BY <1>1, <1>2, <2>2, Zenon DEF EndsAfter
<1> QED BY <1>1, <1>2, Zenon DEF Ends, EndsAfter

\* Every set of places is empty or has a least one.
HaveLeast(n) == \A S \in SUBSET (0..(n - 1)) : HasLeast(S)

\* The buckets of d hold a key of K with a value of V, or none and none.
Table(n, K, V, none, d) ==
  /\ d \in [0..(n - 1) -> [key : K \cup {none}, value : V \cup {none}]]
  /\ \A b \in 0..(n - 1) : d[b].key = none <=> d[b].value = none

\* The search for a key that is in the table ends where it is.
Placed(n, hf, none, d) == \A b \in 0..(n - 1) : d[b].key # none => Ends(n, hf[d[b].key], d, d[b].key, none, b)

\* A table in which every key is placed gives the value beside the key, and none for the other keys.
Reads(n, hf, K, none, d) ==
  \A k \in K : /\ \A b \in 0..(n - 1) : d[b].key = k => value_in(n, hf[k], d, k, none) = d[b].value
               /\ (\A b \in 0..(n - 1) : d[b].key # k) => value_in(n, hf[k], d, k, none) = none

LEMMA PlacedReads ==
  ASSUME NEW n \in Nat \ {0}, NEW K, NEW V, NEW none, none \notin K, NEW hf \in [K -> Nat], NEW d,
         HaveLeast(n), Table(n, K, V, none, d), Placed(n, hf, none, d)
  PROVE  Reads(n, hf, K, none, d)
<1> SUFFICES ASSUME NEW k \in K
             PROVE  /\ \A b \in 0..(n - 1) : d[b].key = k => value_in(n, hf[k], d, k, none) = d[b].value
                    /\ (\A b \in 0..(n - 1) : d[b].key # k) => value_in(n, hf[k], d, k, none) = none
  BY Zenon DEF Reads
<1>1. hf[k] \in Nat /\ k # none
  BY Zenon
<1>2. stops_in(n, hf[k], d, k, none) \in SUBSET (0..(n - 1))
  BY Zenon DEF stops_in
<1>3. Searches(n, hf[k], d, k, none)
  BY <1>1, <1>2, SearchesEnd, Zenon DEF HaveLeast
<1>4. ASSUME NEW b \in 0..(n - 1), d[b].key = k PROVE value_in(n, hf[k], d, k, none) = d[b].value
  <2>1. Ends(n, hf[k], d, k, none, b)
    BY <1>1, <1>4, Zenon DEF Placed
  <2> QED BY <1>3, <2>1, Zenon DEF Searches
<1>5. ASSUME \A b \in 0..(n - 1) : d[b].key # k PROVE value_in(n, hf[k], d, k, none) = none
  <2>1. CASE stops_in(n, hf[k], d, k, none) = {}
    BY <2>1, Zenon DEF value_in
  <2>2. CASE stops_in(n, hf[k], d, k, none) # {}
    <3>1. PICK b : Ends(n, hf[k], d, k, none, b)
      BY <1>3, <2>2, Zenon DEF Searches
    <3>2. b \in 0..(n - 1) /\ value_in(n, hf[k], d, k, none) = d[b].value
      BY <1>3, <3>1, Zenon DEF Searches
    <3>3. d[b].key = none
      BY <1>5, <3>1, <3>2, Zenon DEF Ends, EndsAfter
    <3> QED BY <3>2, <3>3, Zenon DEF Table
  <2> QED BY <2>1, <2>2, Zenon
<1> QED BY <1>4, <1>5, Zenon

\* Writing k and v where the search for k ends.
written(d, b, k, v) == [d EXCEPT ![b] = [key |-> k, value |-> v]]

\* The write keeps a table a table, also when it empties the bucket.
Writes(n, K, V, none, d, e, b, k, v) ==
  /\ Table(n, K, V, none, e) /\ e[b].key = k /\ e[b].value = v
  /\ \A a \in 0..(n - 1) : a # b => e[a] = d[a]

LEMMA TableWrite ==
  ASSUME NEW n \in Nat \ {0}, NEW K, NEW V, NEW none, none \notin K \cup V, NEW d,
         Table(n, K, V, none, d), NEW b \in 0..(n - 1), NEW k \in K \cup {none}, NEW v \in V \cup {none},
         k = none <=> v = none
  PROVE  Writes(n, K, V, none, d, written(d, b, k, v), b, k, v)
<1>1. PICK r : r = [key |-> k, value |-> v]
  BY Zenon
<1>2. r \in [key : K \cup {none}, value : V \cup {none}] /\ r.key = k /\ r.value = v
  BY <1>1
<1>3. PICK e : e = [d EXCEPT ![b] = r]
  BY Zenon
<1>4. d \in [0..(n - 1) -> [key : K \cup {none}, value : V \cup {none}]]
  BY Zenon DEF Table
<1>5. e \in [0..(n - 1) -> [key : K \cup {none}, value : V \cup {none}]] /\ e[b] = r
      /\ \A a \in 0..(n - 1) : a # b => e[a] = d[a]
  BY <1>2, <1>3, <1>4, Zenon
<1>6. ASSUME NEW a \in 0..(n - 1) PROVE e[a].key = none <=> e[a].value = none
  BY <1>2, <1>5, Zenon DEF Table
<1>7. Table(n, K, V, none, e)
  BY <1>5, <1>6, Zenon DEF Table
<1>8. Writes(n, K, V, none, d, e, b, k, v)
  BY <1>2, <1>5, <1>7, Zenon DEF Writes
<1> QED BY <1>1, <1>3, <1>8, Zenon DEF written

\* A write of a key where its search ends keeps every key placed.
LEMMA PlacedWrite ==
  ASSUME NEW n \in Nat \ {0}, NEW K, NEW V, NEW none, none \notin K \cup V, NEW hf \in [K -> Nat], NEW d,
         Table(n, K, V, none, d), Placed(n, hf, none, d), NEW k \in K, NEW v \in V, NEW b \in 0..(n - 1),
         Ends(n, hf[k], d, k, none, b)
  PROVE  Placed(n, hf, none, written(d, b, k, v))
<1>1. k # none /\ v # none /\ hf[k] \in Nat
  BY Zenon
<1>2. PICK e : e = written(d, b, k, v)
  BY Zenon
<1>3. /\ Table(n, K, V, none, e) /\ e[b].key = k /\ e[b].value = v
      /\ \A a \in 0..(n - 1) : a # b => e[a] = d[a]
  <2>1. k \in K \cup {none} /\ v \in V \cup {none} /\ (k = none <=> v = none)
    BY <1>1, Zenon
  <2>2. Writes(n, K, V, none, d, written(d, b, k, v), b, k, v)
    BY <2>1, TableWrite, Zenon
  <2> QED BY <1>2, <2>2, Zenon DEF Writes
<1>4. d[b].key = none \/ d[b].key = k
  BY Zenon DEF Ends, EndsAfter
<1>5. \A a \in 0..(n - 1) : d[a].key # none => e[a].key = d[a].key
  BY <1>3, <1>4, Zenon
<1>6. Ends(n, hf[k], e, k, none, b)
  <2>1. \A a \in 0..(n - 1) : d[a].key # none /\ d[a].key # k => e[a].key = d[a].key
    BY <1>5, Zenon
  <2>2. e[b].key = none \/ e[b].key = k
    BY <1>3, Zenon
  <2> QED BY <1>1, <2>1, <2>2, EndsKept, Zenon
<1>7. ASSUME NEW a \in 0..(n - 1), a # b, d[a].key # none PROVE Ends(n, hf[d[a].key], e, d[a].key, none, a)
  <2>1. Ends(n, hf[d[a].key], d, d[a].key, none, a) /\ d[a].key \in K
    <3>1. d[a] \in [key : K \cup {none}, value : V \cup {none}]
      BY Zenon DEF Table
    <3>2. d[a].key \in K
      BY <1>7, <3>1
    <3> QED BY <1>7, <3>2, Zenon DEF Placed
  <2>2. hf[d[a].key] \in Nat
    BY <2>1, Zenon
  <2>3. \A c \in 0..(n - 1) : d[c].key # none /\ d[c].key # d[a].key => e[c].key = d[c].key
    BY <1>5, Zenon
  <2>4. e[a].key = none \/ e[a].key = d[a].key
    BY <1>3, <1>7, Zenon
  <2> QED BY <2>1, <2>2, <2>3, <2>4, EndsKept, Zenon
<1>8. ASSUME NEW a \in 0..(n - 1), e[a].key # none PROVE Ends(n, hf[e[a].key], e, e[a].key, none, a)
  BY <1>3, <1>6, <1>7, <1>8, Zenon
<1> QED BY <1>2, <1>8, Zenon DEF Placed

\* It gives that key its value and leaves the others theirs; a key had a value before if its bucket is
\* not a new one.
Stores(n, hf, K, none, d, e, b, k, v) ==
  /\ value_in(n, hf[k], e, k, none) = v
  /\ \A j \in K : j # k => value_in(n, hf[j], e, j, none) = value_in(n, hf[j], d, j, none)
  /\ d[b].key # none => value_in(n, hf[k], d, k, none) # none

LEMMA WriteStores ==
  ASSUME NEW n \in Nat \ {0}, NEW K, NEW V, NEW none, none \notin K \cup V, NEW hf \in [K -> Nat], NEW d,
         HaveLeast(n), Table(n, K, V, none, d), Placed(n, hf, none, d), NEW k \in K, NEW v \in V, NEW b \in 0..(n - 1),
         Ends(n, hf[k], d, k, none, b)
  PROVE  Stores(n, hf, K, none, d, written(d, b, k, v), b, k, v)
<1>1. k # none /\ v # none /\ hf[k] \in Nat /\ none \notin K
  BY Zenon
<1>2. PICK e : e = written(d, b, k, v)
  BY Zenon
<1>3. /\ Table(n, K, V, none, e) /\ e[b].key = k /\ e[b].value = v
      /\ \A a \in 0..(n - 1) : a # b => e[a] = d[a]
  <2>1. k \in K \cup {none} /\ v \in V \cup {none} /\ (k = none <=> v = none)
    BY <1>1, Zenon
  <2>2. Writes(n, K, V, none, d, written(d, b, k, v), b, k, v)
    BY <2>1, TableWrite, Zenon
  <2> QED BY <1>2, <2>2, Zenon DEF Writes
<1>4. Placed(n, hf, none, e)
  BY <1>2, PlacedWrite, Zenon
<1>5. Reads(n, hf, K, none, d) /\ Reads(n, hf, K, none, e)
  BY <1>1, <1>3, <1>4, PlacedReads, Zenon
<1>6. d[b].key = none \/ d[b].key = k
  BY Zenon DEF Ends, EndsAfter
<1>7. ASSUME NEW j \in K, j # k PROVE value_in(n, hf[j], e, j, none) = value_in(n, hf[j], d, j, none)
  <2>1. d[b].key # j /\ e[b].key # j
    BY <1>3, <1>6, <1>7, Zenon
  <2>2. CASE \E a \in 0..(n - 1) : d[a].key = j
    <3>1. PICK a \in 0..(n - 1) : d[a].key = j
      BY <2>2, Zenon
    <3>2. e[a] = d[a]
      BY <1>3, <2>1, <3>1, Zenon
    <3>3. value_in(n, hf[j], d, j, none) = d[a].value
      BY <1>5, <3>1, Zenon DEF Reads
    <3>4. value_in(n, hf[j], e, j, none) = e[a].value
      BY <1>5, <3>1, <3>2, Zenon DEF Reads
    <3> QED BY <3>2, <3>3, <3>4, Zenon
  <2>3. CASE \A a \in 0..(n - 1) : d[a].key # j
    <3>1. \A a \in 0..(n - 1) : e[a].key # j
      BY <1>3, <2>1, <2>3, Zenon
    <3> QED BY <1>5, <2>3, <3>1, Zenon DEF Reads
  <2> QED BY <2>2, <2>3, Zenon
<1>8. ASSUME d[b].key # none PROVE value_in(n, hf[k], d, k, none) # none
  <2>1. value_in(n, hf[k], d, k, none) = d[b].value
    BY <1>5, <1>6, <1>8, Zenon DEF Reads
  <2> QED BY <1>8, <2>1, Zenon DEF Table
<1>9. value_in(n, hf[k], e, k, none) = v
  BY <1>3, <1>5, Zenon DEF Reads
<1> QED BY <1>2, <1>7, <1>8, <1>9, Zenon DEF Stores

\* After a write of k and v, or of none and none, where the search for k ends, the table shows v for k.
Answers(n, h, K, V, none, e, k, v) == Table(n, K, V, none, e) /\ value_in(n, h, e, k, none) = v

LEMMA WriteVisible ==
  ASSUME NEW n \in Nat \ {0}, NEW K, NEW V, NEW none, none \notin K \cup V, NEW h \in Nat, NEW d,
         HaveLeast(n), Table(n, K, V, none, d), NEW k \in K, NEW b \in 0..(n - 1), Ends(n, h, d, k, none, b),
         NEW j \in {k, none}, NEW v \in V \cup {none}, j = none <=> v = none
  PROVE  Answers(n, h, K, V, none, written(d, b, j, v), k, v)
<1>1. PICK e : e = written(d, b, j, v)
  BY Zenon
<1>2. Writes(n, K, V, none, d, e, b, j, v)
  BY <1>1, TableWrite, Zenon
<1>3. Ends(n, h, e, k, none, b)
  <2>1. d[b].key = none \/ d[b].key = k
    BY Zenon DEF Ends, EndsAfter
  <2> QED BY <1>2, <2>1, EndsKept, Zenon DEF Writes
<1>4. stops_in(n, h, e, k, none) \in SUBSET (0..(n - 1))
  BY Zenon DEF stops_in
<1>5. Searches(n, h, e, k, none)
  BY <1>4, SearchesEnd, Zenon DEF HaveLeast
<1>6. value_in(n, h, e, k, none) = v
  BY <1>2, <1>3, <1>5, Zenon DEF Searches, Writes
<1> QED BY <1>1, <1>2, <1>6, Zenon DEF Writes, Answers
=============================================================================
