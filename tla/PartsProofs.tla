----------------------------- MODULE PartsProofs ----------------------------
(***************************************************************************)
(* The parts that share no state with any other: the ring buffers for      *)
(* every size and every set of points, the settings for every config file  *)
(* and environment, the temperatures for every board and every reading.    *)
(***************************************************************************)
EXTENDS Ring, Config, Temps, Folding

(* The next head is the next index, and wraps to 0 after the last one. *)
LEMMA NextHeadWraps ==
    ASSUME NEW h \in 0..(Size - 1)
    PROVE  /\ NextHead(h) \in 0..(Size - 1)
           /\ h + 1 < Size => NextHead(h) = h + 1
           /\ h + 1 = Size => NextHead(h) = 0
<1>1. Size \in Nat /\ Size > 0
  BY RingAssumption
<1>2. CASE h + 1 < Size
  BY <1>1, <1>2 DEF NextHead
<1>3. CASE h + 1 = Size
  BY <1>1, <1>3 DEF NextHead
<1> QED  BY <1>1, <1>2, <1>3

LEMMA NewRingType == NewRing \in Ring /\ Filled(NewRing) /\ Slice(NewRing) = << >>
<1>1. Size \in Nat /\ Size > 0
  BY RingAssumption
<1>2. NewRing \in Ring /\ Filled(NewRing)
  BY <1>1 DEF NewRing, Ring, Filled
<1>3. Slice(NewRing) = << >>
  BY <1>1 DEF NewRing, Slice
<1> QED  BY <1>2, <1>3

(* The fields of a ring after a push. *)
LEMMA PushFields ==
    ASSUME NEW r \in Ring, NEW p \in Values
    PROVE  /\ Push(r, p) \in Ring
           /\ Push(r, p).head = NextHead(r.head)
           /\ Push(r, p).full = (r.full \/ NextHead(r.head) = 0)
           /\ \A i \in 0..(Size - 1) :
                 Push(r, p).buf[i] = IF i = r.head THEN p ELSE r.buf[i]
<1>1. /\ r.buf \in [0..(Size - 1) -> Values \cup {Zero}]
      /\ r.head \in 0..(Size - 1) /\ r.full \in BOOLEAN
  BY DEF Ring
<1>2. NextHead(r.head) \in 0..(Size - 1)
  BY <1>1, NextHeadWraps
<1>3. [r.buf EXCEPT ![r.head] = p] \in [0..(Size - 1) -> Values \cup {Zero}]
  BY <1>1
<1> QED  BY <1>1, <1>2, <1>3 DEF Push, Ring

(* A push keeps a ring well formed. *)
THEOREM PushType ==
    ASSUME NEW r \in Ring, Filled(r), NEW p \in Values
    PROVE  Push(r, p) \in Ring /\ Filled(Push(r, p))
<1>1. Size \in Nat /\ Size > 0 /\ r.head \in 0..(Size - 1) /\ r.full \in BOOLEAN
  BY RingAssumption DEF Ring
<1>2. Filled(Push(r, p))
  <2> SUFFICES ASSUME NEW i \in 0..(Size - 1),
                      Push(r, p).full \/ i < Push(r, p).head
               PROVE  Push(r, p).buf[i] \in Values
    BY DEF Filled
  <2>1. CASE i = r.head
    BY <2>1, PushFields
  <2>2. CASE i # r.head
    <3>1. r.full \/ i < r.head
      BY <1>1, <2>2, PushFields, NextHeadWraps
    <3> QED  BY <2>2, <3>1, PushFields DEF Filled
  <2> QED  BY <2>1, <2>2
<1> QED  BY <1>2, PushFields

(* The length and the elements of a slice. *)
LEMMA SliceIs ==
    ASSUME NEW r \in Ring, Filled(r)
    PROVE  /\ Slice(r) \in Seq(Values)
           /\ Len(Slice(r)) = IF r.full THEN Size ELSE r.head
           /\ \A i \in 1..Len(Slice(r)) :
                 Slice(r)[i] =
                    IF ~r.full THEN r.buf[i - 1]
                    ELSE IF i <= Size - r.head THEN r.buf[r.head + i - 1]
                    ELSE r.buf[i - 1 - (Size - r.head)]
<1>1. Size \in Nat /\ Size > 0 /\ r.head \in 0..(Size - 1) /\ r.full \in BOOLEAN
  BY RingAssumption DEF Ring
<1>2. CASE ~r.full
  <2>1. Slice(r) = [i \in 1..r.head |-> r.buf[i - 1]]
    BY <1>2 DEF Slice
  <2>2. \A i \in 1..r.head : r.buf[i - 1] \in Values
    BY <1>1, <1>2 DEF Filled
  <2> QED  BY <1>1, <1>2, <2>1, <2>2
<1>3. CASE r.full
  <2> DEFINE e(i) == IF i <= Size - r.head THEN r.buf[r.head + i - 1]
                                          ELSE r.buf[i - 1 - (Size - r.head)]
  <2>1. Slice(r) = [i \in 1..Size |-> e(i)]
    BY <1>3 DEF Slice
  <2>2. \A i \in 1..Size : e(i) \in Values
    <3> SUFFICES ASSUME NEW i \in 1..Size PROVE e(i) \in Values
      OBVIOUS
    <3>1. CASE i <= Size - r.head
      BY <1>1, <1>3, <3>1 DEF Filled
    <3>2. CASE ~(i <= Size - r.head)
      BY <1>1, <1>3, <3>2 DEF Filled
    <3> QED  BY <3>1, <3>2
  <2> QED  BY <1>1, <1>3, <2>1, <2>2
<1> QED  BY <1>2, <1>3, <1>1

(* What a ring returns after a push is what it returned before, with the   *)
(* new point at its end and, once it is full, without the oldest one.      *)
THEOREM PushKeepsRecent ==
    ASSUME NEW r \in Ring, Filled(r), NEW p \in Values
    PROVE  Slice(Push(r, p)) = KeepLast(Append(Slice(r), p), Size)
<1> DEFINE q == Push(r, p)
           s == Slice(r)
           a == Append(s, p)
<1>1. Size \in Nat /\ Size > 0 /\ r.head \in 0..(Size - 1) /\ r.full \in BOOLEAN
  BY RingAssumption DEF Ring
<1>2. q \in Ring /\ Filled(q)
  BY PushType
<1>3. /\ q.head = NextHead(r.head)
      /\ q.full = (r.full \/ NextHead(r.head) = 0)
      /\ \A i \in 0..(Size - 1) : q.buf[i] = IF i = r.head THEN p ELSE r.buf[i]
  BY PushFields
<1>4. /\ s \in Seq(Values)
      /\ Len(s) = IF r.full THEN Size ELSE r.head
      /\ \A i \in 1..Len(s) :
            s[i] = IF ~r.full THEN r.buf[i - 1]
                   ELSE IF i <= Size - r.head THEN r.buf[r.head + i - 1]
                   ELSE r.buf[i - 1 - (Size - r.head)]
  BY SliceIs
<1>5. /\ Slice(q) \in Seq(Values)
      /\ Len(Slice(q)) = IF q.full THEN Size ELSE q.head
      /\ \A i \in 1..Len(Slice(q)) :
            Slice(q)[i] = IF ~q.full THEN q.buf[i - 1]
                          ELSE IF i <= Size - q.head THEN q.buf[q.head + i - 1]
                          ELSE q.buf[i - 1 - (Size - q.head)]
  BY <1>2, SliceIs
<1> HIDE DEF q, s
<1>6. /\ a \in Seq(Values) /\ Len(a) = Len(s) + 1 /\ a[Len(s) + 1] = p
      /\ \A i \in 1..Len(s) : a[i] = s[i]
  BY <1>4
<1> HIDE DEF a
<1>7. Len(Slice(q)) = IF r.full THEN Size ELSE r.head + 1
  <2>1. CASE r.head + 1 = Size
    <3>1. q.full /\ Len(Slice(q)) = Size
      BY <1>1, <1>3, <1>5, <2>1, NextHeadWraps
    <3> QED  BY <1>1, <2>1, <3>1
  <2>2. CASE r.head + 1 < Size
    <3>1. q.full = r.full /\ q.head = r.head + 1
      BY <1>1, <1>3, <2>2, NextHeadWraps
    <3> QED  BY <1>5, <3>1
  <2> QED  BY <1>1, <2>1, <2>2
<1>8. CASE ~r.full
  <2>1. Len(a) = r.head + 1 /\ Len(a) <= Size
    BY <1>1, <1>4, <1>6, <1>8
  <2>2. KeepLast(a, Size) = a
    BY <1>1, <1>6, <2>1, KeepLastIs
  <2>3. \A i \in 1..(r.head + 1) : Slice(q)[i] = q.buf[i - 1]
    <3>1. CASE r.head + 1 < Size
      BY <1>1, <1>3, <1>5, <1>7, <1>8, <3>1, NextHeadWraps
    <3>2. CASE r.head + 1 = Size
      <4>1. q.head = 0 /\ q.full
        BY <1>3, <3>2, NextHeadWraps, <1>1
      <4> QED  BY <1>1, <1>5, <1>7, <1>8, <3>2, <4>1
    <3> QED  BY <1>1, <3>1, <3>2
  <2>4. \A i \in 1..(r.head + 1) : q.buf[i - 1] = a[i]
    <3> SUFFICES ASSUME NEW i \in 1..(r.head + 1) PROVE q.buf[i - 1] = a[i]
      OBVIOUS
    <3>1. CASE i = r.head + 1
      BY <1>1, <1>3, <1>4, <1>6, <1>8, <3>1
    <3>2. CASE i < r.head + 1
      BY <1>1, <1>3, <1>4, <1>6, <1>8, <3>2
    <3> QED  BY <1>1, <3>1, <3>2
  <2>5. Slice(q) = a
    BY <1>5, <1>6, <1>7, <1>8, <2>1, <2>3, <2>4, SameSeq
  <2> QED  BY <2>2, <2>5 DEF q, s, a
<1>9. CASE r.full
  <2> DEFINE k == KeepLast(a, Size)
  <2>1. Len(a) = Size + 1
    BY <1>1, <1>4, <1>6, <1>9
  <2>2. /\ k \in Seq(Values) /\ Len(k) = Size
        /\ \A i \in 1..Size : k[i] = a[i + 1]
    BY <1>1, <1>6, <2>1, KeepLastIs
  <2> HIDE DEF k
  <2>3. ASSUME NEW i \in 1..Size
        PROVE  Slice(q)[i] = a[i + 1]
    <3>1. /\ i < Size => a[i + 1] = s[i + 1]
          /\ i = Size => a[i + 1] = p
      BY <1>1, <1>4, <1>6, <1>9
    <3>2. i < Size =>
            s[i + 1] = IF i + 1 <= Size - r.head THEN r.buf[r.head + i]
                       ELSE r.buf[i - (Size - r.head)]
      BY <1>1, <1>4, <1>9
    <3>3. q.full
      BY <1>3, <1>9
    <3>4. Slice(q)[i] = IF i <= Size - q.head THEN q.buf[q.head + i - 1]
                        ELSE q.buf[i - 1 - (Size - q.head)]
      BY <1>1, <1>5, <1>7, <1>9, <3>3
    <3>5. CASE r.head + 1 < Size
      <4>1. q.head = r.head + 1
        BY <1>1, <1>3, <3>5, NextHeadWraps
      <4>2. CASE i <= Size - q.head
        <5>1. Slice(q)[i] = q.buf[r.head + i]
          BY <1>1, <3>4, <4>1, <4>2
        <5>2. r.head + i \in 0..(Size - 1) /\ r.head + i # r.head /\ i < Size
          BY <1>1, <4>1, <4>2
        <5> QED  BY <1>1, <1>3, <3>1, <3>2, <4>1, <4>2, <5>1, <5>2
      <4>3. CASE ~(i <= Size - q.head)
        <5>1. Slice(q)[i] = q.buf[i - (Size - r.head)]
          BY <1>1, <3>4, <4>1, <4>3
        <5>2. i - (Size - r.head) \in 0..(Size - 1)
          BY <1>1, <4>1, <4>3
        <5>3. CASE i = Size
          BY <1>1, <1>3, <3>1, <5>1, <5>2, <5>3
        <5>4. CASE i < Size
          <6>1. i - (Size - r.head) # r.head
            BY <1>1, <5>4
          <6> QED  BY <1>1, <1>3, <3>1, <3>2, <4>1, <4>3, <5>1, <5>2, <5>4, <6>1
        <5> QED  BY <1>1, <5>3, <5>4
      <4> QED  BY <4>2, <4>3
    <3>6. CASE r.head + 1 = Size
      <4>1. q.head = 0
        BY <1>1, <1>3, <3>6, NextHeadWraps
      <4>2. Slice(q)[i] = q.buf[i - 1]
        BY <1>1, <3>4, <4>1
      <4>3. CASE i = Size
        BY <1>1, <1>3, <3>1, <3>6, <4>2, <4>3
      <4>4. CASE i < Size
        BY <1>1, <1>3, <3>1, <3>2, <3>6, <4>2, <4>4
      <4> QED  BY <1>1, <4>3, <4>4
    <3> QED  BY <1>1, <3>5, <3>6
  <2>4. Slice(q) = k
    BY <1>5, <1>7, <1>9, <2>2, <2>3, SameSeq
  <2> QED  BY <2>4 DEF q, s, a, k
<1> QED  BY <1>1, <1>8, <1>9

(* Recording a point in a ring, new or not, is recording it in the bounded *)
(* log the rings stand for.                                                *)
THEOREM PushPointRefines ==
    ASSUME RingTypeOK, NEW k \in Keys, NEW p \in Values, PushPoint(k, p)
    PROVE  Logs!Record(k, p)
<1> DEFINE old == IF k \in DOMAIN rings THEN rings[k] ELSE NewRing
           view(rs) == [i \in Keys |-> IF i \in DOMAIN rs THEN Slice(rs[i]) ELSE << >>]
<1>1. old \in Ring /\ Filled(old)
  BY NewRingType DEF RingTypeOK
<1>2. view(rings)[k] = Slice(old)
  BY NewRingType
<1>3. rings' = [i \in DOMAIN rings \cup {k} |-> IF i # k THEN rings[i] ELSE Push(old, p)]
  BY DEF PushPoint
<1>4. Slice(Push(old, p)) = KeepLast(Append(Slice(old), p), Size)
  BY <1>1, PushKeepsRecent
<1> HIDE DEF old
<1>5. view(rings') = [view(rings) EXCEPT ![k] = KeepLast(Append(@, p), Size)]
  <2>1. view(rings')[k] = KeepLast(Append(view(rings)[k], p), Size)
    BY <1>2, <1>3, <1>4
  <2>2. \A i \in Keys \ {k} : view(rings')[i] = view(rings)[i]
    BY <1>3
  <2> QED  BY <2>1, <2>2
<1> QED  BY <1>5 DEF Logs!Record, Logs!KeepLast, KeepLast

-----------------------------------------------------------------------------
Rings == { r \in Ring : Filled(r) }

(* The loop of rekeyLocked pushes the points of one ring onto the other:   *)
(* what it leaves is what a bounded log keeps of both, one after the other.*)
THEOREM MergeKeepsRecent ==
    ASSUME NEW dst \in Rings, NEW src \in Rings
    PROVE  /\ Merged(dst, src) \in Rings
           /\ Slice(Merged(dst, src)) = KeepLast(Slice(dst) \o Slice(src), Size)
<1> DEFINE s == Slice(src)
           a == Slice(dst)
           n == Len(s)
           step == [i \in 1..n |-> [r \in Rings |-> Push(r, s[i])]]
           P(d) == d = [m \in 0..n |-> IF m = 0 THEN dst ELSE Push(d[m - 1], s[m])]
           d == CHOOSE d : P(d)
           both(m) == a \o SubSeq(s, 1, m)
<1>1. s \in Seq(Values) /\ a \in Seq(Values) /\ n \in Nat /\ Size \in Nat \ {0}
  BY SliceIs, RingAssumption DEF Rings
<1>2. Merged(dst, src) = d[n]
  BY DEF Merged
<1> HIDE DEF s, a
<1>3. ASSUME NEW r \in Rings, NEW i \in 1..n
      PROVE  /\ Push(r, s[i]) \in Rings
             /\ Slice(Push(r, s[i])) = KeepLast(Append(Slice(r), s[i]), Size)
  <2>1. s[i] \in Values
    BY <1>1
  <2> QED BY <2>1, PushType, PushKeepsRecent DEF Rings
<1>4. step \in [1..n -> [Rings -> Rings]]
  BY <1>3
<1>5. \E f \in [0..n -> Rings] : Recursive(f, n, dst, step)
  <2> HIDE DEF n, step, P, d, both
  <2>1. n \in Nat /\ dst \in Rings /\ step \in [1..n -> [Rings -> Rings]]
    BY <1>1, <1>4
  <2> QED BY ONLY <2>1, RecursionExists
<1>6. PICK f \in [0..n -> Rings] : f[0] = dst /\ \A i \in 1..n : f[i] = step[i][f[i - 1]]
  BY <1>5 DEF Recursive
<1>7. ASSUME NEW i \in 1..n PROVE f[i] = Push(f[i - 1], s[i])
  <2>1. i - 1 \in 0..n
    BY <1>1
  <2>2. f[i - 1] \in Rings
    BY <2>1
  <2> QED BY <1>6, <2>2
<1>8. P(f)
  BY <1>1, <1>6, <1>7
<1>9. P(d)
  <2> HIDE DEF P
  <2> QED BY <1>8
<1> HIDE DEF d
<1>10. d[0] = dst /\ \A i \in 1..n : d[i] = Push(d[i - 1], s[i])
  BY <1>1, <1>9
<1> HIDE DEF P
<1> DEFINE S == { m \in 0..n : d[m] \in Rings /\ Slice(d[m]) = KeepLast(both(m), Size) }
<1>11. 0 \in S
  <2>1. both(0) = a
    BY <1>1
  <2>2. KeepLast(a, Size) = a
    <3>1. Len(a) <= Size
      BY SliceIs, RingAssumption DEF Rings, Ring, a
    <3> QED BY <3>1 DEF KeepLast
  <2>3. Slice(dst) = a
    BY DEF a
  <2> HIDE DEF both, n
  <2>4. d[0] \in Rings /\ Slice(d[0]) = KeepLast(both(0), Size) /\ 0 \in 0..n
    BY <1>1, <1>10, <2>1, <2>2, <2>3
  <2> QED BY <2>4
<1>12. ASSUME NEW m \in 1..n, m - 1 \in S PROVE m \in S
  <2>1. d[m - 1] \in Rings /\ Slice(d[m - 1]) = KeepLast(both(m - 1), Size)
    BY <1>12
  <2>2. d[m] \in Rings /\ Slice(d[m]) = KeepLast(Append(KeepLast(both(m - 1), Size), s[m]), Size)
    BY <1>3, <1>10, <2>1
  <2>3. both(m - 1) \in Seq(Values) /\ s[m] \in Values
    BY <1>1
  <2>4. Append(both(m - 1), s[m]) = both(m)
    <3>1. both(m) \in Seq(Values) /\ Append(both(m - 1), s[m]) \in Seq(Values)
      BY <1>1
    <3>2. Len(both(m)) = Len(a) + m /\ Len(Append(both(m - 1), s[m])) = Len(a) + m
      BY <1>1
    <3>3. ASSUME NEW i \in 1..(Len(a) + m)
          PROVE  Append(both(m - 1), s[m])[i] = both(m)[i]
      <4>1. CASE i <= Len(a)
        BY <1>1, <4>1
      <4>2. CASE i = Len(a) + m
        BY <1>1, <4>2
      <4>3. CASE Len(a) < i /\ i < Len(a) + m
        BY <1>1, <4>3
      <4>4. Len(a) \in Nat /\ m \in Nat /\ i \in 1..(Len(a) + m)
        BY <1>1
      <4>5. i <= Len(a) \/ i = Len(a) + m \/ (Len(a) < i /\ i < Len(a) + m)
        BY ONLY <4>4
      <4> QED BY <4>1, <4>2, <4>3, <4>5
    <3> HIDE DEF both
    <3> QED BY <3>1, <3>2, <3>3, SameSeq
  <2> HIDE DEF both
  <2>5. Slice(d[m]) = KeepLast(both(m), Size)
    <3> DEFINE b == both(m - 1)
               v == s[m]
    <3>1. b \in Seq(Values) /\ v \in Values /\ Size \in Nat \ {0}
      BY <1>1, <2>3
    <3>2. /\ Slice(d[m]) = KeepLast(Append(KeepLast(b, Size), v), Size)
          /\ Append(b, v) = both(m)
      BY <2>2, <2>4
    <3> HIDE DEF b, v
    <3>3. KeepLast(Append(KeepLast(b, Size), v), Size) = KeepLast(Append(b, v), Size)
      BY ONLY <3>1, KeepLastAppend
    <3> QED BY <3>2, <3>3
  <2>6. m \in 0..n
    OBVIOUS
  <2> QED BY <2>2, <2>5, <2>6
<1>13. n \in S
  <2> HIDE DEF S, n
  <2>1. 0..n \subseteq S
    BY <1>1, <1>11, <1>12, InductionUpTo
  <2> QED BY <1>1, <2>1
<1>14. both(n) = a \o s
  BY <1>1
<1> HIDE DEF n, both
<1> QED BY <1>2, <1>13, <1>14 DEF a, s

(* Giving a key's points to another is folding one bounded log into the    *)
(* other, with points under the new key and without.                       *)
LEMMA RekeyRefines ==
    ASSUME RingTypeOK, NEW src \in Keys, NEW dst \in Keys, src # dst, Rekey(src, dst)
    PROVE  Logs!Fold(src, dst)
<1> DEFINE view(rs) == [i \in Keys |-> IF i \in DOMAIN rs THEN Slice(rs[i]) ELSE << >>]
<1>1. /\ src \in DOMAIN rings
      /\ rings' = [i \in (DOMAIN rings \ {src}) \cup {dst} |->
                     IF i # dst THEN rings[i]
                     ELSE IF dst \in DOMAIN rings
                          THEN Merged(rings[dst], rings[src]) ELSE rings[src]]
  BY DEF Rekey
<1>2. \A i \in DOMAIN rings : rings[i] \in Rings
  BY DEF RingTypeOK, Rings
<1>3. Slice(rings'[dst]) = KeepLast(view(rings)[dst] \o view(rings)[src], Size)
  <2>1. CASE dst \in DOMAIN rings
    BY <1>1, <1>2, <2>1, MergeKeepsRecent
  <2>2. CASE dst \notin DOMAIN rings
    <3> DEFINE s == Slice(rings[src])
    <3>1. s \in Seq(Values) /\ Len(s) <= Size
      BY <1>1, <1>2, SliceIs, RingAssumption DEF Rings, Ring
    <3>2. view(rings)[dst] = << >> /\ view(rings)[src] = s /\ Slice(rings'[dst]) = s
      BY <1>1, <2>2
    <3> HIDE DEF s, view
    <3>3. << >> \o s = s
      BY <3>1
    <3> QED BY <3>1, <3>2, <3>3 DEF KeepLast
  <2> QED BY <2>1, <2>2
<1>4. view(rings') = [view(rings) EXCEPT ![src] = << >>,
                        ![dst] = KeepLast(view(rings)[dst] \o view(rings)[src], Size)]
  <2>1. view(rings')[dst] = KeepLast(view(rings)[dst] \o view(rings)[src], Size)
    BY <1>1, <1>3
  <2>2. view(rings')[src] = << >>
    BY <1>1
  <2>3. \A i \in Keys \ {src, dst} : view(rings')[i] = view(rings)[i]
    BY <1>1
  <2> QED BY <2>1, <2>2, <2>3
<1> QED BY <1>4 DEF Logs!Fold, Logs!KeepLast, KeepLast

(* Every ring is well formed at every time. *)
LEMMA RingsAreWellFormed ==
    /\ RingInit => RingTypeOK
    /\ RingTypeOK /\ [RingNext]_rings => RingTypeOK'
<1>1. RingInit => RingTypeOK
  BY DEF RingInit, RingTypeOK
<1>2. ASSUME RingTypeOK, [RingNext]_rings PROVE RingTypeOK'
  <2>1. \A i \in DOMAIN rings : rings[i] \in Rings
    BY <1>2 DEF RingTypeOK, Rings
  <2>2. ASSUME NEW k \in Keys, NEW p \in Values, PushPoint(k, p) PROVE RingTypeOK'
    <3>1. \A r \in Rings \cup {NewRing} : Push(r, p) \in Rings
      BY NewRingType, PushType DEF Rings
    <3> QED BY <1>2, <2>1, <2>2, <3>1 DEF PushPoint, RingTypeOK, Rings
  <2>3. ASSUME NEW src \in Keys, NEW dst \in Keys, Rekey(src, dst) PROVE RingTypeOK'
    <3>1. \A r, q \in Rings : Merged(r, q) \in Rings
      BY MergeKeepsRecent
    <3> QED BY <1>2, <2>1, <2>3, <3>1 DEF Rekey, RingTypeOK, Rings
  <2> QED BY <1>2, <2>2, <2>3 DEF RingNext, RingTypeOK, Filled
<1> QED BY <1>1, <1>2

(* The rings implement the bounded logs: through wrap-around, moves and    *)
(* merges, slice returns the last Size points, oldest first (store.go      *)
(* newRing, pushLocked, rekeyLocked).                                      *)
THEOREM RingsKeepRecentPoints == RingSpec => KeepsRecentPoints
<1>1. RingInit => Logs!LogInit
  BY DEF RingInit, Logs!LogInit
<1>2. RingTypeOK /\ [RingNext]_rings =>
        [Logs!LogNext]_[k \in Keys |-> IF k \in DOMAIN rings THEN Slice(rings[k]) ELSE << >>]
  <2> SUFFICES ASSUME RingTypeOK, [RingNext]_rings
               PROVE  [Logs!LogNext]_[k \in Keys |->
                         IF k \in DOMAIN rings THEN Slice(rings[k]) ELSE << >>]
    OBVIOUS
  <2>1. ASSUME NEW k \in Keys, NEW p \in Values, PushPoint(k, p) PROVE Logs!LogNext
    BY <2>1, PushPointRefines DEF Logs!LogNext
  <2>2. ASSUME NEW src \in Keys, NEW dst \in Keys, src # dst, Rekey(src, dst)
        PROVE  Logs!LogNext
    BY <2>2, RekeyRefines DEF Logs!LogNext
  <2>3. CASE UNCHANGED rings
    BY <2>3
  <2> QED BY <2>1, <2>2, <2>3 DEF RingNext
<1> QED BY <1>1, <1>2, RingsAreWellFormed, PTL
        DEF RingSpec, KeepsRecentPoints, Logs!LogSpec

-----------------------------------------------------------------------------
Raw == [poll : Int, retention : Int, points : Int]

(* Overriding a setting leaves a number, whoever gave it. *)
LEMMA GivenIsRaw ==
    ASSUME NEW raw \in Raw, NEW given \in Inputs
    PROVE  ApplyGiven(raw, given) \in Raw
<1>1. DOMAIN raw = {"poll", "retention", "points"}
  BY DEF Raw
<1>2. \A k \in DOMAIN raw : (IF given[k] = Unset THEN raw[k] ELSE given[k]) \in Int
  BY <1>1, ConfigAssumption DEF Raw, Inputs, Given
<1> QED BY <1>1, <1>2 DEF ApplyGiven, Raw

(* One more than a quotient, times the divisor, exceeds the dividend. *)
LEMMA QuotientCovers ==
    ASSUME NEW a \in Nat, NEW b \in Nat \ {0}
    PROVE  /\ a \div b \in Nat
           /\ ((a \div b) + 1) * b > a
<1>1. /\ a \div b \in Int /\ a % b \in 0..(b - 1)
      /\ a = b * (a \div b) + (a % b)
  BY SMTT(30)
<1>2. a \div b >= 0
  <2>1. SUFFICES ASSUME a \div b <= -1 PROVE FALSE
    BY <1>1
  <2>2. b * (a \div b) <= b * (-1)
    BY <1>1, <2>1, SMTT(30)
  <2> QED BY <1>1, <2>2
<1>3. ((a \div b) + 1) * b = b * (a \div b) + b
  BY <1>1, SMTT(30)
<1> QED BY <1>1, <1>2, <1>3

(* clamp, whatever it is given (config.go:258). *)
LEMMA ClampCovers ==
    ASSUME NEW raw \in Raw
    PROVE  LET c == ClampConfig(raw)
           IN  /\ c.poll >= LeastPoll
               /\ c.points * c.poll > c.retention + c.poll
               /\ c.retention >= c.poll \/ c.poll > DefaultRetention
<1> DEFINE poll      == Largest(raw.poll, LeastPoll)
           retention == KeptFor(raw, poll)
           quotient  == retention \div poll
           points    == Largest(raw.points, Largest(quotient + 2, LeastPoints))
<1>1. poll \in Nat \ {0} /\ poll >= LeastPoll
  BY ConfigAssumption DEF Largest, Raw
<1>2. retention \in Nat /\ (retention >= poll \/ poll > DefaultRetention)
  BY <1>1, ConfigAssumption DEF KeptFor, Raw
<1>3. quotient \in Nat /\ (quotient + 1) * poll > retention
  <2> HIDE DEF poll, retention
  <2> QED BY <1>1, <1>2, QuotientCovers
<1>4. points \in Int /\ points >= quotient + 2
  <2> HIDE DEF poll, retention, quotient
  <2> QED BY <1>3, ConfigAssumption DEF Largest, Raw
<1>5. points * poll > retention + poll
  <2> HIDE DEF poll, retention, quotient, points
  <2>1. points * poll >= (quotient + 2) * poll
    BY <1>1, <1>3, <1>4, SMTT(30)
  <2>2. (quotient + 2) * poll = (quotient + 1) * poll + poll
    BY <1>1, <1>3, SMTT(30)
  <2>3. /\ points * poll \in Int /\ (quotient + 1) * poll \in Int
        /\ (quotient + 2) * poll \in Int
    BY <1>1, <1>3, <1>4
  <2> QED BY <1>1, <1>2, <1>3, <2>1, <2>2, <2>3
<1>6. ClampConfig(raw) = [poll |-> poll, retention |-> retention, points |-> points]
  BY DEF ClampConfig
<1> HIDE DEF poll, retention, quotient, points
<1> QED BY <1>1, <1>2, <1>5, <1>6

Safe(c) ==
    /\ c.poll >= LeastPoll
    /\ c.points * c.poll > c.retention + c.poll
    /\ c.retention >= c.poll \/ c.poll > DefaultRetention

(* What Load makes of a file and an environment. *)
LEMMA LoadCovers ==
    ASSUME NEW file \in Inputs, NEW env \in Inputs
    PROVE  Safe(LoadConfig(file, env))
<1>1. Defaults \in Raw
  BY ConfigAssumption DEF Defaults, Raw
<1>2. ApplyGiven(ApplyGiven(Defaults, file), env) \in Raw
  BY <1>1, GivenIsRaw
<1> QED BY <1>2, ClampCovers DEF LoadConfig, Safe

(* Whatever file and environment say, rings cover the retention and no     *)
(* poll interval is below the least (Load and clamp, config.go:77, 258).   *)
THEOREM RingsCoverRetention == ConfigSpec => []RingCoversRetention
<1> DEFINE Inv == cfg # Unset => Safe(cfg)
<1>1. ConfigInit => Inv
  BY DEF ConfigInit
<1>2. Inv /\ [ConfigNext]_cfg => Inv'
  <2> SUFFICES ASSUME Inv, [ConfigNext]_cfg PROVE Inv'
    OBVIOUS
  <2>1. CASE Load
    BY <2>1, LoadCovers DEF Load
  <2>2. CASE Exit
    BY <2>2 DEF Exit
  <2>3. CASE UNCHANGED cfg
    BY <2>3
  <2> QED BY <2>1, <2>2, <2>3 DEF ConfigNext
<1>3. Inv => RingCoversRetention
  BY DEF RingCoversRetention, Safe
<1> QED BY <1>1, <1>2, <1>3, PTL DEF ConfigSpec

-----------------------------------------------------------------------------
(* The temperatures.                                                       *)

(* A range spans the readings it is made of; there is none of no readings. *)
LEMMA SpanIs ==
    ASSUME NEW S, S \subseteq Readings
    PROVE  /\ S = {} => Span(S) = NoReading
           /\ S # {} => /\ Span(S) \in [min : S, max : S]
                        /\ Span(S) # NoReading
                        /\ \A x \in S : Span(S).min <= x /\ x <= Span(S).max
<1>1. CASE S = {}
  BY <1>1 DEF Span
<1>2. CASE S # {}
  <2> DEFINE least == CHOOSE x \in S : \A y \in S : x <= y
             greatest == CHOOSE x \in S : \A y \in S : y <= x
  <2>1. IsFiniteSet(S) /\ S \subseteq Int
    BY TempsAssumption, FS_Subset
  <2>2. /\ \E x \in S : \A y \in S : x <= y
        /\ \E x \in S : \A y \in S : y <= x
    BY <1>2, <2>1, FiniteHasEnds
  <2>3. least \in S /\ \A y \in S : least <= y
    BY <2>2
  <2>4. greatest \in S /\ \A y \in S : y <= greatest
    BY <2>2
  <2>5. Span(S) = [min |-> least, max |-> greatest]
    BY <1>2 DEF Span
  <2> HIDE DEF least, greatest
  <2>6. Span(S) \in [min : S, max : S] /\ Span(S).min = least /\ Span(S).max = greatest
    BY <2>3, <2>4, <2>5
  <2>7. Span(S) # NoReading
    <3>1. Span(S) \in [min : Int, max : Int]
      BY <2>1, <2>3, <2>4, <2>5
    <3> QED BY <3>1, TempsAssumption
  <2> QED BY <1>2, <2>3, <2>4, <2>6, <2>7
<1> QED BY <1>1, <1>2

(* So every one of the readings lies in it, and so does no reading.        *)
LEMMA SpanCovers ==
    ASSUME NEW S, S \subseteq Readings, NEW r \in S \cup {NoReading}
    PROVE  Within(r, Span(S))
BY SpanIs DEF Within

(* The readings of a board are in its row.                                 *)
LEMMA RowReadings ==
    ASSUME NEW b \in Board
    PROVE  /\ ChipReadings(b) \subseteq Readings
           /\ BoardRow(b).asicIn \in ChipReadings(b) \cup {NoReading}
           /\ BoardRow(b).asicOut \in ChipReadings(b) \cup {NoReading}
           /\ BoardRow(b).vr = b.board
           /\ ChipReadings(b) = {} =>
                 BoardRow(b).asicIn = NoReading /\ BoardRow(b).asicOut = NoReading
<1> DEFINE span == Span(ChipReadings(b))
           End(sensor, bound) ==
             IF Chain(sensor, b) # NoReading \/ span = NoReading THEN Chain(sensor, b)
             ELSE span[bound]
<1>1. /\ b.board \in Maybe /\ b.inlet \in Maybe /\ b.outlet \in Maybe
      /\ b.chips \subseteq Readings
  BY DEF Board
<1>2. \A r \in {b.inlet, b.outlet} : Chain(r, b) \in Readings \cup {NoReading}
  BY <1>1 DEF Chain, Maybe
<1>3. ChipReadings(b) \subseteq Readings
  BY <1>1, <1>2 DEF ChipReadings, Present
<1>4. \A r \in {b.inlet, b.outlet} : Chain(r, b) \in ChipReadings(b) \cup {NoReading}
  BY DEF ChipReadings, Present
<1>5. BoardRow(b) = [asicIn |-> End(b.inlet, "min"), asicOut |-> End(b.outlet, "max"),
                     vr |-> b.board]
  BY DEF BoardRow
<1>6. ChipReadings(b) # {} => span.min \in ChipReadings(b) /\ span.max \in ChipReadings(b)
  BY <1>3, SpanIs
<1>7. ChipReadings(b) = {} => span = NoReading
  BY <1>3, SpanIs
<1> HIDE DEF span
<1>8. /\ End(b.inlet, "min") \in ChipReadings(b) \cup {NoReading}
      /\ End(b.outlet, "max") \in ChipReadings(b) \cup {NoReading}
  BY <1>4, <1>6, <1>7
<1>9. ChipReadings(b) = {} => End(b.inlet, "min") = NoReading /\ End(b.outlet, "max") = NoReading
  BY <1>4, <1>7
<1> HIDE DEF End
<1> QED BY <1>3, <1>5, <1>8, <1>9

AllChips(boards) == UNION { ChipReadings(b) : b \in ToSet(boards) }
AllRegulators(boards) == Present({ b.board : b \in ToSet(boards) })

(* What is polled, before any second request.                              *)
LEMMA PolledCovers ==
    ASSUME NEW boards \in Seq(Board)
    PROVE  /\ AllChips(boards) \subseteq Readings /\ AllRegulators(boards) \subseteq Readings
           /\ Polled(boards).asic = Span(AllChips(boards))
           /\ Polled(boards).vr = Span(AllRegulators(boards))
           /\ DOMAIN Polled(boards).rows = DOMAIN boards
           /\ \A i \in DOMAIN boards :
                 /\ Polled(boards).rows[i] = BoardRow(boards[i])
                 /\ BoardRow(boards[i]).asicIn \in AllChips(boards) \cup {NoReading}
                 /\ BoardRow(boards[i]).asicOut \in AllChips(boards) \cup {NoReading}
                 /\ BoardRow(boards[i]).vr \in AllRegulators(boards) \cup {NoReading}
<1>1. \A i \in DOMAIN boards : boards[i] \in ToSet(boards) /\ boards[i] \in Board
  BY DEF ToSet
<1>2. \A b \in ToSet(boards) : b \in Board
  BY DEF ToSet
<1>3. \A b \in ToSet(boards) : b.board \in Readings \cup {NoReading}
  BY <1>2 DEF Board, Maybe
<1>4. AllRegulators(boards) \subseteq Readings
  BY <1>3 DEF AllRegulators, Present
<1>5. AllChips(boards) \subseteq Readings
  BY <1>2, RowReadings DEF AllChips
<1>6. ASSUME NEW i \in DOMAIN boards
      PROVE  /\ BoardRow(boards[i]).asicIn \in AllChips(boards) \cup {NoReading}
             /\ BoardRow(boards[i]).asicOut \in AllChips(boards) \cup {NoReading}
             /\ BoardRow(boards[i]).vr \in AllRegulators(boards) \cup {NoReading}
  BY <1>1, RowReadings DEF AllChips, AllRegulators, Present
<1> QED BY <1>4, <1>5, <1>6 DEF Polled, AllChips, AllRegulators

Agrees(c) ==
    \A i \in DOMAIN c.rows :
        /\ Within(c.rows[i].asicIn, c.asic) /\ Within(c.rows[i].asicOut, c.asic)
        /\ Within(c.rows[i].vr, c.vr)

LEMMA PolledAgrees == ASSUME NEW boards \in Seq(Board) PROVE Agrees(Polled(boards))
BY PolledCovers, SpanCovers DEF Agrees

(* What the second request changes, where there is one board.              *)
LEMMA FallbackFields ==
    ASSUME NEW p, DOMAIN p.rows = {1}, NEW info
    PROVE  /\ ApplyAxeTemps(p, info).asic =
                 IF info.chip # NoReading THEN Span({info.chip}) ELSE p.asic
           /\ ApplyAxeTemps(p, info).vr =
                 IF p.vr = NoReading /\ info.vr # NoReading THEN Span({info.vr}) ELSE p.vr
           /\ DOMAIN ApplyAxeTemps(p, info).rows = {1}
           /\ ApplyAxeTemps(p, info).rows[1].asicIn =
                 IF info.chip # NoReading THEN info.chip ELSE p.rows[1].asicIn
           /\ ApplyAxeTemps(p, info).rows[1].asicOut =
                 IF info.chip # NoReading THEN info.chip ELSE p.rows[1].asicOut
           /\ ApplyAxeTemps(p, info).rows[1].vr =
                 IF p.vr = NoReading /\ info.vr # NoReading THEN info.vr ELSE p.rows[1].vr
BY DEF ApplyAxeTemps

(* The second request answers for the one board of an Axe device.          *)
LEMMA FallbackAgrees ==
    ASSUME NEW b \in Board, NEW info \in Infos
    PROVE  Agrees(ApplyAxeTemps(Polled(<<b>>), info))
<1> DEFINE p == Polled(<<b>>)
           chip == info.chip # NoReading
           vr == p.vr = NoReading /\ info.vr # NoReading
           c == ApplyAxeTemps(p, info)
<1>1. info.chip \in Readings \cup {NoReading} /\ info.vr \in Readings \cup {NoReading}
  BY DEF Infos, Maybe
<1>2. <<b>> \in Seq(Board) /\ DOMAIN <<b>> = {1} /\ <<b>>[1] = b
  OBVIOUS
<1>3. DOMAIN p.rows = {1} /\ Agrees(p)
  BY <1>2, PolledCovers, PolledAgrees
<1> HIDE DEF p
<1>4. /\ c.asic = IF chip THEN Span({info.chip}) ELSE p.asic
      /\ c.vr = IF vr THEN Span({info.vr}) ELSE p.vr
      /\ DOMAIN c.rows = {1}
      /\ c.rows[1].asicIn = IF chip THEN info.chip ELSE p.rows[1].asicIn
      /\ c.rows[1].asicOut = IF chip THEN info.chip ELSE p.rows[1].asicOut
      /\ c.rows[1].vr = IF vr THEN info.vr ELSE p.rows[1].vr
  BY <1>3, FallbackFields
<1> HIDE DEF c
<1>5. chip => Within(info.chip, Span({info.chip}))
  BY <1>1, SpanCovers
<1>6. vr => Within(info.vr, Span({info.vr}))
  BY <1>1, SpanCovers
<1>7. /\ Within(p.rows[1].asicIn, p.asic) /\ Within(p.rows[1].asicOut, p.asic)
      /\ Within(p.rows[1].vr, p.vr)
  BY <1>3 DEF Agrees
<1> HIDE DEF chip, vr
<1>8. /\ Within(c.rows[1].asicIn, c.asic) /\ Within(c.rows[1].asicOut, c.asic)
      /\ Within(c.rows[1].vr, c.vr)
  BY <1>4, <1>5, <1>6, <1>7
<1> QED BY <1>4, <1>8 DEF Agrees, c, p

(* What is known of the miner that was polled last.                        *)
Shown(d, info) ==
    [boards |-> d[1], axe |-> d[2], info |-> info, shown |-> Converted(d[1], d[2], info)]

TempsInv == temps # NoReading => \E d \in Devices, info \in Infos : temps = Shown(d, info)

LEMMA TempsInvAlways == TempsSpec => []TempsInv
<1>1. TempsInit => TempsInv
  BY DEF TempsInit, TempsInv
<1>2. TempsInv /\ [TempsNext]_temps => TempsInv'
  BY DEF TempsInv, TempsNext, ConvertPoll, NextPoll, Shown
<1> QED BY <1>1, <1>2, PTL DEF TempsSpec

LEMMA DevicesAre ==
    ASSUME NEW d \in Devices
    PROVE  /\ d[1] \in Seq(Board)
           /\ d[2] => \E b \in Board : d[1] = <<b>>
<1>1. CASE d \in { <<b>> : b \in Board } \X BOOLEAN
  BY <1>1
<1>2. CASE d \in (NoOutlet \X NoOutlet) \X {FALSE}
  <2>1. d[1] \in NoOutlet \X NoOutlet /\ d[2] = FALSE /\ NoOutlet \subseteq Board
    BY <1>2 DEF NoOutlet
  <2>2. d[1] = <<d[1][1], d[1][2]>> /\ d[1][1] \in Board /\ d[1][2] \in Board
    BY <2>1
  <2>3. \A b, c \in Board : <<b, c>> \in Seq(Board)
    OBVIOUS
  <2>4. d[1] \in Seq(Board)
    BY ONLY <2>2, <2>3, Zenon
  <2> QED BY <2>1, <2>4
<1> QED BY <1>1, <1>2 DEF Devices

(* The detail of the boards and the range of the miner agree, for any      *)
(* readings of any boards (detailFromMinerData, applyAxeTemps).            *)
THEOREM DetailAgreesWithRange == TempsSpec => []BoardsAgreeWithRange
<1> SUFFICES TempsInv => BoardsAgreeWithRange
  BY TempsInvAlways, PTL
<1> SUFFICES ASSUME NEW d \in Devices, NEW info \in Infos, temps = Shown(d, info)
             PROVE  Agrees(temps.shown)
  BY DEF TempsInv, BoardsAgreeWithRange, Agrees
<1>1. temps.shown = Converted(d[1], d[2], info)
  BY DEF Shown
<1>2. CASE d[2]
  <2>1. PICK b \in Board : d[1] = <<b>>
    BY <1>2, DevicesAre
  <2> QED BY <1>1, <2>1, PolledAgrees, FallbackAgrees DEF Converted
<1>3. CASE ~d[2]
  BY <1>1, <1>3, DevicesAre, PolledAgrees DEF Converted
<1> QED BY <1>2, <1>3

(* A device that gives nothing but copies of its regulator has no chip     *)
(* temperature, whatever the noise, and its headline is the regulator's    *)
(* (asicrs.go:367, applyAxeTemps).                                         *)
THEOREM NoChipFromCopies == TempsSpec => []CopiesAreNotChips
<1> SUFFICES TempsInv => CopiesAreNotChips
  BY TempsInvAlways, PTL
<1> SUFFICES ASSUME NEW d \in Devices, NEW info \in Infos, temps = Shown(d, info),
                    temps.axe, GivesCopies(temps.boards[1]), temps.info.chip = NoReading
             PROVE  LET c == temps.shown
                    IN  /\ c.asic = NoReading /\ c.rows[1].asicIn = NoReading
                        /\ c.vr # NoReading => Within(Headline(c, NoReading), c.vr)
  BY DEF TempsInv, CopiesAreNotChips
<1>1. /\ d[2] /\ info.chip = NoReading /\ GivesCopies(d[1][1])
      /\ temps.shown = Converted(d[1], d[2], info)
  BY DEF Shown
<1>2. PICK b \in Board : d[1] = <<b>>
  BY <1>1, DevicesAre
<1>3. ChipReadings(b) = {}
  <2>1. \A r \in {b.inlet, b.outlet} : Chain(r, b) = NoReading
    BY <1>1, <1>2, TempsAssumption DEF GivesCopies, Copies, Chain, SameTemp, Board, Maybe
  <2> QED BY <1>1, <1>2, <2>1 DEF ChipReadings, Present, GivesCopies
<1> DEFINE p == Polled(<<b>>)
           c == temps.shown
<1>4. /\ p.asic = NoReading /\ p.rows[1].asicIn = NoReading /\ DOMAIN p.rows = {1}
      /\ p.vr = Span(AllRegulators(<<b>>)) /\ AllRegulators(<<b>>) \subseteq Readings
  <2>1. <<b>> \in Seq(Board) /\ DOMAIN <<b>> = {1} /\ <<b>>[1] = b /\ ToSet(<<b>>) = {b}
    BY DEF ToSet
  <2>2. AllChips(<<b>>) = {}
    BY <1>3, <2>1 DEF AllChips
  <2>3. /\ p.asic = Span(AllChips(<<b>>)) /\ p.vr = Span(AllRegulators(<<b>>))
        /\ AllRegulators(<<b>>) \subseteq Readings
        /\ DOMAIN p.rows = {1} /\ p.rows[1] = BoardRow(b)
    BY <2>1, PolledCovers
  <2>4. Span({}) = NoReading
    BY SpanIs
  <2>5. BoardRow(b).asicIn = NoReading
    BY <1>3, RowReadings
  <2> HIDE DEF p
  <2> QED BY <2>2, <2>3, <2>4, <2>5
<1> HIDE DEF p
<1>5. NeedsFallback(p)
  BY <1>4 DEF NeedsFallback
<1>6. c = ApplyAxeTemps(p, info)
  BY <1>1, <1>2, <1>5 DEF Converted, p
<1> HIDE DEF c
<1>7. /\ c.asic = NoReading /\ c.rows[1].asicIn = NoReading
      /\ \E S : S \subseteq Readings /\ c.vr = Span(S)
  <2>1. info.vr # NoReading => {info.vr} \subseteq Readings
    BY DEF Infos, Maybe
  <2>2. /\ c.asic = p.asic /\ c.rows[1].asicIn = p.rows[1].asicIn
        /\ c.vr = IF p.vr = NoReading /\ info.vr # NoReading THEN Span({info.vr}) ELSE p.vr
    <3>1. DOMAIN p.rows = {1} /\ info.chip = NoReading
      BY <1>1, <1>4
    <3> QED BY ONLY <1>6, <3>1, FallbackFields
  <2> QED BY <1>4, <2>1, <2>2
<1>8. ASSUME c.vr # NoReading PROVE Within(c.vr.max, c.vr)
  <2>1. PICK S : S \subseteq Readings /\ c.vr = Span(S)
    BY <1>7
  <2>2. c.vr.max \in S
    BY <1>8, <2>1, SpanIs
  <2> QED BY <2>1, <2>2, SpanCovers
<1> QED BY <1>7, <1>8 DEF Headline, c
=============================================================================
