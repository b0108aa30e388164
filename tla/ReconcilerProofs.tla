------------------------- MODULE ReconcilerProofs -------------------------
(***************************************************************************)
(* What the operators of Reconciler.tla on retained history return, for    *)
(* every history and every limit.                                          *)
(***************************************************************************)
EXTENDS Reconciler, SequenceTheorems, TLAPS

LEMMA LimitIsPositive == Limit \in Nat /\ Limit >= 1
BY LimitAssumption DEF Limit

(* Dropping the record of a digest keeps the other records in their order, and leaves no other record
   of it. *)
LEMMA WithoutKeeps ==
  ASSUME NEW h \in Seq(Build), NEW d
  PROVE  /\ Without(h, d) \in Seq(Build)
         /\ \A i \in DOMAIN Without(h, d) : \E j \in DOMAIN h : Without(h, d)[i] = h[j]
         /\ \A j \in DOMAIN h : h[j].digest = d \/ \E i \in DOMAIN Without(h, d) : Without(h, d)[i] = h[j]
         /\ \A i \in DOMAIN Without(h, d) : \E j \in DOMAIN h :
              /\ Without(h, d)[i] = h[j]
              /\ \A l \in 1 .. (j - 1) : h[l].digest = d \/ \E m \in 1 .. (i - 1) : Without(h, d)[m] = h[l]
         /\ OnePerDigest(h) => /\ OnePerDigest(Without(h, d))
                               /\ \A i \in DOMAIN Without(h, d) : Without(h, d)[i].digest # d
<1>1. CASE ~\E k \in DOMAIN h : h[k].digest = d
  <2>1. Without(h, d) = h
    BY <1>1 DEF Without
  <2>2. \A i \in DOMAIN h : \E j \in DOMAIN h :
          h[i] = h[j] /\ \A l \in 1 .. (j - 1) : \E m \in 1 .. (i - 1) : h[m] = h[l]
    OBVIOUS
  <2>3. QED
    BY <1>1, <2>1, <2>2
<1>2. CASE \E k \in DOMAIN h : h[k].digest = d
  <2> DEFINE k == CHOOSE j \in DOMAIN h : h[j].digest = d
             front == SubSeq(h, 1, k - 1)
             back == SubSeq(h, k + 1, Len(h))
             W == Without(h, d)
  <2>1. k \in DOMAIN h /\ h[k].digest = d /\ W = front \o back
    BY <1>2 DEF Without
  <2>2. Len(h) \in Nat /\ DOMAIN h = 1 .. Len(h) /\ \A i \in 1 .. Len(h) : h[i] \in Build
    BY LenProperties, ElementOfSeq
  <2> DEFINE n == Len(h)
  <2> HIDE DEF k, W
  <2>3. n \in Nat /\ k \in Nat /\ 1 <= k /\ k <= n
    BY <2>1, <2>2
  <2>4. \A i \in 1 .. n : h[i] \in Build
    BY <2>2
  <2> HIDE DEF n
  <2>5. /\ front \in Seq(Build) /\ Len(front) = k - 1
        /\ \A i \in 1 .. k - 1 : front[i] = h[i]
    <3>1. 1 \in Int /\ k - 1 \in Int /\ \A i \in 1 .. k - 1 : h[i] \in Build
      BY <2>3, <2>4
    <3>2. /\ front \in Seq(Build)
          /\ Len(front) = IF 1 <= k - 1 THEN (k - 1) - 1 + 1 ELSE 0
          /\ \A i \in 1 .. (k - 1) - 1 + 1 : front[i] = h[1 + i - 1]
      BY ONLY <3>1, SubSeqProperties
    <3> HIDE DEF front
    <3>3. QED
      BY <2>3, <3>2
  <2>6. /\ back \in Seq(Build) /\ Len(back) = n - k
        /\ \A i \in 1 .. n - k : back[i] = h[k + i]
    <3>1. k + 1 \in Int /\ n \in Int /\ \A i \in k + 1 .. n : h[i] \in Build
      BY <2>3, <2>4
    <3>2. /\ back \in Seq(Build)
          /\ Len(back) = IF k + 1 <= n THEN n - (k + 1) + 1 ELSE 0
          /\ \A i \in 1 .. n - (k + 1) + 1 : back[i] = h[(k + 1) + i - 1]
      BY ONLY <3>1, SubSeqProperties DEF n
    <3> HIDE DEF back
    <3>3. QED
      BY <2>3, <3>2
  <2> HIDE DEF front, back
  <2>7. /\ W \in Seq(Build) /\ DOMAIN W = 1 .. n - 1
        /\ \A i \in 1 .. n - 1 : W[i] = h[IF i < k THEN i ELSE i + 1]
    <3>1. /\ W \in Seq(Build) /\ Len(W) = n - 1
          /\ \A i \in 1 .. n - 1 : W[i] = IF i <= k - 1 THEN front[i] ELSE back[i - (k - 1)]
      <4>1. /\ W \in Seq(Build) /\ Len(W) = Len(front) + Len(back)
            /\ \A i \in 1 .. Len(front) + Len(back) :
                 W[i] = IF i <= Len(front) THEN front[i] ELSE back[i - Len(front)]
        BY <2>1, <2>5, <2>6, ConcatProperties
      <4>2. Len(front) = k - 1 /\ Len(front) + Len(back) = n - 1
        BY <2>3, <2>5, <2>6
      <4>3. QED
        BY <4>1, <4>2
    <3>2. DOMAIN W = 1 .. n - 1
      BY <3>1, LenProperties
    <3>3. ASSUME NEW i \in 1 .. n - 1, i < k
          PROVE  W[i] = h[i]
      <4>1. i \in 1 .. k - 1
        BY <2>3, <3>3
      <4>2. QED
        BY ONLY <2>5, <3>1, <4>1, i \in 1 .. n - 1
    <3>4. ASSUME NEW i \in 1 .. n - 1, ~(i < k)
          PROVE  W[i] = h[i + 1]
      <4>1. i - (k - 1) \in 1 .. n - k /\ k + (i - (k - 1)) = i + 1 /\ ~(i <= k - 1)
        BY <2>3, <3>4
      <4>2. QED
        BY <2>6, <3>1, <4>1
    <3>5. QED
      BY <3>1, <3>2, <3>3, <3>4
  <2>8. \A i \in DOMAIN W : \E j \in DOMAIN h : W[i] = h[j] /\ j # k
    <3>1. TAKE i \in DOMAIN W
    <3>2. (IF i < k THEN i ELSE i + 1) \in 1 .. n /\ (IF i < k THEN i ELSE i + 1) # k
      BY <2>3, <2>7
    <3>3. QED
      BY <2>2, <2>7, <3>2 DEF n
  <2>9. ASSUME OnePerDigest(h)
        PROVE  OnePerDigest(W) /\ \A i \in DOMAIN W : W[i].digest # d
    <3>1. \A i \in DOMAIN W : W[i].digest # d
      BY <2>1, <2>8, <2>9 DEF OnePerDigest
    <3>2. ASSUME NEW i \in DOMAIN W, NEW j \in DOMAIN W, W[i].digest = W[j].digest
          PROVE  i = j
      <4> DEFINE at(l) == IF l < k THEN l ELSE l + 1
      <4>1. at(i) \in 1 .. n /\ at(j) \in 1 .. n /\ W[i] = h[at(i)] /\ W[j] = h[at(j)]
        BY <2>3, <2>7
      <4>2. at(i) = at(j)
        BY <2>2, <2>9, <3>2, <4>1 DEF OnePerDigest, n
      <4>3. QED
        BY <2>3, <2>7, <4>2
    <3>3. QED
      BY <3>1, <3>2 DEF OnePerDigest
  <2>10. \A j \in DOMAIN h : h[j].digest = d \/ \E i \in DOMAIN W : W[i] = h[j]
    <3>1. TAKE j \in DOMAIN h
    <3> DEFINE i == IF j < k THEN j ELSE j - 1
    <3>2. CASE j = k
      BY <2>1, <3>2
    <3>3. CASE j # k
      <4>1. i \in 1 .. n - 1 /\ (IF i < k THEN i ELSE i + 1) = j
        BY <2>2, <2>3, <3>3 DEF n
      <4>2. W[i] = h[j]
        BY <2>7, <4>1
      <4>3. QED
        BY <2>7, <4>1, <4>2
    <3>4. QED
      BY <3>2, <3>3
  <2>11. ASSUME NEW i \in DOMAIN W
         PROVE  \E j \in DOMAIN h :
                  /\ W[i] = h[j]
                  /\ \A l \in 1 .. (j - 1) : h[l].digest = d \/ \E m \in 1 .. (i - 1) : W[m] = h[l]
    <3> DEFINE j == IF i < k THEN i ELSE i + 1
    <3>1. j \in DOMAIN h /\ W[i] = h[j]
      BY <2>2, <2>3, <2>7 DEF n
    <3>2. ASSUME NEW l \in 1 .. (j - 1), l # k
          PROVE  \E m \in 1 .. (i - 1) : W[m] = h[l]
      <4> DEFINE m == IF l < k THEN l ELSE l - 1
      <4>1. m \in 1 .. (i - 1) /\ m \in 1 .. n - 1 /\ (IF m < k THEN m ELSE m + 1) = l
        BY <2>3, <2>7, <3>2
      <4>2. W[m] = h[l]
        BY <2>7, <4>1
      <4> HIDE DEF m
      <4>3. QED
        BY <4>1, <4>2
    <3> HIDE DEF j
    <3>3. \A l \in 1 .. (j - 1) : h[l].digest = d \/ \E m \in 1 .. (i - 1) : W[m] = h[l]
      BY <2>1, <3>2
    <3>4. QED
      BY <3>1, <3>3
  <2>12. QED
    BY <2>7, <2>8, <2>9, <2>10, <2>11 DEF W
<1>3. QED
  BY <1>1, <1>2

(* RecordHistory puts the new record first, keeps only records that were there, in their order, and
   keeps one per digest; it never exceeds the limit, and trims the end of the list. *)
LEMMA RecordHistoryKeeps ==
  ASSUME NEW h \in Seq(Build), NEW b \in Build
  PROVE  /\ RecordHistory(h, b) \in Seq(Build)
         /\ Len(RecordHistory(h, b)) <= Limit
         /\ OwnOf(RecordHistory(h, b)) \subseteq OwnOf(h) \cup {b.digest}
         /\ \A i \in DOMAIN RecordHistory(h, b) :
              \/ RecordHistory(h, b)[i] = b
              \/ \E j \in DOMAIN h : RecordHistory(h, b)[i] = h[j]
         /\ \/ Len(RecordHistory(h, b)) = Limit
            \/ \A j \in DOMAIN h :
                 \E i \in DOMAIN RecordHistory(h, b) : RecordHistory(h, b)[i].digest = h[j].digest
         /\ OnePerDigest(h) => OnePerDigest(RecordHistory(h, b))
         /\ \A q \in DOMAIN RecordHistory(h, b) \ {1} : \E k \in DOMAIN h :
              /\ RecordHistory(h, b)[q] = h[k]
              /\ \A l \in 1 .. (k - 1) :
                   \E p \in 1 .. (q - 1) : RecordHistory(h, b)[p].digest = h[l].digest
<1> DEFINE others == Without(h, b.digest)
           m == IF Len(others) < Limit THEN Len(others) ELSE Limit - 1
           rest == SubSeq(others, 1, m)
           R == RecordHistory(h, b)
<1>1. R = <<b>> \o rest
  BY DEF RecordHistory
<1>2. /\ others \in Seq(Build)
      /\ \A i \in DOMAIN others : \E j \in DOMAIN h : others[i] = h[j]
      /\ \A j \in DOMAIN h : h[j].digest = b.digest \/ \E i \in DOMAIN others : others[i] = h[j]
      /\ OnePerDigest(h) => OnePerDigest(others) /\ \A i \in DOMAIN others : others[i].digest # b.digest
  BY ONLY h \in Seq(Build), WithoutKeeps
<1>order. \A i \in DOMAIN others : \E j \in DOMAIN h :
            /\ others[i] = h[j]
            /\ \A l \in 1 .. (j - 1) : h[l].digest = b.digest \/ \E o \in 1 .. (i - 1) : others[o] = h[l]
  BY ONLY h \in Seq(Build), WithoutKeeps
<1> HIDE DEF others, R
<1>3. Len(others) \in Nat /\ DOMAIN others = 1 .. Len(others) /\ \A i \in 1 .. Len(others) : others[i] \in Build
  BY <1>2, LenProperties, ElementOfSeq
<1>4. m \in Nat /\ m <= Len(others) /\ m <= Limit - 1
  BY <1>3, LimitIsPositive
<1>full. m = Len(others) \/ m + 1 = Limit
  BY <1>3, LimitIsPositive
<1> HIDE DEF m
<1>5. rest \in Seq(Build) /\ Len(rest) = m /\ \A i \in 1 .. m : rest[i] = others[i]
  BY <1>3, <1>4, SubSeqProperties, SMTT(30)
<1> HIDE DEF rest
<1>6. <<b>> \in Seq(Build) /\ Len(<<b>>) = 1 /\ <<b>>[1] = b
  OBVIOUS
<1>7. /\ R \in Seq(Build) /\ Len(R) = m + 1 /\ DOMAIN R = 1 .. m + 1
      /\ R[1] = b /\ \A i \in 2 .. m + 1 : R[i] = others[i - 1]
  <2>1. /\ R \in Seq(Build) /\ Len(R) = m + 1
        /\ \A i \in 1 .. 1 + m : R[i] = IF i <= 1 THEN <<b>>[i] ELSE rest[i - 1]
    BY <1>1, <1>4, <1>5, <1>6, ConcatProperties, SMTT(30)
  <2>2. DOMAIN R = 1 .. m + 1
    BY <2>1, LenProperties
  <2>3. R[1] = b
    BY <1>4, <1>6, <2>1
  <2>4. \A i \in 2 .. m + 1 : R[i] = rest[i - 1] /\ i - 1 \in 1 .. m
    BY <1>4, <2>1
  <2>5. QED
    BY <1>5, <2>1, <2>2, <2>3, <2>4
<1>8. Len(R) <= Limit
  BY <1>4, <1>7, LimitIsPositive
<1>9. \A i \in DOMAIN R : \/ i = 1 /\ R[i] = b
                          \/ i - 1 \in DOMAIN others /\ R[i] = others[i - 1]
  <2>1. \A i \in 1 .. m + 1 : i = 1 \/ i \in 2 .. m + 1
    BY <1>4
  <2>2. \A i \in 2 .. m + 1 : i - 1 \in 1 .. Len(others)
    BY <1>3, <1>4
  <2>3. QED
    BY <1>3, <1>7, <2>1, <2>2
<1>10. OnePerDigest(h) => OnePerDigest(R)
  <2>1. SUFFICES ASSUME OnePerDigest(h), NEW i \in DOMAIN R, NEW j \in DOMAIN R, R[i].digest = R[j].digest
                 PROVE  i = j
    BY DEF OnePerDigest
  <2>2. \A l \in DOMAIN others : others[l].digest # b.digest
    BY <1>2, <2>1
  <2>3. i = 1 <=> j = 1
    BY <1>9, <2>1, <2>2
  <2>4. i # 1 => i - 1 = j - 1
    BY <1>2, <1>9, <2>1, <2>3 DEF OnePerDigest
  <2>5. QED
    BY <1>4, <1>7, <2>3, <2>4
<1>11. OwnOf(R) \subseteq OwnOf(h) \cup {b.digest}
  BY <1>2, <1>9 DEF OwnOf
<1>12. \A i \in DOMAIN R : R[i] = b \/ \E j \in DOMAIN h : R[i] = h[j]
  BY <1>2, <1>9
<1>13. \/ Len(R) = Limit
       \/ \A j \in DOMAIN h : \E i \in DOMAIN R : R[i].digest = h[j].digest
  <2>1. CASE m + 1 = Limit
    BY <1>7, <2>1
  <2>2. CASE m = Len(others)
    <3>1. ASSUME NEW l \in DOMAIN others PROVE l + 1 \in DOMAIN R /\ R[l + 1] = others[l]
      <4>1. l + 1 \in 2 .. m + 1 /\ (l + 1) - 1 = l
        BY <1>3, <1>4, <2>2
      <4>2. l + 1 \in 1 .. m + 1
        BY <1>4, <4>1
      <4>3. R[l + 1] = others[(l + 1) - 1]
        BY <1>7, <4>1
      <4>4. QED
        BY <1>7, <4>1, <4>2, <4>3
    <3>2. 1 \in DOMAIN R /\ R[1] = b
      BY <1>4, <1>7
    <3>3. ASSUME NEW j \in DOMAIN h PROVE \E i \in DOMAIN R : R[i].digest = h[j].digest
      <4>1. CASE h[j].digest = b.digest
        BY <3>2, <4>1
      <4>2. CASE h[j].digest # b.digest
        <5>1. PICK l \in DOMAIN others : others[l] = h[j]
          BY <1>2, <4>2
        <5>2. QED
          BY <3>1, <5>1
      <4>3. QED
        BY <4>1, <4>2
    <3>4. QED
      BY <3>3
  <2>3. QED
    BY <1>full, <2>1, <2>2
<1>14. ASSUME NEW q \in DOMAIN R \ {1}
       PROVE  \E k \in DOMAIN h :
                R[q] = h[k] /\ \A l \in 1 .. (k - 1) : \E p \in 1 .. (q - 1) : R[p].digest = h[l].digest
  <2>1. q \in 2 .. m + 1 /\ q - 1 \in DOMAIN others /\ R[q] = others[q - 1]
    BY <1>3, <1>4, <1>7
  <2>2. PICK k \in DOMAIN h :
          /\ others[q - 1] = h[k]
          /\ \A l \in 1 .. (k - 1) :
               h[l].digest = b.digest \/ \E o \in 1 .. ((q - 1) - 1) : others[o] = h[l]
    BY <1>order, <2>1
  <2>3. ASSUME NEW l \in 1 .. (k - 1)
        PROVE  \E p \in 1 .. (q - 1) : R[p].digest = h[l].digest
    <3>1. CASE h[l].digest = b.digest
      <4>1. 1 \in 1 .. (q - 1) /\ R[1] = b
        BY <1>7, <2>1
      <4>2. QED
        BY <3>1, <4>1
    <3>2. ASSUME NEW o \in 1 .. ((q - 1) - 1), others[o] = h[l]
          PROVE  \E p \in 1 .. (q - 1) : R[p].digest = h[l].digest
      <4>1. o + 1 \in 2 .. m + 1 /\ (o + 1) - 1 = o /\ o + 1 \in 1 .. (q - 1)
        BY <1>4, <2>1, <3>2
      <4>2. R[o + 1] = others[o]
        BY <1>7, <4>1
      <4>3. QED
        BY <3>2, <4>1, <4>2
    <3>3. QED
      BY <2>2, <3>1, <3>2
  <2>4. QED
    BY <2>1, <2>2, <2>3
<1>15. QED
  BY <1>2, <1>7, <1>8, <1>10, <1>11, <1>12, <1>13, <1>14 DEF R

(* MarkHistory keeps the entries, says of each only what was learned of its digest, and claims what
   was tagged and nothing else that was not claimed. *)
LEMMA MarkedHistory ==
  ASSUME NEW h \in Seq(Build), NEW current, NEW tagged, NEW gone
  PROVE  LET marked == [i \in DOMAIN h |-> MarkBuild(h[i], current, tagged, gone)]
         IN /\ marked \in Seq(Build)
            /\ OwnOf(marked) \subseteq OwnOf(h) \cup tagged
            /\ OnePerDigest(h) => OnePerDigest(marked)
<1> DEFINE B(b) == MarkBuild(b, current, tagged, gone)
           M == [i \in DOMAIN h |-> B(h[i])]
<1>1. /\ DOMAIN h = 1 .. Len(h) /\ Len(h) \in Nat
      /\ \A i \in DOMAIN h : h[i] \in Build
  BY LenProperties, ElementOfSeq
<1>2. ASSUME NEW b \in Build
      PROVE  B(b) \in Build /\ B(b).digest = b.digest /\ (B(b).own => b.own \/ b.digest \in tagged)
  <2>1. CASE ~NeedsDigestTag(b)
    BY <2>1 DEF MarkBuild
  <2>2. CASE NeedsDigestTag(b)
    <3> DEFINE own == b.digest \in tagged
               lost == b.digest \in gone /\ b.digest # current
    <3>1. own \in BOOLEAN /\ lost \in BOOLEAN
      OBVIOUS
    <3>2. B(b) = [b EXCEPT !.own = own, !.lost = lost]
      BY <2>2 DEF MarkBuild
    <3> HIDE DEF B
    <3>3. B(b).own = own
      BY <3>2 DEF Build
    <3>4. B(b).own => b.digest \in tagged
      BY <3>3
    <3> HIDE DEF own, lost
    <3>5. B(b) \in Build /\ B(b).digest = b.digest
      BY <3>1, <3>2 DEF Build
    <3>6. QED
      BY <3>4, <3>5
  <2>3. QED
    BY <2>1, <2>2
<1> HIDE DEF B
<1>3. M \in Seq(Build)
  <2> DEFINE n == Len(h)
  <2>1. n \in Nat /\ \A i \in 1 .. n : B(h[i]) \in Build
    BY <1>1, <1>2
  <2>2. M = [i \in 1 .. n |-> B(h[i])]
    BY <1>1
  <2> HIDE DEF n
  <2>3. [i \in 1 .. n |-> B(h[i])] \in Seq(Build)
    BY ONLY <2>1
  <2>4. QED
    BY <2>2, <2>3
<1>4. OwnOf(M) \subseteq OwnOf(h) \cup tagged
  <2>1. \A i \in DOMAIN h :
          M[i].digest = h[i].digest /\ (M[i].own => h[i].own \/ h[i].digest \in tagged)
    BY <1>1, <1>2
  <2>2. DOMAIN M = DOMAIN h
    OBVIOUS
  <2> HIDE DEF M
  <2>3. QED
    BY <2>1, <2>2 DEF OwnOf
<1>5. OnePerDigest(h) => OnePerDigest(M)
  BY <1>1, <1>2 DEF OnePerDigest
<1>6. QED
  BY <1>3, <1>4, <1>5 DEF B

=============================================================================
