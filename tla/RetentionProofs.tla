-------------------------- MODULE RetentionProofs ---------------------------
(***************************************************************************)
(* No image a status names is collected in silence, for any number of      *)
(* objects and images and any window the margin allows: what has gone      *)
(* unpulled is bounded by the refresher's two counters, and the counters   *)
(* warn before the bound reaches the window.                               *)
(***************************************************************************)
EXTENDS Attestation, TLAPS

USE NoneAssumption, OfAssumption, KeyAssumption

-----------------------------------------------------------------------------
(* Arithmetic of the bound.                                                *)

(* QuietSince as a function of the counters.                               *)
Bound(r, f, s, n) == QuietCycles * r + DegradedAfter * f + s + n

LEMMA QuietIsNat == QuietCycles \in Nat /\ QuietCycles = DegradedAfter * DegradedAfter
<1>1. \A d \in Nat : d * d \in Nat
  OBVIOUS
<1>2. QED
  BY <1>1, DegradedAssumption DEF QuietCycles

LEMMA BoundIsNat ==
  ASSUME NEW r \in Nat, NEW f \in Nat, NEW s \in Nat, NEW n \in 0..1
  PROVE  /\ Bound(r, f, s, n) \in Nat
         /\ Bound(r, f, s, 1) = Bound(r, f, s, 0) + 1
<1> DEFINE q == QuietCycles * r
           p == DegradedAfter * f
<1>1. q \in Nat
  <2>1. \A a, b \in Nat : a * b \in Nat
    OBVIOUS
  <2>2. QED
    BY <2>1, QuietIsNat
<1>2. p \in Nat
  <2>1. \A a, b \in Nat : a * b \in Nat
    OBVIOUS
  <2>2. QED
    BY <2>1, DegradedAssumption
<1>4. /\ Bound(r, f, s, n) = q + p + s + n
      /\ Bound(r, f, s, 1) = q + p + s + 1
      /\ Bound(r, f, s, 0) = q + p + s + 0
  BY DEF Bound
<1> HIDE DEF q, p
<1>5. QED
  BY <1>1, <1>2, <1>4

(* A skipped cycle costs the interval it skips. *)
LEMMA SkipKeepsBound ==
  ASSUME NEW r \in Nat, NEW f \in Nat, NEW s \in Nat
  PROVE  Bound(r, f, s + 1, 0) = Bound(r, f, s, 1)
<1> DEFINE q == QuietCycles * r
           p == DegradedAfter * f
<1>1. q \in Nat /\ p \in Nat
  <2>1. \A a, b \in Nat : a * b \in Nat
    OBVIOUS
  <2>2. QED
    BY <2>1, QuietIsNat, DegradedAssumption
<1>2. Bound(r, f, s + 1, 0) = q + p + (s + 1) + 0 /\ Bound(r, f, s, 1) = q + p + s + 1
  BY DEF Bound
<1> HIDE DEF q, p
<1>3. QED
  BY <1>1, <1>2

(* A failed cycle clears the skips, and counts for more than they did. *)
LEMMA FailureRaisesBound ==
  ASSUME NEW r \in Nat, NEW f \in Nat, NEW s \in Nat, s < DegradedAfter
  PROVE  Bound(r, f, s, 1) <= Bound(r, f + 1, 0, 0)
<1> DEFINE q == QuietCycles * r
           p == DegradedAfter * f
           p1 == DegradedAfter * (f + 1)
<1>1. q \in Nat /\ p \in Nat
  <2>1. \A a, b \in Nat : a * b \in Nat
    OBVIOUS
  <2>2. QED
    BY <2>1, QuietIsNat, DegradedAssumption
<1>2. p1 = p + DegradedAfter
  <2>1. \A a, b \in Nat : a * (b + 1) = a * b + a
    OBVIOUS
  <2>2. QED
    BY <2>1, DegradedAssumption
<1>3. Bound(r, f + 1, 0, 0) = q + p1 + 0 + 0 /\ Bound(r, f, s, 1) = q + p + s + 1
  BY DEF Bound
<1> HIDE DEF q, p, p1
<1>4. QED
  BY <1>1, <1>2, <1>3, DegradedAssumption

(* What the counters of a quiet object can have hidden: less than QuietCycles. *)
LEMMA CountersHideLittle ==
  ASSUME NEW f \in Nat, f < DegradedAfter
  PROVE  DegradedAfter * f + DegradedAfter <= QuietCycles
<1>1. \A a, b \in Nat : b + 1 <= a => a * (b + 1) <= a * a
  OBVIOUS
<1>2. \A a, b \in Nat : a * (b + 1) = a * b + a
  OBVIOUS
<1>3. f + 1 <= DegradedAfter
  BY DegradedAssumption
<1> DEFINE p == DegradedAfter * f
           p1 == DegradedAfter * (f + 1)
<1>4. p1 <= QuietCycles /\ p1 = p + DegradedAfter
  BY <1>1, <1>2, <1>3, DegradedAssumption, QuietIsNat
<1> HIDE DEF p, p1
<1>5. p + DegradedAfter <= QuietCycles
  BY <1>4
<1>6. QED
  BY <1>5 DEF p

(* Clearing counters is paid for by the reset it is counted as. *)
LEMMA ResetRaisesBound ==
  ASSUME NEW r \in Nat, NEW f \in Nat, NEW s \in Nat, NEW n \in 0..1, f < DegradedAfter
  PROVE  /\ \A g \in Nat : Bound(r, f, s, n) <= Bound(r + 1, g, s, n)
         /\ s < DegradedAfter => Bound(r, f, s, n) <= Bound(r + 1, 0, 0, 1)
<1> DEFINE q  == QuietCycles * r
           q1 == QuietCycles * (r + 1)
           p  == DegradedAfter * f
<1>1. q \in Nat /\ p \in Nat
  <2>1. \A a, b \in Nat : a * b \in Nat
    OBVIOUS
  <2>2. QED
    BY <2>1, QuietIsNat, DegradedAssumption
<1>2. q1 = q + QuietCycles
  <2>1. \A a, b \in Nat : a * (b + 1) = a * b + a
    OBVIOUS
  <2>2. QED
    BY <2>1, QuietIsNat
<1>4. p + DegradedAfter <= QuietCycles
  BY CountersHideLittle
<1>5. Bound(r, f, s, n) = q + p + s + n /\ Bound(r + 1, 0, 0, 1) = q1 + 0 + 0 + 1
  BY DegradedAssumption DEF Bound
<1>6. ASSUME NEW g \in Nat
      PROVE  Bound(r, f, s, n) <= Bound(r + 1, g, s, n)
  <2> DEFINE m == DegradedAfter * g
  <2>1. m \in Nat
    <3>1. \A a, b \in Nat : a * b \in Nat
      OBVIOUS
    <3>2. QED
      BY <3>1, DegradedAssumption
  <2>2. Bound(r + 1, g, s, n) = q1 + m + s + n
    BY DEF Bound
  <2> HIDE DEF q, q1, p, m
  <2>3. QED
    BY <1>1, <1>2, <1>4, <1>5, <2>1, <2>2, QuietIsNat, DegradedAssumption
<1> HIDE DEF q, q1, p
<1>7. QED
  BY <1>1, <1>2, <1>4, <1>5, <1>6, QuietIsNat, DegradedAssumption

LEMMA BoundGrowsWithFailures ==
  ASSUME NEW r \in Nat, NEW f \in Nat, NEW g \in Nat, NEW s \in Nat, NEW n \in 0..1, f <= g
  PROVE  Bound(r, f, s, n) <= Bound(r, g, s, n)
<1> DEFINE q == QuietCycles * r
           p == DegradedAfter * f
           m == DegradedAfter * g
<1>1. q \in Nat /\ p \in Nat /\ m \in Nat
  <2>1. \A a, b \in Nat : a * b \in Nat
    OBVIOUS
  <2>2. QED
    BY <2>1, QuietIsNat, DegradedAssumption
<1>2. p <= m
  <2>1. \A a, b, c \in Nat : b <= c => a * b <= a * c
    OBVIOUS
  <2>2. QED
    BY <2>1, DegradedAssumption
<1>4. Bound(r, f, s, n) = q + p + s + n /\ Bound(r, g, s, n) = q + m + s + n
  BY DEF Bound
<1> HIDE DEF q, p, m
<1>5. QED
  BY <1>1, <1>2, <1>4

(* The margin: a quiet object's bound ends before the window does. *)
LEMMA BoundInsideWindow ==
  ASSUME NEW r \in 0..MaxResets, NEW f \in Nat, NEW s \in Nat,
         f < DegradedAfter, s < DegradedAfter
  PROVE  Bound(r, f, s, 0) + 1 < Window
<1> DEFINE q  == QuietCycles * r
           q1 == QuietCycles * (r + 1)
           qm == QuietCycles * (MaxResets + 1)
           p  == DegradedAfter * f
<1>1. q \in Nat /\ p \in Nat /\ qm \in Nat
  <2>1. \A a, b \in Nat : a * b \in Nat
    OBVIOUS
  <2>2. QED
    BY <2>1, QuietIsNat, DegradedAssumption, BoundAssumption
<1>2. q1 = q + QuietCycles
  <2>1. \A a, b \in Nat : a * (b + 1) = a * b + a
    OBVIOUS
  <2>2. QED
    BY <2>1, QuietIsNat
<1>3. q1 <= qm
  <2>1. \A a, b, c \in Nat : b <= c => a * b <= a * c
    OBVIOUS
  <2>2. r + 1 \in Nat /\ MaxResets + 1 \in Nat /\ r + 1 <= MaxResets + 1
    BY BoundAssumption
  <2>3. QED
    BY <2>1, <2>2, QuietIsNat
<1>4. p + DegradedAfter <= QuietCycles
  BY CountersHideLittle
<1>5. Bound(r, f, s, 0) = q + p + s + 0
  BY DEF Bound
<1>6. Window > qm /\ Window \in Nat
  BY MarginAssumption
<1> HIDE DEF q, q1, qm, p
<1>7. QED
  BY <1>1, <1>2, <1>3, <1>4, <1>5, <1>6, QuietIsNat, DegradedAssumption

-----------------------------------------------------------------------------
(* The refresher and the world keep the types.                             *)

LEMMA Counts ==
  /\ 0 \in Count /\ \A n \in Count : Up(n) \in Count /\ (n < DegradedAfter => Up(n) = n + 1)
  /\ Count \subseteq Nat
BY DegradedAssumption DEF Count, Up

LEMMA Windows == Window \in Nat /\ 0 < Window
<1> DEFINE qm == QuietCycles * (MaxResets + 1)
<1>1. qm \in Nat
  <2>1. \A a, b \in Nat : a * b \in Nat
    OBVIOUS
  <2>2. QED
    BY <2>1, QuietIsNat, BoundAssumption
<1>2. Window > qm /\ Window \in Nat
  BY MarginAssumption
<1> HIDE DEF qm
<1>3. QED
  BY <1>1, <1>2

LEMMA AgesTypes ==
  ASSUME NEW ages \in [Images -> 0..Window]
  PROVE  /\ Older(ages) \in [Images -> 0..Window]
         /\ \A i \in Images : Older(ages)[i] = IF ages[i] < Window THEN ages[i] + 1 ELSE Window
BY Windows DEF Older

LEMMA ResetTypes ==
  ASSUME resets \in 0..MaxResets + 1, Reset
  PROVE  /\ resets' \in 0..MaxResets + 1
         /\ resets' <= MaxResets => resets <= MaxResets /\ resets' = resets + 1
BY BoundAssumption DEF Reset

LEMMA DisturbTypes ==
  ASSUME disturbed \in 0..MaxDisturbances, Disturb
  PROVE  disturbed' \in 0..MaxDisturbances
BY BoundAssumption DEF Disturb

LEMMA RefsTypes ==
  ASSUME TypeOK, NEW o \in Objects
  PROVE  Refs(o) \subseteq Images
BY DEF TypeOK, RetentionTypeOK, Refs

(* A pass under way has an image to publish. *)
Aimed == \A o \in Objects : pc[o] # "idle" => spec[o] \in Images

LEMMA PublishTypes ==
  ASSUME TypeOK, NEW o \in Objects, Publish(o)
  PROVE  TypeOK'
<1>1. spec[o] \in Images /\ sbom' \subseteq Images
  BY DEF TypeOK, Publish
<1>2. age' \in [Images -> 0..Window]
  BY <1>1, Windows DEF TypeOK, RetentionTypeOK, Publish
<1>3. carried' \subseteq Images
  BY <1>1 DEF TypeOK, RetentionTypeOK, Publish
<1>4. pc' \in [Objects -> Steps]
  BY DEF TypeOK, Publish, Goto, Steps
<1>5. QED
  BY <1>1, <1>2, <1>3, <1>4
     DEF TypeOK, RetentionTypeOK, Publish, record, counters, modelOnly

LEMMA ReconvergeTypes ==
  ASSUME TypeOK, NEW o \in Objects, Reconverge(o)
  PROVE  TypeOK'
<1>1. spec[o] \in Images
  BY DEF TypeOK, Reconverge
<1>2. carried' \subseteq Images
  BY <1>1 DEF TypeOK, RetentionTypeOK, Reconverge
<1>3. pc' \in [Objects -> Steps]
  BY DEF TypeOK, Reconverge, Goto, Steps
<1>4. QED
  BY <1>1, <1>2, <1>3
     DEF TypeOK, RetentionTypeOK, Reconverge, record, counters, modelOnly

LEMMA AttestTypes ==
  ASSUME TypeOK, NEW o \in Objects, Aimed, Attest(o)
  PROVE  TypeOK'
<1>1. spec[o] \in Images
  BY DEF Attest, Aimed
<1>2. made' \in [Objects -> Images \cup {None}]
  BY <1>1 DEF TypeOK, Attest, AttestFails
<1>3. sbom' \subseteq Images
  BY <1>1 DEF TypeOK, Attest
<1>4. sig' \in [Images -> 0..Window]
  BY <1>1, Windows DEF TypeOK, Attest
<1>5. pc' \in [Objects -> Steps]
  BY DEF TypeOK, Attest, AfterAttest, Goto, Steps
<1>6. disturbed' \in 0..MaxDisturbances
  BY DisturbTypes DEF TypeOK, RetentionTypeOK, Attest
<1>7. QED
  BY <1>2, <1>3, <1>4, <1>5, <1>6 DEF TypeOK, RetentionTypeOK, Attest, record, counters

LEMMA RecordTypes ==
  ASSUME TypeOK, NEW o \in Objects, Aimed, Record(o)
  PROVE  TypeOK'
<1>1. artifact' \in [Objects -> Images \cup {None}]
  BY DEF TypeOK, RetentionTypeOK, Record
<1>2. history' \in [Objects -> SUBSET Images]
  <2>1. PICK h \in SUBSET (history[o] \cup {spec[o]}) : history' = [history EXCEPT ![o] = h]
    BY DEF Record, RecordHistory, TypeOK, RetentionTypeOK
  <2>2. h \subseteq Images
    BY <2>1 DEF TypeOK, RetentionTypeOK, Aimed, Record
  <2>3. QED
    BY <2>1, <2>2 DEF TypeOK, RetentionTypeOK
<1>3. attested' \in [Objects -> Images \cup {None}] /\ made' \in [Objects -> Images \cup {None}]
  BY DEF TypeOK, Record
<1>4. pc' \in [Objects -> Steps]
  BY DEF TypeOK, Record, Goto, Steps
<1>5. pending' \subseteq Objects
  BY DEF TypeOK, RetentionTypeOK, Record, Observed
<1>6. QED
  BY <1>1, <1>2, <1>3, <1>4, <1>5 DEF TypeOK, RetentionTypeOK, Record, counters, modelOnly

LEMMA LeaseTypes ==
  ASSUME TypeOK, NEW o \in Objects, Aimed, Lease(o)
  PROVE  TypeOK'
<1>1. PICK refs \in SUBSET Images : RefreshNow(o, spec[o], refs)
  <2>1. spec[o] \in Images
    BY DEF Aimed, Lease
  <2>2. \A h \in RecordHistory(history[o], spec[o]) : h \subseteq Images
    BY <2>1 DEF RecordHistory, TypeOK, RetentionTypeOK
  <2>3. QED
    BY <2>1, <2>2 DEF Lease
<1>2. age' \in [Images -> 0..Window]
  BY <1>1, Windows DEF RefreshNow, TypeOK, RetentionTypeOK
<1>3. failures' \in [Objects -> Count]
  BY <1>1, Counts DEF RefreshNow, Tally, TypeOK, RetentionTypeOK
<1>4. loud' \subseteq Objects /\ carried' \subseteq Images
  BY <1>1 DEF RefreshNow, TypeOK, RetentionTypeOK
<1>5. resets' \in 0..MaxResets + 1
  BY <1>1, ResetTypes DEF RefreshNow, TypeOK, RetentionTypeOK
<1>6. pc' \in [Objects -> Steps]
  BY DEF TypeOK, Lease, Goto, Steps
<1>7. QED
  BY <1>1, <1>2, <1>3, <1>4, <1>5, <1>6
     DEF TypeOK, RetentionTypeOK, Lease, RefreshNow, record, Observed

LEMMA CycleTypes ==
  ASSUME TypeOK, Refresher
  PROVE  TypeOK'
<1>1. age' \in [Images -> 0..Window]
  BY Windows DEF Refresher, Cycle, RefreshAll, Skip, TypeOK, RetentionTypeOK
<1>2. failures' \in [Objects -> Count]
  <2>1. failures \in [Objects -> Count]
    BY DEF TypeOK, RetentionTypeOK
  <2>2. \A o \in Objects : Tally(o, RefreshFails(artifact[o], Refs(o))) \in Count
    BY <2>1, Counts DEF Tally
  <2>3. \/ failures' = failures
        \/ failures' = [o \in Objects |-> Tally(o, RefreshFails(artifact[o], Refs(o)))]
    BY DEF Refresher, Cycle, RefreshAll, Skip
  <2>4. QED
    BY <2>1, <2>2, <2>3
<1>3. skips' \in Count
  BY Counts DEF Refresher, Cycle, RefreshAll, Skip, TypeOK, RetentionTypeOK
<1>4. loud' \subseteq Objects /\ carried' \subseteq Images
  BY DEF Refresher, Cycle, RefreshAll, Skip, TypeOK, RetentionTypeOK
<1>5. QED
  BY <1>1, <1>2, <1>3, <1>4 DEF TypeOK, RetentionTypeOK, Refresher, Cycle, record, modelOnly, attestVars

LEMMA IntervalTypes ==
  ASSUME TypeOK, Interval
  PROVE  TypeOK'
<1>1. age' \in [Images -> 0..Window] /\ sig' \in [Images -> 0..Window]
  BY AgesTypes DEF Interval, Tick, TypeOK, RetentionTypeOK
<1>2. sbom' \subseteq Images
  BY DEF Interval, TypeOK
<1>3. QED
  BY <1>1, <1>2 DEF TypeOK, RetentionTypeOK, Interval, Tick, record, modelOnly

LEMMA NextTypes ==
  ASSUME TypeOK, Aimed, [Next]_vars
  PROVE  TypeOK' /\ Aimed'
<1>1. ASSUME NEW o \in Objects, Pass(o)
      PROVE  TypeOK' /\ Aimed'
  <2>1. CASE CheapPath(o)
    BY <2>1 DEF CheapPath, Observed, record, counters, modelOnly, attestVars,
                TypeOK, RetentionTypeOK, Aimed
  <2>2. CASE Publish(o)
    <3>1. spec[o] \in Images
      BY <2>2 DEF Publish, TypeOK
    <3>2. QED
      BY <2>2, <3>1, PublishTypes DEF Publish, Goto, Aimed, TypeOK
  <2>3. CASE Attest(o)
    BY <2>3, AttestTypes DEF Attest, AfterAttest, Goto, Aimed, TypeOK
  <2>4. CASE Record(o)
    BY <2>4, RecordTypes DEF Record, Goto, Aimed, TypeOK
  <2>5. CASE Lease(o)
    BY <2>5, LeaseTypes DEF Lease, Goto, Aimed, TypeOK
  <2>6. CASE Reconverge(o)
    <3>1. spec[o] \in Images
      BY <2>6 DEF Reconverge, TypeOK
    <3>2. QED
      BY <2>6, <3>1, ReconvergeTypes DEF Reconverge, Goto, Aimed, TypeOK
  <2>7. QED
    BY <1>1, <2>1, <2>2, <2>3, <2>4, <2>5, <2>6 DEF Pass
<1>2. ASSUME NEW o \in Objects, PassFails(o)
      PROVE  TypeOK' /\ Aimed'
  BY <1>2, DisturbTypes
     DEF PassFails, Observed, Goto, Steps, record, counters, TypeOK, RetentionTypeOK, Aimed
<1>3. ASSUME NEW o \in Objects, NEW i \in Images, Edit(o, i)
      PROVE  TypeOK' /\ Aimed'
  BY <1>3, DisturbTypes DEF Edit, record, counters, TypeOK, RetentionTypeOK, Aimed
<1>4. CASE Refresher
  BY <1>4, CycleTypes DEF Refresher, attestVars, Aimed
<1>5. CASE Interval
  BY <1>5, IntervalTypes DEF Interval, Aimed
<1>6. CASE Restart
  BY <1>6, DisturbTypes, ResetTypes, Counts
     DEF Restart, RestartRefresher, Steps, record, TypeOK, RetentionTypeOK, Aimed
<1>7. CASE CycleFails /\ UNCHANGED attestVars
  BY <1>7, DisturbTypes, Counts DEF CycleFails, record, attestVars, TypeOK, RetentionTypeOK, Aimed
<1>8. CASE (Break \/ Mend) /\ UNCHANGED attestVars
  BY <1>8, DisturbTypes DEF Break, Mend, record, counters, modelOnly, attestVars,
                            TypeOK, RetentionTypeOK, Aimed
<1>9. CASE UNCHANGED vars
  BY <1>9 DEF vars, retentionVars, record, counters, attestVars, TypeOK, RetentionTypeOK, Aimed
<1>10. QED
  BY <1>1, <1>2, <1>3, <1>4, <1>5, <1>6, <1>7, <1>8, <1>9 DEF Next

LEMMA InitTypes == Init => TypeOK /\ Aimed
<1> SUFFICES ASSUME Init PROVE TypeOK /\ Aimed
  OBVIOUS
<1>1. RetentionTypeOK
  BY Windows, Counts, BoundAssumption DEF Init, RetentionInit, RetentionTypeOK
<1>2. QED
  BY <1>1, Windows DEF Init, TypeOK, Aimed, Steps

-----------------------------------------------------------------------------
(* The inductive invariant.                                                *)

Owing == IF owed THEN 1 ELSE 0

(* An object nothing has warned about has counters short of a warning.     *)
Warned(o) == o \notin loud => failures[o] < DegradedAfter /\ skips < DegradedAfter

(* QuietMeansFresh of one object.                                          *)
FreshRefs(o) ==
  o \notin loud /\ resets <= MaxResets =>
    \A i \in Refs(o) \ carried :
      Present(i) => age[i] <= Bound(resets, failures[o], skips, Owing)

(* What a pass is about to record is as young as what status names, or     *)
(* known for carried: no interval ends while a pass is under way.          *)
Held(o) == pc[o] # "idle" => \/ spec[o] \in Refs(o) \cup carried
                             \/ age[spec[o]] = 0

QuietInv == \A o \in Objects : Warned(o) /\ FreshRefs(o) /\ Held(o)

LEMMA OwingTypes ==
  /\ Owing \in 0..1 /\ (owed => Owing = 1) /\ (~owed => Owing = 0)
  /\ Owing' \in 0..1 /\ (owed' => Owing' = 1) /\ (~owed' => Owing' = 0)
  /\ owed' = owed => Owing' = Owing
BY DEF Owing

LEMMA QuietIsBound ==
  ASSUME TypeOK, NEW o \in Objects
  PROVE  QuietSince(o) = Bound(resets, failures[o], skips, Owing)
BY DEF QuietSince, Bound, Owing

LEMMA CounterTypes ==
  /\ \A r \in 0..MaxResets + 1 : r \in Nat
  /\ \A n \in Count : n \in Nat
  /\ \A f \in [Objects -> Count] : \A o \in Objects : f[o] \in Nat
<1>1. MaxResets + 1 \in Nat
  BY BoundAssumption
<1>2. \A r \in 0..MaxResets + 1 : r \in Nat
  BY <1>1
<1>3. \A n \in Count : n \in Nat
  BY DegradedAssumption DEF Count
<1>4. \A f \in [Objects -> Count] : \A o \in Objects : f[o] \in Count
  OBVIOUS
<1>5. QED
  BY <1>2, <1>3, <1>4

(* A step in which no time passes keeps an object fresh, if it lowers the  *)
(* object's bound by nothing and names for it only what it held.           *)
LEMMA StaysFresh ==
  ASSUME TypeOK, TypeOK', NEW o \in Objects, FreshRefs(o),
         o \in loud => o \in loud',
         resets' <= MaxResets => resets <= MaxResets,
         \A i \in Images : age'[i] = age[i] \/ age'[i] = 0,
         \A i \in carried : i \in carried' \/ age'[i] = 0,
         \A i \in Refs(o)' : i \in Refs(o) \/ i \in carried \/ age[i] = 0,
         resets' <= MaxResets /\ o \notin loud' =>
           Bound(resets, failures[o], skips, Owing) <= Bound(resets', failures'[o], skips', Owing')
  PROVE  FreshRefs(o)'
<1> SUFFICES ASSUME o \notin loud', resets' <= MaxResets,
                    NEW i \in Refs(o)', i \notin carried', age'[i] < Window
             PROVE  age'[i] <= Bound(resets', failures'[o], skips', Owing')
  BY DEF FreshRefs, Present
<1> DEFINE b  == Bound(resets, failures[o], skips, Owing)
           b1 == Bound(resets', failures'[o], skips', Owing')
<1>1. i \in Images
  BY DEF Refs, TypeOK, RetentionTypeOK
<1>2. b \in Nat /\ b1 \in Nat
  <2>1. /\ resets \in Nat /\ failures[o] \in Nat /\ skips \in Nat
        /\ resets' \in Nat /\ failures'[o] \in Nat /\ skips' \in Nat
    BY CounterTypes DEF TypeOK, RetentionTypeOK
  <2>2. QED
    BY <2>1, OwingTypes, BoundIsNat
<1>3. age[i] \in Nat /\ age'[i] \in Nat
  BY <1>1, Windows DEF TypeOK, RetentionTypeOK
<1>4. b <= b1
  OBVIOUS
<1>5. o \notin loud /\ resets <= MaxResets
  OBVIOUS
<1>6. ASSUME i \in Refs(o), i \notin carried, age[i] < Window
      PROVE  age[i] <= b
  BY <1>5, <1>6 DEF FreshRefs, Present
<1> HIDE DEF b, b1
<1>7. age'[i] <= b1
  <2>1. CASE age'[i] = 0
    BY <1>2, <2>1
  <2>2. CASE age'[i] = age[i] /\ age'[i] # 0
    <3>1. i \notin carried
      BY <2>2
    <3>2. i \in Refs(o)
      BY <2>2, <3>1
    <3>3. age[i] <= b
      BY <1>6, <2>2, <3>1, <3>2
    <3>4. QED
      BY <1>2, <1>3, <1>4, <2>2, <3>3
  <2>3. QED
    BY <1>1, <2>1, <2>2
<1>8. QED
  BY <1>7 DEF b1

(* No pass but the object's own changes what that pass has in hand. *)
LEMMA StaysHeld ==
  ASSUME TypeOK, NEW o \in Objects, Held(o), Aimed,
         \A i \in Images : age'[i] = age[i] \/ age'[i] = 0,
         \A i \in carried : i \in carried' \/ age'[i] = 0,
         pc'[o] # "idle" => pc[o] # "idle" /\ spec'[o] = spec[o],
         Refs(o) \subseteq Refs(o)'
  PROVE  Held(o)'
BY DEF Held, Aimed, TypeOK, RetentionTypeOK

(* The object's counters stand, or are reset and count as reset. *)
LEMMA CountersStand ==
  ASSUME TypeOK, NEW o \in Objects, UNCHANGED <<resets, failures[o], skips, owed>>
  PROVE  Bound(resets, failures[o], skips, Owing) <= Bound(resets', failures'[o], skips', Owing')
<1> DEFINE b == Bound(resets, failures[o], skips, Owing)
<1>1. b \in Nat
  <2>1. resets \in Nat /\ failures[o] \in Nat /\ skips \in Nat
    BY CounterTypes DEF TypeOK, RetentionTypeOK
  <2>2. QED
    BY <2>1, OwingTypes, BoundIsNat
<1>2. Bound(resets', failures'[o], skips', Owing') = b
  BY OwingTypes
<1> HIDE DEF b
<1>3. b <= b
  BY <1>1
<1>4. QED
  BY <1>2, <1>3 DEF b

(* A step that leaves ages, counters, names and carried images alone. *)
LEMMA StillQuiet ==
  ASSUME TypeOK, TypeOK', Aimed, QuietInv,
         UNCHANGED <<age, artifact, history, failures, skips, owed, carried, resets>>,
         loud \subseteq loud',
         \A o \in Objects : pc'[o] # "idle" => pc[o] # "idle" /\ spec'[o] = spec[o]
  PROVE  QuietInv'
<1> SUFFICES ASSUME NEW o \in Objects
             PROVE  (Warned(o) /\ FreshRefs(o) /\ Held(o))'
  BY DEF QuietInv
<1>1. Warned(o) /\ FreshRefs(o) /\ Held(o)
  BY DEF QuietInv
<1>2. Refs(o)' = Refs(o)
  BY DEF Refs
<1>3. Warned(o)'
  BY <1>1 DEF Warned
<1>4. FreshRefs(o)'
  BY <1>1, <1>2, CountersStand, StaysFresh
<1>5. Held(o)'
  BY <1>1, <1>2, StaysHeld
<1>6. QED
  BY <1>3, <1>4, <1>5

-----------------------------------------------------------------------------
(* Every step keeps it.                                                    *)

LEMMA PublishQuiet ==
  ASSUME TypeOK, TypeOK', Aimed, QuietInv, NEW p \in Objects, Publish(p)
  PROVE  QuietInv'
<1> SUFFICES ASSUME NEW o \in Objects
             PROVE  (Warned(o) /\ FreshRefs(o) /\ Held(o))'
  BY DEF QuietInv
<1> DEFINE image == spec[p]
<1>1. image \in Images /\ pc[p] = "idle" /\ pc' = [pc EXCEPT ![p] = "attest"]
  BY DEF Publish, Goto, TypeOK
<1>2. UNCHANGED <<artifact, history, failures, skips, owed, loud, resets, spec>>
  BY DEF Publish, record, counters, modelOnly
<1>3. Warned(o) /\ FreshRefs(o) /\ Held(o)
  BY DEF QuietInv
<1>4. Refs(o)' = Refs(o)
  BY <1>2 DEF Refs
<1>5. \A i \in Images : age'[i] = age[i] \/ age'[i] = 0
  BY <1>1 DEF Publish, TypeOK, RetentionTypeOK
<1>6. \A i \in carried : i \in carried' \/ age'[i] = 0
  BY <1>1 DEF Publish, TypeOK, RetentionTypeOK
<1>7. FreshRefs(o)'
  BY <1>2, <1>3, <1>4, <1>5, <1>6, CountersStand, StaysFresh
<1>8. Held(o)'
  <2>1. CASE o # p
    <3>1. pc'[o] = pc[o]
      BY <1>1, <2>1 DEF TypeOK
    <3>2. QED
      BY <1>2, <1>3, <1>4, <1>5, <1>6, <3>1, StaysHeld
  <2>2. CASE o = p
    <3>1. image \in Refs(o)' \cup carried' \/ age'[image] = 0
      BY <1>1, <1>4, <2>2 DEF Publish, TypeOK, RetentionTypeOK
    <3>2. QED
      BY <1>2, <2>2, <3>1 DEF Held
  <2>3. QED
    BY <2>1, <2>2
<1>9. QED
  BY <1>2, <1>3, <1>7, <1>8 DEF Warned

LEMMA ReconvergeQuiet ==
  ASSUME TypeOK, TypeOK', Aimed, QuietInv, NEW p \in Objects, Reconverge(p)
  PROVE  QuietInv'
<1> SUFFICES ASSUME NEW o \in Objects
             PROVE  (Warned(o) /\ FreshRefs(o) /\ Held(o))'
  BY DEF QuietInv
<1>1. pc[p] = "idle" /\ pc' = [pc EXCEPT ![p] = "reattest"]
  BY DEF Reconverge, Goto
<1>2. /\ UNCHANGED <<age, artifact, history, failures, skips, owed, loud, resets, spec>>
      /\ carried \subseteq carried'
  BY DEF Reconverge, record, counters, modelOnly
<1>3. Warned(o) /\ FreshRefs(o) /\ Held(o)
  BY DEF QuietInv
<1>4. Refs(o)' = Refs(o)
  BY <1>2 DEF Refs
<1>5. FreshRefs(o)'
  BY <1>2, <1>3, <1>4, CountersStand, StaysFresh
<1>6. Held(o)'
  <2>1. CASE o # p
    <3>1. pc'[o] = pc[o]
      BY <1>1, <2>1 DEF TypeOK
    <3>2. QED
      BY <1>2, <1>3, <1>4, <3>1, StaysHeld
  <2>2. CASE o = p
    BY <1>2, <1>4, <2>2 DEF Held, Reconverge
  <2>3. QED
    BY <2>1, <2>2
<1>7. QED
  BY <1>2, <1>3, <1>5, <1>6 DEF Warned

LEMMA RecordQuiet ==
  ASSUME TypeOK, TypeOK', Aimed, QuietInv, NEW p \in Objects, Record(p)
  PROVE  QuietInv'
<1> SUFFICES ASSUME NEW o \in Objects
             PROVE  (Warned(o) /\ FreshRefs(o) /\ Held(o))'
  BY DEF QuietInv
<1>1. UNCHANGED <<age, carried, failures, skips, owed, loud, resets, spec>>
  BY DEF Record, counters, modelOnly
<1>2. Warned(o) /\ FreshRefs(o) /\ Held(o)
  BY DEF QuietInv
<1>3. PICK h \in SUBSET (history[p] \cup {spec[p]}) : history' = [history EXCEPT ![p] = h]
  BY DEF Record, RecordHistory, TypeOK, RetentionTypeOK
<1>4. artifact' = [artifact EXCEPT ![p] = spec[p]] /\ pc[p] # "idle" /\ spec[p] \in Images
  BY DEF Record, Aimed
<1>5. CASE o # p
  <2>1. Refs(o)' = Refs(o)
    BY <1>3, <1>4, <1>5 DEF Refs, TypeOK, RetentionTypeOK
  <2>2. pc'[o] = pc[o]
    BY <1>5 DEF Record, Goto, TypeOK
  <2>3. FreshRefs(o)'
    BY <1>1, <1>2, <2>1, CountersStand, StaysFresh
  <2>4. Held(o)'
    BY <1>1, <1>2, <2>1, <2>2, StaysHeld
  <2>5. QED
    BY <1>1, <1>2, <2>3, <2>4 DEF Warned
<1>6. CASE o = p
  <2>1. Refs(o)' \subseteq Refs(o) \cup {spec[o]} /\ spec[o] \in Refs(o)'
    <3>1. artifact'[o] = spec[o] /\ history'[o] = h
      BY <1>3, <1>4, <1>6 DEF TypeOK, RetentionTypeOK
    <3>2. h \subseteq history[o] \cup {spec[o]}
      BY <1>3, <1>6
    <3>3. Refs(o)' = {spec[o]} \cup h
      BY <1>4, <1>6, <3>1 DEF Refs
    <3>4. history[o] \subseteq Refs(o)
      BY DEF Refs
    <3>5. QED
      BY <3>2, <3>3, <3>4
  <2>2. \A i \in Refs(o)' : i \in Refs(o) \/ i \in carried \/ age[i] = 0
    BY <1>2, <1>4, <1>6, <2>1 DEF Held
  <2>3. FreshRefs(o)'
    BY <1>1, <1>2, <2>2, CountersStand, StaysFresh
  <2>4. Held(o)'
    BY <1>1, <2>1 DEF Held
  <2>5. QED
    BY <1>1, <1>2, <2>3, <2>4 DEF Warned
<1>7. QED
  BY <1>5, <1>6

(* A lease that clears a counter is a reset; one that raises it raises the bound. *)
LEMMA LeaseBound ==
  ASSUME TypeOK, TypeOK', NEW p \in Objects, NEW refs \in SUBSET Images,
         RefreshNow(p, spec[p], refs), NEW o \in Objects, Warned(o),
         o \notin loud, resets' <= MaxResets
  PROVE  Bound(resets, failures[o], skips, Owing) <= Bound(resets', failures'[o], skips', Owing')
<1> DEFINE f  == failures[o]
           f1 == failures'[o]
<1>1. f \in Nat /\ f1 \in Nat /\ resets \in Nat /\ skips \in Nat
  BY CounterTypes DEF TypeOK, RetentionTypeOK
<1>2. skips' = skips /\ Owing' = Owing /\ Owing \in 0..1
  BY OwingTypes DEF RefreshNow
<1>3. f < DegradedAfter
  BY DEF Warned
<1>4. CASE f1 < f
  <2>1. failures'[p] < failures[p]
    <3>1. o # p => failures'[o] = failures[o]
      BY DEF RefreshNow, TypeOK, RetentionTypeOK
    <3>2. QED
      BY <1>1, <1>4, <3>1
  <2>2. resets' = resets + 1
    BY <2>1, ResetTypes DEF RefreshNow, TypeOK, RetentionTypeOK
  <2> HIDE DEF f, f1
  <2>3. Bound(resets, f, skips, Owing) <= Bound(resets + 1, f1, skips, Owing)
    BY <1>1, <1>2, <1>3, ResetRaisesBound
  <2>4. QED
    BY <1>2, <2>2, <2>3 DEF f, f1
<1>5. CASE f <= f1
  <2>1. resets' \in {resets, resets + 1}
    BY DEF RefreshNow, Reset
  <2> HIDE DEF f, f1
  <2>2. CASE resets' = resets
    <3>1. Bound(resets, f, skips, Owing) <= Bound(resets, f1, skips, Owing)
      BY <1>1, <1>2, <1>5, BoundGrowsWithFailures
    <3>2. QED
      BY <1>2, <2>2, <3>1 DEF f, f1
  <2>3. CASE resets' = resets + 1
    <3>1. Bound(resets, f, skips, Owing) <= Bound(resets + 1, f1, skips, Owing)
      BY <1>1, <1>2, <1>3, ResetRaisesBound
    <3>2. QED
      BY <1>2, <2>3, <3>1 DEF f, f1
  <2>4. QED
    BY <2>1, <2>2, <2>3
<1>6. QED
  BY <1>1, <1>4, <1>5

LEMMA LeaseQuiet ==
  ASSUME TypeOK, TypeOK', Aimed, QuietInv, NEW p \in Objects, Lease(p)
  PROVE  QuietInv'
<1>1. PICK refs \in SUBSET Images : RefreshNow(p, spec[p], refs)
  <2>1. spec[p] \in Images
    BY DEF Aimed, Lease
  <2>2. \A h \in RecordHistory(history[p], spec[p]) : h \subseteq Images
    BY <2>1 DEF RecordHistory, TypeOK, RetentionTypeOK
  <2>3. QED
    BY <2>1, <2>2 DEF Lease
<1> SUFFICES ASSUME NEW o \in Objects
             PROVE  (Warned(o) /\ FreshRefs(o) /\ Held(o))'
  BY DEF QuietInv
<1>2. Warned(o) /\ FreshRefs(o) /\ Held(o)
  BY DEF QuietInv
<1>3. /\ UNCHANGED <<artifact, history, skips, owed, spec>>
      /\ loud \subseteq loud'
  BY <1>1 DEF Lease, RefreshNow, record
<1>4. Refs(o)' = Refs(o)
  BY <1>3 DEF Refs
<1>5. /\ \A i \in Images : age'[i] = age[i] \/ age'[i] = 0
      /\ \A i \in carried : i \in carried' \/ age'[i] = 0
  BY <1>1 DEF RefreshNow, TypeOK, RetentionTypeOK
<1>6. Warned(o)'
  <2>1. failures'[o] \in Count
    BY DEF TypeOK, RetentionTypeOK
  <2>2. o = p /\ o \notin loud' => failures'[o] # DegradedAfter
    BY <1>1 DEF RefreshNow
  <2>3. o # p => failures'[o] = failures[o]
    BY <1>1 DEF RefreshNow, TypeOK, RetentionTypeOK
  <2>4. \A n \in Count : n # DegradedAfter => n < DegradedAfter
    BY DegradedAssumption DEF Count
  <2>5. QED
    BY <1>2, <1>3, <2>1, <2>2, <2>3, <2>4 DEF Warned
<1>7. FreshRefs(o)'
  <2>1. resets' <= MaxResets => resets <= MaxResets
    BY <1>1, ResetTypes DEF RefreshNow, TypeOK, RetentionTypeOK
  <2>2. resets' <= MaxResets /\ o \notin loud' =>
          Bound(resets, failures[o], skips, Owing) <= Bound(resets', failures'[o], skips', Owing')
    BY <1>1, <1>2, <1>3, LeaseBound
  <2>3. QED
    BY <1>2, <1>3, <1>4, <1>5, <2>1, <2>2, StaysFresh
<1>8. Held(o)'
  <2>1. pc'[o] # "idle" => pc[o] # "idle"
    BY DEF Lease, Goto, TypeOK
  <2>2. QED
    BY <1>2, <1>3, <1>4, <1>5, <2>1, StaysHeld
<1>9. QED
  BY <1>6, <1>7, <1>8

(* What a cycle does with an object it does not fail: all it names is pulled. *)
LEMMA CyclePulls ==
  ASSUME TypeOK, NEW o \in Objects, RefreshAll, ~RefreshFails(artifact[o], Refs(o)),
         NEW i \in Refs(o), age'[i] < Window
  PROVE  age'[i] = 0
<1>1. i \in Images /\ i \in Live
  BY RefsTypes DEF Live
<1>2. age'[i] = IF i \in Renewed(Live) THEN 0 ELSE age[i]
  BY <1>1 DEF RefreshAll
<1>3. CASE Present(i)
  <2>1. i \notin broken
    BY <1>3 DEF RefreshFails
  <2>2. QED
    BY <1>1, <1>2, <1>3, <2>1 DEF Renewed
<1>4. CASE ~Present(i)
  BY <1>2, <1>4, Windows DEF Present, TypeOK, RetentionTypeOK
<1>5. QED
  BY <1>3, <1>4

LEMMA SkipQuiet ==
  ASSUME TypeOK, TypeOK', Aimed, QuietInv, Refresher, pending # {}
  PROVE  QuietInv'
<1> SUFFICES ASSUME NEW o \in Objects
             PROVE  (Warned(o) /\ FreshRefs(o) /\ Held(o))'
  BY DEF QuietInv
<1>1. Warned(o) /\ FreshRefs(o) /\ Held(o)
  BY DEF QuietInv
<1>2. /\ owed /\ ~owed' /\ skips' = Up(skips)
      /\ loud' = IF skips' = DegradedAfter THEN Objects ELSE loud
      /\ UNCHANGED <<age, failures, carried, artifact, history, resets, pc, spec>>
  BY DEF Refresher, Cycle, Skip, record, modelOnly, attestVars
<1>3. Refs(o)' = Refs(o)
  BY <1>2 DEF Refs
<1>4. o \in loud => o \in loud'
  BY <1>2
<1>5. o \notin loud' => o \notin loud /\ skips < DegradedAfter /\ skips' = skips + 1
                        /\ skips' < DegradedAfter
  <2>1. skips \in Count /\ skips' \in Count
    BY DEF TypeOK, RetentionTypeOK
  <2>2. \A n \in Count : n # DegradedAfter => n < DegradedAfter
    BY DegradedAssumption DEF Count
  <2>3. QED
    BY <1>1, <1>2, <2>1, <2>2, Counts DEF Warned
<1>6. Warned(o)'
  BY <1>1, <1>2, <1>5 DEF Warned
<1>7. FreshRefs(o)'
  <2>1. resets' <= MaxResets /\ o \notin loud' =>
          Bound(resets, failures[o], skips, Owing) <= Bound(resets', failures'[o], skips', Owing')
    <3> SUFFICES ASSUME o \notin loud'
                 PROVE  Bound(resets, failures[o], skips, 1)
                          <= Bound(resets, failures[o], skips + 1, 0)
      BY <1>2, <1>5, OwingTypes
    <3>1. resets \in Nat /\ failures[o] \in Nat /\ skips \in Nat
      BY CounterTypes DEF TypeOK, RetentionTypeOK
    <3>2. Bound(resets, failures[o], skips + 1, 0) = Bound(resets, failures[o], skips, 1)
      BY <3>1, SkipKeepsBound
    <3>3. 1 \in 0..1
      OBVIOUS
    <3>4. Bound(resets, failures[o], skips, 1) \in Nat
      BY <3>1, <3>3, BoundIsNat
    <3>5. QED
      BY <3>2, <3>4
  <2>2. QED
    BY <1>1, <1>2, <1>3, <1>4, <2>1, StaysFresh
<1>8. Held(o)'
  BY <1>1, <1>2, <1>3, StaysHeld
<1>9. QED
  BY <1>6, <1>7, <1>8

LEMMA RefreshAllQuiet ==
  ASSUME TypeOK, TypeOK', Aimed, QuietInv, Refresher, pending = {}
  PROVE  QuietInv'
<1> SUFFICES ASSUME NEW o \in Objects
             PROVE  (Warned(o) /\ FreshRefs(o) /\ Held(o))'
  BY DEF QuietInv
<1> DEFINE fails == RefreshFails(artifact[o], Refs(o))
<1>1. Warned(o) /\ FreshRefs(o) /\ Held(o)
  BY DEF QuietInv
<1>2. /\ RefreshAll /\ owed /\ ~owed' /\ skips' = 0
      /\ UNCHANGED <<artifact, history, resets, pc, spec>>
  BY DEF Refresher, Cycle, RefreshAll, record, modelOnly, attestVars
<1>3. Refs(o)' = Refs(o) /\ Refs(o) \subseteq Images
  BY <1>2, RefsTypes DEF Refs
<1>4. failures'[o] = IF fails THEN Up(failures[o]) ELSE 0
  BY <1>2 DEF RefreshAll, Tally
<1>5. o \in loud' <=> fails /\ (o \in loud \/ failures'[o] = DegradedAfter)
  BY <1>2 DEF RefreshAll
<1>6. /\ \A i \in Images : age'[i] = age[i] \/ age'[i] = 0
      /\ \A i \in carried : i \in carried' \/ age'[i] = 0
  BY <1>2 DEF RefreshAll, Renewed, TypeOK, RetentionTypeOK
<1>7. Held(o)'
  BY <1>1, <1>2, <1>3, <1>6, StaysHeld
<1>8. CASE fails
  <2>1. o \in loud => o \in loud'
    BY <1>5, <1>8
  <2>2. o \notin loud' => /\ o \notin loud /\ skips < DegradedAfter
                          /\ failures'[o] = failures[o] + 1 /\ failures'[o] < DegradedAfter
    <3>1. failures[o] \in Count /\ failures'[o] \in Count
      BY DEF TypeOK, RetentionTypeOK
    <3>2. \A n \in Count : n # DegradedAfter => n < DegradedAfter
      BY DegradedAssumption DEF Count
    <3>3. failures'[o] = Up(failures[o])
      BY <1>4, <1>8
    <3> HIDE DEF fails
    <3>4. QED
      BY <1>1, <1>5, <1>8, <3>1, <3>2, <3>3, Counts DEF Warned
  <2>3. Warned(o)'
    BY <1>2, <2>2, DegradedAssumption DEF Warned
  <2>4. resets' <= MaxResets /\ o \notin loud' =>
          Bound(resets, failures[o], skips, Owing) <= Bound(resets', failures'[o], skips', Owing')
    <3> SUFFICES ASSUME o \notin loud'
                 PROVE  Bound(resets, failures[o], skips, 1)
                          <= Bound(resets, failures[o] + 1, 0, 0)
      BY <1>2, <2>2, OwingTypes
    <3>1. resets \in Nat /\ failures[o] \in Nat /\ skips \in Nat
      BY CounterTypes DEF TypeOK, RetentionTypeOK
    <3>2. QED
      BY <2>2, <3>1, FailureRaisesBound
  <2>5. FreshRefs(o)'
    <3>1. \A i \in Refs(o)' : i \in Refs(o) \/ i \in carried \/ age[i] = 0
      BY <1>3
    <3> HIDE DEF fails
    <3>2. QED
      BY <1>1, <1>2, <1>6, <2>1, <2>4, <3>1, StaysFresh
  <2>6. QED
    BY <1>7, <2>3, <2>5
<1>9. CASE ~fails
  <2>1. Warned(o)'
    BY <1>2, <1>4, <1>9, DegradedAssumption DEF Warned
  <2>2. FreshRefs(o)'
    <3> SUFFICES ASSUME NEW i \in Refs(o)', age'[i] < Window
                 PROVE  age'[i] <= Bound(resets', failures'[o], skips', Owing')
      BY DEF FreshRefs, Present
    <3>1. age'[i] = 0
      BY <1>2, <1>3, <1>9, CyclePulls
    <3>2. resets' \in Nat /\ failures'[o] \in Nat /\ skips' \in Nat
      BY CounterTypes DEF TypeOK, RetentionTypeOK
    <3>3. Bound(resets', failures'[o], skips', Owing') \in Nat
      BY <3>2, OwingTypes, BoundIsNat
    <3>4. QED
      BY <3>1, <3>3
  <2>3. QED
    BY <1>7, <2>1, <2>2
<1>10. QED
  BY <1>8, <1>9

LEMMA IntervalQuiet ==
  ASSUME TypeOK, TypeOK', QuietInv, Interval
  PROVE  QuietInv'
<1> SUFFICES ASSUME NEW o \in Objects
             PROVE  (Warned(o) /\ FreshRefs(o) /\ Held(o))'
  BY DEF QuietInv
<1>1. Warned(o) /\ FreshRefs(o)
  BY DEF QuietInv
<1>2. /\ ~owed /\ owed' /\ age' = Older(age)
      /\ UNCHANGED <<artifact, history, failures, skips, loud, carried, resets>>
  BY DEF Interval, Tick, record, modelOnly
<1>3. Refs(o)' = Refs(o) /\ Refs(o) \subseteq Images
  BY <1>2, RefsTypes DEF Refs
<1>4. Warned(o)'
  BY <1>1, <1>2 DEF Warned
<1>5. Held(o)'
  BY DEF Interval, Held
<1>6. FreshRefs(o)'
  <2> SUFFICES ASSUME o \notin loud, resets <= MaxResets,
                      NEW i \in Refs(o), i \notin carried, age'[i] < Window
               PROVE  age'[i] <= Bound(resets, failures[o], skips, 1)
    BY <1>2, <1>3, OwingTypes DEF FreshRefs, Present
  <2> DEFINE b == Bound(resets, failures[o], skips, 0)
  <2>1. i \in Images /\ age[i] \in 0..Window
    BY <1>3 DEF TypeOK, RetentionTypeOK
  <2>2. age[i] < Window /\ age'[i] = age[i] + 1
    BY <1>2, <2>1, AgesTypes, Windows DEF TypeOK, RetentionTypeOK
  <2>3. age[i] <= b
    BY <1>1, <1>2, <2>2, OwingTypes DEF FreshRefs, Present
  <2>4. resets \in Nat /\ failures[o] \in Nat /\ skips \in Nat
    BY CounterTypes DEF TypeOK, RetentionTypeOK
  <2>5. b \in Nat /\ Bound(resets, failures[o], skips, 1) = b + 1
    <3>1. 0 \in 0..1
      OBVIOUS
    <3>2. QED
      BY <2>4, <3>1, BoundIsNat
  <2> HIDE DEF b
  <2>6. QED
    BY <2>1, <2>2, <2>3, <2>5, Windows
<1>7. QED
  BY <1>4, <1>5, <1>6

LEMMA RestartQuiet ==
  ASSUME TypeOK, TypeOK', Aimed, QuietInv, Restart
  PROVE  QuietInv'
<1> SUFFICES ASSUME NEW o \in Objects
             PROVE  (Warned(o) /\ FreshRefs(o) /\ Held(o))'
  BY DEF QuietInv
<1>1. Warned(o) /\ FreshRefs(o) /\ Held(o)
  BY DEF QuietInv
<1>2. /\ Reset /\ failures'[o] = 0 /\ skips' = 0 /\ owed' /\ pc'[o] = "idle"
      /\ UNCHANGED <<age, artifact, history, loud, carried>>
  BY DEF Restart, RestartRefresher, record
<1>3. Refs(o)' = Refs(o)
  BY <1>2 DEF Refs
<1>4. Warned(o)'
  BY <1>2, DegradedAssumption DEF Warned
<1>5. resets' <= MaxResets => resets <= MaxResets /\ resets' = resets + 1
  BY <1>2, ResetTypes DEF TypeOK, RetentionTypeOK
<1>6. resets' <= MaxResets /\ o \notin loud' =>
        Bound(resets, failures[o], skips, Owing) <= Bound(resets', failures'[o], skips', Owing')
  <2> SUFFICES ASSUME o \notin loud, resets' = resets + 1
               PROVE  Bound(resets, failures[o], skips, Owing) <= Bound(resets + 1, 0, 0, 1)
    BY <1>2, <1>5, OwingTypes
  <2>1. resets \in Nat /\ failures[o] \in Nat /\ skips \in Nat
    BY CounterTypes DEF TypeOK, RetentionTypeOK
  <2>2. failures[o] < DegradedAfter /\ skips < DegradedAfter
    BY <1>1 DEF Warned
  <2>3. QED
    BY <2>1, <2>2, OwingTypes, ResetRaisesBound
<1>7. FreshRefs(o)'
  BY <1>1, <1>2, <1>3, <1>5, <1>6, StaysFresh
<1>8. QED
  BY <1>2, <1>4, <1>7 DEF Held

LEMMA NextQuiet ==
  ASSUME TypeOK, TypeOK', Aimed, QuietInv, [Next]_vars
  PROVE  QuietInv'
<1>1. ASSUME NEW o \in Objects, Pass(o)
      PROVE  QuietInv'
  <2>1. CASE CheapPath(o)
    BY <2>1, StillQuiet DEF CheapPath, record, counters, modelOnly, attestVars
  <2>2. CASE Publish(o)
    BY <2>2, PublishQuiet
  <2>3. CASE Attest(o)
    <3>1. \A p \in Objects : pc'[p] # "idle" => pc[p] # "idle"
      BY <2>3 DEF Attest, AfterAttest, Goto, TypeOK
    <3>2. QED
      BY <2>3, <3>1, StillQuiet DEF Attest, record, counters
  <2>4. CASE Record(o)
    BY <2>4, RecordQuiet
  <2>5. CASE Lease(o)
    BY <2>5, LeaseQuiet
  <2>6. CASE Reconverge(o)
    BY <2>6, ReconvergeQuiet
  <2>7. QED
    BY <1>1, <2>1, <2>2, <2>3, <2>4, <2>5, <2>6 DEF Pass
<1>2. ASSUME NEW o \in Objects, PassFails(o)
      PROVE  QuietInv'
  <2>1. \A p \in Objects : pc'[p] # "idle" => pc[p] # "idle"
    BY <1>2 DEF PassFails, Goto, TypeOK
  <2>2. QED
    BY <1>2, <2>1, StillQuiet DEF PassFails, record, counters
<1>3. ASSUME NEW o \in Objects, NEW i \in Images, Edit(o, i)
      PROVE  QuietInv'
  <2>1. \A p \in Objects : pc'[p] # "idle" => pc[p] # "idle" /\ spec'[p] = spec[p]
    BY <1>3 DEF Edit, TypeOK
  <2>2. QED
    BY <1>3, <2>1, StillQuiet DEF Edit, record, counters
<1>4. CASE Refresher
  BY <1>4, SkipQuiet, RefreshAllQuiet
<1>5. CASE Interval
  BY <1>5, IntervalQuiet
<1>6. CASE Restart
  BY <1>6, RestartQuiet
<1>7. CASE CycleFails /\ UNCHANGED attestVars
  <2>1. loud' = Objects
    BY <1>7 DEF CycleFails
  <2>2. \A o \in Objects : Refs(o)' = Refs(o)
    BY <1>7 DEF CycleFails, record, Refs
  <2>3. QED
    BY <1>7, <2>1, <2>2 DEF CycleFails, attestVars, QuietInv, Warned, FreshRefs, Held
<1>8. CASE (Break \/ Mend) /\ UNCHANGED attestVars
  BY <1>8, StillQuiet DEF Break, Mend, record, counters, modelOnly, attestVars
<1>9. CASE UNCHANGED vars
  BY <1>9, StillQuiet DEF vars, retentionVars, record, counters, attestVars
<1>10. QED
  BY <1>1, <1>2, <1>3, <1>4, <1>5, <1>6, <1>7, <1>8, <1>9 DEF Next

LEMMA InitQuiet == Init => QuietInv
BY DegradedAssumption
   DEF Init, RetentionInit, QuietInv, Warned, FreshRefs, Held, Refs

LEMMA QuietAlways == Spec => [](TypeOK /\ Aimed /\ QuietInv)
<1>1. Init => TypeOK /\ Aimed /\ QuietInv
  BY InitTypes, InitQuiet
<1>2. TypeOK /\ Aimed /\ QuietInv /\ [Next]_vars => (TypeOK /\ Aimed /\ QuietInv)'
  BY NextTypes, NextQuiet
<1>3. QED
  BY <1>1, <1>2, PTL DEF Spec

-----------------------------------------------------------------------------
(* The variables hold what they are declared to hold. *)
THEOREM UpkeepTypesAlways == Spec => []TypeOK
BY QuietAlways, PTL

(* Refresher.cycle, noteFailure: as long as nothing has warned of an object, what its status
   names was pulled within the bound its counters give, whatever was edited, published, broken,
   skipped or restarted meanwhile. *)
THEOREM QuietAlwaysFresh == Spec => []QuietMeansFresh
<1>1. TypeOK /\ QuietInv => QuietMeansFresh
  BY QuietIsBound DEF QuietInv, FreshRefs, QuietMeansFresh
<1>2. QED
  BY <1>1, QuietAlways, PTL

(* "Recorder surfaces sustained failure, which otherwise ends silently in deletion": under the
   margin the interval flag asks for, the registry collects no image a status names without a
   warning having come first. *)
THEOREM WarningComesFirst == Spec => NeverSilent
<1> DEFINE Warns == resets <= MaxResets => \A o \in Objects : \A i \in Refs(o) :
                      Present(i) /\ ~Present(i)' => o \in loud \/ i \in carried
<1>1. TypeOK /\ QuietInv /\ [Next]_vars => [Warns]_retentionVars
  <2> SUFFICES ASSUME TypeOK, QuietInv, [Next]_vars, resets <= MaxResets, NEW o \in Objects,
                      NEW i \in Refs(o), Present(i), ~Present(i)', o \notin loud, i \notin carried
               PROVE  FALSE
    OBVIOUS
  <2>1. i \in Images /\ age[i] \in 0..Window
    BY RefsTypes DEF TypeOK, RetentionTypeOK
  <2>2. Interval
    <3>1. age'[i] \notin {age[i], 0}
      BY <2>1, Windows DEF Present
    <3>2. Interval \/ age' = age \/ \E refs \in SUBSET Images :
            age' = [k \in Images |-> IF k \in refs THEN 0 ELSE age[k]]
      <4>1. ASSUME NEW p \in Objects, Publish(p)
            PROVE  age'[i] \in {age[i], 0}
        BY <4>1, <2>1 DEF Publish, TypeOK, RetentionTypeOK
      <4>2. ASSUME NEW p \in Objects, Lease(p)
            PROVE  \E refs \in SUBSET Images :
                     age' = [k \in Images |-> IF k \in refs THEN 0 ELSE age[k]]
        <5>1. PICK refs : age' = [k \in Images |-> IF k \in Renewed(refs) THEN 0 ELSE age[k]]
          BY <4>2 DEF Lease, RefreshNow
        <5>2. age' = [k \in Images |-> IF k \in Renewed(refs) \cap Images THEN 0 ELSE age[k]]
          BY <5>1
        <5>3. QED
          BY <5>2
      <4>3. Refresher => age' = age \/ \E refs \in SUBSET Images :
                           age' = [k \in Images |-> IF k \in refs THEN 0 ELSE age[k]]
        <5>1. Refresher => \/ age' = age
                           \/ age' = [k \in Images |-> IF k \in Renewed(Live) \cap Images
                                                       THEN 0 ELSE age[k]]
          BY DEF Refresher, Cycle, RefreshAll, Skip
        <5>2. QED
          BY <5>1
      <4>4. QED
        BY <3>1, <4>1, <4>2, <4>3
           DEF Next, Pass, CheapPath, Reconverge, Attest, Record, PassFails, Edit, Restart, RestartRefresher,
               CycleFails, Break, Mend, vars, retentionVars
    <3>3. QED
      BY <2>1, <3>1, <3>2
  <2>3. age'[i] = age[i] + 1 /\ ~owed
    BY <2>1, <2>2, AgesTypes DEF Interval, Tick, Present, TypeOK, RetentionTypeOK
  <2>4. age[i] + 1 >= Window
    BY <2>1, <2>3, Windows DEF Present
  <2> DEFINE b == Bound(resets, failures[o], skips, 0)
  <2>5. age[i] <= b
    BY <2>3, OwingTypes DEF QuietInv, FreshRefs
  <2>6. failures[o] < DegradedAfter /\ skips < DegradedAfter
    BY DEF QuietInv, Warned
  <2>7. resets \in 0..MaxResets /\ failures[o] \in Nat /\ skips \in Nat /\ resets \in Nat
    BY CounterTypes, BoundAssumption DEF TypeOK, RetentionTypeOK
  <2>8. b + 1 < Window
    BY <2>6, <2>7, BoundInsideWindow
  <2>9. b \in Nat
    <3>1. 0 \in 0..1
      OBVIOUS
    <3>2. QED
      BY <2>7, <3>1, BoundIsNat
  <2> HIDE DEF b
  <2>10. QED
    BY <2>1, <2>4, <2>5, <2>8, <2>9, Windows
<1>2. QED
  BY <1>1, QuietAlways, PTL DEF Spec, NeverSilent
=============================================================================
