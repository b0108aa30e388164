--------------------------- MODULE BuildPodProofs ---------------------------
(***************************************************************************)
(* What BuildPod.tla promises for every set of tarballs and Secrets and    *)
(* every number of attempts and Jobs: what BuildKit runs on, and that a    *)
(* live pod has what it mounts.                                            *)
(***************************************************************************)
EXTENDS BuildPod, SourcesProofs, SequenceTheorems

JobType == [state : States, uid : 0..MaxJobs, context : Tarballs \cup {None}]

(* The guards keep what they count within its bounds. *)
Bounded ==
  /\ pass.step = "secrets" => uids < MaxJobs
  /\ \A t \in Tarballs : job[t].state \in {"pending", "fetching"} => tries[t] < FetchAttempts
  /\ pass.step = "idle" => pass = Idle
  /\ pass.step # "idle" => pass.of \in Tarballs

(* Whoever owns a Secret: an incarnation of its own build's Job, each with a uid of its own. *)
Owned ==
  /\ \A t \in Tarballs : /\ job[t].state = "none" <=> job[t].uid = 0
                         /\ job[t].uid <= uids
                         /\ \A k \in Kind : owner[t][k] \in 0..uids \cup {None}
  /\ \A t, u \in Tarballs : t # u /\ job[u].uid # 0 =>
       job[t].uid # job[u].uid /\ \A k \in Kind : owner[t][k] # job[u].uid
  /\ pass.step = "adopt" => job[pass.of].state # "none" /\ job[pass.of].uid = uids

(* A build that found no Secrets of an earlier Job has all of its own, or is creating them. *)
Supplied ==
  \A t \in Tarballs \ hasty :
    /\ job[t].state # "none" => \A k \in Kind : owner[t][k] \in {0, job[t].uid}
    /\ job[t].state = "none" /\ pass.step = "secrets" /\ pass.of = t =>
         \A k \in Kind : owner[t][k] = 0 \/ (owner[t][k] = None /\ \E i \in DOMAIN todo : todo[i] = k)

-----------------------------------------------------------------------------
LEMMA QueueSteps ==
  ASSUME NEW q \in Seq(Kind), q # <<>>
  PROVE  /\ Head(q) \in Kind /\ Tail(q) \in Seq(Kind)
         /\ \A k : (\E i \in DOMAIN q : q[i] = k)
              => k = Head(q) \/ \E i \in DOMAIN Tail(q) : Tail(q)[i] = k
<1>1. /\ Head(q) \in Kind /\ Tail(q) \in Seq(Kind) /\ Head(q) = q[1]
      /\ Len(q) \in Nat /\ Len(q) # 0 /\ DOMAIN q = 1..Len(q)
      /\ Len(Tail(q)) = Len(q) - 1 /\ DOMAIN Tail(q) = 1..Len(Tail(q))
      /\ \A i \in 1..Len(Tail(q)) : Tail(q)[i] = q[i + 1]
  BY HeadTailProperties, EmptySeq, LenProperties
<1>2. ASSUME NEW k, NEW i \in DOMAIN q, q[i] = k, k # Head(q)
      PROVE  \E j \in DOMAIN Tail(q) : Tail(q)[j] = k
  <2>1. i - 1 \in DOMAIN Tail(q) /\ Tail(q)[i - 1] = q[i]
    BY <1>1, <1>2
  <2>2. QED
    BY <1>2, <2>1
<1>3. QED
  BY <1>1, <1>2

LEMMA KindsAreKinds == Kinds \in Seq(Kind) /\ \A k \in Kind : \E i \in DOMAIN Kinds : Kinds[i] = k
<1>1. Len(Kinds) \in Nat /\ DOMAIN Kinds = 1..Len(Kinds) /\ \A i \in DOMAIN Kinds : Kinds[i] \in Kind
  BY KindsAssumption, LenProperties DEF Kind
<1>2. Kinds = [i \in 1..Len(Kinds) |-> Kinds[i]]
  BY <1>1, KindsAssumption, SeqDef
<1>3. QED
  BY <1>1, <1>2, SeqDef DEF Kind

-----------------------------------------------------------------------------
(* Types. *)
LEMMA PodInitTypes == PodSpecInit => PodTypeOK /\ Bounded /\ Owned /\ Supplied
<1>1. 0 \in 0..MaxJobs /\ 0 \in 0..FetchAttempts
  BY AttemptAssumption
<1>2. Idle.step = "idle" /\ Idle \in [step : {"idle", "secrets", "adopt"}, of : Tarballs \cup {None}]
  BY DEF Idle
<1>3. NoJob \in JobType /\ NoJob.state = "none" /\ NoJob.uid = 0
  BY <1>1 DEF NoJob, JobType, States
<1>4. PodSpecInit => PodTypeOK
  BY <1>1, <1>2, <1>3, SourceInitTypes, EmptySeq DEF PodSpecInit, PodInit, PodTypeOK, JobType
<1>5. PodInit => Bounded /\ Owned /\ Supplied
  BY <1>2, <1>3 DEF PodInit, Bounded, Owned, Supplied
<1>6. QED
  BY <1>4, <1>5 DEF PodSpecInit

(* What a step that leaves the source alone does to the number of disturbances. *)
LEMMA SourceStaysTypes ==
  ASSUME SourceTypeOK, SourceStays, Disturb \/ UNCHANGED disturbed
  PROVE  SourceTypeOK'
BY BoundAssumption DEF SourceTypeOK, SourceStays, Disturb

(* A step that only changes the state of a Job, and perhaps what it was given to build. *)
Moves(t, states) ==
  /\ \E s \in states, b \in Tarballs \cup {None} :
       job' = [job EXCEPT ![t] = [state |-> s, uid |-> job[t].uid, context |-> b]]
  /\ tries' = [tries EXCEPT ![t] = tries'[t]]
  /\ UNCHANGED <<uids, owner, pass, todo>>

LEMMA MovesKeep ==
  ASSUME PodTypeOK, Bounded, NEW t \in Tarballs, Moves(t, States \ {"none"}), job[t].state # "none",
         tries'[t] \in 0..FetchAttempts, job'[t].state \in {"pending", "fetching"} => tries'[t] < FetchAttempts,
         SourceStays, Disturb \/ UNCHANGED disturbed, UNCHANGED <<cut, hasty>>
  PROVE  /\ PodTypeOK' /\ Bounded'
         /\ Owned => Owned'
         /\ Supplied => Supplied'
<1>1. job \in [Tarballs -> JobType] /\ tries \in [Tarballs -> 0..FetchAttempts]
  BY DEF PodTypeOK, JobType
<1>2. PICK s \in States \ {"none"}, b \in Tarballs \cup {None} :
        job' = [job EXCEPT ![t] = [state |-> s, uid |-> job[t].uid, context |-> b]]
  BY DEF Moves
<1> DEFINE new == [state |-> s, uid |-> job[t].uid, context |-> b]
<1>3. new \in JobType /\ new.state # "none" /\ new.uid = job[t].uid
  BY <1>1 DEF JobType
<1>4. job' = [job EXCEPT ![t] = new]
  BY <1>2
<1> HIDE DEF new
<1>5. job' \in [Tarballs -> JobType] /\ tries' \in [Tarballs -> 0..FetchAttempts]
  BY <1>1, <1>3, <1>4 DEF Moves
<1>6. SourceTypeOK'
  BY SourceStaysTypes DEF PodTypeOK
<1>7. PodTypeOK'
  BY <1>5, <1>6 DEF PodTypeOK, Moves, JobType
<1>8. Bounded'
  BY <1>1, <1>4 DEF Bounded, Moves
<1>9. \A u \in Tarballs : job'[u].uid = job[u].uid /\ (job'[u].state = "none" <=> job[u].state = "none")
  BY <1>1, <1>3, <1>4
<1>10. pass.step # "idle" => pass.of \in Tarballs
  BY DEF Bounded
<1>11. Owned => Owned'
  BY <1>9, <1>10 DEF Owned, Moves
<1>12. Supplied => Supplied'
  BY <1>9 DEF Supplied, Moves
<1>13. QED
  BY <1>7, <1>8, <1>11, <1>12

(* Every step of a pod is such a step. *)
LEMMA PodMoves ==
  ASSUME PodTypeOK, Bounded, NEW t \in Tarballs, Pod(t)
  PROVE  /\ Moves(t, States \ {"none"}) /\ job[t].state # "none"
         /\ tries'[t] \in 0..FetchAttempts
         /\ job'[t].state \in {"pending", "fetching"} => tries'[t] < FetchAttempts
         /\ SourceStays /\ (Disturb \/ UNCHANGED disturbed) /\ UNCHANGED <<cut, hasty>>
<1>1. job \in [Tarballs -> JobType] /\ tries \in [Tarballs -> 0..FetchAttempts]
  BY DEF PodTypeOK, JobType
<1>2. FetchAttempts \in Nat /\ FetchAttempts # 0 /\ tries[t] \in 0..FetchAttempts
      /\ job[t].context \in Tarballs \cup {None}
  BY <1>1, AttemptAssumption DEF JobType
<1>3. ASSUME NEW s \in {"fetching", "building", "succeeded", "failed"},
             job' = [job EXCEPT ![t].state = s]
      PROVE  \E r \in States \ {"none"}, b \in Tarballs \cup {None} :
               job' = [job EXCEPT ![t] = [state |-> r, uid |-> job[t].uid, context |-> b]]
  <2>1. [job[t] EXCEPT !.state = s] = [state |-> s, uid |-> job[t].uid, context |-> job[t].context]
    BY <1>1 DEF JobType
  <2>2. job' = [job EXCEPT ![t] = [state |-> s, uid |-> job[t].uid, context |-> job[t].context]]
    BY <1>3, <2>1
  <2>3. s \in States \ {"none"}
    BY <1>3 DEF States
  <2>4. QED
    BY <1>2, <2>2, <2>3
<1>4. CASE StartPod(t) \/ Deadline(t) \/ Refused(t) \/ Build(t)
  <2>1. PICK s \in {"fetching", "building", "succeeded", "failed"} :
          job' = [job EXCEPT ![t].state = s] /\ (s = "fetching" => StartPod(t))
    BY <1>4 DEF StartPod, Deadline, Refused, Build
  <2>2. Moves(t, States \ {"none"})
    <3>1. tries' = [tries EXCEPT ![t] = tries'[t]] /\ UNCHANGED <<uids, owner, pass, todo>>
      BY <1>1, <1>4 DEF StartPod, Deadline, Refused, Build
    <3>2. \E r \in States \ {"none"}, b \in Tarballs \cup {None} :
            job' = [job EXCEPT ![t] = [state |-> r, uid |-> job[t].uid, context |-> b]]
      BY <1>3, <2>1
    <3>3. QED
      BY <3>1, <3>2 DEF Moves
  <2>3. StartPod(t) => tries[t] < FetchAttempts
    BY <1>2 DEF StartPod, Bounded
  <2>4. QED
    BY <1>1, <1>2, <1>4, <2>1, <2>2, <2>3 DEF StartPod, Deadline, Refused, Build, Fetching, JobType
<1>5. CASE Receive(t)
  <2>1. PICK b \in Tarballs :
          job' = [job EXCEPT ![t] = IF b = t
                                    THEN [state |-> "building", uid |-> job[t].uid, context |-> b]
                                    ELSE [job[t] EXCEPT !.state = "failed"]]
    BY <1>5 DEF Receive
  <2>2. CASE b = t
    <3>1. job' = [job EXCEPT ![t] = [state |-> "building", uid |-> job[t].uid, context |-> b]]
      BY <2>1, <2>2
    <3>2. Moves(t, States \ {"none"}) /\ job'[t].state = "building"
      BY <1>1, <1>5, <3>1 DEF Moves, Receive, States
    <3>3. QED
      BY <1>2, <1>5, <3>2 DEF Receive, Fetching
  <2>3. CASE b # t
    <3>1. [job[t] EXCEPT !.state = "failed"]
            = [state |-> "failed", uid |-> job[t].uid, context |-> job[t].context]
      BY <1>1 DEF JobType
    <3>2. job' = [job EXCEPT ![t] = [state |-> "failed", uid |-> job[t].uid,
                                     context |-> job[t].context]]
      BY <2>1, <2>3, <3>1
    <3>3. Moves(t, States \ {"none"}) /\ job'[t].state = "failed"
      BY <1>1, <1>2, <1>5, <3>2 DEF Moves, Receive, States
    <3>4. QED
      BY <1>2, <1>5, <3>3 DEF Receive, Fetching
  <2>4. QED
    BY <2>2, <2>3
<1>6. CASE TryAgain(t)
  <2>1. tries[t] < FetchAttempts
    BY <1>6 DEF TryAgain, Fetching, Bounded
  <2>2. tries' = [tries EXCEPT ![t] = tries[t] + 1]
    BY <1>6 DEF TryAgain
  <2>3. tries'[t] = tries[t] + 1
    BY <1>1, <2>2
  <2>4. PICK s \in {"fetching", "failed"} :
          job' = [job EXCEPT ![t].state = s] /\ (s = "fetching" => tries'[t] # FetchAttempts)
    BY <1>1, <1>6 DEF TryAgain, Fetching
  <2>5. Moves(t, States \ {"none"})
    BY <1>1, <1>3, <1>6, <2>2, <2>3, <2>4 DEF Moves, TryAgain
  <2>6. job'[t].state = s
    BY <1>1, <2>4 DEF JobType
  <2>7. tries'[t] \in 0..FetchAttempts /\ (s = "fetching" => tries'[t] < FetchAttempts)
    BY <1>2, <2>1, <2>3, <2>4
  <2>8. QED
    BY <1>6, <2>5, <2>6, <2>7 DEF TryAgain, Fetching
<1>7. QED
  BY <1>4, <1>5, <1>6 DEF Pod

-----------------------------------------------------------------------------
(* A pass keeps the types and the bounds. *)
LEMMA BuildPassKeepsTypes ==
  ASSUME PodTypeOK, Bounded, PassStep \/ AbandonPass \/ Collect
  PROVE  PodTypeOK' /\ Bounded'
<1>1. /\ job \in [Tarballs -> JobType] /\ tries \in [Tarballs -> 0..FetchAttempts]
      /\ owner \in [Tarballs -> [Kind -> 0..MaxJobs \cup {None}]]
      /\ uids \in 0..MaxJobs /\ todo \in Seq(Kind) /\ <<>> \in Seq(Kind)
      /\ pass \in [step : {"idle", "secrets", "adopt"}, of : Tarballs \cup {None}]
      /\ cut \subseteq Tarballs /\ hasty \subseteq Tarballs
      /\ source.artifact \in Tarballs \cup {None}
  BY EmptySeq DEF PodTypeOK, JobType, SourceTypeOK, SourceType
<1>2. 0 \in 0..MaxJobs /\ 0 \in 0..FetchAttempts /\ 0 < FetchAttempts /\ MaxJobs \in Nat
  BY AttemptAssumption
<1>3. /\ Idle \in [step : {"idle", "secrets", "adopt"}, of : Tarballs \cup {None}]
      /\ Idle.step = "idle"
  BY DEF Idle
<1>4. todo # <<>> => Head(todo) \in Kind /\ Tail(todo) \in Seq(Kind)
  BY <1>1, QueueSteps
<1>5. pass.step # "idle" => pass.of \in Tarballs
  BY DEF Bounded
<1>6. CASE Begin
  <2>1. /\ source.artifact \in Tarballs
        /\ pass' = [step |-> "secrets", of |-> source.artifact]
        /\ uids < MaxJobs
    BY <1>1, <1>6 DEF Begin, Resolvable
  <2>2. SourceTypeOK'
    BY <1>6, SourceStaysTypes DEF Begin, PodTypeOK
  <2>3. hasty' \subseteq Tarballs
    BY <1>1, <1>6, <2>1 DEF Begin
  <2>4. PodTypeOK'
    BY <1>1, <1>6, <2>1, <2>2, <2>3, KindsAreKinds DEF Begin, PodTypeOK, JobType
  <2>5. QED
    BY <1>6, <2>1, <2>4 DEF Begin, Bounded
<1>7. CASE CreateSecret
  <2>1. SourceTypeOK'
    BY <1>7, SourceStaysTypes DEF CreateSecret, PodTypeOK
  <2>2. owner' \in [Tarballs -> [Kind -> 0..MaxJobs \cup {None}]]
    BY <1>1, <1>2, <1>4, <1>7 DEF CreateSecret
  <2>3. PodTypeOK'
    BY <1>1, <1>4, <1>7, <2>1, <2>2 DEF CreateSecret, PodTypeOK, JobType
  <2>4. QED
    BY <1>7, <2>3 DEF CreateSecret, Bounded
<1>8. CASE CreateJob
  <2>1. SourceTypeOK'
    BY <1>8, SourceStaysTypes DEF CreateJob, PodTypeOK
  <2>2. pass.of \in Tarballs /\ uids < MaxJobs
    BY <1>8 DEF CreateJob, Bounded
  <2>3. CASE job[pass.of].state = "none"
    <3> DEFINE new == [state |-> "pending", uid |-> uids + 1, context |-> None]
    <3>1. uids + 1 \in 0..MaxJobs
      BY <1>1, <1>2, <2>2
    <3>2. new \in JobType
      BY <3>1 DEF JobType, States
    <3>3. /\ job' = [job EXCEPT ![pass.of] = new] /\ uids' = uids + 1
          /\ tries' = [tries EXCEPT ![pass.of] = 0]
          /\ pass' = [pass EXCEPT !.step = "adopt"]
          /\ todo' = Kinds /\ cut' = cut \ {pass.of} /\ UNCHANGED <<owner, hasty>>
      BY <1>8, <2>3 DEF CreateJob
    <3> HIDE DEF new
    <3>4. /\ job' \in [Tarballs -> JobType] /\ tries' \in [Tarballs -> 0..FetchAttempts]
          /\ pass' \in [step : {"idle", "secrets", "adopt"}, of : Tarballs \cup {None}]
      BY <1>1, <1>2, <3>2, <3>3
    <3>5. PodTypeOK'
      BY <1>1, <2>1, <3>1, <3>3, <3>4, KindsAreKinds DEF PodTypeOK, JobType
    <3>6. QED
      BY <1>1, <1>2, <2>2, <3>3, <3>5 DEF Bounded
  <2>4. CASE job[pass.of].state # "none"
    <3>1. pass' = Idle /\ cut' \subseteq Tarballs /\ UNCHANGED <<uids, job, tries, todo, owner, hasty>>
      BY <1>1, <1>8, <2>2, <2>4 DEF CreateJob
    <3>2. PodTypeOK'
      BY <1>1, <1>3, <2>1, <3>1 DEF PodTypeOK
    <3>3. QED
      BY <1>3, <3>1, <3>2 DEF Bounded
  <2>5. QED
    BY <2>3, <2>4
<1>9. CASE AdoptSecret
  <2>1. SourceTypeOK'
    BY <1>9, SourceStaysTypes DEF AdoptSecret, PodTypeOK
  <2>2. pass.of \in Tarballs
    BY <1>5, <1>9 DEF AdoptSecret
  <2>3. /\ owner' = owner \/ owner' = [owner EXCEPT ![pass.of][Head(todo)] = uids]
        /\ cut' = cut \/ cut' = cut \cup {pass.of}
    <3>1. CASE /\ owner' = IF owner[pass.of][Head(todo)] = 0
                           THEN [owner EXCEPT ![pass.of][Head(todo)] = uids]
                           ELSE owner
               /\ cut' = cut
      BY <3>1, Zenon
    <3>2. CASE owner' = owner /\ cut' = cut \cup {pass.of}
      BY <3>2
    <3>3. QED
      BY <1>9, <3>1, <3>2 DEF AdoptSecret
  <2>4. owner' \in [Tarballs -> [Kind -> 0..MaxJobs \cup {None}]]
    <3>1. Head(todo) \in Kind
      BY <1>4, <1>9 DEF AdoptSecret
    <3>2. CASE owner' = [owner EXCEPT ![pass.of][Head(todo)] = uids]
      BY <1>1, <2>2, <3>1, <3>2
    <3>3. QED
      BY <1>1, <2>3, <3>2
  <2>5. PodTypeOK'
    BY <1>1, <1>4, <1>9, <2>1, <2>2, <2>3, <2>4 DEF AdoptSecret, PodTypeOK, JobType
  <2>6. QED
    BY <1>9, <2>5 DEF AdoptSecret, Bounded
<1>10. CASE FinishPass \/ AbandonPass
  <2>1. SourceTypeOK'
    BY <1>10, SourceStaysTypes DEF FinishPass, AbandonPass, PodTypeOK
  <2>2. pass.step # "idle"
    BY <1>10 DEF FinishPass, AbandonPass, Bounded
  <2>3. PodTypeOK'
    BY <1>1, <1>3, <1>5, <1>10, <2>1, <2>2 DEF FinishPass, AbandonPass, PodTypeOK, JobType
  <2>4. QED
    BY <1>3, <1>10, <2>3 DEF FinishPass, AbandonPass, Bounded
<1>11. CASE Collect
  <2>1. SourceTypeOK'
    BY <1>11, SourceStaysTypes DEF Collect, PodTypeOK
  <2>2. PICK o \in Tarballs \X Kind : owner' = [owner EXCEPT ![o[1]][o[2]] = None]
    BY <1>11 DEF Collect, Orphans
  <2>3. owner' \in [Tarballs -> [Kind -> 0..MaxJobs \cup {None}]]
    BY <1>1, <2>2
  <2>4. PodTypeOK'
    BY <1>1, <1>11, <2>1, <2>3 DEF Collect, PodTypeOK, JobType
  <2>5. QED
    BY <1>11, <2>4 DEF Collect, Bounded
<1>12. QED
  BY <1>6, <1>7, <1>8, <1>9, <1>10, <1>11 DEF PassStep

(* A Job that is over and gone: between passes. *)
LEMMA GoneKeepsTypes ==
  ASSUME PodTypeOK, Bounded, NEW t \in Tarballs, DeleteFailed(t) \/ ExpireJob(t)
  PROVE  PodTypeOK' /\ Bounded' /\ job' = [job EXCEPT ![t] = NoJob] /\ pass = Idle
         /\ UNCHANGED <<uids, owner, pass, todo, tries, cut, hasty>>
<1>1. /\ job' = [job EXCEPT ![t] = NoJob] /\ pass = Idle
      /\ UNCHANGED <<uids, owner, pass, todo, tries, cut, hasty>>
  BY DEF DeleteFailed, ExpireJob
<1>2. job \in [Tarballs -> JobType]
  BY DEF PodTypeOK, JobType
<1>3. NoJob \in JobType /\ NoJob.state = "none"
  BY AttemptAssumption DEF NoJob, JobType, States
<1>4. job' \in [Tarballs -> JobType]
  BY <1>1, <1>2, <1>3
<1>5. SourceTypeOK'
  BY SourceStaysTypes DEF DeleteFailed, ExpireJob, PodTypeOK
<1>6. PodTypeOK'
  BY <1>1, <1>4, <1>5 DEF PodTypeOK, JobType
<1>7. QED
  BY <1>1, <1>2, <1>3, <1>6 DEF Bounded

-----------------------------------------------------------------------------
(* Who owns what, and what a build is supplied with. *)
LEMMA GoneKeepsOwned ==
  ASSUME PodTypeOK, Bounded, Owned, Supplied, NEW t \in Tarballs, DeleteFailed(t) \/ ExpireJob(t)
  PROVE  Owned' /\ Supplied'
<1>1. /\ job' = [job EXCEPT ![t] = NoJob] /\ pass = Idle
      /\ UNCHANGED <<uids, owner, pass, todo, tries, cut, hasty>>
  BY GoneKeepsTypes
<1>2. job \in [Tarballs -> JobType] /\ uids \in Nat
  BY AttemptAssumption DEF PodTypeOK, JobType
<1>3. \A u \in Tarballs : \/ u # t /\ job'[u] = job[u]
                          \/ u = t /\ job'[u].uid = 0 /\ job'[u].state = "none"
  BY <1>1, <1>2 DEF NoJob
<1>4. pass.step = "idle" /\ pass'.step = "idle"
  BY <1>1 DEF Idle
<1>5. Owned'
  BY <1>1, <1>2, <1>3, <1>4 DEF Owned
<1>6. Supplied'
  BY <1>1, <1>3, <1>4 DEF Supplied
<1>7. QED
  BY <1>5, <1>6

LEMMA CollectKeepsOwned ==
  ASSUME PodTypeOK, Bounded, Owned, Supplied, Collect
  PROVE  Owned' /\ Supplied'
<1>1. /\ job \in [Tarballs -> JobType] /\ uids \in Nat
      /\ owner \in [Tarballs -> [Kind -> 0..MaxJobs \cup {None}]]
  BY AttemptAssumption DEF PodTypeOK, JobType
<1>2. PICK t \in Tarballs, k \in Kind :
        /\ owner' = [owner EXCEPT ![t][k] = None]
        /\ owner[t][k] \notin {None, 0} /\ \A u \in Tarballs : job[u].uid # owner[t][k]
  <2>1. PICK o \in Orphans : owner' = [owner EXCEPT ![o[1]][o[2]] = None]
    BY <1>1 DEF Collect
  <2>2. /\ o[1] \in Tarballs /\ o[2] \in Kind /\ owner[o[1]][o[2]] \notin {None, 0}
        /\ \A u \in Tarballs : job[u].uid # owner[o[1]][o[2]]
    BY DEF Orphans
  <2>3. QED
    BY <2>1, <2>2
<1>3. \A u \in Tarballs, j \in Kind :
        owner'[u][j] = IF u = t /\ j = k THEN None ELSE owner[u][j]
  BY <1>1, <1>2
<1>4. UNCHANGED <<job, uids, pass, todo, hasty>>
  BY DEF Collect
<1>5. \A u \in Tarballs : job[u].uid # None
  BY <1>1, UidAssumption DEF JobType
<1>6. Owned'
  BY <1>3, <1>4, <1>5 DEF Owned
<1>7. Supplied'
  BY <1>2, <1>3, <1>4 DEF Supplied
<1>8. QED
  BY <1>6, <1>7

LEMMA CreateSecretKeepsOwned ==
  ASSUME PodTypeOK, Bounded, Owned, Supplied, CreateSecret
  PROVE  Owned' /\ Supplied'
<1> DEFINE t == pass.of
           k == Head(todo)
<1>1. /\ job \in [Tarballs -> JobType] /\ uids \in Nat
      /\ owner \in [Tarballs -> [Kind -> 0..MaxJobs \cup {None}]]
      /\ todo \in Seq(Kind) /\ todo # <<>> /\ todo' = Tail(todo) /\ pass.step = "secrets"
      /\ UNCHANGED <<job, uids, pass, hasty>>
  BY AttemptAssumption DEF PodTypeOK, JobType, CreateSecret
<1>2. /\ t \in Tarballs /\ k \in Kind
      /\ \A j : (\E i \in DOMAIN todo : todo[i] = j) => j = k \/ \E i \in DOMAIN todo' : todo'[i] = j
  BY <1>1, QueueSteps DEF Bounded
<1>3. owner' = IF owner[t][k] = None THEN [owner EXCEPT ![t][k] = 0] ELSE owner
  BY DEF CreateSecret
<1> HIDE DEF t, k
<1>4. \A u \in Tarballs, j \in Kind :
        owner'[u][j] = IF u = t /\ j = k /\ owner[u][j] = None THEN 0 ELSE owner[u][j]
  BY <1>1, <1>2, <1>3
<1>5. None # 0
  BY UidAssumption, AttemptAssumption
<1>6. Owned'
  BY <1>1, <1>4 DEF Owned
<1>7. Supplied'
  <2>1. ASSUME NEW u \in Tarballs \ hasty, job[u].state = "none", pass.of = u, NEW j \in Kind
        PROVE  owner'[u][j] = 0 \/ (owner'[u][j] = None /\ \E i \in DOMAIN todo' : todo'[i] = j)
    <3>1. owner[u][j] = 0 \/ (owner[u][j] = None /\ \E i \in DOMAIN todo : todo[i] = j)
      BY <1>1, <2>1 DEF Supplied
    <3>2. u = t
      BY <2>1 DEF t
    <3>3. CASE owner[u][j] = 0
      BY <1>4, <1>5, <3>3
    <3>4. CASE owner[u][j] = None /\ \E i \in DOMAIN todo : todo[i] = j
      <4>1. j = k \/ \E i \in DOMAIN todo' : todo'[i] = j
        BY <1>2, <3>4
      <4>2. QED
        BY <1>4, <3>2, <3>4, <4>1
    <3>5. QED
      BY <3>1, <3>3, <3>4
  <2>2. ASSUME NEW u \in Tarballs \ hasty, job[u].state # "none", NEW j \in Kind
        PROVE  owner'[u][j] \in {0, job[u].uid}
    BY <1>4, <1>5, <2>2, UidAssumption DEF Supplied, PodTypeOK
  <2>3. QED
    BY <1>1, <2>1, <2>2 DEF Supplied
<1>8. QED
  BY <1>6, <1>7

LEMMA AdoptSecretKeepsOwned ==
  ASSUME PodTypeOK, Bounded, Owned, Supplied, AdoptSecret
  PROVE  Owned' /\ Supplied'
<1> DEFINE t == pass.of
           k == Head(todo)
<1>1. /\ job \in [Tarballs -> JobType] /\ uids \in Nat
      /\ owner \in [Tarballs -> [Kind -> 0..MaxJobs \cup {None}]]
      /\ todo \in Seq(Kind) /\ todo # <<>> /\ pass.step = "adopt"
      /\ UNCHANGED <<job, uids, pass, hasty>>
  BY AttemptAssumption DEF PodTypeOK, JobType, AdoptSecret
<1>2. t \in Tarballs /\ k \in Kind /\ job[t].state # "none" /\ job[t].uid = uids
  BY <1>1, QueueSteps DEF Bounded, Owned
<1>3. \/ owner' = owner
      \/ owner[t][k] = 0 /\ owner' = [owner EXCEPT ![t][k] = uids]
  BY DEF AdoptSecret
<1> HIDE DEF t, k
<1>4. \A u \in Tarballs, j \in Kind :
        owner'[u][j] = owner[u][j] \/ (u = t /\ owner'[u][j] = job[t].uid)
  BY <1>1, <1>2, <1>3
<1>5. Owned'
  BY <1>1, <1>2, <1>4 DEF Owned
<1>6. Supplied'
  BY <1>1, <1>2, <1>4 DEF Supplied
<1>7. QED
  BY <1>5, <1>6

(* A build begins with what Secrets it finds of its own inputs: none, or its object's. *)
LEMMA BeginKeepsOwned ==
  ASSUME PodTypeOK, Bounded, Owned, Supplied, Begin
  PROVE  Owned' /\ Supplied'
<1> DEFINE t == source.artifact
<1>1. /\ job \in [Tarballs -> JobType] /\ uids \in Nat /\ hasty \subseteq Tarballs
      /\ owner \in [Tarballs -> [Kind -> 0..MaxJobs \cup {None}]]
  BY AttemptAssumption DEF PodTypeOK, JobType
<1>2. /\ t \in Tarballs /\ UNCHANGED <<job, uids, owner>>
      /\ pass' = [step |-> "secrets", of |-> t] /\ todo' = Kinds
  BY DEF PodTypeOK, SourceTypeOK, SourceType, Begin, Resolvable
<1>3. \/ t \in hasty' /\ hasty' = hasty \cup {t}
      \/ /\ \A o \in Orphans : o[1] # t
         /\ hasty' = IF job[t].state = "none" THEN hasty \ {t} ELSE hasty
  BY DEF Begin
<1> HIDE DEF t
<1>4. Owned'
  BY <1>1, <1>2 DEF Owned
<1>5. ASSUME t \notin hasty', job[t].state = "none", NEW k \in Kind
      PROVE  owner[t][k] \in {0, None}
  <2>1. <<t, k>> \notin Orphans
    BY <1>3, <1>5
  <2>2. owner[t][k] \in {None, 0} \/ \E u \in Tarballs : job[u].uid = owner[t][k]
    BY <1>2, <2>1 DEF Orphans
  <2>3. ASSUME NEW u \in Tarballs, job[u].uid = owner[t][k]
        PROVE  owner[t][k] \in {None, 0}
    BY <1>2, <1>5, <2>3 DEF Owned
  <2>4. QED
    BY <2>2, <2>3
<1>6. Supplied'
  <2>1. ASSUME NEW u \in Tarballs \ hasty', u # t \/ job[u].state # "none"
        PROVE  u \in Tarballs \ hasty
    BY <1>3, <2>1
  <2>2. QED
    BY <1>2, <1>5, <2>1, KindsAreKinds DEF Supplied
<1>7. QED
  BY <1>4, <1>6

(* By the time the Job is created every Secret it mounts is the object's: this is what the order
   of startBuild is for. *)
LEMMA CreateJobKeepsOwned ==
  ASSUME PodTypeOK, Bounded, Owned, Supplied, CreateJob
  PROVE  Owned' /\ Supplied'
<1> DEFINE t == pass.of
<1>1. /\ job \in [Tarballs -> JobType] /\ uids \in Nat
      /\ owner \in [Tarballs -> [Kind -> 0..MaxJobs \cup {None}]]
  BY AttemptAssumption DEF PodTypeOK, JobType
<1>2. t \in Tarballs /\ pass.step = "secrets" /\ todo = <<>> /\ UNCHANGED <<owner, hasty>>
  BY DEF CreateJob, Bounded
<1>3. CASE job[t].state # "none"
  <2>1. UNCHANGED <<job, uids>> /\ pass'.step = "idle"
    BY <1>3 DEF CreateJob, Idle
  <2>2. QED
    BY <1>2, <2>1 DEF Owned, Supplied
<1>4. CASE job[t].state = "none"
  <2> DEFINE new == [state |-> "pending", uid |-> uids + 1, context |-> None]
  <2>1. job' = [job EXCEPT ![t] = new] /\ uids' = uids + 1 /\ pass' = [pass EXCEPT !.step = "adopt"]
    BY <1>4 DEF CreateJob
  <2>2. new.state = "pending" /\ new.uid = uids + 1
    OBVIOUS
  <2> HIDE DEF new
  <2>3. pass'.step = "adopt" /\ pass'.of = t
    BY <2>1 DEF PodTypeOK
  <2> HIDE DEF t
  <2>4. \A u \in Tarballs : \/ u = t /\ job'[u].state = "pending" /\ job'[u].uid = uids + 1
                            \/ u # t /\ job'[u] = job[u]
    BY <1>1, <2>1, <2>2
  <2>5. /\ \A u \in Tarballs : job[u].uid \in Nat /\ job[u].uid <= uids /\ uids + 1 # 0
        /\ \A u \in Tarballs, k \in Kind : owner[u][k] # uids + 1
    <3>1. uids + 1 \in 0..MaxJobs
      BY <1>1, <1>2, AttemptAssumption DEF Bounded
    <3>2. QED
      BY <1>1, <3>1, UidAssumption DEF Owned, JobType
  <2>6. Owned'
    <3>1. \A u \in Tarballs, k \in Kind : owner[u][k] \in 0..(uids + 1) \cup {None}
      BY <1>1 DEF Owned
    <3>2. \A u, v \in Tarballs : u # v /\ job'[v].uid # 0 =>
            job'[u].uid # job'[v].uid /\ \A k \in Kind : owner[u][k] # job'[v].uid
      BY <1>1, <2>4, <2>5 DEF Owned
    <3>3. \A u \in Tarballs : (job'[u].state = "none" <=> job'[u].uid = 0) /\ job'[u].uid <= uids + 1
      BY <1>1, <2>4, <2>5 DEF Owned
    <3>4. QED
      BY <1>2, <2>1, <2>3, <2>4, <3>1, <3>2, <3>3 DEF Owned
  <2>7. Supplied'
    <3>1. t \notin hasty => \A k \in Kind : owner[t][k] = 0
      BY <1>2, <1>4 DEF Supplied, t
    <3>2. QED
      BY <1>2, <2>3, <2>4, <3>1 DEF Supplied
  <2>8. QED
    BY <2>6, <2>7
<1>5. QED
  BY <1>3, <1>4

-----------------------------------------------------------------------------
(* Everything at once, with what BuildKit runs on. *)
PodSound == PodTypeOK /\ Bounded /\ Owned /\ Supplied /\ BuiltFromHashed

LEMMA NextKeepsSound == PodSound /\ [PodSpecNext]_podAllVars => PodSound'
<1> SUFFICES ASSUME PodSound, [PodSpecNext]_podAllVars PROVE PodSound'
  OBVIOUS
<1> USE DEF PodSound
<1>1. job \in [Tarballs -> JobType]
  BY DEF PodTypeOK, JobType
<1>2. CASE PassStep \/ AbandonPass \/ Collect
  <2>1. PodTypeOK' /\ Bounded'
    BY <1>2, BuildPassKeepsTypes
  <2>2. CASE FinishPass \/ AbandonPass
    <3>1. UNCHANGED <<job, uids, owner, hasty>> /\ pass' = Idle
      BY <2>2 DEF FinishPass, AbandonPass
    <3>2. pass'.step = "idle"
      BY <3>1 DEF Idle
    <3>3. Owned' /\ Supplied'
      BY <3>1, <3>2 DEF Owned, Supplied
    <3>4. QED
      BY <2>1, <3>1, <3>3 DEF BuiltFromHashed
  <2>3. CASE Begin \/ CreateSecret \/ CreateJob \/ AdoptSecret \/ Collect
    <3>1. Owned' /\ Supplied'
      BY <2>3, BeginKeepsOwned, CreateSecretKeepsOwned, CreateJobKeepsOwned, AdoptSecretKeepsOwned,
         CollectKeepsOwned
    <3>2. BuiltFromHashed'
      BY <1>1, <2>3 DEF BuiltFromHashed, Begin, CreateSecret, CreateJob, AdoptSecret, Collect
    <3>3. QED
      BY <2>1, <3>1, <3>2
  <2>4. QED
    BY <1>2, <2>2, <2>3 DEF PassStep
<1>3. ASSUME NEW t \in Tarballs, DeleteFailed(t) \/ ExpireJob(t)
      PROVE  PodSound'
  <2>1. job' = [job EXCEPT ![t] = NoJob]
    BY <1>3, GoneKeepsTypes
  <2>2. BuiltFromHashed'
    BY <1>1, <2>1 DEF BuiltFromHashed, NoJob
  <2>3. QED
    BY <1>3, <2>2, GoneKeepsTypes, GoneKeepsOwned
<1>4. ASSUME NEW t \in Tarballs, Pod(t)
      PROVE  PodSound'
  <2>1. PodTypeOK' /\ Bounded' /\ Owned' /\ Supplied'
    BY <1>4, PodMoves, MovesKeep
  <2>2. BuiltFromHashed'
    BY <1>1, <1>4 DEF BuiltFromHashed, Pod, StartPod, Deadline, Receive, TryAgain, Refused, Build,
                      Fetching, JobType
  <2>3. QED
    BY <2>1, <2>2
<1>5. CASE SourceNext /\ UNCHANGED podVars
  <2>1. SourceTypeOK'
    BY <1>5, SourceKeepsTypes DEF PodTypeOK
  <2>2. QED
    BY <1>5, <2>1 DEF podVars, PodTypeOK, Bounded, Owned, Supplied, BuiltFromHashed
<1>6. CASE UNCHANGED podAllVars
  BY <1>6 DEF podAllVars, podVars, PodTypeOK, SourceTypeOK, Bounded, Owned, Supplied,
              BuiltFromHashed
<1>7. QED
  BY <1>2, <1>3, <1>4, <1>5, <1>6 DEF PodSpecNext, PodNext

LEMMA PodAlwaysSound == PodSpec => []PodSound
<1>1. PodSpecInit => PodSound
  BY PodInitTypes DEF PodSpecInit, PodInit, NoJob, PodSound, BuiltFromHashed
<1>2. QED
  BY <1>1, NextKeepsSound, PTL DEF PodSpec

-----------------------------------------------------------------------------
(* The variables hold what they are declared to hold, whatever the bounds. *)
THEOREM PodTypesAlways == PodSpec => []PodTypeOK
BY PodAlwaysSound, PTL DEF PodSound

(* serveContext serves what the source names when it is asked, fetchcontext verifies: BuildKit
   never runs on a tree other than the one its Job was named after. *)
THEOREM AlwaysBuiltFromHashed == PodSpec => []BuiltFromHashed
BY PodAlwaysSound, PTL DEF PodSound

(* createBuildSecret before the Job, adoptBuildSecrets after it, the collector beside both: a pod
   that has not started building has every Secret it mounts, unless its build found some of an
   earlier Job. *)
THEOREM SecretsAlwaysOutlivePod == PodSpec => []SecretsOutlivePod
<1>1. PodSound => SecretsOutlivePod
  <2> SUFFICES ASSUME PodSound, NEW t \in Tarballs \ hasty, job[t].state \in {"pending", "fetching"},
                      NEW k \in Kind
               PROVE  owner[t][k] # None
    BY DEF SecretsOutlivePod, Mounted
  <2>1. owner[t][k] \in {0, job[t].uid} /\ job[t].uid \in 0..MaxJobs
    BY DEF PodSound, Supplied, PodTypeOK
  <2>2. QED
    BY <2>1, UidAssumption, AttemptAssumption
<1>2. QED
  BY <1>1, PodAlwaysSound, PTL
=============================================================================
