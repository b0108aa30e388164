-------------------------- MODULE ImageBuildProofs --------------------------
(***************************************************************************)
(* What ImageBuild.tla promises for every value of its constants.          *)
(***************************************************************************)
EXTENDS ImageBuild, ReconcilerProofs

(* A registry that loses nothing named: no tag lapses, and no manifest a tag names goes. *)
NothingExpires == Disturbances \cap {"expire", "expire-stalled"} = {}

LEMMA NoExpiry ==
  ASSUME NothingExpires
  PROVE  ~Expire
BY DEF NothingExpires, Expire, Disturb

-----------------------------------------------------------------------------
(***************************************************************************)
(* What becomes of a status when it is marked, recorded in and patched.    *)
(***************************************************************************)

(* Marking what a backfill learned claims what the backfill tagged, and nothing else that was not
   claimed; it does not touch the attempt. *)
LEMMA MarkKeeps ==
  ASSUME NEW st \in Status, NEW tagged \in SUBSET Manifests, NEW gone
  PROVE  /\ Mark(st, tagged, gone) \in Status
         /\ Claimed(Mark(st, tagged, gone)) \subseteq Claimed(st) \cup tagged
         /\ Mark(st, tagged, gone).finished = st.finished
<1> DEFINE M == Mark(st, tagged, gone)
           own == IF st.digest \in tagged THEN st.digest ELSE st.own
           marked == [i \in DOMAIN st.history |-> MarkBuild(st.history[i], st.digest, tagged, gone)]
<1>1. st.history \in Seq(Build)
  BY DEF Status
<1>2. /\ marked \in Seq(Build)
      /\ OwnOf(marked) \subseteq OwnOf(st.history) \cup tagged
      /\ OnePerDigest(st.history) => OnePerDigest(marked)
  BY <1>1, MarkedHistory
<1>3. own \in {st.own} \cup tagged
  OBVIOUS
<1>4. M = [st EXCEPT !.own = own, !.history = marked]
  BY DEF Mark
<1> HIDE DEF M, own, marked
<1>5. M.own = own /\ M.history = marked /\ M.finished = st.finished
  BY <1>4 DEF Status
<1>6. M \in Status
  BY <1>2, <1>3, <1>4 DEF Status
<1>7. Claimed(M) \subseteq Claimed(st) \cup tagged
  BY <1>2, <1>3, <1>5 DEF Claimed
<1>8. QED
  BY <1>5, <1>6, <1>7 DEF M

(* A merge patch mixes the server's status with the pass's, field by field. *)
LEMMA MergeKeeps ==
  ASSUME NEW server \in Status, NEW old \in Status, NEW new \in Status
  PROVE  /\ MergePatch(server, old, new) \in Status
         /\ Claimed(MergePatch(server, old, new)) \subseteq Claimed(server) \cup Claimed(new)
<1> DEFINE P == MergePatch(server, old, new)
<1>1. P \in Status
  BY DEF MergePatch, Merge, Status
<1>2. P.history \in {server.history, new.history} /\ P.own \in {server.own, new.own}
  BY DEF MergePatch, Merge
<1>3. Claimed(P) \subseteq Claimed(server) \cup Claimed(new)
  BY <1>2 DEF Claimed
<1>4. QED
  BY <1>1, <1>3

(* recordSuccess claims the digest just named, and what was claimed before. *)
LEMMA RecordKeeps ==
  ASSUME obj.status \in Status, obj.spec.input \in Inputs, built \in Manifests
  PROVE  /\ RecordSuccess \in Status
         /\ Claimed(RecordSuccess) \subseteq Claimed(obj.status) \cup {built}
<1> DEFINE b == [digest |-> built, own |-> TRUE, lost |-> FALSE]
           h == RecordHistory(obj.status.history, b)
<1>1. b \in Build /\ b.digest = built /\ obj.status.history \in Seq(Build)
  BY DEF Build, Status
<1>2. h \in Seq(Build) /\ OwnOf(h) \subseteq OwnOf(obj.status.history) \cup {built}
  BY <1>1, RecordHistoryKeeps
<1>3. RecordSuccess = [obj.status EXCEPT !.digest = built, !.own = built, !.hash = obj.spec.input,
                                         !.history = h, !.conflict = None, !.buildRef = None,
                                         !.failures = 0,
                                         !.finished = IF obj.status.attempt = None THEN @ ELSE "recent"]
  BY DEF RecordSuccess, Status
<1> HIDE DEF b, h
<1>4. RecordSuccess \in Status /\ RecordSuccess.own = built /\ RecordSuccess.history = h
  BY <1>2, <1>3 DEF Status
<1>5. QED
  BY <1>2, <1>4 DEF Claimed

(* Time passing changes nothing but the age of the attempt. *)
LEMMA AgedKeeps ==
  ASSUME NEW st \in Status
  PROVE  Aged(st) \in Status /\ Claimed(Aged(st)) = Claimed(st)
<1>1. Aged(st) \in Status /\ Aged(st).own = st.own /\ Aged(st).history = st.history
  BY DEF Aged, Status
<1>2. QED
  BY <1>1 DEF Claimed

-----------------------------------------------------------------------------
(***************************************************************************)
(* Types.  A pass returns by Return alone and its patch is the only write  *)
(* of a status, so each is typed once.                                     *)
(***************************************************************************)

Outcomes == {"Done", "Failing", "Waiting", "Stalled", "Suspended"}

LEMMA DisturbTypes ==
  ASSUME TypeOK, NEW kind
  PROVE  /\ Disturb(kind) => disturbed' \in Nat
         /\ \A b : DisturbIf(b, kind) => disturbed' \in Nat
BY DEF Disturb, DisturbIf, TypeOK

(* What a running pass holds. *)
LEMMA PassTypes ==
  ASSUME TypeOK, pc # "idle"
  PROVE  /\ obj \in Snapshot /\ obj.spec \in SpecType /\ obj.status \in Status /\ base \in Status
         /\ obj.spec.input \in Inputs /\ obj.spec.tags \in Seq(Tags)
         /\ obj.generation \in Nat
BY DEF TypeOK, Snapshot, SpecType

LEMMA ReturnTypes ==
  ASSUME TypeOK, pc # "idle", NEW kind \in Outcomes, NEW st \in Status, Return(kind, st),
         UNCHANGED <<serverVars, seen, built, todo>>,
         RegistryTypeOK', jobs' \in Jobs, jobCache' \in Jobs, polled' \subseteq Inputs,
         queued' \in BOOLEAN, disturbed' \in Nat
  PROVE  TypeOK'
<1>1. obj' \in Snapshot
  BY PassTypes DEF Return, Snapshot
<1>2. pc' = "patch" /\ base' = base /\ outcome' \in Outcomes
  BY DEF Return
<1>3. UNCHANGED <<spec, generation, status, cache>>
  BY DEF serverVars
<1>4. QED
  BY <1>1, <1>2, <1>3, PassTypes DEF TypeOK, Outcomes

(* A return that changes nothing but the pass. *)
LEMMA PlainReturnTypes ==
  ASSUME TypeOK, pc # "idle", NEW kind \in Outcomes, NEW st \in Status, Return(kind, st),
         UNCHANGED <<registryVars, serverVars, jobVars, queued, seen, built, todo>>,
         disturbed' \in Nat
  PROVE  TypeOK'
<1>1. /\ RegistryTypeOK' /\ jobs' \in Jobs /\ jobCache' \in Jobs /\ polled' \subseteq Inputs
      /\ queued' \in BOOLEAN
  BY DEF TypeOK, RegistryTypeOK, registryVars, jobVars
<1>2. UNCHANGED <<serverVars, seen, built, todo>>
  OBVIOUS
<1>3. QED
  BY <1>1, <1>2, ReturnTypes

LEMMA SetJobTypes ==
  ASSUME TypeOK, NEW i \in Inputs, NEW job \in Job \cup {None}, SetJob(i, job)
  PROVE  jobs' \in Jobs /\ jobCache' \in Jobs /\ polled' \subseteq Inputs /\ queued' \in BOOLEAN
<1>1. jobs' \in Jobs
  BY DEF SetJob, TypeOK, Jobs
<1>2. polled' \subseteq Inputs /\ jobCache' \in Jobs /\ queued' \in BOOLEAN
  BY <1>1 DEF SetJob, TypeOK
<1>3. QED
  BY <1>1, <1>2

LEMMA HeadsTypes ==
  ASSUME TypeOK, NEW deaf
  PROVE  Heads(deaf) \in [Tags -> Manifests \cup {None}]
BY DEF Heads, TypeOK, RegistryTypeOK

(* What Keep records is a status: the tag it leaves alone holds something. *)
LEMMA KeptTypes ==
  ASSUME TypeOK, pc # "idle", NEW heads \in [Tags -> Manifests \cup {None}],
         NEW d, NEW dropped \in Manifests \cup {None}, NEW i \in FirstInConflict(heads, d)
  PROVE  /\ RecordKept(heads, i, dropped) \in Status
         /\ Claimed(RecordKept(heads, i, dropped)) = Claimed(obj.status)
         /\ RecordKept(heads, i, dropped).conflict # None
<1> DEFINE t == obj.spec.tags[i]
           c == [tag |-> t, existing |-> heads[t], dropped |-> dropped]
<1>1. i \in DOMAIN obj.spec.tags /\ heads[t] # None
  BY DEF FirstInConflict, InConflict, Conflicting
<1>2. t \in Tags
  BY <1>1, PassTypes, ElementOfSeq, LenProperties
<1>3. heads[t] \in Manifests
  BY <1>1, <1>2
<1> DEFINE K == RecordKept(heads, i, dropped)
<1>4. K = [obj.status EXCEPT !.conflict = c, !.failures = 0, !.buildRef = None]
  BY DEF RecordKept
<1> HIDE DEF t
<1>5. c \in Conflict
  BY <1>2, <1>3 DEF Conflict
<1> HIDE DEF c, K
<1>6. obj.status \in Status
  BY PassTypes
<1>7. K \in Status
  BY <1>4, <1>5, <1>6 DEF Status
<1>8. K.own = obj.status.own /\ K.history = obj.status.history /\ K.conflict = c
  BY <1>4, <1>6 DEF Status
<1>9. QED
  BY <1>5, <1>7, <1>8, AbsenceAssumption DEF Claimed, K

LEMMA InitTypes == Init => TypeOK
<1> SUFFICES ASSUME Init PROVE TypeOK
  OBVIOUS
<1>1. RegistryTypeOK
  BY BuildInitAssumption DEF Init, RegistryTypeOK
<1>2. spec \in SpecType /\ generation \in Nat /\ status \in Status /\ cache \in Snapshot
  BY BuildInitAssumption, BuildAssumption DEF Init, Snapshot
<1>3. jobs \in Jobs /\ jobCache \in Jobs /\ polled \subseteq Inputs
  BY DEF Init, Jobs
<1>4. QED
  BY <1>1, <1>2, <1>3 DEF Init, TypeOK

(* A step of the registry that a pass, or another writer, makes. *)
LEMMA PushTypes ==
  ASSUME TypeOK, NEW d \in Manifests
  PROVE  /\ \A t \in Tags : PushTag(d, t) => RegistryTypeOK'
         /\ PushOwnTag(d) => RegistryTypeOK'
         /\ PushDigest(d) => RegistryTypeOK'
BY DEF TypeOK, RegistryTypeOK, PushTag, PushOwnTag, PushDigest

LEMMA ObserveTyped ==
  ASSUME TypeOK,
         Running \/ CountFailure \/ Retry \/ PodUnseen \/ Resolve
  PROVE  TypeOK'
<1> DEFINE i == obj.spec.input
<1>1. pc = "job" /\ i \in Inputs /\ obj.status \in Status /\ obj \in Snapshot /\ base \in Status
  BY PassTypes DEF Running, CountFailure, Retry, PodUnseen, Resolve, Phase
<1>2. RegistryTypeOK /\ jobs \in Jobs /\ jobCache \in Jobs /\ polled \subseteq Inputs /\ queued \in BOOLEAN
  BY DEF TypeOK
<1>3. CASE Running
  <2>1. [obj.status EXCEPT !.buildRef = i] \in Status
    BY <1>1 DEF Status
  <2>2. disturbed' \in Nat
    BY <1>3 DEF Running, TypeOK
  <2>3. QED
    BY <1>1, <1>3, <2>1, <2>2, PlainReturnTypes DEF Running, Outcomes
<1>4. CASE CountFailure
  <2> DEFINE n == obj.status.failures + 1
             f == IF obj.status.attempt = None THEN obj.status.finished ELSE "recent"
             new == [obj.status EXCEPT !.buildRef = None, !.failures = n, !.finished = f]
  <2>1. Return("Failing", new) /\ polled' = polled \cup {i}
        /\ UNCHANGED <<registryVars, serverVars, jobs, jobCache, queued, seen, built, todo, disturbed>>
    BY <1>4 DEF CountFailure
  <2>2. n \in Nat /\ f \in {"never", "recent", "past"}
    BY <1>1 DEF Status
  <2> HIDE DEF n, f
  <2>3. new \in Status
    BY <1>1, <2>2 DEF Status
  <2> HIDE DEF new
  <2>4. RegistryTypeOK' /\ jobs' \in Jobs /\ jobCache' \in Jobs /\ queued' \in BOOLEAN
    BY <1>2, <2>1 DEF RegistryTypeOK, registryVars
  <2>5. polled' \subseteq Inputs /\ disturbed' \in Nat /\ UNCHANGED <<serverVars, seen, built, todo>>
    BY <1>1, <1>2, <2>1 DEF TypeOK
  <2>6. QED
    BY <1>1, <2>3, <2>1, <2>4, <2>5, ReturnTypes DEF Outcomes
<1>5. CASE Retry
  <2>1. jobs' \in Jobs /\ jobCache' \in Jobs /\ polled' \subseteq Inputs /\ queued' \in BOOLEAN
    <3>1. CASE SetJob(i, None)
      BY <1>1, <3>1, SetJobTypes
    <3>2. CASE UNCHANGED <<jobVars, queued>>
      BY <1>2, <3>2 DEF jobVars
    <3>3. QED
      BY <1>5, <3>1, <3>2 DEF Retry
  <2>2. Return("Failing", obj.status) /\ UNCHANGED <<registryVars, serverVars, seen, built, todo, disturbed>>
    BY <1>5 DEF Retry
  <2>3. RegistryTypeOK' /\ disturbed' \in Nat /\ UNCHANGED <<serverVars, seen, built, todo>>
    BY <1>2, <2>2 DEF RegistryTypeOK, registryVars, TypeOK
  <2>4. QED
    BY <1>1, <2>1, <2>2, <2>3, ReturnTypes DEF Outcomes
<1>6. CASE PodUnseen
  <2>1. /\ Return("Waiting", obj.status) /\ Disturb("pod") /\ polled' = polled \cup {i}
        /\ UNCHANGED <<registryVars, serverVars, jobs, jobCache, queued, seen, built, todo>>
    BY <1>6 DEF PodUnseen
  <2>2. RegistryTypeOK' /\ jobs' \in Jobs /\ jobCache' \in Jobs /\ queued' \in BOOLEAN
    BY <1>2, <2>1 DEF RegistryTypeOK, registryVars
  <2>3. polled' \subseteq Inputs /\ disturbed' \in Nat /\ UNCHANGED <<serverVars, seen, built, todo>>
    BY <1>1, <1>2, <2>1, DisturbTypes
  <2>4. QED
    BY <1>1, <2>1, <2>2, <2>3, ReturnTypes DEF Outcomes
<1>7. CASE Resolve
  <2>1. PICK deaf : DisturbIf(deaf # {}, "head") /\ seen' = Heads(deaf)
    BY <1>7 DEF Resolve
  <2>2. disturbed' \in Nat /\ seen' \in [Tags -> Manifests \cup {None}]
    BY <2>1, DisturbTypes, HeadsTypes
  <2>3. CurrentJob \in Job /\ CurrentJob.phase = "succeeded"
    BY <1>1, <1>2, <1>7 DEF Resolve, Phase, CurrentJob, Jobs
  <2>4. CurrentJob.digest \in Manifests
    BY <2>3 DEF Job
  <2>5. built' \in Manifests /\ polled' \subseteq Inputs /\ pc' = "name"
    BY <1>1, <1>2, <1>7, <2>4 DEF Resolve
  <2>6. UNCHANGED <<registryVars, serverVars, jobs, jobCache, queued, obj, base, todo, outcome>>
    BY <1>7 DEF Resolve
  <2>7. QED
    BY <1>1, <2>2, <2>5, <2>6 DEF TypeOK, RegistryTypeOK, registryVars, serverVars
<1>8. QED
  BY <1>3, <1>4, <1>5, <1>6, <1>7

LEMMA NameTyped ==
  ASSUME TypeOK,
         RefuseConflict \/ KeepExisting \/ Unserved \/ Accept \/ WriteTag \/ WriteOwnTag
  PROVE  TypeOK'
<1>1. /\ pc \in {"name", "tags"} /\ pc # "idle"
      /\ seen \in [Tags -> Manifests \cup {None}] /\ built \in Manifests
  BY DEF TypeOK, RefuseConflict, KeepExisting, Unserved, Accept, WriteTag, WriteOwnTag
<1>2. obj.status \in Status /\ obj.spec.input \in Inputs /\ obj.spec.tags \in Seq(Tags) /\ disturbed \in Nat
  BY <1>1, PassTypes DEF TypeOK
<1>3. CASE RefuseConflict
  BY <1>1, <1>2, <1>3, PlainReturnTypes DEF RefuseConflict, Outcomes
<1>4. CASE KeepExisting
  <2>1. PICK i \in FirstInConflict(seen, built) : Return("Done", RecordKept(seen, i, built))
    BY <1>4 DEF KeepExisting
  <2>2. RecordKept(seen, i, built) \in Status
    BY <1>1, KeptTypes
  <2>3. QED
    BY <1>1, <1>2, <1>4, <2>1, <2>2, PlainReturnTypes DEF KeepExisting, Outcomes
<1>5. CASE Unserved
  BY <1>1, <1>2, <1>5, PlainReturnTypes DEF Unserved, Outcomes
<1>6. CASE Accept
  <2>1. /\ pc' = "tags" /\ todo' = obj.spec.tags
        /\ UNCHANGED <<registryVars, serverVars, jobVars, queued, obj, base, seen, built, outcome, disturbed>>
    BY <1>6 DEF Accept
  <2>2. QED
    BY <1>1, <1>2, <1>6, <2>1 DEF Accept, TypeOK, RegistryTypeOK, registryVars, serverVars, jobVars
<1>7. CASE WriteTag
  <2>1. Head(todo) \in Tags /\ Tail(todo) \in Seq(Tags)
    BY <1>7, HeadTailProperties DEF WriteTag, TypeOK
  <2>2. RegistryTypeOK'
    BY <1>1, <1>7, <2>1, PushTypes DEF WriteTag
  <2>3. QED
    BY <1>7, <2>1, <2>2 DEF WriteTag, TypeOK, serverVars, jobVars
<1>8. CASE WriteOwnTag
  <2>1. /\ RegistryTypeOK' /\ Return("Done", RecordSuccess)
        /\ UNCHANGED <<serverVars, jobVars, queued, seen, built, todo, disturbed>>
    BY <1>1, <1>8, PushTypes DEF WriteOwnTag
  <2>2. RecordSuccess \in Status
    BY <1>1, <1>2, RecordKeeps
  <2>3. /\ jobs' \in Jobs /\ jobCache' \in Jobs /\ polled' \subseteq Inputs
        /\ queued' \in BOOLEAN /\ disturbed' \in Nat
    BY <2>1 DEF TypeOK, jobVars
  <2>4. QED
    BY <1>1, <2>1, <2>2, <2>3, ReturnTypes DEF Outcomes
<1>9. QED
  BY <1>3, <1>4, <1>5, <1>6, <1>7, <1>8

(* What a pass says of a status is a condition. *)
LEMMA SaysTypes ==
  ASSUME TypeOK, pc = "patch", NEW st \in Status
  PROVE  Says(st) \in Condition
<1>1. outcome \in Outcomes /\ obj.generation \in Nat
  BY PassTypes DEF TypeOK, Outcomes
<1>2. st.digest \in Manifests \cup {None} /\ (st.conflict # None => st.conflict.existing \in Manifests)
  BY DEF Status, Conflict
<1>3. QED
  BY <1>1, <1>2 DEF Says, Condition, Outcomes

(* The patch: the object's status and the pass's, mixed, with a condition of this generation. *)
LEMMA PatchWrites ==
  ASSUME TypeOK, Patch
  PROVE  \E new \in Status : /\ status' = MergePatch(status, base, new)
                             /\ new.own = obj.status.own /\ new.history = obj.status.history
<1>1. pc = "patch" /\ obj.status \in Status /\ obj.generation \in Nat
  BY PassTypes DEF Patch
<1> DEFINE c == Says(obj.status)
           new == [obj.status EXCEPT !.ready = c, !.observed = obj.generation]
<1>2. c \in Condition
  BY <1>1, SaysTypes
<1>3. status' = MergePatch(status, base, new)
  BY DEF Patch
<1> HIDE DEF c
<1>4. new \in Status /\ new.own = obj.status.own /\ new.history = obj.status.history
  BY <1>1, <1>2 DEF Status
<1> HIDE DEF new
<1>5. QED
  BY <1>3, <1>4

LEMMA PatchTyped == TypeOK /\ Patch => TypeOK'
<1> SUFFICES ASSUME TypeOK, Patch PROVE TypeOK'
  OBVIOUS
<1>1. PICK new \in Status : status' = MergePatch(status, base, new)
  BY PatchWrites
<1>2. pc = "patch" /\ base \in Status /\ status \in Status /\ cache \in Snapshot
  BY PassTypes DEF Patch, TypeOK
<1>3. status' \in Status
  BY <1>1, <1>2, MergeKeeps
<1>4. cache' \in Snapshot
  BY <1>2, <1>3 DEF Patch, Snapshot
<1>5. /\ pc' = "idle" /\ queued' \in BOOLEAN /\ todo' = <<>>
      /\ obj' = None /\ base' = None /\ seen' = None /\ built' = None /\ outcome' = None
      /\ UNCHANGED <<registryVars, spec, generation, jobVars, disturbed>>
  BY DEF Patch, EndPass, TypeOK
<1>6. QED
  BY <1>3, <1>4, <1>5 DEF TypeOK, RegistryTypeOK, registryVars, jobVars

LEMMA CheckTyped ==
  ASSUME TypeOK,
         Begin \/ Backfill \/ Suspended \/ Pending \/ Check \/ Transient \/ ApiError
  PROVE  TypeOK'
<1>1. pc # "idle" => obj \in Snapshot /\ obj.status \in Status /\ base \in Status
  BY PassTypes
<1>2. CASE Begin
  BY <1>2 DEF Begin, TypeOK, RegistryTypeOK, registryVars, serverVars, jobVars, Snapshot
<1>3. CASE Backfill
  <2>1. PICK unanswered \in SUBSET Unnamed(obj.status) :
          LET asked  == Unnamed(obj.status) \ unanswered
              tagged == asked \cap present
          IN /\ DisturbIf(unanswered # {}, "registry")
             /\ named' = named \cup tagged
             /\ obj' = [obj EXCEPT !.status = Mark(obj.status, tagged, asked \ present)]
    BY <1>3 DEF Backfill
  <2> DEFINE asked  == Unnamed(obj.status) \ unanswered
             tagged == asked \cap present
             gone   == asked \ present
  <2>2. pc = "backfill" /\ pc' = "check"
        /\ UNCHANGED <<tag, present, serverVars, jobVars, queued, base, seen, built, todo, outcome>>
    BY <1>3 DEF Backfill
  <2>3. tagged \in SUBSET Manifests
    BY DEF TypeOK, RegistryTypeOK
  <2>4. disturbed' \in Nat /\ named' = named \cup tagged
        /\ obj' = [obj EXCEPT !.status = Mark(obj.status, tagged, gone)]
    BY <2>1, DisturbTypes
  <2> HIDE DEF tagged, gone
  <2>5. obj' \in Snapshot
    BY <1>1, <2>2, <2>3, <2>4, MarkKeeps DEF Snapshot
  <2>6. QED
    BY <2>2, <2>3, <2>4, <2>5 DEF TypeOK, RegistryTypeOK, serverVars, jobVars
<1>4. CASE Suspended
  BY <1>1, <1>4, PlainReturnTypes DEF Suspended, Outcomes, TypeOK
<1>5. CASE Pending
  BY <1>1, <1>5, DisturbTypes, PlainReturnTypes DEF Pending, Outcomes
<1>6. CASE Check
  <2>1. PICK deaf : /\ DisturbIf(deaf # {}, "head")
                    /\ IF Recorded /\ ~Lost(deaf)
                         THEN Return("Done", obj.status)
                         ELSE pc' = "job" /\ UNCHANGED <<obj, base, outcome>>
    BY <1>6 DEF Check
  <2>2. pc = "check" /\ disturbed' \in Nat
        /\ UNCHANGED <<registryVars, serverVars, jobVars, queued, seen, built, todo>>
    BY <1>6, <2>1, DisturbTypes DEF Check
  <2>3. CASE Return("Done", obj.status)
    BY <1>1, <2>2, <2>3, PlainReturnTypes DEF Outcomes
  <2>4. CASE pc' = "job" /\ UNCHANGED <<obj, base, outcome>>
    BY <2>2, <2>4 DEF TypeOK, RegistryTypeOK, registryVars, serverVars, jobVars
  <2>5. QED
    BY <2>1, <2>3, <2>4
<1>7. CASE Transient
  BY <1>1, <1>7, DisturbTypes, PlainReturnTypes DEF Transient, Outcomes
<1>8. CASE ApiError
  <2>1. disturbed' \in Nat
    BY <1>8, DisturbTypes DEF ApiError
  <2>2. QED
    BY <1>8, <2>1 DEF ApiError, EndPass, TypeOK, RegistryTypeOK, registryVars, serverVars, jobVars
<1>9. QED
  BY <1>2, <1>3, <1>4, <1>5, <1>6, <1>7, <1>8

(* A Job is started under the name of the inputs the pass holds, whatever it is given to build. *)
LEMMA ToBuildTypes ==
  ASSUME TypeOK, pc # "idle", NEW i \in ToBuild
  PROVE  [phase |-> "running", from |-> i, digest |-> None] \in Job
<1>1. cache.spec.input \in Inputs /\ obj.spec.input \in Inputs
  BY PassTypes DEF TypeOK, Snapshot, SpecType
<1>2. i \in Inputs
  BY <1>1 DEF ToBuild
<1>3. QED
  BY <1>2 DEF Job

LEMMA StartTyped ==
  ASSUME TypeOK, Unchecked \/ Precheck \/ Start \/ StartUnanswered
  PROVE  TypeOK'
<1> DEFINE input == obj.spec.input
           Run(i) == [phase |-> "running", from |-> i, digest |-> None]
<1>1. pc \in {"job", "start"} /\ pc # "idle"
  BY DEF Unchecked, Precheck, Start, StartUnanswered
<1>2. /\ obj \in Snapshot /\ obj.status \in Status /\ base \in Status /\ input \in Inputs
      /\ disturbed \in Nat /\ jobs \in Jobs /\ jobCache \in Jobs /\ polled \subseteq Inputs
      /\ queued \in BOOLEAN
  BY <1>1, PassTypes DEF TypeOK
<1>3. CASE Unchecked
  BY <1>3 DEF Unchecked, TypeOK, RegistryTypeOK, registryVars, serverVars, jobVars, passVars
<1>4. CASE Precheck
  <2>1. PICK deaf :
          /\ DisturbIf(deaf # {}, "head")
          /\ \/ pc' = "start" /\ UNCHANGED <<obj, base, outcome>>
             \/ Return("Stalled", obj.status)
             \/ \E i \in FirstInConflict(Heads(deaf), obj.status.digest) :
                  Return("Done", RecordKept(Heads(deaf), i, None))
    BY <1>4 DEF Precheck
  <2>2. disturbed' \in Nat /\ UNCHANGED <<registryVars, serverVars, jobVars, queued, seen, built, todo>>
    BY <1>4, <2>1, DisturbTypes DEF Precheck
  <2>3. CASE pc' = "start" /\ UNCHANGED <<obj, base, outcome>>
    BY <1>1, <2>2, <2>3 DEF TypeOK, RegistryTypeOK, registryVars, serverVars, jobVars
  <2>4. CASE Return("Stalled", obj.status)
    BY <1>1, <1>2, <2>2, <2>4, PlainReturnTypes DEF Outcomes
  <2>5. CASE \E i \in FirstInConflict(Heads(deaf), obj.status.digest) :
               Return("Done", RecordKept(Heads(deaf), i, None))
    <3>1. PICK i \in FirstInConflict(Heads(deaf), obj.status.digest) :
            Return("Done", RecordKept(Heads(deaf), i, None))
      BY <2>5
    <3>2. RecordKept(Heads(deaf), i, None) \in Status
      BY <1>1, HeadsTypes, KeptTypes
    <3>3. QED
      BY <1>1, <2>2, <3>1, <3>2, PlainReturnTypes DEF Outcomes
  <2>6. QED
    BY <2>1, <2>3, <2>4, <2>5
<1>5. CASE Start
  <2>1. RegistryTypeOK' /\ UNCHANGED <<serverVars, seen, built, todo>> /\ disturbed' \in Nat
    BY <1>2, <1>5 DEF Start, TypeOK, RegistryTypeOK, registryVars
  <2>2. CASE jobs[input] = None
    <3> DEFINE new == [obj.status EXCEPT !.buildRef = input, !.attempt = input, !.finished = "never"]
    <3>1. PICK i \in ToBuild : SetJob(input, Run(i))
      BY <1>5, <2>2 DEF Start
    <3>2. Run(i) \in Job
      BY <1>1, ToBuildTypes
    <3>3. jobs' \in Jobs /\ jobCache' \in Jobs /\ polled' \subseteq Inputs /\ queued' \in BOOLEAN
      BY <1>2, <3>1, <3>2, SetJobTypes
    <3>4. Return("Done", new)
      BY <1>5, <2>2 DEF Start
    <3>5. new \in Status
      BY <1>2 DEF Status
    <3> HIDE DEF new
    <3>6. QED
      BY <1>1, <2>1, <3>3, <3>4, <3>5, ReturnTypes DEF Outcomes
  <2>3. CASE jobs[input] # None
    <3>1. Return("Done", obj.status) /\ UNCHANGED <<jobVars, queued>>
      BY <1>5, <2>3 DEF Start
    <3>2. QED
      BY <1>1, <1>2, <2>1, <3>1, ReturnTypes DEF Outcomes, jobVars
  <2>4. QED
    BY <2>2, <2>3
<1>6. CASE StartUnanswered
  <2>1. PICK i \in ToBuild : SetJob(input, Run(i))
    BY <1>6 DEF StartUnanswered
  <2>2. Run(i) \in Job
    BY <1>1, ToBuildTypes
  <2>3. jobs' \in Jobs /\ jobCache' \in Jobs /\ polled' \subseteq Inputs /\ queued' \in BOOLEAN
    BY <1>2, <2>1, <2>2, SetJobTypes
  <2>4. RegistryTypeOK' /\ UNCHANGED <<serverVars, seen, built, todo>> /\ disturbed' \in Nat
    BY <1>2, <1>6, DisturbTypes DEF StartUnanswered, TypeOK, RegistryTypeOK, registryVars
  <2>5. Return("Failing", obj.status)
    BY <1>6 DEF StartUnanswered
  <2>6. QED
    BY <1>1, <1>2, <2>3, <2>4, <2>5, ReturnTypes DEF Outcomes
<1>7. QED
  BY <1>3, <1>4, <1>5, <1>6

LEMMA PassTyped == TypeOK /\ Pass => TypeOK'
BY CheckTyped, StartTyped, ObserveTyped, NameTyped, PatchTyped DEF Pass

(* The Jobs, and the informers that deliver them. *)
LEMMA JobsTyped ==
  ASSUME TypeOK,
         Sync \/ SyncJobs \/ \E i \in Inputs : JobSucceeds(i) \/ JobFails(i) \/ JobExpires(i)
  PROVE  TypeOK'
<1> USE DEF serverVars, jobVars, passVars, registryVars
<1>1. CASE Sync
  BY <1>1 DEF Sync, TypeOK, RegistryTypeOK, Snapshot
<1>2. CASE SyncJobs
  BY <1>2 DEF SyncJobs, TypeOK, RegistryTypeOK
<1>3. ASSUME NEW i \in Inputs, JobSucceeds(i) PROVE TypeOK'
  <2>1. PICK d \in Manifests :
          PushDigest(d) /\ SetJob(i, [jobs[i] EXCEPT !.phase = "succeeded", !.digest = d])
    BY <1>3 DEF JobSucceeds
  <2>2. jobs[i] \in Job
    BY <1>3 DEF JobSucceeds, InPhase, TypeOK, Jobs
  <2>3. [jobs[i] EXCEPT !.phase = "succeeded", !.digest = d] \in Job
    BY <2>2 DEF Job
  <2>4. jobs' \in Jobs /\ jobCache' \in Jobs /\ polled' \subseteq Inputs /\ queued' \in BOOLEAN
    BY <2>1, <2>3, SetJobTypes
  <2>5. RegistryTypeOK'
    BY <2>1, PushTypes
  <2>6. QED
    BY <1>3, <2>4, <2>5 DEF JobSucceeds, TypeOK
<1>4. ASSUME NEW i \in Inputs, JobFails(i) PROVE TypeOK'
  <2>1. jobs[i] \in Job /\ jobs[i].phase = "running"
    BY <1>4 DEF JobFails, InPhase, TypeOK, Jobs
  <2>2. [jobs[i] EXCEPT !.phase = "failed"] \in Job
    BY <2>1 DEF Job
  <2>3. jobs' \in Jobs /\ jobCache' \in Jobs /\ polled' \subseteq Inputs /\ queued' \in BOOLEAN
    BY <1>4, <2>2, SetJobTypes DEF JobFails
  <2>4. disturbed' \in Nat
    BY <1>4, DisturbTypes DEF JobFails
  <2>5. QED
    BY <1>4, <2>3, <2>4 DEF JobFails, TypeOK, RegistryTypeOK
<1>5. ASSUME NEW i \in Inputs, JobExpires(i) PROVE TypeOK'
  <2>1. jobs' \in Jobs /\ jobCache' \in Jobs /\ polled' \subseteq Inputs /\ queued' \in BOOLEAN
    BY <1>5, SetJobTypes DEF JobExpires
  <2>2. disturbed' \in Nat
    BY <1>5, DisturbTypes DEF JobExpires
  <2>3. QED
    BY <1>5, <2>1, <2>2 DEF JobExpires, TypeOK, RegistryTypeOK
<1>6. QED
  BY <1>1, <1>2, <1>3, <1>4, <1>5

LEMMA WorldTyped ==
  ASSUME TypeOK,
         Elapse \/ Expire \/ Restart
           \/ (\E i \in Inputs : MoveSource(i)) \/ (\E s \in Specs : EditSpec(s))
           \/ (\E d \in Manifests, t \in Tags : ForeignPush(d, t))
           \/ (\E d \in Manifests : Collect(d))
  PROVE  TypeOK'
<1> USE DEF serverVars, jobVars, passVars, registryVars
<1>1. CASE Elapse
  <2>1. status' \in Status /\ cache' \in Snapshot
    BY <1>1, AgedKeeps DEF Elapse, TypeOK, Snapshot
  <2>2. obj' \in (IF pc = "idle" THEN {None} ELSE Snapshot)
    BY <1>1, AgedKeeps DEF Elapse, TypeOK, Snapshot
  <2>3. base' \in (IF pc = "idle" THEN {None} ELSE Status)
    BY <1>1, AgedKeeps DEF Elapse, TypeOK
  <2>4. QED
    BY <1>1, <2>1, <2>2, <2>3 DEF Elapse, TypeOK, RegistryTypeOK
<1>2. ASSUME UNCHANGED <<serverVars, jobVars, queued, pc, passVars>>, RegistryTypeOK', disturbed' \in Nat
      PROVE  TypeOK'
  BY <1>2 DEF TypeOK
<1>3. CASE Expire
  <2>1. RegistryTypeOK'
    BY <1>3 DEF Expire, ExpireTag, LoseManifest, TypeOK, RegistryTypeOK
  <2>2. QED
    BY <1>2, <1>3, <2>1, DisturbTypes DEF Expire
<1>4. CASE Restart
  <2>1. disturbed' \in Nat
    BY <1>4, DisturbTypes DEF Restart
  <2>2. QED
    BY <1>4, <2>1 DEF Restart, TypeOK, RegistryTypeOK, Snapshot
<1>5. ASSUME NEW i \in Inputs, MoveSource(i) PROVE TypeOK'
  <2>1. spec' \in SpecType /\ disturbed' \in Nat
    BY <1>5, DisturbTypes DEF MoveSource, TypeOK, SpecType
  <2>2. cache' \in Snapshot /\ queued' \in BOOLEAN
    BY <1>5, <2>1 DEF MoveSource, TypeOK, Snapshot
  <2>3. QED
    BY <1>5, <2>1, <2>2 DEF MoveSource, TypeOK, RegistryTypeOK
<1>6. ASSUME NEW s \in Specs, EditSpec(s) PROVE TypeOK'
  <2>1. spec' \in SpecType /\ generation' \in Nat /\ disturbed' \in Nat
    <3>1. spec' = s /\ generation' = generation + 1 /\ s \in SpecType /\ generation \in Nat
      BY <1>6, BuildAssumption DEF EditSpec, TypeOK
    <3>2. disturbed' \in Nat
      BY <1>6, DisturbTypes DEF EditSpec
    <3>3. QED
      BY <3>1, <3>2
  <2>2. cache' \in Snapshot /\ queued' \in BOOLEAN
    <3>1. CASE CacheLag
      BY <1>6, <3>1 DEF EditSpec, TypeOK
    <3>2. CASE ~CacheLag
      <4>1. cache' = [cache EXCEPT !.spec = s, !.generation = generation'] /\ queued' = TRUE
        BY <1>6, <3>2 DEF EditSpec
      <4>2. s \in SpecType /\ cache \in Snapshot
        BY BuildAssumption DEF TypeOK
      <4>3. QED
        BY <2>1, <4>1, <4>2 DEF Snapshot
    <3>3. QED
      BY <3>1, <3>2
  <2>3. QED
    BY <1>6, <2>1, <2>2 DEF EditSpec, TypeOK, RegistryTypeOK
<1>7. ASSUME NEW d \in Manifests, NEW t \in Tags, ForeignPush(d, t) PROVE TypeOK'
  BY <1>2, <1>7, PushTypes, DisturbTypes DEF ForeignPush
<1>8. ASSUME NEW d \in Manifests, Collect(d) PROVE TypeOK'
  <2>1. RegistryTypeOK'
    BY <1>8 DEF Collect, LoseManifest, TypeOK, RegistryTypeOK
  <2>2. QED
    BY <1>2, <1>8, <2>1, DisturbTypes DEF Collect
<1>9. QED
  BY <1>1, <1>3, <1>4, <1>5, <1>6, <1>7, <1>8

(* Every reachable state is well typed, whatever the inputs, specs, Jobs and disturbances: among
   others, a kept conflict always names a digest the tag really holds, and a succeeded Job always
   has one to name. *)
THEOREM TypeCorrect == Spec => []TypeOK
<1>1. Init => TypeOK
  BY InitTypes
<1>2. TypeOK /\ [Next]_vars => TypeOK'
  <2>1. TypeOK /\ Next => TypeOK'
    BY PassTyped, JobsTyped, WorldTyped DEF Next, Time, World
  <2>2. TypeOK /\ UNCHANGED vars => TypeOK'
    BY DEF vars, registryVars, serverVars, jobVars, passVars, TypeOK, RegistryTypeOK
  <2>3. QED
    BY <2>1, <2>2
<1>3. QED
  BY <1>1, <1>2, PTL DEF Spec

-----------------------------------------------------------------------------
(***************************************************************************)
(* What status claims is served.  ClaimedIsServed is not inductive: the    *)
(* pass edits the status it read in memory, and patches it much later, so  *)
(* that one and the cached one may only claim what is named too; and what  *)
(* is named must be out of the reach of tag moves and of the collector.    *)
(***************************************************************************)

ServedInv ==
  /\ named \subseteq present
  /\ Claimed(status) \subseteq named
  /\ Claimed(cache.status) \subseteq named
  /\ pc # "idle" => Claimed(obj.status) \subseteq named

(* No step of a pass, of a Job or of another writer takes a manifest that carries its own tag. *)
LEMMA PushServes ==
  ASSUME named \subseteq present, NEW d
  PROVE  /\ \A t : PushTag(d, t) => named' = named /\ named' \subseteq present'
         /\ PushDigest(d) => named' = named /\ named' \subseteq present'
         /\ PushOwnTag(d) => named' = named \cup {d} /\ named' \subseteq present'
         /\ d \notin named /\ LoseManifest(d) => named' = named /\ named' \subseteq present'
BY DEF PushTag, NamedWithout, PushDigest, PushOwnTag, LoseManifest

(* A status that claims what another does. *)
LEMMA ClaimedOf ==
  ASSUME NEW st, NEW new, new.own = st.own, new.history = st.history
  PROVE  Claimed(new) = Claimed(st)
BY DEF Claimed

(* Names are only added; what a pass returns claims nothing else than it read, or than it named. *)
LEMMA ReturnServes ==
  ASSUME TypeOK, ServedInv, pc # "idle", NEW kind, NEW st, Return(kind, st),
         UNCHANGED serverVars,
         named \subseteq named', named' \subseteq present', Claimed(st) \subseteq named'
  PROVE  ServedInv'
<1>1. obj'.status = st /\ status' = status /\ cache' = cache
  BY PassTypes DEF Return, Snapshot, serverVars
<1>2. QED
  BY <1>1 DEF ServedInv

LEMMA PlainReturnServes ==
  ASSUME TypeOK, ServedInv, pc # "idle", NEW kind, NEW st, Return(kind, st),
         UNCHANGED <<registryVars, serverVars>>,
         Claimed(st) \subseteq Claimed(obj.status)
  PROVE  ServedInv'
<1>1. named' = named /\ present' = present /\ Claimed(st) \subseteq named
  BY DEF registryVars, ServedInv
<1>2. QED
  BY <1>1, ReturnServes DEF ServedInv

LEMMA PassServes == TypeOK /\ ServedInv /\ Pass => ServedInv'
<1> SUFFICES ASSUME TypeOK, ServedInv, Pass PROVE ServedInv'
  OBVIOUS
<1>1. CASE Begin
  BY <1>1 DEF Begin, ServedInv, registryVars, serverVars
<1>2. CASE Backfill
  <2>1. PICK unanswered \in SUBSET Unnamed(obj.status) :
          LET asked  == Unnamed(obj.status) \ unanswered
              tagged == asked \cap present
          IN /\ named' = named \cup tagged
             /\ obj' = [obj EXCEPT !.status = Mark(obj.status, tagged, asked \ present)]
    BY <1>2 DEF Backfill
  <2> DEFINE asked  == Unnamed(obj.status) \ unanswered
             tagged == asked \cap present
             gone   == asked \ present
  <2>2. pc = "backfill" /\ present' = present /\ status' = status /\ cache' = cache
    BY <1>2 DEF Backfill, serverVars
  <2>3. tagged \in SUBSET Manifests /\ tagged \subseteq present
    BY DEF TypeOK, RegistryTypeOK
  <2>4. named' = named \cup tagged /\ obj' = [obj EXCEPT !.status = Mark(obj.status, tagged, gone)]
    BY <2>1
  <2> HIDE DEF tagged, gone
  <2>5. obj \in Snapshot /\ obj.status \in Status
    BY <2>2, PassTypes
  <2>6. obj'.status = Mark(obj.status, tagged, gone)
    BY <2>4, <2>5 DEF Snapshot
  <2>7. Claimed(obj'.status) \subseteq named'
    BY <2>2, <2>3, <2>4, <2>5, <2>6, MarkKeeps DEF ServedInv
  <2>8. QED
    BY <2>2, <2>3, <2>4, <2>7 DEF ServedInv
<1>3. CASE Suspended
  BY <1>3, PlainReturnServes DEF Suspended
<1>4. CASE Pending
  BY <1>4, PlainReturnServes DEF Pending
<1>5. ASSUME pc # "idle", UNCHANGED <<registryVars, serverVars, obj>>
      PROVE  ServedInv'
  BY <1>5 DEF ServedInv, registryVars, serverVars
<1>6. CASE Check
  <2>1. pc = "check" /\ UNCHANGED <<registryVars, serverVars>>
        /\ (Return("Done", obj.status) \/ UNCHANGED obj)
    BY <1>6 DEF Check
  <2>2. QED
    BY <1>5, <2>1, PlainReturnServes
<1>7. CASE Transient
  BY <1>7, PlainReturnServes DEF Transient
<1>8. CASE Unchecked
  BY <1>5, <1>8 DEF Unchecked, passVars
<1>9. CASE Precheck
  <2>1. pc = "job" /\ UNCHANGED <<registryVars, serverVars>>
    BY <1>9 DEF Precheck
  <2>2. PICK deaf : \/ UNCHANGED obj
                    \/ Return("Stalled", obj.status)
                    \/ \E i \in FirstInConflict(Heads(deaf), obj.status.digest) :
                          Return("Done", RecordKept(Heads(deaf), i, None))
    BY <1>9 DEF Precheck
  <2>3. CASE UNCHANGED obj
    BY <1>5, <2>1, <2>3
  <2>4. CASE Return("Stalled", obj.status)
    BY <2>1, <2>4, PlainReturnServes
  <2>5. ASSUME NEW i \in FirstInConflict(Heads(deaf), obj.status.digest),
               Return("Done", RecordKept(Heads(deaf), i, None))
        PROVE  ServedInv'
    <3>1. Claimed(RecordKept(Heads(deaf), i, None)) = Claimed(obj.status)
      BY <2>1, HeadsTypes, KeptTypes
    <3>2. QED
      BY <2>1, <2>5, <3>1, PlainReturnServes
  <2>6. QED
    BY <2>2, <2>3, <2>4, <2>5
<1>10. CASE Start
  <2> DEFINE new == [obj.status EXCEPT !.buildRef = obj.spec.input, !.attempt = obj.spec.input,
                                       !.finished = "never"]
  <2>1. pc = "start" /\ UNCHANGED <<registryVars, serverVars>>
        /\ (Return("Done", new) \/ Return("Done", obj.status))
    BY <1>10 DEF Start
  <2>2. new.own = obj.status.own /\ new.history = obj.status.history
    BY <2>1, PassTypes DEF Status
  <2> HIDE DEF new
  <2>3. Claimed(new) = Claimed(obj.status)
    BY <2>2, ClaimedOf
  <2>4. QED
    BY <2>1, <2>3, PlainReturnServes
<1>11. CASE StartUnanswered
  BY <1>11, PlainReturnServes DEF StartUnanswered
<1>12. CASE Running
  <2> DEFINE new == [obj.status EXCEPT !.buildRef = obj.spec.input]
  <2>1. pc = "job" /\ Return("Done", new) /\ UNCHANGED <<registryVars, serverVars>>
    BY <1>12 DEF Running, Phase
  <2>2. new.own = obj.status.own /\ new.history = obj.status.history
    BY <2>1, PassTypes DEF Status
  <2> HIDE DEF new
  <2>3. QED
    BY <2>1, <2>2, ClaimedOf, PlainReturnServes
<1>13. CASE CountFailure
  <2> DEFINE n == obj.status.failures + 1
             f == IF obj.status.attempt = None THEN obj.status.finished ELSE "recent"
             new == [obj.status EXCEPT !.buildRef = None, !.failures = n, !.finished = f]
  <2>1. pc = "job" /\ Return("Failing", new) /\ UNCHANGED <<registryVars, serverVars>>
    BY <1>13 DEF CountFailure, Phase
  <2> HIDE DEF n, f
  <2>2. new.own = obj.status.own /\ new.history = obj.status.history
    BY <2>1, PassTypes DEF Status
  <2> HIDE DEF new
  <2>3. QED
    BY <2>1, <2>2, ClaimedOf, PlainReturnServes
<1>14. CASE Retry
  BY <1>14, PlainReturnServes DEF Retry, Phase
<1>15. CASE PodUnseen
  BY <1>15, PlainReturnServes DEF PodUnseen, Phase
<1>16. CASE Resolve
  BY <1>5, <1>16 DEF Resolve, Phase
<1>17. CASE RefuseConflict
  BY <1>17, PlainReturnServes DEF RefuseConflict
<1>18. CASE KeepExisting
  <2>1. PICK i \in FirstInConflict(seen, built) : Return("Done", RecordKept(seen, i, built))
    BY <1>18 DEF KeepExisting
  <2>2. pc = "name" /\ UNCHANGED <<registryVars, serverVars>>
    BY <1>18 DEF KeepExisting
  <2>3. Claimed(RecordKept(seen, i, built)) = Claimed(obj.status)
    BY <2>2, KeptTypes DEF TypeOK
  <2>4. QED
    BY <2>1, <2>2, <2>3, PlainReturnServes
<1>19. CASE Unserved
  BY <1>19, PlainReturnServes DEF Unserved
<1>20. CASE Accept
  BY <1>5, <1>20 DEF Accept
<1>21. CASE WriteTag
  <2>1. named' = named /\ named' \subseteq present'
    BY <1>21, PushServes DEF WriteTag, ServedInv
  <2>2. QED
    BY <1>21, <2>1 DEF WriteTag, ServedInv, serverVars
<1>22. CASE WriteOwnTag
  <2>1. pc = "tags" /\ Return("Done", RecordSuccess) /\ UNCHANGED serverVars
        /\ named' = named \cup {built} /\ named' \subseteq present'
    BY <1>22, PushServes DEF WriteOwnTag, ServedInv
  <2>2. Claimed(RecordSuccess) \subseteq Claimed(obj.status) \cup {built}
    BY <2>1, PassTypes, RecordKeeps DEF TypeOK
  <2>3. Claimed(RecordSuccess) \subseteq named'
    BY <2>1, <2>2 DEF ServedInv
  <2>4. QED
    BY <2>1, <2>3, ReturnServes
<1>23. CASE Patch
  <2>1. PICK new \in Status : /\ status' = MergePatch(status, base, new)
                             /\ new.own = obj.status.own /\ new.history = obj.status.history
    BY <1>23, PatchWrites
  <2>2. pc = "patch" /\ pc' = "idle" /\ named' = named /\ present' = present
        /\ cache' = IF CacheLag THEN cache ELSE [cache EXCEPT !.status = status']
    BY <1>23 DEF Patch, EndPass, registryVars
  <2>3. base \in Status /\ status \in Status /\ cache \in Snapshot
    BY <2>2, PassTypes DEF TypeOK
  <2>4. Claimed(new) \subseteq named
    BY <2>1, <2>2, ClaimedOf DEF ServedInv
  <2>5. Claimed(status') \subseteq named
    BY <2>1, <2>3, <2>4, MergeKeeps DEF ServedInv
  <2>6. cache'.status \in {cache.status, status'}
    BY <2>2, <2>3 DEF Snapshot
  <2>7. QED
    BY <2>2, <2>5, <2>6 DEF ServedInv
<1>24. CASE ApiError
  BY <1>24 DEF ApiError, EndPass, ServedInv, registryVars, serverVars
<1>25. QED
  BY <1>1, <1>2, <1>3, <1>4, <1>6, <1>7, <1>8, <1>9, <1>10, <1>11, <1>12, <1>13, <1>14, <1>15, <1>16,
     <1>17, <1>18, <1>19, <1>20, <1>21, <1>22, <1>23, <1>24 DEF Pass

LEMMA WorldServes ==
  ASSUME NothingExpires, TypeOK, ServedInv, Sync \/ SyncJobs \/ Time \/ World
  PROVE  ServedInv'
<1> USE DEF serverVars, jobVars, passVars, registryVars
<1>1. CASE Sync
  BY <1>1 DEF Sync, ServedInv
<1>2. ASSUME UNCHANGED <<named, present, status, cache, pc, obj>> PROVE ServedInv'
  BY <1>2 DEF ServedInv
<1>3. CASE SyncJobs
  BY <1>2, <1>3 DEF SyncJobs
<1>4. CASE Elapse
  <2>1. status \in Status /\ cache \in Snapshot /\ cache.status \in Status
    BY DEF TypeOK, Snapshot
  <2>2. Claimed(status') = Claimed(status)
    BY <1>4, <2>1, AgedKeeps DEF Elapse
  <2>3. Claimed(cache'.status) = Claimed(cache.status)
    BY <1>4, <2>1, AgedKeeps DEF Elapse, Snapshot
  <2>4. pc # "idle" => Claimed(obj'.status) = Claimed(obj.status)
    BY <1>4, PassTypes, AgedKeeps DEF Elapse, Snapshot
  <2>5. pc' = pc /\ named' = named /\ present' = present
    BY <1>4 DEF Elapse
  <2>6. QED
    BY <2>2, <2>3, <2>4, <2>5 DEF ServedInv
<1>5. ASSUME NEW i \in Inputs, JobSucceeds(i) PROVE ServedInv'
  <2>1. named' = named /\ named' \subseteq present'
    BY <1>5, PushServes DEF JobSucceeds, ServedInv
  <2>2. QED
    BY <1>5, <2>1 DEF JobSucceeds, ServedInv
<1>6. ASSUME NEW i \in Inputs, JobExpires(i) \/ JobFails(i) PROVE ServedInv'
  BY <1>2, <1>6 DEF JobExpires, JobFails
<1>7. ASSUME NEW i \in Inputs, MoveSource(i) PROVE ServedInv'
  BY <1>7 DEF MoveSource, ServedInv, TypeOK, Snapshot
<1>8. ASSUME NEW s \in Specs, EditSpec(s) PROVE ServedInv'
  <2>1. cache'.status = cache.status
    <3>1. cache \in Snapshot
      BY DEF TypeOK
    <3>2. cache' = cache \/ cache' = [cache EXCEPT !.spec = s, !.generation = generation']
      BY <1>8 DEF EditSpec
    <3>3. QED
      BY <3>1, <3>2 DEF Snapshot
  <2>2. QED
    BY <1>8, <2>1 DEF EditSpec, ServedInv
<1>9. ASSUME NEW d \in Manifests, NEW t \in Tags, ForeignPush(d, t) PROVE ServedInv'
  BY <1>9, PushServes DEF ForeignPush, ServedInv
<1>10. ASSUME NEW d \in Manifests, Collect(d) PROVE ServedInv'
  BY <1>10, PushServes DEF Collect, ServedInv
<1>11. CASE Expire
  BY <1>11, NoExpiry
<1>12. CASE Restart
  BY <1>12 DEF Restart, ServedInv
<1>13. QED
  BY <1>1, <1>3, <1>4, <1>5, <1>6, <1>7, <1>8, <1>9, <1>10, <1>11, <1>12 DEF Time, World

(* ADR 0060, for every set of inputs, tags, specs and statuses and any number of Jobs, crashes,
   collections, failed requests and foreign tag moves, with caches as stale as they like: every
   digest an ImageBuild's status ever claims its own tag for carries that tag and is served.
   (Where nothing named expires, and the first status claims only what is named and there.) *)
THEOREM ClaimsAreServed ==
  ASSUME NothingExpires,
         \A st \in InitStatuses, r \in InitRepositories :
           r.named \subseteq r.present /\ Claimed(st) \subseteq r.named
  PROVE  Spec => []ClaimedIsServed
<1>1. Init => ServedInv
  BY DEF Init, ServedInv
<1>2. TypeOK /\ ServedInv /\ [Next]_vars => ServedInv'
  <2>1. TypeOK /\ ServedInv /\ Next => ServedInv'
    BY PassServes, WorldServes DEF Next
  <2>2. ServedInv /\ UNCHANGED vars => ServedInv'
    BY DEF vars, registryVars, serverVars, passVars, ServedInv
  <2>3. QED
    BY <2>1, <2>2
<1>3. ServedInv => ClaimedIsServed
  BY DEF ServedInv, ClaimedIsServed
<1>4. QED
  BY <1>1, <1>2, <1>3, TypeCorrect, PTL DEF Spec

-----------------------------------------------------------------------------
(***************************************************************************)
(* Tags.  While the pass writes the tags, its policy is Overwrite or no    *)
(* tag it saw means anything but what was built: Accept decided that, and  *)
(* nothing the pass does until its patch changes what it decided on.       *)
(***************************************************************************)

TagsInv ==
  pc = "tags" => \/ obj.spec.policy = "Overwrite"
                 \/ \A u \in TagsOf(obj.spec) : seen[u] \in {None, built}

LEMMA TagsInvHolds == Spec => []TagsInv
<1>1. Init => TagsInv
  BY DEF Init, TagsInv
<1>2. TypeOK /\ TagsInv /\ [Next]_vars => TagsInv'
  <2> SUFFICES ASSUME TypeOK, TagsInv, [Next]_vars, pc' = "tags"
               PROVE  \/ obj'.spec.policy = "Overwrite"
                      \/ \A u \in TagsOf(obj'.spec) : seen'[u] \in {None, built'}
    BY DEF TagsInv
  <2> USE DEF passVars
  <2>1. CASE Accept
    <3>1. obj' = obj /\ seen' = seen /\ built' = built
      BY <2>1 DEF Accept
    <3>2. CASE InConflict(seen, built) = {}
      BY <3>1, <3>2 DEF InConflict, Conflicting, TagsOf
    <3>3. QED
      BY <2>1, <3>1, <3>2 DEF Accept, Accepted
  <2>2. CASE pc = "tags" /\ UNCHANGED <<seen, built>> /\ obj'.spec = obj.spec
    BY <2>2 DEF TagsInv
  <2>3. CASE UNCHANGED vars
    BY <2>2, <2>3 DEF vars
  <2>4. CASE Pass
    BY <2>1, <2>2, <2>4 DEF Pass, Begin, Backfill, Suspended, Pending, Check, Transient, Unchecked,
       Precheck, Start, StartUnanswered, Running, CountFailure, Retry, PodUnseen, Resolve,
       RefuseConflict, KeepExisting, Unserved, WriteTag, WriteOwnTag, Patch, ApiError, Return, EndPass
  <2>5. CASE Elapse
    <3>1. pc = "tags" /\ UNCHANGED <<seen, built>>
      BY <2>5 DEF Elapse
    <3>2. obj'.spec = obj.spec
      BY <2>5, <3>1, PassTypes DEF Elapse, Snapshot
    <3>3. QED
      BY <2>2, <3>1, <3>2
  <2>6. CASE Sync \/ SyncJobs \/ \E i \in Inputs : JobSucceeds(i) \/ JobExpires(i)
    BY <2>2, <2>6 DEF Sync, SyncJobs, JobSucceeds, JobExpires
  <2>7. CASE World
    BY <2>2, <2>7 DEF World, JobFails, EditSpec, MoveSource, ForeignPush, Collect, Expire, Restart
  <2>8. QED
    BY <2>3, <2>4, <2>5, <2>6, <2>7 DEF Next, Time
<1>3. QED
  BY <1>1, <1>2, TypeCorrect, PTL DEF Spec

(* ADR 0054, for every policy, tag list and interleaving: whatever digest status records, under Fail
   and Keep a pass moves no tag unless every tag it saw meant nothing, or the manifest this very
   build produced. *)
THEOREM OnlyOverwriteMovesTags == Spec => OnlyOverwriteMoves
<1>1. TagsInv /\ [Next]_vars =>
        [\A t \in Tags : Moves(t) => \/ obj.spec.policy = "Overwrite"
                                     \/ \A u \in TagsOf(obj.spec) : seen[u] \in {None, built}]_vars
  <2> SUFFICES ASSUME TagsInv, Next, NEW t \in Tags, Moves(t)
               PROVE  \/ obj.spec.policy = "Overwrite"
                      \/ \A u \in TagsOf(obj.spec) : seen[u] \in {None, built}
    OBVIOUS
  <2> USE DEF Moves, registryVars
  <2>1. CASE WriteTag
    BY <2>1 DEF WriteTag, TagsInv
  <2>2. CASE UNCHANGED tag
    BY <2>2
  <2>3. CASE UNCHANGED passVars
    BY <2>3
  <2>4. CASE Pass
    BY <2>1, <2>2, <2>4 DEF Pass, Begin, Backfill, Suspended, Pending, Check, Transient, Unchecked,
       Precheck, Start, StartUnanswered, Running, CountFailure, Retry, PodUnseen, Resolve,
       RefuseConflict, KeepExisting, Unserved, Accept, WriteOwnTag, PushOwnTag, Patch, ApiError
  <2>5. CASE Sync \/ SyncJobs \/ Time
    BY <2>2, <2>5 DEF Sync, SyncJobs, Time, Elapse, JobSucceeds, JobExpires, PushDigest
  <2>6. CASE World
    BY <2>2, <2>3, <2>6 DEF World, JobFails, EditSpec, MoveSource, ForeignPush, Collect, Expire, Restart
  <2>7. QED
    BY <2>4, <2>5, <2>6 DEF Next
<1>2. QED
  BY <1>1, TagsInvHolds, PTL DEF Spec, OnlyOverwriteMoves

-----------------------------------------------------------------------------
(***************************************************************************)
(* The backoff.  A failed Job is deleted on what the pass read of its      *)
(* attempt; until it decides, that is what the server says, if the cache   *)
(* it read was current.                                                    *)
(***************************************************************************)

FreshInv ==
  /\ cache.status = status
  /\ pc \in {"backfill", "check", "job"} => obj.status.finished = status.finished

LEMMA FreshInvHolds ==
  ASSUME ~CacheLag
  PROVE  Spec => []FreshInv
<1>1. Init => FreshInv
  BY DEF Init, FreshInv
<1>2. TypeOK /\ FreshInv /\ [Next]_vars => FreshInv'
  <2> SUFFICES ASSUME TypeOK, FreshInv, [Next]_vars PROVE FreshInv'
    OBVIOUS
  <2> USE DEF serverVars, passVars
  <2>1. CASE UNCHANGED <<status, cache>> /\ pc' \notin {"backfill", "check", "job"}
    BY <2>1 DEF FreshInv
  <2>2. ASSUME UNCHANGED status, cache'.status = cache.status, UNCHANGED <<pc, obj>> PROVE FreshInv'
    BY <2>2 DEF FreshInv
  <2>3. CASE UNCHANGED vars
    BY <2>2, <2>3 DEF vars
  <2>4. CASE Begin
    BY <2>4 DEF Begin, FreshInv
  <2>5. CASE Backfill
    <3>1. PICK tagged, gone :
            tagged \subseteq present /\ obj' = [obj EXCEPT !.status = Mark(obj.status, tagged, gone)]
      BY <2>5 DEF Backfill
    <3>2. tagged \in SUBSET Manifests
      BY <3>1 DEF TypeOK, RegistryTypeOK
    <3>3. pc = "backfill" /\ obj \in Snapshot /\ obj.status \in Status
      BY <2>5, PassTypes DEF Backfill
    <3>4. obj'.status.finished = obj.status.finished
      BY <3>1, <3>2, <3>3, MarkKeeps DEF Snapshot
    <3>5. QED
      BY <2>5, <3>3, <3>4 DEF Backfill, FreshInv
  <2>6. CASE Check
    <3>1. pc = "check" /\ UNCHANGED <<status, cache>> /\ (pc' = "patch" \/ UNCHANGED obj)
      BY <2>6 DEF Check, Return
    <3>2. QED
      BY <3>1 DEF FreshInv
  <2>7. CASE Patch
    <3>1. pc' = "idle" /\ cache' = [cache EXCEPT !.status = status']
      BY <2>7 DEF Patch, EndPass
    <3>2. QED
      BY <3>1 DEF FreshInv, TypeOK, Snapshot
  <2>8. CASE Pass
    BY <2>1, <2>4, <2>5, <2>6, <2>7, <2>8 DEF Pass, Suspended, Pending, Transient, Unchecked,
       Precheck, Start, StartUnanswered, Running, CountFailure, Retry, PodUnseen, Resolve,
       RefuseConflict, KeepExisting, Unserved, Accept, WriteTag, WriteOwnTag, ApiError, Return, EndPass
  <2>9. CASE Elapse
    <3>1. cache \in Snapshot /\ cache'.status = Aged(cache.status) /\ status' = Aged(status) /\ pc' = pc
      BY <2>9 DEF Elapse, TypeOK, Snapshot
    <3>2. pc # "idle" => obj'.status = Aged(obj.status)
      BY <2>9, PassTypes DEF Elapse, Snapshot
    <3>3. pc # "idle" => obj.status \in Status /\ status \in Status
      BY PassTypes DEF TypeOK
    <3>4. ASSUME NEW st \in Status PROVE Aged(st).finished = IF st.finished = "recent" THEN "past" ELSE st.finished
      BY DEF Aged, Status
    <3>5. QED
      BY <3>1, <3>2, <3>3, <3>4 DEF FreshInv
  <2>10. CASE Sync
    BY <2>10 DEF Sync, FreshInv
  <2>11. CASE SyncJobs \/ \E i \in Inputs : JobSucceeds(i) \/ JobExpires(i) \/ JobFails(i)
    BY <2>2, <2>11 DEF SyncJobs, JobSucceeds, JobExpires, JobFails
  <2>12. ASSUME NEW s \in Specs, EditSpec(s) PROVE FreshInv'
    <3>1. cache' = [cache EXCEPT !.spec = s, !.generation = generation'] /\ cache \in Snapshot
      BY <2>12 DEF EditSpec, TypeOK
    <3>2. cache'.status = cache.status
      BY <3>1 DEF Snapshot
    <3>3. QED
      BY <2>2, <2>12, <3>2 DEF EditSpec
  <2>13. ASSUME NEW i \in Inputs, MoveSource(i) PROVE FreshInv'
    <3>1. cache' = [cache EXCEPT !.spec = spec'] /\ cache \in Snapshot
      BY <2>13 DEF MoveSource, TypeOK
    <3>2. cache'.status = cache.status
      BY <3>1 DEF Snapshot
    <3>3. QED
      BY <2>2, <2>13, <3>2 DEF MoveSource
  <2>14. CASE Expire \/ (\E d \in Manifests : Collect(d)) \/ \E d \in Manifests, t \in Tags : ForeignPush(d, t)
    BY <2>2, <2>14 DEF Expire, Collect, ForeignPush
  <2>15. CASE Restart
    BY <2>15 DEF Restart, FreshInv
  <2>16. QED
    BY <2>3, <2>8, <2>9, <2>10, <2>11, <2>12, <2>13, <2>14, <2>15 DEF Next, Time, World
<1>3. QED
  BY <1>1, <1>2, TypeCorrect, PTL DEF Spec

(* ADR 0046, where the caches are current: whatever wakes the object - its own status write, a
   restart, an edit away and back, any number of them - a failed Job is not deleted, and so not
   started again, before the backoff since the recorded failure has elapsed. *)
THEOREM FailedJobsAreKept ==
  ASSUME ~CacheLag
  PROVE  Spec => FailedJobIsKept
<1>1. TypeOK /\ FreshInv /\ [Next]_vars =>
        [\A i \in Inputs : InPhase(i, "failed") /\ jobs'[i] = None => status.finished # "recent"]_vars
  <2> SUFFICES ASSUME TypeOK, FreshInv, Next, NEW i \in Inputs,
                      jobs[i] # None, jobs[i].phase = "failed", jobs'[i] = None
               PROVE  status.finished # "recent"
    BY DEF InPhase
  <2>1. jobs \in [Inputs -> Job \cup {None}]
    BY DEF TypeOK, Jobs
  <2>2. CASE UNCHANGED jobs
    BY <2>2
  <2>3. ASSUME NEW j \in Inputs, NEW job, SetJob(j, job), ~InPhase(j, "failed")
        PROVE  FALSE
    <3>1. j # i /\ jobs' = [jobs EXCEPT ![j] = job]
      BY <2>3 DEF InPhase, SetJob
    <3>2. QED
      BY <2>1, <3>1
  <2>4. CASE Start \/ StartUnanswered
    <3>1. obj.spec.input \in Inputs
      BY <2>4, PassTypes DEF Start, StartUnanswered
    <3>2. CASE UNCHANGED jobVars
      BY <2>2, <3>2 DEF jobVars
    <3>3. CASE jobs[obj.spec.input] = None /\ \E job : SetJob(obj.spec.input, job)
      BY <2>3, <3>1, <3>3 DEF InPhase
    <3>4. QED
      BY <2>4, <3>2, <3>3 DEF Start, StartUnanswered
  <2>5. CASE Retry
    <3>1. CASE RetryDue
      BY <2>5, <3>1 DEF Retry, Phase, RetryDue, FreshInv
    <3>2. CASE ~RetryDue
      BY <2>2, <2>5, <3>2 DEF Retry, jobVars
    <3>3. QED
      BY <3>1, <3>2
  <2>6. ASSUME NEW j \in Inputs, JobSucceeds(j) \/ JobFails(j) PROVE FALSE
    <3>1. ~InPhase(j, "failed") /\ \E job : SetJob(j, job)
      BY <2>6 DEF JobSucceeds, JobFails, InPhase
    <3>2. QED
      BY <2>3, <3>1
  <2>7. ASSUME NEW j \in Inputs, JobExpires(j) PROVE status.finished # "recent"
    <3>1. CASE j = i
      BY <2>7, <3>1 DEF JobExpires, InPhase
    <3>2. CASE j # i
      BY <2>1, <2>7, <3>2 DEF JobExpires, SetJob
    <3>3. QED
      BY <3>1, <3>2
  <2>8. CASE Pass
    BY <2>2, <2>4, <2>5, <2>8 DEF Pass, jobVars, Begin, Backfill, Suspended, Pending, Check, Transient,
       Unchecked, Precheck, Running, CountFailure, PodUnseen, Resolve, RefuseConflict, KeepExisting,
       Unserved, Accept, WriteTag, WriteOwnTag, Patch, ApiError
  <2>9. CASE Sync \/ SyncJobs \/ Time
    BY <2>2, <2>6, <2>7, <2>9 DEF Sync, SyncJobs, Time, Elapse, jobVars
  <2>10. CASE World
    BY <2>2, <2>6, <2>10 DEF World, EditSpec, MoveSource, ForeignPush, Collect, Expire, Restart, jobVars
  <2>11. QED
    BY <2>8, <2>9, <2>10 DEF Next
<1>2. Spec => []FreshInv
  BY FreshInvHolds
<1>3. QED
  BY <1>1, <1>2, TypeCorrect, PTL DEF Spec, FailedJobIsKept

-----------------------------------------------------------------------------
(***************************************************************************)
(* What a build is of.  Where the caches are current and no source moves   *)
(* under a running pass, the object a pass holds is the one the server     *)
(* has, unless it is edited meanwhile, and the Job named after some inputs *)
(* builds those: the hash is what ties a status, a Job and a pass that     *)
(* names what the Job pushed to the same inputs.                           *)
(***************************************************************************)

HashFits(st) == st.hash # None => MadeFrom[st.digest] = st.hash

JobFits(i, job) ==
  job # None => job.from = i /\ (job.phase = "succeeded" => MadeFrom[job.digest] = i)

CachesCurrent ==
  /\ cache = [spec |-> spec, generation |-> generation, status |-> status]
  /\ jobCache = jobs

PassCurrent ==
  pc # "idle" => /\ base = status
                 /\ obj.generation \leq generation
                 /\ obj.generation = generation => obj.spec = spec

BuildsFit ==
  /\ \A i \in Inputs : JobFits(i, jobs[i])
  /\ HashFits(status)
  /\ pc # "idle" => HashFits(obj.status)
  /\ pc = "start" => jobs[obj.spec.input] = None
  /\ pc \in {"name", "tags"} => MadeFrom[built] = obj.spec.input

BuildInv == CachesCurrent /\ PassCurrent /\ BuildsFit

(* What a status is a build of, which marking and time leave alone. *)
SameBuild(st, new) ==
  /\ new.digest = st.digest /\ new.hash = st.hash
  /\ new.conflict = st.conflict /\ new.buildRef = st.buildRef

LEMMA SameBuilds ==
  ASSUME NEW st \in Status
  PROVE  /\ SameBuild(st, Aged(st)) /\ Aged(st).own = st.own /\ Aged(st).ready = st.ready
         /\ \A tagged, gone :
              LET m == Mark(st, tagged, gone) IN SameBuild(st, m) /\ m.own \in {st.digest, st.own}
<1>1. SameBuild(st, Aged(st)) /\ Aged(st).own = st.own /\ Aged(st).ready = st.ready
  BY DEF Aged, Status, SameBuild
<1>2. ASSUME NEW tagged, NEW gone
      PROVE  LET m == Mark(st, tagged, gone) IN SameBuild(st, m) /\ m.own \in {st.digest, st.own}
  BY DEF Mark, Status, SameBuild
<1>3. QED
  BY <1>1, <1>2

(* Of a backfill, what these proofs need. *)
LEMMA BackfillKeeps ==
  ASSUME TypeOK, Backfill
  PROVE  /\ pc = "backfill" /\ pc' = "check" /\ UNCHANGED <<serverVars, jobVars, base>>
         /\ UNCHANGED <<tag, present>> /\ named \subseteq named'
         /\ obj'.spec = obj.spec /\ obj'.generation = obj.generation
         /\ SameBuild(obj.status, obj'.status)
<1>1. PICK tagged, gone : obj' = [obj EXCEPT !.status = Mark(obj.status, tagged, gone)]
  BY DEF Backfill
<1>2. pc = "backfill" /\ obj \in Snapshot /\ obj.status \in Status
  BY PassTypes DEF Backfill
<1>3. /\ obj'.spec = obj.spec /\ obj'.generation = obj.generation
      /\ obj'.status = Mark(obj.status, tagged, gone)
  BY <1>1, <1>2 DEF Snapshot
<1>4. SameBuild(obj.status, obj'.status)
  BY <1>2, <1>3, SameBuilds
<1>5. QED
  BY <1>2, <1>3, <1>4 DEF Backfill

(* Of time passing, likewise. *)
LEMMA ElapseKeeps ==
  ASSUME TypeOK, Elapse
  PROVE  /\ UNCHANGED <<registryVars, spec, generation, jobVars, pc, seen, built, todo, outcome>>
         /\ status' = Aged(status) /\ cache' = [cache EXCEPT !.status = Aged(cache.status)]
         /\ SameBuild(status, status') /\ status'.own = status.own /\ status'.ready = status.ready
         /\ pc # "idle" => /\ obj'.spec = obj.spec /\ obj'.generation = obj.generation
                           /\ base' = Aged(base) /\ SameBuild(obj.status, obj'.status)
                           /\ obj'.status.own = obj.status.own
<1>1. status \in Status /\ status' = Aged(status)
  BY DEF Elapse, TypeOK
<1>2. SameBuild(status, status') /\ status'.own = status.own /\ status'.ready = status.ready
  BY <1>1, SameBuilds
<1>3. ASSUME pc # "idle"
      PROVE  /\ obj'.spec = obj.spec /\ obj'.generation = obj.generation
             /\ base' = Aged(base) /\ SameBuild(obj.status, obj'.status)
             /\ obj'.status.own = obj.status.own
  <2>1. obj \in Snapshot /\ obj.status \in Status
    BY <1>3, PassTypes
  <2>2. obj' = [obj EXCEPT !.status = Aged(obj.status)] /\ base' = Aged(base)
    BY <1>3 DEF Elapse
  <2>3. obj'.spec = obj.spec /\ obj'.generation = obj.generation /\ obj'.status = Aged(obj.status)
    BY <2>1, <2>2 DEF Snapshot
  <2>4. QED
    BY <2>1, <2>2, <2>3, SameBuilds
<1>4. QED
  BY <1>1, <1>2, <1>3 DEF Elapse

(* A return leaves the object the pass read, but for its status. *)
LEMMA ReturnKeeps ==
  ASSUME TypeOK, pc # "idle", NEW kind, NEW st, Return(kind, st)
  PROVE  /\ obj'.spec = obj.spec /\ obj'.generation = obj.generation /\ obj'.status = st
         /\ base' = base /\ pc' = "patch" /\ outcome' = kind
BY PassTypes DEF Return, Snapshot

(* A patch against the status the server still has writes what the pass made of it. *)
LEMMA PatchSays ==
  ASSUME TypeOK, Patch, PassCurrent
  PROVE  /\ SameBuild(obj.status, status') /\ status'.own = obj.status.own
         /\ status'.ready = Says(obj.status)
         /\ pc = "patch" /\ pc' = "idle" /\ UNCHANGED <<registryVars, spec, generation, jobVars>>
         /\ ~CacheLag => cache' = [cache EXCEPT !.status = status']
<1> DEFINE c == Says(obj.status)
           new == [obj.status EXCEPT !.ready = c, !.observed = obj.generation]
<1>1. pc = "patch" /\ obj.status \in Status /\ obj.generation \in Nat /\ status \in Status
  BY PassTypes DEF Patch, TypeOK
<1>2. status' = MergePatch(status, status, new)
  BY <1>1 DEF Patch, PassCurrent
<1>3. c \in Condition
  BY <1>1, SaysTypes
<1> HIDE DEF c
<1>4. new \in Status /\ SameBuild(obj.status, new) /\ new.own = obj.status.own /\ new.ready = c
  BY <1>1, <1>3 DEF Status, SameBuild
<1> HIDE DEF new
<1>5. SameBuild(new, status') /\ status'.own = new.own /\ status'.ready = new.ready
  BY <1>1, <1>2, <1>4 DEF MergePatch, Merge, SameBuild
<1>6. QED
  BY <1>1, <1>4, <1>5 DEF Patch, EndPass, c, SameBuild

LEMMA CurrentKept ==
  ASSUME ~CacheLag, "source-in-pass" \notin Disturbances, TypeOK, CachesCurrent, PassCurrent, Next
  PROVE  CachesCurrent' /\ PassCurrent'
<1> USE DEF registryVars, serverVars, jobVars, passVars, CachesCurrent, PassCurrent
<1>t. cache \in Snapshot /\ status \in Status /\ generation \in Nat
  BY DEF TypeOK
<1>1. CASE Begin
  BY <1>1, <1>t DEF Begin
<1>2. CASE Backfill
  BY <1>2, BackfillKeeps
<1>3. ASSUME NEW kind, NEW st, Return(kind, st), pc # "idle", UNCHANGED serverVars, jobCache' = jobs'
      PROVE  CachesCurrent' /\ PassCurrent'
  BY <1>3, ReturnKeeps
<1>4. ASSUME NEW i, NEW job, SetJob(i, job) PROVE jobCache' = jobs'
  BY <1>4 DEF SetJob
<1>5. CASE Start \/ StartUnanswered
  BY <1>3, <1>4, <1>5 DEF Start, StartUnanswered
<1>6. CASE Retry
  BY <1>3, <1>4, <1>6 DEF Retry, Phase
<1>7. CASE Check
  BY <1>3, <1>7 DEF Check
<1>8. CASE Precheck
  <2>1. pc = "job" /\ UNCHANGED <<serverVars, jobVars>> /\ ((pc' = "start" /\ UNCHANGED <<obj, base>>) \/ \E kind, st : Return(kind, st))
    BY <1>8 DEF Precheck
  <2>2. QED
    BY <1>3, <2>1
<1>9. CASE Suspended \/ Pending \/ Transient \/ Running \/ CountFailure \/ PodUnseen
           \/ RefuseConflict \/ Unserved \/ WriteOwnTag
  BY <1>3, <1>9 DEF Suspended, Pending, Transient, Running, CountFailure, PodUnseen, Phase,
     RefuseConflict, Unserved, WriteOwnTag
<1>10. CASE KeepExisting
  BY <1>3, <1>10 DEF KeepExisting
<1>11. CASE Unchecked \/ Resolve \/ Accept \/ WriteTag
  BY <1>11 DEF Unchecked, Resolve, Phase, Accept, WriteTag
<1>12. CASE Patch
  BY <1>12, <1>t, PatchSays DEF Snapshot
<1>13. CASE ApiError
  BY <1>13 DEF ApiError, EndPass
<1>14. CASE Pass
  BY <1>1, <1>2, <1>5, <1>6, <1>7, <1>8, <1>9, <1>10, <1>11, <1>12, <1>13, <1>14 DEF Pass
<1>15. CASE Sync \/ SyncJobs
  BY <1>15 DEF Sync, SyncJobs
<1>16. CASE Elapse
  <2>1. CachesCurrent'
    BY <1>16, <1>t, ElapseKeeps DEF Snapshot
  <2>2. PassCurrent'
    BY <1>16, ElapseKeeps
  <2>3. QED
    BY <2>1, <2>2
<1>17. ASSUME NEW i \in Inputs, JobSucceeds(i) \/ JobFails(i) \/ JobExpires(i)
       PROVE  CachesCurrent' /\ PassCurrent'
  BY <1>4, <1>17 DEF JobSucceeds, JobFails, JobExpires
<1>18. ASSUME NEW s \in Specs, EditSpec(s) PROVE CachesCurrent' /\ PassCurrent'
  <2>1. /\ cache' = [cache EXCEPT !.spec = s, !.generation = generation'] /\ spec' = s
        /\ generation' = generation + 1 /\ UNCHANGED <<status, jobVars, pc, passVars>>
    BY <1>18 DEF EditSpec
  <2>2. CachesCurrent'
    BY <1>t, <2>1 DEF Snapshot
  <2>3. PassCurrent'
    <3>1. SUFFICES ASSUME pc # "idle" PROVE obj.generation \leq generation + 1 /\ obj.generation # generation + 1
      BY <2>1
    <3>2. obj.generation \in Nat /\ obj.generation \leq generation
      BY <3>1, PassTypes
    <3>3. QED
      BY <1>t, <3>2
  <2>4. QED
    BY <2>2, <2>3
<1>19. ASSUME NEW i \in Inputs, MoveSource(i) PROVE CachesCurrent' /\ PassCurrent'
  <2>1. /\ pc = "idle" /\ cache' = [cache EXCEPT !.spec = spec']
        /\ UNCHANGED <<generation, status, jobVars, pc, passVars>>
    BY <1>19 DEF MoveSource, Disturb
  <2>2. QED
    BY <1>t, <2>1 DEF Snapshot
<1>20. CASE Expire \/ (\E d \in Manifests : Collect(d)) \/ \E d \in Manifests, t \in Tags : ForeignPush(d, t)
  BY <1>20 DEF Expire, Collect, ForeignPush
<1>21. CASE Restart
  BY <1>21 DEF Restart
<1>22. QED
  BY <1>14, <1>15, <1>16, <1>17, <1>18, <1>19, <1>20, <1>21 DEF Next, Time, World

(* A Job is set to one that builds what it is named after, or is gone. *)
LEMMA SetJobFits ==
  ASSUME TypeOK, NEW i \in Inputs, NEW job, SetJob(i, job), JobFits(i, job),
         \A j \in Inputs : JobFits(j, jobs[j])
  PROVE  /\ \A j \in Inputs : JobFits(j, jobs'[j])
         /\ jobs'[i] = job /\ \A j \in Inputs \ {i} : jobs'[j] = jobs[j]
<1>1. jobs \in [Inputs -> Job \cup {None}] /\ jobs' = [jobs EXCEPT ![i] = job]
  BY DEF TypeOK, Jobs, SetJob
<1>2. jobs'[i] = job /\ \A j \in Inputs \ {i} : jobs'[j] = jobs[j]
  BY <1>1
<1>3. QED
  BY <1>2

(* What the pass returns is a build of what its hash says. *)
LEMMA ReturnFits ==
  ASSUME TypeOK, BuildsFit, pc # "idle", NEW kind, NEW st, Return(kind, st), HashFits(st),
         status' = status, \A j \in Inputs : JobFits(j, jobs'[j])
  PROVE  BuildsFit'
BY ReturnKeeps DEF BuildsFit, HashFits

LEMMA StartFits ==
  ASSUME TypeOK, CachesCurrent, PassCurrent, BuildsFit, Start \/ StartUnanswered
  PROVE  BuildsFit'
<1>1. /\ pc = "start" /\ status' = status /\ obj.spec.input \in Inputs /\ obj.status \in Status
      /\ HashFits(obj.status)
  BY PassTypes DEF Start, StartUnanswered, serverVars, BuildsFit
<1>2. ToBuild = {obj.spec.input}
  BY <1>1 DEF ToBuild, CachesCurrent, PassCurrent
<1>3. \E kind, st : Return(kind, st) /\ HashFits(st)
  <2>1. CASE Return("Done", [obj.status EXCEPT !.buildRef = obj.spec.input,
                                               !.attempt = obj.spec.input,
                                               !.finished = "never"])
    <3> DEFINE st == [obj.status EXCEPT !.buildRef = obj.spec.input,
                                        !.attempt = obj.spec.input,
                                        !.finished = "never"]
    <3>1. HashFits(st)
      BY <1>1 DEF HashFits, Status
    <3>2. QED
      BY <2>1, <3>1
  <2>2. QED
    BY <1>1, <2>1 DEF Start, StartUnanswered
<1>4. CASE UNCHANGED jobVars
  BY <1>1, <1>3, <1>4, ReturnFits DEF jobVars, BuildsFit
<1>5. CASE \E i \in ToBuild : SetJob(obj.spec.input, [phase |-> "running", from |-> i, digest |-> None])
  <2>1. SetJob(obj.spec.input, [phase |-> "running", from |-> obj.spec.input, digest |-> None])
    BY <1>2, <1>5
  <2>2. JobFits(obj.spec.input, [phase |-> "running", from |-> obj.spec.input, digest |-> None])
    BY DEF JobFits
  <2>3. \A j \in Inputs : JobFits(j, jobs'[j])
    BY <1>1, <2>1, <2>2, SetJobFits DEF BuildsFit
  <2>4. QED
    BY <1>1, <1>3, <2>3, ReturnFits
<1>6. QED
  BY <1>4, <1>5 DEF Start, StartUnanswered

LEMMA BuildsFitKept ==
  ASSUME ~CacheLag, "source-in-pass" \notin Disturbances, TypeOK, CachesCurrent, PassCurrent, BuildsFit, Next
  PROVE  BuildsFit'
<1> USE DEF registryVars, serverVars, jobVars, passVars
<1>t. jobs \in [Inputs -> Job \cup {None}] /\ status \in Status
  BY DEF TypeOK, Jobs
<1>1. CASE Begin
  BY <1>1 DEF Begin, BuildsFit, CachesCurrent
<1>2. CASE Backfill
  BY <1>2, BackfillKeeps DEF BuildsFit, HashFits, SameBuild
<1>3. ASSUME NEW kind, Return(kind, obj.status), pc # "idle", UNCHANGED <<status, jobs>>
      PROVE  BuildsFit'
  BY <1>3, ReturnFits DEF BuildsFit
<1>4. ASSUME UNCHANGED <<status, jobs, pc>>, pc # "idle" => UNCHANGED <<obj, built>> PROVE BuildsFit'
  BY <1>4 DEF BuildsFit
<1>5. CASE Suspended \/ Pending \/ Transient \/ PodUnseen \/ RefuseConflict \/ Unserved
  BY <1>3, <1>5 DEF Suspended, Pending, Transient, PodUnseen, Phase, RefuseConflict, Unserved
<1>6. CASE Check
  <2>1. pc = "check" /\ UNCHANGED <<status, jobs>>
        /\ (Return("Done", obj.status) \/ (pc' = "job" /\ UNCHANGED obj))
    BY <1>6 DEF Check
  <2>2. QED
    BY <1>3, <2>1 DEF BuildsFit
<1>7. CASE Unchecked
  BY <1>7 DEF Unchecked, CurrentJob, CachesCurrent, BuildsFit
<1>8. ASSUME NEW heads, NEW i, NEW dropped, pc # "idle", UNCHANGED <<status, jobs>>,
             Return("Done", RecordKept(heads, i, dropped))
      PROVE  BuildsFit'
  <2>1. obj.status \in Status
    BY <1>8, PassTypes
  <2>2. HashFits(RecordKept(heads, i, dropped))
    BY <1>8, <2>1 DEF RecordKept, HashFits, BuildsFit, Status
  <2>3. QED
    BY <1>8, <2>2, ReturnFits DEF BuildsFit
<1>9. CASE Precheck
  <2>1. /\ pc = "job" /\ CurrentJob = None /\ UNCHANGED <<status, jobs>>
        /\ \/ pc' = "start" /\ UNCHANGED obj
           \/ Return("Stalled", obj.status)
           \/ \E heads, i : Return("Done", RecordKept(heads, i, None))
    BY <1>9 DEF Precheck
  <2>2. CASE pc' = "start" /\ UNCHANGED obj
    BY <2>1, <2>2 DEF CurrentJob, CachesCurrent, BuildsFit
  <2>3. QED
    BY <1>3, <1>8, <2>1, <2>2
<1>10. CASE Start \/ StartUnanswered
  BY <1>10, StartFits
<1>11. CASE Running
  <2>1. pc = "job" /\ obj.status \in Status /\ UNCHANGED <<status, jobs>>
        /\ Return("Done", [obj.status EXCEPT !.buildRef = obj.spec.input])
    BY <1>11, PassTypes DEF Running, Phase
  <2>2. HashFits([obj.status EXCEPT !.buildRef = obj.spec.input])
    BY <2>1 DEF HashFits, BuildsFit, Status
  <2>3. QED
    BY <2>1, <2>2, ReturnFits DEF BuildsFit
<1>12. CASE CountFailure
  <2> DEFINE st == [obj.status EXCEPT !.buildRef = None, !.failures = @ + 1,
                                      !.finished = IF obj.status.attempt = None THEN @ ELSE "recent"]
  <2>1. pc = "job" /\ obj.status \in Status /\ UNCHANGED <<status, jobs>> /\ Return("Failing", st)
    BY <1>12, PassTypes DEF CountFailure, Phase
  <2>2. HashFits(st)
    BY <2>1 DEF HashFits, BuildsFit, Status
  <2>3. QED
    BY <2>1, <2>2, ReturnFits DEF BuildsFit
<1>13. CASE Retry
  <2>1. pc = "job" /\ obj.spec.input \in Inputs /\ status' = status /\ Return("Failing", obj.status)
        /\ (UNCHANGED jobs \/ SetJob(obj.spec.input, None))
    BY <1>13, PassTypes DEF Retry, Phase
  <2>2. ASSUME SetJob(obj.spec.input, None) PROVE \A j \in Inputs : JobFits(j, jobs'[j])
    BY <2>1, <2>2, SetJobFits DEF JobFits, BuildsFit
  <2>3. QED
    BY <1>3, <2>1, <2>2, ReturnFits DEF BuildsFit
<1>14. CASE Resolve
  <2>1. /\ pc = "job" /\ jobs[obj.spec.input].phase = "succeeded" /\ jobs[obj.spec.input] # None
        /\ built' = jobs[obj.spec.input].digest /\ pc' = "name" /\ UNCHANGED <<status, jobs, obj>>
        /\ obj.spec.input \in Inputs
    BY <1>14, PassTypes DEF Resolve, Phase, CurrentJob, CachesCurrent
  <2>2. QED
    BY <2>1 DEF BuildsFit, JobFits
<1>15. CASE KeepExisting
  BY <1>8, <1>15 DEF KeepExisting
<1>16. CASE Accept
  BY <1>16 DEF Accept, BuildsFit
<1>17. CASE WriteTag
  BY <1>17, <1>4 DEF WriteTag
<1>18. CASE WriteOwnTag
  <2>1. pc = "tags" /\ UNCHANGED <<status, jobs>> /\ Return("Done", RecordSuccess) /\ obj.status \in Status
    BY <1>18, PassTypes DEF WriteOwnTag
  <2>2. RecordSuccess.digest = built /\ RecordSuccess.hash = obj.spec.input
    BY <2>1 DEF RecordSuccess, Status
  <2>3. QED
    BY <2>1, <2>2, ReturnFits DEF HashFits, BuildsFit
<1>19. CASE Patch
  BY <1>19, PatchSays DEF BuildsFit, HashFits, SameBuild
<1>20. CASE ApiError
  BY <1>20 DEF ApiError, EndPass, BuildsFit
<1>21. CASE Pass
  BY <1>1, <1>2, <1>5, <1>6, <1>7, <1>9, <1>10, <1>11, <1>12, <1>13, <1>14, <1>15, <1>16, <1>17,
     <1>18, <1>19, <1>20, <1>21 DEF Pass
<1>22. CASE Sync \/ SyncJobs
  BY <1>4, <1>22 DEF Sync, SyncJobs
<1>23. CASE Elapse
  BY <1>23, ElapseKeeps DEF BuildsFit, HashFits, SameBuild
<1>24. ASSUME NEW i \in Inputs, NEW job, SetJob(i, job), JobFits(i, job),
              UNCHANGED <<status, pc, obj, built>>, jobs[i] # None
       PROVE  BuildsFit'
  <2>1. /\ \A j \in Inputs : JobFits(j, jobs'[j])
        /\ jobs'[i] = job /\ \A j \in Inputs \ {i} : jobs'[j] = jobs[j]
    BY <1>24, SetJobFits DEF BuildsFit
  <2>2. pc = "start" => obj.spec.input \in Inputs /\ jobs'[obj.spec.input] = None
    BY <1>24, <2>1, PassTypes DEF BuildsFit
  <2>3. QED
    BY <1>24, <2>1, <2>2 DEF BuildsFit
<1>25. ASSUME NEW i \in Inputs, JobSucceeds(i) PROVE BuildsFit'
  <2>1. PICK d \in Manifests : /\ MadeFrom[d] = jobs[i].from
                               /\ SetJob(i, [jobs[i] EXCEPT !.phase = "succeeded", !.digest = d])
    BY <1>25 DEF JobSucceeds
  <2> DEFINE job == [jobs[i] EXCEPT !.phase = "succeeded", !.digest = d]
  <2>2. jobs[i] \in Job /\ jobs[i] # None /\ UNCHANGED <<status, pc, obj, built>>
    BY <1>25, <1>t DEF JobSucceeds, InPhase
  <2>3. job \in Job /\ job.from = jobs[i].from /\ job.digest = d
    BY <2>2 DEF Job
  <2>4. jobs[i].from = i
    BY <2>2 DEF BuildsFit, JobFits
  <2> HIDE DEF job
  <2>5. SetJob(i, job) /\ JobFits(i, job)
    BY <2>1, <2>3, <2>4 DEF JobFits, job
  <2>6. QED
    BY <1>24, <2>2, <2>5
<1>26. ASSUME NEW i \in Inputs, JobFails(i) PROVE BuildsFit'
  <2> DEFINE job == [jobs[i] EXCEPT !.phase = "failed"]
  <2>1. jobs[i] \in Job /\ jobs[i] # None /\ UNCHANGED <<status, pc, obj, built>> /\ SetJob(i, job)
    BY <1>26, <1>t DEF JobFails, InPhase
  <2>2. jobs[i].from = i
    BY <2>1 DEF BuildsFit, JobFits
  <2>3. job.phase = "failed" /\ job.from = i
    BY <2>1, <2>2 DEF Job
  <2> HIDE DEF job
  <2>4. JobFits(i, job)
    BY <2>3 DEF JobFits
  <2>5. QED
    BY <1>24, <2>1, <2>4
<1>27. ASSUME NEW i \in Inputs, JobExpires(i) PROVE BuildsFit'
  BY <1>24, <1>27 DEF JobExpires, JobFits
<1>28. CASE World
  BY <1>4, <1>26, <1>28 DEF World, EditSpec, MoveSource, Expire, Collect, ForeignPush, Restart, BuildsFit
<1>29. QED
  BY <1>21, <1>22, <1>23, <1>25, <1>27, <1>28 DEF Next, Time

LEMMA BuildInvHolds ==
  ASSUME ~CacheLag, "source-in-pass" \notin Disturbances, \A st \in InitStatuses : HashFits(st)
  PROVE  Spec => []BuildInv
<1>1. Init => BuildInv
  <2> SUFFICES ASSUME Init PROVE BuildInv
    OBVIOUS
  <2>1. /\ cache = [spec |-> spec, generation |-> generation, status |-> status]
        /\ jobs = [i \in Inputs |-> None] /\ jobCache = jobs /\ pc = "idle" /\ HashFits(status)
    BY DEF Init
  <2>2. \A i \in Inputs : JobFits(i, jobs[i])
    BY <2>1 DEF JobFits
  <2>3. QED
    BY <2>1, <2>2 DEF BuildInv, CachesCurrent, PassCurrent, BuildsFit
<1>2. TypeOK /\ BuildInv /\ [Next]_vars => BuildInv'
  <2>1. TypeOK /\ BuildInv /\ Next => BuildInv'
    BY CurrentKept, BuildsFitKept DEF BuildInv
  <2>2. BuildInv /\ UNCHANGED vars => BuildInv'
    BY DEF BuildInv, CachesCurrent, PassCurrent, BuildsFit, vars, registryVars, serverVars, jobVars,
       passVars
  <2>3. QED
    BY <2>1, <2>2
<1>3. QED
  BY <1>1, <1>2, TypeCorrect, PTL DEF Spec

(* status.inputHash is the build's identity, where the caches are current and no ConfigMap is edited
   under a running pass (which is what breaks it): however often the object is edited, mid-pass
   too, and Jobs fail, expire, or are shared between two edits, the image status names was built
   from the inputs it is recorded under. *)
THEOREM HashAlwaysNamesContent ==
  ASSUME ~CacheLag, "source-in-pass" \notin Disturbances, \A st \in InitStatuses : HashFits(st)
  PROVE  Spec => []HashNamesContent
<1>1. BuildInv => HashNamesContent
  BY DEF BuildInv, BuildsFit, HashFits, HashNamesContent
<1>2. QED
  BY <1>1, BuildInvHolds, PTL

-----------------------------------------------------------------------------
(***************************************************************************)
(* Ready.  What IsBuilt says of the registry must hold when the pass       *)
(* decides to say so, and until the patch that says it; and a status that  *)
(* says it of an older generation may not be taken for one of this.        *)
(***************************************************************************)

(* No step takes a name: tags may be moved, and only what has no name is collected. *)
NamesStay ==
  /\ \A t \in Tags : tag[t] # None => tag'[t] # None
  /\ named \cap present \subseteq named' \cap present'

LEMMA PushKeepsNames ==
  ASSUME RegistryTypeOK, NEW d \in Manifests
  PROVE  /\ \A t \in Tags : PushTag(d, t) => NamesStay
         /\ PushOwnTag(d) => NamesStay
         /\ PushDigest(d) => NamesStay
         /\ d \notin named /\ (\A t \in Tags : tag[t] # d) /\ LoseManifest(d) => NamesStay
BY NoneAssumption DEF NamesStay, PushTag, NamedWithout, PushOwnTag, PushDigest, LoseManifest, RegistryTypeOK

LEMMA NamesAreKept ==
  ASSUME TypeOK, NothingExpires, Next
  PROVE  NamesStay
<1>t. RegistryTypeOK
  BY DEF TypeOK
<1>1. ASSUME UNCHANGED registryVars PROVE NamesStay
  BY <1>1 DEF registryVars, NamesStay
<1>2. CASE Backfill
  BY <1>2 DEF Backfill, NamesStay
<1>3. CASE WriteTag
  <2>1. built \in Manifests /\ todo \in Seq(Tags) /\ todo # <<>> /\ PushTag(built, Head(todo))
    BY <1>3 DEF WriteTag, TypeOK
  <2>2. Head(todo) \in Tags
    BY <2>1
  <2>3. QED
    BY <1>t, <2>1, <2>2, PushKeepsNames
<1>4. CASE WriteOwnTag
  BY <1>t, <1>4, PushKeepsNames DEF WriteOwnTag, TypeOK
<1>5. CASE Pass
  BY <1>1, <1>2, <1>3, <1>4, <1>5 DEF Pass, Begin, Suspended, Pending, Check, Transient, Unchecked,
     Precheck, Start, StartUnanswered, Running, CountFailure, Retry, PodUnseen, Resolve,
     RefuseConflict, KeepExisting, Unserved, Accept, Patch, ApiError
<1>6. CASE Sync \/ SyncJobs \/ Elapse \/ \E i \in Inputs : JobExpires(i) \/ JobFails(i) \/ MoveSource(i)
  BY <1>1, <1>6 DEF Sync, SyncJobs, Elapse, JobExpires, JobFails, MoveSource
<1>7. ASSUME NEW i \in Inputs, JobSucceeds(i) PROVE NamesStay
  BY <1>t, <1>7, PushKeepsNames DEF JobSucceeds
<1>8. CASE (\E s \in Specs : EditSpec(s)) \/ Restart
  BY <1>1, <1>8 DEF EditSpec, Restart
<1>9. ASSUME NEW d \in Manifests, NEW t \in Tags, ForeignPush(d, t) PROVE NamesStay
  BY <1>t, <1>9, PushKeepsNames DEF ForeignPush
<1>10. ASSUME NEW d \in Manifests, Collect(d) PROVE NamesStay
  BY <1>t, <1>10, PushKeepsNames DEF Collect
<1>11. CASE Expire
  BY <1>11, NoExpiry
<1>12. QED
  BY <1>5, <1>6, <1>7, <1>8, <1>9, <1>10, <1>11 DEF Next, Time, World

(* What a status of these inputs means to a reader. *)
BuiltAs(st, s) ==
  /\ st.hash = s.input
  /\ HasDigestTag(st) => st.digest \in present \cap named
  /\ \A t \in TagsOf(s) : tag[t] # None

(* The world leaves the sources and what is named alone, and every HEAD is answered. *)
Answering == Disturbances \cap {"source", "source-in-pass", "expire", "expire-stalled", "head"} = {}

LeftToWrite ==
  pc = "tags" => \A t \in TagsOf(obj.spec) : tag[t] # None \/ \E i \in DOMAIN todo : todo[i] = t

DoneMeansBuilt ==
  pc = "patch" /\ outcome = "Done" /\ obj.status.buildRef = None /\ obj.status.conflict = None
    => BuiltAs(obj.status, obj.spec)

ReadyInv ==
  LeftToWrite /\ DoneMeansBuilt /\ status.ready.generation \leq generation /\ ReadyMeansBuilt

LEMMA TagsOfTags == ASSUME NEW s \in SpecType PROVE TagsOf(s) \subseteq Tags
<1>1. s.tags \in Seq(Tags)
  BY DEF SpecType
<1>2. QED
  BY <1>1, ElementOfSeq, LenProperties DEF TagsOf

LEMMA StaysBuilt ==
  ASSUME NamesStay, NEW st, NEW new, SameBuild(st, new), new.own = st.own,
         NEW s \in SpecType, BuiltAs(st, s)
  PROVE  BuiltAs(new, s)'
<1>1. TagsOf(s) \subseteq Tags
  BY TagsOfTags
<1>2. QED
  BY <1>1 DEF BuiltAs, SameBuild, HasDigestTag, NamesStay

(* One tag less to write, and whatever another writer makes of the others, they mean something. *)
LEMMA LeftToWriteKept ==
  ASSUME TypeOK, LeftToWrite, NamesStay, Next
  PROVE  LeftToWrite'
<1> SUFFICES ASSUME pc' = "tags", NEW t \in TagsOf(obj'.spec)
             PROVE  tag'[t] # None \/ \E i \in DOMAIN todo' : todo'[i] = t
  BY DEF LeftToWrite
<1> USE DEF passVars
<1>1. CASE Accept
  BY <1>1 DEF Accept, TagsOf
<1>2. CASE WriteTag
  <2>1. /\ pc = "tags" /\ todo # <<>> /\ todo \in Seq(Tags) /\ tag \in [Tags -> Manifests \cup {None}]
        /\ PushTag(built, Head(todo)) /\ todo' = Tail(todo) /\ obj' = obj
        /\ built \in Manifests /\ t \in Tags
    BY <1>2, PassTypes, TagsOfTags DEF WriteTag, TypeOK, RegistryTypeOK
  <2>2. CASE tag[t] # None \/ t = Head(todo)
    BY <2>1, <2>2, NoneAssumption DEF PushTag
  <2>3. CASE t # Head(todo) /\ \E i \in DOMAIN todo : todo[i] = t
    <3>1. PICK i \in DOMAIN todo : todo[i] = t
      BY <2>3
    <3>2. /\ Len(todo) \in Nat /\ DOMAIN todo = 1 .. Len(todo) /\ Head(todo) = todo[1]
          /\ Len(todo') = Len(todo) - 1 /\ todo' \in Seq(Tags)
          /\ \A j \in 1 .. Len(todo') : todo'[j] = todo[j + 1]
      BY <2>1, HeadTailProperties, LenProperties
    <3>3. i - 1 \in 1 .. Len(todo')
      BY <2>3, <3>1, <3>2
    <3>4. todo'[i - 1] = t /\ i - 1 \in DOMAIN todo'
      BY <3>1, <3>2, <3>3, LenProperties
    <3>5. QED
      BY <3>4
  <2>4. QED
    BY <2>1, <2>2, <2>3 DEF LeftToWrite
<1>3. CASE pc = "tags" /\ todo' = todo /\ obj'.spec = obj.spec
  <2>1. t \in Tags
    BY <1>3, PassTypes, TagsOfTags
  <2>2. QED
    BY <1>3, <2>1 DEF LeftToWrite, NamesStay
<1>4. CASE Pass
  BY <1>1, <1>2, <1>4 DEF Pass, Begin, Backfill, Suspended, Pending, Check, Transient, Unchecked,
     Precheck, Start, StartUnanswered, Running, CountFailure, Retry, PodUnseen, Resolve,
     RefuseConflict, KeepExisting, Unserved, WriteOwnTag, Patch, ApiError, Return, EndPass
<1>5. CASE Elapse
  BY <1>3, <1>5, ElapseKeeps
<1>6. CASE Sync \/ SyncJobs \/ \E i \in Inputs : JobSucceeds(i) \/ JobExpires(i)
  BY <1>3, <1>6 DEF Sync, SyncJobs, JobSucceeds, JobExpires
<1>7. CASE World
  BY <1>3, <1>7 DEF World, JobFails, EditSpec, MoveSource, ForeignPush, Collect, Expire, Restart
<1>8. QED
  BY <1>4, <1>5, <1>6, <1>7 DEF Next, Time

(* A pass that has nothing to do, or has named what was built, leaves its status true until it is
   patched. *)
LEMMA DoneMeansBuiltKept ==
  ASSUME Answering, TypeOK, BuildsFit, LeftToWrite, DoneMeansBuilt, NamesStay, Next
  PROVE  DoneMeansBuilt'
<1> SUFFICES ASSUME pc' = "patch", outcome' = "Done",
                    obj'.status.buildRef = None, obj'.status.conflict = None
             PROVE  BuiltAs(obj.status, obj.spec)'
  BY DEF DoneMeansBuilt
<1> USE DEF passVars, registryVars
<1>1. ASSUME NEW kind, NEW st, kind # "Done", pc # "idle", Return(kind, st) PROVE FALSE
  BY <1>1, ReturnKeeps
<1>2. CASE Check
  <2>1. PICK deaf : DisturbIf(deaf # {}, "head") /\ (IF Recorded /\ ~Lost(deaf)
                                                        THEN Return("Done", obj.status)
                                                        ELSE pc' = "job")
    BY <1>2 DEF Check
  <2>2. deaf = {}
    BY <2>1 DEF DisturbIf, Disturb, Answering
  <2>3. pc = "check" /\ Recorded /\ ~Lost({}) /\ Return("Done", obj.status) /\ UNCHANGED registryVars
    BY <1>2, <2>1, <2>2 DEF Check
  <2>4. obj'.spec = obj.spec /\ obj'.status = obj.status
    BY <2>3, ReturnKeeps
  <2>5. BuiltAs(obj.status, obj.spec)
    BY <2>3 DEF BuiltAs, Recorded, Lost
  <2>6. QED
    BY <2>3, <2>4, <2>5 DEF BuiltAs
<1>3. CASE Start \/ Running
  <2>1. /\ pc # "idle" /\ obj.status \in Status /\ obj.spec.input \in Inputs
        /\ \E st : Return("Done", st) /\ st.buildRef = obj.spec.input
    <3>1. pc # "idle" /\ obj.status \in Status /\ obj.spec.input \in Inputs
      BY <1>3, PassTypes DEF Start, Running, Phase
    <3>2. CASE Running
      BY <3>1, <3>2 DEF Running, Status
    <3>3. CASE Start
      <4>1. Return("Done", [obj.status EXCEPT !.buildRef = obj.spec.input,
                                              !.attempt = obj.spec.input,
                                              !.finished = "never"])
        BY <3>3 DEF Start, BuildsFit
      <4>2. [obj.status EXCEPT !.buildRef = obj.spec.input, !.attempt = obj.spec.input,
                               !.finished = "never"].buildRef = obj.spec.input
        BY <3>1 DEF Status
      <4>3. QED
        BY <3>1, <4>1, <4>2
    <3>4. QED
      BY <1>3, <3>1, <3>2, <3>3
  <2>2. obj'.status.buildRef = obj.spec.input
    BY <2>1, ReturnKeeps
  <2>3. QED
    BY <2>1, <2>2, AbsenceAssumption
<1>4. ASSUME NEW heads \in [Tags -> Manifests \cup {None}], NEW d, NEW dropped \in Manifests \cup {None},
             NEW i \in FirstInConflict(heads, d), pc # "idle", Return("Done", RecordKept(heads, i, dropped))
      PROVE  FALSE
  BY <1>4, KeptTypes, ReturnKeeps
<1>5. CASE Precheck
  <2>1. PICK deaf : LET ours == obj.status.digest IN
          \/ pc' = "start"
          \/ Return("Stalled", obj.status)
          \/ \E i \in FirstInConflict(Heads(deaf), ours) : Return("Done", RecordKept(Heads(deaf), i, None))
    BY <1>5 DEF Precheck
  <2>2. pc # "idle" /\ Heads(deaf) \in [Tags -> Manifests \cup {None}]
    BY <1>5, HeadsTypes DEF Precheck
  <2>3. QED
    BY <1>1, <1>4, <2>1, <2>2
<1>6. CASE KeepExisting
  <2>1. pc = "name" /\ seen \in [Tags -> Manifests \cup {None}] /\ built \in Manifests
    BY <1>6 DEF KeepExisting, TypeOK
  <2>2. QED
    BY <1>4, <1>6, <2>1 DEF KeepExisting
<1>7. CASE WriteOwnTag
  <2>1. pc = "tags" /\ todo = <<>> /\ PushOwnTag(built) /\ Return("Done", RecordSuccess) /\ obj.status \in Status
    BY <1>7, PassTypes DEF WriteOwnTag
  <2>2. obj'.spec = obj.spec /\ obj'.status = RecordSuccess
    BY <2>1, ReturnKeeps
  <2>3. RecordSuccess.digest = built /\ RecordSuccess.hash = obj.spec.input
    BY <2>1 DEF RecordSuccess, Status
  <2>4. \A t \in TagsOf(obj.spec) : tag'[t] # None
    BY <2>1 DEF LeftToWrite, PushOwnTag
  <2>5. built \in present' \cap named'
    BY <2>1 DEF PushOwnTag
  <2>6. QED
    BY <2>2, <2>3, <2>4, <2>5 DEF BuiltAs
<1>8. CASE Suspended \/ Pending \/ Transient \/ StartUnanswered \/ CountFailure \/ Retry \/ PodUnseen
           \/ RefuseConflict \/ Unserved
  BY <1>1, <1>8 DEF Suspended, Pending, Transient, StartUnanswered, CountFailure, Retry, PodUnseen,
     Phase, RefuseConflict, Unserved
<1>9. CASE Pass
  BY <1>2, <1>3, <1>5, <1>6, <1>7, <1>8, <1>9 DEF Pass, Begin, Backfill, Unchecked, Resolve, Accept,
     WriteTag, Patch, ApiError, EndPass
<1>10. ASSUME pc = "patch", outcome = "Done", obj'.spec = obj.spec, SameBuild(obj.status, obj'.status),
              obj'.status.own = obj.status.own
       PROVE  BuiltAs(obj.status, obj.spec)'
  <2>1. BuiltAs(obj.status, obj.spec) /\ obj.spec \in SpecType
    BY <1>10, PassTypes DEF DoneMeansBuilt, SameBuild
  <2>2. QED
    BY <1>10, <2>1, StaysBuilt DEF BuiltAs
<1>11. CASE Elapse
  BY <1>10, <1>11, ElapseKeeps
<1>12. ASSUME UNCHANGED <<pc, passVars>> PROVE BuiltAs(obj.status, obj.spec)'
  BY <1>10, <1>12 DEF SameBuild
<1>13. CASE Sync \/ SyncJobs \/ \E i \in Inputs : JobSucceeds(i) \/ JobExpires(i)
  BY <1>12, <1>13 DEF Sync, SyncJobs, JobSucceeds, JobExpires
<1>14. CASE World
  BY <1>12, <1>14 DEF World, JobFails, EditSpec, MoveSource, ForeignPush, Collect, Expire, Restart
<1>15. QED
  BY <1>9, <1>11, <1>13, <1>14 DEF Next, Time

LEMMA ReadyMeansBuiltKept ==
  ASSUME Answering, TypeOK, CachesCurrent, PassCurrent, BuildsFit, BuildsFit', ReadyInv, NamesStay, Next
  PROVE  status'.ready.generation \leq generation' /\ ReadyMeansBuilt'
<1> USE DEF passVars, serverVars
<1>t. status \in Status /\ spec \in SpecType /\ generation \in Nat /\ status.ready.generation \in Nat
  BY DEF TypeOK, Status, Condition
<1>1. ASSUME UNCHANGED <<spec, generation>>, SameBuild(status, status'), status'.own = status.own,
             status'.ready = status.ready
      PROVE  status'.ready.generation \leq generation' /\ ReadyMeansBuilt'
  <2>1. BuiltAs(status, spec) => BuiltAs(status, spec)'
    BY <1>1, <1>t, StaysBuilt DEF BuiltAs
  <2>2. ReadyMeansBuilt <=> (status.ready.kind = "Published" /\ status.ready.generation = generation
                               => BuiltAs(status, spec) /\ MadeFrom[status.digest] = spec.input)
    BY DEF ReadyMeansBuilt, IsBuilt, BuiltAs
  <2>3. ReadyMeansBuilt' <=> (status'.ready.kind = "Published" /\ status'.ready.generation = generation'
                               => BuiltAs(status, spec)' /\ MadeFrom[status'.digest] = spec'.input)
    BY <1>1 DEF ReadyMeansBuilt, IsBuilt, BuiltAs
  <2>4. QED
    BY <1>1, <2>1, <2>2, <2>3 DEF ReadyInv, SameBuild
<1>2. CASE UNCHANGED <<spec, generation, status>>
  BY <1>1, <1>2 DEF SameBuild
<1>3. CASE Patch
  <2>1. /\ pc = "patch" /\ SameBuild(obj.status, status') /\ status'.own = obj.status.own
        /\ status'.ready = Says(obj.status) /\ UNCHANGED <<tag, named, present, spec, generation>>
        /\ obj.status \in Status /\ obj.generation \in Nat /\ obj.generation \leq generation
        /\ obj.generation = generation => obj.spec = spec
    BY <1>3, PatchSays, PassTypes DEF registryVars, PassCurrent
  <2>2. status'.ready.generation = obj.generation
    BY <2>1 DEF Says
  <2>3. SUFFICES ASSUME status'.ready.kind = "Published", obj.generation = generation
                 PROVE  IsBuilt'
    BY <2>1, <2>2 DEF ReadyMeansBuilt
  <2>4. outcome = "Done" /\ obj.status.buildRef = None /\ obj.status.conflict = None
    BY <2>1, <2>3 DEF Says, TypeOK
  <2>5. BuiltAs(obj.status, spec)
    BY <2>1, <2>3, <2>4 DEF ReadyInv, DoneMeansBuilt
  <2>6. spec.input \in Inputs
    BY <1>t DEF SpecType
  <2>7. status'.hash # None /\ MadeFrom[status'.digest] = spec.input
    BY <2>1, <2>5, <2>6, AbsenceAssumption DEF BuiltAs, SameBuild, BuildsFit, HashFits
  <2>8. QED
    BY <2>1, <2>5, <2>7 DEF BuiltAs, SameBuild, IsBuilt, HasDigestTag, TagsOf
<1>4. CASE Pass
  BY <1>2, <1>3, <1>4 DEF Pass, Begin, Backfill, Suspended, Pending, Check, Transient, Unchecked,
     Precheck, Start, StartUnanswered, Running, CountFailure, Retry, PodUnseen, Resolve,
     RefuseConflict, KeepExisting, Unserved, Accept, WriteTag, WriteOwnTag, ApiError
<1>5. CASE Elapse
  BY <1>1, <1>5, ElapseKeeps
<1>6. CASE Sync \/ SyncJobs \/ \E i \in Inputs : JobSucceeds(i) \/ JobExpires(i)
  BY <1>2, <1>6 DEF Sync, SyncJobs, JobSucceeds, JobExpires
<1>7. ASSUME NEW s \in Specs, EditSpec(s)
      PROVE  status'.ready.generation \leq generation' /\ ReadyMeansBuilt'
  <2>1. generation' = generation + 1 /\ status' = status
    BY <1>7 DEF EditSpec
  <2>2. QED
    BY <1>t, <2>1 DEF ReadyInv, ReadyMeansBuilt
<1>8. CASE World
  BY <1>2, <1>7, <1>8 DEF World, JobFails, MoveSource, ForeignPush, Collect, Expire, Restart, Disturb,
     Answering
<1>9. QED
  BY <1>4, <1>5, <1>6, <1>8 DEF Next, Time

(* ADR 0061, for every set of inputs, tags, specs and Jobs: Ready, as of the generation it is
   stamped with, is about the image the spec asks for - built from its inputs, recorded, and named
   - however passes, edits under a running pass, crashes, lost answers, failed, expired and shared
   Jobs, collections and foreign tag moves overlap.  (Where the caches are current, the sources stay,
   nothing named expires and no HEAD fails: an unanswered one is no evidence of a loss, so the pass
   may say Ready of a name it did not see.) *)
THEOREM ReadyAlwaysBuilt ==
  ASSUME ~CacheLag, Answering,
         \A st \in InitStatuses : HashFits(st) /\ st.ready.generation < 2
  PROVE  Spec => []ReadyMeansBuilt
<1>1. Init => ReadyInv
  <2> SUFFICES ASSUME Init PROVE ReadyInv
    OBVIOUS
  <2>1. status \in Status /\ status.ready.generation < 2 /\ generation = 2 /\ pc = "idle"
    BY BuildInitAssumption DEF Init
  <2>2. status.ready.generation \in Nat
    BY <2>1 DEF Status, Condition
  <2>3. QED
    BY <2>1, <2>2 DEF ReadyInv, LeftToWrite, DoneMeansBuilt, ReadyMeansBuilt
<1>2. TypeOK /\ BuildInv /\ BuildInv' /\ ReadyInv /\ [Next]_vars => ReadyInv'
  <2>1. ASSUME TypeOK, BuildInv, BuildInv', ReadyInv, Next PROVE ReadyInv'
    <3>1. NamesStay
      <4>1. NothingExpires
        BY DEF Answering, NothingExpires
      <4>2. QED
        BY <2>1, <4>1, NamesAreKept
    <3>2. LeftToWrite' /\ DoneMeansBuilt'
      BY <2>1, <3>1, LeftToWriteKept, DoneMeansBuiltKept DEF BuildInv, ReadyInv
    <3>3. status'.ready.generation \leq generation' /\ ReadyMeansBuilt'
      BY <2>1, <3>1, ReadyMeansBuiltKept DEF BuildInv
    <3>4. QED
      BY <3>2, <3>3 DEF ReadyInv
  <2>2. ReadyInv /\ UNCHANGED vars => ReadyInv'
    BY DEF ReadyInv, LeftToWrite, DoneMeansBuilt, BuiltAs, ReadyMeansBuilt, IsBuilt, HasDigestTag, TagsOf,
       vars, registryVars, serverVars, passVars
  <2>3. QED
    BY <2>1, <2>2
<1>3. "source-in-pass" \notin Disturbances /\ \A st \in InitStatuses : HashFits(st)
  BY DEF Answering
<1>4. ReadyInv => ReadyMeansBuilt
  BY DEF ReadyInv
<1>5. Spec => []BuildInv
  BY <1>3, BuildInvHolds
<1>6. QED
  BY <1>1, <1>2, <1>4, <1>5, TypeCorrect, PTL DEF Spec

-----------------------------------------------------------------------------
(***************************************************************************)
(* Rebuilds.  Check goes on to the Job, for inputs that are recorded, only *)
(* if something is definitely lost; it is still lost when the Job starts,  *)
(* a few API calls later.  Another Job's push might have brought it back:  *)
(* it cannot, because a Job pushes builds of the inputs it is named after, *)
(* and the digest status names is a build of the recorded ones.            *)
(***************************************************************************)

Missing ==
  \/ obj.status.digest \notin present \cap named
  \/ \E t \in TagsOf(obj.spec) : tag[t] = None

LostInv ==
  pc \in {"job", "start"} /\ Recorded /\ jobs[obj.spec.input] = None => Missing

LEMMA LostInvKept ==
  ASSUME "foreign-in-pass" \notin Disturbances, TypeOK, BuildsFit, LostInv, Next
  PROVE  LostInv'
<1> SUFFICES ASSUME pc' \in {"job", "start"}, Recorded', jobs'[obj'.spec.input] = None
             PROVE  Missing'
  BY DEF LostInv
<1> USE DEF passVars, registryVars, jobVars
<1>t. jobs \in [Inputs -> Job \cup {None}]
  BY DEF TypeOK, Jobs
<1>1. CASE Check
  <2>1. pc = "check" /\ UNCHANGED <<registryVars, jobVars>>
        /\ \E deaf : (Recorded /\ ~Lost(deaf) /\ Return("Done", obj.status))
                     \/ (~(Recorded /\ ~Lost(deaf)) /\ UNCHANGED obj)
    BY <1>1 DEF Check
  <2>2. UNCHANGED obj /\ \E deaf : ~(Recorded /\ ~Lost(deaf))
    BY <2>1 DEF Return
  <2>3. QED
    BY <2>1, <2>2 DEF Recorded, Lost, Missing
<1>2. CASE Unchecked \/ Precheck
  <2>1. pc = "job" /\ CurrentJob = None /\ UNCHANGED <<registryVars, jobVars, obj>>
    BY <1>2 DEF Unchecked, Precheck, Return
  <2>2. QED
    BY <2>1 DEF LostInv, Recorded, Missing
<1>3. CASE Pass
  BY <1>1, <1>2, <1>3 DEF Pass, Begin, Backfill, Suspended, Pending, Transient, Start, StartUnanswered,
     Running, CountFailure, Retry, PodUnseen, Resolve, RefuseConflict, KeepExisting, Unserved, Accept,
     WriteTag, WriteOwnTag, Patch, ApiError, Return, EndPass
<1>4. ASSUME UNCHANGED <<registryVars, pc, jobs>>, obj'.spec = obj.spec, SameBuild(obj.status, obj'.status)
      PROVE  Missing'
  BY <1>4 DEF LostInv, Recorded, Missing, SameBuild
<1>5. CASE Sync \/ SyncJobs
  BY <1>4, <1>5 DEF Sync, SyncJobs, SameBuild
<1>6. CASE Elapse
  <2>1. pc # "idle"
    BY <1>6, ElapseKeeps
  <2>2. QED
    BY <1>4, <1>6, <2>1, ElapseKeeps
<1>7. ASSUME NEW i \in Inputs, JobSucceeds(i) PROVE Missing'
  <2>1. PICK d \in Manifests : /\ MadeFrom[d] = jobs[i].from /\ PushDigest(d)
                               /\ SetJob(i, [jobs[i] EXCEPT !.phase = "succeeded", !.digest = d])
    BY <1>7 DEF JobSucceeds
  <2>2. jobs[i] # None /\ UNCHANGED <<pc, obj>>
    BY <1>7 DEF JobSucceeds, InPhase
  <2>3. MadeFrom[d] = i
    BY <2>1, <2>2 DEF BuildsFit, JobFits
  <2>4. pc # "idle" /\ obj.spec.input \in Inputs /\ obj.status.hash = obj.spec.input /\ HashFits(obj.status)
    BY <2>2, PassTypes DEF BuildsFit, Recorded
  <2>5. MadeFrom[obj.status.digest] = obj.spec.input
    BY <2>4, AbsenceAssumption DEF HashFits
  <2>6. CASE i = obj.spec.input
    <3> DEFINE job == [jobs[i] EXCEPT !.phase = "succeeded", !.digest = d]
    <3>1. job \in Job
      BY <1>t, <2>2 DEF Job
    <3> HIDE DEF job
    <3>2. jobs'[i] = job
      BY <1>t, <2>1 DEF SetJob, job
    <3>3. QED
      BY <2>2, <2>6, <3>1, <3>2, JobAssumption
  <2>7. CASE i # obj.spec.input
    <3>1. d # obj.status.digest
      BY <2>3, <2>5, <2>7
    <3>2. jobs[obj.spec.input] = None
      BY <1>t, <2>1, <2>2, <2>4, <2>7 DEF SetJob
    <3>3. Missing
      BY <2>2, <3>2 DEF LostInv, Recorded
    <3>4. QED
      BY <2>1, <2>2, <3>1, <3>3 DEF Missing, PushDigest
  <2>8. QED
    BY <2>6, <2>7
<1>8. ASSUME NEW i \in Inputs, JobFails(i) PROVE Missing'
  <2> DEFINE job == [jobs[i] EXCEPT !.phase = "failed"]
  <2>1. /\ jobs[i] \in Job /\ jobs[i].phase = "running" /\ UNCHANGED <<registryVars, pc, obj>>
        /\ jobs' = [jobs EXCEPT ![i] = job]
    BY <1>t, <1>8 DEF JobFails, InPhase, SetJob
  <2>2. job \in Job
    BY <2>1 DEF Job
  <2> HIDE DEF job
  <2>3. pc # "idle" /\ obj.spec.input \in Inputs
    BY <2>1, PassTypes
  <2>4. i # obj.spec.input
    BY <1>t, <2>1, <2>2, JobAssumption
  <2>5. jobs[obj.spec.input] = None
    BY <1>t, <2>1, <2>3, <2>4
  <2>6. QED
    BY <2>1, <2>5 DEF LostInv, Recorded, Missing
<1>9. ASSUME UNCHANGED <<pc, obj, jobs>>, pc # "idle" => named' \subseteq named /\ present' \subseteq present,
             \A t \in Tags : tag'[t] \in {tag[t], None}
      PROVE  Missing'
  <2>1. TagsOf(obj.spec) \subseteq Tags
    BY <1>9, PassTypes, TagsOfTags
  <2>2. QED
    BY <1>9, <2>1 DEF LostInv, Recorded, Missing
<1>10. CASE Expire \/ \E d \in Manifests : Collect(d)
  <2>1. tag \in [Tags -> Manifests \cup {None}]
    BY DEF TypeOK, RegistryTypeOK
  <2>2. CASE \E d \in Manifests : LoseManifest(d)
    BY <1>9, <1>10, <2>2 DEF Expire, Collect, LoseManifest
  <2>3. CASE \E t \in Tags : ExpireTag(t)
    BY <1>9, <1>10, <2>1, <2>3 DEF Expire, Collect, ExpireTag
  <2>4. QED
    BY <1>10, <2>2, <2>3 DEF Expire, Collect
<1>11. ASSUME NEW d \in Manifests, NEW t \in Tags, ForeignPush(d, t) PROVE Missing'
  BY <1>11 DEF ForeignPush, Disturb
<1>12. CASE \E i \in Inputs : JobExpires(i)
  BY <1>12 DEF JobExpires
<1>13. CASE Restart \/ (\E s \in Specs : EditSpec(s)) \/ \E i \in Inputs : MoveSource(i)
  BY <1>4, <1>13 DEF Restart, EditSpec, MoveSource, SameBuild
<1>14. QED
  BY <1>3, <1>5, <1>6, <1>7, <1>8, <1>10, <1>11, <1>12, <1>13 DEF Next, Time, World

(* ADR 0051, for every policy, tag list and set of inputs and any number of Jobs, crashes, lost
   answers, failed requests and collections: a Job is started for inputs that status records only
   when the recorded digest, its own name or a tag of the spec is really gone at that moment.  (Where
   the caches are current, no source moves under a running pass, and nobody restores a lost tag
   while it runs.) *)
THEOREM OnlyLostIsRebuilt ==
  ASSUME ~CacheLag, Disturbances \cap {"source-in-pass", "foreign-in-pass"} = {},
         \A st \in InitStatuses : HashFits(st)
  PROVE  Spec => RebuildsOnlyLost
<1>1. Init => LostInv
  BY DEF Init, LostInv
<1>2. TypeOK /\ BuildInv /\ LostInv /\ [Next]_vars => LostInv'
  <2>1. TypeOK /\ BuildInv /\ LostInv /\ Next => LostInv'
    BY LostInvKept DEF BuildInv
  <2>2. LostInv /\ UNCHANGED vars => LostInv'
    BY DEF LostInv, Recorded, Missing, vars, registryVars, jobVars, passVars
  <2>3. QED
    BY <2>1, <2>2
<1>3. TypeOK /\ LostInv /\ [Next]_vars =>
        [\A i \in Inputs :
           Starts(i) /\ obj.status.digest # None /\ obj.status.hash = i
             => \/ obj.status.digest \notin present \cap named
                \/ \E t \in TagsOf(obj.spec) : tag[t] = None]_vars
  <2> SUFFICES ASSUME TypeOK, LostInv, Next, NEW i \in Inputs, Starts(i),
                      obj.status.digest # None, obj.status.hash = i
               PROVE  Missing
    BY DEF Missing
  <2> USE DEF Starts
  <2>1. CASE UNCHANGED jobs
    BY <2>1
  <2>2. ASSUME NEW j \in Inputs, NEW job, SetJob(j, job), job = None \/ jobs[j] # None PROVE FALSE
    <3>1. jobs \in [Inputs -> Job \cup {None}] /\ jobs' = [jobs EXCEPT ![j] = job]
      BY <2>2 DEF TypeOK, Jobs, SetJob
    <3>2. QED
      BY <2>2, <3>1
  <2>3. CASE Start \/ StartUnanswered
    <3>1. pc = "start" /\ obj.spec.input \in Inputs
      BY <2>3, PassTypes DEF Start, StartUnanswered
    <3>2. CASE UNCHANGED jobVars
      BY <2>1, <3>2 DEF jobVars
    <3>3. CASE \E job : SetJob(obj.spec.input, job)
      BY <3>1, <3>3 DEF SetJob, TypeOK, Jobs, LostInv, Recorded
    <3>4. QED
      BY <2>3, <3>2, <3>3 DEF Start, StartUnanswered
  <2>4. CASE Retry
    <3>1. obj.spec.input \in Inputs
      BY <2>4, PassTypes DEF Retry, Phase
    <3>2. QED
      BY <2>1, <2>2, <2>4, <3>1 DEF Retry, jobVars
  <2>5. CASE Pass
    BY <2>1, <2>3, <2>4, <2>5 DEF Pass, jobVars, Begin, Backfill, Suspended, Pending, Check, Transient,
       Unchecked, Precheck, Running, CountFailure, PodUnseen, Resolve, RefuseConflict, KeepExisting,
       Unserved, Accept, WriteTag, WriteOwnTag, Patch, ApiError
  <2>6. CASE Sync \/ SyncJobs \/ Time
    BY <2>1, <2>2, <2>6 DEF Sync, SyncJobs, Time, Elapse, JobSucceeds, JobExpires, InPhase, jobVars
  <2>7. CASE World
    BY <2>1, <2>2, <2>7 DEF World, JobFails, InPhase, EditSpec, MoveSource, ForeignPush, Collect, Expire,
       Restart, jobVars
  <2>8. QED
    BY <2>5, <2>6, <2>7 DEF Next
<1>4. Spec => []BuildInv
  BY BuildInvHolds
<1>5. QED
  BY <1>1, <1>2, <1>3, <1>4, TypeCorrect, PTL DEF Spec, RebuildsOnlyLost

-----------------------------------------------------------------------------
(***************************************************************************)
(* ImageBuild implements Publishing.                                       *)
(***************************************************************************)

LEMMA IntentTypes ==
  ASSUME TypeOK
  PROVE  /\ pc \in {"name", "tags"} => Intent \in Abstract!Pass /\ Intent # None
         /\ pc \notin {"name", "tags"} => Intent = None
<1>1. CASE pc \in {"name", "tags"}
  <2> DEFINE asked == obj.spec.tags
             force == obj.spec.policy = "Overwrite"
             view  == seen
             grant == IF pc = "tags" THEN built ELSE None
             left  == IF pc = "tags" THEN todo ELSE obj.spec.tags
  <2>1. Intent = [asked |-> asked, force |-> force, view |-> view, grant |-> grant, left |-> left]
    BY <1>1 DEF Intent
  <2>2. asked \in Seq(Tags) /\ force \in BOOLEAN
    BY <1>1, PassTypes DEF SpecType
  <2>3. view \in [Tags -> Manifests \cup {None}]
    BY <1>1 DEF TypeOK
  <2>4. grant \in Manifests \cup {None} /\ left \in Seq(Tags)
    BY <1>1, <2>2, PassTypes DEF TypeOK
  <2> HIDE DEF asked, force, view, grant, left
  <2>5. Intent \in [asked : Seq(Tags), force : BOOLEAN, view : [Tags -> Manifests \cup {None}],
                    grant : Manifests \cup {None}, left : Seq(Tags)]
    BY <2>1, <2>2, <2>3, <2>4
  <2>6. QED
    BY <1>1, <2>5, PassAssumption DEF Abstract!Pass
<1>2. CASE pc \notin {"name", "tags"}
  BY <1>2 DEF Intent
<1>3. QED
  BY <1>1, <1>2

(* Nothing served goes, and nothing is claimed that is not served. *)
LEMMA StepsAreHonest ==
  ASSUME NothingExpires, TypeOK, ServedInv, ServedInv', Next
  PROVE  Abstract!Honest
<1> USE DEF registryVars, serverVars, jobVars, passVars
<1>1. named \subseteq named'
  <2>1. CASE Pass
    BY <2>1 DEF Pass, Begin, Backfill, Suspended, Pending, Check, Transient, Unchecked, Precheck, Start,
       StartUnanswered, Running, CountFailure, Retry, PodUnseen, Resolve, RefuseConflict, KeepExisting,
       Unserved, Accept, WriteTag, WriteOwnTag, Patch, ApiError, PushTag, PushOwnTag
  <2>2. CASE Sync \/ SyncJobs \/ Time
    BY <2>2 DEF Sync, SyncJobs, Time, Elapse, JobSucceeds, JobExpires, PushDigest
  <2>3. CASE World
    BY <2>3, NoExpiry DEF World, JobFails, EditSpec, MoveSource, ForeignPush, PushTag, Collect, LoseManifest,
       Restart
  <2>4. QED
    BY <2>1, <2>2, <2>3 DEF Next
<1>2. QED
  BY <1>1 DEF ServedInv, Abstract!Honest

(* A step that moves no tag and shows the abstract pass no progress, or ends it. *)
LEMMA QuietStep ==
  ASSUME TypeOK, TypeOK', Abstract!Honest, UNCHANGED tag,
         \/ pc' \notin {"name", "tags"}
         \/ UNCHANGED <<pc, seen, built, todo>> /\ obj'.spec = obj.spec
  PROVE  Abstract!Record \/ Abstract!Finish
<1>1. CASE UNCHANGED <<pc, seen, built, todo>> /\ obj'.spec = obj.spec
  <2>1. Intent' = Intent
    BY <1>1 DEF Intent
  <2>2. QED
    BY <2>1 DEF Abstract!Record
<1>2. CASE pc' \notin {"name", "tags"}
  <2>1. Intent' = None
    BY <1>2 DEF Intent
  <2>2. QED
    BY <2>1 DEF Abstract!Record, Abstract!Finish
<1>3. QED
  BY <1>1, <1>2

LEMMA LookStep ==
  ASSUME TypeOK, TypeOK', Abstract!Honest, Resolve
  PROVE  Abstract!Look
<1> USE DEF registryVars
<1>1. Intent = None /\ Intent' \in Abstract!Pass
  <2>1. pc = "job" /\ pc' = "name" /\ obj' = obj /\ obj.spec.tags \in Seq(Tags)
    BY PassTypes DEF Resolve, Phase
  <2> DEFINE force == obj.spec.policy = "Overwrite"
  <2>2. seen' \in [Tags -> Manifests \cup {None}] /\ force \in BOOLEAN
    BY <2>1 DEF TypeOK
  <2>3. Intent' = [asked |-> obj.spec.tags, force |-> force, view |-> seen', grant |-> None,
                   left |-> obj.spec.tags]
    BY <2>1 DEF Intent
  <2> HIDE DEF force
  <2>4. Intent' \in Abstract!Pass
    BY <2>1, <2>2, <2>3 DEF Abstract!Pass
  <2>5. QED
    BY <2>1, <2>4 DEF Intent
<1>2. Intent'.grant = None /\ Intent'.left = Intent'.asked /\ Intent'.view = seen'
  BY DEF Intent, Resolve
<1>3. \A t \in Tags : seen'[t] \in {None, tag[t]}
  BY DEF Resolve, Heads
<1>4. tag' = tag
  BY DEF Resolve
<1>5. QED
  BY <1>1, <1>2, <1>3, <1>4 DEF Abstract!Look

LEMMA GrantStep ==
  ASSUME TypeOK, TypeOK', Abstract!Honest, Accept
  PROVE  built \in Manifests /\ Abstract!Grant(built)
<1> USE DEF registryVars, serverVars, jobVars
<1>1. /\ pc = "name" /\ pc' = "tags" /\ todo' = obj.spec.tags /\ tag' = tag
      /\ obj' = obj /\ seen' = seen /\ built' = built
  BY DEF Accept
<1>2. built \in Manifests /\ Intent # None
  BY <1>1, IntentTypes DEF TypeOK
<1>3. /\ Intent = [asked |-> obj.spec.tags, force |-> obj.spec.policy = "Overwrite", view |-> seen,
                   grant |-> None, left |-> obj.spec.tags]
      /\ Intent' = [asked |-> obj.spec.tags, force |-> obj.spec.policy = "Overwrite", view |-> seen,
                    grant |-> built, left |-> obj.spec.tags]
  BY <1>1 DEF Intent
<1>4. Intent.grant = None /\ Intent' = [Intent EXCEPT !.grant = built]
  <2> DEFINE tags == obj.spec.tags
             force == obj.spec.policy = "Overwrite"
             view == seen
  <2> HIDE DEF tags, force, view
  <2>1. /\ Intent = [asked |-> tags, force |-> force, view |-> view, grant |-> None, left |-> tags]
        /\ Intent' = [asked |-> tags, force |-> force, view |-> view, grant |-> built, left |-> tags]
    BY <1>3 DEF tags, force, view
  <2>2. QED
    BY <2>1
<1>5. Abstract!Free(Intent, built)
  <2>1. /\ Intent.asked = obj.spec.tags /\ Intent.view = seen
        /\ Intent.force = (obj.spec.policy = "Overwrite")
    BY <1>3
  <2>2. InConflict(seen, built) = {} => \A i \in DOMAIN obj.spec.tags : seen[obj.spec.tags[i]] \in {None, built}
    BY DEF InConflict, Conflicting
  <2>3. QED
    BY <2>1, <2>2 DEF Abstract!Free, Accept, Accepted
<1>6. QED
  BY <1>1, <1>2, <1>4, <1>5 DEF Abstract!Grant

LEMMA TagStep ==
  ASSUME TypeOK, TypeOK', Abstract!Honest, WriteTag
  PROVE  Abstract!Write
<1> USE DEF registryVars, serverVars, jobVars
<1>1. /\ pc = "tags" /\ pc' = "tags" /\ todo # <<>> /\ todo' = Tail(todo)
      /\ obj' = obj /\ seen' = seen /\ built' = built
      /\ tag' = [tag EXCEPT ![Head(todo)] = built]
  BY DEF WriteTag, PushTag
<1> DEFINE tags == obj.spec.tags
           force == obj.spec.policy = "Overwrite"
           view == seen
<1>2. /\ Intent = [asked |-> tags, force |-> force, view |-> view, grant |-> built, left |-> todo]
      /\ Intent' = [asked |-> tags, force |-> force, view |-> view, grant |-> built, left |-> todo']
  BY <1>1 DEF Intent
<1> HIDE DEF tags, force, view
<1>3. Intent # None /\ built # None
  BY <1>1, IntentTypes, NoneAssumption DEF TypeOK
<1>4. Intent.left = todo /\ Intent.grant = built
  BY <1>2
<1>5. Intent' = [Intent EXCEPT !.left = Tail(@)]
  <2>1. [Intent EXCEPT !.left = todo'] = [asked |-> tags, force |-> force, view |-> view, grant |-> built, left |-> todo']
    BY <1>2
  <2>2. QED
    BY <1>1, <1>2, <1>4, <2>1
<1>6. QED
  BY <1>1, <1>3, <1>4, <1>5 DEF Abstract!Write

LEMMA OtherStep ==
  ASSUME Abstract!Honest, NEW d \in Manifests, NEW t \in Tags, ForeignPush(d, t)
  PROVE  Abstract!Other(t, d)
<1>1. tag' = [tag EXCEPT ![t] = d]
  BY DEF ForeignPush, PushTag
<1>2. Intent' = Intent
  BY DEF ForeignPush, passVars, Intent
<1>3. QED
  BY <1>1, <1>2 DEF Abstract!Other

(* A build settles on a digest that a Job pushed some passes ago, and claims it only passes later;
   still, for every set of inputs, tags, specs, statuses and disturbances but expiry, each step is a
   step of Publishing or none at all: a pass moves only names it was asked for, to the digest it read
   from the Job and after looking at every one of them, and what status claims is served. *)
THEOREM ImplementsPublishing ==
  ASSUME NothingExpires,
         \A st \in InitStatuses, r \in InitRepositories :
           r.named \subseteq r.present /\ Claimed(st) \subseteq r.named
  PROVE  Spec => KeepsItsPromise
<1>1. Init => ServedInv
  BY DEF Init, ServedInv
<1>2. Init => Abstract!Init
  <2> SUFFICES ASSUME Init PROVE Abstract!Init
    OBVIOUS
  <2>1. TypeOK /\ ServedInv
    BY <1>1, InitTypes
  <2>2. Intent = None
    BY DEF Init, Intent
  <2>3. QED
    BY <2>1, <2>2 DEF Abstract!Init, TypeOK, RegistryTypeOK, ServedInv
<1>3. TypeOK /\ ServedInv /\ [Next]_vars => ServedInv'
  <2>1. TypeOK /\ ServedInv /\ Next => ServedInv'
    BY PassServes, WorldServes DEF Next
  <2>2. ServedInv /\ UNCHANGED vars => ServedInv'
    BY DEF vars, registryVars, serverVars, passVars, ServedInv
  <2>3. QED
    BY <2>1, <2>2
<1>4. TypeOK /\ TypeOK' /\ ServedInv /\ ServedInv' /\ [Next]_vars => [Abstract!Next]_(Abstract!publishingVars)
  <2> SUFFICES ASSUME TypeOK, TypeOK', ServedInv, ServedInv', [Next]_vars
               PROVE  [Abstract!Next]_(Abstract!publishingVars)
    OBVIOUS
  <2> USE DEF registryVars, serverVars, jobVars, passVars
  <2>1. CASE UNCHANGED vars
    BY <2>1 DEF vars, Abstract!publishingVars, Intent
  <2>2. Next => Abstract!Honest
    BY StepsAreHonest
  <2>3. ASSUME Next, tag' = tag, UNCHANGED <<pc, seen, built, todo>>, obj'.spec = obj.spec
        PROVE  Abstract!Next
    BY <2>2, <2>3, QuietStep DEF Abstract!Next
  <2>9. ASSUME Next, tag' = tag, pc' \notin {"name", "tags"}
        PROVE  Abstract!Next
    BY <2>2, <2>9, QuietStep DEF Abstract!Next
  <2>4. CASE Pass
    <3> Next
      BY <2>4 DEF Next
    <3>1. CASE Resolve
      BY <2>2, <3>1, LookStep DEF Abstract!Next
    <3>2. CASE Accept
      BY <2>2, <3>2, GrantStep DEF Abstract!Next
    <3>3. CASE WriteTag
      BY <2>2, <3>3, TagStep DEF Abstract!Next
    <3>4. CASE Begin \/ Backfill \/ Suspended \/ Pending \/ Check \/ Transient
      <4>1. tag' = tag
        BY <3>4 DEF Begin, Backfill, Suspended, Pending, Check, Transient
      <4>2. pc' \notin {"name", "tags"}
        BY <3>4 DEF Begin, Backfill, Suspended, Pending, Check, Transient, Return
      <4>3. QED
        BY <2>9, <4>1, <4>2
    <3>5. CASE Unchecked \/ Precheck \/ Start \/ StartUnanswered \/ Running \/ CountFailure
      <4>1. tag' = tag
        BY <3>5 DEF Unchecked, Precheck, Start, StartUnanswered, Running, CountFailure
      <4>2. pc' \notin {"name", "tags"}
        BY <3>5 DEF Unchecked, Precheck, Start, StartUnanswered, Running, CountFailure, Return
      <4>3. QED
        BY <2>9, <4>1, <4>2
    <3>6. CASE Retry \/ PodUnseen \/ RefuseConflict \/ KeepExisting \/ Unserved
      <4>1. tag' = tag
        BY <3>6 DEF Retry, PodUnseen, RefuseConflict, KeepExisting, Unserved
      <4>2. pc' \notin {"name", "tags"}
        BY <3>6 DEF Retry, PodUnseen, RefuseConflict, KeepExisting, Unserved, Return
      <4>3. QED
        BY <2>9, <4>1, <4>2
    <3>7. CASE WriteOwnTag \/ Patch \/ ApiError
      <4>1. tag' = tag
        BY <3>7 DEF WriteOwnTag, PushOwnTag, Patch, ApiError
      <4>2. pc' \notin {"name", "tags"}
        BY <3>7 DEF WriteOwnTag, Patch, ApiError, Return, EndPass
      <4>3. QED
        BY <2>9, <4>1, <4>2
    <3>8. QED
      BY <2>4, <3>1, <3>2, <3>3, <3>4, <3>5, <3>6, <3>7 DEF Pass
  <2>5. CASE Sync \/ SyncJobs \/ Time
    <3> Next
      BY <2>5 DEF Next
    <3>1. CASE Sync \/ SyncJobs \/ \E i \in Inputs : JobSucceeds(i) \/ JobExpires(i)
      BY <2>3, <3>1 DEF Sync, SyncJobs, JobSucceeds, JobExpires, PushDigest
    <3>2. CASE Elapse
      <4>1. pc # "idle" => obj'.spec = obj.spec
        BY <3>2, PassTypes DEF Elapse, Snapshot
      <4>2. CASE pc = "idle"
        BY <2>9, <3>2, <4>2 DEF Elapse
      <4>3. CASE pc # "idle"
        BY <2>3, <3>2, <4>1, <4>3 DEF Elapse
      <4>4. QED
        BY <4>2, <4>3
    <3>3. QED
      BY <2>5, <3>1, <3>2 DEF Time
  <2>6. CASE World
    <3> Next
      BY <2>6 DEF Next
    <3>1. ASSUME NEW d \in Manifests, NEW t \in Tags, ForeignPush(d, t) PROVE Abstract!Next
      BY <2>2, <3>1, OtherStep DEF Abstract!Next
    <3>2. ASSUME NEW i \in Inputs, JobFails(i) \/ MoveSource(i) PROVE Abstract!Next
      BY <2>3, <3>2 DEF JobFails, MoveSource
    <3>3. ASSUME NEW s \in Specs, EditSpec(s) PROVE Abstract!Next
      BY <2>3, <3>3 DEF EditSpec
    <3>4. ASSUME NEW d \in Manifests, Collect(d) PROVE Abstract!Next
      <4>1. tag' = tag
        BY <3>4 DEF Collect, LoseManifest, TypeOK, RegistryTypeOK
      <4>2. QED
        BY <2>3, <3>4, <4>1 DEF Collect
    <3>5. CASE Expire
      BY <3>5, NoExpiry
    <3>6. CASE Restart
      BY <2>9, <3>6 DEF Restart
    <3>7. CASE \E i \in Inputs : JobFails(i) \/ MoveSource(i)
      BY <3>2, <3>7
    <3>8. CASE \E s \in Specs : EditSpec(s)
      BY <3>3, <3>8
    <3>9. CASE (\E d \in Manifests, t \in Tags : ForeignPush(d, t)) \/ \E d \in Manifests : Collect(d)
      BY <3>1, <3>4, <3>9
    <3>10. QED
      BY <2>6, <3>5, <3>6, <3>7, <3>8, <3>9 DEF World
  <2>7. QED
    BY <2>1, <2>4, <2>5, <2>6 DEF Next
<1>5. QED
  BY <1>1, <1>2, <1>3, <1>4, TypeCorrect, PTL DEF Spec, KeepsItsPromise, Abstract!Spec

=============================================================================
