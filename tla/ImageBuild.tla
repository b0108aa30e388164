----------------------------- MODULE ImageBuild -----------------------------
(***************************************************************************)
(* The ImageBuild controller: one object, reconciled over and over against *)
(* the Job that builds it and the registry the Job pushes to               *)
(* (internal/buildcontroller/{imagebuild_controller,conflict}.go).         *)
(*                                                                         *)
(*   idle -> backfill -> check -> job -> start              -> patch       *)
(*                                   \-> name -> tags       -/             *)
(*                                                                         *)
(* The Job of an input is named after the input hash, so there is at most  *)
(* one per input; it outlives passes, edits and the controller, and pushes *)
(* a manifest no tag names.  The pass edits the object it read in memory   *)
(* and ends with one patch, which carries what differs from what it read.  *)
(* Object and Jobs are read from informer caches, which may lag            *)
(* (CacheLag).  Whatever else happens is a disturbance, as in Composition. *)
(***************************************************************************)
EXTENDS Reconciler

CONSTANTS
  MadeFrom,         \* the input a manifest is a build of, or None; builds are not reproducible
  Specs,            \* the specs a user may apply
  InitSpec,         \* the spec the object starts with
  InitStatuses,     \* the statuses it may start with
  InitRepositories, \* the [tag, named, present] the repository may start with
  CacheLag,         \* whether the informer caches may lag the API server
  Disturbances,     \* the kinds of disturbance that may happen
  MaxDisturbances   \* bound on how many do

ASSUME BuildAssumption ==
  /\ MadeFrom \in [Manifests -> Inputs \cup {None}]
  /\ Specs \subseteq SpecType
  /\ InitSpec \in SpecType
  /\ CacheLag \in BOOLEAN
  /\ MaxDisturbances \in Nat

(* A Job is named after the input hash.  What it builds is usually that input (Start). *)
Job ==
  [phase : {"running", "failed"}, from : Inputs, digest : {None}]
    \cup [phase : {"succeeded"}, from : Inputs, digest : Manifests]

ASSUME JobAssumption == None \notin Job

Jobs == [Inputs -> Job \cup {None}]

(***************************************************************************)
(* Status.  buildRef is the input of the Job it names.  attempt and        *)
(* finished are status.lastAttempt: its input, and whether it has a        *)
(* finishedAt that is younger than the failure backoff.                    *)
(***************************************************************************)
Status ==
  [digest : Manifests \cup {None},
   own : Manifests \cup {None},
   hash : Inputs \cup {None},
   history : Seq(Build),
   conflict : Conflict \cup {None},
   buildRef : Inputs \cup {None},
   failures : Nat,
   attempt : Inputs \cup {None},
   finished : {"never", "recent", "past"},
   ready : Condition,
   observed : Nat]

Snapshot == [spec : SpecType, generation : Nat, status : Status]

EmptyStatus ==
  [digest |-> None, own |-> None, hash |-> None, history |-> <<>>, conflict |-> None,
   buildRef |-> None, failures |-> 0, attempt |-> None, finished |-> "never",
   ready |-> [kind |-> "Unknown", digest |-> None, generation |-> 0],
   observed |-> 0]

ASSUME BuildInitAssumption ==
  /\ InitStatuses \subseteq Status
  /\ \A r \in InitRepositories :
       /\ r.tag \in [Tags -> Manifests \cup {None}]
       /\ r.named \subseteq Manifests
       /\ r.present \subseteq Manifests

VARIABLES
  spec,        \* the object at the API server ...
  generation,
  status,
  cache,       \* ... and as the informer cache last saw it
  jobs,        \* the Job of each input at the API server ...
  jobCache,    \* ... and as the informer cache last saw it
  polled,      \* the Jobs whose end a pass has read
  queued,      \* whether the workqueue holds the object, or a timer will add it
  pc,          \* where the pass is
  obj,         \* the object this pass read, with what it has changed in memory
  base,        \* its status as it was read, which the patch is computed against
  seen,        \* what the tags resolved to when the pass asked
  built,       \* the digest the pass is naming
  todo,        \* tags of the spec still to write
  outcome,     \* what reconcile returned
  disturbed    \* how many disturbances have happened

serverVars == <<spec, generation, status, cache>>
jobVars == <<jobs, jobCache, polled>>
passVars == <<obj, base, seen, built, todo, outcome>>
vars == <<registryVars, serverVars, jobVars, queued, pc, passVars, disturbed>>

-----------------------------------------------------------------------------
(***************************************************************************)
(* Shared steps.                                                           *)
(***************************************************************************)

Disturb(kind) ==
  /\ kind \in Disturbances
  /\ disturbed < MaxDisturbances
  /\ disturbed' = disturbed + 1

DisturbIf(happens, kind) ==
  IF happens THEN Disturb(kind) ELSE UNCHANGED disturbed

(* reconcile returns: what is left of the pass is its patch. *)
Return(kind, st) ==
  /\ obj' = [obj EXCEPT !.status = st]
  /\ outcome' = kind
  /\ pc' = "patch"
  /\ UNCHANGED base

EndPass(again) ==
  /\ pc' = "idle"
  /\ queued' = (queued \/ again)
  /\ obj' = None /\ base' = None /\ seen' = None /\ built' = None /\ outcome' = None
  /\ todo' = <<>>

(* currentJob: the Job of these inputs, as the informer has it. *)
CurrentJob == jobCache[obj.spec.input]

(* A Job changes, and its owner is queued when the informer delivers that. *)
SetJob(i, job) ==
  /\ jobs' = [jobs EXCEPT ![i] = job]
  /\ polled' = polled \ {i}
  /\ IF CacheLag THEN UNCHANGED <<jobCache, queued>>
                 ELSE jobCache' = jobs' /\ queued' = TRUE

(* What the tags asked for resolve to; a HEAD that fails reads as a tag that is not there. *)
Heads(deaf) == [t \in Tags |-> IF t \in TagsOf(obj.spec) \ deaf THEN tag[t] ELSE None]

(* Mutant: the tags are compared with the digest status records, also after the build. *)
InConflictRecorded(heads, d) == Conflicting([tag |-> heads], obj, obj.status.digest)

InConflict(heads, d) == Conflicting([tag |-> heads], obj, d)

FirstInConflict(heads, d) == {i \in InConflict(heads, d) : \A j \in InConflict(heads, d) : i <= j}

(* recordKept: the tag keeps what it holds, and nothing is in flight any more. *)
RecordKept(heads, i, dropped) ==
  [obj.status EXCEPT
     !.conflict = [tag |-> obj.spec.tags[i], existing |-> heads[obj.spec.tags[i]],
                   dropped |-> dropped],
     !.failures = 0,
     !.buildRef = None]

-----------------------------------------------------------------------------
(***************************************************************************)
(* The pass, up to the Job.                                                *)
(***************************************************************************)

(* Reconcile: a worker takes the object off the queue and reads it. *)
Begin ==
  /\ pc = "idle" /\ queued
  /\ queued' = FALSE
  /\ obj' = cache /\ base' = cache.status
  /\ pc' = IF Unnamed(cache.status) = {} THEN "check" ELSE "backfill"
  /\ UNCHANGED <<registryVars, serverVars, jobVars, seen, built, todo, outcome, disturbed>>

(* backfillDigestTags names what status says is published, and records it in memory: it rides on
   the patch this pass ends with. *)
Backfill ==
  /\ pc = "backfill"
  /\ \E unanswered \in SUBSET Unnamed(obj.status) :
       LET asked  == Unnamed(obj.status) \ unanswered
           tagged == asked \cap present
       IN /\ DisturbIf(unanswered # {}, "registry")
          /\ named' = named \cup tagged
          /\ obj' = [obj EXCEPT !.status = Mark(obj.status, tagged, asked \ present)]
  /\ pc' = "check"
  /\ UNCHANGED <<tag, present, serverVars, jobVars, queued, base, seen, built, todo, outcome>>

(* A suspended object: a Job in flight goes on, and nothing names what it pushes. *)
Suspended ==
  /\ pc = "check" /\ obj.spec.suspend
  /\ Return("Suspended", obj.status)
  /\ UNCHANGED <<registryVars, serverVars, jobVars, queued, seen, built, todo, disturbed>>

(* resolveInputs on a context, a Secret or a ConfigMap that is not there: PendingError. *)
Pending ==
  /\ pc = "check" /\ ~obj.spec.suspend
  /\ Disturb("source")
  /\ Return("Waiting", obj.status)
  /\ UNCHANGED <<registryVars, serverVars, jobVars, queued, seen, built, todo>>

Recorded == obj.status.digest # None /\ obj.status.hash = obj.spec.input

(* Mutant: a request that failed is taken for a loss. *)
LostUnheard(deaf) ==
  \/ obj.status.digest \notin present \/ "digest" \in deaf
  \/ HasDigestTag(obj.status) /\ obj.status.digest \notin named
  \/ \E t \in TagsOf(obj.spec) : tag[t] = None

(* stillPublished, denied: the digest, a tag of the spec or the claimed own tag is a definite 404.
   What a tag resolves to is not asked, and a request that fails is no evidence. *)
Lost(deaf) ==
  \/ obj.status.digest \notin present /\ "digest" \notin deaf
  \/ HasDigestTag(obj.status) /\ obj.status.digest \notin named /\ "own" \notin deaf
  \/ \E t \in TagsOf(obj.spec) \ deaf : tag[t] = None

(* The inputs are the recorded ones and nothing is lost: there is nothing to do. *)
Check ==
  /\ pc = "check" /\ ~obj.spec.suspend
  /\ \E deaf \in SUBSET (IF Recorded THEN TagsOf(obj.spec) \cup {"own", "digest"} ELSE {}) :
       /\ DisturbIf(deaf # {}, "head")
       /\ IF Recorded /\ ~Lost(deaf)
            THEN Return("Done", obj.status)
            ELSE pc' = "job" /\ UNCHANGED <<obj, base, outcome>>
  /\ UNCHANGED <<registryVars, serverVars, jobVars, queued, seen, built, todo>>

(* A request to the API server, a source or the registry failed: what the pass changed in memory is
   patched all the same, and it is retried with backoff. *)
Transient ==
  /\ pc \in {"check", "job", "start", "name", "tags"}
  /\ Disturb("registry")
  /\ Return("Failing", obj.status)
  /\ UNCHANGED <<registryVars, serverVars, jobVars, queued, seen, built, todo>>

-----------------------------------------------------------------------------
(***************************************************************************)
(* Starting and observing the Job.                                         *)
(***************************************************************************)

(* checkTagConflict, where there is nothing to ask. *)
Unchecked ==
  /\ pc = "job" /\ CurrentJob = None
  /\ obj.spec.policy = "Overwrite" \/ obj.spec.tags = <<>>
  /\ pc' = "start"
  /\ UNCHANGED <<registryVars, serverVars, jobVars, queued, passVars, disturbed>>

(* checkTagConflict: the digest status records stands in for the one there is not yet, so a tag that
   holds the object's own previous build is no conflict. *)
Precheck ==
  /\ pc = "job" /\ CurrentJob = None
  /\ obj.spec.policy # "Overwrite" /\ obj.spec.tags # <<>>
  /\ \E deaf \in SUBSET TagsOf(obj.spec) :
       /\ DisturbIf(deaf # {}, "head")
       /\ LET ours == obj.status.digest
          IN \/ /\ InConflict(Heads(deaf), ours) = {}
                /\ pc' = "start"
                /\ UNCHANGED <<obj, base, outcome>>
             \/ /\ InConflict(Heads(deaf), ours) # {} /\ obj.spec.policy = "Fail"
                /\ Return("Stalled", obj.status)
             \/ /\ obj.spec.policy = "Keep"
                /\ \E i \in FirstInConflict(Heads(deaf), ours) :
                     Return("Done", RecordKept(Heads(deaf), i, None))
  /\ UNCHANGED <<registryVars, serverVars, jobVars, queued, seen, built, todo>>

(* What startBuild gives the Job to build: a Dockerfile in a ConfigMap is read once more, and may
   have been edited since its hash was taken. *)
ToBuild == {obj.spec.input} \cup (IF cache.generation = obj.generation THEN {cache.spec.input} ELSE {})

(* startBuild creates the Job and records it; a Job the informer had not delivered yet is left
   alone, and not recorded. *)
Start ==
  /\ pc = "start"
  /\ IF jobs[obj.spec.input] = None
       THEN /\ \E i \in ToBuild :
                 SetJob(obj.spec.input, [phase |-> "running", from |-> i, digest |-> None])
            /\ Return("Done", [obj.status EXCEPT !.buildRef = obj.spec.input,
                                                 !.attempt = obj.spec.input,
                                                 !.finished = "never"])
       ELSE /\ Return("Done", obj.status)
            /\ UNCHANGED <<jobVars, queued>>
  /\ UNCHANGED <<registryVars, serverVars, seen, built, todo, disturbed>>

(* The Job is created, and the answer lost. *)
StartUnanswered ==
  /\ pc = "start" /\ jobs[obj.spec.input] = None
  /\ Disturb("api")
  /\ \E i \in ToBuild :
       SetJob(obj.spec.input, [phase |-> "running", from |-> i, digest |-> None])
  /\ Return("Failing", obj.status)
  /\ UNCHANGED <<registryVars, serverVars, seen, built, todo>>

Phase(p) == pc = "job" /\ CurrentJob # None /\ CurrentJob.phase = p

(* A running Job is in flight, whoever started it. *)
Running ==
  /\ Phase("running")
  /\ Return("Done", [obj.status EXCEPT !.buildRef = obj.spec.input])
  /\ UNCHANGED <<registryVars, serverVars, jobVars, queued, seen, built, todo, disturbed>>

(* The first look at a failed Job counts it ... *)
CountFailure ==
  /\ Phase("failed") /\ obj.status.buildRef # None
  /\ Return("Failing", [obj.status EXCEPT
                          !.buildRef = None,
                          !.failures = @ + 1,
                          !.finished = IF obj.status.attempt = None THEN @ ELSE "recent"])
  /\ polled' = polled \cup {obj.spec.input}
  /\ UNCHANGED <<registryVars, serverVars, jobs, jobCache, queued, seen, built, todo, disturbed>>

(* Mutant: a failed Job is retried as soon as it is seen. *)
RetryAtOnce == TRUE

(* retryDue: there is no recorded end of the attempt, or the backoff since has elapsed. *)
RetryDue == obj.status.finished # "recent"

(* ... and later ones keep it until the backoff has elapsed, then delete it: its deletion is what
   brings the pass that starts the next. *)
Retry ==
  /\ Phase("failed") /\ obj.status.buildRef = None
  /\ IF RetryDue /\ jobs[obj.spec.input] # None
       THEN SetJob(obj.spec.input, None)
       ELSE UNCHANGED <<jobVars, queued>>
  /\ Return("Failing", obj.status)
  /\ UNCHANGED <<registryVars, serverVars, seen, built, todo, disturbed>>

(* readResultDigest on a succeeded Job whose pod has not been observed yet, or is gone. *)
PodUnseen ==
  /\ Phase("succeeded")
  /\ Disturb("pod")
  /\ polled' = polled \cup {obj.spec.input}
  /\ Return("Waiting", obj.status)
  /\ UNCHANGED <<registryVars, serverVars, jobs, jobCache, queued, seen, built, todo>>

-----------------------------------------------------------------------------
(***************************************************************************)
(* Naming what the Job pushed: applyTags.                                  *)
(***************************************************************************)

(* ResolvePublished, with the digest the Job reported in hand. *)
Resolve ==
  /\ Phase("succeeded")
  /\ \E deaf \in SUBSET TagsOf(obj.spec) :
       /\ DisturbIf(deaf # {}, "head")
       /\ seen' = Heads(deaf)
  /\ built' = CurrentJob.digest
  /\ polled' = polled \cup {obj.spec.input}
  /\ pc' = "name"
  /\ UNCHANGED <<registryVars, serverVars, jobs, jobCache, queued, obj, base, todo, outcome>>

(* onConflict: Fail refuses, and leaves the manifest without any name. *)
RefuseConflict ==
  /\ pc = "name" /\ InConflict(seen, built) # {} /\ obj.spec.policy = "Fail"
  /\ Return("Stalled", obj.status)
  /\ UNCHANGED <<registryVars, serverVars, jobVars, queued, seen, built, todo, disturbed>>

(* onConflict: Keep drops what was built. *)
KeepExisting ==
  /\ pc = "name" /\ obj.spec.policy = "Keep"
  /\ \E i \in FirstInConflict(seen, built) : Return("Done", RecordKept(seen, i, built))
  /\ UNCHANGED <<registryVars, serverVars, jobVars, queued, seen, built, todo, disturbed>>

(* Mutant: the policy is asked about the digest status records, as before the build. *)
AcceptedBefore == InConflict(seen, obj.status.digest) = {} \/ obj.spec.policy = "Overwrite"

Accepted == InConflict(seen, built) = {} \/ obj.spec.policy = "Overwrite"

(* The manifest is read back first: until it is named, a collector may have taken it. *)
Unserved ==
  /\ pc = "name" /\ Accepted /\ built \notin present
  /\ Return("Waiting", obj.status)
  /\ UNCHANGED <<registryVars, serverVars, jobVars, queued, seen, built, todo, disturbed>>

Accept ==
  /\ pc = "name" /\ Accepted /\ built \in present
  /\ pc' = "tags"
  /\ todo' = obj.spec.tags
  /\ UNCHANGED <<registryVars, serverVars, jobVars, queued, obj, base, seen, built, outcome, disturbed>>

(* PublishTags, one write per tag of the spec ... *)
WriteTag ==
  /\ pc = "tags" /\ todo # <<>>
  /\ PushTag(built, Head(todo))
  /\ todo' = Tail(todo)
  /\ UNCHANGED <<serverVars, jobVars, queued, pc, obj, base, seen, built, outcome, disturbed>>

(* recordSuccess. *)
RecordSuccess ==
  [obj.status EXCEPT
     !.digest = built, !.own = built, !.hash = obj.spec.input,
     !.history = RecordHistory(@, [digest |-> built, own |-> TRUE, lost |-> FALSE]),
     !.conflict = None,
     !.buildRef = None,
     !.failures = 0,
     !.finished = IF obj.status.attempt = None THEN @ ELSE "recent"]

(* Mutant: the build is published under the tags of the spec alone. *)
WriteOwnTagSkipped ==
  /\ pc = "tags" /\ todo = <<>>
  /\ Return("Done", RecordSuccess)
  /\ UNCHANGED <<registryVars, serverVars, jobVars, queued, seen, built, todo, disturbed>>

(* ... and the digest's own tag last; then the build is recorded. *)
WriteOwnTag ==
  /\ pc = "tags" /\ todo = <<>>
  /\ PushOwnTag(built)
  /\ Return("Done", RecordSuccess)
  /\ UNCHANGED <<serverVars, jobVars, queued, seen, built, todo, disturbed>>

-----------------------------------------------------------------------------
(***************************************************************************)
(* The end of the pass: applyOutcome and the status patch.                 *)
(***************************************************************************)

MergePatch(server, old, new) ==
  [digest   |-> Merge(server.digest, old.digest, new.digest),
   own      |-> Merge(server.own, old.own, new.own),
   hash     |-> Merge(server.hash, old.hash, new.hash),
   history  |-> Merge(server.history, old.history, new.history),
   conflict |-> Merge(server.conflict, old.conflict, new.conflict),
   buildRef |-> Merge(server.buildRef, old.buildRef, new.buildRef),
   failures |-> Merge(server.failures, old.failures, new.failures),
   attempt  |-> Merge(server.attempt, old.attempt, new.attempt),
   finished |-> Merge(server.finished, old.finished, new.finished),
   ready    |-> Merge(server.ready, old.ready, new.ready),
   observed |-> Merge(server.observed, old.observed, new.observed)]

(* applyOutcome, with readyMessage: a Job in flight before anything else, then a kept tag. *)
Says(st) ==
  LET says(kind, d) == [kind |-> kind, digest |-> d, generation |-> obj.generation]
  IN IF outcome # "Done" THEN says(outcome, None)
     ELSE IF st.buildRef # None THEN says("Progressing", st.digest)
     ELSE IF st.conflict # None THEN says("Kept", st.conflict.existing)
     ELSE says("Published", st.digest)

(* Mutant: the generation is stamped as the API server has it by now. *)
PatchLatest ==
  /\ pc = "patch"
  /\ LET new == [obj.status EXCEPT !.ready = [Says(obj.status) EXCEPT !.generation = generation],
                                   !.observed = generation]
     IN status' = MergePatch(status, base, new)
  /\ cache' = IF CacheLag THEN cache ELSE [cache EXCEPT !.status = status']
  /\ EndPass(outcome \notin {"Stalled", "Suspended"} \/ (~CacheLag /\ status' # status))
  /\ UNCHANGED <<registryVars, spec, generation, jobVars, disturbed>>

(* One merge patch carries everything the pass changed, computed against the object as it was read
   and stamped with its generation.  There is no predicate on the object's own events, so a patch
   that changes it queues it again; a stalled or suspended one is not requeued otherwise. *)
Patch ==
  /\ pc = "patch"
  /\ LET new == [obj.status EXCEPT !.ready = Says(obj.status), !.observed = obj.generation]
     IN status' = MergePatch(status, base, new)
  /\ cache' = IF CacheLag THEN cache ELSE [cache EXCEPT !.status = status']
  /\ EndPass(outcome \notin {"Stalled", "Suspended"} \/ (~CacheLag /\ status' # status))
  /\ UNCHANGED <<registryVars, spec, generation, jobVars, disturbed>>

(* The patch fails: whatever the pass did, it recorded nothing. *)
ApiError ==
  /\ pc = "patch"
  /\ Disturb("api")
  /\ EndPass(TRUE)
  /\ UNCHANGED <<registryVars, serverVars, jobVars>>

Pass ==
  \/ Begin \/ Backfill \/ Suspended \/ Pending \/ Check \/ Transient
  \/ Unchecked \/ Precheck \/ Start \/ StartUnanswered \/ Running \/ CountFailure \/ Retry
  \/ PodUnseen \/ Resolve \/ RefuseConflict \/ KeepExisting \/ Unserved \/ Accept
  \/ WriteTag \/ WriteOwnTag \/ Patch \/ ApiError

-----------------------------------------------------------------------------
(***************************************************************************)
(* The informers, the Jobs and the rest of the world.                      *)
(***************************************************************************)

(* The informers catch up; every event queues the object. *)
Sync ==
  /\ cache # [spec |-> spec, generation |-> generation, status |-> status]
  /\ cache' = [spec |-> spec, generation |-> generation, status |-> status]
  /\ queued' = TRUE
  /\ UNCHANGED <<registryVars, spec, generation, status, jobVars, pc, passVars, disturbed>>

SyncJobs ==
  /\ jobCache # jobs
  /\ jobCache' = jobs
  /\ queued' = TRUE
  /\ UNCHANGED <<registryVars, serverVars, jobs, polled, pc, passVars, disturbed>>

InPhase(i, p) == jobs[i] # None /\ jobs[i].phase = p

(* BuildKit pushes by digest, with no name at all, and the Job ends. *)
JobSucceeds(i) ==
  /\ InPhase(i, "running")
  /\ \E d \in Manifests :
       /\ MadeFrom[d] = jobs[i].from
       /\ PushDigest(d)
       /\ SetJob(i, [jobs[i] EXCEPT !.phase = "succeeded", !.digest = d])
  /\ UNCHANGED <<serverVars, pc, passVars, disturbed>>

JobFails(i) ==
  /\ InPhase(i, "running")
  /\ Disturb("build")
  /\ SetJob(i, [jobs[i] EXCEPT !.phase = "failed"])
  /\ UNCHANGED <<registryVars, serverVars, pc, passVars>>

(* The hour a finished Job lasts is longer than the longest backoff, than any pass and than any lag
   of a cache, and long enough for a pass to have read how it ended, unless the object is suspended
   or asks for other inputs by now. *)
Unread(i) == i \notin polled /\ spec.input = i /\ ~spec.suspend

(* Its image has one of its tags and is not recorded yet: a pass was cut off in between, and the next
   one needs the Job to know the image for its own. *)
HalfNamed(i) ==
  /\ InPhase(i, "succeeded") /\ \E t \in Tags : tag[t] = jobs[i].digest
  /\ jobs[i].digest # status.digest
  /\ \A k \in DOMAIN status.history : status.history[k].digest # jobs[i].digest

(* ttlSecondsAfterFinished. *)
JobExpires(i) ==
  /\ jobs[i] # None /\ jobs[i].phase # "running"
  /\ pc = "idle" /\ jobCache[i] = jobs[i] /\ cache.spec = spec
  /\ InPhase(i, "failed") => status.finished # "recent"
  /\ DisturbIf(Unread(i) \/ HalfNamed(i), IF HalfNamed(i) THEN "ttl-half-named" ELSE "ttl")
  /\ SetJob(i, None)
  /\ UNCHANGED <<registryVars, serverVars, pc, passVars>>

Aged(st) == [st EXCEPT !.finished = IF @ = "recent" THEN "past" ELSE @]

(* The failure backoff elapses, for every copy of the status at once. *)
Elapse ==
  /\ status.finished = "recent"
  /\ status' = Aged(status)
  /\ cache' = [cache EXCEPT !.status = Aged(@)]
  /\ IF pc = "idle"
       THEN UNCHANGED <<obj, base>>
       ELSE obj' = [obj EXCEPT !.status = Aged(@)] /\ base' = Aged(base)
  /\ UNCHANGED <<registryVars, spec, generation, jobVars, queued, pc, seen, built, todo, outcome,
                 disturbed>>

(* A user applies another spec, between two passes or during one. *)
EditSpec(s) ==
  /\ s # spec
  /\ Disturb(IF pc = "idle" THEN "edit" ELSE "edit-in-pass")
  /\ spec' = s
  /\ generation' = generation + 1
  /\ IF CacheLag
       THEN UNCHANGED <<cache, queued>>
       ELSE cache' = [cache EXCEPT !.spec = s, !.generation = generation'] /\ queued' = TRUE
  /\ UNCHANGED <<registryVars, status, jobVars, pc, passVars>>

(* A ConfigMap, a Secret or a Flux source changes; only a ConfigMap is watched. *)
MoveSource(i) ==
  /\ i # spec.input
  /\ Disturb(IF pc = "idle" THEN "source" ELSE "source-in-pass")
  /\ spec' = [spec EXCEPT !.input = i]
  /\ IF CacheLag
       THEN UNCHANGED <<cache, queued>>
       ELSE cache' = [cache EXCEPT !.spec = spec'] /\ queued' \in {queued, TRUE}
  /\ UNCHANGED <<registryVars, generation, status, jobVars, pc, passVars>>

(* Another writer of the repository moves a tag of the spec. *)
ForeignPush(d, t) ==
  /\ tag[t] # d
  /\ Disturb(IF pc = "idle" THEN "foreign" ELSE "foreign-in-pass")
  /\ PushTag(d, t)
  /\ UNCHANGED <<serverVars, jobVars, queued, pc, passVars>>

(* The registry's collector reclaims a manifest that no tag names. *)
Collect(d) ==
  /\ d \notin named /\ \A t \in Tags : tag[t] # d
  /\ Disturb("collect")
  /\ LoseManifest(d)
  /\ UNCHANGED <<serverVars, jobVars, queued, pc, passVars>>

(* A pass has found a tag taken before there was a Job, or is about to say so: nothing that expires
   wakes the object then. *)
Stalling == "Stalled" \in {status.ready.kind, outcome} /\ jobs[spec.input] = None

Expire ==
  /\ Disturb(IF Stalling THEN "expire-stalled" ELSE "expire")
  /\ (\E t \in Tags : ExpireTag(t)) \/ (\E d \in Manifests : LoseManifest(d))
  /\ UNCHANGED <<serverVars, jobVars, queued, pc, passVars>>

(* The controller dies mid-pass; the new one lists objects and Jobs, and queues every object. *)
Restart ==
  /\ pc # "idle"
  /\ Disturb("restart")
  /\ pc' = "idle" /\ queued' = TRUE
  /\ obj' = None /\ base' = None /\ seen' = None /\ built' = None /\ outcome' = None
  /\ todo' = <<>>
  /\ cache' = [spec |-> spec, generation |-> generation, status |-> status]
  /\ jobCache' = jobs
  /\ UNCHANGED <<registryVars, spec, generation, status, jobs, polled>>

World ==
  \/ \E i \in Inputs : JobFails(i) \/ MoveSource(i)
  \/ \E s \in Specs : EditSpec(s)
  \/ \E d \in Manifests, t \in Tags : ForeignPush(d, t)
  \/ \E d \in Manifests : Collect(d)
  \/ Expire \/ Restart

Time == Elapse \/ \E i \in Inputs : JobSucceeds(i) \/ JobExpires(i)

-----------------------------------------------------------------------------

Init ==
  /\ \E r \in InitRepositories : tag = r.tag /\ named = r.named /\ present = r.present
  /\ spec = InitSpec
  /\ generation = 2   \* a status from before generation 2 may be there already
  /\ status \in InitStatuses
  /\ cache = [spec |-> spec, generation |-> generation, status |-> status]
  /\ jobs = [i \in Inputs |-> None] /\ jobCache = jobs /\ polled = {}
  /\ queued = TRUE
  /\ pc = "idle"
  /\ obj = None /\ base = None /\ seen = None /\ built = None /\ todo = <<>> /\ outcome = None
  /\ disturbed = 0

Next == Pass \/ Sync \/ SyncJobs \/ Time \/ World

(* A queued object reaches a worker, every request returns, informers deliver, and time passes: a
   running Job ends (activeDeadlineSeconds), a backoff elapses, and the hour of a finished Job runs
   out, however many passes look at it in between. *)
Fairness ==
  /\ WF_vars(Pass) /\ WF_vars(Sync) /\ WF_vars(SyncJobs)
  /\ WF_vars(Elapse)
  /\ \A i \in Inputs : WF_vars(JobSucceeds(i)) /\ SF_vars(JobExpires(i))

Spec == Init /\ [][Next]_vars /\ Fairness

-----------------------------------------------------------------------------
(***************************************************************************)
(* Properties.                                                             *)
(***************************************************************************)

(* Every variable holds a value of its kind; the pass's own state exists exactly while it runs. *)
TypeOK ==
  /\ RegistryTypeOK
  /\ spec \in SpecType /\ generation \in Nat /\ status \in Status /\ cache \in Snapshot
  /\ jobs \in Jobs /\ jobCache \in Jobs /\ polled \subseteq Inputs
  /\ queued \in BOOLEAN
  /\ pc \in {"idle", "backfill", "check", "job", "start", "name", "tags", "patch"}
  /\ obj \in (IF pc = "idle" THEN {None} ELSE Snapshot)
  /\ base \in (IF pc = "idle" THEN {None} ELSE Status)
  /\ seen \in [Tags -> Manifests \cup {None}] \cup {None}
  /\ built \in Manifests \cup {None}
  /\ pc \in {"name", "tags"} => seen \in [Tags -> Manifests \cup {None}] /\ built \in Manifests
  /\ todo \in Seq(Tags)
  /\ outcome \in (IF pc = "patch" THEN {"Done", "Failing", "Waiting", "Stalled", "Suspended"}
                                  ELSE {None})
  /\ disturbed \in Nat

(* ADR 0060: what status says carries its own tag does, and the registry serves it, though the Job
   pushes without any name and a collector takes what has none.  (Where nothing named expires.) *)
ClaimedIsServed == Claimed(status) \subseteq (named \cap present)

(* A tag moved by this object's own pass, and not by another writer. *)
Moves(t) == tag[t] # None /\ tag'[t] # tag[t] /\ passVars' # passVars

(* ADR 0054: onConflict is enforced against what was really built, before the first of several tags
   is written, and not against the digest an earlier build left in status. *)
OnlyOverwriteMoves ==
  [][\A t \in Tags : Moves(t) =>
       \/ obj.spec.policy = "Overwrite"
       \/ \A u \in TagsOf(obj.spec) : seen[u] \in {None, built}]_vars

(* What the running pass was asked to write, what it saw, and what it is left to write. *)
Intent ==
  IF pc \in {"name", "tags"}
    THEN [asked |-> obj.spec.tags, force |-> obj.spec.policy = "Overwrite", view |-> seen,
          grant |-> IF pc = "tags" THEN built ELSE None,
          left  |-> IF pc = "tags" THEN todo ELSE obj.spec.tags]
    ELSE None

(* ImageBuild implements Publishing too, though its pass settles on a digest that a Job pushed some
   passes ago and that is only claimed passes later.  (Where nothing named expires.) *)
Abstract == INSTANCE Publishing WITH
  Digests <- Manifests,
  served  <- named \cap present,
  claimed <- Claimed(status),
  pass    <- Intent

KeepsItsPromise == Abstract!Spec

Starts(i) == jobs[i] = None /\ jobs'[i] # None

(* ADR 0046: a failed Job stays, with its pod's logs, until the backoff since the recorded failure
   has elapsed, whatever wakes the object in between - its own status write, an edit and back, a
   restart.  Its deletion is what starts the next one.  (Where the caches are current.) *)
FailedJobIsKept ==
  [][\A i \in Inputs : InPhase(i, "failed") /\ jobs'[i] = None => status.finished # "recent"]_vars

(* ADR 0051: a build whose inputs did not change runs only because something it published is really
   gone.  A request that failed is no evidence of that: an outage rebuilds nothing.  (Where nobody
   restores a lost tag while the pass runs.) *)
RebuildsOnlyLost ==
  [][\A i \in Inputs :
       Starts(i) /\ obj.status.digest # None /\ obj.status.hash = i
         => \/ obj.status.digest \notin present \cap named
            \/ \E t \in TagsOf(obj.spec) : tag[t] = None]_vars

(* status.inputHash is "the build's identity": the image status names was built from those inputs. *)
HashNamesContent == status.hash # None => MadeFrom[status.digest] = status.hash

(* What the spec asks for is built and recorded, and every name is there (its own, once backfilled).
   That a tag of the spec means it is not asked: a converged pass only asks whether a tag exists. *)
IsBuilt ==
  /\ status.hash = spec.input
  /\ HasDigestTag(status) => status.digest \in present \cap named
  /\ MadeFrom[status.digest] = spec.input
  /\ \A t \in TagsOf(spec) : tag[t] # None

(* ADR 0061: Ready, as of the generation it is stamped with, is about the image the spec asks for,
   however passes, edits and Jobs overlap. *)
ReadyMeansBuilt ==
  status.ready.kind = "Published" /\ status.ready.generation = generation => IsBuilt

(* The digest a tag of the spec is compared with: what the Job of these inputs pushed, or while there
   is no such Job what status records. *)
Offered == IF InPhase(spec.input, "succeeded") THEN jobs[spec.input].digest ELSE status.digest

TakenTags == {t \in TagsOf(spec) : tag[t] \notin {None, Offered}}

(* Under Fail and Keep: a tag of the spec means something else than what the object has to offer, and
   the object says so of the spec it has now. *)
Refused ==
  /\ status.observed = generation
  /\ \/ spec.policy = "Fail" /\ status.ready.kind = "Stalled" /\ TakenTags # {}
     \/ /\ spec.policy = "Keep" /\ status.conflict # None
        /\ status.conflict.tag \in TakenTags /\ status.conflict.existing = tag[status.conflict.tag]

(* Every spec is built in the end, and named, wherever a pass was cut off, whether the Job failed,
   was gone before it was read, or pushed what was then lost - or it is refused time and again for
   tags that mean something else.  No object is stuck on a tag it wrote itself while its Job is
   there to tell. *)
Converges == <>[](spec.suspend \/ (IsBuilt /\ HasDigestTag(status))) \/ []<>Refused

(* ImageBuildStatus: buildRef is "Set exactly while a build is in flight, which is what reports the
   object Progressing": with every Job ending, no object is in flight for good. *)
InFlightEnds == []<>(status.buildRef = None)

(* ADR 0059: "A rebuild happens exactly when the input hash changes, or when what was published is
   no longer in the registry ... not the passage of time": once the world is quiet, so are the
   Jobs. *)
BuildsEnd == <>[](\A i \in Inputs : ~InPhase(i, "running"))

=============================================================================
