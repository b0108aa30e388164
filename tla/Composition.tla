---------------------------- MODULE Composition ----------------------------
(***************************************************************************)
(* The ImageComposition controller: one object, reconciled over and over   *)
(* against the registry (internal/controller/imagecomposition_controller), *)
(* with the names and records of module Reconciler.                        *)
(*                                                                         *)
(* A pass is split at every call that can interleave with somebody else:   *)
(*                                                                         *)
(*   idle -> backfill -> resolve -> assemble -> write -> tags -> report    *)
(*                                                                         *)
(* The object is read from, and every status patch is computed against,    *)
(* the informer cache, which may lag the API server (CacheLag).  A patch   *)
(* carries only the fields that differ from the cached object.             *)
(*                                                                         *)
(* The rest of the world is a set of named disturbances: spec edits,       *)
(* sources that move, other writers on the same tags, expiry, requests     *)
(* that fail and restarts.  Disturbances says which a run allows, and      *)
(* MaxDisturbances bounds how many happen in one behaviour.                *)
(***************************************************************************)
EXTENDS Reconciler

CONSTANTS
  Output,           \* the digest each input assembles to: assembly is deterministic
  Specs,            \* the specs a user may apply
  InitSpec,         \* the spec the object starts with
  InitStatuses,     \* the statuses it may start with
  InitRepositories, \* the [tag, named, present] the repository may start with
  AttestEnabled,    \* whether the composer attaches SBOM, provenance, signature
  CacheLag,         \* whether the informer cache may lag the API server
  Disturbances,     \* the kinds of disturbance that may happen
  MaxDisturbances   \* bound on how many do

ASSUME SpecsAssumption ==
  /\ Output \in [Inputs -> Manifests]
  /\ Specs \subseteq SpecType
  /\ InitSpec \in SpecType
  /\ AttestEnabled \in BOOLEAN
  /\ CacheLag \in BOOLEAN
  /\ MaxDisturbances \in Nat

(***************************************************************************)
(* Status.  digest and own are status.artifact: the digest it names and    *)
(* the digest whose own tag it lists.                                      *)
(***************************************************************************)
Status ==
  [digest : Manifests \cup {None},
   own : Manifests \cup {None},
   hash : Inputs \cup {None},
   history : Seq(Build),
   conflict : Conflict \cup {None},
   attested : Manifests \cup {None},
   ready : Condition,
   observed : Nat]

Snapshot == [spec : SpecType, generation : Nat, status : Status]

Result ==
  [digest : Manifests, own : Manifests \cup {None}, record : BOOLEAN,
   conflict : Conflict \cup {None}, attested : Manifests \cup {None}]

EmptyStatus ==
  [digest |-> None, own |-> None, hash |-> None, history |-> <<>>,
   conflict |-> None, attested |-> None,
   ready |-> [kind |-> "Unknown", digest |-> None, generation |-> 0],
   observed |-> 0]

ASSUME InitAssumption ==
  /\ InitStatuses \subseteq Status
  /\ \A r \in InitRepositories :
       /\ r.tag \in [Tags -> Manifests \cup {None}]
       /\ r.named \subseteq Manifests
       /\ r.present \subseteq Manifests

VARIABLES
  spec,        \* the object at the API server ...
  generation,
  status,
  cache,       \* ... and as the informer cache last saw it
  queued,      \* whether the workqueue holds the object, or a timer will add it
  pc,          \* where the pass is
  obj,         \* the object as this pass read it
  seen,        \* what ResolvePublished found
  todo,        \* tags of the spec still to write
  result,      \* what the pass produced
  disturbed    \* how many disturbances have happened

objectVars == <<spec, generation, status, cache>>
passVars == <<obj, seen, todo, result>>
vars == <<registryVars, objectVars, queued, pc, passVars, disturbed>>

-----------------------------------------------------------------------------
(* Mutant: what is attached is not part of deciding whether there is anything left to do. *)
CompleteAlways(st) == TRUE

(* Attestor.Complete: nothing to attach, or the record is about this digest. *)
Complete(st) == ~AttestEnabled \/ st.attested = st.digest

-----------------------------------------------------------------------------
(***************************************************************************)
(* Shared steps.                                                           *)
(***************************************************************************)

(* One more disturbance of a kind this run allows. *)
Disturb(kind) ==
  /\ kind \in Disturbances
  /\ disturbed < MaxDisturbances
  /\ disturbed' = disturbed + 1

DisturbIf(happens, kind) ==
  IF happens THEN Disturb(kind) ELSE UNCHANGED disturbed

(* The cache follows at once, unless the run lets it lag. *)
Observe(s, g, st) ==
  cache' = IF CacheLag THEN cache ELSE [spec |-> s, generation |-> g, status |-> st]

MergePatch(server, base, new) ==
  [digest   |-> Merge(server.digest, base.digest, new.digest),
   own      |-> Merge(server.own, base.own, new.own),
   hash     |-> Merge(server.hash, base.hash, new.hash),
   history  |-> Merge(server.history, base.history, new.history),
   conflict |-> Merge(server.conflict, base.conflict, new.conflict),
   attested |-> Merge(server.attested, base.attested, new.attested),
   ready    |-> Merge(server.ready, base.ready, new.ready),
   observed |-> Merge(server.observed, base.observed, new.observed)]

(* writeStatus: the latest object is what the cache holds. *)
WriteStatus(new) ==
  /\ status' = MergePatch(status, cache.status, new)
  /\ Observe(spec, generation, status')
  /\ UNCHANGED <<spec, generation>>

Says(kind, digest) ==
  [kind |-> kind, digest |-> digest, generation |-> cache.generation]

(* patchStatus: writeStatus, and the pass is stamped as handled. *)
PatchStatus(new) == WriteStatus([new EXCEPT !.observed = cache.generation])

(* The pass is over; again says whether Reconcile asked for another one. *)
EndPass(again) ==
  /\ pc' = "idle"
  /\ queued' = (queued \/ again)
  /\ obj' = None
  /\ seen' = None
  /\ todo' = <<>>
  /\ result' = None

(* Mutant: a pass that waits for a source leaves it to the source's watch to wake it. *)
FailWaiting(kind) ==
  /\ PatchStatus([cache.status EXCEPT !.ready = Says(kind, None)])
  /\ EndPass(kind \notin {"Stalled", "Waiting"})

(* A pass that failed reports it and is requeued, unless only a new spec can help (Stalled). *)
Fail(kind) ==
  /\ PatchStatus([cache.status EXCEPT !.ready = Says(kind, None)])
  /\ EndPass(kind # "Stalled")

-----------------------------------------------------------------------------
(***************************************************************************)
(* The pass.                                                               *)
(***************************************************************************)

(* Reconcile: a worker takes the object off the queue and reads it. *)
Begin ==
  /\ pc = "idle" /\ queued
  /\ queued' = FALSE
  /\ obj' = cache
  /\ pc' = IF Unnamed(cache.status) = {} THEN "resolve" ELSE "backfill"
  /\ UNCHANGED <<registryVars, objectVars, seen, todo, result, disturbed>>

(* backfillDigestTags: names what status says is published.  A digest the registry answers 404 for
   is gone; one whose request failed is left for the next pass. *)
Backfill ==
  /\ pc = "backfill"
  /\ \E unanswered \in SUBSET Unnamed(obj.status) :
       LET asked  == Unnamed(obj.status) \ unanswered
           tagged == asked \cap present
           gone   == asked \ present
       IN /\ DisturbIf(unanswered # {}, "registry")
          /\ named' = named \cup tagged
          /\ WriteStatus(Mark(cache.status, tagged, gone))
          /\ obj' = [obj EXCEPT !.status = Mark(obj.status, tagged, gone)]
  /\ pc' = "resolve"
  /\ UNCHANGED <<tag, present, queued, seen, todo, result>>

(* The tags were written and the patch recording them failed: the pass goes on without knowing. *)
BackfillUnrecorded ==
  /\ pc = "backfill"
  /\ Disturb("api")
  /\ \E tagged \in SUBSET (Unnamed(obj.status) \cap present) : named' = named \cup tagged
  /\ pc' = "resolve"
  /\ UNCHANGED <<tag, present, objectVars, queued, passVars>>

(* Reconcile on a suspended object: nothing published is touched, nothing is requeued. *)
Suspended ==
  /\ pc = "resolve" /\ obj.spec.suspend
  /\ PatchStatus([cache.status EXCEPT !.ready = Says("Suspended", None)])
  /\ EndPass(FALSE)
  /\ UNCHANGED <<registryVars, disturbed>>

(* resolveInputs on a dependency that is not there or not ready: PendingError. *)
Pending ==
  /\ pc = "resolve" /\ ~obj.spec.suspend
  /\ Disturb("source")
  /\ Fail("Waiting")
  /\ UNCHANGED registryVars

(* ResolvePublished: one HEAD per name.  A HEAD that fails reads as a name that is not there. *)
Heads(deaf) ==
  [tag |-> [t \in Tags |-> IF t \in TagsOf(obj.spec) \ deaf THEN tag[t] ELSE None],
   own |-> HasDigestTag(obj.status) => (obj.status.digest \in named /\ "own" \notin deaf),
   digest |-> obj.status.digest \in present /\ "digest" \notin deaf]

(* reconcileArtifact up to its first decision: same inputs, still published under every name and
   fully attested is the cheap path; anything else reports progress and goes on to assemble. *)
Resolve ==
  /\ pc = "resolve" /\ ~obj.spec.suspend
  /\ \E deaf \in SUBSET (TagsOf(obj.spec) \cup {"own", "digest"}) :
       /\ DisturbIf(deaf # {}, "head")
       /\ seen' = Heads(deaf)
  /\ IF /\ obj.status.hash = obj.spec.input
        /\ Matches(seen', obj, obj.status.digest)
        /\ Complete(obj.status)
       THEN /\ result' = [digest |-> obj.status.digest, own |-> obj.status.own, record |-> FALSE,
                          conflict |-> None, attested |-> obj.status.attested]
            /\ pc' = "report"
            /\ UNCHANGED objectVars
       ELSE /\ WriteStatus([cache.status EXCEPT !.ready = Says("Progressing", obj.status.digest)])
            /\ pc' = "assemble"
            /\ UNCHANGED result
  /\ UNCHANGED <<registryVars, queued, obj, todo>>

Built == Output[obj.spec.input]

(* attestPublished never fails a pass: it returns what is attached, or nothing. *)
Attested(d) == IF AttestEnabled THEN {d, None} ELSE {None}

(* Fetching a layer, assembling, or a request to the registry failed: retried with backoff. *)
Transient ==
  /\ pc \in {"assemble", "tags"}
  /\ Disturb("registry")
  /\ Fail("Failing")
  /\ UNCHANGED registryVars

(* The second convergence check: other inputs, same output.  Only the own tag may be missing. *)
Converged ==
  /\ pc = "assemble"
  /\ Matches(seen, obj, Built)
  /\ Built \in present
  /\ PushOwnTag(Built)
  /\ \E a \in Attested(Built) :
       /\ DisturbIf(AttestEnabled /\ a = None, "registry")
       /\ result' = [digest |-> Built, own |-> Built, record |-> FALSE, conflict |-> None,
                     attested |-> a]
  /\ pc' = "report"
  /\ UNCHANGED <<objectVars, queued, obj, seen, todo>>

(* ApplyDigestTag finds the manifest gone since it was seen. *)
ConvergedButLost ==
  /\ pc = "assemble"
  /\ Matches(seen, obj, Built)
  /\ Built \notin present
  /\ Fail("Failing")
  /\ UNCHANGED <<registryVars, disturbed>>

Refused ==
  /\ pc = "assemble"
  /\ ~Matches(seen, obj, Built)
  /\ Conflicting(seen, obj, Built) # {}

(* onConflict: Fail refuses to change what a tag means, before anything is written. *)
RefuseConflict ==
  /\ Refused /\ obj.spec.policy = "Fail"
  /\ Fail("Stalled")
  /\ UNCHANGED <<registryVars, disturbed>>

(* onConflict: Keep publishes nothing, and reports what the tag holds. *)
KeepExisting ==
  /\ Refused /\ obj.spec.policy = "Keep"
  /\ \E i \in Conflicting(seen, obj, Built) :
       LET t == obj.spec.tags[i]
       IN /\ \A j \in Conflicting(seen, obj, Built) : i <= j
          /\ result' = [digest |-> seen.tag[t], own |-> None, record |-> FALSE, attested |-> None,
                        conflict |-> [tag |-> t, existing |-> seen.tag[t], dropped |-> Built]]
  /\ pc' = "report"
  /\ UNCHANGED <<registryVars, objectVars, queued, obj, seen, todo, disturbed>>

(* The digest reference first, so a failure part-way leaves the content addressable. *)
Write ==
  /\ pc = "assemble"
  /\ ~Matches(seen, obj, Built)
  /\ Conflicting(seen, obj, Built) = {} \/ obj.spec.policy = "Overwrite"
  /\ PushDigest(Built)
  /\ todo' = obj.spec.tags
  /\ pc' = "tags"
  /\ UNCHANGED <<objectVars, queued, obj, seen, result, disturbed>>

(* PublishTags, one write per tag of the spec ... *)
WriteTag ==
  /\ pc = "tags" /\ todo # <<>>
  /\ PushTag(Built, Head(todo))
  /\ todo' = Tail(todo)
  /\ UNCHANGED <<objectVars, queued, pc, obj, seen, result, disturbed>>

(* Mutant: the build is published under the tags of the spec alone. *)
WriteOwnTagSkipped ==
  /\ pc = "tags" /\ todo = <<>>
  /\ result' = [digest |-> Built, own |-> Built, record |-> TRUE, conflict |-> None,
                attested |-> None]
  /\ pc' = "report"
  /\ UNCHANGED <<registryVars, objectVars, queued, obj, seen, todo, disturbed>>

(* ... and the digest's own tag last; then the build is attested and becomes a record. *)
WriteOwnTag ==
  /\ pc = "tags" /\ todo = <<>>
  /\ PushOwnTag(Built)
  /\ \E a \in Attested(Built) :
       /\ DisturbIf(AttestEnabled /\ a = None, "registry")
       /\ result' = [digest |-> Built, own |-> Built, record |-> TRUE, conflict |-> None,
                     attested |-> a]
  /\ pc' = "report"
  /\ UNCHANGED <<objectVars, queued, obj, seen, todo>>

(* Reconcile's success: the result is copied into the latest status, conflict even when there is
   none, and the next interval is asked for. *)
Report ==
  /\ pc = "report"
  /\ LET latest == cache.status
         build  == [digest |-> result.digest, own |-> TRUE, lost |-> FALSE]
     IN PatchStatus(
          [latest EXCEPT
             !.digest   = result.digest,
             !.own      = result.own,
             !.hash     = obj.spec.input,
             !.history  = IF result.record THEN RecordHistory(latest.history, build)
                                           ELSE latest.history,
             !.conflict = result.conflict,
             !.attested = result.attested,
             !.ready    = Says(IF result.conflict = None THEN "Published" ELSE "Kept",
                               result.digest)])
  /\ EndPass(TRUE)
  /\ UNCHANGED <<registryVars, disturbed>>

Pass ==
  \/ Begin \/ Backfill \/ BackfillUnrecorded \/ Suspended \/ Pending \/ Resolve \/ Transient
  \/ Converged \/ ConvergedButLost \/ RefuseConflict \/ KeepExisting
  \/ Write \/ WriteTag \/ WriteOwnTag \/ Report

-----------------------------------------------------------------------------
(***************************************************************************)
(* The informer, the API server and the rest of the world.                 *)
(***************************************************************************)

(* The informer catches up.  Only a new generation, or a source that moved, queues the object: its
   own status writes do not. *)
Sync ==
  /\ cache # [spec |-> spec, generation |-> generation, status |-> status]
  /\ cache' = [spec |-> spec, generation |-> generation, status |-> status]
  /\ queued' = (queued \/ cache.generation # generation \/ cache.spec # spec)
  /\ UNCHANGED <<registryVars, spec, generation, status, pc, passVars, disturbed>>

(* The informer delivers an edit at once when its cache does not lag. *)
Deliver ==
  IF CacheLag THEN UNCHANGED <<cache, queued>>
  ELSE /\ cache' = [spec |-> spec', generation |-> generation', status |-> status]
       /\ queued' = TRUE

(* A user applies another spec, between two passes or during one. *)
EditSpec(s) ==
  /\ s # spec
  /\ Disturb(IF pc = "idle" THEN "edit" ELSE "edit-in-pass")
  /\ spec' = s
  /\ generation' = generation + 1
  /\ Deliver
  /\ UNCHANGED <<registryVars, status, pc, passVars>>

(* A ConfigMap is edited, a Flux source moves: other inputs at the same generation. *)
MoveSource(i) ==
  /\ i # spec.input
  /\ Disturb("source")
  /\ spec' = [spec EXCEPT !.input = i]
  /\ UNCHANGED generation
  /\ Deliver
  /\ UNCHANGED <<registryVars, status, pc, passVars>>

(* Another writer of the repository (a push by hand, another object) moves a tag of the spec. *)
ForeignPush(d, t) ==
  /\ tag[t] # d
  /\ Disturb(IF pc = "idle" THEN "foreign" ELSE "foreign-in-pass")
  /\ PushTag(d, t)
  /\ UNCHANGED <<objectVars, queued, pc, passVars>>

(* The pass is about to stall on a conflict, or has: nothing that expires wakes the object then. *)
Stalling == Refused \/ status.ready.kind = "Stalled"

Expire ==
  /\ Disturb(IF Stalling THEN "expire-stalled" ELSE "expire")
  /\ (\E t \in Tags : ExpireTag(t)) \/ (\E d \in Manifests : LoseManifest(d))
  /\ UNCHANGED <<objectVars, queued, pc, passVars>>

(* A call to the API server fails: the pass returns the error and is retried. *)
ApiError ==
  /\ pc # "idle"
  /\ Disturb("api")
  /\ EndPass(TRUE)
  /\ UNCHANGED <<registryVars, objectVars>>

(* The controller dies mid-pass; the new one lists every object and queues it. *)
Restart ==
  /\ pc # "idle"
  /\ Disturb("restart")
  /\ pc' = "idle" /\ queued' = TRUE
  /\ obj' = None /\ seen' = None /\ todo' = <<>> /\ result' = None
  /\ cache' = [spec |-> spec, generation |-> generation, status |-> status]
  /\ UNCHANGED <<registryVars, spec, generation, status>>

World ==
  \/ \E s \in Specs : EditSpec(s)
  \/ \E i \in Inputs : MoveSource(i)
  \/ \E d \in Manifests, t \in Tags : ForeignPush(d, t)
  \/ Expire \/ ApiError \/ Restart

-----------------------------------------------------------------------------

Init ==
  /\ \E r \in InitRepositories : tag = r.tag /\ named = r.named /\ present = r.present
  /\ spec = InitSpec
  /\ generation = 2   \* a status from before generation 2 may be there already
  /\ status \in InitStatuses
  /\ cache = [spec |-> spec, generation |-> generation, status |-> status]
  /\ queued = TRUE
  /\ pc = "idle"
  /\ obj = None /\ seen = None /\ todo = <<>> /\ result = None
  /\ disturbed = 0

Next == Pass \/ Sync \/ World

(* The workqueue hands every queued object to a worker, every request returns, and the informer's
   watch delivers: each step of the controller is weakly fair.  The world promises nothing. *)
Fairness == WF_vars(Pass) /\ WF_vars(Sync)

Spec == Init /\ [][Next]_vars /\ Fairness

-----------------------------------------------------------------------------
(***************************************************************************)
(* Properties.                                                             *)
(***************************************************************************)

(* Every variable holds a value of its kind; the pass's own state exists exactly while it runs. *)
TypeOK ==
  /\ RegistryTypeOK
  /\ spec \in SpecType /\ generation \in Nat /\ status \in Status /\ cache \in Snapshot
  /\ queued \in BOOLEAN
  /\ pc \in {"idle", "backfill", "resolve", "assemble", "tags", "report"}
  /\ obj \in (IF pc = "idle" THEN {None} ELSE Snapshot)
  /\ seen \in (IF pc \in {"assemble", "tags", "report"} THEN Seen ELSE {None})
  /\ todo \in Seq(Tags)
  /\ result \in (IF pc = "report" THEN Result ELSE {None})
  /\ disturbed \in Nat

(* ADR 0060: what status says carries its own tag does, and the registry serves it, whatever tags
   have moved since and wherever a pass was cut off.  It is what a rollback and the retention of
   history rest on: backfill and publish must write the tag before status claims it, and the tag a
   build is published under must never be its only one.  (Where nothing expires.) *)
ClaimedIsServed == Claimed(status) \subseteq (named \cap present)

(* A tag moved by this object's own pass, and not by another writer. *)
Moves(t) == tag[t] # None /\ tag'[t] # tag[t] /\ passVars' # passVars

(* onConflict: Fail and Keep.  The pass never moves a tag off content its own HEAD showed it, and
   never starts to move one of several tags when another is in conflict: it may only overwrite what
   it could not see, because the HEAD failed or because another writer came in between. *)
OnlyOverwriteMoves ==
  [][\A t \in Tags : Moves(t) =>
       \/ obj.spec.policy = "Overwrite"
       \/ \A u \in TagsOf(obj.spec) : seen.tag[u] \in {None, Built}]_vars

(* README, onConflict: "the controller will not move a tag to different content". *)
FailNeverMovesTag ==
  [][\A t \in Tags : Moves(t) => obj.spec.policy = "Overwrite"]_vars

Listed(h, d) == \E k \in DOMAIN h : h[k].digest = d

(* ADR 0031: history is newest first, and the oldest go.  A record is lost only to a full list; and
   every record but the first was there before, after all the records that were newer than it.  So
   a list is trimmed at its end, and no pass loses a record by writing a list it extended or marked
   over one that has grown.  (Where the cache is current.) *)
HistoryOnlyEvicts ==
  [][LET old == status.history
         new == status'.history
     IN /\ \A k \in DOMAIN old : Listed(new, old[k].digest) \/ Len(new) = Limit
        /\ \A q \in DOMAIN new \ {1} :
             \E k \in DOMAIN old :
               /\ new[q].digest = old[k].digest
               /\ \A j \in 1..(k - 1) : Listed(SubSeq(new, 1, q - 1), old[j].digest)]_vars

(* One record per digest: a rebuild that reproduces an older digest moves its record, and no status
   write, however stale the list it was computed on, brings the older one back beside it. *)
UniqueHistory == OnePerDigest(status.history)

(* A history entry is retired as lost only when the registry really answered 404 for it, never
   because it did not answer; and the current artifact is never retired.  (Where the cache is
   current: a list marked in a stale cache replaces one that rebuilt the lost digest meanwhile.) *)
OnlyLossRetires ==
  [][\A i \in DOMAIN status'.history :
       LET b == status'.history[i]
       IN /\ b.lost
          /\ \E j \in DOMAIN status.history : status.history[j].digest = b.digest
                                           /\ ~status.history[j].lost
          => b.digest \notin present /\ b.digest # status.digest]_vars

(* What the running pass was asked to write, what it saw, and what it is left to write. *)
Intent ==
  IF pc \in {"assemble", "tags"}
    THEN [asked |-> obj.spec.tags, force |-> obj.spec.policy = "Overwrite", view |-> seen.tag,
          grant |-> IF pc = "tags" THEN Built ELSE None,
          left  |-> IF pc = "tags" THEN todo ELSE obj.spec.tags]
    ELSE None

(* Composition implements Publishing: across lagging caches, edits and restarts, a pass moves only
   the names it was asked for, to the digest it settled on after looking at all of them, and what
   status claims is served.  (Where nothing expires.) *)
Abstract == INSTANCE Publishing WITH
  Digests <- Manifests,
  served  <- named \cap present,
  claimed <- Claimed(status),
  pass    <- Intent

KeepsItsPromise == Abstract!Spec

(* The object reports Ready for the spec it has now. *)
ReadyNow ==
  /\ status.ready.kind \in {"Published", "Kept"}
  /\ status.ready.generation = generation
  /\ status.observed = generation

(* ADR 0061: "Ready=True means the image the current inputs produce is published": it is served
   under every tag of the spec and under its own, and it is what status.artifact names. *)
ReadyMeansPublished ==
  status.ready.kind = "Published" /\ ReadyNow
    => LET d == Output[spec.input]
       IN /\ status.digest = d
          /\ d \in present /\ d \in named
          /\ \A t \in TagsOf(spec) : tag[t] = d

(* A conflict a Keep left on record is withdrawn only by a pass that wrote every tag it was asked for,
   or that found them all to mean the digest it reports; and what it reports is what its inputs
   assemble to, or what an earlier pass over those same inputs left in place. *)
ConflictEndsInAgreement ==
  [][status.conflict # None /\ status'.conflict = None =>
       /\ result.record \/ \A t \in TagsOf(obj.spec) : seen.tag[t] = result.digest
       /\ result.digest = Built \/ obj.status.hash = obj.spec.input]_vars

(* ADR 0029: "Keep must record the divergence": an object that is Ready while what its spec produces
   is not what it reports says so in status.conflict. *)
DivergenceIsRecorded ==
  ReadyNow /\ status.hash = spec.input /\ status.digest # Output[spec.input]
    => status.conflict # None

(* What a pass makes of the spec it is given, once the world is quiet. *)
Settled ==
  \/ spec.suspend /\ status.ready.kind = "Suspended"
  \/ status.ready.kind = "Published" /\ ReadyMeansPublished
  \/ /\ status.ready.kind = "Stalled" /\ spec.policy = "Fail"
     /\ \E t \in TagsOf(spec) : tag[t] \notin {None, Output[spec.input]}

(* Every object settles, and for the spec it then has: it is published, suspended, or stalled on a
   tag that means something else than its image - never on its own - and stays so until something
   changes, wherever a pass was cut off, whatever it had already written, and whatever expired.
   (Where the cache follows the API server at once, and what a stalled object was refused for stays:
   nothing would wake it.) *)
Settles == <>[](Settled /\ status.observed = generation)

=============================================================================
