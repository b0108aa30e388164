# kube-oci-composer: a verification project

kube-oci-composer is two Kubernetes controllers that publish OCI images.
`ImageComposition` assembles an image from layers in the controller itself;
`ImageBuild` runs a Dockerfile in a Kubernetes Job. Both push to a registry
that forgets what nobody pulls, and both promise that what an object's status
says is published *is* published.

That promise is kept by code that reads caches, asks a registry that may not
answer, writes several names one after another and records the outcome last,
while users edit specs, sources move, Jobs come and go and other writers push.
This directory holds TLA+ models of that code, the TLC runs that check them,
and theorems about them proved with TLAPS for every size of instance.

    tlc -config composition_faults.cfg MCComposition     # check a run
    tlapm CompositionProofs.tla                          # check the proofs of a module

`PROJECT.json` maps every definition to the source lines it stands for, lists
the runs, the hazards the properties are for, the theorems and, for each
property, a mutant of the code's model that breaks it.

## 1. Inventory

| Part | Source | State it keeps | Operations | Modules |
|---|---|---|---|---|
| ImageComposition reconciler | `internal/controller/imagecomposition_controller.go` | `status`, finalizer | one reconcile pass; deletion | `Composition` |
| Published names, history, conditions | `internal/reconciler/{digesttag,published,reconciler}.go` | none (operates on status) | ResolvePublished, Matches, Conflicts, MarkHistory, RecordHistory, ApplyDigestTag | `Reconciler`, `Publishing` |
| ImageBuild reconciler | `internal/buildcontroller/{imagebuild_controller,conflict,errors}.go` | `status`, Jobs | pass, startBuild, observeJob, applyTags, stillPublished, backfill | `ImageBuild` |
| Build Job, Secrets, context proxy | `internal/buildcontroller/{job,contextproxy,attest}.go` | the Job's pod, its Secrets | build a Job, serve a context, sign | `BuildPlan`, `BuildPod`, `Attestation` |
| Reference export | `internal/reconciler/refexport.go` | a ConfigMap, `status.refExport`, the finalizer | ExportRef, RecordExport, DeleteExportedRef | `RefExport` |
| Retention refresher, readiness | `internal/retention/refresher.go`, `internal/controller/readiness.go` | a counter per object, a skip counter, objects not yet observed | cycle, RefreshOnce, RefreshNow, Observe | `Retention`, `Attestation` |
| Attestation | `internal/attest`, `internal/controller/attest.go` | `status.attestations`; referrers and a `.sig` tag | Ensure, Complete, signBuild | `Attestation` |
| Layer cache and stores | `internal/cache`, `internal/store` | blobs by digest in a local and a remote tier | Path, pullFromRemote | `LayerCache` |
| Sources, input resolution | `internal/source`, `internal/controller/{resolve,platforms,artifact}.go` | none | resolve a layer to a digest, or Pending | `FluxSource`, `LayerCache`, `Assembly` |
| Layer assembly, input hashes | `internal/oci`, `internal/archive`, `internal/build` | none | inputs to hash, archive to layer or context, Dockerfile checks | `Assembly`, `BuildPlan` |
| Fetch context, network guard | `internal/fetchcontext`, `internal/netguard` | attempts | download and verify in the build pod | `BuildPod`, `Assembly` |
| Credentials, default registry, transport | `internal/reconciler/{auth,remoteauth,defaultregistry,transport}.go` | none | look-ups | - |
| Wiring, options, charts, CRDs | `cmd`, `internal/opts`, `charts`, `config` | flags | start-up | - |

External to the repository, and part of the models as far as the code depends
on it: the registry (zot), the API server, its garbage collector and informers,
the workqueue, Flux's source-controller, the Job and TTL controllers, and
everybody else who pushes to the same repository or edits the same ConfigMap.

### How the parts interact

A *pass* begins when a worker takes an object off the queue and reads it from
the informer cache. It resolves its inputs (from a Flux source, ConfigMaps and
registries) to digests, compares their hash with status, asks the registry what
the object's names mean, decides, makes the image (through the layer cache, or
as a Job with Secrets and a proxied context), writes names, attests, records
status, exports the reference, and asks the refresher for a first lease. Every
call is a point where the world may move, the call may fail, or the process may
die. Passes of one object never overlap (the workqueue sees to it, one leader
runs); passes of several objects share the layer cache, the repository and the
refresher, which runs beside them.

### What is hard, and what must hold

* **Publishing is several writes.** The digest, the tags of the spec, the
  digest's own tag, then status. Wherever a pass is cut off, status must claim
  nothing the registry does not serve, and the next pass must recognise its own
  half-done work.
* **A tag may already mean something else.** `onConflict` decides, on HEADs
  that may fail or go stale.
* **Ready is a statement about the current spec** (ADR 0061), made by a pass
  that read the spec minutes before, in patches against a cache.
* **A Job outlives passes, edits and the process**, is found again by a hash,
  and its success is read again until its TTL. Whatever the hash leaves out is
  passed off as built.
* **A registry forgets.** What status names must be pulled in time, by a
  refresher that skips everything when one object is not reconciled, and whose
  warning must come before the loss.
* **Several API objects are written one after another**: Secrets, Job and owner
  references; ConfigMap, `status.refExport` and finalizer.
* **A source is somebody else's**: its status may be yesterday's, its tarball
  re-packed or pruned between the read and the download, a shared cache corrupt.

## 2. Modules

| Module | What it is | Extends |
|---|---|---|
| `Registry` | one repository: tags, own tags, manifests (external) | |
| `Reconciler` | what both controllers use: names, conflicts, history, merge patches | `Registry` |
| `Composition` | the ImageComposition reconciler and the world around it | `Reconciler` |
| `ImageBuild` | the ImageBuild reconciler, its Jobs, and the world around them | `Reconciler` |
| `Publishing` | the abstract promise both implement | |
| `FluxSource` | a Flux source as the controllers see it | |
| `LayerCache` | from a source to bytes: resolve, two tiers, origin; several objects | `FluxSource` |
| `BuildPod` | Secrets, Job, garbage collector, pod, proxy | `FluxSource` |
| `RefExport` | the exported ConfigMap, its record and the finalizer, either kind | |
| `Retention` | the refresher against a registry that expires | |
| `Attestation` | passes that publish, attest, record and lease, beside the refresher | `Retention` |
| `BuildPlan` | ImageBuild's input hash, Job arguments, volumes and mounts | |
| `Assembly` | ImageComposition's input hash, path placement, layers, platforms; the builder's extraction | |
| `MC*` | the small instances TLC checks (`MCIdentity` runs `BuildPlan` and `Assembly`) | |
| `*Proofs` | theorems for all instances; each extends the module it is about | |

Data is abstracted to what decides: a resolved input set, an archive, a
manifest is a value; a hash is the tuple of what is written into it; a tag is a
name; an instant is a step. `MaxDisturbances` bounds the faults and edits of
one behaviour wherever it appears, and is the only bound the controllers'
models need.

### Registry, Reconciler, Publishing

`tag[t]` is what a tag of the spec resolves to, `present` the manifests that
resolve by digest, and `named` those carrying the tag of their own digest
(`digest-<hex>`; computed from the content, so it can be absent but cannot mean
anything else). Moving the last tag of a manifest drops it, which is what zot
does and what ADR 0060 is about.

`Reconciler` has operators only, named after the functions they translate:
`Matches`, `Conflicting`, `RecordHistory` with `Limit`, `MarkBuild`, `Unnamed`,
`MergePatch` (a field equal to the base it was computed on is not sent; the
base is the cache's object).

`Publishing` says what both controllers promise, without how they get there. A
pass looks, is granted one digest for all the names it asked for - by policy, or
because every name it *saw* was free or meant that digest already - and writes
those names in order, stopping anywhere. Nothing is claimed that is not served
under its own tag. Others move tags at any time. Both controllers refine it:
`Abstract == INSTANCE Publishing WITH pass <- Intent, claimed <- Claimed(status), ...`,
where `Intent` is the part of the running pass's memory that the promise is
about; in `ImageBuild` the digest was pushed by a Job some passes earlier.

### Composition

| Variable | In the program |
|---|---|
| `tag`, `named`, `present` | the repository |
| `spec`, `generation`, `status` | the object at the API server |
| `cache` | the object as the informer last delivered it |
| `queued` | in the workqueue, or due by `RequeueAfter` or backoff |
| `pc`, `obj`, `seen`, `todo`, `result` | the pass: its next call, the object it read, the answers to its HEADs, tags still to write, `buildResult` |

| Action | Code |
|---|---|
| `Begin`, `Backfill`, `BackfillUnrecorded` | `Reconcile` reads; `backfillDigestTags` names, then records |
| `Suspended`, `Pending`, `Resolve` | early returns; `reconcileArtifact` to its first decision |
| `Converged`, `ConvergedButLost` | the second convergence check, after assembly |
| `RefuseConflict`, `KeepExisting`, `Write`, `WriteTag`, `WriteOwnTag` | the policies; the writes, one action each |
| `Transient`, `Report` | any failed call; the success path and its patch |
| `Sync`, `EditSpec`, `MoveSource`, `ForeignPush`, `Expire`, `ApiError`, `Restart` | informer and world |

### ImageBuild

The builder edits the object it read, in memory, and ends in **one** patch of
the difference, so `obj` is the object with the pass's edits and `base` its
status as read. Between hash and image stands a Job: `jobs[i]` is the Job of
input `i` (its name is the hash), `jobCache` what the informer knows of it.
`status.buildRef`, `attempt` and `finished` are the build in flight and the last
one's end, the clock appearing as `Elapse` (backoff) and `JobExpires` (TTL).

| Action | Code |
|---|---|
| `Begin`, `Backfill`, `Suspended`, `Pending` | `Reconcile` to `resolveInputs` |
| `Check`, `Unchecked`, `Precheck` | the converged path (`stillPublished`, where only a 404 denies); `checkTagConflict` |
| `Start`, `StartUnanswered` | `startBuild`; a create may succeed and its answer be lost |
| `Running`, `CountFailure`, `Retry`, `PodUnseen` | `observeJob` |
| `Resolve`, `RefuseConflict`, `KeepExisting`, `Unserved`, `Accept`, `WriteTag`, `WriteOwnTag` | `applyTags`, then `recordSuccess` |
| `Transient`, `Patch`, `ApiError` | a failed request; `applyOutcome` and the patch |
| `JobSucceeds`, `JobFails`, `JobExpires`, `Elapse`, `Collect`, ... | BuildKit, TTL, clock, the registry's collector |

Builds are not reproducible: `MadeFrom` maps a manifest to the input it is a
build of. An hour (a finished Job's TTL) is longer than the largest backoff, a
pass and an informer's lag, so `JobExpires` waits for those; a Job that expires
unread is the disturbance `ttl`, and one whose image got some of its names and
was never recorded, so that nothing knows it for the object's own any more, is
`ttl-half-named`.

### FluxSource, LayerCache

`FluxSource` models what the code checks of a source (`checkCurrent`,
`RevisionMatches`) and what source-controller does to it: a tarball is stored,
then named in status; a revision is packed again; old ones are pruned; a failure
is reported. `Reports` is what its kind reports of itself: a source without an
observedGeneration or without a condition Ready is believed.
`LayerCache` adds passes of several objects over one cache, each
step of `Path` and `pullFromRemote` an action: look in the local tier, open the
remote, verify, admit or drop, download, store, share, read. Tiers hold *bytes
under a digest*, and the remote may hold the wrong ones.

### BuildPod

`job[t]` is the Job of the tarball its hash was made from, with the uid of its
incarnation; `owner[t][k]` who owns the Secret of kind `k` (the object, a Job's
uid, or nobody). `Begin`, `CreateSecret`, `CreateJob`, `AdoptSecret`,
`FinishPass` are `startBuild`'s calls in order, `AbandonPass` its death or
failure between any two. `Receive`, `TryAgain` and `Refused` are
`fetchcontext` against the proxy, which serves what the source names *now* and
answers 403, which is final, to a token that is wrong or that it could not read.
`HasTimeout` says whether the Job has a deadline.

### RefExport

One cell `cm[n]` per namespace, with whose labels it carries and which digest
it names; `record` is `status.refExport`; `at` is what the pass has in memory.
The two kinds differ where the code does: an ImageComposition always has a
finalizer, writes status before the export and patches the record at once; an
ImageBuild has a finalizer while its export is foreign, and carries everything
to its one patch.

### Retention, Attestation

Time is counted in refresh intervals. `age[i]` is how long an image went
unpulled; at `Window` the registry has deleted it. `Cycle` skips if any object
is pending, otherwise pulls everything every status names; `failures`, `skips`
and `loud` are the counters and who has been warned of. `Attestation` adds the
passes: `Publish`, `Attest`, `Record` and `Lease` (RefreshNow) in the order each
kind has them, or `Reconverge`, where a composer finds its image already there,
attests it, and adds nothing to history and takes no lease; `attested` is
`status.attestations`, `sbom` and `sig` what the registry holds.

The window is on a clock of its own for each image. A publish of content the
registry already has does not renew it: `carried` marks such images until their
first pull, and the properties do not speak of them (section 6).

### BuildPlan, Assembly

Pure functions of a spec, stated as operators and driven by actions that edit
the spec and what it refers to. `BuildPlan`: resolution, `Hash`, the arguments,
volumes and mounts of the Job (`RecipeNow`, `Pod`); one Job is followed, and
adopted again when its hash returns. `Assembly`: `InputHash`, modes, whiteouts,
base and platforms to `Image`, and archives. What one entry makes is a function
from paths to nodes, at the place `Place` gives it (strip, then subpath). The
composer's `Extracted` merges these functions with the first of a path winning
(`EarliestOf`), for `buildLayerTarGz` sorts the entries and keeps the first of a
name; the builder's `Tree` with the last (`LatestOf`), for `writeEntry` truncates,
and not at all if one entry is in the way of a later one (`Obstructed`).
`Checked` is what `FetchDockerfile` finds in the same archive.

## 3. Runs

Sizes are distinct states. Every run takes under three minutes with two workers.

| Run | Properties | What is small, and why it is enough |
|---|---|---|
| `composition_faults` (1.4 M) | `TypeOK`, `ClaimedIsServed`, `UniqueHistory`, `ConflictEndsInAgreement`; implements `Publishing` (`KeepsItsPromise`) | two tags, two inputs, one foreign digest, lagging cache, attestation off (the default), any two disturbances but expiry |
| `composition_ready` (0.3 M) | `ReadyMeansPublished`, `HistoryOnlyEvicts`, `OnlyLossRetires` | a third input with the output of the second; history limit 2, from fresh status, one from before ADR 0060 and a full list; current cache, attestation on, edits between passes, any three faults |
| `composition_settles` (0.7 M) | `Settles` (liveness) | any three disturbances, expiry included; attestation off, no Keep |
| `build_faults` (6 M) | `TypeOK`, `ClaimedIsServed`; implements `Publishing` (`KeepsItsPromise`) | two inputs with one build each and foreign content (three digests), one spec for each policy, caches of object and Jobs lag independently, a collector |
| `build_ready` (1.1 M) | `ReadyMeansBuilt`, `FailedJobIsKept` | four digests (the first input builds to either of two), current caches, any three disturbances, edits mid-pass included |
| `build_settles` (0.6 M) | `RebuildsOnlyLost`, `Converges` (liveness) | four digests, every policy; any two of edits, losses, failing builds, Jobs expired unread, vanished pods |
| `sources` (87 k) | `LocalIsVerified`, `PinnedContent`, `NeverYesterdays`, `Follows` (liveness) | two objects (one pinned) over one cache, two revisions, one packed twice; two disturbances |
| `pod` (155 k) | `BuiltFromHashed`, `SecretsOutlivePod`, `JobsEnd`, `SecretsReclaimed` (liveness) | two Secrets, two fetch attempts, two incarnations of Jobs, three tarballs |
| `export` | `NeverAheadOfStatus`, `NoOrphan`, `NeverOverwrites`, `ExportFollows` (liveness) | own, one permitted and one refused namespace, either kind, two digests, two incarnations, four disturbances |
| `upkeep` (0.6 M) | `QuietMeansFresh`, `NeverSilent`, `Forgotten`, `Kept`, `AttestedInTheEnd` (liveness) | one object with two images beside one that is stalled; warning after 2 (3 in the code), window 9: the smallest the margin allows with one reset |
| `identity` (0.2 M) | `AdoptedJobFits`, `OnlyChangesRebuild`, `PodFits`, `SameHashSameImage`, `PlacedAlike`, `CheckedIsBuilt` | one alternative or two of every field that is hashed, two builder edits, three composer edits; archives with two orders of one tree, re-rooted, escaping and duplicate names, names that only stripping makes duplicates, and a file longer than is checked |
| `upkeep_signature` | **violated**: `RecordIsTrue` | as `upkeep`, with a signing key and one disturbance |

The bounds. Every behaviour that breaks a mutant needs one or two disturbances;
two put a fault into the pass that repairs the first, and three are used where
the state space allows. The histories that matter - a full list, which the next
new digest overflows (`FullStatus`, in `composition_ready`), a tag list that
grows and shrinks, a conflict on the first or the second tag, a rebuild
that reproduces an older digest, a status from before ADR 0060, a repository that
holds nothing, foreign content or the old image - are initial states or inputs of
the two controllers' instances. The proofs (section 4) remove the bounds for the
properties they state.

`CHECK_DEADLOCK FALSE`: an object that is Stalled or Suspended, or a system with
no disturbance left, really has nothing to do.

**What the runs leave out on purpose**

* Expiry is absent from the two `_faults` runs, because nothing can serve what
  the registry dropped; it is in the two `_settles` runs, but for what a stalled
  object (a build's, one without a Job) was refused for (`expire-stalled`): the
  registry wakes nobody, so such an object waits for its next event.
* `composition_ready` has edits only between passes and attestation on;
  `composition_settles` leaves out Keep. Section 6 says what TLC finds otherwise.
* `Converges` allows an object to be refused for a tag that means something else
  than what it has to offer: its succeeded Job's image, or without one the image
  on record. So a refused build need not be at rest: it builds and is refused
  again each hour (section 6, 7), also where part of its names was lost and the
  rebuild is another digest. `ttl-half-named` is in `build_faults` and
  `build_ready` only: a controller that is down for an hour after it wrote a tag
  and before it recorded the image meets, under Fail and Keep, a tag it wrote
  itself and takes for another's, for good.
* `NeverYesterdays` is about sources that report their observedGeneration and
  Ready; `JobsEnd` about Jobs with a deadline, which the CRD's default timeout
  gives: a `spec.timeout` of zero sets none.
* `CheckedIsBuilt` is about Dockerfiles that are read whole (section 6, 15).
* A layer whose ConfigMap is absent or empty resolves to nothing; `composition`
  is the list of the others, and an empty one is refused.
* `composition_ready`, `composition_settles`, `build_ready` and `build_settles`
  have current caches. Under lag TLC refutes `Settles` (a pass that stalls as
  the *cached* object already did sends an empty patch, and the Progressing
  condition written in between stays, with no requeue), `HistoryOnlyEvicts` (a
  history computed on an older list replaces the newer, short of the limit), `OnlyLossRetires` (one
  marked on an older list brings a `lost` record back over a digest that was
  rebuilt meanwhile), `ReadyMeansBuilt` (a
  create answers AlreadyExists, and `applyOutcome` reads no buildRef as Ready
  until the Job's event arrives) and `FailedJobIsKept` (the delete goes by name).
* `IsBuilt` asks of a tag only that it exists, which is all `stillPublished`
  asks: a spec that gains a tag holding other content is reported Ready.
* `NoOrphan` and `NeverAheadOfStatus` speak of compositions, and both allow
  `lost`: what a pass wrote and died before recording. `SecretsOutlivePod`
  allows `hasty`, and `AdoptedJobFits` a Dockerfile edited under its own pass
  and the naming of a secret (section 6).

**Fairness.** Each controller's steps are weakly fair: the workqueue hands every
queued object to a worker, every request ends (client timeouts), informers
deliver. Time passes: `Elapse`, `Interval`, and a finished Job's hour, which is
`SF_vars(JobExpires(i))` because it runs on however often a pass interrupts the
states in which the model lets it end. A Job has an active deadline, so
`JobSucceeds(i)` and a pod's step are weakly fair, and failing builds are
disturbances, of which there are finitely many. Source-controller stores and
announces the wanted revision, and the API server's collector collects.
`RefExport` has `SF_vars(Publish)`: an input that can be resolved again and again
is not Pending for ever, nor a build in flight for ever. A registry that broke is
mended (`Mend`). Nothing else is assumed of users or other writers.

## 4. What is proved

For every set of objects, tags, manifests, inputs, specs, namespaces, images,
tarballs and Secrets, every history limit, window and number of disturbances,
lagging caches or not, unless a hypothesis is given below. The constants are
typed by named assumptions, which TLC evaluates on the instances: no absence is
also an input, a conflict or a Job (`AbsenceAssumption`, `JobAssumption`), specs
are what the CRD admits (`VariantsAssumption`, `LayersAssumption`), a volume of a
Secret is not named like the Job's own (`NamesAssumption`: the code prefixes it),
and source-controller packs one revision with the same content
(`RepackedAssumption`, the premise of `LayerInput.Identity`). What a source's kind
reports and whether a Job has a deadline are parameters (`ReportsAssumption`,
`TimeoutAssumption`). Archives are
sequences of entries, their paths sequences of names (`ArchivesAssumption`), and
a layer has one verb (`LayersAssumption`; the CRD's XValidation).

**`CompositionProofs`, `ImageBuildProofs`** (on the lemmas of `ReconcilerProofs`)

* `TypeCorrect`: `Spec => []TypeOK`.
* `ClaimsAreServed`: `Spec => []ClaimedIsServed`, where nothing expires and the
  initial statuses claim only what is served. The property is not inductive: a
  patch merges the server's status, the cache's and the one the pass computed,
  so `ServedInv` says the same of all of them and of the result in hand.
* `OnlyOverwriteMovesTags`: `TagsInv` carries the outcome of the conflict check
  from the grant through every tag write.
* `HistoryIsUnique` (composition): `HistoryInv` adds the cached history and the
  pass's own.
* `FailedJobsAreKept` (build, current caches): the pass decides on the attempt
  it read when it began; `FreshInv` says that is still what the server says.

What an object says of itself needs more of the world, and each theorem names
what it needs as a hypothesis on `Disturbances` and the first status. Without
current caches TLC refutes most of these (section 3); where passes read, edit
and patch one object, `CurrentAlways` / `PassCurrent` say that what the pass has
is still what the server has.

* `HistoryLosesOnlyToTheLimit`, `RetiredAreGone` (composition, current cache):
  `HistoryOnlyEvicts` - what is recorded goes to the head, the rest keeps its
  order, and only the last of a full list leaves it - and `OnlyLossRetires`
  follow step by step from what `RecordHistory`, `MarkHistory` and the merge
  patch each do to one entry.
* `ConflictsEndInAgreement` (composition; no hypothesis, any lag, attestation on
  or off): `AgreementInv` - a result in hand without a conflict is one of a pass
  that wrote every tag, or that saw every tag mean what it reports.
* `ReadyAlwaysPublished` (composition; besides, nobody moves the object's tags
  or sources, nothing expires, edits fall between passes): `ReadyInv` says that
  a pass that changes tags has withdrawn Ready, that what it saw free is free or
  its own, that every tag is written or still to be, and that what the cheap
  path reports carries its own tag.
* `HashAlwaysNamesContent`, `ReadyAlwaysBuilt`, `OnlyLostIsRebuilt` (build).
  `BuildInv`: the hash ties a status, a Job and a pass to the same inputs.
  `ReadyInv` adds what a pass has left to name (`LeftToWrite`) and that one which
  is done has it all (`DoneMeansBuilt`); here edits mid-pass, crashes, lost
  answers, foreign tag moves and failing Jobs are all allowed. `LostInv`: a pass
  that goes to the Job although status records its inputs has found something
  `Missing`, and nothing but another writer can bring it back under it.
* `ImplementsPublishing`: `Spec => KeepsItsPromise`, under the hypotheses of
  `ClaimsAreServed`. Each action is mapped to `Look`, `Grant`, `Write`,
  `Finish`, `Record`, `Other` or a stutter; `ServedInv` gives `Honest`, `TagsInv`
  gives `Grant` its guard, and `PassAssumption` (no pass is `None`) separates a
  pass from no pass.

**`SourcesProofs`**: `LocalAlwaysVerified`, `ContentIsPinned`,
`NeverTakesYesterdays` (of a source that reports its observedGeneration and
Ready), `SourcesTypesAlways`. `SourceHonest` is what
source-controller keeps true for every reader (`BuildPodProofs` uses it too);
`InHand` says
what a pass holds at each step - past verification its bytes are those of the
digest it wants, past the store the local tier's are - so no other object's pass
or a corrupt tier can put anything else where a hit is not hashed.

**`BuildPodProofs`**: `AlwaysBuiltFromHashed`, `SecretsAlwaysOutlivePod`,
`PodTypesAlways`. `Owned` says that whoever owns a Secret is an incarnation of
its own build's Job, and uids are not reused; `Supplied` that a build that found
no older Secrets has all of its own, or is still creating them.

**`RefExportProofs`**: `OthersNeverOverwritten`, `ExportNeverAhead`,
`GoneLeavesNoOrphan`. `Guarded` (past the finalizer step there is one),
`Remembered` (the pass has the record in memory until what it names is gone),
`Accounted` (every foreign export is recorded, in a pass's hands or written off)
and `Behind` (none of them names more than status) are inductive together.

**`RetentionProofs`**: `QuietAlwaysFresh`, `WarningComesFirst`,
`UpkeepTypesAlways`. As long as nothing warned of an object, both counters are
below the threshold D (`Warned`), and what it names went unpulled for at most
`Bound` = D*D*resets + D*failures + skips (`FreshRefs`). A cycle that skips
trades an interval for a skip, one that fails trades at most D skips for a
failure, one that succeeds makes every age 0; a restart or an early success of
`RefreshNow` clears a counter and is counted as a reset, worth all the counters
can hide. `Held` covers what a pass publishes before status names it. With
`MarginAssumption` (the window is longer than D*D intervals for each reset and
once more) the bound ends before the window: the warning comes first.

**`IdentityProofs`** (on `BuildPlan` and `Assembly`), for every set of specs,
configurations, archives and base images and any number of edits:

* `AdoptedBuildsAsAsked`, `UnchangedIsFound`: the hash and what a Job is told
  determine each other. `JobInv` remembers, of the Job that is followed, the
  inputs it is named after, the object it was started for and the versions its
  Secrets had when it mounted them; those only grow (`SecretsGrow`), so a version
  hashed before and after was mounted in between. `Asked` is the recipe as a
  function of the hashed inputs (`RecipeIsAsked`); `SameAskedSameHash` is the way
  back, for which no Secret may be named twice (`VolumesNameOnce`: a pod of such
  an object names a volume twice and is refused).
* `PodsFit`: the volumes of each part of a pod (`VolumesOf`).
* `HashDeterminesImage`: `PublishedFits` remembers the inputs an image was made
  of; inputs of one hash give one layer on each platform (`SameHashSameLayer`),
  whether by digest, by revision or read from an image index, and the platforms
  a base image names are settled by its digest. What extraction computes is not
  opened: it is the same function of the same arguments.
* `ComposerAndBuilderPlaceAlike`, `FileCheckedIsFileBuilt`: of archives of any
  length, paths of any depth, every strip, subpath and target. Both sides merge
  what the entries make (`EarliestMerges`, `LatestMerges`: at every path some entry
  decides), and where entries keep apart (`Treelike`, after stripping) only one
  entry can decide a path that is no directory, so both hold the archive's
  `Leaves` (`FilesAreLeaves`), the composer under its target, which keeps apart
  what was apart (`UnderTarget`). `FoundWhereItLands`: looking for subpath and
  name in the stripped archive finds what lands at the name under the subpath.
  Without `Treelike` both are false (section 6, 14).

**Only model-checked.** Liveness and fairness (`Settles`, `Converges`,
`Follows`, `JobsEnd`, `SecretsReclaimed`, `ExportFollows`, `Forgotten`, `Kept`,
`AttestedInTheEnd`) are out of the prover's reach, and so is the library's
induction, whose predicate is a parameter. The models are written without
recursion; the one place that needs induction, that a set of positions in an
archive has a first and a last, has it from the well-foundedness of `<` (`Least`,
`Greatest`). Every type, safety and action property of a passing run is stated by
a theorem.

## 5. Finding with a run

`upkeep_signature`: `refsOf` names digests and tags, never the
`sha256-<hex>.sig` tag a signature is stored under. The refresher keeps the image
alive and lets the signature reach the window; `status.attestations`, which
`Complete` and `signBuild` believe, goes on naming it, and nothing signs again.
`refresher.go:332-333` says "Cosign's .sig is a tag, so keepTags covers it" -
but keepTags *is* the window - and `attestor.go:30-32` that trusting the record
is safe. Without a key the record is also untrue for a while when an image is
lost and published again and the pass dies before `Ensure`.

## 6. Where the code does otherwise than its documents

Found while modelling. Those marked (TLC) are properties defined in the modules
that TLC refutes; the setting is given against the named run's configuration.

Composition:

1. (TLC: `composition_ready` with `AttestEnabled = FALSE`, `DivergenceIsRecorded`)
   `Reconcile` copies `result.Conflict` on every success and the cheap path
   returns none. Without attestation, which is the default, the cheap path
   matches the image a Keep left in place: the next pass clears the divergence
   that ADR 0029 has on record, and reports the kept image as Published, against
   ADR 0061 (`ReadyMeansPublished` there). onConflict is not hashed either, so
   changing it to Overwrite then moves no tag until the inputs change. What a
   conflict's withdrawal does mean is `ConflictEndsInAgreement`. With attestation
   the kept image is never complete, and the divergence stays.
2. (TLC: `Specs <- FailSpecs`, `InitSpec <- FailSpec`,
   `InitRepositories <- TakenOnly`, `Disturbances = {"head"}`, `FailNeverMovesTag`)
   `ResolvePublished` reads a failed HEAD as an absent tag: one hiccup turns
   `onConflict: Fail` into Overwrite for that pass.
3. (TLC: `Specs <- OverwriteSpecs`, `Disturbances = {"edit-in-pass"}`,
   `ReadyMeansPublished`) `patchStatus` stamps the generation of the latest
   object, not of the one the pass reconciled.
4. `LayerInput.Name` is documented as not part of the output, but is in the
   manifest's provenance annotations: `SameHashSameImage` compares images
   without them.
5. Dropping `spec.platforms` over a layer that is an image index keeps the hash,
   so the object stays Ready though it would no longer assemble.

Build:

6. (TLC: `build_settles`, `Specs <- OverwriteSpecs`,
   `Disturbances = {"edit", "source"}`, `InFlightEnds`) The converged path leaves
   `status.buildRef` alone: inputs edited away and back leave the object
   reporting a build in flight for good.
7. (TLC: `build_settles`, `Specs <- FailSpecs`, `InitSpec <- FailSpec`,
   `Disturbances = {"edit"}`, `BuildsEnd`) The check before the build exempts the
   object's own previous digest, the check after it refuses; the stalled object
   is woken when the refused Job's TTL deletes it, and builds again, each hour.
8. (TLC: `build_settles`, `Specs <- OverwriteSpecs`,
   `Disturbances = {"source", "source-in-pass"}`, `HashNamesContent`) A Dockerfile
   ConfigMap edited between the hash and the Job, and edited back, has the edit's
   image recorded under the original's hash.
9. A secret's `id` and `key` are not hashed, though `inputhash.go:20` has Inputs
   be everything that determines a build's output; `AdoptedJobFits` leaves them
   out. Two `secrets` entries that name one Secret give two volumes of one name,
   and a Job the API server refuses for ever; named twice with the same version
   they also change the hash of a build that is told nothing else, so
   `OnlyChangesRebuild` speaks of objects whose pod is accepted.
10. The artifact's digest is hashed, so a source-controller re-pack of one
    revision rebuilds; `provenance_test.go:47-48`, `inputhash.go:40-41` and ADR
    0059:40 say it does not, CHANGELOG:730-732 and `resolve.go:65-67` that it does.
    The composer's identity by revision assumes in turn that the source's ignore
    and include rules did not change.
11. With an explicit `cache.ref`, or cache Disabled, a changed `push.repository`
    keeps the hash, and the Job that pushed to the old repository is adopted.
12. `jobName` keeps the last 63 characters and `currentJob` does not check the
    owner: two objects may share a Job's name.
13. A pass that finds the Secrets of an earlier Job of the same inputs, which the
    collector has not taken yet, neither replaces nor adopts them; the collector
    takes them and the pod waits for `activeDeadlineSeconds` (`hasty`). "Credentials
    must exist before the pod that mounts them" does not hold there. AlreadyExists,
    too, ends a pass without adopting what it made.
14. (TLC: `identity`, without `Treelike` in `PlacedAlike` and `CheckedIsBuilt`) An
    archive that names a file twice, or two files that stripping gives one name:
    the composer keeps the first, the checker reads the first, the builder keeps
    the last, against `build/context.go:79-80`.
    A subpath with a leading `/` is accepted by Extract and never matched by
    FetchDockerfile.
15. Of a Dockerfile longer than 1 MiB only the first MiB is checked and the whole
    is built; one past the first 64 MiB of the archive is never reached, and every
    pass fails (`build/context.go:20-27`).
16. The proxy answers 403 also when it failed to read the token
    (`contextproxy.go:104-108`), and `fetchcontext` takes a 403 for final: one
    failed read of the API server fails the Job.

Export, retention:

17. An ImageBuild's export moved from a foreign to its own namespace: the
    finalizer goes (`imagebuild_controller.go:1025`) while status still records
    the foreign ConfigMap, and a deletion then strands it (`NoOrphan` without its
    restriction to compositions is refuted).
18. The delete of an export has no precondition (`refexport.go:160-180`): what
    someone puts there between its read and the delete goes with it. Exports of
    `a-b`/`c` and `a`/`b-c` share a name (`refexport.go:44-46`).
19. After `push.repository` changes, the refresher looks retained history up in
    the new repository and no longer protects the old one.
20. `refreshReferrers` swallows failures, so without subject-bound retention an
    untagged referrer may expire while its image lives.
21. Content that a publish finds in the registry keeps its old timestamp until
    its first lease; if that fails, what status names may be nearer to the
    window than any counter knows (`carried`).

## 7. Not modelled, and why

* Credentials, default registry and transport are look-ups without state; a
  failure of one is one of the failed requests of the models.
* Process wiring, flags, leader election: one leader and one pass per object at
  a time are assumed.
* Charts, CRDs, generated deep copies: data. The CRD's validation bounds the
  specs the models start from; the chart's minimum ratio is `MarginAssumption`.
* Byte-level work: tar headers, compression, deb, hashing, HTTP, S3 signing,
  in-toto statements, SBOM contents and signatures. A digest stands for content;
  what the repository's unit tests cover well is left to them.
* The parsing of FROM lines and tag names: a Dockerfile is pinned or not, a tag
  is a value. The network guard filters addresses and keeps no state.
* Several objects in one *repository* with different specs are each other's
  foreign writers (`ForeignPush`); one refresher over several repositories is not
  modelled (19).
