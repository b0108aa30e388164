----------------------------- MODULE BuildPlan ------------------------------
(***************************************************************************)
(* What one ImageBuild is hashed from and what its Job then does: the      *)
(* inputs a pass resolves, the hash that names the Job, the arguments,     *)
(* volumes and mounts of the pod.  Passes, Jobs and tags are ImageBuild's;  *)
(* here one Job is followed while the spec, the operator's configuration   *)
(* and what the spec refers to change around it, and a later pass adopts   *)
(* it whenever the hash comes back.                                        *)
(*                                                                         *)
(* A hash is the tuple of what is written into it; a digest stands for     *)
(* its content.                                                            *)
(***************************************************************************)
EXTENDS Naturals, Sequences, FiniteSets

CONSTANTS
  None,
  First,        \* the object as it was created
  Variants,     \* per field of an object, the values an edit may give it
  Configs,      \* what the operator runs: images, attestations, epoch, policy
  Texts,        \* what a Dockerfile may say
  Pinned,       \* the Texts whose every FROM is pinned by digest
  Trees,        \* what a Flux source may serve: [revision, digest]
  SecretNames,
  MaxChanges

ASSUME FirstAssumption   == \A f \in DOMAIN Variants : First[f] \in Variants[f]
ASSUME TextsAssumption   == Pinned \subseteq Texts
ASSUME ChangesAssumption == MaxChanges \in Nat

(* The CRD's enums and defaults; and no reference is None.                  *)
ASSUME VariantsAssumption ==
  /\ DOMAIN First = DOMAIN Variants
  /\ {"name", "network", "secrets", "cache", "repository"} \subseteq DOMAIN Variants
  /\ Variants["network"] \subseteq {"Sandbox", "None"}
  /\ \A v \in Variants["secrets"] :
       v \in Seq({v[i] : i \in DOMAIN v}) /\ \A i \in DOMAIN v : v[i].name \in SecretNames
  /\ \A v \in Variants["cache"] : v.mode \in {"Auto", "Disabled"} /\ <<v.ref>> # None
  /\ \A r \in Variants["repository"], n \in Variants["name"] : <<r, "-buildcache-", n>> # None

(* The volumes of a pod but for its secrets', which "secret-" keeps apart.  *)
FixedVolumes ==
  {"context", "result", "dockerfile", "docker", "registry-ca", "ca-bundle", "context-token"}

ASSUME NamesAssumption == SecretNames \cap FixedVolumes = {}

VARIABLES
  obj,       \* metadata and spec of the ImageBuild
  config,    \* JobConfig, and --require-pinned-sources
  source,    \* the artifact of the Flux source
  configMap, \* the text under the key, or None
  secret,    \* resourceVersion of each Secret, 0 while there is none
  pass,      \* the running pass: the object it read, what it resolved
  job,       \* the Job that is followed
  changes    \* model only

planVars == <<obj, config, source, configMap, secret, pass, job, changes>>

-----------------------------------------------------------------------------
(* resolveInputs: what a pass hashes, from the API server alone.            *)

Values(s) == {s[i] : i \in DOMAIN s}

RevisionMatches(want, has) == want = None \/ want = has

(* resolveContext and resolveSourceRef: the source must be in the object's  *)
(* own namespace, pinned if the operator asks, and at the revision named.   *)
ContextResolves(o) ==
  o.context.kind = "sourceRef" =>
    /\ o.context.namespace \in {None, "own"}
    /\ config.requirePinned => o.context.revision # None
    /\ RevisionMatches(o.context.revision, source.revision)

(* resolveDockerfile: a ConfigMap cannot be pinned.                         *)
DockerfileResolves(o) ==
  o.dockerfile.kind = "configMap" => ~config.requirePinned /\ configMap # None

Resolves(o) ==
  /\ ContextResolves(o)
  /\ \A s \in Values(o.secrets) : secret[s.name] > 0
  /\ DockerfileResolves(o)

(* An image is known by its digest alone, whatever tag it is spelled with;  *)
(* only a fetch strips, only a fetch names its unpack mode.                 *)
ContextOf(o) ==
  LET c == o.context
  IN CASE c.kind = "sourceRef" ->
            [kind |-> c.kind, digest |-> source.digest, revision |-> source.revision,
             subpath |-> c.subpath, strip |-> 0, unpack |-> None]
       [] c.kind = "fetch" ->
            [kind |-> c.kind, digest |-> c.digest, revision |-> None,
             subpath |-> c.subpath, strip |-> c.strip, unpack |-> c.unpack]
       [] c.kind = "image" ->
            [kind |-> c.kind, digest |-> c.digest, revision |-> None,
             subpath |-> c.subpath, strip |-> 0, unpack |-> None]
       [] OTHER ->
            [kind |-> "none", digest |-> None, revision |-> None,
             subpath |-> None, strip |-> 0, unpack |-> None]

EffectiveDockerfile(o) ==
  IF o.dockerfile.kind = "path" /\ o.dockerfile.path # None THEN o.dockerfile.path ELSE "Dockerfile"

(* Inline and ConfigMap text is hashed itself; a path is covered by the     *)
(* context's digest.                                                        *)
DockerfileOf(o) ==
  CASE o.dockerfile.kind = "inline"    -> [kind |-> "inline", path |-> None, text |-> o.dockerfile.text]
    [] o.dockerfile.kind = "configMap" -> [kind |-> "configMap", path |-> None, text |-> configMap]
    [] OTHER -> [kind |-> "path", path |-> EffectiveDockerfile(o), text |-> None]

(* Never shared between objects unless the spec names it.                   *)
CacheRefFor(o) ==
  IF o.cache.mode = "Disabled" THEN None
  ELSE IF o.cache.ref # None THEN <<o.cache.ref>>
  ELSE <<o.repository, "-buildcache-", o.name>>

ArgsOf(o) ==  \* a map: the last value of a name wins
  [n \in {a.name : a \in Values(o.args)} |->
     LET last == CHOOSE i \in DOMAIN o.args :
                   /\ o.args[i].name = n
                   /\ \A j \in DOMAIN o.args : j > i => o.args[j].name # n
     IN o.args[last].value]

InputsOf(o) ==
  [config     |-> config,
   context    |-> ContextOf(o),
   dockerfile |-> DockerfileOf(o),
   target     |-> o.target,
   network    |-> o.network,
   cacheMode  |-> o.cache.mode,
   cacheRef   |-> CacheRefFor(o),
   platforms  |-> o.platforms,
   args       |-> ArgsOf(o),
   secrets    |-> [i \in DOMAIN o.secrets |-> <<o.secrets[i].name, secret[o.secrets[i].name]>>]]

(* Sorted, so that a name and version is written as often as it is named.   *)
Counts(in) ==
  {<<s, Cardinality({i \in DOMAIN in.secrets : in.secrets[i] = s})>> : s \in Values(in.secrets)}

(* Mutants: provenance is hashed; what a fetch strips is not. *)
HashOfRevision(in) ==
  <<in.config, in.context, in.dockerfile, in.target, in.network, in.cacheMode, in.cacheRef,
    in.platforms, in.args, in.secrets>>
HashWithoutStrip(in) ==
  <<in.config, in.context.kind, in.context.digest, in.context.subpath, in.context.unpack,
    in.dockerfile, in.target, in.network, in.cacheMode, in.cacheRef, in.platforms, in.args,
    Counts(in)>>

(* Inputs.Hash: the revision is provenance, and the secrets are sorted.     *)
Hash(in) ==
  <<in.config.builder, in.config.frontend, in.config.fetcher, in.config.attest, in.config.epoch,
    in.context.kind, in.context.digest, in.context.subpath, in.context.strip, in.context.unpack,
    in.dockerfile, in.target, in.network, in.cacheMode, in.cacheRef, in.platforms, in.args,
    Counts(in)>>

-----------------------------------------------------------------------------
(* The Job: fetchContextArgs, buildctlArgs, buildVolumes, buildJob.         *)

Projected(o) == o.dockerfile.kind \in {"inline", "configMap"}

(* startBuild mints a token only where the pod will use the proxy.          *)
ThroughProxy(o) == o.context.kind = "sourceRef" /\ config.proxy

(* The Secrets startBuild makes or finds before the Job.                    *)
Minted(o) ==
  [push |-> config.pushSecret, ca |-> config.ca,
   dockerfile |-> Projected(o), token |-> ThroughProxy(o)]

SecretVolumes(o) == [i \in DOMAIN o.secrets |-> o.secrets[i].name]

(* Mutant: only an inline Dockerfile gets its volume. *)
BuildVolumesInline(o, minted) ==
  <<"context", "result">>
    \o (IF o.dockerfile.kind = "inline" THEN <<"dockerfile">> ELSE <<>>)
    \o (IF minted.push THEN <<"docker">> ELSE <<>>)

BuildVolumes(o, minted) ==
  <<"context", "result">>
    \o (IF Projected(o) THEN <<"dockerfile">> ELSE <<>>)
    \o (IF minted.push THEN <<"docker">> ELSE <<>>)

CAVolumes(minted) == IF minted.ca THEN <<"registry-ca", "ca-bundle">> ELSE <<>>

TokenVolume(minted) == IF minted.token THEN <<"context-token">> ELSE <<>>

(* What the arguments, the environment and the script of a container name.  *)
BuildNeeds(o, minted) ==
  {"context", "result", IF Projected(o) THEN "dockerfile" ELSE "context"}
    \cup (IF minted.push THEN {"docker"} ELSE {})
    \cup (IF minted.ca THEN {"registry-ca", "ca-bundle"} ELSE {})
    \cup Values(SecretVolumes(o))

FetchNeeds(o) == {"context"} \cup (IF ThroughProxy(o) THEN {"context-token"} ELSE {})

Mounts(o, minted) ==
  Values(BuildVolumes(o, minted)) \cup Values(SecretVolumes(o)) \cup Values(CAVolumes(minted))

FetchMounts(minted) == {"context"} \cup Values(TokenVolume(minted))

Pod(o, minted) ==
  [volumes |-> BuildVolumes(o, minted) \o SecretVolumes(o) \o CAVolumes(minted)
                 \o TokenVolume(minted),
   build |-> [needs |-> BuildNeeds(o, minted), mounts |-> Mounts(o, minted)],
   fetch |-> IF o.context.kind = "none"
             THEN [needs |-> {}, mounts |-> {}]
             ELSE [needs |-> FetchNeeds(o), mounts |-> FetchMounts(minted)]]

(* "--secret id=,src=": the file of a key, the id by default.               *)
SecretMounts(o) ==
  {[id |-> s.id, name |-> s.name, key |-> IF s.key = None THEN s.id ELSE s.key,
    version |-> secret[s.name]] : s \in Values(o.secrets)}

(* Everything the two containers are told that decides the image: not the   *)
(* way it travels (transport, credentials, whether a cache was there to     *)
(* import), nor who runs it and for how long - nor where it is pushed: with *)
(* the cache disabled, or a ref of its own, an edited push.repository leaves *)
(* the hash as it is, and a Job that pushed elsewhere may be adopted.       *)
Recipe(o, in, text) ==
  [images     |-> <<in.config.builder, in.config.frontend, in.config.fetcher>>,
   attest     |-> in.config.attest,
   epoch      |-> in.config.epoch,
   context    |-> <<in.context.kind, in.context.digest, in.context.subpath,
                    in.context.strip, in.context.unpack>>,
   dockerfile |-> IF Projected(o) THEN <<o.dockerfile.kind, text>>
                  ELSE <<"path", EffectiveDockerfile(o)>>,
   target     |-> o.target,
   noNetwork  |-> o.network = "None",
   platforms  |-> o.platforms,
   args       |-> ArgsOf(o),
   cacheRef   |-> CacheRefFor(o),
   secrets    |-> SecretMounts(o)]

(* dockerfileBytes: the ConfigMap is read again.                            *)
DockerfileBytes(o) ==
  CASE o.dockerfile.kind = "inline"    -> o.dockerfile.text
    [] o.dockerfile.kind = "configMap" -> configMap
    [] OTHER                           -> None

-----------------------------------------------------------------------------
PlanInit ==
  /\ obj = First
  /\ config \in Configs
  /\ source \in Trees
  /\ configMap \in Texts
  /\ secret \in [SecretNames -> {0, 1}]
  /\ pass = None
  /\ job = None
  /\ changes = 0

Change == changes < MaxChanges /\ changes' = changes + 1

(* The user edits one field of the spec.                                    *)
Edit ==
  /\ Change
  /\ \E f \in DOMAIN Variants : \E v \in Variants[f] :
       v # obj[f] /\ obj' = [obj EXCEPT ![f] = v]
  /\ UNCHANGED <<config, source, configMap, secret, pass, job>>

(* The operator upgrades or reconfigures the controller, which restarts.    *)
Upgrade ==
  /\ Change
  /\ \E c \in Configs : c # config /\ config' = c
  /\ pass' = None
  /\ UNCHANGED <<obj, source, configMap, secret, job>>

MoveSource ==
  /\ Change
  /\ \E t \in Trees : t # source /\ source' = t
  /\ UNCHANGED <<obj, config, configMap, secret, pass, job>>

EditConfigMap ==
  /\ Change
  /\ \E t \in Texts \cup {None} : t # configMap /\ configMap' = t
  /\ UNCHANGED <<obj, config, source, secret, pass, job>>

Rotate ==
  /\ Change
  /\ \E s \in SecretNames : secret' = [secret EXCEPT ![s] = @ + 1]
  /\ UNCHANGED <<obj, config, source, configMap, pass, job>>

(* The Job's TTL.                                                           *)
Expire ==
  /\ job # None
  /\ job' = None
  /\ UNCHANGED <<obj, config, source, configMap, secret, pass, changes>>

Resolve ==
  /\ pass = None
  /\ Resolves(obj)
  /\ pass' = [obj |-> obj, in |-> InputsOf(obj)]
  /\ UNCHANGED <<obj, config, source, configMap, secret, job, changes>>

(* A request failed, a FROM is not pinned, or the API server refuses a Job  *)
(* that names one volume twice.                                             *)
GiveUp ==
  /\ pass # None
  /\ pass' = None
  /\ UNCHANGED <<obj, config, source, configMap, secret, job, changes>>

(* currentJob finds it: the pass goes on to observe it.                     *)
Adopt ==
  /\ pass # None
  /\ job # None /\ job.hash = Hash(pass.in)
  /\ pass' = None
  /\ UNCHANGED <<obj, config, source, configMap, secret, job, changes>>

UniqueVolumes(p) == \A i, j \in DOMAIN p.volumes : p.volumes[i] = p.volumes[j] => i = j

(* startBuild. A Job of another hash stays until its TTL: the one that is   *)
(* followed may be either.                                                  *)
Start ==
  /\ pass # None
  /\ job # None => job.hash # Hash(pass.in)
  /\ LET o    == pass.obj
         text == DockerfileBytes(o)
         pod  == Pod(o, Minted(o))
     IN /\ Projected(o) => text # None /\ text \in Pinned
        /\ UniqueVolumes(pod)
        /\ \/ job' = [hash    |-> Hash(pass.in),
                      recipe  |-> Recipe(o, pass.in, text),
                      pod     |-> pod,
                      edited  |-> Projected(o) /\ text # pass.in.dockerfile.text,
                      rotated |-> \E i \in DOMAIN o.secrets :
                                    secret[o.secrets[i].name] # pass.in.secrets[i][2]]
           \/ job # None /\ UNCHANGED job
  /\ pass' = None
  /\ UNCHANGED <<obj, config, source, configMap, secret, changes>>

PlanNext ==
  \/ Edit \/ Upgrade \/ MoveSource \/ EditConfigMap \/ Rotate
  \/ Expire \/ Resolve \/ GiveUp \/ Adopt \/ Start

PlanSpec == PlanInit /\ [][PlanNext]_planVars

-----------------------------------------------------------------------------
RecipeNow == Recipe(obj, InputsOf(obj), DockerfileBytes(obj))

(* Inputs does not know how a secret is named in the build: an edit of an   *)
(* id or a key alone does not rebuild.                                      *)
Hashed(recipe) ==
  [recipe EXCEPT !.secrets = {<<s.name, s.version>> : s \in recipe.secrets}]

(* inputhash.go: "Inputs is everything here that determines a build's       *)
(* output". A Job an object adopts, however long ago and for whatever spec  *)
(* it was started, does what the object asks for now - unless the ConfigMap *)
(* was edited under the pass that started it, or the naming of a secret     *)
(* changed since.                                                           *)
AdoptedJobFits ==
  job # None /\ Resolves(obj) /\ ~job.edited
    => (job.hash = Hash(InputsOf(obj)) => Hashed(job.recipe) = Hashed(RecipeNow))

(* ADR 0059: what does not change the build does not cause one - a retag, a *)
(* revision that names the same tarball, another spelling of a default, the *)
(* order of arguments or secrets. (An object that names one Secret twice is *)
(* not built at all.)                                                       *)
OnlyChangesRebuild ==
  job # None /\ Resolves(obj) /\ UniqueVolumes(Pod(obj, Minted(obj))) /\ ~job.edited /\ ~job.rotated
    => (job.recipe = RecipeNow => job.hash = Hash(InputsOf(obj)))

(* "Built in pairs so they agree": whatever a container's command names is  *)
(* mounted in it, every mount has its volume, and the context token is never *)
(* where a RUN line could read it.                                          *)
PodFits ==
  job # None =>
    /\ job.pod.build.needs \subseteq job.pod.build.mounts
    /\ job.pod.fetch.needs \subseteq job.pod.fetch.mounts
    /\ job.pod.build.mounts \cup job.pod.fetch.mounts \subseteq Values(job.pod.volumes)
    /\ "context-token" \notin job.pod.build.mounts

=============================================================================
