--------------------------- MODULE IdentityProofs ---------------------------
(***************************************************************************)
(* What BuildPlan.tla and Assembly.tla promise of a hash, for every set of *)
(* specs, configurations, texts, trees, Secrets, archives and base images  *)
(* and any number of edits: what a Job is told and the hash it is named    *)
(* after determine each other, as far as the hash goes; the hash of a      *)
(* composition determines its image; a Job's pod is put together right;    *)
(* and the composer and the builder place the files of an archive alike.   *)
(***************************************************************************)
EXTENDS FiniteSets, Assembly, BuildPlan, FiniteSetTheorems, SequenceTheorems, WellFoundedInduction, TLAPS

-----------------------------------------------------------------------------
(***************************************************************************)
(* Objects and passes.                                                     *)
(***************************************************************************)

(* What the CRD lets an object say, of the fields whose values matter here. *)
Admitted(o) ==
  /\ o.network \in {"Sandbox", "None"}
  /\ o.secrets \in Seq(Values(o.secrets)) /\ \A i \in DOMAIN o.secrets : o.secrets[i].name \in SecretNames
  /\ o.cache.mode \in {"Auto", "Disabled"} /\ <<o.cache.ref>> # None
  /\ <<o.repository, "-buildcache-", o.name>> # None

(* What in has of an object that does not depend on what the object refers to. *)
SaidBy(o, in) ==
  /\ in.target = o.target /\ in.network = o.network /\ in.platforms = o.platforms
  /\ in.args = ArgsOf(o) /\ in.cacheMode = o.cache.mode /\ in.cacheRef = CacheRefFor(o)
  /\ in.dockerfile = IF Projected(o)
                       THEN [kind |-> o.dockerfile.kind, path |-> None, text |-> in.dockerfile.text]
                       ELSE [kind |-> "path", path |-> EffectiveDockerfile(o), text |-> None]
  /\ DOMAIN in.secrets = DOMAIN o.secrets
  /\ \A i \in DOMAIN o.secrets : in.secrets[i] = <<o.secrets[i].name, in.secrets[i][2]>>

(* Versions only grow: what was hashed is no newer than what is there. *)
NotNewer(in) ==
  \A i \in DOMAIN in.secrets : in.secrets[i][2] \in Nat /\ in.secrets[i][2] \leq secret[in.secrets[i][1]]

Typed ==
  /\ DOMAIN obj = DOMAIN Variants /\ \A f \in DOMAIN Variants : obj[f] \in Variants[f]
  /\ secret \in [SecretNames -> Nat]

PassFits == pass # None => Admitted(pass.obj) /\ SaidBy(pass.obj, pass.in) /\ NotNewer(pass.in)

LEMMA ObjectAdmitted == Typed => Admitted(obj)
<1> SUFFICES ASSUME Typed PROVE Admitted(obj)
  OBVIOUS
<1>1. /\ obj["name"] \in Variants["name"] /\ obj["network"] \in Variants["network"]
      /\ obj["secrets"] \in Variants["secrets"] /\ obj["cache"] \in Variants["cache"]
      /\ obj["repository"] \in Variants["repository"]
  BY VariantsAssumption DEF Typed
<1>2. QED
  BY <1>1, VariantsAssumption DEF Admitted, Values

LEMMA InputsSay ==
  ASSUME NEW o
  PROVE  SaidBy(o, InputsOf(o)) /\ InputsOf(o).config = config
<1> DEFINE in == InputsOf(o)
<1>1. /\ in.target = o.target /\ in.network = o.network /\ in.platforms = o.platforms
      /\ in.args = ArgsOf(o) /\ in.cacheMode = o.cache.mode /\ in.cacheRef = CacheRefFor(o)
      /\ in.config = config /\ in.dockerfile = DockerfileOf(o)
      /\ in.secrets = [i \in DOMAIN o.secrets |-> <<o.secrets[i].name, secret[o.secrets[i].name]>>]
  BY DEF InputsOf
<1>2. DockerfileOf(o) = IF Projected(o)
                          THEN [kind |-> o.dockerfile.kind, path |-> None, text |-> DockerfileOf(o).text]
                          ELSE [kind |-> "path", path |-> EffectiveDockerfile(o), text |-> None]
  BY DEF DockerfileOf, Projected
<1> HIDE DEF in
<1>3. QED
  BY <1>1, <1>2 DEF SaidBy, in

LEMMA TypedHolds == PlanSpec => []Typed
<1>1. PlanInit => Typed
  BY FirstAssumption, VariantsAssumption DEF PlanInit, Typed
<1>2. Typed /\ [PlanNext]_planVars => Typed'
  <2> SUFFICES ASSUME Typed, [PlanNext]_planVars PROVE Typed'
    OBVIOUS
  <2>1. CASE UNCHANGED <<obj, secret>>
    BY <2>1 DEF Typed
  <2>2. CASE Edit
    BY <2>2 DEF Edit, Typed
  <2>3. CASE Rotate
    BY <2>3 DEF Rotate, Typed
  <2>4. QED
    BY <2>1, <2>2, <2>3 DEF PlanNext, planVars, Upgrade, MoveSource, EditConfigMap, Expire, Resolve,
       GiveUp, Adopt, Start
<1>3. QED
  BY <1>1, <1>2, PTL DEF PlanSpec

(* Secrets are only replaced by newer versions. *)
LEMMA SecretsGrow ==
  ASSUME Typed, [PlanNext]_planVars
  PROVE  \A n \in SecretNames : secret[n] \in Nat /\ secret'[n] \in Nat /\ secret[n] \leq secret'[n]
<1>1. CASE UNCHANGED secret
  BY <1>1 DEF Typed
<1>2. CASE Rotate
  BY <1>2 DEF Rotate, Typed
<1>3. QED
  BY <1>1, <1>2 DEF PlanNext, planVars, Edit, Upgrade, MoveSource, EditConfigMap, Expire, Resolve,
     GiveUp, Adopt, Start

LEMMA PassFitsHolds == PlanSpec => []PassFits
<1>1. PlanInit => PassFits
  BY DEF PlanInit, PassFits
<1>2. Typed /\ PassFits /\ [PlanNext]_planVars => PassFits'
  <2> SUFFICES ASSUME Typed, PassFits, [PlanNext]_planVars, pass' # None
               PROVE  Admitted(pass'.obj) /\ SaidBy(pass'.obj, pass'.in) /\ NotNewer(pass.in)'
    BY DEF PassFits
  <2>1. CASE UNCHANGED pass
    <3>1. Admitted(pass.obj) /\ SaidBy(pass.obj, pass.in) /\ NotNewer(pass.in)
      BY <2>1 DEF PassFits
    <3>2. \A i \in DOMAIN pass.in.secrets : pass.in.secrets[i][1] \in SecretNames
      BY <3>1 DEF Admitted, SaidBy
    <3>3. NotNewer(pass.in)'
      BY <2>1, <3>1, <3>2, SecretsGrow DEF NotNewer
    <3>4. QED
      BY <2>1, <3>1, <3>3
  <2>2. CASE Resolve
    <3>1. pass'.obj = obj /\ pass'.in = InputsOf(obj) /\ secret' = secret
      BY <2>2 DEF Resolve
    <3>2. Admitted(obj) /\ SaidBy(obj, InputsOf(obj))
      BY ObjectAdmitted, InputsSay
    <3>3. InputsOf(obj).secrets = [i \in DOMAIN obj.secrets |-> <<obj.secrets[i].name, secret[obj.secrets[i].name]>>]
      BY DEF InputsOf
    <3>4. NotNewer(InputsOf(obj))
      BY <3>2, <3>3 DEF NotNewer, Typed, Admitted
    <3>5. NotNewer(pass.in)'
      BY <3>1, <3>4 DEF NotNewer
    <3>6. QED
      BY <3>1, <3>2, <3>5
  <2>3. QED
    BY <2>1, <2>2 DEF PlanNext, planVars, Edit, Upgrade, MoveSource, EditConfigMap, Rotate, Expire,
       GiveUp, Adopt, Start
<1>3. QED
  BY <1>1, <1>2, TypedHolds, PTL DEF PlanSpec

-----------------------------------------------------------------------------
(***************************************************************************)
(* From the inputs to what the Job is told.                                *)
(***************************************************************************)

(* The recipe of these inputs, with the secrets mounted under these names. *)
Asked(in, mounts) ==
  [images     |-> <<in.config.builder, in.config.frontend, in.config.fetcher>>,
   attest     |-> in.config.attest,
   epoch      |-> in.config.epoch,
   context    |-> <<in.context.kind, in.context.digest, in.context.subpath,
                    in.context.strip, in.context.unpack>>,
   dockerfile |-> IF in.dockerfile.kind \in {"inline", "configMap"}
                  THEN <<in.dockerfile.kind, in.dockerfile.text>>
                  ELSE <<"path", in.dockerfile.path>>,
   target     |-> in.target,
   noNetwork  |-> in.network = "None",
   platforms  |-> in.platforms,
   args       |-> in.args,
   cacheRef   |-> in.cacheRef,
   secrets    |-> mounts]

(* What the containers are told is what was hashed, if the text of a ConfigMap still is. *)
LEMMA RecipeIsAsked ==
  ASSUME NEW o, NEW in, NEW text, SaidBy(o, in), Projected(o) => text = in.dockerfile.text
  PROVE  Recipe(o, in, text) = Asked(in, SecretMounts(o))
<1>1. (IF Projected(o) THEN <<o.dockerfile.kind, text>> ELSE <<"path", EffectiveDockerfile(o)>>)
        = (IF in.dockerfile.kind \in {"inline", "configMap"}
             THEN <<in.dockerfile.kind, in.dockerfile.text>>
             ELSE <<"path", in.dockerfile.path>>)
  <2>1. CASE Projected(o)
    <3>1. in.dockerfile.kind = o.dockerfile.kind /\ in.dockerfile.kind \in {"inline", "configMap"}
      BY <2>1 DEF SaidBy, Projected
    <3>2. QED
      BY <2>1, <3>1
  <2>2. CASE ~Projected(o)
    <3>1. in.dockerfile.kind = "path" /\ in.dockerfile.path = EffectiveDockerfile(o)
      BY <2>2 DEF SaidBy
    <3>2. QED
      BY <2>2, <3>1
  <2>3. QED
    BY <2>1, <2>2
<1>2. /\ in.target = o.target /\ in.network = o.network /\ in.platforms = o.platforms
      /\ in.args = ArgsOf(o) /\ in.cacheRef = CacheRefFor(o)
  BY DEF SaidBy
<1>3. QED
  BY <1>1, <1>2 DEF Recipe, Asked

LEMMA CountsNameAll ==
  ASSUME NEW a, NEW b, Counts(a) = Counts(b)
  PROVE  Values(a.secrets) \subseteq Values(b.secrets)
<1> SUFFICES ASSUME NEW s \in Values(a.secrets) PROVE s \in Values(b.secrets)
  OBVIOUS
<1> DEFINE times(in, t) == Cardinality({i \in DOMAIN in.secrets : in.secrets[i] = t})
<1>1. <<s, times(a, s)>> \in Counts(b)
  BY DEF Counts
<1>2. PICK t \in Values(b.secrets) : <<s, times(a, s)>> = <<t, times(b, t)>>
  BY <1>1 DEF Counts
<1> HIDE DEF times
<1>3. QED
  BY <1>2

(* The hash is written from these, and equal hashes have equal ones. *)
LEMMA HashSays ==
  ASSUME NEW a, NEW b, Hash(a) = Hash(b)
  PROVE  /\ a.config.builder = b.config.builder /\ a.config.frontend = b.config.frontend
         /\ a.config.fetcher = b.config.fetcher /\ a.config.attest = b.config.attest
         /\ a.config.epoch = b.config.epoch
         /\ a.context.kind = b.context.kind /\ a.context.digest = b.context.digest
         /\ a.context.subpath = b.context.subpath /\ a.context.strip = b.context.strip
         /\ a.context.unpack = b.context.unpack
         /\ a.dockerfile = b.dockerfile /\ a.target = b.target /\ a.network = b.network
         /\ a.cacheMode = b.cacheMode /\ a.cacheRef = b.cacheRef /\ a.platforms = b.platforms
         /\ a.args = b.args
         /\ Values(a.secrets) = Values(b.secrets)
<1>1. Counts(a) = Counts(b)
  BY DEF Hash
<1>2. Values(a.secrets) \subseteq Values(b.secrets)
  BY ONLY <1>1, CountsNameAll
<1>3. Values(b.secrets) \subseteq Values(a.secrets)
  BY ONLY <1>1, CountsNameAll
<1>4. QED
  BY <1>2, <1>3 DEF Hash

LEMMA SameHashSameAsked ==
  ASSUME NEW a, NEW b, NEW mounts, Hash(a) = Hash(b)
  PROVE  Asked(a, mounts) = Asked(b, mounts)
BY HashSays DEF Asked

(* The recipe of what the object asks for now. *)
LEMMA AskedNow == RecipeNow = Asked(InputsOf(obj), SecretMounts(obj))
<1>1. SaidBy(obj, InputsOf(obj))
  BY InputsSay
<1>2. Projected(obj) => DockerfileBytes(obj) = InputsOf(obj).dockerfile.text
  BY DEF Projected, DockerfileBytes, InputsOf, DockerfileOf
<1>3. QED
  BY <1>1, <1>2, RecipeIsAsked DEF RecipeNow

-----------------------------------------------------------------------------
(***************************************************************************)
(* The Job that is followed: the inputs it is named after, the object it   *)
(* was started for, and the Secrets it mounts.                             *)
(***************************************************************************)

(* How an object mounts its secrets, at these versions of them. *)
MountsAt(o, v) ==
  {[id |-> s.id, name |-> s.name, key |-> IF s.key = None THEN s.id ELSE s.key,
    version |-> v[s.name]] : s \in Values(o.secrets)}

NamedOnce(o) ==
  \A i, j \in DOMAIN o.secrets : o.secrets[i].name = o.secrets[j].name => i = j

StartedFor(j, in, o, v) ==
  /\ j.hash = Hash(in)
  /\ Admitted(o) /\ SaidBy(o, in) /\ NamedOnce(o)
  /\ v \in [SecretNames -> Nat]
  /\ \A i \in DOMAIN o.secrets : in.secrets[i][2] \in Nat /\ in.secrets[i][2] \leq v[o.secrets[i].name]
  /\ ~j.edited => j.recipe = Asked(in, MountsAt(o, v))
  /\ ~j.rotated => \A i \in DOMAIN o.secrets : in.secrets[i][2] = v[o.secrets[i].name]

JobInv ==
  job # None => \E in, o, v : StartedFor(job, in, o, v) /\ \A n \in SecretNames : v[n] \leq secret[n]

(* A pod names the volume of each of its secrets, so an object that names one twice names a
   volume twice. *)
LEMMA VolumesNameOnce ==
  ASSUME NEW o, Admitted(o), NEW minted, UniqueVolumes(Pod(o, minted))
  PROVE  NamedOnce(o)
<1> DEFINE b == BuildVolumes(o, minted)
           s == SecretVolumes(o)
           c == CAVolumes(minted)
           t == TokenVolume(minted)
           p == b \o s \o c \o t
           Names == SecretNames \cup FixedVolumes
<1>1. b \in Seq(Names) /\ c \in Seq(Names) /\ t \in Seq(Names)
  <2>1. FixedVolumes \subseteq Names
    OBVIOUS
  <2> HIDE DEF Names
  <2>2. c \in Seq(Names) /\ t \in Seq(Names)
    BY <2>1 DEF CAVolumes, TokenVolume, FixedVolumes
  <2>3. <<"context", "result">> \in Seq(Names)
    BY <2>1 DEF FixedVolumes
  <2>4. (IF Projected(o) THEN <<"dockerfile">> ELSE <<>>) \in Seq(Names)
    BY <2>1 DEF FixedVolumes
  <2>5. (IF minted.push THEN <<"docker">> ELSE <<>>) \in Seq(Names)
    BY <2>1 DEF FixedVolumes
  <2>6. QED
    BY <2>2, <2>3, <2>4, <2>5 DEF BuildVolumes
<1>2. o.secrets \in Seq(Values(o.secrets)) /\ \A i \in DOMAIN o.secrets : o.secrets[i].name \in SecretNames
  BY DEF Admitted
<1>3. PICK n \in Nat : DOMAIN o.secrets = 1..n
  BY <1>2
<1>4. s = [i \in 1..n |-> o.secrets[i].name]
  BY <1>3 DEF SecretVolumes
<1>5. s \in Seq(Names) /\ DOMAIN s = 1..n /\ Len(s) = n
  BY <1>2, <1>3, <1>4
<1>6. \A i, j \in DOMAIN p : p[i] = p[j] => i = j
  BY DEF UniqueVolumes, Pod
<1> HIDE DEF b, s, c, t, p, Names
<1>7. b \o s \in Seq(Names) /\ Len(b \o s) = Len(b) + Len(s)
      /\ \A i \in 1..Len(s) : (b \o s)[Len(b) + i] = s[i]
  <2>1. b \in Seq(Names) /\ s \in Seq(Names)
    BY <1>1, <1>5
  <2>2. b \o s \in Seq(Names) /\ Len(b \o s) = Len(b) + Len(s) /\ Len(b) \in Nat /\ Len(s) \in Nat
    BY <2>1
  <2>3. \A i \in 1..(Len(b) + Len(s)) : (b \o s)[i] = IF i \leq Len(b) THEN b[i] ELSE s[i - Len(b)]
    BY <2>1
  <2>4. \A i \in 1..Len(s) : (b \o s)[Len(b) + i] = s[i]
    BY <2>2, <2>3
  <2>5. QED
    BY <2>2, <2>4
<1> DEFINE bs == b \o s
<1> HIDE DEF bs
<1>8. bs \o c \in Seq(Names) /\ Len(bs \o c) = Len(bs) + Len(c) /\ \A i \in 1..Len(bs) : (bs \o c)[i] = bs[i]
  BY <1>1, <1>7 DEF bs
<1> DEFINE bsc == bs \o c
<1> HIDE DEF bsc
<1>9. bsc \o t \in Seq(Names) /\ Len(bsc \o t) = Len(bsc) + Len(t) /\ \A i \in 1..Len(bsc) : (bsc \o t)[i] = bsc[i]
  BY <1>1, <1>8 DEF bsc
<1>10. p = bsc \o t
  BY DEF p, bsc, bs
<1>11. \A i \in 1..n : Len(b) + i \in DOMAIN p /\ p[Len(b) + i] = s[i]
  <2> SUFFICES ASSUME NEW i \in 1..n PROVE Len(b) + i \in DOMAIN p /\ p[Len(b) + i] = s[i]
    OBVIOUS
  <2>1. Len(b) \in Nat /\ Len(c) \in Nat /\ Len(t) \in Nat /\ Len(bs) = Len(b) + n
    BY <1>1, <1>5, <1>7 DEF bs
  <2>2. Len(bsc) = Len(bs) + Len(c)
    BY <1>8 DEF bsc
  <2>3. Len(b) + i \in 1..Len(bs) /\ Len(b) + i \in 1..Len(bsc) /\ Len(b) + i \in 1..Len(p)
    BY <2>1, <2>2, <1>9, <1>10
  <2>4. p[Len(b) + i] = bsc[Len(b) + i] /\ bsc[Len(b) + i] = bs[Len(b) + i] /\ bs[Len(b) + i] = s[i]
    BY <2>3, <1>10, <1>9, <1>8, <1>7, <1>5 DEF bsc, bs
  <2>5. DOMAIN p = 1..Len(p)
    BY <1>9, <1>10
  <2>6. QED
    BY <2>3, <2>4, <2>5
<1>12. \A i, j \in 1..n : s[i] = s[j] => i = j
  <2> SUFFICES ASSUME NEW i \in 1..n, NEW j \in 1..n, s[i] = s[j] PROVE i = j
    OBVIOUS
  <2>1. Len(b) + i = Len(b) + j
    BY <1>6, <1>11
  <2>2. Len(b) \in Nat
    BY <1>1
  <2>3. QED
    BY <2>1, <2>2
<1>13. QED
  BY <1>3, <1>4, <1>12 DEF NamedOnce

LEMMA JobHolds == PlanSpec => []JobInv
<1>1. PlanInit => JobInv
  BY DEF PlanInit, JobInv
<1>2. Typed /\ PassFits /\ JobInv /\ [PlanNext]_planVars => JobInv'
  <2> SUFFICES ASSUME Typed, PassFits, JobInv, [PlanNext]_planVars, job' # None
               PROVE  \E in, o, v : /\ StartedFor(job', in, o, v)
                                    /\ \A n \in SecretNames : v[n] \leq secret'[n]
    BY DEF JobInv, StartedFor, Admitted, SaidBy, CacheRefFor, ArgsOf, Projected, EffectiveDockerfile,
       Values, NamedOnce, Asked, MountsAt, Hash
  <2>1. CASE job' = job
    <3>1. PICK in, o, v : StartedFor(job, in, o, v) /\ \A n \in SecretNames : v[n] \leq secret[n]
      BY <2>1 DEF JobInv
    <3>2. v \in [SecretNames -> Nat]
      BY <3>1 DEF StartedFor
    <3>3. \A n \in SecretNames : v[n] \leq secret'[n]
      BY <3>1, <3>2, SecretsGrow
    <3>4. QED
      BY <2>1, <3>1, <3>3
  <2>2. CASE Start /\ job' # job
    <3> DEFINE o == pass.obj
               in == pass.in
               text == DockerfileBytes(o)
    <3>1. /\ pass # None /\ secret' = secret
          /\ UniqueVolumes(Pod(o, Minted(o)))
          /\ job' = [hash    |-> Hash(in),
                     recipe  |-> Recipe(o, in, text),
                     pod     |-> Pod(o, Minted(o)),
                     edited  |-> Projected(o) /\ text # in.dockerfile.text,
                     rotated |-> \E i \in DOMAIN o.secrets : secret[o.secrets[i].name] # in.secrets[i][2]]
      BY <2>2 DEF Start
    <3>2. Admitted(o) /\ SaidBy(o, in) /\ NotNewer(in)
      BY <3>1 DEF PassFits
    <3>3. NamedOnce(o)
      BY <3>1, <3>2, VolumesNameOnce
    <3>4. secret \in [SecretNames -> Nat] /\ \A n \in SecretNames : secret[n] \leq secret[n]
      BY DEF Typed
    <3>5. \A i \in DOMAIN o.secrets :
            in.secrets[i][2] \in Nat /\ in.secrets[i][2] \leq secret[o.secrets[i].name]
      BY <3>2 DEF NotNewer, SaidBy
    <3>6. SecretMounts(o) = MountsAt(o, secret)
      BY DEF SecretMounts, MountsAt
    <3> HIDE DEF o, in, text
    <3>7. ~job'.edited => job'.recipe = Asked(in, MountsAt(o, secret))
      BY <3>1, <3>2, <3>6, RecipeIsAsked
    <3>8. job'.hash = Hash(in)
          /\ (~job'.rotated => \A i \in DOMAIN o.secrets : in.secrets[i][2] = secret[o.secrets[i].name])
      BY <3>1
    <3>9. StartedFor(job', in, o, secret)
      BY <3>2, <3>3, <3>4, <3>5, <3>7, <3>8 DEF StartedFor
    <3>10. QED
      BY <3>1, <3>4, <3>9
  <2>3. QED
    BY <2>1, <2>2 DEF PlanNext, planVars, Edit, Upgrade, MoveSource, EditConfigMap, Rotate, Resolve,
       Expire, GiveUp, Adopt
<1>3. QED
  BY <1>1, <1>2, TypedHolds, PassFitsHolds, PTL DEF PlanSpec

-----------------------------------------------------------------------------
(***************************************************************************)
(* AdoptedJobFits.                                                         *)
(***************************************************************************)

(* The Secrets an object mounts, without how it names them in the build. *)
Mounted(o, v) == {<<s.name, v[s.name]>> : s \in Values(o.secrets)}

LEMMA HashedAsked ==
  ASSUME NEW in, NEW o, NEW v
  PROVE  Hashed(Asked(in, MountsAt(o, v))) = Asked(in, Mounted(o, v))
<1> DEFINE r == Asked(in, MountsAt(o, v))
<1>1. r.secrets = MountsAt(o, v)
  BY DEF Asked
<1>2. {<<m.name, m.version>> : m \in MountsAt(o, v)} = Mounted(o, v)
  <2> DEFINE mount(s) == [id |-> s.id, name |-> s.name, key |-> IF s.key = None THEN s.id ELSE s.key,
                          version |-> v[s.name]]
  <2>1. \A s : mount(s).name = s.name /\ mount(s).version = v[s.name]
    OBVIOUS
  <2>2. MountsAt(o, v) = {mount(s) : s \in Values(o.secrets)}
    BY DEF MountsAt
  <2> HIDE DEF mount
  <2>3. QED
    BY <2>1, <2>2 DEF Mounted
<1>3. Hashed(r) = [r EXCEPT !.secrets = Mounted(o, v)]
  BY <1>1, <1>2 DEF Hashed
<1>4. QED
  BY <1>3 DEF Asked

(* What a pass hashes of the secrets is what is there. *)
LEMMA MountedNow == Values(InputsOf(obj).secrets) = Mounted(obj, secret)
<1>1. InputsOf(obj).secrets = [i \in DOMAIN obj.secrets |-> <<obj.secrets[i].name, secret[obj.secrets[i].name]>>]
  BY DEF InputsOf
<1>2. QED
  BY <1>1 DEF Values, Mounted

LEMMA HashedAreMounted ==
  ASSUME NEW in, NEW o, NEW v, SaidBy(o, in),
         \A i \in DOMAIN o.secrets : in.secrets[i][2] = v[o.secrets[i].name]
  PROVE  Values(in.secrets) = Mounted(o, v)
<1>1. Values(in.secrets) = {in.secrets[i] : i \in DOMAIN o.secrets}
  BY DEF Values, SaidBy
<1> DEFINE mounted(i) == <<o.secrets[i].name, v[o.secrets[i].name]>>
<1>2. Mounted(o, v) = {mounted(i) : i \in DOMAIN o.secrets}
  BY DEF Values, Mounted
<1>3. \A i \in DOMAIN o.secrets : in.secrets[i] = mounted(i)
  BY DEF SaidBy
<1> HIDE DEF mounted
<1>4. QED
  BY ONLY <1>1, <1>2, <1>3

(* A version that is hashed now, and was hashed when the Job was started, was mounted in between. *)
LEMMA MountedThen ==
  ASSUME Typed, NEW j, NEW in, NEW o, NEW v, StartedFor(j, in, o, v),
         \A n \in SecretNames : v[n] \leq secret[n],
         Values(in.secrets) = Values(InputsOf(obj).secrets)
  PROVE  Mounted(o, v) = Mounted(obj, secret)
<1>1. /\ DOMAIN in.secrets = DOMAIN o.secrets
      /\ \A i \in DOMAIN o.secrets : /\ in.secrets[i] = <<o.secrets[i].name, in.secrets[i][2]>>
                                     /\ in.secrets[i][2] \in Nat
                                     /\ in.secrets[i][2] \leq v[o.secrets[i].name]
                                     /\ o.secrets[i].name \in SecretNames
      /\ v \in [SecretNames -> Nat] /\ secret \in [SecretNames -> Nat]
  BY DEF StartedFor, SaidBy, Admitted, Typed
<1>2. \A i \in DOMAIN o.secrets : in.secrets[i][2] = v[o.secrets[i].name]
  <2> SUFFICES ASSUME NEW i \in DOMAIN o.secrets
               PROVE  in.secrets[i][2] = v[o.secrets[i].name]
    OBVIOUS
  <2>1. in.secrets[i] \in Mounted(obj, secret)
    BY <1>1, MountedNow DEF Values
  <2>2. in.secrets[i][2] = secret[in.secrets[i][1]]
    BY <2>1 DEF Mounted
  <2>3. in.secrets[i][1] = o.secrets[i].name
    BY <1>1
  <2>4. QED
    BY <1>1, <2>2, <2>3
<1>3. Values(in.secrets) = Mounted(o, v)
  BY <1>2, HashedAreMounted DEF StartedFor
<1>4. QED
  BY <1>3, MountedNow

(* A Job the object adopts, however long ago and for whatever spec it was started, builds what
   the object asks for now: recovery by hash (currentJob) never takes over another build. *)
THEOREM AdoptedBuildsAsAsked == PlanSpec => []AdoptedJobFits
<1>1. Typed /\ JobInv => AdoptedJobFits
  <2> DEFINE now == InputsOf(obj)
  <2> SUFFICES ASSUME Typed, JobInv, job # None, ~job.edited, job.hash = Hash(now)
               PROVE  Hashed(job.recipe) = Hashed(RecipeNow)
    BY DEF AdoptedJobFits
  <2>1. PICK in, o, v : StartedFor(job, in, o, v) /\ \A n \in SecretNames : v[n] \leq secret[n]
    BY DEF JobInv
  <2>2. Hash(in) = Hash(now) /\ job.recipe = Asked(in, MountsAt(o, v))
    BY <2>1 DEF StartedFor
  <2>3. Mounted(o, v) = Mounted(obj, secret)
    BY <2>1, <2>2, HashSays, MountedThen
  <2>4. RecipeNow = Asked(now, MountsAt(obj, secret))
    BY AskedNow DEF SecretMounts, MountsAt
  <2> HIDE DEF now
  <2>5. Hashed(job.recipe) = Asked(in, Mounted(o, v)) /\ Hashed(RecipeNow) = Asked(now, Mounted(obj, secret))
    BY <2>2, <2>4, HashedAsked
  <2>6. QED
    BY <2>2, <2>3, <2>5, SameHashSameAsked
<1>2. QED
  BY <1>1, TypedHolds, JobHolds, PTL

-----------------------------------------------------------------------------
(***************************************************************************)
(* OnlyChangesRebuild.                                                     *)
(***************************************************************************)

(* Where no Secret is named twice, the hash counts each once. *)
LEMMA CountedOnce ==
  ASSUME NEW in, NEW o, SaidBy(o, in), NamedOnce(o)
  PROVE  Counts(in) = {<<s, 1>> : s \in Values(in.secrets)}
<1>1. \A s \in Values(in.secrets) : Cardinality({i \in DOMAIN in.secrets : in.secrets[i] = s}) = 1
  <2> SUFFICES ASSUME NEW k \in DOMAIN in.secrets
               PROVE  Cardinality({i \in DOMAIN in.secrets : in.secrets[i] = in.secrets[k]}) = 1
    BY DEF Values
  <2>1. \A i \in DOMAIN in.secrets : in.secrets[i] = in.secrets[k] => i = k
    <3>1. DOMAIN in.secrets = DOMAIN o.secrets
          /\ \A i \in DOMAIN o.secrets : in.secrets[i] = <<o.secrets[i].name, in.secrets[i][2]>>
      BY DEF SaidBy
    <3>2. \A i \in DOMAIN o.secrets : in.secrets[i][1] = o.secrets[i].name
      BY <3>1
    <3>3. QED
      BY <3>1, <3>2 DEF NamedOnce
  <2>2. {i \in DOMAIN in.secrets : in.secrets[i] = in.secrets[k]} = {k}
    BY <2>1
  <2>3. QED
    BY <2>2, FS_Singleton
<1>2. QED
  BY <1>1 DEF Counts

(* The hash of the inputs is settled by what the recipe has of them, but for the secrets. *)
LEMMA SameAskedSameHash ==
  ASSUME NEW a, NEW b, NEW o, NEW q, SaidBy(o, a), SaidBy(q, b), Admitted(o), Admitted(q),
         NEW ma, NEW mb, Asked(a, ma) = Asked(b, mb), Counts(a) = Counts(b)
  PROVE  Hash(a) = Hash(b)
<1> DEFINE ra == Asked(a, ma)
           rb == Asked(b, mb)
<1>1. /\ a.config.builder = b.config.builder /\ a.config.frontend = b.config.frontend
      /\ a.config.fetcher = b.config.fetcher
  <2>1. ra.images = rb.images
    OBVIOUS
  <2>2. QED
    BY <2>1 DEF Asked
<1>2. /\ a.context.kind = b.context.kind /\ a.context.digest = b.context.digest
      /\ a.context.subpath = b.context.subpath /\ a.context.strip = b.context.strip
      /\ a.context.unpack = b.context.unpack
  <2>1. ra.context = rb.context
    OBVIOUS
  <2>2. QED
    BY <2>1 DEF Asked
<1>3. /\ ra.attest = rb.attest /\ ra.epoch = rb.epoch /\ ra.dockerfile = rb.dockerfile
      /\ ra.target = rb.target /\ ra.noNetwork = rb.noNetwork /\ ra.platforms = rb.platforms
      /\ ra.args = rb.args /\ ra.cacheRef = rb.cacheRef
  OBVIOUS
<1>4. /\ a.config.attest = b.config.attest /\ a.config.epoch = b.config.epoch
      /\ a.target = b.target /\ a.platforms = b.platforms
      /\ a.args = b.args /\ a.cacheRef = b.cacheRef
  BY <1>3 DEF Asked
<1>5. a.network = b.network
  <2>1. (a.network = "None") = (b.network = "None")
    BY <1>3 DEF Asked
  <2>2. a.network \in {"Sandbox", "None"} /\ b.network \in {"Sandbox", "None"}
    BY DEF SaidBy, Admitted
  <2>3. QED
    BY <2>1, <2>2
<1>6. a.cacheMode = b.cacheMode
  <2>1. /\ a.cacheRef = CacheRefFor(o) /\ a.cacheMode = o.cache.mode
        /\ b.cacheRef = CacheRefFor(q) /\ b.cacheMode = q.cache.mode
    BY DEF SaidBy
  <2>2. CacheRefFor(o) = None <=> o.cache.mode = "Disabled"
    BY DEF CacheRefFor, Admitted
  <2>3. CacheRefFor(q) = None <=> q.cache.mode = "Disabled"
    BY DEF CacheRefFor, Admitted
  <2>4. o.cache.mode \in {"Auto", "Disabled"} /\ q.cache.mode \in {"Auto", "Disabled"}
    BY DEF Admitted
  <2>5. QED
    BY <1>4, <2>1, <2>2, <2>3, <2>4
<1>7. a.dockerfile = b.dockerfile
  <2>1. /\ \/ /\ a.dockerfile.kind \in {"inline", "configMap"}
              /\ a.dockerfile = [kind |-> a.dockerfile.kind, path |-> None, text |-> a.dockerfile.text]
           \/ a.dockerfile = [kind |-> "path", path |-> a.dockerfile.path, text |-> None]
        /\ \/ /\ b.dockerfile.kind \in {"inline", "configMap"}
              /\ b.dockerfile = [kind |-> b.dockerfile.kind, path |-> None, text |-> b.dockerfile.text]
           \/ b.dockerfile = [kind |-> "path", path |-> b.dockerfile.path, text |-> None]
    BY DEF SaidBy, Projected
  <2> DEFINE told(d) == IF d.kind \in {"inline", "configMap"} THEN <<d.kind, d.text>> ELSE <<"path", d.path>>
  <2>2. told(a.dockerfile) = told(b.dockerfile)
    BY <1>3 DEF Asked
  <2>3. a.dockerfile.kind = told(a.dockerfile)[1] /\ b.dockerfile.kind = told(b.dockerfile)[1]
    BY <2>1
  <2>4. a.dockerfile.kind = b.dockerfile.kind
    BY <2>2, <2>3
  <2>5. CASE a.dockerfile.kind \in {"inline", "configMap"}
    <3>1. a.dockerfile.text = b.dockerfile.text
      BY <2>2, <2>4, <2>5
    <3>2. QED
      BY <2>1, <2>4, <2>5, <3>1
  <2>6. CASE a.dockerfile.kind \notin {"inline", "configMap"}
    <3>1. a.dockerfile.path = b.dockerfile.path
      BY <2>2, <2>4, <2>6
    <3>2. QED
      BY <2>1, <2>4, <2>6, <3>1
  <2>7. QED
    BY <2>5, <2>6
<1>8. QED
  BY <1>1, <1>2, <1>4, <1>5, <1>6, <1>7 DEF Hash

(* An object does not rebuild for what changes nothing of the build: were the running Job told
   just this, it is found by the hash. *)
THEOREM UnchangedIsFound == PlanSpec => []OnlyChangesRebuild
<1>1. Typed /\ JobInv => OnlyChangesRebuild
  <2> DEFINE now == InputsOf(obj)
  <2> SUFFICES ASSUME Typed, JobInv, job # None, UniqueVolumes(Pod(obj, Minted(obj))),
                      ~job.edited, ~job.rotated, job.recipe = RecipeNow
               PROVE  job.hash = Hash(now)
    BY DEF OnlyChangesRebuild
  <2>1. PICK in, o, v : StartedFor(job, in, o, v)
    BY DEF JobInv
  <2>2. /\ job.hash = Hash(in) /\ Admitted(o) /\ SaidBy(o, in) /\ NamedOnce(o)
        /\ job.recipe = Asked(in, MountsAt(o, v))
        /\ \A i \in DOMAIN o.secrets : in.secrets[i][2] = v[o.secrets[i].name]
    BY <2>1 DEF StartedFor
  <2>3. Admitted(obj) /\ SaidBy(obj, now)
    BY ObjectAdmitted, InputsSay
  <2>4. NamedOnce(obj)
    BY <2>3, VolumesNameOnce
  <2>5. RecipeNow = Asked(now, MountsAt(obj, secret))
    BY AskedNow DEF SecretMounts, MountsAt
  <2> HIDE DEF now
  <2>6. Asked(in, MountsAt(o, v)) = Asked(now, MountsAt(obj, secret))
    BY <2>2, <2>5
  <2>7. Mounted(o, v) = Mounted(obj, secret)
    <3>1. Asked(in, Mounted(o, v)) = Asked(now, Mounted(obj, secret))
      BY <2>6, HashedAsked
    <3>2. QED
      BY <3>1 DEF Asked
  <2>8. Values(in.secrets) = Mounted(o, v)
    BY <2>2, HashedAreMounted
  <2>9. Values(now.secrets) = Mounted(obj, secret)
    BY MountedNow DEF now
  <2>10. Counts(in) = Counts(now)
    BY <2>2, <2>3, <2>4, <2>7, <2>8, <2>9, CountedOnce
  <2>11. QED
    BY <2>2, <2>3, <2>6, <2>10, SameAskedSameHash
<1>2. QED
  BY <1>1, TypedHolds, JobHolds, PTL

-----------------------------------------------------------------------------
(***************************************************************************)
(* PodFits.                                                                *)
(***************************************************************************)

LEMMA ValuesOfBoth ==
  ASSUME NEW S, NEW s \in Seq(S), NEW t \in Seq(S)
  PROVE  s \o t \in Seq(S) /\ Values(s \o t) = Values(s) \cup Values(t)
<1>1. s \o t \in Seq(S) /\ Len(s \o t) = Len(s) + Len(t) /\ Len(s) \in Nat /\ Len(t) \in Nat
  OBVIOUS
<1>2. DOMAIN (s \o t) = 1..(Len(s) + Len(t)) /\ DOMAIN s = 1..Len(s) /\ DOMAIN t = 1..Len(t)
  BY <1>1
<1>3. \A i \in 1..(Len(s) + Len(t)) : (s \o t)[i] = IF i \leq Len(s) THEN s[i] ELSE t[i - Len(s)]
  OBVIOUS
<1>4. Values(s \o t) \subseteq Values(s) \cup Values(t)
  <2> SUFFICES ASSUME NEW i \in DOMAIN (s \o t) PROVE (s \o t)[i] \in Values(s) \cup Values(t)
    BY DEF Values
  <2>1. CASE i \leq Len(s)
    <3>1. i \in DOMAIN s /\ (s \o t)[i] = s[i]
      BY <1>1, <1>2, <1>3, <2>1
    <3>2. QED
      BY <3>1 DEF Values
  <2>2. CASE ~(i \leq Len(s))
    <3>1. i - Len(s) \in DOMAIN t /\ (s \o t)[i] = t[i - Len(s)]
      BY <1>1, <1>2, <1>3, <2>2
    <3>2. QED
      BY <3>1 DEF Values
  <2>3. QED
    BY <2>1, <2>2
<1>5. Values(s) \subseteq Values(s \o t)
  <2> SUFFICES ASSUME NEW i \in DOMAIN s PROVE s[i] \in Values(s \o t)
    BY DEF Values
  <2>1. i \in DOMAIN (s \o t) /\ (s \o t)[i] = s[i]
    BY <1>1, <1>2, <1>3
  <2>2. QED
    BY <2>1 DEF Values
<1>6. Values(t) \subseteq Values(s \o t)
  <2> SUFFICES ASSUME NEW i \in DOMAIN t PROVE t[i] \in Values(s \o t)
    BY DEF Values
  <2>1. Len(s) + i \in DOMAIN (s \o t) /\ (s \o t)[Len(s) + i] = t[i]
    BY <1>1, <1>2, <1>3
  <2>2. QED
    BY <2>1 DEF Values
<1>7. QED
  BY <1>1, <1>4, <1>5, <1>6

(* The volumes of each part of a pod. *)
LEMMA VolumesOf ==
  ASSUME NEW o, Admitted(o), NEW minted
  PROVE  /\ Values(BuildVolumes(o, minted)) =
              {"context", "result"} \cup (IF Projected(o) THEN {"dockerfile"} ELSE {})
                \cup (IF minted.push THEN {"docker"} ELSE {})
         /\ Values(CAVolumes(minted)) = IF minted.ca THEN {"registry-ca", "ca-bundle"} ELSE {}
         /\ Values(TokenVolume(minted)) = IF minted.token THEN {"context-token"} ELSE {}
         /\ Values(SecretVolumes(o)) \subseteq SecretNames
         /\ Values(Pod(o, minted).volumes) =
              Values(BuildVolumes(o, minted)) \cup Values(SecretVolumes(o))
                \cup Values(CAVolumes(minted)) \cup Values(TokenVolume(minted))
<1> DEFINE Names == SecretNames \cup FixedVolumes
           d == IF Projected(o) THEN <<"dockerfile">> ELSE <<>>
           k == IF minted.push THEN <<"docker">> ELSE <<>>
<1>1. FixedVolumes \subseteq Names /\ SecretNames \subseteq Names
  OBVIOUS
<1> HIDE DEF Names
<1>2. CAVolumes(minted) \in Seq(Names) /\ TokenVolume(minted) \in Seq(Names)
  BY <1>1 DEF CAVolumes, TokenVolume, FixedVolumes
<1>3. <<"context", "result">> \in Seq(Names) /\ d \in Seq(Names) /\ k \in Seq(Names)
  BY <1>1 DEF FixedVolumes
<1>4. /\ Values(<<"context", "result">>) = {"context", "result"}
      /\ Values(d) = IF Projected(o) THEN {"dockerfile"} ELSE {}
      /\ Values(k) = IF minted.push THEN {"docker"} ELSE {}
  BY DEF Values
<1>5. BuildVolumes(o, minted) = <<"context", "result">> \o d \o k
  BY DEF BuildVolumes
<1> HIDE DEF d, k
<1>6. /\ BuildVolumes(o, minted) \in Seq(Names)
      /\ Values(BuildVolumes(o, minted)) = {"context", "result"} \cup Values(d) \cup Values(k)
  <2> DEFINE cr == <<"context", "result">>
  <2>1. cr \in Seq(Names) /\ Values(cr) = {"context", "result"} /\ BuildVolumes(o, minted) = (cr \o d) \o k
    BY <1>3, <1>4, <1>5
  <2> HIDE DEF cr
  <2>2. cr \o d \in Seq(Names) /\ Values(cr \o d) = {"context", "result"} \cup Values(d)
    BY <1>3, <2>1, ValuesOfBoth
  <2> DEFINE crd == cr \o d
  <2>3. crd \in Seq(Names)
    BY <2>2
  <2> HIDE DEF crd
  <2>4. crd \o k \in Seq(Names) /\ Values(crd \o k) = Values(crd) \cup Values(k)
    BY <1>3, <2>3, ValuesOfBoth
  <2>5. QED
    BY <2>1, <2>2, <2>4 DEF crd
<1>7. /\ Values(CAVolumes(minted)) = IF minted.ca THEN {"registry-ca", "ca-bundle"} ELSE {}
      /\ Values(TokenVolume(minted)) = IF minted.token THEN {"context-token"} ELSE {}
  BY DEF Values, CAVolumes, TokenVolume
<1>8. SecretVolumes(o) \in Seq(Names) /\ Values(SecretVolumes(o)) \subseteq SecretNames
  <2>1. o.secrets \in Seq(Values(o.secrets)) /\ \A i \in DOMAIN o.secrets : o.secrets[i].name \in SecretNames
    BY DEF Admitted
  <2>2. PICK n \in Nat : DOMAIN o.secrets = 1..n
    BY <2>1
  <2>3. SecretVolumes(o) = [i \in 1..n |-> o.secrets[i].name]
    BY <2>2 DEF SecretVolumes
  <2>4. QED
    BY <1>1, <2>1, <2>2, <2>3 DEF Values
<1>9. Values(Pod(o, minted).volumes) =
        Values(BuildVolumes(o, minted)) \cup Values(SecretVolumes(o))
          \cup Values(CAVolumes(minted)) \cup Values(TokenVolume(minted))
  <2> DEFINE b == BuildVolumes(o, minted)
             s == SecretVolumes(o)
             c == CAVolumes(minted)
             t == TokenVolume(minted)
  <2>1. Pod(o, minted).volumes = ((b \o s) \o c) \o t
    BY DEF Pod
  <2> HIDE DEF b, s, c, t
  <2>2. b \in Seq(Names) /\ s \in Seq(Names) /\ c \in Seq(Names) /\ t \in Seq(Names)
    BY <1>2, <1>6, <1>8 DEF b, s, c, t
  <2>3. b \o s \in Seq(Names) /\ Values(b \o s) = Values(b) \cup Values(s)
    BY <2>2, ValuesOfBoth
  <2> DEFINE bs  == b \o s
             bsc == bs \o c
  <2>4. bs \in Seq(Names)
    BY <2>3
  <2> HIDE DEF bs
  <2>5. bsc \in Seq(Names) /\ Values(bsc) = Values(bs) \cup Values(c)
    BY <2>2, <2>4, ValuesOfBoth
  <2> HIDE DEF bsc
  <2>6. Values(bsc \o t) = Values(bsc) \cup Values(t)
    BY <2>2, <2>5, ValuesOfBoth
  <2>7. Pod(o, minted).volumes = bsc \o t /\ Values(bs) = Values(b) \cup Values(s)
    BY <2>1, <2>3 DEF bsc, bs
  <2>8. QED
    BY <2>5, <2>6, <2>7 DEF b, s, c, t
<1>10. QED
  BY <1>4, <1>6, <1>7, <1>8, <1>9

(* A started Job's pod mounts whatever its commands name, has a volume for every mount, and
   keeps the context token from the container that runs the Dockerfile. *)
THEOREM PodsFit == PlanSpec => []PodFits
<1>1. PlanInit => PodFits
  BY DEF PlanInit, PodFits
<1>2. PassFits /\ PodFits /\ [PlanNext]_planVars => PodFits'
  <2> SUFFICES ASSUME PassFits, PodFits, [PlanNext]_planVars PROVE PodFits'
    OBVIOUS
  <2>1. CASE job' = job
    BY <2>1 DEF PodFits, Values
  <2>2. CASE job' = None
    BY <2>2 DEF PodFits
  <2>3. CASE Start /\ job' # job
    <3> DEFINE o == pass.obj
               minted == Minted(o)
               p == Pod(o, minted)
    <3>1. pass # None /\ job'.pod = p
      BY <2>3 DEF Start
    <3>2. Admitted(o)
      BY <3>1 DEF PassFits
    <3>3. minted.token = ThroughProxy(o)
      BY DEF Minted
    <3>4. /\ p.build.needs = BuildNeeds(o, minted) /\ p.build.mounts = Mounts(o, minted)
          /\ p.fetch.needs = (IF o.context.kind = "none" THEN {} ELSE FetchNeeds(o))
          /\ p.fetch.mounts = (IF o.context.kind = "none" THEN {} ELSE FetchMounts(minted))
      BY DEF Pod
    <3> HIDE DEF o, minted, p
    <3>5. p.build.needs \subseteq p.build.mounts
      BY <3>2, <3>4, VolumesOf DEF BuildNeeds, Mounts
    <3>6. p.fetch.needs \subseteq p.fetch.mounts
      BY <3>2, <3>3, <3>4, VolumesOf DEF FetchNeeds, FetchMounts
    <3>7. p.build.mounts \cup p.fetch.mounts \subseteq Values(p.volumes)
      BY <3>2, <3>4, VolumesOf DEF Mounts, FetchMounts, p
    <3>8. "context-token" \notin p.build.mounts
      BY <3>2, <3>4, VolumesOf, NamesAssumption DEF Mounts, FixedVolumes
    <3>9. QED
      BY <3>1, <3>5, <3>6, <3>7, <3>8 DEF PodFits, Values
  <2>4. QED
    BY <2>1, <2>2, <2>3 DEF PlanNext, planVars, Edit, Upgrade, MoveSource, EditConfigMap, Rotate,
       Resolve, Expire, GiveUp, Adopt
<1>3. QED
  BY <1>1, <1>2, PassFitsHolds, PTL DEF PlanSpec

-----------------------------------------------------------------------------
(***************************************************************************)
(* The image of an ImageComposition.                                       *)
(***************************************************************************)

(* What resolveInputs makes of a layer the spec may name. *)
FromLayer(in) ==
  \E l \in Layers, t \in Repacked :
    in = CASE l.kind = "sourceRef" -> [l EXCEPT !.digest = t, !.unpack = "tar.gz", !.strip = 0]
           [] l.kind = "image"     -> [l EXCEPT !.unpack = "image", !.strip = 0]
           [] OTHER                -> l

(* The image of these, where the spec names these platforms or lets the base image name them. *)
PlatformsOf(base, plats) ==
  IF plats # <<>> THEN plats
  ELSE IF base = Absent THEN <<Runtime>> ELSE <<BaseConfig[base].platform>>

ConfigOf(base, c, plat) ==
  LET start == IF c.inherit THEN BaseConfig[Child(base, plat)].config
               ELSE [f \in DOMAIN c.set |-> Absent]
  IN [f \in DOMAIN c.set |-> IF c.set[f] # Absent THEN c.set[f] ELSE start[f]]

ImageOf(base, plats, ins, c) ==
  [i \in DOMAIN PlatformsOf(base, plats) |->
     LET plat == PlatformsOf(base, plats)[i]
     IN [platform |-> plat,
         base     |-> IF base = Absent THEN Absent ELSE Child(base, plat),
         layers   |-> [j \in DOMAIN ins |-> LayerFor(ins[j], plat)],
         config   |-> ConfigOf(base, c, plat),
         sources  |-> [j \in DOMAIN ins |-> <<ins[j].name, IdentityOf(ins[j])>>]]]

HashOf(base, plats, ins, c) == <<base, plats, [i \in DOMAIN ins |-> HashOfInput(ins[i])], c>>

LEMMA SourceInput ==
  ASSUME NEW in, FromLayer(in)
  PROVE  /\ in.unpack = "image" <=> in.kind = "image"
         /\ in.kind # "sourceRef" => in.digest # "revision"
         /\ in.kind = "sourceRef" =>
              /\ in.unpack = "tar.gz" /\ in.strip = 0 /\ in.digest \in Repacked
              /\ \E l \in Layers : l.kind = "sourceRef" /\ l.target = in.target /\ l.subpath = in.subpath
         /\ {"kind", "digest", "unpack", "strip", "subpath", "target", "slash", "owner", "fileMode", "dirMode",
             "remove"} \subseteq DOMAIN in
<1>1. PICK l \in Layers, t \in Repacked :
        in = CASE l.kind = "sourceRef" -> [l EXCEPT !.digest = t, !.unpack = "tar.gz", !.strip = 0]
               [] l.kind = "image"     -> [l EXCEPT !.unpack = "image", !.strip = 0]
               [] OTHER                -> l
  BY DEF FromLayer
<1>2. /\ {"kind", "digest", "unpack", "strip", "subpath", "target", "slash", "owner", "fileMode", "dirMode",
          "remove"} \subseteq DOMAIN l
      /\ l.kind # "image" => l.unpack # "image"
      /\ l.digest # "revision"
  BY LayersAssumption
<1>3. CASE l.kind = "sourceRef"
  <2>1. in = [l EXCEPT !.digest = t, !.unpack = "tar.gz", !.strip = 0]
    BY <1>1, <1>3
  <2>2. /\ in.digest = t /\ in.unpack = "tar.gz" /\ in.strip = 0 /\ DOMAIN in = DOMAIN l
    BY <1>2, <2>1
  <2>3. in.kind = l.kind /\ in.target = l.target /\ in.subpath = l.subpath
    BY <1>2, <2>1
  <2>4. QED
    BY <1>2, <1>3, <2>2, <2>3
<1>4. CASE l.kind = "image"
  BY <1>1, <1>2, <1>4
<1>5. CASE l.kind # "sourceRef" /\ l.kind # "image"
  BY <1>1, <1>2, <1>5
<1>6. QED
  BY <1>3, <1>4, <1>5

(* Of what an input is hashed by, everything but its content. *)
SameSpec(a, b) ==
  /\ a.unpack = b.unpack /\ a.subpath = b.subpath /\ a.strip = b.strip /\ a.target = b.target
  /\ a.slash = b.slash /\ a.owner = b.owner /\ a.fileMode = b.fileMode /\ a.dirMode = b.dirMode /\ a.remove = b.remove

LEMMA SameHashSameSpec ==
  ASSUME NEW a, NEW b, HashOfInput(a) = HashOfInput(b)
  PROVE  SameSpec(a, b) /\ IdentityOf(a) = IdentityOf(b)
BY DEF HashOfInput, SameSpec

LEMMA SameDigestSameEntries ==
  ASSUME NEW a, NEW b, SameSpec(a, b), a.digest = b.digest
  PROVE  Entries(a) = Entries(b)
<1>1. SingleFile(a, a.digest) = SingleFile(b, b.digest)
  BY DEF SameSpec, SingleFile
<1>2. QED
  BY <1>1 DEF SameSpec, Entries

LEMMA SameEntriesSameLayer ==
  ASSUME NEW a, NEW b, SameSpec(a, b), Entries(a) = Entries(b)
  PROVE  Layer(a) = Layer(b)
<1>1. \A node : Mode(a, node) = Mode(b, node)
  BY DEF SameSpec, Mode
<1>2. a.owner = b.owner
  BY DEF SameSpec
<1>3. QED
  BY <1>1, <1>2 DEF Layer

(* Inputs of one hash give one layer, on each platform: however the source was packed. *)
LEMMA SameHashSameLayer ==
  ASSUME NEW a, NEW b, FromLayer(a), FromLayer(b), HashOfInput(a) = HashOfInput(b), NEW plat
  PROVE  LayerFor(a, plat) = LayerFor(b, plat)
<1>1. SameSpec(a, b) /\ IdentityOf(a) = IdentityOf(b)
  BY SameHashSameSpec
<1>2. /\ a.kind = "image" <=> b.kind = "image"
      /\ a.kind = "sourceRef" <=> b.kind = "sourceRef"
  BY <1>1, SourceInput DEF SameSpec, IdentityOf
<1>3. CASE a.kind = "sourceRef"
  <2>1. /\ a.unpack = "tar.gz" /\ a.strip = 0 /\ a.digest \in Repacked
        /\ b.unpack = "tar.gz" /\ b.strip = 0 /\ b.digest \in Repacked
        /\ a.remove = b.remove /\ a.target = b.target /\ a.subpath = b.subpath
    BY <1>1, <1>2, <1>3, SourceInput DEF SameSpec
  <2>2. Extracted(Archives[a.digest], a.target, 0, a.subpath)
          = Extracted(Archives[b.digest], b.target, 0, b.subpath)
    <3>1. PICK l \in Layers : l.kind = "sourceRef" /\ l.target = a.target /\ l.subpath = a.subpath
      BY <1>3, SourceInput
    <3>2. QED
      BY <2>1, <3>1, RepackedAssumption
  <2>3. Entries(a) = Entries(b)
    <3>1. CASE a.remove # <<>>
      BY <2>1, <3>1 DEF Entries
    <3>2. CASE a.remove = <<>>
      <4>1. Entries(a) = Extracted(Archives[a.digest], a.target, 0, a.subpath)
        BY <2>1, <3>2 DEF Entries
      <4>2. Entries(b) = Extracted(Archives[b.digest], b.target, 0, b.subpath)
        BY <2>1, <3>2 DEF Entries
      <4>3. QED
        BY <2>2, <4>1, <4>2
    <3>3. QED
      BY <3>1, <3>2
  <2>4. Layer(a) = Layer(b)
    BY <1>1, <2>3, SameEntriesSameLayer
  <2>5. QED
    BY <1>2, <1>3, <2>4 DEF LayerFor
<1>4. CASE a.kind # "sourceRef"
  <2>1. a.digest = b.digest
    BY <1>1, <1>2, <1>4 DEF IdentityOf
  <2>2. CASE a.kind = "image"
    <3> DEFINE d  == Child(a.digest, plat)
               ad == [a EXCEPT !.digest = d]
               bd == [b EXCEPT !.digest = d]
    <3>1. SameSpec(ad, bd) /\ ad.digest = bd.digest
      BY <1>1, SourceInput DEF SameSpec
    <3> HIDE DEF ad, bd, d
    <3>2. Entries(ad) = Entries(bd)
      BY <3>1, SameDigestSameEntries
    <3>3. Layer(ad) = Layer(bd)
      BY <3>1, <3>2, SameEntriesSameLayer
    <3>4. QED
      BY <1>2, <2>1, <2>2, <3>3 DEF LayerFor, ad, bd, d
  <2>3. CASE a.kind # "image"
    <3>1. Entries(a) = Entries(b)
      BY <1>1, <2>1, SameDigestSameEntries
    <3>2. Layer(a) = Layer(b)
      BY <1>1, <3>1, SameEntriesSameLayer
    <3>3. QED
      BY <1>2, <2>3, <3>2 DEF LayerFor
  <2>4. QED
    BY <2>2, <2>3
<1>5. QED
  BY <1>3, <1>4

LEMMA ImageNow ==
  /\ Image = ImageOf(composition.base, HashPlatforms, Inputs, composition.config)
  /\ InputHash = HashOf(composition.base, HashPlatforms, Inputs, composition.config)
<1>1. Platforms = PlatformsOf(composition.base, HashPlatforms)
  <2>1. <<Runtime>> # <<>>
    OBVIOUS
  <2>2. QED
    BY <2>1 DEF Platforms, PlatformsOf, HashPlatforms
<1>2. \A plat : ConfigFor(plat) = ConfigOf(composition.base, composition.config, plat)
  BY DEF ConfigFor, ConfigOf
<1>3. \A plat :
        ImageFor(plat) =
          [platform |-> plat,
           base     |-> IF composition.base = Absent THEN Absent ELSE Child(composition.base, plat),
           layers   |-> [j \in DOMAIN Inputs |-> LayerFor(Inputs[j], plat)],
           config   |-> ConfigOf(composition.base, composition.config, plat),
           sources  |-> [j \in DOMAIN Inputs |-> <<Inputs[j].name, IdentityOf(Inputs[j])>>]]
  BY <1>2 DEF ImageFor, Provenance
<1>4. QED
  BY <1>1, <1>3 DEF Image, ImageOf, InputHash, HashOf

(* A composition's layers are among those it may name. *)
Composed ==
  /\ DOMAIN composition = DOMAIN Options
  /\ \A f \in DOMAIN Options : composition[f] \in Options[f]
  /\ tarball \in Repacked

LEMMA ComposedInputs == Composed => \A i \in DOMAIN Inputs : FromLayer(Inputs[i])
<1> SUFFICES ASSUME Composed, NEW i \in DOMAIN Inputs PROVE FromLayer(Inputs[i])
  OBVIOUS
<1>1. i \in DOMAIN composition.layers /\ Inputs[i] = Resolved(composition.layers[i])
  BY DEF Inputs
<1>2. composition["layers"] \in Options["layers"]
  BY LayersAssumption DEF Composed
<1>3. composition.layers[i] \in Layers
  BY <1>1, <1>2 DEF Layers
<1>4. tarball \in Repacked
  BY DEF Composed
<1>5. QED
  BY <1>1, <1>3, <1>4 DEF Resolved, FromLayer

LEMMA ComposedHolds == AssemblySpec => []Composed
<1>1. AssemblyInit => Composed
  BY CreatedAssumption DEF AssemblyInit, Composed
<1>2. Composed /\ [AssemblyNext]_assemblyVars => Composed'
  BY DEF Composed, AssemblyNext, assemblyVars, EditComposition, Repack, Publish
<1>3. QED
  BY <1>1, <1>2, PTL DEF AssemblySpec

(* What was published is the image of the inputs its hash was made from. *)
PublishedFits ==
  published # Absent =>
    \E base, plats, ins, c : /\ published.hash = HashOf(base, plats, ins, c)
                             /\ published.image = ImageOf(base, plats, ins, c)
                             /\ \A i \in DOMAIN ins : FromLayer(ins[i])

LEMMA PublishedFitsHolds == AssemblySpec => []PublishedFits
<1>1. AssemblyInit => PublishedFits
  BY DEF AssemblyInit, PublishedFits
<1>2. Composed /\ PublishedFits /\ [AssemblyNext]_assemblyVars => PublishedFits'
  <2> SUFFICES ASSUME Composed, PublishedFits, [AssemblyNext]_assemblyVars PROVE PublishedFits'
    OBVIOUS
  <2>1. CASE UNCHANGED published
    BY <2>1 DEF PublishedFits
  <2>2. CASE Publish
    <3> DEFINE base == composition.base
               plats == HashPlatforms
               ins == Inputs
               c == composition.config
    <3>1. published'.hash = InputHash /\ published'.image = Image
      BY <2>2 DEF Publish
    <3>2. /\ published'.hash = HashOf(base, plats, ins, c)
          /\ published'.image = ImageOf(base, plats, ins, c)
          /\ \A i \in DOMAIN ins : FromLayer(ins[i])
      BY <3>1, ImageNow, ComposedInputs
    <3> HIDE DEF base, plats, ins, c
    <3>3. \E b, p, s, d : /\ published'.hash = HashOf(b, p, s, d)
                          /\ published'.image = ImageOf(b, p, s, d)
                          /\ \A i \in DOMAIN s : FromLayer(s[i])
      BY <3>2
    <3>4. QED
      BY <3>3 DEF PublishedFits
  <2>3. QED
    BY <2>1, <2>2 DEF AssemblyNext, assemblyVars, EditComposition, Repack
<1>3. QED
  BY <1>1, <1>2, ComposedHolds, PTL DEF AssemblySpec

(* One platform's image, without the names of its layers. *)
Nameless(image) == [image EXCEPT !.sources = [j \in DOMAIN image.sources |-> image.sources[j][2]]]

LEMMA NamelessImage ==
  ASSUME NEW p, NEW b, NEW l, NEW k, NEW ins
  PROVE  Nameless([platform |-> p, base |-> b, layers |-> l, config |-> k,
                   sources |-> [j \in DOMAIN ins |-> <<ins[j].name, IdentityOf(ins[j])>>]])
           = [platform |-> p, base |-> b, layers |-> l, config |-> k,
              sources |-> [j \in DOMAIN ins |-> IdentityOf(ins[j])]]
<1> DEFINE s == [j \in DOMAIN ins |-> <<ins[j].name, IdentityOf(ins[j])>>]
           image == [platform |-> p, base |-> b, layers |-> l, config |-> k, sources |-> s]
<1>1. [j \in DOMAIN s |-> s[j][2]] = [j \in DOMAIN ins |-> IdentityOf(ins[j])]
  OBVIOUS
<1> HIDE DEF s
<1>2. image.sources = s
  OBVIOUS
<1>3. Nameless(image) = [image EXCEPT !.sources = [j \in DOMAIN ins |-> IdentityOf(ins[j])]]
  BY <1>1, <1>2 DEF Nameless
<1> DEFINE ids == [j \in DOMAIN ins |-> IdentityOf(ins[j])]
<1> HIDE DEF ids
<1>4. [image EXCEPT !.sources = ids] = [platform |-> p, base |-> b, layers |-> l, config |-> k, sources |-> ids]
  OBVIOUS
<1>5. QED
  BY <1>3, <1>4 DEF s, ids

(* One hash, one image, but for the names of the layers. *)
LEMMA SameHashSame ==
  ASSUME NEW base, NEW plats, NEW ins, NEW c, \A i \in DOMAIN ins : FromLayer(ins[i]),
         NEW base2, NEW plats2, NEW ins2, NEW c2, \A i \in DOMAIN ins2 : FromLayer(ins2[i]),
         HashOf(base, plats, ins, c) = HashOf(base2, plats2, ins2, c2)
  PROVE  Anonymous(ImageOf(base, plats, ins, c)) = Anonymous(ImageOf(base2, plats2, ins2, c2))
<1>1. base = base2 /\ plats = plats2 /\ c = c2
  BY DEF HashOf
<1>2. [i \in DOMAIN ins |-> HashOfInput(ins[i])] = [i \in DOMAIN ins2 |-> HashOfInput(ins2[i])]
  BY DEF HashOf
<1>3. DOMAIN ins = DOMAIN ins2
  BY <1>2
<1>4. \A i \in DOMAIN ins : HashOfInput(ins[i]) = HashOfInput(ins2[i])
  BY <1>2, <1>3
<1>5. \A i \in DOMAIN ins : IdentityOf(ins[i]) = IdentityOf(ins2[i])
  BY <1>4, SameHashSameSpec
<1>6. \A plat : [j \in DOMAIN ins |-> LayerFor(ins[j], plat)] = [j \in DOMAIN ins2 |-> LayerFor(ins2[j], plat)]
  BY <1>3, <1>4, SameHashSameLayer
<1> DEFINE one(plat) ==
             [platform |-> plat,
              base     |-> IF base = Absent THEN Absent ELSE Child(base, plat),
              layers   |-> [j \in DOMAIN ins |-> LayerFor(ins[j], plat)],
              config   |-> ConfigOf(base, c, plat),
              sources  |-> [j \in DOMAIN ins |-> <<ins[j].name, IdentityOf(ins[j])>>]]
           two(plat) ==
             [platform |-> plat,
              base     |-> IF base2 = Absent THEN Absent ELSE Child(base2, plat),
              layers   |-> [j \in DOMAIN ins2 |-> LayerFor(ins2[j], plat)],
              config   |-> ConfigOf(base2, c2, plat),
              sources  |-> [j \in DOMAIN ins2 |-> <<ins2[j].name, IdentityOf(ins2[j])>>]]
<1>7. \A plat : Nameless(one(plat)) = Nameless(two(plat))
  <2> TAKE plat
  <2> DEFINE ids == [j \in DOMAIN ins |-> IdentityOf(ins[j])]
             ids2 == [j \in DOMAIN ins2 |-> IdentityOf(ins2[j])]
             l == [j \in DOMAIN ins |-> LayerFor(ins[j], plat)]
             l2 == [j \in DOMAIN ins2 |-> LayerFor(ins2[j], plat)]
             b == IF base = Absent THEN Absent ELSE Child(base, plat)
             b2 == IF base2 = Absent THEN Absent ELSE Child(base2, plat)
  <2>1. Nameless(one(plat)) = [platform |-> plat, base |-> b, layers |-> l, config |-> ConfigOf(base, c, plat),
                               sources |-> ids]
    BY NamelessImage
  <2>2. Nameless(two(plat)) = [platform |-> plat, base |-> b2, layers |-> l2, config |-> ConfigOf(base2, c2, plat),
                               sources |-> ids2]
    BY NamelessImage
  <2>3. ids = ids2
    BY <1>3, <1>5
  <2>4. l = l2
    BY <1>6
  <2>5. b = b2 /\ ConfigOf(base, c, plat) = ConfigOf(base2, c2, plat)
    BY <1>1
  <2> HIDE DEF ids, ids2, l, l2, b, b2, one, two
  <2>6. QED
    BY <2>1, <2>2, <2>3, <2>4, <2>5
<1> DEFINE on == PlatformsOf(base, plats)
<1>8. /\ ImageOf(base, plats, ins, c) = [i \in DOMAIN on |-> one(on[i])]
      /\ ImageOf(base2, plats2, ins2, c2) = [i \in DOMAIN on |-> two(on[i])]
  BY <1>1 DEF ImageOf
<1> HIDE DEF one, two, on
<1>9. \A image : Anonymous(image) = [i \in DOMAIN image |-> Nameless(image[i])]
  BY DEF Anonymous, Nameless
<1>10. QED
  BY <1>7, <1>8, <1>9

(* The cheap path may trust the hash: whatever an image was published for, one whose hash is the
   spec's is what the spec would assemble to now. *)
THEOREM HashDeterminesImage == AssemblySpec => []SameHashSameImage
<1>1. Composed /\ PublishedFits => SameHashSameImage
  <2> SUFFICES ASSUME Composed, PublishedFits, published # Absent, published.hash = InputHash
               PROVE  Anonymous(published.image) = Anonymous(Image)
    BY DEF SameHashSameImage
  <2>1. PICK base, plats, ins, c : /\ published.hash = HashOf(base, plats, ins, c)
                                   /\ published.image = ImageOf(base, plats, ins, c)
                                   /\ \A i \in DOMAIN ins : FromLayer(ins[i])
    BY DEF PublishedFits
  <2>2. HashOf(base, plats, ins, c) = HashOf(composition.base, HashPlatforms, Inputs, composition.config)
    BY <2>1, ImageNow
  <2>3. \A i \in DOMAIN Inputs : FromLayer(Inputs[i])
    BY ComposedInputs
  <2>4. QED
    BY <2>1, <2>2, <2>3, ImageNow, SameHashSame
<1>2. QED
  BY <1>1, ComposedHolds, PublishedFitsHolds, PTL

-----------------------------------------------------------------------------
(***************************************************************************)
(* What the composer and the builder make of one archive. Both merge what  *)
(* the entries make, at the places one rule gives them: the first of a     *)
(* path wins for one, the last for the other, and where entries keep apart *)
(* there is no difference.                                                 *)
(***************************************************************************)

(* The least-number principle: the library's own takes an operator.         *)
LEMMA Least ==
  ASSUME NEW T, T \subseteq Nat, T # {}
  PROVE  \E m \in T : \A n \in T : m <= n
<1> DEFINE R == OpToRel(<, Nat)
<1>1. IsWellFoundedOn(R, Nat)
  BY NatLessThanWellFounded, Zenon
<1> HIDE DEF R
<1>2. PICK m \in T : \A n \in T : <<n, m>> \notin R
  BY <1>1, WFMin
<1>3. ASSUME NEW n \in T PROVE m <= n
  <2>1. n \in Nat /\ m \in Nat
    OBVIOUS
  <2>2. n < m => <<n, m>> \in R
    BY <2>1 DEF R, OpToRel
  <2>3. QED
    BY <1>2, <2>1, <2>2
<1>4. QED
  BY <1>3

LEMMA Greatest ==
  ASSUME NEW k \in Nat, NEW T, T \subseteq 1..k, T # {}
  PROVE  \E m \in T : \A n \in T : n <= m
<1> DEFINE U == {k - n : n \in T}
<1>1. \A n \in T : k - n \in Nat
  OBVIOUS
<1>2. U \subseteq Nat /\ U # {}
  BY <1>1
<1> HIDE DEF U
<1>3. PICK u \in U : \A v \in U : u <= v
  BY <1>2, Least
<1>4. PICK m \in T : u = k - m
  BY DEF U
<1>5. ASSUME NEW n \in T PROVE n <= m
  <2>1. k - n \in U
    BY DEF U
  <2>2. k - m <= k - n
    BY <1>3, <1>4, <2>1
  <2>3. QED
    BY <2>2
<1>6. QED
  BY <1>5

(* At each path, a merge holds what one of the merged has there.            *)
MergeOf(made, nodes) ==
  /\ nodes = [p \in Paths(made) |-> nodes[p]]
  /\ \A p \in Paths(made) : \E i \in DOMAIN made : p \in DOMAIN made[i] /\ nodes[p] = made[i][p]

LEMMA EarliestMerges ==
  ASSUME NEW made, DOMAIN made \subseteq Nat
  PROVE  MergeOf(made, EarliestOf(made))
<1>1. ASSUME NEW p \in Paths(made)
      PROVE  \E i \in DOMAIN made : p \in DOMAIN made[i] /\ EarliestOf(made)[p] = made[i][p]
  <2> DEFINE T == {i \in DOMAIN made : p \in DOMAIN made[i]}
             first == CHOOSE i \in DOMAIN made :
                        /\ p \in DOMAIN made[i]
                        /\ \A j \in DOMAIN made : p \in DOMAIN made[j] => i <= j
  <2>1. T \subseteq Nat /\ T # {}
    BY <1>1 DEF Paths
  <2>2. \E i \in T : \A j \in T : i <= j
    BY <2>1, Least
  <2>3. first \in DOMAIN made /\ p \in DOMAIN made[first]
    BY <2>2
  <2>4. EarliestOf(made)[p] = made[first][p]
    BY <1>1 DEF EarliestOf
  <2>5. QED
    BY <2>3, <2>4
<1>2. EarliestOf(made) = [p \in Paths(made) |-> EarliestOf(made)[p]]
  BY DEF EarliestOf
<1>3. QED
  BY <1>1, <1>2 DEF MergeOf

LEMMA LatestMerges ==
  ASSUME NEW made, NEW k \in Nat, DOMAIN made \subseteq 1..k
  PROVE  MergeOf(made, LatestOf(made))
<1>1. ASSUME NEW p \in Paths(made)
      PROVE  \E i \in DOMAIN made : p \in DOMAIN made[i] /\ LatestOf(made)[p] = made[i][p]
  <2> DEFINE T == {i \in DOMAIN made : p \in DOMAIN made[i]}
             last == CHOOSE i \in DOMAIN made :
                       /\ p \in DOMAIN made[i]
                       /\ \A j \in DOMAIN made : p \in DOMAIN made[j] => j <= i
  <2>1. T \subseteq 1..k /\ T # {}
    BY <1>1 DEF Paths
  <2>2. \E i \in T : \A j \in T : j <= i
    BY <2>1, Greatest
  <2>3. last \in DOMAIN made /\ p \in DOMAIN made[last]
    BY <2>2
  <2>4. LatestOf(made)[p] = made[last][p]
    BY <1>1 DEF LatestOf
  <2>5. QED
    BY <2>3, <2>4
<1>2. LatestOf(made) = [p \in Paths(made) |-> LatestOf(made)[p]]
  BY DEF LatestOf
<1>3. QED
  BY <1>1, <1>2 DEF MergeOf

(* What the entries of an archive make at their places, by whichever of the two. *)
Makes(archive, taken, dests, made) ==
  /\ DOMAIN made = taken
  /\ \A i \in taken : \E between \in SUBSET Parents(dests[i]) :
       made[i] = Made(archive[i], dests[i], between)

Apart(archive, taken, dests) ==
  \A i, j \in taken :
    archive[i].kind # "dir" /\ i # j => dests[i] \notin Parents(dests[j]) \cup {dests[j]}

(* The files and links of an archive, at their places. *)
Leaves(archive, taken, dests) ==
  {<<dests[i], Node(archive[i])>> : i \in {j \in taken : archive[j].kind # "dir"}}

LEMMA MadeOf ==
  ASSUME NEW e, NEW path, NEW between, NEW p \in DOMAIN Made(e, path, between)
  PROVE  /\ p \in between \cup {path}
         /\ Made(e, path, between)[p].kind # "dir" => p = path /\ e.kind # "dir"
         /\ p = path => Made(e, path, between)[p] = Node(e)
<1>1. p \in between \cup {path} /\ Made(e, path, between)[p] = IF p = path THEN Node(e) ELSE Dir
  BY DEF Made
<1>2. Dir.kind = "dir"
  BY DEF Dir
<1>3. e.kind = "dir" => Node(e) = Dir
  BY DEF Node
<1>4. QED
  BY <1>1, <1>2, <1>3

LEMMA FilesAreLeaves ==
  ASSUME NEW archive, NEW taken, NEW dests, NEW made, NEW nodes,
         Makes(archive, taken, dests, made), MergeOf(made, nodes), Apart(archive, taken, dests)
  PROVE  Files(nodes) = Leaves(archive, taken, dests)
<1>1. DOMAIN nodes = Paths(made)
  BY DEF MergeOf
<1>2. DOMAIN made = taken
  BY DEF Makes
<1>3. ASSUME NEW i \in DOMAIN made, NEW p \in DOMAIN made[i]
      PROVE  /\ p \in Parents(dests[i]) \cup {dests[i]}
             /\ made[i][p].kind # "dir" => p = dests[i] /\ archive[i].kind # "dir"
             /\ p = dests[i] => made[i][p] = Node(archive[i])
  <2>1. PICK between \in SUBSET Parents(dests[i]) : made[i] = Made(archive[i], dests[i], between)
    BY DEF Makes
  <2>2. QED
    BY <2>1, MadeOf
<1>4. ASSUME NEW p \in DOMAIN nodes, nodes[p].kind # "dir"
      PROVE  <<p, nodes[p]>> \in Leaves(archive, taken, dests)
  <2>1. PICK i \in DOMAIN made : p \in DOMAIN made[i] /\ nodes[p] = made[i][p]
    BY <1>1 DEF MergeOf
  <2>2. p = dests[i] /\ archive[i].kind # "dir" /\ nodes[p] = Node(archive[i])
    BY <1>3, <1>4, <2>1
  <2>3. QED
    BY <1>2, <2>2 DEF Leaves
<1>5. ASSUME NEW i \in taken, archive[i].kind # "dir"
      PROVE  <<dests[i], Node(archive[i])>> \in Files(nodes)
  <2>1. dests[i] \in DOMAIN made[i]
    <3>1. PICK between \in SUBSET Parents(dests[i]) : made[i] = Made(archive[i], dests[i], between)
      BY <1>2 DEF Makes
    <3>2. QED
      BY <3>1 DEF Made
  <2>2. dests[i] \in DOMAIN nodes
    BY <1>1, <1>2, <2>1 DEF Paths
  <2>3. PICK j \in DOMAIN made : dests[i] \in DOMAIN made[j] /\ nodes[dests[i]] = made[j][dests[i]]
    BY <1>1, <2>2 DEF MergeOf
  <2>4. dests[i] \in Parents(dests[j]) \cup {dests[j]}
    BY <1>3, <2>3
  <2>5. j = i
    BY <1>2, <1>5, <2>4 DEF Apart
  <2>6. nodes[dests[i]] = Node(archive[i])
    BY <1>2, <1>3, <2>1, <2>3, <2>5
  <2>7. Node(archive[i]).kind # "dir"
    BY <1>5 DEF Node
  <2>8. QED
    BY <2>2, <2>6, <2>7 DEF Files
<1>6. Files(nodes) \subseteq Leaves(archive, taken, dests)
  BY <1>4 DEF Files
<1>7. Leaves(archive, taken, dests) \subseteq Files(nodes)
  BY <1>5 DEF Leaves
<1>8. QED
  BY <1>6, <1>7

LEMMA Widened == ASSUME NEW S, NEW T, S \subseteq T, NEW s \in Seq(S) PROVE s \in Seq(T)
<1>1. Len(s) \in Nat /\ s \in [1..Len(s) -> T]
  BY LenProperties
<1>2. QED
  BY <1>1, SeqDef

LEMMA Divided ==
  ASSUME NEW S, NEW rest \in Seq(S), NEW prefix \in Seq(S),
         Len(prefix) < Len(rest), SubSeq(rest, 1, Len(prefix)) = prefix
  PROVE  /\ rest = prefix \o SubSeq(rest, Len(prefix) + 1, Len(rest))
         /\ SubSeq(rest, Len(prefix) + 1, Len(rest)) \in Seq(S)
         /\ SubSeq(rest, Len(prefix) + 1, Len(rest)) # <<>>
<1> DEFINE n == Len(prefix)
           l == Len(rest)
<1>1. n \in Nat /\ l \in Nat /\ n < l
  BY LenProperties
<1>2. SubSeq(rest, 1, n) \o SubSeq(rest, n + 1, l) = SubSeq(rest, 1, l)
  <2>1. 1 \in 1..l + 1 /\ n \in 1 - 1..l /\ l \in n..l
    BY <1>1
  <2> HIDE DEF n, l
  <2>2. QED
    BY <2>1, ConcatAdjacentSubSeq DEF l
<1>3. SubSeq(rest, 1, l) = rest
  BY SubSeqFull
<1>4. \A k \in n + 1..l : rest[k] \in S
  BY <1>1, ElementOfSeq
<1>5. SubSeq(rest, n + 1, l) \in Seq(S) /\ Len(SubSeq(rest, n + 1, l)) = l - (n + 1) + 1
  <2>1. n + 1 \in Int /\ l \in Int /\ n + 1 <= l
    BY <1>1
  <2> HIDE DEF n, l
  <2>2. QED
    BY <1>4, <2>1, SubSeqProperties
<1> DEFINE tail == SubSeq(rest, n + 1, l)
<1>6. rest = prefix \o tail
  BY <1>2, <1>3
<1>7. tail \in Seq(S) /\ Len(tail) > 0
  BY <1>1, <1>5
<1> HIDE DEF tail
<1>8. tail # <<>>
  BY <1>7, EmptySeq
<1>9. rest = prefix \o tail /\ tail \in Seq(S) /\ tail # <<>>
  BY <1>6, <1>7, <1>8
<1>10. QED
  BY <1>9 DEF tail

LEMMA Prefixed ==
  ASSUME NEW S, NEW prefix \in Seq(S), NEW p \in Seq(S), p # <<>>
  PROVE  /\ Len(prefix) < Len(prefix \o p)
         /\ SubSeq(prefix \o p, 1, Len(prefix)) = prefix
         /\ SubSeq(prefix \o p, Len(prefix) + 1, Len(prefix \o p)) = p
<1> DEFINE n == Len(prefix)
           l == Len(p)
<1>1. n \in Nat /\ l \in Nat /\ l > 0
  BY LenProperties, EmptySeq
<1>2. Len(prefix \o p) = n + l
  BY ConcatProperties
<1>3. SubSeq(prefix \o p, 1, n) = prefix
  <2>1. CASE n = 0
    BY <2>1, SubSeqEmpty, EmptySeq
  <2>2. CASE n > 0
    <3>1. 1 \in 1..n /\ n \in 1..n
      BY <1>1, <2>2
    <3>2. SubSeq(prefix \o p, 1, n) = SubSeq(prefix, 1, n)
      BY <3>1, SubSeqOfConcat1
    <3>3. QED
      BY <3>2, SubSeqFull
  <2>3. QED
    BY <1>1, <2>1, <2>2
<1>4. SubSeq(prefix \o p, n + 1, n + l) = p
  <2>1. n + 1 \in n + 1..n + l /\ n + l \in n + 1..n + l
    BY <1>1
  <2>2. SubSeq(prefix \o p, n + 1, n + l) = SubSeq(p, n + 1 - n, n + l - n)
    BY <2>1, SubSeqOfConcat2
  <2>3. n + 1 - n = 1 /\ n + l - n = l
    BY <1>1
  <2>4. QED
    BY <2>2, <2>3, SubSeqFull
<1>5. QED
  BY <1>1, <1>2, <1>3, <1>4

(* What is cut from a beginning of a sequence is cut from the sequence.     *)
LEMMA PrefixOfPrefix ==
  ASSUME NEW S, NEW s \in Seq(S), NEW n \in 1..Len(s), NEW m \in 1..n
  PROVE  SubSeq(SubSeq(s, 1, n), m, n) = SubSeq(s, m, n)
<1> DEFINE u == SubSeq(s, 1, n)
           v == SubSeq(u, m, n)
           w == SubSeq(s, m, n)
<1>1. /\ n \in Int /\ m \in Int /\ 1 <= m /\ m <= n
      /\ \A i \in 1..n : s[i] \in S
  BY LenProperties, ElementOfSeq
<1>2. \A i \in 1..n : u[i] = s[i]
  <2>1. \A i \in 1..n - 1 + 1 : u[i] = s[1 + i - 1]
    BY ONLY <1>1, 1 \in Int, SubSeqProperties
  <2> HIDE DEF u
  <2>2. QED
    BY <1>1, <2>1
<1> HIDE DEF u
<1>3. (\A i \in m..n : s[i] \in S) /\ (\A i \in m..n : u[i] \in S)
  BY <1>1, <1>2
<1>4. /\ v \in Seq(S) /\ Len(v) = IF m <= n THEN n - m + 1 ELSE 0
      /\ \A i \in 1..n - m + 1 : v[i] = u[m + i - 1]
  BY ONLY <1>1, <1>3, SubSeqProperties
<1>5. /\ w \in Seq(S) /\ Len(w) = IF m <= n THEN n - m + 1 ELSE 0
      /\ \A i \in 1..n - m + 1 : w[i] = s[m + i - 1]
  BY ONLY <1>1, <1>3, SubSeqProperties
<1> HIDE DEF v, w
<1>6. Len(v) = Len(w) /\ \A i \in 1..Len(v) : v[i] = w[i]
  BY <1>1, <1>2, <1>4, <1>5
<1>7. v = w
  BY ONLY <1>4, <1>5, <1>6, SeqEqual
<1>8. QED
  BY <1>7 DEF u, v, w

LEMMA UnderTarget ==
  ASSUME NEW S, NEW target \in Seq(S), NEW a \in Seq(S), NEW b \in Seq(S), a # <<>>,
         target \o a \in Parents(target \o b) \cup {target \o b}
  PROVE  a \in Parents(b) \cup {b}
<1> DEFINE t  == Len(target)
           la == Len(a)
           lb == Len(b)
           ta == target \o a
           tb == target \o b
<1>1. t \in Nat /\ la \in Nat /\ lb \in Nat /\ la > 0
  BY LenProperties, EmptySeq
<1>2. /\ ta \in Seq(S) /\ Len(ta) = t + la
      /\ tb \in Seq(S) /\ Len(tb) = t + lb
  BY ConcatProperties
<1>3. CASE ta = tb
  <2>1. a = b
    BY <1>3, ConcatSimplifications
  <2>2. QED
    BY <2>1
<1>4. ASSUME NEW n \in 1..(Len(tb) - 1), ta = SubSeq(tb, 1, n)
      PROVE  a \in Parents(b)
  <2>1. n \in 1..t + lb - 1
    BY <1>2
  <2>2. Len(SubSeq(tb, 1, n)) = n
    <3>1. \A k \in 1..n : tb[k] \in S
      BY <1>1, <1>2, <2>1, ElementOfSeq
    <3>2. 1 \in Int /\ n \in Int /\ 1 <= n
      BY <2>1
    <3> HIDE DEF tb
    <3>3. Len(SubSeq(tb, 1, n)) = n - 1 + 1
      BY <3>1, <3>2, SubSeqProperties
    <3>4. QED
      BY <3>2, <3>3
  <2>3. n = t + la /\ la < lb
    BY <1>1, <1>2, <1>4, <2>1, <2>2
  <2>4. SubSeq(ta, t + 1, n) = a
    <3>1. t + 1 \in t + 1..t + la /\ n \in t + 1..t + la
      BY <1>1, <2>3
    <3>2. SubSeq(ta, t + 1, n) = SubSeq(a, t + 1 - t, n - t)
      BY <3>1, SubSeqOfConcat2
    <3>3. t + 1 - t = 1 /\ n - t = la
      BY <1>1, <2>3
    <3>4. SubSeq(a, 1, la) = a
      BY SubSeqFull
    <3>5. QED
      BY <3>2, <3>3, <3>4
  <2>5. SubSeq(SubSeq(tb, 1, n), t + 1, n) = SubSeq(tb, t + 1, n)
    <3>1. n \in 1..Len(tb) /\ t + 1 \in 1..n
      BY <1>1, <1>2, <2>1, <2>3
    <3> HIDE DEF tb, t
    <3>2. QED
      BY <1>2, <3>1, PrefixOfPrefix
  <2>6. SubSeq(tb, t + 1, n) = SubSeq(b, 1, la)
    <3>1. t + 1 \in t + 1..t + lb /\ n \in t + 1..t + lb
      BY <1>1, <2>3
    <3>2. SubSeq(tb, t + 1, n) = SubSeq(b, t + 1 - t, n - t)
      BY <3>1, SubSeqOfConcat2
    <3>3. t + 1 - t = 1 /\ n - t = la
      BY <1>1, <2>3
    <3>4. QED
      BY <3>2, <3>3
  <2>7. a = SubSeq(b, 1, la)
    BY <1>4, <2>4, <2>5, <2>6
  <2>8. la \in 1..lb - 1
    BY <1>1, <2>3
  <2>9. QED
    BY <2>7, <2>8 DEF Parents
<1>5. QED
  BY <1>3, <1>4 DEF Parents

(* An archive as composer and builder find it: paths are sequences, none is Absent. *)
Archive(archive) ==
  /\ archive \in Seq({archive[i] : i \in DOMAIN archive})
  /\ \A i \in DOMAIN archive :
       /\ IsPath(archive[i].path)
       /\ \A n \in 1..Len(archive[i].path) :
            SubSeq(archive[i].path, n, Len(archive[i].path)) # Absent

Rest(path, strip) == SubSeq(path, strip + 1, Len(path))

(* Where a path lands under a prefix, and where it lands without one.       *)
LEMMA Lands ==
  ASSUME NEW S, NEW path \in Seq(S), NEW strip \in Nat, NEW prefix \in Seq(S)
  PROVE  /\ Rest(path, strip) \in Seq(S)
         /\ Len(path) > strip => Place(path, strip, <<>>).dest = Rest(path, strip)
         /\ Len(path) <= strip =>
              Place(path, strip, <<>>).dest = Absent /\ Place(path, strip, prefix).dest = Absent
         /\ Place(path, strip, prefix).dest # Absent =>
              /\ Place(path, strip, prefix).dest \in Seq(S) /\ Place(path, strip, prefix).dest # <<>>
              /\ Rest(path, strip) = prefix \o Place(path, strip, prefix).dest
         /\ \A p \in Seq(S) : Len(path) > strip /\ p # <<>> /\ Rest(path, strip) = prefix \o p
                              => Place(path, strip, prefix).dest = p
<1> DEFINE rest == Rest(path, strip)
           head(q) == SubSeq(rest, 1, Len(q))
           tail(q) == SubSeq(rest, Len(q) + 1, Len(rest))
           at(q) == Place(path, strip, q).dest
<1>1. Len(path) \in Nat /\ Len(prefix) \in Nat
  BY LenProperties
<1>2. rest \in Seq(S) /\ (Len(path) > strip => Len(rest) = Len(path) - strip)
  <2>1. \A k \in strip + 1..Len(path) : path[k] \in S
    BY <1>1, ElementOfSeq
  <2>2. strip + 1 \in Int /\ Len(path) \in Int
    BY <1>1
  <2>3. /\ SubSeq(path, strip + 1, Len(path)) \in Seq(S)
        /\ Len(SubSeq(path, strip + 1, Len(path))) =
             IF strip + 1 <= Len(path) THEN Len(path) - (strip + 1) + 1 ELSE 0
    BY <2>1, <2>2, SubSeqProperties
  <2>4. QED
    BY <1>1, <2>3 DEF Rest
<1>3. Len(path) <= strip => \A q : at(q) = Absent
  BY DEF Place, Nowhere
<1>4. \A q : Len(path) > strip =>
        at(q) = IF Len(q) <= Len(rest) /\ head(q) = q
                THEN IF Len(rest) = Len(q) THEN Absent ELSE tail(q)
                ELSE Absent
  BY <1>1 DEF Place, Nowhere, Rest
<1>5. Len(rest) \in Nat
  BY <1>2, LenProperties
<1>6. Len(path) > strip => at(<<>>) = rest
  <2> SUFFICES ASSUME Len(path) > strip PROVE at(<<>>) = rest
    OBVIOUS
  <2>1. Len(<<>>) = 0
    BY EmptySeq
  <2>2. head(<<>>) = <<>>
    BY <2>1, SubSeqEmpty
  <2>3. tail(<<>>) = rest
    <3>1. tail(<<>>) = SubSeq(rest, 1, Len(rest))
      BY <2>1
    <3> HIDE DEF rest, tail
    <3>2. QED
      BY <1>2, <3>1, SubSeqFull
  <2>4. Len(rest) > 0
    BY <1>1, <1>2
  <2> HIDE DEF at, head, tail, rest
  <2>5. QED
    BY <1>4, <1>5, <2>1, <2>2, <2>3, <2>4
<1>7. ASSUME at(prefix) # Absent
      PROVE  at(prefix) \in Seq(S) /\ at(prefix) # <<>> /\ rest = prefix \o at(prefix)
  <2>1. Len(path) > strip
    BY <1>1, <1>3, <1>7
  <2>2. Len(prefix) < Len(rest) /\ head(prefix) = prefix /\ at(prefix) = tail(prefix)
    <3> HIDE DEF at, head, tail, rest
    <3>1. QED
      BY <1>1, <1>4, <1>5, <1>7, <2>1
  <2>3. tail(prefix) \in Seq(S) /\ tail(prefix) # <<>> /\ rest = prefix \o tail(prefix)
    <3> HIDE DEF rest
    <3>1. QED
      BY <1>2, <2>2, Divided
  <2> HIDE DEF at, head, tail, rest
  <2>4. QED
    BY <2>2, <2>3
<1>8. ASSUME NEW p \in Seq(S), Len(path) > strip, p # <<>>, rest = prefix \o p
      PROVE  at(prefix) = p
  <2>1. Len(prefix) < Len(rest) /\ head(prefix) = prefix /\ tail(prefix) = p
    <3> HIDE DEF rest
    <3>1. QED
      BY <1>8, Prefixed
  <2> HIDE DEF at, head, tail, rest
  <2>2. QED
    BY <1>1, <1>4, <1>5, <1>8, <2>1
<1> HIDE DEF at, head, tail, rest
<1>9. /\ rest \in Seq(S)
      /\ Len(path) > strip => at(<<>>) = rest
      /\ Len(path) <= strip => at(<<>>) = Absent /\ at(prefix) = Absent
      /\ at(prefix) # Absent =>
           at(prefix) \in Seq(S) /\ at(prefix) # <<>> /\ rest = prefix \o at(prefix)
      /\ \A p \in Seq(S) : Len(path) > strip /\ p # <<>> /\ rest = prefix \o p => at(prefix) = p
  BY <1>2, <1>3, <1>6, <1>7, <1>8
<1>10. QED
  BY <1>9 DEF at, rest

LEMMA LandsUnder ==
  ASSUME NEW S, NEW path \in Seq(S), NEW strip \in Nat, NEW prefix \in Seq(S),
         Place(path, strip, prefix).dest # Absent
  PROVE  /\ Len(path) > strip
         /\ Place(path, strip, prefix).dest \in Seq(S) /\ Place(path, strip, prefix).dest # <<>>
         /\ Rest(path, strip) = prefix \o Place(path, strip, prefix).dest
<1>1. Len(path) \in Nat
  BY LenProperties
<1>2. QED
  BY <1>1, Lands

LEMMA LandsWhole ==
  ASSUME NEW S, NEW path \in Seq(S), NEW strip \in Nat, Place(path, strip, <<>>).dest # Absent
  PROVE  Len(path) > strip /\ Place(path, strip, <<>>).dest = Rest(path, strip)
<1>1. Len(path) \in Nat /\ <<>> \in Seq(S)
  BY LenProperties, EmptySeq
<1>2. Len(path) <= strip => Place(path, strip, <<>>).dest = Absent
  BY <1>1, Lands
<1>3. Len(path) > strip
  BY <1>1, <1>2
<1>4. QED
  BY <1>1, <1>3, Lands

LEMMA LandsThere ==
  ASSUME NEW S, NEW path \in Seq(S), NEW strip \in Nat, NEW prefix \in Seq(S), NEW p \in Seq(S),
         Len(path) > strip, p # <<>>, Rest(path, strip) = prefix \o p
  PROVE  Place(path, strip, prefix).dest = p
BY Lands

(* Whichever paths are compared, they are sequences over one set. *)
Components(archive, prefix) ==
  {prefix[n] : n \in DOMAIN prefix}
    \cup UNION {{archive[i].path[n] : n \in DOMAIN archive[i].path} : i \in DOMAIN archive}

LEMMA OneSet ==
  ASSUME NEW archive, Archive(archive), NEW prefix, IsPath(prefix)
  PROVE  /\ prefix \in Seq(Components(archive, prefix))
         /\ \A i \in DOMAIN archive : archive[i].path \in Seq(Components(archive, prefix))
<1>1. prefix \in Seq(Components(archive, prefix))
  <2>1. {prefix[n] : n \in DOMAIN prefix} \subseteq Components(archive, prefix)
    BY DEF Components
  <2>2. QED
    BY <2>1, Widened DEF IsPath
<1>2. ASSUME NEW i \in DOMAIN archive PROVE archive[i].path \in Seq(Components(archive, prefix))
  <2>1. {archive[i].path[n] : n \in DOMAIN archive[i].path} \subseteq Components(archive, prefix)
    BY DEF Components
  <2>2. archive[i].path \in Seq({archive[i].path[n] : n \in DOMAIN archive[i].path})
    BY DEF Archive, IsPath
  <2>3. QED
    BY <2>1, <2>2, Widened
<1>3. QED
  BY <1>1, <1>2

(* The file looked for without the subpath, under it, is the one that lands there. *)
LEMMA FoundWhereItLands ==
  ASSUME NEW archive, Archive(archive), NEW strip \in Nat, NEW prefix, IsPath(prefix),
         NEW i \in DOMAIN archive, NEW j \in DOMAIN archive,
         Place(archive[j].path, strip, prefix).dest # Absent
  PROVE  Place(archive[i].path, strip, <<>>).dest = prefix \o Place(archive[j].path, strip, prefix).dest
           <=> Place(archive[i].path, strip, prefix).dest = Place(archive[j].path, strip, prefix).dest
<1> DEFINE S == Components(archive, prefix)
           pi == archive[i].path
           pj == archive[j].path
           p  == Place(pj, strip, prefix).dest
<1>1. pi \in Seq(S) /\ pj \in Seq(S) /\ prefix \in Seq(S)
  BY OneSet
<1>2. Rest(pj, strip) # Absent
  <2>1. Len(pj) \in Nat /\ strip + 1 \in Nat
    BY <1>1, LenProperties
  <2>2. Len(pj) > strip
    BY <1>1, LandsUnder
  <2>3. strip + 1 \in 1..Len(pj)
    BY <2>1, <2>2
  <2>4. QED
    BY <2>3 DEF Archive, Rest
<1>3. p # Absent
  OBVIOUS
<1> HIDE DEF S, pi, pj
<1>4. p \in Seq(S) /\ p # <<>> /\ Rest(pj, strip) = prefix \o p
  BY <1>1, <1>3, LandsUnder
<1> HIDE DEF p
<1>5. ASSUME Place(pi, strip, <<>>).dest = prefix \o p PROVE Place(pi, strip, prefix).dest = p
  <2>1. Place(pi, strip, <<>>).dest # Absent
    BY <1>2, <1>4, <1>5
  <2>2. Len(pi) > strip /\ Place(pi, strip, <<>>).dest = Rest(pi, strip)
    BY <1>1, <2>1, LandsWhole
  <2>3. Rest(pi, strip) = prefix \o p
    BY <1>5, <2>2
  <2>4. QED
    BY <1>1, <1>4, <2>2, <2>3, LandsThere
<1>6. ASSUME Place(pi, strip, prefix).dest = p PROVE Place(pi, strip, <<>>).dest = prefix \o p
  <2> DEFINE at == Place(pi, strip, prefix).dest
  <2>1. at # Absent
    BY <1>3, <1>6
  <2>2. Len(pi) > strip /\ Rest(pi, strip) = prefix \o at
    BY <1>1, <2>1, LandsUnder
  <2>3. Place(pi, strip, <<>>).dest = Rest(pi, strip)
    BY <1>1, <2>2, Lands
  <2>4. at = p
    BY <1>6
  <2> HIDE DEF at
  <2>5. QED
    BY <2>2, <2>3, <2>4
<1>7. QED
  BY <1>5, <1>6 DEF pi, pj, p

(***************************************************************************)
(* What the composer and the builder make of one archive.                  *)
(***************************************************************************)

LEMMA ArchiveDomain ==
  ASSUME NEW archive, Archive(archive) PROVE Len(archive) \in Nat /\ DOMAIN archive = 1..Len(archive)
BY LenProperties DEF Archive

(* Where the composer puts what it takes: at the places, under the target. *)
Under(target, taken, dests) == [i \in taken |-> target \o dests[i]]

LEMMA ApartUnder ==
  ASSUME NEW archive, Archive(archive), NEW strip \in Nat, NEW prefix, IsPath(prefix),
         NEW target, IsPath(target), Treelike(archive, strip, prefix)
  PROVE  LET dests == Dests(archive, strip, prefix)
             taken == Taken(archive, dests)
         IN Apart(archive, taken, Under(target, taken, dests))
<1> DEFINE dests == Dests(archive, strip, prefix)
           taken == Taken(archive, dests)
           S     == Components(archive, prefix)
           range == {target[n] : n \in DOMAIN target}
           U     == S \cup range
<1>1. \A i \in taken : /\ i \in DOMAIN archive /\ dests[i] # Absent
                       /\ dests[i] = Place(archive[i].path, strip, prefix).dest
  BY DEF Taken, Dests
<1>2. \A i, j \in taken : archive[i].kind # "dir" /\ i # j => dests[i] \notin Parents(dests[j]) \cup {dests[j]}
  BY DEF Treelike
<1>3. \A i \in DOMAIN archive : archive[i].path \in Seq(S)
  BY OneSet
<1>4. prefix \in Seq(S)
  BY OneSet
<1> HIDE DEF dests, S
<1>5. \A i \in taken : dests[i] \in Seq(S) /\ dests[i] # <<>>
  BY <1>1, <1>3, <1>4, LandsUnder
<1>6. target \in Seq(U)
  <2>1. range \subseteq U
    OBVIOUS
  <2>2. target \in Seq(range)
    BY DEF IsPath
  <2> HIDE DEF U, range
  <2>3. QED
    BY <2>1, <2>2, Widened
<1>7. S \subseteq U
  OBVIOUS
<1> HIDE DEF U, taken
<1>8. \A i \in taken : dests[i] \in Seq(U)
  BY <1>5, <1>7, Widened
<1>9. ASSUME NEW i \in taken, NEW j \in taken, archive[i].kind # "dir", i # j,
             target \o dests[i] \in Parents(target \o dests[j]) \cup {target \o dests[j]}
      PROVE  FALSE
  <2>1. dests[i] \in Parents(dests[j]) \cup {dests[j]}
    BY <1>5, <1>6, <1>8, <1>9, UnderTarget
  <2>2. QED
    BY <1>2, <1>9, <2>1
<1> DEFINE under == Under(target, taken, dests)
<1>10. \A i \in taken : under[i] = target \o dests[i]
  BY DEF Under
<1> HIDE DEF under
<1>11. Apart(archive, taken, under)
  BY <1>9, <1>10 DEF Apart
<1>12. QED
  BY <1>11 DEF under, taken, dests

LEMMA ComposersFiles ==
  ASSUME NEW archive, Archive(archive), NEW strip \in Nat, NEW prefix, IsPath(prefix),
         NEW target, IsPath(target),
         Extracted(archive, target, strip, prefix) # Absent, Treelike(archive, strip, prefix)
  PROVE  LET dests == Dests(archive, strip, prefix)
             taken == Taken(archive, dests)
         IN Files(Extracted(archive, target, strip, prefix))
              = Leaves(archive, taken, Under(target, taken, dests))
<1> DEFINE dests == Dests(archive, strip, prefix)
           taken == Taken(archive, dests)
           under == Under(target, taken, dests)
           made  == [i \in taken |-> Collected(archive[i], target \o dests[i])]
<1>1. Extracted(archive, target, strip, prefix) = EarliestOf(made)
  BY DEF Extracted
<1>2. taken \subseteq DOMAIN archive
  BY DEF Taken
<1>3. Apart(archive, taken, under)
  BY ApartUnder
<1> HIDE DEF dests, taken
<1>4. \A i \in taken : under[i] = target \o dests[i]
  BY DEF Under
<1> HIDE DEF under
<1>5. Makes(archive, taken, under, made)
  <2>1. ASSUME NEW i \in taken
        PROVE  \E between \in SUBSET Parents(under[i]) : made[i] = Made(archive[i], under[i], between)
    <3>1. made[i] = Made(archive[i], under[i], IF archive[i].kind = "file" THEN Parents(under[i]) ELSE {})
      BY <1>4 DEF Collected
    <3> HIDE DEF made
    <3>2. QED
      BY <3>1
  <2>2. DOMAIN made = taken
    OBVIOUS
  <2> HIDE DEF made
  <2>3. QED
    BY <2>1, <2>2 DEF Makes
<1>6. DOMAIN made \subseteq Nat
  BY <1>2, ArchiveDomain
<1> HIDE DEF made
<1>7. MergeOf(made, EarliestOf(made))
  BY <1>6, EarliestMerges
<1>8. Files(EarliestOf(made)) = Leaves(archive, taken, under)
  BY <1>3, <1>5, <1>7, FilesAreLeaves
<1>9. QED
  BY <1>1, <1>8 DEF dests, taken, under

LEMMA BuildersFiles ==
  ASSUME NEW archive, Archive(archive), NEW strip, NEW prefix,
         Tree(archive, strip, prefix) # Absent, Treelike(archive, strip, prefix)
  PROVE  LET dests == Dests(archive, strip, prefix)
         IN Files(Tree(archive, strip, prefix)) = Leaves(archive, Taken(archive, dests), dests)
<1> DEFINE dests == Dests(archive, strip, prefix)
           taken == Taken(archive, dests)
           made  == [i \in taken |-> Written(archive[i], dests[i])]
<1>1. Tree(archive, strip, prefix) = LatestOf(made)
  BY DEF Tree
<1>2. taken \subseteq DOMAIN archive
  BY DEF Taken
<1>3. Apart(archive, taken, dests)
  BY DEF Treelike, Apart
<1> HIDE DEF dests, taken
<1>4. Makes(archive, taken, dests, made)
  <2>1. ASSUME NEW i \in taken
        PROVE  \E between \in SUBSET Parents(dests[i]) : made[i] = Made(archive[i], dests[i], between)
    <3>1. made[i] = Made(archive[i], dests[i], Parents(dests[i]))
      BY DEF Written
    <3> HIDE DEF made
    <3>2. QED
      BY <3>1
  <2>2. DOMAIN made = taken
    OBVIOUS
  <2> HIDE DEF made
  <2>3. QED
    BY <2>1, <2>2 DEF Makes
<1>5. DOMAIN made \subseteq 1..Len(archive) /\ Len(archive) \in Nat
  BY <1>2, ArchiveDomain
<1> HIDE DEF made
<1>6. MergeOf(made, LatestOf(made))
  BY <1>5, LatestMerges
<1>7. Files(LatestOf(made)) = Leaves(archive, taken, dests)
  BY <1>3, <1>4, <1>6, FilesAreLeaves
<1>8. QED
  BY <1>1, <1>7 DEF dests, taken

(* What the composer takes is what the builder takes, under the target. *)
LEMMA SameFiles ==
  ASSUME NEW archive, Archive(archive), NEW strip \in Nat, NEW prefix, IsPath(prefix),
         NEW target, IsPath(target), Extracted(archive, target, strip, prefix) # Absent,
         Tree(archive, strip, prefix) # Absent, Treelike(archive, strip, prefix)
  PROVE  Files(Extracted(archive, target, strip, prefix))
           = {<<target \o f[1], f[2]>> : f \in Files(Tree(archive, strip, prefix))}
<1> DEFINE dests  == Dests(archive, strip, prefix)
           taken  == Taken(archive, dests)
           leaves == {j \in taken : archive[j].kind # "dir"}
           under  == Under(target, taken, dests)
           here   == Files(Extracted(archive, target, strip, prefix))
           there  == Files(Tree(archive, strip, prefix))
<1>1. here = {<<under[i], Node(archive[i])>> : i \in leaves}
  BY ComposersFiles DEF Leaves
<1>2. there = {<<dests[i], Node(archive[i])>> : i \in leaves}
  BY BuildersFiles DEF Leaves
<1> HIDE DEF dests, here, there
<1>3. \A i \in leaves : under[i] = target \o dests[i]
  BY DEF Under
<1> HIDE DEF leaves, under
<1>4. here = {<<target \o f[1], f[2]>> : f \in there}
  <2>1. ASSUME NEW i \in leaves
        PROVE  /\ <<under[i], Node(archive[i])>> = <<target \o <<dests[i], Node(archive[i])>>[1],
                                                     <<dests[i], Node(archive[i])>>[2]>>
               /\ <<dests[i], Node(archive[i])>> \in there
    BY <1>2, <1>3
  <2> DEFINE at(f) == <<target \o f[1], f[2]>>
  <2>2. \A i \in leaves : at(<<dests[i], Node(archive[i])>>) = <<under[i], Node(archive[i])>>
    BY <2>1
  <2> HIDE DEF at
  <2>3. here = {at(f) : f \in there}
    BY <1>1, <1>2, <2>2
  <2>4. QED
    BY <2>3 DEF at
<1>5. QED
  BY <1>4 DEF here, there

(* What is found for a file of the tree is the one entry that makes it. *)
LEMMA FoundIsBuilt ==
  ASSUME NEW archive, Archive(archive), NEW strip \in Nat, NEW prefix, IsPath(prefix),
         Tree(archive, strip, prefix) # Absent, Treelike(archive, strip, prefix),
         NEW p \in DOMAIN Tree(archive, strip, prefix), Tree(archive, strip, prefix)[p].kind = "file"
  PROVE  \E i \in Found(archive, strip, prefix, p) :
           /\ Tree(archive, strip, prefix)[p].body = archive[i].body
           /\ Checked(archive, strip, prefix, p) = archive[i].read
<1> DEFINE dests == Dests(archive, strip, prefix)
           tree  == Tree(archive, strip, prefix)
           found == Found(archive, strip, prefix, p)
<1>1. <<p, tree[p]>> \in Leaves(archive, Taken(archive, dests), dests)
  BY BuildersFiles DEF Files
<1>2. PICK i \in Taken(archive, dests) :
        archive[i].kind # "dir" /\ p = dests[i] /\ tree[p] = Node(archive[i])
  BY <1>1 DEF Leaves
<1>3. archive[i].kind = "file" /\ tree[p].body = archive[i].body
  BY <1>2 DEF Node
<1>4. i \in DOMAIN archive /\ p = Place(archive[i].path, strip, prefix).dest /\ p # Absent
  BY <1>2 DEF Taken, Dests
<1>5. \A j \in DOMAIN archive :
        Place(archive[j].path, strip, <<>>).dest = prefix \o p <=> Place(archive[j].path, strip, prefix).dest = p
  <2> TAKE j \in DOMAIN archive
  <2> DEFINE at == Place(archive[i].path, strip, prefix).dest
  <2>1. Place(archive[j].path, strip, <<>>).dest = prefix \o at <=> Place(archive[j].path, strip, prefix).dest = at
    BY <1>4, FoundWhereItLands
  <2> HIDE DEF at
  <2>2. p = at
    BY <1>4 DEF at
  <2>3. QED
    BY <2>1, <2>2
<1>6. found = {i}
  <2>1. i \in found
    BY <1>3, <1>4, <1>5 DEF Found
  <2>2. ASSUME NEW j \in found PROVE j = i
    <3>1. j \in DOMAIN archive /\ archive[j].kind = "file" /\ Place(archive[j].path, strip, prefix).dest = p
      BY <1>5, <2>2 DEF Found
    <3>2. j \in Taken(archive, dests) /\ dests[j] = p
      BY <1>4, <3>1 DEF Taken, Dests
    <3>3. QED
      BY <1>2, <1>3, <3>1, <3>2 DEF Treelike
  <2>3. QED
    BY <2>1, <2>2
<1>7. i <= i
  BY <1>4, ArchiveDomain
<1> HIDE DEF found, tree, dests
<1>8. (CHOOSE k \in found : \A j \in found : k <= j) = i
  BY <1>6, <1>7
<1>9. Checked(archive, strip, prefix, p) = archive[i].read
  BY <1>6, <1>8 DEF Checked, found
<1>10. QED
  BY <1>3, <1>6, <1>9 DEF tree, found

LEMMA BuiltIsChecked ==
  ASSUME NEW archive, Archive(archive), NEW strip \in Nat, NEW prefix, IsPath(prefix),
         Tree(archive, strip, prefix) # Absent, Treelike(archive, strip, prefix),
         NEW p \in DOMAIN Tree(archive, strip, prefix), Tree(archive, strip, prefix)[p].kind = "file",
         \A j \in Found(archive, strip, prefix, p) : archive[j].read = archive[j].body
  PROVE  Checked(archive, strip, prefix, p) = Tree(archive, strip, prefix)[p].body
BY FoundIsBuilt

LEMMA ArchiveInput ==
  ASSUME NEW in, FromLayer(in), in.unpack = "tar.gz", in.kind # "remove"
  PROVE  /\ Archive(Archives[in.digest]) /\ in.strip \in Nat /\ IsPath(in.subpath) /\ IsPath(in.target)
         /\ in.remove = <<>>
<1>1. PICK l \in Layers, t \in Repacked :
        in = CASE l.kind = "sourceRef" -> [l EXCEPT !.digest = t, !.unpack = "tar.gz", !.strip = 0]
               [] l.kind = "image"     -> [l EXCEPT !.unpack = "image", !.strip = 0]
               [] OTHER                -> l
  BY DEF FromLayer
<1>2. /\ {"kind", "digest", "unpack", "strip", "subpath", "target", "slash", "owner", "fileMode", "dirMode",
          "remove"} \subseteq DOMAIN l
      /\ l.kind # "remove" => l.remove = <<>>
      /\ l.unpack = "tar.gz" /\ l.kind \notin {"sourceRef", "image", "remove"} => l.digest \in DOMAIN Archives
      /\ l.strip \in Nat /\ IsPath(l.subpath) /\ IsPath(l.target)
  BY LayersAssumption
<1>3. /\ in.digest \in DOMAIN Archives /\ in.strip \in Nat /\ in.subpath = l.subpath
      /\ in.target = l.target /\ in.remove = <<>>
  <2>1. CASE l.kind = "sourceRef"
    <3>1. in = [l EXCEPT !.digest = t, !.unpack = "tar.gz", !.strip = 0]
      BY <1>1, <2>1
    <3>2. /\ in.digest = t /\ in.strip = 0 /\ in.subpath = l.subpath
          /\ in.target = l.target /\ in.remove = l.remove
      BY <1>2, <3>1
    <3>3. l.remove = <<>>
      BY <1>2, <2>1
    <3>4. t \in DOMAIN Archives
      BY RepackAssumption
    <3>5. QED
      BY <3>2, <3>3, <3>4
  <2>2. CASE l.kind = "image"
    <3>1. in = [l EXCEPT !.unpack = "image", !.strip = 0]
      BY <1>1, <2>2
    <3>2. QED
      BY <1>2, <3>1
  <2>3. CASE l.kind # "sourceRef" /\ l.kind # "image"
    BY <1>1, <1>2, <2>3
  <2>4. QED
    BY <2>1, <2>2, <2>3
<1>4. Archive(Archives[in.digest])
  BY <1>3, ArchivesAssumption DEF Archive
<1>5. QED
  BY <1>2, <1>3, <1>4

LEMMA ArchiveInputsOf ==
  ASSUME Composed, NEW i \in ArchiveInputs
  PROVE  /\ Archive(Archives[Inputs[i].digest]) /\ Inputs[i].strip \in Nat
         /\ IsPath(Inputs[i].subpath) /\ IsPath(Inputs[i].target)
         /\ Inputs[i].remove = <<>> /\ Inputs[i].unpack = "tar.gz" /\ FromLayer(Inputs[i])
<1>1. i \in DOMAIN Inputs /\ Inputs[i].unpack = "tar.gz" /\ Inputs[i].kind # "remove"
  BY DEF ArchiveInputs
<1>2. FromLayer(Inputs[i])
  BY <1>1, ComposedInputs
<1>3. QED
  BY <1>1, <1>2, ArchiveInput

(* ADR 0045, one path rule: of an archive both take, and whose entries keep apart, the composer's
   layer holds under its target the files and links the builder's tree holds, and no others. *)
THEOREM ComposerAndBuilderPlaceAlike == AssemblySpec => []PlacedAlike
<1>1. Composed => PlacedAlike
  <2> SUFFICES ASSUME Composed, NEW i \in ArchiveInputs,
                      Layer(Inputs[i]) # Absent,
                      Tree(Archives[Inputs[i].digest], Inputs[i].strip, Inputs[i].subpath) # Absent,
                      Treelike(Archives[Inputs[i].digest], Inputs[i].strip, Inputs[i].subpath)
               PROVE  Files([p \in DOMAIN Layer(Inputs[i]) |-> Layer(Inputs[i])[p].node])
                        = {<<Inputs[i].target \o f[1], f[2]>> :
                             f \in Files(Tree(Archives[Inputs[i].digest], Inputs[i].strip, Inputs[i].subpath))}
    BY DEF PlacedAlike
  <2> DEFINE in == Inputs[i]
             archive == Archives[in.digest]
             entries == Extracted(archive, in.target, in.strip, in.subpath)
             layer == Layer(in)
  <2>1. /\ Archive(archive) /\ in.strip \in Nat /\ IsPath(in.subpath) /\ IsPath(in.target)
        /\ in.remove = <<>> /\ in.unpack = "tar.gz"
    BY ArchiveInputsOf
  <2>2. layer # Absent /\ Tree(archive, in.strip, in.subpath) # Absent /\ Treelike(archive, in.strip, in.subpath)
    OBVIOUS
  <2> HIDE DEF in
  <2>3. Entries(in) = entries
    BY <2>1 DEF Entries
  <2> HIDE DEF archive
  <2>4. entries # Absent
    BY <2>2, <2>3 DEF Layer
  <2>5. layer = [p \in DOMAIN entries |->
                   [node |-> entries[p], mode |-> Mode(in, entries[p]), owner |-> in.owner]]
    BY <2>3, <2>4 DEF Layer
  <2> HIDE DEF layer
  <2>6. Files([p \in DOMAIN layer |-> layer[p].node]) = Files(entries)
    <3> HIDE DEF entries
    <3>1. [p \in DOMAIN layer |-> layer[p].node] = [p \in DOMAIN entries |-> entries[p]]
      BY <2>5
    <3>2. \A f : Files([p \in DOMAIN f |-> f[p]]) = Files(f)
      BY DEF Files
    <3>3. QED
      BY <3>1, <3>2
  <2>7. Files(entries) = {<<in.target \o f[1], f[2]>> : f \in Files(Tree(archive, in.strip, in.subpath))}
    <3> DEFINE target == in.target
               strip  == in.strip
               prefix == in.subpath
    <3>1. /\ Archive(archive) /\ strip \in Nat /\ IsPath(prefix) /\ IsPath(target)
          /\ Extracted(archive, target, strip, prefix) # Absent
          /\ Tree(archive, strip, prefix) # Absent /\ Treelike(archive, strip, prefix)
      BY <2>1, <2>2, <2>4
    <3> HIDE DEF target, strip, prefix
    <3>2. Files(Extracted(archive, target, strip, prefix))
            = {<<target \o f[1], f[2]>> : f \in Files(Tree(archive, strip, prefix))}
      BY <3>1, SameFiles
    <3>3. QED
      BY <3>2 DEF target, strip, prefix
  <2>8. QED
    BY <2>6, <2>7 DEF layer, archive, in
<1>2. QED
  BY <1>1, ComposedHolds, PTL

(* build/context.go, "so the file checked is the file built": whatever regular file of the builder's tree
   is the Dockerfile, what FetchDockerfile finds for it in the archive is its text, if it reads it whole. *)
THEOREM FileCheckedIsFileBuilt == AssemblySpec => []CheckedIsBuilt
<1>1. Composed => CheckedIsBuilt
  BY ArchiveInputsOf, BuiltIsChecked DEF CheckedIsBuilt
<1>2. QED
  BY <1>1, ComposedHolds, PTL

=============================================================================
