------------------------------ MODULE BuildPod ------------------------------
(***************************************************************************)
(* One build from the Secrets minted for it to the end of its pod: what    *)
(* startBuild creates before and around the Job, what the garbage          *)
(* collector takes afterwards, and how the pod gets its context through    *)
(* the builder's proxy while the Flux source moves. When passes start and  *)
(* what becomes of the image is ImageBuild's; here a pass may start a       *)
(* build whenever there is no Job for what the source names.               *)
(*                                                                         *)
(* A Job is named after its input hash, so after the tarball it was hashed *)
(* from; its uid tells one incarnation from the next.                      *)
(***************************************************************************)
EXTENDS FluxSource, Sequences

CONSTANTS
  Kinds,        \* the Secrets a build mounts, in the order they are created
  FetchAttempts,
  HasTimeout,   \* spec.timeout is not zero: the CRD's default is half an hour
  MaxJobs       \* bound: incarnations of Jobs

Kind == {Kinds[i] : i \in DOMAIN Kinds}

ASSUME KindsAssumption   == Kinds \in Seq(STRING) /\ "context" \in Kind
ASSUME AttemptAssumption == FetchAttempts \in Nat \ {0} /\ MaxJobs \in Nat
ASSUME TimeoutAssumption == HasTimeout \in BOOLEAN
ASSUME UidAssumption     == None \notin 0..MaxJobs

VARIABLES
  job,      \* the Job of each tarball: its state, its uid, its context
  uids,     \* Jobs created so far
  owner,    \* per tarball and kind, who owns the Secret: 0 the ImageBuild, else
            \* the Job of that uid; None if there is no such Secret
  pass,     \* the running pass of startBuild: its step, its tarball
  todo,     \* Secrets still to create, or to re-own
  tries,    \* the pod's fetch attempts
  cut,      \* model only: tarballs whose Secrets were not all handed to a Job
  hasty     \* model only: tarballs whose build found Secrets of an earlier Job

podVars == <<job, uids, owner, pass, todo, tries, cut, hasty>>
podAllVars == <<source, served, due, disturbed, podVars>>

States == {"none", "pending", "fetching", "building", "succeeded", "failed"}
Ended  == {"succeeded", "failed"}
NoJob  == [state |-> "none", uid |-> 0, context |-> None]

PodTypeOK ==
  /\ SourceTypeOK
  /\ job \in [Tarballs -> [state : States, uid : 0..MaxJobs, context : Tarballs \cup {None}]]
  /\ uids \in 0..MaxJobs
  /\ owner \in [Tarballs -> [Kind -> 0..MaxJobs \cup {None}]]
  /\ pass \in [step : {"idle", "secrets", "adopt"}, of : Tarballs \cup {None}]
  /\ todo \in Seq(Kind)
  /\ tries \in [Tarballs -> 0..FetchAttempts]
  /\ cut \subseteq Tarballs /\ hasty \subseteq Tarballs

Idle == [step |-> "idle", of |-> None]

PodInit ==
  /\ job = [t \in Tarballs |-> NoJob]
  /\ uids = 0
  /\ owner = [t \in Tarballs |-> [k \in Kind |-> None]]
  /\ pass = Idle
  /\ todo = <<>>
  /\ tries = [t \in Tarballs |-> 0]
  /\ cut = {} /\ hasty = {}

SourceStays == UNCHANGED <<source, served, due>>

-----------------------------------------------------------------------------
(* The pass: startBuild.                                                    *)

(* Orphans the collector has not taken yet.                                 *)
Orphans ==
  {o \in Tarballs \X Kind :
     LET by == owner[o[1]][o[2]] IN by \notin {None, 0} /\ \A t \in Tarballs : job[t].uid # by}

(* Mutant: the Job first, and then what it mounts.                          *)
BeginWithJob ==
  /\ pass = Idle
  /\ Resolvable
  /\ job[source.artifact].state = "none" /\ UNCHANGED disturbed
  /\ uids < MaxJobs
  /\ pass' = [step |-> "secrets", of |-> source.artifact]
  /\ todo' = <<>>
  /\ SourceStays /\ UNCHANGED <<job, uids, owner, tries, cut, hasty>>

(* currentJob found none, or the informer had not delivered it.             *)
Begin ==
  /\ pass = Idle
  /\ Resolvable
  /\ IF job[source.artifact].state = "none" THEN UNCHANGED disturbed ELSE Disturb
  /\ uids < MaxJobs
  /\ pass' = [step |-> "secrets", of |-> source.artifact]
  /\ todo' = Kinds
  /\ hasty' = IF \E o \in Orphans : o[1] = source.artifact
              THEN hasty \cup {source.artifact}
              ELSE IF job[source.artifact].state = "none" THEN hasty \ {source.artifact}
              ELSE hasty
  /\ SourceStays /\ UNCHANGED <<job, uids, owner, tries, cut>>

(* createBuildSecret: created owned by the ImageBuild; one that exists      *)
(* keeps its owner, whether or not its data is refreshed.                   *)
CreateSecret ==
  /\ pass.step = "secrets" /\ todo # <<>>
  /\ owner' = IF owner[pass.of][Head(todo)] = None
              THEN [owner EXCEPT ![pass.of][Head(todo)] = 0]
              ELSE owner
  /\ todo' = Tail(todo)
  /\ SourceStays /\ UNCHANGED <<disturbed, job, uids, pass, tries, cut, hasty>>

(* AlreadyExists ends the pass, and what Secrets it made stay the object's. *)
CreateJob ==
  /\ pass.step = "secrets" /\ todo = <<>>
  /\ IF job[pass.of].state = "none"
     THEN /\ uids' = uids + 1
          /\ job' = [job EXCEPT ![pass.of] = [state |-> "pending", uid |-> uids + 1,
                                              context |-> None]]
          /\ tries' = [tries EXCEPT ![pass.of] = 0]
          /\ pass' = [pass EXCEPT !.step = "adopt"]
          /\ todo' = Kinds
          /\ cut' = cut \ {pass.of}
     ELSE /\ pass' = Idle
          /\ cut' = IF \E k \in Kind : owner[pass.of][k] = 0 THEN cut \cup {pass.of} ELSE cut
          /\ UNCHANGED <<uids, job, tries, todo>>
  /\ SourceStays /\ UNCHANGED <<disturbed, owner, hasty>>

(* Mutant: one name is missing from buildSecretNames.                       *)
AdoptSecretOfPush ==
  /\ pass.step = "adopt" /\ todo # <<>>
  /\ owner' = IF owner[pass.of][Head(todo)] = 0 /\ Head(todo) # "context"
              THEN [owner EXCEPT ![pass.of][Head(todo)] = uids]
              ELSE owner
  /\ todo' = Tail(todo)
  /\ SourceStays /\ UNCHANGED <<disturbed, job, uids, pass, tries, cut, hasty>>

(* adoptBuildSecrets: only what the ImageBuild owns; never fatal.           *)
AdoptSecret ==
  /\ pass.step = "adopt" /\ todo # <<>>
  /\ \/ /\ owner' = IF owner[pass.of][Head(todo)] = 0
                    THEN [owner EXCEPT ![pass.of][Head(todo)] = uids]
                    ELSE owner
        /\ UNCHANGED <<disturbed, cut>>
     \/ Disturb /\ UNCHANGED owner /\ cut' = cut \cup {pass.of}
  /\ todo' = Tail(todo)
  /\ SourceStays /\ UNCHANGED <<job, uids, pass, tries, hasty>>

FinishPass ==
  /\ pass.step = "adopt" /\ todo = <<>>
  /\ pass' = Idle
  /\ SourceStays /\ UNCHANGED <<disturbed, job, uids, owner, todo, tries, cut, hasty>>

(* A failed create, or the end of the process.                              *)
AbandonPass ==
  /\ pass # Idle /\ Disturb
  /\ pass' = Idle /\ todo' = <<>>
  /\ cut' = cut \cup {pass.of}
  /\ SourceStays /\ UNCHANGED <<job, uids, owner, tries, hasty>>

(* observeJob, once the failure backoff is over: background propagation, so *)
(* the Job is gone at once and what it owns when the collector gets to it.  *)
DeleteFailed(t) ==
  /\ pass = Idle /\ job[t].state = "failed"
  /\ job' = [job EXCEPT ![t] = NoJob]
  /\ SourceStays /\ UNCHANGED <<disturbed, uids, owner, pass, todo, tries, cut, hasty>>

-----------------------------------------------------------------------------
(* The cluster.                                                             *)

Collect ==
  /\ \E o \in Orphans : owner' = [owner EXCEPT ![o[1]][o[2]] = None]
  /\ SourceStays /\ UNCHANGED <<disturbed, job, uids, pass, todo, tries, cut, hasty>>

ExpireJob(t) ==
  /\ job[t].state = "succeeded" /\ pass = Idle
  /\ job' = [job EXCEPT ![t] = NoJob]
  /\ SourceStays /\ UNCHANGED <<disturbed, uids, owner, pass, todo, tries, cut, hasty>>

(* A pod starts when everything it mounts is there.                         *)
Mounted(t) == \A k \in Kind : owner[t][k] # None

StartPod(t) ==
  /\ job[t].state = "pending" /\ Mounted(t)
  /\ job' = [job EXCEPT ![t].state = "fetching"]
  /\ SourceStays /\ UNCHANGED <<disturbed, uids, owner, pass, todo, tries, cut, hasty>>

(* Mutant: a Job has no deadline. *)
DeadlineNever(t) == FALSE

(* activeDeadlineSeconds ends what hangs, if the build has a timeout.       *)
Deadline(t) ==
  /\ HasTimeout
  /\ job[t].state = "pending" /\ ~Mounted(t) /\ pass = Idle
  /\ job' = [job EXCEPT ![t].state = "failed"]
  /\ SourceStays /\ UNCHANGED <<disturbed, uids, owner, pass, todo, tries, cut, hasty>>

-----------------------------------------------------------------------------
(* The init container: fetchcontext against ContextProxy.serve.             *)

Fetching(t) == job[t].state = "fetching"

(* The proxy compares the token with the Secret of the build's own Job.     *)
Authorised(t) == owner[t]["context"] # None

(* It serves what the source names now, not what the build was hashed from. *)
Stream(t, b) ==
  /\ Authorised(t) /\ Resolvable
  /\ b = served[Revision[source.artifact]] /\ b # None

(* Mutant: it is unpacked as it comes.                                      *)
ReceiveUnverified(t) ==
  /\ Fetching(t)
  /\ \E b \in Tarballs :
       Stream(t, b) /\ job' = [job EXCEPT ![t].state = "building", ![t].context = b]
  /\ SourceStays /\ UNCHANGED <<disturbed, uids, owner, pass, todo, tries, cut, hasty>>

(* Verified before it is unpacked.                                          *)
Receive(t) ==
  /\ Fetching(t)
  /\ \E b \in Tarballs :
       /\ Stream(t, b)
       /\ job' = [job EXCEPT ![t] = IF b = t
                                    THEN [state |-> "building", uid |-> @.uid, context |-> b]
                                    ELSE [@ EXCEPT !.state = "failed"]]
  /\ SourceStays /\ UNCHANGED <<disturbed, uids, owner, pass, todo, tries, cut, hasty>>

(* 503 while the source is not ready, 502 while its file is not served, or  *)
(* no connection: tried again, FetchAttempts times.                         *)
TryAgain(t) ==
  /\ Fetching(t)
  /\ \/ Authorised(t) /\ (~Resolvable \/ served[Revision[source.artifact]] = None)
        /\ UNCHANGED disturbed
     \/ Disturb
  /\ tries' = [tries EXCEPT ![t] = @ + 1]
  /\ job' = [job EXCEPT ![t].state = IF tries'[t] = FetchAttempts THEN "failed" ELSE @]
  /\ SourceStays /\ UNCHANGED <<uids, owner, pass, todo, cut, hasty>>

(* 403, also when the Secret could not be read: permanent.                  *)
Refused(t) ==
  /\ Fetching(t)
  /\ (~Authorised(t) /\ UNCHANGED disturbed) \/ Disturb
  /\ job' = [job EXCEPT ![t].state = "failed"]
  /\ SourceStays /\ UNCHANGED <<uids, owner, pass, todo, tries, cut, hasty>>

Build(t) ==
  /\ job[t].state = "building"
  /\ \/ job' = [job EXCEPT ![t].state = "succeeded"] /\ UNCHANGED disturbed
     \/ job' = [job EXCEPT ![t].state = "failed"] /\ Disturb
  /\ SourceStays /\ UNCHANGED <<uids, owner, pass, todo, tries, cut, hasty>>

Pod(t) == StartPod(t) \/ Deadline(t) \/ Receive(t) \/ TryAgain(t) \/ Refused(t) \/ Build(t)

PassStep == Begin \/ CreateSecret \/ CreateJob \/ AdoptSecret \/ FinishPass

PodNext ==
  \/ PassStep \/ AbandonPass \/ Collect
  \/ \E t \in Tarballs : DeleteFailed(t) \/ ExpireJob(t) \/ Pod(t)

PodSpecInit == SourceInit /\ PodInit
PodSpecNext == PodNext \/ (SourceNext /\ UNCHANGED podVars)

PodFairness ==
  /\ SourceFairness
  /\ WF_podAllVars(PassStep)
  /\ WF_podAllVars(Collect)
  /\ \A t \in Tarballs : WF_podAllVars(Pod(t)) /\ WF_podAllVars(DeleteFailed(t))

PodSpec == PodSpecInit /\ [][PodSpecNext]_podAllVars /\ PodFairness

-----------------------------------------------------------------------------
(* Properties                                                               *)

(* BuildKit runs only on the tree the Job's name was hashed from, although  *)
(* the proxy serves whatever the source names when it is asked.             *)
BuiltFromHashed ==
  \A t \in Tarballs : job[t].state \in {"building", "succeeded"} => job[t].context = t

(* startBuild: "Credentials must exist before the pod that mounts them".    *)
(* They also outlive it: nothing takes a Secret from under a live pod -     *)
(* unless the pass found the Secrets of an earlier Job of the same inputs   *)
(* that the collector had not taken yet, which it neither replaces nor      *)
(* adopts.                                                                  *)
SecretsOutlivePod ==
  \A t \in Tarballs \ hasty : job[t].state \in {"pending", "fetching"} => Mounted(t)

(* Every Job that was created ends, also one whose pod never starts, if the *)
(* build has a timeout.                                                     *)
JobsEnd ==
  \A t \in Tarballs : job[t].state = "pending" ~> job[t].state \in Ended \cup {"none"}

(* ADR 0050: the Secrets of a build go with its Job, those an interrupted   *)
(* pass left behind with the next Job of the same inputs: they stay only    *)
(* where the pass that made them was cut off and no build came after it.    *)
SecretsReclaimed ==
  \A t \in Tarballs, k \in Kind :
    owner[t][k] # None /\ job[t].state = "none"
      ~> owner[t][k] = None \/ t \in cut \/ pass.of = t
=============================================================================
