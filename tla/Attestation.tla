---------------------------- MODULE Attestation -----------------------------
(***************************************************************************)
(* One reconcile pass seen from what hangs off the image it publishes: the *)
(* SBOM referrer and the signature (attestPublished with Attestor.Ensure,  *)
(* signBuild), the record of them in status, and the RefreshNow that gives *)
(* the image its first lease. The refresher runs beside it.                *)
(***************************************************************************)
EXTENDS Retention

CONSTANTS
  Of,       \* the object whose repository an image is in
  HasKey    \* a signing key is configured

ASSUME OfAssumption  == Of \in [Images -> Objects]
ASSUME KeyAssumption == HasKey \in BOOLEAN

VARIABLES
  spec,      \* the image an object's spec and inputs produce; None: stalled
  attested,  \* status.attestations: the image a complete record is about
  sbom,      \* images whose SBOM referrer the registry holds
  sig,       \* the age of each image's .sig tag, like age
  pc,        \* the pass's next call
  made       \* what the pass recorded in memory: the image it attested

attestVars == <<spec, attested, sbom, sig, pc, made>>
vars == <<retentionVars, attestVars>>

Steps == {"idle", "attest", "reattest", "record", "rerecord", "refresh"}

Own(o) == {i \in Images : Of[i] = o}

TypeOK ==
  /\ RetentionTypeOK
  /\ spec \in [Objects -> Images \cup {None}]
  /\ attested \in [Objects -> Images \cup {None}]
  /\ made \in [Objects -> Images \cup {None}]
  /\ sbom \subseteq Images
  /\ sig \in [Images -> 0..Window]
  /\ pc \in [Objects -> Steps]

Init ==
  /\ RetentionInit
  /\ spec \in [Objects -> Images \cup {None}]
  /\ \A o \in Objects : IF Own(o) = {} THEN spec[o] = None ELSE spec[o] \in Own(o)
  /\ attested = [o \in Objects |-> None]
  /\ made = [o \in Objects |-> None]
  /\ sbom = {}
  /\ sig = [i \in Images |-> Window]
  /\ pc = [o \in Objects |-> "idle"]

IsBuild == kind = "ImageBuild"
Goto(o, step) == pc' = [pc EXCEPT ![o] = step]

-----------------------------------------------------------------------------
(* Attestor.Complete, judged by status alone.                               *)
Complete(o) == attested[o] = spec[o]

(* Mutant: the composer takes a published image for a converged one.        *)
ConvergedUnattested(o) == artifact[o] = spec[o] /\ Present(spec[o])

(* The image the inputs produce is what status names and is served. Only    *)
(* the composer asks whether it is attested.                                *)
Converged(o) == artifact[o] = spec[o] /\ Present(spec[o]) /\ (IsBuild \/ Complete(o))

(* The deferred Observe; a build's status patch, with the generation it     *)
(* observed.                                                                *)
Observed(o) == pending' = pending \ {o}

(* Mutant: readiness waits for success.                                     *)
CheapPathObservesSuccess(o) ==
  /\ pc[o] = "idle" /\ o \in pending
  /\ spec[o] # None /\ Converged(o)
  /\ Observed(o)
  /\ UNCHANGED <<kind, age, broken, record, counters, carried, modelOnly, attestVars>>

(* Nothing to do, a stalled object, a registry that does not answer, a Job  *)
(* started or still running: observed all the same.                         *)
CheapPath(o) ==
  /\ pc[o] = "idle" /\ o \in pending
  /\ spec[o] # None => IsBuild \/ spec[o] \in broken \/ Converged(o)
  /\ Observed(o)
  /\ UNCHANGED <<kind, age, broken, record, counters, carried, modelOnly, attestVars>>

(* Pushed. The registry dates a digest it did not have, and no other. What  *)
(* BuildKit attests is in the image it pushes.                              *)
Publish(o) ==
  /\ pc[o] = "idle" /\ spec[o] # None
  /\ ~Converged(o) /\ spec[o] \notin broken
  /\ ~IsBuild /\ artifact[o] = spec[o] => ~Present(spec[o])
  /\ age' = [age EXCEPT ![spec[o]] = IF Present(spec[o]) THEN @ ELSE 0]
  /\ carried' = IF ~Present(spec[o]) THEN carried \ {spec[o]}
                ELSE IF spec[o] \in Refs(o) THEN carried
                ELSE carried \cup {spec[o]}
  /\ sbom' = IF IsBuild THEN sbom \cup {spec[o]} ELSE sbom
  /\ Goto(o, "attest")
  /\ UNCHANGED <<kind, broken, record, pending, counters, modelOnly,
                 spec, attested, sig, made>>

(* The composer's second convergence check, or Keep: the tags name the      *)
(* image already, and nothing is pushed. It is attested all the same, but   *)
(* there is no Record: no history entry, and no RefreshNow.                 *)
Reconverge(o) ==
  /\ pc[o] = "idle" /\ spec[o] # None
  /\ ~IsBuild /\ ~Converged(o) /\ spec[o] \notin broken
  /\ Present(spec[o])
  /\ carried' = IF spec[o] \in Refs(o) THEN carried ELSE carried \cup {spec[o]}
  /\ Goto(o, "reattest")
  /\ UNCHANGED <<kind, age, broken, record, pending, counters, modelOnly,
                 spec, attested, sbom, sig, made>>

AfterAttest(o) ==
  Goto(o, IF pc[o] = "reattest" THEN "rerecord" ELSE IF IsBuild THEN "refresh" ELSE "record")

(* A builder believes its own status first.                                 *)
Signs(o) == HasKey /\ ~(IsBuild /\ Complete(o))

(* "FAILURE IS NOT FATAL": nothing is recorded.                             *)
AttestFails(o) == made' = [made EXCEPT ![o] = None]

(* Existing first, then what is missing; a signature this key made is       *)
(* pulled, another is written. It may fail between the two. A builder that  *)
(* has no key attests nothing, and says so.                                 *)
Attest(o) ==
  /\ pc[o] \in {"attest", "reattest"}
  /\ AfterAttest(o)
  /\ \/ /\ spec[o] \notin broken /\ Present(spec[o])
        /\ made' = [made EXCEPT ![o] = IF IsBuild /\ ~HasKey THEN None ELSE spec[o]]
        /\ sbom' = sbom \cup {spec[o]}
        /\ sig' = IF Signs(o) THEN [sig EXCEPT ![spec[o]] = 0] ELSE sig
        /\ UNCHANGED disturbed
     \/ /\ spec[o] \in broken \/ ~Present(spec[o])
        /\ AttestFails(o)
        /\ UNCHANGED <<sbom, sig, disturbed>>
     \/ /\ spec[o] \notin broken /\ Present(spec[o]) /\ Disturb
        /\ sbom' \in {sbom, sbom \cup {spec[o]}}
        /\ AttestFails(o)
        /\ UNCHANGED sig
  /\ UNCHANGED <<kind, age, broken, record, pending, counters, carried, resets, spec, attested>>

(* The status patch: a builder's last call, and a composer's that has       *)
(* nothing to refresh.                                                      *)
Record(o) ==
  /\ pc[o] \in {"record", "rerecord"}
  /\ artifact' = [artifact EXCEPT ![o] = spec[o]]
  /\ IF pc[o] = "record"
     THEN \E h \in RecordHistory(history[o], spec[o]) : history' = [history EXCEPT ![o] = h]
     ELSE UNCHANGED history
  /\ attested' = [attested EXCEPT ![o] = made[o]]
  /\ made' = [made EXCEPT ![o] = None]
  /\ IF IsBuild \/ pc[o] = "rerecord"
     THEN Goto(o, "idle") /\ Observed(o)
     ELSE Goto(o, "refresh") /\ UNCHANGED pending
  /\ UNCHANGED <<kind, age, broken, counters, carried, modelOnly, spec, sbom, sig>>

(* The composer's target leaves history out; the builder's is in memory,    *)
(* before the patch.                                                        *)
Lease(o) ==
  /\ pc[o] = "refresh"
  /\ IF IsBuild
     THEN \E h \in RecordHistory(history[o], spec[o]) : RefreshNow(o, spec[o], h)
     ELSE RefreshNow(o, spec[o], {spec[o]})
  /\ IF IsBuild
     THEN Goto(o, "record") /\ UNCHANGED pending
     ELSE Goto(o, "idle") /\ Observed(o)
  /\ UNCHANGED <<kind, broken, record, spec, attested, sbom, sig, made>>

Pass(o) ==
  CheapPath(o) \/ Publish(o) \/ Reconverge(o) \/ Attest(o) \/ Record(o) \/ Lease(o)

-----------------------------------------------------------------------------
(* The status patch conflicts, or a call fails the pass. A composer has     *)
(* observed the object all the same, a builder if its patch succeeds.       *)
PassFails(o) ==
  /\ pc[o] # "idle" /\ Disturb
  /\ Goto(o, "idle")
  /\ made' = [made EXCEPT ![o] = None]
  /\ Observed(o) \/ (IsBuild /\ UNCHANGED pending)
  /\ UNCHANGED <<kind, age, broken, record, counters, carried, resets,
                 spec, attested, sbom, sig>>

(* A build's generation moves with its spec, and is pending until observed. *)
Edit(o, i) ==
  /\ pc[o] = "idle" /\ Of[i] = o /\ i # spec[o] /\ Disturb
  /\ spec' = [spec EXCEPT ![o] = i]
  /\ pending' = IF IsBuild THEN pending \cup {o} ELSE pending
  /\ UNCHANGED <<kind, age, broken, record, counters, carried, resets, attested, sbom, sig, pc, made>>

(* A referrer lives as long as its subject; a .sig is a tag like any other. *)
(* No pass takes as long as an interval; one may straddle a cycle.          *)
Interval ==
  /\ Tick
  /\ \A o \in Objects : pc[o] = "idle"
  /\ sig' = Older(sig)
  /\ sbom' = {i \in sbom : age'[i] < Window}
  /\ UNCHANGED <<spec, attested, pc, made>>

Restart ==
  /\ RestartRefresher
  /\ pc' = [o \in Objects |-> "idle"]
  /\ made' = [o \in Objects |-> None]
  /\ UNCHANGED <<spec, attested, sbom, sig>>

Refresher == Cycle /\ UNCHANGED attestVars

Next ==
  \/ \E o \in Objects : Pass(o) \/ PassFails(o) \/ \E i \in Images : Edit(o, i)
  \/ Refresher \/ Interval \/ Restart
  \/ (CycleFails \/ Break \/ Mend) /\ UNCHANGED attestVars

Fairness ==
  /\ \A o \in Objects : WF_vars(Pass(o))
  /\ WF_vars(Refresher) /\ WF_vars(Interval)
  /\ WF_vars(Mend /\ UNCHANGED attestVars)

Spec == Init /\ [][Next]_vars /\ Fairness

-----------------------------------------------------------------------------
(* Properties                                                               *)

Signed(i) == sig[i] < Window

(* Record: "Trusting it is safe because the attestations share the          *)
(* artifact's repository and retention policy ...: a registry that lost the *)
(* referrers lost the artifact too, and the digest check fails first".      *)
RecordIsTrue ==
  \A o \in Objects :
    attested[o] # None /\ Present(attested[o])
      => attested[o] \in sbom /\ (HasKey => Signed(attested[o]))

(* attestPublished: a failure is not fatal, and what a composer failed to   *)
(* attach it attaches later. (A builder signs in one pass only.)            *)
AttestedInTheEnd ==
  kind = "ImageComposition" => \A o \in Objects : <>[](attested[o] = artifact[o])
=============================================================================
