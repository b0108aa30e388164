----------------------------- MODULE FluxSource -----------------------------
(***************************************************************************)
(* A Flux source as the two controllers see it: the object's status, read  *)
(* by source.FluxSource, and the file server behind status.artifact.url.   *)
(* source-controller itself is external; what is modelled of it is that it *)
(* stores a tarball before its status names it, serves one tarball per     *)
(* revision, packs a revision anew when it likes and prunes old revisions. *)
(***************************************************************************)
EXTENDS Naturals

CONSTANTS
  Tarballs,    \* tarballs, each standing for its sha256 digest
  Revision,    \* the revision a tarball was packed from; its URL names it
  None,        \* no tarball, no pin
  Objects,     \* objects whose reconcile the source's watch triggers
  Watched,     \* Flux was installed when the controller started
  Reports,     \* which of "generation" and "ready" the source's kind reports
  MaxDisturbances

Revisions == {Revision[t] : t \in Tarballs}

ASSUME RevisionAssumption == Tarballs \subseteq DOMAIN Revision
ASSUME NoneAssumption     == None \notin Tarballs /\ None \notin Revisions
ASSUME BoundAssumption    == MaxDisturbances \in Nat /\ Watched \in BOOLEAN
ASSUME ReportsAssumption  == Reports \subseteq {"generation", "ready"}

VARIABLES
  source,      \* the source: what its spec wants, and its status
  served,      \* the tarball at each revision's URL
  due,         \* objects that are queued, or will be by RequeueAfter or backoff
  disturbed    \* model only: how many disturbances have happened

sourceVars == <<source, served, due, disturbed>>

SourceType == [wants : Revisions, current : BOOLEAN, ready : BOOLEAN,
               artifact : Tarballs \cup {None},
               owed : BOOLEAN]  \* a tarball was stored since the last status patch

SourceTypeOK ==
  /\ source \in SourceType
  /\ served \in [Revisions -> Tarballs \cup {None}]
  /\ due \subseteq Objects
  /\ disturbed \in 0..MaxDisturbances

SourceInit ==
  /\ source \in {[wants |-> r, current |-> FALSE, ready |-> FALSE,
                  artifact |-> None, owed |-> FALSE] : r \in Revisions}
  /\ served = [r \in Revisions |-> None]
  /\ due = Objects
  /\ disturbed = 0

-----------------------------------------------------------------------------
(* Reading it.                                                              *)

(* Mutant: Ready is believed whichever generation it is about.              *)
BelievableStale == "ready" \in Reports => source.ready

(* checkCurrent: the status is about the spec's generation and says Ready,  *)
(* or its kind reports no observedGeneration, or no condition Ready.        *)
Believable ==
  /\ "generation" \in Reports => source.current
  /\ "ready" \in Reports => source.ready

(* FluxSource succeeds: a status to be believed, naming a digest.           *)
Resolvable == Believable /\ source.artifact # None

(* RevisionMatches: no pin matches every revision.                          *)
RevisionMatches(pin, revision) == pin \in {None, revision}

-----------------------------------------------------------------------------
(* source-controller and its user.                                          *)

Disturb == disturbed < MaxDisturbances /\ disturbed' = disturbed + 1

(* compositionsForSource: every change of the source wakes what uses it,    *)
(* if the kind could be resolved when the watches were set up.              *)
Wake == due' = IF Watched THEN Objects ELSE due

(* The wanted revision, or the same one again, is packed and stored.        *)
StoreTarball(t) ==
  /\ Revision[t] = source.wants
  /\ served[Revision[t]] # t
  /\ \/ served[Revision[t]] = None /\ UNCHANGED disturbed
     \/ served[Revision[t]] # None /\ Disturb
  /\ served' = [served EXCEPT ![Revision[t]] = t]
  /\ source' = [source EXCEPT !.owed = TRUE]
  /\ UNCHANGED due

PublishArtifact ==
  /\ served[source.wants] # None
  /\ source.owed \/ ~source.current \/ ~source.ready
  /\ source' = [source EXCEPT !.current = TRUE, !.ready = TRUE, !.owed = FALSE,
                              !.artifact = served[source.wants]]
  /\ Wake
  /\ UNCHANGED <<served, disturbed>>

(* A fetch that fails is reported, and the last good artifact kept.         *)
ReportFailure ==
  /\ source.ready \/ ~source.current
  /\ Disturb
  /\ source' = [source EXCEPT !.current = TRUE, !.ready = FALSE]
  /\ Wake
  /\ UNCHANGED served

Prune(r) ==
  /\ served[r] # None
  /\ r # source.wants
  /\ source.artifact # None => Revision[source.artifact] # r
  /\ served' = [served EXCEPT ![r] = None]
  /\ UNCHANGED <<source, due, disturbed>>

EditSource(r) ==
  /\ r # source.wants
  /\ Disturb
  /\ source' = [source EXCEPT !.wants = r, !.current = FALSE]
  /\ Wake
  /\ UNCHANGED served

SourceNext ==
  \/ \E t \in Tarballs : StoreTarball(t)
  \/ PublishArtifact
  \/ ReportFailure
  \/ \E r \in Revisions : Prune(r) \/ EditSource(r)

SourceFairness ==
  /\ WF_sourceVars(\E t \in Tarballs : served[Revision[t]] = None /\ StoreTarball(t))
  /\ WF_sourceVars(PublishArtifact)
=============================================================================
