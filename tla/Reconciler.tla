---------------------------- MODULE Reconciler ----------------------------
(***************************************************************************)
(* What the two controllers share (internal/reconciler, and the fields of  *)
(* api/v1alpha1 both kinds have): names and records of what was published, *)
(* the conflict check, retained history, conditions and merge patches.     *)
(*                                                                         *)
(* A status is a record with at least                                      *)
(*   digest   the digest status.artifact names, or None                    *)
(*   own      the digest whose own tag status.artifact lists, or None      *)
(*   history  the retained builds, newest first.                           *)
(* An object is a record with a spec and a status.                         *)
(***************************************************************************)
EXTENDS Registry, Naturals, Sequences

CONSTANTS
  Inputs,       \* what an object's inputs can be; the input hash names them
  HistoryLimit  \* spec.push.history, else the operator's

ASSUME LimitAssumption == HistoryLimit \in Nat

(* None is not a pass in progress either (Publishing!Pass). *)
ASSUME PassAssumption ==
  None \notin [asked : Seq(Tags), force : BOOLEAN, view : [Tags -> Manifests \cup {None}],
               grant : Manifests \cup {None}, left : Seq(Tags)]

-----------------------------------------------------------------------------
(***************************************************************************)
(* Specs, records and conditions.                                          *)
(***************************************************************************)

Policies == {"Fail", "Keep", "Overwrite"}

SpecType ==
  [input : Inputs, tags : Seq(Tags), policy : Policies, suspend : BOOLEAN]

(* BuildRecord: it lists the digest's own tag (own) or not, and may have been found lost. *)
Build == [digest : Manifests, own : BOOLEAN, lost : BOOLEAN]

(* TagConflictStatus; dropped stays empty when nothing was built. *)
Conflict == [tag : Tags, existing : Manifests, dropped : Manifests \cup {None}]

(* None is neither an input nor a conflict. *)
ASSUME AbsenceAssumption == None \notin Inputs /\ None \notin Conflict

(* The conditions: what they say, the image the message names, the generation they are stamped with. *)
Condition ==
  [kind : {"Unknown", "Progressing", "Published", "Kept", "Failing", "Waiting",
           "Stalled", "Suspended"},
   digest : Manifests \cup {None},
   generation : Nat]

(* Published: what each tag asked for resolves to, and whether the recorded digest and its own tag
   are there. *)
Seen == [tag : [Tags -> Manifests \cup {None}], own : BOOLEAN, digest : BOOLEAN]

-----------------------------------------------------------------------------
(***************************************************************************)
(* Names and history.                                                      *)
(***************************************************************************)

TagsOf(s) == {s.tags[i] : i \in DOMAIN s.tags}

(* The name artifactStatus and the backfill claim: the digest's own tag. *)
HasDigestTag(st) == st.digest # None /\ st.own = st.digest

NeedsDigestTag(b) == ~b.lost /\ ~b.own

(* The digests a backfill has to name: the artifact, and retained history. *)
Unnamed(st) ==
  {d \in {st.digest} : d # None /\ ~HasDigestTag(st)}
    \cup {st.history[i].digest : i \in {j \in DOMAIN st.history : NeedsDigestTag(st.history[j])}}

(* Mutant: a digest whose request failed is taken for one the registry does not have. *)
MarkBuildUnanswered(b, current, tagged, gone) ==
  IF ~NeedsDigestTag(b) THEN b
  ELSE [b EXCEPT !.own = b.digest \in tagged,
                 !.lost = b.digest \notin tagged /\ b.digest # current]

(* DigestTagOutcomes.MarkHistory, for one entry. *)
MarkBuild(b, current, tagged, gone) ==
  IF ~NeedsDigestTag(b) THEN b
  ELSE [b EXCEPT !.own = b.digest \in tagged,
                 !.lost = b.digest \in gone /\ b.digest # current]

(* backfillDigestTags' mark: what one backfill learned, recorded. *)
Mark(st, tagged, gone) ==
  [st EXCEPT
     !.own = IF st.digest \in tagged THEN st.digest ELSE st.own,
     !.history = [i \in DOMAIN st.history |-> MarkBuild(st.history[i], st.digest, tagged, gone)]]

Limit == IF HistoryLimit < 1 THEN 1 ELSE HistoryLimit

(* Mutant: a rebuild of an older digest leaves its old record where it was. *)
WithoutNothing(history, d) == history

(* The history without its record of d: it holds at most one (UniqueHistory). *)
Without(history, d) ==
  IF \E k \in DOMAIN history : history[k].digest = d
    THEN LET k == CHOOSE j \in DOMAIN history : history[j].digest = d
         IN SubSeq(history, 1, k - 1) \o SubSeq(history, k + 1, Len(history))
    ELSE history

(* Mutant: the list is trimmed at its head. *)
RecordHistoryOldest(history, b) ==
  LET others == Without(history, b.digest)
  IN <<b>> \o (IF Len(others) < Limit THEN others ELSE SubSeq(others, Len(others) - Limit + 2, Len(others)))

(* RecordHistory: prepend, drop the older record of the same digest, trim. *)
RecordHistory(history, b) ==
  LET others == Without(history, b.digest)
  IN <<b>> \o SubSeq(others, 1, IF Len(others) < Limit THEN Len(others) ELSE Limit - 1)

(* Mutant: the recorded digest being there is taken for its names being there. *)
MatchesByDigest(p, o, d) == o.status.digest = d /\ p.digest /\ p.own

(* Published.Matches: the recorded digest is d, it is there, and every name asked for means it. *)
Matches(p, o, d) ==
  /\ o.status.digest = d
  /\ p.digest
  /\ p.own
  /\ \A t \in TagsOf(o.spec) : p.tag[t] = d

(* Mutants: only the first tag is compared; a tag that is not there conflicts. *)
ConflictingFirst(p, o, d) ==
  {i \in DOMAIN o.spec.tags : i = 1 /\ p.tag[o.spec.tags[i]] \notin {None, d}}

ConflictingAbsent(p, o, d) == {i \in DOMAIN o.spec.tags : p.tag[o.spec.tags[i]] # d}

(* Published.Conflicts: the tags that mean something else, first one first. *)
Conflicting(p, o, d) ==
  {i \in DOMAIN o.spec.tags : p.tag[o.spec.tags[i]] \notin {None, d}}

(* The digests a history claims under their own tag; and a status, its artifact's too. *)
OwnOf(history) == {history[i].digest : i \in {j \in DOMAIN history : history[j].own}}

Claimed(st) == ({st.own} \ {None}) \cup OwnOf(st.history)

OnePerDigest(history) ==
  \A i, j \in DOMAIN history : history[i].digest = history[j].digest => i = j

-----------------------------------------------------------------------------
(* A JSON merge patch carries the fields that differ from the base it was computed on. *)
Merge(server, base, new) == IF new = base THEN server ELSE new

=============================================================================
