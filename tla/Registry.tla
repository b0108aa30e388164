------------------------------ MODULE Registry ------------------------------
(***************************************************************************)
(* One repository of the OCI registry both controllers publish to, as the  *)
(* code in src/ uses it and as docs/adr/0060 describes the bundled zot:    *)
(*                                                                         *)
(*   - a manifest is addressable by digest while it is present;            *)
(*   - a tag of the spec resolves to one digest, or to nothing;            *)
(*   - the tag named after a manifest's own digest ("digest-<hex>") is a   *)
(*     function of the content, so it is modelled as the set of digests    *)
(*     that carry it: it can be there or not, but never mean another one;  *)
(*   - moving the LAST tag of a manifest drops the manifest.               *)
(*                                                                         *)
(* The registry is external to the repository: these operations are what   *)
(* remote.Write, remote.Tag and remote.Put do to it.                       *)
(***************************************************************************)

CONSTANTS
  Tags,       \* tags a spec may ask for
  Manifests,  \* digests of the manifests the repository may hold
  None        \* no digest, no tag, no object

ASSUME NoneAssumption == None \notin Manifests /\ None \notin Tags

VARIABLES
  tag,      \* what each tag of the spec resolves to
  named,    \* manifests carrying the tag of their own digest
  present   \* manifests that resolve by digest

registryVars == <<tag, named, present>>

RegistryTypeOK ==
  /\ tag \in [Tags -> Manifests \cup {None}]
  /\ named \in SUBSET Manifests
  /\ present \in SUBSET Manifests

(* Whether d would still carry some tag if tag t were pointed elsewhere. *)
NamedWithout(d, t) == d \in named \/ \E u \in Tags \ {t} : tag[u] = d

(* Pushing d by digest names nothing. *)
PushDigest(d) ==
  /\ present' = present \cup {d}
  /\ UNCHANGED <<tag, named>>

(* Pushing d under tag t moves the tag, and drops what only t named. *)
PushTag(d, t) ==
  /\ tag' = [tag EXCEPT ![t] = d]
  /\ present' = IF tag[t] # d /\ tag[t] # None /\ ~NamedWithout(tag[t], t)
                  THEN (present \ {tag[t]}) \cup {d}
                  ELSE present \cup {d}
  /\ UNCHANGED named

(* Pushing d under the tag of its own digest. *)
PushOwnTag(d) ==
  /\ named' = named \cup {d}
  /\ present' = present \cup {d}
  /\ UNCHANGED tag

(* Retention: tag t was neither pulled nor pushed for a whole window. *)
ExpireTag(t) ==
  /\ tag[t] # None
  /\ tag' = [tag EXCEPT ![t] = None]
  /\ UNCHANGED <<named, present>>

(* Collection, or a wiped store: the manifest goes, and every tag with it. *)
LoseManifest(d) ==
  /\ d \in present
  /\ present' = present \ {d}
  /\ named' = named \ {d}
  /\ tag' = [t \in Tags |-> IF tag[t] = d THEN None ELSE tag[t]]

=============================================================================
