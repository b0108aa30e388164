--------------------------- MODULE MCImageBuild ---------------------------
(***************************************************************************)
(* Small instances of ImageBuild: two inputs, the first of which builds to *)
(* d1 or, run again, to d1b; x is content another writer pushed.           *)
(***************************************************************************)
EXTENDS ImageBuild

CONSTANTS i1, i2, d1, d1b, d2, x, t1, t2

MCMadeFrom ==
  [d \in Manifests |->
     IF d \in {d1, d1b} THEN i1 ELSE IF d = d2 THEN i2 ELSE None]

Make(i, tags, policy, suspend) ==
  [input |-> i, tags |-> tags, policy |-> policy, suspend |-> suspend]

(* One moving tag, a tag list that grows, under each policy; or no tag at all; or suspended. *)
AllSpecs ==
  {Make(i, ts, p, FALSE) : i \in {i1, i2}, ts \in {<<t1>>, <<t1, t2>>}, p \in Policies}
    \cup {Make(i1, <<>>, "Fail", FALSE), Make(i2, <<t1>>, "Overwrite", TRUE)}

(* One of each. *)
FewSpecs ==
  {Make(i1, <<t1>>, "Overwrite", FALSE), Make(i2, <<t1, t2>>, "Fail", FALSE),
   Make(i2, <<t1>>, "Keep", FALSE), Make(i1, <<>>, "Fail", FALSE),
   Make(i2, <<t1>>, "Overwrite", TRUE)}

(* One for each policy. *)
PolicySpecs == {s \in FewSpecs : s.tags # <<>> /\ ~s.suspend}

OverwriteSpecs == {Make(i, <<t1>>, "Overwrite", FALSE) : i \in {i1, i2}}

FailSpecs == {Make(i, <<t1>>, "Fail", FALSE) : i \in {i1, i2}}

OneTag == Make(i1, <<t1>>, "Overwrite", FALSE)
FailSpec == Make(i1, <<t1>>, "Fail", FALSE)

Nothing == [tag |-> [t \in {t1, t2} |-> None], named |-> {}, present |-> {}]

(* Somebody else's content is already under the tag. *)
Taken == [tag |-> [t \in {t1, t2} |-> IF t = t1 THEN x ELSE None], named |-> {}, present |-> {x}]

(* An image built before the digest's own tag existed, and the status that says so. *)
OldImage == [tag |-> [t \in {t1, t2} |-> IF t = t1 THEN d2 ELSE None], named |-> {}, present |-> {d2}]

OldStatus ==
  [EmptyStatus EXCEPT
     !.digest = d2, !.hash = i2,
     !.history = <<[digest |-> d2, own |-> FALSE, lost |-> FALSE]>>,
     !.attempt = i2, !.finished = "past",
     !.ready = [kind |-> "Published", digest |-> d2, generation |-> 1], !.observed = 1]

Fresh == {EmptyStatus}
FreshOrOld == {EmptyStatus, OldStatus}
AnyRepository == {Nothing, Taken, OldImage}
TakenOrOld == {Taken, OldImage}
OldOnly == {OldImage}
NothingOnly == {Nothing}

=============================================================================
