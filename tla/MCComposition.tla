--------------------------- MODULE MCComposition ---------------------------
(***************************************************************************)
(* Small instances of Composition.                                         *)
(*                                                                         *)
(* Three inputs: i1 and i2 assemble to different images, i3 (say, an input *)
(* whose file is shadowed by a later layer) to the same one as i2.  x is   *)
(* content another writer pushed.                                          *)
(***************************************************************************)
EXTENDS Composition

CONSTANTS i1, i2, i3, d1, d2, x, t1, t2

MCOutput == [i \in {i1, i2, i3} |-> IF i = i1 THEN d1 ELSE d2]

Make(i, tags, policy, suspend) ==
  [input |-> i, tags |-> tags, policy |-> policy, suspend |-> suspend]

(* One moving tag, a tag list that grows, under each policy; or no tag at all; or suspended. *)
AllSpecs ==
  {Make(i, ts, p, FALSE) : i \in {i1, i2}, ts \in {<<t1>>, <<t1, t2>>}, p \in Policies}
    \cup {Make(i1, <<>>, "Fail", FALSE), Make(i2, <<t1>>, "Overwrite", TRUE)}

(* i3 as well: other inputs, same output. *)
ReadySpecs == AllSpecs \cup {Make(i3, <<t1, t2>>, p, FALSE) : p \in Policies}

(* Without Keep, whose record the next pass clears (DivergenceIsRecorded). *)
SettlingSpecs == {s \in ReadySpecs : s.policy # "Keep"}

OverwriteSpecs == {Make(i, <<t1>>, "Overwrite", FALSE) : i \in {i1, i2}}

FailSpecs == {Make(i, <<t1>>, "Fail", FALSE) : i \in {i1, i2}}

OneTag == Make(i1, <<t1>>, "Overwrite", FALSE)
KeepSpec == Make(i1, <<t1>>, "Keep", FALSE)
FailSpec == Make(i1, <<t1>>, "Fail", FALSE)

Nothing == [tag |-> [t \in {t1, t2} |-> None], named |-> {}, present |-> {}]

(* Somebody else's content is already under the tag. *)
Taken == [tag |-> [t \in {t1, t2} |-> IF t = t1 THEN x ELSE None], named |-> {}, present |-> {x}]

(* An image published before the digest's own tag existed, and the status that says so. *)
OldImage == [tag |-> [t \in {t1, t2} |-> IF t = t1 THEN d2 ELSE None], named |-> {}, present |-> {d2}]

OldStatus ==
  [EmptyStatus EXCEPT
     !.digest = d2, !.hash = i2,
     !.history = <<[digest |-> d2, own |-> FALSE, lost |-> FALSE]>>,
     !.ready = [kind |-> "Published", digest |-> d2, generation |-> 1], !.observed = 1]

(* Two images in a full history, the older one (say, of an input there is no more) being x. *)
FullImage ==
  [tag |-> [t \in {t1, t2} |-> IF t = t1 THEN d2 ELSE None], named |-> {d2, x}, present |-> {d2, x}]

FullStatus ==
  [OldStatus EXCEPT
     !.own = d2,
     !.history = <<[digest |-> d2, own |-> TRUE, lost |-> FALSE],
                   [digest |-> x, own |-> TRUE, lost |-> FALSE]>>]

Fresh == {EmptyStatus}
FreshOrOld == {EmptyStatus, OldStatus}
AnyStatus == {EmptyStatus, OldStatus, FullStatus}
AnyRepository == {Nothing, Taken, OldImage}
FullRepository == {Nothing, Taken, OldImage, FullImage}
TakenOnly == {Taken}
NothingOnly == {Nothing}
NothingOrOld == {Nothing, OldImage}

=============================================================================
