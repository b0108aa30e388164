----------------------------- MODULE Publishing -----------------------------
(***************************************************************************)
(* What both controllers promise of a repository they share with others,   *)
(* without how they get there: which names they may move, and what they    *)
(* may say is published.                                                   *)
(*                                                                         *)
(*   - A pass looks before it writes.  What it asks for and did not see it *)
(*     takes for free; what it saw is what it decides on.                  *)
(*   - It is granted one digest for all of the names asked for, or none:   *)
(*     under onConflict Overwrite whatever it saw, otherwise only if every *)
(*     name it saw was free or meant that digest already.                  *)
(*   - It writes those names in order, and no other, and may stop anywhere.*)
(*   - Status claims a digest's own tag only when the registry serves it,  *)
(*     and whatever is served under its own tag stays so.                  *)
(*                                                                         *)
(* Anybody else moves any tag at any time.                                 *)
(***************************************************************************)
EXTENDS Sequences

CONSTANTS Tags, Digests, None

VARIABLES
  tag,      \* what each tag resolves to
  served,   \* the digests that are there, under their own tag
  claimed,  \* the digests status says are
  pass      \* what the running pass asks for, saw, and may write

publishingVars == <<tag, served, claimed, pass>>

-----------------------------------------------------------------------------
(* Whatever else a step does, nothing served goes, and nothing is claimed   *)
(* that is not served.                                                      *)
Honest == served \subseteq served' /\ claimed' \subseteq served'

Free(p, d) ==
  p.force \/ \A i \in DOMAIN p.asked : p.view[p.asked[i]] \in {None, d}

Init ==
  /\ tag \in [Tags -> Digests \cup {None}]
  /\ claimed \subseteq served
  /\ pass = None

Pass ==
  [asked : Seq(Tags), force : BOOLEAN, view : [Tags -> Digests \cup {None}],
   grant : Digests \cup {None}, left : Seq(Tags)]

Look ==
  /\ pass = None /\ pass' \in Pass
  /\ \A t \in Tags : pass'.view[t] \in {None, tag[t]}
  /\ pass'.grant = None /\ pass'.left = pass'.asked
  /\ Honest /\ UNCHANGED tag

Grant(d) ==
  /\ pass # None /\ pass.grant = None
  /\ Free(pass, d)
  /\ pass' = [pass EXCEPT !.grant = d]
  /\ Honest /\ UNCHANGED tag

Write ==
  /\ pass # None /\ pass.grant # None /\ pass.left # <<>>
  /\ tag' = [tag EXCEPT ![Head(pass.left)] = pass.grant]
  /\ pass' = [pass EXCEPT !.left = Tail(@)]
  /\ Honest

(* The pass is done, gave up, or was cut off. *)
Finish ==
  /\ pass # None /\ pass' = None
  /\ Honest /\ UNCHANGED tag

(* A digest is named, or status is written. *)
Record == Honest /\ UNCHANGED <<tag, pass>>

Other(t, d) ==
  /\ tag' = [tag EXCEPT ![t] = d]
  /\ Honest /\ UNCHANGED pass

Next ==
  \/ Look \/ Write \/ Finish \/ Record
  \/ \E d \in Digests : Grant(d) \/ \E t \in Tags : Other(t, d)

Spec == Init /\ [][Next]_publishingVars

=============================================================================
