--------------------------- MODULE SourcesProofs ---------------------------
(***************************************************************************)
(* What LayerCache.tla promises for every set of objects, tarballs, pins   *)
(* and tiers: that nothing unverified gets into the local tier, that an    *)
(* image is made of what its layer pins, and that no pass resolves what    *)
(* the source no longer asks for.                                          *)
(***************************************************************************)
EXTENDS LayerCache, TLAPS

-----------------------------------------------------------------------------
(***************************************************************************)
(* The Flux source, whoever reads it.                                      *)
(***************************************************************************)

(* What the source's controller keeps true: each URL serves a tarball of its own revision, and
   a status about the spec as it is and Ready names one of the revision wanted. *)
SourceHonest ==
  /\ \A r \in Revisions : served[r] # None => Revision[served[r]] = r
  /\ source.current /\ source.ready
       => source.artifact # None /\ Revision[source.artifact] = source.wants

LEMMA SourceInitTypes == SourceInit => SourceTypeOK /\ SourceHonest
<1> SUFFICES ASSUME SourceInit PROVE SourceTypeOK /\ SourceHonest
  OBVIOUS
<1>1. PICK r \in Revisions :
        source = [wants |-> r, current |-> FALSE, ready |-> FALSE, artifact |-> None, owed |-> FALSE]
  BY DEF SourceInit
<1>2. source \in SourceType /\ ~source.current
  BY <1>1 DEF SourceType
<1>3. 0 \in 0..MaxDisturbances
  BY BoundAssumption
<1>4. QED
  BY <1>2, <1>3, NoneAssumption DEF SourceInit, SourceTypeOK, SourceHonest

(* The source's controller keeps its types, and stays honest. *)
LEMMA SourceKeepsTypes ==
  ASSUME SourceTypeOK, SourceNext
  PROVE  SourceTypeOK'
<1>1. \A t \in Tarballs : Revision[t] \in Revisions
  BY DEF Revisions
<1>2. source \in SourceType /\ disturbed \in 0..MaxDisturbances /\ MaxDisturbances \in Nat
  BY BoundAssumption DEF SourceTypeOK
<1>3. Disturb => disturbed' \in 0..MaxDisturbances
  BY <1>2 DEF Disturb
<1>4. CASE \E t \in Tarballs : StoreTarball(t)
  BY <1>1, <1>2, <1>3, <1>4 DEF SourceTypeOK, SourceType, StoreTarball
<1>5. CASE PublishArtifact
  <2>1. served[source.wants] \in Tarballs
    BY <1>2, <1>5 DEF PublishArtifact, SourceTypeOK, SourceType
  <2>2. QED
    BY <1>2, <1>5, <2>1 DEF SourceTypeOK, SourceType, PublishArtifact, Wake
<1>6. CASE ReportFailure
  BY <1>2, <1>3, <1>6 DEF SourceTypeOK, SourceType, ReportFailure, Wake
<1>7. CASE \E r \in Revisions : Prune(r)
  BY <1>2, <1>7 DEF SourceTypeOK, SourceType, Prune
<1>8. CASE \E r \in Revisions : EditSource(r)
  BY <1>2, <1>3, <1>8 DEF SourceTypeOK, SourceType, EditSource, Wake
<1>9. QED
  BY <1>4, <1>5, <1>6, <1>7, <1>8 DEF SourceNext

LEMMA SourceStaysHonest ==
  ASSUME SourceTypeOK, SourceHonest, SourceNext
  PROVE  SourceHonest'
<1>1. /\ source \in SourceType /\ served \in [Revisions -> Tarballs \cup {None}]
      /\ \A t \in Tarballs : Revision[t] \in Revisions
  BY DEF SourceTypeOK, Revisions
<1>2. CASE \E t \in Tarballs : StoreTarball(t)
  BY <1>1, <1>2 DEF SourceHonest, StoreTarball, SourceType
<1>3. CASE PublishArtifact
  BY <1>1, <1>3 DEF SourceHonest, PublishArtifact, SourceType
<1>4. CASE ReportFailure
  BY <1>1, <1>4 DEF SourceHonest, ReportFailure, SourceType
<1>5. CASE \E r \in Revisions : Prune(r)
  BY <1>1, <1>5 DEF SourceHonest, Prune, SourceType
<1>6. CASE \E r \in Revisions : EditSource(r)
  BY <1>1, <1>6 DEF SourceHonest, EditSource, SourceType
<1>7. QED
  BY <1>2, <1>3, <1>4, <1>5, <1>6 DEF SourceNext

-----------------------------------------------------------------------------
(***************************************************************************)
(* The layer cache.                                                        *)
(***************************************************************************)

(* What a pass has in hand at each step. *)
InHand(o) ==
  /\ pc[o] # "idle" => want[o] \in Tarballs /\ RevisionMatches(Pin[o], Revision[want[o]])
  /\ pc[o] \in {"admit", "store", "share", "direct"} => temp[o] = want[o]
  /\ pc[o] \in {"share", "read"} => local[want[o]] = want[o]

Verified == (\A o \in Objects : InHand(o)) /\ LocalIsVerified /\ PinnedContent

-----------------------------------------------------------------------------
(* Types. *)
LEMMA InitTypes == Init => TypeOK
<1>1. Init => SourceTypeOK
  BY SourceInitTypes DEF Init
<1>2. Empty \in Tier
  BY DEF Tier, Empty
<1>3. Init => /\ requirePinned \in BOOLEAN /\ local = Empty /\ remote = Empty
              /\ pc \in [Objects -> Steps]
              /\ want \in [Objects -> Tarballs \cup {None}]
              /\ temp \in [Objects -> Bytes \cup {None}]
              /\ used \in [Objects -> Bytes \cup {None}]
  BY DEF Init, CacheInit, Steps
<1>4. QED
  BY <1>1, <1>2, <1>3 DEF TypeOK

(* A step of a pass leaves the source alone, and only takes or returns its own object. *)
LEMMA PassKeepsTypes ==
  ASSUME TypeOK, Verified, NEW o \in Objects, Pass(o)
  PROVE  TypeOK'
<1>1. /\ Disturb => disturbed' \in 0..MaxDisturbances
      /\ local \in Tier /\ remote \in Tier /\ pc \in [Objects -> Steps]
      /\ temp \in [Objects -> Bytes \cup {None}] /\ used \in [Objects -> Bytes \cup {None}]
      /\ want \in [Objects -> Tarballs \cup {None}] /\ due \subseteq Objects
      /\ requirePinned \in BOOLEAN /\ disturbed \in 0..MaxDisturbances
      /\ source \in SourceType /\ served \in [Revisions -> Tarballs \cup {None}]
  BY BoundAssumption DEF TypeOK, SourceTypeOK, Disturb
<1>2. ASSUME NEW step \in Steps, Goto(o, step)
      PROVE  pc' \in [Objects -> Steps]
  BY <1>1, <1>2 DEF Goto
<1>3. /\ pc[o] # "idle" => want[o] \in Tarballs
      /\ pc[o] \in {"admit", "store", "share", "direct"} => temp[o] \in Bytes
  BY DEF Verified, InHand, Bytes
<1>4. EndPass(o) => /\ pc' \in [Objects -> Steps]
                    /\ want' \in [Objects -> Tarballs \cup {None}]
                    /\ temp' \in [Objects -> Bytes \cup {None}]
  BY <1>1 DEF EndPass, Goto, Steps
<1>5. CASE Resolve(o) \/ RefuseUnpinned(o)
  BY <1>1, <1>2, <1>5 DEF TypeOK, SourceTypeOK, SourceType, Resolve, RefuseUnpinned, Resolvable,
                          cacheVars, Steps
<1>6. CASE LookLocal(o) \/ LocalUnreadable(o) \/ Verify(o) \/ RemoteFails(o) \/ StoreFails(o)
  <2>1. pc' \in [Objects -> Steps]
    BY <1>1, <1>6 DEF LookLocal, LocalUnreadable, Verify, RemoteFails, StoreFails, Goto, Steps
  <2>2. QED
    BY <1>1, <1>6, <2>1 DEF TypeOK, SourceTypeOK, Inside, LookLocal, LocalUnreadable, Verify,
                            RemoteFails, StoreFails
<1>7. CASE OpenRemote(o)
  BY <1>1, <1>2, <1>3, <1>7 DEF TypeOK, SourceTypeOK, Inside, OpenRemote, Tier, Steps
<1>8. CASE Admit(o) \/ StoreLocal(o)
  <2>1. local' = [local EXCEPT ![want[o]] = temp[o]] /\ want[o] \in Tarballs /\ temp[o] \in Bytes
    BY <1>3, <1>8 DEF Admit, StoreLocal, Keep
  <2>2. local' \in Tier
    BY <1>1, <2>1 DEF Tier
  <2>3. pc' \in [Objects -> Steps]
    BY <1>1, <1>8 DEF Admit, StoreLocal, Goto, Steps
  <2>4. QED
    BY <1>1, <1>8, <2>2, <2>3 DEF TypeOK, SourceTypeOK, Inside, Admit, StoreLocal
<1>9. CASE DropCorrupt(o)
  <2>1. remote' \in Tier /\ pc' \in [Objects -> Steps]
    BY <1>1, <1>3, <1>9 DEF DropCorrupt, Drop, Tier, Goto, Steps
  <2>2. QED
    BY <1>1, <1>9, <2>1 DEF TypeOK, SourceTypeOK, Inside, DropCorrupt
<1>10. CASE Download(o)
  <2>1. temp' \in [Objects -> Bytes \cup {None}] /\ pc' \in [Objects -> Steps]
    BY <1>1, <1>3, <1>10 DEF Download, Bytes, Goto, Steps
  <2>2. QED
    BY <1>1, <1>10, <2>1 DEF TypeOK, SourceTypeOK, Inside, Download
<1>11. CASE Unavailable(o) \/ Mismatch(o)
  BY <1>1, <1>4, <1>11 DEF TypeOK, SourceTypeOK, Unavailable, Mismatch, sourceVars
<1>12. CASE Share(o)
  <2>1. remote' \in Tier
    BY <1>1, <1>3, <1>12 DEF Share, Keep, Tier
  <2>2. pc' \in [Objects -> Steps] /\ disturbed' \in 0..MaxDisturbances
    BY <1>1, <1>12 DEF Share, Goto, Steps
  <2>3. QED
    BY <1>1, <1>12, <2>1, <2>2 DEF TypeOK, SourceTypeOK, Inside, Share
<1>13. CASE Assemble(o)
  <2>1. used' \in [Objects -> Bytes \cup {None}]
    BY <1>1, <1>3, <1>13 DEF Assemble, Tier
  <2>2. QED
    BY <1>1, <1>4, <1>13, <2>1 DEF TypeOK, SourceTypeOK, Assemble
<1>14. QED
  BY <1>5, <1>6, <1>7, <1>8, <1>9, <1>10, <1>11, <1>12, <1>13 DEF Pass

LEMMA NextKeepsTypes ==
  ASSUME TypeOK, Verified, [Next]_vars
  PROVE  TypeOK'
<1>1. CASE \E o \in Objects : Pass(o)
  BY <1>1, PassKeepsTypes
<1>2. CASE \E t \in Tarballs, b \in Bytes : CorruptRemote(t, b)
  BY <1>2, BoundAssumption DEF TypeOK, SourceTypeOK, CorruptRemote, Disturb, Keep, Tier
<1>3. CASE Restart
  BY <1>3, BoundAssumption DEF TypeOK, SourceTypeOK, Restart, Disturb, Tier, Empty, Steps
<1>4. CASE SourceNext /\ UNCHANGED cacheVars
  BY <1>4, SourceKeepsTypes DEF TypeOK, cacheVars
<1>5. CASE UNCHANGED vars
  BY <1>5 DEF vars, sourceVars, cacheVars, TypeOK, SourceTypeOK
<1>6. QED
  BY <1>1, <1>2, <1>3, <1>4, <1>5 DEF Next, CacheNext

-----------------------------------------------------------------------------
(* What is verified stays so. The object whose pass takes the step has in hand what the step
   needs; the others are only affected by what it puts into the local tier. *)
LEMMA PassKeepsVerified ==
  ASSUME TypeOK, SourceHonest, Verified, NEW o \in Objects, Pass(o)
  PROVE  Verified'
<1>1. /\ local \in Tier /\ pc \in [Objects -> Steps] /\ temp \in [Objects -> Bytes \cup {None}]
      /\ want \in [Objects -> Tarballs \cup {None}] /\ used \in [Objects -> Bytes \cup {None}]
      /\ source \in SourceType
  BY DEF TypeOK, SourceTypeOK
<1>2. InHand(o) /\ LocalIsVerified /\ PinnedContent /\ \A p \in Objects : InHand(p)
  BY DEF Verified
<1>3. ASSUME pc' = [pc EXCEPT ![o] = pc'[o]], want' = [want EXCEPT ![o] = want'[o]],
             temp' = [temp EXCEPT ![o] = temp'[o]],
             \A t \in Tarballs : local'[t] \in {local[t], t}, InHand(o)'
      PROVE  \A p \in Objects : InHand(p)'
  BY <1>1, <1>2, <1>3 DEF InHand
<1>4. CASE Resolve(o)
  <2>1. InHand(o)'
    BY <1>1, <1>4, NoneAssumption DEF Resolve, Goto, InHand, Resolvable, SourceType
  <2>2. QED
    BY <1>1, <1>2, <1>3, <1>4, <2>1 DEF Resolve, Goto, Verified, LocalIsVerified, PinnedContent
<1>5. CASE RefuseUnpinned(o)
  BY <1>2, <1>5 DEF RefuseUnpinned, cacheVars, Verified, InHand, LocalIsVerified, PinnedContent
<1>6. CASE LookLocal(o) \/ LocalUnreadable(o) \/ Verify(o) \/ RemoteFails(o)
  <2>1. InHand(o)'
    BY <1>1, <1>2, <1>6, NoneAssumption
       DEF LookLocal, LocalUnreadable, Verify, RemoteFails, Goto, Inside, InHand,
           LocalIsVerified, Holds
  <2>2. QED
    BY <1>1, <1>2, <1>3, <1>6, <2>1
       DEF LookLocal, LocalUnreadable, Verify, RemoteFails, Goto, Inside, Verified,
           LocalIsVerified, PinnedContent
<1>7. CASE OpenRemote(o) \/ DropCorrupt(o) \/ StoreFails(o) \/ Download(o) \/ Share(o)
  <2>1. InHand(o)'
    BY <1>1, <1>2, <1>7, NoneAssumption
       DEF OpenRemote, DropCorrupt, StoreFails, Download, Share, Goto, Inside, InHand,
           LocalIsVerified
  <2>2. QED
    BY <1>1, <1>2, <1>3, <1>7, <2>1
       DEF OpenRemote, DropCorrupt, StoreFails, Download, Share, Goto, Inside, Verified,
           LocalIsVerified, PinnedContent
<1>8. CASE Admit(o) \/ StoreLocal(o)
  <2>1. want[o] \in Tarballs /\ local' = [local EXCEPT ![want[o]] = want[o]]
    BY <1>2, <1>8 DEF Admit, StoreLocal, InHand, Keep
  <2>2. \A t \in Tarballs : local'[t] \in {local[t], t}
    BY <1>1, <2>1 DEF Tier
  <2>3. InHand(o)'
    BY <1>1, <1>2, <1>8, <2>1 DEF Admit, StoreLocal, Goto, Inside, InHand, Tier
  <2>4. QED
    BY <1>1, <1>2, <1>3, <1>8, <2>2, <2>3
       DEF Admit, StoreLocal, Goto, Inside, Verified, LocalIsVerified, PinnedContent
<1>9. CASE Unavailable(o) \/ Mismatch(o)
  <2>1. InHand(o)'
    BY <1>1, <1>9 DEF Unavailable, Mismatch, EndPass, Goto, InHand
  <2>2. QED
    BY <1>1, <1>2, <1>3, <1>9, <2>1
       DEF Unavailable, Mismatch, EndPass, Goto, Verified, LocalIsVerified, PinnedContent
<1>10. CASE Assemble(o)
  <2>1. InHand(o)'
    BY <1>1, <1>10 DEF Assemble, EndPass, Goto, InHand
  <2>2. used' = [used EXCEPT ![o] = want[o]]
    BY <1>2, <1>10 DEF Assemble, InHand
  <2>3. want[o] \in Tarballs /\ RevisionMatches(Pin[o], Revision[want[o]])
    BY <1>2, <1>10 DEF Assemble, InHand
  <2>4. PinnedContent'
    BY <1>1, <1>2, <2>2, <2>3 DEF PinnedContent
  <2>5. QED
    BY <1>1, <1>2, <1>3, <1>10, <2>1, <2>4
       DEF Assemble, EndPass, Goto, Verified, LocalIsVerified
<1>11. QED
  BY <1>4, <1>5, <1>6, <1>7, <1>8, <1>9, <1>10 DEF Pass

LEMMA NextKeepsVerified ==
  ASSUME TypeOK, SourceHonest, Verified, [Next]_vars
  PROVE  Verified'
<1>1. CASE \E o \in Objects : Pass(o)
  BY <1>1, PassKeepsVerified
<1>2. CASE \E t \in Tarballs, b \in Bytes : CorruptRemote(t, b)
  BY <1>2 DEF CorruptRemote, Verified, InHand, LocalIsVerified, PinnedContent
<1>3. CASE Restart
  BY <1>3 DEF Restart, Verified, InHand, LocalIsVerified, PinnedContent, Empty
<1>4. CASE UNCHANGED cacheVars
  BY <1>4 DEF cacheVars, Verified, InHand, LocalIsVerified, PinnedContent
<1>5. QED
  BY <1>1, <1>2, <1>3, <1>4 DEF Next, CacheNext, vars

LEMMA NextKeepsHonest ==
  ASSUME TypeOK, SourceHonest, [Next]_vars
  PROVE  SourceHonest'
<1>1. CASE SourceNext
  BY <1>1, SourceStaysHonest DEF TypeOK
<1>2. CASE UNCHANGED <<source, served>>
  BY <1>2 DEF SourceHonest
<1>3. ASSUME NEW o \in Objects, Pass(o)
      PROVE  UNCHANGED <<source, served>>
  BY <1>3 DEF Pass, Resolve, RefuseUnpinned, LookLocal, LocalUnreadable, OpenRemote, Verify, Admit,
              DropCorrupt, RemoteFails, Download, Unavailable, Mismatch, StoreLocal, StoreFails,
              Share, Assemble, Inside, sourceVars
<1>4. QED
  BY <1>1, <1>2, <1>3 DEF Next, CacheNext, CorruptRemote, Restart, vars, sourceVars

(* Every state is well typed, the source honest, and what objects have in hand verified. *)
Sound == TypeOK /\ SourceHonest /\ Verified

LEMMA SoundAlways == Spec => []Sound
<1>1. Init => Sound
  BY InitTypes, SourceInitTypes, NoneAssumption
     DEF Init, CacheInit, Sound, Verified, InHand, LocalIsVerified, PinnedContent, Empty
<1>2. Sound /\ [Next]_vars => Sound'
  BY NextKeepsTypes, NextKeepsHonest, NextKeepsVerified DEF Sound
<1>3. QED
  BY <1>1, <1>2, PTL DEF Spec

-----------------------------------------------------------------------------
(* The variables hold what they are declared to hold. *)
THEOREM SourcesTypesAlways == Spec => []TypeOK
BY SoundAlways, PTL DEF Sound

(* cache.Path trusts a local hit without hashing it: whatever a shared remote tier holds and an
   origin serves, and wherever a pass or a restart interrupted another, the local tier holds
   under each digest the bytes of that digest or nothing. *)
THEOREM LocalAlwaysVerified == Spec => []LocalIsVerified
BY SoundAlways, PTL DEF Sound, Verified

(* An assembly is made of the tarball its pass resolved, and that is of the revision its layer
   pins, however the source moves and the tiers fail meanwhile. *)
THEOREM ContentIsPinned == Spec => []PinnedContent
BY SoundAlways, PTL DEF Sound, Verified

(* ADR 0026: what a pass resolves is of the revision the source's spec asks for when it reads it,
   of a source that reports its observedGeneration and whether it is Ready. *)
THEOREM NeverTakesYesterdays ==
  ASSUME {"generation", "ready"} \subseteq Reports
  PROVE  Spec => NeverYesterdays
<1> DEFINE Takes == \A o \in Objects : want'[o] \notin {None, want[o]}
                                        => Revision[want'[o]] = source.wants
<1>1. Sound /\ [Next]_vars => [Takes]_vars
  <2>1. ASSUME NEW o \in Objects, Pass(o), Sound
        PROVE  Takes
    <3>1. want \in [Objects -> Tarballs \cup {None}]
      BY <2>1 DEF Sound, TypeOK
    <3>2. CASE Resolve(o)
      BY <2>1, <3>1, <3>2 DEF Resolve, Resolvable, Believable, Sound, SourceHonest
    <3>3. CASE ~Resolve(o)
      <4>1. want' \in {want, [want EXCEPT ![o] = None]}
        BY <2>1, <3>3 DEF Pass, RefuseUnpinned, LookLocal, LocalUnreadable, OpenRemote, Verify,
             Admit, DropCorrupt, RemoteFails, Download, Unavailable, Mismatch, StoreLocal,
             StoreFails, Share, Assemble, Inside, EndPass, cacheVars
      <4>2. QED
        BY <3>1, <4>1
    <3>4. QED
      BY <3>2, <3>3
  <2>2. Restart \/ UNCHANGED cacheVars \/ (\E t \in Tarballs, b \in Bytes : CorruptRemote(t, b))
          => Takes
    BY DEF Restart, CorruptRemote, cacheVars
  <2>3. QED
    BY <2>1, <2>2 DEF Next, CacheNext
<1>2. QED
  BY <1>1, SoundAlways, PTL DEF Spec, NeverYesterdays
=============================================================================
