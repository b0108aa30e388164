----------------------------- MODULE LayerCache -----------------------------
(***************************************************************************)
(* How the composer turns a sourceRef layer into bytes: resolveInputs reads *)
(* the source, resolveLayer asks the cache for the digest it named, and    *)
(* cache.Path looks in the local tier, the remote tier and at the origin,  *)
(* verifying what it takes from the last two. One layer per object; the    *)
(* objects' passes run concurrently over one cache.                        *)
(*                                                                         *)
(* A tarball stands for bytes and for their digest alike: a tier holds     *)
(* bytes under a digest, and holds the right ones when they are equal.     *)
(***************************************************************************)
EXTENDS FluxSource

CONSTANTS
  Pin,                  \* revision each object's sourceRef pins, or None
  Garbage,              \* bytes that are no tarball
  HasRemote             \* a remote tier is configured

Bytes == Tarballs \cup {Garbage}
Tier  == [Tarballs -> Bytes \cup {None}]

ASSUME PinAssumption     == Pin \in [Objects -> Revisions \cup {None}]
ASSUME GarbageAssumption == Garbage # None /\ Garbage \notin Tarballs
ASSUME FlagAssumption    == HasRemote \in BOOLEAN

VARIABLES
  requirePinned,  \* --require-pinned-sources
  local, remote,  \* the two tiers, by digest
  pc,             \* each object's next call; "idle" between passes
  want,           \* the artifact the pass resolved
  temp,           \* bytes in the pass's temporary file
  used            \* bytes each object's last assembly was made of

cacheVars == <<requirePinned, local, remote, pc, want, temp, used>>
vars == <<sourceVars, cacheVars>>

Steps == {"idle", "local", "remote", "verify", "admit", "drop", "origin",
          "store", "share", "read", "direct"}

TypeOK ==
  /\ SourceTypeOK
  /\ requirePinned \in BOOLEAN
  /\ local \in Tier /\ remote \in Tier
  /\ pc \in [Objects -> Steps]
  /\ want \in [Objects -> Tarballs \cup {None}]
  /\ temp \in [Objects -> Bytes \cup {None}]
  /\ used \in [Objects -> Bytes \cup {None}]

Empty == [t \in Tarballs |-> None]

CacheInit ==
  /\ requirePinned \in BOOLEAN
  /\ local = Empty /\ remote = Empty
  /\ pc = [o \in Objects |-> "idle"]
  /\ want = [o \in Objects |-> None]
  /\ temp = [o \in Objects |-> None]
  /\ used = [o \in Objects |-> None]

Goto(o, step) == pc' = [pc EXCEPT ![o] = step]

(* A Store, either tier: Stat, Write (a temporary file renamed into place,  *)
(* or one PUT: all or nothing, the last one wins) and Delete.               *)
Holds(tier, t)   == tier[t] # None
Keep(tier, t, b) == [tier EXCEPT ![t] = b]
Drop(tier, t)    == [tier EXCEPT ![t] = None]

-----------------------------------------------------------------------------
(* The pass. A pass that ends Pending or with a transient error changes     *)
(* nothing and is due again; that is a stuttering step.                     *)

(* The input hash covers the revision, not the tarball (Identity).          *)
Converged(o, t) == used[o] \in Tarballs /\ Revision[used[o]] = Revision[t]

(* Mutant: the pin is only asked for, and not compared.                     *)
ResolveUnpinned(o) ==
  /\ pc[o] = "idle" /\ o \in due
  /\ Pin[o] # None \/ ~requirePinned
  /\ Resolvable
  /\ ~Converged(o, source.artifact)
  /\ want' = [want EXCEPT ![o] = source.artifact]
  /\ due' = due \ {o}
  /\ Goto(o, "local")
  /\ UNCHANGED <<source, served, disturbed, requirePinned, local, remote, temp, used>>

Resolve(o) ==
  /\ pc[o] = "idle" /\ o \in due
  /\ Pin[o] # None \/ ~requirePinned
  /\ Resolvable
  /\ RevisionMatches(Pin[o], Revision[source.artifact])
  /\ ~Converged(o, source.artifact)
  /\ want' = [want EXCEPT ![o] = source.artifact]
  /\ due' = due \ {o}
  /\ Goto(o, "local")
  /\ UNCHANGED <<source, served, disturbed, requirePinned, local, remote, temp, used>>

(* Terminal, so not due again: only an edit or an event wakes the object.   *)
RefuseUnpinned(o) ==
  /\ pc[o] = "idle" /\ o \in due
  /\ Pin[o] = None /\ requirePinned
  /\ due' = due \ {o}
  /\ UNCHANGED <<source, served, disturbed, cacheVars>>

(* A step inside cache.Path that touches neither the source nor the queue.  *)
Inside == UNCHANGED <<requirePinned, source, served, due, used, want>>

LookLocal(o) ==
  /\ pc[o] = "local"
  /\ Goto(o, IF Holds(local, want[o]) THEN "read"
             ELSE IF HasRemote THEN "remote" ELSE "origin")
  /\ Inside /\ UNCHANGED <<disturbed, local, remote, temp>>

(* An unreadable local tier is not fatal.                                   *)
LocalUnreadable(o) ==
  /\ pc[o] = "local" /\ Disturb
  /\ Goto(o, IF HasRemote THEN "remote" ELSE "origin")
  /\ Inside /\ UNCHANGED <<local, remote, temp>>

OpenRemote(o) ==
  /\ pc[o] = "remote"
  /\ temp' = [temp EXCEPT ![o] = remote[want[o]]]
  /\ Goto(o, IF Holds(remote, want[o]) THEN "verify" ELSE "origin")
  /\ Inside /\ UNCHANGED <<disturbed, local, remote>>

(* Mutant: what the remote tier holds is trusted as the local one is.       *)
VerifyNothing(o) ==
  /\ pc[o] = "verify"
  /\ Goto(o, "admit")
  /\ Inside /\ UNCHANGED <<disturbed, local, remote, temp>>

Verify(o) ==
  /\ pc[o] = "verify"
  /\ Goto(o, IF temp[o] = want[o] THEN "admit" ELSE "drop")
  /\ Inside /\ UNCHANGED <<disturbed, local, remote, temp>>

Admit(o) ==
  /\ pc[o] = "admit"
  /\ local' = Keep(local, want[o], temp[o])
  /\ Goto(o, "read")
  /\ Inside /\ UNCHANGED <<disturbed, remote, temp>>

(* The delete goes by key: it removes what is there now.                    *)
DropCorrupt(o) ==
  /\ pc[o] = "drop"
  /\ remote' = Drop(remote, want[o])
  /\ Goto(o, "origin")
  /\ Inside /\ UNCHANGED <<disturbed, local, temp>>

(* Whatever fails in pullFromRemote, Path falls through to the origin.      *)
RemoteFails(o) ==
  /\ pc[o] \in {"remote", "admit", "drop"} /\ Disturb
  /\ Goto(o, "origin")
  /\ Inside /\ UNCHANGED <<local, remote, temp>>

(* FetchURL: the revision's URL, hashed against the digest resolved before. *)
Download(o) ==
  /\ pc[o] = "origin"
  /\ served[Revision[want[o]]] = want[o]
  /\ temp' = [temp EXCEPT ![o] = want[o]]
  /\ Goto(o, "store")
  /\ Inside /\ UNCHANGED <<disturbed, local, remote>>

EndPass(o) ==
  /\ Goto(o, "idle")
  /\ want' = [want EXCEPT ![o] = None]
  /\ temp' = [temp EXCEPT ![o] = None]

(* Mutant: whatever the origin answers is final.                            *)
UnavailableForGood(o) ==
  /\ pc[o] = "origin"
  /\ \/ served[Revision[want[o]]] = None /\ UNCHANGED disturbed
     \/ Disturb
  /\ EndPass(o)
  /\ UNCHANGED <<source, served, due, requirePinned, local, remote, used>>

(* Pruned, or unreachable: transient, so due again.                         *)
Unavailable(o) ==
  /\ pc[o] = "origin"
  /\ \/ served[Revision[want[o]]] = None /\ UNCHANGED disturbed
     \/ Disturb
  /\ EndPass(o)
  /\ due' = due \cup {o}
  /\ UNCHANGED <<source, served, requirePinned, local, remote, used>>

(* Other bytes than the digest's: ErrDigestMismatch, Stalled, not due.      *)
Mismatch(o) ==
  /\ pc[o] = "origin"
  /\ served[Revision[want[o]]] \notin {None, want[o]}
  /\ EndPass(o)
  /\ UNCHANGED <<sourceVars, requirePinned, local, remote, used>>

StoreLocal(o) ==
  /\ pc[o] = "store"
  /\ local' = Keep(local, want[o], temp[o])
  /\ Goto(o, IF HasRemote THEN "share" ELSE "read")
  /\ Inside /\ UNCHANGED <<disturbed, remote, temp>>

(* The fetched copy is used directly, and the remote tier not written.      *)
StoreFails(o) ==
  /\ pc[o] = "store" /\ Disturb
  /\ Goto(o, "direct")
  /\ Inside /\ UNCHANGED <<local, remote, temp>>

Share(o) ==
  /\ pc[o] = "share"
  /\ \/ remote' = Keep(remote, want[o], temp[o]) /\ UNCHANGED disturbed
     \/ Disturb /\ UNCHANGED remote
  /\ Goto(o, "read")
  /\ Inside /\ UNCHANGED <<local, temp>>

(* Assembly reads the file the cache named, and the image is published;     *)
(* the object is due again after its interval.                              *)
Assemble(o) ==
  /\ pc[o] \in {"read", "direct"}
  /\ used' = [used EXCEPT ![o] = IF pc[o] = "direct" THEN temp[o]
                                 ELSE local[want[o]]]
  /\ EndPass(o)
  /\ due' = due \cup {o}
  /\ UNCHANGED <<source, served, disturbed, requirePinned, local, remote>>

Pass(o) ==
  \/ Resolve(o) \/ RefuseUnpinned(o)
  \/ LookLocal(o) \/ LocalUnreadable(o)
  \/ OpenRemote(o) \/ Verify(o) \/ Admit(o) \/ DropCorrupt(o) \/ RemoteFails(o)
  \/ Download(o) \/ Unavailable(o) \/ Mismatch(o)
  \/ StoreLocal(o) \/ StoreFails(o) \/ Share(o) \/ Assemble(o)

-----------------------------------------------------------------------------
(* The world.                                                               *)

(* The remote tier is shared, and may hold bytes nobody here verified.      *)
CorruptRemote(t, b) ==
  /\ HasRemote /\ b # t /\ Disturb
  /\ remote' = Keep(remote, t, b)
  /\ UNCHANGED <<source, served, due, requirePinned, local, pc, want, temp, used>>

(* A new process lists everything. The local tier survives a restart of     *)
(* the container, and is lost when the pod moves.                           *)
Restart ==
  /\ Disturb
  /\ pc' = [o \in Objects |-> "idle"]
  /\ want' = [o \in Objects |-> None]
  /\ temp' = [o \in Objects |-> None]
  /\ local' \in {local, Empty}
  /\ due' = Objects
  /\ UNCHANGED <<source, served, requirePinned, remote, used>>

CacheNext ==
  \/ \E o \in Objects : Pass(o)
  \/ \E t \in Tarballs, b \in Bytes : CorruptRemote(t, b)
  \/ Restart

Init == SourceInit /\ CacheInit
Next == CacheNext \/ (SourceNext /\ UNCHANGED cacheVars)

Fairness == SourceFairness /\ \A o \in Objects : WF_vars(Pass(o))

Spec == Init /\ [][Next]_vars /\ Fairness

-----------------------------------------------------------------------------
(* Properties                                                               *)

(* A local hit is trusted without hashing, because nothing gets into the    *)
(* local tier under another digest than its own: neither from a shared      *)
(* remote tier nor from an origin that has moved on (cache.Path).           *)
LocalIsVerified == \A t \in Tarballs : local[t] \in {None, t}

(* An image is made of the revision its layer pins, though the source       *)
(* moves, is packed anew and is pruned between the read of its status, the  *)
(* look-ups in two tiers and the download.                                  *)
PinnedContent ==
  \A o \in Objects :
    used[o] # None => used[o] \in Tarballs /\ RevisionMatches(Pin[o], Revision[used[o]])

(* ADR 0026: a pass never takes up yesterday's artifact for today's spec.   *)
(* What it resolves is of the revision the source's spec asks for, even     *)
(* when the source's controller is behind or has failed - if it reports     *)
(* both observedGeneration and Ready: a status without them is believed.    *)
NeverYesterdays ==
  [][\A o \in Objects : want'[o] \notin {None, want[o]}
       => Revision[want'[o]] = source.wants]_vars

(* Whatever a pass ran into, a corrupt tier or a mismatch that stalled it,  *)
(* an object ends up made of what the source wants, unless its pin asks for *)
(* something else or is missing and required.                               *)
Follows ==
  \A o \in Objects :
    <>[](\/ used[o] \in Tarballs /\ Revision[used[o]] = source.wants
         \/ Pin[o] \notin {None, source.wants}
         \/ Pin[o] = None /\ requirePinned)
=============================================================================
