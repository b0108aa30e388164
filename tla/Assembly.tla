------------------------------ MODULE Assembly ------------------------------
(***************************************************************************)
(* From the spec of an ImageComposition to the image: the inputs resolved  *)
(* from its layers, the input hash that decides whether anything is done,   *)
(* and what the assembler makes of the archives - beside what the builder's *)
(* fetcher makes of the same archives, for the two share one path rule.     *)
(*                                                                         *)
(* A path is the sequence of its components.  Names are sorted before they  *)
(* are written, so a layer is a function from paths; a hash is the tuple of  *)
(* what is written into it; a digest stands for the archive it addresses.   *)
(***************************************************************************)
EXTENDS Naturals, Sequences

CONSTANTS
  Absent,        \* no value
  Archives,      \* [digest -> the archive's entries, in archive order]
  Repacked,      \* the digests a Flux source may serve one revision under
  Children,      \* [digest of an image index -> [platform -> the child's digest]]
  BaseConfig,    \* [digest of a base image -> its platform and config]
  Runtime,       \* the controller's own platform
  Created,       \* the composition as it was created
  Options,       \* per field of a composition, the values an edit may give it
  MaxEdits

ASSUME EditsAssumption   == MaxEdits \in Nat
ASSUME RepackAssumption  == Repacked \subseteq DOMAIN Archives
ASSUME CreatedAssumption ==
  DOMAIN Created = DOMAIN Options /\ \A f \in DOMAIN Options : Created[f] \in Options[f]

IsPath(path) == path \in Seq({path[n] : n \in DOMAIN path})

ASSUME ArchivesAssumption ==
  \A d \in DOMAIN Archives :
    /\ Archives[d] \in Seq({Archives[d][i] : i \in DOMAIN Archives[d]})
    /\ \A i \in DOMAIN Archives[d] :
         LET path == Archives[d][i].path
         IN IsPath(path) /\ \A n \in 1..Len(path) : SubSeq(path, n, Len(path)) # Absent

(* The layers a composition may name. "image" is not in the CRD's enum of   *)
(* unpack modes, no digest reads as the revision of a source, and a layer    *)
(* has one verb: only a remove entry removes. Its target is a path, which   *)
(* the spec may have written with a slash at the end.                       *)
Layers == UNION {{layers[i] : i \in DOMAIN layers} : layers \in Options["layers"]}

ASSUME LayersAssumption ==
  /\ {"layers", "config", "base", "platforms"} \subseteq DOMAIN Options
  /\ \A l \in Layers :
       /\ {"kind", "digest", "unpack", "strip", "subpath", "target", "owner",
           "slash", "fileMode", "dirMode", "remove"} \subseteq DOMAIN l
       /\ l.kind # "image" => l.unpack # "image"
       /\ l.kind # "remove" => l.remove = <<>>
       /\ l.unpack = "tar.gz" /\ l.kind \notin {"sourceRef", "image", "remove"} =>
            l.digest \in DOMAIN Archives
       /\ l.digest # "revision"
       /\ l.strip \in Nat /\ IsPath(l.subpath) /\ IsPath(l.target)

VARIABLES
  composition,  \* spec.layers, spec.config, spec.base and spec.platforms; of
                \* the layers those that resolve to something: an empty or
                \* an absent optional ConfigMap is as if it were not listed
  tarball,      \* the digest the Flux source serves its revision under
  published,    \* what some pass published: the input hash and the image
  edits         \* model only

assemblyVars == <<composition, tarball, published, edits>>

-----------------------------------------------------------------------------
(* archive/path.go: where an entry lands. Strip first, then subpath.        *)

Nowhere == [dest |-> Absent, inSubpath |-> FALSE, survived |-> FALSE]

Place(path, strip, prefix) ==
  IF Len(path) = 0 \/ Len(path) <= strip THEN Nowhere
  ELSE LET rest == SubSeq(path, strip + 1, Len(path))
       IN IF Len(prefix) <= Len(rest) /\ SubSeq(rest, 1, Len(prefix)) = prefix
          THEN [dest      |-> IF Len(rest) = Len(prefix) THEN Absent
                              ELSE SubSeq(rest, Len(prefix) + 1, Len(rest)),
                inSubpath |-> TRUE, survived |-> TRUE]
          ELSE [Nowhere EXCEPT !.survived = TRUE]

Dests(archive, strip, prefix) ==
  [i \in DOMAIN archive |-> Place(archive[i].path, strip, prefix).dest]

(* Walk.Err: a selection that emptied the archive is refused. (The survivors *)
(* and the matches it tallies while it walks.)                              *)
SelectionFails(archive, strip, prefix) ==
  LET places == {Place(archive[i].path, strip, prefix) : i \in DOMAIN archive}
  IN \/ strip > 0 /\ \A p \in places : ~p.survived
     \/ prefix # <<>> /\ \A p \in places : ~p.inSubpath

Escapes(path) == path # <<>> /\ path[1] = ".."

(* Devices, fifos and hard links are skipped by both.                       *)
Taken(archive, dests) ==
  {i \in DOMAIN archive : dests[i] # Absent /\ archive[i].kind \in {"dir", "file", "link"}}

-----------------------------------------------------------------------------
(* What one entry makes: a function from paths to nodes.                    *)

Dir == [kind |-> "dir", body |-> Absent, exec |-> TRUE]

Node(e) ==
  IF e.kind = "dir" THEN Dir ELSE [kind |-> e.kind, body |-> e.body, exec |-> e.kind = "file" /\ e.exec]

Parents(path) == {SubSeq(path, 1, n) : n \in 1..(Len(path) - 1)}

Made(e, path, between) == [p \in between \cup {path} |-> IF p = path THEN Node(e) ELSE Dir]

Paths(made) == UNION {DOMAIN made[i] : i \in DOMAIN made}

(* oci/extract.go, tar.go: the composer's collector synthesises the parents *)
(* of a file alone.                                                         *)
Collected(e, path) == Made(e, path, IF e.kind = "file" THEN Parents(path) ELSE {})

(* buildLayerTarGz: sorted by name, the first of a name wins.               *)
EarliestOf(made) ==
  [p \in Paths(made) |->
     LET first == CHOOSE i \in DOMAIN made :
                    /\ p \in DOMAIN made[i]
                    /\ \A j \in DOMAIN made : p \in DOMAIN made[j] => i <= j
     IN made[first][p]]

(* Mutant: the subpath is selected before the prefix is stripped.           *)
ExtractedSubpathFirst(archive, target, strip, prefix) ==
  IF (\E i \in DOMAIN archive : Escapes(archive[i].path)) \/ SelectionFails(archive, strip, prefix)
  THEN Absent
  ELSE LET under == Dests(archive, 0, prefix)
           dests == [i \in DOMAIN archive |-> IF under[i] = Absent THEN Absent
                                              ELSE Place(under[i], strip, <<>>).dest]
       IN EarliestOf([i \in Taken(archive, dests) |-> Collected(archive[i], target \o dests[i])])

(* Any entry that walks out refuses the archive, an absolute one is rebased. *)
Extracted(archive, target, strip, prefix) ==
  IF (\E i \in DOMAIN archive : Escapes(archive[i].path)) \/ SelectionFails(archive, strip, prefix)
  THEN Absent
  ELSE LET dests == Dests(archive, strip, prefix)
       IN EarliestOf([i \in Taken(archive, dests) |-> Collected(archive[i], target \o dests[i])])

(* extractZip: a name that occurs twice is refused.                         *)
ExtractedZip(archive, target, strip, prefix) ==
  LET dests == Dests(archive, strip, prefix)
  IN IF \E i, j \in DOMAIN archive : /\ i # j /\ dests[i] # Absent /\ dests[i] = dests[j]
                                     /\ archive[i].kind # "dir" /\ archive[j].kind # "dir"
     THEN Absent ELSE Extracted(archive, target, strip, prefix)

(* singleFile: the target names the file, never the archive or the URL.     *)
SingleFile(in, body) ==
  IF in.target = <<>> \/ in.slash \/ (in.unpack = "gz" /\ in.subpath # <<>>) THEN Absent
  ELSE Collected([kind |-> "file", body |-> body, exec |-> FALSE], in.target)

(* A remove entry yields whiteouts only, one per path; the root is refused. *)
Whiteouts(remove) ==
  LET removed == {remove[i] : i \in DOMAIN remove}
  IN IF <<>> \in removed THEN Absent
     ELSE [p \in removed |-> [kind |-> "whiteout", body |-> Absent, exec |-> FALSE]]

(* collectEntries. In is one resolved input.                                *)
Entries(in) ==
  IF in.remove # <<>> THEN Whiteouts(in.remove) ELSE
  CASE in.unpack \in {"none", "gz"}   -> SingleFile(in, in.digest)
    [] in.unpack = "zip"              -> ExtractedZip(Archives[in.digest], in.target, in.strip, in.subpath)
    [] in.unpack \in {"tar.gz", "image"} -> Extracted(Archives[in.digest], in.target, in.strip, in.subpath)
    [] OTHER                          -> Absent  \* ErrUnsupportedUnpack

Mode(in, node) ==
  CASE node.kind = "link" -> "0777"
    [] node.kind = "dir"  -> IF in.dirMode # Absent THEN in.dirMode ELSE "0755"
    [] OTHER              -> IF in.fileMode # Absent THEN in.fileMode
                             ELSE IF node.exec THEN "0755" ELSE "0644"

(* buildLayerTarGz: ownership and modes as the spec says.                   *)
Layer(in) ==
  LET entries == Entries(in)
  IN IF entries = Absent THEN Absent
     ELSE [p \in DOMAIN entries |->
             [node |-> entries[p], mode |-> Mode(in, entries[p]), owner |-> in.owner]]

(* source-controller packs one revision the same way, but for the order,    *)
(* the timestamps and what it leaves to be synthesised.                     *)
ASSUME RepackedAssumption ==
  \A d, e \in Repacked : \A l \in Layers :
    l.kind = "sourceRef" => Extracted(Archives[d], l.target, 0, l.subpath)
                              = Extracted(Archives[e], l.target, 0, l.subpath)

-----------------------------------------------------------------------------
(* archive/archive.go: the builder's fetcher writes a tree.                 *)

(* writeEntry: MkdirAll, whatever the entry is.                             *)
Written(e, path) == Made(e, path, Parents(path))

(* O_TRUNC: the last of a name wins.                                        *)
LatestOf(made) ==
  [p \in Paths(made) |->
     LET last == CHOOSE i \in DOMAIN made :
                   /\ p \in DOMAIN made[i]
                   /\ \A j \in DOMAIN made : p \in DOMAIN made[j] => j <= i
     IN made[last][p]]

(* A directory where something else was written fails the fetch, as do      *)
(* anything else where a directory was and a link where anything was. (What  *)
(* the file system writes through a link of the archive itself is left out;  *)
(* Treelike keeps it out of the properties.)                                *)
Obstructed(made, i) ==
  \E j \in DOMAIN made : j < i /\
    \E p \in DOMAIN made[i] \cap DOMAIN made[j] :
      made[i][p].kind = "link" \/ (made[i][p] = Dir) # (made[j][p] = Dir)

(* Extract: absolute names are refused here, and a link that leaves.        *)
Tree(archive, strip, prefix) ==
  LET dests == Dests(archive, strip, prefix)
      taken == Taken(archive, dests)
      made  == [i \in taken |-> Written(archive[i], dests[i])]
  IN IF \/ SelectionFails(archive, strip, prefix)
        \/ \E i \in DOMAIN archive : archive[i].rooted \/ (dests[i] # Absent /\ Escapes(dests[i]))
        \/ \E i \in taken : Obstructed(made, i) \/ (archive[i].kind = "link" /\ archive[i].leaves)
     THEN Absent ELSE LatestOf(made)

(* Mutant: the Dockerfile is looked for without the subpath.                *)
FoundAtRoot(archive, strip, prefix, dockerfile) ==
  {i \in DOMAIN archive : /\ archive[i].kind = "file"
                          /\ Place(archive[i].path, strip, <<>>).dest = dockerfile}

(* FetchDockerfile: the first regular file whose place, without the         *)
(* subpath, is the Dockerfile under the subpath. What it gets to read of it  *)
(* may be less than the file: 1 MiB of it, and nothing past the first 64 of  *)
(* the archive.                                                             *)
Found(archive, strip, prefix, dockerfile) ==
  {i \in DOMAIN archive : /\ archive[i].kind = "file"
                          /\ Place(archive[i].path, strip, <<>>).dest = prefix \o dockerfile}

Checked(archive, strip, prefix, dockerfile) ==
  LET found == Found(archive, strip, prefix, dockerfile)
  IN IF found = {} THEN Absent
     ELSE archive[CHOOSE i \in found : \A j \in found : i <= j].read

-----------------------------------------------------------------------------
(* resolveInputs: what each kind of layer contributes.                      *)

Resolved(l) ==
  CASE l.kind = "sourceRef" -> [l EXCEPT !.digest = tarball, !.unpack = "tar.gz", !.strip = 0]
    [] l.kind = "image"     -> [l EXCEPT !.unpack = "image", !.strip = 0]
    [] OTHER                -> l

Inputs == [i \in DOMAIN composition.layers |-> Resolved(composition.layers[i])]

(* A Flux artifact is known by its revision: source-controller re-packs.    *)
IdentityOf(in) == IF in.kind = "sourceRef" THEN "revision" ELSE in.digest

(* The platforms known without fetching: none when they come from the base. *)
HashPlatforms ==
  IF composition.platforms = <<>> /\ composition.base = Absent THEN <<Runtime>>
  ELSE composition.platforms

HashOfInput(in) ==
  <<IdentityOf(in), in.unpack, in.subpath, in.strip, <<in.target, in.slash>>, in.owner,
    in.fileMode, in.dirMode, in.remove>>

(* Mutant: the platforms are left to the base image, whose digest is hashed. *)
InputHashOfDeclared ==
  <<composition.base, <<>>, [i \in DOMAIN Inputs |-> HashOfInput(Inputs[i])], composition.config>>

(* oci.InputHash.                                                           *)
InputHash ==
  <<composition.base, HashPlatforms, [i \in DOMAIN Inputs |-> HashOfInput(Inputs[i])],
    composition.config>>

-----------------------------------------------------------------------------
(* oci.Assemble, AssembleAs, AssembleIndex, as assemble chooses.            *)

IsIndex(digest) == digest \in DOMAIN Children

(* An index is read for the platforms the spec names, a plain image is      *)
(* taken as it is unless several are named.                                 *)
Child(digest, plat) == IF IsIndex(digest) THEN Children[digest][plat] ELSE digest

Offers(digest) ==
  IF IsIndex(digest)
  THEN composition.platforms # <<>>
         /\ \A i \in DOMAIN composition.platforms :
               composition.platforms[i] \in DOMAIN Children[digest]
  ELSE TRUE

Platforms ==
  IF composition.platforms # <<>> THEN composition.platforms
  ELSE IF composition.base = Absent THEN <<Runtime>>
  ELSE <<BaseConfig[composition.base].platform>>

(* buildLayers: built once and shared, but for an image index, which is     *)
(* read per platform.                                                       *)
LayerFor(in, plat) ==
  IF in.kind = "image" THEN Layer([in EXCEPT !.digest = Child(in.digest, plat)]) ELSE Layer(in)

ConfigFor(plat) ==
  LET c     == composition.config
      start == IF c.inherit THEN BaseConfig[Child(composition.base, plat)].config
               ELSE [f \in DOMAIN c.set |-> Absent]
  IN [f \in DOMAIN c.set |-> IF c.set[f] # Absent THEN c.set[f] ELSE start[f]]

(* provenanceAnnotations: the names of the layers are in them.              *)
Provenance == [i \in DOMAIN Inputs |-> <<Inputs[i].name, IdentityOf(Inputs[i])>>]

Assembles ==
  /\ Inputs # <<>>
  /\ composition.base # Absent =>
       /\ Offers(composition.base)
       /\ Len(composition.platforms) > 1 => IsIndex(composition.base)
  /\ composition.config.inherit => composition.base # Absent
  /\ \A i \in DOMAIN Inputs :
       /\ Inputs[i].kind = "image" => Offers(Inputs[i].digest)
       /\ \A p \in DOMAIN Platforms : LayerFor(Inputs[i], Platforms[p]) # Absent

(* assembleFor, one child per platform.                                     *)
ImageFor(plat) ==
  [platform |-> plat,
   base     |-> IF composition.base = Absent THEN Absent ELSE Child(composition.base, plat),
   layers   |-> [i \in DOMAIN Inputs |-> LayerFor(Inputs[i], plat)],
   config   |-> ConfigFor(plat),
   sources  |-> Provenance]

Image == [i \in DOMAIN Platforms |-> ImageFor(Platforms[i])]

-----------------------------------------------------------------------------
AssemblyInit ==
  /\ composition = Created
  /\ tarball \in Repacked
  /\ published = Absent
  /\ edits = 0

EditComposition ==
  /\ edits < MaxEdits /\ edits' = edits + 1
  /\ \E f \in DOMAIN Options : \E v \in Options[f] :
       v # composition[f] /\ composition' = [composition EXCEPT ![f] = v]
  /\ UNCHANGED <<tarball, published>>

(* source-controller packs the same revision again.                         *)
Repack ==
  /\ edits < MaxEdits /\ edits' = edits + 1
  /\ \E d \in Repacked : d # tarball /\ tarball' = d
  /\ UNCHANGED <<composition, published>>

(* Past the cheap path: what the spec resolves to is assembled.             *)
Publish ==
  /\ published # Absent => published.hash # InputHash
  /\ Assembles
  /\ published' = [hash |-> InputHash, image |-> Image]
  /\ UNCHANGED <<composition, tarball, edits>>

AssemblyNext == EditComposition \/ Repack \/ Publish

AssemblySpec == AssemblyInit /\ [][AssemblyNext]_assemblyVars

-----------------------------------------------------------------------------
Anonymous(image) ==
  [i \in DOMAIN image |->
     [image[i] EXCEPT !.sources = [j \in DOMAIN image[i].sources |-> image[i].sources[j][2]]]]

(* ADR 0002: the same inputs give the same image, so the cheap path may     *)
(* trust the hash: whatever it was published for, an image whose hash is    *)
(* the spec's is what the spec would assemble to now, and would be whichever *)
(* way the source was packed. But for the layers' names, which are in the   *)
(* manifest's annotations and not in the hash; and the spec may no longer   *)
(* assemble at all, once spec.platforms is dropped over a layer that is an  *)
(* image index.                                                             *)
SameHashSameImage ==
  published # Absent /\ Assembles /\ published.hash = InputHash
    => Anonymous(published.image) = Anonymous(Image)

(* No file or link lands where another entry does, or where another entry   *)
(* needs a directory. Elsewhere the first of a name is the composer's and    *)
(* the last the builder's, or the file system follows a link.               *)
Treelike(archive, strip, prefix) ==
  LET dests == Dests(archive, strip, prefix)
      taken == Taken(archive, dests)
  IN \A i, j \in taken :
       archive[i].kind # "dir" /\ i # j => dests[i] \notin Parents(dests[j]) \cup {dests[j]}

ArchiveInputs ==
  {i \in DOMAIN Inputs : Inputs[i].unpack = "tar.gz" /\ Inputs[i].kind # "remove"}

Files(nodes) == {<<p, nodes[p]>> : p \in {q \in DOMAIN nodes : nodes[q].kind # "dir"}}

(* ADR 0045: what the composer takes from an archive and where it puts it   *)
(* under its target is what the builder's fetcher takes and where it writes *)
(* it, whenever both take it - of an archive whose entries keep apart.      *)
PlacedAlike ==
  \A i \in ArchiveInputs :
    LET in      == Inputs[i]
        archive == Archives[in.digest]
        layer   == Layer(in)
        tree    == Tree(archive, in.strip, in.subpath)
    IN layer # Absent /\ tree # Absent /\ Treelike(archive, in.strip, in.subpath) =>
         Files([p \in DOMAIN layer |-> layer[p].node])
           = {<<in.target \o f[1], f[2]>> : f \in Files(tree)}

(* build/context.go: "so the file checked is the file built" - unless two   *)
(* entries land in one place, when the first is checked and the last is     *)
(* built, or it is longer than FetchDockerfile reads.                       *)
CheckedIsBuilt ==
  \A i \in ArchiveInputs :
    LET in      == Inputs[i]
        archive == Archives[in.digest]
        tree    == Tree(archive, in.strip, in.subpath)
    IN tree # Absent /\ Treelike(archive, in.strip, in.subpath) =>
         \A p \in DOMAIN tree :
           LET found == Found(archive, in.strip, in.subpath, p)
           IN tree[p].kind = "file" /\ (\A j \in found : archive[j].read = archive[j].body) =>
                Checked(archive, in.strip, in.subpath, p) = tree[p].body

=============================================================================
