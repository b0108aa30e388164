---------------------------- MODULE MCIdentity -----------------------------
(* Small instances of BuildPlan and of Assembly: one alternative, or two,   *)
(* of every field an image is hashed from. The two kinds share nothing, so  *)
(* a behaviour is about an object of one of them; the other is at rest.     *)
EXTENDS BuildPlan, Assembly

VARIABLE subject

Context(k) ==
  [kind |-> k, namespace |-> None, revision |-> None, digest |-> "d1", tag |-> "t1",
   subpath |-> None, strip |-> 0, unpack |-> None]

MCContexts ==
  {Context("none"), Context("sourceRef"), Context("image"), Context("fetch"),
   [Context("sourceRef") EXCEPT !.revision = "r1"],
   [Context("sourceRef") EXCEPT !.namespace = "other"],
   [Context("image") EXCEPT !.tag = "t2"],
   [Context("fetch") EXCEPT !.digest = "d2"],
   [Context("fetch") EXCEPT !.strip = 1],
   [Context("fetch") EXCEPT !.subpath = "s1"]}

Dockerfile(k, p, t) == [kind |-> k, path |-> p, text |-> t]
MCDockerfiles ==
  {Dockerfile("path", None, None), Dockerfile("path", "Dockerfile", None),
   Dockerfile("inline", None, "pinned"), Dockerfile("inline", None, "unpinned"),
   Dockerfile("configMap", None, None)}

Arg(n, v) == [name |-> n, value |-> v]
MCArgs == {<<Arg("a", 1), Arg("b", 1)>>, <<Arg("b", 1), Arg("a", 1)>>, <<Arg("a", 2), Arg("b", 1), Arg("a", 1)>>,
           <<Arg("a", 2)>>}

Use(i, n, k) == [id |-> i, name |-> n, key |-> k]
MCSecrets ==
  {<<>>, <<Use("i", "npm", None)>>, <<Use("i", "npm", "i")>>, <<Use("j", "npm", "i")>>,
   <<Use("i", "npm", None), Use("j", "npm", None)>>, <<Use("i", "npm", None), Use("i", "npm", None)>>}

MCVariants ==
  [name       |-> {"app"},
   context    |-> MCContexts,
   dockerfile |-> MCDockerfiles,
   target     |-> {None, "stage"},
   network    |-> {"Sandbox", "None"},
   platforms  |-> {<<"amd64">>, <<"amd64", "arm64">>, <<"arm64", "amd64">>},
   args       |-> MCArgs,
   secrets    |-> MCSecrets,
   cache      |-> {[mode |-> "Auto", ref |-> None], [mode |-> "Auto", ref |-> "shared"],
                   [mode |-> "Disabled", ref |-> None]},
   repository |-> {"repo", "other"}]

MCFirst ==
  [name |-> "app", context |-> Context("sourceRef"), dockerfile |-> Dockerfile("configMap", None, None),
   target |-> None, network |-> "Sandbox", platforms |-> <<"amd64">>,
   args |-> <<Arg("a", 1), Arg("b", 1)>>, secrets |-> <<Use("i", "npm", None)>>,
   cache |-> [mode |-> "Auto", ref |-> None], repository |-> "repo"]

Config(b, a, r) ==
  [builder |-> b, frontend |-> "f1", fetcher |-> "g1", attest |-> a, epoch |-> 0,
   requirePinned |-> r, proxy |-> TRUE, pushSecret |-> TRUE, ca |-> r]
MCConfigs == {Config("b1", FALSE, FALSE), Config("b2", FALSE, FALSE), Config("b1", TRUE, TRUE)}

(* Two revisions, one of them re-packed; and another name for the same tarball. *)
MCTrees ==
  {[revision |-> "r1", digest |-> "d1"], [revision |-> "r1", digest |-> "d2"],
   [revision |-> "r2", digest |-> "d1"]}

-----------------------------------------------------------------------------
Entry(path, kind, body) ==
  [path |-> path, kind |-> kind, body |-> body, read |-> body, exec |-> body = "tool", rooted |-> FALSE,
   leaves |-> FALSE]
File(path) == Entry(path, "file", "x")

(* d1 and d2 hold the same files; d2 in another order, and with directories.*)
(* Stripped of a component, d6 gives one file twice; and one is over 1 MiB. *)
MCArchives ==
  [d1 |-> <<Entry(<<>>, "dir", None), File(<<"app", "ui", "main">>), Entry(<<"app", "ui", "run">>, "file", "tool"),
            Entry(<<"app", "link">>, "link", "ui")>>,
   d2 |-> <<Entry(<<"app">>, "dir", None), Entry(<<"app", "link">>, "link", "ui"), Entry(<<"app", "ui">>, "dir", None),
            Entry(<<"app", "ui", "run">>, "file", "tool"), File(<<"app", "ui", "main">>),
            Entry(<<"app", "pipe">>, "fifo", None)>>,
   d3 |-> <<File(<<"a">>), Entry(<<"a">>, "file", "y"), File(<<"b", "main">>), Entry(<<"b">>, "dir", None)>>,
   d4 |-> <<[File(<<"a", "main">>) EXCEPT !.rooted = TRUE], File(<<"b">>)>>,
   d5 |-> <<File(<<"..", "a">>), File(<<"b", "a">>)>>,
   d6 |-> <<File(<<"a", "main">>), Entry(<<"b", "main">>, "file", "y"),
            [File(<<"b", "long">>) EXCEPT !.read = "head"]>>]

Plain(kind, digest) ==
  [name |-> "n", kind |-> kind, digest |-> digest, unpack |-> "tar.gz", subpath |-> <<>>, strip |-> 0,
   target |-> <<"opt">>, slash |-> FALSE, owner |-> 0, fileMode |-> Absent, dirMode |-> Absent, remove |-> <<>>]

MCLayers ==
  {[Plain("fetch", d) EXCEPT !.strip = s, !.subpath = p] :
     d \in DOMAIN MCArchives, s \in {0, 1}, p \in {<<>>, <<"ui">>, <<"app", "ui">>}}
    \cup {[Plain("fetch", "d1") EXCEPT !.target = <<>>],
          [Plain("fetch", "d1") EXCEPT !.name = "m"],
          [Plain("fetch", "d1") EXCEPT !.fileMode = "0600"],
          [Plain("fetch", "d1") EXCEPT !.dirMode = "0700"],
          [Plain("fetch", "d1") EXCEPT !.owner = 1],
          [Plain("fetch", "d1") EXCEPT !.unpack = "zip"], [Plain("fetch", "d3") EXCEPT !.unpack = "zip"],
          [Plain("fetch", "d1") EXCEPT !.unpack = "none", !.target = <<"opt", "blob">>],
          [Plain("fetch", "d1") EXCEPT !.unpack = "none", !.slash = TRUE],
          [Plain("fetch", "d1") EXCEPT !.unpack = "gz", !.subpath = <<"ui">>],
          [Plain("fetch", "d1") EXCEPT !.unpack = "rar"],
          Plain("sourceRef", Absent), [Plain("sourceRef", Absent) EXCEPT !.subpath = <<"app">>],
          Plain("configMap", "d3"), Plain("image", "d1"), Plain("image", "multi"),
          [Plain("remove", Absent) EXCEPT !.remove = <<<<"opt", "app">>, <<"etc">>>>],
          [Plain("remove", Absent) EXCEPT !.remove = <<<<>>>>]}

MCChildren == [multi |-> [amd64 |-> "d1", arm64 |-> "d3"], bases |-> [amd64 |-> "b1", arm64 |-> "b2"]]
MCBaseConfig ==
  [b \in {"b1", "b2", "bases"} |->
     [platform |-> IF b = "b1" THEN "amd64" ELSE "arm64",
      config |-> [user |-> "root", env |-> IF b = "b1" THEN "a" ELSE "b"]]]

Settings(i, u, e) == [inherit |-> i, set |-> [user |-> u, env |-> e]]

MCCreated ==
  [layers |-> <<Plain("sourceRef", Absent)>>, config |-> Settings(FALSE, Absent, Absent),
   base |-> Absent, platforms |-> <<>>]

MCOptions ==
  [layers    |-> {<<>>} \cup {<<l>> : l \in MCLayers} \cup {<<Plain("sourceRef", Absent), Plain("image", "multi")>>},
   config    |-> {Settings(FALSE, Absent, Absent), Settings(TRUE, Absent, Absent), Settings(TRUE, "me", Absent),
                  Settings(FALSE, "me", Absent)},
   base      |-> {Absent, "b1", "b2", "bases"},
   platforms |-> {<<>>, <<"amd64">>, <<"arm64">>, <<"amd64", "arm64">>, <<"arm64", "amd64">>}]

-----------------------------------------------------------------------------
PlanAtRest ==
  /\ obj = MCFirst /\ config = CHOOSE c \in Configs : TRUE
  /\ source = CHOOSE t \in Trees : TRUE
  /\ configMap = CHOOSE t \in Texts : TRUE
  /\ secret = [s \in SecretNames |-> 0]
  /\ pass = None /\ job = None /\ changes = 0

AssemblyAtRest ==
  composition = MCCreated /\ tarball = (CHOOSE d \in Repacked : TRUE) /\ published = Absent /\ edits = 0

Init ==
  \/ subject = "ImageBuild" /\ PlanInit /\ AssemblyAtRest
  \/ subject = "ImageComposition" /\ AssemblyInit /\ PlanAtRest

Next ==
  \/ subject = "ImageBuild" /\ PlanNext /\ UNCHANGED <<subject, assemblyVars>>
  \/ subject = "ImageComposition" /\ AssemblyNext /\ UNCHANGED <<subject, planVars>>

Spec == Init /\ [][Next]_<<subject, planVars, assemblyVars>>
=============================================================================
