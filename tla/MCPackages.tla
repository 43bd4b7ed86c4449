----------------------------- MODULE MCPackages -----------------------------
(* The cache: two packers that may pack different builds, two projects, two   *)
(* files.  Resolution: every graph of four packages of a registry, resolved   *)
(* once; and a few worlds with two registries and two directories, where      *)
(* calls, edits and moves follow each other.  One part runs.                  *)
EXTENDS PackageCache, Resolution, TLC

CONSTANTS build1, build2, packer1, packer2, project1, project2
MCSymmetry == Permutations({build1, build2}) \cup Permutations({packer1, packer2}) \cup Permutations({project1, project2})

-----------------------------------------------------------------------------
From(version) == [kind |-> "registry", version |-> version]
At(directory, version) == [kind |-> "path", directory |-> directory, version |-> version]
Named(name, version, deps, abi, body) ==
  [name |-> name, version |-> version, deps |-> deps, abi |-> abi, body |-> body]

MCOrder == <<"a", "app", "b", "c">>
MCVersions == 1 .. 2

\* Dependencies on the registry: a choice of a version or 0 for each name.
On(choice) == LET names == {n \in DOMAIN choice : choice[n] # 0} IN [n \in names |-> From(choice[n])]
Nothing == On([a |-> 0])
OfA == {On([b |-> b, c |-> c]) : b \in 0 .. 1, c \in 0 .. 1}
OfB == {On([a |-> a, c |-> c]) : a \in 0 .. 2, c \in 0 .. 1}
OfC == {On([a |-> a, b |-> b]) : a \in 0 .. 2, b \in 0 .. 1}
OfRoot == {On([a |-> a, b |-> b, c |-> c]) : a \in 0 .. 2, b \in 0 .. 1, c \in 0 .. 1}

Index(a1, a2, b1, c1) ==
  LET package(id) == CASE id = <<"r1", "a", 1>> -> a1 [] id = <<"r1", "a", 2>> -> a2
                       [] id = <<"r1", "b", 1>> -> b1 [] id = <<"r1", "c", 1>> -> c1
                       [] OTHER -> Absent
  IN [id \in Ids |-> package(id)]

\* The second package a may be missing, the package c of another ABI.
Graphs4 ==
  {[manifest |-> root, installs |-> MaxInstalls - 1, changes |-> MaxChanges,
    local |-> [d \in Directories |-> Named("c", 1, Nothing, "source", 0)],
    published |-> Index(Named("a", 1, a1, "source", 0), a2,
                        Named("b", 1, b1, "source", 0), Named("c", 1, c1, abi, 0))] :
     root \in OfRoot, a1 \in OfA, b1 \in OfB, c1 \in OfC, abi \in {Abi, "abi-0"},
     a2 \in {Absent} \cup {Named("a", 2, deps, "source", 0) : deps \in OfA}}

\* b needs a, in both registries; a is another package in the second.
Both ==
  [id \in Ids |->
     IF id[3] # 1 \/ id[2] \in {"app", "c"} THEN Absent
     ELSE IF id[2] = "a" THEN Named("a", 1, Nothing, "source", IF id[1] = "r1" THEN 1 ELSE 2)
     ELSE Named("b", 1, [a |-> From(1)], "source", 1)]

\* The directory c needs b of the registry, and may need the other directory,
\* which is a, or is not, or needs c again, or has another version.
MCDirectories == {"da", "dc"}
MCEdits ==
  [d \in MCDirectories |->
     IF d = "da"
     THEN {Named("a", 1, Nothing, "source", 0), Named("a", 1, Nothing, Abi, 1), Named("a", 2, Nothing, "abi-0", 0),
           Named("a", 1, [c |-> At("dc", Absent)], "source", 0), Named("x", 1, Nothing, "source", 0)}
     ELSE {Named("c", 1, [b |-> From(1)], "source", 0), Named("c", 1, [a |-> At("da", 1)], "source", 0),
           Named("c", 1, [a |-> At("da", Absent), b |-> From(1)], "source", 0),
           Named("c", 1, [app |-> At("da", Absent)], "source", 0)}]
MCManifests ==
  {[b |-> From(1)], [a |-> From(1), b |-> From(1)], [c |-> At("dc", Absent)],
   [a |-> At("da", Absent), c |-> At("dc", 1)]}
Lived ==
  [manifest |-> [b |-> From(1)], installs |-> 0, changes |-> 0, published |-> Both,
   local |-> [d \in MCDirectories |-> IF d = "da" THEN Named("a", 1, Nothing, "source", 0)
                                      ELSE Named("c", 1, [a |-> At("da", 1)], "source", 0)]]
MCWorlds == Graphs4 \cup {Lived}

-----------------------------------------------------------------------------
VARIABLE part   \* "cache" or "resolution"

packagesVars == <<part, vars, resolutionVars>>
OneWorld == \E world \in {CHOOSE w \in Worlds : TRUE} : ResolutionStarts(world)
PackagesInit ==
  \/ part = "cache" /\ Init /\ OneWorld
  \/ part = "resolution" /\ Init /\ ResolutionInit
CacheNext == part = "cache" /\ Next /\ UNCHANGED <<part, resolutionVars>>
ResolutionPartNext == part = "resolution" /\ ResolutionNext /\ UNCHANGED <<part, vars>>
\* The calls, edits and moves of this part are bounded; the caches never stop.
ResolutionRests == part = "resolution" /\ UNCHANGED packagesVars
PackagesNext == CacheNext \/ ResolutionPartNext \/ ResolutionRests
PackagesSpec == PackagesInit /\ [][PackagesNext]_packagesVars
=============================================================================
