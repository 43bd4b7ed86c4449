----------------------------- MODULE Resolution ------------------------------
(***************************************************************************)
(* scrate install (tools/scrate.py resolve): the packages a project needs, *)
(* each after those it depends on, and the lockFile that names them.  Packages *)
(* come from a registry, by name and exact version, or from directories    *)
(* of the user, who edits them and the manifest between the calls.         *)
(*                                                                         *)
(* A package is [name, version, deps, abi, body]; deps maps the names it   *)
(* depends on to specifications.  The digest of a package is the package.  *)
(* How one version is fetched and cached is in PackageCache.               *)
(***************************************************************************)
EXTENDS Naturals, Sequences, FiniteSets, SequencesExt

CONSTANTS Order,        \* the names of packages, and Root, sorted
          Versions, Registries, Directories,
          Root,         \* that of the project itself
          Abi,          \* of the compiler; packages of sources fit any
          Absent,
          Worlds,       \* how the world may be at first
          Manifests,    \* what the manifest may be edited to
          Edits,        \* by directory, what its package may be edited to
          MaxInstalls, MaxChanges

Names == ToSet(Order)
Ids == Registries \X Names \X Versions

\* Dependencies as they can be declared: on a directory, or on a version.
Declared(deps) ==
  DOMAIN deps \subseteq Names /\ \A name \in DOMAIN deps :
    IF deps[name].kind = "path" THEN deps[name].directory \in Directories ELSE deps[name].version \in Versions

\* A registry has packages under their own names and versions.
Indexed(index) ==
  \A id \in Ids : index[id] # Absent => Declared(index[id].deps) /\ index[id].name = id[2] /\ index[id].version = id[3]

ASSUME ResolutionAssumption ==
  /\ Order \in Seq(Names) /\ IsFiniteSet(Versions) /\ IsFiniteSet(Directories)
  /\ \A world \in Worlds : /\ Declared(world.manifest) /\ Indexed(world.published)
                           /\ DOMAIN world.local = Directories /\ \A d \in Directories : Declared(world.local[d].deps)
  /\ \A deps \in Manifests : Declared(deps)
  /\ \A d \in Directories : \A package \in Edits[d] : Declared(package.deps)

VARIABLES manifest,     \* what the project depends on
          local,        \* the package in each directory
          published,    \* by registry, name and version: a package or Absent
          fetched,        \* what has been fetched on this machine
          lockFile,         \* Absent, or the manifest and the records of its packages
          call,         \* the call of resolve
          fresh,        \* the registry that was used, if nothing changed since
          installs, changes

resolutionVars == <<manifest, local, published, fetched, lockFile, call, fresh, installs, changes>>

-----------------------------------------------------------------------------
First(names) == Order[Min({i \in DOMAIN Order : Order[i] \in names})]

\* A visit that has begun: the package and the dependencies still to visit.
Frame(package, source) == [package |-> package, source |-> source, rest |-> DOMAIN package.deps]
RootPackage == [name |-> Root, version |-> Absent, deps |-> manifest, abi |-> "source", body |-> 0]

Record(frame) == [name |-> frame.package.name, version |-> frame.package.version,
                  source |-> frame.source, sha256 |-> frame.package]
Identity(frame) == <<frame.package.version, frame.source>>

NoCall == [pc |-> "idle", locked |-> FALSE, offline |-> FALSE, registry |-> Absent,
            stack |-> <<>>, seen |-> <<>>, records |-> <<>>]

ResolutionStarts(world) ==
  /\ manifest = world.manifest /\ local = world.local /\ published = world.published
  /\ installs = world.installs /\ changes = world.changes
  /\ fetched = {} /\ lockFile = Absent /\ call = NoCall /\ fresh = Absent

ResolutionInit == \E world \in Worlds : ResolutionStarts(world)

-----------------------------------------------------------------------------
\* What a specification leads to, or Absent.
Child(name, spec) ==
  IF spec.kind = "path"
  THEN LET package == local[spec.directory]
       IN IF package.name = name /\ spec.version \in {Absent, package.version}
          THEN Frame(package, <<"path", spec.directory>>) ELSE Absent
  ELSE LET id == <<call.registry, name, spec.version>>
       IN IF published[id] # Absent /\ (call.offline => id \in fetched)
          THEN Frame(published[id], <<"registry", call.registry>>) ELSE Absent

Fits(package) == package.abi \in {"source", Abi}

Active == {call.stack[i].package.name : i \in DOMAIN call.stack}
Seen(name) == {frame \in ToSet(call.seen) : frame.package.name = name}

BeginCall ==
  /\ call.pc \in {"idle", "returned", "failed"} /\ installs < MaxInstalls
  /\ \E locked \in BOOLEAN, offline \in BOOLEAN, registry \in Registries :
       call' = IF locked /\ lockFile = Absent THEN [NoCall EXCEPT !.pc = "failed", !.locked = TRUE]
               ELSE [NoCall EXCEPT !.pc = "visiting", !.locked = locked, !.offline = offline,
                                    !.registry = registry, !.stack = <<Frame(RootPackage, Absent)>>]
  /\ installs' = installs + 1
  /\ UNCHANGED <<manifest, local, published, fetched, lockFile, fresh, changes>>

Top == Last(call.stack)
Rest == [call.stack EXCEPT ![Len(call.stack)].rest = @ \ {First(@)}]
FailCall == call' = [call EXCEPT !.pc = "failed"] /\ UNCHANGED fetched

\* Mutant: a name that was seen is not looked at again.
EnteredOnce(child) ==
  IF Seen(child.package.name) # {} THEN call' = [call EXCEPT !.stack = Rest]
  ELSE IF ~Fits(child.package) THEN call' = [call EXCEPT !.pc = "failed"]
  ELSE call' = [call EXCEPT !.stack = Append(Rest, child), !.seen = Append(@, child)]

Entered(child) ==
  LET before == Seen(child.package.name)
  IN
  IF before # {}
  THEN call' = IF \A frame \in before : Identity(frame) = Identity(child)
               THEN [call EXCEPT !.stack = Rest] ELSE [call EXCEPT !.pc = "failed"]
  ELSE IF ~Fits(child.package) THEN call' = [call EXCEPT !.pc = "failed"]
  ELSE call' = [call EXCEPT !.stack = Append(Rest, child), !.seen = Append(@, child)]

\* Mutant: what is kept of a package is found by its name.
KeptByName(id) == {other \in fetched : other[2] # id[2]} \cup {id}

\* _cached_package keeps every version of every registry.
Kept(id) == fetched \cup {id}

\* visit, up to the visits of the dependencies.
Visit ==
  /\ call.pc = "visiting" /\ Top.rest # {}
  /\ LET name == First(Top.rest)
         spec == Top.package.deps[name]
         child == Child(name, spec)
     IN IF name \in Active \/ child = Absent THEN FailCall
        ELSE /\ Entered(child)
             /\ fetched' = IF spec.kind = "path" THEN fetched
                         ELSE Kept(<<call.registry, name, spec.version>>)
  /\ UNCHANGED <<manifest, local, published, lockFile, fresh, installs, changes>>

Closing(records) == Append(records, Record(Top))

\* Its end: the package follows its dependencies.
Leave ==
  /\ call.pc = "visiting" /\ Top.rest = {} /\ Len(call.stack) > 1
  /\ call' = [call EXCEPT !.stack = Front(@), !.records = Closing(@)]
  /\ UNCHANGED <<manifest, local, published, fetched, lockFile, fresh, installs, changes>>

Accepts(new) == call.locked => lockFile = new

\* The lockFile is compared, or written.
Finish ==
  /\ call.pc = "visiting" /\ Top.rest = {} /\ Len(call.stack) = 1
  /\ LET new == [root |-> manifest, packages |-> call.records]
     IN IF Accepts(new)
        THEN /\ call' = [call EXCEPT !.pc = "returned"]
             /\ lockFile' = new /\ fresh' = call.registry
        ELSE /\ call' = [call EXCEPT !.pc = "failed"]
             /\ UNCHANGED <<lockFile, fresh>>
  /\ UNCHANGED <<manifest, local, published, fetched, installs, changes>>

Resolve == BeginCall \/ Visit \/ Leave \/ Finish

-----------------------------------------------------------------------------
(* The user, between the calls: the manifest or a directory is edited, or   *)
(* the project goes to another machine, with its lockFile.                      *)
Change ==
  /\ call.pc # "visiting" /\ changes < MaxChanges
  /\ changes' = changes + 1 /\ fresh' = Absent /\ call' = NoCall

EditManifest ==
  /\ Change
  /\ manifest' \in Manifests \ {manifest}
  /\ UNCHANGED <<local, published, fetched, lockFile, installs>>

EditDirectory ==
  /\ Change
  /\ \E d \in Directories : \E package \in Edits[d] \ {local[d]} : local' = [local EXCEPT ![d] = package]
  /\ UNCHANGED <<manifest, published, fetched, lockFile, installs>>

Move ==
  /\ Change
  /\ fetched # {} /\ fetched' = {}
  /\ UNCHANGED <<manifest, local, published, lockFile, installs>>

ResolutionNext == Resolve \/ EditManifest \/ EditDirectory \/ Move
ResolutionSpec == ResolutionInit /\ [][ResolutionNext]_resolutionVars

-----------------------------------------------------------------------------
(* The graph, regardless of any order: the packages reachable from the      *)
(* project, as far as they can be had.                                      *)
Links(frame) == {<<name, frame.package.deps[name]>> : name \in DOMAIN frame.package.deps}
Children(frame) == {Child(link[1], link[2]) : link \in Links(frame)} \ {Absent}

\* All below a package: as many rounds as there can be packages on a path.
Rounds == Cardinality(Names \X Versions) + Cardinality(Directories)
AllBelow(frame) ==
  LET found[n \in 0 .. Rounds] == IF n = 0 THEN Children(frame)
                                  ELSE UNION {{f} \cup Children(f) : f \in found[n - 1]}
  IN found[Rounds]
Reached == AllBelow(Frame(RootPackage, Absent))

Broken(frames) == \E frame \in frames \cup {Frame(RootPackage, Absent)} :
                    \E link \in Links(frame) : Child(link[1], link[2]) = Absent
Conflicting(frames) == \E f, g \in frames : f.package.name = g.package.name /\ Identity(f) # Identity(g)
Cyclic(frames) == \E frame \in frames : frame.package.name = Root \/ frame \in AllBelow(frame)
Unfit(frames) == \E frame \in frames : ~Fits(frame.package)

\* The lockFile that describes what is needed, whatever the order of the packages.
Describes(frames) == lockFile # Absent /\ lockFile.root = manifest /\ ToSet(lockFile.packages) = {Record(f) : f \in frames}

\* Resolution succeeds exactly for a graph of packages that can all be had, in
\* one version and from one source each, that fit the compiler and do not
\* depend on each other in a circle, and when the lockFile is only to be checked,
\* that is what it describes; order and depth do not matter
\* (scrate.py:484-520).
ExactlySound ==
  call.pc \in {"returned", "failed"} /\ call.registry # Absent =>
    LET frames == Reached
        sound == ~Broken(frames) /\ ~Conflicting(frames) /\ ~Cyclic(frames) /\ ~Unfit(frames)
    IN (call.pc = "returned") = (sound /\ (call.locked => Describes(frames)))

\* What is returned is every package that is needed, once, each after all it
\* depends on, and the lockFile names them as they are (scrate.py:508-522).
DependenciesFirst ==
  call.pc = "returned" =>
    LET records == call.records
        position(name) == CHOOSE i \in DOMAIN records : records[i].name = name
    IN /\ ToSet(records) = {Record(frame) : frame \in Reached}
       /\ \A i, j \in DOMAIN records : records[i].name = records[j].name => i = j
       /\ \A i \in DOMAIN records : \A name \in DOMAIN records[i].sha256.deps : position(name) < i
       /\ lockFile.packages = records /\ lockFile.root = manifest

\* A call gives the packages of a sound graph in order, and fails for any other.
SolvesExactly == ExactlySound /\ DependenciesFirst

\* Once installed, a project can be installed again without the network and
\* from its lockFile, as long as nothing was edited (docs/QUICKSTART.md:60).
RepeatsOffline ==
  fresh # Absent /\ call.registry = fresh => call.pc # "failed"
=============================================================================
