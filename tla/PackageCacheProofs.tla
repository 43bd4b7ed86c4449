------------------------- MODULE PackageCacheProofs -------------------------
(***************************************************************************)
(* For any number of packers, projects and builds, of kills and of damage: *)
(* whatever names a build leads to its bytes, and an installation that     *)
(* nobody disturbed hands out the whole package.                           *)
(*                                                                         *)
(* What makes these inductive is what a process relies on between two      *)
(* operations on files: a packer about to write the index has published    *)
(* the archive it will name, unless the version was there already          *)
(* (ArchiveFirst), an installer past the download has an archive in the    *)
(* cache (Fetched), and from the comparison on the package is whole unless *)
(* it was disturbed (FoundWhole).                                          *)
(*                                                                         *)
(* For any packages and any graph of them: what was installed once can be  *)
(* installed again from its lock and without the network (Resolution), and *)
(* a call ends with the packages it needs, each after its own, exactly if  *)
(* there is such an order.                                                 *)
(***************************************************************************)
EXTENDS PackageCache, Resolution, WellOrder, FiniteSetTheorems, TLAPS

\* What is in the index leads to an archive as soon as it is there: _immutable_write
\* of the archive comes first, and a packer replaces neither file.
ArchiveFirst ==
  \A p \in Packers : packer[p].pc = "index" => zip = packer[p].build \/ index # None

\* No installer works on a package whose archive the cache has never had.
Fetched ==
  \A i \in Installers :
    installer[i].pc \in Working \ {"fetch"} => archive[installer[i].digest] # "absent"

Loading == {"load", "validate", "receipt", "lock"}

\* After the comparison, or after it has placed its own copy, an installer reads
\* the package as it should be.
FoundWhole ==
  \A i \in Installers :
    installer[i].pc \in Loading =>
      packages[installer[i].digest] = Directory(Files) \/ i \in disturbed

\* What was returned is a build, which the lock now names.
Chosen ==
  \A i \in Installers : installer[i].pc = "returned" => lock[i] \in Builds

Inv == TypeOK /\ Backed /\ InstalledWhole /\ ArchiveFirst /\ Fetched /\ FoundWhole /\ Chosen

InstallerState ==
  [pc : Resting \cup {"look"} \cup Working, offline : BOOLEAN,
   known : Digests, digest : Digests, listed : SUBSET Entries]

LEMMA InitInv == Init => Inv
BY PackageAssumption
DEF Init, Inv, TypeOK, Backed, InstalledWhole, ArchiveFirst, Fetched, FoundWhole, Chosen, Digests, Entries,
    Working, Loading, Resting, Idle, Unpacked, NoDirectory

-----------------------------------------------------------------------------
(* Packers change the registry only. *)

LEMMA PackersPreserve ==
  ASSUME Inv, NEW p \in Packers, StartPack(p) \/ PackZip(p) \/ PackIndex(p)
  PROVE  Inv'
<1>1. CASE StartPack(p)
  <2>1. TypeOK'
    BY <1>1 DEF Inv, TypeOK, StartPack, registry, cache, Digests
  <2>2. ArchiveFirst'
    BY <1>1 DEF Inv, TypeOK, ArchiveFirst, StartPack, registry
  <2> QED
    BY <1>1, <2>1, <2>2
    DEF Inv, StartPack, registry, cache, Backed, InstalledWhole, Fetched, FoundWhole, Chosen
<1>2. CASE PackZip(p)
  <2>1. packer[p].build \in Builds /\ packer[p].build # None
    BY <1>2, PackageAssumption DEF Inv, TypeOK, PackZip, Pack
  <2>2. TypeOK'
    BY <1>2, <2>1 DEF Inv, TypeOK, PackZip, Pack, Published, ImmutableWrite, Ended, cache, Digests
  <2>3. Backed'
    BY <1>2, <2>1 DEF Inv, Backed, PackZip, Pack, Published, ImmutableWrite, cache
  <2>4. ArchiveFirst'
    <3> SUFFICES ASSUME NEW q \in Packers, packer'[q].pc = "index"
                 PROVE  zip' = packer'[q].build \/ index' # None
      BY DEF ArchiveFirst
    <3>1. CASE q = p
      BY <1>2, <2>1, <3>1 DEF Inv, TypeOK, PackZip, Pack, Published, ImmutableWrite, Ended
    <3>2. CASE q # p
      <4>1. packer'[q] = packer[q] /\ index' = index
        BY <1>2, <3>2 DEF Inv, TypeOK, PackZip, Pack
      <4>2. packer[q].build \in Builds /\ (zip = packer[q].build \/ index # None)
        BY <4>1 DEF Inv, TypeOK, ArchiveFirst
      <4>3. zip # None => zip' = zip
        BY <1>2 DEF PackZip, Published, ImmutableWrite
      <4> QED BY <4>1, <4>2, <4>3, PackageAssumption
    <3> QED BY <3>1, <3>2
  <2> QED
    BY <1>2, <2>2, <2>3, <2>4 DEF Inv, PackZip, Pack, cache, InstalledWhole, Fetched, FoundWhole, Chosen
<1>3. CASE PackIndex(p)
  <2>1. packer[p].build \in Builds /\ packer[p].build # None
    BY <1>3, PackageAssumption DEF Inv, TypeOK, PackIndex, Pack
  <2>2. TypeOK'
    BY <1>3, <2>1 DEF Inv, TypeOK, PackIndex, Pack, Published, ImmutableWrite, Ended, cache, Digests
  <2>3. Backed'
    BY <1>3, <2>1 DEF Inv, Backed, ArchiveFirst, PackIndex, Pack, Published, ImmutableWrite, cache
  <2>4. ArchiveFirst'
    BY <1>3, <2>1 DEF Inv, TypeOK, ArchiveFirst, PackIndex, Pack, Published, ImmutableWrite, Ended
  <2> QED
    BY <1>3, <2>2, <2>3, <2>4 DEF Inv, PackIndex, Pack, cache, InstalledWhole, Fetched, FoundWhole, Chosen
<1> QED BY <1>1, <1>2, <1>3

-----------------------------------------------------------------------------
(* Steps of an installer that leave its package alone: it may download the *)
(* archive, and have compared the package.                                 *)

LEMMA InstallerStep ==
  ASSUME Inv, NEW i \in Installers, NEW x \in InstallerState,
         installer' = [installer EXCEPT ![i] = x],
         UNCHANGED <<registry, packages, receipt, lock, packer>>,
         archive' \in [Builds -> {"absent", "good", "bad"}],
         \A d \in Builds : archive[d] # "absent" => archive'[d] # "absent",
         \A j \in Installers \ {i} : j \in disturbed => j \in disturbed',
         x.pc # "returned",
         x.pc \in Working => x.digest \in Builds,
         x.pc \in Working \ {"fetch"} => archive'[x.digest] # "absent",
         x.pc \in Loading => packages[x.digest] = Directory(Files) \/ i \in disturbed'
  PROVE  Inv'
<1>1. \A j \in Installers : installer'[j] = IF j = i THEN x ELSE installer[j]
  BY DEF Inv, TypeOK
<1>2. TypeOK'
  BY <1>1 DEF Inv, TypeOK, InstallerState, registry
<1>3. Backed'
  BY PackageAssumption DEF Inv, TypeOK, Digests, Backed, registry
<1>4. ArchiveFirst'
  BY DEF Inv, ArchiveFirst, registry
<1>5. InstalledWhole' /\ Chosen'
  BY <1>1 DEF Inv, InstalledWhole, Chosen
<1>6. Fetched'
  BY <1>1 DEF Inv, TypeOK, Fetched
<1>7. FoundWhole'
  BY <1>1 DEF Inv, FoundWhole
<1> QED BY <1>2, <1>3, <1>4, <1>5, <1>6, <1>7 DEF Inv

LEMMA QuietStep ==
  ASSUME Inv, NEW i \in Installers, NEW x \in InstallerState,
         installer' = [installer EXCEPT ![i] = x], NoWrite,
         x.pc # "returned",
         x.pc \in Working => x.digest \in Builds,
         x.pc \in Working \ {"fetch"} => archive[x.digest] # "absent",
         x.pc \in Loading => packages[x.digest] = Directory(Files) \/ i \in disturbed
  PROVE  Inv'
BY InstallerStep DEF NoWrite, cache, Inv, TypeOK

LEMMA FailWhileCrashing ==
  ASSUME Inv, NEW i \in Installers, Fail(i), UNCHANGED <<registry, cache, lock, packer, disturbed>>
  PROVE  Inv'
<1>1. Idle \in InstallerState
  BY DEF Idle, InstallerState, Resting, Digests
<1>2. Idle.pc \notin Working /\ Idle.pc \notin Loading /\ Idle.pc # "returned"
  BY DEF Idle, Working, Loading
<1> QED BY <1>1, <1>2, InstallerStep DEF Fail, cache, Inv, TypeOK

LEMMA FailStep ==
  ASSUME Inv, NEW i \in Installers, Fail(i), NoWrite
  PROVE  Inv'
BY FailWhileCrashing DEF NoWrite

\* Going on with a build that was chosen.
LEMMA InstallerEntered ==
  ASSUME Inv, NEW i \in Installers, installer[i].pc \in Working, NEW pc \in Working, Go(i, pc)
  PROVE  \E x \in InstallerState :
           /\ installer' = [installer EXCEPT ![i] = x]
           /\ x.pc = pc /\ x.digest = installer[i].digest /\ x.digest \in Builds /\ x.pc # "returned"
<1> DEFINE x == [installer[i] EXCEPT !.pc = pc]
<1>1. x \in InstallerState /\ x.pc = pc /\ x.digest = installer[i].digest
  BY DEF Inv, TypeOK, InstallerState
<1>2. installer' = [installer EXCEPT ![i] = x]
  BY DEF Go, Inv, TypeOK
<1>3. x.digest \in Builds
  BY <1>1 DEF Inv, TypeOK
<1>4. x.pc # "returned"
  BY <1>1 DEF Working
<1> QED BY <1>1, <1>2, <1>3, <1>4

LEMMA GoStep ==
  ASSUME Inv, NEW i \in Installers, NEW pc \in Working, installer[i].pc \in Working \ {"fetch"},
         Go(i, pc), NoWrite,
         pc \in Loading =>
           packages[installer[i].digest] = Directory(Files) \/ i \in disturbed
  PROVE  Inv'
<1>1. archive[installer[i].digest] # "absent"
  BY DEF Inv, Fetched
<1> QED BY <1>1, InstallerEntered, QuietStep

-----------------------------------------------------------------------------
(* Steps of an installer that write the package it works on. *)

LEMMA PackageStep ==
  ASSUME Inv, NEW i \in Installers, NEW x \in InstallerState, NEW files \in SUBSET Entries,
         NEW directory, directory \in {NoDirectory, Directory(files)},
         installer' = [installer EXCEPT ![i] = x], WritePackage(i, directory),
         installer[i].pc \in Working \ {"fetch"},
         x.pc \in Working, x.digest = installer[i].digest,
         x.pc \in Loading => directory = Directory(Files)
  PROVE  Inv'
<1> DEFINE d == installer[i].digest
<1>1. \A j \in Installers : installer'[j] = IF j = i THEN x ELSE installer[j]
  BY DEF Inv, TypeOK
<1>2. d \in Builds /\ archive[d] # "absent" /\ x.pc # "returned" /\ installer[i].pc # "returned"
  BY DEF Inv, TypeOK, Fetched, Working
<1>3. \A e \in Builds : packages'[e] = IF e = d THEN directory ELSE packages[e]
  BY DEF WritePackage, Inv, TypeOK
<1>4. TypeOK'
  <2>1. directory \in [present : BOOLEAN, files : SUBSET Entries] /\ (~directory.present => directory.files = {})
    <3>1. CASE directory = NoDirectory
      BY <3>1 DEF NoDirectory
    <3>2. CASE directory = Directory(files)
      BY <3>2 DEF Directory
    <3> QED BY <3>1, <3>2
  <2>2. packages' \in [Builds -> [present : BOOLEAN, files : SUBSET Entries]]
    BY <2>1 DEF WritePackage, Inv, TypeOK
  <2>3. \A e \in Builds : ~packages'[e].present => packages'[e].files = {}
    BY <1>3, <2>1 DEF Inv, TypeOK
  <2>4. installer' \in [Installers -> InstallerState]
    BY DEF Inv, TypeOK, InstallerState
  <2>5. \A j \in Installers : installer'[j].pc \in Working => installer'[j].digest \in Builds
    BY <1>1, <1>2 DEF Inv, TypeOK
  <2> QED BY <2>2, <2>3, <2>4, <2>5 DEF WritePackage, Inv, TypeOK, InstallerState, registry
<1>5. Backed' /\ ArchiveFirst'
  BY DEF Inv, Backed, ArchiveFirst, WritePackage, registry
<1>6. InstalledWhole' /\ Chosen'
  <2> SUFFICES ASSUME NEW j \in Installers, installer'[j].pc = "returned"
               PROVE  /\ lock'[j] \in Builds
                      /\ packages'[lock'[j]] = Directory(Files) \/ j \in disturbed'
    BY DEF InstalledWhole, Chosen
  <2>1. j # i /\ installer'[j] = installer[j] /\ lock' = lock
    BY <1>1, <1>2 DEF WritePackage
  <2>2. lock[j] \in Builds /\ (packages[lock[j]] = Directory(Files) \/ j \in disturbed)
    BY <2>1 DEF Inv, InstalledWhole, Chosen
  <2>3. lock[j] = d => j \in disturbed'
    BY <2>1 DEF WritePackage, Package
  <2>4. j \in disturbed => j \in disturbed'
    BY DEF WritePackage
  <2> QED BY <1>3, <2>1, <2>2, <2>3, <2>4
<1>7. Fetched'
  BY <1>1, <1>2 DEF Inv, Fetched, WritePackage
<1>8. FoundWhole'
  <2> SUFFICES ASSUME NEW j \in Installers, installer'[j].pc \in Loading
               PROVE  packages'[installer'[j].digest] = Directory(Files) \/ j \in disturbed'
    BY DEF FoundWhole
  <2>1. CASE j = i
    BY <1>1, <1>2, <1>3, <2>1
  <2>2. CASE j # i
    <3>1. installer'[j] = installer[j]
      BY <1>1, <2>2
    <3>2. installer[j].digest \in Builds /\ installer[j].pc # "returned"
      BY <3>1 DEF Loading, Working, Inv, TypeOK
    <3>3. packages[installer[j].digest] = Directory(Files) \/ j \in disturbed
      BY <3>1 DEF Inv, FoundWhole
    <3>4. installer[j].digest = d => j \in disturbed'
      BY <2>2, <3>2 DEF WritePackage, Package
    <3>5. j \in disturbed => j \in disturbed'
      BY DEF WritePackage
    <3> QED BY <1>3, <3>1, <3>2, <3>3, <3>4, <3>5
  <2> QED BY <2>1, <2>2
<1> QED BY <1>4, <1>5, <1>6, <1>7, <1>8 DEF Inv

-----------------------------------------------------------------------------
(* The actions of an installer, up to the comparison ... *)

LEMMA StartPreserves ==
  ASSUME Inv, NEW i \in Installers, Begin(i) \/ LookUp(i) \/ Fetch(i) \/ Compare(i)
  PROVE  Inv'
<1>1. CASE Begin(i)
  <2>1. PICK offline \in BOOLEAN :
          installer' = [installer EXCEPT ![i] = [Idle EXCEPT !.pc = "look", !.offline = offline, !.known = receipt]]
    BY <1>1 DEF Begin
  <2> DEFINE x == [Idle EXCEPT !.pc = "look", !.offline = offline, !.known = receipt]
  <2>2. x \in InstallerState /\ x.pc = "look"
    BY DEF Idle, InstallerState, Digests, Inv, TypeOK
  <2> QED BY <1>1, <2>1, <2>2, QuietStep DEF Begin, NoWrite, Working, Loading
<1>2. CASE LookUp(i)
  <2>1. CASE Refused(installer[i].known, Candidate(i))
    BY <1>2, <2>1, FailStep DEF LookUp, NoWrite
  <2>2. CASE ~Refused(installer[i].known, Candidate(i))
    <3> DEFINE x == [installer[i] EXCEPT !.pc = "fetch", !.digest = Candidate(i)]
    <3>1. Candidate(i) \in Builds
      BY <2>2 DEF Candidate, Refused, Digests, Inv, TypeOK
    <3>2. x \in InstallerState /\ x.pc = "fetch" /\ x.digest = Candidate(i)
      <4>1. installer[i] \in InstallerState /\ Candidate(i) \in Digests
        BY <3>1 DEF InstallerState, Digests, Inv, TypeOK
      <4> QED BY <4>1 DEF InstallerState, Working
    <3>3. installer' = [installer EXCEPT ![i] = x]
      BY <1>2, <2>2 DEF LookUp, Inv, TypeOK
    <3>4. NoWrite
      BY <1>2 DEF LookUp, NoWrite
    <3> QED BY <3>1, <3>2, <3>3, <3>4, QuietStep DEF Loading
  <2> QED BY <2>1, <2>2
<1>3. CASE Fetch(i)
  <2>1. CASE Fail(i) /\ UNCHANGED archive
    BY <1>3, <2>1, FailStep DEF Fetch, NoWrite, cache
  <2>2. CASE Go(i, "compare") /\ archive[installer[i].digest] = "good" /\ UNCHANGED archive
    BY <1>3, <2>2, InstallerEntered, InstallerStep DEF Fetch, Loading, Working, Inv, TypeOK
  <2>3. CASE Go(i, "compare") /\ archive' = [archive EXCEPT ![installer[i].digest] = "good"]
    BY <1>3, <2>3, InstallerEntered, InstallerStep DEF Fetch, Loading, Working, Inv, TypeOK
  <2> QED BY <1>3, <2>1, <2>2, <2>3 DEF Fetch
<1>4. CASE Compare(i)
  <2> DEFINE pc == IF Intact(packages[installer[i].digest]) THEN "load" ELSE "clear"
  <2>1. installer[i].pc = "compare" /\ pc \in Working /\ Go(i, pc)
    BY <1>4 DEF Compare, Working
  <2>2. pc \in Loading => packages[installer[i].digest] = Directory(Files)
    BY DEF Loading, Intact
  <2>3. archive[installer[i].digest] # "absent"
    BY <2>1 DEF Working, Inv, Fetched
  <2> HIDE DEF pc
  <2> QED BY <1>4, <2>1, <2>2, <2>3, InstallerEntered, InstallerStep DEF Compare, Working, registry, cache, Inv, TypeOK
<1> QED BY <1>1, <1>2, <1>3, <1>4

-----------------------------------------------------------------------------
(* ... the replacement of what is in the package's place ... *)

LEMMA ReplacePreserves ==
  ASSUME Inv, NEW i \in Installers, Clear(i) \/ Unlink(i) \/ RemoveDirectory(i) \/ Place(i)
  PROVE  Inv'
<1> DEFINE there == packages[installer[i].digest]
<1> USE DEF Working, Loading
<1>0. /\ installer[i] \in InstallerState
      /\ installer[i].digest \in Builds
      /\ archive[installer[i].digest] # "absent"
      /\ there \in [present : BOOLEAN, files : SUBSET Entries]
  BY DEF Clear, Unlink, RemoveDirectory, Place, Inv, TypeOK, Fetched, InstallerState
<1>1. CASE Clear(i)
  <2> DEFINE x == [installer[i] EXCEPT !.pc = IF there.present THEN "remove" ELSE "place", !.listed = there.files]
  <2>1. installer' = [installer EXCEPT ![i] = x]
    BY <1>1 DEF Clear, Inv, TypeOK
  <2>2. x \in InstallerState /\ x.pc \in {"remove", "place"} /\ x.digest = installer[i].digest
    BY <1>0 DEF InstallerState
  <2> QED BY ZenonT(60), <1>0, <1>1, <2>1, <2>2, QuietStep DEF Clear, NoWrite
<1>2. CASE Unlink(i)
  <2>1. PICK f \in installer[i].listed :
          \/ /\ installer' = [installer EXCEPT ![i].listed = @ \ {f}]
             /\ WritePackage(i, Directory(there.files \ {f})) \/ NoWrite
          \/ Fail(i) /\ NoWrite
    BY <1>2 DEF Unlink
  <2> DEFINE x == [installer[i] EXCEPT !.listed = @ \ {f}]
  <2>2. installer[i].pc = "remove" /\ x \in InstallerState /\ x.pc = "remove" /\ x.digest = installer[i].digest
    BY <1>0, <1>2 DEF Unlink, InstallerState
  <2>3. CASE installer' = [installer EXCEPT ![i].listed = @ \ {f}]
    <3>1. installer' = [installer EXCEPT ![i] = x]
      BY <2>3 DEF Inv, TypeOK
    <3>2. CASE NoWrite
      BY <1>0, <2>2, <3>1, <3>2, QuietStep
    <3>3. CASE WritePackage(i, Directory(there.files \ {f}))
      <4>1. there.files \ {f} \in SUBSET Entries
        BY <1>0
      <4> QED BY <2>2, <3>1, <3>3, <4>1, PackageStep
    <3> QED BY <2>1, <2>3, <3>2, <3>3, FailStep
  <2> QED BY <2>1, <2>3, FailStep
<1>3. CASE RemoveDirectory(i)
  <2>1. CASE Fail(i) /\ NoWrite
    BY <2>1, FailStep
  <2>2. CASE Go(i, "place") /\ NoWrite
    BY <1>3, <2>2, GoStep DEF RemoveDirectory
  <2>3. CASE Go(i, "place") /\ WritePackage(i, NoDirectory)
    BY ZenonT(60), <1>3, <2>3, InstallerEntered, PackageStep DEF RemoveDirectory
  <2> QED BY <1>3, <2>1, <2>2, <2>3 DEF RemoveDirectory
<1>4. CASE Place(i)
  <2>1. CASE Fail(i) /\ NoWrite
    BY <2>1, FailStep
  <2>2. CASE Go(i, "load") /\ WritePackage(i, Directory(Files))
    <3>1. Files \in SUBSET Entries
      BY DEF Entries
    <3> QED BY <1>4, <2>2, <3>1, InstallerEntered, PackageStep DEF Place
  <2> QED BY <1>4, <2>1, <2>2 DEF Place
<1> QED BY <1>1, <1>2, <1>3, <1>4

-----------------------------------------------------------------------------
(* ... and what is read and recorded of the package that is there. *)

LEMMA RecordPreserves ==
  ASSUME Inv, NEW i \in Installers, Load(i) \/ Validate(i) \/ WriteReceipt(i) \/ WriteLock(i)
  PROVE  Inv'
<1> DEFINE d == installer[i].digest
<1> USE DEF Working, Loading
<1>0. /\ d \in Builds /\ archive[d] # "absent"
      /\ packages[d] = Directory(Files) \/ i \in disturbed
  BY DEF Load, Validate, WriteReceipt, WriteLock, Inv, TypeOK, Fetched, FoundWhole
<1>1. CASE Load(i)
  BY <1>0, <1>1, FailStep, GoStep DEF Load
<1>2. CASE Validate(i)
  BY <1>0, <1>2, FailStep, GoStep DEF Validate
<1>3. CASE WriteReceipt(i)
  <2>1. PICK x \in InstallerState : /\ installer' = [installer EXCEPT ![i] = x]
                                   /\ x.pc = "lock" /\ x.digest = d
    BY <1>3, InstallerEntered DEF WriteReceipt
  <2>2. \A j \in Installers : installer'[j] = IF j = i THEN x ELSE installer[j]
    BY <2>1 DEF Inv, TypeOK
  <2>3. TypeOK'
    BY <1>0, <1>3, <2>1, <2>2 DEF WriteReceipt, Inv, TypeOK, InstallerState, Digests, registry
  <2>4. Backed' /\ ArchiveFirst'
    BY <1>0, <1>3 DEF WriteReceipt, Inv, Backed, ArchiveFirst, registry
  <2>5. InstalledWhole' /\ Chosen' /\ Fetched' /\ FoundWhole'
    BY <1>0, <1>3, <2>1, <2>2 DEF WriteReceipt, Inv, InstalledWhole, Chosen, Fetched, FoundWhole
  <2> QED BY <2>3, <2>4, <2>5 DEF Inv
<1>4. CASE WriteLock(i)
  <2>1. CASE Finds(i, {Manifest})
    <3> DEFINE x == [Idle EXCEPT !.pc = "returned"]
    <3>1. x \in InstallerState /\ x.pc = "returned"
      BY DEF Idle, InstallerState, Resting, Digests
    <3>2. /\ \A j \in Installers : installer'[j] = IF j = i THEN x ELSE installer[j]
          /\ \A j \in Installers : lock'[j] = IF j = i THEN d ELSE lock[j]
      BY <1>4, <2>1 DEF WriteLock, Return, Inv, TypeOK
    <3>3. TypeOK'
      BY SMTT(60), <1>0, <1>4, <2>1, <3>1, <3>2
      DEF WriteLock, Return, Inv, TypeOK, InstallerState, Digests, registry, cache
    <3>4. Backed' /\ ArchiveFirst'
      BY <1>0, <1>4, <3>2 DEF WriteLock, Inv, Backed, ArchiveFirst, registry, cache
    <3>5. InstalledWhole' /\ Chosen' /\ Fetched' /\ FoundWhole'
      BY <1>0, <1>4, <3>1, <3>2 DEF WriteLock, Inv, InstalledWhole, Chosen, Fetched, FoundWhole, cache
    <3> QED BY <3>3, <3>4, <3>5 DEF Inv
  <2>2. CASE ~Finds(i, {Manifest})
    BY <1>4, <2>2, FailStep DEF WriteLock, NoWrite, cache
  <2> QED BY <2>1, <2>2
<1> QED BY <1>1, <1>2, <1>3, <1>4

-----------------------------------------------------------------------------
(* Kills, damage and a registry whose files are exchanged. *)

LEMMA OutsidePreserves ==
  ASSUME Inv, Crash \/ DamageArchive \/ DamagePackage \/ Republish
  PROVE  Inv'
<1>1. CASE Crash
  <2>1. CASE \E i \in Installers : Fail(i) /\ UNCHANGED packer
    BY <1>1, <2>1, FailWhileCrashing DEF Crash
  <2>2. CASE \E p \in Packers : packer' = [packer EXCEPT ![p] = Unpacked] /\ UNCHANGED installer
    <3>1. PICK p \in Packers : packer' = [packer EXCEPT ![p] = Unpacked] /\ UNCHANGED installer
      BY <2>2
    <3>2. TypeOK'
      BY <1>1, <3>1 DEF Crash, Inv, TypeOK, Unpacked, Digests, registry, cache
    <3>3. ArchiveFirst'
      BY <1>1, <3>1 DEF Crash, Inv, TypeOK, ArchiveFirst, Unpacked, registry
    <3> QED BY <1>1, <3>1, <3>2, <3>3
            DEF Crash, Inv, Backed, InstalledWhole, Fetched, FoundWhole, Chosen, registry, cache
  <2> QED BY <1>1, <2>1, <2>2 DEF Crash
<1>2. CASE DamageArchive
  <2>1. PICK d \in Builds : archive[d] = "good" /\ archive' = [archive EXCEPT ![d] = "bad"]
    BY <1>2 DEF DamageArchive
  <2>2. /\ archive' \in [Builds -> {"absent", "good", "bad"}]
        /\ \A e \in Builds : archive[e] # "absent" => archive'[e] # "absent"
    BY <2>1 DEF Inv, TypeOK
  <2>3. TypeOK' /\ ArchiveFirst'
    BY <1>2, <2>2 DEF DamageArchive, Inv, TypeOK, ArchiveFirst, registry
  <2>4. Backed'
    BY <1>2, <2>2, PackageAssumption DEF DamageArchive, Inv, TypeOK, Digests, Backed, registry
  <2>5. Fetched'
    BY <1>2, <2>2 DEF DamageArchive, Inv, TypeOK, Fetched
  <2> QED BY <1>2, <2>3, <2>4, <2>5 DEF DamageArchive, Inv, InstalledWhole, FoundWhole, Chosen
<1>3. CASE DamagePackage
  <2>1. PICK d \in Builds, files \in SUBSET Entries :
          packages[d].present /\ packages' = [packages EXCEPT ![d].files = files]
    <3>1. PICK d \in Builds :
            /\ packages[d].present
            /\ \/ packages' = [packages EXCEPT ![d].files = @ \cup {Foreign}]
               \/ \E f \in packages[d].files : packages' = [packages EXCEPT ![d].files = @ \ {f}]
      BY <1>3 DEF DamagePackage
    <3>2. packages[d].files \cup {Foreign} \in SUBSET Entries
      BY DEF Inv, TypeOK, Entries
    <3>3. \A f : packages[d].files \ {f} \in SUBSET Entries
      BY DEF Inv, TypeOK
    <3> QED BY <3>1, <3>2, <3>3
  <2>2. /\ packages' \in [Builds -> [present : BOOLEAN, files : SUBSET Entries]]
        /\ \A e \in Builds : ~packages'[e].present => packages'[e].files = {}
    BY <2>1 DEF Inv, TypeOK
  <2>3. TypeOK' /\ Backed' /\ ArchiveFirst'
    BY <1>3, <2>2 DEF DamagePackage, Inv, TypeOK, Backed, ArchiveFirst, registry
  <2> QED BY <1>3, <2>3 DEF DamagePackage, Inv, InstalledWhole, Fetched, FoundWhole, Chosen
<1>4. CASE Republish
  <2>1. PICK b \in Builds : zip' = b /\ index' = b
    BY <1>4 DEF Republish
  <2>2. TypeOK' /\ Backed' /\ ArchiveFirst'
    BY <1>4, <2>1, PackageAssumption DEF Republish, cache, Inv, TypeOK, Digests, Backed, ArchiveFirst
  <2> QED BY <1>4, <2>2 DEF Republish, cache, Inv, InstalledWhole, Fetched, FoundWhole, Chosen
<1> QED BY <1>1, <1>2, <1>3, <1>4

LEMMA Inductive == Inv /\ [Next]_vars => Inv'
<1> SUFFICES ASSUME Inv, [Next]_vars PROVE Inv'
  OBVIOUS
<1>1. CASE \E p \in Packers : StartPack(p) \/ PackZip(p) \/ PackIndex(p)
  BY <1>1, PackersPreserve
<1>2. CASE \E i \in Installers : Begin(i) \/ LookUp(i) \/ Fetch(i) \/ Compare(i)
  BY <1>2, StartPreserves
<1>3. CASE \E i \in Installers : Clear(i) \/ Unlink(i) \/ RemoveDirectory(i) \/ Place(i)
  BY <1>3, ReplacePreserves
<1>4. CASE \E i \in Installers : Load(i) \/ Validate(i) \/ WriteReceipt(i) \/ WriteLock(i)
  BY <1>4, RecordPreserves
<1>5. CASE Crash \/ DamageArchive \/ DamagePackage \/ Republish
  BY <1>5, OutsidePreserves
<1>6. CASE UNCHANGED vars
  BY <1>6 DEF vars, registry, cache, Inv, TypeOK, Backed, InstalledWhole, ArchiveFirst, Fetched, FoundWhole, Chosen
<1> QED BY <1>1, <1>2, <1>3, <1>4, <1>5, <1>6 DEF Next

-----------------------------------------------------------------------------
\* A process of either kind is always in a state it can go on from: an
\* installer past the look-up has a build of the package to work on, a packer
\* that writes has one to publish (pack, _cached_package).
THEOREM TypeCorrect == Spec => []TypeOK
<1>1. Inv => TypeOK
  BY DEF Inv
<1> QED BY <1>1, InitInv, Inductive, PTL DEF Spec

\* What the index, the receipt and every lock name can be had: however many
\* packers race and whoever is killed, the index names the registry's archive
\* (pack), and an archive once installed stays in the cache (_cached_package).
THEOREM NamesBacked == Spec => []Backed
<1>1. Inv => Backed
  BY DEF Inv
<1> QED BY <1>1, InitInv, Inductive, PTL DEF Spec

\* Whatever the cache held before, resolve returns a whole package, unless
\* another process or damage touched it after it was compared.
THEOREM ReturnedWhole == Spec => []InstalledWhole
<1>1. Inv => InstalledWhole
  BY DEF Inv
<1> QED BY <1>1, InitInv, Inductive, PTL DEF Spec

-----------------------------------------------------------------------------
(* Resolution.  A call of resolve walks through the packages in an order    *)
(* that the world alone determines: the flags decide at most where it       *)
(* stops.  So a call with the registry of one that returned, with nothing   *)
(* edited since, walks the same way to the same end.                        *)

World == [manifest |-> manifest, local |-> local, published |-> published, fetched |-> fetched]

\* The same, where as much was fetched or more.
Wider(world, other) ==
  /\ other.manifest = world.manifest /\ other.local = world.local /\ other.published = world.published
  /\ world.fetched \subseteq other.fetched

\* How far a walk has come.
WalkOf(c) == [stack |-> c.stack, seen |-> c.seen, records |-> c.records]
WalkTop(w) == Last(w.stack)
WalkActive(w) == {w.stack[i].package.name : i \in DOMAIN w.stack}
WalkSeen(w, name) == {frame \in ToSet(w.seen) : frame.package.name = name}
WalkRest(w) == [w.stack EXCEPT ![Len(w.stack)].rest = @ \ {First(@)}]

\* What a specification leads to with the network.
Online(world, from, name, spec) ==
  IF spec.kind = "path"
  THEN LET package == world.local[spec.directory]
       IN IF package.name = name /\ spec.version \in {Absent, package.version}
          THEN Frame(package, <<"path", spec.directory>>) ELSE Absent
  ELSE LET id == <<from, name, spec.version>>
       IN IF world.published[id] # Absent THEN Frame(world.published[id], <<"registry", from>>) ELSE Absent

\* A walk enters a package, or finds that it did before; what it needs is kept.
Enters(w, child, new) ==
  \/ /\ WalkSeen(w, child.package.name) # {}
     /\ \A frame \in WalkSeen(w, child.package.name) : Identity(frame) = Identity(child)
     /\ new = [stack |-> WalkRest(w), seen |-> w.seen, records |-> w.records]
  \/ /\ WalkSeen(w, child.package.name) = {} /\ Fits(child.package)
     /\ new = [stack |-> Append(WalkRest(w), child), seen |-> Append(w.seen, child), records |-> w.records]
VisitsBy(world, from, w, name, spec, new) ==
  /\ name \notin WalkActive(w) /\ Online(world, from, name, spec) # Absent
  /\ Enters(w, Online(world, from, name, spec), new)
  /\ spec.kind # "path" => <<from, name, spec.version>> \in world.fetched
Visits(world, from, w, new) ==
  /\ WalkTop(w).rest # {}
  /\ VisitsBy(world, from, w, First(WalkTop(w).rest), WalkTop(w).package.deps[First(WalkTop(w).rest)], new)
Leaves(w, new) ==
  /\ WalkTop(w).rest = {} /\ Len(w.stack) > 1
  /\ new = [stack |-> Front(w.stack), seen |-> w.seen, records |-> Append(w.records, Record(WalkTop(w)))]
Goes(world, from, w, new) == Visits(world, from, w, new) \/ Leaves(w, new)

WalkStart(world) ==
  [stack |-> <<Frame([name |-> Root, version |-> Absent, deps |-> world.manifest, abi |-> "source", body |-> 0], Absent)>>,
   seen |-> <<>>, records |-> <<>>]
AtEnd(w) == WalkTop(w).rest = {} /\ Len(w.stack) = 1
Walked(world, from, h, n) == h[0] = WalkStart(world) /\ \A i \in 0 .. n - 1 : Goes(world, from, h[i], h[i + 1])

CallTyped ==
  call = [pc |-> call.pc, locked |-> call.locked, offline |-> call.offline, registry |-> call.registry,
          stack |-> call.stack, seen |-> call.seen, records |-> call.records]

\* The call has walked where it is.
Arrives(world, from, w) == \E n \in Nat : \E h : Walked(world, from, h, n) /\ h[n] = w
OnItsWay == call.pc = "visiting" => Arrives(World, call.registry, WalkOf(call))

\* The lock is the end of a walk, which a call with that registry is on.
LockOf(world, w) == [root |-> world.manifest, packages |-> w.records]
WayTo(world, from, written, c) ==
  \E n \in Nat : \E h : /\ Walked(world, from, h, n) /\ AtEnd(h[n]) /\ written = LockOf(world, h[n])
                        /\ c.pc = "visiting" /\ c.registry = from => \E k \in 0 .. n : h[k] = WalkOf(c)
SameWay == fresh # Absent => WayTo(World, fresh, lockFile, call)

ResolutionInv == CallTyped /\ OnItsWay /\ SameWay /\ RepeatsOffline

\* A walk stays one when more is fetched.
LEMMA GoesOn ==
  ASSUME NEW world, NEW other, Wider(world, other), NEW from, NEW w, NEW new, Goes(world, from, w, new)
  PROVE  Goes(other, from, w, new)
<1>1. \A name, spec : Online(other, from, name, spec) = Online(world, from, name, spec)
  BY DEF Online, Wider
<1>2. ASSUME NEW name, NEW spec, VisitsBy(world, from, w, name, spec, new) PROVE VisitsBy(other, from, w, name, spec, new)
  BY <1>1, <1>2 DEF VisitsBy, Wider
<1> QED BY <1>2 DEF Goes, Visits

LEMMA WalkedStill ==
  ASSUME NEW world, NEW other, Wider(world, other), NEW from, NEW n \in Nat, NEW h, Walked(world, from, h, n)
  PROVE  Walked(other, from, h, n)
<1>1. \A i \in 0 .. n - 1 : Goes(other, from, h[i], h[i + 1])
  BY GoesOn DEF Walked
<1>2. WalkStart(other) = WalkStart(world)
  BY DEF WalkStart, Wider
<1> QED BY <1>1, <1>2 DEF Walked

\* A walk is determined by the world.
LEMMA OneWay ==
  ASSUME NEW world, NEW from, NEW w, NEW new, Goes(world, from, w, new)
  PROVE  /\ ~AtEnd(w)
         /\ \A other : Goes(world, from, w, other) => other = new
<1>1. ~AtEnd(w)
  <2>1. Visits(world, from, w, new) => ~AtEnd(w)
    BY DEF Visits, AtEnd
  <2>2. Leaves(w, new) => ~AtEnd(w)
    <3>1. \A l : l = 1 => ~(l > 1)
      OBVIOUS
    <3> QED BY <3>1 DEF Leaves, AtEnd
  <2> QED BY <2>1, <2>2 DEF Goes
<1>2. ASSUME NEW other, Goes(world, from, w, other) PROVE other = new
  <2>1. \A child : Enters(w, child, new) /\ Enters(w, child, other) => other = new
    BY DEF Enters
  <2>2. Visits(world, from, w, new) /\ Visits(world, from, w, other) => other = new
    BY <2>1 DEF Visits, VisitsBy
  <2>3. Leaves(w, new) /\ Leaves(w, other) => other = new
    BY DEF Leaves
  <2>4. ~(Visits(world, from, w, new) /\ Leaves(w, other)) /\ ~(Leaves(w, new) /\ Visits(world, from, w, other))
    BY DEF Visits, Leaves
  <2> QED BY <1>2, <2>2, <2>3, <2>4 DEF Goes
<1> QED BY <1>1, <1>2

\* A walk that takes one step more.
LEMMA WalkedOn ==
  ASSUME NEW world, NEW from, NEW w, Arrives(world, from, w), NEW new, Goes(world, from, w, new)
  PROVE  Arrives(world, from, new)
<1>0. PICK n \in Nat : \E h : Walked(world, from, h, n) /\ h[n] = w
  BY DEF Arrives
<1>1. PICK h : Walked(world, from, h, n) /\ h[n] = w
  BY <1>0
<1> DEFINE g == [i \in 0 .. n + 1 |-> IF i = n + 1 THEN new ELSE h[i]]
<1>2. g[0] = h[0] /\ g[n] = h[n] /\ g[n + 1] = new
  OBVIOUS
<1>3. \A i \in 0 .. n - 1 : g[i] = h[i] /\ g[i + 1] = h[i + 1]
  OBVIOUS
<1>4. \A i \in 0 .. (n + 1) - 1 : i \in 0 .. n - 1 \/ i = n
  OBVIOUS
<1> HIDE DEF g
<1>5. \A i \in 0 .. (n + 1) - 1 : Goes(world, from, g[i], g[i + 1])
  BY <1>1, <1>2, <1>3, <1>4 DEF Walked
<1>6. Walked(world, from, g, n + 1)
  BY <1>1, <1>2, <1>5 DEF Walked
<1>7. n + 1 \in Nat
  OBVIOUS
<1> QED BY <1>2, <1>6, <1>7 DEF Arrives

\* Where a walk has come, it comes when more is fetched too.
LEMMA ArrivesStill ==
  ASSUME NEW world, NEW other, Wider(world, other), NEW from, NEW w, Arrives(world, from, w)
  PROVE  Arrives(other, from, w)
BY WalkedStill DEF Arrives

\* A call on its way to the lock goes on there, or is at its end.
LEMMA OnTheWay ==
  ASSUME NEW world, NEW from, NEW written, NEW c, WayTo(world, from, written, c), c.pc = "visiting", c.registry = from
  PROVE  /\ AtEnd(WalkOf(c)) => written = LockOf(world, WalkOf(c))
         /\ ~AtEnd(WalkOf(c)) => \E new : Goes(world, from, WalkOf(c), new)
         /\ \A d : Goes(world, from, WalkOf(c), WalkOf(d)) => WayTo(world, from, written, d)
<1>0. PICK n \in Nat : \E h : /\ Walked(world, from, h, n) /\ AtEnd(h[n]) /\ written = LockOf(world, h[n])
                              /\ \E k \in 0 .. n : h[k] = WalkOf(c)
  BY DEF WayTo
<1>1. PICK h : /\ Walked(world, from, h, n) /\ AtEnd(h[n]) /\ written = LockOf(world, h[n])
               /\ \E k \in 0 .. n : h[k] = WalkOf(c)
  BY <1>0
<1>2. PICK k \in 0 .. n : h[k] = WalkOf(c)
  BY <1>1
<1>3. k = n \/ k \in 0 .. n - 1
  OBVIOUS
<1>4. k \in 0 .. n - 1 => Goes(world, from, h[k], h[k + 1]) /\ k + 1 \in 0 .. n
  BY <1>1 DEF Walked
<1>5. AtEnd(WalkOf(c)) => written = LockOf(world, WalkOf(c))
  BY <1>1, <1>2, <1>3, <1>4, OneWay
<1>6. ~AtEnd(WalkOf(c)) => \E new : Goes(world, from, WalkOf(c), new)
  BY <1>1, <1>2, <1>3, <1>4
<1>7. ASSUME NEW d, Goes(world, from, WalkOf(c), WalkOf(d)) PROVE WayTo(world, from, written, d)
  <2>1. k \in 0 .. n - 1 /\ k + 1 \in 0 .. n /\ h[k + 1] = WalkOf(d)
    BY <1>1, <1>2, <1>3, <1>4, <1>7, OneWay
  <2> QED BY <1>1, <2>1 DEF WayTo
<1> QED BY <1>5, <1>6, <1>7

\* The lock stays the end of a walk when more is fetched, and for a call that is not on it.
LEMMA WayStill ==
  ASSUME NEW world, NEW other, Wider(world, other), NEW from, NEW written, NEW c, WayTo(world, from, written, c)
  PROVE  /\ WayTo(other, from, written, c)
         /\ \A d : ~(d.pc = "visiting" /\ d.registry = from) => WayTo(other, from, written, d)
<1>0. PICK n \in Nat : \E h : /\ Walked(world, from, h, n) /\ AtEnd(h[n]) /\ written = LockOf(world, h[n])
                              /\ c.pc = "visiting" /\ c.registry = from => \E k \in 0 .. n : h[k] = WalkOf(c)
  BY DEF WayTo
<1>1. PICK h : /\ Walked(world, from, h, n) /\ AtEnd(h[n]) /\ written = LockOf(world, h[n])
               /\ c.pc = "visiting" /\ c.registry = from => \E k \in 0 .. n : h[k] = WalkOf(c)
  BY <1>0
<1>2. Walked(other, from, h, n) /\ written = LockOf(other, h[n])
  BY <1>1, WalkedStill DEF LockOf, Wider
<1> QED BY <1>1, <1>2 DEF WayTo

\* A new call starts where the walk to the lock did.
LEMMA WayFromStart ==
  ASSUME NEW world, NEW from, NEW written, NEW c, WayTo(world, from, written, c), NEW d, WalkOf(d) = WalkStart(world)
  PROVE  WayTo(world, from, written, d)
<1>0. PICK n \in Nat : \E h : Walked(world, from, h, n) /\ AtEnd(h[n]) /\ written = LockOf(world, h[n])
  BY DEF WayTo
<1>1. PICK h : Walked(world, from, h, n) /\ AtEnd(h[n]) /\ written = LockOf(world, h[n])
  BY <1>0
<1>2. 0 \in 0 .. n /\ h[0] = WalkOf(d)
  BY <1>1 DEF Walked
<1> QED BY <1>1, <1>2 DEF WayTo

\* A visit goes on with the walk, or cannot.
LEMMA VisitGoes ==
  ASSUME CallTyped, Visit
  PROVE  /\ UNCHANGED <<manifest, local, published, lockFile, fresh>> /\ Wider(World, World')
         /\ call.pc = "visiting" /\ CallTyped' /\ call'.registry = call.registry
         /\ \/ call'.pc = "failed" /\ ~AtEnd(WalkOf(call)) /\ \A new : ~Goes(World, call.registry, WalkOf(call), new)
            \/ call'.pc = "visiting" /\ Goes(World', call.registry, WalkOf(call), WalkOf(call'))
<1> DEFINE name == First(Top.rest)
           spec == Top.package.deps[name]
           child == Child(name, spec)
           online == Online(World, call.registry, name, spec)
           id == <<call.registry, name, spec.version>>
           w == WalkOf(call)
           wide == World'
           new == WalkOf(call')
<1>1. /\ UNCHANGED <<manifest, local, published, lockFile, fresh>> /\ call.pc = "visiting" /\ Top.rest # {}
  BY DEF Visit
<1>2. IF name \in Active \/ child = Absent THEN FailCall
      ELSE Entered(child) /\ fetched' = IF spec.kind = "path" THEN fetched ELSE Kept(id)
  BY DEF Visit
<1>3. child # Absent => child = online
  BY DEF Child, Online, World
<1>4. child = Absent => online = Absent \/ (spec.kind # "path" /\ id \notin World.fetched)
  BY DEF Child, Online, World
<1>5. /\ WalkTop(w) = Top /\ WalkActive(w) = Active /\ WalkRest(w) = Rest /\ \A n : WalkSeen(w, n) = Seen(n)
      /\ w.seen = call.seen /\ w.records = call.records /\ w.stack = call.stack
  BY DEF WalkOf, WalkTop, Top, WalkActive, Active, WalkRest, Rest, WalkSeen, Seen
<1>6. /\ ~AtEnd(w)
      /\ \A world, v : Goes(world, call.registry, w, v) <=> VisitsBy(world, call.registry, w, name, spec, v)
  BY <1>1, <1>5 DEF Goes, Visits, Leaves, AtEnd
<1>7. fetched \subseteq fetched' => Wider(World, wide) /\ Online(wide, call.registry, name, spec) = online /\ wide.fetched = fetched'
  BY <1>1 DEF Wider, World, Online
<1>8. CASE name \in Active \/ child = Absent
  <2>1. call' = [call EXCEPT !.pc = "failed"] /\ fetched' = fetched
    BY <1>2, <1>8 DEF FailCall
  <2>2. \A v : ~VisitsBy(World, call.registry, w, name, spec, v)
    BY <1>4, <1>5, <1>8 DEF VisitsBy
  <2>3. CallTyped' /\ call'.registry = call.registry /\ call'.pc = "failed"
    BY <2>1 DEF CallTyped
  <2>4. Wider(World, wide)
    BY <1>7, <2>1
  <2> HIDE DEF name, spec, child, online, id, w
  <2> QED BY <1>1, <1>6, <2>2, <2>3, <2>4 DEF w
<1>9. CASE name \notin Active /\ child # Absent
  <2>1. child = online /\ Entered(online) /\ fetched' = IF spec.kind = "path" THEN fetched ELSE Kept(id)
    BY <1>2, <1>3, <1>9
  <2>2. fetched \subseteq fetched' /\ (spec.kind # "path" => id \in fetched')
    BY <2>1 DEF Kept
  <2>0. name \notin WalkActive(w) /\ online # Absent
    BY <1>5, <1>9, <2>1
  <2> HIDE DEF child, name, spec, w
  <2>3. \A v : Enters(w, online, v) => VisitsBy(wide, call.registry, w, name, spec, v)
    BY <1>7, <2>0, <2>2 DEF VisitsBy, id
  <2>4. \A v : VisitsBy(World, call.registry, w, name, spec, v) => Enters(w, online, v)
    BY DEF VisitsBy, online
  <2> HIDE DEF online, id
  <2>5. \/ call' = [call EXCEPT !.pc = "failed"] /\ \A v : ~Enters(w, online, v)
        \/ /\ call' = [call EXCEPT !.stack = Rest]
           /\ Enters(w, online, [stack |-> Rest, seen |-> call.seen, records |-> call.records])
        \/ /\ call' = [call EXCEPT !.stack = Append(Rest, online), !.seen = Append(call.seen, online)]
           /\ Enters(w, online, [stack |-> Append(Rest, online), seen |-> Append(call.seen, online), records |-> call.records])
    <3>1. CASE Seen(online.package.name) # {} /\ \A frame \in Seen(online.package.name) : Identity(frame) = Identity(online)
      BY <1>5, <2>1, <3>1 DEF Entered, Enters
    <3>2. CASE Seen(online.package.name) # {} /\ ~\A frame \in Seen(online.package.name) : Identity(frame) = Identity(online)
      BY <1>5, <2>1, <3>2 DEF Entered, Enters
    <3>3. CASE Seen(online.package.name) = {} /\ ~Fits(online.package)
      BY <1>5, <2>1, <3>3 DEF Entered, Enters
    <3>4. CASE Seen(online.package.name) = {} /\ Fits(online.package)
      BY <1>5, <2>1, <3>4 DEF Entered, Enters, CallTyped
    <3> QED BY <3>1, <3>2, <3>3, <3>4
  <2>6. \/ call' = [call EXCEPT !.pc = "failed"] /\ \A v : ~Enters(w, online, v)
        \/ \E stack, seen : /\ call' = [call EXCEPT !.stack = stack, !.seen = seen]
                            /\ Enters(w, online, [stack |-> stack, seen |-> seen, records |-> call.records])
    <3>1. [call EXCEPT !.stack = Rest] = [call EXCEPT !.stack = Rest, !.seen = call.seen]
      BY DEF CallTyped
    <3> QED BY <2>5, <3>1
  <2>7. CASE call' = [call EXCEPT !.pc = "failed"] /\ \A v : ~Enters(w, online, v)
    <3>1. CallTyped' /\ call'.registry = call.registry /\ call'.pc = "failed"
      BY <2>7 DEF CallTyped
    <3>2. \A v : ~Goes(World, call.registry, w, v)
      BY <1>6, <2>4, <2>7
    <3> QED BY <1>1, <1>6, <1>7, <2>2, <3>1, <3>2 DEF w
  <2>8. ASSUME NEW stack, NEW seen, call' = [call EXCEPT !.stack = stack, !.seen = seen],
               Enters(w, online, [stack |-> stack, seen |-> seen, records |-> call.records])
        PROVE  CallTyped' /\ call'.registry = call.registry /\ call'.pc = "visiting" /\ Enters(w, online, new)
    <3>1. /\ call'.stack = stack /\ call'.seen = seen /\ call'.records = call.records
          /\ CallTyped' /\ call'.registry = call.registry /\ call'.pc = call.pc
      BY <2>8 DEF CallTyped
    <3>2. new = [stack |-> stack, seen |-> seen, records |-> call.records]
      BY <3>1 DEF WalkOf
    <3> HIDE DEF new
    <3> QED BY <1>1, <2>8, <3>1, <3>2
  <2>9. CASE CallTyped' /\ call'.registry = call.registry /\ call'.pc = "visiting" /\ Enters(w, online, new)
    <3>1. Goes(wide, call.registry, w, new)
      BY <1>6, <2>3, <2>9
    <3> QED BY <1>1, <1>7, <2>2, <2>9, <3>1 DEF w
  <2> HIDE DEF new
  <2> QED BY <2>6, <2>7, <2>8, <2>9
<1> QED BY <1>8, <1>9

\* So does the end of a visit.
LEMMA LeaveGoes ==
  ASSUME CallTyped, Leave
  PROVE  /\ UNCHANGED <<lockFile, fresh>> /\ World' = World
         /\ call.pc = "visiting" /\ CallTyped' /\ call'.registry = call.registry /\ call'.pc = "visiting"
         /\ Goes(World, call.registry, WalkOf(call), WalkOf(call'))
<1>1. /\ UNCHANGED <<lockFile, fresh>> /\ World' = World /\ call.pc = "visiting" /\ Top.rest = {} /\ Len(call.stack) > 1
  BY DEF Leave, World
<1>2. call' = [call EXCEPT !.stack = Front(call.stack), !.records = Append(call.records, Record(Top))]
  BY DEF Leave, Closing, CallTyped
<1>3. /\ call'.stack = Front(call.stack) /\ call'.seen = call.seen /\ call'.records = Append(call.records, Record(Top))
      /\ CallTyped' /\ call'.registry = call.registry /\ call'.pc = call.pc
  BY <1>2 DEF CallTyped
<1>4. WalkTop(WalkOf(call)) = Top
  BY DEF WalkTop, WalkOf, Top
<1>5. Leaves(WalkOf(call), WalkOf(call'))
  BY <1>1, <1>3, <1>4 DEF Leaves, WalkOf
<1> QED BY <1>1, <1>3, <1>5 DEF Goes

\* No call is on its way at first, and none has returned.
LEMMA ResolutionInvInit == ResolutionInit => ResolutionInv
<1> SUFFICES ASSUME NEW world \in Worlds, ResolutionStarts(world) PROVE ResolutionInv
  BY DEF ResolutionInit
<1>1. call = NoCall /\ fresh = Absent
  BY DEF ResolutionStarts
<1>2. CallTyped /\ call.pc # "visiting"
  BY <1>1 DEF CallTyped, NoCall
<1> QED BY <1>1, <1>2 DEF ResolutionInv, OnItsWay, SameWay, RepeatsOffline

\* What a new call is.
LEMMA Begun ==
  ASSUME BeginCall
  PROVE  /\ World' = World /\ UNCHANGED <<lockFile, fresh>> /\ CallTyped'
         /\ \/ call'.pc = "failed" /\ call'.registry = Absent
            \/ call'.pc = "visiting" /\ WalkOf(call') = WalkStart(World)
<1>1. World' = World /\ UNCHANGED <<lockFile, fresh>>
  BY DEF BeginCall, World
<1>2. PICK locked \in BOOLEAN, offline \in BOOLEAN, from \in Registries :
        call' = IF locked /\ lockFile = Absent THEN [NoCall EXCEPT !.pc = "failed", !.locked = TRUE]
                ELSE [NoCall EXCEPT !.pc = "visiting", !.locked = locked, !.offline = offline,
                                    !.registry = from, !.stack = <<Frame(RootPackage, Absent)>>]
  BY DEF BeginCall
<1>3. CASE locked /\ lockFile = Absent
  <2>1. call' = [NoCall EXCEPT !.pc = "failed", !.locked = TRUE]
    BY <1>2, <1>3
  <2>2. CallTyped' /\ call'.pc = "failed" /\ call'.registry = Absent
    BY <2>1 DEF CallTyped, NoCall
  <2> QED BY <1>1, <2>2
<1>4. CASE ~(locked /\ lockFile = Absent)
  <2>1. call' = [NoCall EXCEPT !.pc = "visiting", !.locked = locked, !.offline = offline,
                               !.registry = from, !.stack = <<Frame(RootPackage, Absent)>>]
    BY <1>2, <1>4
  <2> DEFINE start == <<Frame(RootPackage, Absent)>>
  <2>2. WalkStart(World) = [stack |-> start, seen |-> <<>>, records |-> <<>>]
    BY DEF WalkStart, RootPackage, World
  <2> HIDE DEF start
  <2>3. /\ CallTyped' /\ call'.pc = "visiting"
        /\ call'.stack = start /\ call'.seen = <<>> /\ call'.records = <<>>
    BY <2>1 DEF CallTyped, NoCall, start
  <2> QED BY <1>1, <2>2, <2>3 DEF WalkOf
<1> QED BY <1>3, <1>4

\* What the end of a call does.
LEMMA Finished ==
  ASSUME CallTyped, Finish
  PROVE  /\ World' = World /\ call.pc = "visiting" /\ CallTyped'
         /\ call'.registry = call.registry /\ AtEnd(WalkOf(call))
         /\ \/ /\ call'.pc = "returned"
               /\ lockFile' = LockOf(World, WalkOf(call)) /\ fresh' = call.registry
            \/ /\ call'.pc = "failed" /\ UNCHANGED <<lockFile, fresh>>
               /\ lockFile # LockOf(World, WalkOf(call))
<1> DEFINE lock0 == [root |-> manifest, packages |-> call.records]
<1>1. World' = World /\ call.pc = "visiting" /\ Top.rest = {} /\ Len(call.stack) = 1
  BY DEF Finish, World
<1>2. IF Accepts(lock0)
      THEN call' = [call EXCEPT !.pc = "returned"] /\ lockFile' = lock0 /\ fresh' = call.registry
      ELSE call' = [call EXCEPT !.pc = "failed"] /\ UNCHANGED <<lockFile, fresh>>
  BY DEF Finish
<1>3. LockOf(World, WalkOf(call)) = lock0
  BY DEF LockOf, World, WalkOf
<1>4. AtEnd(WalkOf(call))
  BY <1>1 DEF AtEnd, WalkOf, WalkTop, Top
<1> HIDE DEF lock0
<1>5. CASE Accepts(lock0)
  <2>1. call' = [call EXCEPT !.pc = "returned"] /\ lockFile' = lock0 /\ fresh' = call.registry
    BY <1>2, <1>5
  <2>2. CallTyped' /\ call'.pc = "returned" /\ call'.registry = call.registry
    BY <2>1 DEF CallTyped
  <2> QED BY <1>1, <1>3, <1>4, <2>1, <2>2
<1>6. CASE ~Accepts(lock0)
  <2>1. call' = [call EXCEPT !.pc = "failed"] /\ UNCHANGED <<lockFile, fresh>>
    BY <1>2, <1>6
  <2>2. CallTyped' /\ call'.pc = "failed" /\ call'.registry = call.registry
    BY <2>1 DEF CallTyped
  <2>3. lockFile # lock0
    BY <1>6 DEF Accepts
  <2> QED BY <1>1, <1>3, <1>4, <2>1, <2>2, <2>3
<1> QED BY <1>5, <1>6

\* A call goes on with its walk, and the user's edits end what holds of the last one.
LEMMA ResolutionInvStep == ResolutionInv /\ [ResolutionNext]_resolutionVars => ResolutionInv'
<1> SUFFICES ASSUME ResolutionInv, [ResolutionNext]_resolutionVars PROVE ResolutionInv'
  OBVIOUS
<1> USE DEF ResolutionInv
<1>1. CASE BeginCall
  <2>1. /\ World' = World /\ UNCHANGED <<lockFile, fresh>> /\ CallTyped'
        /\ \/ call'.pc = "failed" /\ call'.registry = Absent
           \/ call'.pc = "visiting" /\ WalkOf(call') = WalkStart(World)
    BY <1>1, Begun
  <2>2. OnItsWay'
    <3>1. ASSUME call'.pc = "visiting" PROVE Arrives(World, call'.registry, WalkOf(call'))
      <4> DEFINE h == [i \in {0} |-> WalkStart(World)]
      <4>1. h[0] = WalkOf(call') /\ h[0] = WalkStart(World)
        BY <2>1, <3>1
      <4> HIDE DEF h
      <4>2. \A i \in 0 .. 0 - 1 : FALSE
        OBVIOUS
      <4>3. Walked(World, call'.registry, h, 0)
        BY <4>1, <4>2 DEF Walked
      <4> QED BY <4>1, <4>3 DEF Arrives
    <3> QED BY <2>1, <3>1 DEF OnItsWay
  <2>3. SameWay'
    <3>1. Wider(World, World)
      BY DEF Wider
    <3>2. fresh # Absent => WayTo(World, fresh, lockFile, call')
      BY <2>1, <3>1, WayFromStart, WayStill DEF SameWay
    <3> QED BY <2>1, <3>2 DEF SameWay
  <2>4. RepeatsOffline'
    BY <2>1 DEF RepeatsOffline
  <2> QED BY <2>1, <2>2, <2>3, <2>4
<1>2. CASE Visit
  <2>1. /\ UNCHANGED <<manifest, local, published, lockFile, fresh>> /\ Wider(World, World')
        /\ call.pc = "visiting" /\ CallTyped' /\ call'.registry = call.registry
        /\ \/ call'.pc = "failed" /\ ~AtEnd(WalkOf(call)) /\ \A new : ~Goes(World, call.registry, WalkOf(call), new)
           \/ call'.pc = "visiting" /\ Goes(World', call.registry, WalkOf(call), WalkOf(call'))
    BY <1>2, VisitGoes
  <2>2. OnItsWay'
    <3>1. Arrives(World', call.registry, WalkOf(call))
      BY <2>1, ArrivesStill DEF OnItsWay
    <3>2. call'.pc = "visiting" => Arrives(World', call.registry, WalkOf(call'))
      BY <2>1, <3>1, WalkedOn
    <3> QED BY <2>1, <3>2 DEF OnItsWay
  <2>3. SameWay'
    <3>1. ASSUME fresh # Absent PROVE WayTo(World', fresh, lockFile, call')
      <4>1. WayTo(World', fresh, lockFile, call)
        BY <2>1, <3>1, WayStill DEF SameWay
      <4>2. CASE call'.pc = "visiting" /\ call.registry = fresh
        BY <2>1, <4>1, <4>2, OnTheWay
      <4>3. CASE ~(call'.pc = "visiting" /\ call.registry = fresh)
        <5>1. ~(call'.pc = "visiting" /\ call'.registry = fresh)
          BY <2>1, <4>3
        <5>2. WayTo(World, fresh, lockFile, call)
          BY <3>1 DEF SameWay
        <5> QED BY <2>1, <5>1, <5>2, WayStill
      <4> QED BY <4>2, <4>3
    <3> QED BY <2>1, <3>1 DEF SameWay
  <2>4. RepeatsOffline'
    <3>1. ASSUME fresh # Absent, call.registry = fresh, call'.pc = "failed" PROVE FALSE
      <4>1. WayTo(World, fresh, lockFile, call)
        BY <3>1 DEF SameWay
      <4>2. \E new : Goes(World, call.registry, WalkOf(call), new)
        BY <2>1, <3>1, <4>1, OnTheWay
      <4> QED BY <2>1, <3>1, <4>2
    <3> QED BY <2>1, <3>1 DEF RepeatsOffline
  <2> QED BY <2>1, <2>2, <2>3, <2>4
<1>3. CASE Leave
  <2>1. /\ UNCHANGED <<lockFile, fresh>> /\ World' = World
        /\ call.pc = "visiting" /\ CallTyped' /\ call'.registry = call.registry /\ call'.pc = "visiting"
        /\ Goes(World, call.registry, WalkOf(call), WalkOf(call'))
    BY <1>3, LeaveGoes
  <2>2. OnItsWay'
    <3>1. Arrives(World, call.registry, WalkOf(call'))
      BY <2>1, WalkedOn DEF OnItsWay
    <3> QED BY <2>1, <3>1 DEF OnItsWay
  <2>3. SameWay'
    <3>1. ASSUME fresh # Absent PROVE WayTo(World, fresh, lockFile, call')
      <4>1. WayTo(World, fresh, lockFile, call) /\ Wider(World, World)
        BY <3>1 DEF SameWay, Wider
      <4>2. CASE call.registry = fresh
        BY <2>1, <4>1, <4>2, OnTheWay
      <4>3. CASE call.registry # fresh
        BY <2>1, <4>1, <4>3, WayStill
      <4> QED BY <4>2, <4>3
    <3> QED BY <2>1, <3>1 DEF SameWay
  <2>4. RepeatsOffline'
    BY <2>1 DEF RepeatsOffline
  <2> QED BY <2>1, <2>2, <2>3, <2>4
<1>4. CASE Finish
  <2>1. /\ World' = World /\ call.pc = "visiting" /\ CallTyped'
        /\ call'.registry = call.registry /\ AtEnd(WalkOf(call))
        /\ \/ /\ call'.pc = "returned"
              /\ lockFile' = LockOf(World, WalkOf(call)) /\ fresh' = call.registry
           \/ /\ call'.pc = "failed" /\ UNCHANGED <<lockFile, fresh>>
              /\ lockFile # LockOf(World, WalkOf(call))
    BY <1>4, Finished
  <2>2. OnItsWay'
    BY <2>1 DEF OnItsWay
  <2>3. SameWay' /\ RepeatsOffline'
    <3>1. CASE call'.pc = "returned" /\ lockFile' = LockOf(World, WalkOf(call)) /\ fresh' = call.registry
      <4>1. PICK n \in Nat : \E h : Walked(World, call.registry, h, n) /\ h[n] = WalkOf(call)
        BY <2>1 DEF OnItsWay, Arrives
      <4>2. PICK h : Walked(World, call.registry, h, n) /\ h[n] = WalkOf(call)
        BY <4>1
      <4>3. WayTo(World, call.registry, LockOf(World, WalkOf(call)), call')
        BY <2>1, <3>1, <4>2 DEF WayTo
      <4>4. SameWay'
        BY <2>1, <3>1, <4>3 DEF SameWay
      <4> QED BY <3>1, <4>4 DEF RepeatsOffline
    <3>2. CASE call'.pc = "failed" /\ UNCHANGED <<lockFile, fresh>> /\ lockFile # LockOf(World, WalkOf(call))
      <4>1. ASSUME fresh # Absent PROVE WayTo(World, fresh, lockFile, call) /\ Wider(World, World)
        BY <4>1 DEF SameWay, Wider
      <4>2. fresh # Absent => WayTo(World, fresh, lockFile, call')
        BY <3>2, <4>1, WayStill
      <4>3. ~(fresh # Absent /\ call.registry = fresh)
        BY <2>1, <3>2, <4>1, OnTheWay
      <4> QED BY <2>1, <3>2, <4>2, <4>3 DEF SameWay, RepeatsOffline
    <3> QED BY <2>1, <3>1, <3>2
  <2> QED BY <2>1, <2>2, <2>3
<1>5. CASE Change
  <2>1. call' = NoCall /\ fresh' = Absent
    BY <1>5 DEF Change
  <2>2. CallTyped' /\ call'.pc # "visiting"
    BY <2>1 DEF CallTyped, NoCall
  <2> QED BY <2>1, <2>2 DEF OnItsWay, SameWay, RepeatsOffline
<1>6. CASE UNCHANGED resolutionVars
  <2>1. World' = World /\ UNCHANGED <<lockFile, fresh, call>>
    BY <1>6 DEF resolutionVars, World
  <2> QED BY <2>1 DEF CallTyped, OnItsWay, SameWay, RepeatsOffline
<1> QED BY <1>1, <1>2, <1>3, <1>4, <1>5, <1>6 DEF ResolutionNext, Resolve, EditManifest, EditDirectory, Move

\* Once installed, a project can be installed again without the network and
\* from its lock, as long as nothing was edited, whatever packages there are
\* and however they depend on each other (scrate.py:484-522, QUICKSTART.md:60).
THEOREM RepeatsWithoutNetwork == ResolutionSpec => []RepeatsOffline
<1>1. ResolutionInv => RepeatsOffline
  BY DEF ResolutionInv
<1> QED BY ResolutionInvInit, ResolutionInvStep, <1>1, PTL DEF ResolutionSpec

-----------------------------------------------------------------------------
(* What can be found, for a call: the graph its visits go through.          *)
Net == [local |-> local, published |-> published, from |-> call.registry, offline |-> call.offline,
        fetched |-> IF call.offline THEN fetched ELSE {}]

Found(net, name, spec) ==
  IF spec.kind = "path"
  THEN LET package == net.local[spec.directory]
       IN IF package.name = name /\ spec.version \in {Absent, package.version}
          THEN Frame(package, <<"path", spec.directory>>) ELSE Absent
  ELSE LET id == <<net.from, name, spec.version>>
       IN IF net.published[id] # Absent /\ (net.offline => id \in net.fetched)
          THEN Frame(net.published[id], <<"registry", net.from>>) ELSE Absent

NetOK(net) ==
  net.from \in Registries /\ Indexed(net.published) /\ \A d \in Directories : Declared(net.local[d].deps)

Whole(frame) == Frame(frame.package, frame.source)
Start(deps) == Frame([name |-> Root, version |-> Absent, deps |-> deps, abi |-> "source", body |-> 0], Absent)
Kids(net, frame) == {Found(net, link[1], link[2]) : link \in Links(frame)} \ {Absent}

\* Every package that can be found, once for each place it can be found at.
AtPlaces(net) == {Frame(net.local[d], <<"path", d>>) : d \in Directories}
Pairs(net) == {pair \in Names \X Versions : net.published[<<net.from, pair[1], pair[2]>>] # Absent}
AtVersions(net) == {Frame(net.published[<<net.from, pair[1], pair[2]>>], <<"registry", net.from>>) : pair \in Pairs(net)}
Founds(net) == AtPlaces(net) \cup AtVersions(net)

Closed(net, T) == \A frame \in T : Kids(net, frame) \subseteq T
Under(net, frame) ==
  {g \in Founds(net) : \A T \in SUBSET Founds(net) : Kids(net, frame) \subseteq T /\ Closed(net, T) => g \in T}

LEMMA FoundsFacts ==
  ASSUME NEW net, NetOK(net), NEW f \in Founds(net)
  PROVE  /\ Declared(f.package.deps) /\ Whole(f) = f /\ f.rest = DOMAIN f.package.deps
         /\ \/ \E d \in Directories : f.package = net.local[d] /\ f.source = <<"path", d>>
            \/ \E pair \in Pairs(net) : /\ f.package = net.published[<<net.from, pair[1], pair[2]>>] /\ f.source = <<"registry", net.from>>
                                        /\ f.package.name = pair[1] /\ f.package.version = pair[2]
<1>1. ASSUME NEW d \in Directories, f = Frame(net.local[d], <<"path", d>>)
      PROVE  /\ Declared(f.package.deps) /\ Whole(f) = f /\ f.rest = DOMAIN f.package.deps
             /\ f.package = net.local[d] /\ f.source = <<"path", d>>
  BY <1>1 DEF NetOK, Whole, Frame
<1>2. ASSUME NEW pair \in Pairs(net), f = Frame(net.published[<<net.from, pair[1], pair[2]>>], <<"registry", net.from>>)
      PROVE  /\ Declared(f.package.deps) /\ Whole(f) = f /\ f.rest = DOMAIN f.package.deps
             /\ f.package = net.published[<<net.from, pair[1], pair[2]>>] /\ f.source = <<"registry", net.from>>
             /\ f.package.name = pair[1] /\ f.package.version = pair[2]
  <2> DEFINE id == <<net.from, pair[1], pair[2]>>
  <2>1. id \in Ids /\ id[2] = pair[1] /\ id[3] = pair[2] /\ net.published[id] # Absent
    BY DEF Ids, Pairs, NetOK
  <2> HIDE DEF id
  <2>2. Declared(net.published[id].deps) /\ net.published[id].name = pair[1] /\ net.published[id].version = pair[2]
    BY <2>1 DEF NetOK, Indexed
  <2>3. f.package = net.published[id] /\ f.source = <<"registry", net.from>> /\ Whole(f) = f /\ f.rest = DOMAIN f.package.deps
    BY <1>2 DEF Whole, Frame, id
  <2> QED BY <2>2, <2>3 DEF id
<1>3. \/ \E d \in Directories : f = Frame(net.local[d], <<"path", d>>)
      \/ \E pair \in Pairs(net) : f = Frame(net.published[<<net.from, pair[1], pair[2]>>], <<"registry", net.from>>)
  BY DEF Founds, AtPlaces, AtVersions
<1> QED BY <1>1, <1>2, <1>3

\* A name in one version from one source is one package.
LEMMA FoundsOnce ==
  ASSUME NEW net, NetOK(net), NEW f \in Founds(net), NEW g \in Founds(net),
         f.package.name = g.package.name, Identity(f) = Identity(g)
  PROVE  f = g
<1>1. f.source = g.source /\ f.package.version = g.package.version
  BY DEF Identity
<1>2. f = Whole(f) /\ g = Whole(g)
  BY FoundsFacts
<1>3. f.package = g.package
  <2>1. \A d, e : <<"path", d>> = <<"path", e>> => d = e
    OBVIOUS
  <2>2. \A d : <<"path", d>> # <<"registry", net.from>>
    OBVIOUS
  <2>3. \A pair \in Pairs(net) : pair = <<pair[1], pair[2]>>
    BY DEF Pairs
  <2>4. ASSUME NEW d \in Directories, f.package = net.local[d], f.source = <<"path", d>> PROVE f.package = g.package
    <3>1. \A pair \in Pairs(net) : g.source # <<"registry", net.from>>
      BY <1>1, <2>2, <2>4
    <3>2. PICK e \in Directories : g.package = net.local[e] /\ g.source = <<"path", e>>
      BY <3>1, FoundsFacts
    <3>3. d = e
      BY <1>1, <2>1, <2>4, <3>2
    <3> QED BY <2>4, <3>2, <3>3
  <2>5. ASSUME NEW p \in Pairs(net), f.package = net.published[<<net.from, p[1], p[2]>>], f.source = <<"registry", net.from>>,
               f.package.name = p[1], f.package.version = p[2]
        PROVE  f.package = g.package
    <3>1. \A d \in Directories : g.source # <<"path", d>>
      BY <1>1, <2>2, <2>5
    <3>2. PICK q \in Pairs(net) : /\ g.package = net.published[<<net.from, q[1], q[2]>>]
                                  /\ g.package.name = q[1] /\ g.package.version = q[2]
      BY <3>1, FoundsFacts
    <3>3. p[1] = q[1] /\ p[2] = q[2]
      BY <1>1, <2>5, <3>2
    <3> QED BY <2>5, <3>2, <3>3
  <2> QED BY <2>4, <2>5, FoundsFacts
<1> QED BY <1>1, <1>2, <1>3 DEF Whole

\* What a declared dependency leads to has its name.
LEMMA FoundFacts ==
  ASSUME NEW net, NetOK(net), NEW deps, Declared(deps), NEW name \in DOMAIN deps, Found(net, name, deps[name]) # Absent
  PROVE  Found(net, name, deps[name]) \in Founds(net) /\ Found(net, name, deps[name]).package.name = name
<1> DEFINE spec == deps[name]
           c == Found(net, name, spec)
<1>1. CASE spec.kind = "path"
  <2>1. spec.directory \in Directories
    BY <1>1 DEF Declared
  <2>2. c = Frame(net.local[spec.directory], <<"path", spec.directory>>) /\ net.local[spec.directory].name = name
    BY <1>1 DEF Found
  <2>3. c \in Founds(net)
    BY <2>1, <2>2 DEF Founds, AtPlaces
  <2> QED BY <2>2, <2>3 DEF Frame
<1>2. CASE spec.kind # "path"
  <2> DEFINE pair == <<name, spec.version>>
             id == <<net.from, name, spec.version>>
  <2>1. spec.version \in Versions /\ name \in Names
    BY <1>2 DEF Declared
  <2>2. c = Frame(net.published[id], <<"registry", net.from>>) /\ net.published[id] # Absent
    BY <1>2 DEF Found
  <2>3. pair \in Pairs(net) /\ id = <<net.from, pair[1], pair[2]>>
    BY <2>1, <2>2 DEF Pairs
  <2>4. c \in Founds(net)
    <3> HIDE DEF pair, id, spec
    <3> QED BY <2>2, <2>3 DEF Founds, AtVersions
  <2>5. net.published[id].name = name
    <3>1. id \in Ids /\ id[2] = name
      BY <2>1 DEF Ids, NetOK
    <3> QED BY <2>2, <3>1 DEF NetOK, Indexed
  <2> QED BY <2>2, <2>4, <2>5 DEF Frame
<1> QED BY <1>1, <1>2

LEMMA KidsFound ==
  ASSUME NEW net, NetOK(net), NEW f, Declared(f.package.deps)
  PROVE  /\ Kids(net, f) \subseteq Founds(net)
         /\ \A c : c \in Kids(net, f) <=> \E name \in DOMAIN f.package.deps : c = Found(net, name, f.package.deps[name]) /\ c # Absent
<1>1. \A c : c \in Kids(net, f) <=> \E name \in DOMAIN f.package.deps : c = Found(net, name, f.package.deps[name]) /\ c # Absent
  <2>1. \A name : <<name, f.package.deps[name]>>[1] = name /\ <<name, f.package.deps[name]>>[2] = f.package.deps[name]
    OBVIOUS
  <2>2. \A c : c \in Kids(net, f) <=> c # Absent /\ \E link \in Links(f) : c = Found(net, link[1], link[2])
    BY DEF Kids
  <2>3. \A name \in DOMAIN f.package.deps : <<name, f.package.deps[name]>> \in Links(f)
    BY DEF Links
  <2>4. \A link \in Links(f) : \E name \in DOMAIN f.package.deps : link = <<name, f.package.deps[name]>>
    BY DEF Links
  <2>5. ASSUME NEW c, NEW name \in DOMAIN f.package.deps, c = Found(net, name, f.package.deps[name]), c # Absent
        PROVE  c \in Kids(net, f)
    BY <2>1, <2>2, <2>3, <2>5
  <2>6. ASSUME NEW c \in Kids(net, f)
        PROVE  \E name \in DOMAIN f.package.deps : c = Found(net, name, f.package.deps[name]) /\ c # Absent
    <3>1. PICK link \in Links(f) : c = Found(net, link[1], link[2]) /\ c # Absent
      BY <2>2
    <3>2. PICK name \in DOMAIN f.package.deps : link = <<name, f.package.deps[name]>>
      BY <2>4
    <3>3. link[1] = name /\ link[2] = f.package.deps[name]
      BY <2>1, <3>2
    <3> QED BY <3>1, <3>3
  <2> QED BY <2>5, <2>6
<1> QED BY <1>1, FoundFacts

\* The packages found are at most as many as the rounds.
LEMMA FoundsFew ==
  ASSUME NEW net
  PROVE  IsFiniteSet(Founds(net)) /\ Cardinality(Founds(net)) <= Rounds /\ Rounds \in Nat
<1>1. IsFiniteSet(Names)
  <2>1. Order \in Seq(Names) /\ Names = {Order[i] : i \in DOMAIN Order}
    BY ResolutionAssumption DEF Names, ToSet
  <2>2. Len(Order) \in Nat /\ DOMAIN Order = 1 .. Len(Order)
    BY <2>1
  <2>3. IsFiniteSet(1 .. Len(Order))
    BY <2>2, FS_Interval
  <2> DEFINE f == [i \in 1 .. Len(Order) |-> Order[i]]
  <2>4. f \in Surjection(1 .. Len(Order), Names)
    BY <2>1, <2>2 DEF Surjection
  <2> HIDE DEF f
  <2> QED BY <2>3, <2>4, FS_Surjection
<1>2. IsFiniteSet(Names \X Versions) /\ Cardinality(Names \X Versions) \in Nat
  BY <1>1, ResolutionAssumption, FS_Product, FS_CardinalityType
<1>3. IsFiniteSet(Pairs(net)) /\ Cardinality(Pairs(net)) <= Cardinality(Names \X Versions) /\ Cardinality(Pairs(net)) \in Nat
  <2>1. Pairs(net) \in SUBSET (Names \X Versions)
    BY DEF Pairs
  <2> QED BY <1>2, <2>1, FS_Subset, FS_CardinalityType
<1>4. IsFiniteSet(AtVersions(net)) /\ Cardinality(AtVersions(net)) <= Cardinality(Pairs(net)) /\ Cardinality(AtVersions(net)) \in Nat
  <2> DEFINE f == [pair \in Pairs(net) |-> Frame(net.published[<<net.from, pair[1], pair[2]>>], <<"registry", net.from>>)]
  <2>1. f \in Surjection(Pairs(net), AtVersions(net))
    BY DEF Surjection, AtVersions
  <2> HIDE DEF f
  <2> QED BY <1>3, <2>1, FS_Surjection, FS_CardinalityType
<1>5. IsFiniteSet(AtPlaces(net)) /\ Cardinality(AtPlaces(net)) <= Cardinality(Directories) /\ Cardinality(AtPlaces(net)) \in Nat
      /\ Cardinality(Directories) \in Nat
  <2> DEFINE f == [d \in Directories |-> Frame(net.local[d], <<"path", d>>)]
  <2>1. f \in Surjection(Directories, AtPlaces(net))
    BY DEF Surjection, AtPlaces
  <2>2. IsFiniteSet(Directories)
    BY ResolutionAssumption
  <2> HIDE DEF f
  <2> QED BY <2>1, <2>2, FS_Surjection, FS_CardinalityType
<1>6. /\ IsFiniteSet(Founds(net))
      /\ Cardinality(Founds(net)) = Cardinality(AtPlaces(net)) + Cardinality(AtVersions(net)) - Cardinality(AtPlaces(net) \cap AtVersions(net))
      /\ Cardinality(AtPlaces(net) \cap AtVersions(net)) \in Nat
  BY <1>4, <1>5, FS_Union, FS_Intersection, FS_CardinalityType DEF Founds
<1> QED BY <1>2, <1>3, <1>4, <1>5, <1>6 DEF Rounds

\* Under a package is the least set that has its dependencies and theirs.
LEMMA UnderFacts ==
  ASSUME NEW net, NetOK(net), NEW f, Declared(f.package.deps)
  PROVE  /\ Kids(net, f) \subseteq Under(net, f) /\ Under(net, f) \subseteq Founds(net) /\ Closed(net, Under(net, f))
         /\ \A T \in SUBSET Founds(net) : Kids(net, f) \subseteq T /\ Closed(net, T) => Under(net, f) \subseteq T
<1>1. Kids(net, f) \subseteq Under(net, f) /\ Under(net, f) \subseteq Founds(net)
  BY KidsFound DEF Under
<1>2. ASSUME NEW g \in Under(net, f), NEW k \in Kids(net, g) PROVE k \in Under(net, f)
  <2>1. g \in Founds(net)
    BY <1>1
  <2>2. k \in Founds(net)
    BY <2>1, FoundsFacts, KidsFound
  <2>3. ASSUME NEW T \in SUBSET Founds(net), Kids(net, f) \subseteq T, Closed(net, T) PROVE k \in T
    <3>1. g \in T
      BY <2>3 DEF Under
    <3> QED BY <2>3, <3>1 DEF Closed
  <2> QED BY <2>2, <2>3 DEF Under
<1>3. Closed(net, Under(net, f))
  BY <1>2 DEF Closed
<1> QED BY <1>1, <1>3 DEF Under

\* Rounds of going on from what was found, as many as there can be packages, find all.
Grow(net, T) == UNION {{g} \cup Kids(net, g) : g \in T}

LEMMA GrowFacts ==
  ASSUME NEW net, NetOK(net), NEW T \in SUBSET Founds(net)
  PROVE  /\ Grow(net, T) \in SUBSET Founds(net) /\ T \subseteq Grow(net, T)
         /\ Closed(net, T) => Grow(net, T) = T
         /\ ~Closed(net, T) => Cardinality(Grow(net, T)) >= Cardinality(T) + 1
         /\ \A U : T \subseteq U /\ Closed(net, U) => Grow(net, T) \subseteq U
         /\ Cardinality(T) \in Nat /\ Cardinality(Grow(net, T)) \in Nat
<1> DEFINE W == Grow(net, T)
<1>1. \A x : x \in W <=> \E g \in T : x = g \/ x \in Kids(net, g)
  BY DEF Grow
<1>2. W \in SUBSET Founds(net) /\ T \subseteq W
  BY <1>1, FoundsFacts, KidsFound
<1>3. Closed(net, T) => W = T
  BY <1>1 DEF Closed
<1>4. \A U : T \subseteq U /\ Closed(net, U) => W \subseteq U
  BY <1>1 DEF Closed
<1>5. IsFiniteSet(W) /\ IsFiniteSet(T) /\ Cardinality(T) \in Nat /\ Cardinality(W) \in Nat
  BY <1>2, FoundsFew, FS_Subset, FS_CardinalityType
<1>6. ASSUME ~Closed(net, T) PROVE Cardinality(W) >= Cardinality(T) + 1
  <2>1. W # T
    BY <1>1, <1>6 DEF Closed
  <2> HIDE DEF W
  <2>2. Cardinality(T) <= Cardinality(W) /\ Cardinality(T) # Cardinality(W)
    BY <1>2, <1>5, <2>1, FS_Subset
  <2> QED BY <1>5, <2>2
<1> QED BY <1>2, <1>3, <1>4, <1>5, <1>6

LEMMA RoundsReach ==
  ASSUME NEW net, NetOK(net), NEW f, Declared(f.package.deps), NEW a,
         a[0] = Kids(net, f), \A k \in 1 .. Rounds : a[k] = Grow(net, a[k - 1])
  PROVE  a[Rounds] = Under(net, f)
<1> DEFINE F == Founds(net)
           U == Under(net, f)
           T == {k \in 0 .. Rounds : a[k] \in SUBSET F /\ a[0] \subseteq a[k] /\ a[k] \subseteq U
                                     /\ (Closed(net, a[k]) \/ Cardinality(a[k]) >= k)}
<1>0. Rounds \in Nat /\ IsFiniteSet(F) /\ Cardinality(F) <= Rounds
  BY FoundsFew
<1>1. /\ Kids(net, f) \subseteq U /\ U \subseteq F /\ Closed(net, U)
      /\ \A V \in SUBSET F : Kids(net, f) \subseteq V /\ Closed(net, V) => U \subseteq V
  BY UnderFacts
<1> HIDE DEF F, U
<1>2. 0 \in T
  <2>1. a[0] \in SUBSET F
    BY <1>1
  <2>2. Cardinality(a[0]) >= 0
    BY <2>1, GrowFacts DEF F
  <2> QED BY <1>0, <1>1, <2>1, <2>2
<1>3. ASSUME NEW k \in 1 .. Rounds, k - 1 \in T PROVE k \in T
  <2> DEFINE b == a[k - 1]
             c == a[k]
  <2>1. c = Grow(net, b) /\ k \in 0 .. Rounds
    BY <1>0
  <2>2. b \in SUBSET F /\ a[0] \subseteq b /\ b \subseteq U /\ (Closed(net, b) \/ Cardinality(b) >= k - 1)
    BY <1>3
  <2> HIDE DEF b, c
  <2>3. /\ c \in SUBSET F /\ b \subseteq c /\ c \subseteq U /\ (Closed(net, b) => c = b)
        /\ (~Closed(net, b) => Cardinality(c) >= Cardinality(b) + 1)
        /\ Cardinality(b) \in Nat /\ Cardinality(c) \in Nat
    BY <1>1, <2>1, <2>2, GrowFacts DEF F
  <2>4. Closed(net, c) \/ Cardinality(c) >= k
    BY <2>2, <2>3
  <2>5. a[0] \subseteq c
    BY <2>2, <2>3
  <2> QED BY <2>1, <2>3, <2>4, <2>5 DEF c
<1>4. Rounds \in T
  <2> HIDE DEF T
  <2>1. \A k \in 0 .. Rounds : k \in T
    BY <1>0, <1>2, <1>3, CountedInduction
  <2> QED BY <1>0, <2>1
<1> DEFINE z == a[Rounds]
<1>5. z \in SUBSET F /\ Kids(net, f) \subseteq z /\ z \subseteq U /\ (Closed(net, z) \/ Cardinality(z) >= Rounds)
  BY <1>4
<1> HIDE DEF z, T
<1>6. Closed(net, z)
  <2>1. ASSUME Cardinality(z) >= Rounds PROVE z = F
    <3>1. Cardinality(z) <= Cardinality(F) /\ Cardinality(z) \in Nat /\ Cardinality(F) \in Nat
      BY <1>0, <1>5, FS_Subset, FS_CardinalityType
    <3>2. Cardinality(z) = Cardinality(F)
      BY <1>0, <2>1, <3>1
    <3> QED BY <1>0, <1>5, <3>2, FS_Subset
  <2>2. Closed(net, F)
    BY FoundsFacts, KidsFound DEF Closed, F
  <2> QED BY <1>5, <2>1, <2>2
<1>7. z = U
  BY <1>1, <1>5, <1>6
<1> QED BY <1>7 DEF z, U

LEMMA ChildrenAre ==
  ASSUME NEW f
  PROVE  Children(f) = Kids(Net, f)
<1>1. \A name, spec : Child(name, spec) = Found(Net, name, spec)
  BY DEF Child, Found, Net
<1> QED BY <1>1 DEF Children, Kids

LEMMA AllBelowIs ==
  ASSUME NetOK(Net), NEW f, Declared(f.package.deps)
  PROVE  AllBelow(f) = Under(Net, f)
<1> DEFINE N == Rounds
           net == Net
           S == SUBSET Founds(net)
           G == [v \in 1 .. N |-> [T \in S |-> Grow(net, T)]]
           After(fn) == [n \in 0 .. N |-> IF n = 0 THEN Kids(net, f) ELSE Grow(net, fn[n - 1])]
           After0(fn) == [n \in 0 .. Rounds |-> IF n = 0 THEN Children(f) ELSE UNION {{g} \cup Children(g) : g \in fn[n - 1]}]
           a == CHOOSE fn : fn = After0(fn)
<1>0. N \in Nat
  BY FoundsFew
<1>1. AllBelow(f) = a[N]
  BY DEF AllBelow
<1>2. ASSUME NEW fn PROVE After0(fn) = After(fn)
  <2>1. Children(f) = Kids(net, f) /\ \A T : UNION {{g} \cup Children(g) : g \in T} = Grow(net, T)
    BY ChildrenAre DEF Grow
  <2> HIDE DEF net
  <2> QED BY <2>1
<1>3. Kids(net, f) \in S
  BY KidsFound
<1>4. G \in [1 .. N -> [S -> S]]
  <2>1. \A T \in S : Grow(net, T) \in S
    BY GrowFacts
  <2> HIDE DEF S, N, net
  <2> QED BY <2>1
<1>5. PICK g \in [0 .. N -> S] : SolvesCounted(g, N, Kids(net, f), G)
  <2>1. Counted(N, S, Kids(net, f), G)
    <3> HIDE DEF S, G, N, net
    <3> QED BY <1>0, <1>3, <1>4 DEF Counted
  <2> DEFINE s0 == Kids(net, f)
  <2> HIDE DEF S, G, N, net, s0
  <2> QED BY <2>1, CountedSolved DEF s0
<1>6. g = After(g)
  <2>1. ASSUME NEW v \in 0 .. N PROVE g[v] = After(g)[v]
    <3>1. v # 0 => v \in 1 .. N /\ v - 1 \in 0 .. N
      BY <1>0
    <3>2. v # 0 => G[v][g[v - 1]] = Grow(net, g[v - 1])
      <4> HIDE DEF S, N, net
      <4> QED BY <3>1
    <3>3. g[v] = IF v = 0 THEN Kids(net, f) ELSE G[v][g[v - 1]]
      <4> HIDE DEF S, G, N, net
      <4> QED BY <1>5 DEF SolvesCounted
    <3> HIDE DEF S, G, N, net
    <3> QED BY <3>2, <3>3
  <2>2. g = [v \in 0 .. N |-> g[v]]
    <3> HIDE DEF S, G, N, net
    <3> QED OBVIOUS
  <2>3. After(g) = [v \in 0 .. N |-> After(g)[v]]
    <3> HIDE DEF S, G, N, net
    <3> QED OBVIOUS
  <2> HIDE DEF S, G, N, net, After
  <2> QED BY <2>1, <2>2, <2>3
<1>7. a = After(a)
  <2> HIDE DEF S, G, N, net, After, After0
  <2>1. g = After0(g)
    BY <1>6, <1>2
  <2>2. a = After0(a)
    BY <2>1
  <2> QED BY <1>2, <2>2
<1>8. a[0] = Kids(net, f) /\ \A k \in 1 .. N : a[k] = Grow(net, a[k - 1])
  <2> HIDE DEF a, N, net
  <2>1. 0 \in 0 .. N /\ \A k \in 1 .. N : k \in 0 .. N /\ k # 0
    BY <1>0
  <2> QED BY <1>7, <2>1
<1>9. a[N] = Under(net, f)
  <2> HIDE DEF a, net
  <2>1. NetOK(net)
    BY DEF net
  <2> QED BY <1>8, <2>1, RoundsReach
<1> QED BY <1>1, <1>9

-----------------------------------------------------------------------------
(* What a call knows on its way: every package it has met is one of those   *)
(* needed, fits, and is recorded or being visited; what is recorded follows *)
(* all that it depends on; what is being visited is a path from the project. *)
Met(w) == ToSet(w.seen)
Done(w, f) == Record(f) \in ToSet(w.records)

Tops(net, deps) ==
  {[package |-> f.package, source |-> f.source, rest |-> names] : f \in Founds(net) \cup {Start(deps)}, names \in SUBSET Names}
WalkTyped(net, deps, w) ==
  /\ w.stack \in Seq(Tops(net, deps)) /\ w.stack # <<>> /\ Whole(w.stack[1]) = Start(deps)
  /\ w.seen \in Seq(Founds(net)) /\ w.records \in Seq({Record(f) : f \in Founds(net)})
  /\ \A i \in DOMAIN w.stack : w.stack[i].rest \subseteq DOMAIN w.stack[i].package.deps

OnPath(w) ==
  /\ \A i \in DOMAIN w.stack : i # 1 => Whole(w.stack[i]) \in Met(w) /\ ~Done(w, Whole(w.stack[i]))
  /\ \A i, j \in DOMAIN w.stack : w.stack[i].package.name = w.stack[j].package.name => i = j
Passed(net, w) ==
  \A i \in DOMAIN w.stack : \A name \in DOMAIN w.stack[i].package.deps \ w.stack[i].rest :
    LET c == Found(net, name, w.stack[i].package.deps[name])
    IN c # Absent /\ c \in Met(w) /\ (Done(w, c) \/ (i + 1 \in DOMAIN w.stack /\ Whole(w.stack[i + 1]) = c))
OneEach(w) ==
  /\ \A f \in Met(w) : /\ f.package.name # Root /\ Fits(f.package)
                       /\ Done(w, f) \/ \E i \in DOMAIN w.stack : i # 1 /\ Whole(w.stack[i]) = f
  /\ \A f, g \in Met(w) : f.package.name = g.package.name => f = g
Ordered(net, w) ==
  /\ \A i \in DOMAIN w.records : \E f \in Met(w) : w.records[i] = Record(f)
  /\ \A i, j \in DOMAIN w.records : w.records[i].name = w.records[j].name => i = j
  /\ \A i \in DOMAIN w.records : \A name \in DOMAIN w.records[i].sha256.deps :
       LET c == Found(net, name, w.records[i].sha256.deps[name])
       IN c # Absent /\ \E j \in DOMAIN w.records : j < i /\ w.records[j] = Record(c)
Beneath(net, deps, w) ==
  /\ Met(w) \subseteq Under(net, Start(deps))
  /\ \A i, j \in DOMAIN w.stack : i < j => Whole(w.stack[j]) \in Under(net, Whole(w.stack[i]))

WalkOK(net, deps, w) ==
  WalkTyped(net, deps, w) /\ OnPath(w) /\ Passed(net, w) /\ OneEach(w) /\ Ordered(net, w) /\ Beneath(net, deps, w)

\* A graph that can be resolved.
BrokenIn(net, deps) ==
  \E f \in Under(net, Start(deps)) \cup {Start(deps)} :
    \E name \in DOMAIN f.package.deps : Found(net, name, f.package.deps[name]) = Absent
SoundIn(net, deps) ==
  /\ ~BrokenIn(net, deps) /\ ~Conflicting(Under(net, Start(deps))) /\ ~Unfit(Under(net, Start(deps)))
  /\ \A f \in Under(net, Start(deps)) : f.package.name # Root /\ f \notin Under(net, f)

LEMMA StartFacts ==
  ASSUME NEW deps
  PROVE  Start(deps).package.deps = deps /\ Start(deps).package.name = Root /\ Whole(Start(deps)) = Start(deps)
BY DEF Start, Whole, Frame

LEMMA RecordFacts ==
  ASSUME NEW f
  PROVE  /\ Record(Whole(f)) = Record(f) /\ Record(f).name = f.package.name /\ Record(f).sha256 = f.package /\ Record(f).source = f.source
         /\ Whole(f).package = f.package /\ Whole(f).source = f.source /\ Whole(f).rest = DOMAIN f.package.deps
         /\ \A g : Record(f) = Record(g) => Whole(f) = Whole(g)
BY DEF Record, Whole, Frame

LEMMA TypedFacts ==
  ASSUME NEW net, NetOK(net), NEW deps, Declared(deps), NEW w, WalkTyped(net, deps, w)
  PROVE  /\ Len(w.stack) \in Nat \ {0} /\ DOMAIN w.stack = 1 .. Len(w.stack) /\ 1 \in DOMAIN w.stack /\ Len(w.stack) \in DOMAIN w.stack
         /\ WalkTop(w) = w.stack[Len(w.stack)]
         /\ Len(w.seen) \in Nat /\ DOMAIN w.seen = 1 .. Len(w.seen) /\ Met(w) \subseteq Founds(net)
         /\ \A x : x \in Met(w) <=> \E i \in DOMAIN w.seen : w.seen[i] = x
         /\ Len(w.records) \in Nat /\ DOMAIN w.records = 1 .. Len(w.records)
         /\ \A f : Done(w, f) <=> \E i \in DOMAIN w.records : w.records[i] = Record(f)
         /\ \A i \in DOMAIN w.stack :
              /\ w.stack[i] \in Tops(net, deps)
              /\ w.stack[i] = [package |-> w.stack[i].package, source |-> w.stack[i].source, rest |-> w.stack[i].rest]
              /\ Declared(w.stack[i].package.deps) /\ w.stack[i].rest \subseteq Names
              /\ Whole(w.stack[i]) \in Founds(net) \cup {Start(deps)}
<1>1. /\ w.stack \in Seq(Tops(net, deps)) /\ w.stack # <<>>
      /\ w.seen \in Seq(Founds(net)) /\ w.records \in Seq({Record(f) : f \in Founds(net)})
  BY DEF WalkTyped
<1>2. Len(w.stack) \in Nat \ {0} /\ DOMAIN w.stack = 1 .. Len(w.stack) /\ 1 \in DOMAIN w.stack /\ Len(w.stack) \in DOMAIN w.stack
  <2> DEFINE s == w.stack
             D == Tops(net, deps)
  <2>1. s \in Seq(D) /\ s # <<>>
    BY <1>1
  <2> HIDE DEF s, D
  <2>2. Len(s) \in Nat \ {0} /\ DOMAIN s = 1 .. Len(s) /\ 1 \in DOMAIN s /\ Len(s) \in DOMAIN s
    BY <2>1
  <2> QED BY <2>2 DEF s
<1>3. WalkTop(w) = w.stack[Len(w.stack)]
  BY DEF WalkTop, Last
<1>4. Len(w.seen) \in Nat /\ DOMAIN w.seen = 1 .. Len(w.seen) /\ Met(w) \subseteq Founds(net)
      /\ \A x : x \in Met(w) <=> \E i \in DOMAIN w.seen : w.seen[i] = x
  BY <1>1 DEF Met, ToSet
<1>5. Len(w.records) \in Nat /\ DOMAIN w.records = 1 .. Len(w.records)
  <2> DEFINE s == w.records
             D == {Record(f) : f \in Founds(net)}
  <2>1. s \in Seq(D)
    BY <1>1
  <2> HIDE DEF s, D
  <2>2. Len(s) \in Nat /\ DOMAIN s = 1 .. Len(s)
    BY <2>1
  <2> QED BY <2>2 DEF s
<1>6. \A f : Done(w, f) <=> \E i \in DOMAIN w.records : w.records[i] = Record(f)
  BY DEF Done, ToSet
<1>7. ASSUME NEW i \in DOMAIN w.stack
      PROVE  /\ w.stack[i] \in Tops(net, deps)
             /\ w.stack[i] = [package |-> w.stack[i].package, source |-> w.stack[i].source, rest |-> w.stack[i].rest]
             /\ Declared(w.stack[i].package.deps) /\ w.stack[i].rest \subseteq Names
             /\ Whole(w.stack[i]) \in Founds(net) \cup {Start(deps)}
  <2> DEFINE t == w.stack[i]
  <2>1. t \in Tops(net, deps)
    BY <1>1, <1>2
  <2> HIDE DEF t
  <2>2. PICK f \in Founds(net) \cup {Start(deps)}, names \in SUBSET Names :
          t = [package |-> f.package, source |-> f.source, rest |-> names]
    BY <2>1 DEF Tops
  <2>3. Whole(f) = f /\ Declared(f.package.deps)
    BY FoundsFacts, StartFacts
  <2>4. t.package = f.package /\ t.source = f.source /\ t.rest = names
    BY <2>2
  <2>5. Whole(t) = f /\ Declared(t.package.deps)
    BY <2>3, <2>4 DEF Whole
  <2> QED BY <2>1, <2>2, <2>4, <2>5 DEF t
<1> QED BY <1>2, <1>3, <1>4, <1>5, <1>6, <1>7

LEMMA FirstFacts ==
  ASSUME NEW names \in SUBSET Names, names # {}
  PROVE  First(names) \in names
<1> DEFINE T == {i \in DOMAIN Order : Order[i] \in names}
<1>1. Order \in Seq(Names) /\ DOMAIN Order = 1 .. Len(Order) /\ Names = {Order[i] : i \in DOMAIN Order}
  BY ResolutionAssumption DEF Names, ToSet
<1>2. T \in SUBSET Nat /\ T # {}
  BY <1>1
<1>3. \E x \in T : \A y \in T : x <= y
  <2> HIDE DEF T
  <2> QED BY <1>2, LeastElement
<1>4. Min(T) \in T
  <2> HIDE DEF T
  <2> QED BY <1>3 DEF Min
<1> QED BY <1>4 DEF First

\* Where the visit of the next dependency leads.
Next0(w) == First(WalkTop(w).rest)
Child0(net, w) == Found(net, Next0(w), WalkTop(w).package.deps[Next0(w)])

LEMMA ChildFacts ==
  ASSUME NEW net, NetOK(net), NEW deps, Declared(deps), NEW w, WalkOK(net, deps, w), WalkTop(w).rest # {}
  PROVE  /\ Next0(w) \in WalkTop(w).rest /\ Next0(w) \in DOMAIN WalkTop(w).package.deps
         /\ Whole(WalkTop(w)) \in Under(net, Start(deps)) \cup {Start(deps)}
         /\ Child0(net, w) # Absent =>
              /\ Child0(net, w) \in Founds(net) /\ Child0(net, w).package.name = Next0(w)
              /\ Child0(net, w) \in Kids(net, Whole(WalkTop(w))) /\ Child0(net, w) \in Under(net, Start(deps))
              /\ \A i \in DOMAIN w.stack : Child0(net, w) \in Under(net, Whole(w.stack[i]))
<1> DEFINE t == WalkTop(w)
           L == Len(w.stack)
           name == Next0(w)
           c == Child0(net, w)
           U == Under(net, Start(deps))
<1>0. WalkTyped(net, deps, w) /\ OnPath(w) /\ Beneath(net, deps, w)
  BY DEF WalkOK
<1>1. /\ L \in Nat \ {0} /\ DOMAIN w.stack = 1 .. L /\ L \in DOMAIN w.stack /\ t = w.stack[L]
      /\ Declared(t.package.deps) /\ t.rest \subseteq Names
      /\ \A i \in DOMAIN w.stack : Declared(w.stack[i].package.deps)
  <2>1. /\ L \in Nat \ {0} /\ DOMAIN w.stack = 1 .. L /\ L \in DOMAIN w.stack /\ t = w.stack[L]
    BY <1>0, TypedFacts
  <2>2. \A i \in DOMAIN w.stack : Declared(w.stack[i].package.deps) /\ w.stack[i].rest \subseteq Names
    BY <1>0, TypedFacts
  <2> HIDE DEF t, L
  <2> QED BY <2>1, <2>2
<1>2. name \in t.rest /\ name \in DOMAIN t.package.deps
  <2>1. name \in t.rest
    BY <1>1, FirstFacts DEF Next0
  <2>2. t.rest \subseteq DOMAIN t.package.deps
    BY <1>0, <1>1 DEF WalkTyped
  <2> QED BY <2>1, <2>2
<1>3. Whole(t) \in U \cup {Start(deps)}
  BY <1>0, <1>1 DEF OnPath, Beneath, WalkTyped
<1>4. /\ Kids(net, Start(deps)) \subseteq U /\ U \subseteq Founds(net) /\ Closed(net, U)
  BY StartFacts, UnderFacts
<1>5. ASSUME c # Absent
      PROVE  /\ c \in Founds(net) /\ c.package.name = name /\ c \in Kids(net, Whole(t)) /\ c \in U
             /\ \A i \in DOMAIN w.stack : c \in Under(net, Whole(w.stack[i]))
  <2>1. c = Found(net, name, t.package.deps[name])
    BY DEF Child0
  <2>2. c \in Founds(net) /\ c.package.name = name
    BY <1>1, <1>2, <1>5, <2>1, FoundFacts
  <2>3. Whole(t).package = t.package
    BY RecordFacts
  <2>4. c \in Kids(net, Whole(t))
    BY <1>1, <1>2, <1>5, <2>1, <2>3, KidsFound
  <2>5. c \in U
    BY <1>3, <1>4, <2>4 DEF Closed
  <2>6. ASSUME NEW i \in DOMAIN w.stack PROVE c \in Under(net, Whole(w.stack[i]))
    <3> DEFINE g == Whole(w.stack[i])
    <3>1. Declared(g.package.deps)
      BY <1>1, RecordFacts
    <3>2. Kids(net, g) \subseteq Under(net, g) /\ Closed(net, Under(net, g))
      BY <3>1, UnderFacts
    <3>3. CASE i = L
      BY <1>1, <2>4, <3>2, <3>3
    <3>4. CASE i # L
      <4>1. Whole(t) \in Under(net, g)
        BY <1>0, <1>1, <3>4 DEF Beneath
      <4> QED BY <2>4, <3>2, <4>1 DEF Closed
    <3> QED BY <3>3, <3>4
  <2> QED BY <2>2, <2>4, <2>5, <2>6
<1> QED BY <1>2, <1>3, <1>5

\* A visit that fails has found what cannot be resolved.
LEMMA FailsRightly ==
  ASSUME NEW net, NetOK(net), NEW deps, Declared(deps), NEW w, WalkOK(net, deps, w), WalkTop(w).rest # {},
         \/ Next0(w) \in WalkActive(w) \/ Child0(net, w) = Absent
         \/ \E f \in WalkSeen(w, Child0(net, w).package.name) : Identity(f) # Identity(Child0(net, w))
         \/ ~Fits(Child0(net, w).package)
  PROVE  ~SoundIn(net, deps)
<1> DEFINE t == WalkTop(w)
           name == Next0(w)
           c == Child0(net, w)
           U == Under(net, Start(deps))
<1>0. WalkTyped(net, deps, w) /\ OnPath(w) /\ Beneath(net, deps, w)
  BY DEF WalkOK
<1>1. /\ name \in DOMAIN t.package.deps /\ Whole(t) \in U \cup {Start(deps)}
      /\ c # Absent => /\ c \in Founds(net) /\ c.package.name = name /\ c \in U
                       /\ \A i \in DOMAIN w.stack : c \in Under(net, Whole(w.stack[i]))
  BY ChildFacts
<1>2. Met(w) \subseteq U /\ Met(w) \subseteq Founds(net)
  BY <1>0, TypedFacts DEF Beneath
<1>3. CASE c = Absent
  <2>1. Whole(t).package = t.package
    BY RecordFacts
  <2>2. BrokenIn(net, deps)
    BY <1>1, <1>3, <2>1 DEF BrokenIn, Child0
  <2> QED BY <2>2 DEF SoundIn
<1>4. CASE c # Absent /\ ~Fits(c.package)
  <2>1. Unfit(U)
    BY <1>1, <1>4 DEF Unfit
  <2> QED BY <2>1 DEF SoundIn
<1>5. ASSUME c # Absent, NEW f \in Met(w), f.package.name = c.package.name, Identity(f) # Identity(c) PROVE ~SoundIn(net, deps)
  <2>1. Conflicting(U)
    BY <1>1, <1>2, <1>5 DEF Conflicting
  <2> QED BY <2>1 DEF SoundIn
<1>6. CASE c # Absent /\ name \in WalkActive(w)
  <2>1. PICK i \in DOMAIN w.stack : w.stack[i].package.name = name
    BY <1>6 DEF WalkActive
  <2>2. CASE i = 1
    <3>1. name = Root
      BY <1>0, <2>1, <2>2, RecordFacts, StartFacts DEF WalkTyped
    <3> QED BY <1>1, <1>6, <3>1 DEF SoundIn
  <2>3. CASE i # 1
    <3> DEFINE g == Whole(w.stack[i])
    <3>1. g \in Met(w) /\ g.package.name = c.package.name /\ c \in Under(net, g)
      BY <1>0, <1>1, <1>6, <2>1, <2>3, RecordFacts DEF OnPath
    <3>2. CASE Identity(g) # Identity(c)
      BY <1>5, <1>6, <3>1, <3>2
    <3>3. CASE Identity(g) = Identity(c)
      <4>1. g = c
        BY <1>1, <1>2, <1>6, <3>1, <3>3, FoundsOnce
      <4> QED BY <1>1, <1>6, <3>1, <4>1 DEF SoundIn
    <3> QED BY <3>2, <3>3
  <2> QED BY <2>2, <2>3
<1>7. ASSUME c # Absent, \E f \in WalkSeen(w, c.package.name) : Identity(f) # Identity(c) PROVE ~SoundIn(net, deps)
  BY <1>5, <1>7 DEF WalkSeen, Met
<1> QED BY <1>3, <1>4, <1>6, <1>7

\* The dependency that is visited is taken off.
LEMMA RestFacts ==
  ASSUME NEW net, NetOK(net), NEW deps, Declared(deps), NEW w, WalkOK(net, deps, w), WalkTop(w).rest # {}
  PROVE  LET s == WalkRest(w)
             L == Len(w.stack)
         IN /\ s \in Seq(Tops(net, deps)) /\ Len(s) = L /\ DOMAIN s = 1 .. L /\ s # <<>>
            /\ \A i \in 1 .. L : s[i].package = w.stack[i].package /\ Whole(s[i]) = Whole(w.stack[i])
            /\ \A i \in 1 .. L : i # L => s[i] = w.stack[i]
            /\ s[L].rest = w.stack[L].rest \ {Next0(w)}
<1> DEFINE s == WalkRest(w)
           L == Len(w.stack)
           t == w.stack[L]
           u == [t EXCEPT !.rest = @ \ {First(@)}]
<1>0. WalkTyped(net, deps, w) /\ w.stack \in Seq(Tops(net, deps))
  BY DEF WalkOK, WalkTyped
<1>1. L \in Nat \ {0} /\ DOMAIN w.stack = 1 .. L /\ L \in 1 .. L /\ WalkTop(w) = t
  BY <1>0, TypedFacts
<1>2. t \in Tops(net, deps) /\ t = [package |-> t.package, source |-> t.source, rest |-> t.rest]
  BY <1>0, <1>1, TypedFacts
<1>3. s = [w.stack EXCEPT ![L] = u]
  BY DEF WalkRest
<1>4. u = [package |-> t.package, source |-> t.source, rest |-> t.rest \ {First(t.rest)}]
  <2> HIDE DEF t
  <2> QED BY <1>2
<1>5. u.package = t.package /\ u.source = t.source /\ u.rest = t.rest \ {Next0(w)}
  BY <1>1, <1>4 DEF Next0
<1>6. u \in Tops(net, deps)
  <2>1. PICK f \in Founds(net) \cup {Start(deps)}, names \in SUBSET Names :
          t = [package |-> f.package, source |-> f.source, rest |-> names]
    <3> HIDE DEF t
    <3> QED BY <1>2 DEF Tops
  <2> DEFINE rest == t.rest \ {First(t.rest)}
  <2>2. t.package = f.package /\ t.source = f.source /\ rest \in SUBSET Names
    BY <2>1
  <2>3. u = [package |-> f.package, source |-> f.source, rest |-> rest]
    BY <1>4, <2>2
  <2> HIDE DEF u, rest, t
  <2> QED BY <2>2, <2>3 DEF Tops
<1> HIDE DEF u, s
<1>7. s \in Seq(Tops(net, deps)) /\ Len(s) = L /\ DOMAIN s = 1 .. L /\ s # <<>> /\ s[L] = u /\ \A i \in 1 .. L : i # L => s[i] = w.stack[i]
  <2> DEFINE D == Tops(net, deps)
             q == w.stack
  <2> HIDE DEF D, q
  <2>1. q \in Seq(D) /\ u \in D /\ s = [q EXCEPT ![L] = u] /\ L = Len(q) /\ L \in 1 .. Len(q)
    BY <1>0, <1>1, <1>3, <1>6 DEF D, q
  <2> HIDE DEF L
  <2>2. s \in Seq(D) /\ Len(s) = L /\ DOMAIN s = 1 .. L /\ s # <<>> /\ s[L] = u /\ \A i \in 1 .. L : i # L => s[i] = q[i]
    BY <2>1
  <2> QED BY <2>2 DEF D, q
<1>8. \A i \in 1 .. L : s[i].package = w.stack[i].package /\ Whole(s[i]) = Whole(w.stack[i])
  <2>1. Whole(u) = Whole(t)
    BY <1>5 DEF Whole
  <2> QED BY <1>1, <1>5, <1>7, <2>1
<1> QED BY <1>1, <1>5, <1>7, <1>8 DEF s

\* A package that was met before is recorded already.
LEMMA PassesAgain ==
  ASSUME NEW net, NetOK(net), NEW deps, Declared(deps), NEW w, WalkOK(net, deps, w), WalkTop(w).rest # {},
         Next0(w) \notin WalkActive(w), Child0(net, w) # Absent,
         WalkSeen(w, Child0(net, w).package.name) # {},
         \A f \in WalkSeen(w, Child0(net, w).package.name) : Identity(f) = Identity(Child0(net, w))
  PROVE  /\ Child0(net, w) \in Met(w)
         /\ WalkOK(net, deps, [stack |-> WalkRest(w), seen |-> w.seen, records |-> w.records])
<1> DEFINE s == WalkRest(w)
           L == Len(w.stack)
           c == Child0(net, w)
           name == Next0(w)
           new == [stack |-> s, seen |-> w.seen, records |-> w.records]
<1>0. WalkTyped(net, deps, w) /\ OnPath(w) /\ Passed(net, w) /\ OneEach(w) /\ Ordered(net, w) /\ Beneath(net, deps, w)
  BY DEF WalkOK
<1>1. L \in Nat \ {0} /\ DOMAIN w.stack = 1 .. L /\ WalkTop(w) = w.stack[L] /\ Met(w) \subseteq Founds(net)
  BY <1>0, TypedFacts
<1>2. /\ s \in Seq(Tops(net, deps)) /\ Len(s) = L /\ DOMAIN s = 1 .. L /\ s # <<>>
      /\ \A i \in 1 .. L : s[i].package = w.stack[i].package /\ Whole(s[i]) = Whole(w.stack[i])
      /\ \A i \in 1 .. L : i # L => s[i] = w.stack[i]
      /\ s[L].rest = w.stack[L].rest \ {name}
  BY RestFacts
<1>3. c \in Founds(net) /\ c.package.name = name /\ c = Found(net, name, w.stack[L].package.deps[name])
  BY <1>1, ChildFacts DEF Child0
<1> HIDE DEF s, c, L
<1>4. c \in Met(w)
  <2>1. PICK f \in Met(w) : f.package.name = c.package.name
    BY DEF WalkSeen, Met, c
  <2>2. Identity(f) = Identity(c)
    BY <2>1 DEF WalkSeen, Met, c
  <2> QED BY <1>1, <1>3, <2>1, <2>2, FoundsOnce
<1>5. Done(w, c)
  <2>1. ASSUME NEW i \in DOMAIN w.stack, Whole(w.stack[i]) = c PROVE FALSE
    <3>1. w.stack[i].package.name = name
      BY <1>3, <2>1, RecordFacts
    <3> QED BY <3>1 DEF WalkActive
  <2> QED BY <1>0, <1>4, <2>1 DEF OneEach
<1>6. new.stack = s /\ new.seen = w.seen /\ new.records = w.records
  OBVIOUS
<1> HIDE DEF new
<1>7. Met(new) = Met(w) /\ \A f : Done(new, f) <=> Done(w, f)
  BY <1>6 DEF Met, Done
<1>8. WalkTyped(net, deps, new)
  <2>1. \A i \in DOMAIN s : s[i].rest \subseteq DOMAIN s[i].package.deps
    BY <1>0, <1>1, <1>2 DEF WalkTyped
  <2>2. Whole(s[1]) = Start(deps)
    BY <1>0, <1>1, <1>2 DEF WalkTyped
  <2>3. w.seen \in Seq(Founds(net)) /\ w.records \in Seq({Record(f) : f \in Founds(net)})
    BY <1>0 DEF WalkTyped
  <2> QED BY <1>2, <1>6, <2>1, <2>2, <2>3 DEF WalkTyped
<1>9. OnPath(new)
  BY <1>0, <1>1, <1>2, <1>6, <1>7 DEF OnPath
<1>10. Passed(net, new)
  <2> SUFFICES ASSUME NEW i \in 1 .. L, NEW n \in DOMAIN s[i].package.deps \ s[i].rest
               PROVE  LET d == Found(net, n, s[i].package.deps[n])
                      IN d # Absent /\ d \in Met(w) /\ (Done(w, d) \/ (i + 1 \in 1 .. L /\ Whole(s[i + 1]) = d))
    BY <1>2, <1>6, <1>7 DEF Passed
  <2>1. CASE i = L /\ n = name
    <3>1. Found(net, n, s[i].package.deps[n]) = c
      BY <1>2, <1>3, <2>1
    <3>2. c # Absent
      BY DEF c
    <3> QED BY <1>4, <1>5, <3>1, <3>2
  <2>2. CASE ~(i = L /\ n = name)
    <3> DEFINE d == Found(net, n, w.stack[i].package.deps[n])
    <3>1. n \in DOMAIN w.stack[i].package.deps \ w.stack[i].rest /\ s[i].package = w.stack[i].package
      BY <1>2, <2>2
    <3>2. i + 1 \in 1 .. L => Whole(s[i + 1]) = Whole(w.stack[i + 1])
      BY <1>2
    <3>3. d # Absent /\ d \in Met(w) /\ (Done(w, d) \/ (i + 1 \in 1 .. L /\ Whole(w.stack[i + 1]) = d))
      BY <1>0, <1>1, <3>1 DEF Passed
    <3>4. Found(net, n, s[i].package.deps[n]) = d
      BY <3>1
    <3> HIDE DEF d
    <3> QED BY <3>2, <3>3, <3>4
  <2> QED BY <2>1, <2>2
<1>11. OneEach(new)
  BY <1>0, <1>1, <1>2, <1>6, <1>7 DEF OneEach
<1>12. Ordered(net, new)
  BY <1>0, <1>6, <1>7 DEF Ordered
<1>13. Beneath(net, deps, new)
  BY <1>0, <1>1, <1>2, <1>6, <1>7 DEF Beneath
<1> QED BY <1>4, <1>8, <1>9, <1>10, <1>11, <1>12, <1>13 DEF WalkOK, new, s, c

\* A package that is met for the first time is visited next.
LEMMA PassesFirst ==
  ASSUME NEW net, NetOK(net), NEW deps, Declared(deps), NEW w, WalkOK(net, deps, w), WalkTop(w).rest # {},
         Next0(w) \notin WalkActive(w), Child0(net, w) # Absent,
         WalkSeen(w, Child0(net, w).package.name) = {}, Fits(Child0(net, w).package)
  PROVE  LET new == [stack |-> Append(WalkRest(w), Child0(net, w)), seen |-> Append(w.seen, Child0(net, w)), records |-> w.records]
         IN WalkOK(net, deps, new) /\ Met(new) = Met(w) \cup {Child0(net, w)} /\ Child0(net, w) \notin Met(w)
<1> DEFINE r == WalkRest(w)
           L == Len(w.stack)
           c == Child0(net, w)
           name == Next0(w)
           s == Append(r, c)
           v == Append(w.seen, c)
           new == [stack |-> s, seen |-> v, records |-> w.records]
<1>0. WalkTyped(net, deps, w) /\ OnPath(w) /\ Passed(net, w) /\ OneEach(w) /\ Ordered(net, w) /\ Beneath(net, deps, w)
  BY DEF WalkOK
<1>1. L \in Nat \ {0} /\ DOMAIN w.stack = 1 .. L /\ WalkTop(w) = w.stack[L] /\ Met(w) \subseteq Founds(net)
      /\ w.seen \in Seq(Founds(net)) /\ Whole(w.stack[1]) = Start(deps) /\ 1 \in 1 .. L /\ L \in 1 .. L
  <2>1. L \in Nat \ {0} /\ DOMAIN w.stack = 1 .. L /\ WalkTop(w) = w.stack[L] /\ Met(w) \subseteq Founds(net)
    BY <1>0, TypedFacts
  <2>2. w.seen \in Seq(Founds(net)) /\ Whole(w.stack[1]) = Start(deps)
    BY <1>0 DEF WalkTyped
  <2> HIDE DEF L
  <2> QED BY <2>1, <2>2
<1>2. /\ r \in Seq(Tops(net, deps)) /\ Len(r) = L /\ DOMAIN r = 1 .. L
      /\ \A i \in 1 .. L : r[i].package = w.stack[i].package /\ Whole(r[i]) = Whole(w.stack[i])
      /\ \A i \in 1 .. L : i # L => r[i] = w.stack[i]
      /\ r[L].rest = w.stack[L].rest \ {name}
  BY RestFacts
<1>3. /\ c \in Founds(net) /\ c.package.name = name /\ c = Found(net, name, w.stack[L].package.deps[name])
      /\ c \in Under(net, Start(deps)) /\ \A i \in 1 .. L : c \in Under(net, Whole(w.stack[i]))
  BY <1>1, ChildFacts DEF Child0
<1>4. /\ \A f \in Met(w) : f.package.name # name
      /\ \A i \in 1 .. L : w.stack[i].package.name # name
      /\ Fits(c.package)
  <2>1. \A f \in Met(w) : f.package.name # name
    BY <1>3 DEF WalkSeen, Met
  <2>2. \A i \in 1 .. L : w.stack[i].package.name # name
    BY <1>1 DEF WalkActive
  <2> QED BY <2>1, <2>2
<1> HIDE DEF r, c, L
<1>5. Declared(c.package.deps) /\ Whole(c) = c /\ c.rest = DOMAIN c.package.deps
  BY <1>3, FoundsFacts
<1>6. c \in Tops(net, deps)
  <2>1. c.rest \in SUBSET Names /\ c = [package |-> c.package, source |-> c.source, rest |-> c.rest]
    BY <1>5 DEF Declared, Whole, Frame
  <2> DEFINE x == [package |-> c.package, source |-> c.source, rest |-> c.rest]
  <2>2. x \in Tops(net, deps)
    <3> DEFINE names == c.rest
               E == Founds(net) \cup {Start(deps)}
    <3>1. c \in E /\ names \in SUBSET Names /\ x = [package |-> c.package, source |-> c.source, rest |-> names]
      BY <1>3, <2>1
    <3>2. Tops(net, deps) = {[package |-> f.package, source |-> f.source, rest |-> some] : f \in E, some \in SUBSET Names}
      BY DEF Tops
    <3> HIDE DEF names, x, E
    <3> QED BY <3>1, <3>2
  <2> QED BY <2>1, <2>2
<1>7. /\ s \in Seq(Tops(net, deps)) /\ Len(s) = L + 1 /\ DOMAIN s = 1 .. L + 1 /\ s # <<>> /\ s[L + 1] = c
      /\ \A i \in 1 .. L : s[i] = r[i]
  <2> DEFINE D == Tops(net, deps)
  <2>1. r \in Seq(D) /\ c \in D /\ Len(r) = L
    BY <1>2, <1>6
  <2> HIDE DEF D
  <2>2. /\ s \in Seq(D) /\ Len(s) = L + 1 /\ DOMAIN s = 1 .. L + 1 /\ s # <<>> /\ s[L + 1] = c
        /\ \A i \in 1 .. L : s[i] = r[i]
    BY <2>1
  <2> QED BY <2>2 DEF D
<1>8. v \in Seq(Founds(net)) /\ ToSet(v) = Met(w) \cup {c}
  <2> DEFINE D == Founds(net)
             q == w.seen
  <2>1. q \in Seq(D) /\ c \in D
    BY <1>1, <1>3
  <2> HIDE DEF D, q
  <2>2. /\ Append(q, c) \in Seq(D) /\ Len(q) \in Nat /\ DOMAIN q = 1 .. Len(q) /\ DOMAIN Append(q, c) = 1 .. Len(q) + 1
        /\ Append(q, c)[Len(q) + 1] = c /\ \A i \in 1 .. Len(q) : Append(q, c)[i] = q[i]
    BY <2>1
  <2>3. \A i \in 1 .. Len(q) + 1 : i \in 1 .. Len(q) \/ i = Len(q) + 1
    BY <2>2
  <2>4. \A i \in 1 .. Len(q) : i \in 1 .. Len(q) + 1
    BY <2>2
  <2>5. Len(q) + 1 \in 1 .. Len(q) + 1
    BY <2>2
  <2> DEFINE a == Append(q, c)
             k == Len(q) + 1
  <2>6. \A x : x \in ToSet(a) <=> \E i \in DOMAIN a : a[i] = x
    <3> HIDE DEF a
    <3> QED BY DEF ToSet
  <2>7. \A x : x \in ToSet(q) <=> \E i \in DOMAIN q : q[i] = x
    BY DEF ToSet
  <2> HIDE DEF a, k
  <2>8. /\ a \in Seq(D) /\ DOMAIN q = 1 .. Len(q) /\ DOMAIN a = 1 .. k /\ a[k] = c /\ k \in 1 .. k
        /\ \A i \in 1 .. Len(q) : a[i] = q[i] /\ i \in 1 .. k
        /\ \A i \in 1 .. k : i \in 1 .. Len(q) \/ i = k
    BY <2>2, <2>3, <2>4, <2>5 DEF a, k
  <2>9. ToSet(a) = ToSet(q) \cup {c}
    BY <2>6, <2>7, <2>8
  <2> QED BY <2>8, <2>9 DEF D, q, Met, a
<1>9. new.stack = s /\ new.seen = v /\ new.records = w.records
  OBVIOUS
<1> HIDE DEF new, s, v
<1>10. Met(new) = Met(w) \cup {c} /\ \A f : Done(new, f) <=> Done(w, f)
  BY <1>8, <1>9 DEF Met, Done
<1>11. ~Done(w, c)
  <2> SUFFICES ASSUME Done(w, c) PROVE FALSE
    OBVIOUS
  <2>1. PICK i \in DOMAIN w.records : w.records[i] = Record(c)
    BY <1>0, TypedFacts
  <2>2. PICK f \in Met(w) : w.records[i] = Record(f)
    BY <1>0 DEF Ordered
  <2>3. Record(f).name = Record(c).name
    BY <2>1, <2>2
  <2> QED BY <1>3, <1>4, <2>3, RecordFacts
<1>12. name # Root
  <2>1. w.stack[1].package.name = Root
    BY <1>1, RecordFacts, StartFacts
  <2> QED BY <1>1, <1>4, <2>1
<1>13. WalkTyped(net, deps, new)
  <2>1. ASSUME NEW i \in 1 .. L + 1 PROVE s[i].rest \subseteq DOMAIN s[i].package.deps
    <3>1. CASE i = L + 1
      BY <1>5, <1>7, <3>1
    <3>2. CASE i \in 1 .. L
      BY <1>0, <1>1, <1>2, <1>7, <3>2 DEF WalkTyped
    <3> QED BY <1>1, <3>1, <3>2
  <2>2. Whole(s[1]) = Start(deps)
    BY <1>1, <1>2, <1>7
  <2>3. w.records \in Seq({Record(f) : f \in Founds(net)})
    BY <1>0 DEF WalkTyped
  <2> QED BY <1>7, <1>8, <1>9, <2>1, <2>2, <2>3 DEF WalkTyped
<1>14. \A i \in 1 .. L + 1 : i = L + 1 \/ i \in 1 .. L
  BY <1>1
<1>15. \A i \in 1 .. L : s[i].package = w.stack[i].package /\ Whole(s[i]) = Whole(w.stack[i])
  BY <1>2, <1>7
<1>16. OnPath(new)
  <2>1. ASSUME NEW i \in 1 .. L + 1, i # 1 PROVE Whole(s[i]) \in Met(new) /\ ~Done(new, Whole(s[i]))
    <3>1. CASE i = L + 1
      BY <1>5, <1>7, <1>10, <1>11, <3>1
    <3>2. CASE i \in 1 .. L
      BY <1>0, <1>1, <1>10, <1>15, <2>1, <3>2 DEF OnPath
    <3> QED BY <1>14, <3>1, <3>2
  <2>2. \A i, j \in 1 .. L + 1 : s[i].package.name = s[j].package.name => i = j
    <3>1. \A i, j \in 1 .. L : s[i].package.name = s[j].package.name => i = j
      BY <1>0, <1>1, <1>15 DEF OnPath
    <3>2. \A i \in 1 .. L : s[i].package.name # s[L + 1].package.name
      BY <1>3, <1>4, <1>7, <1>15
    <3> QED BY <1>14, <3>1, <3>2
  <2> QED BY <1>7, <1>9, <2>1, <2>2 DEF OnPath
<1>17. Passed(net, new)
  <2> SUFFICES ASSUME NEW i \in 1 .. L + 1, NEW n \in DOMAIN s[i].package.deps \ s[i].rest
               PROVE  LET d == Found(net, n, s[i].package.deps[n])
                      IN d # Absent /\ d \in Met(new) /\ (Done(w, d) \/ (i + 1 \in 1 .. L + 1 /\ Whole(s[i + 1]) = d))
    BY <1>7, <1>9, <1>10 DEF Passed
  <2>1. CASE i = L + 1
    BY <1>5, <1>7, <2>1
  <2>2. CASE i = L /\ n = name
    <3>1. i + 1 \in 1 .. L + 1 /\ Whole(s[i + 1]) = c
      BY <1>1, <1>5, <1>7, <2>2
    <3>2. Found(net, n, s[i].package.deps[n]) = c
      BY <1>1, <1>3, <1>15, <2>2
    <3> QED BY <1>10, <3>1, <3>2 DEF c
  <2>3. CASE i \in 1 .. L /\ ~(i = L /\ n = name)
    <3> DEFINE d == Found(net, n, w.stack[i].package.deps[n])
    <3>1. n \in DOMAIN w.stack[i].package.deps \ w.stack[i].rest
      BY <1>2, <1>7, <2>3
    <3>2. d # Absent /\ d \in Met(w) /\ (Done(w, d) \/ (i + 1 \in 1 .. L /\ Whole(w.stack[i + 1]) = d))
      BY <1>0, <1>1, <2>3, <3>1 DEF Passed
    <3>3. i + 1 \in 1 .. L => i + 1 \in 1 .. L + 1
      BY <1>1
    <3>4. Found(net, n, s[i].package.deps[n]) = d
      BY <1>15, <2>3
    <3> HIDE DEF d
    <3>5. d \in Met(new)
      BY <1>10, <3>2
    <3>6. Done(w, d) \/ (i + 1 \in 1 .. L + 1 /\ Whole(s[i + 1]) = d)
      BY <1>15, <3>2, <3>3
    <3> QED BY <3>2, <3>4, <3>5, <3>6
  <2> QED BY <1>14, <2>1, <2>2, <2>3
<1>18. OneEach(new)
  <2>1. ASSUME NEW f \in Met(new)
        PROVE  f.package.name # Root /\ Fits(f.package) /\ (Done(new, f) \/ \E i \in DOMAIN new.stack : i # 1 /\ Whole(new.stack[i]) = f)
    <3>1. CASE f = c
      <4>1. L + 1 \in DOMAIN new.stack /\ L + 1 # 1 /\ Whole(new.stack[L + 1]) = c
        BY <1>1, <1>5, <1>7, <1>9
      <4> QED BY <1>3, <1>4, <1>12, <3>1, <4>1
    <3>2. CASE f \in Met(w)
      <4>1. \A i \in DOMAIN w.stack : i \in DOMAIN new.stack /\ Whole(new.stack[i]) = Whole(w.stack[i])
        BY <1>1, <1>7, <1>9, <1>15
      <4> QED BY <1>0, <1>10, <3>2, <4>1 DEF OneEach
    <3> QED BY <1>10, <3>1, <3>2
  <2>2. \A f, g \in Met(new) : f.package.name = g.package.name => f = g
    BY <1>0, <1>3, <1>4, <1>10 DEF OneEach
  <2> QED BY <2>1, <2>2 DEF OneEach
<1>19. Ordered(net, new)
  BY <1>0, <1>9, <1>10 DEF Ordered
<1>20. Beneath(net, deps, new)
  <2>1. Met(new) \subseteq Under(net, Start(deps))
    BY <1>0, <1>3, <1>10 DEF Beneath
  <2>2. ASSUME NEW i \in 1 .. L + 1, NEW j \in 1 .. L + 1, i < j PROVE Whole(s[j]) \in Under(net, Whole(s[i]))
    <3>1. i \in 1 .. L
      BY <1>1, <2>2
    <3>2. CASE j = L + 1
      BY <1>3, <1>5, <1>7, <1>15, <3>1, <3>2
    <3>3. CASE j \in 1 .. L
      BY <1>0, <1>1, <1>15, <2>2, <3>1, <3>3 DEF Beneath
    <3> QED BY <1>14, <3>2, <3>3
  <2> QED BY <1>7, <1>9, <2>1, <2>2 DEF Beneath
<1>21. c \notin Met(w)
  BY <1>3, <1>4
<1> QED BY <1>10, <1>13, <1>16, <1>17, <1>18, <1>19, <1>20, <1>21 DEF WalkOK, new, s, v, r, c

\* A call starts with the project.
LEMMA StartsOK ==
  ASSUME NEW net, NetOK(net), NEW deps, Declared(deps)
  PROVE  LET w == [stack |-> <<Start(deps)>>, seen |-> <<>>, records |-> <<>>] IN WalkOK(net, deps, w) /\ Met(w) = {}
<1> DEFINE st == <<Start(deps)>>
           w == [stack |-> st, seen |-> <<>>, records |-> <<>>]
           b == Start(deps)
<1>1. b \in Tops(net, deps) /\ Whole(b) = b /\ b.rest = DOMAIN b.package.deps
  <2>1. b = [package |-> b.package, source |-> b.source, rest |-> DOMAIN deps] /\ DOMAIN deps \in SUBSET Names /\ b.package.deps = deps
    BY DEF Start, Frame, Declared
  <2>2. b \in Tops(net, deps)
    <3> DEFINE names == DOMAIN deps
               E == Founds(net) \cup {Start(deps)}
    <3>1. b \in E /\ names \in SUBSET Names /\ b = [package |-> b.package, source |-> b.source, rest |-> names]
      BY <2>1
    <3>2. Tops(net, deps) = {[package |-> f.package, source |-> f.source, rest |-> some] : f \in E, some \in SUBSET Names}
      BY DEF Tops
    <3> HIDE DEF names, b, E
    <3> QED BY <3>1, <3>2
  <2>3. Whole(b) = b /\ b.rest = DOMAIN b.package.deps
    BY DEF Start, Frame, Whole
  <2> QED BY <2>2, <2>3
<1> HIDE DEF b
<1>2. st \in Seq(Tops(net, deps)) /\ st # <<>> /\ DOMAIN st = {1} /\ st[1] = b
  BY <1>1 DEF b
<1>3. w.stack = st /\ w.seen = <<>> /\ w.records = <<>>
  OBVIOUS
<1> HIDE DEF w, st
<1>4. Met(w) = {} /\ DOMAIN w.records = {}
  BY <1>3 DEF Met, ToSet
<1>5. WalkTyped(net, deps, w)
  BY <1>1, <1>2, <1>3 DEF WalkTyped, b
<1>6. OnPath(w) /\ OneEach(w) /\ Ordered(net, w) /\ Beneath(net, deps, w)
  <2>1. \A i, j \in DOMAIN w.stack : i = 1 /\ j = 1
    BY <1>2, <1>3
  <2>2. ~(1 < 1)
    OBVIOUS
  <2> QED BY <1>4, <2>1, <2>2 DEF OnPath, OneEach, Ordered, Beneath
<1>7. Passed(net, w)
  BY <1>1, <1>2, <1>3 DEF Passed
<1> QED BY <1>4, <1>5, <1>6, <1>7 DEF WalkOK, w, st

\* The end of a visit.
LEMMA LeavesOK ==
  ASSUME NEW net, NetOK(net), NEW deps, Declared(deps), NEW w, WalkOK(net, deps, w), NEW new, Leaves(w, new)
  PROVE  WalkOK(net, deps, new) /\ Met(new) = Met(w)
<1> DEFINE s == Front(w.stack)
           L == Len(w.stack)
           t == w.stack[L]
           f == Whole(t)
           R == Append(w.records, Record(t))
           K == Len(w.records)
<1>0. WalkTyped(net, deps, w) /\ OnPath(w) /\ Passed(net, w) /\ OneEach(w) /\ Ordered(net, w) /\ Beneath(net, deps, w)
  BY DEF WalkOK
<1>1. /\ L \in Nat /\ L > 1 /\ DOMAIN w.stack = 1 .. L /\ WalkTop(w) = t /\ t.rest = {} /\ L \in 1 .. L /\ 1 \in 1 .. L
      /\ w.stack \in Seq(Tops(net, deps)) /\ new = [stack |-> s, seen |-> w.seen, records |-> R]
  <2>1. L \in Nat /\ L > 1 /\ DOMAIN w.stack = 1 .. L /\ WalkTop(w) = t
    BY <1>0, TypedFacts DEF Leaves
  <2>2. WalkTop(w).rest = {} /\ new = [stack |-> Front(w.stack), seen |-> w.seen, records |-> Append(w.records, Record(WalkTop(w)))]
    BY DEF Leaves
  <2>3. L \in 1 .. L /\ 1 \in 1 .. L
    BY <2>1
  <2>4. w.stack \in Seq(Tops(net, deps))
    BY <1>0 DEF WalkTyped
  <2> HIDE DEF L
  <2> QED BY <2>1, <2>2, <2>3, <2>4
<1>2. f \in Met(w) /\ f \in Founds(net) /\ ~Done(w, f) /\ Record(f) = Record(t) /\ f.package = t.package /\ Whole(f) = f
  <2>1. f \in Met(w) /\ ~Done(w, f)
    BY <1>0, <1>1 DEF OnPath
  <2>2. f \in Founds(net) /\ Whole(f) = f
    BY <1>0, <2>1, TypedFacts, FoundsFacts
  <2> HIDE DEF t
  <2> QED BY <2>1, <2>2, RecordFacts
<1>3. K \in Nat /\ DOMAIN w.records = 1 .. K /\ \A g : Done(w, g) <=> \E i \in 1 .. K : w.records[i] = Record(g)
  BY <1>0, TypedFacts
<1>4. s \in Seq(Tops(net, deps)) /\ s # <<>> /\ DOMAIN s = 1 .. L - 1 /\ \A i \in 1 .. L - 1 : s[i] = w.stack[i] /\ i \in 1 .. L
  <2> DEFINE D == Tops(net, deps)
             q == w.stack
  <2>1. q \in Seq(D) /\ L = Len(q) /\ L > 1 /\ s = SubSeq(q, 1, L - 1)
    BY <1>1 DEF Front
  <2> HIDE DEF D, q, L, s
  <2>2. s \in Seq(D) /\ \A i \in 1 .. L - 1 : s[i] = q[i] /\ i \in 1 .. L
    BY <2>1
  <2>3. Len(s) = L - 1 /\ L - 1 \in Nat \ {0} /\ DOMAIN s = 1 .. Len(s)
    BY <2>1, <2>2
  <2>4. DOMAIN s = 1 .. L - 1 /\ s # <<>>
    BY <2>3
  <2> QED BY <2>2, <2>4 DEF D, q
<1>5. /\ R \in Seq({Record(g) : g \in Founds(net)}) /\ DOMAIN R = 1 .. K + 1 /\ R[K + 1] = Record(f)
      /\ \A i \in 1 .. K : R[i] = w.records[i]
  <2> DEFINE D == {Record(g) : g \in Founds(net)}
             q == w.records
             r == Record(t)
  <2>1. q \in Seq(D) /\ r \in D
    BY <1>0, <1>2 DEF WalkTyped
  <2>0. r = Record(f) /\ R = Append(q, r) /\ K = Len(q)
    BY <1>2
  <2> HIDE DEF D, q, r, R, K, f
  <2>2. R \in Seq(D) /\ DOMAIN R = 1 .. K + 1 /\ R[K + 1] = r /\ \A i \in 1 .. K : R[i] = q[i]
    BY <2>0, <2>1
  <2> QED BY <2>0, <2>2 DEF D, q
<1> HIDE DEF s, t, f, R, K, L
<1>6. new.stack = s /\ new.seen = w.seen /\ new.records = R
  BY <1>1
<1>7. Met(new) = Met(w)
  BY <1>6 DEF Met
<1>8. \A i \in 1 .. K + 1 : i \in 1 .. K \/ i = K + 1
  BY <1>3
<1>9. \A i \in 1 .. K : i \in 1 .. K + 1 /\ i < K + 1
  BY <1>3
<1>10. \A g : Done(new, g) <=> Done(w, g) \/ Record(g) = Record(f)
  <2>1. \A g : Done(new, g) <=> \E i \in DOMAIN R : R[i] = Record(g)
    BY <1>6 DEF Done, ToSet
  <2>2. K + 1 \in 1 .. K + 1
    BY <1>3
  <2> QED BY <1>3, <1>5, <1>8, <1>9, <2>1, <2>2
<1>11. \A i \in 1 .. L : i = L \/ i \in 1 .. L - 1
  BY <1>1
<1>12. WalkTyped(net, deps, new)
  <2>1. 1 \in 1 .. L - 1
    BY <1>1
  <2>2. Whole(s[1]) = Start(deps)
    BY <1>0, <1>4, <2>1 DEF WalkTyped
  <2>3. \A i \in DOMAIN s : s[i].rest \subseteq DOMAIN s[i].package.deps
    BY <1>0, <1>1, <1>4 DEF WalkTyped
  <2>4. w.seen \in Seq(Founds(net))
    BY <1>0 DEF WalkTyped
  <2> QED BY <1>4, <1>5, <1>6, <2>2, <2>3, <2>4 DEF WalkTyped
<1>13. OnPath(new)
  <2>1. ASSUME NEW i \in 1 .. L - 1, i # 1 PROVE Whole(s[i]) \in Met(new) /\ ~Done(new, Whole(s[i]))
    <3>1. Whole(w.stack[i]) \in Met(w) /\ ~Done(w, Whole(w.stack[i]))
      BY <1>0, <1>1, <1>4, <2>1 DEF OnPath
    <3>2. i # L
      BY <1>1
    <3>3. w.stack[i].package.name # t.package.name
      BY <1>0, <1>1, <1>4, <3>2 DEF OnPath, t
    <3>4. Record(Whole(w.stack[i])) # Record(f)
      <4>1. Record(Whole(w.stack[i])).name = w.stack[i].package.name /\ Record(f).name = t.package.name
        BY <1>2, RecordFacts
      <4> QED BY <3>3, <4>1
    <3> QED BY <1>4, <1>7, <1>10, <3>1, <3>4
  <2>2. \A i, j \in 1 .. L - 1 : s[i].package.name = s[j].package.name => i = j
    BY <1>0, <1>1, <1>4 DEF OnPath
  <2> QED BY <1>4, <1>6, <2>1, <2>2 DEF OnPath
<1>14. Passed(net, new)
  <2> SUFFICES ASSUME NEW i \in 1 .. L - 1, NEW n \in DOMAIN s[i].package.deps \ s[i].rest
               PROVE  LET d == Found(net, n, s[i].package.deps[n])
                      IN d # Absent /\ d \in Met(new) /\ (Done(new, d) \/ (i + 1 \in 1 .. L - 1 /\ Whole(s[i + 1]) = d))
    BY <1>4, <1>6 DEF Passed
  <2> DEFINE d == Found(net, n, w.stack[i].package.deps[n])
  <2>1. n \in DOMAIN w.stack[i].package.deps \ w.stack[i].rest /\ Found(net, n, s[i].package.deps[n]) = d /\ i \in 1 .. L
    BY <1>4
  <2>2. d # Absent /\ d \in Met(w) /\ (Done(w, d) \/ (i + 1 \in 1 .. L /\ Whole(w.stack[i + 1]) = d))
    BY <1>0, <1>1, <2>1 DEF Passed
  <2> HIDE DEF d
  <2>3. Done(new, d) \/ (i + 1 \in 1 .. L - 1 /\ Whole(s[i + 1]) = d)
    <3>1. CASE Done(w, d)
      BY <1>10, <3>1
    <3>2. CASE i + 1 \in 1 .. L /\ Whole(w.stack[i + 1]) = d /\ i + 1 = L
      <4>1. d = f
        BY <3>2 DEF f, t
      <4> QED BY <1>10, <4>1
    <3>3. CASE i + 1 \in 1 .. L /\ Whole(w.stack[i + 1]) = d /\ i + 1 # L
      BY <1>4, <1>11, <3>3
    <3> QED BY <2>2, <3>1, <3>2, <3>3
  <2> QED BY <1>7, <2>1, <2>2, <2>3
<1>15. OneEach(new)
  <2>1. ASSUME NEW g \in Met(w) PROVE g.package.name # Root /\ Fits(g.package) /\ (Done(new, g) \/ \E i \in DOMAIN new.stack : i # 1 /\ Whole(new.stack[i]) = g)
    <3>1. g.package.name # Root /\ Fits(g.package) /\ (Done(w, g) \/ \E i \in 1 .. L : i # 1 /\ Whole(w.stack[i]) = g)
      BY <1>0, <1>1 DEF OneEach
    <3>2. CASE Done(w, g)
      BY <1>10, <3>1, <3>2
    <3>3. ASSUME NEW i \in 1 .. L, i # 1, Whole(w.stack[i]) = g PROVE Done(new, g) \/ \E j \in DOMAIN new.stack : j # 1 /\ Whole(new.stack[j]) = g
      <4>1. CASE i = L
        <5>1. g = f
          BY <3>3, <4>1 DEF f, t
        <5> QED BY <1>10, <5>1
      <4>2. CASE i \in 1 .. L - 1
        BY <1>4, <1>6, <3>3, <4>2
      <4> QED BY <1>11, <4>1, <4>2
    <3> QED BY <3>1, <3>2, <3>3
  <2>2. \A g, h \in Met(w) : g.package.name = h.package.name => g = h
    BY <1>0 DEF OneEach
  <2> QED BY <1>7, <2>1, <2>2 DEF OneEach
<1>16. Ordered(net, new)
  <2>1. \A i \in 1 .. K : \E g \in Met(w) : w.records[i] = Record(g)
    BY <1>0, <1>3 DEF Ordered
  <2>2. \A i \in 1 .. K + 1 : \E g \in Met(new) : R[i] = Record(g)
    BY <1>2, <1>5, <1>7, <1>8, <2>1
  <2>3. ASSUME NEW i \in 1 .. K PROVE R[i].name # R[K + 1].name
    <3>1. PICK g \in Met(w) : w.records[i] = Record(g)
      BY <2>1
    <3>2. Done(w, g)
      BY <1>3, <3>1
    <3>3. g # f
      BY <1>2, <3>2
    <3>4. g.package.name # f.package.name
      BY <1>0, <1>2, <3>3 DEF OneEach
    <3> QED BY <1>5, <3>1, <3>4, RecordFacts
  <2>4. \A i, j \in 1 .. K + 1 : R[i].name = R[j].name => i = j
    <3>1. \A i, j \in 1 .. K : R[i].name = R[j].name => i = j
      BY <1>0, <1>3, <1>5 DEF Ordered
    <3> QED BY <1>8, <2>3, <3>1
  <2>5. ASSUME NEW i \in 1 .. K + 1, NEW n \in DOMAIN R[i].sha256.deps
        PROVE  LET d == Found(net, n, R[i].sha256.deps[n])
               IN d # Absent /\ \E j \in 1 .. K + 1 : j < i /\ R[j] = Record(d)
    <3> DEFINE d == Found(net, n, R[i].sha256.deps[n])
    <3>1. CASE i \in 1 .. K
      <4> DEFINE e == Found(net, n, w.records[i].sha256.deps[n])
      <4>1. R[i] = w.records[i] /\ n \in DOMAIN w.records[i].sha256.deps
        BY <1>5, <3>1
      <4>2. e # Absent /\ \E j \in 1 .. K : j < i /\ w.records[j] = Record(e)
        BY <1>0, <1>3, <3>1, <4>1 DEF Ordered
      <4>3. d = e
        BY <4>1
      <4> HIDE DEF d, e
      <4>4. \E j \in 1 .. K + 1 : j < i /\ R[j] = Record(d)
        BY <1>5, <1>9, <4>2, <4>3
      <4>5. d # Absent
        BY <4>2, <4>3
      <4> QED BY <4>4, <4>5 DEF d
    <3>2. CASE i = K + 1
      <4>1. R[i].sha256 = t.package
        BY <1>2, <1>5, <3>2, RecordFacts
      <4> DEFINE e == Found(net, n, t.package.deps[n])
      <4>2. n \in DOMAIN t.package.deps \ t.rest
        BY <1>1, <4>1
      <4>3. e # Absent /\ (Done(w, e) \/ (L + 1 \in 1 .. L /\ Whole(w.stack[L + 1]) = e))
        BY <1>0, <1>1, <4>2 DEF Passed, t
      <4>4. ~(L + 1 \in 1 .. L)
        BY <1>1
      <4>5. d = e
        BY <4>1
      <4> HIDE DEF d, e
      <4>6. PICK j \in 1 .. K : w.records[j] = Record(d)
        BY <1>3, <4>3, <4>4, <4>5
      <4>7. j \in 1 .. K + 1 /\ j < i /\ R[j] = Record(d)
        BY <1>5, <1>9, <3>2, <4>6
      <4>8. d # Absent
        BY <4>3, <4>5
      <4> QED BY <4>7, <4>8 DEF d
    <3> QED BY <1>8, <3>1, <3>2
  <2> QED BY <1>5, <1>6, <2>2, <2>4, <2>5 DEF Ordered
<1>17. Beneath(net, deps, new)
  BY <1>0, <1>1, <1>4, <1>6, <1>7 DEF Beneath
<1> QED BY <1>7, <1>12, <1>13, <1>14, <1>15, <1>16, <1>17 DEF WalkOK

\* At its end a call has met exactly what is needed, and recorded it in order.
Solved(net, deps, records) ==
  /\ ToSet(records) = {Record(f) : f \in Under(net, Start(deps))}
  /\ \A i, j \in DOMAIN records : records[i].name = records[j].name => i = j
  /\ \A i \in DOMAIN records : \A name \in DOMAIN records[i].sha256.deps :
       \E j \in DOMAIN records : j < i /\ records[j].name = name

LEMMA EndsOK ==
  ASSUME NEW net, NetOK(net), NEW deps, Declared(deps), NEW w, WalkOK(net, deps, w), AtEnd(w)
  PROVE  SoundIn(net, deps) /\ Solved(net, deps, w.records) /\ ToSet(w.records) = {Record(f) : f \in Met(w)}
<1> DEFINE U == Under(net, Start(deps))
           M == Met(w)
           R == w.records
           K == Len(R)
           b == Start(deps)
<1>0. WalkTyped(net, deps, w) /\ OnPath(w) /\ Passed(net, w) /\ OneEach(w) /\ Ordered(net, w) /\ Beneath(net, deps, w)
  BY DEF WalkOK
<1>1. /\ DOMAIN w.stack = {1} /\ w.stack[1].rest = {} /\ M \subseteq Founds(net)
      /\ w.stack[1].package = b.package /\ b.package.deps = deps
  <2>1. Len(w.stack) = 1 /\ WalkTop(w).rest = {} /\ WalkTop(w) = w.stack[Len(w.stack)] /\ DOMAIN w.stack = 1 .. Len(w.stack)
    BY <1>0, TypedFacts DEF AtEnd
  <2>2. DOMAIN w.stack = {1} /\ w.stack[1].rest = {}
    BY <2>1
  <2>3. Whole(w.stack[1]) = b /\ b.package.deps = deps
    BY <1>0, StartFacts DEF WalkTyped
  <2>4. w.stack[1].package = b.package
    BY <2>3, RecordFacts
  <2> QED BY <1>0, <2>2, <2>3, <2>4, TypedFacts
<1>2. K \in Nat /\ DOMAIN R = 1 .. K /\ \A f : Done(w, f) <=> \E i \in 1 .. K : R[i] = Record(f)
  BY <1>0, TypedFacts
<1>3. \A f \in M : Done(w, f)
  BY <1>0, <1>1 DEF OneEach
<1>4. \A i \in 1 .. K : \E f \in M : R[i] = Record(f)
  BY <1>0, <1>2 DEF Ordered
<1>5. ToSet(R) = {Record(f) : f \in M}
  BY <1>2, <1>3, <1>4 DEF ToSet
<1>6. ASSUME NEW name \in DOMAIN deps PROVE Found(net, name, deps[name]) # Absent /\ Found(net, name, deps[name]) \in M
  BY <1>0, <1>1 DEF Passed
<1>7. ASSUME NEW i \in 1 .. K, NEW f \in M, R[i] = Record(f), NEW name \in DOMAIN f.package.deps
      PROVE  LET c == Found(net, name, f.package.deps[name])
             IN c # Absent /\ c \in M /\ \E j \in 1 .. K : j < i /\ R[j] = Record(c)
  <2> DEFINE c == Found(net, name, f.package.deps[name])
  <2>1. R[i].sha256 = f.package
    BY <1>7, RecordFacts
  <2>2. c # Absent /\ \E j \in 1 .. K : j < i /\ R[j] = Record(c)
    BY <1>0, <1>2, <2>1 DEF Ordered
  <2>3. PICK j \in 1 .. K : j < i /\ R[j] = Record(c)
    BY <2>2
  <2>4. PICK g \in M : R[j] = Record(g)
    BY <1>4
  <2>5. c \in Founds(net)
    BY <1>1, <2>2, FoundsFacts, FoundFacts
  <2> HIDE DEF c
  <2>6. c = g
    <3>1. Whole(c) = Whole(g)
      BY <2>3, <2>4, RecordFacts
    <3> QED BY <1>1, <2>5, <3>1, FoundsFacts
  <2> QED BY <2>2, <2>4, <2>6 DEF c
<1>8. ASSUME NEW f \in M PROVE \E i \in 1 .. K : R[i] = Record(f)
  BY <1>2, <1>3
<1>9. M = U
  <2>1. Kids(net, b) \subseteq M
    BY <1>1, <1>6, KidsFound
  <2>2. ASSUME NEW f \in M, NEW k \in Kids(net, f) PROVE k \in M
    <3>1. PICK name \in DOMAIN f.package.deps : k = Found(net, name, f.package.deps[name])
      BY <1>1, FoundsFacts, KidsFound
    <3> QED BY <1>7, <1>8, <3>1
  <2>3. Closed(net, M)
    BY <2>2 DEF Closed
  <2>4. U \subseteq M
    BY <1>1, <2>1, <2>3, UnderFacts
  <2> QED BY <1>0, <2>4 DEF Beneath
<1>10. \A i, j \in 1 .. K : R[i].name = R[j].name => i = j
  BY <1>0, <1>2 DEF Ordered
<1>11. ~BrokenIn(net, deps)
  <2>1. \A name \in DOMAIN b.package.deps : Found(net, name, b.package.deps[name]) # Absent
    BY <1>1, <1>6
  <2>2. \A f \in M : \A name \in DOMAIN f.package.deps : Found(net, name, f.package.deps[name]) # Absent
    BY <1>7, <1>8
  <2> QED BY <1>9, <2>1, <2>2 DEF BrokenIn
<1>12. ~Conflicting(U)
  BY <1>0, <1>9 DEF OneEach, Conflicting
<1>13. ~Unfit(U)
  BY <1>0, <1>9 DEF OneEach, Unfit
<1>14. ASSUME NEW f \in U PROVE f.package.name # Root /\ f \notin Under(net, f)
  <2>1. f \in M /\ f.package.name # Root
    BY <1>0, <1>9 DEF OneEach
  <2>2. PICK p \in 1 .. K : R[p] = Record(f)
    BY <1>8, <2>1
  <2> DEFINE T == {g \in M : \E j \in 1 .. K : j < p /\ R[j] = Record(g)}
  <2>3. Declared(f.package.deps)
    BY <1>1, <2>1, FoundsFacts
  <2>4. Kids(net, f) \subseteq T
    <3>1. ASSUME NEW k \in Kids(net, f) PROVE k \in T
      <4>1. PICK name \in DOMAIN f.package.deps : k = Found(net, name, f.package.deps[name])
        BY <2>3, KidsFound
      <4> QED BY <1>7, <2>1, <2>2, <4>1
    <3> QED BY <3>1
  <2>5. Closed(net, T)
    <3>1. ASSUME NEW g \in T, NEW k \in Kids(net, g) PROVE k \in T
      <4>1. PICK j \in 1 .. K : j < p /\ R[j] = Record(g)
        BY <3>1
      <4>2. g \in M /\ Declared(g.package.deps)
        BY <1>1, FoundsFacts
      <4>3. PICK name \in DOMAIN g.package.deps : k = Found(net, name, g.package.deps[name])
        BY <4>2, KidsFound
      <4>4. k \in M /\ \E l \in 1 .. K : l < j /\ R[l] = Record(k)
        BY <1>7, <4>1, <4>2, <4>3
      <4>5. PICK l \in 1 .. K : l < j /\ R[l] = Record(k)
        BY <4>4
      <4>6. l < p
        BY <1>2, <4>1, <4>5
      <4> QED BY <4>4, <4>5, <4>6
    <3> HIDE DEF T
    <3> QED BY <3>1 DEF Closed
  <2>6. T \in SUBSET Founds(net)
    BY <1>1
  <2>7. f \notin T
    <3> SUFFICES ASSUME NEW j \in 1 .. K, j < p, R[j] = Record(f) PROVE FALSE
      OBVIOUS
    <3>1. j = p
      BY <1>10, <2>2
    <3> QED BY <1>2, <3>1
  <2>8. Under(net, f) \subseteq T
    <3> HIDE DEF T
    <3> QED BY <2>3, <2>4, <2>5, <2>6, UnderFacts
  <2> QED BY <2>1, <2>7, <2>8
<1>15. SoundIn(net, deps)
  BY <1>11, <1>12, <1>13, <1>14 DEF SoundIn
<1>16. ASSUME NEW i \in 1 .. K, NEW name \in DOMAIN R[i].sha256.deps PROVE \E j \in 1 .. K : j < i /\ R[j].name = name
  <2>1. PICK f \in M : R[i] = Record(f)
    BY <1>4
  <2>2. R[i].sha256 = f.package
    BY <2>1, RecordFacts
  <2> DEFINE c == Found(net, name, f.package.deps[name])
  <2>3. c # Absent /\ \E j \in 1 .. K : j < i /\ R[j] = Record(c)
    BY <1>7, <2>1, <2>2
  <2>4. c.package.name = name
    BY <1>1, <2>2, <2>3, FoundsFacts, FoundFacts
  <2> HIDE DEF c
  <2> QED BY <2>3, <2>4, RecordFacts
<1>17. Solved(net, deps, R)
  BY <1>2, <1>5, <1>9, <1>10, <1>16 DEF Solved
<1> QED BY <1>5, <1>15, <1>17

-----------------------------------------------------------------------------
(* The order of the records depends on nothing but the manifest and the     *)
(* packages themselves: two walks through the same packages are the same.   *)
StartWalk(deps) == [stack |-> <<Start(deps)>>, seen |-> <<>>, records |-> <<>>]
KnownStep(P, w, new) ==
  \/ /\ WalkTop(w).rest # {}
     /\ \E c \in P : /\ c.package.name = Next0(w)
                     /\ \/ c \in Met(w) /\ new = [stack |-> WalkRest(w), seen |-> w.seen, records |-> w.records]
                        \/ /\ c \notin Met(w)
                           /\ new = [stack |-> Append(WalkRest(w), c), seen |-> Append(w.seen, c), records |-> w.records]
  \/ Leaves(w, new)
OneName(P) == \A f, g \in P : f.package.name = g.package.name => f = g
KnownWalk(deps, P, h, n) == h[0] = StartWalk(deps) /\ \A i \in 0 .. n - 1 : KnownStep(P, h[i], h[i + 1])
KnownTo(deps, P, w) == \E n \in Nat : \E h : KnownWalk(deps, P, h, n) /\ h[n] = w

LEMMA KnownOnce ==
  ASSUME NEW P, OneName(P), NEW w, NEW new, KnownStep(P, w, new)
  PROVE  ~AtEnd(w) /\ \A other : KnownStep(P, w, other) => other = new
<1>1. Leaves(w, new) => ~AtEnd(w)
  <2>1. \A l : l = 1 => ~(l > 1)
    OBVIOUS
  <2> QED BY <2>1 DEF Leaves, AtEnd
<1>2. WalkTop(w).rest # {} => ~AtEnd(w)
  BY DEF AtEnd
<1>3. ASSUME NEW other, KnownStep(P, w, other) PROVE other = new
  <2>1. CASE WalkTop(w).rest = {}
    BY <1>3, <2>1 DEF KnownStep, Leaves
  <2>2. CASE WalkTop(w).rest # {}
    <3>1. \A x : ~Leaves(w, x)
      BY <2>2 DEF Leaves
    <3>2. PICK c \in P : /\ c.package.name = Next0(w)
                         /\ \/ c \in Met(w) /\ new = [stack |-> WalkRest(w), seen |-> w.seen, records |-> w.records]
                            \/ /\ c \notin Met(w)
                               /\ new = [stack |-> Append(WalkRest(w), c), seen |-> Append(w.seen, c), records |-> w.records]
      BY <3>1 DEF KnownStep
    <3>3. PICK d \in P : /\ d.package.name = Next0(w)
                         /\ \/ d \in Met(w) /\ other = [stack |-> WalkRest(w), seen |-> w.seen, records |-> w.records]
                            \/ /\ d \notin Met(w)
                               /\ other = [stack |-> Append(WalkRest(w), d), seen |-> Append(w.seen, d), records |-> w.records]
      BY <1>3, <3>1 DEF KnownStep
    <3>4. c = d
      BY <3>2, <3>3 DEF OneName
    <3> QED BY <3>2, <3>3, <3>4
  <2> QED BY <2>1, <2>2
<1> QED BY <1>1, <1>2, <1>3 DEF KnownStep

\* A walk goes on when more is known.
LEMMA KnownOn ==
  ASSUME NEW deps, NEW P, NEW w, KnownTo(deps, P, w), NEW Q, P \subseteq Q, NEW new, KnownStep(Q, w, new)
  PROVE  KnownTo(deps, Q, new)
<1>0. PICK n \in Nat : \E h : KnownWalk(deps, P, h, n) /\ h[n] = w
  BY DEF KnownTo
<1>1. PICK h : KnownWalk(deps, P, h, n) /\ h[n] = w
  BY <1>0
<1> DEFINE g == [i \in 0 .. n + 1 |-> IF i = n + 1 THEN new ELSE h[i]]
<1>2. g[0] = h[0] /\ g[n] = h[n] /\ g[n + 1] = new
  OBVIOUS
<1>3. \A i \in 0 .. n - 1 : g[i] = h[i] /\ g[i + 1] = h[i + 1]
  OBVIOUS
<1>4. \A i \in 0 .. (n + 1) - 1 : i \in 0 .. n - 1 \/ i = n
  OBVIOUS
<1>5. \A v, x : KnownStep(P, v, x) => KnownStep(Q, v, x)
  BY DEF KnownStep
<1> HIDE DEF g
<1>6. \A i \in 0 .. (n + 1) - 1 : KnownStep(Q, g[i], g[i + 1])
  BY <1>1, <1>2, <1>3, <1>4, <1>5 DEF KnownWalk
<1>7. KnownWalk(deps, Q, g, n + 1)
  BY <1>1, <1>2, <1>6 DEF KnownWalk
<1>8. n + 1 \in Nat
  OBVIOUS
<1> QED BY <1>2, <1>7, <1>8 DEF KnownTo

\* Two walks through the same packages end the same.
LEMMA KnownEnds ==
  ASSUME NEW deps, NEW P, OneName(P), NEW v, KnownTo(deps, P, v), AtEnd(v), NEW w, KnownTo(deps, P, w), AtEnd(w)
  PROVE  v = w
<1>0. PICK n \in Nat : \E h : KnownWalk(deps, P, h, n) /\ h[n] = v
  BY DEF KnownTo
<1>1. PICK h : KnownWalk(deps, P, h, n) /\ h[n] = v
  BY <1>0
<1>2. PICK m \in Nat : \E h2 : KnownWalk(deps, P, h2, m) /\ h2[m] = w
  BY DEF KnownTo
<1>3. PICK g : KnownWalk(deps, P, g, m) /\ g[m] = w
  BY <1>2
<1> DEFINE T == {k \in Nat : k <= n /\ k <= m => h[k] = g[k]}
<1>4. 0 \in T
  BY <1>1, <1>3 DEF KnownWalk
<1>5. ASSUME NEW k \in 1 .. n, k - 1 \in T PROVE k \in T
  <2>1. k \in Nat /\ k - 1 \in Nat /\ (k - 1) + 1 = k
    OBVIOUS
  <2>2. ASSUME k <= m PROVE h[k] = g[k]
    <3>1. k - 1 \in 0 .. n - 1 /\ k - 1 \in 0 .. m - 1 /\ k - 1 <= n /\ k - 1 <= m
      BY <2>2
    <3>2. h[k - 1] = g[k - 1]
      BY <1>5, <3>1
    <3>3. KnownStep(P, h[k - 1], h[k]) /\ KnownStep(P, g[k - 1], g[k])
      BY <1>1, <1>3, <2>1, <3>1 DEF KnownWalk
    <3> QED BY <3>2, <3>3, KnownOnce
  <2> QED BY <2>1, <2>2
<1>6. \A k \in 0 .. n : k <= m => h[k] = g[k]
  <2> HIDE DEF T
  <2>1. \A k \in 0 .. n : k \in T
    BY <1>4, <1>5, CountedInduction
  <2> QED BY <2>1 DEF T
<1> HIDE DEF T
<1>7. ~(n < m)
  <2> SUFFICES ASSUME n < m PROVE FALSE
    OBVIOUS
  <2>1. n \in 0 .. n /\ n <= m /\ n \in 0 .. m - 1
    OBVIOUS
  <2>2. g[n] = v
    BY <1>1, <1>6, <2>1
  <2>3. KnownStep(P, g[n], g[n + 1])
    BY <1>3, <2>1 DEF KnownWalk
  <2> QED BY <2>2, <2>3, KnownOnce
<1>8. ~(m < n)
  <2> SUFFICES ASSUME m < n PROVE FALSE
    OBVIOUS
  <2>1. m \in 0 .. n /\ m <= m /\ m \in 0 .. n - 1
    OBVIOUS
  <2>2. h[m] = w
    BY <1>3, <1>6, <2>1
  <2>3. KnownStep(P, h[m], h[m + 1])
    BY <1>1, <2>1 DEF KnownWalk
  <2> QED BY <2>2, <2>3, KnownOnce
<1>9. n = m /\ n \in 0 .. n
  BY <1>7, <1>8
<1> QED BY <1>1, <1>3, <1>6, <1>9

\* The lock is the end of a walk through the packages it names.
LockMade(written) ==
  \E P : /\ OneName(P) /\ \A f \in P : Whole(f) = f
         /\ ToSet(written.packages) = {Record(f) : f \in P}
         /\ \E w : KnownTo(written.root, P, w) /\ AtEnd(w) /\ w.records = written.packages

\* A lock of the same packages has them in the same order.
LEMMA LocksAgree ==
  ASSUME NEW written, LockMade(written), NEW P, OneName(P), \A f \in P : Whole(f) = f,
         NEW w, KnownTo(written.root, P, w), AtEnd(w), ToSet(written.packages) = {Record(f) : f \in P}
  PROVE  written.packages = w.records
<1>1. PICK Q : /\ OneName(Q) /\ \A f \in Q : Whole(f) = f
               /\ ToSet(written.packages) = {Record(f) : f \in Q}
               /\ \E v : KnownTo(written.root, Q, v) /\ AtEnd(v) /\ v.records = written.packages
  BY DEF LockMade
<1>2. \A f \in P : f \in Q
  <2> SUFFICES ASSUME NEW f \in P PROVE f \in Q
    OBVIOUS
  <2>1. Record(f) \in {Record(g) : g \in Q}
    BY <1>1
  <2>2. PICK g \in Q : Record(f) = Record(g)
    BY <2>1
  <2> QED BY <1>1, <2>2, RecordFacts
<1>3. \A g \in Q : g \in P
  <2> SUFFICES ASSUME NEW g \in Q PROVE g \in P
    OBVIOUS
  <2>1. Record(g) \in {Record(f) : f \in P}
    BY <1>1
  <2>2. PICK f \in P : Record(f) = Record(g)
    BY <2>1
  <2> QED BY <1>1, <2>2, RecordFacts
<1>4. P = Q
  BY <1>2, <1>3
<1>5. PICK v : KnownTo(written.root, P, v) /\ AtEnd(v) /\ v.records = written.packages
  BY <1>1, <1>4
<1>6. v = w
  BY <1>5, KnownEnds
<1> QED BY <1>5, <1>6

-----------------------------------------------------------------------------
(* The calls of resolve.                                                    *)
Legal ==
  /\ Declared(manifest) /\ Indexed(published) /\ DOMAIN local = Directories
  /\ \A d \in Directories : Declared(local[d].deps)
CallOf ==
  /\ call.pc \in {"idle", "visiting", "returned", "failed"}
  /\ call.pc \in {"visiting", "returned"} => call.registry \in Registries /\ (call.locked => lockFile # Absent)
  /\ call.pc = "failed" /\ call.registry # Absent => call.registry \in Registries
OnWalk == call.pc = "visiting" => WalkOK(Net, manifest, WalkOf(call)) /\ KnownTo(manifest, Met(WalkOf(call)), WalkOf(call))
LockKept == lockFile # Absent => LockMade(lockFile) /\ lockFile = [root |-> lockFile.root, packages |-> lockFile.packages]

\* How a call has to end, in a graph and beside a lock.
DescribedBy(net, deps, written) ==
  written.root = deps /\ ToSet(written.packages) = {Record(f) : f \in Under(net, Start(deps))}
EndsRightly(net, deps, written, c) ==
  /\ c.pc = "returned" => /\ SoundIn(net, deps) /\ Solved(net, deps, c.records)
                          /\ written = [root |-> deps, packages |-> c.records]
  /\ c.pc = "failed" => ~(SoundIn(net, deps) /\ (c.locked => DescribedBy(net, deps, written)))
EndedRightly == call.pc = "returned" \/ (call.pc = "failed" /\ call.registry # Absent) => EndsRightly(Net, manifest, lockFile, call)

SolvesInv == CallTyped /\ Legal /\ CallOf /\ OnWalk /\ LockKept /\ EndedRightly

LEMMA NetLegal ==
  ASSUME Legal, call.registry \in Registries
  PROVE  NetOK(Net)
BY DEF Legal, NetOK, Net

\* A visit, as a step of the walk.
LEMMA VisitIs ==
  ASSUME CallTyped, Visit
  PROVE  LET w == WalkOf(call)
             c == Child0(Net, w)
         IN /\ call.pc = "visiting" /\ WalkTop(w).rest # {} /\ UNCHANGED <<manifest, local, published, lockFile>>
            /\ CallTyped' /\ Net' = Net /\ call'.registry = call.registry /\ call'.locked = call.locked
            /\ \/ /\ call'.pc = "failed"
                  /\ \/ Next0(w) \in WalkActive(w) \/ c = Absent
                     \/ \E f \in WalkSeen(w, c.package.name) : Identity(f) # Identity(c)
                     \/ ~Fits(c.package)
               \/ /\ call'.pc = "visiting" /\ Next0(w) \notin WalkActive(w) /\ c # Absent
                  /\ \/ /\ WalkSeen(w, c.package.name) # {} /\ \A f \in WalkSeen(w, c.package.name) : Identity(f) = Identity(c)
                        /\ WalkOf(call') = [stack |-> WalkRest(w), seen |-> w.seen, records |-> w.records]
                     \/ /\ WalkSeen(w, c.package.name) = {} /\ Fits(c.package)
                        /\ WalkOf(call') = [stack |-> Append(WalkRest(w), c), seen |-> Append(w.seen, c), records |-> w.records]
<1> DEFINE w == WalkOf(call)
           name == First(Top.rest)
           spec == Top.package.deps[name]
           id == <<call.registry, name, spec.version>>
           c == Child0(Net, w)
           child == Child(name, spec)
<1>1. /\ call.pc = "visiting" /\ Top.rest # {} /\ UNCHANGED <<manifest, local, published, lockFile>>
      /\ IF name \in Active \/ child = Absent THEN FailCall
         ELSE Entered(child) /\ fetched' = IF spec.kind = "path" THEN fetched ELSE Kept(id)
  BY DEF Visit
<1>2. /\ WalkTop(w) = Top /\ WalkActive(w) = Active /\ WalkRest(w) = Rest /\ \A n : WalkSeen(w, n) = Seen(n)
      /\ w.seen = call.seen /\ w.records = call.records /\ w.stack = call.stack
  BY DEF WalkOf, WalkTop, Top, WalkActive, Active, WalkRest, Rest, WalkSeen, Seen
<1>3. Next0(w) = name /\ child = c
  BY <1>2 DEF Next0, Child0, Child, Found, Net
<1>4. child # Absent /\ call.offline /\ spec.kind # "path" => id \in fetched
  BY DEF Child
<1> HIDE DEF w, name, spec, c, child
<1>5. CASE name \in Active \/ child = Absent
  <2>1. call' = [call EXCEPT !.pc = "failed"] /\ fetched' = fetched
    BY <1>1, <1>5 DEF FailCall
  <2>2. CallTyped' /\ call'.pc = "failed" /\ call'.registry = call.registry /\ call'.offline = call.offline /\ call'.locked = call.locked
    BY <2>1 DEF CallTyped
  <2>3. Net' = Net
    BY <1>1, <2>1, <2>2 DEF Net
  <2>4. Next0(w) \in WalkActive(w) \/ c = Absent
    BY <1>2, <1>3, <1>5
  <2> QED BY <1>1, <1>2, <2>2, <2>3, <2>4 DEF w, c
<1>6. CASE name \notin Active /\ child # Absent
  <2>1. Entered(c) /\ fetched' = IF spec.kind = "path" THEN fetched ELSE Kept(id)
    BY <1>1, <1>3, <1>6
  <2>2. call.offline => fetched' = fetched
    BY <1>4, <1>6, <2>1 DEF Kept
  <2>3. Next0(w) \notin WalkActive(w) /\ c # Absent
    BY <1>2, <1>3, <1>6
  <2>4. \/ /\ call' = [call EXCEPT !.pc = "failed"]
           /\ (\E f \in Seen(c.package.name) : Identity(f) # Identity(c)) \/ ~Fits(c.package)
        \/ /\ call' = [call EXCEPT !.stack = Rest]
           /\ Seen(c.package.name) # {} /\ \A f \in Seen(c.package.name) : Identity(f) = Identity(c)
        \/ /\ call' = [call EXCEPT !.stack = Append(Rest, c), !.seen = Append(@, c)]
           /\ Seen(c.package.name) = {} /\ Fits(c.package)
    BY <2>1 DEF Entered
  <2>5. CASE call' = [call EXCEPT !.pc = "failed"] /\ ((\E f \in Seen(c.package.name) : Identity(f) # Identity(c)) \/ ~Fits(c.package))
    <3>1. CallTyped' /\ call'.pc = "failed" /\ call'.registry = call.registry /\ call'.offline = call.offline /\ call'.locked = call.locked
      BY <2>5 DEF CallTyped
    <3>2. Net' = Net
      BY <1>1, <2>2, <3>1 DEF Net
    <3>3. (\E f \in WalkSeen(w, c.package.name) : Identity(f) # Identity(c)) \/ ~Fits(c.package)
      BY <1>2, <2>5
    <3> QED BY <1>1, <1>2, <3>1, <3>2, <3>3 DEF w, c
  <2>6. CASE /\ call' = [call EXCEPT !.stack = Rest]
             /\ Seen(c.package.name) # {} /\ \A f \in Seen(c.package.name) : Identity(f) = Identity(c)
    <3>1. /\ CallTyped' /\ call'.pc = "visiting" /\ call'.registry = call.registry /\ call'.offline = call.offline /\ call'.locked = call.locked
          /\ call'.stack = Rest /\ call'.seen = call.seen /\ call'.records = call.records
      BY <1>1, <2>6 DEF CallTyped
    <3>2. Net' = Net
      BY <1>1, <2>2, <3>1 DEF Net
    <3>3. WalkOf(call') = [stack |-> WalkRest(w), seen |-> w.seen, records |-> w.records]
      BY <1>2, <3>1 DEF WalkOf
    <3>4. WalkSeen(w, c.package.name) # {} /\ \A f \in WalkSeen(w, c.package.name) : Identity(f) = Identity(c)
      BY <1>2, <2>6
    <3> QED BY <1>1, <1>2, <2>3, <3>1, <3>2, <3>3, <3>4 DEF w, c
  <2>7. CASE /\ call' = [call EXCEPT !.stack = Append(Rest, c), !.seen = Append(@, c)]
             /\ Seen(c.package.name) = {} /\ Fits(c.package)
    <3>1. /\ CallTyped' /\ call'.pc = "visiting" /\ call'.registry = call.registry /\ call'.offline = call.offline /\ call'.locked = call.locked
          /\ call'.stack = Append(Rest, c) /\ call'.seen = Append(call.seen, c) /\ call'.records = call.records
      <4> DEFINE s == Append(Rest, c)
                 v == Append(call.seen, c)
      <4>1. call' = [call EXCEPT !.stack = s, !.seen = v]
        BY <2>7
      <4> HIDE DEF s, v
      <4>2. /\ CallTyped' /\ call'.pc = "visiting" /\ call'.registry = call.registry /\ call'.offline = call.offline /\ call'.locked = call.locked
            /\ call'.stack = s /\ call'.seen = v /\ call'.records = call.records
        BY <1>1, <4>1 DEF CallTyped
      <4> QED BY <4>2 DEF s, v
    <3>2. Net' = Net
      BY <1>1, <2>2, <3>1 DEF Net
    <3>3. WalkOf(call') = [stack |-> Append(WalkRest(w), c), seen |-> Append(w.seen, c), records |-> w.records]
      BY <1>2, <3>1 DEF WalkOf
    <3>4. WalkSeen(w, c.package.name) = {} /\ Fits(c.package)
      BY <1>2, <2>7
    <3> QED BY <1>1, <1>2, <2>3, <3>1, <3>2, <3>3, <3>4 DEF w, c
  <2> QED BY <2>4, <2>5, <2>6, <2>7
<1> QED BY <1>5, <1>6

LEMMA VisitSolves ==
  ASSUME SolvesInv, Visit
  PROVE  SolvesInv'
<1> DEFINE w == WalkOf(call)
           c == Child0(Net, w)
           new == WalkOf(call')
           net == Net
<1>1. /\ call.pc = "visiting" /\ WalkTop(w).rest # {} /\ UNCHANGED <<manifest, local, published, lockFile>>
      /\ CallTyped' /\ Net' = Net /\ call'.registry = call.registry /\ call'.locked = call.locked
      /\ \/ /\ call'.pc = "failed"
            /\ \/ Next0(w) \in WalkActive(w) \/ c = Absent
               \/ \E f \in WalkSeen(w, c.package.name) : Identity(f) # Identity(c)
               \/ ~Fits(c.package)
         \/ /\ call'.pc = "visiting" /\ Next0(w) \notin WalkActive(w) /\ c # Absent
            /\ \/ /\ WalkSeen(w, c.package.name) # {} /\ \A f \in WalkSeen(w, c.package.name) : Identity(f) = Identity(c)
                  /\ new = [stack |-> WalkRest(w), seen |-> w.seen, records |-> w.records]
               \/ /\ WalkSeen(w, c.package.name) = {} /\ Fits(c.package)
                  /\ new = [stack |-> Append(WalkRest(w), c), seen |-> Append(w.seen, c), records |-> w.records]
  BY VisitIs DEF SolvesInv
<1>2. /\ Legal /\ CallOf /\ LockKept /\ call.registry \in Registries /\ NetOK(net) /\ Declared(manifest)
      /\ WalkOK(net, manifest, w) /\ KnownTo(manifest, Met(w), w)
  BY <1>1, NetLegal DEF SolvesInv, CallOf, OnWalk, Legal
<1>3. Legal' /\ LockKept' /\ CallOf'
  BY <1>1, <1>2 DEF Legal, LockKept, CallOf
<1> HIDE DEF w, new, net
<1>4. CASE call'.pc = "failed"
  <2>1. ~SoundIn(net, manifest)
    BY <1>1, <1>2, <1>4, FailsRightly DEF net
  <2>2. EndedRightly'
    BY <1>1, <1>4, <2>1 DEF EndedRightly, EndsRightly, net
  <2> QED BY <1>1, <1>3, <1>4, <2>2 DEF SolvesInv, OnWalk
<1>5. ASSUME call'.pc = "visiting", WalkOK(net, manifest, new), KnownTo(manifest, Met(new), new) PROVE SolvesInv'
  <2>1. OnWalk'
    BY <1>1, <1>5 DEF OnWalk, new, net
  <2>2. EndedRightly'
    BY <1>5 DEF EndedRightly
  <2> QED BY <1>1, <1>3, <2>1, <2>2 DEF SolvesInv
<1>6. CASE /\ call'.pc = "visiting" /\ Next0(w) \notin WalkActive(w) /\ c # Absent
           /\ WalkSeen(w, c.package.name) # {} /\ \A f \in WalkSeen(w, c.package.name) : Identity(f) = Identity(c)
           /\ new = [stack |-> WalkRest(w), seen |-> w.seen, records |-> w.records]
  <2>1. c \in Met(w) /\ WalkOK(net, manifest, new)
    BY <1>1, <1>2, <1>6, PassesAgain DEF net
  <2>2. Met(new) = Met(w)
    BY <1>6 DEF Met
  <2>3. c.package.name = Next0(w)
    BY <1>1, <1>2, <1>6, ChildFacts DEF net
  <2>4. KnownStep(Met(new), w, new)
    BY <1>1, <1>6, <2>1, <2>2, <2>3 DEF KnownStep
  <2>5. KnownTo(manifest, Met(new), new)
    BY <1>2, <2>2, <2>4, KnownOn
  <2> QED BY <1>5, <1>6, <2>1, <2>5
<1>7. CASE /\ call'.pc = "visiting" /\ Next0(w) \notin WalkActive(w) /\ c # Absent
           /\ WalkSeen(w, c.package.name) = {} /\ Fits(c.package)
           /\ new = [stack |-> Append(WalkRest(w), c), seen |-> Append(w.seen, c), records |-> w.records]
  <2>1. WalkOK(net, manifest, new) /\ Met(new) = Met(w) \cup {c} /\ c \notin Met(w)
    BY <1>1, <1>2, <1>7, PassesFirst DEF net
  <2>2. c.package.name = Next0(w)
    BY <1>1, <1>2, <1>7, ChildFacts DEF net
  <2>3. KnownStep(Met(new), w, new)
    BY <1>1, <1>7, <2>1, <2>2 DEF KnownStep
  <2>4. KnownTo(manifest, Met(new), new)
    BY <1>2, <2>1, <2>3, KnownOn
  <2> QED BY <1>5, <1>7, <2>1, <2>4
<1> QED BY <1>1, <1>4, <1>6, <1>7

LEMMA LeaveSolves ==
  ASSUME SolvesInv, Leave
  PROVE  SolvesInv'
<1> DEFINE w == WalkOf(call)
           new == WalkOf(call')
           net == Net
<1>1. /\ call.pc = "visiting" /\ CallTyped' /\ call'.pc = "visiting"
      /\ UNCHANGED <<manifest, local, published, fetched, lockFile>>
      /\ call' = [call EXCEPT !.stack = Front(call.stack), !.records = Append(call.records, Record(Top))]
      /\ Top.rest = {} /\ Len(call.stack) > 1
  BY LeaveGoes DEF Leave, Closing, SolvesInv, CallTyped
<1>2. /\ call'.registry = call.registry /\ call'.offline = call.offline /\ call'.locked = call.locked
      /\ call'.stack = Front(call.stack) /\ call'.seen = call.seen /\ call'.records = Append(call.records, Record(Top))
  <2> DEFINE s == Front(call.stack)
             r == Append(call.records, Record(Top))
  <2>1. call' = [call EXCEPT !.stack = s, !.records = r] /\ CallTyped
    BY <1>1 DEF SolvesInv
  <2> HIDE DEF s, r
  <2>2. /\ call'.registry = call.registry /\ call'.offline = call.offline /\ call'.locked = call.locked
        /\ call'.stack = s /\ call'.seen = call.seen /\ call'.records = r
    BY <2>1 DEF CallTyped
  <2> QED BY <2>2 DEF s, r
<1>3. Leaves(w, new)
  BY <1>1, <1>2 DEF Leaves, WalkOf, WalkTop, Top
<1>4. /\ Legal /\ CallOf /\ LockKept /\ call.registry \in Registries /\ NetOK(net) /\ Declared(manifest)
      /\ WalkOK(net, manifest, w) /\ KnownTo(manifest, Met(w), w)
  BY <1>1, NetLegal DEF SolvesInv, CallOf, OnWalk, Legal
<1>5. Net' = net
  BY <1>1, <1>2 DEF Net
<1> HIDE DEF w, new, net
<1>6. WalkOK(net, manifest, new) /\ Met(new) = Met(w)
  BY <1>3, <1>4, LeavesOK
<1>7. KnownTo(manifest, Met(new), new)
  <2>1. KnownStep(Met(new), w, new)
    BY <1>3 DEF KnownStep
  <2> QED BY <1>4, <1>6, <2>1, KnownOn
<1>8. OnWalk'
  BY <1>1, <1>5, <1>6, <1>7 DEF OnWalk, new
<1>9. Legal' /\ LockKept' /\ CallOf' /\ EndedRightly'
  BY <1>1, <1>2, <1>4 DEF Legal, LockKept, CallOf, EndedRightly
<1> QED BY <1>1, <1>8, <1>9 DEF SolvesInv

LEMMA FinishSolves ==
  ASSUME SolvesInv, Finish
  PROVE  SolvesInv'
<1> DEFINE w == WalkOf(call)
           net == Net
           lock0 == [root |-> manifest, packages |-> call.records]
<1>1. /\ call.pc = "visiting" /\ UNCHANGED <<manifest, local, published, fetched>> /\ AtEnd(w)
      /\ IF Accepts(lock0)
         THEN call' = [call EXCEPT !.pc = "returned"] /\ lockFile' = lock0
         ELSE call' = [call EXCEPT !.pc = "failed"] /\ UNCHANGED lockFile
  BY DEF Finish, AtEnd, WalkOf, WalkTop, Top
<1>2. /\ CallTyped' /\ call'.registry = call.registry /\ call'.offline = call.offline /\ call'.locked = call.locked
      /\ call'.records = call.records /\ w.records = call.records
      /\ call'.pc \in {"returned", "failed"}
  BY <1>1 DEF SolvesInv, CallTyped, WalkOf
<1>3. /\ Legal /\ CallOf /\ LockKept /\ call.registry \in Registries /\ NetOK(net) /\ Declared(manifest)
      /\ WalkOK(net, manifest, w) /\ KnownTo(manifest, Met(w), w)
  BY <1>1, NetLegal DEF SolvesInv, CallOf, OnWalk, Legal
<1>4. Net' = net
  BY <1>1, <1>2 DEF Net
<1> HIDE DEF w, net
<1>5. SoundIn(net, manifest) /\ Solved(net, manifest, w.records) /\ ToSet(w.records) = {Record(f) : f \in Met(w)}
  BY <1>1, <1>3, EndsOK
<1>6. OneName(Met(w)) /\ \A f \in Met(w) : Whole(f) = f
  BY <1>3, TypedFacts, FoundsFacts DEF WalkOK, OneEach, OneName
<1>7. Legal' /\ OnWalk'
  BY <1>1, <1>2, <1>3 DEF Legal, OnWalk
<1>8. lock0.root = manifest /\ lock0.packages = w.records
  BY <1>2
<1>9. CASE Accepts(lock0)
  <2>1. call'.pc = "returned" /\ lockFile' = lock0
    BY <1>1, <1>9 DEF SolvesInv, CallTyped
  <2>2. LockKept'
    <3>1. LockMade(lock0)
      <4> HIDE DEF lock0
      <4> QED BY <1>1, <1>3, <1>5, <1>6, <1>8 DEF LockMade
    <3> QED BY <2>1, <3>1 DEF LockKept
  <2>3. EndsRightly(net, manifest, lockFile', call')
    BY <1>2, <1>5, <2>1 DEF EndsRightly
  <2>4. EndedRightly'
    BY <1>1, <1>4, <2>3 DEF EndedRightly
  <2>5. CallOf'
    <3>1. call.locked => lockFile # Absent /\ lockFile = lock0
      BY <1>1, <1>3, <1>9 DEF CallOf, Accepts
    <3> QED BY <1>2, <1>3, <2>1, <3>1 DEF CallOf
  <2> QED BY <1>2, <1>7, <2>2, <2>4, <2>5 DEF SolvesInv
<1>10. CASE ~Accepts(lock0)
  <2>1. call'.pc = "failed" /\ lockFile' = lockFile /\ call.locked /\ lockFile # lock0
    BY <1>1, <1>10 DEF Accepts, SolvesInv, CallTyped
  <2>2. lockFile # Absent /\ LockMade(lockFile)
    BY <1>1, <1>3, <2>1 DEF CallOf, LockKept
  <2>3. ~DescribedBy(net, manifest, lockFile)
    <3> SUFFICES ASSUME DescribedBy(net, manifest, lockFile) PROVE FALSE
      OBVIOUS
    <3>1. lockFile.root = manifest /\ ToSet(lockFile.packages) = ToSet(w.records)
      BY <1>5 DEF DescribedBy, Solved
    <3>2. lockFile.packages = w.records
      BY <1>1, <1>3, <1>5, <1>6, <2>2, <3>1, LocksAgree
    <3>3. lockFile = [root |-> lockFile.root, packages |-> lockFile.packages]
      BY <1>3, <2>2 DEF LockKept
    <3> QED BY <1>8, <2>1, <3>1, <3>2, <3>3
  <2>4. EndsRightly(net, manifest, lockFile', call')
    BY <1>2, <2>1, <2>3 DEF EndsRightly
  <2>5. EndedRightly' /\ LockKept' /\ CallOf'
    BY <1>1, <1>2, <1>3, <1>4, <2>1, <2>2, <2>4 DEF EndedRightly, LockKept, CallOf
  <2> QED BY <1>2, <1>7, <2>5 DEF SolvesInv
<1> QED BY <1>9, <1>10

\* A call begins: it fails without the lock it is to check, or visits the project.
LEMMA BeginSolves ==
  ASSUME SolvesInv, BeginCall
  PROVE  SolvesInv'
<1> DEFINE net == Net
<1>1. /\ UNCHANGED <<manifest, local, published, fetched, lockFile>> /\ CallTyped' /\ Legal /\ LockKept
      /\ \/ call'.pc = "failed" /\ call'.registry = Absent
         \/ call'.pc = "visiting" /\ WalkOf(call') = WalkStart(World)
  BY Begun DEF BeginCall, SolvesInv
<1>2. Legal' /\ LockKept'
  BY <1>1 DEF Legal, LockKept
<1>3. WalkStart(World) = StartWalk(manifest)
  BY DEF WalkStart, StartWalk, World, Start
<1>4. CASE call'.pc = "failed" /\ call'.registry = Absent
  BY <1>1, <1>2, <1>4 DEF SolvesInv, CallOf, OnWalk, EndedRightly
<1>5. CASE call'.pc = "visiting" /\ WalkOf(call') = WalkStart(World)
  <2>1. call'.registry \in Registries /\ (call'.locked => lockFile # Absent)
    <3>1. PICK locked \in BOOLEAN, offline \in BOOLEAN, from \in Registries :
            call' = IF locked /\ lockFile = Absent THEN [NoCall EXCEPT !.pc = "failed", !.locked = TRUE]
                    ELSE [NoCall EXCEPT !.pc = "visiting", !.locked = locked, !.offline = offline,
                                        !.registry = from, !.stack = <<Frame(RootPackage, Absent)>>]
      BY DEF BeginCall
    <3> DEFINE start == <<Frame(RootPackage, Absent)>>
    <3>2. ~(locked /\ lockFile = Absent)
      <4> SUFFICES ASSUME locked /\ lockFile = Absent PROVE FALSE
        OBVIOUS
      <4>1. call' = [NoCall EXCEPT !.pc = "failed", !.locked = TRUE]
        BY <3>1
      <4> QED BY <1>5, <4>1 DEF NoCall
    <3>3. call' = [NoCall EXCEPT !.pc = "visiting", !.locked = locked, !.offline = offline, !.registry = from, !.stack = start]
      BY <3>1, <3>2
    <3> HIDE DEF start
    <3>4. call'.registry = from /\ call'.locked = locked
      BY <3>3 DEF NoCall
    <3> QED BY <3>2, <3>4
  <2>2. CallOf' /\ EndedRightly'
    BY <1>1, <1>5, <2>1 DEF CallOf, EndedRightly
  <2> DEFINE new == Net'
             w == WalkOf(call')
  <2>3. NetOK(new) /\ Declared(manifest)
    BY <1>1, <2>1 DEF NetOK, Net, Legal
  <2>4. w = StartWalk(manifest)
    BY <1>3, <1>5
  <2> HIDE DEF new, w
  <2>5. WalkOK(new, manifest, w) /\ Met(w) = {}
    BY <2>3, <2>4, StartsOK DEF StartWalk
  <2>6. KnownTo(manifest, Met(w), w)
    <3> DEFINE h == [i \in {0} |-> w]
    <3>1. h[0] = w /\ \A i \in 0 .. 0 - 1 : FALSE
      OBVIOUS
    <3>2. KnownWalk(manifest, Met(w), h, 0)
      BY <2>4, <3>1 DEF KnownWalk
    <3> QED BY <3>1, <3>2 DEF KnownTo
  <2>7. OnWalk'
    BY <1>1, <2>5, <2>6 DEF OnWalk, new, w
  <2> QED BY <1>1, <1>2, <2>2, <2>7 DEF SolvesInv
<1> QED BY <1>1, <1>4, <1>5

\* A change leaves no call; what it changes is as it can be.
LEMMA ChangeSolves ==
  ASSUME SolvesInv, EditManifest \/ EditDirectory \/ Move
  PROVE  SolvesInv'
<1>1. call' = NoCall /\ lockFile' = lockFile /\ published' = published
  BY DEF EditManifest, EditDirectory, Move, Change
<1>2. CallTyped' /\ CallOf' /\ OnWalk' /\ EndedRightly'
  BY <1>1 DEF NoCall, CallTyped, CallOf, OnWalk, EndedRightly
<1>3. LockKept'
  BY <1>1 DEF SolvesInv, LockKept
<1>4. Legal'
  <2>1. Legal
    BY DEF SolvesInv
  <2>2. CASE EditManifest
    <3>1. manifest' \in Manifests /\ UNCHANGED <<local, published>>
      BY <2>2 DEF EditManifest
    <3> QED BY <2>1, <3>1, ResolutionAssumption DEF Legal
  <2>3. CASE Move
    BY <2>1, <2>3 DEF Move, Legal
  <2>4. CASE EditDirectory
    <3>1. PICK d \in Directories : \E package \in Edits[d] \ {local[d]} : local' = [local EXCEPT ![d] = package]
      BY <2>4 DEF EditDirectory
    <3>2. PICK package \in Edits[d] : local' = [local EXCEPT ![d] = package]
      BY <3>1
    <3>3. Declared(package.deps)
      BY <3>2, ResolutionAssumption
    <3>4. DOMAIN local' = Directories /\ \A e \in Directories : local'[e] = IF e = d THEN package ELSE local[e]
      BY <2>1, <3>2 DEF Legal
    <3>5. UNCHANGED <<manifest, published>>
      BY <2>4 DEF EditDirectory
    <3> QED BY <2>1, <3>3, <3>4, <3>5 DEF Legal
  <2> QED BY <2>2, <2>3, <2>4
<1> QED BY <1>2, <1>3, <1>4 DEF SolvesInv

LEMMA SolvesInit ==
  ASSUME ResolutionInit
  PROVE  SolvesInv
<1>1. PICK world \in Worlds : ResolutionStarts(world)
  BY DEF ResolutionInit
<1>2. Legal
  BY <1>1, ResolutionAssumption DEF Legal, ResolutionStarts
<1>3. call = NoCall /\ lockFile = Absent
  BY <1>1 DEF ResolutionStarts
<1>4. CallTyped /\ CallOf /\ OnWalk /\ LockKept /\ EndedRightly
  BY <1>3 DEF NoCall, CallTyped, CallOf, OnWalk, LockKept, EndedRightly
<1> QED BY <1>2, <1>4 DEF SolvesInv

LEMMA SolvesNext ==
  ASSUME SolvesInv, [ResolutionNext]_resolutionVars
  PROVE  SolvesInv'
<1>1. CASE UNCHANGED resolutionVars
  <2>1. Net' = Net
    BY <1>1 DEF Net, resolutionVars
  <2> QED BY <1>1, <2>1 DEF SolvesInv, CallTyped, Legal, CallOf, OnWalk, LockKept, EndedRightly, resolutionVars
<1> QED BY <1>1, BeginSolves, VisitSolves, LeaveSolves, FinishSolves, ChangeSolves DEF ResolutionNext, Resolve

\* The graph as the property has it, and as the invariant has it.
LEMMA ReachedIs ==
  ASSUME Legal, NetOK(Net)
  PROVE  /\ Reached = Under(Net, Start(manifest))
         /\ SoundIn(Net, manifest) <=> ~Broken(Reached) /\ ~Conflicting(Reached) /\ ~Cyclic(Reached) /\ ~Unfit(Reached)
<1> DEFINE net == Net
           b == Start(manifest)
           U == Under(net, b)
<1>1. Frame(RootPackage, Absent) = b
  BY DEF RootPackage, Start
<1>2. Declared(b.package.deps) /\ b.package.deps = manifest
  BY StartFacts DEF Legal
<1>3. Reached = U
  <2>1. AllBelow(b) = Under(Net, b)
    BY <1>2, AllBelowIs
  <2> QED BY <1>1, <2>1 DEF Reached
<1>4. \A f \in U : Declared(f.package.deps)
  BY <1>2, UnderFacts, FoundsFacts
<1>5. ASSUME NEW f \in U PROVE AllBelow(f) = Under(net, f)
  BY <1>4, <1>5, AllBelowIs
<1>6. Broken(Reached) <=> BrokenIn(net, manifest)
  <2>1. \A name, spec : Child(name, spec) = Found(Net, name, spec)
    BY DEF Child, Found, Net
  <2>2. \A f : (\E link \in Links(f) : Child(link[1], link[2]) = Absent)
             <=> \E name \in DOMAIN f.package.deps : Found(net, name, f.package.deps[name]) = Absent
    <3> TAKE f
    <3>1. \A name : <<name, f.package.deps[name]>>[1] = name /\ <<name, f.package.deps[name]>>[2] = f.package.deps[name]
      OBVIOUS
    <3>2. \A name \in DOMAIN f.package.deps : <<name, f.package.deps[name]>> \in Links(f)
      BY DEF Links
    <3>3. \A link \in Links(f) : \E name \in DOMAIN f.package.deps : link = <<name, f.package.deps[name]>>
      BY DEF Links
    <3>4. \A link \in Links(f) : \E name \in DOMAIN f.package.deps : link[1] = name /\ link[2] = f.package.deps[name]
      BY <3>1, <3>3
    <3>5. \A name \in DOMAIN f.package.deps : \E link \in Links(f) : link[1] = name /\ link[2] = f.package.deps[name]
      BY <3>1, <3>2
    <3> QED BY <2>1, <3>4, <3>5
  <2> HIDE DEF net, b
  <2> QED BY <1>1, <1>3, <2>2 DEF Broken, BrokenIn, b
<1>7. Cyclic(Reached) <=> \E f \in U : f.package.name = Root \/ f \in Under(net, f)
  BY <1>3, <1>5 DEF Cyclic
<1> HIDE DEF net
<1>8. SoundIn(net, manifest) <=> ~Broken(Reached) /\ ~Conflicting(Reached) /\ ~Cyclic(Reached) /\ ~Unfit(Reached)
  BY <1>3, <1>6, <1>7 DEF SoundIn
<1> QED BY <1>3, <1>8 DEF net

LEMMA InvSolves ==
  ASSUME SolvesInv
  PROVE  SolvesExactly
<1> DEFINE net == Net
           U == Under(net, Start(manifest))
<1>1. /\ call.pc = "returned" => SoundIn(net, manifest) /\ Solved(net, manifest, call.records)
                                 /\ lockFile = [root |-> manifest, packages |-> call.records] /\ (call.locked => lockFile # Absent)
      /\ call.pc = "failed" /\ call.registry # Absent =>
           ~(SoundIn(net, manifest) /\ (call.locked => DescribedBy(net, manifest, lockFile)))
  BY DEF SolvesInv, EndedRightly, EndsRightly, CallOf
<1>2. CASE call.pc = "returned"
  <2>1. NetOK(Net) /\ Legal
    BY <1>2, NetLegal DEF SolvesInv, CallOf
  <2>2. Reached = U /\ ~Broken(Reached) /\ ~Conflicting(Reached) /\ ~Cyclic(Reached) /\ ~Unfit(Reached)
    BY <1>1, <1>2, <2>1, ReachedIs
  <2>3. lockFile.root = manifest /\ lockFile.packages = call.records
    BY <1>1, <1>2
  <2>4. /\ ToSet(call.records) = {Record(f) : f \in U}
        /\ \A i, j \in DOMAIN call.records : call.records[i].name = call.records[j].name => i = j
        /\ \A i \in DOMAIN call.records : \A name \in DOMAIN call.records[i].sha256.deps :
             \E j \in DOMAIN call.records : j < i /\ call.records[j].name = name
    BY <1>1, <1>2 DEF Solved
  <2> HIDE DEF U
  <2>5. call.locked => Describes(Reached)
    BY <1>1, <1>2, <2>2, <2>3, <2>4 DEF Describes
  <2>6. ExactlySound
    BY <1>2, <2>2, <2>5 DEF ExactlySound
  <2>7. ASSUME NEW i \in DOMAIN call.records, NEW name \in DOMAIN call.records[i].sha256.deps
        PROVE  (CHOOSE j \in DOMAIN call.records : call.records[j].name = name) < i
    <3>1. PICK j \in DOMAIN call.records : j < i /\ call.records[j].name = name
      BY <2>4, <2>7
    <3>2. (CHOOSE k \in DOMAIN call.records : call.records[k].name = name) = j
      BY <2>4, <3>1
    <3> QED BY <3>1, <3>2
  <2>8. DependenciesFirst
    BY <2>2, <2>3, <2>4, <2>7 DEF DependenciesFirst
  <2> QED BY <2>6, <2>8 DEF SolvesExactly
<1>3. CASE call.pc = "failed" /\ call.registry # Absent
  <2>1. NetOK(Net) /\ Legal
    BY <1>3, NetLegal DEF SolvesInv, CallOf
  <2>2. Reached = U /\ (SoundIn(net, manifest) <=> ~Broken(Reached) /\ ~Conflicting(Reached) /\ ~Cyclic(Reached) /\ ~Unfit(Reached))
    BY <2>1, ReachedIs
  <2>3. Describes(Reached) => DescribedBy(net, manifest, lockFile)
    BY <2>2 DEF Describes, DescribedBy
  <2> HIDE DEF U, net
  <2>4. ExactlySound
    BY <1>1, <1>3, <2>2, <2>3 DEF ExactlySound
  <2> QED BY <1>3, <2>4 DEF SolvesExactly, DependenciesFirst
<1>4. CASE call.pc # "returned" /\ ~(call.pc = "failed" /\ call.registry # Absent)
  BY <1>4 DEF SolvesExactly, DependenciesFirst, ExactlySound
<1> QED BY <1>2, <1>3, <1>4

\* Every call that ends has solved the graph it found exactly: it returns all
\* the packages that are needed, each after its own, when they can be had and
\* agree, and it fails when they cannot or the lockFile to be checked is
\* another (scrate.py:484-522).
THEOREM ResolvesExactly == ResolutionSpec => []SolvesExactly
<1>1. ResolutionSpec => []SolvesInv
  <2>1. SolvesInv /\ [ResolutionNext]_resolutionVars => SolvesInv'
    BY SolvesNext
  <2> QED BY SolvesInit, <2>1, PTL DEF ResolutionSpec
<1> QED BY <1>1, InvSolves, PTL
=============================================================================
