---------------------------- MODULE PackageCache ----------------------------
(***************************************************************************)
(* One version of one package (tools/scrate.py): published by packers into *)
(* a static registry, installed by several projects through one cache.     *)
(* Packers and installers are processes that may be killed between any two *)
(* operations on files; a file is replaced or linked at once, a directory  *)
(* is removed entry by entry.                                              *)
(*                                                                         *)
(* A build stands for the bytes of an archive and for their SHA256.        *)
(***************************************************************************)
EXTENDS Naturals, FiniteSets

CONSTANTS Builds,       \* what the version may have been packed from
          None,
          Files,        \* the files of the package
          Manifest,     \* the one that is loaded
          Packers, Installers,
          MaxDamage,    \* how often something is damaged or changed by hand
          MaxCrashes

ASSUME PackageAssumption == None \notin Builds /\ Manifest \in Files

VARIABLES zip, index,        \* the registry: archive and metadata of the version
          archive, packages, \* the cache, by digest
          receipt,           \* the cache: the digest the version was installed with
          lock,              \* each project's scrate.lock
          packer, installer, \* the processes
          disturbed,         \* installers whose package another actor wrote to
          damages, crashes

registry == <<zip, index>>
cache == <<archive, packages, receipt>>
vars == <<registry, cache, lock, packer, installer, disturbed, damages, crashes>>

Foreign == "foreign"   \* a file that is not the package's, or not as it was
NoDirectory == [present |-> FALSE, files |-> {}]
Directory(files) == [present |-> TRUE, files |-> files]
Idle == [pc |-> "idle", offline |-> FALSE, known |-> None, digest |-> None, listed |-> {}]
Resting == {"idle", "returned"}

Unpacked == [pc |-> "idle", build |-> None]

Init ==
  /\ zip = None /\ index = None
  /\ archive = [d \in Builds |-> "absent"]
  /\ packages = [d \in Builds |-> NoDirectory]
  /\ receipt = None
  /\ lock = [i \in Installers |-> None]
  /\ packer = [p \in Packers |-> Unpacked]
  /\ installer = [i \in Installers |-> Idle]
  /\ disturbed = {}
  /\ damages = 0 /\ crashes = 0

-----------------------------------------------------------------------------
(* pack *)
StartPack(p) ==
  /\ packer[p].pc = "idle"
  /\ \E b \in Builds : packer' = [packer EXCEPT ![p] = [pc |-> "zip", build |-> b]]
  /\ UNCHANGED <<registry, cache, lock, installer, disturbed, damages, crashes>>

\* Mutant: the file is replaced like any other.
ImmutableWriteReplacing(file, content) == TRUE

\* _immutable_write: a link that never replaces; other content is refused.
ImmutableWrite(file, content) == file \in {None, content}

\* Each packer packs once, and again only if it was killed.
Ended == [pc |-> "ended", build |-> None]

Pack(p, step, file, next) ==
  /\ packer[p].pc = step
  /\ packer' = [packer EXCEPT ![p] = IF ImmutableWrite(file, packer[p].build) THEN next ELSE Ended]
  /\ UNCHANGED <<cache, lock, installer, disturbed, damages, crashes>>

Published(file, content) == IF ImmutableWrite(file, content) THEN content ELSE file

PackZip(p) ==
  /\ Pack(p, "zip", zip, [packer[p] EXCEPT !.pc = "index"])
  /\ zip' = Published(zip, packer[p].build)
  /\ UNCHANGED index

PackIndex(p) ==
  /\ Pack(p, "index", index, Ended)
  /\ index' = Published(index, packer[p].build)
  /\ UNCHANGED zip

-----------------------------------------------------------------------------
(* resolve and _cached_package *)
Go(i, pc) == installer' = [installer EXCEPT ![i].pc = pc]
Fail(i) == installer' = [installer EXCEPT ![i] = Idle]
Return(i) == installer' = [installer EXCEPT ![i] = [Idle EXCEPT !.pc = "returned"]]
\* The package an installer works on, or has returned.
Package(i) == IF installer[i].pc = "returned" THEN lock[i] ELSE installer[i].digest

\* The lock and the receipt are read.
Begin(i) ==
  /\ installer[i].pc \in Resting
  /\ \E offline \in BOOLEAN :
       installer' = [installer EXCEPT ![i] = [Idle EXCEPT !.pc = "look", !.offline = offline, !.known = receipt]]
  /\ UNCHANGED <<registry, cache, lock, packer, disturbed, damages, crashes>>

\* Which build: the lock says, or offline the receipt, or the registry.
Candidate(i) ==
  CASE lock[i] # None -> lock[i]
    [] lock[i] = None /\ installer[i].offline -> installer[i].known
    [] OTHER -> index

\* There is no such version, or it is not the one installed before.
Refused(known, digest) == digest = None \/ known \notin {None, digest}

LookUp(i) ==
  /\ installer[i].pc = "look"
  /\ LET digest == Candidate(i) IN
     IF Refused(installer[i].known, digest) THEN Fail(i)
     ELSE installer' = [installer EXCEPT ![i].pc = "fetch", ![i].digest = digest]
  /\ UNCHANGED <<registry, cache, lock, packer, disturbed, damages, crashes>>

\* The cached archive if its digest is right, or else a download of it.
Fetch(i) ==
  /\ installer[i].pc = "fetch"
  /\ LET d == installer[i].digest IN
     IF archive[d] = "good" THEN Go(i, "compare") /\ UNCHANGED archive
     ELSE IF installer[i].offline \/ zip # d THEN Fail(i) /\ UNCHANGED archive
     ELSE Go(i, "compare") /\ archive' = [archive EXCEPT ![d] = "good"]
  /\ UNCHANGED <<registry, packages, receipt, lock, packer, disturbed, damages, crashes>>

\* Mutant: a directory that is there is taken for the package.
IntactIfPresent(directory) == directory.present

Intact(directory) == directory = Directory(Files)

\* Is the extracted tree what the archive holds?
Compare(i) ==
  /\ installer[i].pc = "compare"
  /\ Go(i, IF Intact(packages[installer[i].digest]) THEN "load" ELSE "clear")
  /\ disturbed' = disturbed \ {i}
  /\ UNCHANGED <<registry, cache, lock, packer, damages, crashes>>

\* The files are extracted beside it; what is in their place is listed.
Clear(i) ==
  /\ installer[i].pc = "clear"
  /\ LET there == packages[installer[i].digest] IN
     installer' = [installer EXCEPT ![i].pc = IF there.present THEN "remove" ELSE "place", ![i].listed = there.files]
  /\ UNCHANGED <<registry, cache, lock, packer, disturbed, damages, crashes>>

WritePackage(i, directory) ==
  /\ packages' = [packages EXCEPT ![installer[i].digest] = directory]
  /\ disturbed' = disturbed \cup {j \in Installers \ {i} : Package(j) = installer[i].digest}
  /\ UNCHANGED <<registry, archive, receipt, lock, packer, damages, crashes>>

NoWrite == UNCHANGED <<registry, cache, lock, packer, disturbed, damages, crashes>>

\* shutil.rmtree removes what it listed.  What another process has removed
\* already is an error before Python 3.13, and skipped since.
Unlink(i) ==
  /\ installer[i].pc = "remove"
  /\ \E f \in installer[i].listed :
       LET there == packages[installer[i].digest]
           skip == installer' = [installer EXCEPT ![i].listed = @ \ {f}] IN
       IF f \in there.files THEN skip /\ WritePackage(i, Directory(there.files \ {f}))
       ELSE (skip \/ Fail(i)) /\ NoWrite

RemoveDirectory(i) ==
  /\ installer[i].pc = "remove" /\ installer[i].listed = {}
  /\ LET there == packages[installer[i].digest] IN
     IF there = Directory({}) THEN Go(i, "place") /\ WritePackage(i, NoDirectory)
     ELSE (Fail(i) \/ (~there.present /\ Go(i, "place"))) /\ NoWrite

\* os.replace moves a directory only where none is, or an empty one.
Place(i) ==
  /\ installer[i].pc = "place"
  /\ IF packages[installer[i].digest].files = {} THEN Go(i, "load") /\ WritePackage(i, Directory(Files))
     ELSE Fail(i) /\ NoWrite

\* Whether the installer finds these files of the package.
Finds(i, files) == files \subseteq packages[installer[i].digest].files

Load(i) ==
  /\ installer[i].pc = "load"
  /\ IF Finds(i, {Manifest}) THEN Go(i, "validate") ELSE Fail(i)
  /\ NoWrite

\* _validate_tree: the files the manifest names must be there.
Validate(i) ==
  /\ installer[i].pc = "validate"
  /\ IF Finds(i, Files) THEN Go(i, "receipt") ELSE Fail(i)
  /\ NoWrite

WriteReceipt(i) ==
  /\ installer[i].pc = "receipt"
  /\ receipt' = installer[i].digest
  /\ Go(i, "lock")
  /\ UNCHANGED <<registry, archive, packages, lock, packer, disturbed, damages, crashes>>

\* resolve loads the manifest again, and writes the lock if it has changed.
WriteLock(i) ==
  /\ installer[i].pc = "lock"
  /\ IF Finds(i, {Manifest})
     THEN Return(i) /\ lock' = [lock EXCEPT ![i] = installer[i].digest]
     ELSE Fail(i) /\ UNCHANGED lock
  /\ UNCHANGED <<registry, cache, packer, disturbed, damages, crashes>>

-----------------------------------------------------------------------------
(* What else happens: killed processes, files damaged or changed by hand. *)
Crash ==
  /\ crashes < MaxCrashes
  /\ crashes' = crashes + 1
  /\ \/ \E i \in Installers : installer[i].pc \notin Resting /\ Fail(i) /\ UNCHANGED packer
     \/ \E p \in Packers : packer[p].pc \in {"zip", "index"} /\ packer' = [packer EXCEPT ![p] = Unpacked]
                           /\ UNCHANGED installer
  /\ UNCHANGED <<registry, cache, lock, disturbed, damages>>

Damaged == damages < MaxDamage /\ damages' = damages + 1

DamageArchive ==
  /\ Damaged
  /\ \E d \in Builds : archive[d] = "good" /\ archive' = [archive EXCEPT ![d] = "bad"]
  /\ UNCHANGED <<registry, packages, receipt, lock, packer, installer, disturbed, crashes>>

DamagePackage ==
  /\ Damaged
  /\ \E d \in Builds : /\ packages[d].present
                       /\ \/ packages' = [packages EXCEPT ![d].files = @ \cup {Foreign}]
                          \/ \E f \in packages[d].files : packages' = [packages EXCEPT ![d].files = @ \ {f}]
  /\ disturbed' = Installers
  /\ UNCHANGED <<registry, archive, receipt, lock, packer, installer, crashes>>

\* The static registry's files are exchanged for another build.
Republish ==
  /\ Damaged
  /\ index # None
  /\ \E b \in Builds \ {index} : zip' = b /\ index' = b
  /\ UNCHANGED <<cache, lock, packer, installer, disturbed, crashes>>

Next ==
  \/ \E p \in Packers : StartPack(p) \/ PackZip(p) \/ PackIndex(p)
  \/ \E i \in Installers : Begin(i) \/ LookUp(i) \/ Fetch(i) \/ Compare(i) \/ Clear(i) \/ Unlink(i)
                           \/ RemoveDirectory(i) \/ Place(i) \/ Load(i) \/ Validate(i) \/ WriteReceipt(i) \/ WriteLock(i)
  \/ Crash \/ DamageArchive \/ DamagePackage \/ Republish

Spec == Init /\ [][Next]_vars

-----------------------------------------------------------------------------
Working == {"fetch", "compare", "clear", "remove", "place", "load", "validate", "receipt", "lock"}
Digests == Builds \cup {None}
Entries == Files \cup {Foreign}

\* The types, and what a process has at a step: an installer past its look-up
\* has a build to work on, a packer that writes one to publish; a directory
\* that is not there holds no files.
TypeOK ==
  /\ zip \in Digests /\ index \in Digests /\ receipt \in Digests
  /\ archive \in [Builds -> {"absent", "good", "bad"}]
  /\ packages \in [Builds -> [present : BOOLEAN, files : SUBSET Entries]]
  /\ \A d \in Builds : ~packages[d].present => packages[d].files = {}
  /\ lock \in [Installers -> Digests]
  /\ packer \in [Packers -> [pc : {"idle", "zip", "index", "ended"}, build : Digests]]
  /\ installer \in [Installers -> [pc : Resting \cup {"look"} \cup Working, offline : BOOLEAN,
                                   known : Digests, digest : Digests, listed : SUBSET Entries]]
  /\ \A p \in Packers : packer[p].pc \in {"zip", "index"} => packer[p].build \in Builds
  /\ \A i \in Installers : installer[i].pc \in Working => installer[i].digest \in Builds

\* Whatever names a build leads to its bytes, whoever published at the same
\* time and whoever was killed on the way: the index to the registry's archive
\* (pack), the receipt and the locks to an archive of the cache, so that what
\* was installed once can be installed again offline (_cached_package, resolve).
Backed ==
  /\ index # None => zip = index
  /\ \A d \in {receipt} \cup {lock[i] : i \in Installers} : d # None => archive[d] # "absent"

\* An installation that succeeds hands out the whole package and nothing else,
\* whatever earlier runs left behind in the cache, unless another process or
\* damage touched the package after it was compared (_cached_package).
InstalledWhole ==
  \A i \in Installers :
    installer[i].pc = "returned" =>
      \/ packages[lock[i]] = Directory(Files)
      \/ i \in disturbed
=============================================================================
