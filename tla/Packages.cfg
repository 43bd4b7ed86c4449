SPECIFICATION PackagesSpec
CONSTANTS
  build1 = build1  build2 = build2
  packer1 = packer1  packer2 = packer2
  project1 = project1  project2 = project2
  None = None
  Builds = {build1, build2}
  Packers = {packer1, packer2}
  Installers = {project1, project2}
  Files = {"sCrpp.toml", "main.cpp"}
  Manifest = "sCrpp.toml"
  MaxDamage = 1
  MaxCrashes = 1
  Order <- MCOrder
  Versions <- MCVersions
  Registries = {"r1", "r2"}
  Directories <- MCDirectories
  Root = "app"
  Abi = "abi-1"
  Worlds <- MCWorlds
  Manifests <- MCManifests
  Edits <- MCEdits
  MaxInstalls = 3
  MaxChanges = 2
  Absent = Absent
SYMMETRY MCSymmetry
INVARIANTS Backed InstalledWhole SolvesExactly RepeatsOffline
