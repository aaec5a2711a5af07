\* What README.md:117 says of install.
CONSTANTS
    Versions = {"v1", "v2"}
    Owned = {"own", "own-kboard"}
    WithKboard = {"own-kboard", "env-kboard"}
    Accepts <- MCAccepts
    MaxCommands = 1
    MaxBoots = 0
    MaxReleases = 0
CHECK_DEADLOCK FALSE
SPECIFICATION Spec
PROPERTY
    InstallKeepsReadyConfig
