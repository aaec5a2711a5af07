\* What install.sh:484 and 696 say of a configuration that is overwritten.
CONSTANTS
    Versions = {"v1", "v2"}
    Owned = {"own", "own-kboard"}
    WithKboard = {"own-kboard", "env-kboard"}
    Accepts <- MCAccepts
    MaxCommands = 1
    MaxBoots = 0
    MaxReleases = 0
CHECK_DEADLOCK FALSE
SPECIFICATION Spec
PROPERTY
    OverwrittenIsBackedUp
