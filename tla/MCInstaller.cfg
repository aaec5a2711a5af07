\* Three commands, each of them from the command line or the menu, with a
\* reboot and a new release at any time.
CONSTANTS
    Versions = {"v1", "v2"}
    Owned = {"own", "own-kboard"}
    WithKboard = {"own-kboard", "env-kboard"}
    Accepts <- MCAccepts
    MaxCommands = 3
    MaxBoots = 1
    MaxReleases = 1
\* A host on which no command is left to run may rest.
CHECK_DEADLOCK FALSE
SPECIFICATION Spec
INVARIANTS
    TypeOK
    ChangesTakeEffect
PROPERTIES
    ConfigIsKept
    NodeStaysUp
